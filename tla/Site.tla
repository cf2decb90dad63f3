-------------------------------- MODULE Site --------------------------------
(***************************************************************************)
(* web/src/App.jsx: one page is mounted at a time.  A page that is left is *)
(* unmounted: its state and its timers are gone, and the next visit starts *)
(* anew.  Of the pages, the playground and a presentation are modelled.    *)
(***************************************************************************)
EXTENDS Playground, Player

VARIABLE route

vars == <<route, pgVars, playerVars>>

PgGone ==
    /\ hist' = <<createWorld>> /\ shown' = createWorld /\ browsing' = FALSE /\ playing' = FALSE
    /\ payoutFailed' = FALSE /\ clicks' = 0 /\ last' = "back"

PlayerGone(m) == mode' = m /\ index' = 1 /\ t' = 0 /\ running' = FALSE /\ presses' = 0

PlayerGoneAtFirst == mode = "hold" /\ index = 1 /\ t = 0 /\ running = FALSE /\ presses = 0

Init ==
    /\ route = "/demo"
    /\ PgInit
    /\ PlayerGoneAtFirst

OnDemo == route = "/demo" /\ PgNext /\ UNCHANGED <<route, playerVars>>

OnSlides == route = "/slides" /\ PlayerNext /\ UNCHANGED <<route, pgVars>>

ToSlides ==
    /\ route = "/demo" /\ route' = "/slides"
    /\ PgGone
    /\ mode' \in Modes /\ index' = 1 /\ t' = 0 /\ running' = TRUE /\ presses' = 0

ToDemo ==
    /\ route = "/slides" /\ route' = "/demo"
    /\ PgGone /\ PlayerGone("hold")

Next == OnDemo \/ OnSlides \/ ToSlides \/ ToDemo

Spec == Init /\ [][Next]_vars

\* What runs by itself: intervals, renders, frames and timers of the open page.
Background ==
    \/ route = "/demo" /\ UNCHANGED <<route, playerVars>> /\ (Tick \/ Render)
    \/ route = "/slides" /\ UNCHANGED <<route, pgVars>>
       /\ (AutoAdvance \/ \E dt \in 1 .. 2 : Frame(dt))

(***************************************************************************)
(* Fairness: the browser's event loop runs what is due on the open page.   *)
(***************************************************************************)
FairSpec == Spec /\ WF_vars(Background)

-----------------------------------------------------------------------------
\* Whatever plays by itself comes to its end.  The interval serves to the end of
\* the session or of its credit, and stops; a presentation in mode "auto" goes
\* on to the end of its last scene, and rests earlier only where it was paused.
PlayingEnds ==
    playing \/ (mode = "auto" /\ running)
        ~> ~playing /\ ~running /\ (mode = "auto" /\ ended => index = Count)
=============================================================================
