------------------------------- MODULE Player -------------------------------
(***************************************************************************)
(* web/src/player: a presentation.  useClock counts the time of the scene  *)
(* on the screen, frame by frame, and stops at its duration; ScenePlayer   *)
(* moves between scenes.  In mode "auto" a timer, armed while a scene has  *)
(* ended, moves on by itself; in mode "hold" only the viewer does.         *)
(***************************************************************************)
EXTENDS Integers, Sequences

CONSTANTS
    Duration,       \* of each scene, in frames
    Modes,          \* the modes players are mounted with
    MaxPresses      \* bound: keys pressed and buttons clicked

ASSUME PlayerConstants ==
    /\ Duration \in Seq(Nat \ {0}) /\ Duration # << >>
    /\ Modes \subseteq {"hold", "auto"} /\ MaxPresses \in Nat

VARIABLES
    mode,
    index,      \* the scene on the screen
    t,          \* its clock
    running,    \* playing: frames are requested
    presses     \* history: what the viewer did so far

playerVars == <<mode, index, t, running, presses>>

Count == Len(Duration)

PlayerInit ==
    /\ mode \in Modes
    /\ index = 1
    /\ t = 0
    /\ running = TRUE
    /\ presses = 0

\* The clock of the present scene has come to its end.
ended == t >= Duration[index]

Pressed == presses < MaxPresses /\ presses' = presses + 1 /\ mode' = mode

\* A frame: dt later, and at the end the clock stops itself.
Frame(dt) ==
    /\ running
    /\ IF t + dt >= Duration[index] THEN t' = Duration[index] /\ running' = FALSE
       ELSE t' = t + dt /\ running' = TRUE
    /\ UNCHANGED <<mode, index, presses>>

replay == t' = 0 /\ running' = TRUE

go(i) == index' = i /\ replay

\* The scene before or after, by arrow, click or button; Home, End and the tabs.
GoTo(i) == Pressed /\ go(i)

\* Next on the last scene jumps to its end, whether the clock runs or not.
NextAtLast == Pressed /\ index = Count /\ t' = Duration[index] /\ UNCHANGED <<index, running>>

Replay == Pressed /\ replay /\ index' = index

\* Pause, or play: from the start when the scene has ended.
Toggle ==
    /\ Pressed
    /\ running' = ~running
    /\ t' = IF ~running /\ ended THEN 0 ELSE t
    /\ UNCHANGED index

\* The scrubber.
Seek(to) == Pressed /\ t' = to /\ UNCHANGED <<index, running>>

\* The timer fires.
AutoAdvance ==
    /\ mode = "auto" /\ ended /\ index < Count
    /\ go(index + 1)
    /\ UNCHANGED <<mode, presses>>

PlayerNext ==
    \/ \E dt \in 1 .. 2 : Frame(dt)
    \/ \E i \in 1 .. Count : GoTo(i)
    \/ NextAtLast \/ Replay \/ Toggle
    \/ \E to \in 0 .. Duration[index] : Seek(to)
    \/ AutoAdvance
=============================================================================
