\* Two posts of one address at once, and two restarts.
SPECIFICATION Spec
CONSTANTS
    b1 = b1
    b2 = b2
    home = home
    legal = legal
    investor = investor
    owner = owner
    s1 = s1
    s2 = s2
    DEFAULT_NAME = owner
    NoToken = NoToken
    NoSecret = NoSecret
    Secrets = {s1, s2}
    Browsers = {b1, b2}
    Names = {legal, investor}
    Passwords = {"open", "l1", "l2", "i1"}
    Address <- OneAddress
    Files <- FourFiles
    TTL = 2
    RATE_LIMIT = 2
    RATE_WINDOW = 2
    MaxTime = 3
    MaxRestarts = 2
    MaxGuesses = 3
INVARIANTS
    SessionIsEarned
    OthersKeepTheirSessions
    GuessesBounded
\* The clock, the restarts and the guesses are bounded.
CHECK_DEADLOCK FALSE
