\* Three clicks, and the ticks between them; three scenes in both modes.
SPECIFICATION FairSpec
CONSTANTS
    DEFAULT_PARAMS <- SmallParams
    Wealth <- SmallWealth
    UKES = 10
    Forms <- SmallForms
    DefaultForms <- SmallDefaults
    PlayFrom <- BeforeAndAtBrowse
    ConsoleCalls <- SomeCalls
    MaxHistory = 2
    MaxClicks = 3
    Duration <- ThreeScenes
    Modes <- BothModes
    MaxPresses = 2
INVARIANTS
    BooksBalance
    ShownMoneyIsCurrent
    CreditKept
    ReceiptsKeepUp
PROPERTIES
    PegKept
    LostPhoneSpendsNothing
    PlayingEnds
\* The clicks and the presses are bounded.
CHECK_DEADLOCK FALSE
