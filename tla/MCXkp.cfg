\* Losses that let a frame run out of tries, a medium into quarantine, and any
\* medium be cut for good; the interval is met in the middle of an upload.
SPECIFICATION Spec
CONSTANTS
    plc = plc
    lora = lora
    NoMedium = noMedium
    Media = {plc, lora}
    Mtu <- MCMtu
    Upload = 4
    ReceiptEvery = 2
    Window = 2
    MaxTries = 3
    Streak = 2
    MaxLosses = 3
INVARIANTS
    CountedOnce
    ExposureBounded
    DoneIsProven
PROPERTIES
    Completes
CHECK_DEADLOCK FALSE
