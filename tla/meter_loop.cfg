\* Both builds at their real time scale, the right line settings tried last.
SPECIFICATION Spec
CONSTANTS
    Sources = {"uart", "sim"}
    Gap = 10
    Watchdog = 25
    MaxCycle = 46
    ReadMax = 5
    RxBuffer = 23
    SimGap = 50
    Lines = 4
    RightLine = 3
    Noise = FALSE
    ChanceFrames = 1
    MaxStall = 8
    ClockMod = 56
    MinTelegram = 7
    MaxTelegram = 11
    MaxTrickle = 1
    MaxPause = 2
    MinSilence = 12
INVARIANTS
    TypeOK
    PromptDecode
    PassBounded
    LocksOn
PROPERTY DecodesWhole
