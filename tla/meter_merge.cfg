\* A publish that blocks for four seconds, inside the watchdog timeout.
SPECIFICATION Spec
CONSTANTS
    Sources = {"uart"}
    Gap = 10
    Watchdog = 25
    MaxCycle = 46
    ReadMax = 5
    RxBuffer = 23
    SimGap = 50
    Lines = 1
    RightLine = 0
    Noise = TRUE
    ChanceFrames = 0
    MaxStall = 20
    ClockMod = 128
    MinTelegram = 7
    MaxTelegram = 11
    MaxTrickle = 0
    MaxPause = 2
    MinSilence = 12
PROPERTY DecodesWhole
