\* FreeRTOS at its default 100 Hz; elapsed wraps with the residue of 2^32 modulo
\* 200, and the low word of the time wraps while publications can happen.
SPECIFICATION Spec
CONSTANTS
    TickMs = 10
    CycleGap = 160
    Word = 168
    ElapsedMod = 296
    MaxPreempt = 3
    MaxLate = 2
    MaxTime = 185
INVARIANTS
    TypeOK
    NeverOffUpdating
    DarkWhenIdle
    PublicationSeen
    Alternates
