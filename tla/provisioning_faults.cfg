\* Power cuts, failing writes, erased partitions, repeated submissions.
SPECIFICATION FairSpec
CONSTANTS
    Entries <- TypedForms
    Absent = Absent
    BuildDefaults = FALSE
    MaxFaults = 3
INVARIANTS
    TypeOK
    CutSafe
    AnsweredIsStored
    FormKept
PROPERTY OperatesInTheEnd
