\* The committed table, the sizes of CycleSet, and cycles of up to three bytes.
SPECIFICATION FairSpec
CONSTANTS
    Labels <- TableLabels
    LabelLen <- TableLen
    Widths <- TableWidths
    Capacity = 512
    MaxValues = 16
    MaxLabel = 28
    MaxBytes = 3
INVARIANTS TypeOK MessageComplete FirstRetained
PROPERTIES FrameStartKept DecodingEnds
