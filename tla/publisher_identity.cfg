\* One telegram carries two identity objects: does one meter keep one identity?
SPECIFICATION Spec
CONSTANTS
    Entities = {e1}
    Serials = {s1, s2}
    NoSerial = NoSerial
    MaxCycles = 1
    MaxFaults = 1
    WireCap = 2
    ReconnectDuringPass = FALSE
    SessionSurvivesLinkLoss = FALSE
INVARIANT OneIdentity
