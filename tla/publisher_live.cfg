\* Recovery once the faults are over.
SPECIFICATION FairSpec
CONSTANTS
    Entities = {e1}
    Serials = {s1}
    NoSerial = NoSerial
    MaxCycles = 2
    MaxFaults = 3
    WireCap = 1
    ReconnectDuringPass = FALSE
    SessionSurvivesLinkLoss = FALSE
PROPERTIES
    AvailabilitySettles
    DiscoveryHeals
    MeasurementsResume
