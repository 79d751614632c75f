\* A TCP session that outlives a short WiFi loss.
SPECIFICATION FairSpec
CONSTANTS
    Entities = {e1}
    Serials = {s1}
    NoSerial = NoSerial
    MaxCycles = 1
    MaxFaults = 1
    WireCap = 2
    ReconnectDuringPass = FALSE
    SessionSurvivesLinkLoss = TRUE
PROPERTY MeasurementsResume
