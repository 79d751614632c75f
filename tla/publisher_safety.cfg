\* Safety under reconnects, link loss, broker restarts, reboots.
SPECIFICATION Spec
CONSTANTS
    Entities = {e1, e2}
    Serials = {s1}
    NoSerial = NoSerial
    MaxCycles = 3
    MaxFaults = 3
    WireCap = 2
    ReconnectDuringPass = FALSE
    SessionSurvivesLinkLoss = TRUE
SYMMETRY Symmetry
INVARIANTS
    TypeOK
    DiscoveryClaim
    NothingBeforeIdentity
    StatesFresh
    OnlineHasSession
PROPERTY FeedKeepsPromise
