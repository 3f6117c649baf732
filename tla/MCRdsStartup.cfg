SPECIFICATION FairSpec
CONSTANTS
    Pids = {1, 2, 3}
    PortGiven = TRUE
    MaxRunning = 2
    MaxMishaps = 1
INVARIANTS
    StartTypeOK
    SoleDaemon
    NoStaleFile
    ServiceRestored
PROPERTIES
    TerminationEnds
