SPECIFICATION RxSpec
CONSTANTS
    CR = CR
    NUL = NUL
    Space = Space
    Segments = 2
    RequiredCount = 1
    CHAR_MAX = 1
    time_to_live = 1
    SourceTypes = {"radiodev", "file"}
    TunerFreqs <- MCTunerFreqs
    getfreq = TRUE
    IoctlsFail = TRUE
    Junk <- MCJunk
    Stations <- MCStations
    Programmes <- MCProgrammes
    TP <- MCTP
    PTY <- MCPTY
    AltFreqs <- MCAltFreqs
    TextLength <- MCTextLength
    Variants = {4, 9, 13}
    Messages <- MCMessages
    Days <- MCDays
    Times <- MCTimes
    Offsets <- MCOffsets
    MaxText = 2
    MaxTime = 3
    MaxRead = 2
INVARIANT
    FlagsOfTheStation
