SPECIFICATION Spec
CONSTANTS
    Tickets = {t1, t2}
    Requests = {r1, r2}
    ClientIds = {c1, c2}
    Files = {f1}
    None = none
    MaxActive = 1
    MaxLog = 3
    MaxServed = 4
    MaxFaults = 1
SYMMETRY Symmetry
INVARIANTS
    TypeOK
    OneReplyPerClientId
    FilesAccounted
    CapExceededOnlyInRace
    PreviewIsNewest
    TrailTellsStatus
PROPERTIES
    ClosedReopensOnlyByStaleUpdate
    ImplementsTicketBook
CHECK_DEADLOCK FALSE
