CONSTANTS
    Handlers = {h1, h2}
    SyncJob = sync
    ReconJob = recon
    Buyer = buyer
    SN = sn
    Price = 1
    NoRow = NoRow
    Timeouts = {"order", "payment", "credit"}
    MaxFaults = 2
    MaxCalls = 4
    MaxNotices = 2
SYMMETRY Symmetry
CONSTRAINT Scope
SPECIFICATION Spec
INVARIANTS TypeOK EventsAreTrue SuccessIsPaid CreditsSpentOnlyIfPaid
PROPERTIES TerminalStays SuccessIsFinalInTime
CHECK_DEADLOCK FALSE
