CONSTANTS
    Handlers = {h1, h2}
    SyncJob = sync
    ReconJob = recon
    Buyer = buyer
    SN = sn
    Price = 1
    NoRow = NoRow
    Timeouts = {}
    MaxFaults = 0
    MaxCalls = 2
    MaxNotices = 1
SYMMETRY Symmetry
SPECIFICATION Spec
INVARIANTS CreditRecordIsSpent
CHECK_DEADLOCK FALSE
