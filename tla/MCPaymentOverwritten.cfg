CONSTANTS
    Handlers = {h1}
    SyncJob = sync
    ReconJob = recon
    Buyer = buyer
    SN = sn
    Price = 1
    NoRow = NoRow
    Timeouts = {"payment"}
    MaxFaults = 0
    MaxCalls = 1
    MaxNotices = 1
SPECIFICATION Spec
PROPERTIES PaidIsNotClosed
CHECK_DEADLOCK FALSE
