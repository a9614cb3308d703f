CONSTANTS
    Handlers = {h1}
    SyncJob = sync
    ReconJob = recon
    Buyer = buyer
    SN = sn
    Price = 1
    NoRow = NoRow
    Timeouts = {"order", "payment"}
    MaxFaults = 1
    MaxCalls = 1
    MaxNotices = 1
SPECIFICATION FairSpec
PROPERTIES PaidIsDelivered PaymentsEnd
CHECK_DEADLOCK FALSE
