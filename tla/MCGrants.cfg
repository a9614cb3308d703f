CONSTANTS
    u1 = u1
    u2 = u2
    k1 = k1
    k2 = k2
    k3 = k3
    e1 = e1
    e2 = e2
    e3 = e3
    x1 = x1
    x2 = x2
    x3 = x3
    job = job
    Messages = {e1, e2, e3}
    MessageRows <- Wanted
    Consumers = {x1, x2, x3}
    MaxMessages = 3
    MaxErrors = 1
    Users = {u1, u2}
    Keys = {k1, k2, k3}
    Event <- Sold
    Workers = {x1, x2}
    FirstDay = 1
    LastDay = 3
    MaxCalls = 3
    MaxFaults = 1
    NoRow = NoRow
SPECIFICATION GrantsSpec
INVARIANTS GrantsTypeOK EveryDayCounts GrantsAddUp
PROPERTIES LedgerImplemented AllMessagesAreHandled HoldsAreReleased
CHECK_DEADLOCK FALSE
