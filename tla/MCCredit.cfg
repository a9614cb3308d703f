CONSTANTS
    Users = {u1, u2}
    Keys = {k1, k2, k3}
    Amounts = {1, 2}
    Workers = {w1, w2}
    Job = job
    Limit = 1
    MaxCalls = 3
    MaxFaults = 1
    NoRow = NoRow
SYMMETRY Symmetry
SPECIFICATION Spec
INVARIANTS TypeOK NoUnderflow BalancesMatchLog AnswersHold
PROPERTIES SettledIsFinal LedgerImplemented
CHECK_DEADLOCK FALSE
