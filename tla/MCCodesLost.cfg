CONSTANTS
    Workers = {w1, w2}
    NoRow = NoRow
    u1 = u1
    u2 = u2
    u3 = u3
    u4 = u4
    o1 = o1
    o2 = o2
    o3 = o3
    o4 = o4
    b1 = b1
    i1 = i1
    i2 = i2
    Users = {u1, u2, u3, u4}
    Orders = {o1, o2, o3, o4}
    Buyer <- OneBuyer
    Items <- Goods
    Batches = {b1}
    InvitedBy <- Guests
    MaxCodes = 3
    Invitations = {i1, i2}
    MaxCalls = 4
    MaxFaults = 1
    MaxExpiries = 1
    Scenes = {"clash"}
SPECIFICATION MCSpec
ACTION_CONSTRAINT Scope
INVARIANTS OrdersAreFulfilled
CHECK_DEADLOCK FALSE
