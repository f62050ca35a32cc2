CONSTANTS
    a = a
    b = b
    u = u
    v = v
    p1 = p1
    p2 = p2
    d1 = d1
    Phones <- MCPhones
    Owners = {u, v}
    OwnerOf <- TwoOwners
    Polls <- TwoPolls
    Requests <- OneRequest
    Messages <- MessagesTwoOwners
    MaxMessages = 5
    MaxInbox = 2
    MaxFaults = 1
    MaxRequests = 1
SPECIFICATION Spec
INVARIANTS
    OnlyApproved
CHECK_DEADLOCK FALSE
