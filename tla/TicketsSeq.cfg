CONSTANTS
    a = a
    b = b
    u = u
    v = v
    p1 = p1
    p2 = p2
    d1 = d1
    Phones <- MCPhones
    Owners = {u, v}
    OwnerOf <- OneOwner
    Polls <- TwoPolls
    Requests <- OneRequest
    Messages <- MessagesOneOwner
    MaxMessages = 4
    MaxInbox = 2
    MaxFaults = 0
    MaxRequests = 1
SPECIFICATION Spec
INVARIANTS
    NumbersIdentify
CHECK_DEADLOCK FALSE
