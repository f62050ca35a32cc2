CONSTANTS
    a = a
    b = b
    u = u
    v = v
    p1 = p1
    p2 = p2
    d1 = d1
    Phones <- MCPhones
    Owners = {u, v}
    OwnerOf <- OneOwner
    Polls <- OnePoll
    Requests <- OneRequest
    Messages <- MessagesOneOwner
    MaxMessages = 5
    MaxInbox = 2
    MaxFaults = 1
    MaxRequests = 1
SPECIFICATION FairSpec
INVARIANTS
    TypeOK
    NumbersIdentify
PROPERTIES
    OldestFirst
    AnswerSettles
    Lifecycle
CHECK_DEADLOCK FALSE
