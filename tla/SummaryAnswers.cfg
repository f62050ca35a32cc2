CONSTANTS
    x = x
    y = y
    a = a
    b = b
    c1 = c1
    c2 = c2
    c3 = c3
    p1 = p1
    p2 = p2
    Docs <- MCDocs
    Phones <- MCPhones
    PhonesOf <- MCPhonesOf
    Calls <- MCCalls
    DocOf <- MCDocOf
    Polls <- MCPolls
    MaxFaults = 0
SPECIFICATION Spec
INVARIANTS
    AnswersAreServed
CHECK_DEADLOCK FALSE
