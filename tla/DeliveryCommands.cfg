CONSTANTS
    command = command
    help = help
    approval = approval
    file = file
    note = note
    sync = sync
    s = s
    t = t
    p1 = p1
    p2 = p2
    Msgs <- MCMsgs
    KindOf <- MCKinds
    SenderOf <- MCSenders
    FilesOf <- MCFiles
    Polls <- MCPolls
    MaxTime = 3
    MaxSent = 2
    MaxFaults = 1
SPECIFICATION Spec
INVARIANT CommandsReachApi
CHECK_DEADLOCK FALSE
