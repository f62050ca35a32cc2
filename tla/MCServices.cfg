CONSTANTS
    Scans = {s1, s2}
    Accepts = {r1}
    MaxHints = 2
    NoRef = 0
    Items <- MCItems
    SourceOf <- MCSourceOf
    RefOf <- MCRefOf
    ticket = ticket
    mail = mail
    document = document
    Bills = {b}
    FinScans = {p1, p2}
    Updates = {w1, w2}
    MaxTx = 2
    Endpoints = {e1, e2}
    Sends = {x1, x2}
    MaxRenewals = 3
    TagDocs = {d1, d2}
    Categories = {c}
    GptName = gpt
    Before = before
    NoTag = NoTag
    MaxLoads = 3
    MaxChanges = 2
    MAX_RETRIES = 2
    NoChange = NoChange
    READY = 2
    MaxEvents = 3
    MaxBreaks = 1
    MaxQuestions = 3
    MaxTokens = 2
    MaxForgets = 1
    MAX_STORED = 3
SPECIFICATION MCSpec
INVARIANTS AllTypesOK HintsSound CountedOnce SubscriberKept TagsKept PageTrue ViewFollows ChatWhole
CHECK_DEADLOCK FALSE
