SPECIFICATION FairSpec
CONSTANTS
    r1 = r1 r2 = r2 e1 = e1 e2 = e2 w1 = w1 w2 = w2 k = k None = None
    Requests = {r1, r2}
    Key <- OneKey
    Endpoints = {e1}
    Ordered = {e1}
    Workers = {w1}
    MaxOutages = 1
    MaxWipes = 1
    MaxFailures = 2
    MaxAdmin = 2
INVARIANTS
    TypeOK
    AnswersAgree
    RowBeforeEntry
    QueueBeforeEntry
PROPERTIES
    EventuallyHandled
