SPECIFICATION FairSpec
CONSTANTS
    ann = ann
    q1 = q1
    q2 = q2
    q3 = q3
    m1 = m1
    None = None
    Users = {ann}
    Messages = {m1}
    Queues = {q1, q2, q3}
    Owner <- MCOwner
    Receives = {q1, q2, q3}
    Takes <- MCTakes
    AllPublic = {q2, q3}
    Recipients <- MCRecipients
    Public = {m1}
    MAX_REQUEST_RETRIES = 1
    Sessions <- MCSessions
    MaxHandlers = 2
    MaxFailures = 2
CHECK_DEADLOCK FALSE
INVARIANTS TablesAgree WaitingIsKnown NeverForgotten
PROPERTIES NotifiedBefore QueuesCollected
