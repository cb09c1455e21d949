SPECIFICATION Spec
CONSTANTS
    Clients = {1, 2}
    Nobody = 0
    Requests <- MCRequests
    Quota <- MCQuota
    Slow = {1}
CHECK_DEADLOCK FALSE
INVARIANTS
    WholeRequests
PROPERTIES
    RepliesAreOwn
    ImplementsService
    Answered
    Patience
