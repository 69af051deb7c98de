SPECIFICATION FairSpec
CONSTANTS
    NR_SYS_PROCS = 3
    Endpoints = {1, 2, 3}
    Labels = {a}
    Callers = {u}
    Requests = {"UP", "DOWN", "RESTART", "CLONE", "EDIT", "REFRESH", "UPDATE", "SHUTDOWN"}
    Failures <- EachFailure
    Next_child = {1}
    Options <- Watched
    MaxRestarts = 1
    MAX_BACKOFF = 2
    Rough = {}
INVARIANTS TypeOK ServicesOK UpdateSafe AnswerPending
VIEW MCView
PROPERTIES  CallersAnswered Revived
