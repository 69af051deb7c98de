SPECIFICATION Spec
CONSTANTS
    Pid = {p1, p2, p3}
    FirstShell = p1
    Lines <- MCLines
    NumArgs = 4
    Programs = {"run"}
    Files = {"f"}
INVARIANTS TypeOK TakeTurns ParseFaithful
PROPERTY ForegroundWaits
