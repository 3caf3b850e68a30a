\* An editor that writes two lines, one that only hangs up, and a server that is
\* started twice.
SPECIFICATION Spec
CONSTANTS
    p1 = p1
    p2 = p2
    Peers = {p1, p2}
    MaxProcessors = 2
    MaxStarts = 2
    Writers = {p1}
    MaxWrites = 2
    MaxRead = 3
CHECK_DEADLOCK FALSE
INVARIANTS ServerTypeOK OneAccepter ServerIsConsistent HandledAsWritten
PROPERTIES StopReturns WrittenIsHandled
