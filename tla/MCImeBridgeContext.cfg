\* Two editors, two texts, one action in flight.
SPECIFICATION SpecC
CONSTANTS
    Clients = {c1, c2}
    Sessions = {s1}
    Texts = {t1, t2}
    NoClient = NoClient
    NoSession = NoSession
    NoState = NoState
    NoText = NoText
    Unset = Unset
    MaxPending = 1
    MaxDepth = 1
INVARIANT ContextIsCurrent
PROPERTY ImplementsRequests
SYMMETRY Symmetry
