\* One editor, two sessions, up to two actions in flight.
SPECIFICATION SpecH
CONSTANTS
    Clients = {c1}
    Sessions = {s1, s2}
    Texts = {t1}
    NoClient = NoClient
    NoSession = NoSession
    NoState = NoState
    NoText = NoText
    Unset = Unset
    MaxPending = 2
    MaxDepth = 2
INVARIANTS TypeOK BaseIffDepth NeverRestoresEarly DismissedLeavesNothing
PROPERTIES InitialStateStable KeyEventEnds ImplementsRequests
