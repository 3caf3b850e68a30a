\* One editor: is every set balanced by its restore?
SPECIFICATION SpecH
CONSTANTS
    Clients = {c1}
    Sessions = {s1}
    Texts = {}
    NoClient = NoClient
    NoSession = NoSession
    NoState = NoState
    NoText = NoText
    Unset = Unset
    MaxPending = 2
    MaxDepth = 2
INVARIANTS RestoreBalancesSet
