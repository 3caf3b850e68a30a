\* One Neovim and one session.
SPECIFICATION SpecN
CONSTANTS
    Clients = {c1}
    Sessions = {s1}
    Texts = {t1}
    Nvim = c1
    Session = s1
    NoClient = NoClient
    NoSession = NoSession
    NoState = NoState
    NoText = NoText
    MaxPending = 2
    MaxDepth = 3
    MaxQueued = 6
    MaxUnread = 0
INVARIANTS NormalIsAscii NoTextOutsideInsert InsertRestoresPrevious
CONSTRAINT Undisturbed
