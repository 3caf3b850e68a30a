\* Two clients, and a context that is too small for both.
SPECIFICATION BackendSpec
CONSTANTS
    c1 = c1
    c2 = c2
    Clients = {c1, c2}
    n_ctx = 4
    n_batch = 2
    n_predict = 2
    MaxPrompt = 2
    MaxCommits = 2
    MaxPops = 1
CHECK_DEADLOCK FALSE
INVARIANTS BackendTypeOK OneSide ClearedIsForgotten FreedIsUnused
PROPERTIES CallsReturn
