\* The warm-up and three predictions, over a history that holds up to three texts.
SPECIFICATION PredictionSpec
CONSTANTS
    MaxCommits = 4
    Bytes = {"x", "p", "q"}
    Texts <- ShortAndLong
    Throws = Throws
    Size = 2
    MaxInput = 7
    MaxHistory = 3
    MaxHints = 0
CHECK_DEADLOCK FALSE
INVARIANTS ClientTypeOK WaitedMeansQuiet PromiseOfItsPrompt StopIsForThisRun
INVARIANTS RetrivesItsOwnPrompt CallbackFindsItsPromise ReplacedInQuiet
INVARIANTS ReadsAreRecent ThrowsOnlyAfterCleanup
