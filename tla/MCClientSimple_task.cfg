\* Does a run end with the promise of its own prompt?
SPECIFICATION ClientSpec
CONSTANT MaxCommits = 2
CHECK_DEADLOCK FALSE
INVARIANT RunHasItsTask
