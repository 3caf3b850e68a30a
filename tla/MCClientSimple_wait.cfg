\* Does every wait return?
SPECIFICATION ClientSpec
CONSTANT MaxCommits = 2
CHECK_DEADLOCK FALSE
PROPERTIES WaitReturns
