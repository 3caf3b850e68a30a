\* Six classes before the caret, three behind it.
SPECIFICATION SpacerSpec
CONSTANTS
    Lefts <- L
    Rights <- R
    PunctKeys = {"rpunct", "period"}
    enable_right_space = TRUE
INVARIANT SpacerTypeOK
PROPERTIES JunctionsAreSpaced JunctionsByHistory
