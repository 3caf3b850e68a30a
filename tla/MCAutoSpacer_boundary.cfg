\* Is the boundary kept that of the composition's start?
SPECIFICATION SpacerSpec
CONSTANTS
    Lefts <- L
    Rights <- R
    PunctKeys = {"rpunct", "period"}
    enable_right_space = TRUE
INVARIANT BoundaryOfItsStart
