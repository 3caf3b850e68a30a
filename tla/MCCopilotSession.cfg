\* Two sessions of a schema, two texts, two predictions in a row.
SPECIFICATION CopilotSpec
CONSTANTS
    Sessions = {s1, s2}
    Texts = {t1, t2}
    NoText = NoText
    MaxIterations = 2
INVARIANTS ChainIsBounded
PROPERTIES MenuAnswersLatestCommit DeletePredictsNothing
SYMMETRY Symmetry
