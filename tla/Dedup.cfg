CONSTANTS
    t1 = t1
    t2 = t2
    Table = {t1, t2}
    MaxSeq = 4
SPECIFICATION Spec
SYMMETRY TableSymmetry
CHECK_DEADLOCK FALSE
INVARIANTS
    AtMostOnce
    ActiveIsNeverStale
    AnswerIsOwnExecution
