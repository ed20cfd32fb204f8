\* Every list of at most three sessions of the user.
CONSTANT MaxLen = 3
SPECIFICATION Spec
\* The loop ends.
CHECK_DEADLOCK FALSE
INVARIANTS
    TypeOK
    PicksPreferred
