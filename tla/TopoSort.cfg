SPECIFICATION Spec
CONSTANTS
    a = a
    b = b
    c = c
    Input <- MCInput
    Outside = {x}
    NoModule = NoModule
CHECK_DEADLOCK FALSE
INVARIANTS
    ProducersFirst
    VerdictRight
PROPERTIES
    Terminates
