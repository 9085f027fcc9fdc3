CONSTANTS
    MaxConns = 3
    MaxEvents = 1
    MaxOutages = 1
    Nil = Nil
SPECIFICATION Spec
CHECK_DEADLOCK FALSE
PROPERTIES
    QuitCompletes
