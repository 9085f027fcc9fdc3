\* Three dials, two writes and one outage: a write can fall before the first
\* onStart, in the window before PSUBSCRIBE is processed, or on a connection
\* that breaks before its event is read.
CONSTANTS
    MaxConns = 3
    MaxEvents = 2
    MaxOutages = 1
    Nil = Nil
SPECIFICATION Spec
\* The loop really stops: after wg.Done the main goroutine returns and the
\* receiver has exited.
CHECK_DEADLOCK FALSE
INVARIANTS
    TypeOK
    SingleReceiver
    MissedOnlyInSubscribeWindow
PROPERTIES
    Resubscribes
    QuitCompletesWhenSubscribed
