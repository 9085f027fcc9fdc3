CONSTANTS
    e1 = e1
    r1 = r1
    r2 = r2
    r3 = r3
    c1 = c1
    c2 = c2
    Nil = Nil
    Emails <- MCEmails
    Requests <- MCRequests
    Codes <- MCCodes
    VTypes <- MCVTypes
    UserStatuses <- MCUserStatuses
    MaxFailures = 1
SPECIFICATION Spec
SYMMETRY MCSymmetry
CHECK_DEADLOCK FALSE
INVARIANTS
    TypeOK
    VerificationNotLost
PROPERTIES
    AtomicSpec
