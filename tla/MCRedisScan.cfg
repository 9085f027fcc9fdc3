CONSTANTS
    c1 = c1
    c2 = c2
    k1 = k1
    k2 = k2
    m1 = m1
    m2 = m2
    f1 = f1
    Callers <- MCCallers
    Names <- MCNames
    Matching <- MCMatching
    Members <- MCMembers
    KeySlot <- MCKeySlot
    MemberSlot <- MCMemberSlot
    Fields <- MCFields
    FieldSlot <- MCFieldSlot
    NumSlots = 2
    MaxActive = 3
    Waits = {TRUE, FALSE}
    MaxErrors = 1
    MaxCalls = 1
SPECIFICATION Spec
CHECK_DEADLOCK FALSE
INVARIANTS
    TypeOK
    ScanComplete
PROPERTIES
    DelRemovesStable
    CallsReturn
