CONSTANTS
    s1 = s1
    s2 = s2
    l1 = l1
    l2 = l2
    Submissions <- MCSubmissions
    External <- MCNone
    Lanes <- MCNative
    Adopted <- MCNone
    MaxSession = 2
    Unusable <- MCOne
    DiskFails = TRUE

SPECIFICATION Spec

INVARIANTS
    TypeOK
    AtMostOnce
    OutcomesAreTrue
    SubmissionsFollowLanes

PROPERTIES
    RequestsSettle
    LaneNeverRollsBack
