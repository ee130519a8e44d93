CONSTANTS
    s1 = s1
    a1 = a1
    a2 = a2
    x1 = x1
    x2 = x2
    l1 = l1
    l2 = l2
    q1 = q1
    q2 = q2
    c1 = c1
    w1 = w1
    w2 = w2
    y1 = y1
    y2 = y2
    Submissions = {s1}
    MaxSession = 3
    MaxConversations = 3
    LegacyFiles <- MCLegacyFiles
    Directories <- MCDirectories
    PartialPages = FALSE
    Answers = {a1, a2}
    MaxPromptEvents = 4
    MaxReconnects = 2
    Ids = {x1, x2}
    Born = {x1}
    Queries = {q1, q2}
    Lists = {l1, l2}
    Changes = {c1}
    MaxEntries = 1
    MaxOwnChanges = 1
    Sizes = {1, 3}
    PageBytes = 2
    PageLimit = 2
    MaxHistory = 4
    MaxRevision = 3
    Syncs = {y1, y2}
    MaxCommits = 2
    Items = 3
    Workers = {w1, w2}
SPECIFICATION SessionsSpec
PROPERTY ChangeForcesUpstream
CHECK_DEADLOCK FALSE
