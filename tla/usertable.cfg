SPECIFICATION Spec
CONSTANTS
    u1 = u1
    u2 = u2
    u3 = u3
    User = {u1, u2, u3}
    Key <- MCKey
    HASH_SIZE = 2
    Node = {n1, n2, n3}
    Cell = {c1, c2, c3}
    Null = Null
    Thread = {t1, t2}
    Char <- MCChar
    NameRoom = 1
    ListRoom = 1
    MaxName = 4
    MaxFollows = 3
SYMMETRY ThreadsAndNodes
INVARIANT TypeOK
INVARIANT FindsWhatIsThere
INVARIANT SavedIsReadBack
INVARIANT ListsWork
INVARIANT AddressInTable
PROPERTY ImplementsUserMap
CHECK_DEADLOCK FALSE
