SPECIFICATION Spec
CONSTANTS
    Folder = {f1, f2, f3}
    Chat = {c1, c2}
    Name = {n1, n2}
    Page = {p1, p2}
    Root = Root
    Unmade = Unmade
    Deleted = Deleted
    NoName = NoName
    MaxActions = 2
    MaxUpsets = 2
    f1 = f1
    f2 = f2
    f3 = f3
    c1 = c1
    c2 = c2
    n1 = n1
    n2 = n2
    p1 = p1
    p2 = p2
SYMMETRY Symmetric
CHECK_DEADLOCK FALSE
INVARIANTS
    TreeHolds
    SiblingsDiffer
    ChatsAreListed
    NoPlaceholders
    LastChangeShown
