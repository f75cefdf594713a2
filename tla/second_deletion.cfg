SPECIFICATION Spec
CONSTANTS
    u1 = u1
    u2 = u2
    c1 = c1
    c2 = c2
    Members <- TwoMembers
    Calls <- OneCall
    Handlers <- Deletions
SYMMETRY Symmetry
PROPERTIES
    DeletionDeletes
