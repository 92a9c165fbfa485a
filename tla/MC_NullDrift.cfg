\* The traversal ends; nothing is left to do.
CHECK_DEADLOCK FALSE
SPECIFICATION Spec
CONSTANTS
    Null = Null
    None = None
    LastKey = 3
    Columns = {"org"}
    Values = {1, 2, Null}
    Conditions <- MCConditions
    Depth <- MCDepth
    Abilities <- OneDenial
    Firsts = {0, 3}
    DefaultPage = 1
    LargestPage = 2
    MaxChanges = 0
INVARIANT
    NoDrift
