SPECIFICATION MCSpec
CONSTANTS
    P = 3
    MaxDeps = 2
    Keys <- MCKeys
    Catalog <- MCCatalog
    Before <- MCBefore
INVARIANTS
    OrderIrrelevant
    OptionalSettled
PROPERTIES
    Terminates
    ImplementsAnyOrder
