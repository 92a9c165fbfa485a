SPECIFICATION Spec
CONSTANTS
    Modules <- MCModules
    Keys <- MCKeys
    Apps <- SwapApps
INVARIANT
    ImportOrderIrrelevant
