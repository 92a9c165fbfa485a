SPECIFICATION Spec
CONSTANTS
    Modules <- MCModules
    Keys <- MCKeys
    Apps <- MCApps
INVARIANTS
    AcceptsExactlyWellWired
    RegisteredOnce
    FactoryRunsOnce
PROPERTIES
    BuildEnds
