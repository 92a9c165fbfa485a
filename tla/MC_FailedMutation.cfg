CONSTANTS
    r1 = r1
    r2 = r2
    a = a
    b = b
    c = c
    d = d
    v1 = v1
    v2 = v2
    Absent = Absent
    Anonymous = Anonymous
    Requests <- MCRequests
    Rows <- MCRows
    Values <- MCValues
    InitTable <- MCTable
    Shapes <- GraphqlShapes
    PoolSizes = {1, 2}
SPECIFICATION Spec
INVARIANTS
    FailedMutationPersistsNothing
