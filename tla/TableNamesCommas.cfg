SPECIFICATION RequestSpec
CONSTANT
    Catalogs <- CommaColumns
    Requests <- SmallRequests
INVARIANT
    HeaderIsColumns
CHECK_DEADLOCK FALSE
