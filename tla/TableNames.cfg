SPECIFICATION RequestSpec
CONSTANT
    Catalogs <- SmallCatalogs
    Requests <- SmallRequests
INVARIANTS
    NameFindsTable
    HeaderIsColumns
    OkMeansAsked
    RefusedKeepsOutput
CHECK_DEADLOCK FALSE
