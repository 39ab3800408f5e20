SPECIFICATION MCSpec
CHECK_DEADLOCK FALSE
CONSTANTS
    p1 = p1
    p2 = p2
    Components <- MCComponents
    Parsed <- MCParsed
    Names <- NestedNames
    Namespaces <- AllNamespaces
    StoreIds = {"dns", "www", "gone"}
    Layouts <- AllLayouts
    PolicyIds = {"g"}
    NoStore = NoStore
    Policies = {p1, p2}
    Sources <- MixedSources
    Requests <- MCRequests
    NoId = NoId
    NoAnnotation = NoAnnotation
    AllStores = AllStores
INVARIANTS
    RouterFindsOwner
    LayoutVerdict
    PartitionFollowsRules
    GlobalForbidsPrevail
    RoutingPreservesDecisions
