SPECIFICATION Spec
CHECK_DEADLOCK FALSE
CONSTANTS
    p1 = p1
    p2 = p2
    Components <- MCComponents
    Parsed <- MCParsed
    Names <- MCNames
    Namespaces <- StoreNamespaces
    StoreIds = {"dns", "www", "gone"}
    Layouts <- TwoStoreLayouts
    PolicyIds = {"g"}
    NoStore = NoStore
    Policies = {p1, p2}
    Sources <- PlainSources
    Requests <- SegmentedRequests
    NoId = NoId
    NoAnnotation = NoAnnotation
    AllStores = AllStores
INVARIANTS
    OptimizationBoundary
