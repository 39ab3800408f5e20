SPECIFICATION Spec
CONSTANTS
    Letters = {"x"}
    Refused = Refused
    Beginnings <- MCBeginnings
    MaxTyped = 3
    None = None
    Ids <- MCIds
    Namespaces <- MCNamespaces
    Types <- MCTypes
    AttrNames = {"id", "a"}
    Items = {"s"}
INVARIANTS
    ReadAsGrammar
    GroupsInUsersNamespace
    NamesAndValuesAgree
    CanonicalId
    ReadsBack
