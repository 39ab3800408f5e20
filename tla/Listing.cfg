SPECIFICATION Spec
CONSTANTS
    view = view
    edit = edit
    Policies = {1, 2}
    Namespaces = {"", "Org", "1x"}
    Parsable = {"", "Org"}
    Ids = {"", "ann", "ops", "d", "e"}
    EmptyId = ""
    Actions = {view, edit}
    Resources <- MCResources
    Snapshots <- MCSnapshots
    Reloads <- MCReloads
    Requests <- MCRequests
    Asks <- MCAsks
    None = None
INVARIANTS
    CandidatesOnce
    NoDecidingPolicyMissing
    AllowedActionsListed
    UnconditionalListingDecides
