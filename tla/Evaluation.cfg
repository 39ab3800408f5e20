SPECIFICATION Spec
CHECK_DEADLOCK FALSE
CONSTANTS
    Policies = {"p0", "p1", "p2"}
    Names = {"n", "p1"}
    NoName = NoName
    Stores = {1, 2}
    Whole = Whole
    Registrations = {{}, {"p1"}}
    Texts <- MCTexts
    Requests <- MCRequests
    MaxTick = 1
INVARIANTS
    OnlyValidPoliciesServed
    AnswersFromText
    DiagnosticsNameForbids
    StatsMatchDecision
    PhasesFit
