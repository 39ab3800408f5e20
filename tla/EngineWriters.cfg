SPECIFICATION Spec
CONSTANTS
    reloader = reloader
    labeler = labeler
    updater = updater
    reader = reader
    p1 = p1
    p2 = p2
    s1 = s1
    s2 = s2
    mono = mono
    l1 = l1
    l2 = l2
    q1 = q1
    q2 = q2
    Texts = {p1, p2}
    Schemas = {s1, s2}
    NoSchema = NoSchema
    Layouts = {mono}
    NoRegistry = NoRegistry
    Requests = {q1, q2}
    Enforcing = TRUE
    Accepts <- MCAccepts
    Serves <- MCServes
    NoJob = NoJob
    NoView = NoView
    Allocate <- LowestFree
    NoState = NoState
    NoPolicy = NoPolicy
    Threads <- Writers
    Menu <- WritersMenu
    Registries = {l1}
    MaxGeneration = 4
    StateIds = {1, 2, 3, 4, 5}
    PolicyIds = {1, 2, 3, 4, 5, 6, 7}
VIEW WritersView
INVARIANTS
    ArcIdentity
    CurrentCompiles
PROPERTIES
    NoLostUpdate
    SchemaOnlyBySchemaReload
    ImplementsAtomicEngine
