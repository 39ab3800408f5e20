\* A developer works on a checkout while it is built.
SPECIFICATION FairSpec
\* Nobody has to change or to build anything.
CHECK_DEADLOCK FALSE
CONSTANTS
    Files = {"lib.rs"}
    Contents = {"old", "new"}
    main = main
    dev = dev
    v1 = v1
    Branches = {main, dev}
    Tags = {v1}
    Main = main
    First = "old"
    None = None
    MaxCommits = 2
    MaxChanges = 3
INVARIANTS FreshMetadataIsCurrent
PROPERTIES BuildsSettle
