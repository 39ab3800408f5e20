\* Two threads evaluate and reload while the sink is replaced twice.
SPECIFICATION FairSpec
CONSTANTS
    t1 = t1
    t2 = t2
    adapter = adapter
    observer = observer
    noOp = noOp
    Threads  <- MCThreads
    Sinks    <- MCSinks
    NoOp     <- noOp
    Adapters <- MCAdapters
    MaxSinks = 3
INVARIANTS ReportsToAskedSink NoStaleSink OneTrueReport
PROPERTIES ResultStands CallsReturn
