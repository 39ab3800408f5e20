---------------------------- MODULE MCMetricsSink ----------------------------
(***************************************************************************)
(* Instances of MetricsSink: two threads, a sink of either kind.           *)
(***************************************************************************)
EXTENDS MetricsSink

CONSTANTS t1, t2, adapter, observer, noOp

MCThreads  == {t1, t2}
MCSinks    == {adapter, observer}
MCAdapters == {adapter}
==============================================================================
