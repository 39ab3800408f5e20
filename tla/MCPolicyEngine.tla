--------------------------- MODULE MCPolicyEngine ----------------------------
(***************************************************************************)
(* Instances of PolicyEngine: a schema-enforcing engine whose callers are  *)
(* named for what they do.                                                 *)
(***************************************************************************)
EXTENDS PolicyEngine, TLC

CONSTANTS reloader, labeler, updater, reader, p1, p2, s1, s2, mono, l1, l2, q1, q2

\* p2 uses a type only s2 declares; q2 is a request only s1 admits, unless l2
\* gives its resource a label s1 does not declare.
MCAccepts == { <<p1, s1, mono>>, <<p1, s2, mono>>, <<p2, s2, mono>> }
MCServes  == { <<q1, s, mono, r>> : s \in {s1, s2}, r \in {NoRegistry, l1, l2} }
             \cup { <<q2, s1, mono, r>> : r \in {NoRegistry, l1} }

\* Three writers: every pair of update loops races.
Writers == {reloader, labeler, updater}

WritersMenu ==
    reloader :> ReloadJob
    @@ labeler :> SetLabelsJob
    @@ updater :> SchemaReloadJob

\* One writer that changes everything, one reader.
ReaderAndWriter == {updater, reader}

ReaderMenu ==
    updater :> SetLabelsJob \cup [kind : {"reload"}, text : {p2}]
                \cup [kind : {"schemaReload"}, text : {p1}, schema : Schemas]
    @@ reader :> EvaluateJob \cup SessionJob

\* For liveness: one caller reloads and evaluates while another keeps
\* replacing the labels and the schema.
ReloaderAndUpdater == {reloader, updater}

LivenessMenu ==
    reloader :> [kind : {"reload"}, text : {p1}] \cup EvaluateJob
    @@ updater :> SetLabelsJob
                  \cup [kind : {"schemaReload"}, text : {p1}, schema : Schemas]

\* The allocator that reuses addresses as eagerly as possible.
LowestFree(S) == { i \in S : \A k \in S : i <= k }

(***************************************************************************)
(* Addresses are only ever compared: states that differ by a renaming of   *)
(* addresses have the same futures. The view keeps the contents of every   *)
(* live Arc and, of the addresses, which owners share one.                 *)
(***************************************************************************)
PolicyView(p) == IF p = NoPolicy THEN p ELSE [p EXCEPT !.id = 0]
StateView(s)  == IF s = NoState THEN s
                 ELSE [s EXCEPT !.id = 0, !.policy = PolicyView(@)]

\* The owner of a state is a thread, or the cell itself (NoJob).
Owned(o) == IF o = NoJob THEN current ELSE held[o]
Owners   == Holders \cup {NoJob}

Sharing ==
    << { {o \in Owners : Owned(o).id = Owned(n).id} : n \in Owners },
       { {o \in Owners : Owned(o).policy.id = Owned(n).policy.id} : n \in Owners },
       [ t \in Compilers |-> {o \in Owners : Owned(o).policy.id = compiled[t].id} ],
       { {u \in Compilers : compiled[u].id = compiled[t].id} : t \in Compilers } >>

WithoutAddresses ==
    << StateView(current), pc, job,
       [t \in Threads |-> StateView(held[t])],
       [t \in Threads |-> PolicyView(compiled[t])], seen, Sharing >>

\* A writer never looks at the answer of its previous call.
WritersView ==
    << WithoutAddresses,
       [t \in Threads |-> IF pc[t] = "returning" THEN outcome[t] ELSE NoOutcome] >>

ReadersView == << WithoutAddresses, outcome >>
==============================================================================
