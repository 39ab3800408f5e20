------------------------ MODULE BuildMetadataProofs -------------------------
(***************************************************************************)
(* What a build embeds, for any files, contents, branches and tags, and    *)
(* any number of commits and changes.                                      *)
(***************************************************************************)
EXTENDS BuildMetadata, TLAPS

Commit0 == [parent : Nat, tree : Tree]

Repos ==
    [ head : Branches \cup Nat, refs : [Refs -> Nat \cup {None}], loose : SUBSET Refs, packed : SUBSET Refs,
      commits : Seq(Commit0), index : Tree, work : Tree, aside : Tree, touched : SUBSET Files ]

\* A ref and HEAD are of a commit; a ref is in a file of its own or is packed.
RepoOK(r) ==
    /\ r \in Repos
    /\ r.refs \in [Refs -> 1..Len(r.commits) \cup {None}]
    /\ IF r.head \in Branches THEN r.refs[r.head] \in 1..Len(r.commits) ELSE r.head \in 1..Len(r.commits)
    /\ \A x \in Refs : r.refs[x] # None => x \in r.loose \cup r.packed

Shaped(m) ==
    m = [ describe |-> m.describe, describeDirty |-> m.describeDirty, sha |-> m.sha,
          branch |-> m.branch, dirty |-> m.dirty ]

TypeOK ==
    /\ packaged \in BOOLEAN /\ RepoOK(repo)
    /\ clock \in Nat /\ changed \in [Paths -> Nat] /\ \A p \in Paths : changed[p] <= clock
    /\ script = [ at |-> script.at, started |-> script.started, watch |-> script.watch,
                  missed |-> script.missed, metadata |-> script.metadata ]
    /\ script.at \in {"idle", "watch", "describe", "sha", "branch", "status"}
    /\ script.started \in Nat /\ script.started <= clock
    /\ script.watch \subseteq Paths /\ script.missed \subseteq Files /\ Shaped(script.metadata)
    /\ built.started \in Nat /\ built.started <= clock
    /\ Shaped(built.metadata)
    /\ built = Never \/ (built.watch \subseteq Paths /\ built.missed \subseteq Files)

----------------------------------------------------------------------------
\* No watched path was modified since, and none was missing at a moment.
Kept(s, w, m) == (\A p \in w : changed[p] <= s) /\ w \cap m = {}

\* A watched file, wherever it was moved.
Home(w, f) == IF f \in w /\ repo.work[f] = None THEN repo.aside[f] ELSE repo.work[f]

\* The checkout is dirty, if the missed files are missing.
Differs(w, m) ==
    \/ repo.index # repo.commits[HeadCommit].tree
    \/ \E f \in Files : repo.index[f] # None /\ (f \in m \/ (f \in w /\ Home(w, f) # repo.index[f]))

Branch == IF repo.head \in Branches THEN repo.head ELSE None

\* The paths that stand for everything the metadata depends on.
Covers(w, m) ==
    /\ \A f \in Files : repo.index[f] # None => f \in w \cup m
    /\ repo.packed # {} => "packed-refs" \in w

Watches(w) == {"HEAD", "index", "refs/heads", "refs/tags"} \subseteq w

\* What is captured by the step a run is at.
Captured(b, at, w, m) ==
    /\ at \in {"sha", "branch", "status", "built"} =>
           b.describe = Described /\ b.describeDirty = Differs(w, m)
    /\ at \in {"branch", "status", "built"} => b.sha = HeadCommit
    /\ at \in {"status", "built"} => b.branch = Branch
    /\ at = "built" => b.dirty = Differs(w, m)

\* If every watched path was kept, the rest follows.
Holds(s, w, m, b, at) == Watches(w) /\ (Kept(s, w, m) => Covers(w, m) /\ Captured(b, at, w, m))

Followed(r, at) == Holds(r.started, r.watch, r.missed, r.metadata, at)

Unmoved(s) == changed["HEAD"] <= s /\ changed["index"] <= s

\* During a run: a file that was missing and came back is to be looked at again.
Running ==
    script.at # "idle" /\ Unmoved(script.started) =>
        \A f \in script.missed : repo.work[f] = None \/ f \in repo.touched

Starting ==
    script.at = "watch" /\ changed["HEAD"] <= script.started =>
        \A f \in Files : repo.work[f] = None => f \in script.missed

Watching ==
    script.at \in {"describe", "sha", "branch", "status"} =>
        /\ Followed(script, script.at)
        /\ Kept(script.started, script.watch, script.missed) =>
               \A f \in Files \cap script.watch : repo.work[f] # None

Finished == built # Never => Followed(built, "built")

Checkout == Running /\ Starting /\ Watching /\ Finished

Package == script.metadata = Unknown /\ built.metadata = Unknown

IInv == TypeOK /\ (packaged => Package) /\ (~packaged => Checkout)
----------------------------------------------------------------------------
(***************************************************************************)
(* Types.                                                                  *)
(***************************************************************************)
LEMMA PathFacts ==
    /\ Files \subseteq Paths /\ GitPaths \subseteq Paths /\ Main \in Refs /\ Branches \subseteq Refs
    /\ \A r \in Refs : Directory(r) \in GitPaths
    /\ None \notin Paths /\ None \notin Contents /\ None \notin Files /\ First \in Contents
    /\ Refs \cap Nat = {} /\ Files \cap GitPaths = {}
  BY BuildConstants DEF Paths, Refs, Directory, GitPaths

Clocked == clock \in Nat /\ changed \in [Paths -> Nat] /\ \A p \in Paths : changed[p] <= clock

LEMMA TouchClock ==
    ASSUME Clocked, NEW ps, Touch(ps)
    PROVE  /\ Clocked' /\ clock' = clock + 1
           /\ \A p \in Paths : changed[p] <= changed'[p] /\ (p \in ps => changed'[p] = clock + 1)
<1>1. clock' = clock + 1 /\ changed' = [p \in Paths |-> IF p \in ps THEN clock + 1 ELSE changed[p]]
  BY DEF Touch
<1>2. clock \in Nat /\ \A p \in Paths : changed[p] \in Nat /\ changed[p] <= clock
  BY DEF Clocked
<1>3. \A p \in Paths : changed'[p] = IF p \in ps THEN clock + 1 ELSE changed[p]
  BY <1>1
<1>4. clock' \in Nat /\ \A p \in Paths : changed'[p] \in Nat /\ changed'[p] <= clock' /\ changed[p] <= changed'[p]
  BY <1>1, <1>2, <1>3
<1>5. changed' \in [Paths -> Nat]
  BY <1>1, <1>4
<1> QED BY <1>1, <1>3, <1>4, <1>5 DEF Clocked

LEMMA HeadIs ==
    ASSUME RepoOK(repo)
    PROVE  /\ HeadCommit \in Commits /\ Commits \subseteq Nat /\ HeadCommit \in Nat
           /\ \A c \in Commits : repo.commits[c] \in Commit0 /\ repo.commits[c].tree \in Tree
<1>1. repo.commits \in Seq(Commit0)
  BY DEF RepoOK, Repos
<1>2. HeadCommit \in Commits
  BY DEF RepoOK, HeadCommit, Commits
<1>3. Commits \subseteq Nat
  BY DEF Commits
<1>4. \A c \in Commits : repo.commits[c] \in Commit0
  BY <1>1 DEF Commits
<1> QED BY <1>2, <1>3, <1>4 DEF Commit0

\* Files come, go and change, and refs do not.
LEMMA FilesOK ==
    ASSUME RepoOK(repo), NEW r, r \in Repos,
           r.refs = repo.refs, r.head = repo.head, r.commits = repo.commits,
           r.loose \cup r.packed = repo.loose \cup repo.packed
    PROVE  RepoOK(r)
  BY DEF RepoOK

\* What a change of the developer's leaves.
Later == clock' >= clock /\ \A p \in Paths : changed[p] <= changed'[p]
Moved == RepoOK(repo)' /\ Clocked' /\ Later

LEMMA NotLater ==
    ASSUME Clocked, clock' = clock, changed' = changed
    PROVE  Clocked' /\ Later
<1>1. \A p \in Paths : changed[p] \in Nat
  BY DEF Clocked
<1> QED BY <1>1 DEF Clocked, Later

LEMMA TouchLater ==
    ASSUME Clocked, NEW ps, Touch(ps)
    PROVE  Clocked' /\ Later
  BY TouchClock DEF Later, Clocked

LEMMA RefreshOK ==
    ASSUME RepoOK(repo), Clocked, RefreshIndex
    PROVE  Moved
<1> DEFINE same == { f \in repo.touched : repo.work[f] = repo.index[f] }
<1>1. CASE same = {}
  <2>1. repo' = repo /\ clock' = clock /\ changed' = changed
    BY <1>1 DEF RefreshIndex
  <2> QED BY <2>1, NotLater DEF Moved
<1>2. CASE same # {}
  <2>1. repo' = [repo EXCEPT !.touched = @ \ same] /\ Touch({"index"})
    BY <1>2 DEF RefreshIndex
  <2> DEFINE r == [repo EXCEPT !.touched = @ \ same]
  <2>2. /\ r \in Repos /\ r.refs = repo.refs /\ r.head = repo.head /\ r.commits = repo.commits
        /\ r.loose = repo.loose /\ r.packed = repo.packed
    BY DEF RepoOK, Repos
  <2> HIDE DEF r
  <2>3. RepoOK(r)
    BY <2>2, FilesOK
  <2> QED BY <2>1, <2>3, TouchLater DEF r, Moved
<1> QED BY <1>1, <1>2

LEMMA ChangeOK ==
    ASSUME Clocked, NEW r, NEW ps, Change(r, ps), RepoOK(r)
    PROVE  Moved
  BY TouchLater DEF Change, Moved

LEMMA EditOK ==
    ASSUME RepoOK(repo), Clocked, NEW f \in Files, NEW c \in Contents, Edit(f, c)
    PROVE  Moved
<1> DEFINE r == [repo EXCEPT !.work[f] = c, !.touched = @ \cup {f}]
<1>1. /\ r \in Repos /\ r.refs = repo.refs /\ r.head = repo.head /\ r.commits = repo.commits
      /\ r.loose = repo.loose /\ r.packed = repo.packed
  BY DEF RepoOK, Repos, Tree
<1>2. Change(r, {f})
  BY DEF Edit
<1> HIDE DEF r
<1> QED BY <1>1, <1>2, FilesOK, ChangeOK

LEMMA MoveAsideOK ==
    ASSUME RepoOK(repo), Clocked, NEW f \in Files, MoveAside(f)
    PROVE  Moved
<1> DEFINE r == [repo EXCEPT !.work[f] = None, !.aside[f] = repo.work[f]]
<1>1. /\ r \in Repos /\ r.refs = repo.refs /\ r.head = repo.head /\ r.commits = repo.commits
      /\ r.loose = repo.loose /\ r.packed = repo.packed
  BY DEF RepoOK, Repos, Tree
<1>2. repo' = r /\ clock' = clock /\ changed' = changed
  BY DEF MoveAside
<1> HIDE DEF r
<1> QED BY <1>1, <1>2, FilesOK, NotLater DEF Moved

LEMMA MoveBackOK ==
    ASSUME RepoOK(repo), Clocked, NEW f \in Files, MoveBack(f)
    PROVE  Moved
<1> DEFINE r == [repo EXCEPT !.work[f] = repo.aside[f], !.touched = @ \cup {f}]
<1>1. /\ r \in Repos /\ r.refs = repo.refs /\ r.head = repo.head /\ r.commits = repo.commits
      /\ r.loose = repo.loose /\ r.packed = repo.packed
  BY DEF RepoOK, Repos, Tree
<1>2. repo' = r /\ clock' = clock /\ changed' = changed
  BY DEF MoveBack
<1> HIDE DEF r
<1> QED BY <1>1, <1>2, FilesOK, NotLater DEF Moved

LEMMA StageOK ==
    ASSUME RepoOK(repo), Clocked, NEW f \in Files, Stage(f)
    PROVE  Moved
<1> DEFINE r == [repo EXCEPT !.index[f] = repo.work[f], !.touched = @ \ {f}]
<1>1. /\ r \in Repos /\ r.refs = repo.refs /\ r.head = repo.head /\ r.commits = repo.commits
      /\ r.loose = repo.loose /\ r.packed = repo.packed
  BY DEF RepoOK, Repos, Tree
<1>2. Change(r, {"index"})
  BY DEF Stage
<1> HIDE DEF r
<1> QED BY <1>1, <1>2, FilesOK, ChangeOK

LEMMA RestoreOK ==
    ASSUME RepoOK(repo), Clocked, NEW f \in Files, Restore(f)
    PROVE  Moved
<1> DEFINE r == [repo EXCEPT !.work[f] = repo.index[f], !.touched = @ \ {f}]
<1>1. /\ r \in Repos /\ r.refs = repo.refs /\ r.head = repo.head /\ r.commits = repo.commits
      /\ r.loose = repo.loose /\ r.packed = repo.packed
  BY DEF RepoOK, Repos, Tree
<1>2. Change(r, {f, "index"})
  BY DEF Restore
<1> HIDE DEF r
<1> QED BY <1>1, <1>2, FilesOK, ChangeOK

LEMMA CommitOK ==
    ASSUME RepoOK(repo), Clocked, Commit
    PROVE  Moved
<1> DEFINE n == Len(repo.commits)
           c == n + 1
           one == [parent |-> HeadCommit, tree |-> repo.index]
           cs == Append(repo.commits, one)
           new == [repo EXCEPT !.commits = Append(@, one)]
           a == [new EXCEPT !.refs[repo.head] = c, !.loose = @ \cup {repo.head}]
           b == [new EXCEPT !.head = c]
<1>1. repo \in Repos /\ repo.commits \in Seq(Commit0) /\ n \in Nat /\ one \in Commit0
  BY HeadIs DEF RepoOK, Repos, Commit0
<1>2. cs \in Seq(Commit0) /\ Len(cs) = c
  BY <1>1
<1>3. c \in Nat /\ c \in 1..c /\ 1..n \subseteq 1..c
  BY <1>1
<1>4. CASE repo.head \in Branches
  <2> DEFINE h == repo.head
  <2>1. h \in Refs /\ Change(a, {"refs/heads"})
    BY <1>4, PathFacts DEF Commit
  <2> HIDE DEF c, cs
  <2>2. a = [repo EXCEPT !.commits = cs, !.refs = [repo.refs EXCEPT ![h] = c], !.loose = repo.loose \cup {h}]
    BY <1>1 DEF Repos, cs
  <2>3. a \in Repos
    BY <1>1, <1>2, <1>3, <2>1, <2>2 DEF Repos
  <2>4. a.commits = cs /\ a.refs = [repo.refs EXCEPT ![h] = c] /\ a.loose = repo.loose \cup {h}
        /\ a.packed = repo.packed /\ a.head = h
    BY <1>1, <2>2 DEF Repos
  <2> HIDE DEF a
  <2>5. RepoOK(a)
    BY <1>2, <1>3, <1>4, <2>1, <2>3, <2>4 DEF RepoOK
  <2> QED BY <2>1, <2>5, ChangeOK
<1>5. CASE repo.head \notin Branches
  <2>1. Change(b, {"HEAD"})
    BY <1>5 DEF Commit
  <2> HIDE DEF c, cs
  <2>2. b = [repo EXCEPT !.commits = cs, !.head = c]
    BY <1>1 DEF Repos, cs
  <2>3. b \in Repos
    BY <1>1, <1>2, <1>3, <2>2 DEF Repos
  <2>4. b.commits = cs /\ b.refs = repo.refs /\ b.loose = repo.loose /\ b.packed = repo.packed /\ b.head = c
    BY <1>1, <2>2 DEF Repos
  <2> HIDE DEF b
  <2>5. c \notin Branches
    BY <1>3, PathFacts
  <2>6. RepoOK(b)
    BY <1>2, <1>3, <2>3, <2>4, <2>5 DEF RepoOK
  <2> QED BY <2>1, <2>6, ChangeOK
<1> QED BY <1>4, <1>5

LEMMA CreateRefOK ==
    ASSUME RepoOK(repo), Clocked, NEW x \in Refs, CreateRef(x)
    PROVE  Moved
<1> DEFINE r == [repo EXCEPT !.refs[x] = HeadCommit, !.loose = @ \cup {x}]
<1>1. HeadCommit \in 1..Len(repo.commits) /\ HeadCommit \in Nat
  BY HeadIs DEF Commits
<1>2. /\ r \in Repos /\ r.refs = [repo.refs EXCEPT ![x] = HeadCommit] /\ r.head = repo.head
      /\ r.commits = repo.commits /\ r.loose = repo.loose \cup {x} /\ r.packed = repo.packed
  BY <1>1 DEF RepoOK, Repos
<1>3. Change(r, {Directory(x)})
  BY DEF CreateRef
<1> HIDE DEF r
<1>4. RepoOK(r)
  BY <1>1, <1>2 DEF RepoOK
<1> QED BY <1>3, <1>4, ChangeOK

LEMMA DeleteRefOK ==
    ASSUME RepoOK(repo), Clocked, NEW x \in Refs, DeleteRef(x)
    PROVE  Moved
<1> DEFINE r == [repo EXCEPT !.refs[x] = None, !.loose = @ \ {x}, !.packed = @ \ {x}]
<1>1. /\ r \in Repos /\ r.refs = [repo.refs EXCEPT ![x] = None] /\ r.head = repo.head
      /\ r.commits = repo.commits /\ r.loose = repo.loose \ {x} /\ r.packed = repo.packed \ {x}
  BY DEF RepoOK, Repos
<1>2. x # repo.head /\ \E ps : Change(r, ps)
  BY DEF DeleteRef
<1> HIDE DEF r
<1>3. RepoOK(r)
  BY <1>1, <1>2 DEF RepoOK
<1> QED BY <1>2, <1>3, ChangeOK

LEMMA PackRefsOK ==
    ASSUME RepoOK(repo), Clocked, PackRefs
    PROVE  Moved
<1> DEFINE r == [repo EXCEPT !.loose = {}, !.packed = @ \cup repo.loose]
<1>1. /\ r \in Repos /\ r.refs = repo.refs /\ r.head = repo.head
      /\ r.commits = repo.commits /\ r.loose = {} /\ r.packed = repo.packed \cup repo.loose
  BY DEF RepoOK, Repos
<1>2. \E ps : Change(r, ps)
  BY DEF PackRefs
<1> HIDE DEF r
<1> QED BY <1>1, <1>2, FilesOK, ChangeOK

LEMMA SwitchOK ==
    ASSUME RepoOK(repo), Clocked, NEW to \in Branches \cup Commits, Switch(to)
    PROVE  Moved
<1> DEFINE c == IF to \in Branches THEN repo.refs[to] ELSE to
           tree == repo.commits[c].tree
           r == [repo EXCEPT !.head = to, !.index = tree, !.work = tree]
<1>1. c \in Commits /\ to \in Branches \cup Nat
  BY HeadIs, PathFacts DEF Switch, RepoOK, Commits
<1>2. tree \in Tree
  BY <1>1, HeadIs
<1>3. \E ps : Change(r, ps)
  BY DEF Switch
<1> HIDE DEF tree
<1>4. /\ r \in Repos /\ r.refs = repo.refs /\ r.head = to
      /\ r.commits = repo.commits /\ r.loose = repo.loose /\ r.packed = repo.packed
  BY <1>1, <1>2 DEF RepoOK, Repos
<1> HIDE DEF r
<1>5. RepoOK(r)
  BY <1>1, <1>4 DEF RepoOK, Commits
<1> QED BY <1>3, <1>5, ChangeOK

LEMMA DevelopOK ==
    ASSUME RepoOK(repo), Clocked, Develop
    PROVE  Moved
<1>1. CASE GitStatus
  BY <1>1, RefreshOK DEF GitStatus, Moved
<1> QED BY <1>1, EditOK, MoveAsideOK, MoveBackOK, StageOK, RestoreOK, CreateRefOK, DeleteRefOK, SwitchOK,
           CommitOK, PackRefsOK DEF Develop

----------------------------------------------------------------------------
(***************************************************************************)
(* The developer and what is watched: a step that modifies no watched path *)
(* leaves everything that the metadata depends on.                         *)
(***************************************************************************)

\* The nearest tag from commit h on.
Tagged(refs, commits, h) ==
    LET tagged(c) == { t \in Tags : refs[t] = c }
        from[c \in 0..Len(commits)] ==
            IF c = 0 THEN [tag |-> None, distance |-> 0]
            ELSE IF tagged(c) # {} THEN [tag |-> CHOOSE t \in tagged(c) : TRUE, distance |-> 0]
            ELSE LET before == from[commits[c].parent]
                 IN  [before EXCEPT !.distance = @ + 1]
    IN  from[h]

LEMMA DescribedIs == Described = Tagged(repo.refs, repo.commits, HeadCommit)
  BY DEF Described, Tagged

\* Nothing changed but where files are.
Steady(w) ==
    /\ repo'.head = repo.head /\ repo'.refs = repo.refs /\ repo'.commits = repo.commits
    /\ repo'.index = repo.index /\ repo'.packed = repo.packed
    /\ \A f \in Files : f \in w => Home(w, f)' = Home(w, f)

LEMMA SteadyMetadata ==
    ASSUME NEW w, Steady(w)
    PROVE  HeadCommit' = HeadCommit /\ Described' = Described /\ Branch' = Branch
<1>1. HeadCommit' = HeadCommit
  BY DEF Steady, HeadCommit
<1>2. Branch' = Branch
  BY DEF Steady, Branch
<1>3. Described' = Tagged(repo'.refs, repo'.commits, HeadCommit')
  BY DEF Described, Tagged
<1>4. Described' = Tagged(repo.refs, repo.commits, HeadCommit)
  BY <1>1, <1>3 DEF Steady
<1> QED BY <1>1, <1>2, <1>4, DescribedIs

\* Files that were missed and not tracked make no difference.
LEMMA SteadyDiffers ==
    ASSUME NEW w, NEW m, NEW n, Steady(w), m \subseteq n,
           \A f \in Files : f \in n => f \in m \/ repo.index[f] = None
    PROVE  Differs(w, n)' = Differs(w, m)
<1>1. HeadCommit' = HeadCommit
  BY SteadyMetadata
<1>2. Differs(w, n)' <=> Differs(w, m)
  BY <1>1 DEF Differs, Steady
<1>3. Differs(w, n)' \in BOOLEAN /\ Differs(w, m) \in BOOLEAN
  BY DEF Differs
<1> QED BY <1>2, <1>3

\* A step at which no watched path was modified, if files n are now missed.
Unseen(s, w, m, n) ==
    /\ Kept(s, w, m) /\ Steady(w) /\ m \subseteq n
    /\ \A f \in Files : f \in n => f \in m \/ repo.index[f] = None

LEMMA UnseenHolds ==
    ASSUME NEW s, NEW w, NEW m, NEW n, NEW b, NEW at,
           Holds(s, w, m, b, at), Kept(s, w, n)' => Unseen(s, w, m, n)
    PROVE  Holds(s, w, n, b, at)'
<1>1. Watches(w)
  BY DEF Holds
<1>2. ASSUME Kept(s, w, n)'
      PROVE  Covers(w, n)' /\ Captured(b, at, w, n)'
  <2>1. Unseen(s, w, m, n) /\ Steady(w) /\ Covers(w, m) /\ Captured(b, at, w, m)
    BY <1>2 DEF Holds, Unseen
  <2>2. Covers(w, n)'
    BY <2>1 DEF Unseen, Steady, Covers
  <2>3. HeadCommit' = HeadCommit /\ Described' = Described /\ Branch' = Branch
    BY <2>1, SteadyMetadata
  <2>4. Differs(w, n)' = Differs(w, m)
    BY <2>1, SteadyDiffers DEF Unseen
  <2>5. Captured(b, at, w, n)'
    BY <2>1, <2>3, <2>4 DEF Captured
  <2> QED BY <2>2, <2>5
<1>3. Watches(w)'
  BY <1>1 DEF Watches
<1> QED BY <1>2, <1>3 DEF Holds

\* A run's past: the paths it watches, and files missed since it began.
Past(s, w, m) == s \in Nat /\ s <= clock /\ w \subseteq Paths /\ m \subseteq Files /\ Watches(w)

LEMMA TouchSeen ==
    ASSUME Clocked, NEW ps, Touch(ps), NEW s, NEW w, NEW m, NEW n, Past(s, w, m), Kept(s, w, n)'
    PROVE  ps \cap w = {}
<1> SUFFICES ASSUME NEW p \in ps \cap w PROVE FALSE
  OBVIOUS
<1>1. changed'[p] = clock + 1 /\ changed'[p] <= s
  BY TouchClock DEF Kept, Past
<1> QED BY <1>1 DEF Past, Clocked

LEMMA KeptBefore ==
    ASSUME Clocked, Clocked', Later, NEW s, NEW w, NEW m, NEW n, Past(s, w, m), m \subseteq n, Kept(s, w, n)'
    PROVE  Kept(s, w, m)
<1>1. w \cap m = {}
  BY DEF Kept
<1>2. ASSUME NEW p \in w PROVE changed[p] <= s
  <2>1. changed[p] \in Nat /\ changed'[p] \in Nat /\ changed[p] <= changed'[p] /\ changed'[p] <= s /\ s \in Nat
    BY DEF Clocked, Later, Past, Kept
  <2> QED BY <2>1
<1> QED BY <1>1, <1>2 DEF Kept

LEMMA RefreshUnseen ==
    ASSUME Clocked, RefreshIndex, NEW s, NEW w, NEW m, NEW n, Past(s, w, m), Kept(s, w, n)'
    PROVE  /\ repo' = repo /\ clock' = clock /\ changed' = changed
           /\ \A f \in repo.touched : repo.work[f] # repo.index[f]
<1> DEFINE same == { f \in repo.touched : repo.work[f] = repo.index[f] }
<1>1. CASE same = {}
  BY <1>1 DEF RefreshIndex
<1>2. CASE same # {}
  <2>1. Touch({"index"}) /\ "index" \in w
    BY <1>2 DEF RefreshIndex, Past, Watches
  <2> QED BY <2>1, TouchSeen
<1> QED BY <1>1, <1>2

LEMMA SteadyIfSame ==
    ASSUME NEW w, repo' = repo
    PROVE  Steady(w)
  BY DEF Steady, Home

LEMMA EditUnseen ==
    ASSUME RepoOK(repo), Clocked, NEW f \in Files, NEW c \in Contents, Edit(f, c),
           NEW s, NEW w, NEW m, Past(s, w, m), Kept(s, w, m)'
    PROVE  Steady(w)
<1>1. f \notin w
  BY TouchSeen DEF Edit, Change
<1>2. /\ repo'.head = repo.head /\ repo'.refs = repo.refs /\ repo'.commits = repo.commits
      /\ repo'.index = repo.index /\ repo'.packed = repo.packed /\ repo'.aside = repo.aside
      /\ repo'.work = [repo.work EXCEPT ![f] = c]
  BY DEF RepoOK, Repos, Edit, Change
<1>3. \A g \in Files : g \in w => repo'.work[g] = repo.work[g]
  BY <1>1, <1>2 DEF RepoOK, Repos, Tree
<1> QED BY <1>2, <1>3 DEF Steady, Home

LEMMA MoveAsideUnseen ==
    ASSUME RepoOK(repo), NEW f \in Files, MoveAside(f), NEW w
    PROVE  Steady(w)
<1>1. /\ repo'.head = repo.head /\ repo'.refs = repo.refs /\ repo'.commits = repo.commits
      /\ repo'.index = repo.index /\ repo'.packed = repo.packed
      /\ repo'.work = [repo.work EXCEPT ![f] = None] /\ repo'.aside = [repo.aside EXCEPT ![f] = repo.work[f]]
  BY DEF RepoOK, Repos, MoveAside
<1>2. repo.work \in Tree /\ repo.aside \in Tree /\ repo.work[f] # None
  BY DEF RepoOK, Repos, MoveAside
<1>3. ASSUME NEW g \in Files PROVE Home(w, g)' = Home(w, g) \/ g \notin w
  BY <1>1, <1>2 DEF Tree, Home
<1> QED BY <1>1, <1>3 DEF Steady

LEMMA MoveBackUnseen ==
    ASSUME RepoOK(repo), NEW f \in Files, MoveBack(f), NEW w
    PROVE  Steady(w)
<1>1. /\ repo'.head = repo.head /\ repo'.refs = repo.refs /\ repo'.commits = repo.commits
      /\ repo'.index = repo.index /\ repo'.packed = repo.packed
      /\ repo'.work = [repo.work EXCEPT ![f] = repo.aside[f]] /\ repo'.aside = repo.aside
  BY DEF RepoOK, Repos, MoveBack
<1>2. repo.work \in Tree /\ repo.aside \in Tree /\ repo.work[f] = None /\ repo.aside[f] # None
  BY DEF RepoOK, Repos, MoveBack
<1>3. ASSUME NEW g \in Files PROVE Home(w, g)' = Home(w, g) \/ g \notin w
  BY <1>1, <1>2 DEF Tree, Home
<1> QED BY <1>1, <1>3 DEF Steady

\* Git's own steps modify a path that is always watched.
GitStep ==
    \/ \E f \in Files : Stage(f) \/ Restore(f)
    \/ \E r \in Refs : CreateRef(r) \/ DeleteRef(r)
    \/ \E to \in Branches \cup Commits : Switch(to)
    \/ Commit \/ PackRefs

LEMMA GitSeen ==
    ASSUME RepoOK(repo), Clocked, GitStep, NEW s, NEW w, NEW m, Past(s, w, m), Covers(w, m)
    PROVE  ~Kept(s, w, m)'
<1> SUFFICES ASSUME Kept(s, w, m)' PROVE FALSE
  OBVIOUS
<1>1. \A ps : Touch(ps) => ps \cap w = {}
  BY TouchSeen
<1>2. {"HEAD", "index", "refs/heads", "refs/tags"} \subseteq w /\ \A r \in Refs : Directory(r) \in w
  BY DEF Past, Watches, Directory
<1>3. ASSUME NEW f \in Files, Stage(f) \/ Restore(f) PROVE FALSE
  <2>1. Touch({"index"}) \/ Touch({f, "index"})
    BY <1>3 DEF Stage, Restore, Change
  <2> QED BY <2>1, <1>1, <1>2
<1>4. ASSUME NEW r \in Refs, CreateRef(r) PROVE FALSE
  <2>1. Touch({Directory(r)})
    BY <1>4 DEF CreateRef, Change
  <2> QED BY <2>1, <1>1, <1>2
<1>5. ASSUME NEW r \in Refs, DeleteRef(r) PROVE FALSE
  <2>1. Touch((IF r \in repo.loose THEN {Directory(r)} ELSE {})
              \cup (IF r \in repo.packed THEN {"packed-refs"} ELSE {}))
    BY <1>5 DEF DeleteRef, Change
  <2>2. r \in repo.loose \/ (r \in repo.packed /\ "packed-refs" \in w)
    BY <1>5 DEF DeleteRef, RepoOK, Covers
  <2> QED BY <2>1, <2>2, <1>1, <1>2
<1>6. ASSUME NEW to \in Branches \cup Commits, Switch(to) PROVE FALSE
  <2>1. \E ps : Touch(ps) /\ "HEAD" \in ps
    BY <1>6 DEF Switch, Change
  <2> QED BY <2>1, <1>1, <1>2
<1>7. CASE Commit
  <2>1. Touch({"refs/heads"}) \/ Touch({"HEAD"})
    BY <1>7 DEF Commit, Change
  <2> QED BY <2>1, <1>1, <1>2
<1>8. CASE PackRefs
  <2>1. PICK r \in repo.loose : TRUE
    BY <1>8 DEF PackRefs
  <2>2. r \in Refs
    BY DEF RepoOK, Repos
  <2>3. Touch({"packed-refs"} \cup { Directory(x) : x \in repo.loose })
    BY <1>8 DEF PackRefs, Change
  <2> QED BY <2>2, <2>3, <1>1, <1>2
<1> QED BY <1>3, <1>4, <1>5, <1>6, <1>7, <1>8 DEF GitStep

\* What a run misses more, when a file is moved aside.
Misses(m, n) == n = m \/ \E f \in Files : MoveAside(f) /\ n = m \cup {f}

LEMMA DevelopUnseen ==
    ASSUME RepoOK(repo), Clocked, Develop, NEW s, NEW w, NEW m, NEW n, Past(s, w, m), Misses(m, n),
           Kept(s, w, m) => Covers(w, m), Kept(s, w, n)'
    PROVE  Unseen(s, w, m, n)
<1>1. m \subseteq n
  BY DEF Misses
<1>2. Kept(s, w, m) /\ Covers(w, m) /\ Kept(s, w, m)'
  <2>1. Kept(s, w, m) /\ Covers(w, m)
    BY <1>1, KeptBefore, DevelopOK DEF Moved
  <2>2. Kept(s, w, m)'
    BY <1>1 DEF Kept
  <2> QED BY <2>1, <2>2
<1>3. Steady(w)
  <2>1. CASE GitStatus
    BY <2>1, RefreshUnseen, SteadyIfSame, <1>2 DEF GitStatus
  <2>2. ASSUME NEW f \in Files, NEW c \in Contents, Edit(f, c) PROVE Steady(w)
    BY <2>2, EditUnseen, <1>2
  <2>3. ASSUME NEW f \in Files, MoveAside(f) \/ MoveBack(f) PROVE Steady(w)
    BY <2>3, MoveAsideUnseen, MoveBackUnseen
  <2>4. ~GitStep
    BY GitSeen, <1>2
  <2> QED BY <2>1, <2>2, <2>3, <2>4 DEF Develop, GitStep
<1>4. ASSUME NEW f \in Files, f \in n, f \notin m PROVE repo.index[f] = None
  <2>1. n = m \cup {f}
    BY <1>4 DEF Misses
  <2>2. f \notin w
    BY <2>1 DEF Kept
  <2> QED BY <2>2, <1>2, <1>4 DEF Covers
<1> QED BY <1>1, <1>2, <1>3, <1>4 DEF Unseen

\* What was captured stays true while a developer works.
LEMMA DevelopHolds ==
    ASSUME RepoOK(repo), Clocked, Develop, NEW s, NEW w, NEW m, NEW n, NEW b, NEW at,
           Past(s, w, m), Misses(m, n), Holds(s, w, m, b, at)
    PROVE  Holds(s, w, n, b, at)'
<1>1. Kept(s, w, m) => Covers(w, m)
  BY DEF Holds
<1>2. Kept(s, w, n)' => Unseen(s, w, m, n)
  BY <1>1, DevelopUnseen
<1> QED BY <1>2, UnseenHolds

----------------------------------------------------------------------------
(***************************************************************************)
(* The types of the run and of what was built.                             *)
(***************************************************************************)
Script0 ==
    /\ script = [ at |-> script.at, started |-> script.started, watch |-> script.watch,
                  missed |-> script.missed, metadata |-> script.metadata ]
    /\ script.at \in {"idle", "watch", "describe", "sha", "branch", "status"}
    /\ script.started \in Nat /\ script.started <= clock
    /\ script.watch \subseteq Paths /\ script.missed \subseteq Files /\ Shaped(script.metadata)

Built0 ==
    /\ built.started \in Nat /\ built.started <= clock /\ Shaped(built.metadata)
    /\ built = Never \/ (built.watch \subseteq Paths /\ built.missed \subseteq Files)

LEMMA TypeParts == TypeOK <=> packaged \in BOOLEAN /\ RepoOK(repo) /\ Clocked /\ Script0 /\ Built0
  BY DEF TypeOK, Clocked, Script0, Built0

\* The developer leaves the run and what was built, but for the missed files.
LEMMA DevelopLeaves ==
    ASSUME Script0, Develop
    PROVE  /\ packaged' = packaged /\ built' = built
           /\ \/ script' = script
              \/ \E f \in Files : MoveAside(f) /\ script.at # "idle"
                                  /\ script' = [script EXCEPT !.missed = @ \cup {f}]
<1>1. ASSUME NEW f \in Files, MoveAside(f)
      PROVE  \/ script' = script /\ script.at = "idle"
             \/ script.at # "idle" /\ script' = [script EXCEPT !.missed = @ \cup {f}]
  <2>1. script' = [script EXCEPT !.missed = IF script.at = "idle" THEN @ ELSE @ \cup {f}]
    BY <1>1 DEF MoveAside
  <2>2. [script EXCEPT !.missed = script.missed] = script
    <3>1. script \in [at : {script.at}, started : {script.started}, watch : {script.watch},
                      missed : {script.missed}, metadata : {script.metadata}]
      BY DEF Script0
    <3> QED BY <3>1
  <2> QED BY <2>1, <2>2
<1> QED BY <1>1 DEF Develop, Edit, MoveAside, MoveBack, Stage, Restore, CreateRef, DeleteRef, Switch,
                    GitStatus, Commit, PackRefs, Change

LEMMA DevelopTypes ==
    ASSUME TypeOK, Develop
    PROVE  TypeOK' /\ Moved
<1>1. RepoOK(repo) /\ Clocked /\ Script0 /\ Built0 /\ packaged \in BOOLEAN
  BY TypeParts
<1>2. RepoOK(repo)' /\ Clocked' /\ clock' >= clock /\ clock \in Nat /\ clock' \in Nat /\ Moved
  BY <1>1, DevelopOK DEF Moved, Later, Clocked
<1>3. Built0'
  BY <1>1, <1>2, DevelopLeaves DEF Built0
<1>4. Script0'
  <2>1. CASE script' = script
    BY <2>1, <1>1, <1>2 DEF Script0
  <2>2. ASSUME NEW f \in Files, script' = [script EXCEPT !.missed = @ \cup {f}] PROVE Script0'
    <3>1. script' = [ at |-> script.at, started |-> script.started, watch |-> script.watch,
                      missed |-> script.missed \cup {f}, metadata |-> script.metadata ]
      BY <2>2, <1>1 DEF Script0
    <3>2. /\ script'.at = script.at /\ script'.started = script.started /\ script'.watch = script.watch
          /\ script'.missed = script.missed \cup {f} /\ script'.metadata = script.metadata
      BY <3>1
    <3> QED BY <3>1, <3>2, <1>1, <1>2 DEF Script0
  <2> QED BY <2>1, <2>2, <1>1, DevelopLeaves
<1>5. packaged' \in BOOLEAN
  BY <1>1, DevelopLeaves
<1>6. (packaged \in BOOLEAN /\ RepoOK(repo) /\ Clocked /\ Script0 /\ Built0)' => TypeOK'
  BY DEF TypeOK, Clocked, Script0, Built0
<1> QED BY <1>2, <1>3, <1>4, <1>5, <1>6

----------------------------------------------------------------------------
(***************************************************************************)
(* The invariant, while a developer works.                                 *)
(***************************************************************************)
Modified(p) == \E ps : Touch(ps) /\ p \in ps

LEMMA ModifiedLater ==
    ASSUME Clocked, NEW p \in Paths, Modified(p), NEW s \in Nat, s <= clock
    PROVE  ~(changed'[p] <= s)
<1>1. changed'[p] = clock + 1
  BY TouchClock DEF Modified
<1> QED BY <1>1 DEF Clocked

\* Stage, restore or switch.
LEMMA WorkAfterGit ==
    ASSUME RepoOK(repo), GitStep
    PROVE  \/ repo'.work = repo.work /\ repo'.touched = repo.touched
           \/ Modified("index") /\ repo'.work = repo.work
           \/ Modified("index") /\ \E f \in Files : repo.index[f] # None /\ repo'.work = [repo.work EXCEPT ![f] = repo.index[f]]
           \/ Modified("HEAD")
<1>1. ASSUME NEW f \in Files, Stage(f) PROVE Modified("index") /\ repo'.work = repo.work
  BY <1>1 DEF RepoOK, Repos, Stage, Change, Modified
<1>2. ASSUME NEW f \in Files, Restore(f)
      PROVE  Modified("index") /\ repo.index[f] # None /\ repo'.work = [repo.work EXCEPT ![f] = repo.index[f]]
  BY <1>2 DEF RepoOK, Repos, Restore, Change, Modified
<1>3. ASSUME NEW r \in Refs, CreateRef(r) PROVE repo'.work = repo.work /\ repo'.touched = repo.touched
  BY <1>3 DEF RepoOK, Repos, CreateRef, Change
<1>4. ASSUME NEW r \in Refs, DeleteRef(r) PROVE repo'.work = repo.work /\ repo'.touched = repo.touched
  BY <1>4 DEF RepoOK, Repos, DeleteRef, Change
<1>5. ASSUME NEW to \in Branches \cup Commits, Switch(to) PROVE Modified("HEAD")
  BY <1>5 DEF Switch, Change, Modified
<1>6. ASSUME Commit PROVE repo'.work = repo.work /\ repo'.touched = repo.touched
  BY <1>6 DEF RepoOK, Repos, Commit, Change
<1>7. ASSUME PackRefs PROVE repo'.work = repo.work /\ repo'.touched = repo.touched
  BY <1>7 DEF RepoOK, Repos, PackRefs, Change
<1> QED BY <1>1, <1>2, <1>3, <1>4, <1>5, <1>6, <1>7 DEF GitStep

LEMMA WorkAfterRefresh ==
    ASSUME RepoOK(repo), RefreshIndex
    PROVE  \/ repo' = repo /\ clock' = clock /\ changed' = changed
           \/ repo'.work = repo.work /\ Modified("index")
  BY DEF RepoOK, Repos, RefreshIndex, Modified

\* A file goes when it is moved aside, or with a switch.
LEMMA FilesGo ==
    ASSUME RepoOK(repo), Develop, NEW f \in Files, repo'.work[f] = None
    PROVE  repo.work[f] = None \/ MoveAside(f) \/ Modified("HEAD")
<1>0. repo.work \in Tree /\ None \notin Contents
  BY PathFacts DEF RepoOK, Repos
<1>1. ASSUME NEW g \in Files, NEW c \in Contents, Edit(g, c) PROVE repo.work[f] = None
  <2>1. repo'.work = [repo.work EXCEPT ![g] = c]
    BY <1>1 DEF RepoOK, Repos, Edit, Change
  <2> QED BY <1>0, <2>1 DEF Tree
<1>2. ASSUME NEW g \in Files, MoveAside(g), g # f PROVE repo.work[f] = None
  <2>1. repo'.work = [repo.work EXCEPT ![g] = None]
    BY <1>2 DEF RepoOK, Repos, MoveAside
  <2> QED BY <1>0, <1>2, <2>1 DEF Tree
<1>3. ASSUME NEW g \in Files, MoveBack(g) PROVE repo.work[f] = None
  <2>1. repo'.work = [repo.work EXCEPT ![g] = repo.aside[g]]
    BY <1>3 DEF RepoOK, Repos, MoveBack
  <2> QED BY <1>0, <1>3, <2>1 DEF Tree, MoveBack
<1>4. ASSUME GitStep PROVE repo.work[f] = None \/ Modified("HEAD")
  BY <1>0, <1>4, WorkAfterGit DEF Tree
<1>5. ASSUME GitStatus PROVE repo.work[f] = None
  BY <1>5, WorkAfterRefresh DEF GitStatus
<1> QED BY <1>1, <1>2, <1>3, <1>4, <1>5 DEF Develop, GitStep

LEMMA MoveAsideGone ==
    ASSUME RepoOK(repo), NEW f \in Files, MoveAside(f)
    PROVE  repo'.work[f] = None
  BY DEF RepoOK, Repos, Tree, MoveAside

\* A file that is missing or to be looked at stays so, until the index is written.
LEMMA FilesReturn ==
    ASSUME RepoOK(repo), Develop, NEW f \in Files, repo.work[f] = None \/ f \in repo.touched
    PROVE  repo'.work[f] = None \/ f \in repo'.touched \/ Modified("HEAD") \/ Modified("index")
<1>0. repo.work \in Tree
  BY DEF RepoOK, Repos
<1>1. ASSUME NEW g \in Files, NEW c \in Contents, Edit(g, c) PROVE repo'.work[f] = None \/ f \in repo'.touched
  <2>1. repo'.work = [repo.work EXCEPT ![g] = c] /\ repo'.touched = repo.touched \cup {g}
    BY <1>1 DEF RepoOK, Repos, Edit, Change
  <2> QED BY <1>0, <2>1 DEF Tree
<1>2. ASSUME NEW g \in Files, MoveAside(g) PROVE repo'.work[f] = None \/ f \in repo'.touched
  <2>1. repo'.work = [repo.work EXCEPT ![g] = None] /\ repo'.touched = repo.touched
    BY <1>2 DEF RepoOK, Repos, MoveAside
  <2> QED BY <1>0, <2>1 DEF Tree
<1>3. ASSUME NEW g \in Files, MoveBack(g) PROVE repo'.work[f] = None \/ f \in repo'.touched
  <2>1. repo'.work = [repo.work EXCEPT ![g] = repo.aside[g]] /\ repo'.touched = repo.touched \cup {g}
    BY <1>3 DEF RepoOK, Repos, MoveBack
  <2> QED BY <1>0, <2>1 DEF Tree
<1>4. ASSUME GitStep PROVE repo'.work[f] = None \/ f \in repo'.touched \/ Modified("HEAD") \/ Modified("index")
  BY <1>4, WorkAfterGit
<1>5. ASSUME GitStatus PROVE repo'.work[f] = None \/ f \in repo'.touched \/ Modified("index")
  BY <1>5, WorkAfterRefresh DEF GitStatus
<1> QED BY <1>1, <1>2, <1>3, <1>4, <1>5 DEF Develop, GitStep

\* The run under way, while a developer works.
RunGoesOn ==
    /\ script'.at = script.at /\ script'.started = script.started /\ script'.watch = script.watch
    /\ script'.metadata = script.metadata
    /\ IF script.at = "idle" THEN script'.missed = script.missed ELSE Misses(script.missed, script'.missed)
    /\ \A f \in Files : MoveAside(f) /\ script.at # "idle" => f \in script'.missed

LEMMA DevelopRuns ==
    ASSUME Script0, Develop
    PROVE  RunGoesOn
<1>1. \A f \in Files : MoveAside(f) =>
          script' = [script EXCEPT !.missed = IF script.at = "idle" THEN @ ELSE @ \cup {f}]
  BY DEF MoveAside
<1>2. \A x : [script EXCEPT !.missed = x] =
              [ at |-> script.at, started |-> script.started, watch |-> script.watch,
                missed |-> x, metadata |-> script.metadata ]
  BY DEF Script0
<1>3. \A f \in Files : MoveAside(f) /\ script.at # "idle" => f \in script'.missed
  BY <1>1, <1>2
<1>4. CASE script' = script
  BY <1>3, <1>4 DEF RunGoesOn, Misses
<1>5. ASSUME NEW f \in Files, MoveAside(f), script.at # "idle", script' = [script EXCEPT !.missed = @ \cup {f}]
      PROVE  RunGoesOn
  <2>1. script' = [ at |-> script.at, started |-> script.started, watch |-> script.watch,
                    missed |-> script.missed \cup {f}, metadata |-> script.metadata ]
    BY <1>2, <1>5
  <2>2. /\ script'.at = script.at /\ script'.started = script.started /\ script'.watch = script.watch
        /\ script'.metadata = script.metadata /\ script'.missed = script.missed \cup {f}
    BY <2>1
  <2> QED BY <2>2, <1>3, <1>5 DEF RunGoesOn, Misses
<1> QED BY <1>4, <1>5, DevelopLeaves

LEMMA DevelopRunning ==
    ASSUME TypeOK, Running, Develop
    PROVE  Running'
<1>1. RepoOK(repo) /\ Clocked /\ Script0 /\ RunGoesOn /\ Later
  BY TypeParts, DevelopRuns, DevelopTypes DEF Moved
<1> DEFINE s == script.started
<1>2. s \in Nat /\ s <= clock /\ "HEAD" \in Paths /\ "index" \in Paths /\ script.missed \subseteq Files
  BY <1>1 DEF Script0, Paths, GitPaths
<1> SUFFICES ASSUME script.at # "idle", changed'["HEAD"] <= s, changed'["index"] <= s, NEW f \in script'.missed
             PROVE  repo'.work[f] = None \/ f \in repo'.touched
  BY <1>1 DEF Running, Unmoved, RunGoesOn
<1>3. ~Modified("HEAD") /\ ~Modified("index")
  BY <1>1, <1>2, ModifiedLater
<1>4. Unmoved(s)
  <2>1. changed["HEAD"] <= changed'["HEAD"] /\ changed["index"] <= changed'["index"]
    BY <1>1, <1>2 DEF Later
  <2>2. changed["HEAD"] \in Nat /\ changed["index"] \in Nat /\ changed'["HEAD"] \in Nat /\ changed'["index"] \in Nat
    BY <1>1, <1>2, DevelopTypes DEF Moved, Clocked
  <2> QED BY <1>2, <2>1, <2>2 DEF Unmoved
<1>5. CASE f \in script.missed
  <2>1. f \in Files /\ (repo.work[f] = None \/ f \in repo.touched)
    BY <1>2, <1>4, <1>5 DEF Running
  <2> QED BY <1>1, <1>3, <2>1, FilesReturn
<1>6. CASE f \notin script.missed
  <2>1. f \in Files /\ MoveAside(f)
    BY <1>1, <1>6 DEF RunGoesOn, Misses
  <2> QED BY <1>1, <2>1, MoveAsideGone
<1> QED BY <1>5, <1>6

LEMMA DevelopStarting ==
    ASSUME TypeOK, Starting, Develop
    PROVE  Starting'
<1>1. RepoOK(repo) /\ Clocked /\ Script0 /\ RunGoesOn /\ Later
  BY TypeParts, DevelopRuns, DevelopTypes DEF Moved
<1> DEFINE s == script.started
<1>2. s \in Nat /\ s <= clock /\ "HEAD" \in Paths
  BY <1>1 DEF Script0, Paths, GitPaths
<1> SUFFICES ASSUME script.at = "watch", changed'["HEAD"] <= s, NEW f \in Files, repo'.work[f] = None
             PROVE  f \in script'.missed
  BY <1>1 DEF Starting, RunGoesOn
<1>3. ~Modified("HEAD")
  BY <1>1, <1>2, ModifiedLater
<1>4. changed["HEAD"] <= s
  <2>1. changed["HEAD"] <= changed'["HEAD"]
    BY <1>1, <1>2 DEF Later
  <2>2. changed["HEAD"] \in Nat /\ changed'["HEAD"] \in Nat
    BY <1>1, <1>2, DevelopTypes DEF Moved, Clocked
  <2> QED BY <1>2, <2>1, <2>2
<1>5. CASE repo.work[f] = None
  BY <1>1, <1>4, <1>5 DEF Starting, RunGoesOn, Misses
<1>6. CASE MoveAside(f)
  BY <1>1, <1>6 DEF RunGoesOn
<1> QED BY <1>1, <1>3, <1>5, <1>6, FilesGo

LEMMA DevelopWatching ==
    ASSUME TypeOK, Watching, Develop
    PROVE  Watching'
<1>1. RepoOK(repo) /\ Clocked /\ Script0 /\ RunGoesOn /\ Later /\ Clocked'
  BY TypeParts, DevelopRuns, DevelopTypes DEF Moved
<1> SUFFICES ASSUME script.at \in {"describe", "sha", "branch", "status"}
             PROVE  /\ Followed(script, script.at)'
                    /\ Kept(script.started, script.watch, script.missed)' =>
                           \A f \in Files \cap script'.watch : repo'.work[f] # None
  BY <1>1 DEF Watching, RunGoesOn
<1>2. PICK s, w, m, n, b, at :
          /\ s = script.started /\ w = script.watch /\ m = script.missed /\ n = script'.missed
          /\ b = script.metadata /\ at = script.at
  OBVIOUS
<1>3. /\ script'.started = s /\ script'.watch = w /\ script'.metadata = b /\ script'.at = at
      /\ Misses(m, n) /\ \A f \in Files : MoveAside(f) => f \in n
  BY <1>1, <1>2 DEF RunGoesOn
<1>4. Holds(s, w, m, b, at) /\ (Kept(s, w, m) => \A f \in Files : f \in w => repo.work[f] # None)
  BY <1>2 DEF Watching, Followed
<1>5. Past(s, w, m)
  BY <1>1, <1>2, <1>4 DEF Script0, Past, Holds
<1>6. Holds(s, w, n, b, at)'
  BY <1>1, <1>3, <1>4, <1>5, DevelopHolds
<1>7. ASSUME Kept(s, w, n)', NEW f \in Files, f \in w
      PROVE  repo'.work[f] # None
  <2>1. Kept(s, w, m) /\ repo.work[f] # None
    <3>1. Kept(s, w, m)
      BY <1>1, <1>3, <1>5, <1>7, KeptBefore DEF Misses
    <3> QED BY <3>1, <1>4, <1>7
  <2>2. ~MoveAside(f)
    BY <1>3, <1>7 DEF Kept
  <2>3. ~Modified("HEAD")
    <3>1. Kept(s, w, n)' /\ "HEAD" \in w
      BY <1>5, <1>7 DEF Past, Watches
    <3> QED BY <3>1, <1>1, <1>5, TouchSeen DEF Modified
  <2> QED BY <1>1, <2>1, <2>2, <2>3, FilesGo
<1>8. Followed(script, script.at)'
  BY <1>2, <1>3, <1>6 DEF Followed
<1> QED BY <1>2, <1>3, <1>7, <1>8 DEF Kept

LEMMA DevelopFinished ==
    ASSUME TypeOK, Finished, Develop
    PROVE  Finished'
<1>1. RepoOK(repo) /\ Clocked /\ Script0 /\ Built0 /\ built' = built
  BY TypeParts, DevelopLeaves
<1> SUFFICES ASSUME built # Never PROVE Followed(built, "built")'
  BY <1>1 DEF Finished, Never, Unknown
<1>2. PICK s, w, m, b : s = built.started /\ w = built.watch /\ m = built.missed /\ b = built.metadata
  OBVIOUS
<1>3. Holds(s, w, m, b, "built")
  BY <1>2 DEF Finished, Followed
<1>4. Past(s, w, m)
  BY <1>1, <1>2, <1>3 DEF Built0, Past, Holds
<1>5. Holds(s, w, m, b, "built")'
  BY <1>1, <1>3, <1>4, DevelopHolds DEF Misses
<1> QED BY <1>1, <1>2, <1>5 DEF Followed

----------------------------------------------------------------------------
(***************************************************************************)
(* The build script's steps.                                               *)
(***************************************************************************)
Run(at, s, w, m, b) == [ at |-> at, started |-> s, watch |-> w, missed |-> m, metadata |-> b ]

Embed(d, dd, sha, branch, dirty) ==
    [ describe |-> d, describeDirty |-> dd, sha |-> sha, branch |-> branch, dirty |-> dirty ]

LEMMA RunFields ==
    \A at, s, w, m, b :
        /\ Run(at, s, w, m, b).at = at /\ Run(at, s, w, m, b).started = s /\ Run(at, s, w, m, b).watch = w
        /\ Run(at, s, w, m, b).missed = m /\ Run(at, s, w, m, b).metadata = b
  BY DEF Run

LEMMA EmbedFields ==
    \A d, dd, sha, branch, dirty :
        /\ Embed(d, dd, sha, branch, dirty).describe = d /\ Embed(d, dd, sha, branch, dirty).describeDirty = dd
        /\ Embed(d, dd, sha, branch, dirty).sha = sha /\ Embed(d, dd, sha, branch, dirty).branch = branch
        /\ Embed(d, dd, sha, branch, dirty).dirty = dirty
  BY DEF Embed

LEMMA EmbedShaped == \A d, dd, sha, branch, dirty : Shaped(Embed(d, dd, sha, branch, dirty))
  BY EmbedFields DEF Embed, Shaped

LEMMA UnknownIs == Unknown = Embed(None, FALSE, None, None, FALSE)
  BY DEF Unknown, Embed

LEMMA RunIs ==
    ASSUME Script0
    PROVE  LET b == script.metadata
           IN  script = Run(script.at, script.started, script.watch, script.missed,
                            Embed(b.describe, b.describeDirty, b.sha, b.branch, b.dirty))
  BY DEF Script0, Shaped, Run, Embed

\* What the steps store in a run.
StoreDescribe(r, x, y) == [r EXCEPT !.at = "sha", !.metadata.describe = x, !.metadata.describeDirty = y]
StoreSha(r, x)         == [r EXCEPT !.at = "branch", !.metadata.sha = x]
StoreBranch(r, x)      == [r EXCEPT !.at = "status", !.metadata.branch = x]

LEMMA DescribeIs ==
    ASSUME NEW at, NEW s, NEW w, NEW m, NEW d, NEW dd, NEW sha, NEW branch, NEW dirty, NEW x, NEW y,
           NEW run, run = Run(at, s, w, m, Embed(d, dd, sha, branch, dirty))
    PROVE  StoreDescribe(run, x, y) = Run("sha", s, w, m, Embed(x, y, sha, branch, dirty))
<1> DEFINE e == Embed(d, dd, sha, branch, dirty)
<1> HIDE DEF e
<1>1. \A to : [run EXCEPT !.at = to] = Run(to, s, w, m, e)
  BY DEF e, Run
<1>2. [run EXCEPT !.at = "sha", !.metadata.describe = x, !.metadata.describeDirty = y] =
          Run("sha", s, w, m, Embed(x, y, sha, branch, dirty))
  <2> DEFINE g == Embed(x, dd, sha, branch, dirty)
  <2>1. [run EXCEPT !.at = "sha", !.metadata.describe = x, !.metadata.describeDirty = y] =
            [[Run("sha", s, w, m, e) EXCEPT !.metadata.describe = x] EXCEPT !.metadata.describeDirty = y]
    BY <1>1
  <2>2. [e EXCEPT !.describe = x] = g /\ [g EXCEPT !.describeDirty = y] = Embed(x, y, sha, branch, dirty)
    BY DEF e, Embed
  <2> HIDE DEF g
  <2>3. [Run("sha", s, w, m, e) EXCEPT !.metadata.describe = x] = Run("sha", s, w, m, [e EXCEPT !.describe = x])
    BY DEF Run
  <2>4. [Run("sha", s, w, m, g) EXCEPT !.metadata.describeDirty = y] = Run("sha", s, w, m, [g EXCEPT !.describeDirty = y])
    BY DEF Run
  <2> QED BY <2>1, <2>2, <2>3, <2>4
<1> QED BY <1>2 DEF StoreDescribe

LEMMA CaptureIs ==
    ASSUME NEW at, NEW s, NEW w, NEW m, NEW d, NEW dd, NEW sha, NEW branch, NEW dirty, NEW x,
           NEW run, run = Run(at, s, w, m, Embed(d, dd, sha, branch, dirty))
    PROVE  /\ StoreSha(run, x) =
                  Run("branch", s, w, m, Embed(d, dd, x, branch, dirty))
           /\ StoreBranch(run, x) =
                  Run("status", s, w, m, Embed(d, dd, sha, x, dirty))
<1> DEFINE e == Embed(d, dd, sha, branch, dirty)
<1> HIDE DEF e
<1>1. \A to : [run EXCEPT !.at = to] = Run(to, s, w, m, e)
  BY DEF e, Run
<1>2. [run EXCEPT !.at = "branch", !.metadata.sha = x] = Run("branch", s, w, m, Embed(d, dd, x, branch, dirty))
  <2>1. [run EXCEPT !.at = "branch", !.metadata.sha = x] = [Run("branch", s, w, m, e) EXCEPT !.metadata.sha = x]
    BY <1>1
  <2>2. [e EXCEPT !.sha = x] = Embed(d, dd, x, branch, dirty)
    BY DEF e, Embed
  <2>3. [Run("branch", s, w, m, e) EXCEPT !.metadata.sha = x] = Run("branch", s, w, m, [e EXCEPT !.sha = x])
    BY DEF Run
  <2> QED BY <2>1, <2>2, <2>3
<1>3. [run EXCEPT !.at = "status", !.metadata.branch = x] = Run("status", s, w, m, Embed(d, dd, sha, x, dirty))
  <2>1. [run EXCEPT !.at = "status", !.metadata.branch = x] = [Run("status", s, w, m, e) EXCEPT !.metadata.branch = x]
    BY <1>1
  <2>2. [e EXCEPT !.branch = x] = Embed(d, dd, sha, x, dirty)
    BY DEF e, Embed
  <2>3. [Run("status", s, w, m, e) EXCEPT !.metadata.branch = x] = Run("status", s, w, m, [e EXCEPT !.branch = x])
    BY DEF Run
  <2> QED BY <2>1, <2>2, <2>3
<1> QED BY <1>2, <1>3 DEF StoreSha, StoreBranch

\* The run after each step.
LEMMA AfterCargoBuild ==
    ASSUME CargoBuild
    PROVE  script' = Run("watch", clock, {}, { f \in Files : repo.work[f] = None }, Unknown)
  BY DEF CargoBuild, Resting, Run

LEMMA AfterWatchPaths ==
    ASSUME Script0, EmitWatchPaths
    PROVE  script' = Run("describe", script.started, WatchPaths, script.missed, script.metadata)
  BY DEF Script0, EmitWatchPaths, Run

LEMMA AfterDescribe ==
    ASSUME Script0, EmitDescribe
    PROVE  LET b == script.metadata
           IN  script' = Run("sha", script.started, script.watch, script.missed,
                             Embed(Metadata.describe, Metadata.describeDirty, b.sha, b.branch, b.dirty))
<1> DEFINE b == script.metadata
           d == Metadata.describe
           dd == Metadata.describeDirty
<1>1. script' = StoreDescribe(script, d, dd)
  BY DEF EmitDescribe, StoreDescribe
<1> HIDE DEF d, dd
<1>2. PICK c : c = script.metadata
  OBVIOUS
<1>3. script = Run(script.at, script.started, script.watch, script.missed,
                   Embed(c.describe, c.describeDirty, c.sha, c.branch, c.dirty))
  BY <1>2, RunIs
<1> QED BY <1>1, <1>2, <1>3, DescribeIs DEF d, dd

LEMMA AfterSha ==
    ASSUME Script0, EmitSha
    PROVE  LET b == script.metadata
           IN  script' = Run("branch", script.started, script.watch, script.missed,
                             Embed(b.describe, b.describeDirty, Metadata.sha, b.branch, b.dirty))
<1> DEFINE b == script.metadata
           d == Metadata.sha
<1>1. script' = StoreSha(script, d)
  BY DEF EmitSha, StoreSha
<1> HIDE DEF d
<1>2. PICK c : c = script.metadata
  OBVIOUS
<1>3. script = Run(script.at, script.started, script.watch, script.missed,
                   Embed(c.describe, c.describeDirty, c.sha, c.branch, c.dirty))
  BY <1>2, RunIs
<1> QED BY <1>1, <1>2, <1>3, CaptureIs DEF d

LEMMA AfterBranch ==
    ASSUME Script0, EmitBranch
    PROVE  LET b == script.metadata
           IN  script' = Run("status", script.started, script.watch, script.missed,
                             Embed(b.describe, b.describeDirty, b.sha, Metadata.branch, b.dirty))
<1> DEFINE b == script.metadata
           d == Metadata.branch
<1>1. script' = StoreBranch(script, d)
  BY DEF EmitBranch, StoreBranch
<1> HIDE DEF d
<1>2. PICK c : c = script.metadata
  OBVIOUS
<1>3. script = Run(script.at, script.started, script.watch, script.missed,
                   Embed(c.describe, c.describeDirty, c.sha, c.branch, c.dirty))
  BY <1>2, RunIs
<1> QED BY <1>1, <1>2, <1>3, CaptureIs DEF d

LEMMA AfterDirty ==
    ASSUME Script0, EmitDirty
    PROVE  LET b == script.metadata
           IN  /\ script' = Run("idle", 0, {}, {}, Unknown)
               /\ built'.started = script.started /\ built'.watch = script.watch /\ built'.missed = script.missed
               /\ built'.metadata = Embed(b.describe, b.describeDirty, b.sha, b.branch, Metadata.dirty)
<1> DEFINE b == script.metadata
           d == Metadata.dirty
           e == Embed(b.describe, b.describeDirty, b.sha, b.branch, d)
<1>1. /\ script' = Resting
      /\ built' = [ started |-> script.started, watch |-> script.watch, missed |-> script.missed,
                    metadata |-> [script.metadata EXCEPT !.dirty = d] ]
  BY DEF EmitDirty
<1> HIDE DEF d
<1>2. script.metadata = Embed(b.describe, b.describeDirty, b.sha, b.branch, b.dirty)
  BY DEF Script0, Shaped, Embed
<1>3. [script.metadata EXCEPT !.dirty = d] = e
  BY <1>2 DEF Embed
<1> HIDE DEF e
<1>4. /\ built'.started = script.started /\ built'.watch = script.watch /\ built'.missed = script.missed
      /\ built'.metadata = e
  BY <1>1, <1>3
<1> QED BY <1>1, <1>4 DEF d, e, Resting, Run

\* A step of the build script changes the checkout only by writing the index.
LEMMA BuildLeaves ==
    ASSUME RepoOK(repo), Clocked, Build
    PROVE  /\ packaged' = packaged /\ ((RefreshIndex /\ ~packaged) \/ UNCHANGED <<repo, clock, changed>>) /\ Moved
           /\ built' = built \/ EmitDirty
<1>1. packaged' = packaged /\ ((RefreshIndex /\ ~packaged) \/ UNCHANGED <<repo, clock, changed>>)
  BY DEF Build, CargoBuild, EmitWatchPaths, EmitDescribe, EmitSha, EmitBranch, EmitDirty
<1>2. ASSUME UNCHANGED <<repo, clock, changed>> PROVE Moved
  BY <1>2, NotLater DEF Moved, RepoOK
<1>3. built' = built \/ EmitDirty
  BY DEF Build, CargoBuild, EmitWatchPaths, EmitDescribe, EmitSha, EmitBranch
<1> QED BY <1>1, <1>2, <1>3, RefreshOK

LEMMA BuildTypes ==
    ASSUME TypeOK, Build
    PROVE  TypeOK' /\ Moved
<1>1. RepoOK(repo) /\ Clocked /\ Script0 /\ Built0 /\ packaged \in BOOLEAN
  BY TypeParts
<1>2. /\ RepoOK(repo)' /\ Clocked' /\ clock' >= clock /\ clock \in Nat /\ clock' \in Nat /\ Moved
      /\ packaged' \in BOOLEAN
  BY <1>1, BuildLeaves DEF Moved, Later, Clocked
<1>3. WatchPaths \subseteq Paths
  BY DEF WatchPaths, Paths
<1> DEFINE good(at, s, w, m, b) ==
               /\ script' = Run(at, s, w, m, b) /\ s \in Nat /\ s <= clock' /\ w \subseteq Paths /\ m \subseteq Files
               /\ Shaped(b) /\ at \in {"idle", "watch", "describe", "sha", "branch", "status"}
<1>4. ASSUME NEW at, NEW s, NEW w, NEW m, NEW b, good(at, s, w, m, b) PROVE Script0'
  <2>1. script'.at = at /\ script'.started = s /\ script'.watch = w /\ script'.missed = m /\ script'.metadata = b
    BY <1>4, RunFields
  <2>2. script' = Run(script'.at, script'.started, script'.watch, script'.missed, script'.metadata)
    BY <1>4, <2>1
  <2> QED BY <1>4, <2>1, <2>2 DEF Script0, Run
<1>5. script.started \in Nat /\ script.started <= clock' /\ script.watch \subseteq Paths /\ script.missed \subseteq Files
      /\ Shaped(script.metadata)
  BY <1>1, <1>2 DEF Script0
<1>6. Script0'
  <2>1. CASE CargoBuild
    <3>1. good("watch", clock, {}, { f \in Files : repo.work[f] = None }, Unknown)
      BY <2>1, <1>2, AfterCargoBuild, UnknownIs, EmbedShaped
    <3> QED BY <3>1, <1>4
  <2>2. CASE EmitWatchPaths
    <3>1. good("describe", script.started, WatchPaths, script.missed, script.metadata)
      BY <2>2, <1>1, <1>3, <1>5, AfterWatchPaths
    <3> QED BY <3>1, <1>4
  <2>3. CASE EmitDescribe \/ EmitSha \/ EmitBranch
    <3>1. \E at, d, dd, sha, branch, dirty :
             /\ at \in {"sha", "branch", "status"}
             /\ script' = Run(at, script.started, script.watch, script.missed, Embed(d, dd, sha, branch, dirty))
      BY <2>3, <1>1, AfterDescribe, AfterSha, AfterBranch
    <3>2. PICK at, d, dd, sha, branch, dirty :
             /\ at \in {"sha", "branch", "status"}
             /\ script' = Run(at, script.started, script.watch, script.missed, Embed(d, dd, sha, branch, dirty))
      BY <3>1
    <3>3. good(at, script.started, script.watch, script.missed, Embed(d, dd, sha, branch, dirty))
      BY <3>2, <1>5, EmbedShaped
    <3> QED BY <3>3, <1>4
  <2>4. CASE EmitDirty
    <3>1. good("idle", 0, {}, {}, Unknown)
      <4>1. 0 \in Nat /\ 0 <= clock'
        BY <1>2
      <4>2. script' = Run("idle", 0, {}, {}, Unknown)
        BY <2>4, <1>1, AfterDirty
      <4> QED BY <4>1, <4>2, UnknownIs, EmbedShaped
    <3> QED BY <3>1, <1>4
  <2> QED BY <2>1, <2>2, <2>3, <2>4 DEF Build
<1>7. Built0'
  <2>1. CASE built' = built
    BY <2>1, <1>1, <1>2 DEF Built0
  <2>2. CASE EmitDirty
    <3>1. built'.started = script.started /\ built'.watch = script.watch /\ built'.missed = script.missed
          /\ Shaped(built'.metadata)
      BY <2>2, <1>1, AfterDirty, EmbedShaped
    <3> QED BY <3>1, <1>5 DEF Built0, Shaped
  <2> QED BY <2>1, <2>2, <1>1, BuildLeaves
<1>8. (packaged \in BOOLEAN /\ RepoOK(repo) /\ Clocked /\ Script0 /\ Built0)' => TypeOK'
  BY DEF TypeOK, Clocked, Script0, Built0
<1> QED BY <1>2, <1>6, <1>7, <1>8

----------------------------------------------------------------------------
(***************************************************************************)
(* The invariant, while the build script runs.                             *)
(***************************************************************************)
LEMMA StillHolds ==
    ASSUME repo' = repo, changed' = changed, NEW s, NEW w, NEW m, NEW b, NEW at, Holds(s, w, m, b, at)
    PROVE  Holds(s, w, m, b, at)'
<1>1. Kept(s, w, m)' => Kept(s, w, m)
  BY DEF Kept
<1>2. Kept(s, w, m)' => Unseen(s, w, m, m)
  BY <1>1, SteadyIfSame DEF Unseen
<1> QED BY <1>2, UnseenHolds

LEMMA RefreshHolds ==
    ASSUME Clocked, RefreshIndex, NEW s, NEW w, NEW m, NEW b, NEW at, Past(s, w, m), Holds(s, w, m, b, at)
    PROVE  Holds(s, w, m, b, at)'
<1>1. ASSUME Kept(s, w, m)' PROVE Unseen(s, w, m, m)
  <2>1. repo' = repo /\ changed' = changed
    BY <1>1, RefreshUnseen
  <2>2. Kept(s, w, m)
    BY <1>1, <2>1 DEF Kept
  <2> QED BY <2>1, <2>2, SteadyIfSame DEF Unseen
<1> QED BY <1>1, UnseenHolds

LEMMA BuildHolds ==
    ASSUME RepoOK(repo), Clocked, Build,
           NEW s, NEW w, NEW m, NEW b, NEW at, Past(s, w, m), Holds(s, w, m, b, at)
    PROVE  Holds(s, w, m, b, at)'
  BY BuildLeaves, StillHolds, RefreshHolds

\* What Git says at the moment is what it says of the files kept and missed.
LEMMA DirtyIs ==
    ASSUME NEW w, NEW m, Covers(w, m), m \subseteq Files,
           \A f \in Files : f \in w => repo.work[f] # None,
           \A f \in m : repo.work[f] = None \/ f \in repo.touched,
           \A f \in repo.touched : repo.work[f] # repo.index[f]
    PROVE  Dirty = Differs(w, m)
<1>1. ASSUME NEW f \in Files, repo.index[f] # None
      PROVE  repo.work[f] # repo.index[f] <=> f \in m \/ (f \in w /\ Home(w, f) # repo.index[f])
  <2>1. CASE f \in m
    BY <2>1, <1>1
  <2>2. CASE f \notin m
    <3>1. f \in w /\ Home(w, f) = repo.work[f]
      BY <2>2, <1>1 DEF Covers, Home
    <3> QED BY <2>2, <3>1
  <2> QED BY <2>1, <2>2
<1>2. Dirty <=> Differs(w, m)
  BY <1>1 DEF Dirty, Differs
<1>3. Dirty \in BOOLEAN /\ Differs(w, m) \in BOOLEAN
  BY DEF Dirty, Differs
<1> QED BY <1>2, <1>3

LEMMA MetadataIs ==
    ASSUME ~packaged
    PROVE  Metadata = Embed(Described, Dirty, HeadCommit, Branch, Dirty)
  BY DEF Metadata, Embed, Branch

\* A step that asks Git whether the checkout is dirty.
LEMMA Asked ==
    ASSUME TypeOK, Running, Watching, RefreshIndex, script.at \in {"describe", "status"},
           NEW s, NEW w, NEW m, s = script.started, w = script.watch, m = script.missed, Kept(s, w, m)'
    PROVE  /\ Differs(w, m)' = Dirty /\ HeadCommit' = HeadCommit /\ Described' = Described
<1>1. Clocked /\ Script0 /\ RepoOK(repo)
  BY TypeParts
<1>2. Holds(s, w, m, script.metadata, script.at)
  BY DEF Watching, Followed
<1>3. Past(s, w, m)
  BY <1>1, <1>2 DEF Script0, Past, Holds
<1>4. repo' = repo /\ changed' = changed /\ \A f \in repo.touched : repo.work[f] # repo.index[f]
  BY <1>1, <1>3, RefreshUnseen
<1>5. Kept(s, w, m)
  BY <1>4 DEF Kept
<1>6. Covers(w, m) /\ m \subseteq Files /\ \A f \in Files : f \in w => repo.work[f] # None
  BY <1>1, <1>2, <1>5 DEF Holds, Watching, Script0
<1>7. Unmoved(s)
  BY <1>3, <1>5 DEF Past, Watches, Kept, Unmoved
<1>8. \A f \in m : repo.work[f] = None \/ f \in repo.touched
  BY <1>7 DEF Running
<1>9. Dirty = Differs(w, m)
  BY <1>4, <1>6, <1>8, DirtyIs
<1>10. Steady(w)
  BY <1>4, SteadyIfSame
<1>11. Differs(w, m)' = Differs(w, m)
  BY <1>10, SteadyDiffers
<1> QED BY <1>9, <1>10, <1>11, SteadyMetadata

LEMMA BuildRunning ==
    ASSUME TypeOK, Running, Build
    PROVE  Running'
<1>1. RepoOK(repo) /\ Clocked /\ Script0
  BY TypeParts
<1>2. CASE CargoBuild
  <2>1. repo' = repo /\ script'.missed = { f \in Files : repo.work[f] = None }
    BY <1>2, AfterCargoBuild, RunFields DEF CargoBuild
  <2> QED BY <2>1 DEF Running
<1>3. CASE EmitDirty
  <2>1. script'.at = "idle"
    BY <1>1, <1>3, AfterDirty, RunFields
  <2> QED BY <2>1 DEF Running
<1>4. CASE EmitWatchPaths \/ EmitDescribe \/ EmitSha \/ EmitBranch
  <2>1. script.at # "idle" /\ script'.started = script.started /\ script'.missed = script.missed
    <3>1. script.at # "idle"
      BY <1>4 DEF EmitWatchPaths, EmitDescribe, EmitSha, EmitBranch
    <3>2. \E at, w, b : script' = Run(at, script.started, w, script.missed, b)
      BY <1>1, <1>4, AfterWatchPaths, AfterDescribe, AfterSha, AfterBranch
    <3> QED BY <3>1, <3>2, RunFields
  <2>2. \/ repo' = repo /\ changed' = changed
        \/ Modified("index")
    BY <1>1, <1>4, BuildLeaves, WorkAfterRefresh DEF Build
  <2>3. CASE repo' = repo /\ changed' = changed
    BY <2>1, <2>3 DEF Running, Unmoved
  <2>4. CASE Modified("index")
    <3>1. ~(changed'["index"] <= script.started)
      BY <1>1, <2>4, ModifiedLater DEF Script0, Paths, GitPaths
    <3> QED BY <2>1, <3>1 DEF Running, Unmoved
  <2> QED BY <2>2, <2>3, <2>4
<1> QED BY <1>2, <1>3, <1>4 DEF Build

LEMMA BuildStarting ==
    ASSUME TypeOK, Build
    PROVE  Starting'
<1>1. Script0
  BY TypeParts
<1>2. CASE CargoBuild
  <2>1. repo' = repo /\ script'.missed = { f \in Files : repo.work[f] = None }
    BY <1>2, AfterCargoBuild, RunFields DEF CargoBuild
  <2> QED BY <2>1 DEF Starting
<1>3. CASE ~CargoBuild
  <2>1. \E at, s, w, m, b : at # "watch" /\ script' = Run(at, s, w, m, b)
    BY <1>1, <1>3, AfterWatchPaths, AfterDescribe, AfterSha, AfterBranch, AfterDirty DEF Build
  <2>2. script'.at # "watch"
    BY <2>1, RunFields
  <2> QED BY <2>2 DEF Starting
<1> QED BY <1>2, <1>3

\* The paths that are watched, and the files missing so far, cover everything.
LEMMA WatchPathsCover ==
    ASSUME TypeOK, Starting, ~packaged, EmitWatchPaths
    PROVE  Watching'
<1>1. Script0
  BY TypeParts
<1>2. PICK s, w, m, b : s = script.started /\ w = WatchPaths /\ m = script.missed /\ b = script.metadata
  OBVIOUS
<1>3. script' = Run("describe", s, w, m, b)
  BY <1>1, <1>2, AfterWatchPaths
<1>4. /\ script'.at = "describe" /\ script'.started = s /\ script'.watch = w /\ script'.missed = m
      /\ script'.metadata = b
  BY <1>3, RunFields
<1>5. repo' = repo /\ changed' = changed /\ script.at = "watch"
  BY DEF EmitWatchPaths
<1>6. /\ \A p \in w : Exists(p) /\ p \in GitPaths \cup { f \in Files : repo.index[f] # None }
      /\ \A p \in GitPaths \cup { f \in Files : repo.index[f] # None } : Exists(p) => p \in w
  BY <1>2 DEF WatchPaths
<1>7. /\ \A f \in Files : Exists(f) <=> repo.work[f] # None
      /\ Exists("packed-refs") <=> repo.packed # {}
      /\ Exists("HEAD") /\ Exists("index") /\ Exists("refs/heads") /\ Exists("refs/tags")
  BY PathFacts DEF Exists, GitPaths
<1>8. Watches(w)
  BY <1>6, <1>7 DEF Watches, GitPaths
<1>9. Kept(s, w, m) => Covers(w, m)
  <2> SUFFICES ASSUME Kept(s, w, m) PROVE Covers(w, m)
    OBVIOUS
  <2>1. changed["HEAD"] <= s
    BY <1>8 DEF Kept, Watches
  <2>2. \A f \in Files : repo.work[f] = None => f \in m
    BY <1>2, <1>5, <2>1 DEF Starting
  <2> QED BY <2>2, <1>6, <1>7 DEF Covers, GitPaths
<1>10. Holds(s, w, m, b, "describe")
  BY <1>8, <1>9 DEF Holds, Captured
<1>11. Holds(s, w, m, b, "describe")'
  BY <1>5, <1>10, StillHolds
<1>12. Followed(script, script.at)'
  BY <1>4, <1>11 DEF Followed
<1>13. \A f \in Files : f \in w => repo'.work[f] # None
  BY <1>5, <1>6, <1>7
<1> QED BY <1>4, <1>12, <1>13 DEF Watching

\* The steps that ask Git take down what is true of the files kept and missed.
LEMMA CaptureWatching ==
    ASSUME TypeOK, Running, Watching, ~packaged, EmitDescribe \/ EmitSha \/ EmitBranch
    PROVE  Watching'
<1>1. Script0 /\ Clocked /\ RepoOK(repo)
  BY TypeParts
<1>2. PICK s, w, m, b : s = script.started /\ w = script.watch /\ m = script.missed /\ b = script.metadata
  OBVIOUS
<1>3. script.at \in {"describe", "sha", "branch"}
  BY DEF EmitDescribe, EmitSha, EmitBranch
<1>4. Holds(s, w, m, b, script.at) /\ (Kept(s, w, m) => \A f \in Files : f \in w => repo.work[f] # None)
  BY <1>2, <1>3 DEF Watching, Followed
<1>5. Past(s, w, m)
  BY <1>1, <1>2, <1>4 DEF Script0, Past, Holds
<1> DEFINE to(at, c) == script' = Run(at, s, w, m, c) /\ at \in {"sha", "branch", "status"} /\ Holds(s, w, m, c, at)'
<1>6. ASSUME NEW at, NEW c, to(at, c) PROVE Watching'
  <2>1. /\ script'.at = at /\ script'.started = s /\ script'.watch = w /\ script'.missed = m
        /\ script'.metadata = c
    BY <1>6, RunFields
  <2>2. Followed(script, script.at)'
    BY <1>6, <2>1 DEF Followed
  <2>3. Kept(s, w, m)' => \A f \in Files : f \in w => repo'.work[f] # None
    <3>1. CASE UNCHANGED <<repo, clock, changed>>
      BY <3>1, <1>4 DEF Kept
    <3>2. CASE RefreshIndex
      <4>1. Kept(s, w, m)' => repo' = repo /\ changed' = changed
        BY <3>2, <1>1, <1>5, RefreshUnseen
      <4> QED BY <4>1, <1>4 DEF Kept
    <3> QED BY <3>1, <3>2, <1>1, BuildLeaves DEF Build
  <2> QED BY <2>1, <2>2, <2>3 DEF Watching
<1>7. \A at : Holds(s, w, m, b, at) => Holds(s, w, m, b, at)'
  BY <1>1, <1>5, BuildHolds DEF Build
<1>8. PICK d, q, h, x : d = Described /\ q = Dirty /\ h = HeadCommit /\ x = Branch
  OBVIOUS
<1>9. /\ Metadata.describe = d /\ Metadata.describeDirty = q /\ Metadata.sha = h /\ Metadata.branch = x
  BY <1>8, MetadataIs, EmbedFields
<1>10. CASE EmitDescribe
  <2> DEFINE c == Embed(d, q, b.sha, b.branch, b.dirty)
  <2>1. script' = Run("sha", s, w, m, c) /\ script.at = "describe" /\ RefreshIndex
    BY <1>1, <1>2, <1>9, <1>10, AfterDescribe DEF EmitDescribe
  <2>2. c.describe = d /\ c.describeDirty = q
    BY EmbedFields
  <2> HIDE DEF c
  <2>3. Holds(s, w, m, b, "describe")'
    BY <1>4, <1>7, <2>1
  <2>4. Kept(s, w, m)' => Differs(w, m)' = q /\ Described' = d
    BY <1>2, <1>8, <2>1, Asked
  <2>5. Kept(s, w, m)' => Captured(c, "sha", w, m)'
    BY <2>2, <2>4 DEF Captured
  <2>6. Holds(s, w, m, c, "sha")'
    BY <2>3, <2>5 DEF Holds
  <2> QED BY <2>1, <2>6, <1>6
<1>11. CASE EmitSha
  <2> DEFINE c == Embed(b.describe, b.describeDirty, h, b.branch, b.dirty)
  <2>1. script' = Run("branch", s, w, m, c) /\ script.at = "sha" /\ repo' = repo
    BY <1>1, <1>2, <1>9, <1>11, AfterSha DEF EmitSha
  <2>2. c.describe = b.describe /\ c.describeDirty = b.describeDirty /\ c.sha = h
    BY EmbedFields
  <2> HIDE DEF c
  <2>3. Holds(s, w, m, b, "sha")'
    BY <1>4, <1>7, <2>1
  <2>4. HeadCommit' = h
    BY <1>8, <2>1, SteadyIfSame, SteadyMetadata
  <2>5. Kept(s, w, m)' => Captured(c, "branch", w, m)'
    BY <2>2, <2>3, <2>4 DEF Captured, Holds
  <2>6. Holds(s, w, m, c, "branch")'
    BY <2>3, <2>5 DEF Holds
  <2> QED BY <2>1, <2>6, <1>6
<1>12. CASE EmitBranch
  <2> DEFINE c == Embed(b.describe, b.describeDirty, b.sha, x, b.dirty)
  <2>1. script' = Run("status", s, w, m, c) /\ script.at = "branch" /\ repo' = repo
    BY <1>1, <1>2, <1>9, <1>12, AfterBranch DEF EmitBranch
  <2>2. c.describe = b.describe /\ c.describeDirty = b.describeDirty /\ c.sha = b.sha /\ c.branch = x
    BY EmbedFields
  <2> HIDE DEF c
  <2>3. Holds(s, w, m, b, "branch")'
    BY <1>4, <1>7, <2>1
  <2>4. Branch' = x
    BY <1>8, <2>1, SteadyIfSame, SteadyMetadata
  <2>5. Kept(s, w, m)' => Captured(c, "status", w, m)'
    BY <2>2, <2>3, <2>4 DEF Captured, Holds
  <2>6. Holds(s, w, m, c, "status")'
    BY <2>3, <2>5 DEF Holds
  <2> QED BY <2>1, <2>6, <1>6
<1> QED BY <1>10, <1>11, <1>12

LEMMA BuildWatching ==
    ASSUME TypeOK, Running, Starting, Watching, ~packaged, Build
    PROVE  Watching'
<1>1. Script0
  BY TypeParts
<1>2. ASSUME CargoBuild \/ EmitDirty PROVE Watching'
  <2>1. script'.at \in {"idle", "watch"}
    BY <1>1, <1>2, AfterCargoBuild, AfterDirty, RunFields
  <2> QED BY <2>1 DEF Watching
<1> QED BY <1>2, WatchPathsCover, CaptureWatching DEF Build

LEMMA BuildFinished ==
    ASSUME TypeOK, Running, Watching, Finished, ~packaged, Build
    PROVE  Finished'
<1>1. Script0 /\ Built0 /\ Clocked /\ RepoOK(repo)
  BY TypeParts
<1>2. CASE built' = built
  <2> SUFFICES ASSUME built # Never PROVE Followed(built, "built")'
    BY <1>2 DEF Finished, Never, Unknown
  <2>1. PICK s, w, m, b : s = built.started /\ w = built.watch /\ m = built.missed /\ b = built.metadata
    OBVIOUS
  <2>2. Holds(s, w, m, b, "built")
    BY <2>1 DEF Finished, Followed
  <2>3. Past(s, w, m)
    BY <1>1, <2>1, <2>2 DEF Built0, Past, Holds
  <2>4. Holds(s, w, m, b, "built")'
    BY <1>1, <2>2, <2>3, BuildHolds
  <2> QED BY <1>2, <2>1, <2>4 DEF Followed
<1>3. CASE EmitDirty
  <2>1. PICK s, w, m, b, q :
            /\ s = script.started /\ w = script.watch /\ m = script.missed /\ b = script.metadata /\ q = Dirty
    OBVIOUS
  <2> DEFINE c == Embed(b.describe, b.describeDirty, b.sha, b.branch, q)
  <2>2. Metadata.dirty = q
    BY <2>1, MetadataIs, EmbedFields
  <2>3. built'.started = s /\ built'.watch = w /\ built'.missed = m /\ built'.metadata = c
    BY <1>1, <1>3, <2>1, <2>2, AfterDirty
  <2>4. /\ c.describe = b.describe /\ c.describeDirty = b.describeDirty /\ c.sha = b.sha
        /\ c.branch = b.branch /\ c.dirty = q
    BY EmbedFields
  <2> HIDE DEF c
  <2>5. script.at = "status" /\ RefreshIndex
    BY <1>3 DEF EmitDirty
  <2>6. Holds(s, w, m, b, "status")
    BY <2>1, <2>5 DEF Watching, Followed
  <2>7. Past(s, w, m)
    BY <1>1, <2>1, <2>6 DEF Script0, Past, Holds
  <2>8. Holds(s, w, m, b, "status")'
    BY <1>1, <2>5, <2>6, <2>7, RefreshHolds
  <2>9. Kept(s, w, m)' => Differs(w, m)' = q
    BY <2>1, <2>5, Asked
  <2>10. Kept(s, w, m)' => Captured(c, "built", w, m)'
    BY <2>4, <2>8, <2>9 DEF Captured, Holds
  <2>11. Holds(s, w, m, c, "built")'
    BY <2>8, <2>10 DEF Holds
  <2>12. Followed(built, "built")'
    BY <2>3, <2>11 DEF Followed
  <2> QED BY <2>12 DEF Finished
<1> QED BY <1>1, <1>2, <1>3, BuildLeaves

----------------------------------------------------------------------------
(***************************************************************************)
(* The invariant holds, and says that fresh metadata is current.           *)
(***************************************************************************)
LEMMA PackageKept ==
    ASSUME TypeOK, packaged, Package, Next
    PROVE  Package'
<1>1. Script0
  BY TypeParts
<1>2. PICK u : u = Unknown
  OBVIOUS
<1>3. /\ Metadata.describe = u.describe /\ Metadata.describeDirty = u.describeDirty /\ Metadata.sha = u.sha
      /\ Metadata.branch = u.branch /\ Metadata.dirty = u.dirty
  BY <1>2 DEF Metadata
<1>4. Embed(u.describe, u.describeDirty, u.sha, u.branch, u.dirty) = u /\ Unknown' = u
  BY <1>2, UnknownIs, EmbedFields DEF Unknown
<1>5. script.metadata = u /\ built.metadata = u
  BY <1>2 DEF Package
<1>6. CASE Develop
  BY <1>1, <1>2, <1>4, <1>5, <1>6, DevelopLeaves, DevelopRuns DEF RunGoesOn, Package
<1>7. CASE Build
  <2>1. \E at, s, w, m : script' = Run(at, s, w, m, u)
    BY <1>1, <1>2, <1>3, <1>4, <1>5, <1>7, AfterCargoBuild, AfterWatchPaths, AfterDescribe, AfterSha,
       AfterBranch, AfterDirty DEF Build
  <2>2. script'.metadata = u
    BY <2>1, RunFields
  <2>3. built'.metadata = u
    <3>1. CASE built' = built
      BY <3>1, <1>5
    <3>2. CASE EmitDirty
      BY <3>2, <1>1, <1>3, <1>4, <1>5, AfterDirty
    <3> QED BY <1>7, <3>1, <3>2, BuildLeaves, TypeParts
  <2> QED BY <1>4, <2>2, <2>3 DEF Package
<1> QED BY <1>6, <1>7 DEF Next

LEMMA InitIInv ==
    ASSUME Init
    PROVE  IInv
<1> DEFINE tree == [f \in Files |-> First]
           refs == [r \in Refs |-> IF r = Main THEN 1 ELSE None]
           one == [parent |-> 0, tree |-> tree]
<1>1. /\ repo = [ head |-> Main, refs |-> refs, loose |-> {Main}, packed |-> {}, commits |-> <<one>>,
                  index |-> tree, work |-> tree, aside |-> [f \in Files |-> None], touched |-> {} ]
      /\ packaged \in BOOLEAN /\ clock = 0 /\ changed = [p \in Paths |-> 0] /\ script = Resting /\ built = Never
  BY DEF Init
<1>2. tree \in Tree /\ [f \in Files |-> None] \in Tree /\ one \in Commit0
  BY PathFacts DEF Tree, Commit0
<1>3. <<one>> \in Seq(Commit0) /\ Len(<<one>>) = 1 /\ 1 \in 1..1
  BY <1>2
<1>4. refs \in [Refs -> 1..1 \cup {None}] /\ refs[Main] = 1 /\ \A x \in Refs : refs[x] # None => x = Main
  BY PathFacts
<1>5. Main \in Refs /\ Main \in Branches
  BY PathFacts, BuildConstants
<1> HIDE DEF one, refs, tree
<1>6. repo \in Repos
  BY <1>1, <1>2, <1>3, <1>4, <1>5 DEF Repos
<1>7. RepoOK(repo)
  <2>1. repo.refs = refs /\ repo.head = Main /\ repo.commits = <<one>> /\ repo.loose = {Main}
    BY <1>1
  <2> QED BY <1>3, <1>4, <1>5, <1>6, <2>1 DEF RepoOK
<1>8. Clocked
  BY <1>1 DEF Clocked
<1>9. Script0
  <2>1. script = Run("idle", 0, {}, {}, Unknown)
    BY <1>1 DEF Resting, Run
  <2>2. script.at = "idle" /\ script.started = 0 /\ script.watch = {} /\ script.missed = {} /\ script.metadata = Unknown
    BY <2>1, RunFields
  <2>3. script = Run(script.at, script.started, script.watch, script.missed, script.metadata)
    BY <2>1, <2>2
  <2>4. Shaped(script.metadata)
    BY <2>2, UnknownIs, EmbedShaped
  <2>5. script.started \in Nat /\ script.started <= clock
    BY <1>1, <2>2
  <2> QED BY <2>2, <2>3, <2>4, <2>5 DEF Script0, Run
<1>10. Built0
  <2>1. built.started = 0 /\ built.metadata = Unknown
    BY <1>1 DEF Never
  <2>2. Shaped(built.metadata)
    BY <2>1, UnknownIs, EmbedShaped
  <2>3. built.started \in Nat /\ built.started <= clock
    BY <1>1, <2>1
  <2> QED BY <1>1, <2>2, <2>3 DEF Built0
<1>11. TypeOK
  BY <1>1, <1>7, <1>8, <1>9, <1>10, TypeParts
<1>12. script.at = "idle" /\ script.metadata = Unknown /\ built.metadata = Unknown
  BY <1>1 DEF Resting, Never
<1>13. Package /\ Checkout
  BY <1>1, <1>12 DEF Package, Checkout, Running, Starting, Watching, Finished
<1> QED BY <1>11, <1>13 DEF IInv

LEMMA NextIInv ==
    ASSUME IInv, Next
    PROVE  IInv'
<1>1. TypeOK /\ TypeOK'
  BY DevelopTypes, BuildTypes DEF IInv, Next
<1>2. packaged' = packaged
  BY <1>1, DevelopLeaves, BuildLeaves, TypeParts DEF Next
<1>3. packaged => Package'
  BY <1>1, PackageKept DEF IInv
<1>4. ASSUME ~packaged PROVE Checkout'
  <2>1. Running /\ Starting /\ Watching /\ Finished
    BY <1>4 DEF IInv, Checkout
  <2>2. CASE Develop
    BY <1>1, <2>1, <2>2, DevelopRunning, DevelopStarting, DevelopWatching, DevelopFinished DEF Checkout
  <2>3. CASE Build
    BY <1>1, <1>4, <2>1, <2>3, BuildRunning, BuildStarting, BuildWatching, BuildFinished DEF Checkout
  <2> QED BY <2>2, <2>3 DEF Next
<1> QED BY <1>1, <1>2, <1>3, <1>4 DEF IInv

LEMMA StutterIInv ==
    ASSUME IInv, UNCHANGED vars
    PROVE  IInv'
<1>1. /\ packaged' = packaged /\ repo' = repo /\ clock' = clock /\ changed' = changed
      /\ script' = script /\ built' = built
  BY DEF vars
<1>2. TypeOK' /\ (packaged => Package')
  BY <1>1 DEF IInv, TypeOK, Package, Unknown, Never, Shaped, RepoOK
<1>3. ASSUME ~packaged PROVE Checkout'
  <2>1. Running /\ Starting /\ Watching /\ Finished
    BY <1>3 DEF IInv, Checkout
  <2>2. Running' /\ Starting'
    BY <1>1, <2>1 DEF Running, Starting, Unmoved
  <2>3. PICK s, w, m, b, at : /\ s = script.started /\ w = script.watch /\ m = script.missed /\ b = script.metadata
                              /\ at = script.at
    OBVIOUS
  <2>4. Holds(s, w, m, b, at) => Holds(s, w, m, b, at)'
    BY <1>1, StillHolds
  <2>5. Watching'
    BY <1>1, <2>1, <2>3, <2>4 DEF Watching, Followed, Kept
  <2>6. PICK t, v, n, c : t = built.started /\ v = built.watch /\ n = built.missed /\ c = built.metadata
    OBVIOUS
  <2>7. Holds(t, v, n, c, "built") => Holds(t, v, n, c, "built")'
    BY <1>1, StillHolds
  <2>8. Finished'
    BY <1>1, <2>1, <2>6, <2>7 DEF Finished, Followed, Never, Unknown
  <2> QED BY <2>2, <2>5, <2>8, <2>1 DEF Checkout
<1> QED BY <1>1, <1>2, <1>3 DEF IInv

LEMMA IInvFresh ==
    ASSUME IInv
    PROVE  FreshMetadataIsCurrent
<1> SUFFICES ASSUME script.at = "idle", ~Stale, NoneReturned PROVE built.metadata = Metadata
  BY DEF FreshMetadataIsCurrent
<1>1. TypeOK /\ RepoOK(repo) /\ Built0
  BY TypeParts DEF IInv
<1>2. CASE packaged
  BY <1>2 DEF IInv, Package, Metadata
<1>3. CASE ~packaged
  <2>1. PICK s, w, m, b : s = built.started /\ w = built.watch /\ m = built.missed /\ b = built.metadata
    OBVIOUS
  <2>2. built # Never /\ w \subseteq Paths /\ m \subseteq Files
    BY <1>1, <2>1 DEF Stale, Built0
  <2>3. \A p \in w : Exists(p) /\ ~(changed[p] > s)
    BY <2>1, <2>2, PathFacts DEF Stale
  <2>4. Holds(s, w, m, b, "built")
    BY <1>3, <2>1, <2>2 DEF IInv, Checkout, Finished, Followed
  <2>5. \A f \in Files : f \in w => repo.work[f] # None
    <3>1. \A f \in Files : Exists(f) => repo.work[f] # None
      BY PathFacts DEF Exists, GitPaths
    <3> QED BY <2>3, <3>1
  <2>6. \A f \in m : repo.work[f] = None
    BY <2>1 DEF NoneReturned
  <2>7. Kept(s, w, m)
    <3>1. w \cap m = {}
      BY <2>2, <2>5, <2>6
    <3>2. ASSUME NEW p \in w PROVE changed[p] <= s
      <4>1. changed[p] \in Nat /\ s \in Nat
        BY <1>1, <2>1, <2>2, <3>2 DEF TypeOK
      <4> QED BY <2>3, <4>1
    <3> QED BY <3>1, <3>2 DEF Kept
  <2>8. Covers(w, m) /\ Captured(b, "built", w, m)
    BY <2>4, <2>7 DEF Holds
  <2>9. Dirty = Differs(w, m)
    <3>1. ASSUME NEW f \in Files, repo.index[f] # None
          PROVE  repo.work[f] # repo.index[f] <=> f \in m \/ (f \in w /\ Home(w, f) # repo.index[f])
      BY <2>5, <2>6, <2>8, <3>1 DEF Covers, Home
    <3>2. Dirty <=> Differs(w, m)
      BY <3>1 DEF Dirty, Differs
    <3>3. Dirty \in BOOLEAN /\ Differs(w, m) \in BOOLEAN
      BY DEF Dirty, Differs
    <3> QED BY <3>2, <3>3
  <2>10. b.describe = Described /\ b.describeDirty = Dirty /\ b.sha = HeadCommit /\ b.branch = Branch /\ b.dirty = Dirty
    BY <2>8, <2>9 DEF Captured
  <2>11. b = Embed(b.describe, b.describeDirty, b.sha, b.branch, b.dirty)
    BY <1>1, <2>1 DEF Built0, Shaped, Embed
  <2>12. b = Embed(Described, Dirty, HeadCommit, Branch, Dirty)
    BY <2>10, <2>11
  <2> QED BY <1>3, <2>1, <2>12, MetadataIs
<1> QED BY <1>2, <1>3

(***************************************************************************)
(* Every state is well-formed, and what a run has captured stays true as   *)
(* long as no path it watches is modified (build.rs).                      *)
(***************************************************************************)
THEOREM IInvHolds == Spec => []IInv
<1>1. Init => IInv
  BY InitIInv
<1>2. IInv /\ [Next]_vars => IInv'
  BY NextIInv, StutterIInv
<1> QED BY <1>1, <1>2, PTL DEF Spec

(***************************************************************************)
(* Whenever Cargo sees no reason to run the script again, the embedded     *)
(* metadata is what the checkout is, whatever the developer did with files *)
(* and refs before, between and during the steps of the script.            *)
(***************************************************************************)
THEOREM FreshIsCurrent == Spec => []FreshMetadataIsCurrent
<1>1. IInv => FreshMetadataIsCurrent
  BY IInvFresh
<1> QED BY <1>1, IInvHolds, PTL
=============================================================================
