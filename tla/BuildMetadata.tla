---------------------------- MODULE BuildMetadata ----------------------------
(***************************************************************************)
(* build.rs and build_info.rs: what a build embeds about the Git checkout, *)
(* and which paths it asks Cargo to watch. Cargo runs the build script     *)
(* again if a watched path is missing or was modified after the last run   *)
(* began. The script asks Git in separate processes, while the developer   *)
(* edits files, moves them aside and uses Git.                             *)
(*                                                                         *)
(* The clock counts modifications: no two happen at the same time. The     *)
(* script's own files and environment variables, whose changes only make   *)
(* it run more often, are left out.                                        *)
(***************************************************************************)
EXTENDS Naturals, Sequences, FiniteSets

CONSTANTS
    Files, Contents,
    Branches, Tags,
    Main,          \* the branch of the first commit
    First,         \* what the first commit has in every file
    None,          \* no file, no commit, no tag
    MaxCommits, MaxChanges

Refs     == Branches \cup Tags
GitPaths == {"HEAD", "index", "packed-refs", "refs/heads", "refs/tags"}
Paths    == GitPaths \cup Files

ASSUME BuildConstants ==
    /\ Main \in Branches /\ First \in Contents
    /\ None \notin Contents \cup Paths
    /\ Branches \cap Tags = {} /\ Refs \cap Nat = {} /\ Files \cap GitPaths = {}
    /\ MaxCommits \in Nat /\ MaxChanges \in Nat

VARIABLES
    packaged,   \* the package holds a .cargo_vcs_info.json
    repo,       \* the repository and its work tree
    clock,
    changed,    \* changed[p]: when path p was modified
    script,     \* the run of the build script under way
    built       \* what the last run left to Cargo and to the crate

vars == <<packaged, repo, clock, changed, script, built>>

Tree    == [Files -> Contents \cup {None}]
Commits == 1..Len(repo.commits)

----------------------------------------------------------------------------
(***************************************************************************)
(* Git.                                                                    *)
(***************************************************************************)

HeadCommit == IF repo.head \in Branches THEN repo.refs[repo.head] ELSE repo.head

Dirty ==
    \/ repo.index # repo.commits[HeadCommit].tree
    \/ \E f \in Files : repo.index[f] # None /\ repo.work[f] # repo.index[f]

\* The nearest tag and how many commits ago it was.
Described ==
    LET tagged(c) == { t \in Tags : repo.refs[t] = c }
        from[c \in 0..Len(repo.commits)] ==
            IF c = 0 THEN [tag |-> None, distance |-> 0]
            ELSE IF tagged(c) # {} THEN [tag |-> CHOOSE t \in tagged(c) : TRUE, distance |-> 0]
            ELSE LET before == from[repo.commits[c].parent]
                 IN  [before EXCEPT !.distance = @ + 1]
    IN  from[HeadCommit]

Directory(r) == IF r \in Branches THEN "refs/heads" ELSE "refs/tags"

Exists(p) ==
    CASE p = "packed-refs"       -> repo.packed # {}
      [] p \in Files             -> repo.work[p] # None
      [] p \notin Files \cup {"packed-refs"} -> TRUE

Touch(paths) ==
    /\ clock' = clock + 1
    /\ changed' = [p \in Paths |-> IF p \in paths THEN clock + 1 ELSE changed[p]]

\* git status and git describe --dirty write the index if a file was touched
\* and not changed.
RefreshIndex ==
    LET same == { f \in repo.touched : repo.work[f] = repo.index[f] }
    IN  IF same = {} THEN UNCHANGED <<repo, clock, changed>>
        ELSE repo' = [repo EXCEPT !.touched = @ \ same] /\ Touch({"index"})

----------------------------------------------------------------------------
(***************************************************************************)
(* The developer.                                                          *)
(***************************************************************************)

Change(new, paths) ==
    /\ clock < MaxChanges
    /\ repo' = new /\ Touch(paths)
    /\ UNCHANGED <<packaged, script, built>>

Edit(f, c) ==
    Change([repo EXCEPT !.work[f] = c, !.touched = @ \cup {f}], {f})

\* Moving keeps the modification time.
MoveAside(f) ==
    /\ repo.work[f] # None
    /\ repo' = [repo EXCEPT !.work[f] = None, !.aside[f] = repo.work[f]]
    /\ script' = [script EXCEPT !.missed = IF script.at = "idle" THEN @ ELSE @ \cup {f}]
    /\ UNCHANGED <<packaged, clock, changed, built>>

MoveBack(f) ==
    /\ clock < MaxChanges
    /\ repo.work[f] = None /\ repo.aside[f] # None
    /\ repo' = [repo EXCEPT !.work[f] = repo.aside[f], !.touched = @ \cup {f}]
    /\ UNCHANGED <<packaged, clock, changed, script, built>>

Stage(f) ==
    /\ repo.index[f] # repo.work[f]
    /\ Change([repo EXCEPT !.index[f] = repo.work[f], !.touched = @ \ {f}], {"index"})

Restore(f) ==
    /\ repo.index[f] \notin {None, repo.work[f]}
    /\ Change([repo EXCEPT !.work[f] = repo.index[f], !.touched = @ \ {f}], {f, "index"})

GitStatus ==
    /\ clock < MaxChanges
    /\ RefreshIndex
    /\ UNCHANGED <<packaged, script, built>>

Commit ==
    LET c == Len(repo.commits) + 1
        new == [repo EXCEPT !.commits = Append(@, [parent |-> HeadCommit, tree |-> repo.index])]
    IN  /\ c <= MaxCommits /\ repo.index # repo.commits[HeadCommit].tree
        /\ IF repo.head \in Branches
           THEN Change([new EXCEPT !.refs[repo.head] = c, !.loose = @ \cup {repo.head}], {"refs/heads"})
           ELSE Change([new EXCEPT !.head = c], {"HEAD"})

\* git branch and git tag
CreateRef(r) ==
    /\ repo.refs[r] = None
    /\ Change([repo EXCEPT !.refs[r] = HeadCommit, !.loose = @ \cup {r}], {Directory(r)})

DeleteRef(r) ==
    /\ repo.refs[r] # None /\ r # repo.head
    /\ Change([repo EXCEPT !.refs[r] = None, !.loose = @ \ {r}, !.packed = @ \ {r}],
              (IF r \in repo.loose THEN {Directory(r)} ELSE {})
              \cup (IF r \in repo.packed THEN {"packed-refs"} ELSE {}))

PackRefs ==
    /\ repo.loose # {}
    /\ Change([repo EXCEPT !.loose = {}, !.packed = @ \cup repo.loose],
              {"packed-refs"} \cup { Directory(r) : r \in repo.loose })

Switch(to) ==
    LET c == IF to \in Branches THEN repo.refs[to] ELSE to
    IN  /\ ~Dirty /\ to # repo.head /\ c # None
        /\ LET tree    == repo.commits[c].tree
               updated == { f \in Files : tree[f] # repo.work[f] }
           IN  Change([repo EXCEPT !.head = to, !.index = tree, !.work = tree],
                      {"HEAD"} \cup updated \cup IF updated = {} THEN {} ELSE {"index"})

----------------------------------------------------------------------------
(***************************************************************************)
(* The build script and Cargo.                                             *)
(***************************************************************************)

Unknown == [describe |-> None, describeDirty |-> FALSE, sha |-> None, branch |-> None, dirty |-> FALSE]

Resting == [at |-> "idle", started |-> 0, watch |-> {}, missed |-> {}, metadata |-> Unknown]

\* What the checkout is now.
Metadata ==
    IF packaged THEN Unknown
    ELSE [ describe |-> Described, describeDirty |-> Dirty, sha |-> HeadCommit,
           branch |-> IF repo.head \in Branches THEN repo.head ELSE None, dirty |-> Dirty ]

Never == [started |-> 0, watch |-> {None}, missed |-> {}, metadata |-> Unknown]

\* Cargo's reasons to run the script.
Stale ==
    \/ built = Never
    \/ \E p \in built.watch \ {None} : ~Exists(p) \/ changed[p] > built.started

\* Mutant: paths are watched although they do not exist.
WatchMissing ==
    IF packaged THEN {} ELSE GitPaths \cup { f \in Files : repo.index[f] # None }

\* Mutant: branches are watched through HEAD alone.
WatchHead ==
    IF packaged THEN {}
    ELSE { p \in {"HEAD", "index", "packed-refs", "refs/tags"} \cup { f \in Files : repo.index[f] # None } : Exists(p) }

\* git_watch_paths; the ref HEAD resolves to lies below refs/heads.
WatchPaths ==
    IF packaged THEN {}
    ELSE { p \in GitPaths \cup { f \in Files : repo.index[f] # None } : Exists(p) }

CargoBuild ==
    /\ script.at = "idle" /\ Stale
    /\ script' = [Resting EXCEPT !.at = "watch", !.started = clock,
                                 !.missed = { f \in Files : repo.work[f] = None }]
    /\ UNCHANGED <<packaged, repo, clock, changed, built>>

EmitWatchPaths ==
    /\ script.at = "watch"
    /\ script' = [script EXCEPT !.at = "describe", !.watch = WatchPaths]
    /\ UNCHANGED <<packaged, repo, clock, changed, built>>

EmitDescribe ==
    /\ script.at = "describe"
    /\ script' = [script EXCEPT !.at = "sha",
                                !.metadata.describe = Metadata.describe,
                                !.metadata.describeDirty = Metadata.describeDirty]
    /\ IF packaged THEN UNCHANGED <<repo, clock, changed>> ELSE RefreshIndex
    /\ UNCHANGED <<packaged, built>>

EmitSha ==
    /\ script.at = "sha"
    /\ script' = [script EXCEPT !.at = "branch", !.metadata.sha = Metadata.sha]
    /\ UNCHANGED <<packaged, repo, clock, changed, built>>

EmitBranch ==
    /\ script.at = "branch"
    /\ script' = [script EXCEPT !.at = "status", !.metadata.branch = Metadata.branch]
    /\ UNCHANGED <<packaged, repo, clock, changed, built>>

EmitDirty ==
    /\ script.at = "status"
    /\ script' = Resting
    /\ built' = [ started |-> script.started, watch |-> script.watch, missed |-> script.missed,
                  metadata |-> [script.metadata EXCEPT !.dirty = Metadata.dirty] ]
    /\ IF packaged THEN UNCHANGED <<repo, clock, changed>> ELSE RefreshIndex
    /\ UNCHANGED packaged

----------------------------------------------------------------------------
Init ==
    /\ packaged \in BOOLEAN
    /\ LET tree == [f \in Files |-> First]
       IN  repo = [ head |-> Main, refs |-> [r \in Refs |-> IF r = Main THEN 1 ELSE None],
                    loose |-> {Main}, packed |-> {},
                    commits |-> << [parent |-> 0, tree |-> tree] >>,
                    index |-> tree, work |-> tree, aside |-> [f \in Files |-> None], touched |-> {} ]
    /\ clock = 0 /\ changed = [p \in Paths |-> 0]
    /\ script = Resting /\ built = Never

Develop ==
    \/ \E f \in Files :
          \/ \E c \in Contents : Edit(f, c)
          \/ MoveAside(f) \/ MoveBack(f) \/ Stage(f) \/ Restore(f)
    \/ \E r \in Refs : CreateRef(r) \/ DeleteRef(r)
    \/ \E to \in Branches \cup Commits : Switch(to)
    \/ GitStatus \/ Commit \/ PackRefs

Build == CargoBuild \/ EmitWatchPaths \/ EmitDescribe \/ EmitSha \/ EmitBranch \/ EmitDirty

Next == Develop \/ Build

Spec == Init /\ [][Next]_vars

\* Cargo is called again and again, and every run of the script goes on.
FairSpec == Spec /\ WF_vars(Build)

----------------------------------------------------------------------------
(***************************************************************************)
(* Whenever Cargo sees no reason to run the script again, what it embedded *)
(* is what the checkout is: whatever was committed, staged, tagged, packed *)
(* or switched, even while the script ran. The exception is a file that    *)
(* was missing at some moment of the run and was moved back as it was      *)
(* (git_watch_paths, build.rs main).                                       *)
(***************************************************************************)
NoneReturned == \A f \in built.missed : repo.work[f] = None

FreshMetadataIsCurrent ==
    script.at = "idle" /\ ~Stale /\ NoneReturned => built.metadata = Metadata

(***************************************************************************)
(* Once the developer rests, so does the build: the script neither watches *)
(* a path that stays missing nor goes on touching one itself               *)
(* (insert_existing, git_watch_paths).                                     *)
(***************************************************************************)
BuildsSettle ==
    []<><<Develop>>_vars \/ <>[](script.at = "idle" /\ ~Stale)
==============================================================================
