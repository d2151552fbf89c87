---------------------------- MODULE Preparation ----------------------------
(***************************************************************************)
(* The checks of several SelfCI processes, each an inline check or a run   *)
(* of a merge-queue daemon, preparing candidates in one repository         *)
(* (test_merge_git_rebase, test_merge_git_merge, copy_revisions_to_workdirs *)
(* and run_candidate_check).  They share the Git test worktrees, the jj    *)
(* bookmarks and the Git references exported from these, and any of them   *)
(* may be killed between two commands.  Commands are atomic; the jobs      *)
(* themselves are CandidateCheck's matter.                                 *)
(***************************************************************************)
EXTENDS Integers, Sequences, SequencesExt, FiniteSets

CONSTANTS
    Change,         \* as in Integration
    MergeMode,
    Setting,        \* the repositories' kinds, each with its clone mode
    Process,        \* processes, one check each
    Pid,            \* process IDs, free again after an exit
    Base,           \* commits a check may be asked to integrate with ...
    Candidate,      \* ... and commits it may be asked to check
    None            \* no process, no worktree, no commit

\* What detect_vcs finds decides how a candidate is integrated.
Git == INSTANCE Integration WITH VCS <- "git"
Jj == INSTANCE Integration WITH VCS <- "jj"
Commit == Git!Commit
Descends(commit, ancestor) == Git!Descends(commit, ancestor)

ASSUME ModeAssumption == MergeMode \in {"rebase", "merge"}
ASSUME SettingAssumption ==
    Setting \subseteq [vcs : {"git", "jj"}, clone : {"full", "partial", "shallow"}]
ASSUME RevisionAssumption == Base \subseteq Commit /\ Candidate \subseteq Commit \ {<<>>}
ASSUME NoneAssumption ==
    /\ None \notin Process \cup Pid \cup Commit
    /\ None \notin [by : Process, head : Commit]

Side == {"base", "candidate"}

\* selfci-export-<side>-<pid>-<nanoseconds>; the time tells apart all
\* processes that ever have the PID.
Bookmark == [side : Side, pid : Pid, time : Process]

Place == { "idle", "add", "integrate", "head", "remove", "replay", "list", "purge",
           "mark base", "mark candidate", "export", "clone base", "clone candidate",
           "unmark", "hook", "attest", "config", "jobs", "reattest", "return", "ended" }

\* Where there is a candidate to export, or its export.
Exported == { "list", "purge", "mark base", "mark candidate", "export", "clone base",
              "clone candidate", "hook", "attest", "config", "jobs", "reattest" }

VARIABLES
    setting,    \* the kind of this repository and its configured clone mode
    worktree,   \* .git/selfci-test-worktree-<candidate>: who added it, its HEAD
    bookmarks,  \* jj's bookmarks of SelfCI, with their commits
    refs,       \* the Git references exported from them
    pc,         \* each process's place, and whether it has been killed
    killed,
    pidOf,
    base,       \* the resolved base, the candidate and what a test merges them to
    candidate,
    prepared,
    doomed,     \* the bookmarks it is about to delete
    deleted,    \* it has deleted one since its last export
    outcome,    \* what the check is going to return
    copy,       \* the commit each of its two worktrees was exported at
    intact,     \* which of them hold just the tree of that commit
    command,    \* the commit its job command was read from
    before      \* history: the processes killed before it began

repository == <<worktree, bookmarks, refs>>
identity == <<setting, killed, pidOf, before>>
revision == <<base, candidate, prepared>>
trees == <<copy, intact, command>>
purging == <<doomed, deleted>>
vars == <<repository, pc, identity, revision, purging, outcome, trees>>

Live(p) == pc[p] \notin {"idle", "ended"}
Taken(id) == \E p \in Process : Live(p) /\ pidOf[p] = id

TypeOK ==
    /\ setting \in Setting
    /\ DOMAIN worktree = Candidate
    /\ \A c \in Candidate : worktree[c] # None =>
          worktree[c].by \in Process /\ worktree[c].head \in Commit
    /\ DOMAIN bookmarks \subseteq Bookmark
    /\ DOMAIN refs \subseteq Bookmark
    /\ pc \in [Process -> Place]
    /\ killed \in SUBSET Process
    /\ pidOf \in [Process -> Pid \cup {None}]
    /\ \A p, q \in Process : Live(p) /\ Live(q) /\ pidOf[p] = pidOf[q] => p = q
    /\ base \in [Process -> Base \cup {None}]
    /\ candidate \in [Process -> Candidate \cup {None}]
    /\ prepared \in [Process -> Commit \cup {None}]
    /\ \A p \in Process : pc[p] \in Exported => prepared[p] # None
    /\ doomed \in [Process -> SUBSET Bookmark]
    /\ deleted \in [Process -> BOOLEAN]
    /\ outcome \in [Process -> {"open", "passed", "failed", "blocked"}]
    /\ copy \in [Process -> [Side -> Commit \cup {None}]]
    /\ intact \in [Process -> SUBSET Side]
    /\ command \in [Process -> Commit \cup {None}]
    /\ before \in [Process -> SUBSET Process]

NoBookmark == [n \in {} |-> <<>>]

Init ==
    /\ setting \in Setting
    /\ worktree = [c \in Candidate |-> None]
    /\ bookmarks = NoBookmark
    /\ refs = NoBookmark
    /\ pc = [p \in Process |-> "idle"]
    /\ killed = {}
    /\ pidOf = [p \in Process |-> None]
    /\ base = [p \in Process |-> None]
    /\ candidate = [p \in Process |-> None]
    /\ prepared = [p \in Process |-> None]
    /\ doomed = [p \in Process |-> {}]
    /\ deleted = [p \in Process |-> FALSE]
    /\ outcome = [p \in Process |-> "open"]
    /\ copy = [p \in Process |-> [s \in Side |-> None]]
    /\ intact = [p \in Process |-> {}]
    /\ command = [p \in Process |-> None]
    /\ before = [p \in Process |-> {}]

Go(p, place) == pc' = [pc EXCEPT ![p] = place]
End(p, result) == outcome' = [outcome EXCEPT ![p] = result]

\* A failing command ends the check; blocked tells that it failed for what
\* the repository held.
Fail(p, place) == Go(p, place) /\ End(p, "failed")
Block(p, place) == Go(p, place) /\ End(p, "blocked")

\* Where a prepared candidate goes on.
Exporting == IF setting.vcs = "jj" THEN "list" ELSE "clone base"

\* What a test merge of its candidate can be.
Merges(p) ==
    IF setting.vcs = "jj" THEN Jj!TestMerge(base[p], candidate[p])
                          ELSE Git!TestMerge(base[p], candidate[p])

-----------------------------------------------------------------------------
(* The test merge (create_test_merge); an inline check of the base itself  *)
(* has none.                                                               *)

Begin(p) ==
    /\ pc[p] = "idle"
    /\ \E id \in { i \in Pid : ~Taken(i) }, b \in Base, c \in Candidate :
          /\ pidOf' = [pidOf EXCEPT ![p] = id]
          /\ base' = [base EXCEPT ![p] = b]
          /\ candidate' = [candidate EXCEPT ![p] = c]
          /\ \/ /\ Go(p, IF setting.vcs = "jj" THEN "replay" ELSE "add")
                /\ UNCHANGED prepared
             \/ /\ b = c
                /\ prepared' = [prepared EXCEPT ![p] = c]
                /\ Go(p, Exporting)
    /\ before' = [before EXCEPT ![p] = killed]
    /\ UNCHANGED <<setting, repository, killed, purging, outcome, trees>>

\* Mutant: the clean-up is armed before the command, and runs when it fails.
AddGuarded(p) ==
    /\ pc[p] = "add"
    /\ LET c == candidate[p] IN
       \/ /\ worktree[c] = None
          /\ worktree' = [worktree EXCEPT ![c] =
                [by |-> p, head |-> IF MergeMode = "rebase" THEN c ELSE base[p]]]
          /\ Go(p, "integrate")
          /\ UNCHANGED outcome
       \/ worktree[c] # None /\ Block(p, "remove") /\ UNCHANGED worktree
    /\ UNCHANGED <<bookmarks, refs, identity, revision, purging, trees>>

\* git worktree add: at the candidate for a rebase, at the base for a merge.
Add(p) ==
    /\ pc[p] = "add"
    /\ LET c == candidate[p] IN
       \/ /\ worktree[c] = None
          /\ worktree' = [worktree EXCEPT ![c] =
                [by |-> p, head |-> IF MergeMode = "rebase" THEN c ELSE base[p]]]
          /\ Go(p, "integrate")
          /\ UNCHANGED outcome
       \/ worktree[c] # None /\ Block(p, "return") /\ UNCHANGED worktree
       \/ Fail(p, "return") /\ UNCHANGED worktree
    /\ UNCHANGED <<bookmarks, refs, identity, revision, purging, trees>>

\* The rebase or merge moves the HEAD of whatever worktree is at that path.
Integrate(p) ==
    /\ pc[p] = "integrate"
    /\ LET c == candidate[p] IN
       \/ /\ worktree[c] # None
          /\ \E m \in Merges(p) :
                worktree' = [worktree EXCEPT ![c].head = m]
          /\ Go(p, "head")
          /\ UNCHANGED outcome
       \/ Fail(p, "remove") /\ UNCHANGED worktree
    /\ UNCHANGED <<bookmarks, refs, identity, revision, purging, trees>>

ReadHead(p) ==
    /\ pc[p] = "head"
    /\ LET c == candidate[p] IN
       \/ /\ worktree[c] # None
          /\ prepared' = [prepared EXCEPT ![p] = worktree[c].head]
          /\ Go(p, "remove")
          /\ UNCHANGED outcome
       \/ Fail(p, "remove") /\ UNCHANGED prepared
    /\ UNCHANGED <<repository, identity, base, candidate, purging, trees>>

\* Mutant: a failed integration is exported all the same.
RemoveTreeAndGoOn(p) ==
    /\ pc[p] = "remove"
    /\ worktree' = [worktree EXCEPT ![candidate[p]] = None]
    /\ Go(p, Exporting)
    /\ UNCHANGED <<bookmarks, refs, identity, revision, purging, outcome, trees>>

\* The guard: git worktree remove --force, taken to succeed.
RemoveTree(p) ==
    /\ pc[p] = "remove"
    /\ worktree' = [worktree EXCEPT ![candidate[p]] = None]
    /\ Go(p, IF outcome[p] = "open" THEN Exporting ELSE "return")
    /\ UNCHANGED <<bookmarks, refs, identity, revision, purging, outcome, trees>>

\* In jj the integration is an anonymous head of its own.
Replay(p) ==
    /\ pc[p] = "replay"
    /\ \/ /\ \E m \in Merges(p) :
                prepared' = [prepared EXCEPT ![p] = m]
          /\ Go(p, Exporting)
          /\ UNCHANGED outcome
       \/ Fail(p, "return") /\ UNCHANGED prepared
    /\ UNCHANGED <<repository, identity, base, candidate, purging, trees>>

-----------------------------------------------------------------------------
(* Exporting the two commits (copy_revisions_to_workdirs).  jj first       *)
(* deletes what dead processes left, then makes the commits reachable by   *)
(* two bookmarks of its own, exported as Git references; a guard deletes   *)
(* them when the function returns, whatever came of it.  The commands of   *)
(* the two clean-ups (list, delete, export), whose failures the code       *)
(* ignores, are taken to succeed.                                          *)

Own(p) == [side : Side, pid : {pidOf[p]}, time : {p}]

\* Mutant: a bookmark is stale because another process made it.
ListOthers(p) ==
    /\ pc[p] = "list"
    /\ doomed' = [doomed EXCEPT ![p] = { n \in DOMAIN bookmarks : n.pid # pidOf[p] }]
    /\ Go(p, "purge")
    /\ UNCHANGED <<repository, identity, revision, deleted, outcome, trees>>

\* Mutant: only one of the two prefixes is known.
ListCandidates(p) ==
    /\ pc[p] = "list"
    /\ doomed' = [doomed EXCEPT ![p] =
          { n \in DOMAIN bookmarks : n.side = "candidate" /\ ~Taken(n.pid) }]
    /\ Go(p, "purge")
    /\ UNCHANGED <<repository, identity, revision, deleted, outcome, trees>>

\* cleanup_stale_jj_export_bookmarks: stale are those of a PID without process.
List(p) ==
    /\ pc[p] = "list"
    /\ doomed' = [doomed EXCEPT ![p] = { n \in DOMAIN bookmarks : ~Taken(n.pid) }]
    /\ Go(p, "purge")
    /\ UNCHANGED <<repository, identity, revision, deleted, outcome, trees>>

\* jj bookmark delete, which fails on one that is gone.
Delete(p) ==
    /\ pc[p] \in {"purge", "unmark"}
    /\ \E n \in doomed[p] :
          /\ doomed' = [doomed EXCEPT ![p] = @ \ {n}]
          /\ deleted' = [deleted EXCEPT ![p] = @ \/ n \in DOMAIN bookmarks]
          /\ bookmarks' = Restrict(bookmarks, DOMAIN bookmarks \ {n})
    /\ UNCHANGED <<worktree, refs, pc, identity, revision, outcome, trees>>

AfterCleanup(p) ==
    IF pc[p] = "purge" THEN "mark base" ELSE IF outcome[p] = "open" THEN "hook" ELSE "return"

\* Mutant: the references of deleted bookmarks stay.
CleanedNoExport(p) ==
    /\ pc[p] \in {"purge", "unmark"}
    /\ doomed[p] = {}
    /\ deleted' = [deleted EXCEPT ![p] = FALSE]
    /\ Go(p, AfterCleanup(p))
    /\ UNCHANGED <<repository, identity, revision, doomed, outcome, trees>>

\* jj git export, if there was anything to delete.
Cleaned(p) ==
    /\ pc[p] \in {"purge", "unmark"}
    /\ doomed[p] = {}
    /\ refs' = IF deleted[p] THEN bookmarks ELSE refs
    /\ deleted' = [deleted EXCEPT ![p] = FALSE]
    /\ Go(p, AfterCleanup(p))
    /\ UNCHANGED <<worktree, bookmarks, identity, revision, doomed, outcome, trees>>

\* The two ways out of the part that the guard covers.
Done(p) ==
    IF setting.vcs = "jj"
    THEN Go(p, "unmark") /\ doomed' = [doomed EXCEPT ![p] = Own(p)]
    ELSE Go(p, IF outcome'[p] = "open" THEN "hook" ELSE "return") /\ UNCHANGED doomed
Abandon(p, result) == End(p, result) /\ Done(p)

\* The commit that is exported for each side.
Wanted(p, side) == IF side = "base" THEN base[p] ELSE prepared[p]

\* jj bookmark create, which fails on a name that is taken.
Mark(p, side) ==
    /\ pc[p] = (IF side = "base" THEN "mark base" ELSE "mark candidate")
    /\ LET n == CHOOSE m \in Own(p) : m.side = side IN
       \/ /\ n \notin DOMAIN bookmarks
          /\ bookmarks' = [m \in DOMAIN bookmarks \cup {n} |->
                               IF m = n THEN Wanted(p, side) ELSE bookmarks[m]]
          /\ Go(p, IF side = "base" THEN "mark candidate" ELSE "export")
          /\ UNCHANGED <<doomed, outcome>>
       \/ n \in DOMAIN bookmarks /\ Abandon(p, "blocked") /\ UNCHANGED bookmarks
       \/ Abandon(p, "failed") /\ UNCHANGED bookmarks
    /\ UNCHANGED <<worktree, refs, identity, revision, deleted, trees>>

Export(p) ==
    /\ pc[p] = "export"
    /\ \/ /\ refs' = bookmarks
          /\ Go(p, "clone base")
          /\ UNCHANGED <<doomed, outcome>>
       \/ Abandon(p, "failed") /\ UNCHANGED refs
    /\ UNCHANGED <<worktree, bookmarks, identity, revision, deleted, trees>>

\* A full clone fetches what a reference reaches; a partial one completes
\* itself on checkout, and a shallow one fetches the commit by its identity.
Fetchable(commit) ==
    setting.clone = "full" =>
        \E tip \in Base \cup Candidate \cup Range(refs) : Descends(tip, commit)

Clone(p, side) ==
    /\ pc[p] = (IF side = "base" THEN "clone base" ELSE "clone candidate")
    /\ \/ /\ Fetchable(Wanted(p, side))
          /\ copy' = [copy EXCEPT ![p][side] = Wanted(p, side)]
          /\ intact' = [intact EXCEPT ![p] = @ \cup {side}]
          /\ UNCHANGED outcome
          /\ IF side = "base"
             THEN Go(p, "clone candidate") /\ UNCHANGED doomed
             ELSE Done(p)
       \/ ~Fetchable(Wanted(p, side)) /\ Abandon(p, "blocked") /\ UNCHANGED <<copy, intact>>
       \/ Abandon(p, "failed") /\ UNCHANGED <<copy, intact>>
    /\ UNCHANGED <<repository, identity, revision, deleted, command>>

-----------------------------------------------------------------------------
(* The check itself (run_candidate_check).                                 *)

\* The post-clone hook, if any, may write to both worktrees.
Hook(p) ==
    /\ pc[p] = "hook"
    /\ \E left \in SUBSET Side : intact' = [intact EXCEPT ![p] = left]
    /\ \/ Go(p, "attest") /\ UNCHANGED outcome
       \/ Fail(p, "return")
    /\ UNCHANGED <<repository, identity, revision, purging, copy, command>>

Attest(p) ==
    /\ pc[p] = "attest"
    /\ \/ intact[p] = Side /\ Go(p, "config") /\ UNCHANGED outcome
       \/ Fail(p, "return")
    /\ UNCHANGED <<repository, identity, revision, purging, trees>>

\* The job command, from the base's worktree as it is.
ReadConfig(p) ==
    /\ pc[p] = "config"
    /\ \/ /\ command' = [command EXCEPT ![p] =
                IF "base" \in intact[p] THEN copy[p]["base"] ELSE None]
          /\ Go(p, "jobs")
          /\ UNCHANGED outcome
       \/ Fail(p, "return") /\ UNCHANGED command
    /\ UNCHANGED <<repository, identity, revision, purging, copy, intact>>

\* The jobs, which may write to both worktrees, have ended.
FinishJobs(p) ==
    /\ pc[p] = "jobs"
    /\ \E left \in SUBSET Side : intact' = [intact EXCEPT ![p] = left]
    /\ \/ Go(p, "reattest") /\ UNCHANGED outcome
       \/ Fail(p, "reattest")
    /\ UNCHANGED <<repository, identity, revision, purging, copy, command>>

\* Mutant: the base's worktree is attested before the jobs only.
ReattestCandidate(p) ==
    /\ pc[p] = "reattest"
    /\ \/ End(p, IF outcome[p] = "open" /\ "candidate" \in intact[p] THEN "passed" ELSE "failed")
       \/ End(p, "failed")
    /\ Go(p, "return")
    /\ UNCHANGED <<repository, identity, revision, purging, trees>>

Reattest(p) ==
    /\ pc[p] = "reattest"
    /\ \/ End(p, IF outcome[p] = "open" /\ intact[p] = Side THEN "passed" ELSE "failed")
       \/ End(p, "failed")
    /\ Go(p, "return")
    /\ UNCHANGED <<repository, identity, revision, purging, trees>>

-----------------------------------------------------------------------------
\* The check's temporary directories and the rest of its state go with it.
Forget(p) ==
    /\ Go(p, "ended")
    /\ End(p, "open")
    /\ base' = [base EXCEPT ![p] = None]
    /\ candidate' = [candidate EXCEPT ![p] = None]
    /\ prepared' = [prepared EXCEPT ![p] = None]
    /\ doomed' = [doomed EXCEPT ![p] = {}]
    /\ deleted' = [deleted EXCEPT ![p] = FALSE]
    /\ copy' = [copy EXCEPT ![p] = [s \in Side |-> None]]
    /\ intact' = [intact EXCEPT ![p] = {}]
    /\ command' = [command EXCEPT ![p] = None]
    /\ UNCHANGED <<setting, repository, pidOf, before>>

Return(p) ==
    /\ pc[p] = "return"
    /\ Forget(p)
    /\ UNCHANGED killed

Die(p) ==
    /\ Live(p)
    /\ Forget(p)
    /\ killed' = killed \cup {p}

Step(p) ==
    \/ Begin(p) \/ Add(p) \/ Integrate(p) \/ ReadHead(p) \/ RemoveTree(p) \/ Replay(p)
    \/ List(p) \/ Delete(p) \/ Cleaned(p) \/ Export(p)
    \/ \E side \in Side : Mark(p, side) \/ Clone(p, side)
    \/ Hook(p) \/ Attest(p) \/ ReadConfig(p) \/ FinishJobs(p) \/ Reattest(p)
    \/ Return(p) \/ Die(p)

Next == \E p \in Process : Step(p)

Spec == Init /\ [][Next]_vars

-----------------------------------------------------------------------------
(* What the checks promise.                                                *)

(***************************************************************************)
(* The test worktree a process rebases or merges in, reads the result from *)
(* and removes is the one it added, though its path is named after the     *)
(* candidate alone (test_merge_git_rebase, test_merge_git_merge).          *)
(***************************************************************************)
OwnTree ==
    \A p \in Process : pc[p] \in {"integrate", "head", "remove"} =>
        worktree[candidate[p]] # None /\ worktree[candidate[p]].by = p

(***************************************************************************)
(* A check that passes ran the command of the base commit it resolved, in  *)
(* an export of the integration of that very base with its candidate, and  *)
(* left both exports as they were, whatever other processes did to the     *)
(* repository and hooks and jobs to the trees (run_candidate_check).       *)
(***************************************************************************)
PassedAsPrepared ==
    \A p \in Process : outcome[p] = "passed" =>
        /\ command[p] = base[p]
        /\ copy[p]["base"] = base[p]
        /\ \/ copy[p]["candidate"] \in Merges(p)
           \/ base[p] = candidate[p] /\ copy[p]["candidate"] = candidate[p]
        /\ intact[p] = Side

(***************************************************************************)
(* Worktrees, bookmarks and exported references outlive only processes     *)
(* that were killed, whichever command of a check failed, as long as those *)
(* of its clean-ups succeed.                                               *)
(***************************************************************************)
NoLeftovers ==
    /\ \A n \in DOMAIN bookmarks \cup DOMAIN refs : Live(n.time) \/ n.time \in killed
    /\ \A c \in Candidate : worktree[c] # None =>
          Live(worktree[c].by) \/ worktree[c].by \in killed

(***************************************************************************)
(* What killed processes left of bookmarks and references is gone once a   *)
(* process that began after has exported its own, unless some other        *)
(* process was given the PID (cleanup_stale_jj_export_bookmarks).          *)
(***************************************************************************)
LeftoversPurged ==
    \A p \in Process : setting.vcs = "jj" /\ pc[p] \in {"clone base", "clone candidate"} =>
        \A n \in DOMAIN bookmarks \cup DOMAIN refs :
            n.time \in before[p] =>
                \E q \in Process \ {n.time} : pidOf[q] = n.pid

(***************************************************************************)
(* In jj, no check fails for what other processes did to the repository or *)
(* left in it: its bookmarks' names are free, and the references its       *)
(* clones need are there (copy_revisions_to_workdirs).                     *)
(***************************************************************************)
NotBlocked == setting.vcs = "jj" => \A p \in Process : outcome[p] # "blocked"

(***************************************************************************)
(* A check exports the base and the tested candidate with the configured   *)
(* full, partial or shallow clone (SPEC-candidate-check).                  *)
(***************************************************************************)
EveryModeExports ==
    [][ \A p \in Process : pc[p] \in {"clone base", "clone candidate"} =>
          outcome'[p] # "blocked" ]_vars
=============================================================================
