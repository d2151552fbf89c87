------------------------- MODULE PreparationProofs -------------------------
(***************************************************************************)
(* What holds of any number of processes that prepare and check candidates *)
(* in one repository.                                                      *)
(***************************************************************************)
EXTENDS Preparation, TLAPS

\* What create_test_merge returns is a commit ...
LEMMA MergesAreCommits ==
    ASSUME NEW b \in Base, NEW c \in Candidate
    PROVE  Git!TestMerge(b, c) \subseteq Commit /\ Jj!TestMerge(b, c) \subseteq Commit
<1>1. b \in Seq(Change) /\ c \in Seq(Change) /\ c # <<>>
  BY RevisionAssumption DEF Commit, Git!Commit
<1>2. Git!Last(c) \in Change /\ Jj!Last(c) \in Change
  BY <1>1 DEF Git!Last, Jj!Last
<1>3. Append(b, Git!Last(c)) \in Seq(Change) /\ Append(b, Jj!Last(c)) \in Seq(Change)
  BY <1>1, <1>2
<1>4. \A k \in 0..Len(c) : b \o SubSeq(c, k + 1, Len(c)) \in Seq(Change)
  BY <1>1
<1>5. Git!TestMerge(b, c) \subseteq Seq(Change)
  <2>1. Git!Merged(b, c) \subseteq Seq(Change)
    BY <1>1, <1>3 DEF Git!Merged, Git!GitMerged, Git!JjMerged
  <2>2. Git!Rebased(b, c) \subseteq Seq(Change)
    BY <1>1, <1>4 DEF Git!Rebased, Git!GitReplayed, Git!JjReplayed, Git!UniqueStack
  <2> QED
    BY <2>1, <2>2 DEF Git!TestMerge
<1>6. Jj!TestMerge(b, c) \subseteq Seq(Change)
  <2>1. Jj!Merged(b, c) \subseteq Seq(Change)
    BY <1>1, <1>3 DEF Jj!Merged, Jj!GitMerged, Jj!JjMerged
  <2>2. Jj!Rebased(b, c) \subseteq Seq(Change)
    BY <1>1, <1>4 DEF Jj!Rebased, Jj!GitReplayed, Jj!JjReplayed, Jj!UniqueStack
  <2> QED
    BY <2>1, <2>2 DEF Jj!TestMerge
<1> QED
  BY <1>5, <1>6 DEF Commit, Git!Commit

\* ... and a commit descends from itself.
LEMMA DescendsFromItself == \A commit \in Commit : Descends(commit, commit)
BY DEF Descends, Git!Descends, Git!IsPrefix, Commit, Git!Commit

-----------------------------------------------------------------------------
(* Types.                                                                  *)

\* Where a process has the commit it exports.
Ready(p) == pc[p] \in Exported \cup {"unmark"} \/ (pc[p] = "remove" /\ outcome[p] = "open")

TreeTypes == worktree \in [Candidate -> [by : Process, head : Commit] \cup {None}]
MarkTypes ==
    /\ DOMAIN bookmarks \subseteq Bookmark /\ \A n \in DOMAIN bookmarks : bookmarks[n] \in Commit
    /\ DOMAIN refs \subseteq Bookmark /\ \A n \in DOMAIN refs : refs[n] \in Commit
IdentityTypes ==
    /\ setting \in Setting
    /\ killed \in SUBSET Process
    /\ pidOf \in [Process -> Pid \cup {None}]
    /\ before \in [Process -> SUBSET Process]
RevisionTypes ==
    /\ base \in [Process -> Base \cup {None}]
    /\ candidate \in [Process -> Candidate \cup {None}]
    /\ prepared \in [Process -> Commit \cup {None}]
PurgingTypes ==
    /\ doomed \in [Process -> SUBSET Bookmark]
    /\ deleted \in [Process -> BOOLEAN]
CheckTypes ==
    /\ pc \in [Process -> Place]
    /\ outcome \in [Process -> {"open", "passed", "failed", "blocked"}]
    /\ copy \in [Process -> [Side -> Commit \cup {None}]]
    /\ intact \in [Process -> SUBSET Side]
    /\ command \in [Process -> Commit \cup {None}]

Loose ==
    TreeTypes /\ MarkTypes /\ IdentityTypes /\ RevisionTypes /\ PurgingTypes /\ CheckTypes

\* A process at work has a PID of its own, a base and a candidate, and where
\* it exports a commit, that commit.
Equipped(p) ==
    /\ Live(p) => pidOf[p] \in Pid /\ base[p] \in Base /\ candidate[p] \in Candidate
    /\ Ready(p) => prepared[p] \in Commit
Distinct == \A p, q \in Process : Live(p) /\ Live(q) /\ pidOf[p] = pidOf[q] => p = q

Types == Loose /\ (\A p \in Process : Equipped(p)) /\ Distinct

USE DEF Go, End, Fail, Block, repository, identity, revision, purging, trees

\* The steps by what they change.
TreeStep(p) == Add(p) \/ Integrate(p) \/ ReadHead(p) \/ RemoveTree(p)
MarkStep(p) == List(p) \/ Delete(p) \/ Cleaned(p) \/ Export(p) \/ \E side \in Side : Mark(p, side)
CheckStep(p) == Hook(p) \/ Attest(p) \/ ReadConfig(p) \/ FinishJobs(p) \/ Reattest(p)
CloneStep(p) == \E side \in Side : Clone(p, side)
EndStep(p) == Return(p) \/ Die(p)

LEMMA Steps ==
    ASSUME NEW p \in Process, Step(p)
    PROVE  Begin(p) \/ TreeStep(p) \/ Replay(p) \/ MarkStep(p) \/ CloneStep(p) \/ CheckStep(p)
           \/ EndStep(p)
BY DEF Step, TreeStep, MarkStep, CloneStep, CheckStep, EndStep

\* A process changes nothing of another's.
Others(p) ==
    /\ setting' = setting
    /\ \A q \in Process \ {p} :
          /\ pc'[q] = pc[q] /\ outcome'[q] = outcome[q] /\ pidOf'[q] = pidOf[q]
          /\ base'[q] = base[q] /\ candidate'[q] = candidate[q] /\ prepared'[q] = prepared[q]
          /\ doomed'[q] = doomed[q] /\ deleted'[q] = deleted[q] /\ before'[q] = before[q]
          /\ copy'[q] = copy[q] /\ intact'[q] = intact[q] /\ command'[q] = command[q]
          /\ q \in killed' <=> q \in killed

LEMMA DoneSteps ==
    ASSUME NEW p \in Process, Done(p)
    PROVE  \/ /\ setting.vcs = "jj" /\ Go(p, "unmark")
              /\ doomed' = [doomed EXCEPT ![p] = Own(p)]
           \/ /\ setting.vcs # "jj" /\ outcome'[p] = "open" /\ Go(p, "hook")
              /\ doomed' = doomed
           \/ /\ setting.vcs # "jj" /\ outcome'[p] # "open" /\ Go(p, "return")
              /\ doomed' = doomed
BY DEF Done

LEMMA StepOthers ==
    ASSUME Loose, NEW p \in Process, Step(p)
    PROVE  Others(p)
<1>0. IdentityTypes /\ RevisionTypes /\ PurgingTypes /\ CheckTypes
  BY DEF Loose
<1> USE <1>0 DEF IdentityTypes, RevisionTypes, PurgingTypes, CheckTypes, Others
<1>1. CASE Begin(p)
  BY <1>1 DEF Begin
<1>2. CASE TreeStep(p)
  BY <1>2 DEF TreeStep, Add, Integrate, ReadHead, RemoveTree
<1>3. CASE Replay(p)
  BY <1>3 DEF Replay
<1>4. CASE List(p) \/ Delete(p) \/ Cleaned(p)
  <2>1. CASE List(p)
    BY <2>1 DEF List
  <2>2. CASE Delete(p)
    BY <2>2 DEF Delete
  <2>3. CASE Cleaned(p)
    BY <2>3 DEF Cleaned
  <2> QED
    BY <1>4, <2>1, <2>2, <2>3
<1>5. CASE Export(p) \/ \E side \in Side : Mark(p, side)
  <2>1. Done(p) \/ (UNCHANGED doomed /\ \E place : Go(p, place))
    BY <1>5 DEF Export, Mark, Abandon
  <2>2. \E place : Go(p, place)
    BY <2>1, DoneSteps
  <2>3. \A q \in Process \ {p} : doomed'[q] = doomed[q]
    BY <2>1, DoneSteps
  <2>4. \A q \in Process \ {p} : outcome'[q] = outcome[q]
    BY <1>5 DEF Export, Mark, Abandon
  <2>5. UNCHANGED <<identity, base, candidate, prepared, deleted, copy, intact, command>>
    BY <1>5 DEF Export, Mark
  <2> QED
    BY <2>2, <2>3, <2>4, <2>5
<1>6. CASE CloneStep(p)
  <2> SUFFICES ASSUME NEW side \in Side, Clone(p, side) PROVE Others(p)
    BY <1>6 DEF CloneStep
  <2>1. Done(p) \/ (Go(p, "clone candidate") /\ UNCHANGED doomed)
    BY DEF Clone, Abandon
  <2>2. \E place : Go(p, place)
    BY <2>1, DoneSteps
  <2>3. \A q \in Process \ {p} : doomed'[q] = doomed[q]
    BY <2>1, DoneSteps
  <2>4. \A q \in Process \ {p} :
          outcome'[q] = outcome[q] /\ copy'[q] = copy[q] /\ intact'[q] = intact[q]
    BY DEF Clone, Abandon
  <2> QED
    BY <2>2, <2>3, <2>4 DEF Clone
<1>7. CASE CheckStep(p)
  BY <1>7 DEF CheckStep, Hook, Attest, ReadConfig, FinishJobs, Reattest
<1>8. CASE EndStep(p)
  BY <1>8 DEF EndStep, Return, Die, Forget
<1> QED
  BY <1>1, <1>2, <1>3, <1>4, <1>5, <1>6, <1>7, <1>8, Steps DEF MarkStep

LEMMA InitTypes == Init => Types
<1> SUFFICES ASSUME Init PROVE Types
  OBVIOUS
<1>1. Loose
  BY DEF Init, Loose, TreeTypes, MarkTypes, IdentityTypes, RevisionTypes, PurgingTypes,
         CheckTypes, NoBookmark, Place
<1>2. (\A p \in Process : Equipped(p)) /\ Distinct
  BY DEF Init, Equipped, Distinct, Live, Ready, Exported
<1> QED
  BY <1>1, <1>2 DEF Types

LEMMA TypesSuffice == Types => TypeOK
<1> SUFFICES ASSUME Types PROVE TypeOK
  OBVIOUS
<1>1. /\ DOMAIN worktree = Candidate
      /\ \A c \in Candidate : worktree[c] # None =>
            worktree[c].by \in Process /\ worktree[c].head \in Commit
  BY DEF Types, Loose, TreeTypes
<1>2. \A p \in Process : pc[p] \in Exported => prepared[p] # None
  BY NoneAssumption DEF Types, Equipped, Ready
<1>3. \A p, q \in Process : Live(p) /\ Live(q) /\ pidOf[p] = pidOf[q] => p = q
  BY DEF Types, Distinct
<1>4. DOMAIN bookmarks \subseteq Bookmark /\ DOMAIN refs \subseteq Bookmark
  BY DEF Types, Loose, MarkTypes
<1> QED
  BY <1>1, <1>2, <1>3, <1>4
  DEF Types, Loose, IdentityTypes, RevisionTypes, PurgingTypes, CheckTypes, TypeOK

\* The bookmark a process makes for one side.
NameOf(p, side) == [side |-> side, pid |-> pidOf[p], time |-> p]

LEMMA OwnNames ==
    ASSUME NEW p \in Process, pidOf[p] \in Pid
    PROVE  /\ Own(p) \subseteq Bookmark
           /\ \A n \in Own(p) : n.pid = pidOf[p] /\ n.time = p
           /\ \A side \in Side : /\ NameOf(p, side) \in Own(p)
                                 /\ (CHOOSE m \in Own(p) : m.side = side) = NameOf(p, side)
           /\ \A n \in Own(p) : \E side \in Side :
                 n = NameOf(p, side)
<1>1. \A n \in Own(p) : /\ n.side \in Side /\ n.pid = pidOf[p] /\ n.time = p
                        /\ n = [side |-> n.side, pid |-> n.pid, time |-> n.time]
  BY DEF Own
<1>2. \A side \in Side : NameOf(p, side) \in Own(p)
  BY DEF Own, NameOf
<1>3. ASSUME NEW side \in Side
      PROVE  (CHOOSE m \in Own(p) : m.side = side) = NameOf(p, side)
  <2>1. \E m \in Own(p) : m.side = side
    BY <1>2 DEF NameOf
  <2>2. (CHOOSE m \in Own(p) : m.side = side) \in Own(p)
        /\ (CHOOSE m \in Own(p) : m.side = side).side = side
    BY <2>1
  <2> QED
    BY <1>1, <2>2 DEF NameOf
<1>4. Own(p) \subseteq Bookmark
  BY DEF Own, Bookmark
<1> QED
  BY <1>1, <1>2, <1>3, <1>4 DEF NameOf

LEMMA MergesTyped ==
    ASSUME Types, NEW p \in Process, Live(p)
    PROVE  Merges(p) \subseteq Commit
BY MergesAreCommits DEF Types, Equipped, Merges

LEMMA TreeTypesKept ==
    ASSUME Types, NEW p \in Process, Step(p)
    PROVE  TreeTypes'
<1>0. TreeTypes /\ Equipped(p) /\ Base \subseteq Commit /\ Candidate \subseteq Commit
  BY RevisionAssumption DEF Types, Loose
<1>1. CASE Add(p)
  <2>1. Live(p)
    BY <1>1 DEF Add, Live
  <2>2. [by |-> p, head |-> IF MergeMode = "rebase" THEN candidate[p] ELSE base[p]]
           \in [by : Process, head : Commit]
    BY <1>0, <2>1 DEF Equipped
  <2> QED
    BY <1>0, <1>1, <2>2 DEF Add, TreeTypes
<1>2. CASE Integrate(p)
  <2>1. Merges(p) \subseteq Commit
    BY <1>2, MergesTyped DEF Integrate, Live
  <2>2. CASE worktree' = worktree
    BY <1>0, <2>2 DEF TreeTypes
  <2>3. ASSUME NEW m \in Merges(p), worktree[candidate[p]] # None,
               worktree' = [worktree EXCEPT ![candidate[p]].head = m]
        PROVE  TreeTypes'
    BY <1>0, <2>1, <2>3 DEF TreeTypes
  <2> QED
    BY <1>2, <2>2, <2>3 DEF Integrate
<1>3. CASE RemoveTree(p)
  BY <1>0, <1>3 DEF RemoveTree, TreeTypes
<1>4. CASE ~Add(p) /\ ~Integrate(p) /\ ~RemoveTree(p)
  <2>1. worktree' = worktree
    BY <1>4
    DEF Step, Begin, ReadHead, Replay, List, Delete, Cleaned, Export, Mark, Clone, Hook, Attest,
        ReadConfig, FinishJobs, Reattest, Return, Die, Forget
  <2> QED
    BY <1>0, <2>1 DEF TreeTypes
<1> QED
  BY <1>1, <1>2, <1>3, <1>4

\* What each step does to the bookmarks and the references.
MarksNames(p, side) ==
    /\ NameOf(p, side) \notin DOMAIN bookmarks
    /\ DOMAIN bookmarks' = DOMAIN bookmarks \cup {NameOf(p, side)}
    /\ \A n \in DOMAIN bookmarks' :
          bookmarks'[n] = IF n = NameOf(p, side) THEN Wanted(p, side) ELSE bookmarks[n]
Deletes(p, n) ==
    /\ DOMAIN bookmarks' = DOMAIN bookmarks \ {n}
    /\ \A m \in DOMAIN bookmarks' : bookmarks'[m] = bookmarks[m]
    /\ doomed' = [doomed EXCEPT ![p] = @ \ {n}]
    /\ deleted' = [deleted EXCEPT ![p] = @ \/ n \in DOMAIN bookmarks]
    /\ UNCHANGED <<refs, pc, identity, revision, outcome, trees>>

LEMMA Marks ==
    ASSUME Types, NEW p \in Process, NEW side \in Side, Mark(p, side)
    PROVE  /\ pc[p] = (IF side = "base" THEN "mark base" ELSE "mark candidate")
           /\ \/ /\ MarksNames(p, side)
                 /\ Go(p, IF side = "base" THEN "mark candidate" ELSE "export")
                 /\ UNCHANGED <<doomed, outcome>>
              \/ /\ Abandon(p, "failed") \/ (Abandon(p, "blocked") /\ NameOf(p, side) \in DOMAIN bookmarks)
                 /\ UNCHANGED bookmarks
           /\ UNCHANGED <<worktree, refs, identity, revision, deleted, trees>>
<1>1. pidOf[p] \in Pid
  BY DEF Mark, Types, Equipped, Live
<1>2. (CHOOSE m \in Own(p) : m.side = side) = NameOf(p, side)
  BY <1>1, OwnNames
<1>3. ASSUME NameOf(p, side) \notin DOMAIN bookmarks,
             bookmarks' = [m \in DOMAIN bookmarks \cup {NameOf(p, side)} |->
                             IF m = NameOf(p, side) THEN Wanted(p, side) ELSE bookmarks[m]]
      PROVE  MarksNames(p, side)
  BY <1>3 DEF MarksNames
<1> QED
  BY <1>2, <1>3 DEF Mark

LEMMA Deletions ==
    ASSUME NEW p \in Process, Delete(p)
    PROVE  pc[p] \in {"purge", "unmark"} /\ \E n \in doomed[p] : Deletes(p, n)
BY DEF Delete, Deletes, Restrict

LEMMA MarkTypesKept ==
    ASSUME Types, NEW p \in Process, Step(p)
    PROVE  MarkTypes'
<1>0. MarkTypes /\ Equipped(p) /\ Base \subseteq Commit
  BY RevisionAssumption DEF Types, Loose
<1>1. ASSUME NEW side \in Side, Mark(p, side) PROVE MarkTypes'
  <2>1. Wanted(p, side) \in Commit /\ NameOf(p, side) \in Bookmark
    BY <1>0, <1>1, OwnNames DEF Mark, Equipped, Live, Ready, Exported, Wanted
  <2>2. refs' = refs /\ (bookmarks' = bookmarks \/ MarksNames(p, side))
    BY <1>1, Marks
  <2>3. CASE bookmarks' = bookmarks
    BY <1>0, <2>2, <2>3 DEF MarkTypes
  <2>4. CASE MarksNames(p, side)
    BY <1>0, <2>1, <2>2, <2>4 DEF MarkTypes, MarksNames
  <2> QED
    BY <2>2, <2>3, <2>4
<1>2. CASE Delete(p)
  BY <1>0, <1>2, Deletions DEF Deletes, MarkTypes
<1>3. CASE Cleaned(p)
  BY <1>0, <1>3 DEF Cleaned, MarkTypes
<1>4. CASE Export(p)
  BY <1>0, <1>4 DEF Export, MarkTypes
<1>5. CASE UNCHANGED <<bookmarks, refs>>
  BY <1>0, <1>5 DEF MarkTypes
<1> QED
  BY <1>1, <1>2, <1>3, <1>4, <1>5
  DEF Step, Begin, Add, Integrate, ReadHead, RemoveTree, Replay, List, Clone, Hook, Attest,
      ReadConfig, FinishJobs, Reattest, Return, Die, Forget

LEMMA IdentityTypesKept ==
    ASSUME Types, NEW p \in Process, Step(p)
    PROVE  IdentityTypes'
<1>0. IdentityTypes
  BY DEF Types, Loose
<1>1. CASE Begin(p)
  BY <1>0, <1>1 DEF Begin, IdentityTypes
<1>2. CASE EndStep(p)
  BY <1>0, <1>2 DEF EndStep, Return, Die, Forget, IdentityTypes
<1>3. CASE UNCHANGED identity
  BY <1>0, <1>3 DEF IdentityTypes
<1> QED
  BY <1>1, <1>2, <1>3
  DEF Step, Add, Integrate, ReadHead, RemoveTree, Replay, List, Delete, Cleaned, Export, Mark,
      Clone, Hook, Attest, ReadConfig, FinishJobs, Reattest, EndStep

LEMMA RevisionTypesKept ==
    ASSUME Types, NEW p \in Process, Step(p)
    PROVE  RevisionTypes'
<1>0. RevisionTypes /\ TreeTypes /\ Base \subseteq Commit /\ Candidate \subseteq Commit /\ Equipped(p)
  BY RevisionAssumption DEF Types, Loose
<1>1. CASE Begin(p)
  BY <1>0, <1>1 DEF Begin, RevisionTypes
<1>2. CASE ReadHead(p)
  BY <1>0, <1>2 DEF ReadHead, RevisionTypes, TreeTypes, Equipped, Live
<1>3. CASE Replay(p)
  <2>1. Merges(p) \subseteq Commit
    BY <1>3, MergesTyped DEF Replay, Live
  <2> QED
    BY <1>0, <1>3, <2>1 DEF Replay, RevisionTypes
<1>4. CASE EndStep(p)
  BY <1>0, <1>4 DEF EndStep, Return, Die, Forget, RevisionTypes
<1>5. CASE UNCHANGED revision
  BY <1>0, <1>5 DEF RevisionTypes
<1> QED
  BY <1>1, <1>2, <1>3, <1>4, <1>5
  DEF Step, Add, Integrate, RemoveTree, List, Delete, Cleaned, Export, Mark,
      Clone, Hook, Attest, ReadConfig, FinishJobs, Reattest, EndStep

LEMMA PurgingTypesKept ==
    ASSUME Types, NEW p \in Process, Step(p)
    PROVE  PurgingTypes'
<1>0. PurgingTypes /\ MarkTypes /\ Equipped(p)
  BY DEF Types, Loose
<1>1. ASSUME doomed' = [doomed EXCEPT ![p] = Own(p)], Live(p), deleted' = deleted
      PROVE  PurgingTypes'
  BY <1>0, <1>1, OwnNames DEF Equipped, PurgingTypes
<1>2. CASE List(p)
  BY <1>0, <1>2 DEF List, PurgingTypes, MarkTypes
<1>3. CASE Delete(p) \/ Cleaned(p)
  BY <1>0, <1>3 DEF Delete, Cleaned, PurgingTypes
<1>4. CASE Export(p) \/ (\E side \in Side : Mark(p, side)) \/ CloneStep(p)
  <2>1. Live(p) /\ deleted' = deleted /\ (doomed' = doomed \/ Done(p))
    BY <1>4 DEF Export, Mark, CloneStep, Clone, Abandon, Live
  <2>2. CASE doomed' = doomed
    BY <1>0, <2>1, <2>2 DEF PurgingTypes
  <2>3. CASE Done(p)
    BY <1>1, <2>1, <2>2, <2>3, DoneSteps
  <2> QED
    BY <2>1, <2>2, <2>3
<1>5. CASE EndStep(p)
  BY <1>0, <1>5 DEF EndStep, Return, Die, Forget, PurgingTypes
<1>6. CASE UNCHANGED purging
  BY <1>0, <1>6 DEF PurgingTypes
<1> QED
  BY <1>2, <1>3, <1>4, <1>5, <1>6
  DEF Step, Begin, Add, Integrate, ReadHead, RemoveTree, Replay, CloneStep, Hook, Attest,
      ReadConfig, FinishJobs, Reattest, EndStep

LEMMA Cleanups ==
    ASSUME NEW p \in Process
    PROVE  /\ pc[p] = "purge" => AfterCleanup(p) = "mark base"
           /\ pc[p] # "purge" /\ outcome[p] = "open" => AfterCleanup(p) = "hook"
           /\ pc[p] # "purge" /\ outcome[p] # "open" => AfterCleanup(p) = "return"
BY DEF AfterCleanup

\* Where a step leads.
LEMMA Leads ==
    ASSUME NEW p \in Process, Step(p)
    PROVE  \E place \in Place :
              Go(p, place) \/ (pc' = pc /\ Delete(p))
<1> USE DEF Place
<1>1. CASE Begin(p) \/ TreeStep(p) \/ Replay(p)
  BY <1>1 DEF Begin, TreeStep, Add, Integrate, ReadHead, RemoveTree, Replay, Exporting
<1>2. CASE List(p) \/ Delete(p)
  BY <1>2 DEF List, Delete
<1>3. CASE Cleaned(p)
  BY <1>3, Cleanups DEF Cleaned
<1>4. CASE Export(p) \/ (\E side \in Side : Mark(p, side)) \/ CloneStep(p)
  BY <1>4, DoneSteps DEF Export, Mark, CloneStep, Clone, Abandon
<1>5. CASE CheckStep(p)
  BY <1>5 DEF CheckStep, Hook, Attest, ReadConfig, FinishJobs, Reattest
<1>6. CASE EndStep(p)
  BY <1>6 DEF EndStep, Return, Die, Forget
<1> QED
  BY <1>1, <1>2, <1>3, <1>4, <1>5, <1>6, Steps DEF MarkStep

LEMMA CheckTypesKept ==
    ASSUME Types, NEW p \in Process, Step(p)
    PROVE  CheckTypes'
<1>0. CheckTypes /\ Equipped(p) /\ Base \subseteq Commit
  BY RevisionAssumption DEF Types, Loose
<1>1. pc' \in [Process -> Place]
  BY <1>0, Leads DEF CheckTypes
<1>2. outcome' \in [Process -> {"open", "passed", "failed", "blocked"}]
  <2>1. CASE TreeStep(p) \/ Replay(p)
    BY <1>0, <2>1
    DEF TreeStep, Add, Integrate, ReadHead, RemoveTree, Replay, CheckTypes
  <2>2. CASE Export(p) \/ (\E side \in Side : Mark(p, side)) \/ CloneStep(p)
    BY <1>0, <2>2 DEF Export, Mark, CloneStep, Clone, Abandon, CheckTypes
  <2>3. CASE CheckStep(p)
    BY <1>0, <2>3 DEF CheckStep, Hook, Attest, ReadConfig, FinishJobs, Reattest, CheckTypes
  <2>4. CASE EndStep(p)
    BY <1>0, <2>4 DEF EndStep, Return, Die, Forget, CheckTypes
  <2>5. CASE outcome' = outcome
    BY <1>0, <2>5 DEF CheckTypes
  <2> QED
    BY <2>1, <2>2, <2>3, <2>4, <2>5, Steps DEF MarkStep, Begin, List, Delete, Cleaned
<1>3. /\ copy' \in [Process -> [Side -> Commit \cup {None}]]
      /\ intact' \in [Process -> SUBSET Side]
      /\ command' \in [Process -> Commit \cup {None}]
  <2>1. CASE UNCHANGED trees
    BY <1>0, <2>1 DEF CheckTypes
  <2>2. CASE CloneStep(p)
    <3> SUFFICES ASSUME NEW side \in Side, Clone(p, side)
                 PROVE  /\ copy' \in [Process -> [Side -> Commit \cup {None}]]
                        /\ intact' \in [Process -> SUBSET Side]
                        /\ command' \in [Process -> Commit \cup {None}]
      BY <2>2 DEF CloneStep
    <3>1. Wanted(p, side) \in Commit
      BY <1>0 DEF Clone, Equipped, Live, Ready, Exported, Wanted
    <3>2. copy \in [Process -> [Side -> Commit \cup {None}]] /\ intact \in [Process -> SUBSET Side]
          /\ command \in [Process -> Commit \cup {None}]
      BY <1>0 DEF CheckTypes
    <3>3. CASE UNCHANGED <<copy, intact>>
      BY <3>2, <3>3 DEF Clone
    <3>4. CASE /\ copy' = [copy EXCEPT ![p][side] = Wanted(p, side)]
               /\ intact' = [intact EXCEPT ![p] = @ \cup {side}]
      <4>1. copy' \in [Process -> [Side -> Commit \cup {None}]]
        BY <3>1, <3>2, <3>4
      <4>2. intact' \in [Process -> SUBSET Side]
        BY <3>2, <3>4
      <4> QED
        BY <3>2, <4>1, <4>2 DEF Clone
    <3> QED
      BY <3>3, <3>4 DEF Clone
  <2>3. CASE Hook(p) \/ FinishJobs(p)
    BY <1>0, <2>3 DEF Hook, FinishJobs, CheckTypes
  <2>4. CASE ReadConfig(p)
    <3>1. copy[p]["base"] \in Commit \cup {None}
      BY <1>0 DEF CheckTypes, Side
    <3>2. PICK c \in Commit \cup {None} :
            command' = [command EXCEPT ![p] = c] \/ command' = command
      BY <2>4, <3>1 DEF ReadConfig
    <3>3. command' \in [Process -> Commit \cup {None}]
      BY <1>0, <3>2 DEF CheckTypes
    <3>4. UNCHANGED <<copy, intact>>
      BY <2>4 DEF ReadConfig
    <3> QED
      BY <1>0, <3>3, <3>4 DEF CheckTypes
  <2>5. CASE EndStep(p)
    <3>1. /\ copy' = [copy EXCEPT ![p] = [s \in Side |-> None]]
          /\ intact' = [intact EXCEPT ![p] = {}]
          /\ command' = [command EXCEPT ![p] = None]
      BY <2>5 DEF EndStep, Return, Die, Forget
    <3>2. [s \in Side |-> None] \in [Side -> Commit \cup {None}]
      OBVIOUS
    <3>3. copy' \in [Process -> [Side -> Commit \cup {None}]]
      BY <1>0, <3>1, <3>2 DEF CheckTypes
    <3> QED
      BY <1>0, <3>1, <3>3 DEF CheckTypes
  <2> QED
    BY <2>1, <2>2, <2>3, <2>4, <2>5, Steps
    DEF TreeStep, MarkStep, CheckStep, Begin, Add, Integrate, ReadHead, RemoveTree, Replay, List,
        Delete, Cleaned, Export, Mark, Attest, Reattest
<1> QED
  BY <1>1, <1>2, <1>3 DEF CheckTypes

LEMMA EquippedKept ==
    ASSUME Types, NEW p \in Process, Step(p)
    PROVE  (\A q \in Process : Equipped(q)') /\ Distinct'
<1>0. /\ Loose /\ Others(p) /\ Loose'
      /\ Base \subseteq Commit /\ Candidate \subseteq Commit
  BY StepOthers, TreeTypesKept, MarkTypesKept, IdentityTypesKept, RevisionTypesKept,
     PurgingTypesKept, CheckTypesKept, RevisionAssumption
  DEF Types, Loose
<1>1. \A q \in Process \ {p} : Equipped(q)' /\ (Live(q)' <=> Live(q)) /\ pidOf'[q] = pidOf[q]
  BY <1>0 DEF Others, Types, Equipped, Live, Ready
<1>2. CASE Begin(p)
  <2>1. PICK id \in { i \in Pid : ~Taken(i) }, b \in Base, c \in Candidate :
          /\ pidOf'[p] = id /\ base'[p] = b /\ candidate'[p] = c
          /\ \/ pc'[p] \in {"replay", "add"}
             \/ prepared'[p] = c
    BY <1>0, <1>2 DEF Begin, Loose, IdentityTypes, RevisionTypes, CheckTypes
  <2>2. Equipped(p)'
    BY <1>0, <2>1 DEF Equipped, Live, Ready, Exported
  <2>3. \A q \in Process \ {p} : Live(q) => pidOf[q] # pidOf'[p]
    BY <2>1 DEF Taken
  <2> QED
    BY <1>1, <2>2, <2>3 DEF Types, Distinct
<1>3. CASE EndStep(p)
  <2>1. pc'[p] = "ended"
    BY <1>0, <1>3 DEF EndStep, Return, Die, Forget, Loose, CheckTypes
  <2>2. Equipped(p)' /\ ~Live(p)'
    BY <2>1 DEF Equipped, Live, Ready, Exported
  <2> QED
    BY <1>1, <2>2 DEF Types, Distinct
<1>4. CASE ~Begin(p) /\ ~EndStep(p)
  <2>1. /\ Live(p) /\ UNCHANGED <<pidOf, base, candidate>>
    BY <1>4, Steps
    DEF TreeStep, MarkStep, CloneStep, CheckStep, Add, Integrate, ReadHead, RemoveTree, Replay,
        List, Delete, Cleaned, Export, Mark, Clone, Hook, Attest, ReadConfig, FinishJobs,
        Reattest, Live
  <2>2. Ready(p)' => prepared'[p] \in Commit
    <3>1. CASE Add(p) \/ Integrate(p)
      BY <1>0, <3>1 DEF Add, Integrate, Ready, Exported, Loose, CheckTypes
    <3>2. CASE ReadHead(p)
      BY <1>0, <3>2, <2>1
      DEF ReadHead, Ready, Exported, Loose, CheckTypes, RevisionTypes, TreeTypes, Types, Equipped
    <3>3. CASE RemoveTree(p)
      <4>1. prepared' = prepared /\ outcome' = outcome
        BY <3>3 DEF RemoveTree
      <4>2. outcome[p] # "open" => ~Ready(p)'
        BY <1>0, <3>3, <4>1 DEF RemoveTree, Ready, Exported, Loose, CheckTypes
      <4>3. outcome[p] = "open" => Ready(p)
        BY <3>3 DEF RemoveTree, Ready
      <4>4. Ready(p) => prepared[p] \in Commit
        BY DEF Types, Equipped
      <4>5. prepared'[p] = prepared[p]
        BY <4>1
      <4>6. CASE outcome[p] = "open"
        BY <4>3, <4>4, <4>5, <4>6
      <4>7. CASE outcome[p] # "open"
        BY <4>2, <4>7
      <4> QED
        BY <4>6, <4>7
    <3>4. CASE Replay(p)
      <4>1. Merges(p) \subseteq Commit
        BY <2>1, MergesTyped
      <4>2. CASE Fail(p, "return")
        BY <1>0, <4>2 DEF Ready, Exported, Loose, CheckTypes
      <4>3. ASSUME NEW m \in Merges(p), prepared' = [prepared EXCEPT ![p] = m]
            PROVE  prepared'[p] \in Commit
        BY <1>0, <4>1, <4>3 DEF Loose, RevisionTypes
      <4> QED
        BY <3>4, <4>2, <4>3 DEF Replay
    <3>5. CASE MarkStep(p) \/ CloneStep(p) \/ CheckStep(p)
      <4>1. prepared' = prepared /\ Ready(p)
        BY <3>5
        DEF MarkStep, CloneStep, CheckStep, List, Delete, Cleaned, Export, Mark, Clone, Hook,
            Attest, ReadConfig, FinishJobs, Reattest, Ready, Exported
      <4> QED
        BY <4>1 DEF Types, Equipped
    <3> QED
      BY <1>4, <3>1, <3>2, <3>3, <3>4, <3>5, Steps DEF TreeStep
  <2>3. Equipped(p)'
    BY <2>1, <2>2 DEF Types, Equipped
  <2> QED
    BY <1>1, <2>1, <2>3 DEF Types, Distinct
<1> QED
  BY <1>2, <1>3, <1>4

LEMMA StepTypes ==
    ASSUME Types, NEW p \in Process, Step(p)
    PROVE  Types'
BY TreeTypesKept, MarkTypesKept, IdentityTypesKept, RevisionTypesKept, PurgingTypesKept,
   CheckTypesKept, EquippedKept
DEF Types, Loose

LEMMA NextTypes == Types /\ [Next]_vars => Types'
<1>1. ASSUME Types, UNCHANGED vars PROVE Types'
  BY <1>1
  DEF vars, Types, Loose, TreeTypes, MarkTypes, IdentityTypes, RevisionTypes, PurgingTypes,
      CheckTypes, Equipped, Live, Ready, Distinct
<1> QED
  BY <1>1, StepTypes DEF Next

LEMMA TypesHold == Spec => []Types
BY InitTypes, NextTypes, PTL DEF Spec

(***************************************************************************)
(* Whatever processes prepare, fail, are killed and are given each other's *)
(* PIDs: no check goes on to export a commit it does not have, and no two  *)
(* that run have one PID (copy_revisions_to_workdirs).                     *)
(***************************************************************************)
THEOREM TypeCorrect == Spec => []TypeOK
BY TypesHold, TypesSuffice, PTL
-----------------------------------------------------------------------------
(* The test worktree.                                                      *)

\* A step of a process changes no worktree that another is using.
LEMMA TreesKept ==
    ASSUME Types, OwnTree, NEW p \in Process, Step(p), NEW c \in Candidate,
           worktree[c] # None, worktree[c].by # p
    PROVE  worktree'[c] = worktree[c]
<1>0. TreeTypes /\ Equipped(p)
  BY DEF Types, Loose
<1>1. CASE Add(p)
  BY <1>0, <1>1 DEF Add, TreeTypes
<1>2. CASE Integrate(p)
  <2>1. candidate[p] # c
    BY <1>2 DEF Integrate, OwnTree
  <2> QED
    BY <1>0, <1>2, <2>1 DEF Integrate, TreeTypes
<1>3. CASE RemoveTree(p)
  <2>1. candidate[p] # c
    BY <1>3 DEF RemoveTree, OwnTree
  <2> QED
    BY <1>0, <1>3, <2>1 DEF RemoveTree, TreeTypes
<1>4. CASE worktree' = worktree
  BY <1>4
<1> QED
  BY <1>1, <1>2, <1>3, <1>4
  DEF Step, Begin, ReadHead, Replay, List, Delete, Cleaned, Export, Mark, Clone, Hook, Attest,
      ReadConfig, FinishJobs, Reattest, Return, Die, Forget

LEMMA OwnTreeKept ==
    ASSUME Types, OwnTree, NEW p \in Process, Step(p)
    PROVE  OwnTree'
<1>0. TreeTypes /\ CheckTypes /\ Others(p) /\ \A q \in Process : Equipped(q)
  BY StepOthers DEF Types, Loose
<1>1. ASSUME NEW q \in Process \ {p}, pc'[q] \in {"integrate", "head", "remove"}
      PROVE  worktree'[candidate'[q]] # None /\ worktree'[candidate'[q]].by = q
  <2>1. pc[q] = pc'[q] /\ candidate'[q] = candidate[q]
    BY <1>0 DEF Others
  <2>2. candidate[q] \in Candidate /\ worktree[candidate[q]] # None /\ worktree[candidate[q]].by = q
    BY <1>0, <1>1, <2>1 DEF OwnTree, Equipped, Live
  <2>3. worktree'[candidate[q]] = worktree[candidate[q]]
    BY <2>2, TreesKept
  <2> QED
    BY <2>1, <2>2, <2>3
<1>2. ASSUME pc'[p] \in {"integrate", "head", "remove"}
      PROVE  worktree'[candidate'[p]] # None /\ worktree'[candidate'[p]].by = p
  <2>1. CASE Add(p)
    <3> DEFINE added == [by |-> p, head |-> IF MergeMode = "rebase" THEN candidate[p] ELSE base[p]]
    <3>1. candidate' = candidate /\ candidate[p] \in Candidate /\ base[p] \in Base
      BY <1>0, <2>1 DEF Add, Equipped, Live
    <3>2. added \in [by : Process, head : Commit] /\ added.by = p
      BY <3>1, RevisionAssumption
    <3>3. worktree' = [worktree EXCEPT ![candidate[p]] = added]
      BY <1>0, <1>2, <2>1 DEF Add, CheckTypes
    <3>4. worktree'[candidate[p]] = added
      BY <1>0, <3>1, <3>3 DEF TreeTypes
    <3> HIDE DEF added
    <3> QED
      BY <3>1, <3>2, <3>4, NoneAssumption
  <2>2. CASE Integrate(p)
    <3>1. worktree[candidate[p]] # None /\ worktree[candidate[p]].by = p /\ candidate' = candidate
          /\ candidate[p] \in Candidate
      BY <1>0, <2>2 DEF Integrate, OwnTree, Equipped, Live
    <3>2. CASE worktree' = worktree
      BY <3>1, <3>2
    <3>3. ASSUME NEW m \in Merges(p), worktree' = [worktree EXCEPT ![candidate[p]].head = m]
          PROVE  worktree'[candidate'[p]] # None /\ worktree'[candidate'[p]].by = p
      <4>1. worktree[candidate[p]] \in [by : Process, head : Commit]
        BY <1>0, <3>1 DEF TreeTypes
      <4>2. worktree'[candidate[p]] = [worktree[candidate[p]] EXCEPT !.head = m]
        BY <1>0, <3>1, <3>3 DEF TreeTypes
      <4>3. m \in Commit
        BY <2>2, MergesTyped DEF Integrate, Live
      <4>4. worktree'[candidate[p]] \in [by : Process, head : Commit]
            /\ worktree'[candidate[p]].by = p
        BY <3>1, <4>1, <4>2, <4>3
      <4> QED
        BY <3>1, <4>4, NoneAssumption
    <3> QED
      BY <2>2, <3>2, <3>3 DEF Integrate
  <2>3. CASE ReadHead(p)
    BY <2>3 DEF ReadHead, OwnTree
  <2>4. CASE ~Add(p) /\ ~Integrate(p) /\ ~ReadHead(p)
    <3>1. pc'[p] \notin {"integrate", "head", "remove"}
      <4>1. CASE Begin(p) \/ RemoveTree(p) \/ Replay(p)
        BY <1>0, <4>1 DEF Begin, RemoveTree, Replay, Exporting, CheckTypes
      <4>2. CASE List(p) \/ Delete(p)
        BY <1>0, <4>2 DEF List, Delete, CheckTypes
      <4>3. CASE Cleaned(p)
        BY <1>0, <4>3, Cleanups DEF Cleaned, CheckTypes
      <4>4. CASE Export(p) \/ (\E side \in Side : Mark(p, side)) \/ CloneStep(p)
        <5>1. CASE Export(p) \/ \E side \in Side : Mark(p, side)
          BY <1>0, <5>1, DoneSteps DEF Export, Mark, Abandon, CheckTypes
        <5>2. CASE CloneStep(p)
          <6>1. Done(p) \/ Go(p, "clone candidate")
            BY <5>2 DEF CloneStep, Clone, Abandon
          <6>2. Done(p) => pc'[p] \notin {"integrate", "head", "remove"}
            BY <1>0, DoneSteps DEF CheckTypes
          <6>3. Go(p, "clone candidate") => pc'[p] = "clone candidate"
            BY <1>0 DEF CheckTypes
          <6> QED
            BY <6>1, <6>2, <6>3
        <5> QED
          BY <4>4, <5>1, <5>2
      <4>5. CASE CheckStep(p) \/ EndStep(p)
        BY <1>0, <4>5
        DEF CheckStep, Hook, Attest, ReadConfig, FinishJobs, Reattest, EndStep, Return, Die,
            Forget, CheckTypes
      <4> QED
        BY <2>4, <4>1, <4>2, <4>3, <4>4, <4>5, Steps DEF TreeStep, MarkStep
    <3> QED
      BY <1>2, <3>1
  <2> QED
    BY <2>1, <2>2, <2>3, <2>4
<1> QED
  BY <1>1, <1>2 DEF OwnTree

LEMMA NextTrees == Types /\ OwnTree /\ [Next]_vars => OwnTree'
<1>1. ASSUME OwnTree, UNCHANGED vars PROVE OwnTree'
  BY <1>1 DEF vars, OwnTree
<1> QED
  BY <1>1, OwnTreeKept DEF Next

(***************************************************************************)
(* A process works in, reads and removes the Git test worktree it added,   *)
(* and no other's, however many prepare the same candidate at a time and   *)
(* wherever one is killed (test_merge_git_rebase, test_merge_git_merge).   *)
(***************************************************************************)
THEOREM OwnTreeHolds == Spec => []OwnTree
<1>1. Init => OwnTree
  BY DEF Init, OwnTree
<1> QED
  BY <1>1, NextTrees, TypesHold, PTL DEF Spec

-----------------------------------------------------------------------------
(* What a check that passes has run.                                       *)

Deciding == {"remove", "unmark", "reattest", "return"}
Checking == {"hook", "attest", "config", "jobs", "reattest"}

\* Its two copies are made, and its bookmarks perhaps still to be deleted.
Copied(p) == pc[p] \in Checking \/ (pc[p] = "unmark" /\ outcome[p] = "open")
Tested(p) ==
    prepared[p] \in Merges(p) \/ (base[p] = candidate[p] /\ prepared[p] = candidate[p])
Concluded(p) ==
    /\ command[p] = base[p]
    /\ copy[p]["base"] = base[p]
    /\ copy[p]["candidate"] = prepared[p]
    /\ Tested(p)
    /\ intact[p] = Side

\* Every place of a check hands on what the later ones rely on.
Sound(p) ==
    /\ pc[p] \notin Deciding => outcome[p] = "open"
    /\ outcome[p] = "passed" => pc[p] = "return" /\ Concluded(p)
    /\ pc[p] = "head" => worktree[candidate[p]].head \in Merges(p)
    /\ Ready(p) => Tested(p)
    /\ Copied(p) \/ pc[p] = "clone candidate" => copy[p]["base"] = base[p]
    /\ Copied(p) => copy[p]["candidate"] = prepared[p]
    /\ pc[p] = "config" => intact[p] = Side
    /\ pc[p] \in {"jobs", "reattest"} => command[p] = base[p]

LEMMA MergesStay ==
    ASSUME NEW p \in Process, setting' = setting, base'[p] = base[p], candidate'[p] = candidate[p]
    PROVE  Merges(p)' = Merges(p)
BY DEF Merges

\* Other processes do not disturb it.
LEMMA SoundOthers ==
    ASSUME Types, OwnTree, NEW p \in Process, Step(p), NEW q \in Process \ {p}, Sound(q)
    PROVE  Sound(q)'
<1>1. Others(p) /\ Equipped(q)
  BY StepOthers DEF Types
<1>2. Merges(q)' = Merges(q)
  BY <1>1, MergesStay DEF Others
<1>3. pc[q] = "head" => worktree'[candidate[q]] = worktree[candidate[q]]
  <2> SUFFICES ASSUME pc[q] = "head" PROVE worktree'[candidate[q]] = worktree[candidate[q]]
    OBVIOUS
  <2>1. candidate[q] \in Candidate /\ worktree[candidate[q]] # None /\ worktree[candidate[q]].by = q
    BY <1>1 DEF Equipped, Live, OwnTree
  <2> QED
    BY <2>1, TreesKept
<1>4. (Ready(q)' <=> Ready(q)) /\ (Copied(q)' <=> Copied(q)) /\ (Tested(q)' <=> Tested(q))
  BY <1>1, <1>2 DEF Others, Ready, Copied, Tested
<1> QED
  BY <1>1, <1>2, <1>3, <1>4 DEF Others, Sound, Concluded

LEMMA SoundSelf ==
    ASSUME Types, NEW p \in Process, Step(p), Sound(p)
    PROVE  Sound(p)'
<1>0. Loose /\ Equipped(p) /\ Others(p) /\ setting' = setting
  BY StepOthers DEF Types, Others
<1> USE DEF Deciding, Checking
<1>1. CASE Begin(p)
  <2>1. pc[p] = "idle" /\ outcome' = outcome
    BY <1>1 DEF Begin
  <2>2. \/ pc'[p] \in {"replay", "add"}
        \/ pc'[p] \in {"list", "clone base"} /\ base'[p] = candidate'[p]
           /\ prepared'[p] = candidate'[p]
    <3>1. PICK b \in Base, c \in Candidate :
            /\ base' = [base EXCEPT ![p] = b] /\ candidate' = [candidate EXCEPT ![p] = c]
            /\ \/ pc' = [pc EXCEPT ![p] = IF setting.vcs = "jj" THEN "replay" ELSE "add"]
               \/ /\ b = c /\ prepared' = [prepared EXCEPT ![p] = c]
                  /\ pc' = [pc EXCEPT ![p] = Exporting]
      BY <1>1 DEF Begin
    <3>2. Exporting \in {"list", "clone base"}
      BY DEF Exporting
    <3>3. base'[p] = b /\ candidate'[p] = c
      BY <1>0, <3>1 DEF Loose, RevisionTypes
    <3>4. CASE pc' = [pc EXCEPT ![p] = IF setting.vcs = "jj" THEN "replay" ELSE "add"]
      BY <1>0, <3>4 DEF Loose, CheckTypes
    <3>5. CASE /\ b = c /\ prepared' = [prepared EXCEPT ![p] = c]
               /\ pc' = [pc EXCEPT ![p] = Exporting]
      BY <1>0, <3>2, <3>3, <3>5 DEF Loose, CheckTypes, RevisionTypes
    <3> QED
      BY <3>1, <3>4, <3>5
  <2>3. outcome'[p] = "open"
    BY <2>1 DEF Sound
  <2> QED
    BY <2>2, <2>3 DEF Sound, Ready, Exported, Copied, Tested
<1>2. CASE Add(p)
  BY <1>0, <1>2 DEF Add, Loose, CheckTypes, Sound, Ready, Exported, Copied
<1>3. CASE Integrate(p)
  <2>1. Merges(p)' = Merges(p) /\ candidate'[p] \in Candidate
    BY <1>0, <1>3, MergesStay DEF Integrate, Equipped, Live
  <2>2. pc'[p] = "head" => worktree'[candidate'[p]].head \in Merges(p)'
    <3>1. CASE Fail(p, "remove")
      BY <1>0, <3>1 DEF Loose, CheckTypes
    <3>2. ASSUME NEW m \in Merges(p), worktree[candidate[p]] # None,
                 worktree' = [worktree EXCEPT ![candidate[p]].head = m]
          PROVE  worktree'[candidate'[p]].head \in Merges(p)'
      <4>1. worktree[candidate[p]] \in [by : Process, head : Commit] /\ candidate' = candidate
        BY <1>0, <1>3, <2>1, <3>2 DEF Loose, TreeTypes, Integrate
      <4>2. worktree'[candidate[p]] = [worktree[candidate[p]] EXCEPT !.head = m]
        BY <1>0, <2>1, <3>2, <4>1 DEF Loose, TreeTypes
      <4>3. worktree'[candidate[p]].head = m
        BY <4>1, <4>2
      <4> QED
        BY <2>1, <4>1, <4>3
    <3> QED
      BY <1>3, <3>1, <3>2 DEF Integrate
  <2>3. \/ pc'[p] = "head" /\ outcome'[p] = "open"
        \/ pc'[p] = "remove" /\ outcome'[p] = "failed"
    BY <1>0, <1>3 DEF Integrate, Loose, CheckTypes, Sound
  <2> QED
    BY <2>2, <2>3 DEF Sound, Ready, Exported, Copied
<1>4. CASE ReadHead(p)
  <2>1. Merges(p)' = Merges(p)
    BY <1>0, <1>4, MergesStay DEF ReadHead
  <2>2. \/ /\ pc'[p] = "remove" /\ outcome'[p] = "open"
           /\ prepared'[p] = worktree[candidate[p]].head
        \/ pc'[p] = "remove" /\ outcome'[p] = "failed"
    BY <1>0, <1>4 DEF ReadHead, Loose, CheckTypes, RevisionTypes, Sound
  <2>3. worktree[candidate[p]].head \in Merges(p)
    BY <1>4 DEF ReadHead, Sound
  <2> QED
    BY <2>1, <2>2, <2>3 DEF Sound, Ready, Exported, Copied, Tested
<1>5. CASE RemoveTree(p)
  <2>1. Merges(p)' = Merges(p) /\ prepared' = prepared /\ outcome' = outcome /\ candidate' = candidate
        /\ base' = base
    BY <1>0, <1>5, MergesStay DEF RemoveTree
  <2>2. \/ pc'[p] \in {"list", "clone base"} /\ outcome[p] = "open" /\ Ready(p)
        \/ pc'[p] = "return" /\ outcome[p] # "open"
    BY <1>0, <1>5 DEF RemoveTree, Exporting, Loose, CheckTypes, Ready
  <2>3. outcome[p] # "passed"
    BY <1>5 DEF RemoveTree, Sound
  <2> QED
    BY <2>1, <2>2, <2>3 DEF Sound, Ready, Exported, Copied, Tested
<1>6. CASE Replay(p)
  <2>1. Merges(p)' = Merges(p)
    BY <1>0, <1>6, MergesStay DEF Replay
  <2>2. \/ /\ pc'[p] \in {"list", "clone base"} /\ outcome'[p] = "open"
           /\ prepared'[p] \in Merges(p)
        \/ pc'[p] = "return" /\ outcome'[p] = "failed"
    BY <1>0, <1>6 DEF Replay, Exporting, Loose, CheckTypes, RevisionTypes, Sound
  <2> QED
    BY <2>1, <2>2 DEF Sound, Ready, Exported, Copied, Tested
<1>7. ASSUME UNCHANGED <<base, candidate, prepared>>
      PROVE  Tested(p)' <=> Tested(p)
  BY <1>0, <1>7, MergesStay DEF Tested
<1>8. CASE MarkStep(p)
  <2>1. /\ UNCHANGED <<base, candidate, prepared, copy, intact, command>>
        /\ pc[p] \in {"list", "purge", "mark base", "mark candidate", "export", "unmark"}
    BY <1>8 DEF MarkStep, List, Delete, Cleaned, Export, Mark
  <2>2. \/ /\ outcome'[p] = outcome[p]
           /\ pc'[p] \in {"purge", "mark base", "mark candidate", "export", "clone base"}
           /\ pc[p] # "unmark"
        \/ /\ outcome'[p] = outcome[p] /\ pc[p] = "unmark"
           /\ \/ pc'[p] = "unmark"
              \/ pc'[p] = "hook" /\ outcome[p] = "open"
              \/ pc'[p] = "return" /\ outcome[p] # "open"
        \/ /\ outcome'[p] \in {"failed", "blocked"}
           /\ pc'[p] \in {"unmark", "return"}
    <3>1. CASE List(p) \/ Delete(p)
      BY <1>0, <3>1 DEF List, Delete, Loose, CheckTypes
    <3>2. CASE Cleaned(p)
      BY <1>0, <3>2, Cleanups DEF Cleaned, Loose, CheckTypes
    <3>3. CASE Export(p) \/ \E side \in Side : Mark(p, side)
      BY <1>0, <3>3, DoneSteps DEF Export, Mark, Abandon, Loose, CheckTypes
    <3> QED
      BY <1>8, <3>1, <3>2, <3>3 DEF MarkStep
  <2>3. Ready(p) /\ outcome[p] # "passed"
    BY <2>1 DEF Ready, Exported, Sound
  <2> QED
    BY <1>7, <2>1, <2>2, <2>3 DEF Sound, Ready, Exported, Copied
<1>9. CASE CloneStep(p)
  <2> SUFFICES ASSUME NEW side \in Side, Clone(p, side) PROVE Sound(p)'
    BY <1>9 DEF CloneStep
  <2>1. /\ UNCHANGED <<base, candidate, prepared, command>>
        /\ pc[p] = (IF side = "base" THEN "clone base" ELSE "clone candidate")
        /\ Ready(p) /\ outcome[p] = "open"
    BY DEF Clone, Ready, Exported, Sound
  <2>2. CASE Abandon(p, "failed") \/ Abandon(p, "blocked")
    <3>1. pc'[p] \in {"unmark", "return"} /\ outcome'[p] \in {"failed", "blocked"}
      BY <1>0, <2>2, DoneSteps DEF Abandon, Loose, CheckTypes
    <3> QED
      BY <1>7, <2>1, <3>1 DEF Sound, Ready, Exported, Copied
  <2>3. CASE /\ copy' = [copy EXCEPT ![p][side] = Wanted(p, side)]
             /\ outcome' = outcome
             /\ IF side = "base" THEN Go(p, "clone candidate") /\ UNCHANGED doomed ELSE Done(p)
    <3>1. copy[p] \in [Side -> Commit \cup {None}]
      BY <1>0 DEF Loose, CheckTypes
    <3>2. copy'[p] = [copy[p] EXCEPT ![side] = Wanted(p, side)]
      BY <1>0, <2>3 DEF Loose, CheckTypes
    <3>3. CASE side = "base"
      <4>1. pc'[p] = "clone candidate" /\ copy'[p]["base"] = base[p]
        BY <1>0, <2>3, <3>1, <3>2, <3>3 DEF Loose, CheckTypes, Wanted
      <4> QED
        BY <1>7, <2>1, <2>3, <4>1 DEF Sound, Ready, Exported, Copied
    <3>4. CASE side # "base"
      <4>1. side = "candidate" /\ pc'[p] \in {"unmark", "hook"}
        BY <1>0, <2>1, <2>3, <3>4, DoneSteps DEF Loose, CheckTypes, Side
      <4>2. copy'[p]["candidate"] = prepared[p] /\ copy'[p]["base"] = copy[p]["base"]
        BY <3>1, <3>2, <4>1 DEF Side, Wanted
      <4>3. copy[p]["base"] = base[p]
        BY <2>1, <3>4 DEF Sound
      <4> QED
        BY <1>7, <2>1, <2>3, <4>1, <4>2, <4>3 DEF Sound, Ready, Exported, Copied
    <3> QED
      BY <3>3, <3>4
  <2> QED
    BY <2>2, <2>3 DEF Clone
<1>10. CASE CheckStep(p)
  <2>1. /\ UNCHANGED <<base, candidate, prepared, copy>>
        /\ pc[p] \in Checking /\ Ready(p) /\ Copied(p) /\ outcome[p] # "passed"
    BY <1>10
    DEF CheckStep, Hook, Attest, ReadConfig, FinishJobs, Reattest, Ready, Exported, Copied, Sound
  <2>2. Tested(p)' /\ Tested(p) /\ copy[p]["base"] = base[p] /\ copy[p]["candidate"] = prepared[p]
    BY <1>7, <2>1 DEF Sound
  <2>3. CASE Hook(p)
    <3>1. \/ pc'[p] = "attest" /\ outcome'[p] = "open"
          \/ pc'[p] = "return" /\ outcome'[p] = "failed"
      BY <1>0, <2>3 DEF Hook, Loose, CheckTypes, Sound
    <3> QED
      BY <2>1, <2>2, <3>1 DEF Sound, Ready, Exported, Copied
  <2>4. CASE Attest(p)
    <3>1. \/ pc'[p] = "config" /\ outcome'[p] = "open" /\ intact'[p] = Side
          \/ pc'[p] = "return" /\ outcome'[p] = "failed"
      BY <1>0, <2>4 DEF Attest, Loose, CheckTypes, Sound
    <3> QED
      BY <2>1, <2>2, <3>1 DEF Sound, Ready, Exported, Copied
  <2>5. CASE ReadConfig(p)
    <3>1. \/ pc'[p] = "jobs" /\ outcome'[p] = "open" /\ command'[p] = base[p]
          \/ pc'[p] = "return" /\ outcome'[p] = "failed"
      BY <1>0, <2>2, <2>5 DEF ReadConfig, Loose, CheckTypes, Sound, Side
    <3> QED
      BY <2>1, <2>2, <3>1 DEF Sound, Ready, Exported, Copied
  <2>6. CASE FinishJobs(p)
    <3>1. pc'[p] = "reattest" /\ outcome'[p] \in {"open", "failed"} /\ command' = command
          /\ command[p] = base[p]
      BY <1>0, <2>6 DEF FinishJobs, Loose, CheckTypes, Sound
    <3> QED
      BY <2>1, <2>2, <3>1 DEF Sound, Ready, Exported, Copied
  <2>7. CASE Reattest(p)
    <3>1. /\ pc'[p] = "return" /\ outcome'[p] \in {"passed", "failed"}
          /\ outcome'[p] = "passed" => intact[p] = Side
          /\ intact' = intact /\ command' = command /\ command[p] = base[p]
      BY <1>0, <2>7 DEF Reattest, Loose, CheckTypes, Sound
    <3> QED
      BY <2>1, <2>2, <3>1 DEF Sound, Ready, Exported, Copied, Concluded
  <2> QED
    BY <1>10, <2>3, <2>4, <2>5, <2>6, <2>7 DEF CheckStep
<1>11. CASE EndStep(p)
  <2>1. pc'[p] = "ended" /\ outcome'[p] = "open"
    BY <1>0, <1>11 DEF EndStep, Return, Die, Forget, Loose, CheckTypes
  <2> QED
    BY <2>1 DEF Sound, Ready, Exported, Copied
<1> QED
  BY <1>1, <1>2, <1>3, <1>4, <1>5, <1>6, <1>8, <1>9, <1>10, <1>11, Steps DEF TreeStep

AllSound == \A p \in Process : Sound(p)

LEMMA NextSound == Types /\ OwnTree /\ AllSound /\ [Next]_vars => AllSound'
<1>1. ASSUME AllSound, UNCHANGED vars PROVE AllSound'
  <2> SUFFICES ASSUME NEW p \in Process PROVE Sound(p)'
    BY DEF AllSound
  <2>1. Sound(p) /\ Merges(p)' = Merges(p)
    BY <1>1, MergesStay DEF AllSound, vars
  <2> QED
    BY <1>1, <2>1 DEF vars, Sound, Ready, Copied, Concluded, Tested
<1>2. ASSUME Types, OwnTree, AllSound, NEW p \in Process, Step(p) PROVE AllSound'
  BY <1>2, SoundOthers, SoundSelf DEF AllSound
<1> QED
  BY <1>1, <1>2 DEF Next

(***************************************************************************)
(* A check that passes ran the command of the base commit it resolved, in  *)
(* an export of the integration of that base with its candidate, and left  *)
(* both exports as they were: for any number of processes on one           *)
(* repository, either system and every clone mode (run_candidate_check).   *)
(***************************************************************************)
THEOREM PassedAsPreparedHolds == Spec => []PassedAsPrepared
<1>1. Init => AllSound
  BY DEF Init, AllSound, Sound, Ready, Exported, Copied, Deciding, Checking
<1>2. AllSound => PassedAsPrepared
  BY DEF AllSound, Sound, Concluded, Tested, PassedAsPrepared
<1> QED
  BY <1>1, <1>2, NextSound, TypesHold, OwnTreeHolds, PTL DEF Spec

-----------------------------------------------------------------------------
(* What processes leave.                                                   *)

TreePlaces == {"add", "integrate", "head", "remove"}
MarkPlaces == {"list", "purge", "mark base", "mark candidate", "export", "unmark"}
Cloning == {"clone base", "clone candidate"}

\* Where a process has bookmarks, or references, of its own.
Marked == {"mark candidate", "export", "unmark"} \cup Cloning

\* A worktree left by no killed process has its process at work in it.
Attended ==
    \A c \in Candidate : worktree[c] # None =>
        LET p == worktree[c].by IN
        p \in killed \/ (pc[p] \in {"integrate", "head", "remove"} /\ candidate[p] = c)

Apart(p) ==
    /\ setting.vcs = "jj" => pc[p] \notin TreePlaces
    /\ setting.vcs # "jj" => pc[p] \notin MarkPlaces
Known(p) ==
    \A n \in DOMAIN bookmarks \cup DOMAIN refs : n.time = p /\ p \notin killed =>
        setting.vcs = "jj" /\ n.pid = pidOf[p] /\ pc[p] \in Marked
\* A reference outlives its bookmark only until the next export.
Followed(p) ==
    \A n \in DOMAIN refs : n.time = p /\ p \notin killed =>
        n \in DOMAIN bookmarks \/ (deleted[p] /\ pc[p] = "unmark")
Purging(p) ==
    /\ pc[p] = "purge" => \A n \in doomed[p] : n.time \in killed
    /\ pc[p] = "unmark" =>
          doomed[p] \subseteq Own(p) /\ \A n \in DOMAIN bookmarks : n.time = p => n \in doomed[p]
HasMark(p, side) ==
    NameOf(p, side) \in DOMAIN bookmarks /\ bookmarks[NameOf(p, side)] = Wanted(p, side)
HasRef(p, side) ==
    NameOf(p, side) \in DOMAIN refs /\ refs[NameOf(p, side)] = Wanted(p, side)
Holding(p) ==
    /\ pc[p] = "mark candidate" =>
          HasMark(p, "base") /\ NameOf(p, "candidate") \notin DOMAIN bookmarks
    /\ pc[p] = "export" \/ (setting.vcs = "jj" /\ pc[p] \in Cloning) =>
          HasMark(p, "base") /\ HasMark(p, "candidate")
    /\ setting.vcs = "jj" /\ pc[p] \in Cloning => HasRef(p, "base") /\ HasRef(p, "candidate")

Tidy(p) ==
    /\ p \in killed => pc[p] = "ended"
    /\ Apart(p) /\ Known(p) /\ Followed(p) /\ Purging(p) /\ Holding(p)
    /\ setting.vcs = "jj" => outcome[p] # "blocked"
AllTidy == \A p \in Process : Tidy(p)

\* What a step may do to the bookmarks and the references.
LEMMA RepositorySteps ==
    ASSUME Types, NEW p \in Process, Step(p)
    PROVE  \/ UNCHANGED <<bookmarks, refs>>
           \/ refs' = refs /\ \E side \in Side : Mark(p, side) /\ MarksNames(p, side)
           \/ pc[p] \in {"purge", "unmark"} /\ \E n \in doomed[p] : Deletes(p, n)
           \/ bookmarks' = bookmarks /\ refs' = bookmarks /\ (Cleaned(p) \/ Export(p))
<1>1. ASSUME NEW side \in Side, Mark(p, side)
      PROVE  refs' = refs /\ (bookmarks' = bookmarks \/ MarksNames(p, side))
  BY <1>1, Marks
<1>2. CASE Delete(p)
  BY <1>2, Deletions
<1>3. CASE Cleaned(p) \/ Export(p)
  BY <1>3 DEF Cleaned, Export
<1>4. CASE UNCHANGED <<bookmarks, refs>>
  BY <1>4
<1> QED
  BY <1>1, <1>2, <1>3, <1>4
  DEF Step, Begin, Add, Integrate, ReadHead, RemoveTree, Replay, List, Clone, Hook, Attest,
      ReadConfig, FinishJobs, Reattest, Return, Die, Forget

LEMMA KilledKept ==
    ASSUME NEW p \in Process, Step(p)
    PROVE  killed \subseteq killed' /\ killed' \subseteq killed \cup {p}
BY DEF Step, Begin, Add, Integrate, ReadHead, RemoveTree, Replay, List, Delete, Cleaned, Export,
       Mark, Clone, Hook, Attest, ReadConfig, FinishJobs, Reattest, Return, Die, Forget

\* A step leaves the bookmarks of other running processes alone, and with
\* them the references.
LEMMA OthersMarks ==
    ASSUME Types, AllTidy, NEW p \in Process, Step(p),
           NEW n \in Bookmark, n.time # p, n.time \notin killed
    PROVE  /\ n \in DOMAIN bookmarks' <=> n \in DOMAIN bookmarks
           /\ n \in DOMAIN bookmarks => bookmarks'[n] = bookmarks[n]
           /\ n \in DOMAIN refs' => n \in DOMAIN bookmarks \/ n \in DOMAIN refs
           /\ n \in DOMAIN refs /\ n \in DOMAIN bookmarks /\ refs[n] = bookmarks[n] =>
                 n \in DOMAIN refs' /\ refs'[n] = refs[n]
           /\ n \in DOMAIN refs' /\ n \notin DOMAIN bookmarks => n \in DOMAIN refs
<1>1. CASE UNCHANGED <<bookmarks, refs>>
  BY <1>1
<1>2. ASSUME NEW side \in Side, MarksNames(p, side), refs' = refs
      PROVE  /\ n \in DOMAIN bookmarks' <=> n \in DOMAIN bookmarks
             /\ n \in DOMAIN bookmarks => bookmarks'[n] = bookmarks[n]
  <2>1. n # NameOf(p, side)
    BY DEF NameOf
  <2> QED
    BY <1>2, <2>1 DEF MarksNames
<1>3. ASSUME pc[p] \in {"purge", "unmark"}, NEW m \in doomed[p], Deletes(p, m)
      PROVE  /\ n \in DOMAIN bookmarks' <=> n \in DOMAIN bookmarks
             /\ n \in DOMAIN bookmarks => bookmarks'[n] = bookmarks[n]
             /\ refs' = refs
  <2>1. n # m
    <3>1. CASE pc[p] = "purge"
      BY <1>3, <3>1 DEF AllTidy, Tidy, Purging
    <3>2. CASE pc[p] = "unmark"
      <4>1. m \in Own(p) /\ pidOf[p] \in Pid
        BY <1>3, <3>2 DEF AllTidy, Tidy, Purging, Types, Equipped, Live
      <4> QED
        BY <4>1, OwnNames
    <3> QED
      BY <1>3, <3>1, <3>2
  <2> QED
    BY <1>3, <2>1 DEF Deletes
<1>4. CASE bookmarks' = bookmarks /\ refs' = bookmarks
  BY <1>4
<1> QED
  BY <1>1, <1>2, <1>3, <1>4, RepositorySteps

LEMMA TidyOthers ==
    ASSUME Types, AllTidy, NEW p \in Process, Step(p), NEW q \in Process \ {p}
    PROVE  Tidy(q)'
<1>0. /\ Others(p) /\ Tidy(q) /\ killed \subseteq killed' /\ (q \in killed' <=> q \in killed)
      /\ MarkTypes /\ MarkTypes' /\ setting' = setting
  BY StepOthers, KilledKept, MarkTypesKept DEF Types, Loose, Others, AllTidy
<1>1. CASE q \in killed
  <2>1. pc'[q] = "ended" /\ outcome'[q] = outcome[q]
    BY <1>0, <1>1 DEF Tidy, Others
  <2> QED
    BY <1>0, <1>1, <2>1
    DEF Tidy, Apart, Known, Followed, Purging, Holding, TreePlaces, MarkPlaces, Cloning
<1>2. CASE q \notin killed
  <2>1. \A n \in Bookmark : n.time = q =>
           /\ n \in DOMAIN bookmarks' <=> n \in DOMAIN bookmarks
           /\ n \in DOMAIN bookmarks => bookmarks'[n] = bookmarks[n]
           /\ n \in DOMAIN refs' => n \in DOMAIN bookmarks \/ n \in DOMAIN refs
           /\ n \in DOMAIN refs /\ n \in DOMAIN bookmarks /\ refs[n] = bookmarks[n] =>
                 n \in DOMAIN refs' /\ refs'[n] = refs[n]
           /\ n \in DOMAIN refs' /\ n \notin DOMAIN bookmarks => n \in DOMAIN refs
    BY <1>2, OthersMarks
  <2>2. Known(q)'
    BY <1>0, <1>2, <2>1 DEF Tidy, Known, MarkTypes, Others
  <2>3. Followed(q)'
    BY <1>0, <1>2, <2>1 DEF Tidy, Followed, MarkTypes, Others
  <2>4. Own(q)' = Own(q)
    BY <1>0 DEF Own, Others
  <2>5. Purging(q)'
    BY <1>0, <2>1, <2>4 DEF Tidy, Purging, MarkTypes, Others
  <2>6. Holding(q)'
    <3>1. \A side \in Side :
             NameOf(q, side)' = NameOf(q, side) /\ Wanted(q, side)' = Wanted(q, side)
      BY <1>0 DEF Others, NameOf, Wanted
    <3>2. Live(q) => \A side \in Side : NameOf(q, side) \in Bookmark /\ NameOf(q, side).time = q
      BY OwnNames DEF Types, Equipped, NameOf
    <3>3. \A side \in Side : Live(q) /\ HasMark(q, side) => HasMark(q, side)'
      BY <2>1, <3>1, <3>2 DEF HasMark
    <3>4. \A side \in Side : Live(q) /\ HasMark(q, side) /\ HasRef(q, side) => HasRef(q, side)'
      BY <2>1, <3>1, <3>2 DEF HasMark, HasRef
    <3>5. Live(q) /\ NameOf(q, "candidate") \notin DOMAIN bookmarks =>
             NameOf(q, "candidate")' \notin DOMAIN bookmarks'
      BY <2>1, <3>1, <3>2 DEF Side
    <3>6. pc'[q] = pc[q] /\ (pc[q] \in {"mark candidate", "export"} \cup Cloning => Live(q))
      BY <1>0 DEF Others, Live, Cloning
    <3> QED
      BY <1>0, <3>3, <3>4, <3>5, <3>6 DEF Tidy, Holding, Side
  <2> QED
    BY <1>0, <2>2, <2>3, <2>5, <2>6 DEF Tidy, Apart, Others
<1> QED
  BY <1>1, <1>2

NoName(p) == \A n \in DOMAIN bookmarks \cup DOMAIN refs : n.time # p

LEMMA Blank ==
    ASSUME NEW p \in Process, Apart(p)', NoName(p)', p \notin killed',
           pc'[p] \notin {"purge", "unmark", "mark candidate", "export"},
           setting' = setting, setting.vcs = "jj" => pc'[p] \notin Cloning /\ outcome'[p] # "blocked"
    PROVE  Tidy(p)'
BY DEF Tidy, NoName, Known, Followed, Purging, Holding

LEMMA NameOfOwn ==
    ASSUME NEW p \in Process, pidOf[p] \in Pid, NEW n \in Bookmark, n.time = p, n.pid = pidOf[p]
    PROVE  n \in Own(p)
BY DEF Own, Bookmark

LEMMA TidySelf ==
    ASSUME Types, NEW p \in Process, Step(p), Tidy(p), AllTidy
    PROVE  Tidy(p)'
<1>0. /\ Loose /\ Equipped(p) /\ Others(p) /\ setting' = setting
      /\ CheckTypes /\ MarkTypes /\ PurgingTypes /\ IdentityTypes
  BY StepOthers DEF Types, Loose, Others
<1>1. pc[p] # "ended" /\ p \notin killed
  <2>1. pc[p] # "ended"
    BY Steps
    DEF Begin, TreeStep, MarkStep, CloneStep, CheckStep, EndStep, Add, Integrate, ReadHead,
        RemoveTree, Replay, List, Delete, Cleaned, Export, Mark, Clone, Hook, Attest, ReadConfig,
        FinishJobs, Reattest, Return, Die, Live
  <2> QED
    BY <2>1 DEF Tidy
<1>2. ASSUME pc[p] \notin Marked PROVE NoName(p)
  BY <1>1, <1>2 DEF Tidy, Known, NoName
<1>3. ASSUME setting.vcs # "jj" PROVE NoName(p)
  BY <1>1, <1>3 DEF Tidy, Known, NoName
<1>4. ASSUME UNCHANGED <<bookmarks, refs>>, NoName(p) PROVE NoName(p)'
  BY <1>4 DEF NoName
<1> USE DEF TreePlaces, MarkPlaces, Cloning, Marked
<1>5. CASE Begin(p) \/ TreeStep(p) \/ Replay(p)
  <2>1. UNCHANGED <<bookmarks, refs, killed>> /\ pc[p] \notin Marked
    BY <1>5 DEF Begin, TreeStep, Add, Integrate, ReadHead, RemoveTree, Replay
  <2>2. IF setting.vcs = "jj" THEN pc'[p] \in {"replay", "list", "return"}
                              ELSE pc'[p] \in TreePlaces \cup {"clone base", "return"}
    <3>1. Exporting = IF setting.vcs = "jj" THEN "list" ELSE "clone base"
      BY DEF Exporting
    <3>2. pc[p] \in TreePlaces => setting.vcs # "jj"
      BY DEF Tidy, Apart
    <3>3. CASE Begin(p)
      <4>1. \/ pc' = [pc EXCEPT ![p] = IF setting.vcs = "jj" THEN "replay" ELSE "add"]
            \/ pc' = [pc EXCEPT ![p] = Exporting]
        BY <3>3 DEF Begin
      <4>2. CASE pc' = [pc EXCEPT ![p] = IF setting.vcs = "jj" THEN "replay" ELSE "add"]
        BY <1>0, <4>2 DEF CheckTypes
      <4>3. CASE pc' = [pc EXCEPT ![p] = Exporting]
        BY <1>0, <3>1, <4>3 DEF CheckTypes
      <4> QED
        BY <4>1, <4>2, <4>3
    <3>4. CASE TreeStep(p)
      BY <1>0, <3>1, <3>2, <3>4
      DEF TreeStep, Add, Integrate, ReadHead, RemoveTree, CheckTypes
    <3>5. CASE Replay(p)
      <4>1. pc'[p] = Exporting \/ pc'[p] = "return"
        BY <1>0, <3>5 DEF Replay, CheckTypes
      <4>2. setting.vcs # "jj" => pc'[p] \in {"clone base", "return"}
        BY <3>1, <4>1
      <4> QED
        BY <3>1, <4>1, <4>2
    <3> QED
      BY <1>5, <3>3, <3>4, <3>5
  <2>3. setting.vcs = "jj" => outcome'[p] # "blocked"
    <3>1. setting.vcs = "jj" => pc[p] \notin TreePlaces /\ outcome[p] # "blocked"
      BY DEF Tidy, Apart
    <3> QED
      BY <1>0, <1>5, <3>1
      DEF Begin, TreeStep, Add, Integrate, ReadHead, RemoveTree, Replay, CheckTypes
  <2>4. Apart(p)' /\ NoName(p)' /\ p \notin killed'
    BY <1>0, <1>1, <1>2, <1>4, <2>1, <2>2 DEF Apart
  <2> QED
    BY <1>0, <2>2, <2>3, <2>4, Blank
<1>6. CASE List(p)
  <2>1. /\ pc'[p] = "purge" /\ UNCHANGED <<bookmarks, refs, killed, outcome>>
        /\ doomed'[p] = { n \in DOMAIN bookmarks : ~Taken(n.pid) }
    BY <1>0, <1>6 DEF List, CheckTypes, PurgingTypes
  <2>2. \A n \in DOMAIN bookmarks : n.time \notin killed => Taken(n.pid)
    <3> SUFFICES ASSUME NEW n \in DOMAIN bookmarks, n.time \notin killed PROVE Taken(n.pid)
      OBVIOUS
    <3>1. n.time \in Process
      BY <1>0 DEF MarkTypes, Bookmark
    <3>2. n.pid = pidOf[n.time] /\ pc[n.time] \in Marked
      BY <3>1 DEF AllTidy, Tidy, Known
    <3> QED
      BY <3>1, <3>2 DEF Taken, Live
  <2>3. NoName(p)' /\ Apart(p)'
    BY <1>0, <1>2, <1>4, <1>6, <2>1 DEF List, Tidy, Apart
  <2> QED
    BY <1>0, <1>1, <2>1, <2>2, <2>3 DEF Tidy, NoName, Known, Followed, Purging, Holding
<1>7. CASE Delete(p)
  <2>1. PICK m \in doomed[p] : Deletes(p, m)
    BY <1>7, Deletions
  <2>2. /\ pc[p] \in {"purge", "unmark"} /\ UNCHANGED <<refs, pc, outcome, pidOf, killed>>
        /\ doomed'[p] = doomed[p] \ {m}
        /\ deleted'[p] = (deleted[p] \/ m \in DOMAIN bookmarks)
        /\ DOMAIN bookmarks' = DOMAIN bookmarks \ {m}
    BY <1>0, <1>7, <2>1 DEF Delete, Deletes, PurgingTypes
  <2>3. Known(p)'
    BY <1>0, <2>2 DEF Tidy, Known
  <2>4. Followed(p)'
    <3> SUFFICES ASSUME NEW n \in DOMAIN refs, n.time = p
                 PROVE  n \in DOMAIN bookmarks' \/ (deleted'[p] /\ pc'[p] = "unmark")
      BY <2>2 DEF Followed
    <3>1. n \in DOMAIN bookmarks \/ (deleted[p] /\ pc[p] = "unmark")
      BY <1>1 DEF Tidy, Followed
    <3>2. pc[p] = "unmark"
      BY <1>2, <2>2 DEF NoName
    <3> QED
      BY <2>2, <3>1, <3>2
  <2>5. Own(p)' = Own(p)
    BY <2>2 DEF Own
  <2>6. Purging(p)'
    BY <2>2, <2>5 DEF Tidy, Purging
  <2>7. Holding(p)'
    BY <2>2 DEF Holding
  <2> QED
    BY <1>0, <1>1, <2>2, <2>3, <2>4, <2>6, <2>7 DEF Tidy, Apart
<1>8. CASE Cleaned(p)
  <2>1. /\ doomed[p] = {} /\ pc[p] \in {"purge", "unmark"}
        /\ bookmarks' = bookmarks /\ refs' = (IF deleted[p] THEN bookmarks ELSE refs)
        /\ UNCHANGED <<killed, outcome>>
        /\ pc'[p] \in {"mark base", "hook", "return"}
    BY <1>0, <1>8, Cleanups DEF Cleaned, CheckTypes
  <2>2. \A n \in DOMAIN bookmarks : n.time # p
    BY <1>2, <2>1 DEF NoName, Tidy, Purging
  <2>3. ~deleted[p] => \A n \in DOMAIN refs : n.time # p
    BY <1>1, <2>2 DEF Tidy, Followed
  <2>4. NoName(p)'
    BY <2>1, <2>2, <2>3 DEF NoName
  <2>5. setting.vcs = "jj"
    BY <2>1 DEF Tidy, Apart
  <2>6. Apart(p)'
    BY <1>0, <2>1, <2>5 DEF Apart
  <2> QED
    BY <1>0, <1>1, <2>1, <2>4, <2>6, Blank DEF Tidy
<1>9. ASSUME pc[p] \in {"mark base", "mark candidate", "export"} \cup Cloning, Done(p),
             UNCHANGED <<bookmarks, refs, killed, pidOf, deleted>>,
             setting.vcs = "jj" => outcome'[p] # "blocked"
      PROVE  Tidy(p)'
  <2>1. CASE setting.vcs = "jj"
    <3>1. pc'[p] = "unmark" /\ doomed'[p] = Own(p)
      BY <1>0, <1>9, <2>1, DoneSteps DEF CheckTypes, PurgingTypes
    <3>2. Known(p)'
      BY <1>0, <1>9, <2>1, <3>1 DEF Tidy, Known
    <3>3. Followed(p)'
      BY <1>1, <1>9 DEF Tidy, Followed
    <3>4. \A n \in DOMAIN bookmarks : n.time = p => n \in Own(p)
      BY <1>0, <1>1, <1>9, NameOfOwn DEF Tidy, Known, MarkTypes, Equipped, Live
    <3>5. Own(p)' = Own(p)
      BY <1>9 DEF Own
    <3>6. Purging(p)'
      BY <1>9, <3>1, <3>4, <3>5 DEF Purging
    <3> QED
      BY <1>0, <1>1, <1>9, <2>1, <3>1, <3>2, <3>3, <3>6 DEF Tidy, Apart, Holding
  <2>2. CASE setting.vcs # "jj"
    <3>1. pc'[p] \in {"hook", "return"} /\ NoName(p)'
      BY <1>0, <1>3, <1>4, <1>9, <2>2, DoneSteps DEF CheckTypes
    <3> QED
      BY <1>0, <1>1, <1>9, <2>2, <3>1, Blank DEF Apart
  <2> QED
    BY <2>1, <2>2
<1>10. ASSUME NEW side \in Side, Mark(p, side) PROVE Tidy(p)'
  <2>1. /\ pc[p] = (IF side = "base" THEN "mark base" ELSE "mark candidate")
        /\ UNCHANGED <<refs, base, candidate, prepared, deleted, pidOf, killed>>
    BY <1>10 DEF Mark
  <2>2. setting.vcs = "jj" /\ pidOf[p] \in Pid
    BY <1>0, <2>1 DEF Tidy, Apart, Equipped, Live
  <2>3. NameOf(p, side) \notin DOMAIN bookmarks
    <3>1. CASE side = "base"
      <4>1. NoName(p)
        BY <1>2, <2>1, <3>1
      <4> QED
        BY <4>1 DEF NoName, NameOf
    <3>2. CASE side # "base"
      BY <2>1, <3>2 DEF Side, Tidy, Holding
    <3> QED
      BY <3>1, <3>2
  <2>4. CASE bookmarks' = bookmarks /\ Abandon(p, "failed")
    <3>1. outcome'[p] = "failed"
      BY <1>0, <2>4 DEF Abandon, CheckTypes
    <3> QED
      BY <1>9, <2>1, <2>4, <3>1 DEF Abandon
  <2>5. CASE /\ MarksNames(p, side)
             /\ Go(p, IF side = "base" THEN "mark candidate" ELSE "export")
             /\ outcome' = outcome
    <3>1. pc'[p] = IF side = "base" THEN "mark candidate" ELSE "export"
      BY <1>0, <2>5 DEF CheckTypes
    <3>2. /\ \A s \in Side : NameOf(p, s)' = NameOf(p, s) /\ Wanted(p, s)' = Wanted(p, s)
          /\ NameOf(p, side).time = p /\ NameOf(p, side).pid = pidOf[p]
          /\ NameOf(p, "base") # NameOf(p, "candidate")
      BY <2>1 DEF NameOf, Wanted
    <3>3. HasMark(p, side)'
      BY <2>5, <3>2 DEF MarksNames, HasMark
    <3>4. Known(p)'
      BY <1>0, <2>1, <2>2, <2>5, <3>1, <3>2 DEF Tidy, Known, MarksNames
    <3>5. Followed(p)'
      BY <1>1, <2>1, <2>5 DEF Tidy, Followed, MarksNames
    <3>6. Holding(p)'
      <4>1. CASE side = "base"
        <5>1. NoName(p)
          BY <1>2, <2>1, <4>1
        <5>2. NameOf(p, "candidate").time = p
          BY DEF NameOf
        <5>3. NameOf(p, "candidate") \notin DOMAIN bookmarks
          BY <5>1, <5>2 DEF NoName
        <5>4. NameOf(p, "candidate") \notin DOMAIN bookmarks'
          BY <2>5, <3>2, <4>1, <5>3 DEF MarksNames
        <5> QED
          BY <3>1, <3>2, <3>3, <4>1, <5>4 DEF Holding, Side
      <4>2. CASE side # "base"
        <5>1. side = "candidate" /\ HasMark(p, "base")
          BY <2>1, <4>2 DEF Side, Tidy, Holding
        <5>2. HasMark(p, "base")'
          BY <2>5, <3>2, <5>1 DEF MarksNames, HasMark, Side
        <5> QED
          BY <3>1, <3>3, <5>1, <5>2 DEF Holding
      <4> QED
        BY <4>1, <4>2
    <3>7. Purging(p)'
      BY <3>1 DEF Purging
    <3>8. Apart(p)'
      <4>1. pc'[p] \in {"mark candidate", "export"}
        BY <3>1
      <4> QED
        BY <1>0, <2>2, <4>1 DEF Apart
    <3>9. p \notin killed' /\ outcome'[p] # "blocked"
      BY <1>1, <2>1, <2>2, <2>5 DEF Tidy
    <3> QED
      BY <3>4, <3>5, <3>6, <3>7, <3>8, <3>9 DEF Tidy
  <2> QED
    BY <1>10, <2>3, <2>4, <2>5, Marks
<1>11. CASE Export(p)
  <2>1. /\ pc[p] = "export" /\ UNCHANGED <<bookmarks, killed, pidOf, deleted, base, candidate, prepared>>
        /\ setting.vcs = "jj"
    BY <1>11 DEF Export, Tidy, Apart
  <2>2. CASE refs' = refs /\ Abandon(p, "failed")
    <3>1. outcome'[p] = "failed"
      BY <1>0, <2>2 DEF Abandon, CheckTypes
    <3> QED
      BY <1>9, <2>1, <2>2, <3>1 DEF Abandon
  <2>3. CASE refs' = bookmarks /\ Go(p, "clone base") /\ outcome' = outcome
    <3>1. pc'[p] = "clone base"
      BY <1>0, <2>3 DEF CheckTypes
    <3>2. HasMark(p, "base") /\ HasMark(p, "candidate")
      BY <2>1 DEF Tidy, Holding
    <3>3. /\ HasMark(p, "base")' /\ HasMark(p, "candidate")'
          /\ HasRef(p, "base")' /\ HasRef(p, "candidate")'
      BY <2>1, <2>3, <3>2 DEF HasMark, HasRef, NameOf, Wanted
    <3>4. Known(p)' /\ Followed(p)'
      BY <1>0, <2>1, <2>3, <3>1 DEF Tidy, Known, Followed
    <3> QED
      BY <1>0, <1>1, <2>1, <2>3, <3>1, <3>3, <3>4 DEF Tidy, Apart, Purging, Holding
  <2> QED
    BY <1>11, <2>2, <2>3 DEF Export
<1>12. ASSUME NEW side \in Side, Clone(p, side) PROVE Tidy(p)'
  <2>1. /\ pc[p] = (IF side = "base" THEN "clone base" ELSE "clone candidate")
        /\ UNCHANGED <<bookmarks, refs, killed, pidOf, deleted, base, candidate, prepared>>
    BY <1>12 DEF Clone
  <2>2. setting.vcs = "jj" => Fetchable(Wanted(p, side))
    <3> SUFFICES ASSUME setting.vcs = "jj" PROVE Fetchable(Wanted(p, side))
      OBVIOUS
    <3>1. HasRef(p, side)
      BY <2>1 DEF Tidy, Holding, Side
    <3>2. Wanted(p, side) \in Range(refs)
      BY <3>1 DEF HasRef, Range
    <3>3. Wanted(p, side) \in Commit
      BY <1>0, <3>1 DEF HasRef, MarkTypes
    <3> QED
      BY <3>2, <3>3, DescendsFromItself DEF Fetchable
  <2>3. CASE Abandon(p, "failed") \/ (~Fetchable(Wanted(p, side)) /\ Abandon(p, "blocked"))
    <3>1. setting.vcs = "jj" => outcome'[p] # "blocked"
      BY <1>0, <2>2, <2>3 DEF Abandon, CheckTypes
    <3> QED
      BY <1>9, <2>1, <2>3, <3>1 DEF Abandon
  <2>4. CASE outcome' = outcome /\ Done(p)
    <3>1. setting.vcs = "jj" => outcome'[p] # "blocked"
      BY <2>4 DEF Tidy
    <3> QED
      BY <1>9, <2>1, <2>4, <3>1
  <2>5. CASE side = "base" /\ outcome' = outcome /\ Go(p, "clone candidate")
    <3>1. pc'[p] = "clone candidate" /\ pc[p] = "clone base"
      BY <1>0, <2>1, <2>5 DEF CheckTypes
    <3>2. /\ HasMark(p, "base")' <=> HasMark(p, "base")
          /\ HasMark(p, "candidate")' <=> HasMark(p, "candidate")
          /\ HasRef(p, "base")' <=> HasRef(p, "base")
          /\ HasRef(p, "candidate")' <=> HasRef(p, "candidate")
      BY <2>1 DEF HasMark, HasRef, NameOf, Wanted
    <3>3. Holding(p)'
      BY <1>0, <3>1, <3>2 DEF Tidy, Holding
    <3>4. Known(p)' /\ Followed(p)'
      BY <1>0, <2>1, <3>1 DEF Tidy, Known, Followed
    <3> QED
      BY <1>0, <1>1, <2>1, <2>5, <3>1, <3>3, <3>4 DEF Tidy, Apart, Purging
  <2> QED
    BY <1>12, <2>3, <2>4, <2>5 DEF Clone
<1>13. CASE CheckStep(p)
  <2>1. /\ UNCHANGED <<bookmarks, refs, killed>> /\ pc[p] \notin Marked
        /\ pc'[p] \in {"attest", "config", "jobs", "reattest", "return"}
    BY <1>0, <1>13 DEF CheckStep, Hook, Attest, ReadConfig, FinishJobs, Reattest, CheckTypes
  <2>2. outcome[p] # "blocked" => outcome'[p] # "blocked"
    BY <1>0, <1>13 DEF CheckStep, Hook, Attest, ReadConfig, FinishJobs, Reattest, CheckTypes
  <2>3. NoName(p)' /\ Apart(p)' /\ p \notin killed'
    BY <1>1, <1>2, <1>4, <2>1 DEF Apart
  <2> QED
    BY <1>0, <2>1, <2>2, <2>3, Blank DEF Tidy
<1>14. CASE Return(p)
  <2>1. /\ UNCHANGED <<bookmarks, refs, killed>> /\ pc[p] \notin Marked
        /\ pc'[p] = "ended" /\ outcome'[p] = "open"
    BY <1>0, <1>14 DEF Return, Forget, CheckTypes
  <2>2. NoName(p)' /\ Apart(p)' /\ p \notin killed'
    BY <1>1, <1>2, <1>4, <2>1 DEF Apart
  <2> QED
    BY <1>0, <2>1, <2>2, Blank
<1>15. CASE Die(p)
  <2>1. p \in killed' /\ pc'[p] = "ended" /\ outcome'[p] = "open"
    BY <1>0, <1>15 DEF Die, Forget, CheckTypes
  <2> QED
    BY <2>1 DEF Tidy, Apart, Known, Followed, Purging, Holding
<1> QED
  BY <1>5, <1>6, <1>7, <1>8, <1>10, <1>11, <1>12, <1>13, <1>14, <1>15, Steps
  DEF MarkStep, CloneStep, EndStep

LEMMA NextTidy == Types /\ AllTidy /\ [Next]_vars => AllTidy'
<1>1. ASSUME AllTidy, UNCHANGED vars PROVE AllTidy'
  <2>1. UNCHANGED <<bookmarks, refs, pc, setting, killed, pidOf, base, prepared, doomed,
                    deleted, outcome>>
    BY <1>1 DEF vars, repository, identity, revision, purging
  <2>2. ASSUME NEW p \in Process, Tidy(p) PROVE Tidy(p)'
    <3>1. Apart(p)' /\ Known(p)' /\ Followed(p)' /\ Purging(p)'
      BY <2>1, <2>2 DEF Tidy, Apart, Known, Followed, Purging, Own
    <3>2. Holding(p)'
      BY <2>1, <2>2 DEF Tidy, Holding, HasMark, HasRef, NameOf, Wanted
    <3>3. /\ p \in killed' => pc'[p] = "ended"
          /\ setting'.vcs = "jj" => outcome'[p] # "blocked"
      BY <2>1, <2>2 DEF Tidy
    <3> QED
      BY <3>1, <3>2, <3>3 DEF Tidy
  <2> QED
    BY <1>1, <2>2 DEF AllTidy
<1>2. ASSUME Types, AllTidy, NEW p \in Process, Step(p) PROVE AllTidy'
  BY <1>2, TidyOthers, TidySelf DEF AllTidy
<1> QED
  BY <1>1, <1>2 DEF Next

LEMMA TidyHolds == Spec => []AllTidy
<1>1. Init => AllTidy
  BY DEF Init, AllTidy, Tidy, Apart, Known, Followed, Purging, Holding, NoBookmark, TreePlaces,
         MarkPlaces, Cloning
<1> QED
  BY <1>1, NextTidy, TypesHold, PTL DEF Spec

(***************************************************************************)
(* In jj no check, of any number at a time and whatever killed ones left,  *)
(* meets a bookmark of its own name or misses a reference its clones need  *)
(* (copy_revisions_to_workdirs).                                           *)
(***************************************************************************)
THEOREM NotBlockedHolds == Spec => []NotBlocked
<1>1. AllTidy => NotBlocked
  BY DEF AllTidy, Tidy, NotBlocked
<1> QED
  BY <1>1, TidyHolds, PTL

LEMMA AttendedKept ==
    ASSUME Types, OwnTree, Attended, NEW p \in Process, Step(p)
    PROVE  Attended'
<1>0. /\ TreeTypes /\ CheckTypes /\ TreeTypes' /\ Others(p) /\ Equipped(p)
      /\ killed \subseteq killed'
  BY StepOthers, TreeTypesKept, KilledKept DEF Types, Loose
<1>1. ASSUME NEW c \in Candidate, worktree'[c] = worktree[c], worktree[c] # None, worktree[c].by # p
      PROVE  \/ worktree'[c].by \in killed'
             \/ /\ pc'[worktree'[c].by] \in {"integrate", "head", "remove"}
                /\ candidate'[worktree'[c].by] = c
  BY <1>0, <1>1 DEF Attended, Others, TreeTypes
<1>2. ASSUME NEW c \in Candidate, worktree'[c] # None, worktree'[c].by = p
      PROVE  \/ p \in killed'
             \/ pc'[p] \in {"integrate", "head", "remove"} /\ candidate'[p] = c
  <2>1. CASE Add(p)
    <3>1. candidate' = candidate /\ (pc'[p] = "integrate" \/ worktree' = worktree)
      BY <1>0, <2>1 DEF Add, CheckTypes
    <3>2. CASE worktree' = worktree
      BY <1>0, <1>2, <2>1, <3>2 DEF Add, Attended
    <3>3. CASE worktree' # worktree
      <4>1. PICK h : worktree' = [worktree EXCEPT ![candidate[p]] = [by |-> p, head |-> h]]
        <5>1. worktree' = [worktree EXCEPT ![candidate[p]] =
                 [by |-> p, head |-> IF MergeMode = "rebase" THEN candidate[p] ELSE base[p]]]
          BY <2>1, <3>3 DEF Add
        <5> QED
          BY <5>1
      <4>2. c # candidate[p] => worktree'[c] = worktree[c]
        BY <1>0, <4>1 DEF TreeTypes
      <4>3. c = candidate[p] \/ p \in killed
        BY <1>2, <2>1, <4>2 DEF Add, Attended
      <4> QED
        BY <1>0, <3>1, <3>3, <4>3
    <3> QED
      BY <3>2, <3>3
  <2>2. CASE Integrate(p) \/ ReadHead(p)
    <3>1. /\ candidate' = candidate /\ pc'[p] \in {"head", "remove"}
          /\ pc[p] \in {"integrate", "head"}
      BY <1>0, <2>2 DEF Integrate, ReadHead, CheckTypes
    <3>2. worktree[c] # None /\ worktree[c].by = p
      <4>1. worktree' = worktree \/ (worktree[candidate[p]] # None /\ worktree[candidate[p]].by = p
              /\ \E m : worktree' = [worktree EXCEPT ![candidate[p]].head = m])
        BY <2>2 DEF Integrate, ReadHead, OwnTree
      <4>2. c # candidate[p] => worktree'[c] = worktree[c]
        BY <1>0, <4>1 DEF TreeTypes
      <4> QED
        BY <1>2, <4>1, <4>2
    <3>3. candidate[p] = c \/ p \in killed
      BY <3>2 DEF Attended
    <3> QED
      BY <1>0, <3>1, <3>3
  <2>3. CASE RemoveTree(p)
    <3>1. c # candidate[p] /\ worktree'[c] = worktree[c]
      BY <1>0, <1>2, <2>3 DEF RemoveTree, TreeTypes
    <3>2. candidate[p] = c \/ p \in killed
      BY <1>2, <3>1 DEF Attended
    <3> QED
      BY <1>0, <3>1, <3>2
  <2>4. CASE Die(p)
    BY <2>4 DEF Die
  <2>5. CASE ~TreeStep(p) /\ ~Die(p)
    <3>1. worktree' = worktree /\ pc[p] \notin {"integrate", "head", "remove"}
      BY <2>5
      DEF TreeStep, Step, Begin, Replay, List, Delete, Cleaned, Export, Mark, Clone, Hook, Attest,
          ReadConfig, FinishJobs, Reattest, Return, Die, Forget
    <3> QED
      BY <1>0, <1>2, <3>1 DEF Attended
  <2> QED
    BY <2>1, <2>2, <2>3, <2>4, <2>5 DEF TreeStep
<1>3. ASSUME NEW c \in Candidate, worktree'[c] # None, worktree'[c].by # p
      PROVE  worktree'[c] = worktree[c]
  <2>1. CASE Add(p)
    <3>1. worktree' = worktree \/
          worktree' = [worktree EXCEPT ![candidate[p]] =
                 [by |-> p, head |-> IF MergeMode = "rebase" THEN candidate[p] ELSE base[p]]]
      BY <2>1 DEF Add
    <3> QED
      BY <1>0, <1>3, <3>1 DEF TreeTypes
  <2>2. CASE Integrate(p)
    <3>1. candidate[p] \in Candidate /\ worktree[candidate[p]].by = p /\ worktree[candidate[p]] # None
      BY <1>0, <2>2 DEF Integrate, OwnTree, Equipped, Live
    <3>2. \/ worktree' = worktree
          \/ \E m : worktree' = [worktree EXCEPT ![candidate[p]].head = m]
      BY <2>2 DEF Integrate
    <3>3. c # candidate[p] => worktree'[c] = worktree[c]
      BY <1>0, <3>2 DEF TreeTypes
    <3>4. worktree[candidate[p]] \in [by : Process, head : Commit]
      BY <1>0, <3>1 DEF TreeTypes
    <3>5. worktree'[candidate[p]].by = p
      <4>1. CASE worktree' = worktree
        BY <3>1, <4>1
      <4>2. ASSUME NEW m, worktree' = [worktree EXCEPT ![candidate[p]].head = m]
            PROVE  worktree'[candidate[p]].by = p
        <5>1. worktree'[candidate[p]] = [worktree[candidate[p]] EXCEPT !.head = m]
          BY <1>0, <3>1, <4>2 DEF TreeTypes
        <5> QED
          BY <3>1, <3>4, <5>1
      <4> QED
        BY <3>2, <4>1, <4>2
    <3> QED
      BY <1>3, <3>3, <3>5
  <2>3. CASE RemoveTree(p)
    BY <1>0, <1>3, <2>3 DEF RemoveTree, TreeTypes
  <2>4. CASE worktree' = worktree
    BY <2>4
  <2> QED
    BY <2>1, <2>2, <2>3, <2>4
    DEF Step, Begin, ReadHead, Replay, List, Delete, Cleaned, Export, Mark, Clone, Hook, Attest,
        ReadConfig, FinishJobs, Reattest, Return, Die, Forget
<1> QED
  BY <1>1, <1>2, <1>3 DEF Attended

LEMMA AttendedHolds == Spec => []Attended
<1>1. Init => Attended
  BY DEF Init, Attended
<1>2. Types /\ OwnTree /\ Attended /\ [Next]_vars => Attended'
  <2>1. ASSUME Attended, UNCHANGED vars PROVE Attended'
    BY <2>1 DEF vars, Attended
  <2> QED
    BY <2>1, AttendedKept DEF Next
<1> QED
  BY <1>1, <1>2, TypesHold, OwnTreeHolds, PTL DEF Spec

(***************************************************************************)
(* Only a killed process leaves a test worktree, a bookmark or a reference *)
(* behind: whichever command of a check fails, its guards clean up.        *)
(***************************************************************************)
THEOREM NoLeftoversHolds == Spec => []NoLeftovers
<1>1. Types /\ AllTidy /\ Attended => NoLeftovers
  <2> SUFFICES ASSUME Types, AllTidy, Attended PROVE NoLeftovers
    OBVIOUS
  <2>1. \A n \in DOMAIN bookmarks \cup DOMAIN refs : Live(n.time) \/ n.time \in killed
    <3> SUFFICES ASSUME NEW n \in DOMAIN bookmarks \cup DOMAIN refs, n.time \notin killed
                 PROVE  Live(n.time)
      OBVIOUS
    <3>1. n.time \in Process
      BY DEF Types, Loose, MarkTypes, Bookmark
    <3>2. pc[n.time] \in Marked
      BY <3>1 DEF AllTidy, Tidy, Known
    <3> QED
      BY <3>2 DEF Live, Marked, Cloning
  <2>2. \A c \in Candidate : worktree[c] # None =>
           Live(worktree[c].by) \/ worktree[c].by \in killed
    BY DEF Attended, Live
  <2> QED
    BY <2>1, <2>2 DEF NoLeftovers
<1> QED
  BY <1>1, TypesHold, TidyHolds, AttendedHolds, PTL

-----------------------------------------------------------------------------
(* What is left of killed processes.                                       *)

Reused(n) == \E q \in Process \ {n.time} : pidOf[q] = n.pid
Past(p) ==
    /\ pc[p] = "idle" => pidOf[p] = None
    /\ before[p] \subseteq killed

\* What a process finds stale it deletes before it makes bookmarks itself.
Clearing == {"purge", "mark base", "mark candidate", "export"} \cup Cloning
Cleared(p) ==
    setting.vcs = "jj" =>
       /\ pc[p] \in Clearing => \A n \in DOMAIN bookmarks : n.time \in before[p] =>
             (pc[p] = "purge" /\ n \in doomed[p]) \/ Reused(n)
       /\ pc[p] \in Cloning => \A n \in DOMAIN refs : n.time \in before[p] => Reused(n)
AllCleared == \A p \in Process : Past(p) /\ Cleared(p)

LEMMA PastKept ==
    ASSUME Types, AllCleared, NEW p \in Process, Step(p), NEW q \in Process
    PROVE  Past(q)'
<1>0. CheckTypes /\ IdentityTypes /\ Others(p) /\ killed \subseteq killed' /\ Past(q)
  BY StepOthers, KilledKept DEF Types, Loose, AllCleared
<1>1. CASE q # p
  BY <1>0, <1>1 DEF Past, Others
<1>2. CASE q = p /\ Begin(p)
  <2>1. pc'[p] # "idle"
    <3>1. \/ pc' = [pc EXCEPT ![p] = IF setting.vcs = "jj" THEN "replay" ELSE "add"]
          \/ pc' = [pc EXCEPT ![p] = Exporting]
      BY <1>2 DEF Begin
    <3>2. CASE pc' = [pc EXCEPT ![p] = IF setting.vcs = "jj" THEN "replay" ELSE "add"]
      BY <1>0, <3>2 DEF CheckTypes
    <3>3. CASE pc' = [pc EXCEPT ![p] = Exporting]
      BY <1>0, <3>3 DEF CheckTypes, Exporting
    <3> QED
      BY <3>1, <3>2, <3>3
  <2>2. before'[p] = killed
    BY <1>0, <1>2 DEF Begin, IdentityTypes
  <2> QED
    BY <1>0, <1>2, <2>1, <2>2 DEF Past
<1>3. CASE q = p /\ ~Begin(p)
  <2>1. before' = before
    BY <1>3
    DEF Step, Add, Integrate, ReadHead, RemoveTree, Replay, List, Delete, Cleaned, Export, Mark,
        Clone, Hook, Attest, ReadConfig, FinishJobs, Reattest, Return, Die, Forget
  <2>2. pc'[p] # "idle"
    <3>1. CASE Delete(p)
      BY <3>1 DEF Delete
    <3>2. CASE TreeStep(p) \/ Replay(p)
      BY <1>0, <3>2
      DEF TreeStep, Add, Integrate, ReadHead, RemoveTree, Replay, Exporting, CheckTypes
    <3>3. CASE List(p) \/ Cleaned(p)
      BY <1>0, <3>3, Cleanups DEF List, Cleaned, CheckTypes
    <3>4. CASE Export(p) \/ (\E side \in Side : Mark(p, side)) \/ CloneStep(p)
      BY <1>0, <3>4, DoneSteps DEF Export, Mark, CloneStep, Clone, Abandon, CheckTypes
    <3>5. CASE CheckStep(p) \/ EndStep(p)
      BY <1>0, <3>5
      DEF CheckStep, Hook, Attest, ReadConfig, FinishJobs, Reattest, EndStep, Return, Die, Forget,
          CheckTypes
    <3> QED
      BY <1>3, <3>1, <3>2, <3>3, <3>4, <3>5, Steps DEF MarkStep
  <2> QED
    BY <1>0, <1>3, <2>1, <2>2 DEF Past
<1> QED
  BY <1>1, <1>2, <1>3

\* A PID once given again stays given.
LEMMA ReusedKept ==
    ASSUME Types, AllCleared, NEW p \in Process, Step(p), NEW n \in Bookmark, Reused(n)
    PROVE  Reused(n)'
<1>0. IdentityTypes
  BY DEF Types, Loose
<1>1. PICK q \in Process \ {n.time} : pidOf[q] = n.pid
  BY DEF Reused
<1>2. n.pid \in Pid /\ pidOf[q] # None
  BY <1>1, NoneAssumption DEF Bookmark
<1>3. pidOf'[q] = pidOf[q]
  <2>1. CASE Begin(p)
    <3>1. pidOf[p] = None
      BY <2>1 DEF Begin, AllCleared, Past
    <3> QED
      BY <1>0, <1>2, <2>1, <3>1 DEF Begin, IdentityTypes
  <2>2. CASE ~Begin(p)
    BY <2>2
    DEF Step, Add, Integrate, ReadHead, RemoveTree, Replay, List, Delete, Cleaned, Export, Mark,
        Clone, Hook, Attest, ReadConfig, FinishJobs, Reattest, Return, Die, Forget
  <2> QED
    BY <2>1, <2>2
<1> QED
  BY <1>1, <1>3 DEF Reused

\* No step makes a bookmark of a killed process again.
LEMMA NoneRevived ==
    ASSUME Types, AllTidy, NEW p \in Process, Step(p), NEW n \in DOMAIN bookmarks', n.time \in killed
    PROVE  n \in DOMAIN bookmarks
<1>1. ASSUME NEW side \in Side, Mark(p, side), MarksNames(p, side)
      PROVE  n \in DOMAIN bookmarks
  <2>1. p \notin killed
    BY <1>1 DEF Mark, AllTidy, Tidy
  <2>2. n # NameOf(p, side)
    BY <2>1 DEF NameOf
  <2> QED
    BY <1>1, <2>2 DEF MarksNames
<1> QED
  BY <1>1, RepositorySteps DEF Deletes

LEMMA ClearedKept ==
    ASSUME Types, AllTidy, AllCleared, NEW p \in Process, Step(p), NEW q \in Process
    PROVE  Cleared(q)'
<1>0. /\ CheckTypes /\ IdentityTypes /\ PurgingTypes /\ MarkTypes /\ MarkTypes'
      /\ Others(p) /\ setting' = setting
      /\ before[q] \subseteq killed /\ Cleared(q) /\ Tidy(q) /\ Tidy(p)
  BY StepOthers, MarkTypesKept DEF Types, Loose, AllCleared, AllTidy, Past, Others
<1> SUFFICES ASSUME setting.vcs = "jj" PROVE Cleared(q)'
  BY <1>0 DEF Cleared
<1> USE DEF Clearing, Cloning
<1>1. CASE q # p
  <2>1. pc'[q] = pc[q] /\ before'[q] = before[q] /\ doomed'[q] = doomed[q]
    BY <1>0, <1>1 DEF Others
  <2>2. \A n \in DOMAIN bookmarks' : n.time \in before[q] /\ pc[q] \in Clearing =>
           (pc[q] = "purge" /\ n \in doomed[q]) \/ Reused(n)'
    BY <1>0, NoneRevived, ReusedKept DEF Cleared, MarkTypes
  <2>3. \A n \in DOMAIN refs' : n.time \in before[q] /\ pc[q] \in Cloning => Reused(n)'
    <3>1. refs' = refs \/ refs' = bookmarks
      BY RepositorySteps DEF Deletes
    <3> QED
      BY <1>0, <3>1, ReusedKept DEF Cleared, MarkTypes
  <2> QED
    BY <2>1, <2>2, <2>3 DEF Cleared
<1>2. CASE q = p /\ List(p)
  <2>1. /\ pc'[p] = "purge" /\ UNCHANGED <<bookmarks, before, pidOf>>
        /\ doomed'[p] = { n \in DOMAIN bookmarks : ~Taken(n.pid) }
    BY <1>0, <1>2 DEF List, CheckTypes, PurgingTypes
  <2>2. ASSUME NEW n \in DOMAIN bookmarks, n.time \in before[p], Taken(n.pid)
        PROVE  Reused(n)'
    <3>1. PICK r \in Process : Live(r) /\ pidOf[r] = n.pid
      BY <2>2 DEF Taken
    <3>2. n.time \in Process /\ n.time \in killed
      BY <1>0, <1>2, <2>2 DEF IdentityTypes
    <3>3. pc[n.time] = "ended"
      BY <3>2 DEF AllTidy, Tidy
    <3>4. r # n.time
      BY <3>1, <3>3 DEF Live
    <3> QED
      BY <2>1, <3>1, <3>4 DEF Reused
  <2> QED
    BY <1>2, <2>1, <2>2 DEF Cleared
<1>3. CASE q = p /\ Delete(p)
  <2>1. PICK m \in doomed[p] : Deletes(p, m)
    BY <1>3, Deletions
  <2>2. /\ UNCHANGED <<pc, before, pidOf>> /\ doomed'[p] = doomed[p] \ {m}
        /\ DOMAIN bookmarks' = DOMAIN bookmarks \ {m} /\ pc[p] \notin Cloning
    BY <1>0, <1>3, <2>1 DEF Delete, Deletes, PurgingTypes
  <2>3. \A n : Reused(n)' <=> Reused(n)
    BY <2>2 DEF Reused
  <2> QED
    BY <1>0, <1>3, <2>2, <2>3 DEF Cleared
<1>4. CASE q = p /\ Cleaned(p)
  <2>1. /\ doomed[p] = {} /\ pc[p] \in {"purge", "unmark"}
        /\ UNCHANGED <<bookmarks, before, pidOf>>
        /\ pc'[p] = "mark base" => pc[p] = "purge"
        /\ pc'[p] \in {"mark base", "hook", "return"}
    BY <1>0, <1>4, Cleanups DEF Cleaned, CheckTypes
  <2>2. \A n : Reused(n)' <=> Reused(n)
    BY <2>1 DEF Reused
  <2> QED
    BY <1>0, <1>4, <2>1, <2>2 DEF Cleared
<1>5. CASE q = p /\ (\E side \in Side : Mark(p, side))
  <2>1. PICK side \in Side : Mark(p, side)
    BY <1>5
  <2>2. /\ UNCHANGED <<before, pidOf>> /\ pc[p] \in {"mark base", "mark candidate"}
        /\ pc'[p] \in {"mark candidate", "export", "unmark"}
    BY <1>0, <2>1, DoneSteps DEF Mark, Abandon, CheckTypes
  <2>3. \A n : Reused(n)' <=> Reused(n)
    BY <2>2 DEF Reused
  <2>4. \A n \in DOMAIN bookmarks' : n.time \in before[p] => n \in DOMAIN bookmarks
    BY <1>0, <1>5, NoneRevived
  <2> QED
    BY <1>0, <1>5, <2>2, <2>3, <2>4 DEF Cleared
<1>6. CASE q = p /\ (Export(p) \/ CloneStep(p))
  <2>1. /\ UNCHANGED <<bookmarks, before, pidOf>> /\ pc[p] \in {"export"} \cup Cloning
        /\ pc'[p] \in Cloning \cup {"unmark"}
        /\ refs' = bookmarks \/ (refs' = refs /\ (pc[p] \in Cloning \/ pc'[p] = "unmark"))
    BY <1>0, <1>6, DoneSteps DEF Export, CloneStep, Clone, Abandon, CheckTypes
  <2>2. \A n : Reused(n)' <=> Reused(n)
    BY <2>1 DEF Reused
  <2> QED
    BY <1>0, <1>6, <2>1, <2>2 DEF Cleared
<1>7. CASE q = p /\ (Begin(p) \/ TreeStep(p) \/ Replay(p) \/ CheckStep(p) \/ EndStep(p))
  <2>1. pc'[p] \notin Clearing
    <3>1. Exporting = "list"
      BY DEF Exporting
    <3>2. CASE Begin(p)
      <4>1. \/ pc' = [pc EXCEPT ![p] = "replay"]
            \/ pc' = [pc EXCEPT ![p] = "list"]
        BY <3>1, <3>2 DEF Begin
      <4> QED
        BY <1>0, <4>1 DEF CheckTypes
    <3>3. CASE TreeStep(p) \/ Replay(p)
      BY <1>0, <3>1, <3>3
      DEF TreeStep, Add, Integrate, ReadHead, RemoveTree, Replay, CheckTypes
    <3>4. CASE CheckStep(p) \/ EndStep(p)
      BY <1>0, <3>4
      DEF CheckStep, Hook, Attest, ReadConfig, FinishJobs, Reattest, EndStep, Return, Die, Forget,
          CheckTypes
    <3> QED
      BY <1>7, <3>2, <3>3, <3>4
  <2> QED
    BY <1>7, <2>1 DEF Cleared
<1> QED
  BY <1>1, <1>2, <1>3, <1>4, <1>5, <1>6, <1>7, Steps DEF MarkStep

LEMMA NextCleared == Types /\ AllTidy /\ AllCleared /\ [Next]_vars => AllCleared'
<1>1. ASSUME AllCleared, UNCHANGED vars PROVE AllCleared'
  BY <1>1 DEF vars, AllCleared, Past, Cleared, Reused
<1>2. ASSUME Types, AllTidy, AllCleared, NEW p \in Process, Step(p) PROVE AllCleared'
  <2>1. \A q \in Process : Past(q)'
    BY <1>2, PastKept
  <2>2. \A q \in Process : Cleared(q)'
    BY <1>2, ClearedKept
  <2> QED
    BY <2>1, <2>2 DEF AllCleared
<1> QED
  BY <1>1, <1>2 DEF Next

(***************************************************************************)
(* What processes killed before a check began left of bookmarks and        *)
(* references is gone when it clones, but for those whose PID has been     *)
(* given to another: any number are killed, and any number purge at a time *)
(* (cleanup_stale_jj_export_bookmarks).                                    *)
(***************************************************************************)
THEOREM LeftoversPurgedHolds == Spec => []LeftoversPurged
<1>1. Init => AllCleared
  BY DEF Init, AllCleared, Past, Cleared, Clearing, Cloning
<1>2. AllCleared => LeftoversPurged
  BY DEF AllCleared, Cleared, Clearing, Cloning, Reused, LeftoversPurged
<1> QED
  BY <1>1, <1>2, NextCleared, TypesHold, TidyHolds, PTL DEF Spec
=============================================================================
