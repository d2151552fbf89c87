-------------------------- MODULE MergeQueueProofs --------------------------
(***************************************************************************)
(* Machine-checked proofs about MergeQueue, for all its constants.         *)
(***************************************************************************)
EXTENDS MergeQueue, TLAPS

(***************************************************************************)
(* Whatever the version control system and the merge mode, the commit      *)
(* prepared for a test is a commit and descends from the base it was       *)
(* prepared on (the four test_merge_* functions).                          *)
(***************************************************************************)
LEMMA TestMergeDescends ==
    ASSUME NEW bb \in Commit, NEW c \in Candidate, NEW p \in TestMerge(bb, c)
    PROVE  p \in Commit /\ Descends(p, bb)
<1>1. c \in Commit /\ c # <<>>
  BY CandidateAssumption
<1>2. CASE MergeMode = "rebase"
  <2>1. PICK k \in 0..Len(c) :
           LET s == SubSeq(c, k + 1, Len(c)) IN
           p = IF VCS = "git" /\ ToSet(s) \subseteq ToSet(bb) THEN bb ELSE bb \o s
    BY <1>2 DEF TestMerge, Rebased, GitReplayed, JjReplayed, UniqueStack
  <2>2. SubSeq(c, k + 1, Len(c)) \in Commit
    BY <1>1 DEF Commit
  <2>3. CASE p = bb
    BY <2>3 DEF Commit, Descends, IsPrefix
  <2>4. CASE p = bb \o SubSeq(c, k + 1, Len(c))
    BY <2>2, <2>4 DEF Commit, Descends, IsPrefix
  <2>. QED  BY <2>1, <2>3, <2>4
<1>3. CASE MergeMode # "rebase"
  <2>1. p = bb \/ p = Append(bb, Last(c))
    BY <1>3 DEF TestMerge, Merged, GitMerged, JjMerged, Descends
  <2>2. Last(c) \in Change
    BY <1>1 DEF Commit, Last
  <2>3. CASE p = bb
    BY <2>3 DEF Commit, Descends, IsPrefix
  <2>4. CASE p = Append(bb, Last(c))
    BY <2>2, <2>4 DEF Commit, Descends, IsPrefix
  <2>. QED  BY <2>1, <2>3, <2>4
<1>. QED  BY <1>2, <1>3

-----------------------------------------------------------------------------
(***************************************************************************)
(* Type correctness.                                                       *)
(***************************************************************************)

LEMMA BlankTypes ==
    /\ NoCommit \in Commit
    /\ Absent \in Run
    /\ Idle \in Handler
    /\ 1 \in 1..(MaxRuns + 1)
    /\ <<>> \in Seq(RunId \cup {Shutdown})
<1>1. NoCommit \in Commit
  BY DEF NoCommit, Commit
<1>2. Absent \in Run
  BY DEF Absent, Run
<1>3. Idle \in Handler
  BY DEF Idle, Handler
<1>4. 1 \in 1..(MaxRuns + 1)
  BY BoundAssumption
<1>. QED  BY <1>1, <1>2, <1>3, <1>4

(***************************************************************************)
(* The strengthening that type correctness already needs: what the         *)
(* processor works on is a run of the table, with a submitted candidate;   *)
(* it is the only one running, and IDs not yet given out are unused.       *)
(***************************************************************************)
Working == PC \ {"down", "boot", "noVCS", "dead", "recv", "start", "notify"}

InHand ==
    /\ pc \in Working \cup {"start", "notify"} => cur \in RunId
    /\ pc \in {"down", "boot", "noVCS", "dead", "recv"} => cur = NoRun
    /\ pc = "complete" => verdict \in Terminal
    /\ \A r \in RunId :
          /\ runs[r].status # "Absent" => runs[r].candidate \in Candidate
          /\ r >= nextRunId => runs[r].status = "Absent"
          /\ runs[r].status = "Running" <=> (r = cur /\ pc \in Working)

LEMMA TypeInit == Init => TypeOK
<1> SUFFICES ASSUME Init PROVE TypeOK
  OBVIOUS
<1>1. moves \in Nat /\ lives \in Nat
  BY DEF Init
<1>2. pc \in PC
  BY DEF Init, PC
<1>. QED  BY <1>1, <1>2, BlankTypes DEF Init, TypeOK

\* The three parts of the state that most actions touch one at a time.
ProcessorTypeOK ==
    /\ pc \in PC
    /\ cur \in RunId \cup {NoRun}
    /\ expected \in Commit
    /\ prepared \in Commit
    /\ verdict \in Terminal \cup {"Running"}

LEMMA TypeProcessorStep ==
    ASSUME TypeOK,
           \/ \E label \in PC : Goto(label)
           \/ \E status \in Terminal : Conclude(status)
    PROVE  ProcessorTypeOK'
BY DEF TypeOK, ProcessorTypeOK, Goto, Conclude, PC

LEMMA TypeHandlerStep ==
    ASSUME TypeOK, conn' \in [Conn -> Handler],
           UNCHANGED <<base, daemon, flag, table, queue, processor, bounds, history>>
    PROVE  TypeOK'
BY DEF TypeOK, table, processor, bounds, history

LEMMA TypeHandler ==
    ASSUME TypeOK, NEW h \in Conn, Handle(h)
    PROVE  TypeOK'
<1>0. /\ conn[h] \in Handler
      /\ conn[h].run \in RunId \cup {NoRun}
      /\ conn[h].at \in {"sending", "checking", "parked"} => conn[h].run \in RunId
  BY DEF TypeOK, Handler
<1>1. CASE Accept(h)
  <2>1. At("accepted", conn[h]) \in Handler
    BY <1>0 DEF At, Handler
  <2>2. conn' \in [Conn -> Handler]
    BY <1>1, <2>1 DEF Accept, TypeOK
  <2>. QED  BY <1>1, <2>2, TypeHandlerStep DEF Accept
<1>2. CASE RefuseCandidate(h)
  <2>1. Answered("error", conn[h]) \in Handler
    BY <1>0 DEF Answered, Handler
  <2>2. conn' \in [Conn -> Handler]
    BY <1>2, <2>1 DEF RefuseCandidate, TypeOK
  <2>. QED  BY <1>2, <2>2, TypeHandlerStep DEF RefuseCandidate
<1>3. CASE QueueRun(h)
  <2>1. nextRunId \in RunId /\ nextRunId' \in 1..(MaxRuns + 1)
    BY <1>3, BoundAssumption DEF QueueRun, TypeOK, RunId
  <2>2. runs' \in [RunId -> Run]
    BY <1>3, <2>1 DEF QueueRun, TypeOK, Run
  <2>3. nextRunId # NoRun
    BY <2>1 DEF NoRun, RunId
  <2>4. [at |-> "sending", run |-> nextRunId, reply |-> "none"] \in Handler
    BY <2>1, <2>3 DEF Handler
  <2>5. conn' \in [Conn -> Handler]
    BY <1>3, <2>4 DEF QueueRun, TypeOK
  <2>6. ahead' \in [RunId -> SUBSET RunId]
    BY <1>3, <2>1 DEF QueueRun, TypeOK
  <2>. QED
    BY <1>3, <2>1, <2>2, <2>5, <2>6 DEF QueueRun, TypeOK, processor, bounds
<1>4. CASE SendRun(h)
  <2>1. conn[h].run \in RunId
    BY <1>0, <1>4 DEF SendRun
  <2>2. Answered("added", conn[h]) \in Handler /\ Answered("error", conn[h]) \in Handler
    BY <1>0 DEF Answered, Handler
  <2>3. conn' \in [Conn -> Handler]
    BY <1>4, <2>2 DEF SendRun, TypeOK
  <2>4. queue' \in Seq(RunId \cup {Shutdown})
    BY <1>4, <2>1 DEF SendRun, TypeOK
  <2>5. acked' \subseteq RunId
    BY <1>4, <2>1 DEF SendRun, TypeOK
  <2>. QED
    BY <1>4, <2>3, <2>4, <2>5 DEF SendRun, TypeOK, table, processor, bounds
<1>5. ASSUME NEW r \in RunId, CheckRun(h, r) PROVE conn' \in [Conn -> Handler]
  <2>1. runs[r].status \in {"Absent", "Queued", "Running"} \cup Terminal
    BY DEF TypeOK, Run
  <2>2. r # NoRun
    BY DEF NoRun, RunId
  <2>3. [at |-> "parked", run |-> r, reply |-> "none"] \in Handler
    BY <2>2 DEF Handler
  <2>4. ASSUME NEW answer \in {"unknown"} \cup Terminal
        PROVE  [at |-> "done", run |-> r, reply |-> answer] \in Handler
    BY DEF Handler
  <2>. QED  BY <1>5, <2>1, <2>3, <2>4 DEF CheckRun, TypeOK
<1>6. CASE WaitForRun(h)
  <2>1. conn' \in [Conn -> Handler]
    BY <1>5, <1>6 DEF WaitForRun
  <2>. QED  BY <1>6, <2>1, TypeHandlerStep DEF WaitForRun
<1>7. CASE RecheckRun(h)
  <2>1. conn' \in [Conn -> Handler]
    BY <1>0, <1>5, <1>7 DEF RecheckRun
  <2>. QED  BY <1>7, <2>1, TypeHandlerStep DEF RecheckRun
<1>. QED  BY <1>1, <1>2, <1>3, <1>4, <1>6, <1>7 DEF Handle

LEMMA TypeProcess == TypeOK /\ InHand /\ ProcessQueue => TypeOK'
<1> SUFFICES ASSUME TypeOK, InHand, ProcessQueue PROVE TypeOK'
  OBVIOUS
<1>0. PreparationFailure \in Terminal /\ LandedReason \in Terminal
  BY DEF PreparationFailure, LandedReason, Terminal, LandedStatus
<1> DEFINE Rest == <<daemon, flag, conn, bounds, acked, ahead>>
<1>1. ASSUME ProcessorTypeOK', UNCHANGED <<base, table, queue, landed, owed>>,
             UNCHANGED Rest
      PROVE  TypeOK'
  BY <1>1 DEF TypeOK, ProcessorTypeOK, table, bounds
<1>2. ASSUME ProcessorTypeOK', base' \subseteq Commit, landed' \subseteq RunId,
             UNCHANGED <<table, queue, owed>>, UNCHANGED Rest
      PROVE  TypeOK'
  BY <1>2 DEF TypeOK, ProcessorTypeOK, table, bounds
<1>3. CASE Boot
  <2>1. ProcessorTypeOK'
    BY <1>3, TypeProcessorStep DEF Boot, PC
  <2>2. queue' \in Seq(RunId \cup {Shutdown})
    BY <1>3, BlankTypes DEF Boot, TypeOK
  <2>. QED
    BY <1>3, <2>1, <2>2 DEF Boot, TypeOK, ProcessorTypeOK, table, bounds, history
<1>4. CASE Receive
  <2>1. /\ Head(queue) \in RunId \cup {Shutdown}
        /\ Tail(queue) \in Seq(RunId \cup {Shutdown})
    BY <1>4 DEF Receive, TypeOK
  <2>2. queue' \in Seq(RunId \cup {Shutdown})
    BY <1>4, <2>1, BlankTypes DEF Receive
  <2>3. ProcessorTypeOK'
    <3>1. CASE Head(queue) = Shutdown
      BY <1>4, <3>1, TypeProcessorStep DEF Receive, PC
    <3>2. CASE Head(queue) # Shutdown
      BY <1>4, <2>1, <3>2 DEF Receive, TypeOK, ProcessorTypeOK, PC
    <3>. QED  BY <3>1, <3>2
  <2>. QED
    BY <1>4, <2>2, <2>3
    DEF Receive, TypeOK, ProcessorTypeOK, table, bounds, history
<1>5. CASE StartRun
  <2>1. runs' \in [RunId -> Run]
    <3>1. CASE runs[cur].status = "Queued" /\ cur \in RunId
      <4>1. WithStatus(runs[cur], "Running") \in Run
        BY <3>1 DEF TypeOK, Run, WithStatus
      <4>. QED  BY <1>5, <4>1 DEF StartRun, TypeOK
    <3>2. CASE ~(runs[cur].status = "Queued" /\ cur \in RunId)
      BY <1>5, <3>2 DEF StartRun, TypeOK
    <3>. QED  BY <3>1, <3>2
  <2>2. ProcessorTypeOK'
    BY <1>5 DEF StartRun, TypeOK, ProcessorTypeOK, PC
  <2>. QED
    BY <1>5, <2>1, <2>2 DEF StartRun, TypeOK, ProcessorTypeOK, bounds, history
<1>6. CASE PreClone
  <2>1. ProcessorTypeOK'
    BY <1>6, TypeProcessorStep DEF PreClone, PC, Terminal
  <2>. QED  BY <1>1, <1>6, <2>1 DEF PreClone, history
<1>7. CASE ResolveBase
  <2>1. ProcessorTypeOK'
    <3>1. CASE Conclude("FailedBaseResolve")
      BY <3>1, TypeProcessorStep DEF Terminal
    <3>2. CASE ~Conclude("FailedBaseResolve")
      BY <1>7, <3>2 DEF ResolveBase, TypeOK, ProcessorTypeOK, PC
    <3>. QED  BY <3>1, <3>2
  <2>. QED  BY <1>1, <1>7, <2>1 DEF ResolveBase, history
<1>8. CASE CreateTestMerge
  <2>1. ProcessorTypeOK'
    <3>1. CASE Conclude(PreparationFailure)
      BY <1>0, <3>1, TypeProcessorStep
    <3>2. CASE ~Conclude(PreparationFailure)
      <4>1. runs[cur].candidate \in Candidate
        BY <1>8 DEF CreateTestMerge, InHand, Working, PC
      <4>2. expected \in Commit
        BY DEF TypeOK
      <4>3. prepared' \in TestMerge(expected, runs[cur].candidate)
        BY <1>8, <3>2 DEF CreateTestMerge
      <4>4. prepared' \in Commit
        BY <4>1, <4>2, <4>3, TestMergeDescends
      <4>. QED
        BY <1>8, <3>2, <4>4 DEF CreateTestMerge, TypeOK, ProcessorTypeOK, PC
    <3>. QED  BY <3>1, <3>2
  <2>. QED  BY <1>1, <1>8, <2>1 DEF CreateTestMerge, history
<1>9. CASE CheckCandidate
  <2>1. ProcessorTypeOK'
    BY <1>9, TypeProcessorStep DEF CheckCandidate, PC, Terminal
  <2>. QED  BY <1>1, <1>9, <2>1 DEF CheckCandidate, history
<1>10. CASE PreMerge
  <2>1. ProcessorTypeOK'
    BY <1>10, TypeProcessorStep DEF PreMerge, PC, Terminal
  <2>. QED  BY <1>1, <1>10, <2>1 DEF PreMerge, history
<1>11. CASE GitPublish
  <2>1. ProcessorTypeOK'
    BY <1>11, TypeProcessorStep DEF GitPublish, PC, Terminal
  <2>2. cur \in RunId
    BY <1>11 DEF GitPublish, InHand, Working, PC
  <2>3. base' \subseteq Commit /\ landed' \subseteq RunId
    BY <1>11, <2>2 DEF GitPublish, TypeOK
  <2>. QED  BY <1>2, <1>11, <2>1, <2>3 DEF GitPublish
<1>12. CASE JjSelect
  <2>1. ProcessorTypeOK'
    BY <1>12, TypeProcessorStep DEF JjSelect, PC, Terminal
  <2>. QED  BY <1>1, <1>12, <2>1 DEF JjSelect, history
<1>13. CASE JjMove
  <2>1. ProcessorTypeOK'
    BY <1>13, TypeProcessorStep DEF JjMove, PC
  <2>2. cur \in RunId
    BY <1>13 DEF JjMove, InHand, Working, PC
  <2>3. base' \subseteq Commit /\ landed' \subseteq RunId
    BY <1>13, <2>2 DEF JjMove, MergeTargets, TypeOK
  <2>. QED  BY <1>2, <1>13, <2>1, <2>3 DEF JjMove
<1>14. CASE JjVerify
  <2>1. ProcessorTypeOK'
    BY <1>14, TypeProcessorStep DEF JjVerify, PC, Terminal
  <2>2. cur \in RunId
    BY <1>14 DEF JjVerify, InHand, Working, PC
  <2>3. base' \subseteq Commit /\ landed' \subseteq RunId
    BY <1>14, <2>2 DEF JjVerify, TypeOK
  <2>. QED  BY <1>2, <1>14, <2>1, <2>3 DEF JjVerify
<1>15. CASE PostMerge
  <2>1. ProcessorTypeOK'
    BY <1>0, <1>15, TypeProcessorStep DEF PostMerge
  <2>. QED  BY <1>1, <1>15, <2>1 DEF PostMerge, history
<1>16. CASE CompleteRun
  <2>1. cur \in RunId /\ runs[cur].status = "Running"
    BY <1>16 DEF CompleteRun, InHand, Working, PC
  <2>2. runs' \in [RunId -> Run]
    <3>1. WithStatus(runs[cur], verdict) \in Run
      BY <2>1 DEF TypeOK, Run, WithStatus
    <3>. QED  BY <1>16, <3>1 DEF CompleteRun, TypeOK
  <2>3. ProcessorTypeOK'
    BY <1>16, TypeProcessorStep DEF CompleteRun, PC
  <2>. QED
    BY <1>16, <2>2, <2>3 DEF CompleteRun, TypeOK, ProcessorTypeOK, bounds, history
<1>17. CASE NotifyAll
  <2>1. ASSUME NEW h \in Conn, conn[h].at = "parked" PROVE At("checking", conn[h]) \in Handler
    BY <2>1 DEF TypeOK, Handler, At
  <2>2. conn' \in [Conn -> Handler]
    BY <1>17, <2>1 DEF NotifyAll, TypeOK
  <2>3. ProcessorTypeOK'
    BY <1>17, BlankTypes DEF NotifyAll, ProcessorTypeOK, PC
  <2>. QED
    BY <1>17, <2>2, <2>3 DEF NotifyAll, TypeOK, ProcessorTypeOK, table, bounds, history
<1>. QED
  BY <1>3, <1>4, <1>5, <1>6, <1>7, <1>8, <1>9, <1>10, <1>11, <1>12, <1>13, <1>14,
     <1>15, <1>16, <1>17
  DEF ProcessQueue

LEMMA TypeNext == TypeOK /\ InHand /\ [Next]_vars => TypeOK'
<1> SUFFICES ASSUME TypeOK, InHand, [Next]_vars PROVE TypeOK'
  OBVIOUS
<1>1. CASE Start
  <2>1. moves' \in Nat /\ lives' \in Nat
    BY <1>1 DEF Start, TypeOK
  <2>2. pc' \in PC
    BY <1>1 DEF Start, PC
  <2>. QED  BY <1>1, <2>1, <2>2, BlankTypes DEF Start, Blank, TypeOK
<1>2. ASSUME Exit PROVE TypeOK'
  <2>1. ASSUME NEW h \in Conn PROVE Answered("lost", conn[h]) \in Handler
    BY DEF Answered, TypeOK, Handler
  <2>2. conn' \in [Conn -> Handler]
    BY <1>2, <2>1 DEF Exit, TypeOK
  <2>3. pc' \in PC
    BY <1>2 DEF Exit, PC
  <2>. QED  BY <1>2, <2>2, <2>3, BlankTypes DEF Exit, Blank, TypeOK, bounds
<1>3. CASE Kill
  BY <1>2, <1>3 DEF Kill
<1>4. CASE FinishDraining
  BY <1>2, <1>4 DEF FinishDraining
<1>5. CASE RequestShutdown
  BY <1>5 DEF RequestShutdown, TypeOK, table, processor, bounds, history
<1>6. CASE StopAccepting
  <2>1. Append(queue, Shutdown) \in Seq(RunId \cup {Shutdown})
    BY DEF TypeOK
  <2>2. queue' \in Seq(RunId \cup {Shutdown}) /\ owed' \subseteq RunId
    BY <1>6, <2>1 DEF StopAccepting, TypeOK
  <2>. QED  BY <1>6, <2>2 DEF StopAccepting, TypeOK, table, processor, bounds
<1>7. CASE \E h \in Conn : Handle(h)
  BY <1>7, TypeHandler
<1>8. CASE ProcessQueue
  BY <1>8, TypeProcess
<1>9. CASE MoveBase
  <2>1. ASSUME NEW bb \in base, NEW y \in Outsider PROVE Append(bb, y) \in Commit
    BY OutsiderAssumption DEF TypeOK, Commit
  <2>2. ASSUME NEW bb \in base, NEW k \in 0..Len(bb) PROVE SubSeq(bb, 1, k) \in Commit
    BY DEF TypeOK, Commit
  <2>3. base' \subseteq Commit
    BY <1>9, <2>1, <2>2 DEF MoveBase
  <2>4. moves' \in Nat
    BY <1>9 DEF MoveBase, TypeOK
  <2>. QED  BY <1>9, <2>3, <2>4 DEF MoveBase, TypeOK, table, processor, history
<1>10. CASE UNCHANGED vars
  BY <1>10 DEF vars, TypeOK, table, processor, bounds, history
<1>. QED
  BY <1>1, <1>3, <1>4, <1>5, <1>6, <1>7, <1>8, <1>9, <1>10 DEF Next

-----------------------------------------------------------------------------
(***************************************************************************)
(* The run in the processor's hands.                                       *)
(***************************************************************************)
LEMMA InHandInit == Init => InHand
BY BoundAssumption DEF Init, InHand, Working, Absent, RunId, NoRun

LEMMA InHandBlank ==
    ASSUME Blank, pc' \in {"down", "boot"}
    PROVE  InHand'
BY DEF Blank, InHand, Working, Absent, NoRun, RunId

\* Steps inside a run leave the table and the run at hand as they are.
LEMMA InHandStep ==
    ASSUME TypeOK, InHand, pc \in Working, pc' \in Working, UNCHANGED <<table, cur>>,
           pc' = "complete" => verdict' \in Terminal
    PROVE  InHand'
BY DEF TypeOK, InHand, Working, PC, table

LEMMA InHandProcess == TypeOK /\ InHand /\ ProcessQueue => InHand'
<1> SUFFICES ASSUME TypeOK, InHand, ProcessQueue PROVE InHand'
  OBVIOUS
<1>. USE DEF Goto, Conclude
<1>0. PreparationFailure \in Terminal /\ LandedReason \in Terminal
  BY DEF PreparationFailure, LandedReason, Terminal, LandedStatus
<1>1. CASE Boot
  BY <1>1 DEF Boot, InHand, Working, table
<1>2. CASE Receive
  <2>1. CASE Head(queue) = Shutdown
    BY <1>2, <2>1 DEF Receive, InHand, Working, table
  <2>2. CASE Head(queue) # Shutdown
    <3>1. Head(queue) \in RunId
      BY <1>2, <2>2 DEF Receive, TypeOK
    <3>2. \A r \in RunId : runs[r].status # "Running"
      BY <1>2 DEF Receive, InHand, Working
    <3>. QED  BY <1>2, <2>2, <3>1, <3>2 DEF Receive, InHand, Working, table
  <2>. QED  BY <2>1, <2>2
<1>3. CASE StartRun
  <2>1. cur \in RunId /\ \A r \in RunId : runs[r].status # "Running"
    BY <1>3 DEF StartRun, InHand, Working, PC
  <2>2. CASE runs[cur].status = "Queued"
    <3>1. runs' = [runs EXCEPT ![cur] = WithStatus(runs[cur], "Running")] /\ pc' = "preClone"
          /\ UNCHANGED <<cur, nextRunId>>
      BY <1>3, <2>2 DEF StartRun
    <3>2. ASSUME NEW r \in RunId
          PROVE  /\ runs'[r].status # "Absent" => runs'[r].candidate \in Candidate
                 /\ r >= nextRunId => runs'[r].status = "Absent"
                 /\ runs'[r].status = "Running" <=> r = cur
      <4>1. CASE r = cur
        <5>1. runs'[r] = WithStatus(runs[cur], "Running")
          BY <2>1, <3>1, <4>1 DEF TypeOK
        <5>. QED  BY <2>1, <2>2, <4>1, <5>1 DEF WithStatus, InHand
      <4>2. CASE r # cur
        <5>1. runs'[r] = runs[r]
          BY <2>1, <3>1, <4>2 DEF TypeOK
        <5>. QED  BY <2>1, <4>2, <5>1 DEF InHand
      <4>. QED  BY <4>1, <4>2
    <3>. QED  BY <2>1, <3>1, <3>2 DEF InHand, Working, PC
  <2>3. CASE runs[cur].status # "Queued"
    BY <1>3, <2>1, <2>3 DEF StartRun, InHand, Working
  <2>. QED  BY <2>2, <2>3
<1>4. CASE CompleteRun
  <2>1. cur \in RunId /\ runs[cur].status = "Running"
    BY <1>4 DEF CompleteRun, InHand, Working, PC
  <2>2. runs' = [runs EXCEPT ![cur] = WithStatus(runs[cur], verdict)] /\ pc' = "notify"
        /\ UNCHANGED <<cur, nextRunId>>
    BY <1>4 DEF CompleteRun
  <2>3. verdict # "Running"
    BY <1>4 DEF CompleteRun, InHand, Terminal, LandedStatus
  <2>4. ASSUME NEW r \in RunId
        PROVE  /\ runs'[r].status # "Absent" => runs'[r].candidate \in Candidate
               /\ r >= nextRunId => runs'[r].status = "Absent"
               /\ runs'[r].status # "Running"
    <3>1. CASE r = cur
      <4>1. runs'[r] = WithStatus(runs[cur], verdict)
        BY <2>1, <2>2, <3>1 DEF TypeOK
      <4>2. runs'[r].status = verdict /\ runs'[r].candidate = runs[cur].candidate
        BY <4>1 DEF WithStatus
      <4>3. ~(r >= nextRunId)
        BY <2>1, <3>1 DEF InHand
      <4>. QED  BY <2>1, <2>3, <4>2, <4>3 DEF InHand
    <3>2. CASE r # cur
      <4>1. runs'[r] = runs[r]
        BY <2>1, <2>2, <3>2 DEF TypeOK
      <4>. QED  BY <2>1, <3>2, <4>1 DEF InHand
    <3>. QED  BY <3>1, <3>2
  <2>. QED  BY <2>1, <2>2, <2>4 DEF InHand, Working
<1>5. CASE NotifyAll
  BY <1>5 DEF NotifyAll, InHand, Working, table, NoRun, RunId
<1>6. CASE PreClone \/ ResolveBase \/ CreateTestMerge \/ CheckCandidate \/ PreMerge
  BY <1>0, <1>6, InHandStep
  DEF PreClone, ResolveBase, CreateTestMerge, CheckCandidate, PreMerge, Working, PC, table,
      Terminal
<1>7. CASE GitPublish \/ JjSelect \/ JjMove \/ JjVerify \/ PostMerge
  BY <1>0, <1>7, InHandStep
  DEF GitPublish, JjSelect, JjMove, JjVerify, PostMerge, Working, PC, table, Terminal
<1>. QED
  BY <1>1, <1>2, <1>3, <1>4, <1>5, <1>6, <1>7 DEF ProcessQueue

LEMMA InHandNext == TypeOK /\ InHand /\ [Next]_vars => InHand'
<1> SUFFICES ASSUME TypeOK, InHand, [Next]_vars PROVE InHand'
  OBVIOUS
<1>1. CASE Start
  BY <1>1, InHandBlank DEF Start
<1>2. CASE Kill \/ FinishDraining
  BY <1>2, InHandBlank DEF Kill, FinishDraining, Exit
<1>3. CASE RequestShutdown \/ StopAccepting \/ MoveBase \/ UNCHANGED vars
  BY <1>3
  DEF RequestShutdown, StopAccepting, MoveBase, vars, table, processor, InHand, Working
<1>4. ASSUME NEW h \in Conn, Handle(h) PROVE InHand'
  <2>1. CASE QueueRun(h)
    <3>1. nextRunId \in RunId /\ nextRunId' = nextRunId + 1 /\ UNCHANGED <<pc, cur, verdict>>
      BY <2>1, BoundAssumption DEF QueueRun, TypeOK, RunId, processor
    <3>2. PICK c \in Candidate, noMerge \in BOOLEAN :
             runs' = [runs EXCEPT ![nextRunId] =
                         [candidate |-> c, noMerge |-> noMerge, status |-> "Queued"]]
      BY <2>1 DEF QueueRun
    <3>3. runs[nextRunId].status = "Absent"
      <4>1. nextRunId >= nextRunId
        BY <3>1 DEF RunId
      <4>. QED  BY <3>1, <4>1 DEF InHand
    <3>4. ASSUME NEW r \in RunId
          PROVE  /\ runs'[r].status # "Absent" => runs'[r].candidate \in Candidate
                 /\ r >= nextRunId' => runs'[r].status = "Absent"
                 /\ runs'[r].status = "Running" <=> (r = cur /\ pc \in Working)
      <4>1. CASE r = nextRunId
        <5>1. runs'[r].candidate = c /\ runs'[r].status = "Queued"
          BY <3>1, <3>2, <4>1 DEF TypeOK
        <5>2. ~(r >= nextRunId')
          BY <3>1, <4>1 DEF RunId
        <5>3. ~(r = cur /\ pc \in Working)
          BY <3>1, <3>3, <4>1 DEF InHand
        <5>. QED  BY <5>1, <5>2, <5>3
      <4>2. CASE r # nextRunId
        <5>1. runs'[r] = runs[r]
          BY <3>1, <3>2, <4>2 DEF TypeOK
        <5>2. r >= nextRunId' => r >= nextRunId
          BY <3>1 DEF RunId
        <5>. QED  BY <5>1, <5>2 DEF InHand
      <4>. QED  BY <4>1, <4>2
    <3>. QED  BY <3>1, <3>4 DEF InHand, Working
  <2>2. CASE ~QueueRun(h)
    <3>1. UNCHANGED <<table, processor>>
      BY <1>4, <2>2
      DEF Handle, Accept, RefuseCandidate, SendRun, WaitForRun, RecheckRun
    <3>. QED  BY <3>1 DEF table, processor, InHand, Working
  <2>. QED  BY <2>1, <2>2
<1>5. CASE ProcessQueue
  BY <1>5, InHandProcess
<1>. QED  BY <1>1, <1>2, <1>3, <1>4, <1>5 DEF Next

-----------------------------------------------------------------------------
(***************************************************************************)
(* TypeOK is an invariant of the merge queue: in particular a wait is only *)
(* ever answered with a terminal status, and the base only ever names      *)
(* commits.                                                                *)
(***************************************************************************)
THEOREM TypeCorrect == Spec => []TypeOK
<1>1. Init => TypeOK /\ InHand
  BY TypeInit, InHandInit
<1>2. TypeOK /\ InHand /\ [Next]_vars => (TypeOK /\ InHand)'
  BY TypeNext, InHandNext
<1>. QED  BY <1>1, <1>2, PTL DEF Spec

-----------------------------------------------------------------------------
(***************************************************************************)
(* The verdict and the base.  A run is in landed without a terminal status *)
(* only while the processor carries it from the publication to             *)
(* complete_run, and on that stretch the processor's place and its private *)
(* verdict say what the publication did.                                   *)
(***************************************************************************)
Published == LandedStatus \cup {"FailedPublicationUnverified"}

InFlight(r) == r = cur /\ pc \in {"jjVerify", "postMerge", "complete"}

PublicationKnown ==
    /\ \A r \in landed : runs[r].status \in Terminal \/ InFlight(r)
    /\ pc \in {"preMerge", "publish", "jjMove", "jjVerify", "postMerge"} =>
          ~runs[cur].noMerge
    /\ pc = "jjMove" => prepared # expected
    /\ pc = "jjVerify" => (cur \in landed <=> prepared # expected)
    /\ pc = "postMerge" => cur \in landed
    /\ pc = "complete" => (cur \in landed <=> verdict \in Published)
    /\ pc = "complete" /\ cur \in landed => ~runs[cur].noMerge

LEMMA StatusesDiffer ==
    /\ Published \subseteq Terminal
    /\ LandedReason \in Published
    /\ PreparationFailure \in Terminal \ Published
    /\ {"FailedPreClone", "FailedBaseResolve", "FailedPostClone", "FailedCheck",
        "FailedPreMerge", "FailedMerge", "PassedNoMerge"} \subseteq Terminal \ Published
    /\ {"Absent", "Queued", "Running"} \cap Terminal = {}
BY DEF Published, Terminal, LandedStatus, LandedReason, PreparationFailure

LEMMA KnownInit == Init => PublicationKnown /\ VerdictMatchesBase
BY DEF Init, PublicationKnown, VerdictMatchesBase, Absent, Terminal, LandedStatus

LEMMA KnownBlank ==
    ASSUME Blank, pc' \in {"down", "boot"}
    PROVE  (PublicationKnown /\ VerdictMatchesBase)'
BY DEF Blank, PublicationKnown, VerdictMatchesBase, Absent, Terminal, LandedStatus

\* A run that is being worked on and has not been published is not in landed.
LEMMA NotYetLanded ==
    ASSUME TypeOK, InHand, PublicationKnown, pc \in Working,
           pc \notin {"jjVerify", "postMerge", "complete"}
    PROVE  cur \in RunId /\ cur \notin landed
BY StatusesDiffer DEF InHand, PublicationKnown, InFlight

\* Ways through a run before its publication, all of which leave landed alone.
LEMMA KnownBeforePublication ==
    ASSUME TypeOK, InHand, PublicationKnown, VerdictMatchesBase, ProcessQueue,
           pc \in {"boot", "recv", "start", "preClone", "resolve", "prepare", "check",
                   "preMerge"}
    PROVE  (PublicationKnown /\ VerdictMatchesBase)'
<1>. USE DEF Goto, Conclude
<1>1. UNCHANGED landed
  BY DEF ProcessQueue, Boot, Receive, StartRun, PreClone, ResolveBase, CreateTestMerge,
         CheckCandidate, PreMerge, GitPublish, JjSelect, JjMove, JjVerify, PostMerge,
         CompleteRun, NotifyAll, history
<1>2. \A r \in landed : runs[r].status \in Terminal
  BY DEF PublicationKnown, InFlight
<1>3. CASE StartRun
  <2>1. cur \in RunId
    BY <1>3 DEF StartRun, InHand
  <2>2. ASSUME NEW r \in RunId, runs'[r].status \in Terminal
        PROVE  runs'[r] = runs[r]
    <3>1. CASE r = cur /\ runs[cur].status = "Queued"
      <4>1. runs'[r] = WithStatus(runs[cur], "Running")
        BY <1>3, <2>1, <3>1 DEF StartRun, TypeOK
      <4>. QED  BY <2>2, <4>1, StatusesDiffer DEF WithStatus
    <3>2. CASE ~(r = cur /\ runs[cur].status = "Queued")
      BY <1>3, <2>1, <3>2 DEF StartRun, TypeOK
    <3>. QED  BY <3>1, <3>2
  <2>3. ASSUME NEW r \in RunId, runs[r].status \in Terminal PROVE runs'[r] = runs[r]
    BY <1>3, <2>1, <2>3, StatusesDiffer DEF StartRun, TypeOK
  <2>4. VerdictMatchesBase'
    BY <1>1, <2>2 DEF VerdictMatchesBase
  <2>5. PublicationKnown'
    BY <1>1, <1>2, <1>3, <2>3 DEF StartRun, PublicationKnown, TypeOK
  <2>. QED  BY <2>4, <2>5
<1>4. CASE ~StartRun
  <2>1. UNCHANGED runs
    BY <1>4
    DEF ProcessQueue, Boot, Receive, StartRun, PreClone, ResolveBase, CreateTestMerge,
        CheckCandidate, PreMerge, GitPublish, JjSelect, JjMove, JjVerify, PostMerge,
        CompleteRun, NotifyAll, table
  <2>2. VerdictMatchesBase'
    BY <1>1, <2>1 DEF VerdictMatchesBase
  <2>3. CASE Boot \/ Receive
    BY <1>1, <1>2, <2>1, <2>2, <2>3 DEF Boot, Receive, PublicationKnown
  <2>4. CASE PreClone \/ ResolveBase \/ CreateTestMerge \/ CheckCandidate \/ PreMerge
    <3>1. cur \in RunId /\ cur \notin landed
      BY <2>4, NotYetLanded
      DEF PreClone, ResolveBase, CreateTestMerge, CheckCandidate, PreMerge, Working, PC
    <3>2. /\ UNCHANGED cur
          /\ \/ pc' = "complete" /\ verdict' \notin Published
             \/ pc' \in {"resolve", "prepare", "check", "publish", "preMerge"}
      BY <2>4, StatusesDiffer
      DEF PreClone, ResolveBase, CreateTestMerge, CheckCandidate, PreMerge
    <3>3. pc' \in {"preMerge", "publish"} => ~runs[cur].noMerge
      BY <2>4
      DEF PreClone, ResolveBase, CreateTestMerge, CheckCandidate, PreMerge, PublicationKnown
    <3>. QED
      BY <1>1, <1>2, <2>1, <2>2, <3>1, <3>2, <3>3 DEF PublicationKnown
  <2>. QED
    BY <1>4, <2>2, <2>3, <2>4
    DEF ProcessQueue, GitPublish, JjSelect, JjMove, JjVerify, PostMerge, CompleteRun,
        NotifyAll
<1>. QED  BY <1>3, <1>4

LEMMA KnownNext ==
    ASSUME TypeOK, InHand, PublicationKnown, VerdictMatchesBase, [Next]_vars
    PROVE  (PublicationKnown /\ VerdictMatchesBase)'
<1>1. CASE Start \/ Kill \/ FinishDraining
  BY <1>1, KnownBlank DEF Start, Kill, FinishDraining, Exit
<1>2. CASE RequestShutdown \/ StopAccepting \/ MoveBase \/ UNCHANGED vars
  <2>1. UNCHANGED <<table, processor, landed>>
    BY <1>2 DEF RequestShutdown, StopAccepting, MoveBase, vars, history
  <2>. QED
    BY <2>1 DEF PublicationKnown, InFlight, VerdictMatchesBase, table, processor
<1>3. ASSUME NEW h \in Conn, Handle(h)
      PROVE  (PublicationKnown /\ VerdictMatchesBase)'
  <2>1. UNCHANGED <<processor, landed>>
    BY <1>3
    DEF Handle, Accept, RefuseCandidate, QueueRun, SendRun, WaitForRun, RecheckRun, history
  <2>2. CASE QueueRun(h)
    <3>1. nextRunId \in RunId
      BY <2>2, BoundAssumption DEF QueueRun, TypeOK, RunId
    <3>2. runs[nextRunId].status = "Absent" /\ ~(nextRunId = cur /\ pc \in Working)
      <4>1. nextRunId >= nextRunId
        BY <3>1 DEF RunId
      <4>. QED  BY <3>1, <4>1 DEF InHand
    <3>3. runs'[nextRunId].status = "Queued"
      BY <2>2, <3>1 DEF QueueRun, TypeOK
    <3>4. \A r \in RunId : r # nextRunId => runs'[r] = runs[r]
      BY <2>2, <3>1 DEF QueueRun, TypeOK
    <3>5. nextRunId \notin landed
      BY <3>1, <3>2, StatusesDiffer DEF PublicationKnown, InFlight, Working, PC
    <3>6. VerdictMatchesBase'
      BY <2>1, <3>3, <3>4, StatusesDiffer DEF VerdictMatchesBase
    <3>7. pc \in Working => cur \in RunId /\ runs'[cur] = runs[cur]
      BY <3>2, <3>4 DEF InHand
    <3>8. \A r \in landed : runs'[r] = runs[r]
      BY <3>4, <3>5 DEF TypeOK
    <3>9. PublicationKnown'
      BY <2>1, <3>7, <3>8 DEF PublicationKnown, InFlight, Working, PC, processor
    <3>. QED  BY <3>6, <3>9
  <2>3. CASE ~QueueRun(h)
    <3>1. UNCHANGED runs
      BY <1>3, <2>3
      DEF Handle, Accept, RefuseCandidate, SendRun, WaitForRun, RecheckRun, table
    <3>. QED
      BY <2>1, <3>1 DEF PublicationKnown, InFlight, VerdictMatchesBase, processor
  <2>. QED  BY <2>2, <2>3
<1>4. CASE ProcessQueue
  <2>. USE DEF Goto, Conclude
  <2>1. CASE pc \in {"boot", "recv", "start", "preClone", "resolve", "prepare", "check",
                     "preMerge"}
    BY <1>4, <2>1, KnownBeforePublication
  <2>2. CASE GitPublish \/ JjSelect \/ JjMove
    <3>1. cur \in RunId /\ cur \notin landed /\ runs[cur].status = "Running"
      BY <2>2, NotYetLanded DEF GitPublish, JjSelect, JjMove, Working, PC, InHand
    <3>2. /\ UNCHANGED <<runs, cur>>
          /\ landed' = landed \/ (landed' = landed \cup {cur}
                                   /\ pc' \in {"postMerge", "jjVerify"})
      BY <2>2 DEF GitPublish, JjSelect, JjMove, table, history
    <3>3. VerdictMatchesBase'
      BY <3>1, <3>2, StatusesDiffer DEF VerdictMatchesBase
    <3>4. \A r \in landed : runs[r].status \in Terminal
      BY <2>2 DEF GitPublish, JjSelect, JjMove, PublicationKnown, InFlight
    <3>5. PublicationKnown'
      BY <2>2, <3>1, <3>2, <3>4, StatusesDiffer
      DEF GitPublish, JjSelect, JjMove, PublicationKnown, InFlight, history
    <3>. QED  BY <3>3, <3>5
  <2>3. CASE JjVerify \/ PostMerge
    <3>1. cur \in RunId /\ runs[cur].status = "Running"
      BY <2>3 DEF JjVerify, PostMerge, Working, PC, InHand
    <3>2. UNCHANGED <<runs, cur>> /\ landed' \in {landed, landed \cup {cur}}
      BY <2>3 DEF JjVerify, PostMerge, table, history
    <3>3. VerdictMatchesBase'
      BY <3>1, <3>2, StatusesDiffer DEF VerdictMatchesBase
    <3>4. \A r \in landed' : runs[r].status \in Terminal \/ r = cur
      BY <3>2 DEF PublicationKnown, InFlight
    <3>5. PublicationKnown'
      <4>1. CASE JjVerify
        <5>1. "FailedPublicationUnverified" \in Published
          BY DEF Published
        <5>. QED
          BY <3>2, <3>4, <4>1, <5>1, StatusesDiffer DEF JjVerify, PublicationKnown, InFlight
      <4>2. CASE PostMerge
        BY <3>2, <3>4, <4>2, StatusesDiffer DEF PostMerge, PublicationKnown, InFlight, history
      <4>. QED  BY <2>3, <4>1, <4>2
    <3>. QED  BY <3>3, <3>5
  <2>4. CASE CompleteRun
    <3>1. cur \in RunId /\ verdict \in Terminal /\ UNCHANGED <<cur, landed>>
      BY <2>4 DEF CompleteRun, InHand, Working, PC, history
    <3>2. /\ runs'[cur].status = verdict
          /\ runs'[cur].noMerge = runs[cur].noMerge
          /\ \A r \in RunId : r # cur => runs'[r] = runs[r]
      BY <2>4, <3>1 DEF CompleteRun, TypeOK, WithStatus
    <3>3. VerdictMatchesBase'
      BY <2>4, <3>1, <3>2
      DEF CompleteRun, VerdictMatchesBase, PublicationKnown, Published
    <3>4. PublicationKnown'
      BY <2>4, <3>1, <3>2 DEF CompleteRun, PublicationKnown, InFlight, TypeOK
    <3>. QED  BY <3>3, <3>4
  <2>5. CASE NotifyAll
    <3>1. UNCHANGED <<runs, landed>> /\ pc' = "recv"
      BY <2>5 DEF NotifyAll, table, history
    <3>2. \A r \in landed : runs[r].status \in Terminal
      BY <2>5 DEF NotifyAll, PublicationKnown, InFlight
    <3>. QED  BY <3>1, <3>2 DEF PublicationKnown, VerdictMatchesBase
  <2>. QED
    BY <1>4, <2>1, <2>2, <2>3, <2>4, <2>5
    DEF ProcessQueue, Boot, Receive, StartRun, PreClone, ResolveBase, CreateTestMerge,
        CheckCandidate, PreMerge
<1>. QED  BY <1>1, <1>2, <1>3, <1>4 DEF Next

(***************************************************************************)
(* For every number of runs and connections, every history of the base and *)
(* both version control systems: a terminal status says merged, rebased or *)
(* publication-unverified exactly for the runs whose publication took      *)
(* effect, and none of those is a validation-only run.                     *)
(***************************************************************************)
THEOREM VerdictCorrect == Spec => []VerdictMatchesBase
<1>1. Init => PublicationKnown /\ VerdictMatchesBase
  BY KnownInit
<1>2. TypeOK /\ InHand /\ PublicationKnown /\ VerdictMatchesBase /\ [Next]_vars
         => (PublicationKnown /\ VerdictMatchesBase)'
  BY KnownNext
<1>3. Init => TypeOK /\ InHand
  BY TypeInit, InHandInit
<1>4. TypeOK /\ InHand /\ [Next]_vars => (TypeOK /\ InHand)'
  BY TypeNext, InHandNext
<1>. QED  BY <1>1, <1>2, <1>3, <1>4, PTL DEF Spec

-----------------------------------------------------------------------------
(***************************************************************************)
(* The daemon implements Landing.                                          *)
(***************************************************************************)
LEMMA DescendsReflexive == \A t \in Commit : Descends(t, t)
BY DEF Descends, IsPrefix, Commit

LEMMA DescendsTransitive ==
    ASSUME NEW t \in Commit, NEW u \in Commit, NEW w \in Commit,
           Descends(u, t), Descends(w, u)
    PROVE  Descends(w, t)
<1>1. Len(t) <= Len(u) /\ Len(u) <= Len(w)
  BY DEF Descends, IsPrefix
<1>2. \A i \in 1..Len(t) : t[i] = u[i]
  <2>1. \A i \in 1..Len(t) : SubSeq(t, 1, Len(t))[i] = t[i] /\ SubSeq(u, 1, Len(t))[i] = u[i]
    BY <1>1 DEF Commit
  <2>. QED  BY <2>1 DEF Descends, IsPrefix
<1>3. \A i \in 1..Len(u) : u[i] = w[i]
  <2>1. \A i \in 1..Len(u) : SubSeq(u, 1, Len(u))[i] = u[i] /\ SubSeq(w, 1, Len(u))[i] = w[i]
    BY <1>1 DEF Commit
  <2>. QED  BY <2>1 DEF Descends, IsPrefix
<1>4. \A i \in 1..Len(t) : t[i] = w[i]
  BY <1>1, <1>2, <1>3 DEF Commit
<1>5. SubSeq(t, 1, Len(t)) = SubSeq(w, 1, Len(t))
  BY <1>1, <1>4 DEF Commit
<1>. QED  BY <1>1, <1>5 DEF Descends, IsPrefix, Commit

(***************************************************************************)
(* Merging a bookmark's concurrent moves invents no target and leaves      *)
(* every other mover's target a descendant among the results.              *)
(***************************************************************************)
LEMMA MergeTargetsKeep ==
    ASSUME NEW old \in Commit, NEW ours \in Commit, NEW theirs \in SUBSET Commit
    PROVE  /\ MergeTargets(old, ours, theirs) \subseteq theirs \cup {ours}
           /\ \A t \in theirs \ {old} :
                 \E u \in MergeTargets(old, ours, theirs) : Descends(u, t)
<1> DEFINE kept == { t \in theirs \ {old} : ~(Descends(ours, t) /\ Descends(t, old)) }
<1>1. MergeTargets(old, ours, theirs) =
         IF \E t \in kept : Descends(t, ours) THEN kept ELSE kept \cup {ours}
  BY DEF MergeTargets
<1>2. ASSUME NEW t \in theirs \ {old}
      PROVE  \E u \in MergeTargets(old, ours, theirs) : Descends(u, t)
  <2>1. CASE t \in kept
    BY <1>1, <2>1, DescendsReflexive
  <2>2. CASE t \notin kept
    <3>1. Descends(ours, t)
      BY <1>2, <2>2
    <3>2. CASE \E k \in kept : Descends(k, ours)
      BY <1>1, <1>2, <3>1, <3>2, DescendsTransitive
    <3>3. CASE ~\E k \in kept : Descends(k, ours)
      BY <1>1, <3>1, <3>3
    <3>. QED  BY <3>2, <3>3
  <2>. QED  BY <2>1, <2>2
<1>. QED  BY <1>1, <1>2

\* What was prepared stays on the base it was prepared on.
PreparedOnBase ==
    pc \in {"check", "preMerge", "publish", "jjMove"} => Descends(prepared, expected)

LEMMA PreparedNext ==
    ASSUME TypeOK, InHand, PreparedOnBase, [Next]_vars
    PROVE  PreparedOnBase'
<1>. USE DEF PreparedOnBase, Goto, Conclude
<1>1. CASE CreateTestMerge
  <2>1. CASE Conclude(PreparationFailure)
    BY <2>1
  <2>2. CASE ~Conclude(PreparationFailure)
    <3>1. runs[cur].candidate \in Candidate
      BY <1>1 DEF CreateTestMerge, InHand, Working, PC
    <3>2. prepared' \in TestMerge(expected, runs[cur].candidate) /\ UNCHANGED expected
      BY <1>1, <2>2 DEF CreateTestMerge
    <3>. QED  BY <3>1, <3>2, TestMergeDescends DEF TypeOK
  <2>. QED  BY <2>1, <2>2
<1>2. CASE ProcessQueue /\ ~CreateTestMerge
  BY <1>2
  DEF ProcessQueue, Boot, Receive, StartRun, PreClone, ResolveBase, CheckCandidate, PreMerge,
      GitPublish, JjSelect, JjMove, JjVerify, PostMerge, CompleteRun, NotifyAll
<1>3. CASE Start \/ Kill \/ FinishDraining
  BY <1>3 DEF Start, Kill, FinishDraining, Exit
<1>4. ASSUME UNCHANGED processor PROVE PreparedOnBase'
  BY <1>4 DEF processor
<1>5. CASE \E h \in Conn : Handle(h)
  BY <1>4, <1>5
  DEF Handle, Accept, RefuseCandidate, QueueRun, SendRun, WaitForRun, RecheckRun
<1>6. CASE RequestShutdown \/ StopAccepting \/ MoveBase \/ UNCHANGED vars
  BY <1>4, <1>6 DEF RequestShutdown, StopAccepting, MoveBase, vars
<1>. QED  BY <1>1, <1>2, <1>3, <1>5, <1>6 DEF Next

\* The two modules mean the same by descent.
LEMMA SameDescends == \A t, u : Promise!Descends(u, t) <=> Descends(u, t)
BY DEF Promise!Descends, Descends, Promise!IsPrefix, IsPrefix

LEMMA LandingInit == Init => Promise!Init
BY BlankTypes DEF Init, Promise!Init, Approved, Promise!Commit, Commit

LEMMA LandingStep ==
    ASSUME TypeOK, TypeOK', InHand, PreparedOnBase, [Next]_vars
    PROVE  [Promise!Next]_(Promise!vars)
<1>. USE DEF Goto, Conclude
<1>0. Approved \in {{}, {[from |-> expected, to |-> prepared]}}
  BY DEF Approved
<1>1. CASE Start \/ Kill \/ FinishDraining
  <2>1. base' = base /\ Approved' = {}
    BY <1>1 DEF Start, Kill, FinishDraining, Exit, Approved
  <2>. QED  BY <2>1 DEF Promise!Next, Promise!Withdraw
<1>2. CASE MoveBase
  <2>1. Approved' = Approved /\ base' \in SUBSET Commit
    BY <1>2 DEF MoveBase, processor, Approved, TypeOK
  <2>. QED  BY <2>1 DEF Promise!Next, Promise!External, Promise!Commit, Commit
<1>3. ASSUME UNCHANGED <<base, processor>> PROVE [Promise!Next]_(Promise!vars)
  BY <1>3 DEF processor, Approved, Promise!vars
<1>4. CASE \E h \in Conn : Handle(h)
  BY <1>3, <1>4
  DEF Handle, Accept, RefuseCandidate, QueueRun, SendRun, WaitForRun, RecheckRun
<1>5. CASE RequestShutdown \/ StopAccepting \/ UNCHANGED vars
  BY <1>3, <1>5 DEF RequestShutdown, StopAccepting, vars
<1>6. CASE CheckCandidate
  <2>1. base' = base /\ Approved = {}
    BY <1>6 DEF CheckCandidate, Approved
  <2>2. CASE pc' = "preMerge"
    <3> DEFINE ticket == [from |-> expected, to |-> prepared]
    <3>1. Approved' = {ticket}
      BY <1>6, <2>2 DEF CheckCandidate, Approved
    <3>2. ticket \in [from : Commit, to : Commit] /\ Descends(ticket.to, ticket.from)
      BY <1>6 DEF CheckCandidate, PreparedOnBase, TypeOK
    <3>3. Promise!Approve
      <4>1. Promise!Descends(ticket.to, ticket.from)
        BY <3>2, SameDescends
      <4>2. ticket \in Promise!Ticket
        BY <3>2 DEF Promise!Ticket, Promise!Commit, Commit
      <4>. HIDE DEF ticket
      <4>. QED  BY <2>1, <3>1, <4>1, <4>2 DEF Promise!Approve
    <3>. QED  BY <3>3 DEF Promise!Next
  <2>3. CASE pc' # "preMerge"
    BY <1>6, <2>1, <2>3 DEF CheckCandidate, Approved, Promise!vars
  <2>. QED  BY <2>2, <2>3
<1>7. CASE GitPublish
  <2>1. Approved = {[from |-> expected, to |-> prepared]} /\ Approved' = {}
    BY <1>7 DEF GitPublish, Approved
  <2>2. CASE base' = base
    BY <2>1, <2>2 DEF Promise!Next, Promise!Withdraw
  <2>3. CASE base' # base
    <3>1. base = {expected} /\ base' = {prepared}
      BY <1>7, <2>3 DEF GitPublish
    <3>2. Promise!Land([from |-> expected, to |-> prepared])
      BY <2>1, <3>1 DEF Promise!Land
    <3>. QED  BY <2>1, <3>2 DEF Promise!Next
  <2>. QED  BY <2>2, <2>3
<1>8. CASE JjMove
  <2> DEFINE ticket == [from |-> expected, to |-> prepared]
  <2>1. Approved = {ticket} /\ Approved' = {}
    BY <1>8 DEF JjMove, Approved
  <2>2. base' = MergeTargets(expected, prepared, base)
    BY <1>8 DEF JjMove
  <2>3. /\ base' \subseteq base \cup {prepared}
        /\ \A t \in base \ {expected} : \E u \in base' : Descends(u, t)
    BY <2>2, MergeTargetsKeep DEF TypeOK
  <2>4. VCS = "jj"
    BY <1>8 DEF JjMove
  <2>5. Promise!LandBeside(ticket)
    BY <2>1, <2>3, <2>4, SameDescends DEF Promise!LandBeside
  <2>. QED  BY <2>1, <2>5 DEF Promise!Next
<1>9. CASE ProcessQueue /\ ~CheckCandidate /\ ~GitPublish /\ ~JjMove
  <2>1. base' = base
    BY <1>9
    DEF ProcessQueue, Boot, Receive, StartRun, PreClone, ResolveBase, CreateTestMerge,
        PreMerge, JjSelect, JjVerify, PostMerge, CompleteRun, NotifyAll
  <2>2. Approved' = Approved \/ Approved' = {}
    BY <1>9
    DEF ProcessQueue, Boot, Receive, StartRun, PreClone, ResolveBase, CreateTestMerge,
        PreMerge, JjSelect, JjVerify, PostMerge, CompleteRun, NotifyAll, Approved
  <2>. QED
    BY <2>1, <2>2 DEF Promise!Next, Promise!Withdraw, Promise!vars
<1>. QED  BY <1>1, <1>2, <1>4, <1>5, <1>6, <1>7, <1>8, <1>9 DEF Next

(***************************************************************************)
(* Every behaviour of the daemon, through any number of kills and restarts *)
(* and whatever others do to the base, is one of Landing: the base is only *)
(* moved from the exact commit the checked integration was prepared on (in *)
(* jj: or merged with a concurrent move that survives), by an integration  *)
(* that descends from it.                                                  *)
(***************************************************************************)
THEOREM DaemonImplementsLanding == Spec => ImplementsLanding
<1>1. Init => TypeOK /\ InHand /\ PreparedOnBase
  BY TypeInit, InHandInit DEF Init, PreparedOnBase
<1>2. TypeOK /\ InHand /\ PreparedOnBase /\ [Next]_vars
         => (TypeOK /\ InHand /\ PreparedOnBase)'
  BY TypeNext, InHandNext, PreparedNext
<1>3. Init => Promise!Init
  BY LandingInit
<1>4. TypeOK /\ TypeOK' /\ InHand /\ PreparedOnBase /\ [Next]_vars
         => [Promise!Next]_(Promise!vars)
  BY LandingStep
<1>. QED
  BY <1>1, <1>2, <1>3, <1>4, PTL DEF Spec, ImplementsLanding, Promise!Spec
-----------------------------------------------------------------------------
(***************************************************************************)
(* What a daemon keeps true, and promises to whoever shares the base with  *)
(* it.                                                                     *)
(***************************************************************************)

\* What was prepared holds the candidate it was prepared for, by its last change.
Carries ==
    pc \in {"check", "preMerge", "publish", "jjMove", "jjVerify"} =>
        Last(runs[cur].candidate) \in ToSet(prepared)

LEMMA LastInSet ==
    ASSUME NEW s \in Commit, s # <<>>
    PROVE  Last(s) \in ToSet(s)
<1>1. Len(s) \in 1..Len(s)
  BY DEF Commit
<1>. QED  BY <1>1 DEF Last, ToSet, Commit

LEMMA SetOfConcatenation ==
    ASSUME NEW s \in Commit, NEW t \in Commit
    PROVE  ToSet(s) \subseteq ToSet(s \o t) /\ ToSet(t) \subseteq ToSet(s \o t)
<1>1. ASSUME NEW i \in 1..Len(s) PROVE s[i] \in ToSet(s \o t)
  <2>1. i \in DOMAIN (s \o t) /\ (s \o t)[i] = s[i]
    BY <1>1 DEF Commit
  <2>. QED  BY <2>1 DEF ToSet
<1>2. ASSUME NEW i \in 1..Len(t) PROVE t[i] \in ToSet(s \o t)
  <2>1. Len(s) + i \in DOMAIN (s \o t) /\ (s \o t)[Len(s) + i] = t[i]
    BY <1>2 DEF Commit
  <2>. QED  BY <2>1 DEF ToSet
<1>3. DOMAIN s = 1..Len(s) /\ DOMAIN t = 1..Len(t)
  BY DEF Commit
<1>4. \A e \in ToSet(s) : \E i \in 1..Len(s) : e = s[i]
  BY <1>3 DEF ToSet
<1>5. \A e \in ToSet(t) : \E i \in 1..Len(t) : e = t[i]
  BY <1>3 DEF ToSet
<1>. QED  BY <1>1, <1>2, <1>4, <1>5

\* A descendant holds every change its ancestor holds.
LEMMA DescendantHolds ==
    ASSUME NEW t \in Commit, NEW u \in Commit, Descends(u, t)
    PROVE  ToSet(t) \subseteq ToSet(u)
<1>1. Len(t) <= Len(u) /\ SubSeq(t, 1, Len(t)) = SubSeq(u, 1, Len(t))
  BY DEF Descends, IsPrefix
<1>2. ASSUME NEW i \in 1..Len(t) PROVE t[i] \in ToSet(u)
  <2>1. SubSeq(t, 1, Len(t))[i] = t[i] /\ SubSeq(u, 1, Len(t))[i] = u[i]
    BY <1>1 DEF Commit
  <2>2. t[i] = u[i] /\ i \in DOMAIN u
    BY <1>1, <2>1 DEF Commit
  <2>. QED  BY <2>2 DEF ToSet
<1>. QED  BY <1>2 DEF ToSet, Commit

(***************************************************************************)
(* Whatever the version control system and the merge mode, and also when   *)
(* nothing of the candidate is left to integrate, the commit prepared for  *)
(* a test holds the candidate's last change (the four test_merge_*         *)
(* functions).                                                             *)
(***************************************************************************)
LEMMA TestMergeHolds ==
    ASSUME NEW bb \in Commit, NEW c \in Candidate, NEW p \in TestMerge(bb, c)
    PROVE  Last(c) \in ToSet(p)
<1>1. c \in Commit /\ c # <<>> /\ Last(c) \in ToSet(c)
  BY CandidateAssumption, LastInSet
<1>2. Last(c) = c[Len(c)] /\ Last(c) \in Change /\ Len(c) \in Nat \ {0}
  BY <1>1 DEF Commit, Last
<1>3. CASE MergeMode = "rebase"
  <2>1. PICK k \in 0..Len(c) :
           /\ ForkPoint(bb, c, k)
           /\ LET s == SubSeq(c, k + 1, Len(c)) IN
              p = IF VCS = "git" /\ ToSet(s) \subseteq ToSet(bb) THEN bb ELSE bb \o s
    BY <1>3 DEF TestMerge, Rebased, GitReplayed, JjReplayed, UniqueStack
  <2> DEFINE s == SubSeq(c, k + 1, Len(c))
  <2>2. s \in Commit
    BY <1>1 DEF Commit
  <2>3. CASE k = Len(c)
    <3>1. Len(c) <= Len(bb) /\ SubSeq(bb, 1, Len(c)) = SubSeq(c, 1, Len(c))
      BY <2>1, <2>3 DEF ForkPoint
    <3>2. Descends(bb, c)
      BY <3>1 DEF Descends, IsPrefix
    <3>3. Last(c) \in ToSet(bb)
      BY <1>1, <3>2, DescendantHolds
    <3>. QED  BY <2>1, <2>2, <3>3, SetOfConcatenation
  <2>4. CASE k # Len(c)
    <3>1. c \in Seq(Change) /\ k + 1 \in 1..Len(c)
      BY <1>1, <1>2, <2>4 DEF Commit
    <3>2. Len(s) = Len(c) - k /\ Len(s) \in 1..Len(s)
      BY <3>1
    <3>3. s[Len(s)] = c[Len(c)]
      BY <3>1, <3>2
    <3>4. Last(c) \in ToSet(s)
      <4>. HIDE DEF s
      <4>1. Len(s) \in DOMAIN s
        BY <2>2, <3>2 DEF Commit
      <4>. QED  BY <1>2, <3>3, <4>1 DEF ToSet
    <3>. QED  BY <2>1, <2>2, <3>4, SetOfConcatenation
  <2>. QED  BY <2>3, <2>4
<1>4. CASE MergeMode # "rebase"
  <2>1. \/ p = Append(bb, Last(c))
        \/ p = bb /\ (Descends(bb, c) \/ Last(c) \in ToSet(bb))
    BY <1>4 DEF TestMerge, Merged, GitMerged, JjMerged
  <2>2. CASE p = Append(bb, Last(c))
    <3>1. Len(bb) + 1 \in DOMAIN p /\ p[Len(bb) + 1] = Last(c)
      BY <1>2, <2>2 DEF Commit
    <3>. QED  BY <3>1 DEF ToSet
  <2>3. CASE p = bb /\ (Descends(bb, c) \/ Last(c) \in ToSet(bb))
    BY <1>1, <2>3, DescendantHolds
  <2>. QED  BY <2>1, <2>2, <2>3
<1>. QED  BY <1>3, <1>4

LEMMA CarriesNext ==
    ASSUME TypeOK, InHand, Carries, [Next]_vars
    PROVE  Carries'
<1>. USE DEF Carries, Goto, Conclude
<1>1. CASE CreateTestMerge
  <2>1. CASE Conclude(PreparationFailure)
    BY <2>1
  <2>2. CASE ~Conclude(PreparationFailure)
    <3>1. runs[cur].candidate \in Candidate
      BY <1>1 DEF CreateTestMerge, InHand, Working, PC
    <3>2. /\ prepared' \in TestMerge(expected, runs[cur].candidate)
          /\ UNCHANGED <<cur, runs>>
      BY <1>1, <2>2 DEF CreateTestMerge, table
    <3>3. Last(runs[cur].candidate) \in ToSet(prepared')
      BY <3>1, <3>2, TestMergeHolds DEF TypeOK
    <3>. QED  BY <3>2, <3>3
  <2>. QED  BY <2>1, <2>2
<1>2. CASE ProcessQueue /\ ~CreateTestMerge
  BY <1>2
  DEF ProcessQueue, Boot, Receive, StartRun, PreClone, ResolveBase, CheckCandidate, PreMerge,
      GitPublish, JjSelect, JjMove, JjVerify, PostMerge, CompleteRun, NotifyAll, table
<1>3. CASE Start \/ Kill \/ FinishDraining
  BY <1>3 DEF Start, Kill, FinishDraining, Exit
<1>4. ASSUME UNCHANGED <<processor, runs>> PROVE Carries'
  BY <1>4 DEF processor
<1>5. ASSUME NEW h \in Conn, Handle(h) PROVE Carries'
  <2>1. CASE QueueRun(h)
    <3>1. nextRunId \in RunId /\ UNCHANGED processor
      BY <2>1 DEF QueueRun, TypeOK, RunId
    <3>2. pc \in {"check", "preMerge", "publish", "jjMove", "jjVerify"} => cur # nextRunId
      BY <3>1 DEF InHand, Working, PC, TypeOK
    <3>3. \A r \in RunId : r # nextRunId => runs'[r] = runs[r]
      BY <2>1 DEF QueueRun, TypeOK
    <3>4. pc \in {"check", "preMerge", "publish", "jjMove", "jjVerify"} => cur \in RunId
      BY DEF InHand, Working, PC
    <3>. QED  BY <3>1, <3>2, <3>3, <3>4 DEF processor
  <2>2. CASE ~QueueRun(h)
    BY <1>4, <1>5, <2>2
    DEF Handle, Accept, RefuseCandidate, SendRun, WaitForRun, RecheckRun, table
  <2>. QED  BY <2>1, <2>2
<1>6. CASE RequestShutdown \/ StopAccepting \/ MoveBase \/ UNCHANGED vars
  BY <1>4, <1>6 DEF RequestShutdown, StopAccepting, MoveBase, vars, table
<1>. QED  BY <1>1, <1>2, <1>3, <1>5, <1>6 DEF Next

\* Everything this module shows of a daemon at once.
Sound ==
    /\ TypeOK
    /\ InHand
    /\ PublicationKnown
    /\ VerdictMatchesBase
    /\ PreparedOnBase
    /\ Carries

LEMMA SoundInit == Init => Sound
BY TypeInit, InHandInit, KnownInit DEF Init, PreparedOnBase, Carries, Sound

LEMMA SoundNext == Sound /\ [Next]_vars => Sound'
BY TypeNext, InHandNext, KnownNext, PreparedNext, CarriesNext DEF Sound

(***************************************************************************)
(* Somebody else writes the base: nothing the daemon relies on meanwhile   *)
(* is about what the base holds, and it breaks no promise of the daemon's. *)
(***************************************************************************)
own ==
    << daemon, flag, runs, nextRunId, queue, conn, pc, cur, expected, prepared,
       verdict, moves, lives, landed, acked, ahead, owed >>

LEMMA SoundBeside ==
    ASSUME Sound, UNCHANGED own, base' \in SUBSET Commit
    PROVE  Sound'
<1>. USE DEF Sound, own
<1>1. TypeOK'
  BY DEF TypeOK
<1>2. InHand'
  BY DEF InHand
<1>3. PublicationKnown' /\ VerdictMatchesBase'
  BY DEF PublicationKnown, VerdictMatchesBase, InFlight
<1>4. PreparedOnBase' /\ Carries'
  BY DEF PreparedOnBase, Carries
<1>. QED  BY <1>1, <1>2, <1>3, <1>4

LEMMA LandingBeside ==
    ASSUME UNCHANGED own, base' \in SUBSET Commit
    PROVE  [Promise!Next]_(Promise!vars)
BY DEF own, Approved, Promise!Next, Promise!External, Promise!Commit, Commit

\* Nothing but a publication and other people's moves touches the base.
LEMMA BaseKept ==
    ASSUME moves \in Nat, [Next]_vars, UNCHANGED moves, ~GitPublish, ~JjMove
    PROVE  base' = base
BY DEF Next, Start, Kill, FinishDraining, Exit, RequestShutdown, StopAccepting, MoveBase,
       Handle, Accept, RefuseCandidate, QueueRun, SendRun, WaitForRun, RecheckRun,
       ProcessQueue, Boot, Receive, StartRun, PreClone, ResolveBase, CreateTestMerge,
       CheckCandidate, PreMerge, JjSelect, JjVerify, PostMerge, CompleteRun, NotifyAll,
       vars, bounds

\* The published commit, too, has a descendant among the results.
LEMMA MergeTargetsFollow ==
    ASSUME NEW old \in Commit, NEW ours \in Commit, NEW theirs \in SUBSET Commit
    PROVE  \E u \in MergeTargets(old, ours, theirs) : Descends(u, ours)
<1> DEFINE kept == { t \in theirs \ {old} : ~(Descends(ours, t) /\ Descends(t, old)) }
<1>1. MergeTargets(old, ours, theirs) =
         IF \E t \in kept : Descends(t, ours) THEN kept ELSE kept \cup {ours}
  BY DEF MergeTargets
<1>. HIDE DEF kept
<1>. QED  BY <1>1, DescendsReflexive

(***************************************************************************)
(* A step of the daemon that is not somebody else's move of the base takes *)
(* nothing out of it: all that was there has a descendant there.           *)
(***************************************************************************)
LEMMA StepAdvances ==
    ASSUME Sound, [Next]_vars, UNCHANGED moves
    PROVE  \A old \in base : \E new \in base' : Descends(new, old)
<1>0. TypeOK /\ PreparedOnBase
  BY DEF Sound
<1>1. CASE base' = base
  BY <1>0, <1>1, DescendsReflexive DEF TypeOK
<1>2. CASE GitPublish /\ base' # base
  <2>1. base = {expected} /\ base' = {prepared}
    BY <1>2 DEF GitPublish
  <2>2. Descends(prepared, expected)
    BY <1>0, <1>2 DEF GitPublish, PreparedOnBase
  <2>. QED  BY <2>1, <2>2
<1>3. CASE JjMove
  <2>1. base' = MergeTargets(expected, prepared, base) /\ Descends(prepared, expected)
    BY <1>0, <1>3 DEF JjMove, PreparedOnBase
  <2>2. expected \in Commit /\ prepared \in Commit /\ base \in SUBSET Commit
    BY <1>0 DEF TypeOK
  <2>3. ASSUME NEW old \in base, old # expected
        PROVE  \E new \in base' : Descends(new, old)
    BY <2>1, <2>2, <2>3, MergeTargetsKeep
  <2>4. \E new \in base' : Descends(new, expected)
    <3>1. PICK new \in base' : Descends(new, prepared)
      BY <2>1, <2>2, MergeTargetsFollow
    <3>2. new \in Commit
      BY <2>1, <2>2, MergeTargetsKeep
    <3>. QED  BY <2>1, <2>2, <3>1, <3>2, DescendsTransitive
  <2>. QED  BY <2>3, <2>4
<1>. QED  BY <1>0, <1>1, <1>2, <1>3, BaseKept DEF TypeOK

\* The runs a daemon adds to landed are in the base with their candidates.
LEMMA PublicationHolds ==
    ASSUME Sound, [Next]_vars, NEW r \in landed' \ landed
    PROVE  r = cur /\ \E b \in base' : Last(runs'[r].candidate) \in ToSet(b)
<1>0. TypeOK /\ Carries
  BY DEF Sound
<1>. USE DEF Goto, Conclude
<1>1. GitPublish \/ JjMove \/ JjVerify
  BY DEF Next, Start, Kill, FinishDraining, Exit, Blank, RequestShutdown, StopAccepting,
         MoveBase, Handle, Accept, RefuseCandidate, QueueRun, SendRun, WaitForRun,
         RecheckRun, ProcessQueue, Boot, Receive, StartRun, PreClone, ResolveBase,
         CreateTestMerge, CheckCandidate, PreMerge, JjSelect, PostMerge, CompleteRun,
         NotifyAll, vars, history
<1>2. r = cur /\ runs' = runs /\ Last(runs[cur].candidate) \in ToSet(prepared)
  BY <1>0, <1>1 DEF GitPublish, JjMove, JjVerify, table, Carries
<1>3. CASE GitPublish \/ JjVerify
  <2>1. base' = {prepared}
    BY <1>3 DEF GitPublish, JjVerify
  <2>. QED  BY <1>2, <2>1
<1>4. CASE JjMove
  <2>1. base' = MergeTargets(expected, prepared, base)
    BY <1>4 DEF JjMove
  <2>2. expected \in Commit /\ prepared \in Commit /\ base \in SUBSET Commit
    BY <1>0 DEF TypeOK
  <2>3. PICK b \in base' : Descends(b, prepared)
    BY <2>1, <2>2, MergeTargetsFollow
  <2>4. b \in Commit
    BY <2>1, <2>2, MergeTargetsKeep
  <2>. QED  BY <1>2, <2>2, <2>3, <2>4, DescendantHolds
<1>. QED  BY <1>1, <1>3, <1>4, <1>2

\* A landed run keeps its candidate as long as it is remembered.
LEMMA LandedKeepsCandidate ==
    ASSUME Sound, [Next]_vars, NEW r \in landed \cap landed'
    PROVE  runs'[r].candidate = runs[r].candidate
<1>0. TypeOK /\ InHand /\ PublicationKnown /\ r \in RunId
  BY DEF Sound, TypeOK
<1>1. runs[r].status # "Absent"
  <2>1. runs[r].status \in Terminal \/ (r = cur /\ pc \in Working)
    BY <1>0 DEF PublicationKnown, InFlight, Working, PC
  <2>2. r = cur /\ pc \in Working => runs[r].status = "Running"
    BY <1>0 DEF InHand
  <2>. QED  BY <2>1, <2>2, StatusesDiffer
<1>2. CASE Start \/ Kill \/ FinishDraining
  BY <1>2 DEF Start, Kill, FinishDraining, Exit, Blank
<1>3. ASSUME NEW h \in Conn, QueueRun(h) PROVE runs'[r].candidate = runs[r].candidate
  <2>1. r # nextRunId
    BY <1>0, <1>1 DEF InHand, TypeOK, RunId
  <2>. QED  BY <1>0, <1>3, <2>1 DEF QueueRun, TypeOK
<1>4. CASE StartRun
  BY <1>0, <1>4 DEF StartRun, WithStatus, TypeOK
<1>5. CASE CompleteRun
  BY <1>0, <1>5 DEF CompleteRun, WithStatus, TypeOK
<1>6. ASSUME UNCHANGED runs PROVE runs'[r].candidate = runs[r].candidate
  BY <1>6
<1>7. CASE RequestShutdown \/ StopAccepting \/ MoveBase \/ UNCHANGED vars
  BY <1>6, <1>7 DEF RequestShutdown, StopAccepting, MoveBase, vars, table
<1>8. ASSUME NEW h \in Conn, Handle(h), ~QueueRun(h)
      PROVE  runs'[r].candidate = runs[r].candidate
  BY <1>6, <1>8
  DEF Handle, Accept, RefuseCandidate, SendRun, WaitForRun, RecheckRun, table
<1>9. CASE ProcessQueue /\ ~StartRun /\ ~CompleteRun
  BY <1>6, <1>9
  DEF ProcessQueue, Boot, Receive, PreClone, ResolveBase, CreateTestMerge, CheckCandidate,
      PreMerge, GitPublish, JjSelect, JjMove, JjVerify, PostMerge, NotifyAll, table
<1>. QED  BY <1>2, <1>3, <1>4, <1>5, <1>7, <1>8, <1>9 DEF Next

\* Other people's moves are counted, up to the bound.
LEMMA MovesCounted ==
    ASSUME [Next]_vars
    PROVE  moves' = moves \/ (moves < MaxMoves /\ moves' = moves + 1)
BY DEF Next, Start, Kill, FinishDraining, Exit, RequestShutdown, StopAccepting, MoveBase,
       Handle, Accept, RefuseCandidate, QueueRun, SendRun, WaitForRun, RecheckRun,
       ProcessQueue, Boot, Receive, StartRun, PreClone, ResolveBase, CreateTestMerge,
       CheckCandidate, PreMerge, GitPublish, JjSelect, JjMove, JjVerify, PostMerge,
       CompleteRun, NotifyAll, vars, bounds
=============================================================================
