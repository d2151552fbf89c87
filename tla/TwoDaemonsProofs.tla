-------------------------- MODULE TwoDaemonsProofs --------------------------
(***************************************************************************)
(* Machine-checked proofs about TwoDaemons, for all its constants.  What   *)
(* one daemon keeps and promises is shown in MergeQueueProofs; here it is  *)
(* instantiated for each of the two, and what one does to the base is      *)
(* shown to be among what the other's promises survive.                    *)
(***************************************************************************)
EXTENDS TwoDaemons, TLAPS

\* The facts about the first daemon, and about the other.
P1 == INSTANCE MergeQueueProofs WITH
    daemon <- daemon1, flag <- flag1, runs <- runs1, nextRunId <- nextRunId1,
    queue <- queue1, conn <- conn1, pc <- pc1, cur <- cur1, expected <- expected1,
    prepared <- prepared1, verdict <- verdict1, moves <- moves1, lives <- lives1,
    landed <- landed1, acked <- acked1, ahead <- ahead1, owed <- owed1

P2 == INSTANCE MergeQueueProofs WITH
    MaxMoves <- 0,
    daemon <- daemon2, flag <- flag2, runs <- runs2, nextRunId <- nextRunId2,
    queue <- queue2, conn <- conn2, pc <- pc2, cur <- cur2, expected <- expected2,
    prepared <- prepared2, verdict <- verdict2, moves <- moves2, lives <- lives2,
    landed <- landed2, acked <- acked2, ahead <- ahead2, owed <- owed2

-----------------------------------------------------------------------------
(***************************************************************************)
(* The first daemon.  Its operators and those the facts are stated with    *)
(* have different names; that they mean the same is shown first.           *)
(***************************************************************************)
LEMMA OneSameInit == One!Init <=> P1!Init
BY DEF One!Init, P1!Init, One!NoCommit, P1!NoCommit, One!Absent, P1!Absent, One!Idle,
       P1!Idle, One!NoRun, P1!NoRun, One!RunId, P1!RunId

LEMMA OneSameVars == UNCHANGED One!vars <=> UNCHANGED P1!vars
BY DEF One!vars, P1!vars, One!table, P1!table, One!processor, P1!processor, One!bounds,
       P1!bounds, One!history, P1!history

LEMMA OneSameNext == One!Next <=> P1!Next
<1>. USE DEF One!Blank, P1!Blank, One!RunId, P1!RunId, One!NoCommit, P1!NoCommit,
         One!NoRun, P1!NoRun, One!Absent, P1!Absent, One!Exit, P1!Exit, One!bounds,
         P1!bounds, One!Answered, P1!Answered, One!history, P1!history, One!processor,
         P1!processor, One!table, P1!table, One!Shutdown, P1!Shutdown, One!Goto, P1!Goto,
         One!WithStatus, P1!WithStatus, One!Conclude, P1!Conclude, One!PreparationFailure,
         P1!PreparationFailure, One!TestMerge, P1!TestMerge, One!Merged, P1!Merged,
         One!JjMerged, P1!JjMerged, One!GitMerged, P1!GitMerged, One!Descends,
         P1!Descends, One!Rebased, P1!Rebased, One!UniqueStack, P1!UniqueStack,
         One!ForkPoint, P1!ForkPoint, One!JjReplayed, P1!JjReplayed, One!GitReplayed,
         P1!GitReplayed, One!MergeTargets, P1!MergeTargets, One!LandedReason,
         P1!LandedReason, One!At, P1!At, One!CheckRun, P1!CheckRun, One!Last, P1!Last,
         One!IsPrefix, P1!IsPrefix, One!ToSet, P1!ToSet, One!Front, P1!Front
<1>1. One!Start <=> P1!Start
  BY DEF One!Start, P1!Start
<1>2. One!Kill <=> P1!Kill
  BY DEF One!Kill, P1!Kill
<1>3. One!RequestShutdown <=> P1!RequestShutdown
  BY DEF One!RequestShutdown, P1!RequestShutdown
<1>4. One!StopAccepting <=> P1!StopAccepting
  BY DEF One!StopAccepting, P1!StopAccepting, One!Gone, P1!Gone
<1>5. One!FinishDraining <=> P1!FinishDraining
  BY DEF One!FinishDraining, P1!FinishDraining, One!Gone, P1!Gone
<1>6. One!Boot <=> P1!Boot
  BY DEF One!Boot, P1!Boot
<1>7. One!Receive <=> P1!Receive
  BY DEF One!Receive, P1!Receive
<1>8. One!StartRun <=> P1!StartRun
  BY DEF One!StartRun, P1!StartRun
<1>9. One!PreClone <=> P1!PreClone
  BY DEF One!PreClone, P1!PreClone
<1>10. One!ResolveBase <=> P1!ResolveBase
  BY DEF One!ResolveBase, P1!ResolveBase
<1>11. One!CreateTestMerge <=> P1!CreateTestMerge
  BY DEF One!CreateTestMerge, P1!CreateTestMerge
<1>12. One!CheckCandidate <=> P1!CheckCandidate
  BY DEF One!CheckCandidate, P1!CheckCandidate
<1>13. One!PreMerge <=> P1!PreMerge
  BY DEF One!PreMerge, P1!PreMerge
<1>14. One!GitPublish <=> P1!GitPublish
  BY DEF One!GitPublish, P1!GitPublish
<1>15. One!JjSelect <=> P1!JjSelect
  BY DEF One!JjSelect, P1!JjSelect
<1>16. One!JjMove <=> P1!JjMove
  BY DEF One!JjMove, P1!JjMove
<1>17. One!JjVerify <=> P1!JjVerify
  BY DEF One!JjVerify, P1!JjVerify
<1>18. One!PostMerge <=> P1!PostMerge
  BY DEF One!PostMerge, P1!PostMerge
<1>19. One!CompleteRun <=> P1!CompleteRun
  BY DEF One!CompleteRun, P1!CompleteRun
<1>20. One!NotifyAll <=> P1!NotifyAll
  BY DEF One!NotifyAll, P1!NotifyAll
<1>21. One!MoveBase <=> P1!MoveBase
  BY DEF One!MoveBase, P1!MoveBase
<1>22. \A h \in Conn : One!Accept(h) <=> P1!Accept(h)
  BY DEF One!Accept, P1!Accept
<1>23. \A h \in Conn : One!RefuseCandidate(h) <=> P1!RefuseCandidate(h)
  BY DEF One!RefuseCandidate, P1!RefuseCandidate
<1>24. \A h \in Conn : One!QueueRun(h) <=> P1!QueueRun(h)
  BY DEF One!QueueRun, P1!QueueRun
<1>25. \A h \in Conn : One!SendRun(h) <=> P1!SendRun(h)
  BY DEF One!SendRun, P1!SendRun, One!Gone, P1!Gone
<1>26. \A h \in Conn : One!WaitForRun(h) <=> P1!WaitForRun(h)
  BY DEF One!WaitForRun, P1!WaitForRun
<1>27. \A h \in Conn : One!RecheckRun(h) <=> P1!RecheckRun(h)
  BY DEF One!RecheckRun, P1!RecheckRun
<1>. QED
  BY ONLY <1>1, <1>2, <1>3, <1>4, <1>5, <1>6, <1>7, <1>8, <1>9, <1>10, <1>11, <1>12,
          <1>13, <1>14, <1>15, <1>16, <1>17, <1>18, <1>19, <1>20, <1>21, <1>22, <1>23,
          <1>24, <1>25, <1>26, <1>27
  DEF One!Next, P1!Next, One!ProcessQueue, P1!ProcessQueue, One!Handle, P1!Handle

LEMMA OneSamePromise ==
    /\ One!Promise!Init <=> P1!Promise!Init
    /\ One!Promise!Next <=> P1!Promise!Next
    /\ UNCHANGED One!Promise!vars <=> UNCHANGED P1!Promise!vars
<1>. USE DEF One!Approved, P1!Approved
<1>1. One!Promise!Init <=> P1!Promise!Init
  BY DEF One!Promise!Init, P1!Promise!Init, One!Promise!Commit, P1!Promise!Commit
<1>2. UNCHANGED One!Promise!vars <=> UNCHANGED P1!Promise!vars
  BY DEF One!Promise!vars, P1!Promise!vars
<1>3. One!Promise!Next <=> P1!Promise!Next
  BY DEF One!Promise!Next, P1!Promise!Next, One!Promise!External, P1!Promise!External,
         One!Promise!Approve, P1!Promise!Approve, One!Promise!Withdraw,
         P1!Promise!Withdraw, One!Promise!Land, P1!Promise!Land, One!Promise!LandBeside,
         P1!Promise!LandBeside, One!Promise!Descends, P1!Promise!Descends,
         One!Promise!IsPrefix, P1!Promise!IsPrefix, One!Promise!Ticket, P1!Promise!Ticket,
         One!Promise!Commit, P1!Promise!Commit
<1>. QED  BY <1>1, <1>2, <1>3

\* What a step of this daemon keeps and promises ...
LEMMA OneStart ==
    One!Init => P1!Sound /\ One!Promise!Init
<1>. USE VCSAssumption, MergeModeAssumption, CandidateAssumption, OutsiderAssumption,
         BoundAssumption DEF Commit, P1!Commit
<1>1. P1!Init => P1!Sound
  BY P1!SoundInit
<1>2. P1!Init => P1!Promise!Init
  BY P1!LandingInit
<1>. QED  BY <1>1, <1>2, OneSameInit, OneSamePromise

LEMMA OneStep ==
    ASSUME P1!Sound, [One!Next]_(One!vars)
    PROVE  /\ P1!Sound'
           /\ base' \in SUBSET Commit
           /\ [One!Promise!Next]_(One!Promise!vars)
           /\ moves1' = moves1 \/ (moves1 < MaxMoves /\ moves1' = moves1 + 1)
<1>. USE VCSAssumption, MergeModeAssumption, CandidateAssumption, OutsiderAssumption,
         BoundAssumption DEF Commit, P1!Commit
<1>1. [P1!Next]_(P1!vars)
  BY OneSameNext, OneSameVars
<1>2. P1!Sound'
  BY <1>1, P1!SoundNext
<1>3. base' \in SUBSET Commit
  BY <1>2 DEF P1!Sound, P1!TypeOK
<1>4. [P1!Promise!Next]_(P1!Promise!vars)
  BY <1>1, <1>2, P1!LandingStep DEF P1!Sound
<1>5. moves1' = moves1 \/ (moves1 < MaxMoves /\ moves1' = moves1 + 1)
  BY <1>1, P1!MovesCounted
<1>. QED  BY <1>2, <1>3, <1>4, <1>5, OneSamePromise

LEMMA OneAdvances ==
    ASSUME P1!Sound, [One!Next]_(One!vars), UNCHANGED moves1
    PROVE  \A old \in base : \E new \in base' : Descends(new, old)
<1>. USE VCSAssumption, MergeModeAssumption, CandidateAssumption, OutsiderAssumption,
         BoundAssumption DEF Commit, P1!Commit
<1>1. [P1!Next]_(P1!vars)
  BY OneSameNext, OneSameVars
<1>2. \A old \in base : \E new \in base' : P1!Descends(new, old)
  BY <1>1, P1!StepAdvances
<1>. QED
  BY <1>2 DEF Descends, IsPrefix, P1!Descends, P1!IsPrefix

LEMMA OneLands ==
    ASSUME P1!Sound, [One!Next]_(One!vars), NEW r \in landed1'
    PROVE  \/ r \in landed1 /\ runs1'[r].candidate = runs1[r].candidate
           \/ \E b \in base' : Last(runs1'[r].candidate) \in ToSet(b)
<1>. USE VCSAssumption, MergeModeAssumption, CandidateAssumption, OutsiderAssumption,
         BoundAssumption DEF Commit, P1!Commit
<1>1. [P1!Next]_(P1!vars)
  BY OneSameNext, OneSameVars
<1>2. CASE r \in landed1
  BY <1>1, <1>2, P1!LandedKeepsCandidate
<1>3. CASE r \notin landed1
  <2>1. \E b \in base' : P1!Last(runs1'[r].candidate) \in P1!ToSet(b)
    BY <1>1, <1>3, P1!PublicationHolds
  <2>. QED  BY <2>1 DEF Last, ToSet, P1!Last, P1!ToSet
<1>. QED  BY <1>2, <1>3

\* ... and a step of the other one, which is somebody else's to this.
LEMMA OneBeside ==
    ASSUME P1!Sound, UNCHANGED first, base' \in SUBSET Commit
    PROVE  /\ P1!Sound'
           /\ [One!Promise!Next]_(One!Promise!vars)
<1>. USE VCSAssumption, MergeModeAssumption, CandidateAssumption, OutsiderAssumption,
         BoundAssumption DEF Commit, P1!Commit
<1>1. UNCHANGED P1!own
  BY DEF first, P1!own
<1>2. P1!Sound'
  BY <1>1, P1!SoundBeside
<1>3. [P1!Promise!Next]_(P1!Promise!vars)
  BY <1>1, P1!LandingBeside
<1>. QED  BY <1>2, <1>3, OneSamePromise

LEMMA OneShows ==
    ASSUME P1!Sound
    PROVE  /\ base \in SUBSET Commit
           /\ moves1 \in Nat
           /\ One!VerdictMatchesBase
BY DEF P1!Sound, P1!TypeOK, P1!Commit, Commit, One!VerdictMatchesBase,
       P1!VerdictMatchesBase, One!RunId, P1!RunId, One!Terminal, P1!Terminal,
       One!LandedStatus, P1!LandedStatus

-----------------------------------------------------------------------------
(***************************************************************************)
(* The other daemon, likewise.                                             *)
(***************************************************************************)
LEMMA OtherSameInit == Other!Init <=> P2!Init
BY DEF Other!Init, P2!Init, Other!NoCommit, P2!NoCommit, Other!Absent, P2!Absent,
       Other!Idle, P2!Idle, Other!NoRun, P2!NoRun, Other!RunId, P2!RunId

LEMMA OtherSameVars == UNCHANGED Other!vars <=> UNCHANGED P2!vars
BY DEF Other!vars, P2!vars, Other!table, P2!table, Other!processor, P2!processor,
       Other!bounds, P2!bounds, Other!history, P2!history

LEMMA OtherSameNext == Other!Next <=> P2!Next
<1>. USE DEF Other!Blank, P2!Blank, Other!RunId, P2!RunId, Other!NoCommit, P2!NoCommit,
         Other!NoRun, P2!NoRun, Other!Absent, P2!Absent, Other!Exit, P2!Exit,
         Other!bounds, P2!bounds, Other!Answered, P2!Answered, Other!history, P2!history,
         Other!processor, P2!processor, Other!table, P2!table, Other!Shutdown,
         P2!Shutdown, Other!Goto, P2!Goto, Other!WithStatus, P2!WithStatus,
         Other!Conclude, P2!Conclude, Other!PreparationFailure, P2!PreparationFailure,
         Other!TestMerge, P2!TestMerge, Other!Merged, P2!Merged, Other!JjMerged,
         P2!JjMerged, Other!GitMerged, P2!GitMerged, Other!Descends, P2!Descends,
         Other!Rebased, P2!Rebased, Other!UniqueStack, P2!UniqueStack, Other!ForkPoint,
         P2!ForkPoint, Other!JjReplayed, P2!JjReplayed, Other!GitReplayed, P2!GitReplayed,
         Other!MergeTargets, P2!MergeTargets, Other!LandedReason, P2!LandedReason,
         Other!At, P2!At, Other!CheckRun, P2!CheckRun, Other!Last, P2!Last,
         Other!IsPrefix, P2!IsPrefix, Other!ToSet, P2!ToSet, Other!Front, P2!Front
<1>1. Other!Start <=> P2!Start
  BY DEF Other!Start, P2!Start
<1>2. Other!Kill <=> P2!Kill
  BY DEF Other!Kill, P2!Kill
<1>3. Other!RequestShutdown <=> P2!RequestShutdown
  BY DEF Other!RequestShutdown, P2!RequestShutdown
<1>4. Other!StopAccepting <=> P2!StopAccepting
  BY DEF Other!StopAccepting, P2!StopAccepting, Other!Gone, P2!Gone
<1>5. Other!FinishDraining <=> P2!FinishDraining
  BY DEF Other!FinishDraining, P2!FinishDraining, Other!Gone, P2!Gone
<1>6. Other!Boot <=> P2!Boot
  BY DEF Other!Boot, P2!Boot
<1>7. Other!Receive <=> P2!Receive
  BY DEF Other!Receive, P2!Receive
<1>8. Other!StartRun <=> P2!StartRun
  BY DEF Other!StartRun, P2!StartRun
<1>9. Other!PreClone <=> P2!PreClone
  BY DEF Other!PreClone, P2!PreClone
<1>10. Other!ResolveBase <=> P2!ResolveBase
  BY DEF Other!ResolveBase, P2!ResolveBase
<1>11. Other!CreateTestMerge <=> P2!CreateTestMerge
  BY DEF Other!CreateTestMerge, P2!CreateTestMerge
<1>12. Other!CheckCandidate <=> P2!CheckCandidate
  BY DEF Other!CheckCandidate, P2!CheckCandidate
<1>13. Other!PreMerge <=> P2!PreMerge
  BY DEF Other!PreMerge, P2!PreMerge
<1>14. Other!GitPublish <=> P2!GitPublish
  BY DEF Other!GitPublish, P2!GitPublish
<1>15. Other!JjSelect <=> P2!JjSelect
  BY DEF Other!JjSelect, P2!JjSelect
<1>16. Other!JjMove <=> P2!JjMove
  BY DEF Other!JjMove, P2!JjMove
<1>17. Other!JjVerify <=> P2!JjVerify
  BY DEF Other!JjVerify, P2!JjVerify
<1>18. Other!PostMerge <=> P2!PostMerge
  BY DEF Other!PostMerge, P2!PostMerge
<1>19. Other!CompleteRun <=> P2!CompleteRun
  BY DEF Other!CompleteRun, P2!CompleteRun
<1>20. Other!NotifyAll <=> P2!NotifyAll
  BY DEF Other!NotifyAll, P2!NotifyAll
<1>21. Other!MoveBase <=> P2!MoveBase
  BY DEF Other!MoveBase, P2!MoveBase
<1>22. \A h \in Conn : Other!Accept(h) <=> P2!Accept(h)
  BY DEF Other!Accept, P2!Accept
<1>23. \A h \in Conn : Other!RefuseCandidate(h) <=> P2!RefuseCandidate(h)
  BY DEF Other!RefuseCandidate, P2!RefuseCandidate
<1>24. \A h \in Conn : Other!QueueRun(h) <=> P2!QueueRun(h)
  BY DEF Other!QueueRun, P2!QueueRun
<1>25. \A h \in Conn : Other!SendRun(h) <=> P2!SendRun(h)
  BY DEF Other!SendRun, P2!SendRun, Other!Gone, P2!Gone
<1>26. \A h \in Conn : Other!WaitForRun(h) <=> P2!WaitForRun(h)
  BY DEF Other!WaitForRun, P2!WaitForRun
<1>27. \A h \in Conn : Other!RecheckRun(h) <=> P2!RecheckRun(h)
  BY DEF Other!RecheckRun, P2!RecheckRun
<1>. QED
  BY ONLY <1>1, <1>2, <1>3, <1>4, <1>5, <1>6, <1>7, <1>8, <1>9, <1>10, <1>11, <1>12,
          <1>13, <1>14, <1>15, <1>16, <1>17, <1>18, <1>19, <1>20, <1>21, <1>22, <1>23,
          <1>24, <1>25, <1>26, <1>27
  DEF Other!Next, P2!Next, Other!ProcessQueue, P2!ProcessQueue, Other!Handle, P2!Handle

LEMMA OtherSamePromise ==
    /\ Other!Promise!Init <=> P2!Promise!Init
    /\ Other!Promise!Next <=> P2!Promise!Next
    /\ UNCHANGED Other!Promise!vars <=> UNCHANGED P2!Promise!vars
<1>. USE DEF Other!Approved, P2!Approved
<1>1. Other!Promise!Init <=> P2!Promise!Init
  BY DEF Other!Promise!Init, P2!Promise!Init, Other!Promise!Commit, P2!Promise!Commit
<1>2. UNCHANGED Other!Promise!vars <=> UNCHANGED P2!Promise!vars
  BY DEF Other!Promise!vars, P2!Promise!vars
<1>3. Other!Promise!Next <=> P2!Promise!Next
  BY DEF Other!Promise!Next, P2!Promise!Next, Other!Promise!External, P2!Promise!External,
         Other!Promise!Approve, P2!Promise!Approve, Other!Promise!Withdraw,
         P2!Promise!Withdraw, Other!Promise!Land, P2!Promise!Land,
         Other!Promise!LandBeside, P2!Promise!LandBeside, Other!Promise!Descends,
         P2!Promise!Descends, Other!Promise!IsPrefix, P2!Promise!IsPrefix,
         Other!Promise!Ticket, P2!Promise!Ticket, Other!Promise!Commit, P2!Promise!Commit
<1>. QED  BY <1>1, <1>2, <1>3

\* What a step of this daemon keeps and promises ...
LEMMA OtherStart ==
    Other!Init => P2!Sound /\ Other!Promise!Init
<1>. USE VCSAssumption, MergeModeAssumption, CandidateAssumption, OutsiderAssumption,
         BoundAssumption DEF Commit, P2!Commit
<1>1. P2!Init => P2!Sound
  BY P2!SoundInit
<1>2. P2!Init => P2!Promise!Init
  BY P2!LandingInit
<1>. QED  BY <1>1, <1>2, OtherSameInit, OtherSamePromise

LEMMA OtherStep ==
    ASSUME P2!Sound, [Other!Next]_(Other!vars)
    PROVE  /\ P2!Sound'
           /\ base' \in SUBSET Commit
           /\ [Other!Promise!Next]_(Other!Promise!vars)
           /\ moves2' = moves2 \/ (moves2 < 0 /\ moves2' = moves2 + 1)
<1>. USE VCSAssumption, MergeModeAssumption, CandidateAssumption, OutsiderAssumption,
         BoundAssumption DEF Commit, P2!Commit
<1>1. [P2!Next]_(P2!vars)
  BY OtherSameNext, OtherSameVars
<1>2. P2!Sound'
  BY <1>1, P2!SoundNext
<1>3. base' \in SUBSET Commit
  BY <1>2 DEF P2!Sound, P2!TypeOK
<1>4. [P2!Promise!Next]_(P2!Promise!vars)
  BY <1>1, <1>2, P2!LandingStep DEF P2!Sound
<1>5. moves2' = moves2 \/ (moves2 < 0 /\ moves2' = moves2 + 1)
  BY <1>1, P2!MovesCounted
<1>. QED  BY <1>2, <1>3, <1>4, <1>5, OtherSamePromise

LEMMA OtherAdvances ==
    ASSUME P2!Sound, [Other!Next]_(Other!vars), UNCHANGED moves2
    PROVE  \A old \in base : \E new \in base' : Descends(new, old)
<1>. USE VCSAssumption, MergeModeAssumption, CandidateAssumption, OutsiderAssumption,
         BoundAssumption DEF Commit, P2!Commit
<1>1. [P2!Next]_(P2!vars)
  BY OtherSameNext, OtherSameVars
<1>2. \A old \in base : \E new \in base' : P2!Descends(new, old)
  BY <1>1, P2!StepAdvances
<1>. QED
  BY <1>2 DEF Descends, IsPrefix, P2!Descends, P2!IsPrefix

LEMMA OtherLands ==
    ASSUME P2!Sound, [Other!Next]_(Other!vars), NEW r \in landed2'
    PROVE  \/ r \in landed2 /\ runs2'[r].candidate = runs2[r].candidate
           \/ \E b \in base' : Last(runs2'[r].candidate) \in ToSet(b)
<1>. USE VCSAssumption, MergeModeAssumption, CandidateAssumption, OutsiderAssumption,
         BoundAssumption DEF Commit, P2!Commit
<1>1. [P2!Next]_(P2!vars)
  BY OtherSameNext, OtherSameVars
<1>2. CASE r \in landed2
  BY <1>1, <1>2, P2!LandedKeepsCandidate
<1>3. CASE r \notin landed2
  <2>1. \E b \in base' : P2!Last(runs2'[r].candidate) \in P2!ToSet(b)
    BY <1>1, <1>3, P2!PublicationHolds
  <2>. QED  BY <2>1 DEF Last, ToSet, P2!Last, P2!ToSet
<1>. QED  BY <1>2, <1>3

\* ... and a step of the other one, which is somebody else's to this.
LEMMA OtherBeside ==
    ASSUME P2!Sound, UNCHANGED second, base' \in SUBSET Commit
    PROVE  /\ P2!Sound'
           /\ [Other!Promise!Next]_(Other!Promise!vars)
<1>. USE VCSAssumption, MergeModeAssumption, CandidateAssumption, OutsiderAssumption,
         BoundAssumption DEF Commit, P2!Commit
<1>1. UNCHANGED P2!own
  BY DEF second, P2!own
<1>2. P2!Sound'
  BY <1>1, P2!SoundBeside
<1>3. [P2!Promise!Next]_(P2!Promise!vars)
  BY <1>1, P2!LandingBeside
<1>. QED  BY <1>2, <1>3, OtherSamePromise

LEMMA OtherShows ==
    ASSUME P2!Sound
    PROVE  /\ base \in SUBSET Commit
           /\ moves2 \in Nat
           /\ Other!VerdictMatchesBase
BY DEF P2!Sound, P2!TypeOK, P2!Commit, Commit, Other!VerdictMatchesBase,
       P2!VerdictMatchesBase, Other!RunId, P2!RunId, Other!Terminal, P2!Terminal,
       Other!LandedStatus, P2!LandedStatus

-----------------------------------------------------------------------------
(***************************************************************************)
(* Both daemons at once.                                                   *)
(***************************************************************************)
BothSound == P1!Sound /\ P2!Sound

LEMMA BothStart == Init => BothSound
BY OneStart, OtherStart DEF Init, BothSound

\* Each step is a step of one daemon and, to the other, somebody else's.
LEMMA BothStep ==
    ASSUME BothSound, [Next]_vars
    PROVE  \/ [One!Next]_(One!vars) /\ UNCHANGED second
           \/ [Other!Next]_(Other!vars) /\ UNCHANGED first
BY DEF Next, vars, first, second, One!vars, One!table, One!processor, One!bounds,
       One!history

LEMMA BothNext ==
    ASSUME BothSound, [Next]_vars
    PROVE  /\ BothSound'
           /\ base' \in SUBSET Commit
           /\ [One!Promise!Next]_(One!Promise!vars)
           /\ [Other!Promise!Next]_(Other!Promise!vars)
<1>. USE DEF BothSound
<1>1. CASE [One!Next]_(One!vars) /\ UNCHANGED second
  <2>1. /\ P1!Sound' /\ base' \in SUBSET Commit
        /\ [One!Promise!Next]_(One!Promise!vars)
    BY <1>1, OneStep
  <2>. QED  BY <1>1, <2>1, OtherBeside
<1>2. CASE [Other!Next]_(Other!vars) /\ UNCHANGED first
  <2>1. /\ P2!Sound' /\ base' \in SUBSET Commit
        /\ [Other!Promise!Next]_(Other!Promise!vars)
    BY <1>2, OtherStep
  <2>. QED  BY <1>2, <2>1, OneBeside
<1>. QED  BY <1>1, <1>2, BothStep

(***************************************************************************)
(* However the two daemons' operations interleave, and however each is     *)
(* killed and restarted: each one's verdicts tell the truth about its own  *)
(* publications (publish_prepared_candidate, complete_run).                *)
(***************************************************************************)
THEOREM BothVerdictsCorrect == Spec => []VerdictsMatchBase
<1>1. Init => BothSound
  BY BothStart
<1>2. BothSound /\ [Next]_vars => BothSound'
  BY BothNext
<1>3. BothSound => VerdictsMatchBase
  BY OneShows, OtherShows DEF BothSound, VerdictsMatchBase
<1>. QED  BY <1>1, <1>2, <1>3, PTL DEF Spec

(***************************************************************************)
(* Each daemon implements Landing beside the other: the other's landings   *)
(* are moves of the base like anybody's, which it neither overwrites nor   *)
(* builds on unchecked.                                                    *)
(***************************************************************************)
THEOREM BothImplementLanding == Spec => EachImplementsLanding
<1>1. Init => BothSound /\ One!Promise!Init /\ Other!Promise!Init
  BY BothStart, OneStart, OtherStart DEF Init
<1>2. BothSound /\ [Next]_vars
         => /\ BothSound'
            /\ [One!Promise!Next]_(One!Promise!vars)
            /\ [Other!Promise!Next]_(Other!Promise!vars)
  BY BothNext
<1>. QED
  BY <1>1, <1>2, PTL
  DEF Spec, EachImplementsLanding, One!ImplementsLanding, Other!ImplementsLanding,
      One!Promise!Spec, Other!Promise!Spec

-----------------------------------------------------------------------------
(***************************************************************************)
(* What the two have landed together.                                      *)
(***************************************************************************)

\* The second daemon's share of other people's moves is none.
LEMMA MovesOfOthers ==
    ASSUME BothSound, [Next]_vars
    PROVE  /\ moves1' = moves1 \/ moves1' = moves1 + 1
           /\ UNCHANGED moves2
<1>. USE DEF BothSound
<1>1. moves1 \in Nat /\ moves2 \in Nat
  BY OneShows, OtherShows
<1>2. CASE [One!Next]_(One!vars) /\ UNCHANGED second
  BY <1>2, OneStep DEF second
<1>3. CASE [Other!Next]_(Other!vars) /\ UNCHANGED first
  BY <1>1, <1>3, OtherStep DEF first
<1>. QED  BY <1>2, <1>3, BothStep

LEMMA BaseAdvances ==
    ASSUME BothSound, [Next]_vars, UNCHANGED moves1
    PROVE  \A old \in base : \E new \in base' : Descends(new, old)
<1>. USE DEF BothSound
<1>1. CASE [One!Next]_(One!vars) /\ UNCHANGED second
  BY <1>1, OneAdvances
<1>2. CASE [Other!Next]_(Other!vars) /\ UNCHANGED first
  BY <1>2, MovesOfOthers, OtherAdvances
<1>. QED  BY <1>1, <1>2, BothStep

(***************************************************************************)
(* A step of either daemon that is not somebody else's move leaves every   *)
(* target of the base a descendant: for any histories, any candidates,     *)
(* both version control systems and both merge modes.                      *)
(***************************************************************************)
THEOREM BaseNeverRecedes == Spec => BaseOnlyAdvances
<1>1. Init => BothSound
  BY BothStart
<1>2. BothSound /\ [Next]_vars => BothSound'
  BY BothNext
<1>3. BothSound /\ [Next]_vars
         => [ UNCHANGED moves1 =>
                \A old \in base : \E new \in base' : Descends(new, old) ]_vars
  BY BaseAdvances
<1>. QED  BY <1>1, <1>2, <1>3, PTL DEF Spec, BaseOnlyAdvances

\* A descendant holds every change its ancestor holds.
LEMMA HoldsOn ==
    ASSUME NEW t \in Commit, NEW u \in Commit, Descends(u, t)
    PROVE  ToSet(t) \subseteq ToSet(u)
<1>1. P1!Descends(u, t)
  BY DEF Descends, IsPrefix, P1!Descends, P1!IsPrefix
<1>2. P1!ToSet(t) \subseteq P1!ToSet(u)
  BY <1>1, P1!DescendantHolds, VCSAssumption, MergeModeAssumption, CandidateAssumption,
     OutsiderAssumption, BoundAssumption
  DEF Commit, P1!Commit
<1>. QED  BY <1>2 DEF ToSet, P1!ToSet

\* Where a change stands in the base as long as nobody else rewinds it.
LEMMA ChangeStays ==
    ASSUME BothSound, [Next]_vars, UNCHANGED moves1, NEW change,
           NEW old \in base, change \in ToSet(old)
    PROVE  \E b \in base' : change \in ToSet(b)
<1>1. PICK new \in base' : Descends(new, old)
  BY BaseAdvances
<1>2. base \in SUBSET Commit /\ base' \in SUBSET Commit
  BY BothNext, OneShows DEF BothSound
<1>. QED  BY <1>1, <1>2, HoldsOn

LEMMA LandingsStayNext ==
    ASSUME BothSound, LandingsStay, [Next]_vars
    PROVE  LandingsStay'
<1>. USE DEF BothSound
<1>1. SUFFICES ASSUME moves1' = 0 PROVE LandingsStay'
  BY DEF LandingsStay
<1>2. moves1 = 0 /\ UNCHANGED moves1
  BY <1>1, MovesOfOthers, OneShows
<1>3. ASSUME NEW r \in landed1'
      PROVE  \E b \in base' : Last(runs1'[r].candidate) \in ToSet(b)
  <2>1. CASE \E b \in base' : Last(runs1'[r].candidate) \in ToSet(b)
    BY <2>1
  <2>2. CASE r \in landed1 /\ runs1'[r].candidate = runs1[r].candidate
    <3>1. PICK old \in base : Last(runs1[r].candidate) \in ToSet(old)
      BY <1>2, <2>2 DEF LandingsStay
    <3>. QED  BY <1>2, <2>2, <3>1, ChangeStays
  <2>3. CASE [One!Next]_(One!vars)
    BY <1>3, <2>1, <2>2, <2>3, OneLands
  <2>4. CASE UNCHANGED first
    BY <1>3, <2>2, <2>4 DEF first
  <2>. QED  BY <2>3, <2>4, BothStep
<1>4. ASSUME NEW r \in landed2'
      PROVE  \E b \in base' : Last(runs2'[r].candidate) \in ToSet(b)
  <2>1. CASE \E b \in base' : Last(runs2'[r].candidate) \in ToSet(b)
    BY <2>1
  <2>2. CASE r \in landed2 /\ runs2'[r].candidate = runs2[r].candidate
    <3>1. PICK old \in base : Last(runs2[r].candidate) \in ToSet(old)
      BY <1>2, <2>2 DEF LandingsStay
    <3>. QED  BY <1>2, <2>2, <3>1, ChangeStays
  <2>3. CASE [Other!Next]_(Other!vars)
    BY <1>4, <2>1, <2>2, <2>3, OtherLands
  <2>4. CASE UNCHANGED second
    BY <1>4, <2>2, <2>4 DEF second
  <2>. QED  BY <2>3, <2>4, BothStep
<1>. QED  BY <1>3, <1>4 DEF LandingsStay

(***************************************************************************)
(* What either daemon has landed is in the base until somebody else moves  *)
(* it: no interleaving of two publications, and no merge of two concurrent *)
(* jj operations, takes a landed candidate out again.                      *)
(***************************************************************************)
THEOREM LandedIsKept == Spec => []LandingsStay
<1>1. Init => BothSound /\ LandingsStay
  BY BothStart DEF Init, LandingsStay, One!Init, Other!Init
<1>2. BothSound /\ LandingsStay /\ [Next]_vars => (BothSound /\ LandingsStay)'
  BY BothNext, LandingsStayNext
<1>. QED  BY <1>1, <1>2, PTL DEF Spec
=============================================================================
