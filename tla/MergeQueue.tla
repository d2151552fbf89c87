---------------------------- MODULE MergeQueue ----------------------------
(***************************************************************************)
(* The merge-queue daemon (src/cmd/mq.rs): the run table behind its mutex  *)
(* and condition variable, the detached connection handlers, the channel   *)
(* to the single queue processor, the processor's way through one run, the *)
(* publication to the base branch that everybody else may move as well,    *)
(* graceful shutdown, forced kill and restart.                             *)
(***************************************************************************)
EXTENDS Integration, FiniteSets

CONSTANTS
    Candidate,      \* the commits clients submit
    Outsider,       \* changes other people commit to the base
    Conn,           \* the connections clients open, one request each
    MaxRuns,        \* bound: runs a daemon process accepts
    MaxMoves,       \* bound: times others move the base
    MaxLives        \* bound: daemon processes started

ASSUME CandidateAssumption == Candidate \subseteq Commit \ {<<>>}
ASSUME OutsiderAssumption == Outsider \subseteq Change
ASSUME BoundAssumption == MaxRuns \in Nat /\ MaxMoves \in Nat /\ MaxLives \in Nat

RunId == 1..MaxRuns
NoRun == 0          \* RunId(1) is the first the daemon assigns
Shutdown == 0       \* QueueMessage::Shutdown among the run messages
NoCommit == <<>>    \* the empty history, before anything is resolved

LandedReason == IF MergeMode = "rebase" THEN "PassedRebased" ELSE "PassedMerged"
PreparationFailure ==
    IF MergeMode = "rebase" THEN "FailedTestRebase" ELSE "FailedTestMerge"
LandedStatus == {"PassedRebased", "PassedMerged"}
Terminal == LandedStatus \cup
    { "PassedNoMerge", "FailedPreClone", "FailedBaseResolve",
      "FailedTestRebase", "FailedTestMerge", "FailedPostClone",
      "FailedCheck", "FailedPreMerge", "FailedMerge",
      "FailedPublicationUnverified" }

Run == [candidate : Candidate \cup {NoCommit}, noMerge : BOOLEAN,
        status : {"Absent", "Queued", "Running"} \cup Terminal]
Absent == [candidate |-> NoCommit, noMerge |-> FALSE, status |-> "Absent"]
WithStatus(run, status) ==
    [candidate |-> run.candidate, noMerge |-> run.noMerge, status |-> status]

\* Where a connection handler stands; "sending" is after queue_run and before
\* the send to the processor, "parked" is inside run_completed.wait.
Handler ==
    { f \in [at : {"idle", "accepted", "sending", "checking", "parked", "done"},
             run : RunId \cup {NoRun},
             reply : {"none", "added", "error", "lost", "unknown"} \cup Terminal] :
      f.at \in {"sending", "checking", "parked"} => f.run # NoRun }
Idle == [at |-> "idle", run |-> NoRun, reply |-> "none"]
At(place, handler) == [at |-> place, run |-> handler.run, reply |-> handler.reply]
Answered(reply, handler) == [at |-> "done", run |-> handler.run, reply |-> reply]

VARIABLES
    base,       \* the targets of the configured base name in the repository
    daemon,     \* "down", "serving", "draining"
    flag,       \* the shutdown AtomicBool
    runs,       \* MQState.runs
    nextRunId,  \* MQState.next_run_id
    queue,      \* the mpsc channel to the processor
    conn,       \* the connection handlers, with what each was answered
    pc,         \* the queue processor's place in process_queue
    cur,        \* its run_id
    expected,   \* its resolved_base
    prepared,   \* its merged_candidate
    verdict,    \* its run_info.status, private until complete_run
    moves,      \* how often others moved the base
    lives,      \* how many daemon processes were started
    \* history of this daemon process, read by properties only
    landed,     \* the runs whose publication took effect
    acked,      \* the runs answered with CandidateAdded
    ahead,      \* for each run, the runs acked before it was queued
    owed        \* the runs acked when the shutdown marker was sent

table == <<runs, nextRunId>>
processor == <<pc, cur, expected, prepared, verdict>>
history == <<landed, acked, ahead, owed>>
bounds == <<moves, lives>>
vars == <<base, daemon, flag, table, queue, conn, processor, bounds, history>>

PC == { "down", "boot", "noVCS", "dead", "recv", "start", "preClone", "resolve",
        "prepare", "check", "preMerge", "publish", "jjMove", "jjVerify",
        "postMerge", "complete", "notify" }
Gone == {"noVCS", "dead"}   \* process_queue returned, at its start or from its loop

TypeOK ==
    /\ base \in SUBSET Commit
    /\ daemon \in {"down", "serving", "draining"}
    /\ flag \in BOOLEAN
    /\ runs \in [RunId -> Run]
    /\ nextRunId \in 1..(MaxRuns + 1)
    /\ queue \in Seq(RunId \cup {Shutdown})
    /\ conn \in [Conn -> Handler]
    /\ pc \in PC
    /\ cur \in RunId \cup {NoRun}
    /\ expected \in Commit
    /\ prepared \in Commit
    /\ verdict \in Terminal \cup {"Running"}
    /\ moves \in Nat
    /\ lives \in Nat
    /\ landed \in SUBSET RunId
    /\ acked \in SUBSET RunId
    /\ ahead \in [RunId -> SUBSET RunId]
    /\ owed \in SUBSET RunId

-----------------------------------------------------------------------------
\* The in-memory state of a daemon process: none is persisted, so every exit
\* and every start leave it as it is here.
Blank ==
    /\ flag' = FALSE
    /\ runs' = [r \in RunId |-> Absent]
    /\ nextRunId' = 1
    /\ queue' = <<>>
    /\ cur' = NoRun
    /\ expected' = NoCommit
    /\ prepared' = NoCommit
    /\ verdict' = "Running"
    /\ landed' = {}
    /\ acked' = {}
    /\ ahead' = [r \in RunId |-> {}]
    /\ owed' = {}

Init ==
    /\ base = {NoCommit}
    /\ daemon = "down"
    /\ flag = FALSE
    /\ runs = [r \in RunId |-> Absent]
    /\ nextRunId = 1
    /\ queue = <<>>
    /\ conn = [h \in Conn |-> Idle]
    /\ pc = "down"
    /\ cur = NoRun
    /\ expected = NoCommit
    /\ prepared = NoCommit
    /\ verdict = "Running"
    /\ moves = 0
    /\ lives = 0
    /\ landed = {}
    /\ acked = {}
    /\ ahead = [r \in RunId |-> {}]
    /\ owed = {}

Start ==
    /\ daemon = "down"
    /\ lives < MaxLives
    /\ daemon' = "serving"
    /\ pc' = "boot"
    /\ lives' = lives + 1
    /\ Blank
    /\ UNCHANGED <<base, conn, moves>>

\* The process ends: handlers and waiters die with it, unanswered.
Exit ==
    /\ daemon' = "down"
    /\ pc' = "down"
    /\ conn' = [h \in Conn |-> IF conn[h].at \in {"idle", "done"}
                               THEN conn[h]
                               ELSE Answered("lost", conn[h])]
    /\ Blank
    /\ UNCHANGED <<base, bounds>>

\* SIGKILL by the stop client, or any other death without cleanup.
Kill == daemon # "down" /\ Exit

\* An acknowledged Shutdown request, or SIGTERM.
RequestShutdown ==
    /\ daemon = "serving"
    /\ ~flag
    /\ flag' = TRUE
    /\ UNCHANGED <<base, daemon, table, queue, conn, processor, bounds, history>>

\* Mutant: the marker overtakes what is queued.
MarkerFirst ==
    /\ daemon = "serving"
    /\ flag
    /\ daemon' = "draining"
    /\ queue' = IF pc \in Gone THEN queue ELSE <<Shutdown>> \o queue
    /\ owed' = acked
    /\ UNCHANGED <<base, flag, table, conn, processor, bounds, landed, acked, ahead>>

\* Mutant: the loop is left without sending the marker.
NoMarker ==
    /\ daemon = "serving"
    /\ flag
    /\ daemon' = "draining"
    /\ UNCHANGED <<base, flag, table, queue, conn, processor, bounds, history>>

\* accept returns with the flag set: leave the loop, send the marker.
StopAccepting ==
    /\ daemon = "serving"
    /\ flag
    /\ daemon' = "draining"
    /\ queue' = IF pc \in Gone THEN queue ELSE Append(queue, Shutdown)
    /\ owed' = acked
    /\ UNCHANGED <<base, flag, table, conn, processor, bounds, landed, acked, ahead>>

\* queue_worker.join() returned.
FinishDraining ==
    /\ daemon = "draining"
    /\ pc \in Gone
    /\ Exit

-----------------------------------------------------------------------------
(* Connection handlers.  Each runs in its own detached thread and goes on  *)
(* after the accept loop has ended, until the process does.                *)

Accept(h) ==
    /\ daemon = "serving"
    /\ ~flag
    /\ conn[h].at = "idle"
    /\ conn' = [conn EXCEPT ![h] = At("accepted", conn[h])]
    /\ UNCHANGED <<base, daemon, flag, table, queue, processor, bounds, history>>

\* AddCandidate, the resolution failed: nothing was recorded.
RefuseCandidate(h) ==
    /\ conn[h].at = "accepted"
    /\ conn' = [conn EXCEPT ![h] = Answered("error", conn[h])]
    /\ UNCHANGED <<base, daemon, flag, table, queue, processor, bounds, history>>

\* Mutant: the next run gets the same ID.
QueueRunSameId(h) ==
    /\ conn[h].at = "accepted"
    /\ nextRunId <= MaxRuns
    /\ \E c \in Candidate, noMerge \in BOOLEAN :
          runs' = [runs EXCEPT ![nextRunId] =
                      [candidate |-> c, noMerge |-> noMerge, status |-> "Queued"]]
    /\ conn' = [conn EXCEPT ![h] = [at |-> "sending", run |-> nextRunId, reply |-> "none"]]
    /\ ahead' = [ahead EXCEPT ![nextRunId] = acked]
    /\ UNCHANGED <<base, daemon, flag, nextRunId, queue, processor, bounds, landed,
                   acked, owed>>

\* AddCandidate, first half: queue_run, under the table's lock.
QueueRun(h) ==
    /\ conn[h].at = "accepted"
    /\ nextRunId <= MaxRuns
    /\ \E c \in Candidate, noMerge \in BOOLEAN :
          runs' = [runs EXCEPT ![nextRunId] =
                      [candidate |-> c, noMerge |-> noMerge, status |-> "Queued"]]
    /\ nextRunId' = nextRunId + 1
    /\ conn' = [conn EXCEPT ![h] = [at |-> "sending", run |-> nextRunId, reply |-> "none"]]
    /\ ahead' = [ahead EXCEPT ![nextRunId] = acked]
    /\ UNCHANGED <<base, daemon, flag, queue, processor, bounds, landed, acked, owed>>

\* Mutant: a send that is repeated.
SendRunTwice(h) ==
    /\ conn[h].at = "sending"
    /\ pc \notin Gone
    /\ queue' = queue \o <<conn[h].run, conn[h].run>>
    /\ conn' = [conn EXCEPT ![h] = Answered("added", conn[h])]
    /\ acked' = acked \cup {conn[h].run}
    /\ UNCHANGED <<base, daemon, flag, table, processor, bounds, landed, ahead, owed>>

\* AddCandidate, second half: the send fails once the receiver is gone, and
\* then the run stays in the table.
SendRun(h) ==
    /\ conn[h].at = "sending"
    /\ \/ /\ pc \notin Gone
          /\ queue' = Append(queue, conn[h].run)
          /\ conn' = [conn EXCEPT ![h] = Answered("added", conn[h])]
          /\ acked' = acked \cup {conn[h].run}
       \/ /\ pc \in Gone
          /\ conn' = [conn EXCEPT ![h] = Answered("error", conn[h])]
          /\ UNCHANGED <<queue, acked>>
    /\ UNCHANGED <<base, daemon, flag, table, processor, bounds, landed, ahead, owed>>

\* Mutant: any status is an answer, not only a completed run's.
CheckRunEager(h, r) ==
    conn' = [conn EXCEPT ![h] =
                [at    |-> "done",
                 run   |-> r,
                 reply |-> IF runs[r].status = "Absent" THEN "unknown"
                                                        ELSE runs[r].status]]

\* WaitForRun: one turn of the loop, holding the table's lock throughout.
CheckRun(h, r) ==
    LET found == runs[r].status IN
    conn' = [conn EXCEPT ![h] =
                IF found \in {"Queued", "Running"}
                THEN [at |-> "parked", run |-> r, reply |-> "none"]
                ELSE [at |-> "done", run |-> r,
                      reply |-> IF found = "Absent" THEN "unknown" ELSE found]]

WaitForRun(h) ==
    /\ conn[h].at = "accepted"
    /\ \E r \in RunId : CheckRun(h, r)
    /\ UNCHANGED <<base, daemon, flag, table, queue, processor, bounds, history>>

RecheckRun(h) ==
    /\ conn[h].at = "checking"
    /\ CheckRun(h, conn[h].run)
    /\ UNCHANGED <<base, daemon, flag, table, queue, processor, bounds, history>>

-----------------------------------------------------------------------------
(* The queue processor.                                                    *)

Goto(label) == pc' = label /\ UNCHANGED <<cur, expected, prepared, verdict>>

\* The run ends with this status, recorded in the private run_info.
Conclude(status) ==
    /\ verdict' = status
    /\ pc' = "complete"
    /\ UNCHANGED <<cur, expected, prepared>>

\* get_vcs at the start of the thread: on failure it returns, dropping the
\* receiver with what was sent by then.
Boot ==
    /\ pc = "boot"
    /\ \/ Goto("recv") /\ UNCHANGED queue
       \/ Goto("noVCS") /\ queue' = <<>>
    /\ UNCHANGED <<base, daemon, flag, table, conn, bounds, history>>

\* Mutant: the newest message first.
ReceiveNewest ==
    /\ pc = "recv"
    /\ queue # <<>>
    /\ IF Last(queue) = Shutdown
       THEN /\ Goto("dead")
            /\ queue' = <<>>
       ELSE /\ pc' = "start"
            /\ cur' = Last(queue)
            /\ queue' = Front(queue)
            /\ UNCHANGED <<expected, prepared, verdict>>
    /\ UNCHANGED <<base, daemon, flag, table, conn, bounds, history>>

Receive ==
    /\ pc = "recv"
    /\ queue # <<>>
    /\ IF Head(queue) = Shutdown
       THEN /\ Goto("dead")
            /\ queue' = <<>>
       ELSE /\ pc' = "start"
            /\ cur' = Head(queue)
            /\ queue' = Tail(queue)
            /\ UNCHANGED <<expected, prepared, verdict>>
    /\ UNCHANGED <<base, daemon, flag, table, conn, bounds, history>>

StartRun ==
    /\ pc = "start"
    /\ IF runs[cur].status = "Queued"
       THEN /\ runs' = [runs EXCEPT ![cur] = WithStatus(@, "Running")]
            /\ pc' = "preClone"
            /\ UNCHANGED cur
       ELSE /\ pc' = "recv"
            /\ cur' = NoRun
            /\ UNCHANGED runs
    /\ UNCHANGED <<base, daemon, flag, nextRunId, queue, conn, expected, prepared,
                   verdict, bounds, history>>

PreClone ==
    /\ pc = "preClone"
    /\ Goto("resolve") \/ Conclude("FailedPreClone")
    /\ UNCHANGED <<base, daemon, flag, table, queue, conn, bounds, history>>

\* A conflicted base name does not resolve.
ResolveBase ==
    /\ pc = "resolve"
    /\ \/ /\ \E b \in base : base = {b} /\ expected' = b
          /\ pc' = "prepare"
          /\ UNCHANGED <<cur, prepared, verdict>>
       \/ Conclude("FailedBaseResolve")
    /\ UNCHANGED <<base, daemon, flag, table, queue, conn, bounds, history>>

\* Conflicts, and every other failure of the commands, end the run.
CreateTestMerge ==
    /\ pc = "prepare"
    /\ \/ /\ prepared' \in TestMerge(expected, runs[cur].candidate)
          /\ pc' = "check"
          /\ UNCHANGED <<cur, expected, verdict>>
       \/ Conclude(PreparationFailure)
    /\ UNCHANGED <<base, daemon, flag, table, queue, conn, bounds, history>>

\* run_candidate_check and the verdict on its result.
CheckCandidate ==
    /\ pc = "check"
    /\ \/ Conclude("FailedPostClone")
       \/ Conclude("FailedCheck")
       \/ IF runs[cur].noMerge THEN Conclude("PassedNoMerge") ELSE Goto("preMerge")
    /\ UNCHANGED <<base, daemon, flag, table, queue, conn, bounds, history>>

\* Mutant: the base is resolved again after the check.
PreMergeResolvesAgain ==
    /\ pc = "preMerge"
    /\ pc' = "publish"
    /\ \E b \in base : expected' = b
    /\ UNCHANGED <<base, daemon, flag, table, queue, conn, cur, prepared, verdict,
                   bounds, history>>

PreMerge ==
    /\ pc = "preMerge"
    /\ Goto("publish") \/ Conclude("FailedPreMerge")
    /\ UNCHANGED <<base, daemon, flag, table, queue, conn, bounds, history>>

\* Mutant: update-ref without the expected old value.
GitPublishBlind ==
    /\ pc = "publish"
    /\ VCS = "git"
    /\ base' = {prepared}
    /\ landed' = landed \cup {cur}
    /\ Goto("postMerge")
    /\ UNCHANGED <<daemon, flag, table, queue, conn, bounds, acked, ahead, owed>>

\* git update-ref <ref> <prepared> <expected>: compare and swap, or an error.
GitPublish ==
    /\ pc = "publish"
    /\ VCS = "git"
    /\ \/ /\ base = {expected}
          /\ base' = {prepared}
          /\ landed' = landed \cup {cur}
          /\ Goto("postMerge")
       \/ /\ Conclude("FailedMerge")
          /\ UNCHANGED <<base, landed>>
    /\ UNCHANGED <<daemon, flag, table, queue, conn, bounds, acked, ahead, owed>>

\* jj bookmark move --from "<name> & <expected>": the operation loads its view
\* of the repository and selects the bookmark in it.
JjSelect ==
    /\ pc = "publish"
    /\ VCS = "jj"
    /\ \/ base = {expected} /\ prepared # expected /\ Goto("jjMove")
       \/ /\ prepared = expected                   \* "No bookmarks to update."
          /\ \E b \in base : base = {b}
          /\ Goto("jjVerify")
       \/ Conclude("FailedMerge")
    /\ UNCHANGED <<base, daemon, flag, table, queue, conn, bounds, history>>

\* Mutant: the bookmark is set, whatever others committed meanwhile.
JjSet ==
    /\ pc = "jjMove"
    /\ VCS = "jj"
    /\ base' = {prepared}
    /\ landed' = landed \cup {cur}
    /\ Goto("jjVerify")
    /\ UNCHANGED <<daemon, flag, table, queue, conn, bounds, acked, ahead, owed>>

\* The operation is committed and merged with what others committed meanwhile.
\* That jj reports an error after the commit is left out.
JjMove ==
    /\ pc = "jjMove"
    /\ VCS = "jj"
    /\ base' = MergeTargets(expected, prepared, base)
    /\ landed' = landed \cup {cur}
    /\ Goto("jjVerify")
    /\ UNCHANGED <<daemon, flag, table, queue, conn, bounds, acked, ahead, owed>>

\* Mutant: every failed verification is an ordinary merge failure.
JjVerifyOrFail ==
    /\ pc = "jjVerify"
    /\ VCS = "jj"
    /\ \/ /\ base = {prepared}
          /\ landed' = landed \cup {cur}
          /\ Goto("postMerge")
       \/ /\ Conclude("FailedMerge")
          /\ UNCHANGED landed
    /\ UNCHANGED <<base, daemon, flag, table, queue, conn, bounds, acked, ahead, owed>>

\* The name is resolved again after the move: anything but the one expected
\* commit is a failure, told apart by whether a bookmark was moved at all.
JjVerify ==
    /\ pc = "jjVerify"
    /\ VCS = "jj"
    /\ \/ /\ base = {prepared}
          /\ landed' = landed \cup {cur}
          /\ Goto("postMerge")
       \/ /\ Conclude(IF prepared = expected THEN "FailedMerge"
                      ELSE "FailedPublicationUnverified")
          /\ UNCHANGED landed
    /\ UNCHANGED <<base, daemon, flag, table, queue, conn, bounds, acked, ahead, owed>>

\* Mutant: a failed post-merge hook fails the run.
PostMergeFails ==
    /\ pc = "postMerge"
    /\ Conclude(LandedReason) \/ Conclude("FailedMerge")
    /\ UNCHANGED <<base, daemon, flag, table, queue, conn, bounds, history>>

\* Whatever the post-merge hook returns, the run passed.
PostMerge ==
    /\ pc = "postMerge"
    /\ Conclude(LandedReason)
    /\ UNCHANGED <<base, daemon, flag, table, queue, conn, bounds, history>>

\* complete_run publishes the run_info under the lock ...
CompleteRun ==
    /\ pc = "complete"
    /\ runs' = [runs EXCEPT ![cur] = WithStatus(@, verdict)]
    /\ Goto("notify")
    /\ UNCHANGED <<base, daemon, flag, nextRunId, queue, conn, bounds, history>>

\* Mutant: notify_one.
NotifyOne ==
    /\ pc = "notify"
    /\ LET parked == { h \in Conn : conn[h].at = "parked" } IN
          IF parked = {} THEN UNCHANGED conn
          ELSE \E h \in parked : conn' = [conn EXCEPT ![h] = At("checking", conn[h])]
    /\ pc' = "recv"
    /\ cur' = NoRun
    /\ expected' = NoCommit
    /\ prepared' = NoCommit
    /\ verdict' = "Running"
    /\ UNCHANGED <<base, daemon, flag, table, queue, bounds, history>>

\* ... and wakes every waiter after releasing it.
NotifyAll ==
    /\ pc = "notify"
    /\ conn' = [h \in Conn |-> IF conn[h].at = "parked"
                               THEN At("checking", conn[h])
                               ELSE conn[h]]
    /\ pc' = "recv"
    /\ cur' = NoRun
    /\ expected' = NoCommit
    /\ prepared' = NoCommit
    /\ verdict' = "Running"
    /\ UNCHANGED <<base, daemon, flag, table, queue, bounds, history>>

-----------------------------------------------------------------------------
\* Other people's updates: commit on top, rewind, or settle a conflict.
MoveBase ==
    /\ moves < MaxMoves
    /\ moves' = moves + 1
    /\ \E b \in base :
          \/ \E x \in Outsider : base' = {Append(b, x)}
          \/ \E k \in 0..Len(b) : base' = {SubSeq(b, 1, k)}
    /\ base' # base
    /\ UNCHANGED <<daemon, flag, table, queue, conn, processor, lives, history>>

Handle(h) ==
    \/ Accept(h) \/ RefuseCandidate(h) \/ QueueRun(h) \/ SendRun(h)
    \/ WaitForRun(h) \/ RecheckRun(h)

ProcessQueue ==
    \/ Boot \/ Receive \/ StartRun \/ PreClone \/ ResolveBase \/ CreateTestMerge
    \/ CheckCandidate \/ PreMerge \/ GitPublish \/ JjSelect \/ JjMove \/ JjVerify
    \/ PostMerge \/ CompleteRun \/ NotifyAll

Next ==
    \/ Start \/ Kill \/ RequestShutdown \/ StopAccepting \/ FinishDraining
    \/ \E h \in Conn : Handle(h)
    \/ ProcessQueue
    \/ MoveBase

Spec == Init /\ [][Next]_vars

(***************************************************************************)
(* Threads that can run do: the processor (whose hooks and jobs are taken  *)
(* to end), the accept loop once woken by the shutdown, the main thread's  *)
(* join, and the handlers' straight-line halves.  Nobody need connect, ask *)
(* for a shutdown, move the base, kill the daemon or start another.        *)
(***************************************************************************)
Fairness ==
    /\ WF_vars(ProcessQueue)
    /\ WF_vars(StopAccepting)
    /\ WF_vars(FinishDraining)
    /\ \A h \in Conn : WF_vars(SendRun(h)) /\ WF_vars(RecheckRun(h))

FairSpec == Spec /\ Fairness

-----------------------------------------------------------------------------
(* What the daemon promises.                                               *)

(***************************************************************************)
(* The daemon publishes the integration its check approved, from the very  *)
(* base that was resolved for that check, and loses nothing others pushed  *)
(* to the base between the resolution and the publication: every step is   *)
(* one of Landing, whose ticket is the processor's prepared run between a  *)
(* passed check and its publication (process_queue,                        *)
(* publish_prepared_candidate).                                            *)
(***************************************************************************)
Approved ==
    IF pc \in {"preMerge", "publish", "jjMove"}
    THEN {[from |-> expected, to |-> prepared]}
    ELSE {}

Promise == INSTANCE Landing WITH approved <- Approved, ConcurrentViews <- (VCS = "jj")

ImplementsLanding == Promise!Spec

(***************************************************************************)
(* The terminal status tells the truth about the base: a run is reported   *)
(* merged or rebased exactly when its publication took effect, a movement  *)
(* that could not be verified is reported as such, and every other outcome *)
(* (also of a validation-only run) means this run did not move the base.   *)
(***************************************************************************)
VerdictMatchesBase ==
    \A r \in RunId : runs[r].status \in Terminal =>
        /\ r \in landed <=>
              runs[r].status \in LandedStatus \cup {"FailedPublicationUnverified"}
        /\ r \in landed => ~runs[r].noMerge

\* Who is to see that run r gets its result.
Holders(r) ==
    { <<"queue", i>> : i \in { j \in DOMAIN queue : queue[j] = r } }
    \cup { <<"handler", h>> : h \in { g \in Conn :
                                  conn[g].at = "sending" /\ conn[g].run = r } }
    \cup { <<"processor", p>> : p \in { q \in {pc} : cur = r /\ q # "notify" } }

(***************************************************************************)
(* As long as there is a processor, every run without a result is in       *)
(* exactly one pair of hands (the handler about to send it, the channel or *)
(* the processor), and a finished run is in nobody's: no run is lost       *)
(* between queue_run and send, and none is processed twice.  A processor   *)
(* that returned, also one that found no VCS at its start, leaves what is  *)
(* unfinished in nobody's hands.                                           *)
(***************************************************************************)
OneHolder ==
    pc \notin Gone \cup {"down"} =>
        \A r \in RunId :
            Cardinality(Holders(r)) =
                (IF runs[r].status \in {"Queued", "Running"} THEN 1 ELSE 0)

(***************************************************************************)
(* A client that was told its candidate is queued is served before anyone  *)
(* whose run was queued after that answer: when a run has started, every   *)
(* run acknowledged before it was queued has its result.                   *)
(***************************************************************************)
ServedInAckOrder ==
    \A r \in RunId : runs[r].status \notin {"Absent", "Queued"} =>
        \A q \in ahead[r] : runs[q].status \in Terminal

(***************************************************************************)
(* A result, once anybody can have read it, is never revised while the     *)
(* daemon lives.                                                           *)
(***************************************************************************)
ResultIsFinal ==
    [][ \A r \in RunId :
          runs[r].status \in Terminal /\ daemon' # "down" => runs'[r] = runs[r] ]_vars

(***************************************************************************)
(* Graceful shutdown finishes the work sent to the processor before the    *)
(* shutdown marker: when the processor has left its loop and the main      *)
(* thread's join can return, each such run has its result                  *)
(* (run_daemon_loop).  The exception is in the code and not in its         *)
(* specification: a processor that found no VCS at its start never enters  *)
(* its loop, and the process exits without the results of the runs whose   *)
(* submission it had acknowledged before that.                             *)
(***************************************************************************)
DrainedBeforeExit ==
    daemon = "draining" /\ pc = "dead" =>
        \A r \in owed : runs[r].status \in Terminal

(***************************************************************************)
(* mq wait: a handler waiting for a run whose submission was acknowledged  *)
(* gets its answer (or dies with the daemon), unless the processor could   *)
(* not even start.                                                         *)
(***************************************************************************)
AckedWaitAnswered ==
    \A h \in Conn :
        conn[h].at \in {"checking", "parked"} /\ conn[h].run \in acked
            ~> conn[h].at = "done" \/ (daemon = "serving" /\ pc = "noVCS")

(***************************************************************************)
(* A requested shutdown ends the process without the forced kill, whatever *)
(* is queued and whoever is waiting.                                       *)
(***************************************************************************)
ShutdownCompletes == flag ~> daemon = "down"
=============================================================================
