----------------------- MODULE CandidateCheckProofs -----------------------
(***************************************************************************)
(* What holds of a candidate check for any number of jobs, workers and     *)
(* control requests.                                                       *)
(***************************************************************************)
EXTENDS CandidateCheck, TLAPS

\* The part of the types that the argument about verdicts rests on.
Shape ==
    /\ completions \in [Job -> JobStatus \cup {"none"}]
    /\ conn \in [Conn -> Control]
    /\ \A c \in Conn : conn[c].at # "unused" => conn[c].target \in Job
    /\ anyFailed \in BOOLEAN

\* A failure recorded for a job is a failure of the check, and remains one; the
\* verdict is given last, when nothing is recorded any more.
FailureKept ==
    /\ \A j \in Job : completions[j] = "Failed" => anyFailed
    /\ \A c \in Conn : conn[c].reply = "Failed" => anyFailed
    /\ result # "none" => phase = "done"
    /\ result = "passed" => ~anyFailed

IInv == Shape /\ FailureKept

-----------------------------------------------------------------------------
\* A handler's update of its own request keeps the shape, and adds no failure
\* that was not recorded before.
LEMMA WithIsControl ==
    ASSUME NEW c \in Control, NEW at \in {"connected", "accepted", "checking", "parked", "done"},
           NEW reply \in {"none", "JobStarted", "JobNotFound", "StepLogged",
                          "StepMarkedFailed", "Error", "lost"} \cup JobStatus
    PROVE  /\ With(at, reply, c) \in Control
           /\ With(at, reply, c).reply = reply
           /\ With(at, reply, c).target = c.target
BY DEF With, Control

LEMMA InitIInv == Init => IInv
<1>1. /\ Unused \in Control
      /\ Unused.reply = "none"
      /\ Unused.at = "unused"
  BY DEF Unused, Control
<1> QED
  BY <1>1 DEF Init, IInv, Shape, FailureKept

LEMMA UpdateKeeps ==
    ASSUME IInv, NEW c \in Conn, NEW new \in Control, conn' = [conn EXCEPT ![c] = new],
           new.reply = "Failed" => anyFailed, new.target \in Job,
           UNCHANGED <<completions, phase, result, anyFailed>>
    PROVE  IInv'
<1>1. conn \in [Conn -> Control]
  BY DEF IInv, Shape
<1>2. \A d \in Conn : conn'[d] = IF d = c THEN new ELSE conn[d]
  BY <1>1
<1>3. conn' \in [Conn -> Control]
  BY <1>1
<1> QED
  BY <1>2, <1>3 DEF IInv, Shape, FailureKept

LEMMA RepliedKeeps ==
    ASSUME IInv, NEW c \in Conn,
           NEW reply \in {"none", "JobStarted", "JobNotFound", "StepLogged",
                          "StepMarkedFailed", "Error", "lost"} \cup JobStatus,
           conn[c].at # "unused", conn' = Replied(c, reply), reply = "Failed" => anyFailed,
           UNCHANGED <<completions, phase, result, anyFailed>>
    PROVE  IInv'
<1>1. conn[c] \in Control /\ conn[c].target \in Job
  BY DEF IInv, Shape
<1>2. /\ With("done", reply, conn[c]) \in Control
      /\ With("done", reply, conn[c]).reply = reply
      /\ With("done", reply, conn[c]).target = conn[c].target
  BY <1>1, WithIsControl
<1> QED
  BY <1>1, <1>2, UpdateKeeps DEF Replied

LEMMA MovedKeeps ==
    ASSUME IInv, NEW c \in Conn, NEW at \in {"accepted", "checking", "parked"},
           conn[c].at # "unused", conn' = Moved(c, at),
           UNCHANGED <<completions, phase, result, anyFailed>>
    PROVE  IInv'
<1>1. conn[c] \in Control /\ conn[c].target \in Job
  BY DEF IInv, Shape
<1>2. /\ With(at, "none", conn[c]) \in Control
      /\ With(at, "none", conn[c]).reply = "none"
      /\ With(at, "none", conn[c]).target = conn[c].target
  BY <1>1 DEF With, Control
<1> QED
  BY <1>1, <1>2, UpdateKeeps DEF Moved

LEMMA IdleKeeps ==
    ASSUME IInv, UNCHANGED <<completions, conn, phase, result, anyFailed>>
    PROVE  IInv'
BY DEF IInv, Shape, FailureKept

LEMMA RequestKeeps == ASSUME IInv, NEW c \in Conn, Request(c) PROVE IInv'
<1>1. PICK j \in Job, command \in Command, awaited \in Awaited :
         \E target \in Targets(j, command) :
            conn' = [conn EXCEPT ![c] =
                        [at |-> "connected", by |-> j, command |-> command,
                         target |-> target, awaited |-> awaited, reply |-> "none"]]
  BY DEF Request
<1>2. PICK target \in Targets(j, command) :
         conn' = [conn EXCEPT ![c] =
                     [at |-> "connected", by |-> j, command |-> command,
                      target |-> target, awaited |-> awaited, reply |-> "none"]]
  BY <1>1
<1>3. target \in Job /\ awaited \in BOOLEAN
  BY ScriptAssumption DEF Targets
<1> DEFINE new == [at |-> "connected", by |-> j, command |-> command,
                   target |-> target, awaited |-> awaited, reply |-> "none"]
<1>4. new \in Control /\ new.reply = "none" /\ new.target \in Job
  BY <1>3 DEF Control
<1>5. UNCHANGED <<completions, phase, result, anyFailed>>
  BY DEF Request, states, coordinator
<1>6. conn' = [conn EXCEPT ![c] = new]
  BY <1>2
<1> HIDE DEF new
<1> QED
  BY <1>4, <1>5, <1>6, UpdateKeeps

LEMMA HandlerKeeps == ASSUME IInv, NEW c \in Conn, Handler(c) PROVE IInv'
<1>1. CASE AcceptControl(c)
  BY <1>1, MovedKeeps DEF AcceptControl, states, coordinator
<1>2. CASE Refused(c)
  BY <1>2, RepliedKeeps DEF Refused, states, coordinator
<1>3. CASE StartJob(c)
  BY <1>3, RepliedKeeps DEF StartJob, Handles, states, coordinator
<1>4. CASE WaitForJob(c)
  BY <1>4, RepliedKeeps, MovedKeeps DEF WaitForJob, Handles, states, coordinator
<1>5. CASE CheckCompletion(c)
  <2>1. UNCHANGED <<completions, phase, result, anyFailed>>
    BY <1>5 DEF CheckCompletion, states, coordinator
  <2>2. conn[c].at # "unused" /\ conn[c].target \in Job
    BY <1>5 DEF CheckCompletion, IInv, Shape
  <2>3. CASE conn' = Moved(c, "parked")
    BY <2>1, <2>2, <2>3, MovedKeeps
  <2>4. CASE /\ completions[conn[c].target] # "none"
             /\ conn' = Replied(c, completions[conn[c].target])
    <3>1. completions[conn[c].target] \in JobStatus
      BY <2>2, <2>4 DEF IInv, Shape
    <3>2. completions[conn[c].target] = "Failed" => anyFailed
      BY <2>2 DEF IInv, FailureKept
    <3> QED
      BY <2>1, <2>2, <2>4, <3>1, <3>2, RepliedKeeps
  <2> QED
    BY <1>5, <2>3, <2>4 DEF CheckCompletion
<1>6. CASE LogStep(c)
  BY <1>6, RepliedKeeps DEF LogStep, Handles, coordinator
<1>7. CASE MarkStepFailed(c)
  BY <1>7, RepliedKeeps DEF MarkStepFailed, Handles, coordinator
<1> QED
  BY <1>1, <1>2, <1>3, <1>4, <1>5, <1>6, <1>7 DEF Handler

-----------------------------------------------------------------------------
\* The coordinator records a completion only before the verdict, and gives the
\* verdict from what it recorded.
LEMMA RecordKeeps == ASSUME IInv, RecordCompletion PROVE IInv'
<1>1. JobOutcome \in JobStatus
  BY DEF JobOutcome, JobStatus
<1>2. /\ anyFailed' = (anyFailed \/ JobOutcome = "Failed")
      /\ completions' = [completions EXCEPT ![completed.job] = JobOutcome]
      /\ conn' = [c \in Conn |-> Woken(conn[c])]
      /\ phase = "record"
      /\ phase' \in {"attest", "collect"}
      /\ result' = result
  BY DEF RecordCompletion, FinishJob
<1>3. \A c \in Conn : /\ Woken(conn[c]) \in Control
                      /\ Woken(conn[c]).reply = "Failed" => conn[c].reply = "Failed"
                      /\ Woken(conn[c]).at # "unused" => conn[c].at # "unused"
                      /\ Woken(conn[c]).target = conn[c].target
  <2> SUFFICES ASSUME NEW c \in Conn
               PROVE  /\ Woken(conn[c]) \in Control
                      /\ Woken(conn[c]).reply = "Failed" => conn[c].reply = "Failed"
                      /\ Woken(conn[c]).at # "unused" => conn[c].at # "unused"
                      /\ Woken(conn[c]).target = conn[c].target
    OBVIOUS
  <2>1. conn[c] \in Control
    BY DEF IInv, Shape
  <2>2. /\ With("checking", "none", conn[c]) \in Control
        /\ With("checking", "none", conn[c]).reply = "none"
        /\ With("checking", "none", conn[c]).target = conn[c].target
    BY <2>1, WithIsControl
  <2> QED
    BY <2>1, <2>2 DEF Woken
<1>4. Shape'
  <2>1. completions' \in [Job -> JobStatus \cup {"none"}]
    BY <1>1, <1>2 DEF IInv, Shape
  <2>2. anyFailed' \in BOOLEAN
    BY <1>2 DEF IInv, Shape
  <2>3. /\ conn' \in [Conn -> Control]
        /\ \A c \in Conn : conn'[c].at # "unused" => conn'[c].target \in Job
    BY <1>2, <1>3 DEF IInv, Shape
  <2> QED
    BY <2>1, <2>2, <2>3 DEF Shape
<1>5. \A j \in Job : completions'[j] = "Failed" => anyFailed'
  BY <1>2 DEF IInv, Shape, FailureKept
<1>6. \A c \in Conn : conn'[c].reply = "Failed" => anyFailed'
  BY <1>2, <1>3 DEF IInv, FailureKept
<1>7. result = "none"
  BY <1>2 DEF IInv, FailureKept
<1> QED
  BY <1>2, <1>4, <1>5, <1>6, <1>7 DEF IInv, FailureKept

LEMMA CoordinatorKeeps == ASSUME IInv, Coordinator PROVE IInv'
<1>1. CASE CountStarted
  BY <1>1, IdleKeeps DEF CountStarted, states, control
<1>2. CASE SnapshotSteps
  <2>1. UNCHANGED <<completions, conn, anyFailed, result>> /\ phase = "collect"
    BY <1>2 DEF SnapshotSteps, states, control
  <2> QED
    BY <2>1 DEF IInv, Shape, FailureKept
<1>3. CASE RecordCompletion
  BY <1>3, RecordKeeps
<1>4. CASE Attest
  <2>1. /\ UNCHANGED <<completions, conn>>
        /\ phase = "attest"
        /\ anyFailed => anyFailed'
        /\ anyFailed' \in BOOLEAN
        /\ \/ phase' = "stop" /\ result' = result
           \/ phase' = "done" /\ result' = "error"
    BY <1>4 DEF Attest, states, control, IInv, Shape
  <2> QED
    BY <2>1 DEF IInv, Shape, FailureKept
<1>5. CASE SignalShutdown
  <2>1. UNCHANGED <<completions, conn, anyFailed, result>> /\ phase = "stop"
    BY <1>5 DEF SignalShutdown, states
  <2> QED
    BY <2>1 DEF IInv, Shape, FailureKept
<1>6. CASE WakeAndReturn
  <2>1. /\ UNCHANGED <<completions, conn, anyFailed>>
        /\ phase' = "done"
        /\ result' = IF anyFailed THEN "failed" ELSE "passed"
    BY <1>6 DEF WakeAndReturn, states
  <2> QED
    BY <2>1 DEF IInv, Shape, FailureKept
<1> QED
  BY <1>1, <1>2, <1>3, <1>4, <1>5, <1>6 DEF Coordinator

LEMMA WorkerKeeps == ASSUME IInv, NEW w \in Worker, WorkerStep(w) PROVE IInv'
BY IdleKeeps DEF WorkerStep, Take, Announce, Report, Retire, states, control, coordinator

LEMMA NextKeeps == IInv /\ [Next]_vars => IInv'
<1> SUFFICES ASSUME IInv, [Next]_vars PROVE IInv'
  OBVIOUS
<1>1. CASE Script
  BY <1>1, RequestKeeps DEF Script
<1>2. CASE \E w \in Worker : WorkerStep(w)
  BY <1>2, WorkerKeeps
<1>3. CASE StopListening
  BY <1>3, IdleKeeps DEF StopListening, states, coordinator
<1>4. CASE \E c \in Conn : Handler(c)
  BY <1>4, HandlerKeeps
<1>5. CASE Coordinator
  BY <1>5, CoordinatorKeeps
<1>6. CASE UNCHANGED vars
  BY <1>6, IdleKeeps DEF vars, states, control, coordinator
<1> QED
  BY <1>1, <1>2, <1>3, <1>4, <1>5, <1>6 DEF Next

\* No waiter is ever told that a job failed while the check passes: for every
\* number of jobs, workers and requests, and whatever the job scripts do.
THEOREM WaitsAgree == Spec => []WaitsAgreeWithVerdict
<1>1. IInv => WaitsAgreeWithVerdict
  BY DEF IInv, FailureKept, WaitsAgreeWithVerdict
<1> QED
  BY <1>1, InitIInv, NextKeeps, PTL DEF Spec
=============================================================================
