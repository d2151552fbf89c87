-------------------------- MODULE CandidateCheck --------------------------
(***************************************************************************)
(* One candidate check from the moment its jobs can run (src/cmd/check.rs, *)
(* src/cmd/worker.rs): the worker pool and its two channels, the control   *)
(* socket with a detached thread per request, the job states behind a      *)
(* mutex and a condition variable, the coordinator's message loop, and the *)
(* way the threads end after the verdict.                                  *)
(***************************************************************************)
EXTENDS Integers, Sequences, SequencesExt, FiniteSets

CONSTANTS
    Job, Main,      \* job names; the one the coordinator queues itself
    Worker,         \* the worker threads ("parallelism")
    Conn,           \* bound: the `selfci` commands the jobs run, one request each
    Command,        \* the kinds of command the job scripts use
    Awaited,        \* whether a script awaits a command, or leaves it behind
    WaitsFor,       \* which jobs' scripts wait for which jobs
    WaitsForChildren \* whether a script waits for the jobs it started

ASSUME JobAssumption == Main \in Job
ASSUME ScriptAssumption ==
    /\ Command \subseteq {"start", "wait", "log", "fail", "failIgnored"}
    /\ Awaited \subseteq BOOLEAN
    /\ WaitsFor \subseteq Job \X Job
    /\ WaitsForChildren \in BOOLEAN

NoJob == "no job"
ASSUME NoJobAssumption == NoJob \notin Job

StepStatus == {"Running", "Success", "Failed", "FailedIgnored"}
JobStatus == {"Succeeded", "Failed"}
Message == [kind : {"Started", "Completed"}, job : Job, ok : BOOLEAN]

\* A request, its handler, and what the client was answered.
Control ==
    [at : {"unused", "connected", "accepted", "checking", "parked", "done"},
     by : Job \cup {NoJob}, command : Command \cup {"none"},
     target : Job \cup {NoJob}, awaited : BOOLEAN,
     reply : {"none", "JobStarted", "JobNotFound", "StepLogged",
              "StepMarkedFailed", "Error", "lost"} \cup JobStatus]
Unused == [at |-> "unused", by |-> NoJob, command |-> "none",
           target |-> NoJob, awaited |-> FALSE, reply |-> "none"]
With(at, reply, c) ==
    [at |-> at, by |-> c.by, command |-> c.command, target |-> c.target,
     awaited |-> c.awaited, reply |-> reply]

VARIABLES
    usedNames,   \* used_job_names
    jobs,        \* the channel to the workers
    messages,    \* the channel to the coordinator
    worker,      \* each worker's place and job
    steps,       \* JobStates.steps
    completions, \* JobStates.completions
    conn,        \* the control requests
    listener,    \* "accepting", "exited"
    shutdown,    \* listener_shutdown
    wakeup,      \* the coordinator's own connection is in the backlog
    phase,       \* the coordinator's place
    completed,   \* the Completed message in its hands, with the step snapshot
    active,      \* active_jobs
    allJobs,     \* all_jobs
    anyFailed,   \* any_job_failed
    result,      \* what run_candidate_check returned
    counted      \* history: the jobs whose Started message was counted

states == <<steps, completions>>
control == <<conn, listener, shutdown, wakeup>>
coordinator == <<phase, completed, active, allJobs, anyFailed, result, counted>>
vars == <<usedNames, jobs, messages, worker, states, control, coordinator>>

Nothing == [job |-> NoJob, ok |-> FALSE, stepFailed |-> FALSE]

TypeOK ==
    /\ usedNames \subseteq Job
    /\ jobs \in Seq(Job)
    /\ messages \in Seq(Message)
    /\ worker \in [Worker -> [at : {"idle", "taken", "running", "exited"},
                              job : Job \cup {NoJob}]]
    /\ steps \in [Job -> Seq(StepStatus)]
    /\ completions \in [Job -> JobStatus \cup {"none"}]
    /\ conn \in [Conn -> Control]
    /\ listener \in {"accepting", "exited"}
    /\ shutdown \in BOOLEAN
    /\ wakeup \in BOOLEAN
    /\ phase \in {"collect", "record", "attest", "stop", "wake", "done"}
    /\ completed \in [job : Job \cup {NoJob}, ok : BOOLEAN, stepFailed : BOOLEAN]
    /\ active \in Nat
    /\ allJobs \in Seq(Job \X JobStatus)
    /\ anyFailed \in BOOLEAN
    /\ result \in {"none", "passed", "failed", "error"}
    /\ counted \subseteq Job

Init ==
    /\ usedNames = {Main}
    /\ jobs = <<Main>>
    /\ messages = <<>>
    /\ worker = [w \in Worker |-> [at |-> "idle", job |-> NoJob]]
    /\ steps = [j \in Job |-> <<>>]
    /\ completions = [j \in Job |-> "none"]
    /\ conn = [c \in Conn |-> Unused]
    /\ listener = "accepting"
    /\ shutdown = FALSE
    /\ wakeup = FALSE
    /\ phase = "collect"
    /\ completed = Nothing
    /\ active = 0
    /\ allJobs = <<>>
    /\ anyFailed = FALSE
    /\ result = "none"
    /\ counted = {}

-----------------------------------------------------------------------------
(* The job scripts.                                                        *)

Runs(j) == \E w \in Worker : worker[w] = [at |-> "running", job |-> j]
Launched(j) ==
    /\ j \in usedNames
    /\ j \notin ToSet(jobs)
    /\ \A w \in Worker : worker[w] # [at |-> "taken", job |-> j]

\* What a command of job j's script can name; step commands take the job from
\* SELFCI_JOB_NAME.
Targets(j, command) ==
    CASE command = "start" -> Job
      [] command = "wait"  -> {target \in Job : <<j, target>> \in WaitsFor}
      [] OTHER             -> {j}

\* A process of job j runs a `selfci` command; one left in the background may
\* do so after the job's own command has ended.
Request(c) ==
    /\ conn[c].at = "unused"
    /\ \E j \in Job, command \in Command, awaited \in Awaited :
          /\ IF awaited THEN Runs(j) ELSE Launched(j)
          /\ \E target \in Targets(j, command) :
                conn' = [conn EXCEPT ![c] =
                            [at |-> "connected", by |-> j, command |-> command,
                             target |-> target, awaited |-> awaited, reply |-> "none"]]
    /\ UNCHANGED <<usedNames, jobs, messages, worker, states, listener, shutdown,
                   wakeup, coordinator>>

\* The job's own command may end: nothing it awaits is outstanding and, of
\* scripts that wait for the jobs they started, each such wait has returned.
MayEnd(j) ==
    /\ \A c \in Conn : conn[c].by = j /\ conn[c].awaited => conn[c].at = "done"
    /\ WaitsForChildren =>
          \A c \in Conn :
             conn[c].by = j /\ conn[c].reply = "JobStarted" =>
                \E d \in Conn : /\ conn[d].by = j
                                /\ conn[d].target = conn[c].target
                                /\ conn[d].reply \in JobStatus

-----------------------------------------------------------------------------
(* The workers.                                                            *)

\* Every sender of the jobs channel is dropped: the coordinator's, the
\* listener's, and the clone each handler thread holds until it returns.
Closed ==
    /\ phase = "done"
    /\ listener = "exited"
    /\ \A c \in Conn : conn[c].at \notin {"accepted", "checking", "parked"}

\* The receiver is gone once the coordinator left its loop; sends are lost.
Post(message) ==
    messages' = IF phase \in {"collect", "record"} THEN Append(messages, message)
                                                   ELSE messages

Take(w) ==
    /\ worker[w].at = "idle"
    /\ jobs # <<>>
    /\ worker' = [worker EXCEPT ![w] = [at |-> "taken", job |-> Head(jobs)]]
    /\ jobs' = Tail(jobs)
    /\ UNCHANGED <<usedNames, messages, states, control, coordinator>>

\* Mutant: a command that cannot be started is reported without being announced.
AnnounceStartedOnly(w) ==
    /\ worker[w].at = "taken"
    /\ \/ Post([kind |-> "Started", job |-> worker[w].job, ok |-> FALSE])
       \/ UNCHANGED messages
    /\ worker' = [worker EXCEPT ![w] = [at |-> "running", job |-> worker[w].job]]
    /\ UNCHANGED <<usedNames, jobs, states, control, coordinator>>

Announce(w) ==
    /\ worker[w].at = "taken"
    /\ Post([kind |-> "Started", job |-> worker[w].job, ok |-> FALSE])
    /\ worker' = [worker EXCEPT ![w] = [at |-> "running", job |-> worker[w].job]]
    /\ UNCHANGED <<usedNames, jobs, states, control, coordinator>>

\* The command ended, could not be started, or its output could not be read:
\* ok is an exit code of zero.
Report(w) ==
    /\ worker[w].at = "running"
    /\ MayEnd(worker[w].job)
    /\ \E ok \in BOOLEAN :
          Post([kind |-> "Completed", job |-> worker[w].job, ok |-> ok])
    /\ worker' = [worker EXCEPT ![w] = [at |-> "idle", job |-> NoJob]]
    /\ UNCHANGED <<usedNames, jobs, states, control, coordinator>>

Retire(w) ==
    /\ worker[w].at = "idle"
    /\ jobs = <<>>
    /\ Closed
    /\ worker' = [worker EXCEPT ![w] = [at |-> "exited", job |-> NoJob]]
    /\ UNCHANGED <<usedNames, jobs, messages, states, control, coordinator>>

-----------------------------------------------------------------------------
(* The control socket: the listener and its detached handlers.             *)

Replied(c, reply) == [conn EXCEPT ![c] = With("done", reply, conn[c])]
Moved(c, at) == [conn EXCEPT ![c] = With(at, "none", conn[c])]

AcceptControl(c) ==
    /\ listener = "accepting"
    /\ ~shutdown
    /\ conn[c].at = "connected"
    /\ conn' = Moved(c, "accepted")
    /\ UNCHANGED <<usedNames, jobs, messages, worker, states, listener, shutdown,
                   wakeup, coordinator>>

\* accept returned with the flag set, whoever it was that connected.
StopListening ==
    /\ listener = "accepting"
    /\ shutdown
    /\ wakeup \/ \E c \in Conn : conn[c].at = "connected"
    /\ listener' = "exited"
    /\ UNCHANGED <<usedNames, jobs, messages, worker, states, conn, shutdown,
                   wakeup, coordinator>>

\* The connection the listener dropped, one still in the backlog, one refused.
Refused(c) ==
    /\ listener = "exited"
    /\ conn[c].at = "connected"
    /\ conn' = Replied(c, "lost")
    /\ UNCHANGED <<usedNames, jobs, messages, worker, states, listener, shutdown,
                   wakeup, coordinator>>

Handles(c, command) == conn[c].at = "accepted" /\ conn[c].command = command

\* Mutant: the name lock is held by a handler that waits for a job.
StartJobBehindWaits(c) ==
    /\ Handles(c, "start")
    /\ \A d \in Conn : conn[d].at \notin {"checking", "parked"}
    /\ IF conn[c].target \in usedNames
       THEN conn' = Replied(c, "Error") /\ UNCHANGED <<usedNames, jobs>>
       ELSE /\ usedNames' = usedNames \cup {conn[c].target}
            /\ jobs' = Append(jobs, conn[c].target)
            /\ conn' = Replied(c, "JobStarted")
    /\ UNCHANGED <<messages, worker, states, listener, shutdown, wakeup, coordinator>>

\* Mutant: the name is not recorded.
StartJobAgain(c) ==
    /\ Handles(c, "start")
    /\ IF conn[c].target \in usedNames
       THEN conn' = Replied(c, "Error") /\ UNCHANGED <<usedNames, jobs>>
       ELSE /\ UNCHANGED usedNames
            /\ jobs' = Append(jobs, conn[c].target)
            /\ conn' = Replied(c, "JobStarted")
    /\ UNCHANGED <<messages, worker, states, listener, shutdown, wakeup, coordinator>>

\* One hold of the name lock covers the check, the send and the answer.  The
\* send cannot fail: a worker that could drop the receiver outlives this sender.
StartJob(c) ==
    /\ Handles(c, "start")
    /\ IF conn[c].target \in usedNames
       THEN conn' = Replied(c, "Error") /\ UNCHANGED <<usedNames, jobs>>
       ELSE /\ usedNames' = usedNames \cup {conn[c].target}
            /\ jobs' = Append(jobs, conn[c].target)
            /\ conn' = Replied(c, "JobStarted")
    /\ UNCHANGED <<messages, worker, states, listener, shutdown, wakeup, coordinator>>

WaitForJob(c) ==
    /\ Handles(c, "wait")
    /\ conn' = IF conn[c].target \in usedNames
               THEN Moved(c, "checking")
               ELSE Replied(c, "JobNotFound")
    /\ UNCHANGED <<usedNames, jobs, messages, worker, states, listener, shutdown,
                   wakeup, coordinator>>

\* Mutant: a job without a completion is taken for a finished one.
CheckCompletionAtOnce(c) ==
    /\ conn[c].at = "checking"
    /\ conn' = Replied(c, IF completions[conn[c].target] = "Failed" THEN "Failed"
                                                                  ELSE "Succeeded")
    /\ UNCHANGED <<usedNames, jobs, messages, worker, states, listener, shutdown,
                   wakeup, coordinator>>

\* One turn of wait_for_completion's loop, holding the lock throughout.
CheckCompletion(c) ==
    /\ conn[c].at = "checking"
    /\ conn' = IF completions[conn[c].target] = "none"
               THEN Moved(c, "parked")
               ELSE Replied(c, completions[conn[c].target])
    /\ UNCHANGED <<usedNames, jobs, messages, worker, states, listener, shutdown,
                   wakeup, coordinator>>

\* Mutant: whatever the last step's status is, it becomes Success.
LogStepOverwrites(c) ==
    LET j == conn[c].target IN
    /\ Handles(c, "log")
    /\ steps' = [steps EXCEPT ![j] =
                    IF steps[j] = <<>> THEN <<"Running">>
                    ELSE Front(steps[j]) \o <<"Success", "Running">>]
    /\ conn' = Replied(c, "StepLogged")
    /\ UNCHANGED <<usedNames, jobs, messages, worker, completions, listener, shutdown,
                   wakeup, coordinator>>

\* A previous step that still runs is completed, then the new one begins.
LogStep(c) ==
    LET j == conn[c].target IN
    /\ Handles(c, "log")
    /\ steps' = [steps EXCEPT ![j] =
                    IF steps[j] # <<>> /\ Last(steps[j]) = "Running"
                    THEN Front(steps[j]) \o <<"Success", "Running">>
                    ELSE Append(steps[j], "Running")]
    /\ conn' = Replied(c, "StepLogged")
    /\ UNCHANGED <<usedNames, jobs, messages, worker, completions, listener, shutdown,
                   wakeup, coordinator>>

\* The last step takes the new status, whatever status it had.
MarkStepFailed(c) ==
    LET j == conn[c].target
        status == IF conn[c].command = "fail" THEN "Failed" ELSE "FailedIgnored"
    IN
    /\ Handles(c, "fail") \/ Handles(c, "failIgnored")
    /\ IF steps[j] = <<>>
       THEN conn' = Replied(c, "Error") /\ UNCHANGED steps
       ELSE /\ steps' = [steps EXCEPT ![j] = Append(Front(steps[j]), status)]
            /\ conn' = Replied(c, "StepMarkedFailed")
    /\ UNCHANGED <<usedNames, jobs, messages, worker, completions, listener, shutdown,
                   wakeup, coordinator>>

-----------------------------------------------------------------------------
(* The coordinator, the thread in run_candidate_check.                     *)

CountStarted ==
    /\ phase = "collect"
    /\ messages # <<>>
    /\ Head(messages).kind = "Started"
    /\ messages' = Tail(messages)
    /\ active' = active + 1
    /\ counted' = counted \cup {Head(messages).job}
    /\ UNCHANGED <<usedNames, jobs, worker, states, control, phase, completed,
                   allJobs, anyFailed, result>>

\* Completed arrives: the job's steps are read under the lock, released again
\* before the completion is recorded.
SnapshotSteps ==
    LET message == Head(messages) IN
    /\ phase = "collect"
    /\ messages # <<>>
    /\ message.kind = "Completed"
    /\ messages' = Tail(messages)
    /\ completed' = [job |-> message.job, ok |-> message.ok,
                     stepFailed |-> "Failed" \in ToSet(steps[message.job])]
    /\ phase' = "record"
    /\ UNCHANGED <<usedNames, jobs, worker, states, control, active, allJobs,
                   anyFailed, result, counted>>

JobOutcome == IF completed.ok /\ ~completed.stepFailed THEN "Succeeded" ELSE "Failed"

\* active_jobs falls by one; at zero the loop is left and its receiver dropped.
FinishJob ==
    /\ completed' = Nothing
    /\ active' = active - 1
    /\ phase' = IF active = 1 THEN "attest" ELSE "collect"
    /\ messages' = IF active = 1 THEN <<>> ELSE messages
    /\ UNCHANGED <<usedNames, jobs, worker, steps, listener, shutdown, wakeup,
                   result, counted>>

Woken(waiter) ==
    IF waiter.at = "parked" THEN With("checking", "none", waiter) ELSE waiter

\* Mutant: a notification that wakes at most one waiter.
RecordNotifiesOne ==
    /\ phase = "record"
    /\ anyFailed' = (anyFailed \/ JobOutcome = "Failed")
    /\ completions' = [completions EXCEPT ![completed.job] = JobOutcome]
    /\ conn' \in { [conn EXCEPT ![c] = Woken(conn[c])] :
                      c \in IF \E d \in Conn : conn[d].at = "parked"
                            THEN {d \in Conn : conn[d].at = "parked"} ELSE Conn }
    /\ allJobs' = Append(allJobs, <<completed.job, JobOutcome>>)
    /\ FinishJob

\* Mutant: the last job's outcome instead of any job's.
RecordLastOutcome ==
    /\ phase = "record"
    /\ anyFailed' = (JobOutcome = "Failed")
    /\ completions' = [completions EXCEPT ![completed.job] = JobOutcome]
    /\ conn' = [c \in Conn |-> Woken(conn[c])]
    /\ allJobs' = Append(allJobs, <<completed.job, JobOutcome>>)
    /\ FinishJob

\* Mutant: a failed step fails the job but not the check.
RecordForgetsSteps ==
    /\ phase = "record"
    /\ anyFailed' = (anyFailed \/ ~completed.ok)
    /\ completions' = [completions EXCEPT ![completed.job] = JobOutcome]
    /\ conn' = [c \in Conn |-> Woken(conn[c])]
    /\ allJobs' = Append(allJobs, <<completed.job, JobOutcome>>)
    /\ FinishJob

\* The outcome is decided, complete_job records it and wakes every waiter.
RecordCompletion ==
    /\ phase = "record"
    /\ anyFailed' = (anyFailed \/ JobOutcome = "Failed")
    /\ completions' = [completions EXCEPT ![completed.job] = JobOutcome]
    /\ conn' = [c \in Conn |-> Woken(conn[c])]
    /\ allJobs' = Append(allJobs, <<completed.job, JobOutcome>>)
    /\ FinishJob

\* attest_worktree on both exports: equal, changed, or git failed.  An error
\* returns at once, and leaves the listener as it is.
Attest ==
    /\ phase = "attest"
    /\ \/ /\ phase' = "stop"
          /\ \E changed \in BOOLEAN : anyFailed' = (anyFailed \/ changed)
          /\ UNCHANGED result
       \/ /\ phase' = "done"
          /\ result' = "error"
          /\ UNCHANGED anyFailed
    /\ UNCHANGED <<usedNames, jobs, messages, worker, states, control, completed,
                   active, allJobs, counted>>

SignalShutdown ==
    /\ phase = "stop"
    /\ shutdown' = TRUE
    /\ phase' = "wake"
    /\ UNCHANGED <<usedNames, jobs, messages, worker, states, conn, listener, wakeup,
                   completed, active, allJobs, anyFailed, result, counted>>

\* Mutant: nobody wakes the listener out of accept.
ReturnQuietly ==
    /\ phase = "wake"
    /\ phase' = "done"
    /\ result' = IF anyFailed THEN "failed" ELSE "passed"
    /\ UNCHANGED <<usedNames, jobs, messages, worker, states, control, completed,
                   active, allJobs, anyFailed, counted>>

\* The wake-up connection, the drop of jobs_sender, the result.
WakeAndReturn ==
    /\ phase = "wake"
    /\ wakeup' = TRUE
    /\ phase' = "done"
    /\ result' = IF anyFailed THEN "failed" ELSE "passed"
    /\ UNCHANGED <<usedNames, jobs, messages, worker, states, conn, listener, shutdown,
                   completed, active, allJobs, anyFailed, counted>>

-----------------------------------------------------------------------------
Script == \E c \in Conn : Request(c)
WorkerStep(w) == Take(w) \/ Announce(w) \/ Report(w) \/ Retire(w)
Handler(c) ==
    \/ AcceptControl(c) \/ Refused(c) \/ StartJob(c) \/ WaitForJob(c)
    \/ CheckCompletion(c) \/ LogStep(c) \/ MarkStepFailed(c)
Coordinator ==
    \/ CountStarted \/ SnapshotSteps \/ RecordCompletion
    \/ Attest \/ SignalShutdown \/ WakeAndReturn

Next ==
    \/ Script
    \/ \E w \in Worker : WorkerStep(w)
    \/ StopListening
    \/ \E c \in Conn : Handler(c)
    \/ Coordinator

Spec == Init /\ [][Next]_vars

\* Every thread the program starts is scheduled, and the commands of the jobs
\* end once nothing they await is outstanding; scripts need run no `selfci`.
Fairness ==
    /\ \A w \in Worker : WF_vars(WorkerStep(w))
    /\ WF_vars(StopListening)
    /\ \A c \in Conn : WF_vars(Handler(c))
    /\ WF_vars(Coordinator)

FairSpec == Spec /\ Fairness

-----------------------------------------------------------------------------
(* Properties.                                                             *)

Occurrences(j) ==
    LET queued == {i \in DOMAIN jobs : jobs[i] = j}
        held == {w \in Worker : worker[w].job = j}
        reported == {i \in DOMAIN messages :
                        messages[i].kind = "Completed" /\ messages[i].job = j}
        recording == {x \in {completed} : x.job = j}
        recorded == {i \in DOMAIN allJobs : allJobs[i][1] = j}
    IN Cardinality(queued) + Cardinality(held) + Cardinality(reported)
       + Cardinality(recording) + Cardinality(recorded)

\* No job is run twice or lost on its way from the name registry through the
\* channel, a worker and the message queue to the result, however requests to
\* start the same name race; what is lost with the message queue at the verdict
\* is lost only then.
JobsAccountedFor ==
    \A j \in Job :
        /\ Occurrences(j) <= (IF j \in usedNames THEN 1 ELSE 0)
        /\ phase \in {"collect", "record"} /\ j \in usedNames => Occurrences(j) = 1

\* A job that any waiter was told had failed fails the check: the answer of
\* `job wait`, given by a detached thread, never contradicts the verdict.
WaitsAgreeWithVerdict ==
    \A c \in Conn : conn[c].reply = "Failed" => anyFailed /\ result # "passed"

\* A job whose own command had a step marked as failed, with the mark
\* acknowledged before it went on, is not recorded as successful.
FatalStepFails ==
    \A c \in Conn :
        /\ conn[c].command = "fail"
        /\ conn[c].awaited
        /\ conn[c].reply = "StepMarkedFailed"
        => completions[conn[c].by] # "Succeeded"

\* When the check passes, every job whose start was acknowledged was
\* successful.  It takes scripts that wait for the jobs they start.
AcknowledgedJobsCounted ==
    result = "passed" =>
        \A c \in Conn : conn[c].reply = "JobStarted" =>
            completions[conn[c].target] = "Succeeded"

\* The check keeps the promise of JobVerdict for the jobs it counted: the
\* counter reaches zero only when none of them runs, and none fails unnoticed.
Recorded(status) == {j \in Job : completions[j] = status}
Promise == INSTANCE JobVerdict WITH
    begun <- counted,
    succeeded <- Recorded("Succeeded"),
    failed <- Recorded("Failed"),
    verdict <- result
ImplementsJobVerdict == Promise!Spec

\* A waiter whose job has completed is answered, on whichever side of
\* complete_job it came to look.
CompletedWaitReturns ==
    \A c \in Conn :
        conn[c].command = "wait" /\ conn[c].at \in {"checking", "parked"}
            /\ completions[conn[c].target] # "none"
        ~> conn[c].at = "done"

\* Jobs that wait for each other: of some set of jobs each is in an awaited wait
\* for one of them, or in the channel while they occupy every worker.
Stuck ==
    \E S \in SUBSET Job \ {{}} : \A j \in S :
        \/ \E c \in Conn : /\ conn[c].at = "parked" /\ conn[c].awaited
                          /\ conn[c].by = j /\ conn[c].target \in S
        \/ j \in ToSet(jobs) /\ \A w \in Worker : worker[w].job \in S

\* The check reaches a result when its jobs' commands end, but for waits that the
\* scripts themselves close to a cycle or fill the pool with: no wait, start or
\* completion else leaves the coordinator and the workers waiting on each other.
CheckEnds == phase = "collect" ~> result # "none" \/ Stuck

\* After the verdict every worker exits, unless a handler still waits for a job
\* that will never be recorded: the listener is woken and every sender dropped.
ThreadsWindDown ==
    result \in {"passed", "failed"} ~>
        \/ \A w \in Worker : worker[w].at = "exited"
        \/ \E c \in Conn : conn[c].at = "parked"
=============================================================================
