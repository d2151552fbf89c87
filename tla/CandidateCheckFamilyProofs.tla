--------------------- MODULE CandidateCheckFamilyProofs ---------------------
(***************************************************************************)
(* Why a passed check has the outcome of every job whose start was         *)
(* acknowledged, when the scripts wait for the jobs they start.            *)
(***************************************************************************)
EXTENDS CandidateCheckJobsProofs

\* Scripts that await each command and wait for each job they started.
Waiting == Awaited \subseteq {TRUE} /\ WaitsForChildren

(***************************************************************************)
(* The inductive invariant.  A request is open only while its job's own    *)
(* command runs; an answer to a wait is final, and an answer to a start    *)
(* keeps the parent running until the child has its outcome.               *)
(***************************************************************************)
Awaiting ==
    \A c \in Conn : conn[c].at \notin {"unused", "done"} =>
        conn[c].awaited /\ conn[c].by \in RunningJobs

Answered ==
    \A c \in Conn :
        /\ conn[c].reply # "none" => conn[c].at = "done"
        /\ conn[c].reply \in JobStatus => completions[conn[c].target] # "none"

Parents ==
    \A c \in Conn : conn[c].reply = "JobStarted" =>
        /\ conn[c].by \in usedNames
        /\ conn[c].target \in usedNames
        /\ completions[conn[c].target] = "none" => conn[c].by \in RunningJobs

\* No set of jobs has started itself: the jobs form a tree with Main at its root.
Rooted ==
    \A S \in SUBSET (usedNames \ {Main}) : S # {} =>
        \E c \in Conn : /\ conn[c].reply = "JobStarted"
                        /\ conn[c].target \in S
                        /\ conn[c].by \notin S

\* Main is the first job to be announced, and to be counted.
MainFirst ==
    \/ Main \in counted
    \/ /\ counted = {}
       /\ messages = <<>> => usedNames = {Main} /\ Main \in QueuedJobs \cup TakenJobs
       /\ messages # <<>> => messages[1].kind = "Started" /\ messages[1].job = Main

Ended == ~Collecting => \A j \in usedNames : completions[j] # "none"

Family == Awaiting /\ Answered /\ Parents /\ Rooted /\ MainFirst /\ Ended

-----------------------------------------------------------------------------
LEMMA RunningFacts ==
    ASSUME Accounts, NEW j \in RunningJobs
    PROVE  /\ j \in Job /\ j \in usedNames /\ completions[j] = "none"
           /\ j # completed.job /\ j \notin QueuedJobs \cup TakenJobs
<1>1. PICK w \in Worker : worker[w].at = "running" /\ worker[w].job = j
  BY DEF RunningJobs
<1>2. j \in HeldJobs /\ j # NoJob /\ TakenJobs \cap RunningJobs = {}
  BY <1>1, WorkerFacts DEF Accounts, InHands, HeldJobs
<1>3. j \in Job /\ j \in usedNames /\ j \notin RecordingJobs \cup RecordedJobs \cup QueuedJobs
  BY <1>2, PlacesOfJobs DEF Accounts, OnePlace
<1>. QED  BY <1>2, <1>3 DEF Accounts, Counting, RecordingJobs

LEMMA RootedKept ==
    ASSUME Rooted, usedNames' = usedNames,
           \A c \in Conn : conn[c].reply = "JobStarted" =>
              /\ conn'[c].reply = "JobStarted"
              /\ conn'[c].target = conn[c].target
              /\ conn'[c].by = conn[c].by
    PROVE  Rooted'
<1> SUFFICES ASSUME NEW S \in SUBSET (usedNames \ {Main}), S # {}
             PROVE  \E c \in Conn : /\ conn'[c].reply = "JobStarted"
                                    /\ conn'[c].target \in S
                                    /\ conn'[c].by \notin S
  BY DEF Rooted
<1>1. PICK c \in Conn : /\ conn[c].reply = "JobStarted"
                        /\ conn[c].target \in S
                        /\ conn[c].by \notin S
  BY DEF Rooted
<1>. QED  BY <1>1

\* A handler's update of its own request that starts no job.
LEMMA FamilyUpdate ==
    ASSUME Accounts, Family, NEW c \in Conn,
           UNCHANGED <<usedNames, jobs, messages, worker, completions, phase, counted>>,
           conn[c].at \notin {"unused", "done"},
           NEW at, NEW reply, conn' = [conn EXCEPT ![c] = With(at, reply, conn[c])],
           reply # "JobStarted", reply # "none" => at = "done",
           reply \in JobStatus => completions[conn[c].target] # "none"
    PROVE  Family'
<1>1. /\ conn'[c] = With(at, reply, conn[c])
      /\ \A d \in Conn \ {c} : conn'[d] = conn[d]
  BY DEF Accounts, TypeOK
<1>2. /\ conn'[c].at = at /\ conn'[c].reply = reply /\ conn'[c].by = conn[c].by
      /\ conn'[c].target = conn[c].target /\ conn'[c].awaited = conn[c].awaited
  BY <1>1 DEF With
<1>3. RunningJobs' = RunningJobs /\ QueuedJobs' = QueuedJobs /\ TakenJobs' = TakenJobs
  BY SamePlaces
<1>4. conn[c].reply = "none"
  BY DEF Family, Answered
<1>5. Awaiting'
  BY <1>1, <1>2, <1>3 DEF Family, Awaiting
<1>6. Answered'
  BY <1>1, <1>2 DEF Family, Answered
<1>7. \A d \in Conn : conn'[d].reply = "JobStarted" => d # c
  BY <1>2
<1>8. Parents'
  BY <1>1, <1>3, <1>7 DEF Family, Parents
<1>9. Rooted'
  BY <1>1, <1>4, RootedKept DEF Family
<1>10. MainFirst' /\ Ended'
  BY <1>3 DEF Family, MainFirst, Ended, Collecting
<1>. QED  BY <1>5, <1>6, <1>8, <1>9, <1>10 DEF Family

\* A name taken for the first time joins the tree below its running parent.
LEMMA FamilyStart ==
    ASSUME Accounts, Family, NEW c \in Conn, StartJob(c)
    PROVE  Family'
<1>. DEFINE j == conn[c].target
            p == conn[c].by
<1>0. /\ UNCHANGED <<messages, worker, completions, phase, counted>>
      /\ conn[c].at \notin {"unused", "done"}
  BY DEF StartJob, Handles, states, coordinator
<1>1. CASE j \in usedNames
  BY <1>0, <1>1, FamilyUpdate DEF StartJob, Replied, JobStatus
<1>2. CASE j \notin usedNames
  <2>1. /\ usedNames' = usedNames \cup {j} /\ jobs' = Append(jobs, j)
        /\ conn' = [conn EXCEPT ![c] = With("done", "JobStarted", conn[c])]
    BY <1>2 DEF StartJob, Replied
  <2>2. /\ conn'[c] = With("done", "JobStarted", conn[c])
        /\ \A d \in Conn \ {c} : conn'[d] = conn[d]
    BY <2>1 DEF Accounts, TypeOK
  <2>3. /\ conn'[c].at = "done" /\ conn'[c].reply = "JobStarted" /\ conn'[c].by = p
        /\ conn'[c].target = j
    BY <2>2 DEF With
  <2>4. RunningJobs' = RunningJobs /\ TakenJobs' = TakenJobs
    BY <1>0, SamePlaces
  <2>5. p \in RunningJobs /\ conn[c].reply = "none"
    BY <1>0 DEF Family, Awaiting, Answered
  <2>6. /\ p \in usedNames /\ p # j /\ completions[p] = "none"
        /\ p \notin QueuedJobs \cup TakenJobs
    BY <1>2, <2>5, RunningFacts
  <2>7. Awaiting'
    BY <2>2, <2>3, <2>4 DEF Family, Awaiting
  <2>8. Answered'
    <3>1. "JobStarted" \notin JobStatus
      BY DEF JobStatus
    <3>. QED  BY <1>0, <2>2, <2>3, <3>1 DEF Family, Answered
  <2>9. Parents'
    <3> SUFFICES ASSUME NEW d \in Conn, conn'[d].reply = "JobStarted"
                 PROVE  /\ conn'[d].by \in usedNames' /\ conn'[d].target \in usedNames'
                        /\ completions[conn'[d].target] = "none" => conn'[d].by \in RunningJobs
      BY <1>0, <2>4 DEF Parents
    <3>1. CASE d = c
      BY <2>1, <2>3, <2>5, <2>6, <3>1
    <3>2. CASE d # c
      BY <2>1, <2>2, <3>2 DEF Family, Parents
    <3>. QED  BY <3>1, <3>2
  <2>10. Rooted'
    <3> SUFFICES ASSUME NEW S \in SUBSET (usedNames' \ {Main}), S # {}
                 PROVE  \E d \in Conn : /\ conn'[d].reply = "JobStarted"
                                        /\ conn'[d].target \in S
                                        /\ conn'[d].by \notin S
      BY DEF Rooted
    <3>1. CASE S \subseteq {j}
      BY <2>3, <2>6, <3>1
    <3>2. CASE ~(S \subseteq {j})
      <4>1. S \ {j} \in SUBSET (usedNames \ {Main}) /\ S \ {j} # {}
        BY <2>1, <3>2
      <4>2. PICK d \in Conn : /\ conn[d].reply = "JobStarted"
                              /\ conn[d].target \in S \ {j}
                              /\ conn[d].by \notin S \ {j}
        BY <4>1 DEF Family, Rooted
      <4>3. conn[d].by # j /\ d # c
        BY <1>2, <2>5, <4>2 DEF Family, Parents
      <4>. QED  BY <2>2, <4>2, <4>3
    <3>. QED  BY <3>1, <3>2
  <2>11. MainFirst'
    BY <1>0, <2>5, <2>6 DEF Family, MainFirst
  <2>12. Ended'
    BY <1>0, <2>6 DEF Family, Ended, Collecting
  <2>. QED  BY <2>7, <2>8, <2>9, <2>10, <2>11, <2>12 DEF Family
<1>. QED  BY <1>1, <1>2

LEMMA FamilyHandler ==
    ASSUME Accounts, Family, NEW c \in Conn, Handler(c)
    PROVE  Family'
<1>. USE DEF Replied, Moved
<1>1. CASE StartJob(c)
  BY <1>1, FamilyStart
<1>2. CASE ~StartJob(c)
  <2>0. /\ UNCHANGED <<usedNames, jobs, messages, worker, completions, phase, counted>>
        /\ conn[c].at \notin {"unused", "done"}
    <3>1. CASE AcceptControl(c) \/ Refused(c) \/ WaitForJob(c) \/ CheckCompletion(c)
      BY <3>1 DEF AcceptControl, Refused, WaitForJob, CheckCompletion, Handles, states,
                  coordinator
    <3>2. CASE LogStep(c) \/ MarkStepFailed(c)
      BY <3>2 DEF LogStep, MarkStepFailed, Handles, coordinator
    <3>. QED  BY <1>2, <3>1, <3>2 DEF Handler
  <2>1. ASSUME NEW at, NEW reply, conn' = [conn EXCEPT ![c] = With(at, reply, conn[c])],
               reply \in {"none", "lost", "JobNotFound", "StepLogged", "StepMarkedFailed",
                          "Error"},
               reply # "none" => at = "done"
        PROVE  Family'
    <3>1. reply \notin JobStatus /\ reply # "JobStarted"
      BY <2>1 DEF JobStatus
    <3>. QED  BY <2>0, <2>1, <3>1, FamilyUpdate
  <2>2. CASE AcceptControl(c) \/ Refused(c)
    BY <2>1, <2>2 DEF AcceptControl, Refused
  <2>3. CASE WaitForJob(c)
    BY <2>1, <2>3 DEF WaitForJob
  <2>4. CASE LogStep(c) \/ MarkStepFailed(c)
    BY <2>1, <2>4 DEF LogStep, MarkStepFailed
  <2>5. CASE CheckCompletion(c)
    <3>1. CASE completions[conn[c].target] = "none"
      BY <2>1, <2>5, <3>1 DEF CheckCompletion
    <3>2. CASE completions[conn[c].target] # "none"
      <4>1. completions[conn[c].target] \in JobStatus
        BY <2>5, <3>2 DEF CheckCompletion, Accounts, IInv, Shape
      <4>2. completions[conn[c].target] # "JobStarted"
        BY <4>1 DEF JobStatus
      <4>. QED  BY <2>0, <2>5, <3>2, <4>2, FamilyUpdate DEF CheckCompletion
    <3>. QED  BY <3>1, <3>2
  <2>. QED  BY <1>2, <2>2, <2>3, <2>4, <2>5 DEF Handler
<1>. QED  BY <1>1, <1>2

LEMMA FamilyRequest ==
    ASSUME Waiting, Accounts, Family, NEW c \in Conn, Request(c)
    PROVE  Family'
<1>0. /\ UNCHANGED <<usedNames, jobs, messages, worker, completions, phase, counted>>
      /\ conn[c].at = "unused"
  BY DEF Request, states, coordinator
<1>1. PICK j \in Job, command \in Command, awaited \in Awaited :
         /\ IF awaited THEN Runs(j) ELSE Launched(j)
         /\ \E target \in Targets(j, command) :
               conn' = [conn EXCEPT ![c] =
                           [at |-> "connected", by |-> j, command |-> command,
                            target |-> target, awaited |-> awaited, reply |-> "none"]]
  BY DEF Request
<1>2. PICK target \in Targets(j, command) :
         conn' = [conn EXCEPT ![c] =
                     [at |-> "connected", by |-> j, command |-> command,
                      target |-> target, awaited |-> awaited, reply |-> "none"]]
  BY <1>1
<1>3. /\ conn'[c] = [at |-> "connected", by |-> j, command |-> command,
                     target |-> target, awaited |-> awaited, reply |-> "none"]
      /\ \A d \in Conn \ {c} : conn'[d] = conn[d]
  BY <1>2 DEF Accounts, TypeOK
<1>4. awaited = TRUE /\ j \in RunningJobs
  <2>1. awaited = TRUE
    BY <1>1 DEF Waiting
  <2>2. Runs(j)
    BY <1>1, <2>1
  <2>. QED  BY <2>1, <2>2 DEF Runs, RunningJobs
<1>5. RunningJobs' = RunningJobs /\ QueuedJobs' = QueuedJobs /\ TakenJobs' = TakenJobs
  BY <1>0, SamePlaces
<1>6. conn[c].reply = "none"
  BY <1>0 DEF Family, Answered
<1>7. conn'[c].reply = "none" /\ "none" \notin JobStatus
  BY <1>3 DEF JobStatus
<1>8. Awaiting'
  BY <1>3, <1>4, <1>5 DEF Family, Awaiting
<1>9. Answered'
  BY <1>0, <1>3, <1>7 DEF Family, Answered
<1>10. Parents'
  BY <1>0, <1>3, <1>5, <1>7 DEF Family, Parents
<1>11. Rooted'
  BY <1>0, <1>3, <1>6, RootedKept DEF Family
<1>12. MainFirst' /\ Ended'
  BY <1>0, <1>5 DEF Family, MainFirst, Ended, Collecting
<1>. QED  BY <1>8, <1>9, <1>10, <1>11, <1>12 DEF Family

-----------------------------------------------------------------------------
LEMMA FamilyTake ==
    ASSUME Accounts, Family, NEW w \in Worker, Take(w)
    PROVE  Family'
<1>1. /\ UNCHANGED <<usedNames, messages, conn, completions, phase, counted>>
      /\ worker[w].at = "idle" /\ jobs # <<>> /\ jobs' = Tail(jobs)
      /\ worker' = [worker EXCEPT ![w] = [at |-> "taken", job |-> Head(jobs)]]
  BY DEF Take, states, control, coordinator
<1>2. Head(jobs) \in QueuedJobs /\ QueuedJobs' = QueuedJobs \ {Head(jobs)}
  BY <1>1, QueueShrinks DEF Accounts
<1>3. Head(jobs) \in Job \ HeldJobs
  BY <1>2, PlacesOfJobs DEF Accounts, OnePlace
<1>4. TakenJobs' = TakenJobs \cup {Head(jobs)} /\ RunningJobs' = RunningJobs
  BY <1>1, <1>3, WorkerTakes DEF Accounts
<1>5. MainFirst'
  BY <1>1, <1>2, <1>4 DEF Family, MainFirst
<1>6. Rooted'
  BY <1>1, RootedKept DEF Family
<1>. QED
  BY <1>1, <1>4, <1>5, <1>6 DEF Family, Awaiting, Answered, Parents, Ended, Collecting

\* What is posted goes behind the announcement of Main, or is that itself.
LEMMA MainPosted ==
    ASSUME Accounts, MainFirst, NEW m \in Message, Post(m), counted' = counted,
           messages = <<>> /\ counted = {} => m.kind = "Started" /\ m.job = Main
    PROVE  MainFirst'
<1>1. CASE Main \in counted
  BY <1>1 DEF MainFirst
<1>2. CASE Main \notin counted
  <2>1. counted = {}
    BY <1>2 DEF MainFirst
  <2>2. Collecting
    BY <2>1 DEF Accounts, Counting, Announced
  <2>3. messages' = Append(messages, m) /\ messages \in Seq(Message)
    BY <2>2 DEF Post, Collecting, Accounts, TypeOK
  <2>4. messages' # <<>>
    BY <2>3
  <2>5. messages'[1] = (IF messages = <<>> THEN m ELSE messages[1])
    BY <2>3
  <2>. QED  BY <2>1, <2>4, <2>5 DEF MainFirst
<1>. QED  BY <1>1, <1>2

LEMMA FamilyAnnounce ==
    ASSUME Accounts, Family, NEW w \in Worker, Announce(w)
    PROVE  Family'
<1>. DEFINE j == worker[w].job
            m == [kind |-> "Started", job |-> j, ok |-> FALSE]
<1>1. /\ UNCHANGED <<usedNames, jobs, conn, completions, phase, counted>>
      /\ worker[w].at = "taken" /\ Post(m)
      /\ worker' = [worker EXCEPT ![w] = [at |-> "running", job |-> j]]
  BY DEF Announce, states, control, coordinator
<1>2. RunningJobs' = RunningJobs \cup {j}
  BY <1>1, WorkerRuns DEF Accounts
<1>3. j \in Job /\ j \in usedNames
  BY <1>1, WorkerFacts, PlacesOfJobs DEF Accounts, OnePlace
<1>4. m \in Message
  BY <1>3 DEF Message
<1>5. messages = <<>> /\ counted = {} => j = Main
  BY <1>3 DEF Family, MainFirst
<1>6. MainFirst'
  BY <1>1, <1>4, <1>5, MainPosted DEF Family
<1>7. Rooted'
  BY <1>1, RootedKept DEF Family
<1>. QED
  BY <1>1, <1>2, <1>6, <1>7 DEF Family, Awaiting, Answered, Parents, Ended, Collecting

\* A command that ends leaves no open request and no child without an outcome.
LEMMA FamilyReport ==
    ASSUME Waiting, Accounts, Family, NEW w \in Worker, Report(w)
    PROVE  Family'
<1>. DEFINE j == worker[w].job
<1>1. /\ UNCHANGED <<usedNames, jobs, conn, completions, phase, counted>>
      /\ worker[w].at = "running" /\ MayEnd(j)
      /\ worker' = [worker EXCEPT ![w] = [at |-> "idle", job |-> NoJob]]
  BY DEF Report, states, control, coordinator
<1>2. PICK ok \in BOOLEAN : Post([kind |-> "Completed", job |-> j, ok |-> ok])
  BY DEF Report
<1>3. RunningJobs' = RunningJobs \ {j}
  BY <1>1, WorkerFrees DEF Accounts
<1>4. j \in RunningJobs
  BY <1>1 DEF RunningJobs
<1>5. j \in Job /\ j \in usedNames /\ j \notin QueuedJobs \cup TakenJobs
  BY <1>4, RunningFacts
<1>6. Awaiting'
  BY <1>1, <1>3 DEF Family, Awaiting, MayEnd
<1>7. Parents'
  BY <1>1, <1>3 DEF Family, Parents, Answered, MayEnd, Waiting
<1>8. MainFirst'
  <2>1. [kind |-> "Completed", job |-> j, ok |-> ok] \in Message
    BY <1>5 DEF Message
  <2>2. ~(messages = <<>> /\ counted = {})
    BY <1>5 DEF Family, MainFirst
  <2>. QED  BY <1>1, <1>2, <2>1, <2>2, MainPosted DEF Family
<1>9. Rooted'
  BY <1>1, RootedKept DEF Family
<1>. QED
  BY <1>1, <1>6, <1>7, <1>8, <1>9 DEF Family, Answered, Ended, Collecting

LEMMA FamilyRetire ==
    ASSUME Accounts, Family, NEW w \in Worker, Retire(w)
    PROVE  Family'
<1>1. /\ UNCHANGED <<usedNames, jobs, messages, conn, completions, phase, counted>>
      /\ worker[w].at = "idle"
      /\ worker' = [worker EXCEPT ![w] = [at |-> "exited", job |-> NoJob]]
  BY DEF Retire, states, control, coordinator
<1>2. worker[w].job = NoJob
  BY <1>1 DEF Accounts, InHands
<1>3. RunningJobs' = RunningJobs /\ TakenJobs' = TakenJobs /\ QueuedJobs' = QueuedJobs
  <2>1. TakenJobs' = TakenJobs /\ RunningJobs' = RunningJobs \ {NoJob}
    BY <1>1, <1>2, WorkerFrees DEF Accounts
  <2>2. NoJob \notin RunningJobs
    BY RunningFacts, NoJobAssumption
  <2>. QED  BY <1>1, <2>1, <2>2, SamePlaces
<1>4. Rooted'
  BY <1>1, RootedKept DEF Family
<1>. QED
  BY <1>1, <1>3, <1>4
  DEF Family, Awaiting, Answered, Parents, MainFirst, Ended, Collecting

-----------------------------------------------------------------------------
\* When the last counted job is recorded, no other job is without an outcome:
\* the first such in the tree has a running parent, which was not Main.
LEMMA LastRecorded ==
    ASSUME Accounts, Family, phase = "record", active = 1
    PROVE  \A j \in usedNames : j = completed.job \/ completions[j] # "none"
<1>. DEFINE U == {j \in usedNames \ {Main} : j # completed.job /\ completions[j] = "none"}
<1>1. /\ counted \subseteq RecordedJobs \cup {completed.job}
      /\ completed.job \in counted
      /\ RecordedJobs = {j \in Job : completions[j] # "none"}
  BY RecordingCounts DEF Accounts, Counting
<1>2. Main \in counted
  BY <1>1 DEF Family, MainFirst
<1>3. Main = completed.job \/ completions[Main] # "none"
  BY <1>1, <1>2
<1>4. U = {}
  <2>1. SUFFICES ASSUME U # {} PROVE FALSE
    OBVIOUS
  <2>2. U \in SUBSET (usedNames \ {Main})
    OBVIOUS
  <2>3. PICK c \in Conn : /\ conn[c].reply = "JobStarted"
                          /\ conn[c].target \in U
                          /\ conn[c].by \notin U
    BY <2>1, <2>2 DEF Family, Rooted
  <2>4. conn[c].by \in RunningJobs
    BY <2>3 DEF Family, Parents
  <2>5. /\ conn[c].by \in usedNames /\ completions[conn[c].by] = "none"
        /\ conn[c].by # completed.job
    BY <2>4, RunningFacts
  <2>. QED  BY <1>3, <2>3, <2>5
<1>. QED  BY <1>3, <1>4

LEMMA FamilyRecord ==
    ASSUME Accounts, Family, RecordCompletion
    PROVE  Family'
<1>. DEFINE j == completed.job
<1>1. /\ UNCHANGED <<usedNames, jobs, worker, counted>> /\ phase = "record"
      /\ conn' = [c \in Conn |-> Woken(conn[c])]
      /\ completions' = [completions EXCEPT ![j] = JobOutcome]
      /\ phase' = (IF active = 1 THEN "attest" ELSE "collect")
      /\ messages' = (IF active = 1 THEN <<>> ELSE messages)
  BY DEF RecordCompletion, FinishJob
<1>2. j \in counted /\ j \in Job
  BY <1>1, RecordingCounts
<1>3. /\ completions'[j] # "none"
      /\ \A k \in Job \ {j} : completions'[k] = completions[k]
  BY <1>1, <1>2 DEF JobOutcome, Accounts, TypeOK
<1>4. \A k \in Job : completions[k] # "none" => completions'[k] # "none"
  BY <1>3
<1>5. ASSUME NEW c \in Conn
      PROVE  /\ conn'[c].by = conn[c].by /\ conn'[c].target = conn[c].target
             /\ conn'[c].awaited = conn[c].awaited /\ conn'[c].reply = conn[c].reply
             /\ conn'[c].at \in {conn[c].at, "checking"}
             /\ conn'[c].at # conn[c].at => conn[c].at = "parked"
  <2>1. conn'[c] = Woken(conn[c])
    BY <1>1
  <2>2. CASE conn[c].at = "parked"
    <3>1. conn[c].reply = "none"
      BY <2>2 DEF Family, Answered
    <3>. QED  BY <2>1, <2>2, <3>1 DEF Woken, With
  <2>3. CASE conn[c].at # "parked"
    BY <2>1, <2>3 DEF Woken
  <2>. QED  BY <2>2, <2>3
<1>6. RunningJobs' = RunningJobs
  BY <1>1, SamePlaces
<1>7. Awaiting'
  BY <1>5, <1>6 DEF Family, Awaiting
<1>8. \A c \in Conn : conn[c].reply # "none" => conn[c].target \in Job
  BY DEF Family, Answered, Accounts, IInv, Shape
<1>9. Answered'
  <2>1. "none" \notin JobStatus
    BY DEF JobStatus
  <2>. QED  BY <1>4, <1>5, <1>8, <2>1 DEF Family, Answered
<1>10. Parents'
  BY <1>1, <1>4, <1>5, <1>6, <1>8 DEF Family, Parents
<1>11. Rooted'
  BY <1>1, <1>5, RootedKept DEF Family
<1>12. MainFirst'
  BY <1>1, <1>2 DEF Family, MainFirst
<1>13. Ended'
  <2>1. CASE active = 1
    BY <1>1, <1>3, <2>1, LastRecorded DEF Ended, Accounts, TypeOK
  <2>2. CASE active # 1
    BY <1>1, <2>2 DEF Ended, Collecting
  <2>. QED  BY <2>1, <2>2
<1>. QED  BY <1>7, <1>9, <1>10, <1>11, <1>12, <1>13 DEF Family

LEMMA FamilyCoordinator ==
    ASSUME Accounts, Family, Coordinator
    PROVE  Family'
<1>1. CASE RecordCompletion
  BY <1>1, FamilyRecord
<1>2. CASE ~RecordCompletion
  <2>1. /\ UNCHANGED <<usedNames, jobs, worker, conn, completions>>
        /\ Collecting' = Collecting
    BY <1>2 DEF Coordinator, CountStarted, SnapshotSteps, Attest, SignalShutdown,
                WakeAndReturn, states, control, Collecting
  <2>2. RunningJobs' = RunningJobs /\ QueuedJobs' = QueuedJobs /\ TakenJobs' = TakenJobs
    BY <2>1, SamePlaces
  <2>3. Rooted'
    BY <2>1, RootedKept DEF Family
  <2>4. MainFirst'
    <3>1. CASE CountStarted
      BY <3>1, SeqTail DEF CountStarted, Family, MainFirst, Accounts, TypeOK
    <3>2. CASE SnapshotSteps
      BY <3>2, SeqTail DEF SnapshotSteps, Family, MainFirst, Accounts, TypeOK
    <3>3. CASE Attest \/ SignalShutdown \/ WakeAndReturn
      <4>1. UNCHANGED <<messages, counted>>
        BY <3>3 DEF Attest, SignalShutdown, WakeAndReturn
      <4>. QED  BY <2>1, <2>2, <4>1 DEF Family, MainFirst
    <3>. QED  BY <1>2, <3>1, <3>2, <3>3 DEF Coordinator
  <2>. QED
    BY <2>1, <2>2, <2>3, <2>4 DEF Family, Awaiting, Answered, Parents, Ended
<1>. QED  BY <1>1, <1>2

LEMMA FamilyNext ==
    ASSUME Waiting, Accounts, Family, [Next]_vars
    PROVE  Family'
<1>1. CASE StopListening \/ UNCHANGED vars
  <2>1. UNCHANGED <<usedNames, jobs, messages, worker, conn, completions, phase, counted>>
    BY <1>1 DEF StopListening, vars, states, control, coordinator
  <2>2. RunningJobs' = RunningJobs /\ QueuedJobs' = QueuedJobs /\ TakenJobs' = TakenJobs
    BY <2>1, SamePlaces
  <2>3. Rooted'
    BY <2>1, RootedKept DEF Family
  <2>. QED
    BY <2>1, <2>2, <2>3
    DEF Family, Awaiting, Answered, Parents, MainFirst, Ended, Collecting
<1>2. CASE ~(StopListening \/ UNCHANGED vars)
  BY <1>2, FamilyRequest, FamilyHandler, FamilyTake, FamilyAnnounce, FamilyReport,
     FamilyRetire, FamilyCoordinator
  DEF Next, Script, WorkerStep
<1>. QED  BY <1>1, <1>2

LEMMA FamilyInit == Init => Family
<1> SUFFICES ASSUME Init PROVE Family
  OBVIOUS
<1>1. \A c \in Conn : conn[c].at = "unused" /\ conn[c].reply = "none"
  BY DEF Init, Unused
<1>2. Awaiting /\ Answered /\ Parents
  BY <1>1 DEF Awaiting, Answered, Parents, JobStatus
<1>3. Rooted
  BY DEF Init, Rooted
<1>4. MainFirst
  BY DEF Init, MainFirst, QueuedJobs
<1>5. Ended
  BY DEF Init, Ended, Collecting
<1>. QED  BY <1>2, <1>3, <1>4, <1>5 DEF Family

(***************************************************************************)
(* When the check passes, every job whose start was acknowledged has       *)
(* succeeded, if the scripts await their commands and wait for the jobs    *)
(* they start: active_jobs cannot reach zero before the message of a       *)
(* started job is counted (the loop of run_candidate_check).               *)
(***************************************************************************)
THEOREM AcknowledgedCounted ==
    Waiting => (Spec => []AcknowledgedJobsCounted)
<1> SUFFICES ASSUME Waiting PROVE Spec => []AcknowledgedJobsCounted
  OBVIOUS
<1>1. Accounts /\ Family /\ [Next]_vars => Family'
  BY FamilyNext
<1>2. Accounts /\ Family => AcknowledgedJobsCounted
  <2> SUFFICES ASSUME Accounts, Family, result = "passed",
                      NEW c \in Conn, conn[c].reply = "JobStarted"
               PROVE  completions[conn[c].target] = "Succeeded"
    BY DEF AcknowledgedJobsCounted
  <2>1. ~Collecting /\ ~anyFailed
    BY DEF Accounts, IInv, FailureKept, Collecting
  <2>2. conn[c].target \in usedNames
    BY DEF Family, Parents
  <2>3. completions[conn[c].target] # "none" /\ conn[c].target \in Job
    BY <2>1, <2>2 DEF Family, Ended, Accounts, TypeOK
  <2>. QED  BY <2>1, <2>3 DEF Accounts, IInv, Shape, FailureKept, JobStatus
<1>. QED  BY <1>1, <1>2, FamilyInit, AccountsInit, AccountsNext, PTL DEF Spec

=============================================================================
