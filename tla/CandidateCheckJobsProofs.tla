---------------------- MODULE CandidateCheckJobsProofs ----------------------
(***************************************************************************)
(* What becomes of the jobs of a candidate check, for any number of jobs,  *)
(* workers and control requests: none is lost or run twice, the counter    *)
(* the verdict hangs on counts those that run, and no failed step is       *)
(* forgotten.                                                              *)
(***************************************************************************)
EXTENDS CandidateCheckProofs, FiniteSetTheorems, SequenceTheorems

Collecting == phase \in {"collect", "record"}
IsStarted(i) == messages[i].kind = "Started"
IsCompleted(i) == messages[i].kind = "Completed"

\* The places a job passes through, as sets of jobs.
QueuedJobs == {jobs[i] : i \in DOMAIN jobs}
HeldJobs == {worker[w].job : w \in Worker} \ {NoJob}
ReportedJobs == {messages[i].job : i \in {k \in DOMAIN messages : IsCompleted(k)}}
RecordingJobs == {completed.job} \ {NoJob}
RecordedJobs == {allJobs[i][1] : i \in DOMAIN allJobs}

\* Of the held jobs, those announced to the coordinator and those not yet, and
\* the announcements it has not received.
TakenJobs == {worker[w].job : w \in {v \in Worker : worker[v].at = "taken"}}
RunningJobs == {worker[w].job : w \in {v \in Worker : worker[v].at = "running"}}
StartedJobs == {messages[i].job : i \in {k \in DOMAIN messages : IsStarted(k)}}

(***************************************************************************)
(* The inductive invariant.  A job is in one place, and in any place once. *)
(***************************************************************************)
OnePlace ==
    /\ QueuedJobs \cap (HeldJobs \cup ReportedJobs \cup RecordingJobs \cup RecordedJobs) = {}
    /\ HeldJobs \cap (ReportedJobs \cup RecordingJobs \cup RecordedJobs) = {}
    /\ ReportedJobs \cap (RecordingJobs \cup RecordedJobs) = {}
    /\ RecordingJobs \cap RecordedJobs = {}
    /\ QueuedJobs \cup HeldJobs \cup ReportedJobs \cup RecordingJobs \cup RecordedJobs
          \subseteq usedNames
    /\ Collecting => usedNames \subseteq
          QueuedJobs \cup HeldJobs \cup ReportedJobs \cup RecordingJobs \cup RecordedJobs

OneEach ==
    /\ \A i, k \in DOMAIN jobs : jobs[i] = jobs[k] => i = k
    /\ \A v, w \in Worker : worker[v].job = worker[w].job /\ worker[v].job # NoJob => v = w
    /\ \A i, k \in DOMAIN messages :
          messages[i].kind = messages[k].kind /\ messages[i].job = messages[k].job => i = k
    /\ \A i, k \in DOMAIN allJobs : allJobs[i][1] = allJobs[k][1] => i = k

\* Which of the threads' places go with a job in hand.
InHands ==
    /\ \A w \in Worker : worker[w].at \in {"taken", "running"} <=> worker[w].job # NoJob
    /\ phase = "record" <=> completed.job # NoJob
    /\ ~Collecting => messages = <<>>
    /\ phase # "done" <=> result = "none"

\* A job is announced once, before it can complete.
Announced ==
    /\ StartedJobs \cap counted = {}
    /\ (QueuedJobs \cup TakenJobs) \cap (counted \cup StartedJobs) = {}
    /\ counted \cup StartedJobs \subseteq usedNames
    /\ Collecting => RunningJobs \subseteq counted \cup StartedJobs
    /\ \A i \in DOMAIN messages : IsCompleted(i) =>
          \/ messages[i].job \in counted
          \/ \E k \in 1..(i - 1) : IsStarted(k) /\ messages[k].job = messages[i].job
    /\ RecordingJobs \cup RecordedJobs \subseteq counted

\* active_jobs is the number of announced jobs without a record.
Counting ==
    /\ RecordedJobs = {j \in Job : completions[j] # "none"}
    /\ IsFiniteSet(counted)
    /\ active = Cardinality(counted \ RecordedJobs)
    /\ ~Collecting => active = 0 /\ RecordedJobs # {}

Accounts == TypeOK /\ IInv /\ OnePlace /\ OneEach /\ InHands /\ Announced /\ Counting

-----------------------------------------------------------------------------
(***************************************************************************)
(* Sequences as channels.                                                  *)
(***************************************************************************)
LEMMA SeqAppend ==
    ASSUME NEW S, NEW s \in Seq(S), NEW e \in S, NEW t, t = Append(s, e)
    PROVE  /\ t \in Seq(S) /\ Len(s) \in Nat /\ DOMAIN s = 1..Len(s)
           /\ DOMAIN t = 1..(Len(s) + 1)
           /\ \A i \in 1..Len(s) : t[i] = s[i]
           /\ t[Len(s) + 1] = e
OBVIOUS

LEMMA SeqTail ==
    ASSUME NEW S, NEW s \in Seq(S), s # <<>>, NEW t, t = Tail(s)
    PROVE  /\ t \in Seq(S) /\ Len(s) \in Nat /\ Len(s) >= 1 /\ DOMAIN s = 1..Len(s)
           /\ Head(s) = s[1] /\ s[1] \in S
           /\ DOMAIN t = 1..(Len(s) - 1)
           /\ \A i \in 1..(Len(s) - 1) : t[i] = s[i + 1]
OBVIOUS

LEMMA Empty ==
    /\ jobs = <<>> => QueuedJobs = {}
    /\ messages = <<>> => ReportedJobs = {} /\ StartedJobs = {}
    /\ allJobs = <<>> => RecordedJobs = {}
BY DEF QueuedJobs, ReportedJobs, StartedJobs, RecordedJobs

\* Nothing but a job is in the places of jobs.
LEMMA PlacesOfJobs ==
    ASSUME TypeOK
    PROVE  /\ QueuedJobs \subseteq Job /\ HeldJobs \subseteq Job
           /\ ReportedJobs \subseteq Job /\ StartedJobs \subseteq Job
           /\ RecordingJobs \subseteq Job /\ RecordedJobs \subseteq Job
<1>1. QueuedJobs \subseteq Job
  BY DEF TypeOK, QueuedJobs
<1>2. HeldJobs \subseteq Job
  BY DEF TypeOK, HeldJobs
<1>3. ReportedJobs \subseteq Job /\ StartedJobs \subseteq Job
  <2>1. \A i \in DOMAIN messages : messages[i] \in Message
    BY DEF TypeOK
  <2>2. \A m \in Message : m.job \in Job
    BY DEF Message
  <2>. QED  BY <2>1, <2>2 DEF ReportedJobs, StartedJobs
<1>4. RecordingJobs \subseteq Job
  BY DEF TypeOK, RecordingJobs
<1>5. RecordedJobs \subseteq Job
  BY DEF TypeOK, RecordedJobs
<1>. QED  BY <1>1, <1>2, <1>3, <1>4, <1>5

\* The jobs channel gains a job at its end or loses the one at its head.
LEMMA QueueGrows ==
    ASSUME TypeOK, OneEach, NEW j \in Job \ QueuedJobs, jobs' = Append(jobs, j)
    PROVE  /\ QueuedJobs' = QueuedJobs \cup {j}
           /\ \A i, k \in DOMAIN jobs' : jobs'[i] = jobs'[k] => i = k
<1>1. /\ Len(jobs) \in Nat /\ DOMAIN jobs = 1..Len(jobs)
      /\ DOMAIN jobs' = 1..(Len(jobs) + 1)
      /\ \A i \in 1..Len(jobs) : jobs'[i] = jobs[i]
      /\ jobs'[Len(jobs) + 1] = j
  BY SeqAppend DEF TypeOK
<1>2. \A i \in DOMAIN jobs' : i \in DOMAIN jobs \/ i = Len(jobs) + 1
  BY <1>1
<1>3. DOMAIN jobs \subseteq DOMAIN jobs' /\ Len(jobs) + 1 \in DOMAIN jobs'
  BY <1>1
<1>4. \A i \in DOMAIN jobs : jobs[i] # j
  BY DEF QueuedJobs
<1>5. QueuedJobs' = QueuedJobs \cup {j}
  BY <1>1, <1>2, <1>3 DEF QueuedJobs
<1>6. \A i, k \in DOMAIN jobs' : jobs'[i] = jobs'[k] => i = k
  BY <1>1, <1>2, <1>4 DEF OneEach
<1>. QED  BY <1>5, <1>6

LEMMA QueueShrinks ==
    ASSUME TypeOK, OneEach, jobs # <<>>, jobs' = Tail(jobs)
    PROVE  /\ Head(jobs) \in QueuedJobs
           /\ QueuedJobs' = QueuedJobs \ {Head(jobs)}
           /\ \A i, k \in DOMAIN jobs' : jobs'[i] = jobs'[k] => i = k
<1>1. /\ Len(jobs) \in Nat /\ Len(jobs) >= 1 /\ DOMAIN jobs = 1..Len(jobs)
      /\ Head(jobs) = jobs[1]
      /\ DOMAIN jobs' = 1..(Len(jobs) - 1)
      /\ \A i \in 1..(Len(jobs) - 1) : jobs'[i] = jobs[i + 1]
  BY SeqTail DEF TypeOK
<1>2. \A i \in DOMAIN jobs' : i + 1 \in DOMAIN jobs /\ jobs'[i] = jobs[i + 1] /\ i + 1 # 1
  BY <1>1
<1>3. \A i \in DOMAIN jobs : i # 1 => i - 1 \in DOMAIN jobs' /\ jobs'[i - 1] = jobs[i]
  BY <1>1
<1>4. \A i \in DOMAIN jobs : jobs[i] = jobs[1] => i = 1
  BY <1>1 DEF OneEach
<1>5. QueuedJobs' \subseteq QueuedJobs \ {Head(jobs)}
  BY <1>1, <1>2, <1>4 DEF QueuedJobs
<1>6. QueuedJobs \ {Head(jobs)} \subseteq QueuedJobs'
  BY <1>1, <1>3 DEF QueuedJobs
<1>7. \A i, k \in DOMAIN jobs' : jobs'[i] = jobs'[k] => i = k
  <2> SUFFICES ASSUME NEW i \in DOMAIN jobs', NEW k \in DOMAIN jobs', jobs'[i] = jobs'[k]
               PROVE  i = k
    OBVIOUS
  <2>1. i + 1 = k + 1
    BY <1>2 DEF OneEach
  <2>. QED  BY <1>1, <2>1
<1>8. Head(jobs) \in QueuedJobs
  BY <1>1 DEF QueuedJobs
<1>. QED  BY <1>5, <1>6, <1>7, <1>8

\* So does the channel to the coordinator, with announcements and reports.
LEMMA MessagesGrow ==
    ASSUME TypeOK, OneEach, NEW m \in Message, messages' = Append(messages, m),
           m.kind = "Started" => m.job \notin StartedJobs,
           m.kind = "Completed" => m.job \notin ReportedJobs
    PROVE  /\ StartedJobs' = StartedJobs \cup (IF m.kind = "Started" THEN {m.job} ELSE {})
           /\ ReportedJobs' = ReportedJobs \cup (IF m.kind = "Completed" THEN {m.job} ELSE {})
           /\ \A i, k \in DOMAIN messages' :
                 messages'[i].kind = messages'[k].kind /\ messages'[i].job = messages'[k].job
                    => i = k
           /\ messages' \in Seq(Message)
           /\ Len(messages) \in Nat /\ DOMAIN messages = 1..Len(messages)
           /\ DOMAIN messages' = 1..(Len(messages) + 1)
           /\ \A i \in 1..Len(messages) : messages'[i] = messages[i]
           /\ messages'[Len(messages) + 1] = m
<1>. DEFINE n == Len(messages) + 1
<1>1. /\ Len(messages) \in Nat /\ DOMAIN messages = 1..Len(messages)
      /\ DOMAIN messages' = 1..n
      /\ \A i \in 1..Len(messages) : messages'[i] = messages[i]
      /\ messages'[n] = m
      /\ messages' \in Seq(Message)
  BY SeqAppend DEF TypeOK
<1>2. \A i \in DOMAIN messages' : i \in DOMAIN messages \/ i = n
  BY <1>1
<1>3. DOMAIN messages \subseteq DOMAIN messages' /\ n \in DOMAIN messages'
  BY <1>1
<1>4. m.kind \in {"Started", "Completed"}
  BY DEF Message
<1>5. StartedJobs' = StartedJobs \cup (IF m.kind = "Started" THEN {m.job} ELSE {})
  BY <1>1, <1>2, <1>3 DEF StartedJobs, IsStarted
<1>6. ReportedJobs' = ReportedJobs \cup (IF m.kind = "Completed" THEN {m.job} ELSE {})
  BY <1>1, <1>2, <1>3 DEF ReportedJobs, IsCompleted
<1>7. \A i \in DOMAIN messages : ~(messages[i].kind = m.kind /\ messages[i].job = m.job)
  BY <1>4 DEF StartedJobs, ReportedJobs, IsStarted, IsCompleted
<1>8. \A i, k \in DOMAIN messages' :
         messages'[i].kind = messages'[k].kind /\ messages'[i].job = messages'[k].job => i = k
  BY <1>1, <1>2, <1>7 DEF OneEach
<1>. QED  BY <1>1, <1>5, <1>6, <1>8

LEMMA MessagesShrink ==
    ASSUME TypeOK, OneEach, messages # <<>>, messages' = Tail(messages)
    PROVE  /\ Head(messages) \in Message /\ Head(messages) = messages[1]
           /\ StartedJobs' = StartedJobs \ (IF IsStarted(1) THEN {messages[1].job} ELSE {})
           /\ ReportedJobs' = ReportedJobs \ (IF IsCompleted(1) THEN {messages[1].job} ELSE {})
           /\ IsStarted(1) => messages[1].job \in StartedJobs
           /\ IsCompleted(1) => messages[1].job \in ReportedJobs
           /\ \A i, k \in DOMAIN messages' :
                 messages'[i].kind = messages'[k].kind /\ messages'[i].job = messages'[k].job
                    => i = k
           /\ messages' \in Seq(Message)
           /\ Len(messages) \in Nat /\ DOMAIN messages = 1..Len(messages) /\ 1 \in DOMAIN messages
           /\ DOMAIN messages' = 1..(Len(messages) - 1)
           /\ \A i \in 1..(Len(messages) - 1) : messages'[i] = messages[i + 1]
<1>1. /\ Len(messages) \in Nat /\ Len(messages) >= 1 /\ DOMAIN messages = 1..Len(messages)
      /\ Head(messages) = messages[1] /\ messages[1] \in Message
      /\ DOMAIN messages' = 1..(Len(messages) - 1)
      /\ \A i \in 1..(Len(messages) - 1) : messages'[i] = messages[i + 1]
      /\ messages' \in Seq(Message)
  BY SeqTail DEF TypeOK
<1>2. \A i \in DOMAIN messages' :
         i + 1 \in DOMAIN messages /\ messages'[i] = messages[i + 1] /\ i + 1 # 1
  BY <1>1
<1>3. \A i \in DOMAIN messages : i # 1 =>
         i - 1 \in DOMAIN messages' /\ messages'[i - 1] = messages[i]
  BY <1>1
<1>4. 1 \in DOMAIN messages
  BY <1>1
<1>5. \A i \in DOMAIN messages :
         messages[i].kind = messages[1].kind /\ messages[i].job = messages[1].job => i = 1
  BY <1>4 DEF OneEach
<1>6. StartedJobs' = StartedJobs \ (IF IsStarted(1) THEN {messages[1].job} ELSE {})
  <2>1. StartedJobs' \subseteq StartedJobs \ (IF IsStarted(1) THEN {messages[1].job} ELSE {})
    <3> SUFFICES ASSUME NEW i \in DOMAIN messages', IsStarted(i)'
                 PROVE  messages'[i].job
                           \in StartedJobs \ (IF IsStarted(1) THEN {messages[1].job} ELSE {})
      BY DEF StartedJobs
    <3>1. i + 1 \in DOMAIN messages /\ IsStarted(i + 1) /\ i + 1 # 1
      BY <1>2 DEF IsStarted
    <3>2. messages'[i].job \in StartedJobs
      BY <1>2, <3>1 DEF StartedJobs
    <3>3. IsStarted(1) => messages'[i].job # messages[1].job
      BY <1>2, <1>5, <3>1 DEF IsStarted
    <3>. QED  BY <3>2, <3>3
  <2>2. StartedJobs \ (IF IsStarted(1) THEN {messages[1].job} ELSE {}) \subseteq StartedJobs'
    <3> SUFFICES ASSUME NEW i \in DOMAIN messages, IsStarted(i),
                        IsStarted(1) => messages[i].job # messages[1].job
                 PROVE  messages[i].job \in StartedJobs'
      BY DEF StartedJobs
    <3>1. i - 1 \in DOMAIN messages' /\ messages'[i - 1] = messages[i]
      BY <1>3
    <3>2. IsStarted(i - 1)'
      BY <3>1 DEF IsStarted
    <3>. QED  BY <3>1, <3>2 DEF StartedJobs
  <2>. QED  BY <2>1, <2>2
<1>7. ReportedJobs' = ReportedJobs \ (IF IsCompleted(1) THEN {messages[1].job} ELSE {})
  <2>1. ReportedJobs' \subseteq ReportedJobs \ (IF IsCompleted(1) THEN {messages[1].job} ELSE {})
    BY <1>2, <1>4, <1>5 DEF ReportedJobs, IsCompleted
  <2>2. ReportedJobs \ (IF IsCompleted(1) THEN {messages[1].job} ELSE {}) \subseteq ReportedJobs'
    BY <1>3, <1>4 DEF ReportedJobs, IsCompleted
  <2>. QED  BY <2>1, <2>2
<1>8. \A i, k \in DOMAIN messages' :
         messages'[i].kind = messages'[k].kind /\ messages'[i].job = messages'[k].job => i = k
  <2> SUFFICES ASSUME NEW i \in DOMAIN messages', NEW k \in DOMAIN messages',
                      messages'[i].kind = messages'[k].kind,
                      messages'[i].job = messages'[k].job
               PROVE  i = k
    OBVIOUS
  <2>1. i + 1 = k + 1
    BY <1>2 DEF OneEach
  <2>. QED  BY <1>1, <2>1
<1>9. /\ IsStarted(1) => messages[1].job \in StartedJobs
      /\ IsCompleted(1) => messages[1].job \in ReportedJobs
  BY <1>4 DEF StartedJobs, ReportedJobs
<1>. QED  BY <1>1, <1>4, <1>6, <1>7, <1>8, <1>9

-----------------------------------------------------------------------------
(***************************************************************************)
(* The jobs in the workers' hands.                                         *)
(***************************************************************************)
LEMMA WorkerFacts ==
    ASSUME TypeOK, OneEach, InHands, NEW w \in Worker
    PROVE  /\ worker[w].at \in {"taken", "running"} => worker[w].job \in HeldJobs
           /\ worker[w].at = "taken" => worker[w].job \in TakenJobs
           /\ worker[w].at = "running" => worker[w].job \in RunningJobs
           /\ HeldJobs = TakenJobs \cup RunningJobs
           /\ TakenJobs \cap RunningJobs = {}
<1>1. /\ worker[w].at \in {"taken", "running"} => worker[w].job \in HeldJobs
      /\ worker[w].at = "taken" => worker[w].job \in TakenJobs
      /\ worker[w].at = "running" => worker[w].job \in RunningJobs
  BY DEF InHands, HeldJobs, TakenJobs, RunningJobs
<1>2. HeldJobs = TakenJobs \cup RunningJobs
  BY DEF InHands, HeldJobs, TakenJobs, RunningJobs
<1>3. TakenJobs \cap RunningJobs = {}
  BY DEF InHands, OneEach, TakenJobs, RunningJobs
<1>. QED  BY <1>1, <1>2, <1>3

\* A worker takes a job up ...
LEMMA WorkerTakes ==
    ASSUME TypeOK, OneEach, InHands, NEW w \in Worker, NEW j \in Job \ HeldJobs,
           worker[w].at = "idle",
           worker' = [worker EXCEPT ![w] = [at |-> "taken", job |-> j]]
    PROVE  /\ TakenJobs' = TakenJobs \cup {j} /\ RunningJobs' = RunningJobs
           /\ HeldJobs' = HeldJobs \cup {j}
           /\ \A u, v \in Worker :
                 worker'[u].job = worker'[v].job /\ worker'[u].job # NoJob => u = v
           /\ \A v \in Worker : worker'[v].at \in {"taken", "running"} <=> worker'[v].job # NoJob
<1>1. worker'[w] = [at |-> "taken", job |-> j] /\ \A v \in Worker \ {w} : worker'[v] = worker[v]
  BY DEF TypeOK
<1>2. \A v \in Worker : worker[v].job # j
  BY NoJobAssumption DEF HeldJobs
<1>3. TakenJobs' = TakenJobs \cup {j}
  BY <1>1 DEF TakenJobs
<1>4. RunningJobs' = RunningJobs
  BY <1>1 DEF RunningJobs
<1>5. worker[w].job = NoJob /\ j # NoJob
  BY NoJobAssumption DEF InHands
<1>6. HeldJobs' = HeldJobs \cup {j}
  BY <1>1, <1>5 DEF HeldJobs
<1>7. \A u, v \in Worker :
         worker'[u].job = worker'[v].job /\ worker'[u].job # NoJob => u = v
  BY <1>1, <1>2 DEF OneEach
<1>8. \A v \in Worker : worker'[v].at \in {"taken", "running"} <=> worker'[v].job # NoJob
  BY <1>1, <1>5 DEF InHands
<1>. QED  BY <1>3, <1>4, <1>6, <1>7, <1>8

\* ... announces it and runs its command ...
LEMMA WorkerRuns ==
    ASSUME TypeOK, OneEach, InHands, NEW w \in Worker, worker[w].at = "taken",
           worker' = [worker EXCEPT ![w] = [at |-> "running", job |-> worker[w].job]]
    PROVE  /\ TakenJobs' = TakenJobs \ {worker[w].job}
           /\ RunningJobs' = RunningJobs \cup {worker[w].job}
           /\ HeldJobs' = HeldJobs
           /\ \A u, v \in Worker :
                 worker'[u].job = worker'[v].job /\ worker'[u].job # NoJob => u = v
           /\ \A v \in Worker : worker'[v].at \in {"taken", "running"} <=> worker'[v].job # NoJob
<1>1. /\ worker'[w].at = "running" /\ worker'[w].job = worker[w].job
      /\ \A v \in Worker \ {w} : worker'[v] = worker[v]
  BY DEF TypeOK
<1>2. \A v \in Worker : worker'[v].job = worker[v].job
  BY <1>1
<1>3. worker[w].job # NoJob /\ \A v \in Worker \ {w} : worker[v].job # worker[w].job
  BY DEF InHands, OneEach
<1>4. TakenJobs' = TakenJobs \ {worker[w].job}
  BY <1>1, <1>3 DEF TakenJobs
<1>5. RunningJobs' = RunningJobs \cup {worker[w].job}
  BY <1>1 DEF RunningJobs
<1>6. HeldJobs' = HeldJobs
  BY <1>2 DEF HeldJobs
<1>7. \A u, v \in Worker :
         worker'[u].job = worker'[v].job /\ worker'[u].job # NoJob => u = v
  BY <1>2 DEF OneEach
<1>8. \A v \in Worker : worker'[v].at \in {"taken", "running"} <=> worker'[v].job # NoJob
  BY <1>1, <1>3 DEF InHands
<1>. QED  BY <1>4, <1>5, <1>6, <1>7, <1>8

\* ... and is free again.
LEMMA WorkerFrees ==
    ASSUME TypeOK, OneEach, InHands, NEW w \in Worker, NEW at \in {"idle", "exited"},
           worker[w].at # "taken",
           worker' = [worker EXCEPT ![w] = [at |-> at, job |-> NoJob]]
    PROVE  /\ TakenJobs' = TakenJobs
           /\ RunningJobs' = RunningJobs \ {worker[w].job}
           /\ HeldJobs' = HeldJobs \ {worker[w].job}
           /\ \A u, v \in Worker :
                 worker'[u].job = worker'[v].job /\ worker'[u].job # NoJob => u = v
           /\ \A v \in Worker : worker'[v].at \in {"taken", "running"} <=> worker'[v].job # NoJob
<1>1. worker'[w] = [at |-> at, job |-> NoJob] /\ \A v \in Worker \ {w} : worker'[v] = worker[v]
  BY DEF TypeOK
<1>2. worker[w].job # NoJob => \A v \in Worker \ {w} : worker[v].job # worker[w].job
  BY DEF OneEach
<1>3. TakenJobs' = TakenJobs
  BY <1>1 DEF TakenJobs
<1>4. NoJob \notin RunningJobs
  BY DEF InHands, RunningJobs
<1>5. RunningJobs' = RunningJobs \ {worker[w].job}
  <2>1. CASE worker[w].job = NoJob
    BY <1>1, <1>4, <2>1 DEF RunningJobs, InHands
  <2>2. CASE worker[w].job # NoJob
    BY <1>1, <1>2, <2>2 DEF RunningJobs
  <2>. QED  BY <2>1, <2>2
<1>6. HeldJobs' = HeldJobs \ {worker[w].job}
  BY <1>1, <1>2 DEF HeldJobs
<1>7. \A u, v \in Worker :
         worker'[u].job = worker'[v].job /\ worker'[u].job # NoJob => u = v
  BY <1>1 DEF OneEach
<1>8. \A v \in Worker : worker'[v].at \in {"taken", "running"} <=> worker'[v].job # NoJob
  BY <1>1 DEF InHands
<1>. QED  BY <1>3, <1>5, <1>6, <1>7, <1>8

-----------------------------------------------------------------------------
(***************************************************************************)
(* One lemma per step that moves a job.                                    *)
(***************************************************************************)
Bookkeeping == OnePlace /\ OneEach /\ InHands /\ Announced /\ Counting

Ordered ==
    \A i \in DOMAIN messages : IsCompleted(i) =>
        \/ messages[i].job \in counted
        \/ \E k \in 1..(i - 1) : IsStarted(k) /\ messages[k].job = messages[i].job

LEMMA SamePlaces ==
    /\ jobs' = jobs => QueuedJobs' = QueuedJobs
    /\ worker' = worker =>
          HeldJobs' = HeldJobs /\ TakenJobs' = TakenJobs /\ RunningJobs' = RunningJobs
    /\ messages' = messages =>
          ReportedJobs' = ReportedJobs /\ StartedJobs' = StartedJobs
    /\ messages' = messages /\ counted' = counted /\ Ordered => Ordered'
    /\ completed' = completed => RecordingJobs' = RecordingJobs
    /\ allJobs' = allJobs => RecordedJobs' = RecordedJobs
BY DEF QueuedJobs, HeldJobs, TakenJobs, RunningJobs, ReportedJobs, StartedJobs, Ordered,
       IsStarted, IsCompleted, RecordingJobs, RecordedJobs

LEMMA BooksKept ==
    ASSUME Bookkeeping,
           UNCHANGED <<usedNames, jobs, messages, worker, completions, phase, completed,
                       active, allJobs, result, counted>>
    PROVE  Bookkeeping'
<1>1. Ordered
  BY DEF Bookkeeping, Announced, Ordered
<1>2. OnePlace'
  BY SamePlaces DEF Bookkeeping, OnePlace, Collecting
<1>3. OneEach' /\ InHands'
  BY DEF Bookkeeping, OneEach, InHands, Collecting
<1>4. Announced'
  BY <1>1, SamePlaces DEF Bookkeeping, Announced, Ordered, Collecting
<1>5. Counting'
  BY SamePlaces DEF Bookkeeping, Counting, Collecting
<1>. QED  BY <1>2, <1>3, <1>4, <1>5 DEF Bookkeeping

LEMMA StartJobBooks == ASSUME Accounts, NEW c \in Conn, StartJob(c) PROVE Bookkeeping'
<1>. DEFINE j == conn[c].target
<1>0. Bookkeeping /\ Ordered
  BY DEF Accounts, Bookkeeping, Announced, Ordered
<1>1. UNCHANGED <<messages, worker, completions, phase, completed, active, allJobs, result,
                  counted>>
  BY DEF StartJob, states, coordinator
<1>2. CASE j \in usedNames
  BY <1>0, <1>1, <1>2, BooksKept DEF StartJob
<1>3. CASE j \notin usedNames
  <2>1. j \in Job /\ jobs' = Append(jobs, j) /\ usedNames' = usedNames \cup {j}
    BY <1>3 DEF StartJob, Handles, Accounts, IInv, Shape
  <2>2. j \notin QueuedJobs
    BY <1>3 DEF Accounts, OnePlace
  <2>3. /\ QueuedJobs' = QueuedJobs \cup {j}
        /\ \A i, k \in DOMAIN jobs' : jobs'[i] = jobs'[k] => i = k
    BY <2>1, <2>2, QueueGrows DEF Accounts
  <2>4. OnePlace'
    BY <1>0, <1>1, <1>3, <2>1, <2>3, SamePlaces DEF Bookkeeping, OnePlace, Collecting
  <2>5. OneEach'
    BY <1>0, <1>1, <2>3 DEF Bookkeeping, OneEach
  <2>6. InHands'
    BY <1>0, <1>1 DEF Bookkeeping, InHands, Collecting
  <2>7. Announced'
    BY <1>0, <1>1, <1>3, <2>1, <2>3, SamePlaces DEF Bookkeeping, Announced, Ordered, Collecting
  <2>8. Counting'
    BY <1>0, <1>1, SamePlaces DEF Bookkeeping, Counting, Collecting
  <2>. QED  BY <2>4, <2>5, <2>6, <2>7, <2>8 DEF Bookkeeping
<1>. QED  BY <1>2, <1>3

LEMMA TakeBooks == ASSUME Accounts, NEW w \in Worker, Take(w) PROVE Bookkeeping'
<1>. DEFINE j == Head(jobs)
<1>0. Bookkeeping /\ Ordered /\ TypeOK
  BY DEF Accounts, Bookkeeping, Announced, Ordered
<1>1. /\ UNCHANGED <<usedNames, messages, completions, phase, completed, active, allJobs,
                     result, counted>>
      /\ worker[w].at = "idle" /\ jobs # <<>> /\ jobs' = Tail(jobs)
      /\ worker' = [worker EXCEPT ![w] = [at |-> "taken", job |-> j]]
  BY DEF Take, states, coordinator
<1>2. /\ j \in QueuedJobs
      /\ QueuedJobs' = QueuedJobs \ {j}
      /\ \A i, k \in DOMAIN jobs' : jobs'[i] = jobs'[k] => i = k
  BY <1>0, <1>1, QueueShrinks DEF Bookkeeping
<1>3. j \in Job \ HeldJobs
  BY <1>0, <1>2, PlacesOfJobs DEF Bookkeeping, OnePlace
<1>4. /\ TakenJobs' = TakenJobs \cup {j} /\ RunningJobs' = RunningJobs
      /\ HeldJobs' = HeldJobs \cup {j}
      /\ \A u, v \in Worker :
            worker'[u].job = worker'[v].job /\ worker'[u].job # NoJob => u = v
      /\ \A v \in Worker : worker'[v].at \in {"taken", "running"} <=> worker'[v].job # NoJob
  BY <1>0, <1>1, <1>3, WorkerTakes DEF Bookkeeping
<1>5. OnePlace'
  BY <1>0, <1>1, <1>2, <1>4, SamePlaces DEF Bookkeeping, OnePlace, Collecting
<1>6. OneEach'
  BY <1>0, <1>1, <1>2, <1>4 DEF Bookkeeping, OneEach
<1>7. InHands'
  BY <1>0, <1>1, <1>4 DEF Bookkeeping, InHands, Collecting
<1>8. Announced'
  BY <1>0, <1>1, <1>2, <1>4, SamePlaces DEF Bookkeeping, Announced, Ordered, Collecting
<1>9. Counting'
  BY <1>0, <1>1, SamePlaces DEF Bookkeeping, Counting, Collecting
<1>. QED  BY <1>5, <1>6, <1>7, <1>8, <1>9 DEF Bookkeeping

LEMMA AnnounceBooks == ASSUME Accounts, NEW w \in Worker, Announce(w) PROVE Bookkeeping'
<1>. DEFINE j == worker[w].job
            m == [kind |-> "Started", job |-> j, ok |-> FALSE]
<1>0. Bookkeeping /\ Ordered /\ TypeOK
  BY DEF Accounts, Bookkeeping, Announced, Ordered
<1>1. /\ UNCHANGED <<usedNames, jobs, completions, phase, completed, active, allJobs,
                     result, counted>>
      /\ worker[w].at = "taken" /\ Post(m)
      /\ worker' = [worker EXCEPT ![w] = [at |-> "running", job |-> j]]
  BY DEF Announce, states, coordinator
<1>2. /\ TakenJobs' = TakenJobs \ {j}
      /\ RunningJobs' = RunningJobs \cup {j}
      /\ HeldJobs' = HeldJobs
      /\ \A u, v \in Worker :
            worker'[u].job = worker'[v].job /\ worker'[u].job # NoJob => u = v
      /\ \A v \in Worker : worker'[v].at \in {"taken", "running"} <=> worker'[v].job # NoJob
  BY <1>0, <1>1, WorkerRuns DEF Bookkeeping
<1>3. /\ j \in TakenJobs /\ j \in HeldJobs /\ HeldJobs = TakenJobs \cup RunningJobs
      /\ TakenJobs \cap RunningJobs = {} /\ j \in Job
  BY <1>0, <1>1, WorkerFacts, PlacesOfJobs DEF Bookkeeping
<1>4. j \notin counted \cup StartedJobs /\ j \in usedNames
  BY <1>0, <1>3 DEF Bookkeeping, Announced, OnePlace
<1>5. CASE Collecting
  <2>1. messages' = Append(messages, m) /\ m \in Message
    BY <1>1, <1>3, <1>5 DEF Post, Collecting, Message
  <2>2. /\ StartedJobs' = StartedJobs \cup {j}
        /\ ReportedJobs' = ReportedJobs
        /\ \A i, k \in DOMAIN messages' :
              messages'[i].kind = messages'[k].kind /\ messages'[i].job = messages'[k].job
                 => i = k
        /\ Len(messages) \in Nat /\ DOMAIN messages = 1..Len(messages)
        /\ DOMAIN messages' = 1..(Len(messages) + 1)
        /\ \A i \in 1..Len(messages) : messages'[i] = messages[i]
        /\ messages'[Len(messages) + 1] = m
    <3>1. OneEach /\ m.kind = "Started" /\ m.job = j /\ j \notin StartedJobs
      BY <1>0, <1>4 DEF Bookkeeping
    <3>2. /\ m.kind = "Started" => m.job \notin StartedJobs
          /\ m.kind = "Completed" => m.job \notin ReportedJobs
      BY <3>1
    <3>3. /\ StartedJobs' = StartedJobs \cup (IF m.kind = "Started" THEN {m.job} ELSE {})
          /\ ReportedJobs' = ReportedJobs \cup (IF m.kind = "Completed" THEN {m.job} ELSE {})
          /\ \A i, k \in DOMAIN messages' :
                messages'[i].kind = messages'[k].kind /\ messages'[i].job = messages'[k].job
                   => i = k
          /\ Len(messages) \in Nat /\ DOMAIN messages = 1..Len(messages)
          /\ DOMAIN messages' = 1..(Len(messages) + 1)
          /\ \A i \in 1..Len(messages) : messages'[i] = messages[i]
          /\ messages'[Len(messages) + 1] = m
      <4>. HIDE DEF m
      <4>. QED  BY <1>0, <2>1, <3>1, <3>2, MessagesGrow
    <3>. QED  BY <3>1, <3>3
  <2>3. Ordered'
    <3> SUFFICES ASSUME NEW i \in DOMAIN messages', IsCompleted(i)'
                 PROVE  \/ messages'[i].job \in counted
                        \/ \E k \in 1..(i - 1) :
                              IsStarted(k)' /\ messages'[k].job = messages'[i].job
      BY <1>1 DEF Ordered
    <3>1. i \in DOMAIN messages /\ IsCompleted(i) /\ 1..(i - 1) \subseteq DOMAIN messages
      BY <2>2 DEF IsCompleted
    <3>. QED  BY <1>0, <2>2, <3>1 DEF Ordered, IsStarted
  <2>4. OnePlace'
    BY <1>0, <1>1, <1>2, <2>2, SamePlaces DEF Bookkeeping, OnePlace, Collecting
  <2>5. OneEach'
    BY <1>0, <1>1, <1>2, <2>2 DEF Bookkeeping, OneEach
  <2>6. InHands'
    BY <1>0, <1>1, <1>2, <1>5 DEF Bookkeeping, InHands, Collecting
  <2>7. Announced'
    BY <1>0, <1>1, <1>2, <1>3, <1>4, <2>2, <2>3, SamePlaces
    DEF Bookkeeping, OnePlace, Announced, Ordered, Collecting
  <2>8. Counting'
    BY <1>0, <1>1, SamePlaces DEF Bookkeeping, Counting, Collecting
  <2>. QED  BY <2>4, <2>5, <2>6, <2>7, <2>8 DEF Bookkeeping
<1>6. CASE ~Collecting
  <2>1. messages' = messages
    BY <1>1, <1>6 DEF Post, Collecting
  <2>4. OnePlace'
    BY <1>0, <1>1, <1>2, <2>1, SamePlaces DEF Bookkeeping, OnePlace, Collecting
  <2>5. OneEach'
    BY <1>0, <1>1, <1>2, <2>1 DEF Bookkeeping, OneEach
  <2>6. InHands'
    BY <1>0, <1>1, <1>2, <2>1 DEF Bookkeeping, InHands, Collecting
  <2>7. Announced'
    BY <1>0, <1>1, <1>2, <1>6, <2>1, SamePlaces
    DEF Bookkeeping, Announced, Ordered, Collecting
  <2>8. Counting'
    BY <1>0, <1>1, SamePlaces DEF Bookkeeping, Counting, Collecting
  <2>. QED  BY <2>4, <2>5, <2>6, <2>7, <2>8 DEF Bookkeeping
<1>. QED  BY <1>5, <1>6

LEMMA ReportBooks == ASSUME Accounts, NEW w \in Worker, Report(w) PROVE Bookkeeping'
<1>. DEFINE j == worker[w].job
<1>0. Bookkeeping /\ Ordered /\ TypeOK
  BY DEF Accounts, Bookkeeping, Announced, Ordered
<1>1. /\ UNCHANGED <<usedNames, jobs, completions, phase, completed, active, allJobs,
                     result, counted>>
      /\ worker[w].at = "running"
      /\ worker' = [worker EXCEPT ![w] = [at |-> "idle", job |-> NoJob]]
      /\ \E ok \in BOOLEAN : Post([kind |-> "Completed", job |-> j, ok |-> ok])
  BY DEF Report, states, coordinator
<1>2. /\ TakenJobs' = TakenJobs
      /\ RunningJobs' = RunningJobs \ {j}
      /\ HeldJobs' = HeldJobs \ {j}
      /\ \A u, v \in Worker :
            worker'[u].job = worker'[v].job /\ worker'[u].job # NoJob => u = v
      /\ \A v \in Worker : worker'[v].at \in {"taken", "running"} <=> worker'[v].job # NoJob
  BY <1>0, <1>1, WorkerFrees DEF Bookkeeping
<1>3. j \in RunningJobs /\ j \in HeldJobs /\ j \in Job
  BY <1>0, <1>1, WorkerFacts, PlacesOfJobs DEF Bookkeeping
<1>4. j \notin ReportedJobs
  BY <1>0, <1>3 DEF Bookkeeping, OnePlace
<1>5. PICK ok \in BOOLEAN : Post([kind |-> "Completed", job |-> j, ok |-> ok])
  BY <1>1
<1>. DEFINE m == [kind |-> "Completed", job |-> j, ok |-> ok]
<1>6. CASE Collecting
  <2>1. messages' = Append(messages, m) /\ m \in Message
    BY <1>3, <1>5, <1>6 DEF Post, Collecting, Message
  <2>2. /\ StartedJobs' = StartedJobs
        /\ ReportedJobs' = ReportedJobs \cup {j}
        /\ \A i, k \in DOMAIN messages' :
              messages'[i].kind = messages'[k].kind /\ messages'[i].job = messages'[k].job
                 => i = k
        /\ Len(messages) \in Nat /\ DOMAIN messages = 1..Len(messages)
        /\ DOMAIN messages' = 1..(Len(messages) + 1)
        /\ \A i \in 1..Len(messages) : messages'[i] = messages[i]
        /\ messages'[Len(messages) + 1] = m
    <3>1. OneEach /\ m.kind = "Completed" /\ m.job = j /\ j \notin ReportedJobs
      BY <1>0, <1>4 DEF Bookkeeping
    <3>2. /\ m.kind = "Started" => m.job \notin StartedJobs
          /\ m.kind = "Completed" => m.job \notin ReportedJobs
      BY <3>1
    <3>3. /\ StartedJobs' = StartedJobs \cup (IF m.kind = "Started" THEN {m.job} ELSE {})
          /\ ReportedJobs' = ReportedJobs \cup (IF m.kind = "Completed" THEN {m.job} ELSE {})
          /\ \A i, k \in DOMAIN messages' :
                messages'[i].kind = messages'[k].kind /\ messages'[i].job = messages'[k].job
                   => i = k
          /\ Len(messages) \in Nat /\ DOMAIN messages = 1..Len(messages)
          /\ DOMAIN messages' = 1..(Len(messages) + 1)
          /\ \A i \in 1..Len(messages) : messages'[i] = messages[i]
          /\ messages'[Len(messages) + 1] = m
      <4>. HIDE DEF m
      <4>. QED  BY <1>0, <2>1, <3>1, <3>2, MessagesGrow
    <3>. QED  BY <3>1, <3>3
  <2>3. Ordered'
    <3> SUFFICES ASSUME NEW i \in DOMAIN messages', IsCompleted(i)'
                 PROVE  \/ messages'[i].job \in counted
                        \/ \E k \in 1..(i - 1) :
                              IsStarted(k)' /\ messages'[k].job = messages'[i].job
      BY <1>1 DEF Ordered
    <3>1. CASE i \in DOMAIN messages
      <4>1. IsCompleted(i) /\ 1..(i - 1) \subseteq DOMAIN messages
        BY <2>2, <3>1 DEF IsCompleted
      <4>. QED  BY <1>0, <2>2, <3>1, <4>1 DEF Ordered, IsStarted
    <3>2. CASE i = Len(messages) + 1
      <4>1. 1..(i - 1) = DOMAIN messages /\ messages'[i].job = j
        BY <2>2, <3>2
      <4>2. j \in counted \cup StartedJobs
        BY <1>0, <1>3, <1>6 DEF Bookkeeping, Announced
      <4>. QED  BY <2>2, <4>1, <4>2 DEF StartedJobs, IsStarted
    <3>. QED  BY <2>2, <3>1, <3>2
  <2>4. OnePlace'
    BY <1>0, <1>1, <1>2, <1>3, <2>2, SamePlaces DEF Bookkeeping, OnePlace, Collecting
  <2>5. OneEach'
    BY <1>0, <1>1, <1>2, <2>2 DEF Bookkeeping, OneEach
  <2>6. InHands'
    BY <1>0, <1>1, <1>2, <1>6 DEF Bookkeeping, InHands, Collecting
  <2>7. Announced'
    BY <1>0, <1>1, <1>2, <2>2, <2>3, SamePlaces
    DEF Bookkeeping, Announced, Ordered, Collecting
  <2>8. Counting'
    BY <1>0, <1>1, SamePlaces DEF Bookkeeping, Counting, Collecting
  <2>. QED  BY <2>4, <2>5, <2>6, <2>7, <2>8 DEF Bookkeeping
<1>7. CASE ~Collecting
  <2>1. messages' = messages
    BY <1>5, <1>7 DEF Post, Collecting
  <2>4. OnePlace'
    BY <1>0, <1>1, <1>2, <1>7, <2>1, SamePlaces DEF Bookkeeping, OnePlace, Collecting
  <2>5. OneEach'
    BY <1>0, <1>1, <1>2, <2>1 DEF Bookkeeping, OneEach
  <2>6. InHands'
    BY <1>0, <1>1, <1>2, <2>1 DEF Bookkeeping, InHands, Collecting
  <2>7. Announced'
    BY <1>0, <1>1, <1>2, <1>7, <2>1, SamePlaces
    DEF Bookkeeping, Announced, Ordered, Collecting
  <2>8. Counting'
    BY <1>0, <1>1, SamePlaces DEF Bookkeeping, Counting, Collecting
  <2>. QED  BY <2>4, <2>5, <2>6, <2>7, <2>8 DEF Bookkeeping
<1>. QED  BY <1>6, <1>7

LEMMA RetireBooks == ASSUME Accounts, NEW w \in Worker, Retire(w) PROVE Bookkeeping'
<1>0. Bookkeeping /\ Ordered /\ TypeOK
  BY DEF Accounts, Bookkeeping, Announced, Ordered
<1>1. /\ UNCHANGED <<usedNames, jobs, messages, completions, phase, completed, active,
                     allJobs, result, counted>>
      /\ worker[w].at = "idle"
      /\ worker' = [worker EXCEPT ![w] = [at |-> "exited", job |-> NoJob]]
  BY DEF Retire, states, coordinator
<1>2. worker[w].job = NoJob
  BY <1>0, <1>1 DEF Bookkeeping, InHands
<1>3. NoJob \notin HeldJobs /\ NoJob \notin RunningJobs
  BY <1>0 DEF Bookkeeping, InHands, HeldJobs, RunningJobs
<1>4. /\ TakenJobs' = TakenJobs
      /\ RunningJobs' = RunningJobs
      /\ HeldJobs' = HeldJobs
      /\ \A u, v \in Worker :
            worker'[u].job = worker'[v].job /\ worker'[u].job # NoJob => u = v
      /\ \A v \in Worker : worker'[v].at \in {"taken", "running"} <=> worker'[v].job # NoJob
  <2>1. OneEach /\ InHands /\ worker[w].at # "taken"
    BY <1>0, <1>1 DEF Bookkeeping
  <2>2. /\ TakenJobs' = TakenJobs
        /\ RunningJobs' = RunningJobs \ {worker[w].job}
        /\ HeldJobs' = HeldJobs \ {worker[w].job}
        /\ \A u, v \in Worker :
              worker'[u].job = worker'[v].job /\ worker'[u].job # NoJob => u = v
        /\ \A v \in Worker :
              worker'[v].at \in {"taken", "running"} <=> worker'[v].job # NoJob
    BY <1>0, <1>1, <2>1, WorkerFrees
  <2>. QED  BY <1>2, <1>3, <2>2
<1>5. OnePlace'
  BY <1>0, <1>1, <1>4, SamePlaces DEF Bookkeeping, OnePlace, Collecting
<1>6. OneEach' /\ InHands'
  BY <1>0, <1>1, <1>4 DEF Bookkeeping, OneEach, InHands, Collecting
<1>7. Announced'
  BY <1>0, <1>1, <1>4, SamePlaces DEF Bookkeeping, Announced, Ordered, Collecting
<1>8. Counting'
  BY <1>0, <1>1, SamePlaces DEF Bookkeeping, Counting, Collecting
<1>. QED  BY <1>5, <1>6, <1>7, <1>8 DEF Bookkeeping

LEMMA CountStartedBooks == ASSUME Accounts, CountStarted PROVE Bookkeeping'
<1>. DEFINE j == messages[1].job
<1>0. Bookkeeping /\ Ordered /\ TypeOK
  BY DEF Accounts, Bookkeeping, Announced, Ordered
<1>1. /\ UNCHANGED <<usedNames, jobs, worker, completions, phase, completed, allJobs, result>>
      /\ phase = "collect" /\ messages # <<>> /\ Head(messages).kind = "Started"
      /\ messages' = Tail(messages) /\ active' = active + 1
      /\ counted' = counted \cup {Head(messages).job}
  BY DEF CountStarted, states, control
<1>2. /\ Head(messages) = messages[1] /\ IsStarted(1) /\ ~IsCompleted(1)
      /\ StartedJobs' = StartedJobs \ {j} /\ ReportedJobs' = ReportedJobs /\ j \in StartedJobs
      /\ \A i, k \in DOMAIN messages' :
            messages'[i].kind = messages'[k].kind /\ messages'[i].job = messages'[k].job => i = k
      /\ Len(messages) \in Nat /\ DOMAIN messages = 1..Len(messages)
      /\ DOMAIN messages' = 1..(Len(messages) - 1)
      /\ \A i \in 1..(Len(messages) - 1) : messages'[i] = messages[i + 1]
  <2>1. Head(messages) = messages[1] /\ IsStarted(1) /\ ~IsCompleted(1)
    BY <1>0, <1>1, MessagesShrink DEF Bookkeeping, IsStarted, IsCompleted
  <2>. QED  BY <1>0, <1>1, <2>1, MessagesShrink DEF Bookkeeping
<1>3. counted' = counted \cup {j} /\ j \notin counted /\ j \notin RecordedJobs
  BY <1>0, <1>1, <1>2 DEF Bookkeeping, Announced
<1>4. Ordered'
  <2> SUFFICES ASSUME NEW i \in DOMAIN messages', IsCompleted(i)'
               PROVE  \/ messages'[i].job \in counted'
                      \/ \E k \in 1..(i - 1) :
                            IsStarted(k)' /\ messages'[k].job = messages'[i].job
    BY DEF Ordered
  <2>1. i + 1 \in DOMAIN messages /\ IsCompleted(i + 1) /\ messages'[i] = messages[i + 1]
        /\ (i + 1) - 1 = i
    BY <1>2 DEF IsCompleted
  <2>2. CASE messages[i + 1].job \in counted
    BY <1>3, <2>1, <2>2
  <2>3. ASSUME NEW k \in 1..i, IsStarted(k), messages[k].job = messages[i + 1].job
        PROVE  \/ messages'[i].job \in counted'
               \/ \E l \in 1..(i - 1) : IsStarted(l)' /\ messages'[l].job = messages'[i].job
    <3>1. CASE k = 1
      BY <1>3, <2>1, <2>3, <3>1
    <3>2. CASE k # 1
      <4>1. k - 1 \in 1..(i - 1) /\ k - 1 \in 1..(Len(messages) - 1) /\ (k - 1) + 1 = k
        BY <1>2, <2>3, <3>2
      <4>2. messages'[k - 1] = messages[k]
        BY <1>2, <4>1
      <4>. QED  BY <2>1, <2>3, <4>1, <4>2 DEF IsStarted
    <3>. QED  BY <3>1, <3>2
  <2>. QED  BY <1>0, <2>1, <2>2, <2>3 DEF Ordered
<1>5. OnePlace'
  BY <1>0, <1>1, <1>2, SamePlaces DEF Bookkeeping, OnePlace, Collecting
<1>6. OneEach'
  BY <1>0, <1>1, <1>2 DEF Bookkeeping, OneEach
<1>7. InHands'
  BY <1>0, <1>1 DEF Bookkeeping, InHands, Collecting
<1>8. Announced'
  <2>1. /\ StartedJobs \cap counted = {}
        /\ (QueuedJobs \cup TakenJobs) \cap (counted \cup StartedJobs) = {}
        /\ counted \cup StartedJobs \subseteq usedNames
        /\ RunningJobs \subseteq counted \cup StartedJobs
        /\ RecordingJobs \cup RecordedJobs \subseteq counted
    BY <1>0, <1>1 DEF Bookkeeping, Announced, Collecting
  <2>2. /\ counted' \cup StartedJobs' = counted \cup StartedJobs
        /\ StartedJobs' \cap counted' = {}
        /\ RecordingJobs \cup RecordedJobs \subseteq counted'
    BY <1>2, <1>3, <2>1
  <2>3. UNCHANGED <<QueuedJobs, TakenJobs, RunningJobs, RecordingJobs, RecordedJobs, usedNames>>
    BY <1>0, <1>1, SamePlaces DEF CountStarted
  <2>. QED  BY <1>4, <2>1, <2>2, <2>3 DEF Announced, Ordered
<1>9. Counting'
  <2>1. IsFiniteSet(counted) /\ IsFiniteSet(counted \ RecordedJobs)
    BY <1>0, FS_Difference DEF Bookkeeping, Counting
  <2>2. IsFiniteSet(counted') /\ counted' \ RecordedJobs = (counted \ RecordedJobs) \cup {j}
    BY <1>3, <2>1, FS_AddElement
  <2>3. Cardinality(counted' \ RecordedJobs) = active + 1
    <3>1. Cardinality((counted \ RecordedJobs) \cup {j}) = Cardinality(counted \ RecordedJobs) + 1
      BY <1>3, <2>1, FS_AddElement
    <3>2. active = Cardinality(counted \ RecordedJobs)
      BY <1>0 DEF Bookkeeping, Counting
    <3>. QED  BY <2>2, <3>1, <3>2
  <2>. QED
    BY <1>0, <1>1, <2>2, <2>3, SamePlaces DEF Bookkeeping, Counting, Collecting
<1>. QED  BY <1>5, <1>6, <1>7, <1>8, <1>9 DEF Bookkeeping

LEMMA SnapshotBooks ==
    ASSUME Accounts, SnapshotSteps
    PROVE  /\ Bookkeeping'
           /\ Head(messages) \in Message
<1>. DEFINE j == messages[1].job
<1>0. Bookkeeping /\ Ordered /\ TypeOK
  BY DEF Accounts, Bookkeeping, Announced, Ordered
<1>1. /\ UNCHANGED <<usedNames, jobs, worker, completions, active, allJobs, result, counted>>
      /\ phase = "collect" /\ messages # <<>> /\ Head(messages).kind = "Completed"
      /\ messages' = Tail(messages) /\ phase' = "record"
      /\ completed'.job = Head(messages).job
  BY DEF SnapshotSteps, states, control
<1>2. /\ Head(messages) = messages[1] /\ ~IsStarted(1) /\ IsCompleted(1)
      /\ StartedJobs' = StartedJobs /\ ReportedJobs' = ReportedJobs \ {j} /\ j \in ReportedJobs
      /\ \A i, k \in DOMAIN messages' :
            messages'[i].kind = messages'[k].kind /\ messages'[i].job = messages'[k].job => i = k
      /\ Len(messages) \in Nat /\ DOMAIN messages = 1..Len(messages) /\ 1 \in DOMAIN messages
      /\ DOMAIN messages' = 1..(Len(messages) - 1)
      /\ \A i \in 1..(Len(messages) - 1) : messages'[i] = messages[i + 1]
      /\ Head(messages) \in Message
  <2>1. Head(messages) = messages[1] /\ ~IsStarted(1) /\ IsCompleted(1)
    BY <1>0, <1>1, MessagesShrink DEF Bookkeeping, IsStarted, IsCompleted
  <2>. QED  BY <1>0, <1>1, <2>1, MessagesShrink DEF Bookkeeping
<1>3. j \in Job /\ j # NoJob /\ RecordingJobs' = {j} /\ RecordingJobs = {}
  <2>1. j \in Job /\ j # NoJob
    BY <1>0, <1>2, PlacesOfJobs, NoJobAssumption
  <2>. QED  BY <1>0, <1>1, <1>2, <2>1 DEF RecordingJobs, Bookkeeping, InHands
<1>4. j \in counted
  <2>1. 1..(1 - 1) = {}
    OBVIOUS
  <2>. QED  BY <1>0, <1>2, <2>1 DEF Ordered
<1>5. Ordered'
  <2> SUFFICES ASSUME NEW i \in DOMAIN messages', IsCompleted(i)'
               PROVE  \/ messages'[i].job \in counted
                      \/ \E k \in 1..(i - 1) :
                            IsStarted(k)' /\ messages'[k].job = messages'[i].job
    BY <1>1 DEF Ordered
  <2>1. i + 1 \in DOMAIN messages /\ IsCompleted(i + 1) /\ messages'[i] = messages[i + 1]
        /\ (i + 1) - 1 = i
    BY <1>2 DEF IsCompleted
  <2>2. ASSUME NEW k \in 1..i, IsStarted(k), messages[k].job = messages[i + 1].job
        PROVE  \E l \in 1..(i - 1) : IsStarted(l)' /\ messages'[l].job = messages'[i].job
    <3>1. k # 1
      BY <1>2, <2>2
    <3>2. k - 1 \in 1..(i - 1) /\ k - 1 \in 1..(Len(messages) - 1) /\ (k - 1) + 1 = k
      BY <1>2, <2>2, <3>1
    <3>3. messages'[k - 1] = messages[k]
      BY <1>2, <3>2
    <3>. QED  BY <2>1, <2>2, <3>2, <3>3 DEF IsStarted
  <2>. QED  BY <1>0, <2>1, <2>2 DEF Ordered
<1>6. OnePlace'
  <2>1. /\ QueuedJobs \cap (HeldJobs \cup ReportedJobs \cup RecordedJobs) = {}
        /\ HeldJobs \cap (ReportedJobs \cup RecordedJobs) = {}
        /\ ReportedJobs \cap RecordedJobs = {}
        /\ QueuedJobs \cup HeldJobs \cup ReportedJobs \cup RecordedJobs = usedNames
    BY <1>0, <1>1, <1>3 DEF Bookkeeping, OnePlace, Collecting
  <2>2. UNCHANGED <<QueuedJobs, HeldJobs, RecordedJobs, usedNames>>
    BY <1>1, SamePlaces
  <2>. QED  BY <1>2, <1>3, <2>1, <2>2 DEF OnePlace
<1>7. OneEach'
  BY <1>0, <1>1, <1>2 DEF Bookkeeping, OneEach
<1>8. InHands'
  BY <1>0, <1>1, <1>2, <1>3 DEF Bookkeeping, InHands, Collecting
<1>9. Announced'
  BY <1>0, <1>1, <1>2, <1>3, <1>4, <1>5, SamePlaces
  DEF Bookkeeping, Announced, Ordered, Collecting
<1>10. Counting'
  BY <1>0, <1>1, SamePlaces DEF Bookkeeping, Counting, Collecting
<1>. QED  BY <1>2, <1>6, <1>7, <1>8, <1>9, <1>10 DEF Bookkeeping

\* A recording job is counted and not recorded yet, so the counter is positive.
LEMMA RecordingCounts ==
    ASSUME Accounts, phase = "record"
    PROVE  /\ completed.job \in counted \ RecordedJobs /\ completed.job \in Job
           /\ active \in Nat \ {0}
           /\ active - 1 = Cardinality(counted \ (RecordedJobs \cup {completed.job}))
           /\ active = 1 => counted \subseteq RecordedJobs \cup {completed.job}
<1>. DEFINE j == completed.job
            S == counted \ RecordedJobs
<1>1. j # NoJob /\ j \in RecordingJobs
  BY DEF Accounts, InHands, RecordingJobs
<1>2. j \in S /\ j \in Job
  BY <1>1, PlacesOfJobs DEF Accounts, Announced, OnePlace
<1>3. IsFiniteSet(S) /\ active = Cardinality(S)
  BY FS_Difference DEF Accounts, Counting
<1>4. IsFiniteSet(S \ {j}) /\ Cardinality(S \ {j}) = active - 1
  BY <1>2, <1>3, FS_RemoveElement
<1>5. active \in Nat /\ S # {}
  BY <1>2 DEF Accounts, TypeOK
<1>6. active # 0
  BY <1>3, <1>5, FS_EmptySet
<1>7. S \ {j} = counted \ (RecordedJobs \cup {j})
  OBVIOUS
<1>8. active = 1 => S \ {j} = {}
  BY <1>4, <1>5, FS_EmptySet
<1>. QED  BY <1>2, <1>4, <1>5, <1>6, <1>7, <1>8

LEMMA RecordBooks == ASSUME Accounts, RecordCompletion PROVE Bookkeeping'
<1>. DEFINE j == completed.job
<1>0. Bookkeeping /\ Ordered /\ TypeOK
  BY DEF Accounts, Bookkeeping, Announced, Ordered
<1>1. /\ UNCHANGED <<usedNames, jobs, worker, result, counted>>
      /\ phase = "record" /\ completed' = Nothing /\ active' = active - 1
      /\ phase' = (IF active = 1 THEN "attest" ELSE "collect")
      /\ messages' = (IF active = 1 THEN <<>> ELSE messages)
      /\ completions' = [completions EXCEPT ![j] = JobOutcome]
      /\ allJobs' = Append(allJobs, <<j, JobOutcome>>)
  BY DEF RecordCompletion, FinishJob
<1>2. /\ j \in counted \ RecordedJobs /\ j \in Job /\ active \in Nat \ {0}
      /\ active - 1 = Cardinality(counted \ (RecordedJobs \cup {j}))
  BY <1>1, RecordingCounts
<1>3. RecordingJobs = {j} /\ RecordingJobs' = {}
  BY <1>1, <1>2, NoJobAssumption DEF RecordingJobs, Nothing
<1>4. JobOutcome \in JobStatus /\ JobOutcome # "none"
  BY DEF JobOutcome, JobStatus
<1>5. /\ RecordedJobs' = RecordedJobs \cup {j}
      /\ \A i, k \in DOMAIN allJobs' : allJobs'[i][1] = allJobs'[k][1] => i = k
  <2>. DEFINE n == Len(allJobs) + 1
  <2>1. /\ Len(allJobs) \in Nat /\ DOMAIN allJobs = 1..Len(allJobs)
        /\ DOMAIN allJobs' = 1..n
        /\ \A i \in 1..Len(allJobs) : allJobs'[i] = allJobs[i]
        /\ allJobs'[n] = <<j, JobOutcome>>
    BY <1>1, <1>2, <1>4, SeqAppend DEF Accounts, TypeOK
  <2>2. \A i \in DOMAIN allJobs' : i \in DOMAIN allJobs \/ i = n
    BY <2>1
  <2>3. DOMAIN allJobs \subseteq DOMAIN allJobs' /\ n \in DOMAIN allJobs'
    BY <2>1
  <2>4. \A i \in DOMAIN allJobs : allJobs[i][1] # j
    BY <1>2 DEF RecordedJobs
  <2>5. RecordedJobs' = RecordedJobs \cup {j}
    BY <2>1, <2>2, <2>3 DEF RecordedJobs
  <2>6. \A i, k \in DOMAIN allJobs' : allJobs'[i][1] = allJobs'[k][1] => i = k
    BY <1>0, <2>1, <2>2, <2>4 DEF Bookkeeping, OneEach
  <2>. QED  BY <2>5, <2>6
<1>6. Counting'
  <2>1. RecordedJobs' = {k \in Job : completions'[k] # "none"}
    BY <1>0, <1>1, <1>2, <1>4, <1>5 DEF TypeOK, Bookkeeping, Counting
  <2>2. active' = Cardinality(counted' \ RecordedJobs')
    BY <1>1, <1>2, <1>5
  <2>3. Collecting' \/ active' = 0
    BY <1>1, <1>2 DEF Collecting
  <2>. QED  BY <1>0, <1>1, <1>5, <2>1, <2>2, <2>3 DEF Bookkeeping, Counting
<1>7. CASE active = 1
  <2>1. messages' = <<>> /\ phase' = "attest" /\ ReportedJobs' = {} /\ StartedJobs' = {}
    BY <1>1, <1>7 DEF ReportedJobs, StartedJobs
  <2>2. OnePlace'
    BY <1>0, <1>1, <1>3, <1>5, <2>1, SamePlaces DEF Bookkeeping, OnePlace, Collecting
  <2>3. OneEach'
    BY <1>0, <1>1, <1>5, <2>1 DEF Bookkeeping, OneEach
  <2>4. InHands'
    BY <1>0, <1>1, <2>1 DEF Bookkeeping, InHands, Collecting, Nothing
  <2>5. Announced'
    BY <1>0, <1>1, <1>2, <1>3, <1>5, <2>1, SamePlaces DEF Bookkeeping, Announced, Collecting
  <2>. QED  BY <1>6, <2>2, <2>3, <2>4, <2>5 DEF Bookkeeping
<1>8. CASE active # 1
  <2>1. messages' = messages /\ phase' = "collect"
    BY <1>1, <1>8
  <2>2. OnePlace'
    BY <1>0, <1>1, <1>3, <1>5, <2>1, SamePlaces DEF Bookkeeping, OnePlace, Collecting
  <2>3. OneEach'
    BY <1>0, <1>1, <1>5, <2>1 DEF Bookkeeping, OneEach
  <2>4. InHands'
    BY <1>0, <1>1, <2>1 DEF Bookkeeping, InHands, Collecting, Nothing
  <2>5. Announced'
    BY <1>0, <1>1, <1>2, <1>3, <1>5, <2>1, SamePlaces
    DEF Bookkeeping, Announced, Ordered, Collecting
  <2>. QED  BY <1>6, <2>2, <2>3, <2>4, <2>5 DEF Bookkeeping
<1>. QED  BY <1>7, <1>8

LEMMA VerdictBooks ==
    ASSUME Accounts, Attest \/ SignalShutdown \/ WakeAndReturn
    PROVE  Bookkeeping'
<1>0. Bookkeeping /\ Ordered
  BY DEF Accounts, Bookkeeping, Announced, Ordered
<1>1. /\ UNCHANGED <<usedNames, jobs, messages, worker, completions, completed, active,
                     allJobs, counted>>
      /\ phase \in {"attest", "stop", "wake"} /\ phase' \in {"stop", "wake", "done"}
      /\ phase' # "done" => result' = result
      /\ phase' = "done" => result' # "none"
  BY DEF Attest, SignalShutdown, WakeAndReturn, states, control
<1>2. OnePlace'
  BY <1>0, <1>1, SamePlaces DEF Bookkeeping, OnePlace, Collecting
<1>3. OneEach'
  BY <1>0, <1>1 DEF Bookkeeping, OneEach
<1>4. InHands'
  BY <1>0, <1>1 DEF Bookkeeping, InHands, Collecting
<1>5. Announced'
  BY <1>0, <1>1, SamePlaces DEF Bookkeeping, Announced, Ordered, Collecting
<1>6. Counting'
  BY <1>0, <1>1, SamePlaces DEF Bookkeeping, Counting, Collecting
<1>. QED  BY <1>2, <1>3, <1>4, <1>5, <1>6 DEF Bookkeeping

LEMMA BooksNext == Accounts /\ [Next]_vars => Bookkeeping'
<1> SUFFICES ASSUME Accounts, [Next]_vars PROVE Bookkeeping'
  OBVIOUS
<1>0. Bookkeeping
  BY DEF Accounts, Bookkeeping
<1>1. CASE Script \/ StopListening \/ UNCHANGED vars
  BY <1>0, <1>1, BooksKept
  DEF Script, Request, StopListening, vars, states, control, coordinator
<1>2. ASSUME NEW w \in Worker, WorkerStep(w) PROVE Bookkeeping'
  BY <1>2, TakeBooks, AnnounceBooks, ReportBooks, RetireBooks DEF WorkerStep
<1>3. ASSUME NEW c \in Conn, Handler(c) PROVE Bookkeeping'
  <2>1. CASE StartJob(c)
    BY <2>1, StartJobBooks
  <2>2. CASE ~StartJob(c)
    BY <1>0, <1>3, <2>2, BooksKept
    DEF Handler, AcceptControl, Refused, WaitForJob, CheckCompletion, LogStep,
        MarkStepFailed, states, coordinator
  <2>. QED  BY <2>1, <2>2
<1>4. CASE Coordinator
  BY <1>4, CountStartedBooks, SnapshotBooks, RecordBooks, VerdictBooks DEF Coordinator
<1>. QED  BY <1>1, <1>2, <1>3, <1>4 DEF Next

-----------------------------------------------------------------------------
(***************************************************************************)
(* Type correctness.                                                       *)
(***************************************************************************)
LEMMA TypesInit == Init => TypeOK
<1> SUFFICES ASSUME Init PROVE TypeOK
  OBVIOUS
<1>1. Unused \in Control
  BY DEF Unused, Control
<1>2. <<Main>> \in Seq(Job)
  BY JobAssumption
<1>3. worker \in [Worker -> [at : {"idle", "taken", "running", "exited"},
                            job : Job \cup {NoJob}]]
  BY DEF Init
<1>4. steps \in [Job -> Seq(StepStatus)] /\ completions \in [Job -> JobStatus \cup {"none"}]
  BY DEF Init
<1>5. conn \in [Conn -> Control]
  BY <1>1 DEF Init
<1>6. completed \in [job : Job \cup {NoJob}, ok : BOOLEAN, stepFailed : BOOLEAN]
  BY DEF Init, Nothing
<1>7. usedNames \subseteq Job /\ jobs \in Seq(Job) /\ counted \subseteq Job
  BY <1>2, JobAssumption DEF Init
<1>8. messages \in Seq(Message) /\ allJobs \in Seq(Job \X JobStatus)
  BY DEF Init
<1>. QED  BY <1>3, <1>4, <1>5, <1>6, <1>7, <1>8 DEF Init, TypeOK

\* The types of all but the requests, which the verdict's invariant covers.
Typed ==
    /\ usedNames \subseteq Job
    /\ jobs \in Seq(Job)
    /\ messages \in Seq(Message)
    /\ worker \in [Worker -> [at : {"idle", "taken", "running", "exited"},
                              job : Job \cup {NoJob}]]
    /\ steps \in [Job -> Seq(StepStatus)]
    /\ listener \in {"accepting", "exited"}
    /\ shutdown \in BOOLEAN
    /\ wakeup \in BOOLEAN
    /\ phase \in {"collect", "record", "attest", "stop", "wake", "done"}
    /\ completed \in [job : Job \cup {NoJob}, ok : BOOLEAN, stepFailed : BOOLEAN]
    /\ active \in Nat
    /\ allJobs \in Seq(Job \X JobStatus)
    /\ result \in {"none", "passed", "failed", "error"}
    /\ counted \subseteq Job

LEMMA TypedTogether == IInv => (TypeOK <=> Typed)
BY DEF IInv, Shape, TypeOK, Typed

LEMMA TypedThen == ASSUME IInv', Typed' PROVE TypeOK'
BY DEF IInv, Shape, TypeOK, Typed

LEMMA LastFacts ==
    ASSUME NEW s \in Seq(StepStatus), s # <<>>
    PROVE  /\ Front(s) \in Seq(StepStatus)
           /\ Len(s) \in Nat \ {0}
           /\ Last(s) = s[Len(s)]
           /\ Len(Front(s)) = Len(s) - 1
           /\ \A i \in 1..(Len(s) - 1) : Front(s)[i] = s[i]
<1>. DEFINE n == Len(s) - 1
<1>1. Len(s) \in Nat \ {0} /\ n \in Int
  OBVIOUS
<1>2. \A i \in 1..n : s[i] \in StepStatus
  BY <1>1
<1>3. Front(s) = SubSeq(s, 1, n)
  BY DEF Front
<1>4. /\ SubSeq(s, 1, n) \in Seq(StepStatus)
      /\ Len(SubSeq(s, 1, n)) = IF 1 <= n THEN n - 1 + 1 ELSE 0
      /\ \A i \in 1..(n - 1 + 1) : SubSeq(s, 1, n)[i] = s[1 + i - 1]
  <2>. HIDE DEF n
  <2>. QED  BY <1>1, <1>2, SubSeqProperties
<1>5. ASSUME NEW i \in 1..n PROVE Front(s)[i] = s[i]
  <2>1. i \in 1..(n - 1 + 1) /\ 1 + i - 1 = i
    BY <1>1
  <2>2. SubSeq(s, 1, n)[i] = s[1 + i - 1]
    BY <1>4, <2>1
  <2>. QED  BY <1>3, <2>1, <2>2
<1>6. Len(Front(s)) = n
  <2>1. n \in Nat
    BY <1>1
  <2>. HIDE DEF n
  <2>2. CASE n = 0
    BY <1>3, <1>4, <2>2
  <2>3. CASE n # 0
    <3>1. 1 <= n /\ n - 1 + 1 = n
      BY <2>1, <2>3
    <3>. QED  BY <1>3, <1>4, <3>1
  <2>. QED  BY <2>2, <2>3
<1>7. Last(s) = s[Len(s)]
  BY DEF Last
<1>8. Front(s) \in Seq(StepStatus)
  BY <1>3, <1>4
<1>. QED  BY <1>1, <1>5, <1>6, <1>7, <1>8

LEMMA TypedWorker == ASSUME Accounts, NEW w \in Worker, WorkerStep(w) PROVE Typed'
<1>0. Typed
  BY TypedTogether DEF Accounts
<1>1. CASE Take(w)
  <2>1. Head(jobs) \in Job /\ jobs' \in Seq(Job)
    BY <1>0, <1>1 DEF Typed, Take
  <2>2. worker' \in [Worker -> [at : {"idle", "taken", "running", "exited"},
                                job : Job \cup {NoJob}]]
    BY <1>0, <1>1, <2>1 DEF Typed, Take
  <2>. QED  BY <1>0, <1>1, <2>1, <2>2 DEF Take, Typed, states, control, coordinator
<1>2. ASSUME NEW m, Post(m), m.job \in Job => m \in Message, worker[w].at \in {"taken", "running"},
             m.job = worker[w].job
      PROVE  messages' \in Seq(Message)
  <2>1. m \in Message
    BY <1>2, <1>0 DEF Accounts, InHands, Typed
  <2>. QED  BY <1>0, <1>2, <2>1 DEF Post, Typed
<1>3. CASE Announce(w)
  <2>1. messages' \in Seq(Message)
    BY <1>2, <1>3 DEF Announce, Message
  <2>2. worker' \in [Worker -> [at : {"idle", "taken", "running", "exited"},
                                job : Job \cup {NoJob}]]
    BY <1>0, <1>3 DEF Typed, Announce
  <2>. QED  BY <1>0, <1>3, <2>1, <2>2 DEF Announce, Typed, states, control, coordinator
<1>4. CASE Report(w)
  <2>1. messages' \in Seq(Message)
    BY <1>2, <1>4 DEF Report, Message
  <2>2. worker' \in [Worker -> [at : {"idle", "taken", "running", "exited"},
                                job : Job \cup {NoJob}]]
    BY <1>0, <1>4 DEF Typed, Report
  <2>. QED  BY <1>0, <1>4, <2>1, <2>2 DEF Report, Typed, states, control, coordinator
<1>5. CASE Retire(w)
  BY <1>0, <1>5 DEF Retire, Typed, states, control, coordinator
<1>. QED  BY <1>1, <1>3, <1>4, <1>5 DEF WorkerStep

LEMMA TypedHandler == ASSUME Accounts, NEW c \in Conn, Handler(c) PROVE Typed'
<1>. DEFINE j == conn[c].target
<1>0. Typed
  BY TypedTogether DEF Accounts
<1>1. ASSUME StartJob(c) \/ LogStep(c) \/ MarkStepFailed(c) PROVE j \in Job
  BY <1>1 DEF StartJob, LogStep, MarkStepFailed, Handles, Accounts, IInv, Shape
<1>2. CASE StartJob(c)
  <2>1. j \in Job
    BY <1>1, <1>2
  <2>2. Append(jobs, j) \in Seq(Job)
    BY <1>0, <2>1 DEF Typed
  <2>3. usedNames' \subseteq Job /\ jobs' \in Seq(Job)
    BY <1>0, <1>2, <2>1, <2>2 DEF StartJob, Typed
  <2>. QED  BY <1>0, <1>2, <2>3 DEF StartJob, Typed, states, coordinator
<1>3. CASE LogStep(c)
  <2>1. steps[j] \in Seq(StepStatus)
    BY <1>0, <1>1, <1>3 DEF Typed
  <2>2. ASSUME steps[j] # <<>>
        PROVE  Front(steps[j]) \o <<"Success", "Running">> \in Seq(StepStatus)
    BY <2>1, <2>2, LastFacts DEF StepStatus
  <2>3. Append(steps[j], "Running") \in Seq(StepStatus)
    BY <2>1 DEF StepStatus
  <2>4. steps' \in [Job -> Seq(StepStatus)]
    BY <1>0, <1>3, <2>2, <2>3 DEF LogStep, Typed
  <2>. QED  BY <1>0, <1>3, <2>4 DEF LogStep, Typed, coordinator
<1>4. CASE MarkStepFailed(c)
  <2>1. steps[j] \in Seq(StepStatus)
    BY <1>0, <1>1, <1>4 DEF Typed
  <2>2. ASSUME steps[j] # <<>>, NEW status \in StepStatus
        PROVE  Append(Front(steps[j]), status) \in Seq(StepStatus)
    BY <2>1, <2>2, LastFacts
  <2>3. steps' \in [Job -> Seq(StepStatus)]
    BY <1>0, <1>4, <2>2 DEF MarkStepFailed, Typed, StepStatus
  <2>. QED  BY <1>0, <1>4, <2>3 DEF MarkStepFailed, Typed, coordinator
<1>5. CASE AcceptControl(c) \/ Refused(c) \/ WaitForJob(c) \/ CheckCompletion(c)
  BY <1>0, <1>5
  DEF AcceptControl, Refused, WaitForJob, CheckCompletion, Typed, states, coordinator
<1>. QED  BY <1>2, <1>3, <1>4, <1>5 DEF Handler

LEMMA TypedCoordinator == ASSUME Accounts, Coordinator PROVE Typed'
<1>0. Typed
  BY TypedTogether DEF Accounts
<1>1. CASE CountStarted
  <2>1. Head(messages) \in Message /\ Tail(messages) \in Seq(Message)
    BY <1>0, <1>1 DEF CountStarted, Typed
  <2>2. Head(messages).job \in Job
    BY <2>1 DEF Message
  <2>. QED  BY <1>0, <1>1, <2>1, <2>2 DEF CountStarted, Typed, states, control
<1>2. CASE SnapshotSteps
  <2>1. Head(messages) \in Message /\ Tail(messages) \in Seq(Message)
    BY <1>0, <1>2 DEF SnapshotSteps, Typed
  <2>2. Head(messages).job \in Job /\ Head(messages).ok \in BOOLEAN
    BY <2>1 DEF Message
  <2>. QED  BY <1>0, <1>2, <2>1, <2>2 DEF SnapshotSteps, Typed, states, control
<1>3. CASE RecordCompletion
  <2>1. completed.job \in Job /\ active \in Nat \ {0}
    BY <1>3, RecordingCounts DEF RecordCompletion
  <2>2. Append(allJobs, <<completed.job, JobOutcome>>) \in Seq(Job \X JobStatus)
    BY <1>0, <2>1 DEF Typed, JobOutcome, JobStatus
  <2>. QED  BY <1>0, <1>3, <2>1, <2>2 DEF RecordCompletion, FinishJob, Typed, Nothing
<1>4. CASE Attest \/ SignalShutdown \/ WakeAndReturn
  BY <1>0, <1>4 DEF Attest, SignalShutdown, WakeAndReturn, Typed, states, control
<1>. QED  BY <1>1, <1>2, <1>3, <1>4 DEF Coordinator

LEMMA TypesNext == Accounts /\ [Next]_vars => TypeOK'
<1> SUFFICES ASSUME Accounts, [Next]_vars PROVE TypeOK'
  OBVIOUS
<1>0. Typed /\ IInv'
  BY TypedTogether, NextKeeps DEF Accounts
<1>1. CASE Script \/ StopListening \/ UNCHANGED vars
  <2>1. Typed'
    BY <1>0, <1>1
    DEF Script, Request, StopListening, vars, states, control, coordinator, Typed
  <2>. QED  BY <1>0, <2>1, TypedThen
<1>2. CASE ~(Script \/ StopListening \/ UNCHANGED vars)
  <2>1. Typed'
    BY <1>2, TypedWorker, TypedHandler, TypedCoordinator DEF Next
  <2>. QED  BY <1>0, <2>1, TypedThen
<1>. QED  BY <1>1, <1>2

LEMMA AccountsInit == Init => Accounts
<1> SUFFICES ASSUME Init PROVE Accounts
  OBVIOUS
<1>1. /\ QueuedJobs = {Main} /\ HeldJobs = {} /\ TakenJobs = {} /\ RunningJobs = {}
      /\ ReportedJobs = {} /\ StartedJobs = {} /\ RecordingJobs = {} /\ RecordedJobs = {}
  BY DEF Init, QueuedJobs, HeldJobs, TakenJobs, RunningJobs, ReportedJobs, StartedJobs,
         RecordingJobs, RecordedJobs, Nothing
<1>2. OnePlace
  BY <1>1 DEF Init, OnePlace
<1>3. OneEach /\ InHands
  BY DEF Init, OneEach, InHands, Nothing, Collecting
<1>4. Announced
  BY <1>1 DEF Init, Announced
<1>5. Counting
  BY <1>1, FS_EmptySet DEF Init, Counting, Collecting
<1>. QED  BY <1>2, <1>3, <1>4, <1>5, TypesInit, InitIInv DEF Accounts

LEMMA AccountsNext == Accounts /\ [Next]_vars => Accounts'
BY TypesNext, NextKeeps, BooksNext DEF Accounts, Bookkeeping

(***************************************************************************)
(* TypeOK is an invariant of the candidate check: in particular the        *)
(* counter of active jobs never falls below zero, however the messages of  *)
(* the workers interleave (the loop of run_candidate_check).               *)
(***************************************************************************)
THEOREM CheckTypesCorrect == Spec => []TypeOK
<1>1. Accounts => TypeOK
  BY DEF Accounts
<1>. QED  BY <1>1, AccountsInit, AccountsNext, PTL DEF Spec

-----------------------------------------------------------------------------
(***************************************************************************)
(* Every job is accounted for.                                             *)
(***************************************************************************)
LEMMA OneOrNone ==
    ASSUME NEW S, \A x, y \in S : x = y
    PROVE  Cardinality(S) = IF S = {} THEN 0 ELSE 1
<1>1. CASE S = {}
  BY <1>1, FS_EmptySet
<1>2. CASE S # {}
  <2>1. PICK x \in S : S = {x}
    BY <1>2
  <2>. QED  BY <2>1, FS_Singleton
<1>. QED  BY <1>1, <1>2

LEMMA OccurrencesCount ==
    ASSUME Accounts, NEW j \in Job
    PROVE  Occurrences(j) =
              (IF j \in QueuedJobs THEN 1 ELSE 0) + (IF j \in HeldJobs THEN 1 ELSE 0)
              + (IF j \in ReportedJobs THEN 1 ELSE 0) + (IF j \in RecordingJobs THEN 1 ELSE 0)
              + (IF j \in RecordedJobs THEN 1 ELSE 0)
<1>. DEFINE queued == {i \in DOMAIN jobs : jobs[i] = j}
            held == {w \in Worker : worker[w].job = j}
            reported == {i \in DOMAIN messages :
                            messages[i].kind = "Completed" /\ messages[i].job = j}
            recording == {x \in {completed} : x.job = j}
            recorded == {i \in DOMAIN allJobs : allJobs[i][1] = j}
<1>0. j # NoJob
  BY NoJobAssumption
<1>1. Cardinality(queued) = IF j \in QueuedJobs THEN 1 ELSE 0
  <2>1. \A x, y \in queued : x = y
    BY DEF Accounts, OneEach
  <2>2. queued = {} <=> j \notin QueuedJobs
    BY DEF QueuedJobs
  <2>3. Cardinality(queued) = IF queued = {} THEN 0 ELSE 1
    BY <2>1, OneOrNone
  <2>. QED  BY <2>2, <2>3
<1>2. Cardinality(held) = IF j \in HeldJobs THEN 1 ELSE 0
  <2>1. \A x, y \in held : x = y
    BY <1>0 DEF Accounts, OneEach
  <2>2. held = {} <=> j \notin HeldJobs
    BY <1>0 DEF HeldJobs
  <2>3. Cardinality(held) = IF held = {} THEN 0 ELSE 1
    BY <2>1, OneOrNone
  <2>. QED  BY <2>2, <2>3
<1>3. Cardinality(reported) = IF j \in ReportedJobs THEN 1 ELSE 0
  <2>1. \A x, y \in reported : x = y
    BY DEF Accounts, OneEach
  <2>2. reported = {} <=> j \notin ReportedJobs
    BY DEF ReportedJobs, IsCompleted
  <2>3. Cardinality(reported) = IF reported = {} THEN 0 ELSE 1
    BY <2>1, OneOrNone
  <2>. QED  BY <2>2, <2>3
<1>4. Cardinality(recording) = IF j \in RecordingJobs THEN 1 ELSE 0
  <2>1. \A x, y \in recording : x = y
    OBVIOUS
  <2>2. recording = {} <=> j \notin RecordingJobs
    BY <1>0 DEF RecordingJobs
  <2>3. Cardinality(recording) = IF recording = {} THEN 0 ELSE 1
    BY <2>1, OneOrNone
  <2>. QED  BY <2>2, <2>3
<1>5. Cardinality(recorded) = IF j \in RecordedJobs THEN 1 ELSE 0
  <2>1. \A x, y \in recorded : x = y
    BY DEF Accounts, OneEach
  <2>2. recorded = {} <=> j \notin RecordedJobs
    BY DEF RecordedJobs
  <2>3. Cardinality(recorded) = IF recorded = {} THEN 0 ELSE 1
    BY <2>1, OneOrNone
  <2>. QED  BY <2>2, <2>3
<1>6. Occurrences(j) = Cardinality(queued) + Cardinality(held) + Cardinality(reported)
                       + Cardinality(recording) + Cardinality(recorded)
  BY DEF Occurrences
<1>. HIDE DEF queued, held, reported, recording, recorded
<1>. QED  BY <1>1, <1>2, <1>3, <1>4, <1>5, <1>6

(***************************************************************************)
(* No job is lost or run twice between the name registry and the result:   *)
(* StartJob's hold of the name lock, the two channels and the pool.        *)
(***************************************************************************)
THEOREM JobsAccounted == Spec => []JobsAccountedFor
<1>1. Accounts => JobsAccountedFor
  <2> SUFFICES ASSUME Accounts, NEW j \in Job
               PROVE  /\ Occurrences(j) <= (IF j \in usedNames THEN 1 ELSE 0)
                      /\ phase \in {"collect", "record"} /\ j \in usedNames
                            => Occurrences(j) = 1
    BY DEF JobsAccountedFor
  <2>1. OnePlace
    BY DEF Accounts
  <2>. QED  BY <2>1, OccurrencesCount DEF OnePlace, Collecting
<1>. QED  BY <1>1, AccountsInit, AccountsNext, PTL DEF Spec

-----------------------------------------------------------------------------
(***************************************************************************)
(* The check implements JobVerdict.                                        *)
(***************************************************************************)
LEMMA RecordedEither ==
    ASSUME Accounts
    PROVE  /\ Recorded("Succeeded") \cup Recorded("Failed") = RecordedJobs
           /\ Promise!running = counted \ RecordedJobs
<1>1. completions \in [Job -> JobStatus \cup {"none"}]
  BY DEF Accounts, TypeOK
<1>2. RecordedJobs = {j \in Job : completions[j] # "none"}
  BY DEF Accounts, Counting
<1>3. Recorded("Succeeded") \cup Recorded("Failed") = RecordedJobs
  BY <1>1, <1>2 DEF Recorded, JobStatus
<1>. QED  BY <1>3 DEF Promise!running

LEMMA VerdictInit == Init => Promise!Init
BY DEF Init, Promise!Init, Recorded

LEMMA VerdictStep ==
    ASSUME Accounts, [Next]_vars
    PROVE  [Promise!Next]_(Promise!vars)
<1>1. ASSUME UNCHANGED <<counted, completions, result>>
      PROVE  [Promise!Next]_(Promise!vars)
  BY <1>1 DEF Promise!vars, Recorded
<1>2. CASE CountStarted
  <2>. DEFINE j == Head(messages).job
  <2>1. /\ phase = "collect" /\ messages # <<>> /\ Head(messages).kind = "Started"
        /\ messages' = Tail(messages)
        /\ counted' = counted \cup {j} /\ UNCHANGED <<completions, result>>
    BY <1>2 DEF CountStarted, states
  <2>2. Head(messages) = messages[1] /\ Head(messages) \in Message
        /\ (IsStarted(1) => messages[1].job \in StartedJobs)
    BY <2>1, MessagesShrink DEF Accounts
  <2>3. j \in StartedJobs /\ j \in Job
    BY <2>1, <2>2 DEF IsStarted, Message
  <2>4. j \notin counted /\ result = "none"
    BY <2>1, <2>3 DEF Accounts, Announced, InHands
  <2>5. Promise!Begin(j)
    BY <2>1, <2>4 DEF Promise!Begin, Recorded
  <2>. QED  BY <2>3, <2>5 DEF Promise!Next
<1>3. CASE RecordCompletion
  <2>. DEFINE j == completed.job
  <2>1. /\ phase = "record" /\ UNCHANGED <<counted, result>>
        /\ completions' = [completions EXCEPT ![j] = JobOutcome]
    BY <1>3 DEF RecordCompletion, FinishJob
  <2>2. j \in counted \ RecordedJobs /\ j \in Job
    BY <2>1, RecordingCounts
  <2>3. result = "none" /\ j \in Promise!running
    BY <2>1, <2>2, RecordedEither DEF Accounts, InHands
  <2>4. completions \in [Job -> JobStatus \cup {"none"}] /\ completions[j] = "none"
    BY <2>2 DEF Accounts, TypeOK, Counting
  <2>5. CASE JobOutcome = "Succeeded"
    <3>1. /\ Recorded("Succeeded")' = Recorded("Succeeded") \cup {j}
          /\ Recorded("Failed")' = Recorded("Failed")
      BY <2>1, <2>2, <2>4, <2>5 DEF Recorded
    <3>. QED  BY <2>1, <2>2, <2>3, <3>1 DEF Promise!End, Promise!Next
  <2>6. CASE JobOutcome = "Failed"
    <3>1. /\ Recorded("Failed")' = Recorded("Failed") \cup {j}
          /\ Recorded("Succeeded")' = Recorded("Succeeded")
      BY <2>1, <2>2, <2>4, <2>6 DEF Recorded
    <3>. QED  BY <2>1, <2>2, <2>3, <3>1 DEF Promise!End, Promise!Next
  <2>. QED  BY <2>5, <2>6 DEF JobOutcome
<1>4. ASSUME ~Collecting, phase # "done", UNCHANGED <<counted, completions>>,
             result' \in {"passed", "failed", "error"}, result' = "passed" => ~anyFailed
      PROVE  [Promise!Next]_(Promise!vars)
  <2>1. result = "none" /\ RecordedJobs # {} /\ RecordedJobs \subseteq counted /\ active = 0
    BY <1>4 DEF Accounts, InHands, Counting, Announced
  <2>2. IsFiniteSet(counted \ RecordedJobs) /\ Cardinality(counted \ RecordedJobs) = 0
    BY <2>1, FS_Difference DEF Accounts, Counting
  <2>3. counted # {} /\ Promise!running = {}
    BY <2>1, <2>2, FS_EmptySet, RecordedEither
  <2>4. result' = "passed" => Recorded("Failed") = {}
    BY <1>4 DEF Accounts, IInv, FailureKept, Recorded
  <2>5. UNCHANGED <<Recorded("Succeeded"), Recorded("Failed")>>
    BY <1>4 DEF Recorded
  <2>. QED  BY <1>4, <2>1, <2>3, <2>4, <2>5 DEF Promise!Decide, Promise!Next
<1>5. CASE Attest
  <2>1. CASE result' = result
    BY <1>1, <1>5, <2>1 DEF Attest, states
  <2>2. CASE result' # result
    BY <1>4, <1>5, <2>2 DEF Attest, states, Collecting
  <2>. QED  BY <2>1, <2>2
<1>6. CASE WakeAndReturn
  BY <1>4, <1>6 DEF WakeAndReturn, states, Collecting, Accounts, IInv, Shape
<1>7. CASE SnapshotSteps \/ SignalShutdown \/ Script \/ StopListening \/ UNCHANGED vars
  BY <1>1, <1>7
  DEF SnapshotSteps, SignalShutdown, Script, Request, StopListening, vars, states, coordinator
<1>8. ASSUME NEW w \in Worker, WorkerStep(w) PROVE [Promise!Next]_(Promise!vars)
  BY <1>1, <1>8 DEF WorkerStep, Take, Announce, Report, Retire, states, coordinator
<1>9. ASSUME NEW c \in Conn, Handler(c) PROVE [Promise!Next]_(Promise!vars)
  BY <1>1, <1>9
  DEF Handler, AcceptControl, Refused, StartJob, WaitForJob, CheckCompletion, LogStep,
      MarkStepFailed, states, coordinator
<1>. QED
  BY <1>2, <1>3, <1>5, <1>6, <1>7, <1>8, <1>9 DEF Next, Coordinator

(***************************************************************************)
(* Every behaviour of a candidate check is one of JobVerdict: the counter  *)
(* of active jobs reaches zero only when no announced job runs, so the     *)
(* verdict falls once, after all of them, and passes only if none failed   *)
(* (run_candidate_check's loop over the workers' messages).                *)
(***************************************************************************)
THEOREM CheckImplementsJobVerdict == Spec => ImplementsJobVerdict
<1>1. Init => Promise!Init
  BY VerdictInit
<1>2. Accounts /\ [Next]_vars => [Promise!Next]_(Promise!vars)
  BY VerdictStep
<1>. QED
  BY <1>1, <1>2, AccountsInit, AccountsNext, PTL
  DEF Spec, ImplementsJobVerdict, Promise!Spec

-----------------------------------------------------------------------------
(***************************************************************************)
(* No failed step is forgotten.                                            *)
(***************************************************************************)
Marked(c) ==
    conn[c].command = "fail" /\ conn[c].awaited /\ conn[c].reply = "StepMarkedFailed"

\* A job whose own command awaits an answer is running; a mark it was answered
\* stays with its steps, the snapshot of them, and the record.
FatalKept ==
    /\ \A c \in Conn : conn[c].at \notin {"unused", "done"} =>
          /\ conn[c].by \in Job
          /\ conn[c].awaited => conn[c].by \in RunningJobs
          /\ conn[c].command \in {"log", "fail", "failIgnored"} => conn[c].target = conn[c].by
          /\ conn[c].command \in Command
    /\ \A c \in Conn : Marked(c) =>
          /\ conn[c].by \in Job
          /\ "Failed" \in ToSet(steps[conn[c].by])
          /\ completed.job = conn[c].by => completed.stepFailed
          /\ completions[conn[c].by] # "Succeeded"

LEMMA FailedStays ==
    ASSUME NEW s \in Seq(StepStatus), s # <<>>
    PROVE  /\ "Failed" \in ToSet(Append(Front(s), "Failed"))
           /\ "Failed" \in ToSet(s) => "Failed" \in ToSet(Append(s, "Running"))
           /\ "Failed" \in ToSet(s) /\ Last(s) = "Running" =>
                 "Failed" \in ToSet(Front(s) \o <<"Success", "Running">>)
<1>. DEFINE n == Len(s)
            f == Front(s)
            tail == <<"Success", "Running">>
<1>1. /\ f \in Seq(StepStatus) /\ n \in Nat \ {0} /\ Last(s) = s[n] /\ Len(f) = n - 1
      /\ \A i \in 1..(n - 1) : f[i] = s[i]
  BY LastFacts
<1>2. "Failed" \in ToSet(Append(f, "Failed"))
  <2>1. n \in DOMAIN Append(f, "Failed") /\ Append(f, "Failed")[n] = "Failed"
    <3>. HIDE DEF n, f
    <3>. QED  BY <1>1
  <2>. QED  BY <2>1 DEF ToSet
<1>3. ASSUME "Failed" \in ToSet(s) PROVE "Failed" \in ToSet(Append(s, "Running"))
  <2>1. PICK i \in DOMAIN s : s[i] = "Failed"
    BY <1>3 DEF ToSet
  <2>2. i \in DOMAIN Append(s, "Running") /\ Append(s, "Running")[i] = "Failed"
    BY <2>1
  <2>. QED  BY <2>2 DEF ToSet
<1>4. ASSUME "Failed" \in ToSet(s), Last(s) = "Running"
      PROVE  "Failed" \in ToSet(f \o tail)
  <2>1. PICK i \in DOMAIN s : s[i] = "Failed"
    BY <1>4 DEF ToSet
  <2>2. i \in 1..(n - 1) /\ f[i] = "Failed"
    <3>1. i \in 1..n /\ s[n] = "Running"
      BY <1>1, <1>4, <2>1
    <3>2. i # n
      BY <2>1, <3>1
    <3>3. i \in 1..(n - 1)
      <4>. HIDE DEF n, f
      <4>. QED  BY <1>1, <3>1, <3>2
    <3>4. f[i] = s[i]
      BY <1>1, <3>3
    <3>. QED  BY <2>1, <3>3, <3>4
  <2>3. i \in DOMAIN (f \o tail) /\ (f \o tail)[i] = f[i]
    <3>. HIDE DEF n, f
    <3>. QED  BY <1>1, <2>2
  <2>. QED  BY <2>2, <2>3 DEF ToSet
<1>. QED  BY <1>2, <1>3, <1>4

\* An update of one request that answers no mark.
LEMMA FatalUpdate ==
    ASSUME Accounts, FatalKept, NEW c \in Conn, UNCHANGED <<completed, completions, worker>>,
           conn[c].at \notin {"unused", "done"},
           NEW at, NEW reply, conn' = [conn EXCEPT ![c] = With(at, reply, conn[c])],
           at # "unused",
           \A d \in Conn : Marked(d) => "Failed" \in ToSet(steps'[conn[d].by]),
           reply = "StepMarkedFailed" /\ conn[c].command = "fail" =>
              "Failed" \in ToSet(steps'[conn[c].by])
    PROVE  FatalKept'
<1>1. /\ conn'[c] = With(at, reply, conn[c])
      /\ \A d \in Conn \ {c} : conn'[d] = conn[d]
  BY DEF Accounts, TypeOK
<1>2. /\ conn'[c].at = at /\ conn'[c].reply = reply /\ conn'[c].by = conn[c].by
      /\ conn'[c].command = conn[c].command /\ conn'[c].target = conn[c].target
      /\ conn'[c].awaited = conn[c].awaited
  BY <1>1 DEF With
<1>3. RunningJobs' = RunningJobs
  BY SamePlaces
<1>4. ASSUME NEW d \in Conn, conn'[d].at \notin {"unused", "done"}
      PROVE  /\ conn'[d].by \in Job
             /\ conn'[d].awaited => conn'[d].by \in RunningJobs'
             /\ conn'[d].command \in {"log", "fail", "failIgnored"} =>
                   conn'[d].target = conn'[d].by
             /\ conn'[d].command \in Command
  <2>1. CASE d = c
    BY <1>2, <1>3, <2>1 DEF FatalKept
  <2>2. CASE d # c
    BY <1>1, <1>3, <1>4, <2>2 DEF FatalKept
  <2>. QED  BY <2>1, <2>2
<1>5. ASSUME NEW d \in Conn, Marked(d)'
      PROVE  /\ conn'[d].by \in Job
             /\ "Failed" \in ToSet(steps'[conn'[d].by])
             /\ completed.job = conn'[d].by => completed.stepFailed
             /\ completions[conn'[d].by] # "Succeeded"
  <2>1. CASE d = c
    <3>1. reply = "StepMarkedFailed" /\ conn[c].command = "fail" /\ conn[c].awaited
      BY <1>2, <1>5, <2>1 DEF Marked
    <3>2. conn[c].by \in Job /\ conn[c].by \in RunningJobs
      BY <3>1 DEF FatalKept
    <3>3. conn[c].by \in HeldJobs
      BY <3>2, NoJobAssumption DEF RunningJobs, HeldJobs
    <3>4. conn[c].by \notin RecordingJobs \cup RecordedJobs
      BY <3>3 DEF Accounts, OnePlace
    <3>5. completed.job # conn[c].by
      BY <3>2, <3>4, NoJobAssumption DEF RecordingJobs
    <3>6. completions[conn[c].by] = "none"
      BY <3>2, <3>4 DEF Accounts, Counting
    <3>. QED  BY <1>2, <2>1, <3>1, <3>2, <3>5, <3>6
  <2>2. CASE d # c
    BY <1>1, <1>5, <2>2 DEF FatalKept, Marked
  <2>. QED  BY <2>1, <2>2
<1>. QED  BY <1>4, <1>5 DEF FatalKept

LEMMA FatalHandler ==
    ASSUME Accounts, FatalKept, "failIgnored" \notin Command, NEW c \in Conn, Handler(c)
    PROVE  FatalKept'
<1>. USE DEF Replied, Moved
<1>0. /\ UNCHANGED <<completed, completions, worker>>
      /\ conn[c].at \notin {"unused", "done"}
  BY DEF Handler, AcceptControl, Refused, StartJob, WaitForJob, CheckCompletion, LogStep,
         MarkStepFailed, Handles, states, coordinator
<1>1. \A d \in Conn : Marked(d) => "Failed" \in ToSet(steps[conn[d].by])
  BY DEF FatalKept
<1>2. ASSUME UNCHANGED steps, NEW at, NEW reply, at # "unused",
             conn' = [conn EXCEPT ![c] = With(at, reply, conn[c])],
             reply # "StepMarkedFailed"
      PROVE  FatalKept'
  BY <1>0, <1>1, <1>2, FatalUpdate
<1>3. CASE AcceptControl(c) \/ Refused(c)
  BY <1>2, <1>3 DEF AcceptControl, Refused, states
<1>4. CASE StartJob(c) \/ WaitForJob(c)
  BY <1>2, <1>4 DEF StartJob, WaitForJob, states
<1>5. CASE CheckCompletion(c)
  <2>1. completions[conn[c].target] \in JobStatus \cup {"none"}
    BY <1>5 DEF CheckCompletion, Accounts, IInv, Shape
  <2>2. completions[conn[c].target] # "StepMarkedFailed"
    BY <2>1 DEF JobStatus
  <2>. QED  BY <1>2, <1>5, <2>2 DEF CheckCompletion, states
<1>. DEFINE j == conn[c].target
<1>6. ASSUME LogStep(c) \/ MarkStepFailed(c)
      PROVE  j \in Job /\ j = conn[c].by /\ steps[j] \in Seq(StepStatus)
  BY <1>0, <1>6 DEF LogStep, MarkStepFailed, Handles, FatalKept, Accounts, TypeOK
<1>7. ASSUME NEW s \in Seq(StepStatus), steps' = [steps EXCEPT ![j] = s], j \in Job,
             "Failed" \in ToSet(steps[j]) => "Failed" \in ToSet(s), NEW d \in Conn, Marked(d)
      PROVE  "Failed" \in ToSet(steps'[conn[d].by])
  BY <1>1, <1>7 DEF FatalKept, Accounts, TypeOK
<1>8. CASE LogStep(c)
  <2>. DEFINE s == IF steps[j] # <<>> /\ Last(steps[j]) = "Running"
                   THEN Front(steps[j]) \o <<"Success", "Running">>
                   ELSE Append(steps[j], "Running")
  <2>1. steps' = [steps EXCEPT ![j] = s] /\ conn' = Replied(c, "StepLogged")
    BY <1>8 DEF LogStep
  <2>2. s \in Seq(StepStatus)
    <3>1. Append(steps[j], "Running") \in Seq(StepStatus)
      BY <1>6, <1>8 DEF StepStatus
    <3>2. ASSUME steps[j] # <<>>
          PROVE  Front(steps[j]) \o <<"Success", "Running">> \in Seq(StepStatus)
      <4>1. Front(steps[j]) \in Seq(StepStatus)
        BY <1>6, <1>8, <3>2, LastFacts
      <4>2. <<"Success", "Running">> \in Seq(StepStatus)
        BY DEF StepStatus
      <4>. QED  BY <4>1, <4>2
    <3>. QED  BY <3>1, <3>2
  <2>3. "Failed" \in ToSet(steps[j]) => "Failed" \in ToSet(s)
    <3>1. steps[j] = <<>> => "Failed" \notin ToSet(steps[j])
      BY DEF ToSet
    <3>. QED  BY <1>6, <1>8, <3>1, FailedStays
  <2>. HIDE DEF s
  <2>4. \A d \in Conn : Marked(d) => "Failed" \in ToSet(steps'[conn[d].by])
    BY <1>6, <1>7, <1>8, <2>1, <2>2, <2>3
  <2>. QED  BY <1>0, <2>1, <2>4, FatalUpdate
<1>9. CASE MarkStepFailed(c)
  <2>1. conn[c].command = "fail"
    BY <1>0, <1>9 DEF MarkStepFailed, Handles, FatalKept
  <2>2. CASE steps[j] = <<>>
    BY <1>2, <1>9, <2>2 DEF MarkStepFailed
  <2>3. CASE steps[j] # <<>>
    <3>. DEFINE s == Append(Front(steps[j]), "Failed")
    <3>1. steps' = [steps EXCEPT ![j] = s] /\ conn' = Replied(c, "StepMarkedFailed")
      BY <1>9, <2>1, <2>3 DEF MarkStepFailed
    <3>2. s \in Seq(StepStatus) /\ "Failed" \in ToSet(s)
      BY <1>6, <1>9, <2>3, LastFacts, FailedStays DEF StepStatus
    <3>. HIDE DEF s
    <3>3. \A d \in Conn : Marked(d) => "Failed" \in ToSet(steps'[conn[d].by])
      BY <1>6, <1>7, <1>9, <3>1, <3>2
    <3>4. "Failed" \in ToSet(steps'[conn[c].by])
      BY <1>6, <1>9, <3>1, <3>2 DEF Accounts, TypeOK
    <3>. QED  BY <1>0, <3>1, <3>3, <3>4, FatalUpdate
  <2>. QED  BY <2>2, <2>3
<1>. QED  BY <1>3, <1>4, <1>5, <1>8, <1>9 DEF Handler

LEMMA FatalRequest ==
    ASSUME Accounts, FatalKept, NEW c \in Conn, Request(c)
    PROVE  FatalKept'
<1>1. PICK j \in Job, command \in Command, awaited \in Awaited :
         /\ IF awaited THEN Runs(j) ELSE Launched(j)
         /\ \E target \in Targets(j, command) :
               conn' = [conn EXCEPT ![c] =
                           [at |-> "connected", by |-> j, command |-> command,
                            target |-> target, awaited |-> awaited, reply |-> "none"]]
  BY DEF Request
<1>2. PICK target \in Targets(j, command) :
         conn' = [conn EXCEPT ![c] =
                     [at |-> "connected", by |-> j, command |-> command,
                      target |-> target, awaited |-> awaited, reply |-> "none"]]
  BY <1>1
<1>3. /\ conn'[c] = [at |-> "connected", by |-> j, command |-> command,
                     target |-> target, awaited |-> awaited, reply |-> "none"]
      /\ \A d \in Conn \ {c} : conn'[d] = conn[d]
  BY <1>2 DEF Accounts, TypeOK
<1>4. command \in {"log", "fail", "failIgnored"} => target = j
  BY DEF Targets
<1>5. awaited => j \in RunningJobs
  BY <1>1 DEF Runs, RunningJobs
<1>6. UNCHANGED <<worker, steps, completed, completions>>
  BY DEF Request, states, coordinator
<1>7. RunningJobs' = RunningJobs
  BY <1>6, SamePlaces
<1>8. ASSUME NEW d \in Conn, conn'[d].at \notin {"unused", "done"}
      PROVE  /\ conn'[d].by \in Job
             /\ conn'[d].awaited => conn'[d].by \in RunningJobs'
             /\ conn'[d].command \in {"log", "fail", "failIgnored"} =>
                   conn'[d].target = conn'[d].by
             /\ conn'[d].command \in Command
  <2>1. CASE d = c
    BY <1>3, <1>4, <1>5, <1>7, <2>1
  <2>2. CASE d # c
    BY <1>3, <1>7, <1>8, <2>2 DEF FatalKept
  <2>. QED  BY <2>1, <2>2
<1>9. ASSUME NEW d \in Conn, Marked(d)' PROVE d # c /\ Marked(d) /\ conn'[d] = conn[d]
  BY <1>3, <1>9 DEF Marked
<1>. QED  BY <1>6, <1>8, <1>9 DEF FatalKept

LEMMA FatalWorker ==
    ASSUME Accounts, FatalKept, NEW w \in Worker, WorkerStep(w)
    PROVE  FatalKept'
<1>0. UNCHANGED <<conn, steps, completed, completions>>
  BY DEF WorkerStep, Take, Announce, Report, Retire, states, control, coordinator
<1>1. ASSUME NEW c \in Conn, conn[c].at \notin {"unused", "done"}, conn[c].awaited
      PROVE  conn[c].by \in RunningJobs'
  <2>0. PICK v \in Worker : worker[v].at = "running" /\ worker[v].job = conn[c].by
    BY <1>1 DEF FatalKept, RunningJobs
  <2>1. worker'[v] = worker[v]
    <3>1. CASE Report(w)
      BY <1>1, <2>0, <3>1 DEF Report, MayEnd, Accounts, TypeOK
    <3>2. CASE Take(w) \/ Announce(w) \/ Retire(w)
      BY <2>0, <3>2 DEF Take, Announce, Retire, Accounts, TypeOK
    <3>. QED  BY <3>1, <3>2 DEF WorkerStep
  <2>. QED  BY <2>0, <2>1 DEF RunningJobs
<1>. QED  BY <1>0, <1>1 DEF FatalKept, Marked

LEMMA FatalCoordinator ==
    ASSUME Accounts, FatalKept, Coordinator
    PROVE  FatalKept'
<1>0. UNCHANGED <<worker, steps>> /\ RunningJobs' = RunningJobs
  <2>1. UNCHANGED <<worker, steps>>
    BY DEF Coordinator, CountStarted, SnapshotSteps, RecordCompletion, FinishJob, Attest,
           SignalShutdown, WakeAndReturn, states, control
  <2>. QED  BY <2>1, SamePlaces
<1>1. CASE CountStarted \/ Attest \/ SignalShutdown \/ WakeAndReturn
  <2>1. UNCHANGED <<conn, completed, completions>>
    BY <1>1 DEF CountStarted, Attest, SignalShutdown, WakeAndReturn, states, control
  <2>. QED  BY <1>0, <2>1 DEF FatalKept, Marked
<1>2. CASE SnapshotSteps
  <2>1. /\ UNCHANGED <<conn, completions>>
        /\ completed'.stepFailed = ("Failed" \in ToSet(steps[completed'.job]))
    BY <1>2 DEF SnapshotSteps, states, control
  <2>. QED  BY <1>0, <2>1 DEF FatalKept, Marked
<1>3. CASE RecordCompletion
  <2>1. /\ conn' = [c \in Conn |-> Woken(conn[c])] /\ completed' = Nothing
        /\ completions' = [completions EXCEPT ![completed.job] = JobOutcome]
    BY <1>3 DEF RecordCompletion, FinishJob
  <2>2. ASSUME NEW c \in Conn
        PROVE  /\ conn'[c].by = conn[c].by /\ conn'[c].command = conn[c].command
               /\ conn'[c].target = conn[c].target /\ conn'[c].awaited = conn[c].awaited
               /\ conn'[c].at \notin {"unused", "done"} => conn[c].at \notin {"unused", "done"}
               /\ Marked(c)' => Marked(c)
    BY <2>1 DEF Woken, With, Marked
  <2>3. ASSUME NEW c \in Conn, Marked(c)
        PROVE  /\ conn[c].by \in Job
               /\ completed'.job # conn[c].by
               /\ completions'[conn[c].by] # "Succeeded"
    <3>1. /\ conn[c].by \in Job /\ completions[conn[c].by] # "Succeeded"
          /\ completed.job = conn[c].by => completed.stepFailed
      BY <2>3 DEF FatalKept
    <3>2. completed'.job # conn[c].by
      BY <2>1, <3>1, NoJobAssumption DEF Nothing
    <3>3. completions'[conn[c].by] # "Succeeded"
      BY <2>1, <3>1 DEF JobOutcome, Accounts, TypeOK
    <3>. QED  BY <3>1, <3>2, <3>3
  <2>4. \A c \in Conn : Marked(c) => "Failed" \in ToSet(steps[conn[c].by])
    BY DEF FatalKept
  <2>. QED  BY <1>0, <2>2, <2>3, <2>4 DEF FatalKept
<1>. QED  BY <1>1, <1>2, <1>3 DEF Coordinator

LEMMA FatalNext ==
    ASSUME "failIgnored" \notin Command, Accounts, FatalKept, [Next]_vars
    PROVE  FatalKept'
<1>1. CASE StopListening \/ UNCHANGED vars
  <2>1. UNCHANGED <<conn, steps, worker, completed, completions>>
    BY <1>1 DEF StopListening, vars, states, control, coordinator
  <2>. QED  BY <2>1, SamePlaces DEF FatalKept, Marked
<1>2. CASE ~(StopListening \/ UNCHANGED vars)
  BY <1>2, FatalRequest, FatalHandler, FatalWorker, FatalCoordinator DEF Next, Script
<1>. QED  BY <1>1, <1>2

(***************************************************************************)
(* If the scripts do not use `step mark-failed --ignore`, a job whose own  *)
(* command had a step marked as failed is not recorded as successful,      *)
(* whatever other processes of the job do meanwhile (mark_step_failed,     *)
(* log_step, and the snapshot of the steps in run_candidate_check).        *)
(***************************************************************************)
THEOREM FatalStepsFail ==
    "failIgnored" \notin Command => (Spec => []FatalStepFails)
<1> SUFFICES ASSUME "failIgnored" \notin Command PROVE Spec => []FatalStepFails
  OBVIOUS
<1>1. Init => FatalKept
  BY DEF Init, FatalKept, Marked, Unused
<1>2. Accounts /\ FatalKept /\ [Next]_vars => FatalKept'
  BY FatalNext
<1>3. FatalKept => FatalStepFails
  BY DEF FatalKept, Marked, FatalStepFails
<1>. QED  BY <1>1, <1>2, <1>3, AccountsInit, AccountsNext, PTL DEF Spec

-----------------------------------------------------------------------------
(***************************************************************************)
(* Nobody waits for nobody.  Once a job was recorded and the loop goes on, *)
(* another one is counted; a handler that sleeps was told its job has no   *)
(* outcome; a worker ends when nobody is left who could send it a job.     *)
(***************************************************************************)
Pending == phase = "collect" /\ RecordedJobs # {} => active # 0

Sleeping ==
    \A c \in Conn :
        /\ conn[c].at \in {"checking", "parked"} => conn[c].target \in usedNames
        /\ conn[c].at = "parked" => completions[conn[c].target] = "none"

Winding == \A w \in Worker : worker[w].at = "exited" => Closed /\ jobs = <<>>

Grounded == Main \in usedNames /\ Pending /\ Sleeping /\ Winding

LEMMA GroundedInit == Init => Grounded
<1> SUFFICES ASSUME Init PROVE Grounded
  OBVIOUS
<1>1. RecordedJobs = {}
  BY DEF Init, RecordedJobs
<1>. QED  BY <1>1 DEF Init, Grounded, Pending, Sleeping, Winding, Unused

LEMMA PendingNext ==
    ASSUME Accounts, Pending, [Next]_vars
    PROVE  Pending'
<1>0. active \in Nat
  BY DEF Accounts, TypeOK
<1>1. CASE RecordCompletion
  BY <1>1, RecordingCounts DEF RecordCompletion, FinishJob, Pending
<1>2. CASE CountStarted
  BY <1>0, <1>2 DEF CountStarted, Pending
<1>3. CASE SnapshotSteps \/ Attest \/ SignalShutdown \/ WakeAndReturn
  BY <1>3 DEF SnapshotSteps, Attest, SignalShutdown, WakeAndReturn, Pending
<1>4. CASE UNCHANGED <<phase, allJobs, active>>
  BY <1>4 DEF Pending, RecordedJobs
<1>5. CASE Script \/ StopListening \/ UNCHANGED vars
  BY <1>4, <1>5 DEF Script, Request, StopListening, vars, coordinator
<1>6. ASSUME NEW w \in Worker, WorkerStep(w) PROVE Pending'
  BY <1>4, <1>6 DEF WorkerStep, Take, Announce, Report, Retire, coordinator
<1>7. ASSUME NEW c \in Conn, Handler(c) PROVE Pending'
  BY <1>4, <1>7
  DEF Handler, AcceptControl, Refused, StartJob, WaitForJob, CheckCompletion, LogStep,
      MarkStepFailed, coordinator
<1>. QED  BY <1>1, <1>2, <1>3, <1>5, <1>6, <1>7 DEF Next, Coordinator

\* A handler that moves has seen the name, and slept only without an outcome.
LEMMA SleepingHandler ==
    ASSUME Accounts, Sleeping, NEW c \in Conn, Handler(c)
    PROVE  Sleeping'
<1>0. conn \in [Conn -> Control] /\ usedNames \subseteq usedNames' /\ UNCHANGED completions
  BY DEF Accounts, TypeOK, Handler, AcceptControl, Refused, StartJob, WaitForJob,
         CheckCompletion, LogStep, MarkStepFailed, states
<1>1. ASSUME NEW at, NEW reply, conn' = [conn EXCEPT ![c] = With(at, reply, conn[c])],
             at \in {"checking", "parked"} => conn[c].target \in usedNames',
             at = "parked" => completions[conn[c].target] = "none"
      PROVE  Sleeping'
  <2> SUFFICES ASSUME NEW d \in Conn
               PROVE  /\ conn'[d].at \in {"checking", "parked"}
                            => conn'[d].target \in usedNames'
                      /\ conn'[d].at = "parked" => completions'[conn'[d].target] = "none"
    BY DEF Sleeping
  <2>1. CASE d = c
    BY <1>0, <1>1, <2>1 DEF With
  <2>2. CASE d # c
    BY <1>0, <1>1, <2>2 DEF Sleeping
  <2>. QED  BY <2>1, <2>2
<1>2. ASSUME NEW reply, conn' = Replied(c, reply) PROVE Sleeping'
  BY <1>1, <1>2 DEF Replied
<1>3. CASE AcceptControl(c)
  BY <1>1, <1>3 DEF AcceptControl, Moved
<1>4. CASE Refused(c) \/ StartJob(c) \/ LogStep(c) \/ MarkStepFailed(c)
  BY <1>2, <1>4 DEF Refused, StartJob, LogStep, MarkStepFailed
<1>5. CASE WaitForJob(c)
  BY <1>0, <1>1, <1>2, <1>5 DEF WaitForJob, Moved
<1>6. CASE CheckCompletion(c)
  <2>1. conn[c].target \in usedNames'
    BY <1>0, <1>6 DEF CheckCompletion, Sleeping
  <2>. QED  BY <1>1, <1>2, <1>6, <2>1 DEF CheckCompletion, Moved
<1>. QED  BY <1>3, <1>4, <1>5, <1>6 DEF Handler

LEMMA SleepingNext ==
    ASSUME Accounts, Sleeping, [Next]_vars
    PROVE  Sleeping'
<1>0. conn \in [Conn -> Control]
  BY DEF Accounts, TypeOK
<1>1. CASE UNCHANGED <<usedNames, conn, completions>>
  BY <1>1 DEF Sleeping
<1>2. CASE Script
  <2>1. UNCHANGED <<usedNames, completions>>
    BY <1>2 DEF Script, Request, states
  <2>2. PICK c \in Conn : Request(c)
    BY <1>2 DEF Script
  <2>3. conn'[c].at = "connected" /\ \A d \in Conn \ {c} : conn'[d] = conn[d]
    BY <1>0, <2>2 DEF Request
  <2>. QED  BY <2>1, <2>3 DEF Sleeping
<1>3. CASE RecordCompletion
  <2>1. UNCHANGED usedNames
    BY <1>3 DEF RecordCompletion, FinishJob
  <2>2. ASSUME NEW c \in Conn
        PROVE  /\ conn'[c].target = conn[c].target /\ conn'[c].at # "parked"
               /\ conn'[c].at = "checking" => conn[c].at \in {"checking", "parked"}
    <3>1. conn'[c] = Woken(conn[c])
      BY <1>3 DEF RecordCompletion
    <3>. QED  BY <3>1 DEF Woken, With
  <2>. QED  BY <2>1, <2>2 DEF Sleeping
<1>4. CASE Coordinator /\ ~RecordCompletion
  BY <1>1, <1>4
  DEF Coordinator, CountStarted, SnapshotSteps, Attest, SignalShutdown, WakeAndReturn,
      states, control
<1>5. ASSUME NEW w \in Worker, WorkerStep(w) PROVE Sleeping'
  BY <1>1, <1>5 DEF WorkerStep, Take, Announce, Report, Retire, states, control
<1>6. CASE StopListening \/ UNCHANGED vars
  BY <1>1, <1>6 DEF StopListening, vars, states, control
<1>7. ASSUME NEW c \in Conn, Handler(c) PROVE Sleeping'
  BY <1>7, SleepingHandler
<1>. QED  BY <1>2, <1>3, <1>4, <1>5, <1>6, <1>7 DEF Next

\* Once every sender is gone none comes back, and the channel stays empty.
LEMMA ClosedStays ==
    ASSUME Accounts, Closed, jobs = <<>>, [Next]_vars
    PROVE  Closed' /\ jobs' = <<>>
<1>0. conn \in [Conn -> Control]
  BY DEF Accounts, TypeOK
<1>1. CASE Script \/ StopListening \/ UNCHANGED vars
  <2>1. /\ UNCHANGED <<phase, jobs>>
        /\ listener' = "exited"
    BY <1>1 DEF Script, Request, StopListening, vars, control, coordinator, Closed
  <2>2. \A c \in Conn : conn'[c] = conn[c] \/ conn'[c].at = "connected"
    BY <1>0, <1>1 DEF Script, Request, StopListening, vars, control
  <2>. QED  BY <2>1, <2>2 DEF Closed
<1>2. ASSUME NEW w \in Worker, WorkerStep(w) PROVE Closed' /\ jobs' = <<>>
  BY <1>2 DEF WorkerStep, Take, Announce, Report, Retire, control, coordinator, Closed
<1>3. ASSUME NEW c \in Conn, Handler(c) PROVE Closed' /\ jobs' = <<>>
  <2>1. Refused(c)
    BY <1>3 DEF Handler, AcceptControl, StartJob, WaitForJob, CheckCompletion, LogStep,
                MarkStepFailed, Handles, Closed
  <2>2. /\ UNCHANGED <<phase, jobs, listener>>
        /\ conn' = [conn EXCEPT ![c] = With("done", "lost", conn[c])]
    BY <2>1 DEF Refused, Replied, coordinator
  <2>3. \A d \in Conn : conn'[d] = conn[d] \/ conn'[d].at = "done"
    BY <1>0, <2>2 DEF With
  <2>. QED  BY <2>2, <2>3 DEF Closed
<1>4. CASE Coordinator
  BY <1>4
  DEF Coordinator, CountStarted, SnapshotSteps, RecordCompletion, Attest, SignalShutdown,
      WakeAndReturn, Closed
<1>. QED  BY <1>1, <1>2, <1>3, <1>4 DEF Next

LEMMA WindingNext ==
    ASSUME Accounts, Winding, [Next]_vars
    PROVE  Winding'
<1> SUFFICES ASSUME NEW w \in Worker, worker'[w].at = "exited"
             PROVE  Closed' /\ jobs' = <<>>
  BY DEF Winding
<1>1. CASE worker[w].at = "exited"
  BY <1>1, ClosedStays DEF Winding
<1>2. CASE worker[w].at # "exited"
  <2>1. worker' # worker
    BY <1>2
  <2>2. PICK v \in Worker : WorkerStep(v)
    BY <2>1
    DEF Next, Script, Request, StopListening, Handler, AcceptControl, Refused, StartJob,
        WaitForJob, CheckCompletion, LogStep, MarkStepFailed, Coordinator, CountStarted,
        SnapshotSteps, RecordCompletion, FinishJob, Attest, SignalShutdown, WakeAndReturn,
        vars
  <2>3. Retire(v)
    <3>1. CASE w = v
      BY <1>2, <2>2, <3>1 DEF WorkerStep, Take, Announce, Report, Accounts, TypeOK
    <3>2. CASE w # v
      BY <1>2, <2>2, <3>2 DEF WorkerStep, Take, Announce, Report, Retire, Accounts, TypeOK
    <3>. QED  BY <3>1, <3>2
  <2>. QED  BY <2>3, ClosedStays DEF Retire
<1>. QED  BY <1>1, <1>2

LEMMA GroundedAlways == Spec => [](Accounts /\ Grounded)
<1>1. Accounts /\ Grounded /\ [Next]_vars => Grounded'
  <2> SUFFICES ASSUME Accounts, Grounded, [Next]_vars PROVE Grounded'
    OBVIOUS
  <2>1. usedNames \subseteq usedNames'
    BY DEF Next, Script, Request, StopListening, WorkerStep, Take, Announce, Report,
           Retire, Handler, AcceptControl, Refused, StartJob, WaitForJob, CheckCompletion,
           LogStep, MarkStepFailed, Coordinator, CountStarted, SnapshotSteps,
           RecordCompletion, FinishJob, Attest, SignalShutdown, WakeAndReturn, vars
  <2>. QED  BY <2>1, PendingNext, SleepingNext, WindingNext DEF Grounded
<1>. QED  BY <1>1, AccountsInit, AccountsNext, GroundedInit, PTL DEF Spec

(***************************************************************************)
(* The coordinator never waits for a message nobody will send: whenever    *)
(* its channel is empty, some worker has a job whose command may end, or   *)
(* is free to take one from the queue.  Only a script that does not end    *)
(* keeps a check from its verdict (the loop of run_candidate_check).       *)
(***************************************************************************)
THEOREM CoordinatorHasSender ==
    ASSUME Worker # {}
    PROVE  Spec => [](phase = "collect" /\ messages = <<>> =>
                        \E w \in Worker :
                            \/ worker[w].at \in {"taken", "running"}
                            \/ worker[w].at = "idle" /\ jobs # <<>>)
<1>1. ASSUME Accounts, Grounded, phase = "collect", messages = <<>>
      PROVE  \E w \in Worker : \/ worker[w].at \in {"taken", "running"}
                               \/ worker[w].at = "idle" /\ jobs # <<>>
  <2>1. ReportedJobs = {} /\ RecordingJobs = {}
    BY <1>1, Empty DEF Accounts, InHands, RecordingJobs
  <2>2. usedNames \subseteq QueuedJobs \cup HeldJobs \cup RecordedJobs
    BY <1>1, <2>1 DEF Accounts, OnePlace, Collecting
  <2>3. \A w \in Worker : worker[w].at \in {"idle", "taken", "running"}
    BY <1>1 DEF Accounts, TypeOK, Grounded, Winding, Closed
  <2>4. QueuedJobs \cup HeldJobs # {}
    <3> SUFFICES ASSUME QueuedJobs \cup HeldJobs = {} PROVE FALSE
      OBVIOUS
    <3>1. RecordedJobs # {}
      BY <1>1, <2>2 DEF Grounded
    <3>2. counted \ RecordedJobs = {}
      BY <1>1, <2>2 DEF Accounts, Announced
    <3>3. active = 0
      BY <1>1, <3>2, FS_EmptySet DEF Accounts, Counting
    <3>. QED  BY <1>1, <3>1, <3>3 DEF Grounded, Pending
  <2>5. CASE HeldJobs # {}
    BY <1>1, <2>5 DEF HeldJobs, Accounts, InHands
  <2>6. CASE HeldJobs = {}
    <3>1. jobs # <<>>
      BY <2>4, <2>6, Empty
    <3>2. \A w \in Worker : worker[w].at = "idle"
      BY <1>1, <2>3, <2>6 DEF HeldJobs, Accounts, InHands
    <3>. QED  BY <3>1, <3>2
  <2>. QED  BY <2>5, <2>6
<1>. QED  BY <1>1, GroundedAlways, PTL

(***************************************************************************)
(* A handler that sleeps in wait_for_completion sleeps for a job without   *)
(* an outcome; until the verdict that job is in the queue, with a worker,  *)
(* reported or being recorded, and its record will wake the handler.       *)
(***************************************************************************)
THEOREM SleepersAwaited ==
    Spec => [](\A c \in Conn : conn[c].at = "parked" =>
                 /\ completions[conn[c].target] = "none"
                 /\ Collecting => conn[c].target \in
                       QueuedJobs \cup HeldJobs \cup ReportedJobs \cup RecordingJobs)
<1>1. ASSUME Accounts, Grounded, NEW c \in Conn, conn[c].at = "parked"
      PROVE  /\ completions[conn[c].target] = "none"
             /\ Collecting => conn[c].target \in
                   QueuedJobs \cup HeldJobs \cup ReportedJobs \cup RecordingJobs
  <2>1. conn[c].target \in usedNames /\ completions[conn[c].target] = "none"
    BY <1>1 DEF Grounded, Sleeping
  <2>2. conn[c].target \notin RecordedJobs
    BY <1>1, <2>1 DEF Accounts, Counting
  <2>. QED  BY <1>1, <2>1, <2>2 DEF Accounts, OnePlace
<1>2. Accounts /\ Grounded =>
         \A c \in Conn : conn[c].at = "parked" =>
            /\ completions[conn[c].target] = "none"
            /\ Collecting => conn[c].target \in
                  QueuedJobs \cup HeldJobs \cup ReportedJobs \cup RecordingJobs
  BY <1>1
<1>. QED  BY <1>2, GroundedAlways, PTL

(***************************************************************************)
(* No worker ends while a handler may still put a job in the queue: an     *)
(* acknowledged start is never of a job nobody will take, also when the    *)
(* check is over (the drop of jobs_sender in run_candidate_check).         *)
(***************************************************************************)
THEOREM WorkersOutliveSenders ==
    Spec => [](\A w \in Worker : worker[w].at = "exited" => Closed /\ jobs = <<>>)
<1>1. Grounded => \A w \in Worker : worker[w].at = "exited" => Closed /\ jobs = <<>>
  BY DEF Grounded, Winding
<1>. QED  BY <1>1, GroundedAlways, PTL
=============================================================================
