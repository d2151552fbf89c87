----------------------- MODULE MergeQueueServiceProofs -----------------------
(***************************************************************************)
(* Machine-checked proofs of what the merge queue owes its clients: no run *)
(* is lost or taken twice, runs are served in the order of their           *)
(* acknowledgements, a result is final, and a graceful shutdown drains.    *)
(***************************************************************************)
EXTENDS MergeQueueProofs, FiniteSetTheorems

Alive == pc \notin {"down", "noVCS", "dead"}
InQueue(r) == \E i \in DOMAIN queue : queue[i] = r
Sending(r) == \E h \in Conn : conn[h].at = "sending" /\ conn[h].run = r
Served(r) == runs[r].status \in Terminal

(***************************************************************************)
(* The inductive invariant, in four parts.  Without a daemon there is      *)
(* neither a run nor a handler at work.                                    *)
(***************************************************************************)
DownBlank ==
    /\ daemon = "down" <=> pc = "down"
    /\ daemon = "down" => /\ \A r \in RunId : runs[r].status = "Absent"
                          /\ \A h \in Conn : conn[h].at \in {"idle", "done"}

\* While the processor lives, a queued run is in the channel once, or with the
\* one handler about to send it, or just taken by the processor.
OneHand ==
    /\ \A i \in DOMAIN queue : queue[i] \in RunId =>
          /\ runs[queue[i]].status = "Queued"
          /\ queue[i] # cur
          /\ ~Sending(queue[i])
          /\ \A j \in DOMAIN queue : queue[j] = queue[i] => j = i
    /\ \A g \in Conn : conn[g].at = "sending" =>
          /\ runs[conn[g].run].status = "Queued"
          /\ conn[g].run # cur
          /\ \A h \in Conn : conn[h].at = "sending" /\ conn[h].run = conn[g].run => g = h
    /\ pc = "start" => runs[cur].status = "Queued"
    /\ pc = "notify" => Served(cur)
    /\ \A r \in RunId : runs[r].status = "Queued" =>
          InQueue(r) \/ Sending(r) \/ (r = cur /\ pc = "start")

\* An acknowledged run is ahead, in the channel or at the processor, of every
\* run queued after its acknowledgement.
AckOrder ==
    /\ ServedInAckOrder
    /\ \A q \in acked : runs[q].status # "Absent"
    /\ \A r \in RunId : ahead[r] \subseteq acked

AckOrderAlive ==
    /\ \A q \in acked : Served(q) \/ q = cur \/ InQueue(q)
    /\ \A i \in DOMAIN queue : queue[i] \in RunId => \A q \in ahead[queue[i]] :
          Served(q) \/ q = cur \/ \E j \in 1..(i - 1) : queue[j] = q
    /\ pc = "start" => \A q \in ahead[cur] : Served(q)

\* What the processor owes at a shutdown is before the marker, and only the marker
\* ends its loop.
Drain ==
    /\ daemon # "draining" => owed = {} /\ ~InQueue(Shutdown) /\ pc # "dead"
    /\ pc = "dead" => \A r \in owed : Served(r)
    /\ Alive => \A r \in owed : Served(r) \/ r = cur \/
          \E i \in DOMAIN queue : queue[i] = r /\ \A j \in 1..i : queue[j] # Shutdown

Base == TypeOK /\ InHand /\ DownBlank
Service == Base /\ (Alive => OneHand /\ AckOrderAlive) /\ AckOrder /\ Drain

-----------------------------------------------------------------------------
(***************************************************************************)
(* Steps that leave every run in the hands it is in.                       *)
(***************************************************************************)
Quiet ==
    /\ UNCHANGED <<daemon, runs, queue, cur, acked, ahead, owed>>
    /\ pc' = pc \/ (pc \in Working /\ pc' \in Working)
    /\ daemon = "down" => UNCHANGED conn
    /\ \A h \in Conn : conn[h].at = "sending" \/ conn'[h].at = "sending" =>
          conn'[h] = conn[h]

LEMMA QuietHandler ==
    ASSUME Base, NEW h \in Conn,
           Accept(h) \/ RefuseCandidate(h) \/ WaitForRun(h) \/ RecheckRun(h)
    PROVE  Quiet
<1>1. /\ UNCHANGED <<daemon, runs, queue, pc, cur, acked, ahead, owed>>
      /\ conn[h].at \in {"idle", "accepted", "checking"}
      /\ conn[h].at = "idle" => daemon = "serving"
  BY DEF Accept, RefuseCandidate, WaitForRun, RecheckRun, table, processor, history
<1>2. daemon # "down"
  BY <1>1 DEF Base, DownBlank
<1>3. conn \in [Conn -> Handler]
  BY DEF Base, TypeOK
<1>4. conn'[h].at # "sending" /\ \A g \in Conn \ {h} : conn'[g] = conn[g]
  <2>1. CASE Accept(h)
    BY <1>3, <2>1 DEF Accept, At
  <2>2. CASE RefuseCandidate(h)
    BY <1>3, <2>2 DEF RefuseCandidate, Answered
  <2>3. ASSUME NEW r, CheckRun(h, r)
        PROVE  conn'[h].at # "sending" /\ \A g \in Conn \ {h} : conn'[g] = conn[g]
    BY <1>3, <2>3 DEF CheckRun
  <2>. QED  BY <2>1, <2>2, <2>3 DEF WaitForRun, RecheckRun
<1>. QED  BY <1>1, <1>2, <1>4 DEF Quiet

\* Steps of the processor inside one run.
InsideRun ==
    \/ PreClone \/ ResolveBase \/ CreateTestMerge \/ CheckCandidate \/ PreMerge
    \/ GitPublish \/ JjSelect \/ JjMove \/ JjVerify \/ PostMerge

LEMMA QuietInsideRun == InsideRun => Quiet
<1>1. ASSUME PreClone \/ ResolveBase \/ CreateTestMerge \/ CheckCandidate \/ PreMerge
      PROVE  Quiet
  BY <1>1
  DEF PreClone, ResolveBase, CreateTestMerge, CheckCandidate, PreMerge, Goto, Conclude,
      Quiet, Working, PC, table, history
<1>2. ASSUME GitPublish \/ JjSelect \/ JjMove \/ JjVerify \/ PostMerge
      PROVE  Quiet
  BY <1>2
  DEF GitPublish, JjSelect, JjMove, JjVerify, PostMerge, Goto, Conclude,
      Quiet, Working, PC, table, history
<1>. QED  BY <1>1, <1>2 DEF InsideRun

\* Every step either ends or begins a process, is quiet, or passes a run on.
LEMMA Steps ==
    ASSUME Base, [Next]_vars
    PROVE  \/ Start \/ Exit \/ Quiet \/ StopAccepting
           \/ \E h \in Conn : QueueRun(h) \/ SendRun(h)
           \/ Boot \/ Receive \/ StartRun \/ CompleteRun \/ NotifyAll
<1>1. CASE RequestShutdown \/ MoveBase \/ UNCHANGED vars
  BY <1>1 DEF RequestShutdown, MoveBase, vars, Quiet, table, processor, history
<1>2. CASE Kill \/ FinishDraining
  BY <1>2 DEF Kill, FinishDraining
<1>3. CASE \E h \in Conn : Handle(h)
  BY <1>3, QuietHandler DEF Handle
<1>4. CASE ProcessQueue
  BY <1>4, QuietInsideRun DEF ProcessQueue, InsideRun
<1>. QED  BY <1>1, <1>2, <1>3, <1>4 DEF Next

-----------------------------------------------------------------------------
(***************************************************************************)
(* Without a daemon.                                                       *)
(***************************************************************************)
LEMMA DownBlankNext ==
    ASSUME Base, [Next]_vars
    PROVE  DownBlank'
<1>. USE DEF Base
<1>1. CASE Start
  BY <1>1 DEF Start, DownBlank
<1>2. CASE Exit
  BY <1>2 DEF Exit, Blank, DownBlank, Absent, Answered
<1>3. CASE Quiet
  BY <1>3 DEF Quiet, DownBlank, Working, PC
<1>4. CASE StopAccepting
  BY <1>4 DEF StopAccepting, DownBlank, processor, table
<1>5. ASSUME NEW h \in Conn, QueueRun(h) \/ SendRun(h) PROVE DownBlank'
  <2>1. daemon # "down" /\ UNCHANGED <<daemon, pc>>
    BY <1>5 DEF QueueRun, SendRun, DownBlank, processor
  <2>. QED  BY <2>1 DEF DownBlank
<1>6. CASE Boot \/ Receive \/ StartRun \/ CompleteRun \/ NotifyAll
  <2>1. pc # "down" /\ pc' # "down" /\ UNCHANGED daemon
    BY <1>6 DEF Boot, Receive, StartRun, CompleteRun, NotifyAll, Goto
  <2>. QED  BY <2>1 DEF DownBlank
<1>. QED  BY <1>1, <1>2, <1>3, <1>4, <1>5, <1>6, Steps

-----------------------------------------------------------------------------
(***************************************************************************)
(* A result is final.                                                      *)
(***************************************************************************)
LEMMA TerminalIsNeither == Terminal \cap {"Absent", "Queued", "Running"} = {}
BY DEF Terminal, LandedStatus

LEMMA FinalNext ==
    ASSUME Base, [Next]_vars, daemon' # "down", NEW r \in RunId, Served(r)
    PROVE  runs'[r] = runs[r]
<1>0. runs[r].status \notin {"Absent", "Queued", "Running"}
  BY TerminalIsNeither DEF Served
<1>1. CASE Start
  BY <1>0, <1>1 DEF Start, Base, DownBlank
<1>2. CASE Exit
  BY <1>2 DEF Exit
<1>3. CASE Quiet \/ StopAccepting \/ Boot \/ Receive \/ NotifyAll
  BY <1>3 DEF Quiet, StopAccepting, Boot, Receive, NotifyAll, table
<1>4. ASSUME NEW h \in Conn, QueueRun(h) \/ SendRun(h) PROVE runs'[r] = runs[r]
  <2>1. CASE QueueRun(h)
    <3>1. r # nextRunId
      BY <1>0 DEF Base, InHand, TypeOK, RunId
    <3>. QED  BY <2>1, <3>1 DEF QueueRun, Base, TypeOK
  <2>2. CASE SendRun(h)
    BY <2>2 DEF SendRun, table
  <2>. QED  BY <1>4, <2>1, <2>2
<1>5. CASE StartRun
  <2>1. runs' = runs \/ (runs[cur].status = "Queued"
                         /\ runs' = [runs EXCEPT ![cur] = WithStatus(@, "Running")])
    BY <1>5 DEF StartRun
  <2>. QED  BY <1>0, <2>1 DEF Base, TypeOK
<1>6. CASE CompleteRun
  <2>1. cur \in RunId /\ runs[cur].status = "Running"
    BY <1>6 DEF CompleteRun, Base, InHand, Working, PC
  <2>. QED  BY <1>0, <1>6, <2>1 DEF CompleteRun, Base, TypeOK
<1>. QED  BY <1>1, <1>2, <1>3, <1>4, <1>5, <1>6, Steps

LEMMA BaseInvariant == Spec => []Base
<1>1. Init => Base
  BY TypeInit, InHandInit DEF Base, DownBlank, Init, Absent, Idle
<1>2. Base /\ [Next]_vars => Base'
  BY TypeNext, InHandNext, DownBlankNext DEF Base
<1>. QED  BY <1>1, <1>2, PTL DEF Spec

(***************************************************************************)
(* A result, once anybody can have read it, is never revised while the     *)
(* daemon lives (complete_run is the last write to a run's entry).         *)
(***************************************************************************)
THEOREM FinalResults == Spec => ResultIsFinal
<1>1. ASSUME Base, [Next]_vars
      PROVE  [\A r \in RunId :
                runs[r].status \in Terminal /\ daemon' # "down" => runs'[r] = runs[r]]_vars
  BY <1>1, FinalNext DEF Served
<1>. QED  BY <1>1, BaseInvariant, PTL DEF Spec, ResultIsFinal

-----------------------------------------------------------------------------
(***************************************************************************)
(* One pair of hands.                                                      *)
(***************************************************************************)
LEMMA QueueFacts ==
    ASSUME TypeOK
    PROVE  /\ Shutdown \notin RunId /\ NoRun \notin RunId
           /\ Len(queue) \in Nat /\ DOMAIN queue = 1..Len(queue)
           /\ \A i \in 1..Len(queue) : queue[i] \in RunId \cup {Shutdown}
           /\ conn \in [Conn -> Handler]
           /\ \A h \in Conn : conn[h].at = "sending" => conn[h].run \in RunId
BY DEF TypeOK, Handler, RunId, Shutdown, NoRun

LEMMA AppendFacts ==
    ASSUME TypeOK, NEW m \in RunId \cup {Shutdown}, queue' = Append(queue, m)
    PROVE  /\ Len(queue') = Len(queue) + 1 /\ DOMAIN queue' = 1..(Len(queue) + 1)
           /\ \A i \in 1..Len(queue) : queue'[i] = queue[i]
           /\ queue'[Len(queue) + 1] = m
BY DEF TypeOK

LEMMA TailFacts ==
    ASSUME TypeOK, queue # <<>>, queue' = Tail(queue)
    PROVE  /\ Len(queue) >= 1 /\ Head(queue) = queue[1]
           /\ DOMAIN queue' = 1..(Len(queue) - 1)
           /\ \A i \in 1..(Len(queue) - 1) : queue'[i] = queue[i + 1]
BY DEF TypeOK

LEMMA OneHandQuiet == Base /\ OneHand /\ Quiet => OneHand'
BY QueueFacts DEF Base, Quiet, OneHand, InQueue, Sending, Served, Working, PC

LEMMA OneHandStop == Base /\ OneHand /\ Alive /\ StopAccepting => OneHand'
<1> SUFFICES ASSUME Base, OneHand, Alive, StopAccepting PROVE OneHand'
  OBVIOUS
<1>1. /\ queue' = Append(queue, Shutdown)
      /\ UNCHANGED <<runs, conn, pc, cur>>
  BY DEF StopAccepting, Alive, Gone, table, processor
<1>2. ASSUME NEW i \in DOMAIN queue', queue'[i] \in RunId
      PROVE  i \in DOMAIN queue /\ queue'[i] = queue[i]
  BY <1>1, <1>2, QueueFacts, AppendFacts DEF Base
<1>3. ASSUME NEW r, InQueue(r) PROVE InQueue(r)'
  BY <1>1, <1>3, QueueFacts, AppendFacts DEF Base, InQueue
<1>. QED  BY <1>1, <1>2, <1>3 DEF OneHand, Sending, Served

LEMMA OneHandQueue ==
    ASSUME Base, OneHand, Alive, NEW h \in Conn, QueueRun(h)
    PROVE  OneHand'
<1>. DEFINE n == nextRunId
<1>1. /\ n \in RunId /\ runs[n].status = "Absent"
      /\ conn[h].at = "accepted"
      /\ UNCHANGED <<queue, pc, cur>>
      /\ conn' = [conn EXCEPT ![h] = [at |-> "sending", run |-> n, reply |-> "none"]]
  BY BoundAssumption DEF QueueRun, Base, InHand, TypeOK, RunId, processor
<1>2. runs'[n].status = "Queued" /\ \A r \in RunId \ {n} : runs'[r] = runs[r]
  BY <1>1 DEF QueueRun, Base, TypeOK
<1>3. /\ conn'[h].at = "sending" /\ conn'[h].run = n
      /\ \A g \in Conn \ {h} : conn'[g] = conn[g]
  BY <1>1, QueueFacts DEF Base
<1>4. cur # n
  <2>1. CASE pc = "start" \/ pc = "notify" \/ pc \in Working
    BY <1>1, <2>1, TerminalIsNeither DEF Base, InHand, OneHand, Served
  <2>2. CASE pc \notin Working \cup {"start", "notify"}
    BY <1>1, <2>2, QueueFacts DEF Base, InHand, TypeOK, Working, Alive
  <2>. QED  BY <2>1, <2>2
<1>5. ASSUME NEW r \in RunId
      PROVE  /\ Sending(r)' <=> Sending(r) \/ r = n
             /\ InQueue(r)' <=> InQueue(r)
             /\ InQueue(r) => r # n
             /\ Sending(r) => r # n
  BY <1>1, <1>3, QueueFacts DEF Base, Sending, InQueue, OneHand
<1>6. ASSUME NEW i \in DOMAIN queue', queue'[i] \in RunId
      PROVE  /\ runs'[queue'[i]].status = "Queued"
             /\ queue'[i] # cur'
             /\ ~Sending(queue[i])'
             /\ \A j \in DOMAIN queue' : queue'[j] = queue'[i] => j = i
  <2>1. queue'[i] = queue[i] /\ queue[i] # n /\ DOMAIN queue' = DOMAIN queue
    BY <1>1, <1>5, <1>6 DEF InQueue
  <2>. QED  BY <1>1, <1>2, <1>5, <1>6, <2>1 DEF OneHand, Sending
<1>7. ASSUME NEW g \in Conn, conn'[g].at = "sending"
      PROVE  /\ runs'[conn'[g].run].status = "Queued"
             /\ conn'[g].run # cur'
             /\ \A k \in Conn : conn'[k].at = "sending" /\ conn'[k].run = conn'[g].run => g = k
  BY <1>1, <1>2, <1>3, <1>4, <1>5, <1>7, QueueFacts DEF Base, OneHand, Sending
<1>8. pc' = "start" => runs'[cur'].status = "Queued"
  BY <1>1, <1>2, <1>4 DEF OneHand, Base, InHand
<1>9. pc' = "notify" => Served(cur)'
  BY <1>1, <1>2, <1>4 DEF OneHand, Served, Base, InHand
<1>10. ASSUME NEW r \in RunId, runs'[r].status = "Queued"
       PROVE  InQueue(r)' \/ Sending(r)' \/ (r = cur' /\ pc' = "start")
  BY <1>1, <1>2, <1>5, <1>10 DEF OneHand
<1>. QED  BY <1>6, <1>7, <1>8, <1>9, <1>10 DEF OneHand

LEMMA OneHandSend ==
    ASSUME Base, OneHand, Alive, NEW h \in Conn, SendRun(h)
    PROVE  OneHand'
<1>. DEFINE n == conn[h].run
<1>1. /\ conn[h].at = "sending" /\ n \in RunId
      /\ UNCHANGED <<runs, pc, cur>>
      /\ queue' = Append(queue, n)
      /\ conn' = [conn EXCEPT ![h] = Answered("added", conn[h])]
  BY QueueFacts DEF SendRun, Alive, Gone, Base, processor, table
<1>2. conn'[h].at = "done" /\ \A g \in Conn \ {h} : conn'[g] = conn[g]
  BY <1>1, QueueFacts DEF Base, Answered
<1>3. /\ runs[n].status = "Queued" /\ n # cur /\ ~InQueue(n)
      /\ \A g \in Conn : conn[g].at = "sending" /\ conn[g].run = n => g = h
  BY <1>1, QueueFacts DEF Base, OneHand, InQueue, Sending
<1>4. ASSUME NEW r \in RunId
      PROVE  /\ Sending(r)' <=> Sending(r) /\ r # n
             /\ InQueue(r)' <=> InQueue(r) \/ r = n
  <2>1. Sending(r)' <=> Sending(r) /\ r # n
    BY <1>1, <1>2, <1>3 DEF Sending
  <2>2. InQueue(r)' <=> InQueue(r) \/ r = n
    BY <1>1, AppendFacts, QueueFacts DEF Base, InQueue
  <2>. QED  BY <2>1, <2>2
<1>5. ASSUME NEW i \in DOMAIN queue', queue'[i] \in RunId
      PROVE  /\ runs'[queue'[i]].status = "Queued"
             /\ queue'[i] # cur'
             /\ ~Sending(queue[i])'
             /\ \A j \in DOMAIN queue' : queue'[j] = queue'[i] => j = i
  <2>1. /\ DOMAIN queue' = 1..(Len(queue) + 1) /\ queue'[Len(queue) + 1] = n
        /\ \A j \in 1..Len(queue) : queue'[j] = queue[j] /\ queue[j] # n
        /\ DOMAIN queue = 1..Len(queue) /\ Len(queue) \in Nat
    BY <1>1, <1>3, AppendFacts, QueueFacts DEF Base, InQueue
  <2>2. CASE i = Len(queue) + 1
    BY <1>1, <1>3, <1>4, <2>1, <2>2
  <2>3. CASE i \in 1..Len(queue)
    <3>1. /\ runs[queue[i]].status = "Queued" /\ queue[i] # cur /\ ~Sending(queue[i])
          /\ \A j \in 1..Len(queue) : queue[j] = queue[i] => j = i
      BY <1>5, <2>1, <2>3 DEF OneHand
    <3>. QED  BY <1>1, <1>4, <1>5, <2>1, <2>3, <3>1
  <2>. QED  BY <2>1, <2>2, <2>3
<1>6. ASSUME NEW g \in Conn, conn'[g].at = "sending"
      PROVE  /\ runs'[conn'[g].run].status = "Queued"
             /\ conn'[g].run # cur'
             /\ \A k \in Conn : conn'[k].at = "sending" /\ conn'[k].run = conn'[g].run => g = k
  BY <1>1, <1>2, <1>6 DEF OneHand
<1>7. ASSUME NEW r \in RunId, runs'[r].status = "Queued"
      PROVE  InQueue(r)' \/ Sending(r)' \/ (r = cur' /\ pc' = "start")
  BY <1>1, <1>4, <1>7 DEF OneHand
<1>. QED  BY <1>1, <1>5, <1>6, <1>7 DEF OneHand, Served

LEMMA OneHandReceive == Base /\ OneHand /\ Receive /\ Alive' => OneHand'
<1> SUFFICES ASSUME Base, OneHand, Receive, Alive' PROVE OneHand'
  OBVIOUS
<1>. DEFINE n == Head(queue)
<1>1. /\ pc = "recv" /\ queue # <<>> /\ n # Shutdown
      /\ pc' = "start" /\ cur' = n /\ queue' = Tail(queue)
      /\ UNCHANGED <<runs, conn>>
  BY DEF Receive, Goto, Alive, table
<1>2. /\ Len(queue) >= 1 /\ n = queue[1] /\ n \in RunId
      /\ DOMAIN queue' = 1..(Len(queue) - 1)
      /\ \A i \in 1..(Len(queue) - 1) : queue'[i] = queue[i + 1]
      /\ DOMAIN queue = 1..Len(queue) /\ Len(queue) \in Nat
  BY <1>1, TailFacts, QueueFacts DEF Base
<1>3. /\ runs[n].status = "Queued" /\ ~Sending(n)
      /\ \A j \in DOMAIN queue : queue[j] = n => j = 1
  BY <1>2 DEF OneHand
<1>4. ASSUME NEW i \in DOMAIN queue', queue'[i] \in RunId
      PROVE  /\ runs'[queue'[i]].status = "Queued"
             /\ queue'[i] # cur'
             /\ ~Sending(queue[i])'
             /\ \A j \in DOMAIN queue' : queue'[j] = queue'[i] => j = i
  <2>1. i + 1 \in DOMAIN queue /\ queue'[i] = queue[i + 1] /\ i + 1 # 1
    BY <1>2, <1>4
  <2>2. /\ runs[queue[i + 1]].status = "Queued" /\ ~Sending(queue[i + 1])
        /\ \A j \in DOMAIN queue : queue[j] = queue[i + 1] => j = i + 1
    BY <1>4, <2>1 DEF OneHand
  <2>3. \A j \in DOMAIN queue' : queue'[j] = queue'[i] => j = i
    BY <1>2, <2>1, <2>2
  <2>. QED  BY <1>1, <1>3, <2>1, <2>2, <2>3 DEF Sending
<1>5. ASSUME NEW g \in Conn, conn'[g].at = "sending"
      PROVE  /\ runs'[conn'[g].run].status = "Queued"
             /\ conn'[g].run # cur'
             /\ \A k \in Conn : conn'[k].at = "sending" /\ conn'[k].run = conn'[g].run => g = k
  BY <1>1, <1>3, <1>5 DEF OneHand, Sending
<1>6. ASSUME NEW r \in RunId, runs'[r].status = "Queued"
      PROVE  InQueue(r)' \/ Sending(r)' \/ (r = cur' /\ pc' = "start")
  <2>1. InQueue(r) \/ Sending(r)
    BY <1>1, <1>6 DEF OneHand
  <2>2. CASE InQueue(r) /\ r # n
    <3>1. PICK i \in DOMAIN queue : queue[i] = r
      BY <2>2 DEF InQueue
    <3>2. i - 1 \in DOMAIN queue' /\ queue'[i - 1] = r
      BY <1>2, <2>2, <3>1
    <3>. QED  BY <3>2 DEF InQueue
  <2>. QED  BY <1>1, <2>1, <2>2 DEF Sending
<1>. QED  BY <1>1, <1>3, <1>4, <1>5, <1>6 DEF OneHand

LEMMA OneHandProcess ==
    ASSUME Base, OneHand, Boot \/ StartRun \/ CompleteRun \/ NotifyAll, Alive'
    PROVE  OneHand'
<1>1. CASE Boot
  BY <1>1, QueueFacts
  DEF Base, Boot, Goto, OneHand, Alive, InQueue, Sending, Served, table
<1>2. CASE StartRun
  <2>1. /\ pc = "start" /\ pc' = "preClone" /\ UNCHANGED <<queue, conn, cur>>
        /\ runs' = [runs EXCEPT ![cur] = WithStatus(@, "Running")]
    BY <1>2 DEF StartRun, OneHand
  <2>2. cur \in RunId /\ runs'[cur].status = "Running"
    BY <2>1 DEF Base, TypeOK, InHand, WithStatus
  <2>3. \A r \in RunId \ {cur} : runs'[r] = runs[r]
    BY <2>1 DEF Base, TypeOK
  <2>. QED  BY <2>1, <2>2, <2>3, QueueFacts DEF Base, OneHand, InQueue, Sending
<1>3. CASE CompleteRun
  <2>1. /\ pc = "complete" /\ pc' = "notify" /\ UNCHANGED <<queue, conn, cur>>
        /\ runs' = [runs EXCEPT ![cur] = WithStatus(@, verdict)]
    BY <1>3 DEF CompleteRun, Goto
  <2>2. cur \in RunId /\ runs'[cur].status = verdict /\ verdict \in Terminal
    BY <2>1 DEF Base, TypeOK, InHand, WithStatus, Working, PC
  <2>3. \A r \in RunId \ {cur} : runs'[r] = runs[r]
    BY <2>1 DEF Base, TypeOK
  <2>4. verdict # "Queued"
    BY <2>2, TerminalIsNeither
  <2>. QED
    BY <2>1, <2>2, <2>3, <2>4, QueueFacts DEF Base, OneHand, InQueue, Sending, Served
<1>4. CASE NotifyAll
  <2>1. /\ pc = "notify" /\ pc' = "recv" /\ UNCHANGED <<queue, runs>> /\ cur' = NoRun
        /\ \A h \in Conn : conn[h].at = "sending" \/ conn'[h].at = "sending" =>
              conn'[h] = conn[h]
    BY <1>4 DEF NotifyAll, At, table
  <2>. QED  BY <2>1, QueueFacts DEF Base, OneHand, InQueue, Sending
<1>. QED  BY <1>1, <1>2, <1>3, <1>4

LEMMA OneHandNext ==
    ASSUME Base, Alive => OneHand, [Next]_vars, Alive'
    PROVE  OneHand'
<1>1. CASE Start
  BY <1>1, QueueFacts
  DEF Base, DownBlank, Start, Blank, OneHand, Absent, Sending, Served
<1>2. CASE Exit
  BY <1>2 DEF Exit, Alive
<1>3. CASE Quiet
  BY <1>3, OneHandQuiet DEF Quiet, Alive, Working, PC
<1>4. CASE StopAccepting
  BY <1>4, OneHandStop DEF StopAccepting, Alive, processor
<1>5. ASSUME NEW h \in Conn, QueueRun(h) \/ SendRun(h) PROVE OneHand'
  <2>1. Alive
    BY <1>5 DEF QueueRun, SendRun, Alive, processor
  <2>. QED  BY <1>5, <2>1, OneHandQueue, OneHandSend
<1>6. CASE Boot \/ Receive \/ StartRun \/ CompleteRun \/ NotifyAll
  <2>1. Alive
    BY <1>6 DEF Boot, Receive, StartRun, CompleteRun, NotifyAll, Alive
  <2>. QED  BY <1>6, <2>1, OneHandReceive, OneHandProcess
<1>. QED  BY <1>1, <1>2, <1>3, <1>4, <1>5, <1>6, Steps

-----------------------------------------------------------------------------
(***************************************************************************)
(* The order of acknowledgements.                                          *)
(***************************************************************************)
LEMMA AckFacts ==
    ASSUME Base, AckOrder
    PROVE  /\ acked \subseteq RunId
           /\ \A r \in RunId : ahead[r] \subseteq RunId
           /\ \A q \in acked : q # nextRunId
           /\ \A r \in RunId : nextRunId \notin ahead[r]
<1>1. acked \subseteq RunId /\ \A r \in RunId : ahead[r] \subseteq RunId
  BY DEF Base, TypeOK
<1>2. \A q \in RunId : q >= nextRunId => runs[q].status = "Absent"
  BY DEF Base, InHand
<1>3. \A q \in acked : q # nextRunId
  BY <1>1, <1>2 DEF AckOrder, RunId
<1>. QED  BY <1>1, <1>3 DEF AckOrder

LEMMA AckOrderNext ==
    ASSUME Base, AckOrder, Alive => OneHand /\ AckOrderAlive, [Next]_vars
    PROVE  AckOrder'
<1>. DEFINE n == nextRunId
<1>1. CASE Start \/ Exit
  BY <1>1 DEF Start, Exit, Blank, AckOrder, ServedInAckOrder
<1>2. CASE Quiet \/ StopAccepting \/ Boot \/ Receive \/ NotifyAll
  BY <1>2
  DEF Quiet, StopAccepting, Boot, Receive, NotifyAll, table, history, AckOrder,
      ServedInAckOrder
<1>3. ASSUME NEW h \in Conn, QueueRun(h) PROVE AckOrder'
  <2>1. /\ n \in RunId /\ runs'[n].status = "Queued" /\ UNCHANGED acked
        /\ \A r \in RunId \ {n} : runs'[r] = runs[r] /\ ahead'[r] = ahead[r]
        /\ ahead'[n] = acked
    BY <1>3, BoundAssumption DEF QueueRun, Base, TypeOK, RunId
  <2>2. ServedInAckOrder'
    BY <2>1, AckFacts DEF AckOrder, ServedInAckOrder
  <2>. QED  BY <2>1, <2>2, AckFacts DEF AckOrder
<1>4. ASSUME NEW h \in Conn, SendRun(h) PROVE AckOrder'
  <2>1. UNCHANGED <<runs, ahead>>
    BY <1>4 DEF SendRun, table
  <2>2. acked' = acked \/ (acked' = acked \cup {conn[h].run} /\ Alive)
    BY <1>4 DEF SendRun, Alive, Gone, Base, DownBlank
  <2>3. Alive => runs[conn[h].run].status = "Queued"
    BY <1>4 DEF SendRun, OneHand
  <2>. QED  BY <2>1, <2>2, <2>3 DEF AckOrder, ServedInAckOrder
<1>5. CASE StartRun
  <2>1. OneHand /\ AckOrderAlive
    BY <1>5 DEF StartRun, Alive
  <2>2. /\ pc = "start" /\ cur \in RunId /\ UNCHANGED <<acked, ahead>>
        /\ runs' = [runs EXCEPT ![cur] = WithStatus(@, "Running")]
    BY <1>5, <2>1 DEF StartRun, OneHand, Base, InHand, history
  <2>3. \A r \in RunId \ {cur} : runs'[r] = runs[r]
    BY <2>2 DEF Base, TypeOK
  <2>4. runs[cur].status = "Queued" /\ runs'[cur].status = "Running"
    BY <2>1, <2>2 DEF OneHand, Base, TypeOK, WithStatus
  <2>5. \A q \in RunId : runs[q].status \in Terminal => q # cur
    BY <2>4, TerminalIsNeither
  <2>6. \A q \in ahead[cur] : runs[q].status \in Terminal
    BY <2>1, <2>2 DEF AckOrderAlive, Served
  <2>7. ServedInAckOrder'
    <3>. SUFFICES ASSUME NEW r \in RunId, runs'[r].status \notin {"Absent", "Queued"},
                         NEW q \in ahead[r]
                  PROVE  runs'[q].status \in Terminal
      BY <2>2 DEF ServedInAckOrder
    <3>1. q \in RunId /\ runs[q].status \in Terminal
      BY <2>3, <2>6, AckFacts DEF AckOrder, ServedInAckOrder
    <3>. QED  BY <2>3, <2>5, <3>1
  <2>. QED  BY <2>2, <2>3, <2>4, <2>7, AckFacts DEF AckOrder
<1>6. CASE CompleteRun
  <2>1. /\ cur \in RunId /\ runs[cur].status = "Running" /\ verdict \in Terminal
        /\ UNCHANGED <<acked, ahead>>
        /\ runs' = [runs EXCEPT ![cur] = WithStatus(@, verdict)]
    BY <1>6 DEF CompleteRun, Base, InHand, Working, PC, history
  <2>2. \A r \in RunId \ {cur} : runs'[r] = runs[r]
    BY <2>1 DEF Base, TypeOK
  <2>3. runs'[cur].status \in Terminal
    BY <2>1 DEF Base, TypeOK, WithStatus
  <2>4. ServedInAckOrder'
    <3>. SUFFICES ASSUME NEW r \in RunId, runs'[r].status \notin {"Absent", "Queued"},
                         NEW q \in ahead[r]
                  PROVE  runs'[q].status \in Terminal
      BY <2>1 DEF ServedInAckOrder
    <3>1. q \in RunId /\ runs[q].status \in Terminal
      BY <2>1, <2>2, AckFacts DEF AckOrder, ServedInAckOrder
    <3>. QED  BY <2>2, <2>3, <3>1
  <2>. QED  BY <2>1, <2>2, <2>3, <2>4, AckFacts, TerminalIsNeither DEF AckOrder
<1>. QED  BY <1>1, <1>2, <1>3, <1>4, <1>5, <1>6, Steps

\* The order in the channel, one kind of step at a time.
LEMMA AckAliveStill ==
    ASSUME Base, AckOrder, AckOrderAlive, Quiet \/ StopAccepting \/ Boot, Alive, Alive'
    PROVE  AckOrderAlive'
<1>1. CASE Quiet
  BY <1>1 DEF Quiet, AckOrderAlive, InQueue, Served, Working
<1>2. CASE Boot
  BY <1>2 DEF Boot, Goto, Alive, table, history, AckOrderAlive, InQueue, Served
<1>3. CASE StopAccepting
  <2>1. /\ queue' = Append(queue, Shutdown)
        /\ UNCHANGED <<runs, pc, cur, acked, ahead>>
    BY <1>3 DEF StopAccepting, Alive, Gone, table, processor
  <2>2. /\ DOMAIN queue = 1..Len(queue) /\ DOMAIN queue' = 1..(Len(queue) + 1)
        /\ \A i \in 1..Len(queue) : queue'[i] = queue[i]
        /\ queue'[Len(queue) + 1] \notin RunId /\ Len(queue) \in Nat
    BY <2>1, QueueFacts, AppendFacts DEF Base
  <2>3. ASSUME NEW q, InQueue(q) PROVE InQueue(q)'
    BY <2>2, <2>3 DEF InQueue
  <2>4. ASSUME NEW i \in DOMAIN queue', queue'[i] \in RunId, NEW q \in ahead[queue'[i]]
        PROVE  Served(q) \/ q = cur \/ \E j \in 1..(i - 1) : queue'[j] = q
    <3>1. i \in DOMAIN queue /\ queue'[i] = queue[i] /\ 1..(i - 1) \subseteq 1..Len(queue)
      BY <2>2, <2>4
    <3>. QED  BY <2>2, <2>4, <3>1 DEF AckOrderAlive
  <2>. QED  BY <2>1, <2>3, <2>4 DEF AckOrderAlive, Served
<1>. QED  BY <1>1, <1>2, <1>3

LEMMA AckAliveQueue ==
    ASSUME Base, AckOrder, OneHand, AckOrderAlive, NEW h \in Conn, QueueRun(h)
    PROVE  AckOrderAlive'
<1>. DEFINE n == nextRunId
<1>1. /\ n \in RunId /\ runs[n].status = "Absent"
      /\ UNCHANGED <<queue, pc, cur, acked>>
      /\ \A r \in RunId \ {n} : runs'[r] = runs[r] /\ ahead'[r] = ahead[r]
  BY BoundAssumption DEF QueueRun, Base, InHand, TypeOK, RunId, processor
<1>2. ASSUME NEW q \in acked PROVE q \in RunId /\ (Served(q) => Served(q)')
  BY <1>1, <1>2, AckFacts DEF Served
<1>3. \A q : InQueue(q) => InQueue(q)'
  BY <1>1 DEF InQueue
<1>4. ASSUME NEW i \in DOMAIN queue, queue[i] \in RunId, NEW q \in ahead'[queue[i]]
      PROVE  Served(q)' \/ q = cur \/ \E j \in 1..(i - 1) : queue[j] = q
  <2>1. queue[i] # n
    BY <1>1, <1>4 DEF OneHand
  <2>2. q \in ahead[queue[i]] /\ q \in acked
    BY <1>1, <1>4, <2>1 DEF AckOrder
  <2>. QED  BY <1>2, <1>4, <2>2 DEF AckOrderAlive
<1>5. ASSUME pc = "start", NEW q \in ahead'[cur] PROVE Served(q)'
  <2>1. cur \in RunId /\ cur # n
    BY <1>1, <1>5 DEF OneHand, Base, InHand
  <2>2. q \in ahead[cur] /\ q \in acked
    BY <1>1, <1>5, <2>1 DEF AckOrder
  <2>. QED  BY <1>2, <1>5, <2>2 DEF AckOrderAlive
<1>6. \A q \in acked : Served(q)' \/ q = cur \/ InQueue(q)'
  BY <1>2, <1>3 DEF AckOrderAlive
<1>. QED  BY <1>1, <1>4, <1>5, <1>6 DEF AckOrderAlive

LEMMA AckAliveSend ==
    ASSUME Base, AckOrder, AckOrderAlive, Alive, NEW h \in Conn, SendRun(h)
    PROVE  AckOrderAlive'
<1>. DEFINE n == conn[h].run
<1>1. /\ n \in RunId /\ queue' = Append(queue, n) /\ acked' = acked \cup {n}
      /\ UNCHANGED <<runs, pc, cur, ahead>>
  BY QueueFacts DEF SendRun, Alive, Gone, Base, processor, table
<1>2. /\ DOMAIN queue = 1..Len(queue) /\ DOMAIN queue' = 1..(Len(queue) + 1)
      /\ \A i \in 1..Len(queue) : queue'[i] = queue[i]
      /\ queue'[Len(queue) + 1] = n /\ Len(queue) \in Nat
  BY <1>1, QueueFacts, AppendFacts DEF Base
<1>3. \A q : InQueue(q) \/ q = n => InQueue(q)'
  BY <1>2 DEF InQueue
<1>4. ASSUME NEW i \in DOMAIN queue', queue'[i] \in RunId, NEW q \in ahead[queue'[i]]
      PROVE  Served(q) \/ q = cur \/ \E j \in 1..(i - 1) : queue'[j] = q
  <2>1. CASE i \in 1..Len(queue)
    <3>1. queue'[i] = queue[i] /\ 1..(i - 1) \subseteq 1..Len(queue)
      BY <1>2, <2>1
    <3>. QED  BY <1>2, <1>4, <2>1, <3>1 DEF AckOrderAlive
  <2>2. CASE i = Len(queue) + 1
    <3>1. q \in acked /\ 1..(i - 1) = DOMAIN queue
      BY <1>1, <1>2, <1>4, <2>2 DEF AckOrder
    <3>. QED  BY <1>2, <3>1 DEF AckOrderAlive, InQueue
  <2>. QED  BY <1>2, <2>1, <2>2
<1>. QED  BY <1>1, <1>3, <1>4 DEF AckOrderAlive, Served

LEMMA AckAliveReceive ==
    ASSUME Base, AckOrder, AckOrderAlive, Receive, Alive'
    PROVE  AckOrderAlive'
<1>. DEFINE n == Head(queue)
<1>1. /\ pc = "recv" /\ queue # <<>> /\ n # Shutdown
      /\ cur' = n /\ queue' = Tail(queue)
      /\ UNCHANGED <<runs, acked, ahead>>
  BY DEF Receive, Goto, Alive, table, history
<1>2. /\ Len(queue) >= 1 /\ n = queue[1] /\ n \in RunId
      /\ DOMAIN queue' = 1..(Len(queue) - 1)
      /\ \A i \in 1..(Len(queue) - 1) : queue'[i] = queue[i + 1]
      /\ DOMAIN queue = 1..Len(queue) /\ Len(queue) \in Nat
  BY <1>1, TailFacts, QueueFacts DEF Base
<1>3. cur \notin RunId
  BY <1>1, QueueFacts DEF Base, InHand
<1>4. ASSUME NEW q \in acked PROVE Served(q) \/ q = n \/ InQueue(q)'
  <2>1. Served(q) \/ InQueue(q)
    BY <1>3, AckFacts DEF AckOrderAlive
  <2>2. CASE InQueue(q) /\ q # n
    <3>1. PICK i \in DOMAIN queue : queue[i] = q
      BY <2>2 DEF InQueue
    <3>2. i - 1 \in DOMAIN queue' /\ queue'[i - 1] = q
      BY <1>2, <2>2, <3>1
    <3>. QED  BY <3>2 DEF InQueue
  <2>. QED  BY <2>1, <2>2
<1>5. ASSUME NEW i \in DOMAIN queue', queue'[i] \in RunId, NEW q \in ahead[queue'[i]]
      PROVE  Served(q) \/ q = n \/ \E j \in 1..(i - 1) : queue'[j] = q
  <2>1. i + 1 \in DOMAIN queue /\ queue'[i] = queue[i + 1]
    BY <1>2, <1>5
  <2>2. q # cur
    BY <1>3, <1>5, AckFacts
  <2>3. Served(q) \/ \E j \in 1..i : queue[j] = q
    <3>1. Served(q) \/ \E j \in 1..((i + 1) - 1) : queue[j] = q
      BY <1>5, <2>1, <2>2 DEF AckOrderAlive
    <3>. QED  BY <1>2, <3>1
  <2>4. ASSUME NEW j \in 1..i, queue[j] = q, q # n
        PROVE  j - 1 \in 1..(i - 1) /\ queue'[j - 1] = q
    BY <1>2, <2>4
  <2>. QED  BY <2>3, <2>4
<1>6. \A q \in ahead[n] : Served(q)
  <2>1. \A q \in ahead[queue[1]] : Served(q) \/ q = cur \/ \E j \in 1..(1 - 1) : queue[j] = q
    BY <1>2 DEF AckOrderAlive
  <2>. QED  BY <1>2, <1>3, <2>1, AckFacts
<1>. QED  BY <1>1, <1>4, <1>5, <1>6 DEF AckOrderAlive, Served

LEMMA AckAliveProcess ==
    ASSUME Base, Base', [Next]_vars, AckOrder, OneHand, AckOrderAlive, Alive',
           StartRun \/ CompleteRun \/ NotifyAll
    PROVE  AckOrderAlive'
<1>1. /\ UNCHANGED <<queue, acked, ahead>> /\ pc' # "start"
      /\ cur' = cur \/ (Served(cur) /\ UNCHANGED runs)
  BY DEF StartRun, CompleteRun, NotifyAll, Goto, OneHand, history, table
<1>2. daemon' # "down"
  BY DEF Base, DownBlank, Alive
<1>3. \A q \in RunId : Served(q) => Served(q)'
  BY <1>2, FinalNext DEF Served
<1>. QED  BY <1>1, <1>3, AckFacts DEF AckOrderAlive, InQueue, Served

LEMMA AckAliveNext ==
    ASSUME Base, Base', AckOrder, Alive => OneHand /\ AckOrderAlive, [Next]_vars, Alive'
    PROVE  AckOrderAlive'
<1>1. CASE Start
  BY <1>1 DEF Start, Blank, AckOrderAlive
<1>2. CASE Exit
  BY <1>2 DEF Exit, Alive
<1>3. CASE Quiet \/ StopAccepting \/ Boot
  <2>1. Alive
    BY <1>3 DEF Quiet, StopAccepting, Boot, Alive, Working, PC, processor
  <2>. QED  BY <1>3, <2>1, AckAliveStill
<1>4. ASSUME NEW h \in Conn, QueueRun(h) \/ SendRun(h) PROVE AckOrderAlive'
  <2>1. Alive
    BY <1>4 DEF QueueRun, SendRun, Alive, processor
  <2>. QED  BY <1>4, <2>1, AckAliveQueue, AckAliveSend
<1>5. CASE Receive \/ StartRun \/ CompleteRun \/ NotifyAll
  <2>1. Alive
    BY <1>5 DEF Receive, StartRun, CompleteRun, NotifyAll, Alive
  <2>. QED  BY <1>5, <2>1, AckAliveReceive, AckAliveProcess
<1>. QED  BY <1>1, <1>2, <1>3, <1>4, <1>5, Steps

-----------------------------------------------------------------------------
(***************************************************************************)
(* Draining.                                                               *)
(***************************************************************************)
LEMMA DrainStop ==
    Base /\ Drain /\ (Alive => AckOrderAlive) /\ StopAccepting => Drain'
<1> SUFFICES ASSUME Base, Drain, Alive => AckOrderAlive, StopAccepting PROVE Drain'
  OBVIOUS
<1>1. /\ daemon = "serving" /\ daemon' = "draining" /\ UNCHANGED <<runs, pc, cur>>
      /\ owed' = acked /\ pc # "dead" /\ pc # "down"
  BY DEF StopAccepting, table, processor, Drain, Base, DownBlank
<1>2. CASE pc = "noVCS"
  BY <1>1, <1>2 DEF Drain, Alive
<1>3. CASE pc # "noVCS"
  <2>1. queue' = Append(queue, Shutdown) /\ AckOrderAlive
    BY <1>1, <1>3 DEF StopAccepting, Alive, Gone
  <2>2. /\ DOMAIN queue = 1..Len(queue) /\ DOMAIN queue' = 1..(Len(queue) + 1)
        /\ \A i \in 1..Len(queue) : queue'[i] = queue[i]
        /\ Len(queue) \in Nat
    BY <2>1, QueueFacts, AppendFacts DEF Base
  <2>3. \A i \in DOMAIN queue : queue[i] # Shutdown
    BY <1>1 DEF Drain, InQueue
  <2>4. ASSUME NEW r \in owed', r # cur, ~Served(r)
        PROVE  \E i \in DOMAIN queue' : queue'[i] = r /\ \A j \in 1..i : queue'[j] # Shutdown
    <3>1. PICK i \in DOMAIN queue : queue[i] = r
      BY <1>1, <2>1, <2>4 DEF AckOrderAlive, InQueue
    <3>2. 1..i \subseteq 1..Len(queue)
      BY <2>2, <3>1
    <3>. QED  BY <2>2, <2>3, <3>1, <3>2
  <2>. QED  BY <1>1, <2>4 DEF Drain, Served
<1>. QED  BY <1>2, <1>3

LEMMA DrainSend ==
    ASSUME Base, Drain, NEW h \in Conn, SendRun(h)
    PROVE  Drain'
<1>1. UNCHANGED <<daemon, runs, pc, cur, owed>>
  BY DEF SendRun, table, processor
<1>2. CASE pc \in Gone
  BY <1>1, <1>2 DEF SendRun, Drain, Alive, InQueue, Served, Gone
<1>3. CASE pc \notin Gone
  <2>1. queue' = Append(queue, conn[h].run) /\ conn[h].run \in RunId
    BY <1>3, QueueFacts DEF SendRun, Base
  <2>2. /\ DOMAIN queue = 1..Len(queue) /\ DOMAIN queue' = 1..(Len(queue) + 1)
        /\ \A i \in 1..Len(queue) : queue'[i] = queue[i]
        /\ queue'[Len(queue) + 1] # Shutdown /\ Len(queue) \in Nat
    BY <2>1, QueueFacts, AppendFacts DEF Base
  <2>3. InQueue(Shutdown)' => InQueue(Shutdown)
    BY <2>2 DEF InQueue, Shutdown
  <2>4. ASSUME NEW r, NEW i \in DOMAIN queue, queue[i] = r,
               \A j \in 1..i : queue[j] # Shutdown
        PROVE  i \in DOMAIN queue' /\ queue'[i] = r /\ \A j \in 1..i : queue'[j] # Shutdown
    <3>1. 1..i \subseteq 1..Len(queue)
      BY <2>2
    <3>. QED  BY <2>2, <2>4, <3>1
  <2>. QED  BY <1>1, <1>3, <2>3, <2>4 DEF Drain, Alive, Served
<1>. QED  BY <1>2, <1>3

LEMMA DrainReceive == Base /\ Drain /\ Receive => Drain'
<1> SUFFICES ASSUME Base, Drain, Receive PROVE Drain'
  OBVIOUS
<1>. DEFINE n == Head(queue)
<1>1. /\ pc = "recv" /\ queue # <<>> /\ UNCHANGED <<daemon, runs, owed>>
      /\ cur \notin RunId /\ owed \subseteq RunId
  BY QueueFacts DEF Receive, table, history, Base, InHand, TypeOK
<1>2. ASSUME NEW r \in owed
      PROVE  Served(r) \/
             \E i \in DOMAIN queue : queue[i] = r /\ \A j \in 1..i : queue[j] # Shutdown
  BY <1>1 DEF Drain, Alive
<1>3. DOMAIN queue = 1..Len(queue) /\ Len(queue) \in Nat
  BY QueueFacts DEF Base
<1>4. CASE n = Shutdown
  <2>1. pc' = "dead" /\ queue' = <<>> /\ queue[1] = Shutdown
    BY <1>1, <1>4 DEF Receive, Goto, Base, TypeOK
  <2>3. daemon = "draining"
    BY <1>1, <1>3, <2>1, QueueFacts DEF Drain, InQueue, Base
  <2>2. \A r \in owed : Served(r)
    BY <1>2, <1>3, <2>1
  <2>. QED  BY <1>1, <2>1, <2>2, <2>3 DEF Drain, Alive, Served
<1>5. CASE n # Shutdown
  <2>1. pc' = "start" /\ cur' = n /\ queue' = Tail(queue)
    BY <1>5 DEF Receive
  <2>2. /\ Len(queue) >= 1 /\ n = queue[1]
        /\ DOMAIN queue' = 1..(Len(queue) - 1)
        /\ \A i \in 1..(Len(queue) - 1) : queue'[i] = queue[i + 1]
    BY <1>1, <2>1, TailFacts DEF Base
  <2>3. ASSUME NEW r, r # n, NEW i \in DOMAIN queue, queue[i] = r,
               \A j \in 1..i : queue[j] # Shutdown
        PROVE  \E k \in DOMAIN queue' :
                  queue'[k] = r /\ \A j \in 1..k : queue'[j] # Shutdown
    <3>1. i - 1 \in DOMAIN queue' /\ queue'[i - 1] = r
      BY <1>3, <2>2, <2>3
    <3>2. ASSUME NEW j \in 1..(i - 1) PROVE queue'[j] # Shutdown
      <4>1. j + 1 \in 1..i /\ queue'[j] = queue[j + 1]
        BY <1>3, <2>2, <2>3
      <4>. QED  BY <2>3, <4>1
    <3>. QED  BY <3>1, <3>2
  <2>4. InQueue(Shutdown)' => InQueue(Shutdown)
    BY <1>3, <2>2 DEF InQueue, Shutdown
  <2>5. \A r \in owed' : Served(r)' \/ r = cur' \/
           \E i \in DOMAIN queue' : queue'[i] = r /\ \A j \in 1..i : queue'[j] # Shutdown
    BY <1>1, <1>2, <2>1, <2>3 DEF Served
  <2>. QED  BY <1>1, <2>1, <2>4, <2>5 DEF Drain
<1>. QED  BY <1>4, <1>5

LEMMA DrainNext ==
    ASSUME Base, Base', Alive => OneHand /\ AckOrderAlive, Drain, [Next]_vars
    PROVE  Drain'
<1>1. CASE Start \/ Exit
  BY <1>1 DEF Start, Exit, Blank, Drain, InQueue
<1>2. CASE Quiet
  BY <1>2 DEF Quiet, Drain, Alive, InQueue, Served, Working, PC
<1>3. CASE StopAccepting
  BY <1>3, DrainStop
<1>4. ASSUME NEW h \in Conn, QueueRun(h) PROVE Drain'
  <2>1. UNCHANGED <<daemon, pc, cur, queue, owed>> /\ daemon # "down"
    BY <1>4 DEF QueueRun, processor, Base, DownBlank
  <2>2. \A r \in owed : Served(r) => Served(r)'
    BY <2>1, FinalNext DEF Base, TypeOK, Served
  <2>. QED  BY <2>1, <2>2 DEF Drain, Alive, InQueue
<1>5. ASSUME NEW h \in Conn, SendRun(h) PROVE Drain'
  BY <1>5, DrainSend
<1>6. CASE Boot
  BY <1>6 DEF Boot, Goto, Drain, Alive, InQueue, Served, table, history
<1>7. CASE Receive
  BY <1>7, DrainReceive
<1>8. CASE StartRun \/ CompleteRun \/ NotifyAll
  <2>1. OneHand
    BY <1>8 DEF StartRun, CompleteRun, NotifyAll, Alive
  <2>2. /\ UNCHANGED <<daemon, queue, owed>>
        /\ cur' = cur \/ (Served(cur) /\ UNCHANGED runs)
        /\ pc' \notin Gone /\ Alive /\ daemon # "down"
    BY <1>8, <2>1
    DEF StartRun, CompleteRun, NotifyAll, Goto, OneHand, history, table, Alive, Gone,
        Base, DownBlank
  <2>3. \A r \in owed : Served(r) => Served(r)'
    BY <2>2, FinalNext DEF Base, DownBlank, TypeOK, Served
  <2>. QED  BY <2>2, <2>3 DEF Drain, Gone, InQueue
<1>. QED  BY <1>1, <1>2, <1>3, <1>4, <1>5, <1>6, <1>7, <1>8, Steps

-----------------------------------------------------------------------------
(***************************************************************************)
(* What the queue owes its clients.                                        *)
(***************************************************************************)
LEMMA ServiceInvariant == Spec => []Service
<1>1. Init => Service
  <2> SUFFICES ASSUME Init PROVE Service
    OBVIOUS
  <2>1. Base
    BY TypeInit, InHandInit DEF Base, DownBlank, Init, Absent, Idle
  <2>2. ~Alive /\ AckOrder /\ Drain
    BY DEF Init, Alive, AckOrder, ServedInAckOrder, Drain, InQueue
  <2>. QED  BY <2>1, <2>2 DEF Service
<1>2. Service /\ [Next]_vars => Service'
  <2> SUFFICES ASSUME Service, [Next]_vars PROVE Service'
    OBVIOUS
  <2>1. Base'
    BY TypeNext, InHandNext, DownBlankNext DEF Service, Base
  <2>2. Alive' => OneHand'
    BY OneHandNext DEF Service
  <2>3. Alive' => AckOrderAlive'
    BY <2>1, AckAliveNext DEF Service
  <2>4. AckOrder'
    BY AckOrderNext DEF Service
  <2>5. Drain'
    BY <2>1, DrainNext DEF Service
  <2>. QED  BY <2>1, <2>2, <2>3, <2>4, <2>5 DEF Service
<1>. QED  BY <1>1, <1>2, PTL DEF Spec

\* Holders, one kind of hands at a time.
LEMMA OneHolderOf ==
    ASSUME Base, Alive, OneHand, NEW r \in RunId
    PROVE  Cardinality(Holders(r)) =
              (IF runs[r].status \in {"Queued", "Running"} THEN 1 ELSE 0)
<1>. DEFINE Q == { <<"queue", i>> : i \in { j \in DOMAIN queue : queue[j] = r } }
            H == { <<"handler", h>> : h \in { g \in Conn :
                       conn[g].at = "sending" /\ conn[g].run = r } }
            P == { <<"processor", p>> : p \in { q \in {pc} : cur = r /\ q # "notify" } }
<1>1. Holders(r) = Q \cup H \cup P
  BY DEF Holders
<1>2. /\ cur = r /\ pc # "notify" <=>
            runs[r].status = "Running" \/ (r = cur /\ pc = "start")
      /\ pc = "start" => runs[cur].status = "Queued"
  BY QueueFacts DEF Base, InHand, TypeOK, Alive, Working, OneHand
<1>3. CASE InQueue(r)
  <2>1. PICK i \in DOMAIN queue : queue[i] = r
    BY <1>3 DEF InQueue
  <2>2. /\ runs[r].status = "Queued" /\ r # cur /\ ~Sending(r)
        /\ \A j \in DOMAIN queue : queue[j] = r => j = i
    BY <2>1 DEF OneHand
  <2>3. Q = {<<"queue", i>>} /\ H = {} /\ P = {}
    BY <2>1, <2>2 DEF Sending
  <2>. QED  BY <1>1, <2>2, <2>3, FS_Singleton
<1>4. CASE ~InQueue(r) /\ Sending(r)
  <2>1. PICK h \in Conn : conn[h].at = "sending" /\ conn[h].run = r
    BY <1>4 DEF Sending
  <2>2. /\ runs[r].status = "Queued" /\ r # cur
        /\ \A g \in Conn : conn[g].at = "sending" /\ conn[g].run = r => g = h
    BY <2>1 DEF OneHand
  <2>3. Q = {} /\ H = {<<"handler", h>>} /\ P = {}
    BY <1>4, <2>1, <2>2 DEF InQueue
  <2>. QED  BY <1>1, <2>2, <2>3, FS_Singleton
<1>5. CASE ~InQueue(r) /\ ~Sending(r)
  <2>1. Q = {} /\ H = {}
    BY <1>5 DEF InQueue, Sending
  <2>2. CASE cur = r /\ pc # "notify"
    <3>1. P = {<<"processor", pc>>}
      BY <2>2
    <3>2. runs[r].status \in {"Queued", "Running"}
      BY <1>2, <2>2
    <3>. QED  BY <1>1, <2>1, <3>1, <3>2, FS_Singleton
  <2>3. CASE ~(cur = r /\ pc # "notify")
    <3>1. P = {}
      BY <2>3
    <3>2. runs[r].status \notin {"Queued", "Running"}
      BY <1>2, <1>5, <2>3 DEF OneHand
    <3>. QED  BY <1>1, <2>1, <3>1, <3>2, FS_EmptySet
  <2>. QED  BY <2>2, <2>3
<1>. QED  BY <1>3, <1>4, <1>5

(***************************************************************************)
(* As long as there is a processor, every run without a result is in       *)
(* exactly one pair of hands and a finished run is in nobody's             *)
(* (queue_run, send, recv, start_run).                                     *)
(***************************************************************************)
THEOREM OneHolderHolds == Spec => []OneHolder
<1>1. Service => OneHolder
  BY OneHolderOf DEF Service, OneHolder, Alive, Gone
<1>. QED  BY <1>1, ServiceInvariant, PTL

(***************************************************************************)
(* When a run has started, every run acknowledged before it was queued has *)
(* its result (the channel is first in, first out, and a handler answers   *)
(* only after its send).                                                   *)
(***************************************************************************)
THEOREM AckOrderHolds == Spec => []ServedInAckOrder
<1>1. Service => ServedInAckOrder
  BY DEF Service, AckOrder
<1>. QED  BY <1>1, ServiceInvariant, PTL

(***************************************************************************)
(* When the processor of a draining daemon has left its loop, each run     *)
(* whose submission was acknowledged before the shutdown marker was sent   *)
(* has its result (process_queue, StopAccepting).  A processor that found  *)
(* no VCS at its start never enters the loop, and of it nothing is said.   *)
(***************************************************************************)
THEOREM ShutdownDrains == Spec => []DrainedBeforeExit
<1>1. Service => DrainedBeforeExit
  BY DEF Service, Drain, Served, DrainedBeforeExit
<1>. QED  BY <1>1, ServiceInvariant, PTL

-----------------------------------------------------------------------------
(***************************************************************************)
(* Nobody waits in vain.  A handler that sleeps was told its run has no    *)
(* result, and whoever gives it one has yet to notify.  A daemon that      *)
(* drains has its marker in the channel until the processor takes it.      *)
(***************************************************************************)
Awaits ==
    \A h \in Conn : conn[h].at = "parked" =>
        \/ runs[conn[h].run].status \in {"Queued", "Running"}
        \/ pc = "notify" /\ conn[h].run = cur

Marked == daemon = "draining" => pc \in Gone \/ InQueue(Shutdown)

\* What the other steps do to a handler that sleeps, and to its run.
LEMMA AwaitsHandler ==
    ASSUME Base, Awaits, NEW h \in Conn, Handle(h)
    PROVE  Awaits'
<1>0. conn \in [Conn -> Handler] /\ UNCHANGED <<pc, cur>>
  BY DEF Base, TypeOK, Handle, Accept, RefuseCandidate, QueueRun, SendRun, WaitForRun,
         RecheckRun, processor
<1>1. ASSUME NEW f, conn' = [conn EXCEPT ![h] = f], f.at # "parked",
             \A r \in RunId : runs'[r] = runs[r] \/ runs'[r].status = "Queued"
      PROVE  Awaits'
  <2> SUFFICES ASSUME NEW g \in Conn, conn'[g].at = "parked"
               PROVE  \/ runs'[conn'[g].run].status \in {"Queued", "Running"}
                      \/ pc' = "notify" /\ conn'[g].run = cur'
    BY DEF Awaits
  <2>1. g # h /\ conn'[g] = conn[g]
    BY <1>0, <1>1
  <2>2. conn[g].run \in RunId
    BY <1>0, <2>1 DEF Handler, NoRun
  <2>. QED  BY <1>0, <1>1, <2>1, <2>2 DEF Awaits
<1>2. ASSUME NEW r \in RunId, CheckRun(h, r), UNCHANGED runs
      PROVE  Awaits'
  BY <1>0, <1>2 DEF CheckRun, Awaits
<1>3. CASE Accept(h) \/ RefuseCandidate(h) \/ SendRun(h)
  BY <1>1, <1>3 DEF Accept, RefuseCandidate, SendRun, At, Answered, table
<1>4. CASE QueueRun(h)
  <2>1. nextRunId \in RunId
    BY <1>4 DEF QueueRun, Base, TypeOK, RunId, BoundAssumption
  <2>2. \A r \in RunId : runs'[r] = runs[r] \/ runs'[r].status = "Queued"
    BY <1>4, <2>1 DEF QueueRun, Base, TypeOK
  <2>3. [at |-> "sending", run |-> nextRunId, reply |-> "none"].at # "parked"
    OBVIOUS
  <2>4. conn' = [conn EXCEPT ![h] = [at |-> "sending", run |-> nextRunId, reply |-> "none"]]
    BY <1>4 DEF QueueRun
  <2>. QED  BY ONLY <1>1, <2>2, <2>3, <2>4
<1>5. CASE WaitForRun(h)
  BY <1>2, <1>5 DEF WaitForRun, table
<1>6. CASE RecheckRun(h)
  <2>1. conn[h].run \in RunId
    BY <1>0, <1>6 DEF RecheckRun, Handler, NoRun
  <2>. QED  BY <1>2, <1>6, <2>1 DEF RecheckRun, table
<1>. QED  BY <1>3, <1>4, <1>5, <1>6 DEF Handle

LEMMA AwaitsNext ==
    ASSUME Base, Awaits, [Next]_vars
    PROVE  Awaits'
<1>0. \A h \in Conn : conn[h].at = "parked" => conn[h].run \in RunId
  BY DEF Base, TypeOK, Handler, NoRun
<1>1. CASE Start
  BY <1>1 DEF Start, Awaits, Base, DownBlank
<1>2. CASE Kill \/ FinishDraining
  BY <1>2 DEF Kill, FinishDraining, Exit, Answered, Awaits
<1>3. CASE \E h \in Conn : Handle(h)
  BY <1>3, AwaitsHandler
<1>4. CASE \/ RequestShutdown \/ StopAccepting \/ MoveBase \/ UNCHANGED vars
  BY <1>4 DEF RequestShutdown, StopAccepting, MoveBase, vars, Awaits, table, processor
<1>5. CASE Boot \/ Receive
  BY <1>5 DEF Boot, Receive, Goto, Awaits, table
<1>6. CASE InsideRun
  <2>1. UNCHANGED <<runs, conn>> /\ pc # "notify"
    BY <1>6
    DEF InsideRun, PreClone, ResolveBase, CreateTestMerge, CheckCandidate, PreMerge,
        GitPublish, JjSelect, JjMove, JjVerify, PostMerge, Goto, Conclude, table
  <2>. QED  BY <2>1 DEF Awaits
<1>7. CASE StartRun
  <2>1. /\ UNCHANGED conn /\ pc # "notify"
        /\ \A r \in RunId : runs'[r] = runs[r] \/ runs'[r].status = "Running"
    BY <1>7 DEF StartRun, WithStatus, Base, TypeOK
  <2>. QED  BY <1>0, <2>1 DEF Awaits
<1>8. CASE CompleteRun
  <2>1. /\ UNCHANGED <<conn, cur>> /\ pc = "complete" /\ pc' = "notify"
        /\ \A r \in RunId : r # cur => runs'[r] = runs[r]
    BY <1>8 DEF CompleteRun, Goto, Base, TypeOK
  <2>. QED  BY <1>0, <2>1 DEF Awaits
<1>9. CASE NotifyAll
  BY <1>9 DEF NotifyAll, At, Awaits, Base, TypeOK
<1>. QED
  BY <1>1, <1>2, <1>3, <1>4, <1>5, <1>6, <1>7, <1>8, <1>9
  DEF Next, ProcessQueue, InsideRun

LEMMA MarkedNext ==
    ASSUME Base, Marked, [Next]_vars
    PROVE  Marked'
<1>0. Len(queue) \in Nat /\ DOMAIN queue = 1..Len(queue)
  BY QueueFacts DEF Base
<1>1. CASE Start \/ Exit
  BY <1>1 DEF Start, Exit, Marked
<1>2. CASE Quiet
  BY <1>2 DEF Quiet, Marked, InQueue, Working, PC, Gone
<1>3. CASE StopAccepting
  <2>1. CASE pc \in Gone
    BY <1>3, <2>1 DEF StopAccepting, Marked, processor
  <2>2. CASE pc \notin Gone
    BY <1>0, <1>3, <2>2, AppendFacts DEF StopAccepting, Marked, Base, InQueue
  <2>. QED  BY <2>1, <2>2
<1>4. ASSUME NEW h \in Conn, QueueRun(h) \/ SendRun(h) PROVE Marked'
  <2>1. /\ UNCHANGED <<daemon, pc>>
        /\ queue' = queue \/ queue' = Append(queue, conn[h].run)
    BY <1>4 DEF QueueRun, SendRun, processor
  <2>2. conn[h].at = "sending" => conn[h].run \in RunId
    BY QueueFacts DEF Base
  <2>3. ASSUME InQueue(Shutdown) PROVE InQueue(Shutdown)'
    BY <1>0, <1>4, <2>1, <2>2, <2>3, AppendFacts DEF QueueRun, SendRun, Base, InQueue
  <2>. QED  BY <2>1, <2>3 DEF Marked
<1>5. CASE Boot
  BY <1>5 DEF Boot, Goto, Marked, InQueue, Gone
<1>6. CASE Receive
  <2>1. CASE Head(queue) = Shutdown
    BY <1>6, <2>1 DEF Receive, Goto, Marked, Gone
  <2>2. CASE Head(queue) # Shutdown
    <3>1. /\ UNCHANGED daemon /\ pc = "recv" /\ queue # <<>> /\ queue' = Tail(queue)
      BY <1>6, <2>2 DEF Receive
    <3>2. ASSUME NEW i \in DOMAIN queue, queue[i] = Shutdown
          PROVE  i - 1 \in DOMAIN queue' /\ queue'[i - 1] = Shutdown
      BY <1>0, <2>2, <3>1, <3>2, TailFacts DEF Base
    <3>. QED  BY <3>1, <3>2 DEF Marked, InQueue, Gone
  <2>. QED  BY <2>1, <2>2
<1>7. CASE StartRun \/ CompleteRun \/ NotifyAll
  BY <1>7 DEF StartRun, CompleteRun, NotifyAll, Goto, Marked, InQueue, Gone
<1>. QED  BY <1>1, <1>2, <1>3, <1>4, <1>5, <1>6, <1>7, Steps

(***************************************************************************)
(* Whenever a handler came to wait and however the processor completes and *)
(* notifies in between: as long as there is a processor, the run a handler *)
(* sleeps for is yet to be sent, in the channel, or in the processor's     *)
(* hands until it has notified.  No wake-up is lost between a result and   *)
(* the sleep (handle_request for WaitForRun, complete_run).                *)
(***************************************************************************)
THEOREM WaitersAwaited ==
    Spec => [](Alive => \A h \in Conn : conn[h].at = "parked" =>
                  LET r == conn[h].run IN InQueue(r) \/ Sending(r) \/ cur = r)
<1>1. Init => Awaits
  BY DEF Init, Awaits, Idle
<1>2. Service /\ Awaits /\ [Next]_vars => Awaits'
  BY AwaitsNext DEF Service
<1>3. Service /\ Awaits =>
         (Alive => \A h \in Conn : conn[h].at = "parked" =>
             LET r == conn[h].run IN InQueue(r) \/ Sending(r) \/ cur = r)
  <2> SUFFICES ASSUME Service, Awaits, Alive, NEW h \in Conn, conn[h].at = "parked",
                      conn[h].run # cur
               PROVE  InQueue(conn[h].run) \/ Sending(conn[h].run)
    OBVIOUS
  <2>1. conn[h].run \in RunId
    BY DEF Service, Base, TypeOK, Handler, NoRun
  <2>2. runs[conn[h].run].status = "Queued"
    BY <2>1 DEF Service, Base, InHand, Awaits
  <2>. QED  BY <2>1, <2>2 DEF Service, OneHand
<1>. QED  BY <1>1, <1>2, <1>3, ServiceInvariant, PTL DEF Spec

(***************************************************************************)
(* A daemon that drains never waits for a processor that waits for it: the *)
(* marker is in the channel until the processor takes it, whatever late    *)
(* handlers still send (the loop after accept, QueueMessage::Shutdown).    *)
(***************************************************************************)
THEOREM DrainingIsMarked ==
    Spec => [](daemon = "draining" => pc \in Gone \/ InQueue(Shutdown))
<1>1. Init => Marked
  BY DEF Init, Marked
<1>2. Base /\ Marked /\ [Next]_vars => Marked'
  BY MarkedNext
<1>3. Marked => (daemon = "draining" => pc \in Gone \/ InQueue(Shutdown))
  BY DEF Marked
<1>. QED  BY <1>1, <1>2, <1>3, BaseInvariant, PTL DEF Spec
=============================================================================
