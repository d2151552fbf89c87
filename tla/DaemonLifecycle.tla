-------------------------- MODULE DaemonLifecycle --------------------------
(***************************************************************************)
(* How daemon processes of one project come and go (src/cmd/mq.rs,         *)
(* src/cmd/process_exit.rs): the commands that start one, add to one       *)
(* (starting it if need be) or stop one, each a process of its own that    *)
(* looks daemons up in the runtime directories, talks to their sockets and *)
(* removes what dead ones left; and the daemons from the binding of the    *)
(* socket to the process exit.  What a daemon does while it serves is      *)
(* MergeQueue's matter.                                                    *)
(*                                                                         *)
(* A daemon is named after the command that launched it, and so is its     *)
(* PID.  Starting in the foreground is the same sequence without the fork. *)
(***************************************************************************)
CONSTANTS
    Starter,        \* mq start commands
    Adder,          \* mq add commands
    Stopper,        \* mq stop commands
    Dir,            \* runtime directories
    DirFor,         \* the directory each launched daemon uses
    Environment,    \* the environments they may find
    None            \* no daemon, no directory, no PID

Launcher == Starter \cup Adder
Command == Launcher \cup Stopper

ASSUME KindAssumption ==
    /\ Starter \cap Adder = {} /\ Launcher \cap Stopper = {}
ASSUME DirAssumption ==
    /\ DirFor \in [Launcher -> Dir]
    /\ Dir # {}
\* The commands people give; SELFCI_MQ_RUNTIME_DIR is set, to one directory for
\* everybody; others send SIGTERM to daemons; a dead daemon's PID may come to
\* name some process.
ASSUME EnvironmentAssumption ==
    /\ Environment \subseteq
          [given : SUBSET Command, explicit : BOOLEAN, signals : BOOLEAN,
           pidReuse : BOOLEAN]
    /\ \A e \in Environment : e.explicit => \A d1, d2 \in Dir : d1 = d2
ASSUME NoneAssumption == None \notin Command \cup Dir

Name == {"sock", "root", "pid"}     \* mq.sock, mq.dir, mq.pid

\* Where a command can be, and how it can end.
Place ==
    { "idle", "scan", "read", "connect", "hello", "inspect", "launch", "fork",
      "send", "sent", "ticket", "arm", "stale", "ask", "asked", "waiting", "overdue",
      "kill", "confirm", "revalidate", "list", "unlink" }
Success == {"launched", "already", "added", "waited", "stopped", "absent"}
Failure == {"failed", "unreachable", "notRunning"}

VARIABLES
    environment,    \* what outside they share, once and for all
    files,      \* the three files of each runtime directory
    daemon,     \* each daemon process
    told,       \* daemons with a handler that acknowledged Shutdown
    flag,       \* the shutdown AtomicBool
    wake,       \* the connection that wakes the accept loop is in the backlog
    pc,         \* each command's place
    seeking,    \* what its look-up is for
    todo,       \* the directories its scan has yet to visit
    fallback,   \* the first match of the scan that did not verify
    at,         \* the directory it is dealing with
    pid,        \* the PID it read there
    peer,       \* the daemon its connection is queued at
    ticket,     \* the daemon that added its candidate and told it the run's ID
    doomed,     \* the names its recursive removal has yet to unlink
    reused,     \* dead daemons' PIDs that name some other process now
    \* history, read by properties only
    before      \* which daemons served, and which had died, when it began

lookup == <<seeking, todo, fallback, at, pid>>
talk == <<peer, ticket>>
client == <<pc, lookup, talk>>
process == <<daemon, told, flag, wake>>
rest == <<environment, doomed, reused, before>>
vars == <<files, process, client, rest>>

Empty == [sock |-> None, root |-> FALSE, pid |-> None]

Alive(p) == daemon[p] \notin {"none", "gone"}
Serving(p) == daemon[p] = "serving" /\ ~flag[p]
PidExists(p) == Alive(p) \/ p \in reused
Present(d) == { n \in Name : files[d][n] # Empty[n] }

TypeOK ==
    /\ environment \in Environment
    /\ files \in [Dir -> [sock : Launcher \cup {None}, root : BOOLEAN,
                          pid : Launcher \cup {None}]]
    /\ daemon \in [Launcher -> { "none", "bound", "forked", "hooking", "serving",
                                 "draining", "cleaning", "killed", "gone" }]
    /\ told \in SUBSET Launcher
    /\ flag \in [Launcher -> BOOLEAN]
    /\ wake \in [Launcher -> BOOLEAN]
    /\ pc \in [Command -> Place \cup Success \cup Failure]
    /\ seeking \in [Command -> {"target", "running", "recheck", "identity", "again"}]
    /\ todo \in [Command -> SUBSET Dir]
    /\ fallback \in [Command -> Dir \cup {None}]
    /\ at \in [Command -> Dir \cup {None}]
    /\ pid \in [Command -> Launcher \cup {None}]
    /\ \A c \in Command :
          pc[c] \in {"connect", "hello", "arm", "stale", "kill", "revalidate",
                    "list"}
              => pid[c] # None
    /\ peer \in [Command -> Launcher \cup {None}]
    /\ ticket \in [Command -> Launcher \cup {None}]
    /\ doomed \in [Command -> SUBSET Name]
    /\ reused \in SUBSET Launcher
    /\ before \in [Command -> [serving : SUBSET Launcher, gone : SUBSET Launcher]]

Init ==
    /\ environment \in Environment
    /\ files = [d \in Dir |-> Empty]
    /\ daemon = [p \in Launcher |-> "none"]
    /\ told = {}
    /\ flag = [p \in Launcher |-> FALSE]
    /\ wake = [p \in Launcher |-> FALSE]
    /\ pc = [c \in Command |-> "idle"]
    /\ seeking = [c \in Command |-> IF c \in Starter THEN "running" ELSE "target"]
    /\ todo = [c \in Command |-> {}]
    /\ fallback = [c \in Command |-> None]
    /\ at = [c \in Command |-> None]
    /\ pid = [c \in Command |-> None]
    /\ peer = [c \in Command |-> None]
    /\ ticket = [c \in Command |-> None]
    /\ doomed = [c \in Command |-> {}]
    /\ reused = {}
    /\ before = [c \in Command |-> [serving |-> {}, gone |-> {}]]

Go(c, place) == pc' = [pc EXCEPT ![c] = place]
Seek(c, goal) == seeking' = [seeking EXCEPT ![c] = goal]
Become(p, state) == daemon' = [daemon EXCEPT ![p] = state]

-----------------------------------------------------------------------------
(* Looking a daemon up (get_project_daemon_runtime_dir), with the identity *)
(* check of verified_daemon_pid: read mq.pid, say Hello over mq.sock, and  *)
(* compare.  Hello waits for as long as the listener is open and nobody    *)
(* accepts.                                                                *)

\* What the command does with the directory it looked for ...
Found(c, d) ==
    /\ at' = [at EXCEPT ![c] = d]
    /\ \/ seeking[c] = "running" /\ Seek(c, "recheck") /\ Go(c, "read")
       \/ seeking[c] = "target" /\ c \in Stopper /\ Seek(c, "identity") /\ Go(c, "read")
       \/ /\ seeking[c] = "again" \/ (seeking[c] = "target" /\ c \in Adder)
          /\ UNCHANGED seeking
          /\ Go(c, "send")

\* ... and without one.  mq add tries to start a daemon, which looks again.
NotFound(c) ==
    /\ \/ seeking[c] = "running" /\ UNCHANGED <<seeking, todo>> /\ Go(c, "launch")
       \/ seeking[c] = "again" /\ UNCHANGED <<seeking, todo>> /\ Go(c, "notRunning")
       \/ /\ seeking[c] = "target" /\ c \in Stopper
          /\ UNCHANGED <<seeking, todo>>
          /\ Go(c, "absent")
       \/ /\ seeking[c] = "target" /\ c \in Adder
          /\ Seek(c, "running")
          /\ todo' = [todo EXCEPT ![c] = Dir]
          /\ Go(c, "scan")
    /\ UNCHANGED at

\* The explicit directory is taken as it is, initialised or not.
Begin(c) ==
    /\ pc[c] = "idle"
    /\ c \in environment.given
    /\ before' = [before EXCEPT ![c] =
                     [serving |-> { p \in Launcher : Serving(p) },
                      gone    |-> { p \in Launcher : daemon[p] = "gone" }]]
    /\ IF environment.explicit
       THEN /\ \E d \in Dir : Found(c, d)
            /\ UNCHANGED todo
       ELSE /\ Go(c, "scan")
            /\ todo' = [todo EXCEPT ![c] = Dir]
            /\ UNCHANGED <<seeking, at>>
    /\ UNCHANGED <<files, process, fallback, pid, talk, environment, doomed, reused>>

\* Mutant: the first directory of the project is the only one looked at.
VisitFirst(c) ==
    /\ pc[c] = "scan"
    /\ \E d \in todo[c] :
          IF files[d].root
          THEN /\ at' = [at EXCEPT ![c] = d]
               /\ Go(c, "read")
               /\ todo' = [todo EXCEPT ![c] = {}]
          ELSE /\ todo' = [todo EXCEPT ![c] = @ \ {d}]
               /\ UNCHANGED <<at, pc>>
    /\ UNCHANGED <<files, process, seeking, fallback, pid, talk, rest>>

\* The entries of the root runtime directory come in no particular order;
\* those without mq.dir are skipped.
Visit(c) ==
    /\ pc[c] = "scan"
    /\ \E d \in todo[c] :
          /\ todo' = [todo EXCEPT ![c] = @ \ {d}]
          /\ IF files[d].root
             THEN at' = [at EXCEPT ![c] = d] /\ Go(c, "read")
             ELSE UNCHANGED <<at, pc>>
    /\ UNCHANGED <<files, process, seeking, fallback, pid, talk, rest>>

EndScan(c) ==
    /\ pc[c] = "scan"
    /\ todo[c] = {}
    /\ fallback' = [fallback EXCEPT ![c] = None]
    /\ IF fallback[c] = None
       THEN NotFound(c)
       ELSE Found(c, fallback[c]) /\ UNCHANGED todo
    /\ UNCHANGED <<files, process, pid, talk, rest>>

\* The directory has no identity that checks out.
Unverified(c) ==
    /\ \/ /\ seeking[c] \in {"target", "running", "again"}
          /\ fallback' = [fallback EXCEPT ![c] = IF @ = None THEN at[c] ELSE @]
          /\ Go(c, "scan")
       \/ /\ seeking[c] = "recheck"
          /\ Go(c, IF environment.explicit THEN "inspect" ELSE "launch")
          /\ UNCHANGED fallback
       \/ seeking[c] = "identity" /\ Go(c, "failed") /\ UNCHANGED fallback
    /\ UNCHANGED <<seeking, at>>

\* A command that adds takes "already running" for its own failure to start.
Verified(c) ==
    \/ seeking[c] \in {"target", "running", "again"} /\ Found(c, at[c])
    \/ /\ seeking[c] = "recheck"
       /\ Go(c, IF c \in Starter THEN "already" ELSE "notRunning")
       /\ UNCHANGED <<seeking, at>>
    \/ seeking[c] = "identity" /\ Go(c, "arm") /\ UNCHANGED <<seeking, at>>

\* Mutant: a missing mq.pid is not noticed.
ReadAnyPid(c) ==
    /\ pc[c] = "read"
    /\ pid' = [pid EXCEPT ![c] = files[at[c]].pid]
    /\ Go(c, "connect")
    /\ UNCHANGED <<files, process, seeking, todo, fallback, at, talk, rest>>

ReadPid(c) ==
    /\ pc[c] = "read"
    /\ IF files[at[c]].pid # None
       THEN /\ pid' = [pid EXCEPT ![c] = files[at[c]].pid]
            /\ Go(c, "connect")
            /\ UNCHANGED <<seeking, at, fallback>>
       ELSE Unverified(c) /\ UNCHANGED pid
    /\ UNCHANGED <<files, process, todo, talk, rest>>

\* There is a socket and its listener is open, whether or not it is served.
Reach(c, place) ==
    LET p == files[at[c]].sock IN
    /\ p # None
    /\ Alive(p)
    /\ peer' = [peer EXCEPT ![c] = p]
    /\ Go(c, place)

Reachable(d) == files[d].sock # None /\ Alive(files[d].sock)

\* Dropped by the accept that saw the flag, or closed by the process exit.
Lost(c) == peer[c] # None => daemon[peer[c]] = "gone"

\* Mutant: a PID that names some process is taken for a daemon.
NoAnswerButPid(c) ==
    IF PidExists(pid[c]) THEN Verified(c) /\ UNCHANGED fallback ELSE Unverified(c)

\* Nobody answered: the stop client goes on to ask whether the PID lives.
NoAnswer(c) ==
    IF seeking[c] = "identity"
    THEN Go(c, "stale") /\ UNCHANGED <<seeking, at, fallback>>
    ELSE Unverified(c)

Connect(c) ==
    /\ pc[c] = "connect"
    /\ \/ Reach(c, "hello") /\ UNCHANGED <<seeking, at, fallback>>
       \/ ~Reachable(at[c]) /\ NoAnswer(c) /\ UNCHANGED peer
    /\ UNCHANGED <<files, process, todo, pid, ticket, rest>>

Hello(c) ==
    /\ pc[c] = "hello"
    /\ \/ /\ ~Lost(c)
          /\ Serving(peer[c])
          /\ IF peer[c] = pid[c]
             THEN Verified(c) /\ UNCHANGED fallback
             ELSE Unverified(c)
       \/ Lost(c) /\ NoAnswer(c)
    /\ peer' = [peer EXCEPT ![c] = None]
    /\ UNCHANGED <<files, process, todo, pid, ticket, rest>>

\* Without an answer, anything in the explicit directory is an error.
Inspect(c) ==
    /\ pc[c] = "inspect"
    /\ Go(c, IF Present(at[c]) # {} THEN "failed" ELSE "launch")
    /\ UNCHANGED <<files, process, lookup, talk, rest>>

-----------------------------------------------------------------------------
(* Starting (start_daemon_common, daemonize_background).                   *)

\* Mutant: a socket file that is there is removed before binding.
LaunchOverSocket(c) ==
    /\ pc[c] = "launch"
    /\ files' = [files EXCEPT ![DirFor[c]].sock = c]
    /\ Become(c, "bound")
    /\ Go(c, "fork")
    /\ UNCHANGED <<told, flag, wake, lookup, talk, rest>>

\* The pre-start hook, then the bind, which a socket file that is there fails.
Launch(c) ==
    /\ pc[c] = "launch"
    /\ \/ /\ files[DirFor[c]].sock = None
          /\ files' = [files EXCEPT ![DirFor[c]].sock = c]
          /\ Become(c, "bound")
          /\ Go(c, "fork")
       \/ /\ Go(c, "failed")
          /\ UNCHANGED <<files, daemon>>
    /\ UNCHANGED <<told, flag, wake, lookup, talk, rest>>

\* mq.dir, then the fork: the parent is done, the child goes on as daemon.
\* A failing fork removes the directory before the launcher exits.
Fork(c) ==
    /\ pc[c] = "fork"
    /\ files' = [files EXCEPT ![DirFor[c]].root = TRUE]
    /\ \/ /\ Become(c, "forked")
          /\ Go(c, IF c \in Starter THEN "launched" ELSE "send")
          /\ at' = [at EXCEPT ![c] = DirFor[c]]
          /\ UNCHANGED doomed
       \/ /\ Become(c, "cleaning")
          /\ Go(c, "failed")
          /\ doomed' = [doomed EXCEPT ![c] = Present(DirFor[c]) \cup {"root"}]
          /\ UNCHANGED at
    /\ UNCHANGED <<told, flag, wake, seeking, todo, fallback, pid, talk, environment, reused, before>>

-----------------------------------------------------------------------------
(* The daemon process (daemonize_background's child, run_daemon_loop).     *)

WritePid(p) ==
    /\ daemon[p] = "forked"
    /\ files' = [files EXCEPT ![DirFor[p]].pid = p]
    /\ Become(p, "hooking")
    /\ UNCHANGED <<told, flag, wake, client, rest>>

\* The post-start hook succeeded: accept.
Serve(p) ==
    /\ daemon[p] = "hooking"
    /\ Become(p, "serving")
    /\ UNCHANGED <<files, told, flag, wake, client, rest>>

\* Mutant: the flag is stored and nobody connects.
RaiseFlagOnly(p) ==
    /\ flag' = [flag EXCEPT ![p] = TRUE]
    /\ UNCHANGED wake

\* Store the flag and connect to the daemon's own socket path.
RaiseFlag(p) ==
    /\ flag' = [flag EXCEPT ![p] = TRUE]
    /\ wake' = [wake EXCEPT ![p] = @ \/ files[DirFor[p]].sock = p]

\* The handler, after it wrote the acknowledgement.
HandlerStops(p) ==
    /\ daemon[p] = "serving"
    /\ p \in told
    /\ told' = told \ {p}
    /\ RaiseFlag(p)
    /\ UNCHANGED <<files, daemon, client, rest>>

SignalStops(p) ==
    /\ environment.signals
    /\ Serving(p)
    /\ RaiseFlag(p)
    /\ UNCHANGED <<files, daemon, told, client, rest>>

\* Mutant: the guard removes the directory before the processor is joined.
CleanBeforeJoin(p) ==
    /\ daemon[p] = "serving"
    /\ flag[p]
    /\ wake[p]
    /\ Become(p, "draining")
    /\ doomed' = [doomed EXCEPT ![p] = Present(DirFor[p])]
    /\ UNCHANGED <<files, told, flag, wake, client, environment, reused, before>>

\* The accept that returns with the flag set; what it accepted is dropped.
LeaveLoop(p) ==
    /\ daemon[p] = "serving"
    /\ flag[p]
    /\ \/ wake[p] /\ UNCHANGED peer
       \/ \E c \in Command : peer[c] = p /\ peer' = [peer EXCEPT ![c] = None]
    /\ Become(p, "draining")
    /\ UNCHANGED <<files, told, flag, wake, pc, lookup, ticket, rest>>

\* The processor has been joined; the guard removes the whole directory while
\* the listener is still open.
FinishDraining(p) ==
    /\ daemon[p] = "draining"
    /\ Become(p, "cleaning")
    /\ doomed' = [doomed EXCEPT ![p] = Present(DirFor[p])]
    /\ UNCHANGED <<files, told, flag, wake, client, environment, reused, before>>

\* A recursive removal unlinks the names it listed, one by one, whosever they
\* are by then; what was created since makes its final rmdir fail.
Unlink(c) ==
    /\ \E n \in doomed[c] :
          /\ doomed' = [doomed EXCEPT ![c] = @ \ {n}]
          /\ LET d == IF c \in Launcher THEN DirFor[c] ELSE at[c] IN
                files' = [files EXCEPT ![d][n] = Empty[n]]
    /\ UNCHANGED <<process, client, environment, reused, before>>

Exit(p) ==
    /\ daemon[p] = "cleaning"
    /\ doomed[p] = {}
    /\ Become(p, "gone")
    /\ UNCHANGED <<files, told, flag, wake, client, rest>>

\* Any end without cleanup: killed from outside, SIGTERM before it is handled,
\* the log file or the post-start hook failing, mq.dir or mq.pid unwritable.
Die(p) ==
    /\ Alive(p)
    /\ Become(p, "gone")
    /\ doomed' = [doomed EXCEPT ![p] = {}]
    /\ pc' = IF daemon[p] = "bound" THEN [pc EXCEPT ![p] = "failed"] ELSE pc
    /\ UNCHANGED <<files, told, flag, wake, lookup, talk, environment, reused, before>>

ReusePid(p) ==
    /\ environment.pidReuse
    /\ daemon[p] = "gone"
    /\ reused' = reused \cup {p}
    /\ UNCHANGED <<files, process, client, environment, doomed, before>>

-----------------------------------------------------------------------------
(* Adding a candidate (add_candidate).                                     *)

Send(c) ==
    /\ pc[c] = "send"
    /\ \/ Reach(c, "sent")
       \/ ~Reachable(at[c]) /\ Go(c, "unreachable") /\ UNCHANGED peer
    /\ UNCHANGED <<files, process, lookup, ticket, rest>>

\* CandidateAdded, or an error the daemon answered, or no answer.
Added(c) ==
    /\ pc[c] = "sent"
    /\ seeking[c] # "again"
    /\ \/ /\ ~Lost(c) /\ Serving(peer[c])
          /\ \/ Go(c, "ticket") /\ ticket' = [ticket EXCEPT ![c] = peer[c]]
             \/ Go(c, "failed") /\ UNCHANGED ticket
       \/ Lost(c) /\ Go(c, "unreachable") /\ UNCHANGED ticket
    /\ peer' = [peer EXCEPT ![c] = None]
    /\ UNCHANGED <<files, process, lookup, rest>>

\* Without --wait that is all; with it the daemon is looked up again.
Wait(c) ==
    /\ pc[c] = "ticket"
    /\ \/ Go(c, "added") /\ UNCHANGED <<seeking, todo, at>>
       \/ /\ Seek(c, "again")
          /\ IF environment.explicit
             THEN Go(c, "send") /\ UNCHANGED <<todo, at>>
             ELSE /\ Go(c, "scan")
                  /\ todo' = [todo EXCEPT ![c] = Dir]
                  /\ UNCHANGED at
    /\ UNCHANGED <<files, process, fallback, pid, talk, rest>>

\* The answer to WaitForRun, which knows the run by its ID only: a daemon that
\* did not add this candidate may have given the same number to another.
Waited(c) ==
    /\ pc[c] = "sent"
    /\ seeking[c] = "again"
    /\ \/ /\ ~Lost(c) /\ Serving(peer[c])
          /\ Go(c, "waited") \/ (peer[c] # ticket[c] /\ Go(c, "failed"))
       \/ Lost(c) /\ Go(c, "unreachable")
    /\ peer' = [peer EXCEPT ![c] = None]
    /\ UNCHANGED <<files, process, lookup, ticket, rest>>

-----------------------------------------------------------------------------
(* Stopping (stop_daemon).                                                 *)

\* The watcher is armed on whatever process has the PID.
Arm(c) ==
    /\ pc[c] = "arm"
    /\ Go(c, IF PidExists(pid[c]) THEN "ask" ELSE "revalidate")
    /\ UNCHANGED <<files, process, lookup, talk, rest>>

\* Mutant: no answer is taken for no process.
StaleUnwatched(c) ==
    /\ pc[c] = "stale"
    /\ Go(c, "revalidate")
    /\ UNCHANGED <<files, process, lookup, talk, rest>>

\* Nobody answered Hello: only if the PID names no process either is the
\* directory stale.
Stale(c) ==
    /\ pc[c] = "stale"
    /\ Go(c, IF PidExists(pid[c]) THEN "failed" ELSE "revalidate")
    /\ UNCHANGED <<files, process, lookup, talk, rest>>

Ask(c) ==
    /\ pc[c] = "ask"
    /\ \/ Reach(c, "asked")
       \/ ~Reachable(at[c]) /\ Go(c, "failed") /\ UNCHANGED peer
    /\ UNCHANGED <<files, process, lookup, ticket, rest>>

\* The Shutdown request: a daemon with another PID refuses it.
Asked(c) ==
    /\ pc[c] = "asked"
    /\ \/ /\ ~Lost(c)
          /\ Serving(peer[c])
          /\ IF peer[c] = pid[c]
             THEN told' = told \cup {pid[c]} /\ Go(c, "waiting")
             ELSE Go(c, "failed") /\ UNCHANGED told
       \/ Lost(c) /\ Go(c, "failed") /\ UNCHANGED told
    /\ peer' = [peer EXCEPT ![c] = None]
    /\ UNCHANGED <<files, daemon, flag, wake, lookup, ticket, rest>>

\* Mutant: at the deadline the client keeps waiting.
AwaitExitOnly(c) ==
    /\ pc[c] = "waiting"
    /\ daemon[pid[c]] = "gone"
    /\ Go(c, "stopped")
    /\ UNCHANGED <<files, process, lookup, talk, rest>>

\* The grace period: the exit, or the deadline at some time before it.
AwaitExit(c) ==
    /\ pc[c] = "waiting"
    /\ Go(c, IF daemon[pid[c]] = "gone" THEN "stopped" ELSE "overdue")
    /\ UNCHANGED <<files, process, lookup, talk, rest>>

\* One more look through the watcher.
Recheck(c) ==
    /\ pc[c] = "overdue"
    /\ Go(c, IF daemon[pid[c]] = "gone" THEN "stopped" ELSE "kill")
    /\ UNCHANGED <<files, process, lookup, talk, rest>>

\* SIGKILL goes to the number, whoever has it.
Kill(c) ==
    /\ pc[c] = "kill"
    /\ Go(c, "confirm")
    /\ IF Alive(pid[c])
       THEN /\ Become(pid[c], "killed")
            /\ doomed' = [doomed EXCEPT ![pid[c]] = {}]
       ELSE UNCHANGED <<daemon, doomed>>
    /\ UNCHANGED <<files, told, flag, wake, lookup, talk, environment, reused, before>>

\* The kernel is done with a killed process.
Reap(p) ==
    /\ daemon[p] = "killed"
    /\ Become(p, "gone")
    /\ UNCHANGED <<files, told, flag, wake, client, rest>>

\* Mutant: a signal that was sent counts as an exit.
ConfirmUnseen(c) ==
    /\ pc[c] = "confirm"
    /\ Go(c, "revalidate")
    /\ UNCHANGED <<files, process, lookup, talk, rest>>

\* The exit is observed, or the second deadline passes.
Confirm(c) ==
    /\ pc[c] = "confirm"
    /\ Go(c, IF daemon[pid[c]] = "gone" THEN "revalidate" ELSE "failed")
    /\ UNCHANGED <<files, process, lookup, talk, rest>>

\* remove_daemon_dir_if_pid: read mq.pid again ...
Revalidate(c) ==
    /\ pc[c] = "revalidate"
    /\ Go(c, IF files[at[c]].pid = pid[c] THEN "list" ELSE "stopped")
    /\ UNCHANGED <<files, process, lookup, talk, rest>>

\* ... and remove the directory, whatever is in it by then.
List(c) ==
    /\ pc[c] = "list"
    /\ doomed' = [doomed EXCEPT ![c] = Present(at[c])]
    /\ Go(c, "unlink")
    /\ UNCHANGED <<files, process, lookup, talk, environment, reused, before>>

Removed(c) ==
    /\ pc[c] = "unlink"
    /\ doomed[c] = {}
    /\ Go(c, "stopped")
    /\ UNCHANGED <<files, process, lookup, talk, rest>>

-----------------------------------------------------------------------------
LookUp(c) ==
    Visit(c) \/ EndScan(c) \/ ReadPid(c) \/ Connect(c) \/ Hello(c) \/ Inspect(c)

Act(c) ==
    \/ LookUp(c)
    \/ c \in Launcher /\ (Launch(c) \/ Fork(c))
    \/ c \in Adder /\ (Send(c) \/ Added(c) \/ Wait(c) \/ Waited(c))
    \/ c \in Stopper /\ ( \/ Arm(c) \/ Stale(c) \/ Ask(c) \/ Asked(c) \/ AwaitExit(c)
                          \/ Recheck(c) \/ Kill(c) \/ Confirm(c) \/ Revalidate(c)
                          \/ List(c) \/ Removed(c) )

Run(p) ==
    \/ WritePid(p) \/ Serve(p) \/ HandlerStops(p) \/ LeaveLoop(p) \/ Exit(p) \/ Reap(p)

Next ==
    \/ \E c \in Command : Begin(c) \/ Act(c) \/ Unlink(c)
    \/ \E p \in Launcher :
          Run(p) \/ SignalStops(p) \/ FinishDraining(p) \/ Die(p) \/ ReusePid(p)

Spec == Init /\ [][Next]_vars

(***************************************************************************)
(* Processes that can run do; a post-start hook ends, and so does a        *)
(* removal.  Nothing obliges a daemon to finish draining: a job may hang.  *)
(***************************************************************************)
Fairness ==
    /\ \A c \in Command : WF_vars(Act(c)) /\ WF_vars(Unlink(c))
    /\ \A p \in Launcher : WF_vars(Run(p))

FairSpec == Spec /\ Fairness

-----------------------------------------------------------------------------
(* What the commands and the daemons promise.                              *)

(***************************************************************************)
(* A directory that a crashed daemon left, or one whose daemon is coming   *)
(* or going, never masks a live one: when a scan ends without a verified   *)
(* daemon, no daemon has been serving all the while since the command      *)
(* began (get_project_daemon_runtime_dir).                                 *)
(***************************************************************************)
LiveNotMasked ==
    \A c \in Command :
        pc[c] = "scan" /\ todo[c] = {} => \A p \in before[c].serving : ~Serving(p)

(***************************************************************************)
(* mq start calls a daemon already running only if that very process has   *)
(* lived while the command ran, whatever files a dead one left and         *)
(* whoever has its PID (check_daemon_already_running).                     *)
(***************************************************************************)
AlreadyRunningIsTrue ==
    \A c \in Starter : pc[c] = "already" => pid[c] \notin before[c].gone

(***************************************************************************)
(* mq stop succeeds, and removes a directory, only after the exit of the   *)
(* daemon recorded there; it finds nothing to stop only if no daemon has   *)
(* been serving since it began (stop_daemon).                              *)
(***************************************************************************)
StopMeansGone ==
    \A c \in Stopper :
        /\ pc[c] \in {"list", "unlink", "stopped"} => daemon[pid[c]] = "gone"
        /\ pc[c] = "absent" => \A p \in before[c].serving : ~Serving(p)

(***************************************************************************)
(* With a directory of its own, a daemon keeps its socket, PID and project *)
(* file from the moment they are written until its own clean-up, however   *)
(* many commands look, start and stop meanwhile (remove_daemon_dir_if_pid).*)
(***************************************************************************)
RuntimeKept ==
    \A p \in Launcher : daemon[p] \in {"hooking", "serving", "draining"} =>
        files[DirFor[p]] = [sock |-> p, root |-> TRUE, pid |-> p]

\* The stage of a daemon as a holder of its directory.
Stage(p) ==
    CASE daemon[p] = "none" -> "new"
      [] daemon[p] \in {"bound", "forked", "hooking"} -> "starting"
      [] daemon[p] \in {"serving", "draining"} -> "working"
      [] daemon[p] = "cleaning" -> "leaving"
      [] OTHER -> "dead"

Lease == INSTANCE RuntimeLease WITH
    Process <- Launcher, Place <- Dir, PlaceOf <- DirFor, Nobody <- None,
    holder <- [d \in Dir |-> files[d].sock],
    stage <- [p \in Launcher |-> Stage(p)]

(***************************************************************************)
(* A socket file is the lease of its directory: bound only where there is  *)
(* none, unlinked by its own daemon when that has finished its queue, or   *)
(* by others when it is dead.                                              *)
(***************************************************************************)
ImplementsLease == Lease!Spec

(***************************************************************************)
(* Two daemons never process candidates out of one directory, however many *)
(* launchers passed the check that none is running: the bind decides       *)
(* (daemonize_background).                                                 *)
(***************************************************************************)
OneServingPerDirectory == Lease!Exclusive

(***************************************************************************)
(* mq add --wait asks for its run by number, at a daemon it looks up anew. *)
(* In one directory it is answered, with a result or with an error, by the *)
(* daemon that added its candidate, unless that one has ended: not by a    *)
(* successor while the first still processes its queue (wait_for_run_id).  *)
(***************************************************************************)
WaitsForOwnRun ==
    [][ \A c \in Adder :
          pc[c] = "sent" /\ seeking[c] = "again" /\ pc'[c] \in {"waited", "failed"} =>
              peer[c] = ticket[c] \/ daemon[ticket[c]] \notin {"serving", "draining"}
      ]_vars

(***************************************************************************)
(* mq start and mq stop end, within the stop's deadlines, although daemons *)
(* may never finish draining: unless others than the commands told them to.*)
(***************************************************************************)
CommandsEnd ==
    ~environment.signals =>
        \A c \in Starter \cup Stopper : pc[c] # "idle" ~> pc[c] \in Success \cup Failure

(***************************************************************************)
(* A daemon told to stop leaves its accept loop, also when no client ever  *)
(* connects again.                                                         *)
(***************************************************************************)
ShutdownWakes ==
    \A p \in Launcher : flag[p] ~> daemon[p] # "serving"
=============================================================================
