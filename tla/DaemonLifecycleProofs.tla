----------------------- MODULE DaemonLifecycleProofs -----------------------
(***************************************************************************)
(* What holds of the commands and daemons of a project for any number of   *)
(* them, in every environment: the types, what commands remember of the    *)
(* past, which daemon the files and PIDs they handle are about, who holds  *)
(* a directory, and what a scan can no longer miss, each built on those    *)
(* before it.                                                              *)
(***************************************************************************)
EXTENDS DaemonLifecycle, TLAPS

\* Where a command deals with a directory, and where with a PID it read there.
AtDir == { "read", "connect", "hello", "inspect", "send", "sent", "ticket", "arm",
           "stale", "ask", "asked", "waiting", "overdue", "kill", "confirm",
           "revalidate", "list", "unlink" }
WithPid == { "connect", "hello", "arm", "stale", "ask", "asked", "waiting", "overdue",
             "kill", "confirm", "revalidate", "list", "unlink" }
Anywhere == Place \cup Success \cup Failure
Goal == {"target", "running", "recheck", "identity", "again"}

\* The types by the part of the state an action changes, and what they leave
\* open: a command that deals with a directory or a PID has one.
LookUpTypes ==
    /\ seeking \in [Command -> Goal]
    /\ todo \in [Command -> SUBSET Dir]
    /\ fallback \in [Command -> Dir \cup {None}]
    /\ at \in [Command -> Dir \cup {None}]
    /\ pid \in [Command -> Launcher \cup {None}]
TalkTypes ==
    /\ peer \in [Command -> Launcher \cup {None}]
    /\ ticket \in [Command -> Launcher \cup {None}]
FileTypes ==
    files \in [Dir -> [sock : Launcher \cup {None}, root : BOOLEAN,
                       pid : Launcher \cup {None}]]
ProcessTypes ==
    /\ daemon \in [Launcher -> { "none", "bound", "forked", "hooking", "serving",
                                 "draining", "cleaning", "killed", "gone" }]
    /\ told \in SUBSET Launcher
    /\ flag \in [Launcher -> BOOLEAN]
    /\ wake \in [Launcher -> BOOLEAN]
RestTypes ==
    /\ environment \in Environment
    /\ doomed \in [Command -> SUBSET Name]
    /\ reused \in SUBSET Launcher
    /\ before \in [Command -> [serving : SUBSET Launcher, gone : SUBSET Launcher]]
PlaceTypes ==
    /\ pc \in [Command -> Anywhere]
    /\ \A c \in Command :
          /\ pc[c] \in AtDir => at[c] \in Dir
          /\ pc[c] \in WithPid => pid[c] \in Launcher
    /\ \A c \in Stopper : doomed[c] # {} => pc[c] = "unlink"

Types ==
    LookUpTypes /\ TalkTypes /\ FileTypes /\ ProcessTypes /\ RestTypes /\ PlaceTypes

LEMMA TypesSuffice == Types => TypeOK
BY NoneAssumption
DEF Types, LookUpTypes, TalkTypes, FileTypes, ProcessTypes, RestTypes, PlaceTypes,
    TypeOK, WithPid, Anywhere, Goal, Command

LEMMA InitTypes == Init => Types
BY DirAssumption
DEF Init, Types, LookUpTypes, TalkTypes, FileTypes, ProcessTypes, RestTypes, PlaceTypes,
    Anywhere, Goal, AtDir, WithPid, Empty, Place, Command

USE DEF Go, Seek, Become

\* A command's step to another place, with what it deals with there.
LEMMA GoTypes ==
    ASSUME PlaceTypes, NEW c \in Command, NEW place \in Anywhere, Go(c, place),
           LookUpTypes, LookUpTypes',
           \A b \in Command \ {c} : at'[b] = at[b] /\ pid'[b] = pid[b],
           place \in AtDir => at'[c] \in Dir,
           place \in WithPid => pid'[c] \in Launcher,
           c \in Stopper => doomed[c] = {} \/ place = "unlink",
           \A b \in Command \ {c} : doomed'[b] = doomed[b],
           c \in Stopper => doomed'[c] = {} \/ place = "unlink"
    PROVE  PlaceTypes'
<1>1. pc \in [Command -> Anywhere]
  BY DEF PlaceTypes
<1>2. pc' \in [Command -> Anywhere]
  BY <1>1
<1>3. \A b \in Command : pc'[b] = IF b = c THEN place ELSE pc[b]
  BY <1>1
<1>4. Stopper \subseteq Command
  BY DEF Command
<1> QED
  BY <1>2, <1>3, <1>4 DEF PlaceTypes

USE DEF lookup, talk, client, process, rest

\* A step of a command that changes only its place and its look-up ...
LEMMA LookUpKeepsTypes ==
    ASSUME Types, NEW c \in Command, NEW place \in Anywhere, Go(c, place),
           LookUpTypes', TalkTypes',
           \A b \in Command \ {c} : at'[b] = at[b] /\ pid'[b] = pid[b],
           place \in AtDir => at'[c] \in Dir,
           place \in WithPid => pid'[c] \in Launcher,
           c \in Stopper => pc[c] # "unlink",
           UNCHANGED <<files, process, environment, doomed, reused>>,
           before' \in [Command -> [serving : SUBSET Launcher, gone : SUBSET Launcher]]
    PROVE  Types'
<1>1. PlaceTypes'
  BY GoTypes DEF Types, PlaceTypes
<1> QED
  BY <1>1 DEF Types, FileTypes, ProcessTypes, RestTypes

\* ... or only its place.
LEMMA GoKeepsTypes ==
    ASSUME Types, NEW c \in Command, NEW place \in Anywhere, Go(c, place),
           place \in AtDir => pc[c] \in AtDir,
           place \in WithPid => pc[c] \in WithPid,
           c \in Stopper => pc[c] # "unlink",
           UNCHANGED <<files, process, lookup, talk, rest>>
    PROVE  Types'
<1>1. LookUpTypes' /\ TalkTypes'
  BY DEF Types, LookUpTypes, TalkTypes
<1>2. /\ place \in AtDir => at'[c] \in Dir
      /\ place \in WithPid => pid'[c] \in Launcher
  BY DEF Types, PlaceTypes
<1> QED
  BY <1>1, <1>2, LookUpKeepsTypes DEF Types, RestTypes

LEMMA LookUpTypesKept ==
    ASSUME Types, NEW c \in Command, Begin(c) \/ LookUp(c)
    PROVE  Types'
<1> USE DEF AtDir, WithPid, Anywhere, Place, Success, Failure
<1>0. /\ LookUpTypes /\ TalkTypes
      /\ before \in [Command -> [serving : SUBSET Launcher, gone : SUBSET Launcher]]
      /\ pc[c] \in AtDir => at[c] \in Dir
      /\ pc[c] \in WithPid => pid[c] \in Launcher
  BY DEF Types, RestTypes, PlaceTypes
<1>1. CASE Begin(c)
  <2>1. /\ TalkTypes'
        /\ before' \in [Command -> [serving : SUBSET Launcher, gone : SUBSET Launcher]]
    BY <1>0, <1>1 DEF Begin, TalkTypes
  <2>2. CASE environment.explicit
    <3>1. PICK d \in Dir : Found(c, d)
      BY <1>1, <2>2 DEF Begin
    <3>2. LookUpTypes'
      BY <1>0, <1>1, <2>2, <3>1 DEF Begin, Found, LookUpTypes, Goal
    <3>3. PICK place \in {"read", "send"} : Go(c, place)
      BY <3>1 DEF Found
    <3>4. at'[c] = d /\ \A b \in Command \ {c} : at'[b] = at[b] /\ pid'[b] = pid[b]
      BY <1>0, <1>1, <3>1 DEF Begin, Found, LookUpTypes
    <3> QED
      BY <1>1, <2>1, <3>2, <3>3, <3>4, LookUpKeepsTypes DEF Begin
  <2>3. CASE ~environment.explicit
    <3>1. LookUpTypes'
      BY <1>0, <1>1, <2>3 DEF Begin, LookUpTypes
    <3> QED
      BY <1>0, <1>1, <2>1, <2>3, <3>1, LookUpKeepsTypes DEF Begin
  <2> QED
    BY <2>2, <2>3
<1>2. CASE Visit(c)
  <2>1. PICK d \in Dir :
          /\ todo' = [todo EXCEPT ![c] = @ \ {d}]
          /\ IF files[d].root
             THEN at' = [at EXCEPT ![c] = d] /\ Go(c, "read")
             ELSE UNCHANGED at /\ Go(c, "scan")
    BY <1>0, <1>2 DEF Visit, LookUpTypes, Types, PlaceTypes
  <2>2. LookUpTypes' /\ TalkTypes'
    BY <1>0, <1>2, <2>1 DEF Visit, LookUpTypes, TalkTypes
  <2>3. \A b \in Command \ {c} : at'[b] = at[b] /\ pid'[b] = pid[b]
    BY <1>0, <1>2, <2>1 DEF Visit, LookUpTypes
  <2>4. CASE files[d].root
    <3>1. at'[c] = d
      BY <1>0, <2>1, <2>4 DEF LookUpTypes
    <3> QED
      BY <1>0, <1>2, <2>1, <2>2, <2>3, <2>4, <3>1, LookUpKeepsTypes DEF Visit
  <2>5. CASE ~files[d].root
    BY <1>0, <1>2, <2>1, <2>2, <2>3, <2>5, LookUpKeepsTypes DEF Visit
  <2> QED
    BY <2>4, <2>5
<1>3. CASE EndScan(c)
  <2>1. PICK place \in {"read", "send", "launch", "notRunning", "absent", "scan"} :
          /\ Go(c, place)
          /\ place \in AtDir => at'[c] \in Dir
    <3>1. CASE fallback[c] = None
      BY <1>3, <3>1 DEF EndScan, NotFound
    <3>2. CASE fallback[c] # None
      <4>1. fallback[c] \in Dir /\ at \in [Command -> Dir \cup {None}]
        BY <1>0, <3>2 DEF LookUpTypes
      <4>2. at' = [at EXCEPT ![c] = fallback[c]]
        BY <1>3, <3>2 DEF EndScan, Found
      <4>3. \E place \in {"read", "send"} : Go(c, place)
        BY <1>3, <3>2 DEF EndScan, Found
      <4> QED
        BY <4>1, <4>2, <4>3
    <3> QED
      BY <3>1, <3>2
  <2>2. LookUpTypes' /\ TalkTypes'
    <3>1. CASE fallback[c] = None
      <4>1. /\ UNCHANGED <<at, pid, talk>>
            /\ fallback' = [fallback EXCEPT ![c] = None]
            /\ \/ UNCHANGED <<seeking, todo>>
               \/ /\ seeking' = [seeking EXCEPT ![c] = "running"]
                  /\ todo' = [todo EXCEPT ![c] = Dir]
        BY <1>3, <3>1 DEF EndScan, NotFound
      <4>2. todo' \in [Command -> SUBSET Dir] /\ seeking' \in [Command -> Goal]
        BY <1>0, <4>1 DEF LookUpTypes, Goal
      <4> QED
        BY <1>0, <4>1, <4>2 DEF LookUpTypes, TalkTypes
    <3>2. CASE fallback[c] # None
      BY <1>0, <1>3, <3>2 DEF EndScan, Found, LookUpTypes, TalkTypes, Goal
    <3> QED
      BY <3>1, <3>2
  <2>3. \A b \in Command \ {c} : at'[b] = at[b] /\ pid'[b] = pid[b]
    BY <1>0, <1>3 DEF EndScan, NotFound, Found, LookUpTypes
  <2> QED
    BY <1>0, <1>3, <2>1, <2>2, <2>3, LookUpKeepsTypes DEF EndScan
<1>4. CASE ReadPid(c)
  <2>1. at[c] \in Dir /\ files[at[c]].pid \in Launcher \cup {None}
    BY <1>0, <1>4 DEF ReadPid, Types, FileTypes
  <2>2. PICK place \in {"connect", "scan", "inspect", "launch", "failed"} :
          /\ Go(c, place)
          /\ place = "connect" => pid'[c] \in Launcher
    BY <1>0, <1>4, <2>1 DEF ReadPid, Unverified, LookUpTypes
  <2>3. LookUpTypes' /\ TalkTypes'
    BY <1>0, <1>4, <2>1 DEF ReadPid, Unverified, LookUpTypes, TalkTypes
  <2>4. at' = at /\ \A b \in Command \ {c} : pid'[b] = pid[b]
    BY <1>0, <1>4 DEF ReadPid, Unverified, LookUpTypes
  <2> QED
    BY <1>0, <1>4, <2>1, <2>2, <2>3, <2>4, LookUpKeepsTypes DEF ReadPid
<1>5. CASE Connect(c)
  <2>1. at[c] \in Dir /\ files[at[c]].sock \in Launcher \cup {None}
    BY <1>0, <1>5 DEF Connect, Types, FileTypes
  <2>2. PICK place \in {"hello", "stale", "scan", "inspect", "launch", "failed"} : Go(c, place)
    BY <1>5 DEF Connect, Reach, NoAnswer, Unverified
  <2>3. LookUpTypes' /\ TalkTypes'
    BY <1>0, <1>5, <2>1 DEF Connect, Reach, NoAnswer, Unverified, LookUpTypes, TalkTypes
  <2>4. at' = at /\ pid' = pid
    BY <1>5 DEF Connect, NoAnswer, Unverified
  <2> QED
    BY <1>0, <1>5, <2>1, <2>2, <2>3, <2>4, LookUpKeepsTypes DEF Connect
<1>6. CASE Hello(c)
  <2>1. PICK place \in { "read", "send", "already", "notRunning", "arm", "stale", "scan",
                         "inspect", "launch", "failed" } : Go(c, place)
    BY <1>6 DEF Hello, Verified, Found, NoAnswer, Unverified
  <2>2. LookUpTypes' /\ TalkTypes'
    BY <1>0, <1>6
    DEF Hello, Verified, Found, NoAnswer, Unverified, LookUpTypes, TalkTypes, Goal
  <2>3. at' = at /\ pid' = pid
    BY <1>0, <1>6 DEF Hello, Verified, Found, NoAnswer, Unverified, LookUpTypes
  <2> QED
    BY <1>0, <1>6, <2>1, <2>2, <2>3, LookUpKeepsTypes DEF Hello
<1>7. CASE Inspect(c)
  <2>1. PICK place \in {"failed", "launch"} : Go(c, place)
    BY <1>7 DEF Inspect
  <2> QED
    BY <1>7, <2>1, GoKeepsTypes DEF Inspect
<1> QED
  BY <1>1, <1>2, <1>3, <1>4, <1>5, <1>6, <1>7 DEF LookUp

\* A command that changes its place, its connection and its ticket.
LEMMA TalkKeepsTypes ==
    ASSUME Types, NEW c \in Command, NEW place \in Anywhere, Go(c, place),
           TalkTypes',
           place \in AtDir => pc[c] \in AtDir,
           place \in WithPid => pc[c] \in WithPid,
           c \in Stopper => pc[c] # "unlink",
           UNCHANGED <<files, daemon, flag, wake, lookup, rest>>,
           told' \in SUBSET Launcher
    PROVE  Types'
<1>1. LookUpTypes' /\ at' = at /\ pid' = pid
  BY DEF Types, LookUpTypes
<1>2. /\ place \in AtDir => at'[c] \in Dir
      /\ place \in WithPid => pid'[c] \in Launcher
  BY <1>1 DEF Types, PlaceTypes
<1>3. PlaceTypes'
  BY <1>1, <1>2, GoTypes DEF Types, PlaceTypes
<1> QED
  BY <1>1, <1>3 DEF Types, FileTypes, ProcessTypes, RestTypes

LEMMA LaunchTypesKept ==
    ASSUME Types, NEW c \in Launcher, Launch(c) \/ Fork(c)
    PROVE  Types'
<1> USE DEF AtDir, WithPid, Anywhere, Place, Success, Failure
<1>0. /\ c \in Command /\ DirFor[c] \in Dir
      /\ LookUpTypes /\ FileTypes /\ ProcessTypes /\ RestTypes
      /\ \A b \in Stopper : b # c
  BY DirAssumption, KindAssumption DEF Types, Command
<1>1. CASE Launch(c)
  <2>1. PICK place \in {"fork", "failed"} : Go(c, place)
    BY <1>1 DEF Launch
  <2>2. LookUpTypes' /\ TalkTypes' /\ RestTypes' /\ at' = at /\ pid' = pid /\ doomed' = doomed
    BY <1>0, <1>1 DEF Launch, LookUpTypes, TalkTypes, Types, RestTypes
  <2>3. FileTypes' /\ ProcessTypes'
    BY <1>0, <1>1 DEF Launch, FileTypes, ProcessTypes
  <2>4. PlaceTypes'
    BY <1>0, <2>1, <2>2, GoTypes DEF Types, PlaceTypes
  <2> QED
    BY <2>2, <2>3, <2>4 DEF Types
<1>2. CASE Fork(c)
  <2>1. PICK place \in {"launched", "send", "failed"} :
          Go(c, place) /\ (place = "send" => at'[c] \in Dir)
    BY <1>0, <1>2 DEF Fork, LookUpTypes
  <2>2. LookUpTypes' /\ TalkTypes' /\ pid' = pid
    BY <1>0, <1>2 DEF Fork, LookUpTypes, TalkTypes, Types
  <2>3. FileTypes'
    BY <1>0, <1>2 DEF Fork, FileTypes
  <2>4. ProcessTypes'
    BY <1>0, <1>2 DEF Fork, ProcessTypes
  <2>5. RestTypes'
    BY <1>0, <1>2 DEF Fork, RestTypes, Present, Name
  <2>6. \A b \in Command \ {c} : at'[b] = at[b] /\ doomed'[b] = doomed[b]
    BY <1>0, <1>2 DEF Fork, LookUpTypes, RestTypes
  <2>7. PlaceTypes'
    BY <1>0, <2>1, <2>2, <2>6, GoTypes DEF Types
  <2> QED
    BY <2>2, <2>3, <2>4, <2>5, <2>7 DEF Types
<1> QED
  BY <1>1, <1>2

LEMMA AddTypesKept ==
    ASSUME Types, NEW c \in Adder, Send(c) \/ Added(c) \/ Wait(c) \/ Waited(c)
    PROVE  Types'
<1> USE DEF AtDir, WithPid, Anywhere, Place, Success, Failure
<1>0. /\ c \in Command /\ c \notin Stopper
      /\ LookUpTypes /\ TalkTypes /\ FileTypes /\ ProcessTypes
      /\ pc[c] \in AtDir => at[c] \in Dir
      /\ told \in SUBSET Launcher
  BY KindAssumption DEF Types, Command, Launcher, ProcessTypes, PlaceTypes
<1>1. CASE Send(c)
  <2>1. PICK place \in {"sent", "unreachable"} : Go(c, place)
    BY <1>1 DEF Send, Reach
  <2>2. at[c] \in Dir /\ files[at[c]].sock \in Launcher \cup {None}
    BY <1>0, <1>1 DEF Send, FileTypes
  <2>3. TalkTypes'
    BY <1>0, <1>1, <2>2 DEF Send, Reach, TalkTypes
  <2> QED
    BY <1>0, <1>1, <2>1, <2>3, TalkKeepsTypes DEF Send
<1>2. CASE Added(c)
  <2>1. PICK place \in {"ticket", "failed", "unreachable"} : Go(c, place)
    BY <1>2 DEF Added
  <2>2. TalkTypes'
    BY <1>0, <1>2 DEF Added, TalkTypes
  <2> QED
    BY <1>0, <1>2, <2>1, <2>2, TalkKeepsTypes DEF Added
<1>3. CASE Wait(c)
  <2>1. PICK place \in {"added", "send", "scan"} : Go(c, place)
    BY <1>3 DEF Wait
  <2>2. LookUpTypes' /\ TalkTypes' /\ at' = at /\ pid' = pid
    BY <1>0, <1>3 DEF Wait, LookUpTypes, TalkTypes, Goal
  <2> QED
    BY <1>0, <1>3, <2>1, <2>2, LookUpKeepsTypes DEF Wait, Types, RestTypes
<1>4. CASE Waited(c)
  <2>1. PICK place \in {"waited", "failed", "unreachable"} : Go(c, place)
    BY <1>4 DEF Waited
  <2>2. TalkTypes'
    BY <1>0, <1>4 DEF Waited, TalkTypes
  <2> QED
    BY <1>0, <1>4, <2>1, <2>2, TalkKeepsTypes DEF Waited
<1> QED
  BY <1>1, <1>2, <1>3, <1>4

LEMMA StopTypesKept ==
    ASSUME Types, NEW c \in Stopper,
           \/ Arm(c) \/ Stale(c) \/ Ask(c) \/ Asked(c) \/ AwaitExit(c) \/ Recheck(c)
           \/ Kill(c) \/ Confirm(c) \/ Revalidate(c) \/ List(c) \/ Removed(c)
    PROVE  Types'
<1> USE DEF AtDir, WithPid, Anywhere, Place, Success, Failure
<1>0. /\ c \in Command /\ c \notin Launcher
      /\ LookUpTypes /\ TalkTypes /\ FileTypes /\ ProcessTypes /\ RestTypes
      /\ pc[c] \in AtDir => at[c] \in Dir
      /\ pc[c] \in WithPid => pid[c] \in Launcher
      /\ told \in SUBSET Launcher
  BY KindAssumption DEF Types, Command, ProcessTypes, PlaceTypes
<1>1. CASE Arm(c) \/ Stale(c)
  <2>1. PICK place \in {"ask", "revalidate", "failed"} : Go(c, place)
    BY <1>1 DEF Arm, Stale
  <2> QED
    BY <1>0, <1>1, <2>1, GoKeepsTypes DEF Arm, Stale
<1>2. CASE Ask(c)
  <2>1. PICK place \in {"asked", "failed"} : Go(c, place)
    BY <1>2 DEF Ask, Reach
  <2>2. at[c] \in Dir /\ files[at[c]].sock \in Launcher \cup {None}
    BY <1>0, <1>2 DEF Ask, FileTypes
  <2>3. TalkTypes'
    BY <1>0, <1>2, <2>2 DEF Ask, Reach, TalkTypes
  <2> QED
    BY <1>0, <1>2, <2>1, <2>3, TalkKeepsTypes DEF Ask
<1>3. CASE Asked(c)
  <2>1. PICK place \in {"waiting", "failed"} : Go(c, place)
    BY <1>3 DEF Asked
  <2>2. TalkTypes' /\ told' \in SUBSET Launcher
    BY <1>0, <1>3 DEF Asked, TalkTypes
  <2> QED
    BY <1>0, <1>3, <2>1, <2>2, TalkKeepsTypes DEF Asked
<1>4. CASE AwaitExit(c) \/ Recheck(c)
  <2>1. PICK place \in {"stopped", "overdue", "kill"} : Go(c, place)
    BY <1>4 DEF AwaitExit, Recheck
  <2> QED
    BY <1>0, <1>4, <2>1, GoKeepsTypes DEF AwaitExit, Recheck
<1>5. CASE Kill(c)
  <2>1. pid[c] \in Launcher /\ pid[c] \in Command /\ pid[c] \notin Stopper
    BY <1>0, <1>5, KindAssumption DEF Kill, Command
  <2>2. LookUpTypes' /\ TalkTypes' /\ FileTypes' /\ at' = at /\ pid' = pid
    BY <1>0, <1>5 DEF Kill, LookUpTypes, TalkTypes, FileTypes
  <2>3. ProcessTypes'
    BY <1>0, <1>5, <2>1 DEF Kill, ProcessTypes
  <2>4. RestTypes' /\ \A b \in Stopper : doomed'[b] = doomed[b]
    BY <1>0, <1>5, <2>1 DEF Kill, RestTypes, Command
  <2>5. PlaceTypes'
    BY <1>0, <1>5, <2>2, <2>4 DEF Kill, Types, PlaceTypes
  <2> QED
    BY <2>2, <2>3, <2>4, <2>5 DEF Types
<1>6. CASE Confirm(c) \/ Revalidate(c)
  <2>1. PICK place \in {"revalidate", "failed", "list", "stopped"} : Go(c, place)
    BY <1>6 DEF Confirm, Revalidate
  <2> QED
    BY <1>0, <1>6, <2>1, GoKeepsTypes DEF Confirm, Revalidate
<1>7. CASE List(c)
  <2>1. LookUpTypes' /\ TalkTypes' /\ FileTypes' /\ ProcessTypes' /\ at' = at /\ pid' = pid
    BY <1>0, <1>7 DEF List, LookUpTypes, TalkTypes, FileTypes, ProcessTypes
  <2>2. RestTypes' /\ \A b \in Command \ {c} : doomed'[b] = doomed[b]
    BY <1>0, <1>7 DEF List, RestTypes, Present
  <2>3. PlaceTypes'
    BY <1>0, <1>7, <2>1, <2>2 DEF List, Types, PlaceTypes
  <2> QED
    BY <2>1, <2>2, <2>3 DEF Types
<1>8. CASE Removed(c)
  <2>1. LookUpTypes' /\ TalkTypes' /\ FileTypes' /\ ProcessTypes' /\ RestTypes'
    BY <1>0, <1>8 DEF Removed, LookUpTypes, TalkTypes, FileTypes, ProcessTypes, RestTypes
  <2>2. PlaceTypes'
    BY <1>0, <1>8 DEF Removed, Types, PlaceTypes
  <2> QED
    BY <2>1, <2>2 DEF Types
<1> QED
  BY <1>1, <1>2, <1>3, <1>4, <1>5, <1>6, <1>7, <1>8

LEMMA UnlinkTypesKept ==
    ASSUME Types, NEW c \in Command, Unlink(c)
    PROVE  Types'
<1>1. PICK n \in doomed[c] : Unlink(c)!1!(n)
  BY DEF Unlink
<1>2. PICK d \in Dir :
        /\ files' = [files EXCEPT ![d][n] = Empty[n]]
        /\ doomed' = [doomed EXCEPT ![c] = @ \ {n}]
  <2>1. CASE c \in Launcher
    BY <1>1, <2>1, DirAssumption
  <2>2. CASE c \notin Launcher
    <3>1. at[c] \in Dir
      BY <1>1, <2>2 DEF Types, PlaceTypes, AtDir, Command
    <3> QED
      BY <1>1, <2>2, <3>1
  <2> QED
    BY <2>1, <2>2
<1>3. n \in Name
  BY <1>1 DEF Types, RestTypes
<1>4. FileTypes'
  <2>1. Empty.sock = None /\ Empty.root = FALSE /\ Empty.pid = None
    BY DEF Empty
  <2>2. CASE n = "sock"
    BY <1>2, <2>1, <2>2 DEF Types, FileTypes
  <2>3. CASE n = "root"
    BY <1>2, <2>1, <2>3 DEF Types, FileTypes
  <2>4. CASE n = "pid"
    BY <1>2, <2>1, <2>4 DEF Types, FileTypes
  <2> QED
    BY <1>3, <2>2, <2>3, <2>4 DEF Name
<1>5. RestTypes'
  BY <1>2 DEF Unlink, Types, RestTypes
<1>6. LookUpTypes' /\ TalkTypes' /\ ProcessTypes'
  BY DEF Unlink, Types, LookUpTypes, TalkTypes, ProcessTypes
<1>7. PlaceTypes'
  BY <1>2 DEF Unlink, Types, PlaceTypes, RestTypes, Command
<1> QED
  BY <1>4, <1>5, <1>6, <1>7 DEF Types

LEMMA DaemonTypesKept ==
    ASSUME Types, NEW p \in Launcher,
           Run(p) \/ SignalStops(p) \/ FinishDraining(p) \/ Die(p) \/ ReusePid(p)
    PROVE  Types'
<1>0. /\ p \in Command /\ p \notin Stopper /\ DirFor[p] \in Dir
      /\ LookUpTypes /\ TalkTypes /\ FileTypes /\ ProcessTypes /\ RestTypes /\ PlaceTypes
  BY KindAssumption, DirAssumption DEF Types, Command
<1>1. ASSUME UNCHANGED <<client, rest, files>>, ProcessTypes'
      PROVE  Types'
  BY <1>0, <1>1 DEF Types, LookUpTypes, TalkTypes, FileTypes, RestTypes, PlaceTypes
<1>2. CASE WritePid(p)
  <2>1. ProcessTypes'
    BY <1>0, <1>2 DEF WritePid, ProcessTypes
  <2>2. FileTypes'
    BY <1>0, <1>2 DEF WritePid, FileTypes
  <2> QED
    BY <1>0, <1>2, <2>1, <2>2
    DEF WritePid, Types, LookUpTypes, TalkTypes, RestTypes, PlaceTypes
<1>3. CASE Serve(p)
  <2>1. ProcessTypes'
    BY <1>0, <1>3 DEF Serve, ProcessTypes
  <2> QED
    BY <1>1, <1>3, <2>1 DEF Serve
<1>4. CASE HandlerStops(p)
  <2>1. ProcessTypes'
    BY <1>0, <1>4 DEF HandlerStops, RaiseFlag, ProcessTypes
  <2> QED
    BY <1>1, <1>4, <2>1 DEF HandlerStops
<1>5. CASE LeaveLoop(p)
  <2>1. ProcessTypes'
    BY <1>0, <1>5 DEF LeaveLoop, ProcessTypes
  <2>2. TalkTypes'
    BY <1>0, <1>5 DEF LeaveLoop, TalkTypes
  <2> QED
    BY <1>0, <1>5, <2>1, <2>2
    DEF LeaveLoop, Types, LookUpTypes, FileTypes, RestTypes, PlaceTypes
<1>6. CASE Exit(p)
  <2>1. ProcessTypes'
    BY <1>0, <1>6 DEF Exit, ProcessTypes
  <2> QED
    BY <1>1, <1>6, <2>1 DEF Exit
<1>7. CASE Reap(p)
  <2>1. ProcessTypes'
    BY <1>0, <1>7 DEF Reap, ProcessTypes
  <2> QED
    BY <1>1, <1>7, <2>1 DEF Reap
<1>8. CASE SignalStops(p)
  <2>1. ProcessTypes'
    BY <1>0, <1>8 DEF SignalStops, RaiseFlag, ProcessTypes
  <2> QED
    BY <1>1, <1>8, <2>1 DEF SignalStops
<1>9. CASE FinishDraining(p)
  <2>1. ProcessTypes'
    BY <1>0, <1>9 DEF FinishDraining, ProcessTypes
  <2>2. RestTypes' /\ \A c \in Stopper : doomed'[c] = doomed[c]
    BY <1>0, <1>9 DEF FinishDraining, RestTypes, Present, Command
  <2> QED
    BY <1>0, <1>9, <2>1, <2>2
    DEF FinishDraining, Types, LookUpTypes, TalkTypes, FileTypes, PlaceTypes
<1>10. CASE Die(p)
  <2>1. ProcessTypes'
    BY <1>0, <1>10 DEF Die, ProcessTypes
  <2>2. RestTypes' /\ \A c \in Stopper : doomed'[c] = doomed[c]
    BY <1>0, <1>10 DEF Die, RestTypes, Command
  <2>3. PlaceTypes'
    BY <1>0, <1>10, <2>2 DEF Die, PlaceTypes, Anywhere, Failure, AtDir, WithPid
  <2> QED
    BY <1>0, <1>10, <2>1, <2>2, <2>3
    DEF Die, Types, LookUpTypes, TalkTypes, FileTypes
<1>11. CASE ReusePid(p)
  BY <1>0, <1>11
  DEF ReusePid, Types, LookUpTypes, TalkTypes, FileTypes, ProcessTypes, RestTypes, PlaceTypes
<1> QED
  BY <1>2, <1>3, <1>4, <1>5, <1>6, <1>7, <1>8, <1>9, <1>10, <1>11 DEF Run

LEMMA NextTypes == Types /\ [Next]_vars => Types'
<1> SUFFICES ASSUME Types, [Next]_vars PROVE Types'
  OBVIOUS
<1>1. CASE Next
  <2>1. ASSUME NEW c \in Command, Begin(c) \/ Act(c) \/ Unlink(c) PROVE Types'
    BY <2>1, LookUpTypesKept, LaunchTypesKept, AddTypesKept, StopTypesKept, UnlinkTypesKept
    DEF Act
  <2>2. ASSUME NEW p \in Launcher,
               Run(p) \/ SignalStops(p) \/ FinishDraining(p) \/ Die(p) \/ ReusePid(p)
        PROVE  Types'
    BY <2>2, DaemonTypesKept
  <2> QED
    BY <1>1, <2>1, <2>2 DEF Next
<1>2. CASE UNCHANGED vars
  BY <1>2
  DEF vars, Types, LookUpTypes, TalkTypes, FileTypes, ProcessTypes, RestTypes, PlaceTypes
<1> QED
  BY <1>1, <1>2

(***************************************************************************)
(* Every command and daemon stays within its types, for any number of them *)
(* and in every environment: no look-up is left without the directory or   *)
(* the PID that its next step uses (get_project_daemon_runtime_dir,        *)
(* stop_daemon).                                                           *)
(***************************************************************************)
THEOREM TypeCorrect == Spec => []TypeOK
<1>1. Spec => []Types
  BY InitTypes, NextTypes, PTL DEF Spec
<1> QED
  BY <1>1, TypesSuffice, PTL

-----------------------------------------------------------------------------
(* The past that commands remember: which daemons there have been, and     *)
(* which of them are dead.                                                 *)

\* A command launches once.
Launched ==
    \A c \in Launcher :
        /\ daemon[c] # "none" =>
              /\ pc[c] \notin {"idle", "inspect", "launch"}
              /\ pc[c] \in {"scan", "read", "connect", "hello"} => seeking[c] = "again"
        /\ pc[c] = "fork" <=> daemon[c] = "bound"

\* PIDs that are written down are those of daemons that wrote them.
Known ==
    /\ \A d \in Dir : files[d].pid # None =>
          daemon[files[d].pid] \notin {"none", "bound", "forked"}
    /\ \A c \in Command : pid[c] # None =>
          daemon[pid[c]] \notin {"none", "bound", "forked"}

Recorded ==
    \A c \in Command :
        /\ \A p \in before[c].gone : daemon[p] = "gone"
        /\ \A p \in before[c].serving :
              daemon[p] \in {"serving", "draining", "cleaning", "killed", "gone"}

Reported ==
    /\ \A c \in Starter : pc[c] = "already" => pid[c] \in Launcher \ before[c].gone
    /\ \A c \in Stopper : pc[c] \in {"revalidate", "list", "unlink", "stopped"} =>
          pid[c] \in Launcher /\ daemon[pid[c]] = "gone"

Past == Launched /\ Known /\ Recorded /\ Reported

LEMMA InitPast == Init => Past
<1> SUFFICES ASSUME Init PROVE Past
  OBVIOUS
<1>1. Launched
  BY KindAssumption DEF Init, Launched, Command, Launcher
<1>2. Known
  BY DEF Init, Known, Empty
<1>3. Recorded
  BY DEF Init, Recorded
<1>4. Reported
  BY DEF Init, Reported, Command, Launcher
<1> QED
  BY <1>1, <1>2, <1>3, <1>4 DEF Past

\* What a step can do to a daemon.
Grows(old, new) ==
    \/ new = old
    \/ old = "none" /\ new = "bound"
    \/ old = "bound" /\ new \in {"forked", "cleaning", "killed", "gone"}
    \/ old = "forked" /\ new \in {"hooking", "killed", "gone"}
    \/ old = "hooking" /\ new \in {"serving", "killed", "gone"}
    \/ old = "serving" /\ new \in {"draining", "killed", "gone"}
    \/ old = "draining" /\ new \in {"cleaning", "killed", "gone"}
    \/ old = "cleaning" /\ new \in {"killed", "gone"}
    \/ old = "killed" /\ new = "gone"

LEMMA DaemonsGrow ==
    ASSUME Types, Launched, Next
    PROVE  \A p \in Launcher : Grows(daemon[p], daemon'[p]) /\ (flag[p] => flag'[p])
<1>0. ProcessTypes
  BY DEF Types
<1>1. ASSUME NEW c \in Command, Begin(c) \/ LookUp(c) \/ Unlink(c)
      PROVE  daemon' = daemon /\ flag' = flag
  BY <1>1
  DEF Begin, LookUp, Visit, EndScan, ReadPid, Connect, Hello, Inspect, Unlink
<1>2. ASSUME NEW c \in Launcher, Launch(c) \/ Fork(c)
      PROVE  /\ flag' = flag
             /\ \A p \in Launcher : Grows(daemon[p], daemon'[p])
  <2>1. pc[c] = "launch" => daemon[c] = "none"
    BY <1>0 DEF Launched, ProcessTypes
  <2>2. pc[c] = "fork" => daemon[c] = "bound"
    BY DEF Launched
  <2>3. CASE Launch(c)
    BY <1>0, <2>1, <2>3 DEF Launch, Grows, ProcessTypes
  <2>4. CASE Fork(c)
    BY <1>0, <2>2, <2>4 DEF Fork, Grows, ProcessTypes
  <2> QED
    BY <1>2, <2>3, <2>4 DEF Launch, Fork
<1>3. ASSUME NEW c \in Adder, Send(c) \/ Added(c) \/ Wait(c) \/ Waited(c)
      PROVE  daemon' = daemon /\ flag' = flag
  BY <1>3 DEF Send, Added, Wait, Waited
<1>4. ASSUME NEW c \in Stopper,
             \/ Arm(c) \/ Stale(c) \/ Ask(c) \/ Asked(c) \/ AwaitExit(c) \/ Recheck(c)
             \/ Confirm(c) \/ Revalidate(c) \/ List(c) \/ Removed(c)
      PROVE  daemon' = daemon /\ flag' = flag
  BY <1>4
  DEF Arm, Stale, Ask, Asked, AwaitExit, Recheck, Confirm, Revalidate, List, Removed
<1>5. ASSUME NEW c \in Stopper, Kill(c)
      PROVE  /\ flag' = flag
             /\ \A p \in Launcher : Grows(daemon[p], daemon'[p])
  <2>1. CASE Alive(pid[c])
    BY <1>0, <1>5, <2>1 DEF Kill, Alive, Grows, ProcessTypes
  <2>2. CASE ~Alive(pid[c])
    BY <1>5, <2>2 DEF Kill, Grows
  <2> QED
    BY <1>5, <2>1, <2>2 DEF Kill
<1>6. ASSUME NEW p \in Launcher,
             Run(p) \/ SignalStops(p) \/ FinishDraining(p) \/ Die(p) \/ ReusePid(p)
      PROVE  \A q \in Launcher : Grows(daemon[q], daemon'[q]) /\ (flag[q] => flag'[q])
  <2>1. CASE WritePid(p) \/ Serve(p) \/ Exit(p) \/ Reap(p)
    BY <1>0, <2>1 DEF WritePid, Serve, Exit, Reap, Grows, ProcessTypes
  <2>2. CASE HandlerStops(p) \/ SignalStops(p)
    BY <1>0, <2>2 DEF HandlerStops, SignalStops, RaiseFlag, Grows, ProcessTypes
  <2>3. CASE LeaveLoop(p) \/ FinishDraining(p)
    BY <1>0, <2>3 DEF LeaveLoop, FinishDraining, Grows, ProcessTypes
  <2>4. CASE Die(p)
    BY <1>0, <2>4 DEF Die, Alive, Grows, ProcessTypes
  <2>5. CASE ReusePid(p)
    BY <2>5 DEF ReusePid, Grows
  <2> QED
    BY <1>6, <2>1, <2>2, <2>3, <2>4, <2>5 DEF Run
<1>7. ASSUME NEW c \in Command, Begin(c) \/ Act(c) \/ Unlink(c)
      PROVE  \A p \in Launcher : Grows(daemon[p], daemon'[p]) /\ (flag[p] => flag'[p])
  <2>1. ASSUME daemon' = daemon /\ flag' = flag
        PROVE  \A p \in Launcher : Grows(daemon[p], daemon'[p]) /\ (flag[p] => flag'[p])
    BY <2>1 DEF Grows
  <2> QED
    BY <1>1, <1>2, <1>3, <1>4, <1>5, <1>7, <2>1 DEF Act
<1> QED
  BY <1>6, <1>7 DEF Next

\* What a step can change of others' state, by the kind of step.
Others(c) ==
    \A b \in Command \ {c} :
        /\ pc'[b] = pc[b] /\ seeking'[b] = seeking[b] /\ todo'[b] = todo[b]
        /\ fallback'[b] = fallback[b] /\ at'[b] = at[b] /\ pid'[b] = pid[b]
        /\ before'[b] = before[b] /\ peer'[b] = peer[b]

LEMMA LookUpSteps ==
    ASSUME Types, NEW c \in Command, Begin(c) \/ LookUp(c)
    PROVE  Others(c) /\ UNCHANGED <<files, process, environment, doomed, reused>>
<1>0. LookUpTypes /\ TalkTypes /\ pc \in [Command -> Anywhere] /\ RestTypes
  BY DEF Types, PlaceTypes
<1>1. CASE Begin(c)
  BY <1>0, <1>1 DEF Begin, Found, Others, LookUpTypes, TalkTypes, RestTypes
<1>2. CASE Visit(c)
  BY <1>0, <1>2 DEF Visit, Others, LookUpTypes, TalkTypes
<1>3. CASE EndScan(c)
  BY <1>0, <1>3 DEF EndScan, Found, NotFound, Others, LookUpTypes, TalkTypes
<1>4. CASE ReadPid(c)
  BY <1>0, <1>4 DEF ReadPid, Unverified, Others, LookUpTypes, TalkTypes
<1>5. CASE Connect(c)
  BY <1>0, <1>5 DEF Connect, Reach, NoAnswer, Unverified, Others, LookUpTypes, TalkTypes
<1>6. CASE Hello(c)
  BY <1>0, <1>6 DEF Hello, Found, NoAnswer, Verified, Unverified, Others, LookUpTypes, TalkTypes
<1>7. CASE Inspect(c)
  BY <1>0, <1>7 DEF Inspect, Others, LookUpTypes, TalkTypes
<1> QED
  BY <1>1, <1>2, <1>3, <1>4, <1>5, <1>6, <1>7 DEF LookUp

LEMMA AddSteps ==
    ASSUME Types, NEW c \in Adder, Send(c) \/ Added(c) \/ Wait(c) \/ Waited(c)
    PROVE  /\ Others(c)
           /\ UNCHANGED <<files, process, environment, doomed, reused, before, fallback, pid, at>>
           /\ pc'[c] \in { "ticket", "failed", "unreachable", "sent", "added", "send",
                            "scan", "waited" }
           /\ pc'[c] = "scan" => seeking'[c] = "again"
           /\ pc[c] \in {"send", "sent", "ticket"}
<1>0. LookUpTypes /\ TalkTypes /\ pc \in [Command -> Anywhere] /\ RestTypes /\ c \in Command
  BY DEF Types, PlaceTypes, Command, Launcher
<1>1. CASE Send(c)
  BY <1>0, <1>1 DEF Send, Reach, Others, LookUpTypes, TalkTypes
<1>2. CASE Added(c)
  BY <1>0, <1>2 DEF Added, Others, LookUpTypes, TalkTypes
<1>3. CASE Wait(c)
  BY <1>0, <1>3 DEF Wait, Others, LookUpTypes, TalkTypes
<1>4. CASE Waited(c)
  BY <1>0, <1>4 DEF Waited, Others, LookUpTypes, TalkTypes
<1> QED
  BY <1>1, <1>2, <1>3, <1>4

\* The steps of a stop client but for the SIGKILL.
Stopping(c) ==
    \/ Arm(c) \/ Stale(c) \/ Ask(c) \/ Asked(c) \/ AwaitExit(c) \/ Recheck(c)
    \/ Confirm(c) \/ Revalidate(c) \/ List(c) \/ Removed(c)

LEMMA StopSteps ==
    ASSUME Types, NEW c \in Stopper, Stopping(c)
    PROVE  /\ Others(c)
           /\ UNCHANGED <<files, daemon, flag, wake, environment, reused, before, lookup>>
           /\ pc'[c] \in { "ask", "revalidate", "failed", "asked", "waiting", "stopped",
                            "overdue", "kill", "list", "unlink" }
           /\ \A b \in Command \ {c} : doomed'[b] = doomed[b]
<1>0. LookUpTypes /\ TalkTypes /\ pc \in [Command -> Anywhere] /\ RestTypes /\ c \in Command
  BY DEF Types, PlaceTypes, Command
<1>1. CASE Arm(c) \/ Stale(c) \/ Recheck(c) \/ AwaitExit(c) \/ Confirm(c)
  BY <1>0, <1>1 DEF Arm, Stale, Recheck, AwaitExit, Confirm, Others, LookUpTypes, TalkTypes
<1>2. CASE Ask(c) \/ Asked(c)
  BY <1>0, <1>2 DEF Ask, Asked, Reach, Others, LookUpTypes, TalkTypes
<1>3. CASE Revalidate(c) \/ List(c) \/ Removed(c)
  BY <1>0, <1>3 DEF Revalidate, List, Removed, Others, LookUpTypes, TalkTypes, RestTypes
<1> QED
  BY <1>1, <1>2, <1>3 DEF Stopping

LEMMA LookUpKeepsPast ==
    ASSUME Types, Past, NEW c \in Command, Begin(c) \/ LookUp(c)
    PROVE  Past'
<1> USE DEF Past
<1>0. /\ Others(c) /\ UNCHANGED <<files, process, environment, doomed, reused>>
      /\ LookUpTypes /\ pc \in [Command -> Anywhere] /\ TalkTypes /\ ProcessTypes
      /\ RestTypes /\ Launcher \subseteq Command
  BY LookUpSteps DEF Types, PlaceTypes, Command
<1>1. Launched'
  <2>1. ASSUME c \in Launcher
        PROVE  /\ daemon[c] # "none" =>
                     /\ pc'[c] \notin {"idle", "inspect", "launch"}
                     /\ pc'[c] \in {"scan", "read", "connect", "hello"} => seeking'[c] = "again"
               /\ pc'[c] # "fork" /\ pc[c] # "fork"
    <3>0. c \in Command /\ c \notin Stopper
      BY <2>1, KindAssumption DEF Command
    <3>1. CASE Begin(c)
      BY <1>0, <2>1, <3>0, <3>1 DEF Begin, Found, Launched, LookUpTypes
    <3>2. CASE Visit(c)
      BY <1>0, <2>1, <3>0, <3>2 DEF Visit, Launched, LookUpTypes
    <3>3. CASE EndScan(c)
      BY <1>0, <2>1, <3>0, <3>3 DEF EndScan, Found, NotFound, Launched, LookUpTypes
    <3>4. CASE ReadPid(c)
      BY <1>0, <2>1, <3>0, <3>4 DEF ReadPid, Unverified, Launched, LookUpTypes
    <3>5. CASE Connect(c)
      BY <1>0, <2>1, <3>0, <3>5 DEF Connect, Reach, NoAnswer, Unverified, Launched, LookUpTypes
    <3>6. CASE Hello(c)
      BY <1>0, <2>1, <3>0, <3>6
      DEF Hello, Found, NoAnswer, Verified, Unverified, Launched, LookUpTypes
    <3>7. CASE Inspect(c)
      BY <1>0, <2>1, <3>0, <3>7 DEF Inspect, Launched, LookUpTypes
    <3> QED
      BY <3>1, <3>2, <3>3, <3>4, <3>5, <3>6, <3>7 DEF LookUp
  <2> QED
    BY <1>0, <2>1 DEF Launched, Others
<1>2. Known'
  <2>1. CASE ReadPid(c)
    <3>1. at[c] \in Dir
      BY <2>1 DEF ReadPid, Types, PlaceTypes, AtDir
    <3> QED
      BY <1>0, <2>1, <3>1 DEF ReadPid, Known, LookUpTypes
  <2>2. CASE Begin(c) \/ Visit(c) \/ EndScan(c) \/ Connect(c) \/ Hello(c) \/ Inspect(c)
    <3>1. pid' = pid
      BY <2>2 DEF Begin, Visit, EndScan, Connect, Hello, Inspect
    <3> QED
      BY <1>0, <3>1 DEF Known
  <2> QED
    BY <2>1, <2>2 DEF LookUp
<1>3. Recorded'
  <2>1. CASE Begin(c)
    <3>1. before'[c] = [serving |-> { p \in Launcher : Serving(p) },
                        gone    |-> { p \in Launcher : daemon[p] = "gone" }]
      BY <1>0, <2>1 DEF Begin, RestTypes
    <3> QED
      BY <1>0, <3>1 DEF Recorded, Others, Serving
  <2>2. CASE LookUp(c)
    <3>1. before' = before
      BY <2>2 DEF LookUp, Visit, EndScan, ReadPid, Connect, Hello, Inspect
    <3> QED
      BY <1>0, <3>1 DEF Recorded
  <2> QED
    BY <2>1, <2>2
<1>4. Reported'
  <2>0. /\ c \in Starter => c \notin Adder /\ c \notin Stopper
        /\ Starter \subseteq Command /\ Stopper \subseteq Command
    BY KindAssumption DEF Launcher, Command
  <2>1. /\ c \in Starter /\ pc'[c] = "already" => pid'[c] \in Launcher \ before'[c].gone
        /\ pc'[c] \notin {"revalidate", "list", "unlink", "stopped"}
    <3>1. CASE Begin(c)
      BY <1>0, <3>1 DEF Begin, Found
    <3>2. CASE Visit(c)
      BY <1>0, <3>2 DEF Visit
    <3>3. CASE EndScan(c)
      BY <1>0, <3>3 DEF EndScan, Found, NotFound
    <3>4. CASE ReadPid(c)
      BY <1>0, <3>4 DEF ReadPid, Unverified
    <3>5. CASE Connect(c)
      BY <1>0, <3>5 DEF Connect, Reach, NoAnswer, Unverified
    <3>6. CASE Hello(c)
      <4>1. CASE ~Lost(c) /\ Serving(peer[c]) /\ peer[c] = pid[c]
        <5>1. pid[c] \in Launcher
          BY <3>6 DEF Hello, Types, PlaceTypes, WithPid
        <5>2. pid[c] \notin before[c].gone
          BY <4>1 DEF Recorded, Serving
        <5>3. pid' = pid /\ before' = before
          BY <3>6 DEF Hello
        <5>4. pc'[c] \in {"read", "send", "already", "notRunning", "arm"}
          BY <1>0, <3>6, <4>1 DEF Hello, Verified, Found, Lost, Serving
        <5> QED
          BY <5>1, <5>2, <5>3, <5>4
      <4>2. CASE ~(~Lost(c) /\ Serving(peer[c]) /\ peer[c] = pid[c])
        BY <1>0, <3>6, <4>2 DEF Hello, NoAnswer, Unverified
      <4> QED
        BY <4>1, <4>2
    <3>7. CASE Inspect(c)
      BY <1>0, <3>7 DEF Inspect
    <3> QED
      BY <3>1, <3>2, <3>3, <3>4, <3>5, <3>6, <3>7 DEF LookUp
  <2> QED
    BY <1>0, <2>0, <2>1 DEF Reported, Others
<1> QED
  BY <1>1, <1>2, <1>3, <1>4

LEMMA LaunchKeepsPast ==
    ASSUME Types, Past, NEW c \in Launcher, Launch(c) \/ Fork(c)
    PROVE  Past'
<1> USE DEF Past
<1>0. /\ LookUpTypes /\ pc \in [Command -> Anywhere] /\ ProcessTypes /\ RestTypes
      /\ FileTypes /\ c \in Command /\ DirFor[c] \in Dir /\ c \notin Stopper
  BY DirAssumption, KindAssumption DEF Types, PlaceTypes, Command
<1>1. /\ \A d \in Dir : files'[d].pid = files[d].pid
      /\ UNCHANGED <<pid, seeking, before>>
  BY <1>0 DEF Launch, Fork, FileTypes
<1>2. /\ \A b \in Command \ {c} : pc'[b] = pc[b]
      /\ \A p \in Launcher \ {c} : daemon'[p] = daemon[p]
      /\ pc'[c] \in {"failed", "fork", "launched", "send"}
      /\ daemon[c] \in {"none", "bound"}
      /\ pc'[c] = "fork" <=> daemon'[c] = "bound"
  BY <1>0 DEF Launch, Fork, Launched, ProcessTypes
<1>3. Launched'
  BY <1>0, <1>1, <1>2 DEF Launched, Command
<1>4. Known'
  BY <1>0, <1>1, <1>2, NoneAssumption DEF Known, LookUpTypes, FileTypes
<1>5. Recorded'
  BY <1>0, <1>1, <1>2 DEF Recorded, RestTypes
<1>6. Reported'
  BY <1>0, <1>1, <1>2 DEF Reported, Command, Launcher
<1> QED
  BY <1>3, <1>4, <1>5, <1>6

LEMMA AddKeepsPast ==
    ASSUME Types, Past, NEW c \in Adder, Send(c) \/ Added(c) \/ Wait(c) \/ Waited(c)
    PROVE  Past'
<1>0. /\ Others(c)
      /\ UNCHANGED <<files, process, before, pid>>
      /\ pc'[c] \in { "ticket", "failed", "unreachable", "sent", "added", "send",
                       "scan", "waited" }
      /\ pc'[c] = "scan" => seeking'[c] = "again"
      /\ pc[c] \in {"send", "sent", "ticket"}
  BY AddSteps
<1>1. /\ c \in Launcher /\ c \notin Stopper /\ c \notin Starter
      /\ Launcher \subseteq Command /\ Stopper \subseteq Command /\ Starter \subseteq Command
  BY KindAssumption DEF Launcher, Command
<1> QED
  BY <1>0, <1>1 DEF Past, Launched, Known, Recorded, Reported, Others

LEMMA StopKeepsPast ==
    ASSUME Types, Past, NEW c \in Stopper, Stopping(c) \/ Kill(c)
    PROVE  Past'
<1> USE DEF Past
<1>0. /\ c \notin Launcher /\ c \notin Starter /\ c \in Command
      /\ Launcher \subseteq Command /\ Stopper \subseteq Command /\ Starter \subseteq Command
      /\ PlaceTypes /\ ProcessTypes /\ LookUpTypes
  BY KindAssumption DEF Launcher, Command, Types
<1>1. CASE Stopping(c)
  <2>0. /\ Others(c)
        /\ UNCHANGED <<files, daemon, flag, wake, environment, reused, before, lookup>>
        /\ pc'[c] \in { "ask", "revalidate", "failed", "asked", "waiting", "stopped",
                         "overdue", "kill", "list", "unlink" }
    BY <1>1, StopSteps
  <2>1. Launched' /\ Known' /\ Recorded'
    BY <1>0, <2>0 DEF Launched, Known, Recorded, Others
  <2>2. pc'[c] \in {"revalidate", "list", "unlink", "stopped"} =>
          pid[c] \in Launcher /\ daemon[pid[c]] = "gone"
    <3>1. pc[c] \in WithPid => pid[c] \in Launcher /\ daemon[pid[c]] # "none"
      BY <1>0, NoneAssumption DEF PlaceTypes, Known, Command
    <3>2. CASE Arm(c) \/ Stale(c)
      BY <1>0, <3>1, <3>2 DEF Arm, Stale, PidExists, Alive, WithPid, PlaceTypes
    <3>3. CASE Ask(c) \/ Asked(c)
      BY <1>0, <3>3 DEF Ask, Asked, Reach, PlaceTypes
    <3>4. CASE AwaitExit(c) \/ Recheck(c) \/ Confirm(c)
      BY <1>0, <3>1, <3>4 DEF AwaitExit, Recheck, Confirm, WithPid, PlaceTypes
    <3>5. CASE Revalidate(c) \/ List(c) \/ Removed(c)
      BY <1>0, <3>5 DEF Revalidate, List, Removed, Reported, PlaceTypes
    <3> QED
      BY <1>1, <3>2, <3>3, <3>4, <3>5 DEF Stopping
  <2>3. Reported'
    BY <1>0, <2>0, <2>2 DEF Reported, Others
  <2> QED
    BY <2>1, <2>3
<1>2. CASE Kill(c)
  <2>1. /\ \A b \in Command \ {c} : pc'[b] = pc[b]
        /\ pc'[c] = "confirm"
        /\ pid[c] \in Launcher /\ daemon[pid[c]] \notin {"none", "bound", "forked"}
        /\ UNCHANGED <<files, lookup, before>>
    BY <1>0, <1>2, NoneAssumption DEF Kill, PlaceTypes, WithPid, Known, Command
  <2>2. \A p \in Launcher :
          \/ daemon'[p] = daemon[p]
          \/ /\ daemon[p] \notin {"none", "bound", "forked", "gone"}
             /\ daemon'[p] = "killed"
    BY <1>0, <1>2, <2>1 DEF Kill, Alive, ProcessTypes
  <2>3. Launched'
    BY <1>0, <2>1, <2>2 DEF Launched
  <2>4. Known'
    BY <1>0, <2>1, <2>2, NoneAssumption DEF Known, Types, FileTypes, LookUpTypes
  <2>5. Recorded' /\ Reported'
    BY <1>0, <2>1, <2>2 DEF Recorded, Reported, Types, RestTypes
  <2> QED
    BY <2>3, <2>4, <2>5
<1> QED
  BY <1>1, <1>2

LEMMA UnlinkKeepsPast ==
    ASSUME Types, Past, NEW c \in Command, Unlink(c)
    PROVE  Past'
<1>1. UNCHANGED <<process, client, before>>
  BY DEF Unlink
<1>2. \A d \in Dir : files'[d].pid \in {files[d].pid, None}
  <2>1. PICK n \in doomed[c], d \in Dir : files' = [files EXCEPT ![d][n] = Empty[n]]
    BY DirAssumption DEF Unlink, Types, PlaceTypes, AtDir, Command
  <2>2. n \in Name
    BY <2>1 DEF Types, RestTypes
  <2>3. \A e \in Dir : files'[e] = IF e = d THEN [files[e] EXCEPT ![n] = Empty[n]] ELSE files[e]
    BY <2>1 DEF Types, FileTypes
  <2>4. Empty["pid"] = None
    BY DEF Empty
  <2>5. \A e \in Dir : files'[e].pid = IF e = d /\ n = "pid" THEN None ELSE files[e].pid
    <3>1. /\ n = "pid" => [files[d] EXCEPT ![n] = Empty[n]].pid = None
          /\ n # "pid" => [files[d] EXCEPT ![n] = Empty[n]].pid = files[d].pid
      BY <2>2, <2>4 DEF Name, Types, FileTypes
    <3> QED
      BY <2>3, <3>1
  <2> QED
    BY <2>5
<1>3. Known'
  BY <1>1, <1>2 DEF Past, Known
<1> QED
  BY <1>1, <1>3 DEF Past, Launched, Recorded, Reported

LEMMA DaemonKeepsPast ==
    ASSUME Types, Past, NEW p \in Launcher,
           Run(p) \/ SignalStops(p) \/ FinishDraining(p) \/ Die(p) \/ ReusePid(p)
    PROVE  Past'
<1> USE DEF Past
<1>0. /\ p \in Command /\ p \notin Stopper /\ Stopper \subseteq Command
      /\ Launcher \subseteq Command /\ Starter \subseteq Command
      /\ DirFor[p] \in Dir /\ FileTypes /\ ProcessTypes /\ LookUpTypes
      /\ pc \in [Command -> Anywhere] /\ RestTypes
  BY KindAssumption, DirAssumption DEF Types, Command, Launcher, PlaceTypes
<1>1. /\ UNCHANGED <<lookup, before>>
      /\ \A b \in Command \ {p} : pc'[b] = pc[b]
      /\ \/ pc'[p] = pc[p] /\ (daemon[p] = "bound" => daemon'[p] = "bound")
         \/ pc'[p] = "failed" /\ daemon[p] = "bound" /\ daemon'[p] = "gone"
      /\ \A q \in Launcher \ {p} : daemon'[q] = daemon[q]
      /\ \/ daemon'[p] = daemon[p]
         \/ /\ daemon[p] \notin {"none", "gone"}
            /\ daemon'[p] \notin {"none", "bound", "forked"}
            /\ daemon[p] \in {"serving", "draining", "cleaning", "killed"} =>
                  daemon'[p] \in {"draining", "cleaning", "killed", "gone"}
  <2>1. CASE Run(p)
    BY <1>0, <2>1
    DEF Run, WritePid, Serve, HandlerStops, RaiseFlag, LeaveLoop, Exit, Reap, ProcessTypes
  <2>2. CASE SignalStops(p) \/ FinishDraining(p) \/ ReusePid(p)
    BY <1>0, <2>2 DEF SignalStops, RaiseFlag, FinishDraining, ReusePid, ProcessTypes
  <2>3. CASE Die(p)
    BY <1>0, <2>3 DEF Die, Alive, ProcessTypes
  <2> QED
    BY <2>1, <2>2, <2>3
<1>2. \A d \in Dir : files'[d].pid = files[d].pid \/ (files'[d].pid = p /\ daemon'[p] = "hooking")
  <2>1. CASE WritePid(p)
    BY <1>0, <2>1 DEF WritePid, FileTypes, ProcessTypes
  <2>2. CASE ~WritePid(p)
    BY <2>2 DEF Run, Serve, HandlerStops, LeaveLoop, Exit, Reap, SignalStops,
                FinishDraining, Die, ReusePid
  <2> QED
    BY <2>1, <2>2
<1>3. Launched'
  BY <1>0, <1>1 DEF Launched
<1>4. Known'
  BY <1>0, <1>1, <1>2, NoneAssumption DEF Known, LookUpTypes, FileTypes
<1>5. Recorded'
  BY <1>0, <1>1 DEF Recorded, RestTypes
<1>6. Reported'
  BY <1>0, <1>1 DEF Reported
<1> QED
  BY <1>3, <1>4, <1>5, <1>6

LEMMA NextPast == Types /\ Past /\ [Next]_vars => Past'
<1> SUFFICES ASSUME Types, Past, [Next]_vars PROVE Past'
  OBVIOUS
<1>1. CASE Next
  <2>1. ASSUME NEW c \in Command, Begin(c) \/ Act(c) \/ Unlink(c) PROVE Past'
    BY <2>1, LookUpKeepsPast, LaunchKeepsPast, AddKeepsPast, StopKeepsPast, UnlinkKeepsPast
    DEF Act, Stopping
  <2>2. ASSUME NEW p \in Launcher,
               Run(p) \/ SignalStops(p) \/ FinishDraining(p) \/ Die(p) \/ ReusePid(p)
        PROVE  Past'
    BY <2>2, DaemonKeepsPast
  <2> QED
    BY <1>1, <2>1, <2>2 DEF Next
<1>2. CASE UNCHANGED vars
  BY <1>2 DEF vars, Past, Launched, Known, Recorded, Reported
<1> QED
  BY <1>1, <1>2

LEMMA TypesAndPast == Spec => [](Types /\ Past)
BY InitTypes, NextTypes, InitPast, NextPast, PTL DEF Spec

(***************************************************************************)
(* Whoever starts a daemon and however many run, crash and leave their     *)
(* PIDs to other processes: mq start never takes one for running that had  *)
(* died before the command began (check_daemon_already_running).           *)
(***************************************************************************)
THEOREM AlreadyRunningHolds == Spec => []AlreadyRunningIsTrue
<1>1. Past => AlreadyRunningIsTrue
  BY DEF Past, Reported, AlreadyRunningIsTrue
<1> QED
  BY <1>1, TypesAndPast, PTL

-----------------------------------------------------------------------------
(* Which daemon a file, a PID or a removal is about.                       *)

Addressed ==
    /\ \A d \in Dir : \A p \in Launcher :
          files[d].sock = p \/ files[d].pid = p => DirFor[p] = d
    /\ \A c \in Command : pc[c] \in WithPid => DirFor[pid[c]] = at[c]
    /\ \A p \in Launcher : doomed[p] # {} => daemon[p] = "cleaning"

LEMMA InitAddressed == Init => Addressed
BY NoneAssumption DEF Init, Addressed, Empty, WithPid, Command

LEMMA LookUpKeepsAddressed ==
    ASSUME Types, Addressed, NEW c \in Command, Begin(c) \/ LookUp(c)
    PROVE  Addressed'
<1>0. /\ Others(c) /\ UNCHANGED <<files, process, doomed>>
      /\ LookUpTypes /\ pc \in [Command -> Anywhere] /\ FileTypes
      /\ pc[c] \in AtDir => at[c] \in Dir
  BY LookUpSteps DEF Types, PlaceTypes
<1>1. pc'[c] \in WithPid => DirFor[pid'[c]] = at'[c]
  <2>1. CASE Begin(c)
    BY <1>0, <2>1 DEF Begin, Found, WithPid
  <2>2. CASE Visit(c)
    BY <1>0, <2>2 DEF Visit, WithPid
  <2>3. CASE EndScan(c)
    BY <1>0, <2>3 DEF EndScan, Found, NotFound, WithPid
  <2>4. CASE ReadPid(c)
    <3>1. at[c] \in Dir
      BY <1>0, <2>4 DEF ReadPid, AtDir
    <3>2. CASE files[at[c]].pid # None
      <4>1. pid'[c] = files[at[c]].pid /\ at' = at
        BY <1>0, <2>4, <3>2 DEF ReadPid, LookUpTypes
      <4>2. files[at[c]].pid \in Launcher
        BY <1>0, <3>1, <3>2 DEF FileTypes
      <4> QED
        BY <3>1, <4>1, <4>2 DEF Addressed
    <3>3. CASE files[at[c]].pid = None
      BY <1>0, <2>4, <3>3 DEF ReadPid, Unverified, WithPid
    <3> QED
      BY <3>2, <3>3
  <2>5. CASE Connect(c)
    BY <1>0, <2>5 DEF Connect, Reach, NoAnswer, Unverified, WithPid, Addressed
  <2>6. CASE Hello(c)
    <3>1. DirFor[pid[c]] = at[c]
      BY <2>6 DEF Hello, Addressed, WithPid
    <3>2. pid' = pid
      BY <2>6 DEF Hello
    <3>3. pc'[c] \in WithPid => at'[c] = at[c]
      BY <1>0, <2>6 DEF Hello, NoAnswer, Unverified, Verified, Found, WithPid, LookUpTypes
    <3> QED
      BY <3>1, <3>2, <3>3
  <2>7. CASE Inspect(c)
    BY <1>0, <2>7 DEF Inspect, WithPid
  <2> QED
    BY <2>1, <2>2, <2>3, <2>4, <2>5, <2>6, <2>7 DEF LookUp
<1> QED
  BY <1>0, <1>1 DEF Addressed, Others

LEMMA LaunchKeepsAddressed ==
    ASSUME Types, Past, Addressed, NEW c \in Launcher, Launch(c) \/ Fork(c)
    PROVE  Addressed'
<1>0. /\ LookUpTypes /\ pc \in [Command -> Anywhere] /\ ProcessTypes /\ RestTypes
      /\ FileTypes /\ c \in Command /\ DirFor[c] \in Dir /\ Launcher \subseteq Command
  BY DirAssumption DEF Types, PlaceTypes, Command
<1>1. \A d \in Dir :
        /\ files'[d].pid = files[d].pid
        /\ files'[d].sock = files[d].sock \/ (files'[d].sock = c /\ DirFor[c] = d)
  BY <1>0 DEF Launch, Fork, FileTypes
<1>2. /\ \A b \in Command \ {c} : pc'[b] = pc[b] /\ at'[b] = at[b]
      /\ pc'[c] \notin WithPid
      /\ pid' = pid
  BY <1>0 DEF Launch, Fork, LookUpTypes, WithPid
<1>3. \A p \in Launcher : doomed'[p] # {} => daemon'[p] = "cleaning"
  <2>1. pc[c] \in {"launch", "fork"} => daemon[c] \in {"none", "bound"}
    BY <1>0 DEF Past, Launched, ProcessTypes
  <2>2. CASE Launch(c)
    BY <1>0, <2>1, <2>2 DEF Launch, Addressed, ProcessTypes, RestTypes
  <2>3. CASE Fork(c)
    BY <1>0, <2>1, <2>3 DEF Fork, Addressed, ProcessTypes, RestTypes
  <2> QED
    BY <2>2, <2>3
<1> QED
  BY <1>1, <1>2, <1>3 DEF Addressed

LEMMA ClientKeepsAddressed ==
    ASSUME Types, Past, Addressed, NEW c \in Command,
           \/ c \in Adder /\ (Send(c) \/ Added(c) \/ Wait(c) \/ Waited(c))
           \/ c \in Stopper /\ (Stopping(c) \/ Kill(c))
    PROVE  Addressed'
<1>0. /\ LookUpTypes /\ pc \in [Command -> Anywhere] /\ ProcessTypes /\ RestTypes
      /\ Launcher \subseteq Command
      /\ c \in Stopper => c \notin Launcher
  BY KindAssumption DEF Types, PlaceTypes, Command
<1>1. CASE c \in Adder /\ (Send(c) \/ Added(c) \/ Wait(c) \/ Waited(c))
  BY <1>1, AddSteps DEF Addressed, Others, WithPid
<1>2. CASE c \in Stopper /\ Stopping(c)
  <2>1. /\ Others(c)
        /\ UNCHANGED <<files, daemon, lookup>>
        /\ \A b \in Command \ {c} : doomed'[b] = doomed[b]
    BY <1>2, StopSteps
  <2>2. pc'[c] \in WithPid => pc[c] \in WithPid
    BY <1>0, <1>2
    DEF Stopping, Arm, Stale, Ask, Asked, AwaitExit, Recheck, Confirm, Revalidate, List,
        Removed, WithPid
  <2>3. \A p \in Launcher : doomed'[p] = doomed[p]
    BY <1>0, <1>2, <2>1
  <2>4. \A b \in Command : pc'[b] \in WithPid => pc[b] \in WithPid
    BY <2>1, <2>2 DEF Others
  <2>5. UNCHANGED <<files, daemon, at, pid>>
    BY <2>1
  <2>6. \A b \in Command : pc'[b] \in WithPid => DirFor[pid'[b]] = at'[b]
    BY <2>4, <2>5 DEF Addressed
  <2>7. \A d \in Dir : files'[d] = files[d]
    BY <2>5
  <2>8. \A p \in Launcher : doomed'[p] # {} => daemon'[p] = "cleaning"
    BY <2>3, <2>5 DEF Addressed
  <2> QED
    BY <2>6, <2>7, <2>8 DEF Addressed
<1>3. CASE c \in Stopper /\ Kill(c)
  <2>1. /\ UNCHANGED <<files, lookup>>
        /\ \A b \in Command \ {c} : pc'[b] = pc[b]
        /\ pc[c] \in WithPid
    BY <1>0, <1>3 DEF Kill, WithPid
  <2>2. \A p \in Launcher : doomed'[p] # {} => doomed'[p] = doomed[p] /\ daemon'[p] = daemon[p]
    <3>1. CASE Alive(pid[c])
      <4>1. /\ daemon' = [daemon EXCEPT ![pid[c]] = "killed"]
            /\ doomed' = [doomed EXCEPT ![pid[c]] = {}]
        BY <1>3, <3>1 DEF Kill
      <4>2. ASSUME NEW p \in Launcher, p # pid[c]
            PROVE  doomed'[p] = doomed[p] /\ daemon'[p] = daemon[p]
        BY <1>0, <4>1, <4>2 DEF ProcessTypes, RestTypes
      <4>3. ASSUME NEW p \in Launcher, p = pid[c] PROVE doomed'[p] = {}
        BY <1>0, <4>1, <4>3 DEF RestTypes
      <4> QED
        BY <4>2, <4>3
    <3>2. CASE ~Alive(pid[c])
      BY <1>3, <3>2 DEF Kill
    <3> QED
      BY <3>1, <3>2
  <2> QED
    BY <1>0, <2>1, <2>2 DEF Addressed
<1> QED
  BY <1>1, <1>2, <1>3

\* A removal by c unlinks the name n of the directory d.
Unlinks(c, n, d) ==
    /\ n \in Name
    /\ d = IF c \in Launcher THEN DirFor[c] ELSE at[c]
    /\ doomed' = [doomed EXCEPT ![c] = @ \ {n}]
    /\ \A e \in Dir :
          /\ files'[e].sock = IF e = d /\ n = "sock" THEN None ELSE files[e].sock
          /\ files'[e].root = IF e = d /\ n = "root" THEN FALSE ELSE files[e].root
          /\ files'[e].pid = IF e = d /\ n = "pid" THEN None ELSE files[e].pid
    /\ UNCHANGED <<process, client, environment, reused, before>>

LEMMA UnlinkSteps ==
    ASSUME Types, NEW c \in Command, Unlink(c)
    PROVE  \E n \in doomed[c], d \in Dir : Unlinks(c, n, d)
<1>1. PICK n \in doomed[c], d \in Dir :
        /\ files' = [files EXCEPT ![d][n] = Empty[n]]
        /\ d = IF c \in Launcher THEN DirFor[c] ELSE at[c]
        /\ doomed' = [doomed EXCEPT ![c] = @ \ {n}]
  BY DirAssumption DEF Unlink, Types, PlaceTypes, AtDir, Command
<1>2. n \in Name
  BY <1>1 DEF Types, RestTypes
<1>3. \A e \in Dir : files'[e] = IF e = d THEN [files[e] EXCEPT ![n] = Empty[n]] ELSE files[e]
  BY <1>1 DEF Types, FileTypes
<1>4. Empty["sock"] = None /\ Empty["root"] = FALSE /\ Empty["pid"] = None
  BY DEF Empty
<1>5. \A e \in Dir :
        /\ files'[e].sock = IF e = d /\ n = "sock" THEN None ELSE files[e].sock
        /\ files'[e].root = IF e = d /\ n = "root" THEN FALSE ELSE files[e].root
        /\ files'[e].pid = IF e = d /\ n = "pid" THEN None ELSE files[e].pid
  <2>1. LET f == [files[d] EXCEPT ![n] = Empty[n]] IN
        /\ n = "sock" => f.sock = None /\ f.root = files[d].root /\ f.pid = files[d].pid
        /\ n = "root" => f.sock = files[d].sock /\ f.root = FALSE /\ f.pid = files[d].pid
        /\ n = "pid" => f.sock = files[d].sock /\ f.root = files[d].root /\ f.pid = None
    BY <1>4 DEF Types, FileTypes
  <2> QED
    BY <1>2, <1>3, <2>1 DEF Name
<1>6. UNCHANGED <<process, client, environment, reused, before>>
  BY DEF Unlink
<1> QED
  BY <1>1, <1>2, <1>5, <1>6 DEF Unlinks

LEMMA UnlinkKeepsAddressed ==
    ASSUME Types, Addressed, NEW c \in Command, Unlink(c)
    PROVE  Addressed'
<1>0. \A b \in Command : doomed[b] \in SUBSET Name
  BY DEF Types, RestTypes
<1>1. PICK n \in doomed[c], d \in Dir : Unlinks(c, n, d)
  BY UnlinkSteps
<1>2. \A p \in Launcher : doomed'[p] \subseteq doomed[p]
  BY <1>1 DEF Unlinks, Types, RestTypes, Command
<1>3. None \notin Launcher
  BY NoneAssumption DEF Command
<1>4. \A e \in Dir : \A p \in Launcher :
        files'[e].sock = p \/ files'[e].pid = p => DirFor[p] = e
  <2>1. \A e \in Dir : /\ files'[e].sock \in {files[e].sock, None}
                       /\ files'[e].pid \in {files[e].pid, None}
    BY <1>1 DEF Unlinks
  <2> QED
    BY <1>3, <2>1 DEF Addressed
<1>5. \A p \in Launcher : doomed'[p] # {} => daemon'[p] = "cleaning"
  BY <1>1, <1>2 DEF Unlinks, Addressed
<1>6. \A b \in Command : pc'[b] \in WithPid => DirFor[pid'[b]] = at'[b]
  BY <1>1 DEF Unlinks, Addressed
<1> QED
  BY <1>4, <1>5, <1>6 DEF Addressed

LEMMA DaemonKeepsAddressed ==
    ASSUME Types, Addressed, NEW p \in Launcher,
           Run(p) \/ SignalStops(p) \/ FinishDraining(p) \/ Die(p) \/ ReusePid(p)
    PROVE  Addressed'
<1>0. /\ p \in Command /\ DirFor[p] \in Dir /\ FileTypes /\ ProcessTypes /\ RestTypes
      /\ pc \in [Command -> Anywhere] /\ Launcher \subseteq Command
  BY DirAssumption DEF Types, Command, PlaceTypes
<1>1. /\ UNCHANGED lookup
      /\ \A b \in Command : pc'[b] \in WithPid => pc'[b] = pc[b]
      /\ \A q \in Launcher : doomed'[q] # {} =>
            \/ doomed'[q] = doomed[q] /\ daemon'[q] = daemon[q]
            \/ daemon'[q] = "cleaning"
  <2>1. CASE Run(p)
    <3>1. UNCHANGED <<lookup, pc, doomed>>
      BY <2>1 DEF Run, WritePid, Serve, HandlerStops, RaiseFlag, LeaveLoop, Exit, Reap
    <3>2. \A q \in Launcher : doomed[q] # {} => daemon'[q] = daemon[q]
      BY <1>0, <2>1
      DEF Run, WritePid, Serve, HandlerStops, RaiseFlag, LeaveLoop, Exit, Reap, ProcessTypes,
          Addressed
    <3> QED
      BY <3>1, <3>2
  <2>2. CASE SignalStops(p) \/ FinishDraining(p) \/ ReusePid(p)
    BY <1>0, <2>2 DEF SignalStops, RaiseFlag, FinishDraining, ReusePid, ProcessTypes, RestTypes
  <2>3. CASE Die(p)
    BY <1>0, <2>3 DEF Die, Alive, ProcessTypes, RestTypes, WithPid
  <2> QED
    BY <2>1, <2>2, <2>3
<1>2. \A d \in Dir :
        /\ files'[d].sock = files[d].sock
        /\ files'[d].pid = files[d].pid \/ (files'[d].pid = p /\ DirFor[p] = d)
  <2>1. CASE WritePid(p)
    BY <1>0, <2>1 DEF WritePid, FileTypes
  <2>2. CASE ~WritePid(p)
    BY <2>2 DEF Run, Serve, HandlerStops, LeaveLoop, Exit, Reap, SignalStops,
                FinishDraining, Die, ReusePid
  <2> QED
    BY <2>1, <2>2
<1> QED
  BY <1>1, <1>2 DEF Addressed

LEMMA NextAddressed == Types /\ Past /\ Addressed /\ [Next]_vars => Addressed'
<1> SUFFICES ASSUME Types, Past, Addressed, [Next]_vars PROVE Addressed'
  OBVIOUS
<1>1. CASE Next
  <2>1. ASSUME NEW c \in Command, Begin(c) \/ Act(c) \/ Unlink(c) PROVE Addressed'
    BY <2>1, LookUpKeepsAddressed, LaunchKeepsAddressed, ClientKeepsAddressed,
       UnlinkKeepsAddressed
    DEF Act, Stopping
  <2>2. ASSUME NEW p \in Launcher,
               Run(p) \/ SignalStops(p) \/ FinishDraining(p) \/ Die(p) \/ ReusePid(p)
        PROVE  Addressed'
    BY <2>2, DaemonKeepsAddressed
  <2> QED
    BY <1>1, <2>1, <2>2 DEF Next
<1>2. CASE UNCHANGED vars
  BY <1>2 DEF vars, Addressed
<1> QED
  BY <1>1, <1>2

-----------------------------------------------------------------------------
(* Directories as leases.  Outside SELFCI_MQ_RUNTIME_DIR every daemon has  *)
(* a directory named after its own PID.                                    *)

\* Of an environment: those who launch in it have a directory each, or
\* nobody stops a daemon in it.
OwnDirs(e) == \A p, q \in Launcher \cap e.given : DirFor[p] = DirFor[q] => p = q
NoStop(e) == Stopper \cap e.given = {}

\* Only commands that were given run.
Invited == \A c \in Command : pc[c] # "idle" => c \in environment.given

LEMMA InitInvited == Init => Invited
BY DEF Init, Invited

LEMMA NextInvited == Types /\ Past /\ Invited /\ [Next]_vars => Invited'
<1> SUFFICES ASSUME Types, Past, Invited, [Next]_vars PROVE Invited'
  OBVIOUS
<1>0. pc \in [Command -> Anywhere] /\ Launcher \subseteq Command
  BY DEF Types, PlaceTypes, Command
<1>1. ASSUME environment' = environment, NEW c \in Command, c \in environment.given,
             \A b \in Command \ {c} : pc'[b] = pc[b]
      PROVE  Invited'
  BY <1>1 DEF Invited
<1>2. ASSUME environment' = environment, pc' = pc PROVE Invited'
  BY <1>2 DEF Invited
<1>3. ASSUME NEW c \in Command, Begin(c) \/ LookUp(c) PROVE Invited'
  <2>1. c \in environment.given
    BY <1>3
    DEF Begin, LookUp, Visit, EndScan, ReadPid, Connect, Hello, Inspect, Invited
  <2> QED
    BY <1>1, <1>3, <2>1, LookUpSteps DEF Others
<1>4. ASSUME NEW c \in Launcher, Launch(c) \/ Fork(c) PROVE Invited'
  BY <1>0, <1>1, <1>4 DEF Launch, Fork, Invited
<1>5. ASSUME NEW c \in Adder, Send(c) \/ Added(c) \/ Wait(c) \/ Waited(c) PROVE Invited'
  <2>1. c \in Command /\ c \in environment.given
    BY <1>5, AddSteps DEF Invited, Command, Launcher
  <2> QED
    BY <1>1, <1>5, <2>1, AddSteps DEF Others
<1>6. ASSUME NEW c \in Stopper, Stopping(c) \/ Kill(c) PROVE Invited'
  <2>1. c \in Command /\ c \in environment.given
    BY <1>6
    DEF Stopping, Arm, Stale, Ask, Asked, AwaitExit, Recheck, Confirm, Revalidate, List,
        Removed, Kill, Invited, Command
  <2>2. environment' = environment /\ \A b \in Command \ {c} : pc'[b] = pc[b]
    BY <1>0, <1>6, <2>1, StopSteps DEF Others, Kill
  <2> QED
    BY <1>1, <2>1, <2>2
<1>7. ASSUME NEW c \in Command, Unlink(c) PROVE Invited'
  BY <1>2, <1>7 DEF Unlink
<1>8. ASSUME NEW q \in Launcher,
             Run(q) \/ SignalStops(q) \/ FinishDraining(q) \/ Die(q) \/ ReusePid(q)
      PROVE  Invited'
  <2>1. CASE Die(q) /\ daemon[q] = "bound"
    <3>1. q \in environment.given
      BY <1>0, <2>1 DEF Past, Launched, Invited
    <3> QED
      BY <1>0, <1>1, <2>1, <3>1 DEF Die
  <2>2. CASE ~(Die(q) /\ daemon[q] = "bound")
    BY <1>2, <1>8, <2>2
    DEF Run, WritePid, Serve, HandlerStops, LeaveLoop, Exit, Reap, SignalStops,
        FinishDraining, Die, ReusePid
  <2> QED
    BY <2>1, <2>2
<1>9. CASE UNCHANGED vars
  BY <1>2, <1>9 DEF vars
<1> QED
  BY <1>3, <1>4, <1>5, <1>6, <1>7, <1>8, <1>9 DEF Next, Act, Stopping

\* What that means of the daemons there have been, and of who removes files.
Apart ==
    \A p, q \in Launcher :
        daemon[p] # "none" /\ daemon[q] # "none" /\ DirFor[p] = DirFor[q] => p = q
Unstopped == \A c \in Stopper : pc[c] = "idle"

LEMMA LaunchedAreGiven ==
    ASSUME Past, Invited, NEW p \in Launcher, daemon[p] # "none"
    PROVE  p \in environment.given
BY DEF Past, Launched, Invited, Command

LEMMA KeptApart ==
    ASSUME Past, Invited, OwnDirs(environment)
    PROVE  Apart
BY LaunchedAreGiven DEF OwnDirs, Apart

LEMMA KeptUnstopped ==
    ASSUME Invited, NoStop(environment)
    PROVE  Unstopped
BY DEF Invited, NoStop, Unstopped, Command

\* The socket is the daemon's from the bind until its own clean-up unlinks it.
Holding(p) ==
    \/ daemon[p] \in {"bound", "forked", "hooking", "serving", "draining"}
    \/ "sock" \in doomed[p]
Held == \A p \in Launcher : Holding(p) => files[DirFor[p]].sock = p

\* The other two files, from when they are written.
Kept ==
    \A p \in Launcher :
        /\ daemon[p] \in {"forked", "hooking", "serving", "draining"} =>
              files[DirFor[p]].root = TRUE
        /\ daemon[p] \in {"hooking", "serving", "draining"} => files[DirFor[p]].pid = p

\* Only daemons that have been launched have a socket.
Bound == \A d \in Dir : files[d].sock # None => daemon[files[d].sock] # "none"

LEMMA InitBound == Init => Bound
BY DEF Init, Bound, Empty

LEMMA InitHeld == Init => Held /\ Kept
BY DEF Init, Held, Holding, Kept, Command

\* Steps that neither write a file nor bring a daemon nearer to needing one.
Quiet ==
    /\ files' = files
    /\ \A p \in Launcher :
          /\ Holding(p)' => Holding(p)
          /\ daemon'[p] \in {"forked", "hooking", "serving", "draining"} =>
                daemon[p] \in {"forked", "hooking", "serving", "draining"}
          /\ daemon'[p] \in {"hooking", "serving", "draining"} =>
                daemon[p] \in {"hooking", "serving", "draining"}

Unquiet ==
    \/ \E c \in Launcher : Launch(c) \/ Fork(c) \/ WritePid(c)
    \/ \E c \in Command : Unlink(c)

LEMMA QuietSteps ==
    ASSUME Types, Past, Addressed, Next
    PROVE  Quiet \/ Unquiet
<1>0. /\ ProcessTypes /\ RestTypes
      /\ Launcher \subseteq Command
  BY DEF Types, Command
<1>1. ASSUME files' = files, daemon' = daemon,
             \A p \in Launcher : doomed'[p] \subseteq doomed[p]
      PROVE  Quiet
  BY <1>1 DEF Quiet, Holding
<1>2. ASSUME NEW c \in Command, Begin(c) \/ LookUp(c) PROVE Quiet
  BY <1>1, <1>2, LookUpSteps
<1>3. ASSUME NEW c \in Adder, Send(c) \/ Added(c) \/ Wait(c) \/ Waited(c) PROVE Quiet
  BY <1>1, <1>3, AddSteps
<1>4. ASSUME NEW c \in Stopper, Stopping(c) PROVE Quiet
  <2>1. c \notin Launcher
    BY KindAssumption
  <2> QED
    BY <1>0, <1>1, <1>4, <2>1, StopSteps
<1>5. ASSUME NEW c \in Stopper, Kill(c) PROVE Quiet
  <2>1. CASE Alive(pid[c])
    <3>1. /\ files' = files
          /\ daemon' = [daemon EXCEPT ![pid[c]] = "killed"]
          /\ doomed' = [doomed EXCEPT ![pid[c]] = {}]
      BY <1>5, <2>1 DEF Kill
    <3>2. ASSUME NEW p \in Launcher
          PROVE  \/ daemon'[p] = daemon[p] /\ doomed'[p] = doomed[p]
                 \/ daemon'[p] = "killed" /\ doomed'[p] = {}
      <4>1. CASE p # pid[c]
        BY <1>0, <3>1, <4>1 DEF ProcessTypes, RestTypes
      <4>2. CASE p = pid[c]
        BY <1>0, <3>1, <4>2 DEF ProcessTypes, RestTypes
      <4> QED
        BY <4>1, <4>2
    <3> QED
      BY <3>1, <3>2 DEF Quiet, Holding
  <2>2. CASE ~Alive(pid[c])
    BY <1>1, <1>5, <2>2 DEF Kill
  <2> QED
    BY <2>1, <2>2
<1>6. ASSUME NEW p \in Launcher,
             Run(p) \/ SignalStops(p) \/ FinishDraining(p) \/ Die(p) \/ ReusePid(p),
             ~WritePid(p)
      PROVE  Quiet
  <2>1. CASE HandlerStops(p) \/ SignalStops(p) \/ ReusePid(p)
    BY <1>1, <2>1 DEF HandlerStops, SignalStops, ReusePid
  <2>2. CASE Serve(p) \/ LeaveLoop(p) \/ Exit(p) \/ Reap(p)
    BY <1>0, <2>2 DEF Serve, LeaveLoop, Exit, Reap, Quiet, Holding, ProcessTypes
  <2>3. CASE FinishDraining(p)
    BY <1>0, <2>3 DEF FinishDraining, Quiet, Holding, ProcessTypes, RestTypes
  <2>4. CASE Die(p)
    BY <1>0, <2>4 DEF Die, Quiet, Holding, ProcessTypes, RestTypes
  <2> QED
    BY <1>6, <2>1, <2>2, <2>3, <2>4 DEF Run
<1> QED
  BY <1>2, <1>3, <1>4, <1>5, <1>6 DEF Next, Act, Stopping, Unquiet

LEMMA NextBound ==
    ASSUME Types, Past, Addressed, Bound, [Next]_vars
    PROVE  Bound'
<1>0. /\ ProcessTypes /\ FileTypes
      /\ DirFor \in [Launcher -> Dir]
      /\ None \notin Launcher
  BY DirAssumption, NoneAssumption DEF Types, Command
<1>1. ASSUME Next, NEW p \in Launcher, daemon[p] # "none" PROVE daemon'[p] # "none"
  BY <1>1, DaemonsGrow DEF Past, Grows
<1>2. ASSUME Next, \A d \in Dir : files'[d].sock \in {files[d].sock, None} PROVE Bound'
  BY <1>0, <1>1, <1>2 DEF Bound, FileTypes
<1>3. CASE Next /\ Quiet
  BY <1>2, <1>3 DEF Quiet
<1>4. ASSUME Next, NEW c \in Launcher, Launch(c) PROVE Bound'
  <2>1. CASE files' = files
    BY <1>2, <1>4, <2>1
  <2>2. CASE files' = [files EXCEPT ![DirFor[c]].sock = c] /\ Become(c, "bound")
    <3>1. \A d \in Dir : files'[d].sock = IF d = DirFor[c] THEN c ELSE files[d].sock
      BY <1>0, <2>2 DEF FileTypes
    <3>2. daemon'[c] = "bound"
      BY <1>0, <2>2 DEF ProcessTypes
    <3>3. ASSUME NEW d \in Dir, d # DirFor[c], files[d].sock # None
          PROVE  daemon'[files[d].sock] # "none"
      BY <1>0, <1>1, <1>4, <3>3 DEF Bound, FileTypes
    <3> QED
      BY <3>1, <3>2, <3>3 DEF Bound
  <2> QED
    BY <1>4, <2>1, <2>2 DEF Launch
<1>5. ASSUME Next, NEW c \in Launcher, Fork(c) \/ WritePid(c) PROVE Bound'
  <2>1. \A d \in Dir : files'[d].sock = files[d].sock
    BY <1>0, <1>5 DEF Fork, WritePid, FileTypes
  <2> QED
    BY <1>2, <1>5, <2>1
<1>6. ASSUME Next, NEW c \in Command, Unlink(c) PROVE Bound'
  <2>1. \A d \in Dir : files'[d].sock \in {files[d].sock, None}
    BY <1>6, UnlinkSteps DEF Unlinks
  <2> QED
    BY <1>2, <1>6, <2>1
<1>7. CASE UNCHANGED vars
  BY <1>7 DEF vars, Bound
<1> QED
  BY <1>3, <1>4, <1>5, <1>6, <1>7, QuietSteps DEF Unquiet

\* What a stop client removes belongs to nobody any more.
LEMMA StopRemovesDead ==
    ASSUME Types, Past, Apart \/ Unstopped, Addressed,
           NEW c \in Command, NEW n \in doomed[c], c \notin Launcher,
           NEW p \in Launcher, DirFor[p] = at[c]
    PROVE  daemon[p] \in {"none", "gone"} /\ doomed[p] = {}
<1>1. c \in Stopper
  BY DEF Command
<1>2. pc[c] = "unlink"
  BY <1>1 DEF Types, PlaceTypes
<1>3. Apart
  BY <1>1, <1>2 DEF Unstopped
<1>4. pid[c] \in Launcher /\ daemon[pid[c]] = "gone" /\ DirFor[pid[c]] = at[c]
  BY <1>1, <1>2 DEF Past, Reported, Addressed, WithPid
<1>5. daemon[p] = "none" \/ p = pid[c]
  BY <1>3, <1>4 DEF Apart
<1> QED
  BY <1>4, <1>5 DEF Addressed

LEMMA NextHeld ==
    ASSUME Apart \/ Unstopped, Types, Past, Addressed, Held, [Next]_vars
    PROVE  Held'
<1>0. /\ ProcessTypes /\ RestTypes /\ FileTypes
      /\ Launcher \subseteq Command
      /\ DirFor \in [Launcher -> Dir]
      /\ None \notin Launcher
  BY DirAssumption, NoneAssumption DEF Types, Command
<1>1. CASE Quiet
  BY <1>1 DEF Quiet, Held
<1>2. ASSUME NEW c \in Launcher, Launch(c) PROVE Held'
  <2>1. CASE files' = files /\ daemon' = daemon
    BY <1>2, <2>1 DEF Launch, Held, Holding
  <2>2. CASE files[DirFor[c]].sock = None /\ files' = [files EXCEPT ![DirFor[c]].sock = c]
    <3>1. \A d \in Dir : files'[d].sock = IF d = DirFor[c] THEN c ELSE files[d].sock
      BY <1>0, <2>2 DEF FileTypes
    <3>2. \A p \in Launcher \ {c} : Holding(p)' => Holding(p)
      BY <1>0, <1>2 DEF Launch, Holding, ProcessTypes
    <3>3. \A p \in Launcher \ {c} : Holding(p) => DirFor[p] # DirFor[c]
      BY <1>0, <2>2 DEF Held
    <3> QED
      BY <1>0, <3>1, <3>2, <3>3 DEF Held
  <2> QED
    BY <1>2, <2>1, <2>2 DEF Launch
<1>3. ASSUME NEW c \in Launcher, Fork(c) PROVE Held'
  <2>1. \A d \in Dir : files'[d].sock = files[d].sock
    BY <1>0, <1>3 DEF Fork, FileTypes
  <2>2. Holding(c)
    BY <1>3 DEF Fork, Past, Launched, Holding
  <2>3. \A p \in Launcher \ {c} : Holding(p)' => Holding(p)
    BY <1>0, <1>3 DEF Fork, Holding, ProcessTypes, RestTypes
  <2> QED
    BY <1>0, <2>1, <2>2, <2>3 DEF Held
<1>4. ASSUME NEW c \in Launcher, WritePid(c) PROVE Held'
  <2>1. \A d \in Dir : files'[d].sock = files[d].sock
    BY <1>0, <1>4 DEF WritePid, FileTypes
  <2>2. \A p \in Launcher : Holding(p)' => Holding(p)
    BY <1>0, <1>4 DEF WritePid, Holding, ProcessTypes
  <2> QED
    BY <1>0, <2>1, <2>2 DEF Held
<1>5. ASSUME NEW c \in Command, Unlink(c) PROVE Held'
  <2>1. PICK n \in doomed[c], d \in Dir : Unlinks(c, n, d)
    BY <1>5, UnlinkSteps
  <2>2. \A p \in Launcher : Holding(p)' => Holding(p)
    BY <1>0, <2>1 DEF Unlinks, Holding, RestTypes
  <2>3. ASSUME NEW p \in Launcher, Holding(p)', DirFor[p] = d PROVE n # "sock"
    <3>1. CASE c \notin Launcher
      BY <1>0, <2>1, <2>2, <2>3, <3>1, StopRemovesDead DEF Unlinks, Holding
    <3>2. CASE c \in Launcher /\ n = "sock"
      <4>1. Holding(c) /\ DirFor[c] = d
        BY <2>1, <3>2 DEF Holding, Unlinks
      <4>2. p = c
        BY <2>2, <2>3, <4>1, <3>2 DEF Held
      <4>3. daemon[c] = "cleaning" /\ daemon' = daemon
        BY <2>1, <3>2 DEF Addressed, Unlinks
      <4>4. "sock" \notin doomed'[c]
        BY <1>0, <2>1, <3>2 DEF Unlinks, RestTypes
      <4> QED
        BY <2>3, <4>2, <4>3, <4>4 DEF Holding
    <3> QED
      BY <3>1, <3>2
  <2>4. \A e \in Dir : files'[e].sock = IF e = d /\ n = "sock" THEN None ELSE files[e].sock
    BY <2>1 DEF Unlinks
  <2> QED
    BY <1>0, <2>2, <2>3, <2>4 DEF Held
<1>6. CASE UNCHANGED vars
  BY <1>6 DEF vars, Held, Holding
<1> QED
  BY <1>1, <1>2, <1>3, <1>4, <1>5, <1>6, QuietSteps DEF Unquiet

LEMMA NextKept ==
    ASSUME Apart, Types, Past, Addressed, Kept, [Next]_vars
    PROVE  Kept'
<1>0. /\ ProcessTypes /\ RestTypes /\ FileTypes
      /\ Launcher \subseteq Command
      /\ DirFor \in [Launcher -> Dir]
  BY DirAssumption DEF Types, Command
<1>1. CASE Quiet
  BY <1>1 DEF Quiet, Kept
<1>2. ASSUME NEW c \in Launcher, Launch(c) PROVE Kept'
  <2>1. \A d \in Dir : files'[d].root = files[d].root /\ files'[d].pid = files[d].pid
    BY <1>0, <1>2 DEF Launch, FileTypes
  <2>2. daemon'[c] = "bound" \/ daemon' = daemon
    BY <1>0, <1>2 DEF Launch, ProcessTypes
  <2>3. \A p \in Launcher \ {c} : daemon'[p] = daemon[p]
    BY <1>0, <1>2 DEF Launch, ProcessTypes
  <2> QED
    BY <1>0, <2>1, <2>2, <2>3 DEF Kept
<1>3. ASSUME NEW c \in Launcher, Fork(c) PROVE Kept'
  <2>1. \A d \in Dir : /\ files'[d].root = IF d = DirFor[c] THEN TRUE ELSE files[d].root
                       /\ files'[d].pid = files[d].pid
    BY <1>0, <1>3 DEF Fork, FileTypes
  <2>2. daemon'[c] \in {"forked", "cleaning"}
    BY <1>0, <1>3 DEF Fork, ProcessTypes
  <2>3. \A p \in Launcher \ {c} : daemon'[p] = daemon[p]
    BY <1>0, <1>3 DEF Fork, ProcessTypes
  <2> QED
    BY <1>0, <2>1, <2>2, <2>3 DEF Kept
<1>4. ASSUME NEW c \in Launcher, WritePid(c) PROVE Kept'
  <2>1. \A d \in Dir : /\ files'[d].pid = IF d = DirFor[c] THEN c ELSE files[d].pid
                       /\ files'[d].root = files[d].root
    BY <1>0, <1>4 DEF WritePid, FileTypes
  <2>2. daemon[c] = "forked"
    BY <1>4 DEF WritePid
  <2>3. \A p \in Launcher \ {c} :
          /\ daemon'[p] = daemon[p]
          /\ daemon[p] # "none" => DirFor[p] # DirFor[c]
    BY <1>0, <1>4 DEF WritePid, ProcessTypes, Apart
  <2> QED
    BY <1>0, <2>1, <2>2, <2>3 DEF Kept
<1>5. ASSUME NEW c \in Command, Unlink(c) PROVE Kept'
  <2>1. PICK n \in doomed[c], d \in Dir : Unlinks(c, n, d)
    BY <1>5, UnlinkSteps
  <2>2. ASSUME NEW p \in Launcher, DirFor[p] = d
        PROVE  daemon[p] \in {"none", "gone", "cleaning"}
    <3>1. CASE c \notin Launcher
      BY <2>1, <2>2, <3>1, StopRemovesDead DEF Unlinks
    <3>2. CASE c \in Launcher
      <4>1. daemon[c] = "cleaning" /\ DirFor[c] = d
        BY <2>1, <3>2 DEF Unlinks, Addressed
      <4>2. daemon[p] = "none" \/ p = c
        BY <2>2, <3>2, <4>1 DEF Apart
      <4> QED
        BY <4>1, <4>2
    <3> QED
      BY <3>1, <3>2
  <2>3. /\ \A e \in Dir \ {d} : files'[e].pid = files[e].pid /\ files'[e].root = files[e].root
        /\ daemon' = daemon
    BY <2>1 DEF Unlinks
  <2> QED
    BY <1>0, <2>2, <2>3 DEF Kept
<1>6. CASE UNCHANGED vars
  BY <1>6 DEF vars, Kept
<1> QED
  BY <1>1, <1>2, <1>3, <1>4, <1>5, <1>6, QuietSteps DEF Unquiet

\* What is known of daemons and files when nobody's removal meets another's files ...
Leased == Types /\ Past /\ Invited /\ Addressed /\ Bound /\ Held

LEMMA InitLeased == Init => Leased
BY InitTypes, InitPast, InitInvited, InitAddressed, InitBound, InitHeld DEF Leased

LEMMA NextLeased ==
    ASSUME \A e \in Environment : OwnDirs(e) \/ NoStop(e)
    PROVE  Leased /\ [Next]_vars => Leased'
<1> SUFFICES ASSUME Leased, [Next]_vars PROVE Leased'
  OBVIOUS
<1>1. Apart \/ Unstopped
  BY KeptApart, KeptUnstopped DEF Leased, Types, RestTypes
<1> QED
  BY <1>1, NextTypes, NextPast, NextInvited, NextAddressed, NextBound, NextHeld DEF Leased

\* ... and when each launcher has a directory of its own.
LEMMA NextRuntime ==
    ASSUME \A e \in Environment : OwnDirs(e)
    PROVE  Leased /\ Kept /\ [Next]_vars => (Leased /\ Kept)'
<1> SUFFICES ASSUME Leased, Kept, [Next]_vars PROVE (Leased /\ Kept)'
  OBVIOUS
<1>1. Apart
  BY KeptApart DEF Leased, Types, RestTypes
<1> QED
  BY <1>1, NextLeased, NextKept DEF Leased

(***************************************************************************)
(* With a directory per daemon, a daemon's three files are its own from    *)
(* the moment they are written until it removes them itself, whatever      *)
(* commands clean up meanwhile (remove_daemon_dir_if_pid).                 *)
(***************************************************************************)
THEOREM RuntimeKeptHolds ==
    ASSUME \A e \in Environment : OwnDirs(e)
    PROVE  Spec => []RuntimeKept
<1>1. Init => Leased /\ Kept
  BY InitLeased, InitHeld
<1>2. Leased /\ Kept => RuntimeKept
  <2> SUFFICES ASSUME Types, Held, Kept, NEW p \in Launcher,
                      daemon[p] \in {"hooking", "serving", "draining"}
               PROVE  files[DirFor[p]] = [sock |-> p, root |-> TRUE, pid |-> p]
    BY DEF RuntimeKept, Leased
  <2>1. /\ files[DirFor[p]] \in [sock : Launcher \cup {None}, root : BOOLEAN,
                                 pid : Launcher \cup {None}]
        /\ files[DirFor[p]].sock = p
        /\ files[DirFor[p]].root = TRUE
        /\ files[DirFor[p]].pid = p
    BY DirAssumption DEF Types, FileTypes, Held, Holding, Kept
  <2> QED
    BY <2>1
<1> QED
  BY <1>1, <1>2, NextRuntime, PTL DEF Spec

(***************************************************************************)
(* Whoever passed the check that no daemon runs, the bind lets only one    *)
(* daemon of a directory process candidates: in environments with a        *)
(* directory each, or without a stop (daemonize_background).               *)
(***************************************************************************)
THEOREM OneServingHolds ==
    ASSUME \A e \in Environment : OwnDirs(e) \/ NoStop(e)
    PROVE  Spec => []OneServingPerDirectory
<1>1. Leased => OneServingPerDirectory
  <2> SUFFICES ASSUME Held, NEW p \in Launcher, NEW q \in Launcher,
                      Stage(p) = "working", Stage(q) = "working", DirFor[p] = DirFor[q]
               PROVE  p = q
    BY DEF OneServingPerDirectory, Lease!Exclusive, Leased
  <2>1. daemon[p] \in {"serving", "draining"} /\ daemon[q] \in {"serving", "draining"}
    BY DEF Stage
  <2> QED
    BY <2>1 DEF Held, Holding
<1> QED
  BY <1>1, InitLeased, NextLeased, PTL DEF Spec

\* A step changes the state of one daemon.
LEMMA OneDaemonSteps ==
    ASSUME Types, Next
    PROVE  \/ daemon' = daemon
           \/ \E p \in Launcher, s \in {"bound", "forked", "hooking", "serving", "draining",
                                      "cleaning", "killed", "gone"} : Become(p, s)
<1>1. ASSUME NEW c \in Command, Begin(c) \/ Act(c) \/ Unlink(c)
      PROVE  \/ daemon' = daemon
             \/ \E p \in Launcher, s \in {"bound", "forked", "cleaning", "killed"} : Become(p, s)
  <2>1. CASE Begin(c) \/ LookUp(c)
    BY <2>1, LookUpSteps
  <2>2. CASE c \in Launcher /\ (Launch(c) \/ Fork(c))
    BY <2>2 DEF Launch, Fork
  <2>3. CASE c \in Adder /\ (Send(c) \/ Added(c) \/ Wait(c) \/ Waited(c))
    BY <2>3, AddSteps
  <2>4. CASE c \in Stopper /\ Stopping(c)
    BY <2>4, StopSteps
  <2>5. CASE c \in Stopper /\ Kill(c)
    <3>1. pid[c] \in Launcher
      BY <2>5 DEF Kill, Types, PlaceTypes, WithPid
    <3> QED
      BY <2>5, <3>1 DEF Kill
  <2>6. CASE Unlink(c)
    BY <2>6 DEF Unlink
  <2> QED
    BY <1>1, <2>1, <2>2, <2>3, <2>4, <2>5, <2>6 DEF Act, Stopping
<1>2. ASSUME NEW p \in Launcher,
             Run(p) \/ SignalStops(p) \/ FinishDraining(p) \/ Die(p) \/ ReusePid(p)
      PROVE  \/ daemon' = daemon
             \/ \E s \in {"hooking", "serving", "draining", "cleaning", "gone"} : Become(p, s)
  BY <1>2
  DEF Run, WritePid, Serve, HandlerStops, LeaveLoop, Exit, Reap, SignalStops,
      FinishDraining, Die, ReusePid
<1> QED
  BY <1>1, <1>2 DEF Next

\* Where the sockets stay, a daemon's step is one of its lease or none.
LEMMA StageSteps ==
    ASSUME Types, Past, Addressed, Next,
           \A d \in Dir : files'[d].sock = files[d].sock,
           \A p \in Launcher : daemon[p] = "none" => daemon'[p] = "none"
    PROVE  Lease!Next \/ UNCHANGED Lease!vars
<1>1. [d \in Dir |-> files'[d].sock] = [d \in Dir |-> files[d].sock]
  OBVIOUS
<1>2. CASE daemon' = daemon
  BY <1>1, <1>2 DEF Lease!vars, Stage
<1>3. ASSUME NEW p \in Launcher, NEW s, Become(p, s)
      PROVE  Lease!Next \/ UNCHANGED Lease!vars
  <2>1. \A q \in Launcher : daemon'[q] = IF q = p THEN s ELSE daemon[q]
    BY <1>3 DEF Types, ProcessTypes
  <2>2. Grows(daemon[p], s)
    BY <2>1, DaemonsGrow DEF Past
  <2>3. daemon[p] = "none" => s = "none"
    BY <2>1
  <2>4. \A q \in Launcher \ {p} : Stage(q)' = Stage(q)
    BY <2>1 DEF Stage
  <2>5. \/ Stage(p)' = Stage(p)
        \/ Stage(p) = "starting" /\ Stage(p)' = "working"
        \/ Stage(p) \in {"starting", "working"} /\ Stage(p)' = "leaving"
        \/ Stage(p) \in {"starting", "working", "leaving"} /\ Stage(p)' = "dead"
    BY <2>1, <2>2, <2>3 DEF Grows, Stage
  <2>6. [q \in Launcher |-> Stage(q)'] =
           [[q \in Launcher |-> Stage(q)] EXCEPT ![p] = Stage(p)']
    BY <2>4
  <2>7. CASE Stage(p)' = Stage(p)
    BY <1>1, <2>4, <2>7 DEF Lease!vars
  <2>8. CASE Stage(p) = "starting" /\ Stage(p)' = "working"
    BY <1>1, <2>6, <2>8 DEF Lease!Next, Lease!Work
  <2>9. CASE Stage(p) \in {"starting", "working"} /\ Stage(p)' = "leaving"
    BY <1>1, <2>6, <2>9 DEF Lease!Next, Lease!Leave
  <2>10. CASE Stage(p) \in {"starting", "working", "leaving"} /\ Stage(p)' = "dead"
    BY <1>1, <2>6, <2>10 DEF Lease!Next, Lease!Die
  <2> QED
    BY <2>5, <2>7, <2>8, <2>9, <2>10
<1> QED
  BY <1>2, <1>3, OneDaemonSteps

LEMMA NextLease ==
    ASSUME Apart \/ Unstopped, Types, Past, Addressed, Bound, Held, [Next]_vars
    PROVE  [Lease!Next]_(Lease!vars)
<1>0. /\ ProcessTypes /\ RestTypes /\ FileTypes
      /\ Launcher \subseteq Command
      /\ DirFor \in [Launcher -> Dir]
      /\ None \notin Launcher
  BY DirAssumption, NoneAssumption DEF Types, Command
<1>1. CASE Next /\ Quiet
  <2>1. ASSUME NEW p \in Launcher, daemon[p] = "none" PROVE daemon'[p] = "none"
    <3>1. Grows("none", daemon'[p])
      BY <1>1, <2>1, DaemonsGrow DEF Past
    <3>2. ~Holding(p)
      BY <2>1 DEF Holding, Addressed
    <3>3. daemon'[p] # "bound"
      BY <1>1, <3>2 DEF Quiet, Holding
    <3> QED
      BY <3>1, <3>3 DEF Grows
  <2> QED
    BY <1>1, <2>1, StageSteps DEF Quiet
<1>2. ASSUME NEW p \in Launcher, Launch(p), Next PROVE [Lease!Next]_(Lease!vars)
  <2>1. CASE files' = files /\ daemon' = daemon
    BY <2>1 DEF Lease!vars, Stage
  <2>2. CASE /\ files[DirFor[p]].sock = None
             /\ files' = [files EXCEPT ![DirFor[p]].sock = p]
             /\ Become(p, "bound")
    <3>1. daemon[p] = "none" /\ daemon'[p] = "bound"
      BY <1>0, <1>2, <2>2 DEF Launch, Past, Launched, ProcessTypes
    <3>2. Stage(p) = "new" /\ Stage(p)' = "starting"
      BY <3>1 DEF Stage
    <3>3. \A q \in Launcher \ {p} : Stage(q)' = Stage(q)
      BY <1>0, <2>2 DEF Stage, ProcessTypes
    <3>4. \A d \in Dir : files'[d].sock = IF d = DirFor[p] THEN p ELSE files[d].sock
      BY <1>0, <2>2 DEF FileTypes
    <3>5. [q \in Launcher |-> Stage(q)'] =
             [[q \in Launcher |-> Stage(q)] EXCEPT ![p] = "starting"]
      BY <3>2, <3>3
    <3>6. [d \in Dir |-> files'[d].sock] =
             [[d \in Dir |-> files[d].sock] EXCEPT ![DirFor[p]] = p]
      BY <1>0, <3>4
    <3>7. DirFor[p] \in Dir
      BY <1>0
    <3> QED
      BY <2>2, <3>2, <3>5, <3>6, <3>7 DEF Lease!Next, Lease!Take
  <2> QED
    BY <1>2, <2>1, <2>2 DEF Launch
<1>3. ASSUME NEW p \in Launcher, Fork(p) \/ WritePid(p), Next
      PROVE  [Lease!Next]_(Lease!vars)
  <2>1. \A d \in Dir : files'[d].sock = files[d].sock
    BY <1>0, <1>3 DEF Fork, WritePid, FileTypes
  <2>2. \A q \in Launcher : daemon[q] = "none" => daemon'[q] = "none"
    BY <1>0, <1>3 DEF Fork, WritePid, Past, Launched, ProcessTypes
  <2> QED
    BY <1>3, <2>1, <2>2, StageSteps
<1>4. ASSUME NEW c \in Command, Unlink(c) PROVE [Lease!Next]_(Lease!vars)
  <2>1. PICK n \in doomed[c], d \in Dir : Unlinks(c, n, d)
    BY <1>4, UnlinkSteps
  <2>2. [p \in Launcher |-> Stage(p)'] = [p \in Launcher |-> Stage(p)]
    BY <2>1 DEF Unlinks, Stage
  <2>3. \A e \in Dir : files'[e].sock = IF e = d /\ n = "sock" THEN None ELSE files[e].sock
    BY <2>1 DEF Unlinks
  <2>4. CASE n # "sock" \/ files[d].sock = None
    <3>1. [e \in Dir |-> files'[e].sock] = [e \in Dir |-> files[e].sock]
      BY <2>3, <2>4
    <3> QED
      BY <2>2, <3>1 DEF Lease!vars
  <2>5. CASE n = "sock" /\ files[d].sock # None
    <3>1. PICK p \in Launcher : files[d].sock = p /\ DirFor[p] = d
      BY <1>0, <2>5 DEF FileTypes, Addressed
    <3>2. Stage(p) \in {"leaving", "dead"}
      <4>1. CASE c \notin Launcher
        <5>1. daemon[p] \in {"none", "gone"}
          BY <2>1, <3>1, <4>1, StopRemovesDead DEF Unlinks
        <5>2. daemon[p] # "none"
          BY <1>0, <3>1 DEF Bound
        <5> QED
          BY <5>1, <5>2 DEF Stage
      <4>2. CASE c \in Launcher
        <5>1. Holding(c) /\ DirFor[c] = d /\ daemon[c] = "cleaning"
          BY <2>1, <2>5, <4>2 DEF Holding, Unlinks, Addressed
        <5>2. p = c
          BY <3>1, <4>2, <5>1 DEF Held
        <5> QED
          BY <5>1, <5>2 DEF Stage
      <4> QED
        BY <4>1, <4>2
    <3>3. [e \in Dir |-> files'[e].sock] =
             [[e \in Dir |-> files[e].sock] EXCEPT ![DirFor[p]] = None]
      BY <2>3, <2>5, <3>1
    <3> QED
      BY <2>2, <3>1, <3>2, <3>3 DEF Lease!Next, Lease!Return, Lease!Reclaim
  <2> QED
    BY <2>4, <2>5
<1>5. CASE UNCHANGED vars
  BY <1>5 DEF vars, Lease!vars, Stage
<1> QED
  BY <1>1, <1>2, <1>3, <1>4, <1>5, QuietSteps DEF Unquiet

(***************************************************************************)
(* The daemons, their files and all that commands do to them implement the *)
(* lease: taken at a free directory, returned by a holder that finished    *)
(* its queue, reclaimed only from the dead, under the same condition       *)
(* (daemonize_background, run_daemon_loop, stop_daemon).                   *)
(***************************************************************************)
THEOREM LeaseImplemented ==
    ASSUME \A e \in Environment : OwnDirs(e) \/ NoStop(e)
    PROVE  Spec => ImplementsLease
<1>1. Init => Lease!Init
  BY DEF Init, Lease!Init, Stage, Empty
<1>2. Leased => Apart \/ Unstopped
  BY KeptApart, KeptUnstopped DEF Leased, Types, RestTypes
<1>3. Leased /\ [Next]_vars => [Lease!Next]_(Lease!vars)
  BY <1>2, NextLease DEF Leased
<1> QED
  BY <1>1, <1>3, InitLeased, NextLeased, PTL DEF Spec, ImplementsLease, Lease!Spec

-----------------------------------------------------------------------------
(* Scans.  A daemon that has served since a command began is either still  *)
(* ahead of its scan or the one it is dealing with.                        *)

Watching ==
    \A c \in Command : \A p \in before[c].serving :
        Serving(p) =>
            /\ pc[c] = "scan" => DirFor[p] \in todo[c]
            /\ pc[c] \in {"read", "connect", "hello"}
               /\ seeking[c] \in {"target", "running", "again"}
                  => DirFor[p] \in todo[c] \/ at[c] = DirFor[p]
            /\ pc[c] = "hello" /\ at[c] = DirFor[p] => peer[c] = p
            /\ c \in Stopper => pc[c] # "absent"

LEMMA InitWatching == Init => Watching
BY DEF Init, Watching

LEMMA StillServing ==
    ASSUME Types, Past, Next, NEW c \in Command, NEW p \in before'[c].serving, Serving(p)'
    PROVE  p \in Launcher /\ Serving(p)
<1>0. /\ RestTypes /\ ProcessTypes
      /\ before' \in [Command -> [serving : SUBSET Launcher, gone : SUBSET Launcher]]
  BY NextTypes DEF Types, RestTypes
<1>1. p \in Launcher
  BY <1>0
<1>2. Grows(daemon[p], daemon'[p]) /\ (flag[p] => flag'[p])
  BY <1>1, DaemonsGrow DEF Past
<1>3. CASE p \in before[c].serving
  BY <1>1, <1>2, <1>3 DEF Past, Recorded, Grows, Serving, ProcessTypes
<1>4. CASE p \notin before[c].serving
  <2>1. Begin(c)
    <3>1. ASSUME NEW b \in Command, Begin(b), b # c PROVE before'[c] = before[c]
      BY <1>0, <3>1 DEF Begin, RestTypes
    <3>2. ASSUME NEW b \in Command, Act(b) \/ Unlink(b) PROVE before' = before
      BY <3>2, AddSteps, StopSteps
      DEF Act, Stopping, LookUp, Visit, EndScan, ReadPid, Connect, Hello, Inspect, Launch, Fork,
          Kill, Unlink
    <3>3. ASSUME NEW q \in Launcher,
                 Run(q) \/ SignalStops(q) \/ FinishDraining(q) \/ Die(q) \/ ReusePid(q)
          PROVE  before' = before
      BY <3>3
      DEF Run, WritePid, Serve, HandlerStops, LeaveLoop, Exit, Reap, SignalStops,
          FinishDraining, Die, ReusePid
    <3> QED
      BY <1>4, <3>1, <3>2, <3>3 DEF Next
  <2> QED
    BY <1>1, <2>1 DEF Begin, Serving
<1> QED
  BY <1>1, <1>3, <1>4

LEMMA LookUpKeepsWatching ==
    ASSUME Apart, Types, Past, Addressed, Held, Kept, Watching, Next,
           NEW c \in Command, Begin(c) \/ LookUp(c)
    PROVE  Watching'
<1>0. /\ Others(c) /\ UNCHANGED <<files, process, doomed>>
      /\ LookUpTypes /\ TalkTypes /\ pc \in [Command -> Anywhere] /\ FileTypes
      /\ pc[c] \in AtDir => at[c] \in Dir
      /\ pc[c] \in WithPid => pid[c] \in Launcher
      /\ DirFor \in [Launcher -> Dir] /\ None \notin Launcher
  BY LookUpSteps, DirAssumption, NoneAssumption DEF Types, PlaceTypes, Command
<1>1. ASSUME NEW b \in Command, b # c, NEW p \in before'[b].serving, Serving(p)'
      PROVE  /\ pc'[b] = "scan" => DirFor[p] \in todo'[b]
             /\ pc'[b] \in {"read", "connect", "hello"}
                /\ seeking'[b] \in {"target", "running", "again"}
                   => DirFor[p] \in todo'[b] \/ at'[b] = DirFor[p]
             /\ pc'[b] = "hello" /\ at'[b] = DirFor[p] => peer'[b] = p
             /\ b \in Stopper => pc'[b] # "absent"
  BY <1>0, <1>1 DEF Watching, Others, Serving
<1>2. ASSUME NEW p \in before'[c].serving, Serving(p)'
      PROVE  /\ pc'[c] = "scan" => DirFor[p] \in todo'[c]
             /\ pc'[c] \in {"read", "connect", "hello"}
                /\ seeking'[c] \in {"target", "running", "again"}
                   => DirFor[p] \in todo'[c] \/ at'[c] = DirFor[p]
             /\ pc'[c] = "hello" /\ at'[c] = DirFor[p] => peer'[c] = p
             /\ c \in Stopper => pc'[c] # "absent"
  <2>1. p \in Launcher /\ Serving(p) /\ DirFor[p] \in Dir
    BY <1>0, <1>2, StillServing
  <2>2. files[DirFor[p]].sock = p /\ files[DirFor[p]].root = TRUE /\ files[DirFor[p]].pid = p
    BY <2>1 DEF Held, Holding, Kept, Serving
  <2>3. CASE Begin(c)
    BY <1>0, <2>1, <2>3 DEF Begin, Found, LookUpTypes
  <2>4. ASSUME LookUp(c) PROVE before' = before
    BY <2>4 DEF LookUp, Visit, EndScan, ReadPid, Connect, Hello, Inspect
  <2>5. CASE Visit(c)
    <3>1. DirFor[p] \in todo[c] /\ before' = before
      BY <1>2, <2>1, <2>5 DEF Watching, Visit
    <3> QED
      BY <1>0, <2>1, <2>2, <2>5, <3>1 DEF Visit, LookUpTypes
  <2>6. CASE EndScan(c)
    <3>1. before' = before
      BY <2>6 DEF EndScan
    <3>2. FALSE
      BY <1>2, <2>1, <2>6, <3>1 DEF EndScan, Watching
    <3> QED
      BY <3>2
  <2>7. CASE ReadPid(c)
    <3>1. at[c] \in Dir /\ before' = before /\ todo' = todo /\ at' = at
      BY <1>0, <2>7 DEF ReadPid, AtDir, Unverified
    <3>2. CASE files[at[c]].pid # None
      BY <1>0, <1>2, <2>1, <2>7, <3>1, <3>2 DEF ReadPid, Watching
    <3>3. CASE files[at[c]].pid = None
      <4>1. at[c] # DirFor[p]
        BY <1>0, <2>1, <2>2, <3>3
      <4> QED
        BY <1>0, <1>2, <2>1, <2>7, <3>1, <3>3, <4>1 DEF ReadPid, Unverified, Watching
    <3> QED
      BY <3>2, <3>3
  <2>8. CASE Connect(c)
    <3>1. at[c] \in Dir /\ before' = before /\ todo' = todo /\ at' = at /\ seeking' = seeking
      BY <1>0, <2>8 DEF Connect, AtDir, NoAnswer, Unverified
    <3>2. CASE Reach(c, "hello")
      BY <1>0, <1>2, <2>1, <2>2, <2>8, <3>1, <3>2 DEF Reach, Connect, Watching, TalkTypes
    <3>3. CASE ~Reachable(at[c]) /\ NoAnswer(c)
      <4>1. at[c] # DirFor[p]
        BY <1>0, <2>1, <2>2, <3>3 DEF Reachable, Alive, Serving
      <4> QED
        BY <1>0, <1>2, <2>1, <2>8, <3>1, <3>3, <4>1 DEF Connect, NoAnswer, Unverified, Watching
    <3> QED
      BY <2>8, <3>2, <3>3 DEF Connect
  <2>9. CASE Hello(c)
    <3>1. at[c] \in Dir /\ before' = before /\ todo' = todo
      BY <1>0, <2>9 DEF Hello, AtDir
    <3>2. CASE at[c] = DirFor[p]
      <4>1. peer[c] = p
        BY <1>2, <2>1, <2>9, <3>1, <3>2 DEF Hello, Watching
      <4>2. pid[c] = p
        <5>1. pid[c] \in Launcher /\ DirFor[pid[c]] = DirFor[p] /\ daemon[pid[c]] # "none"
          BY <1>0, <2>9, <3>2 DEF Hello, Addressed, WithPid, Past, Known
        <5>2. daemon[p] # "none"
          BY <2>1 DEF Serving
        <5> QED
          BY <2>1, <5>1, <5>2 DEF Apart
      <4>3. Verified(c)
        BY <1>0, <2>1, <2>9, <4>1, <4>2 DEF Hello, Lost, Serving
      <4> QED
        BY <1>0, <4>3 DEF Verified, Found, LookUpTypes
    <3>3. CASE at[c] # DirFor[p]
      <4>1. seeking[c] \in {"target", "running", "again"} => DirFor[p] \in todo[c]
        BY <1>2, <2>1, <2>9, <3>1, <3>3 DEF Hello, Watching
      <4>2. CASE Verified(c)
        BY <1>0, <3>1, <3>3, <4>1, <4>2 DEF Verified, Found, LookUpTypes
      <4>3. CASE Unverified(c) \/ NoAnswer(c)
        BY <1>0, <3>1, <3>3, <4>1, <4>3 DEF Unverified, NoAnswer
      <4> QED
        BY <2>9, <4>2, <4>3 DEF Hello
    <3> QED
      BY <3>2, <3>3
  <2>10. CASE Inspect(c)
    BY <1>0, <2>10 DEF Inspect
  <2> QED
    BY <2>3, <2>5, <2>6, <2>7, <2>8, <2>9, <2>10 DEF LookUp
<1> QED
  BY <1>1, <1>2 DEF Watching

LEMMA OthersKeepWatching ==
    ASSUME Types, Past, Watching, Next, ~\E c \in Command : Begin(c) \/ LookUp(c)
    PROVE  Watching'
<1>0. /\ LookUpTypes /\ TalkTypes /\ pc \in [Command -> Anywhere] /\ ProcessTypes
      /\ DirFor \in [Launcher -> Dir]
      /\ Launcher \subseteq Command /\ Stopper \subseteq Command /\ Adder \subseteq Command
  BY DirAssumption DEF Types, PlaceTypes, Command, Launcher
<1> DEFINE Watched(b, p) ==
             /\ pc[b] = "scan" => DirFor[p] \in todo[b]
             /\ pc[b] \in {"read", "connect", "hello"}
                /\ seeking[b] \in {"target", "running", "again"}
                   => DirFor[p] \in todo[b] \/ at[b] = DirFor[p]
             /\ pc[b] = "hello" /\ at[b] = DirFor[p] => peer[b] = p
             /\ b \in Stopper => pc[b] # "absent"
<1>1. ASSUME before' = before,
             \A b \in Command : \A p \in before[b].serving :
                 Serving(p) /\ Serving(p)' /\ p \in Launcher /\ Watched(b, p) => Watched(b, p)'
      PROVE  Watching'
  BY <1>1, StillServing DEF Watching
<1>2. ASSUME NEW c \in Launcher, Launch(c) \/ Fork(c) PROVE Watching'
  <2>1. /\ pc'[c] \in {"failed", "fork", "launched", "send"}
        /\ \A b \in Command \ {c} : pc'[b] = pc[b] /\ at'[b] = at[b]
        /\ UNCHANGED <<seeking, todo, peer, before>>
    BY <1>0, <1>2 DEF Launch, Fork, LookUpTypes
  <2> QED
    BY <1>1, <2>1
<1>3. ASSUME NEW c \in Adder, Send(c) \/ Added(c) \/ Wait(c) \/ Waited(c) PROVE Watching'
  <2>1. Others(c) /\ UNCHANGED <<before, at>>
    BY <1>3, AddSteps
  <2>2. /\ pc'[c] \in { "ticket", "failed", "unreachable", "sent", "added", "send",
                         "scan", "waited" }
        /\ pc'[c] = "scan" => todo'[c] = Dir
    BY <1>0, <1>3 DEF Send, Reach, Added, Wait, Waited, LookUpTypes
  <2>3. \A p \in Launcher : Watched(c, p)'
    BY <1>0, <2>2
  <2>4. \A b \in Command \ {c} : \A p \in Launcher : Watched(b, p) => Watched(b, p)'
    BY <2>1 DEF Others
  <2> QED
    BY <1>1, <2>1, <2>3, <2>4
<1>4. ASSUME NEW c \in Stopper, Stopping(c) \/ Kill(c) PROVE Watching'
  <2>1. /\ \A b \in Command \ {c} : pc'[b] = pc[b] /\ peer'[b] = peer[b]
        /\ UNCHANGED <<before, seeking, todo, at>>
        /\ pc'[c] \in { "ask", "revalidate", "failed", "asked", "waiting", "stopped",
                         "overdue", "kill", "list", "unlink", "confirm" }
    BY <1>0, <1>4, StopSteps DEF Kill, Others
  <2>3. \A p \in Launcher : Watched(c, p)'
    BY <1>0, <2>1
  <2>4. \A b \in Command \ {c} : \A p \in Launcher : Watched(b, p) => Watched(b, p)'
    BY <2>1
  <2> QED
    BY <1>1, <2>1, <2>3, <2>4
<1>5. ASSUME NEW c \in Command, Unlink(c) PROVE Watching'
  BY <1>1, <1>5 DEF Unlink
<1>6. ASSUME NEW q \in Launcher,
             Run(q) \/ SignalStops(q) \/ FinishDraining(q) \/ Die(q) \/ ReusePid(q)
      PROVE  Watching'
  <2>1. CASE LeaveLoop(q)
    <3>1. \A b \in Command : peer'[b] = peer[b] \/ peer[b] = q
      BY <1>0, <2>1 DEF LeaveLoop, TalkTypes
    <3>2. daemon'[q] = "draining"
      BY <1>0, <2>1 DEF LeaveLoop, ProcessTypes
    <3>3. UNCHANGED <<before, pc, lookup>>
      BY <2>1 DEF LeaveLoop
    <3>4. \A b \in Command : \A p \in Launcher :
            Serving(p)' /\ Watched(b, p) => Watched(b, p)'
      BY <3>1, <3>2, <3>3 DEF Serving
    <3> QED
      BY <1>1, <3>3, <3>4
  <2>2. CASE Die(q)
    <3>1. /\ \A b \in Command : pc'[b] \in {pc[b], "failed"}
          /\ UNCHANGED <<before, lookup, peer>>
      BY <1>0, <2>2 DEF Die
    <3>2. \A b \in Command : \A p \in Launcher : Watched(b, p) => Watched(b, p)'
      BY <3>1
    <3> QED
      BY <1>1, <3>1, <3>2
  <2>3. CASE ~LeaveLoop(q) /\ ~Die(q)
    <3>1. UNCHANGED <<before, client>>
      BY <1>6, <2>3
      DEF Run, WritePid, Serve, HandlerStops, Exit, Reap, SignalStops, FinishDraining, ReusePid
    <3> QED
      BY <1>1, <3>1
  <2> QED
    BY <2>1, <2>2, <2>3
<1> QED
  BY <1>2, <1>3, <1>4, <1>5, <1>6 DEF Next, Act, Stopping

LEMMA NextWatching ==
    ASSUME Apart
    PROVE  Types /\ Past /\ Addressed /\ Held /\ Kept /\ Watching /\ [Next]_vars => Watching'
<1>1. CASE UNCHANGED vars
  BY <1>1 DEF vars, Watching, Serving
<1> QED
  BY <1>1, LookUpKeepsWatching, OthersKeepWatching

\* What there is to know of daemons that have a directory each.
IInv == Leased /\ Kept /\ Watching

LEMMA Inductive ==
    ASSUME \A e \in Environment : OwnDirs(e)
    PROVE  Spec => []IInv
<1>1. Init => IInv
  BY InitLeased, InitHeld, InitWatching DEF IInv
<1>2. IInv /\ [Next]_vars => IInv'
  <2>1. Leased => Apart
    BY KeptApart DEF Leased, Types, RestTypes
  <2> QED
    BY <2>1, NextRuntime, NextWatching DEF IInv, Leased
<1> QED
  BY <1>1, <1>2, PTL DEF Spec

(***************************************************************************)
(* Whatever directories crashed, starting and stopping daemons left, in    *)
(* whatever order they are scanned: a scan ends without a daemon only if   *)
(* none has been serving since its command began                           *)
(* (get_project_daemon_runtime_dir).                                       *)
(***************************************************************************)
THEOREM LiveNotMaskedHolds ==
    ASSUME \A e \in Environment : OwnDirs(e)
    PROVE  Spec => []LiveNotMasked
<1>1. IInv => LiveNotMasked
  BY DEF IInv, Watching, LiveNotMasked
<1> QED
  BY <1>1, Inductive, PTL

(***************************************************************************)
(* mq stop reports success, and starts removing files, only when the       *)
(* daemon it was about is dead, whoever has its PID by then; and says that *)
(* there is nothing to stop only if no daemon has been serving since it    *)
(* began (stop_daemon).                                                    *)
(***************************************************************************)
THEOREM StopMeansGoneHolds ==
    ASSUME \A e \in Environment : OwnDirs(e)
    PROVE  Spec => []StopMeansGone
<1>1. IInv => StopMeansGone
  <2> SUFFICES ASSUME IInv, NEW c \in Stopper
               PROVE  /\ pc[c] \in {"list", "unlink", "stopped"} => daemon[pid[c]] = "gone"
                      /\ pc[c] = "absent" => \A p \in before[c].serving : ~Serving(p)
    BY DEF StopMeansGone
  <2>1. c \in Command
    BY DEF Command
  <2>2. pc[c] \in {"list", "unlink", "stopped"} => daemon[pid[c]] = "gone"
    BY DEF IInv, Leased, Past, Reported
  <2>3. pc[c] = "absent" => \A p \in before[c].serving : ~Serving(p)
    BY <2>1 DEF IInv, Watching
  <2> QED
    BY <2>2, <2>3
<1> QED
  BY <1>1, Inductive, PTL
-----------------------------------------------------------------------------
(* The wait for an added candidate.                                        *)

\* Of an environment: those who launch in it share a directory.
OneDir(e) == \A p, q \in Launcher \cap e.given : DirFor[p] = DirFor[q]

\* Whoever is about to wait, or to ask again, was told by a daemon.
Ticketed ==
    \A c \in Adder :
        pc[c] = "ticket" \/ seeking[c] = "again" => ticket[c] \in Launcher

LEMMA InitTicketed == Init => Ticketed
BY KindAssumption DEF Init, Ticketed, Command, Launcher

LEMMA LookUpPlaces ==
    ASSUME Types, NEW c \in Command, Begin(c) \/ LookUp(c)
    PROVE  /\ pc[c] # "sent" /\ pc'[c] \notin {"ticket", "waited"}
           /\ seeking'[c] = "again" => seeking[c] = "again"
           /\ ticket' = ticket
<1>0. LookUpTypes /\ pc \in [Command -> Anywhere]
  BY DEF Types, PlaceTypes
<1>1. CASE Begin(c)
  BY <1>0, <1>1 DEF Begin, Found, LookUpTypes
<1>2. CASE Visit(c)
  BY <1>0, <1>2 DEF Visit, LookUpTypes
<1>3. CASE EndScan(c)
  BY <1>0, <1>3 DEF EndScan, Found, NotFound, LookUpTypes
<1>4. CASE ReadPid(c)
  BY <1>0, <1>4 DEF ReadPid, Unverified, LookUpTypes
<1>5. CASE Connect(c)
  BY <1>0, <1>5 DEF Connect, Reach, NoAnswer, Unverified, LookUpTypes
<1>6. CASE Hello(c)
  BY <1>0, <1>6 DEF Hello, Verified, Found, NoAnswer, Unverified, LookUpTypes
<1>7. CASE Inspect(c)
  BY <1>0, <1>7 DEF Inspect, LookUpTypes
<1> QED
  BY <1>1, <1>2, <1>3, <1>4, <1>5, <1>6, <1>7 DEF LookUp

\* The other steps that are not mq add's own never give or use a ticket.
Unanswered(c) ==
    \/ pc'[c] = pc[c]
    \/ pc'[c] \notin {"ticket", "waited"} /\ (pc[c] # "sent" \/ daemon[c] = "bound")

LEMMA OtherPlaces ==
    ASSUME Types, Next, ~\E b \in Command : Begin(b) \/ LookUp(b),
           ~\E b \in Adder : Send(b) \/ Added(b) \/ Wait(b) \/ Waited(b)
    PROVE  /\ \A c \in Adder : Unanswered(c)
           /\ UNCHANGED <<seeking, ticket>>
<1> USE DEF Unanswered
<1>0. /\ pc \in [Command -> Anywhere] /\ Launcher \subseteq Command
      /\ Adder \subseteq Command /\ \A b \in Stopper : b \notin Adder
  BY KindAssumption DEF Types, PlaceTypes, Command, Launcher
<1>1. ASSUME NEW b \in Launcher, Launch(b) \/ Fork(b)
      PROVE  /\ \A c \in Adder : Unanswered(c)
             /\ UNCHANGED <<seeking, ticket>>
  BY <1>0, <1>1 DEF Launch, Fork
<1>2. ASSUME NEW b \in Stopper, Stopping(b) \/ Kill(b)
      PROVE  /\ \A c \in Adder : pc'[c] = pc[c]
             /\ UNCHANGED <<seeking, ticket>>
  <2>1. UNCHANGED <<seeking, ticket>> /\ \A c \in Command \ {b} : pc'[c] = pc[c]
    BY <1>0, <1>2
    DEF Stopping, Arm, Stale, Ask, Reach, Asked, AwaitExit, Recheck, Confirm, Revalidate,
        List, Removed, Kill
  <2> QED
    BY <1>0, <2>1
<1>3. ASSUME NEW b \in Command, Unlink(b) PROVE UNCHANGED <<pc, seeking, ticket>>
  BY <1>3 DEF Unlink
<1>4. ASSUME NEW p \in Launcher,
             Run(p) \/ SignalStops(p) \/ FinishDraining(p) \/ Die(p) \/ ReusePid(p)
      PROVE  /\ \A c \in Adder : Unanswered(c)
             /\ UNCHANGED <<seeking, ticket>>
  BY <1>0, <1>4
  DEF Run, WritePid, Serve, HandlerStops, LeaveLoop, Exit, Reap, SignalStops,
      FinishDraining, Die, ReusePid
<1> QED
  BY <1>1, <1>2, <1>3, <1>4 DEF Next, Act, Stopping

LEMMA NextTicketed == Types /\ Ticketed /\ [Next]_vars => Ticketed'
<1> SUFFICES ASSUME Types, Ticketed, [Next]_vars PROVE Ticketed'
  OBVIOUS
<1>0. /\ LookUpTypes /\ TalkTypes /\ pc \in [Command -> Anywhere]
      /\ Adder \subseteq Command
  BY DEF Types, PlaceTypes, Command, Launcher
<1>1. ASSUME NEW c \in Command, Begin(c) \/ LookUp(c) PROVE Ticketed'
  BY <1>1, LookUpSteps, LookUpPlaces, <1>0 DEF Others, Ticketed
<1>2. ASSUME NEW c \in Adder, Send(c) \/ Wait(c) \/ Waited(c) PROVE Ticketed'
  <2>1. \A b \in Adder \ {c} : pc'[b] = pc[b] /\ seeking'[b] = seeking[b]
    BY <1>0, <1>2, AddSteps DEF Others
  <2>2. /\ ticket' = ticket /\ pc'[c] # "ticket"
        /\ seeking'[c] = "again" => seeking[c] = "again" \/ pc[c] = "ticket"
    BY <1>0, <1>2 DEF Send, Reach, Wait, Waited, LookUpTypes
  <2> QED
    BY <2>1, <2>2 DEF Ticketed
<1>3. ASSUME NEW c \in Adder, Added(c) PROVE Ticketed'
  <2>1. /\ \A b \in Adder \ {c} : pc'[b] = pc[b]
        /\ \A b \in Adder \ {c} : ticket'[b] = ticket[b]
        /\ seeking' = seeking /\ seeking[c] # "again"
    BY <1>0, <1>3 DEF Added, TalkTypes
  <2>2. pc'[c] = "ticket" => ticket'[c] = peer[c] /\ ~Lost(c)
    BY <1>0, <1>3 DEF Added, TalkTypes
  <2>3. ~Lost(c) => peer[c] \in Launcher
    BY <1>0 DEF Lost, TalkTypes
  <2> QED
    BY <2>1, <2>2, <2>3 DEF Ticketed
<1>4. CASE /\ Next
           /\ ~\E b \in Command : Begin(b) \/ LookUp(b)
           /\ ~\E b \in Adder : Send(b) \/ Added(b) \/ Wait(b) \/ Waited(b)
  BY <1>4, OtherPlaces DEF Ticketed, Unanswered
<1>5. CASE UNCHANGED vars
  BY <1>5 DEF vars, Ticketed
<1> QED
  BY <1>1, <1>2, <1>3, <1>4, <1>5

\* A wait ends with the answer of a daemon that serves.
LEMMA WaitsEnd ==
    ASSUME Types, Past, Ticketed, Next, NEW c \in Adder,
           pc[c] = "sent", seeking[c] = "again", pc'[c] \in {"waited", "failed"}
    PROVE  peer[c] \in Launcher /\ Serving(peer[c]) /\ ticket[c] \in Launcher
<1>0. /\ TalkTypes /\ pc \in [Command -> Anywhere] /\ Adder \subseteq Command
      /\ daemon[c] # "bound"
  BY DEF Types, PlaceTypes, Past, Launched, Command, Launcher
<1>1. ~\E b \in Command : Begin(b) \/ LookUp(b)
  BY <1>0, LookUpSteps, LookUpPlaces DEF Others
<1>2. \E b \in Adder : Send(b) \/ Added(b) \/ Wait(b) \/ Waited(b)
  BY <1>0, <1>1, OtherPlaces DEF Unanswered
<1>3. Send(c) \/ Added(c) \/ Wait(c) \/ Waited(c)
  BY <1>0, <1>2, AddSteps DEF Others
<1>4. Waited(c)
  BY <1>0, <1>3 DEF Send, Added, Wait
<1>5. ~Lost(c) /\ Serving(peer[c])
  BY <1>0, <1>4 DEF Waited
<1> QED
  BY <1>0, <1>5 DEF Lost, TalkTypes, Ticketed

(***************************************************************************)
(* In environments whose launchers share one directory, where nobody stops *)
(* a daemon or there is one launcher: whichever daemons came and went      *)
(* between the addition and the wait, a run ID is not answered, with a     *)
(* result or with an error, by a daemon that did not give it out while the *)
(* one that did still processes its queue (add_candidate,                  *)
(* wait_for_run_id).                                                       *)
(***************************************************************************)
THEOREM WaitsForOwnRunHolds ==
    ASSUME \A e \in Environment : OneDir(e) /\ (OwnDirs(e) \/ NoStop(e))
    PROVE  Spec => WaitsForOwnRun
<1>1. Leased /\ Ticketed /\ [Next]_vars
         => [ \A c \in Adder :
                pc[c] = "sent" /\ seeking[c] = "again" /\ pc'[c] \in {"waited", "failed"} =>
                   peer[c] = ticket[c] \/ daemon[ticket[c]] \notin {"serving", "draining"}
            ]_vars
  <2> SUFFICES ASSUME Leased, Ticketed, Next, NEW c \in Adder, pc[c] = "sent",
                      seeking[c] = "again", pc'[c] \in {"waited", "failed"},
                      daemon[ticket[c]] \in {"serving", "draining"}
               PROVE  peer[c] = ticket[c]
    OBVIOUS
  <2>1. peer[c] \in Launcher /\ Serving(peer[c]) /\ ticket[c] \in Launcher
    BY WaitsEnd DEF Leased
  <2>2. Holding(peer[c]) /\ Holding(ticket[c])
    BY <2>1 DEF Holding, Serving
  <2>3. DirFor[peer[c]] = DirFor[ticket[c]]
    BY <2>1, LaunchedAreGiven DEF Serving, Leased, Types, RestTypes, OneDir
  <2> QED
    BY <2>1, <2>2, <2>3 DEF Leased, Held
<1>2. Leased /\ Ticketed /\ [Next]_vars => (Leased /\ Ticketed)'
  BY NextLeased, NextTicketed DEF Leased
<1> QED
  BY <1>1, <1>2, InitLeased, InitTicketed, PTL DEF Spec, WaitsForOwnRun

-----------------------------------------------------------------------------
(* The wake-up of a daemon that is told to stop.                           *)

Heard == \A p \in Launcher : flag[p] => wake[p]

LEMMA NextHeard == Leased /\ Heard /\ [Next]_vars => Heard'
<1> SUFFICES ASSUME Leased, Heard, [Next]_vars PROVE Heard'
  OBVIOUS
<1>0. ProcessTypes
  BY DEF Leased, Types
<1>1. ASSUME NEW p \in Launcher, HandlerStops(p) \/ SignalStops(p) PROVE Heard'
  <2>1. Holding(p)
    BY <1>1 DEF HandlerStops, SignalStops, Serving, Holding
  <2>2. files[DirFor[p]].sock = p
    BY <2>1 DEF Leased, Held
  <2> QED
    BY <1>0, <1>1, <2>2 DEF HandlerStops, SignalStops, RaiseFlag, ProcessTypes, Heard
<1>2. CASE UNCHANGED <<flag, wake>>
  BY <1>2 DEF Heard
<1>3. ASSUME NEW c \in Command, Begin(c) \/ LookUp(c) \/ Unlink(c) PROVE Heard'
  BY <1>2, <1>3
  DEF Begin, LookUp, Visit, EndScan, ReadPid, Connect, Hello, Inspect, Unlink, process
<1>4. ASSUME NEW c \in Launcher, Launch(c) \/ Fork(c) PROVE Heard'
  BY <1>2, <1>4 DEF Launch, Fork
<1>5. ASSUME NEW c \in Adder, Send(c) \/ Added(c) \/ Wait(c) \/ Waited(c) PROVE Heard'
  BY <1>2, <1>5 DEF Send, Added, Wait, Waited, process
<1>6. ASSUME NEW c \in Stopper,
             \/ Arm(c) \/ Stale(c) \/ Ask(c) \/ Asked(c) \/ AwaitExit(c) \/ Recheck(c)
             \/ Kill(c) \/ Confirm(c) \/ Revalidate(c) \/ List(c) \/ Removed(c)
      PROVE  Heard'
  BY <1>2, <1>6
  DEF Arm, Stale, Ask, Asked, AwaitExit, Recheck, Kill, Confirm, Revalidate, List,
      Removed, process
<1>7. ASSUME NEW p \in Launcher,
             \/ WritePid(p) \/ Serve(p) \/ LeaveLoop(p) \/ Exit(p) \/ Reap(p)
             \/ FinishDraining(p) \/ Die(p) \/ ReusePid(p)
      PROVE  Heard'
  BY <1>2, <1>7
  DEF WritePid, Serve, LeaveLoop, Exit, Reap, FinishDraining, Die, ReusePid, process
<1>8. CASE UNCHANGED vars
  BY <1>2, <1>8 DEF vars, process
<1> QED
  BY <1>1, <1>3, <1>4, <1>5, <1>6, <1>7, <1>8 DEF Next, Act, Run

(***************************************************************************)
(* Where the socket's lease holds, the connection a handler or a signal    *)
(* makes to the daemon's own path to wake its accept loop reaches that     *)
(* daemon: one that is told to stop never sleeps in accept with the flag   *)
(* set and nothing to accept (the connection and the signal threads of     *)
(* run_daemon_loop).                                                       *)
(***************************************************************************)
THEOREM FlagIsHeard ==
    ASSUME \A e \in Environment : OwnDirs(e) \/ NoStop(e)
    PROVE  Spec => [](\A p \in Launcher : flag[p] => wake[p])
<1>1. Init => Leased /\ Heard
  BY InitLeased DEF Init, Heard
<1>2. Leased /\ Heard /\ [Next]_vars => (Leased /\ Heard)'
  BY NextLeased, NextHeard
<1>3. Heard => \A p \in Launcher : flag[p] => wake[p]
  BY DEF Heard
<1> QED
  BY <1>1, <1>2, <1>3, PTL DEF Spec
=============================================================================
