----------------------------- MODULE TwoDaemons -----------------------------
(***************************************************************************)
(* Two merge-queue daemons of one repository, each a MergeQueue of its     *)
(* own, that share nothing but the base: two starts may both pass the      *)
(* check that none is running (DaemonLifecycle's Found and Launch), and a  *)
(* daemon of another checkout may serve the same base.                     *)
(***************************************************************************)
EXTENDS Integration

CONSTANTS
    Candidate, Outsider, Conn, MaxRuns, MaxMoves, MaxLives  \* as in MergeQueue

ASSUME CandidateAssumption == Candidate \subseteq Commit \ {<<>>}
ASSUME OutsiderAssumption == Outsider \subseteq Change
ASSUME BoundAssumption == MaxRuns \in Nat /\ MaxMoves \in Nat /\ MaxLives \in Nat

VARIABLES
    base,
    daemon1, flag1, runs1, nextRunId1, queue1, conn1, pc1, cur1, expected1,
    prepared1, verdict1, moves1, lives1, landed1, acked1, ahead1, owed1,
    daemon2, flag2, runs2, nextRunId2, queue2, conn2, pc2, cur2, expected2,
    prepared2, verdict2, moves2, lives2, landed2, acked2, ahead2, owed2

first ==
    << daemon1, flag1, runs1, nextRunId1, queue1, conn1, pc1, cur1, expected1,
       prepared1, verdict1, moves1, lives1, landed1, acked1, ahead1, owed1 >>
second ==
    << daemon2, flag2, runs2, nextRunId2, queue2, conn2, pc2, cur2, expected2,
       prepared2, verdict2, moves2, lives2, landed2, acked2, ahead2, owed2 >>
vars == <<base, first, second>>

One == INSTANCE MergeQueue WITH
    daemon <- daemon1, flag <- flag1, runs <- runs1, nextRunId <- nextRunId1,
    queue <- queue1, conn <- conn1, pc <- pc1, cur <- cur1,
    expected <- expected1, prepared <- prepared1, verdict <- verdict1,
    moves <- moves1, lives <- lives1, landed <- landed1, acked <- acked1,
    ahead <- ahead1, owed <- owed1

\* Other people's moves are counted once.
Other == INSTANCE MergeQueue WITH
    MaxMoves <- 0,
    daemon <- daemon2, flag <- flag2, runs <- runs2, nextRunId <- nextRunId2,
    queue <- queue2, conn <- conn2, pc <- pc2, cur <- cur2,
    expected <- expected2, prepared <- prepared2, verdict <- verdict2,
    moves <- moves2, lives <- lives2, landed <- landed2, acked <- acked2,
    ahead <- ahead2, owed <- owed2

Init == One!Init /\ Other!Init

Next ==
    \/ One!Next /\ UNCHANGED second
    \/ Other!Next /\ UNCHANGED first

Spec == Init /\ [][Next]_vars

-----------------------------------------------------------------------------
(***************************************************************************)
(* Each daemon keeps its promises to the base, though the other is part of *)
(* its world now (publish_prepared_candidate).                             *)
(***************************************************************************)
EachImplementsLanding == One!ImplementsLanding /\ Other!ImplementsLanding

(***************************************************************************)
(* Each daemon's verdicts tell the truth about its publications, whichever *)
(* operations of the other they were merged with.                          *)
(***************************************************************************)
VerdictsMatchBase == One!VerdictMatchesBase /\ Other!VerdictMatchesBase

(***************************************************************************)
(* Unless somebody else moves it, the base only advances: each landing of  *)
(* either daemon descends from all that is there, though each checks its   *)
(* candidates while the other publishes (publish_prepared_candidate).      *)
(***************************************************************************)
BaseOnlyAdvances ==
    [][ UNCHANGED moves1 =>
          \A old \in base : \E new \in base' : Descends(new, old) ]_vars

(***************************************************************************)
(* What either daemon has landed is in the base from then on, unless       *)
(* somebody else rewinds it: neither publication takes back the other's    *)
(* (publish_prepared_candidate).                                           *)
(***************************************************************************)
LandingsStay ==
    moves1 = 0 =>
        \A c \in { runs1[r].candidate : r \in landed1 }
                \cup { runs2[r].candidate : r \in landed2 } :
            \E b \in base : Last(c) \in ToSet(b)
=============================================================================
