---------------------------- MODULE RuntimeLease ----------------------------
(***************************************************************************)
(* What a runtime directory is to the daemon processes that use it, with   *)
(* no files, sockets or commands: a lease.  It is taken only while free,   *)
(* kept for as long as its holder works, given back by a holder that has   *)
(* stopped working, and taken away only from a dead one.                   *)
(***************************************************************************)
CONSTANTS
    Process,    \* daemon processes; each lives once
    Place,      \* runtime directories
    PlaceOf,    \* the directory of each process
    Nobody      \* the holder of a free place

VARIABLES
    holder,     \* the process a place is leased to
    stage       \* where each process is in its life

vars == <<holder, stage>>

TypeOK ==
    /\ holder \in [Place -> Process \cup {Nobody}]
    /\ stage \in [Process -> {"new", "starting", "working", "leaving", "dead"}]

Init ==
    /\ holder = [d \in Place |-> Nobody]
    /\ stage = [p \in Process |-> "new"]

Take(p) ==
    /\ stage[p] = "new"
    /\ holder[PlaceOf[p]] = Nobody
    /\ holder' = [holder EXCEPT ![PlaceOf[p]] = p]
    /\ stage' = [stage EXCEPT ![p] = "starting"]

Work(p) ==
    /\ stage[p] = "starting"
    /\ stage' = [stage EXCEPT ![p] = "working"]
    /\ UNCHANGED holder

Leave(p) ==
    /\ stage[p] \in {"starting", "working"}
    /\ stage' = [stage EXCEPT ![p] = "leaving"]
    /\ UNCHANGED holder

Return(p) ==
    /\ stage[p] = "leaving"
    /\ holder[PlaceOf[p]] = p
    /\ holder' = [holder EXCEPT ![PlaceOf[p]] = Nobody]
    /\ UNCHANGED stage

Die(p) ==
    /\ stage[p] \in {"starting", "working", "leaving"}
    /\ stage' = [stage EXCEPT ![p] = "dead"]
    /\ UNCHANGED holder

Reclaim(p) ==
    /\ stage[p] = "dead"
    /\ holder[PlaceOf[p]] = p
    /\ holder' = [holder EXCEPT ![PlaceOf[p]] = Nobody]
    /\ UNCHANGED stage

Next == \E p \in Process :
    Take(p) \/ Work(p) \/ Leave(p) \/ Return(p) \/ Die(p) \/ Reclaim(p)

Spec == Init /\ [][Next]_vars

(***************************************************************************)
(* Two processes at work never share a place.                              *)
(***************************************************************************)
Exclusive ==
    \A p, q \in Process :
        /\ stage[p] = "working" /\ stage[q] = "working"
        /\ PlaceOf[p] = PlaceOf[q]
        => p = q
=============================================================================
