---------------------------- MODULE JobVerdict ----------------------------
(***************************************************************************)
(* What a candidate check promises of the jobs it counts: each is begun    *)
(* once and ends once, the verdict falls once and only while none of them  *)
(* runs, and it is "passed" only if every one of them succeeded.           *)
(***************************************************************************)
CONSTANT Job

VARIABLES begun, succeeded, failed, verdict

vars == <<begun, succeeded, failed, verdict>>

running == begun \ (succeeded \cup failed)

Init ==
    /\ begun = {}
    /\ succeeded = {}
    /\ failed = {}
    /\ verdict = "none"

Begin(job) ==
    /\ verdict = "none"
    /\ job \notin begun
    /\ begun' = begun \cup {job}
    /\ UNCHANGED <<succeeded, failed, verdict>>

End(job) ==
    /\ verdict = "none"
    /\ job \in running
    /\ \/ succeeded' = succeeded \cup {job} /\ UNCHANGED failed
       \/ failed' = failed \cup {job} /\ UNCHANGED succeeded
    /\ UNCHANGED <<begun, verdict>>

Decide ==
    /\ verdict = "none"
    /\ begun # {}
    /\ running = {}
    /\ verdict' \in {"passed", "failed", "error"}
    /\ verdict' = "passed" => failed = {}
    /\ UNCHANGED <<begun, succeeded, failed>>

Next == Decide \/ \E job \in Job : Begin(job) \/ End(job)

Spec == Init /\ [][Next]_vars
=============================================================================
