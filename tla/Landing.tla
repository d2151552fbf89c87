------------------------------ MODULE Landing ------------------------------
(***************************************************************************)
(* What the merge queue promises the owner of the base branch, without     *)
(* runs, queues, hooks or processes: a landing needs a ticket, a ticket    *)
(* joins one base commit with one checked integration that descends from   *)
(* it, and using it never discards what others did to the base.            *)
(***************************************************************************)
EXTENDS Integration

CONSTANT
    ConcurrentViews     \* a base update may be merged with a concurrent one

VARIABLES
    base,       \* the targets of the base name: one, or several in a conflict
    approved    \* the ticket, if there is one: {[from |-> base, to |-> result]}

vars == <<base, approved>>

Ticket == [from : Commit, to : Commit]

TypeOK ==
    /\ base \in SUBSET Commit
    /\ approved \in SUBSET Ticket

Init ==
    /\ base \in SUBSET Commit
    /\ approved = {}

\* Everybody else may do anything to the base, whatever is approved.
External ==
    /\ base' \in SUBSET Commit
    /\ UNCHANGED approved

Approve ==
    /\ approved = {}
    /\ \E t \in approved' :
          /\ approved' = {t}
          /\ t \in Ticket
          /\ Descends(t.to, t.from)
    /\ UNCHANGED base

Withdraw ==
    /\ approved' = {}
    /\ UNCHANGED base

\* The compare and swap: only from the very commit the check was made on.
Land(t) ==
    /\ base = {t.from}
    /\ base' = {t.to}
    /\ approved' = {}

\* The same update published beside one made meanwhile, which survives it:
\* every other target keeps a descendant among the new ones.
LandBeside(t) ==
    /\ ConcurrentViews
    /\ base' \subseteq base \cup {t.to}
    /\ \A b \in base \ {t.from} : \E u \in base' : Descends(u, b)
    /\ approved' = {}

Next ==
    \/ External \/ Approve \/ Withdraw
    \/ \E t \in approved : Land(t) \/ LandBeside(t)

Spec == Init /\ [][Next]_vars
=============================================================================
