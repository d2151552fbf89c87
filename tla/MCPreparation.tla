--------------------------- MODULE MCPreparation ---------------------------
(* Small instances of Preparation for TLC. *)
EXTENDS Preparation

CONSTANTS a, b, x       \* the changes of a candidate and of a diverged base

MCChange == {a, b, x}
\* A Git repository with the default clone mode, and a jj repository with the
\* mode that fetches least by itself.
MCSetting == { [vcs |-> "git", clone |-> "partial"], [vcs |-> "jj", clone |-> "full"] }
MCFullClone == { [vcs |-> "git", clone |-> "full"] }
\* The base is the candidate itself, or has moved to where the two diverge.
MCBase == {<<a, b>>, <<x>>}
MCCandidate == {<<a, b>>}

PidSymmetry == Permutations(Process) \cup Permutations(Pid)
============================================================================
