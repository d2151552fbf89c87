--------------------------- MODULE MCMergeQueue ---------------------------
(* Small instances of MergeQueue for TLC. *)
EXTENDS MergeQueue

CONSTANTS a, b, x       \* two submitted changes and one made by others

MCChange == {a, b, x}
MCOutsider == {x}
\* A change and a stack built on it, so that resubmission, fast-forward and
\* already-integrated candidates all occur.
MCCandidate == {<<a>>, <<a, b>>}
MCOneCandidate == {<<a>>}

ConnSymmetry == Permutations(Conn)
===========================================================================
