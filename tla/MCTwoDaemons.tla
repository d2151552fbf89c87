---------------------------- MODULE MCTwoDaemons ----------------------------
(* Small instances of TwoDaemons for TLC. *)
EXTENDS TwoDaemons

CONSTANTS a, b, x       \* two submitted changes and one made by others

MCChange == {a, b, x}
MCOutsider == {x}
\* Two unrelated commits.
MCCandidate == {<<a>>, <<b>>}
ChangeSymmetry == Permutations({a, b})
============================================================================
