---------------------------- MODULE Integration ----------------------------
(***************************************************************************)
(* What the merge queue prepares for a test: the integration of one        *)
(* candidate commit with one exact base commit, in the two version control *)
(* systems and the two merge modes.                                        *)
(*                                                                         *)
(* A commit is its first-parent history, the sequence of the changes it    *)
(* is made of, and descends from the prefixes of it.  Commits made of the  *)
(* same changes in the same order are not told apart.                      *)
(***************************************************************************)
EXTENDS Integers, Sequences, SequencesExt

CONSTANTS
    Change,     \* the changes histories are made of
    VCS,        \* "git" or "jj"
    MergeMode   \* "rebase" or "merge"

ASSUME VCSAssumption == VCS \in {"git", "jj"}
ASSUME MergeModeAssumption == MergeMode \in {"rebase", "merge"}

Commit == Seq(Change)

Descends(commit, ancestor) == IsPrefix(ancestor, commit)

\* The histories of b and c agree on their first k changes and part there.
ForkPoint(b, c, k) ==
    /\ k <= Len(b)
    /\ SubSeq(b, 1, k) = SubSeq(c, 1, k)
    /\ k < Len(b) /\ k < Len(c) => b[k + 1] # c[k + 1]

\* What c adds to the history it shares with b ("::candidate ~ ::base").
UniqueStack(b, c) ==
    { SubSeq(c, k + 1, Len(c)) : k \in { j \in 0..Len(c) : ForkPoint(b, c, j) } }

(***************************************************************************)
(* The candidate's own stack replayed onto the base.  A candidate that     *)
(* already descends from the base comes out as itself, and one the base    *)
(* already contains comes out as the base.  Git also drops a stack whose   *)
(* changes the base holds under other identities; jj duplicates it.        *)
(***************************************************************************)
GitReplayed(b, stack) == IF ToSet(stack) \subseteq ToSet(b) THEN b ELSE b \o stack
JjReplayed(b, stack) == b \o stack
Rebased(b, c) ==
    { IF VCS = "git" THEN GitReplayed(b, stack) ELSE JjReplayed(b, stack) :
         stack \in UniqueStack(b, c) }

\* The merge commit of c on first parent b, named by the tip it brings in.
\* Git answers "Already up to date" for a candidate the base contains.
JjMerged(b, c) == Append(b, Last(c))
GitMerged(b, c) ==
    IF Descends(b, c) \/ Last(c) \in ToSet(b) THEN b ELSE Append(b, Last(c))
Merged(b, c) == { IF VCS = "git" THEN GitMerged(b, c) ELSE JjMerged(b, c) }

\* The commits create_test_merge can return for base b and candidate c.
TestMerge(b, c) == IF MergeMode = "rebase" THEN Rebased(b, c) ELSE Merged(b, c)

(***************************************************************************)
(* A jj bookmark after an operation moved it from old to ours while a      *)
(* concurrent one left it at theirs: the later of two targets that both    *)
(* follow old in one line of history, and otherwise a conflict of both.    *)
(***************************************************************************)
MergeTargets(old, ours, theirs) ==
    LET kept == { t \in theirs \ {old} : ~(Descends(ours, t) /\ Descends(t, old)) }
    IN  IF \E t \in kept : Descends(t, ours) THEN kept ELSE kept \cup {ours}
=============================================================================
