------------------------- MODULE MCDaemonLifecycle -------------------------
(* Small instances of DaemonLifecycle for TLC. *)
EXTENDS DaemonLifecycle, TLC

CONSTANTS s1, s2, t1, t2, a1, shared

\* Every launcher has the directory of its PID ...
MCOwnDir == [l \in Launcher |-> l]
MCOwn ==
    { [given |-> {s1, s2, t1}, explicit |-> FALSE, signals |-> FALSE, pidReuse |-> TRUE],
      [given |-> {s1, t1}, explicit |-> FALSE, signals |-> TRUE, pidReuse |-> TRUE],
      [given |-> {s2, t1}, explicit |-> FALSE, signals |-> TRUE, pidReuse |-> TRUE] }

\* ... or they meet in one: SELFCI_MQ_RUNTIME_DIR names it, or a later launcher
\* has the PID of an earlier one, whose daemon, forked from it, may still live.
MCSharedDir == [l \in Launcher |-> shared]
MCShared ==
    { [given |-> {s1, s2}, explicit |-> TRUE, signals |-> TRUE, pidReuse |-> TRUE],
      [given |-> {s1, s2, a1}, explicit |-> TRUE, signals |-> TRUE, pidReuse |-> FALSE],
      [given |-> {s1, s2, a1}, explicit |-> TRUE, signals |-> FALSE, pidReuse |-> FALSE],
      [given |-> {s1, a1}, explicit |-> FALSE, signals |-> FALSE, pidReuse |-> TRUE],
      [given |-> {a1}, explicit |-> FALSE, signals |-> TRUE, pidReuse |-> FALSE],
      [given |-> {s1, t1, t2}, explicit |-> FALSE, signals |-> FALSE, pidReuse |-> FALSE] }

StarterSymmetry == Permutations(Starter)
===========================================================================
