# A TLA+ model of SelfCI

SelfCI runs a project's own CI command against an integrated candidate and can
land it. The parts of it whose mistakes a test would hardly reach are what these
modules are about: the **merge-queue daemon**, which shares the base branch with
everybody else who can move it; the **candidate check**, whose jobs, workers,
control-socket handlers and coordinator share queues, locks and a verdict; the
**daemon lifecycle**, in which commands find, start and stop daemons through
files that dead ones leave behind; and the **preparation** of candidates, in
which several processes share one repository.

All paths below are relative to the repository (`src/...` is its Rust source).

## Inventory of the system

| component | code | state | operations | hard behaviour | what makes it correct |
|---|---|---|---|---|---|
| merge-queue daemon | `src/cmd/mq.rs` (`MQState`, `run_daemon_loop`, `handle_request`, `process_queue`) | run table and next ID behind a mutex with a condition variable, channel to the processor, shutdown flag | add, wait, list, status, shutdown, SIGTERM | detached handlers, ID and send in two steps, drain marker, kill, restart | no run lost, doubled, overtaken or revised; shutdown drains; waits return |
| test integration | `test_merge_*`, `jj_unique_mutable_stack`, `create_test_merge` | none | integrate one candidate with one exact base | stacks, resubmissions, two systems and two modes | the result descends from that base |
| publication | `publish_prepared_candidate` | base branch or bookmark | compare and swap; move and verify | everybody else, another daemon too, may move it; jj merges operations afterwards | lands only what was checked, from the base it was checked on; reported status is true |
| candidate check | `src/cmd/check.rs`, `src/cmd/worker.rs` | jobs and messages channels, used names, job states with a condition variable, counters | worker, listener, handler, coordinator steps | counts lag behind acknowledgements, snapshot and completion are separate, wind-down by dropped senders | each job once; verdict counts every failure; waits return; threads end |
| job and step commands | `src/main.rs`, `src/protocol.rs` | none | `job start/wait`, `step start/fail` | may be left in the background and arrive after the job ended | — (the check's clients) |
| daemon lifecycle | `mq.rs` (start, auto-start, discovery, stop), `process_exit.rs` | runtime directories: `mq.sock`, `mq.pid`, `mq.dir`; flag and wake-up connection | start, look up, add, wait, stop | check-then-act start, crash leftovers, PIDs used again, deadlines, removal file by file | a live daemon is found; a dead one is not taken for live; nobody else's directory is harmed |
| queue clients | `mq.rs`, `src/mq_protocol.rs` | none | add, wait, list, status, version, stop | look the daemon up again between two requests | the answer is from the right daemon |
| worktree export | `src/lib.rs`, `test_merge_git_*` | Git test worktrees, jj bookmarks and the Git references exported from them, temporary directories | add, integrate, remove; mark, export, clone, clean up | paths and references shared by processes, clean-up by the liveness of a PID, kills between commands | own worktree only; running checks undisturbed; leftovers only of killed processes, and purged |
| revision resolution | `src/revision.rs` | none | resolve | the base moves between reads | identity fixed once |
| hooks | `mq.rs`, `check.rs` | none | run | fail at any place, write to worktrees | — |
| configuration | `src/config.rs` | files | read, overlay | — | — |
| command line, output, errors | rest | none | — | — | — |

How they interact. Commands look a daemon up in the runtime directories and talk
to it over a Unix socket, one request per connection and one detached thread per
request. A handler records a run in the table and then sends its ID to the single
queue processor, which takes one run through hooks, resolution of the base, test
integration, the candidate check and publication, and writes the result to the
table. The check exports two worktrees, starts a worker pool and its own socket
listener; the jobs it runs are processes that call back into that socket. The
repository is shared with everybody else: other daemons, inline checks, people.
The daemon keeps nothing on disk but its runtime directory.

`PROJECT.json` lists the hazards found in the code, each at its line with the
properties that would catch it, the definitions with the lines they model, and
for every property a plausible bug that violates it.

## The modules

    Integration  <-  Landing                  the abstract landing
         ^              ^ refined by
         +---------  MergeQueue     <-  MCMergeQueue, MergeQueueProofs,
         |              |                       MergeQueueServiceProofs
         |              ^ two of them on one base
         |           TwoDaemons     <-  MCTwoDaemons, TwoDaemonsProofs
         |
         +---------  Preparation    <-  MCPreparation, PreparationProofs

                     JobVerdict               the abstract verdict
                        ^ refined by
                     CandidateCheck <-  MCCandidateCheck, CandidateCheckProofs,
                                       CandidateCheckJobsProofs,
                                       CandidateCheckFamilyProofs

                     RuntimeLease             the abstract directory
                        ^ refined by
                     DaemonLifecycle <- MCDaemonLifecycle, DaemonLifecycleProofs

The modules meet where the code hands over. DaemonLifecycle takes a daemon from
the bind to the exit and leaves what it does while serving to MergeQueue, whose
`Start`, `RequestShutdown` and `Kill` are DaemonLifecycle's `Serve`, `RaiseFlag`
and `Die` or `Kill`. MergeQueue's `CreateTestMerge` and `CheckCandidate` are a
choice of outcomes; Preparation is how the two go, and CandidateCheck what
happens at Preparation's place `jobs`.

**Integration** has the data: a commit is its first-parent history, a sequence
of changes, and `Descends` is the prefix relation. `TestMerge(b, c)` is the set
of commits `create_test_merge` can return. Commits of the same changes in the
same order are not told apart, which identifies two replays of one stack; merges
are named by the tip they bring in. A preparation that fails (a conflict, a jj
command, a jj base that has another revision of a submitted change) is a
choice of the step that prepares and not of these operators.

**Landing** is what the owner of the base is promised, with no daemon in it: a
ticket joins one base commit with one checked integration descending from it,
and is used at most once: by a compare and swap, or for jj beside what others
did, which survives. `External` allows everybody else everything.

**MergeQueue** is the daemon.

| state | code |
|---|---|
| `runs`, `nextRunId` | `MQState.runs`, `next_run_id` |
| `queue` | the mpsc channel of `QueueMessage` |
| `conn` | one detached handler thread per connection, with the answer |
| `daemon`, `flag` | the accept loop's place, the shutdown flag |
| `pc`, `cur`, `expected`, `prepared`, `verdict` | the processor's place and locals (`run_id`, `resolved_base`, `merged_candidate`, `run_info.status`) |
| `base` | the targets of the base name (several when a jj bookmark conflicts) |
| `moves`, `lives` | bounds |
| `landed`, `acked`, `ahead`, `owed` | history, read by properties only |

Every lock-protected or system-visible step is one action: `QueueRun` and
`SendRun` are separate because the code takes no lock across them, `CompleteRun`
and `NotifyAll` because the code unlocks before it notifies, `JjSelect`,
`JjMove` and `JjVerify` because other operations can come between. Hooks, checks
and commands that can fail are a choice of outcomes. A waiter's test and sleep
are one step because the condition variable makes them so. List, status,
version and hello requests change nothing and are left out.

**TwoDaemons** has two MergeQueues with everything but `base` of their own, in
interleaving: two starts that overlap leave two daemons, and another checkout
may have its own.

**JobVerdict** promises of the jobs a check counts: begun once, ended once, one
verdict while none runs, and "passed" only if none failed.

**CandidateCheck** is a check from the point where its socket is bound.

| state | code |
|---|---|
| `usedNames` | `used_job_names` |
| `jobs`, `messages` | the two mpsc channels; step messages, which only feed the display, are left out |
| `worker` | each worker's place; the receiver's mutex makes `Take` atomic |
| `steps`, `completions` | `JobStates`; step names are left out |
| `conn` | a `selfci` command of some job and its handler thread |
| `listener`, `shutdown`, `wakeup` | the accept loop, the flag, the coordinator's own connection |
| `phase`, `completed`, `active`, `allJobs`, `anyFailed`, `result` | the coordinator's place and locals |
| `counted` | history: jobs whose `Started` was counted |

`StartJob` is one step because the name lock covers it all. `SnapshotSteps` and
`RecordCompletion` are two because the job-state lock is released between them.
What the job scripts do is chosen freely: any command from any job's process,
awaited or left behind, also after the job's command has ended. Its own command
cannot end while something it awaits is outstanding. The constants `Command`,
`Awaited`, `WaitsFor` and `WaitsForChildren` restrict the scripts in single runs.

**RuntimeLease** is what a runtime directory is to the daemons that use it: taken
only while free, kept while its holder works, given back by a holder that has
stopped, taken away only from a dead one.

**DaemonLifecycle** has one process per command and one per launched daemon.

| state | code |
|---|---|
| `files` | `mq.sock` (who bound it), `mq.dir`, `mq.pid` of each directory |
| `daemon` | a daemon process from the bind through fork, PID file, post-start hook, accept loop, drain and clean-up to its exit; `killed` is signalled and not yet reaped |
| `told`, `flag`, `wake` | a handler that has acknowledged Shutdown, the flag, the connection that wakes the accept loop |
| `pc` | each command's place in `get_project_daemon_runtime_dir`, `verified_daemon_pid`, `start_daemon_common`, `add_candidate`, `wait_for_run_id`, `stop_daemon` |
| `seeking`, `todo`, `fallback`, `at`, `pid` | what a look-up is for, the directories left, the unverified first match, the directory, the PID read there |
| `peer` | the listener a connection is queued at, which lives as long as its process |
| `ticket` | the daemon that added the candidate of `mq add` and told it a run ID; whether another daemon has given the same number out is a choice, since anybody may add |
| `doomed` | the names a recursive removal has still to unlink, one by one, whosever they are by then |
| `reused` | dead daemons' PIDs that name another process |
| `environment` | which commands are given, whether the directory is given by `SELFCI_MQ_RUNTIME_DIR`, whether others send signals, whether PIDs come again |
| `before` | history: what served and what had died when a command began |

A daemon is named after the command that launched it, and so is its PID. A
directory is read, connected to, asked and removed in separate steps, between
which any process may start, die or be killed.

**Preparation** has any number of processes, each one check with the preparation
before it.

| state | code |
|---|---|
| `worktree` | `.git/selfci-test-worktree-<candidate>`: who added it, its HEAD |
| `bookmarks`, `refs` | the jj bookmarks `selfci-export-*` and the Git references exported from them |
| `pc`, `killed`, `pidOf` | each process's place, whether it was killed, its PID |
| `base`, `candidate`, `prepared` | the resolved base, the candidate, their test merge |
| `doomed`, `deleted` | the bookmarks a clean-up is deleting; whether it must export afterwards |
| `outcome` | what the check will return; `blocked` when it failed for what the repository held |
| `copy`, `intact`, `command` | the commits of the two exported worktrees, which still hold their tree, where the job command was read |
| `before` | history: who had been killed when it began |

A `git` or `jj` command is one step; between any two, other processes go on and
the process may be killed. A command may fail for reasons of its own (`Fail`) or
because of what the repository holds (`Block`), and either takes the guards' way
out.

Definitions marked `Mutant:` are not part of the model. Each is a version of the
definition after it with a plausible mistake, and shows that a property can fail.

## The runs

Deadlock checking is off everywhere: an idle daemon, one that used up its lives,
commands that have ended and a finished check may stop.

| run | instance | shows |
|---|---|---|
| `merge_queue_git` | Git, rebase; 3 connections (symmetric), 2 runs, 1 move of the base, candidates `a` and `a,b` | type invariant; true verdicts; each unfinished run in one pair of hands; served in order of acknowledgement; the processor's loop drained before exit; results final; implements Landing |
| `merge_queue_jj` | jj, rebase; two daemons, a connection and a run each, 1 move, candidates `a` and `b` | with the split publication of both: true verdicts, each implements Landing, the base only advances, landings stay |
| `merge_queue_restart` | jj, merge, fair; 3 connections, 1 run, 1 move, 2 lives | Landing across kill and restart; acknowledged waits are answered, shutdown completes |
| `candidate_check` | 2 jobs, 2 workers, 3 commands of any kind (symmetric) | type invariant; jobs accounted for; waits agree with the verdict; implements JobVerdict |
| `candidate_check_waiting` | 4 awaited commands, scripts wait for their children, no `--ignore` | acknowledged jobs are counted; a fatal step fails its job |
| `candidate_check_live` | fair; 2 jobs, 2 workers, 3 awaited `start`/`wait`, for themselves and for each other too | completed waits return; the check ends or its jobs wait in a circle; threads wind down |
| `lifecycle_own` | automatic mode, a directory per launcher; two starts (symmetric) and a stop, with PIDs used again, or one of them with signals from outside | type invariant; live daemons not masked; a stop means gone; directories kept; implements RuntimeLease |
| `lifecycle_shared` | fair; one directory: given explicitly, or a launcher with an earlier one's PID; two starts, an add and two stops in six combinations, with or without signals from outside | "already running" is true; one daemon serves; commands end; shutdown is seen; a wait is answered by its own daemon, or by a successor when that one has ended; implements RuntimeLease |
| `preparation` | 3 processes with 2 PIDs on one candidate (symmetric); Git with partial clones, jj with full clones; the base is the candidate or has diverged | type invariant; own worktrees; passed as prepared; no leftovers; leftovers purged; in jj nobody blocked |
| `uncounted_job` | scripts that need not wait | **violation**: a passed check without an acknowledged job |
| `overwritten_failure` | scripts that use `--ignore` | **violation**: a fatal step failure overwritten |
| `full_clone` | one process, Git, clone mode `full` | **violation**: the test merge is not fetched |

Why the bounds are enough. Two runs are what it takes to overtake, repeat or
confuse runs; the third connection lets a waiter, a submitter and a second
waiter or submitter meet. A candidate and a stack on it give resubmission,
fast-forward and already-integrated candidates. One move of the base separates
preparation from publication; with two daemons the other's landing is a second
update that meets it. Two lives give one restart. In the check, two jobs and two
workers give a parent and a child that race to the coordinator; three commands
give two waiters beside a start, or a step marked and logged again around a
wait. Two daemons and a stop give a removal that meets a start, a look-up that
meets a crashed directory and a live one, and a PID that names somebody else.
Three processes with two PIDs give one that was killed, one that got its PID and
one that cleans up meanwhile. The bounds `MaxRuns`, `MaxMoves`, `MaxLives` and
the sizes of the sets are the only ones; none is in the code.

In `lifecycle_shared` two starts and an add meet signals from outside: a daemon
takes the candidate, is told to stop, drains and goes, and another is started in
the directory and answers the second look-up of `mq add --wait`. The stops meet a
single start: what a stop does to a second one in its directory is among the known
limits below, and the reason why `RuntimeKept` is a property of `lifecycle_own`.

The three violations are recorded as findings in `PROJECT.json`.
`specs/SPEC-candidate-check.md:68-73` knows the first and leaves its semantics
open; the run `candidate_check_waiting` shows that waiting for every started job
is a remedy within scripts. The third is a bug: `git clone` fetches what
references reach, and the test merge of a Git repository is reached by none.

### Known limits of the code

These were met while modelling. They are behaviours of the model that no
property forbids, or the reason why a property is stated as it is.

* A queue processor that finds no VCS when its thread starts returns
  (`mq.rs:1203-1209`), while the accept loop goes on: candidates sent before that
  were acknowledged and never get a result, their waiters sleep as long as the
  daemon lives, and a graceful shutdown ends it without them. The specification
  has no such exception (`specs/SPEC-merge-queue.md:27-30`: "finishes work already
  sent to the queue processor"; likewise lines 88-91). `OneHolder`,
  `DrainedBeforeExit` and `AckedWaitAnswered` except this case, the place `noVCS`
  of the processor, and nothing else.
* Two `mq start` that overlap leave two daemons in automatic mode: the check
  that none is running (`mq.rs:442-461`) and the bind (`mq.rs:486-501`) are
  separate steps in directories of different names. `merge_queue_jj` shows that
  two daemons do each other no harm at the base.
* `mq stop` says Hello before its deadlines start (`mq.rs:2978`), and a
  draining daemon's listener queues connections it will not accept; a second
  stop waits as long as the first daemon drains. `CommandsEnd` holds because the
  first stop kills it, and is claimed only where nobody else has told it to stop.
* The SIGKILL at the deadline goes to the number (`mq.rs:3064`), after the last
  look through the watcher: the daemon may exit in between and its PID come
  again. `Kill` has the harm to another process outside the model.
* With two starts and a stop in one directory, the stop can remove the files of a
  daemon that came up between its last reading of `mq.pid` and the unlinking
  (`mq.rs:3118-3131`).
* `mq add` takes the directory of a crashed daemon for a running one
  (`mq.rs:2624`) and fails to connect instead of starting a daemon; and it says
  "not running" when one came up between its two look-ups (`mq.rs:741`). The
  explicit directory never leads to an auto-start.
* `mq add --wait` looks the daemon up again and waits for a bare number
  (`mq.rs:2910`). Once the daemon that took its candidate has ended, a successor
  answers for its own run of that number, or that there is none. `WaitsForOwnRun`
  says that in one directory this cannot happen before; with several it can.
* A Git test worktree left by a killed process is in the way of every later
  preparation of the same candidate (`mq.rs:1585`). `NotBlocked` is claimed for
  jj only.

## Fairness

`MergeQueue!Fairness`: the processor thread, the accept loop once shutdown has
woken it (SIGTERM and the Shutdown handler both connect to the socket for that),
the main thread's join, and the straight-line code of a handler are scheduled
by the operating system. The processor's fairness includes that hooks and
checks end, which the daemon cannot enforce. No client need come, no shutdown
be asked for, and nobody need move the base.

`CandidateCheck!Fairness`: each worker, the listener, each handler and the
coordinator are scheduled. A worker's fairness includes that the command of its
job ends once nothing it awaits is outstanding. Scripts need run nothing.
`CheckEnds` excepts, in the state where it holds, jobs that wait for themselves
or for each other or that fill the pool while the others they wait for are queued
(`Stuck`): then the code does hang, as its specification says
(`specs/SPEC-candidate-check.md:70-73`). `candidate_check_live` has waits for
oneself and in a circle; with its two workers for two jobs the pool is never full
of others, and a pool of no workers is outside the model's runs.

`DaemonLifecycle!Fairness`: each command and each daemon's own steps are
scheduled, and the kernel reaps what was killed. Nothing obliges a daemon to
finish draining, since a job may hang, nor anybody to give a command, to send a
signal, to die or to be given a PID again.

Preparation and TwoDaemons are about safety only and state none.

## What is proved

The theorems hold for every value of the constants within the assumptions the
modules name (`VCSAssumption`, `MergeModeAssumption`, `CandidateAssumption` — a
candidate is a non-empty commit —, `OutsiderAssumption`, `BoundAssumption`;
`JobAssumption`, `ScriptAssumption`, `NoJobAssumption`; `KindAssumption`,
`DirAssumption`, `EnvironmentAssumption`, `NoneAssumption`; `ModeAssumption`,
`SettingAssumption`, `RevisionAssumption`).

**MergeQueueProofs**

* `TypeCorrect`: `Spec => []TypeOK`. Typing is not inductive: that the
  processor's `cur` is a run and its candidate a commit needs `InHand`, which
  says that the processor's run is in the table, is the only one running, and
  that IDs not handed out are unused.
* `VerdictCorrect`: `Spec => []VerdictMatchesBase`. The strengthening is
  `PublicationKnown`: at each place of the processor it is known whether its run
  has been published, and a finished run's status is never touched again.
* `DaemonImplementsLanding`: `Spec => ImplementsLanding`. `PreparedOnBase` says
  that between preparation and publication `prepared` descends from `expected`;
  it rests on `TestMergeDescends` (each integration function returns a
  descendant of its base) and, for jj, on `MergeTargetsKeep` (the merge of
  concurrent bookmark operations keeps a descendant of every other target).
  Every action is then shown to be a step of `Landing` or a stutter.

The last section says what a daemon keeps true when somebody else writes the base
at any time, which is what TwoDaemonsProofs needs. `Carries` adds that what is
checked contains its candidate (`TestMergeHolds`); `Sound`, the conjunction of the
invariants, survives any move of the base (`SoundBeside`); a step of the daemon
that is not somebody else's move leaves each target a descendant (`StepAdvances`),
which holds all that the target held (`DescendantHolds`); and the step that lands
a run leaves its candidate in the base (`PublicationHolds`).

**TwoDaemonsProofs**: two daemons on one base, each with any queue, any number of
lives, and starts and kills at any time.

* `BothVerdictsCorrect`: `Spec => []VerdictsMatchBase`. `BothSound` is `Sound` of
  either daemon: one's step keeps its own and is a move of the base to the other.
* `BothImplementLanding`: `Spec => EachImplementsLanding`. A publication of the
  one is an `External` step of the other's Landing, which promises nothing of them.
* `BaseNeverRecedes`: `Spec => BaseOnlyAdvances`, from `StepAdvances` of each; the
  second daemon's specification has no moves by others, so that the first's counter
  tells them all.
* `LandedIsKept`: `Spec => []LandingsStay`. What is landed now is in the base by
  `PublicationHolds`; what was, stays by `StepAdvances` of whichever daemon
  publishes, and the run keeps its candidate (`LandedKeepsCandidate`).

  MergeQueueProofs is instantiated once per daemon. The operators of these
  instances and those of TwoDaemons' own are different definitions to the prover;
  `OneSameNext` and its like show that they agree.

**MergeQueueServiceProofs**: what the daemon owes its clients. The inductive
invariant `Service` has four parts: `Base` (types, the processor's run, and that
without a daemon there is no run and no handler at work); `OneHand` (a queued run
is in the channel once, with the one handler about to send it, or just taken);
`AckOrder` with `AckOrderAlive` (a run acknowledged before another was queued is
finished, at the processor, or before it in the channel); and `Drain` (what is
owed at a shutdown, which is all that was acknowledged when the marker was sent, is
finished, at the processor, or before the marker). It is
needed because each property is about a place a run has left or has not reached.

* `FinalResults`: `Spec => ResultIsFinal`. A submission writes an ID
  that was not handed out, the processor its own run, which is not finished while
  it is at work.
* `OneHolderHolds`: `Spec => []OneHolder`. Counting the hands is left to one
  lemma; the invariant itself has no cardinality.
* `AckOrderHolds`: `Spec => []ServedInAckOrder`. An answer comes after the send
  and the channel is first-in first-out, hence the order in the channel.
* `ShutdownDrains`: `Spec => []DrainedBeforeExit`: when the processor has left its
  loop, each run acknowledged before the marker was sent has its result. A run is
  acknowledged after it was sent, so by `AckOrderAlive` it is then finished, at the
  processor or in the channel, and the marker goes behind it. Of a processor that
  never entered its loop (`noVCS`) the theorem says nothing.
* `WaitersAwaited`: while there is a processor, the run a handler sleeps for is to
  be sent, in the channel, or at the processor until it has notified. `Awaits` is
  inductive because a handler tests and sleeps in one hold of the lock; and since
  `CompleteRun` and `NotifyAll` are separate, it speaks of the step between them.
* `DrainingIsMarked`: until the processor has ended, a draining daemon's channel
  holds the marker, whatever late handlers send.

**CandidateCheckProofs**

* `WaitsAgree`: `Spec => []WaitsAgreeWithVerdict`. `FailureKept` ties every
  recorded failure to `any_job_failed` and the verdict to the end of recording.

**CandidateCheckJobsProofs**: the accounting of the jobs. The inductive invariant
`Accounts` adds to types and `IInv`: `OnePlace` and `OneEach` (a job named is in
exactly one of channel, worker, message, coordinator's hands and record, once);
`InHands` (which places of the threads go with a job); `Announced` (a job's
`Started` is sent once and comes before its `Completed`); and `Counting` (`active`
is the number of jobs counted and not recorded).

* `CheckTypesCorrect`: `Spec => []TypeOK`. That `active` never falls below zero
  takes all of `Accounts`.
* `JobsAccounted`: `Spec => []JobsAccountedFor`, from `OnePlace` and `OneEach`.
* `CheckImplementsJobVerdict`: `Spec => ImplementsJobVerdict`. A job is begun only
  once by `Announced`, and by `Counting` none runs when the loop is left.
* `FatalStepsFail`: `"failIgnored" \notin Command => (Spec => []FatalStepFails)`.
  `FatalKept` follows a mark from the steps through the snapshot to the record; a
  job whose own command awaits the answer has not ended. The hypothesis excludes
  what the run `overwritten_failure` shows.
* `CoordinatorHasSender`: `Worker # {} => (Spec => [](...))`: when the coordinator
  finds no message, some worker has a job or is free to take one. `Pending` (a
  loop that goes on after a record has a job counted and not recorded) and
  `Accounts` find that job. What is left between this and the end of a check is
  that scripts end.
* `SleepersAwaited`: a handler that sleeps does so for a job without an outcome,
  and until the verdict that job is queued, held, reported or being recorded.
* `WorkersOutliveSenders`: a worker has exited only when no handler can send, and
  with the queue empty; so the send in `StartJob` indeed cannot fail.

**CandidateCheckFamilyProofs**

* `AcknowledgedCounted`: `Waiting => (Spec => []AcknowledgedJobsCounted)`, where
  `Waiting` says that scripts await their commands and wait for the jobs they
  start; without it the run `uncounted_job` is a counterexample. `Family` says that
  a child without an outcome has a running parent (`Parents`), that the jobs form
  a tree (`Rooted`, stated of sets, so that no induction over the tree is needed),
  and that Main is counted first (`MainFirst`). So when the last counted job is
  recorded, a job left without an outcome would have an ancestor whose parent is
  Main, still running and counted (`LastRecorded`).

**DaemonLifecycleProofs.** The inductive invariant is a conjunction: `Types`;
`Past` (what a command remembers of dead daemons has stayed dead); `Invited` (only
commands that were given run); `Addressed` (whose PID and directory a command
has); `Bound` (a socket is of a daemon that was launched); `Held` and `Kept` (what
a daemon's directory contains at each of its stages, and that a removal under way
concerns a dead daemon's files); `Watching` (a look-up has either still to visit
the directory of each daemon that has served since it began, or is at it).

The hypotheses are about the environments, each by itself: in `e`, `OwnDirs(e)`
says that the launchers given have distinct directories, `OneDir(e)` that they
share one, and `NoStop(e)` that no stop is given. `Invited` turns them into facts
about the daemons there are (`Apart`) or the stops at work (`Unstopped`). The
instances of `lifecycle_own` and `lifecycle_shared` satisfy the hypotheses of the
theorems about their properties.

* `TypeCorrect` and `AlreadyRunningHolds` need no hypothesis.
* `OneServingHolds`, `LeaseImplemented` and `FlagIsHeard` assume `OwnDirs(e)` or
  `NoStop(e)` in each. The last says that a daemon with the flag set has the
  connection that wakes it: a handler connects to a path, and by `Held` the socket
  there is its own.
* `RuntimeKeptHolds`, `LiveNotMaskedHolds` and `StopMeansGoneHolds` assume
  `OwnDirs(e)` in each. Automatic mode has it as long as the launcher of a daemon
  that lives does not have its PID taken by another.
* `WaitsForOwnRunHolds` assumes `OneDir(e)`, and `OwnDirs(e)` or `NoStop(e)`, in
  each; signals and crashes are not restricted. Both the daemon that answers and, if it still processes its queue, the one
  that gave the ID out hold the one directory's socket; `Ticketed` says that there
  was one.

  That the hypotheses are needed is the code's doing: a stop that has read
  `mq.pid` removes the directory by its path, so in a shared directory the files
  of a daemon that starts in between go with it.

**PreparationProofs**

* `TypeCorrect`: typing needs `Equipped`, that a process which exports has the
  commit, and `Distinct`, that running processes differ in their PIDs.
* `OwnTreeHolds`: the property is inductive with `Types`, since only an add that
  finds the path free makes a worktree, and only its owner's guard removes it.
* `PassedAsPreparedHolds`: `Sound` says of each place what the later ones rely
  on, from the HEAD after the integration to the last attestation; the HEAD read
  is the one integrated by `OwnTreeHolds`.
* `NotBlockedHolds` and `NoLeftoversHolds` rest on `Tidy`: a name belongs to a
  killed process or to a running one at a place that cleans up later (`Known`);
  a reference has its bookmark or an export to come (`Followed`); a clean-up
  under way deletes names of killed processes or its own (`Purging`); and a
  process that clones has both bookmarks and both references (`Holding`).
  `OthersMarks` is the heart: no step changes the names of another running
  process, and an export of any process keeps the references in use.
* `LeftoversPurgedHolds`: `Cleared` follows a leftover from the listing through
  the deletions and the export; that no step makes a bookmark of a killed
  process again is `NoneRevived`.

Every safety and action property of the passing runs is a theorem. Only
model-checked are the liveness properties, since the prover has no `ENABLED`:
`AckedWaitAnswered`, `ShutdownCompletes`, `CompletedWaitReturns`, `CheckEnds`,
`ThreadsWindDown`, `CommandsEnd` and `ShutdownWakes`. What they rest on besides
fairness, that nobody waits for what nobody will do, is proved for most:
`WaitersAwaited`, `DrainingIsMarked`, `CoordinatorHasSender`, `SleepersAwaited`,
`WorkersOutliveSenders` and `FlagIsHeard`.

## Not modelled

* Configuration: files read once, overlaid field by field, with no state; what a
  check takes from them is a choice in Preparation. The command line, printing,
  logging of commands and the error types: no behaviour of their own. The parsing
  of revisions: what is resolved is a commit or a failure.
* The contents of commits: conflicts and failing commands are a choice, and the
  intermediate commands of an integration fail as one. Revisions users name are
  on branches, and objects no reference reaches stay until they are used.
* Preparation takes each `git` or `jj` command as atomic, and the commands of the
  clean-ups as succeeding unless the process is killed: the guard's `git worktree
  remove --force` (`mq.rs:1611-1615`), and listing, deleting and exporting
  bookmarks (`lib.rs:59-89`). The code ignores their failures and goes on; then a
  worktree, bookmark or reference stays behind although nobody was killed, and a
  stale one is not purged. `NoLeftovers` and `LeftoversPurged` rest on this. jj's re-import of a Git
  reference whose bookmark another process has just deleted is left out, and so are
  temporary directories of killed processes, PIDs held by programs other than
  SelfCI, and `SELFCI_VCS_FORCE`.
* A `jj bookmark move` that has committed its operation and then exits with an
  error (`mq.rs:2516-2520`): the run would be reported as not merged although the
  bookmark moved. `VerdictMatchesBase` and `VerdictsMatchBase` rest on that not
  happening.
* Spurious wake-ups of condition variables: both waits re-test in a loop. A
  control connection the kernel refuses because the backlog is full, a poisoned
  mutex, and a step command that names another job by changing
  `SELFCI_JOB_NAME`.
* An inline check ends its process with the verdict; the wind-down of the check's
  threads matters in the daemon, and that is what is modelled.

## Plan

Done, in this order: Integration, Landing, MergeQueue and its proofs;
JobVerdict, CandidateCheck and its proofs; RuntimeLease, DaemonLifecycle and its
proofs; Preparation and its proofs; TwoDaemons and its proofs. What is left is
proof: that unless jobs are `Stuck` some running script may end, which is the rest
of `CheckEnds` but fairness; and for `CommandsEnd`,
that a command of a stop or a start always has a step.
