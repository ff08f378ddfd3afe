# A TLA+ model of GRL

GRL (Generic Reinforcement Learning Library) is a C++ library in which an
*experiment* lets an *agent* act in an *environment*. Agents, policies,
predictors, representations and environments are objects that a YAML file
puts together; an experiment drives them through a small set of calls. This
directory models the parts of GRL whose correctness depends on order, on threads
or on counting, checks them with TLC on small instances, and proves what matters
most with TLAPS for every instance.

Paths below are relative to the root of the repository.

## 1. Inventory

### Components, their state and their operations

| Component | State | Operations | Calls / is called by |
|---|---|---|---|
| Online learning experiment, `base/src/experiments/online_learning.cpp` | run, trial and step counters, learning curve | `run` | starts and steps the environment, starts, steps and ends the agent or the test agent; `reset()` and `walk(save)` reach every object |
| Batch learning and approximation test experiments, `base/src/experiments/` | batch counter, curve | `run` | predictor, representation, environment |
| Multi-experiment, `multi.cpp` | one thread per experiment | `run` | other experiments |
| RPC environment and worker, `rpc_env.cpp`, `base/src/worker.cpp`; communicators, `addons/zeromq` | a socket | `run`, `step`, `read`, `write` | a remote process |
| Agent interface, `base/include/grl/agent.h` | episode in progress | `start`, `step`, `end`, `report` | called by experiments and master agents |
| Replay agent, `agents/replay.cpp` | replay memory, three counters, two signals, threads | `start`, `step`, `end`, `reconfigure`, `replay` | policy, predictor; `itc::Thread`, `itc::SharedVariable` |
| Dyna agent, `agents/dyna.cpp` | two counters, threads, planning episode | `start`, `step`, `end`, `reconfigure`, `runModel` | model, model agent, predictors |
| Semi-Markov masters, `agents/smdp_master.cpp` | time and kept reward per sub-agent | `start`, `step`, `end`, `reconfigure` | sub-agents |
| Other agents, `agents/*.cpp` | previous observation and action | `start`, `step`, `end` | policy, predictor, sub-agents |
| Environments, models and tasks, `environments/*.cpp` | physical state, time | `start`, `step` | called by experiments |
| Predictors, `predictors/*.cpp` | eligibility trace, transition buffers | `update`, `finalize` | representations, projectors, policies |
| Representations, `representations/*.cpp`, `grl/representation.h` | parameters, target copy, batch under a mutex | `read`, `write`, `update`, `batchRead`, `finalize` | predictors, policies |
| Traces, `grl/trace.h` | decaying list of projections | `add`, `decay`, `clear` | predictors |
| Sample store, `grl/projections/sample.h`; indexes in `addons/llr` | samples with use counts, index thread | `push_back`, `prune`, `clone`, `project` | local linear regression |
| Policies and samplers, `policies/`, `samplers/` | random state, search tree (`mcts.cpp`), combination of policies (`multi.cpp`) | `act`, `sample` | agents |
| Projectors, discretizers, mappings | none or tables | `project`, `begin`, `inc` | predictors, policies |
| `itc::SharedVariable`, `externals/itc/include/itc/itc.h` | data, sequence number, per-thread sequence numbers, read-write lock, mutex, condition | `get`, `set`, `read`, `write`, `wait`, `mark`, `test`, `signal` | replay agent, signals, visualization |
| `itc::Thread`, same file | `continue_`, thread handle | `start`, `stop`, `join`, `ok` | replay and Dyna agents, worker, multi-experiment, visualizers |
| Mutexes and thread-local instances, `grl/mutex.h` | a list of instances | `instance` | trees, random numbers |
| Configuration tree, `base/src/configurable.cpp` | tree of configurators with references | `instantiate`, `find`, `reconfigure` | everything |
| Statistics and samplers of `grl/utils.h`, `base/src/statistics.cpp` | ring buffers | `addValue`, `add`, `draw` | Dyna agent, communicators |
| Exporters and importers, `exporters/csv.cpp` | file, run counters | `open`, `write` | environments |
| Solvers, optimizers | iteration state | `solve`, `setup` | agents, tools |
| Visualization, addons for robots and simulators, command line tools | drawing, device and process handles | – | external libraries |

### How they interact

One *control thread* runs the experiment. It calls the environment and the
agent in alternation. `reset()` (that is, `reconfigure` with `action=reset`
through the whole tree) is called between runs by the same thread. Replay and
planning threads are created by an agent's `start` and joined by its `reset`;
they share the agent's counters and memory with the control thread, partly
without any lock. Signals (`VectorSignal`, the replay signals) are
`itc::SharedVariable`s. The rest is sequential.

### Hard behaviours, and what correctness means for them

* **Replay agent.** Unlocked counters decide whether the control thread may go
  on. Correct: control is never ahead of replay; a stored transition is not
  overwritten while an update points to it; samples exist; the overshoot is
  below one batch; nobody waits for ever; a reset ends the threads first.
* **SharedVariable.** Two locks and a sequence number read outside of them.
  Correct: data is touched only under the right lock, `read` returns each
  announcement at most once per thread, no wake-up is lost.
* **Dyna agent.** A model may fail to predict; threads run behind control.
  Correct: the planning agent is called within its protocol, planning stays
  within its budget, a reset ends the threads.
* **Masters.** Rewards of sub-agents that are passed over are accumulated with
  discounts relative to their own last turn. Correct: each reward reaches each
  running sub-agent exactly once, with the right discount; sub-agents are called
  within their episodes.
* **Online learning.** Test trials, the step budget, the report and saving are
  interleaved. Correct: the budget counts the learner's transitions, the report
  counts its trials, runs are separate, the saved policies are the reported ones.
* **Representations.** A batch of reads holds a mutex from `batchRead` to `read`;
  target copies are synchronised every `interval` writes. Correct: batches do not
  mix, the mutex is given back, the target lags by less than the interval.
* **Sample store.** Pruned stores share samples by use counts that are
  increased under a read lock. Correct: a sample is deleted exactly once, and
  not while a store or a projection refers to it.
* **Communicators, worker and RPC.** Two processes send each other observations
  and actions; messages are lost before a subscription, arrive late or not at all.
  Correct: each answer is taken for the answer to its own question, nothing is
  followed by something older, a call returns. The worker reads a byte stream that
  can end anywhere. Correct: a truncated message is not taken for a whole one.
* **Configuration tree.** Objects may be reached by several paths, references can
  be circular or lead to what does not exist yet. Correct: an object is configured
  after what it uses, `reconfigure` terminates, and reaches an object after all that
  the object depends on.

The complete list of hazards, each with its line and the properties that cover
it, is in `PROJECT.json`.

## 2. Modules

| Module | Models | For TLC | Theorems |
|---|---|---|---|
| `ReplayAgent` | `agents/replay.cpp` | `MCReplayAgent` | `ReplayAgent_proofs` |
| `SharedVariable` | `itc::SharedVariable`, lock by lock | | `Communication_proofs` |
| `Mailbox` | what `SharedVariable` promises; the abstract specification it implements | | |
| `DynaAgent` | `agents/dyna.cpp` | `MCDynaAgent` | `DynaAgent_proofs` |
| `SMDPMaster` | `agents/smdp_master.cpp` | | `SMDPMaster_proofs` |
| `OnlineLearning` | `experiments/online_learning.cpp` | `MCOnlineLearning` | `OnlineLearning_proofs` |
| `Representation` | `grl/representation.h` and the batch predictors that call it | `MCRepresentation` | `Representation_proofs` |
| `SampleMemory` | `grl/projections/sample.h` with the index of `addons/llr/src/ann.cpp` and the learner of `llr.cpp` | `MCSampleMemory` | |
| `Messenger` | `externals/cppzmq/src/zmq_messenger.cpp` between a communicator agent and a communicator environment | | `Communication_proofs` |
| `ConfigurationTree` | `base/src/configurable.cpp`, `grl/configurable.h` | `MCConfigurationTree` | `ConfigurationTree_proofs` |

An `MC` module only defines the values of constants that a `.cfg` file cannot
write: configurations, documents, bounds that depend on the number of threads.

The operators between the two rules headed *Plausible bugs* in each module are
not part of a specification. Each is a variant of a definition that follows it,
and replaces that definition when one wants to see that a property can fail.

### ReplayAgent

Variables correspond to the fields of the same name: `totalControl` is
`total_control_steps_`, `totalReplay` is `total_replay_steps_`, `size` is
`transitions_.size()`. `cpc` and `rpc` are the program counters of the control
thread and of every executor of `replay()`. A behaviour chooses its `threads`
among `Teams` once and for all; with `threads = {}` the control thread is its own
executor, as in line 110.

The counters are plain fields shared by several threads, so each access is an
action: `total_replay_steps_ += batch_size_` is `Update` (load) and `AddTotal`
(store), the assignment of line 151 is `LoadSkip` and `AssignSkip`. A
transition is written in two steps (`Store`, `Stored`) because the new values
are copied over the old ones while updates may point to them. The calls on the two
signals are one step each, which is what `SharedVariable` shows them to amount
to. A new thread has no thread-specific sequence number, which reads as 0
whatever has been signalled before (`Start`).

Abstracted: what is in a transition (only its slot matters), the policy, the
predictor (a call between `Sample` and `Update`), `report`.

### SharedVariable and Mailbox

One action per lock operation and per access to `data_` and `sequence_`.
`pthread_cond_wait` gives up the mutex and falls asleep in one step, may wake up
spuriously, and takes the mutex again. `read` is `wait` followed by `mark` and
a copy under the read lock; `write` stores and then signals, holding the write
lock. The rwlock grants a read lock whenever nobody writes, which allows more
than any preference of an implementation.

`Mailbox` has one atomic action per operation: a value with a version, and a
`read` that returns only a version it has not returned before. Under the
refinement mapping a `write` takes effect when the data is stored, although the
sequence number follows later, and a `read` at its `mark`. `KeepsPromise` is the
specification of `Mailbox` with its fairness.

### DynaAgent

`runModel` is unfolded into its loop: `Iterate` starts a planning episode when
the last one is over, `ModelStep` is the model's answer (`running`, `timeout`,
`absorbing`, or `failed`, an empty observation), `LoadPlanned` and
`AddPlanned` are `total_planned_steps_++`, `Break` is the check of the horizon.
`TestBehind` is the inner loop of `DynaAgentThread::run`, which does not test
`ok()`. History variables record whether the planning agent is inside an episode
and how long that is.

### SMDPMaster

A reward is abstracted to the time at which it was earned and a discounted
reward `pow(gamma, e) * r` to the pair `<<time, e>>`; the sum of discounted
rewards is a set of pairs, in which a reward that is lost, counted with another
exponent, or kept for too long shows. `calls` holds the calls each sub-agent got
in the last call of the master. Which sub-agents run is decided by arbitrary
confidences (`Selected`). `lastRun`, `earned`, `phase` and `sub` are history.

### OnlineLearning

`run()` step by step: `StartTrial`, `StepEnvironment` (any outcome, with or
without an observation), `TellAgent`, `Report`, `Save`, `EndRun`. The
configuration is a variable that never changes, so that one run of TLC goes
through all of them. `trained` and `given` record what the learner has had since
its last reset and are compared with what the program counts. `reset()` is
taken to make the learner forget everything it has learnt; whether each object does
so is a question of its own module.

### Representation

The users are threads that call `update(transitions)` of a batch predictor:
`CallBatchRead`, `LockBatch`, an `Enqueue` for each transition and `Read`, then a
`Write` and a `CheckSynchronize` for each. A projection is abstracted to the
thread that enqueued it, and a parameter vector to its version, the number of
writes that made it. The configuration says how often the target follows
(`interval`, 0 for a representation that is its own target), whether the predictor
begins a batch on another object than it reads (`mixed`, which is SARSA,
`predictors/sarsa.cpp:78-82`), and whether a read may have no result before
anything has been learned (`silent`, which is local linear regression). `Write`
and `CheckSynchronize` are separate because the mutex of the latter does not cover
the former. `Read` unlocks the mutex of the object that it is called on, whoever
holds it, and keeps it when the first read has no result.

### SampleMemory

Samples are numbers in the order of their pushes. A *store* is a place in the
heap with the samples it points to (`content`) and the room its vector has before
it moves; stores are shared pointers, so one disappears with its last holder
(`Release`), and its destructor decides about its samples (`Disown`). A thread
projects (`Project`), which leaves it with pointers to a store and to some
samples, and a learner then pushes (`Push`), finds an identical sample
(`FindIdentical`), and finalizes after up to `Batch` writes. When `NeedsReindex`
holds it copies the store under the *read* lock (`PruneCopy`), increases the
use counts of what it keeps one by one, each with a load and a store (`LoadUse`,
`StoreUse`), builds the index (`Indexed`) and makes both current (`Swap`). The
reset replaces the store at once; learners are not at work then, which
`CleanReset` of `ReplayAgent` shows.

Abstracted: distances, relevance and the regression. Which samples are near, are
kept or are identical is left open.

### Messenger

Two processes, each with a calling thread that sends and receives in turn and a
worker thread that receives into a buffer. A message is its number among those of
its sender and the number of the message that the sender had received before it
(`re`), which tells whether it is the answer to the last question. What is sent
before the other process has subscribed is lost, a socket keeps only the last
message, and a call of `recv` may give up at any time (`Timeout`) and go on with
whatever the buffer holds, which may be nothing.

### ConfigurationTree

A document is a tree of numbered nodes in the order in which they are read. A
reference is the node that its path leads to; whether that already exists is part
of the state, so a reference can be written before what it refers to, to another
reference or to an object around it. `Instantiate`, `CompleteList` and `Configure`
are the steps of `instantiate()`, including the validation that refuses a
reference which leads to nothing. `Walk`, `Visit` and `Reconfigure` are the
recursive `reconfigure` with its stack of calls; `OnPath` is its test for circles,
which looks at the chain of parents of the node.

## 3. What the runs check

### Runs that pass

`replay` (no thread, one and two; memory for 2, replay in 3 steps of batches of
2; 3 to 5 control steps between 2 resets, fewer with two threads). For a single
executor of `replay()`: `NotAhead` (control never returns before the replay it has
asked for), `NoTornSample` (no transition is overwritten while an update points to
it), `CleanReset` (no update is under way when a reset begins), `ReplayBounded`
(the overshoot is less than a batch). Without threads also `EveryStepReplayed`
(every control step is paid for). With any number of threads: `TypeOK`,
`SampleInBounds`, `ControlReturns` and `ResetCompletes`. The memory wraps around,
the batch does not divide the target, and both the early return and full replay
occur.

`shared_variable` (two threads, two values, two announcements): `DataLocked`,
`TestPromisesRead` (a `read` after a positive `test` does not sleep), and
`KeepsPromise`, the refinement. Deadlock is not checked: threads that all wait in
`read` for data nobody writes do stop.

`dyna` (no thread, one and two; every answer of the model; horizon 1, 3 planning
steps): `PlanningProtocol`, `HorizonPlusOne`, `PlanningBounded`, and, once the
model can predict, `PlanningCatchesUp` and `ResetCompletes`. An episode has one
transition more than the `planning_horizon`, which is compared before it is
incremented; the property states what the code does.

`smdp_master` (three sub-agents, each kind of master, step durations 1 and 2,
time up to 4, resets and timeouts at any moment): `TypeOK`, `AllEnded`,
`RewardKept`, `SubAgentProtocol`, `RewardHandedOver`. Time 4 lets a sub-agent be
passed over twice between turns with different durations; three sub-agents let one
run, one be passed over and one not be started. `reset` forgets neither
`reward_` nor `prev_time_`; the run shows that this does no harm.

`learning` (every combination of one or two runs, trial and step limits, tests
never, always, and after one and two trials, and every value of `save_every`):
`StepsCounted`, `CurveCurrent`, `FreshRun`, `SavedAsReported`, `SavedEveryRun`,
`Terminates`.

`representation` (two threads, batches of one and two, four writes; no target and
one that follows every write, every second and every third): `BatchMine` (a batch
is never interrupted), `TargetLag`, `BatchReturns`. Batches end in the middle of
an interval, and both threads can be between a write and its synchronisation.

`sample_memory` (a learner that writes up to two samples before it finalizes, a
reader, four places for stores, five samples, memory for two): `NoDangling` (no
store or projection points to a deleted sample), `CountsRight` (a use count is the
number of stores, nothing leaks), `IndexUsable` (the index refers into a vector that has not
moved). Four places are the most that can be in use: the current store, the new
one, and an old one in the projection of each thread. Five samples let the memory be
pruned twice while a projection holds the first store.

`messenger` (four messages of each process, any loss before the subscription, any
delay, a timeout at any moment): `LockStep` (without a timeout every message
received is the answer to the last one sent), `NeverBackwards` (nothing is followed
by something older, not even after timeouts), `CallReturns`.

`configuration` (all documents of up to five nodes, with every reference that
resolves): `ConfiguredFirst`, `DependenciesFirst`, `NoReentry`. Five nodes
suffice for two objects in each other's parameters through two references, for a
reference to a reference, and for lists of them.

### Runs that find a violation

`replay_two_ahead` (violation of `CaughtUp`): line 112 says "Avoid running ahead of
replay". A replay thread that is between the load and the store of
`total_replay_steps_` sets the counter back after the other one has let control
go. The same behaviours let control overwrite a transition that an update points
to: the option `threads` (line 49) asks only for a reentrant predictor.

`dyna_stuck` (violation of `ResetCompletes`): with a model that cannot predict,
which is how every learned model begins, `runModel` counts nothing, the inner loop
never ends and `stopThreads` waits for ever, although `run()` "must exit when
ok() becomes false" (`itc.h:244`).

`representation_stuck` (violation of `BatchReturns`): `read(Matrix*)` returns at
`representation.h:130` with the mutex locked when the first read has no result;
and SARSA over a representation with a target locks the mutex of one object and unlocks
that of another. In both cases the next batch waits for ever.

### Observations without a run of their own

* The accepted value of `save_every` is `trail` (`online_learning.cpp:60`), the
  code compares with `trial` (line 240): policies are never saved after every
  trial. `SaveTrial` models this.
* After a reset the first `read` of a new replay thread returns at once, because
  it has seen no signal yet. If it finds the memory below `observation_steps` and is
  slow, it counts a control step as replayed that has not been. Hence
  `EveryStepReplayed` is about synchronous replay.
* With three planning threads `PlanningBounded` would fail: a late store sets
  `total_planned_steps_` back, another thread plans again, and the third one stores
  the count it had loaded before and adds to it. With `planning_steps` 3 TLC reaches
  12 planned steps where 3 were asked for. The property, and its proof, are for at most two.
* With two learners `NoDangling` and `CountsRight` fail: `prune()` increases
  use counts under the read lock (`sample.h:133`), two of them can lose an
  increment, and the sample is deleted while a store still points to it. The run
  has one learner, as with at most one replay thread.
* `IndexUsable` needs the interval and the batch to be together at most
  `MaxSamples + 1`. With both 2 and a memory of 2 the vector moves under the index
  (`ann.cpp:112`).
* After a timeout of `recv` an answer can be taken for the answer to the next
  message, for ever after; before the first message arrives the caller gets a buffer
  that nobody has written.
* `configure()` is "Only called once all parameters of the object have already
  been set and configured" (`configurable.h:736`). A reference to an object around
  this one is set and not configured; `ConfiguredFirst` excepts it.

### Bounds

`MaxSteps` bounds the calls of the experiment before each reset and after the
last one, for each number of threads; `MaxSequence` the announcements of a shared
variable; `MaxTime` the length of an episode of a master; `MaxEpisode` and
`MaxTrials` the length of a trial and the trials of a run without a limit on them;
`MaxWrites` the writes to a representation; `MaxPushes` the samples; `MaxMessages`
the messages of each process; `Size` the nodes of a document. All are guards of
the actions that call into the component, never of its own steps, except that
`MaxWrites` can cut the writes of a batch short when another thread has used them up. Two resets
are enough for the second generation of threads to meet what the first has
left behind; three control steps let the memory wrap and an old update meet a
newer step. In `sample_memory` the places of stores are interchangeable and the
run uses that symmetry; it checks no liveness.

### Fairness

Threads are scheduled by the operating system: every step of a replay, planning
or worker thread, and of the calling thread inside a handler, is weakly fair.
What the experiment calls next is its choice and not fair. Acquiring a lock
(`SharedVariable`, `Representation`) is strongly fair: pthread locks do not pass
over a waiter for ever while they are being released again and again. `dyna` assumes
in addition that a model predicts sooner or later (strong fairness of `Predict`),
which is the assumption that `dyna_stuck` does without. The experiment is a
sequential program, fair as a whole; its trials end because an environment's do
(`MaxEpisode`).

## 4. What is proved

Each theorem holds for every value of the constants that satisfies the assumption of
its module. None of the invariants below is inductive as it stands.

`ReplayAgent_proofs`: `TypeCorrect` and `SamplesExist` for any number of
threads; `NeverAhead`, `NeverTorn`, `ResetIsClean` and `NeverTooMuch` for a
single executor; `EveryStepIsReplayed` without threads. `NotAhead` holds because
nothing lowers `total_replay_steps_` below the target while control is outside
the wait loop; for that one has to know where the executor can be. The invariant
`Ordered` says it: while control is not waiting the target has been met; an
executor that is about to sample has not met it; a register read before a store
is still current, since there is no other writer; the value about to be assigned by
the early return lies between the counter and the target. That there is one
executor is no weakness of the proof: with two the statements are false, as
`replay_two_ahead` shows. `Paid` adds for synchronous replay what the counter has
been given for nothing: the steps before the memory held `observation_steps_`.

What the liveness of the agent rests on is proved too, for any number of threads:
`ControlIsServed` (while control waits for `done_signal_` it has been given, or
an executor is on its way to give it and waits for nothing) and
`JoinedThreadLeaves` (a reset only joins a thread that comes to its exit without
another signal). Both follow from `Signals`: `Lively` says which signals have been
seen and who is running; `Asked`, that somebody works on the replay asked for as long
as it is not done, and that the early return of somebody who has seen the last signal
makes up for all of it; `Kicked`, that the thread about to be woken is there.

`Communication_proofs` is about two modules. Of `SharedVariable`, for any number
of threads: `DataIsLocked`, `TestKeepsPromise`, and `ImplementsMailbox`, the safety
part of the refinement (`Spec => M!Spec`). The invariant has the owner of each lock
(`Locks`), what a thread has seen (`Seen`) and what it has been promised
(`Promised`); the lemma `Simulation` maps each step to a step of the mailbox or
none. `NothingIsMissed` (who sleeps has seen all announcements) and `NobodyIsStuck`
are the safety part of its liveness: as long as a thread is inside a call and not
asleep, some thread has the locks free that its next step needs (`CanMove`, which is
ENABLED written out), because who holds the mutex needs nothing else, and who
holds the rwlock needs at most the mutex (`Held`).

Of `Messenger`, for any number of messages: `MessengerTypeCorrect`,
`MessengerInOrder` (messages do not overtake each other between socket, buffer
and caller), `MessengerTakesTurns` (`Turn` says, for each process, which message
is pending and what it answers).

`DynaAgent_proofs`: `DynaTypeCorrect`, `PlanningIsProtocol` and
`PlanningHasHorizon` for any number of threads, from `Episodes`, which says where a
planner is inside an episode and how its length compares with `steps`; and
`PlanningIsBounded` for at most two. There `Budget` counts what a call can still
add (`Rest`) and, for two threads, where the counter can fall back to: a thread that
holds a low value leaves the other one room for another whole call (`Pair`).

`SMDPMaster_proofs`, for any number of sub-agents, durations and any way of
selecting them: `SMDPTypeCorrect`, `EveryRunningAgentEnds`, `NoRewardLost`,
`CallsKeepProtocol`, `RewardReachesAgent`. `Bookkeeping` ties the two fields of the
master to what has happened: within an episode `time_` is the last turn of every
sub-agent, every sub-agent with a turn is inside an episode of its own, and all
rewards are older than `prev_time_`; after an absorbing state every `time_` is
later than `prev_time_`, so that `start` pseudo-ends nobody; after a reset every
`time_` is -1.

`OnlineLearning_proofs`, for any configuration: `BudgetIsSpent`,
`RunsAreSeparate`, `RunsAreSaved`, `CurveIsCurrent` and `ReportIsSaved`. The last two
need to know that the test trials are spaced evenly (`Spaced`), which rests on a
lemma about quotients, and that the saves of this run follow those before
(`SavedSoFar`).

`Representation_proofs`, for any number of threads and any interval:
`RepresentationTypeCorrect`, `TargetFollows` (the invariant `Behind` counts
the writes on their way to `checkSynchronize`), and `BatchesDoNotMix`, which
assumes that a configuration that mixes two objects has no target; without that
assumption it is false, see `representation_stuck`.

It also has `MutexComesBack`: the mutex of a batch is only held by a thread that
is filling or reading it, under the same assumption and the one that a read has a
result, without which `read` returns early and keeps it.

`SampleMemory_proofs`, for any number of readers, stores and samples:
`MemoryTypeCorrect`, `SamplesStay`, `SamplesCounted` and `IndexStays`. `Pins` says
who keeps a store alive: nobody takes away the current store, one that a projection
points into, or one that is being made. `Counting` follows a `prune()` through
its unlocked increments: a sample copied and not counted yet (`Uncounted`) has one
owner more than its use count says, and the register of an unfinished increment is
still right. `Growth` bounds the memory by the index, the interval and what has
been written since. All of them assume `OneLearner`, as the run does: two learners
can prune at once, and the statements are then false (see the observations).
`IndexStays` assumes also that interval and batch are together at most
`MaxSamples + 1`, without which it is false too.

`ConfigurationTree_proofs`, for documents of any size: `TypeCorrect`,
`ParametersFirst`, `WalkKeepsOrder` and `WalkDescends`. `Path` and `Leads` are
recursive functions. Instead of an induction, which the provers cannot apply, the
proofs show first that the functions satisfy their equations (the least set closed
under parent, or under reference, does), and then look at the least node for which
a statement is wrong (`Least`). `Loading` is the invariant of `instantiate()`: nodes
are made in the order of the document (`Cursor`, `InOrder`); everything that has been
left is complete, so configured (`Complete`); and what has been validated leads to
something before it, or around it, or to nothing (`Validated`). `Walking` says that a
call has handled every child that it has visited, except for the one that the next
call is about; `Descending` that every call is for a node that was complete before
that of the caller (`Before`), which excludes circles.

The assumptions are those that the modules state about their constants, and TLC
evaluates them in the runs.

Only model-checked: all liveness (`ControlReturns`, `ResetCompletes`,
`PlanningCatchesUp`, `Terminates`, `BatchReturns`, `CallReturns`, the fairness in
`KeepsPromise`), which is beyond the prover. The theorems about signals and locks
above are the part of it that is safety. Of the safety properties that the
passing runs check, every one is stated by a theorem.

## 5. Plan

What is left, in order:

1. `LearningSystem`: `OnlineLearning` composed with `SMDPMaster` and with a
   replay agent as the learner, by joint actions; shows that the experiment
   keeps the protocol the agents rely on.
2. `Worker`: connection loss at any byte, and the RPC environment as its peer;
   request-reply sockets.
3. `clone()` and `copy()` of the sample store.
4. `Statistics`, `FIFOSampler`, `Trace`: ring buffers and truncation against
   reference definitions; CSV exporter file names; batch learning and the
   multi-experiment with the destructor of `itc::Thread`.
5. The wrappers of single agents, and the tree search of `mcts.cpp`.

## 6. Not modelled

Equations of motion, function approximation, action selection and numerical
solvers, which are most of the code by far, are floating-point arithmetic with no state
worth interleaving. Bindings to simulators, robots and libraries, drawing, command
line tools and logging are input and output. Vendored libraries are outside of
this project, except for `itc` and the messenger, on which it depends.

Of the components modelled in part: the values, types and expressions of the
configuration language; `reinstantiate()`; messages of another size than expected;
a reset while an index is built; saving and loading of parameters. `PROJECT.json`
lists every component with its reason and, for the hazards no property covers,
why that is so.
