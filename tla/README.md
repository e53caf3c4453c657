# Cassette, specified

TLA+ models of [cassette](../src/README.md): a deterministic simulator, the
leaderless quorum store it tests, the linearizability checker that judges the
store, the fuzzer that looks for failures, the shrinker that reduces one and
the replayer that shows it. TLC checks the models on small instances; TLAPS
proves what matters most about the store, the simulator, the replayer, the checker,
the shrinker and the fuzzer for every value of their constants: of the
properties the runs find to hold, all but one and the liveness properties.

Paths below are relative to the repository root.

## 1. Inventory

| part | source | state | operations |
|---|---|---|---|
| version stamps | `cassette/kv/version.py` | – | compare, take the later, mint the successor |
| replica, storage role | `cassette/kv/replica.py` | `_store` (durable) | read request, write request |
| replica, coordinator role | `cassette/kv/replica.py` | `_rounds` (volatile), `_issued` (durable) | client request, read reply, write ack, round timer, crash, restart |
| client | `cassette/kv/client.py` | place in its plan, outstanding request | issue, settle, give up |
| history | `cassette/checker/history.py` | list of operations | invoke, complete, give up |
| register | `cassette/checker/model.py` | a value | read, write, compare-and-swap |
| checker | `cassette/checker/linear.py` | memo, spent budget, call stack | search a key, blame an operation |
| clock and scheduler | `cassette/sim/clock.py`, `scheduler.py` | now, heap, cancelled numbers | schedule, cancel, pop |
| network | `cassette/sim/network.py` | open partition | send, partition, heal, reachability |
| simulation | `cassette/sim/simulation.py` | timer table, down, paused | set and cancel timers, dispatch each kind of event, crash, restart, pause, resume |
| injectors | `cassette/sim/injector.py`, `faults.py` | decisions taken | tick of the adversary; tick of a replayed schedule |
| runner | `cassette/runner.py` | – | wire, run, judge; pin a schedule |
| shrinker | `cassette/shrink/reduce.py` | best scenario, its run and size; budget | seven moves, small shapes, accept, pin |
| fuzzer and its command | `cassette/fuzz.py`, `cassette/cli/fuzzing.py` | chunks under way, report | probe, hand out, report, exit code |
| corpus | `cassette/corpus.py` | set of entries | load, add, rebuild, regress |
| web replayer | `web/src/model.ts` | frame under construction, open outages | take up a trace event |
| scenario, trace, recorder, other commands | `cassette/scenario.py`, `trace.py`, `sim/recorder.py`, `cli/` | – | generate, write down, print |

**How they interact.** The simulation is single-threaded: it pops one event,
dispatches it, and the handler of a node runs to its end before the next event.
Handlers talk to the outside only through `Env`: they send messages and set or
cancel timers, all of which become events. The injector is itself driven by an
event (`FaultTick`) and schedules pairs of events, the beginning and the end of
a fault. Clients write what they see into the history; when all are finished
the run stops and the checker reads the history. The fuzzer executes one
scenario per seed in worker processes and writes failing seeds into the corpus;
the shrinker executes variants of one failing scenario one after another; the
replayer reads the trace that the recorder wrote.

**What is hard.**

* Rounds of one coordinator overlap; rounds of several coordinators overlap on
  one key; a round is abandoned while its writes still travel.
* Messages are delayed, reordered, lost and delivered twice; reachability is
  decided at delivery.
* A crash loses rounds and timers, and keeps the store and the issued stamps.
* A client never learns whether an abandoned operation took effect.
* Faults overlap faults: a crash in a pause, two pauses, a crash of a node that
  is down. A schedule that is replayed may have been cut for another cluster.
* Cancellation is lazy: a cancelled event is still in the heap.
* The checker prunes by a memo, stops at a budget, and judges one key at a time.
* The shrinker's budget may run out anywhere, and its moves run on scenarios
  that the moves before them have changed.
* Workers finish in any order and are torn down at the first failure reported.

**What makes each part correct.** The store: one stamp, one value; an answered
write stays on a write quorum; copies never get older; answers respect the
order in which operations were seen to happen; what clients observe is
linearizable (compare-and-swap excepted, as `docs/FINDINGS.md`, finding 3,
explains). The simulator: nothing is scheduled in the past, timers fire once or
not at all, every fault ends when it should, and a replayed schedule does what
the adversary did. The checker: its verdict is the definition's, and it blames
an operation that deserves it. The shrinker: what it reports belongs together,
fails the same way, and has nothing left to delete. The fuzzer: it reports what
one process would have reported, keeps what it wrote down and does not fail again
for it. The replayer: it shows
what happened. `PROJECT.json` lists the hazards, each at its line.

## 2. Modules

| module | models | notes |
|---|---|---|
| `Version` | stamps and held values | operators only |
| `Replica` | replicas, network, faults, among clients that send what they like | one action per handler and outcome |
| `Register` | linearizability of a history against one register | the abstract specification of the store, and the reference for the checker |
| `Cluster` | `Replica` and clients with plans; the history; the end of a run | extends `Replica`: each of its steps is a step of `Replica`, or a stutter |
| `Simulation` | clock, queue, timers, partitions, crashes, pauses, both injectors | what nodes do is left open |
| `Replayer` | `Simulation`, watched by the web replayer | extends `Simulation`: a recorded step is taken up as it happens |
| `Checker` | recording, the memoised search, the verdict, the blame | against `Register` |
| `Shrinker` | the reduction of a failing scenario | what a run yields is left open |
| `Fuzzer` | sessions of `fuzz` and `regress` over one corpus, with a pool of workers | the verdict on a scenario is fixed but unknown |
| `ReplicaProofs`, `ClusterProofs`, `LinearProofs` | theorems about the store: types, stamps and durability; runs in real-time order; linearizability | section 5; each extends the one before |
| `RegisterProofs` | lemmas about orders that explain a history, and a few about numbers and finite sets | used by `LinearProofs`, `CheckerProofs` and `ShrinkerProofs` |
| `SimulationProofs` | theorems about `Simulation` and `Replayer` | section 5 |
| `CheckerProofs` | theorems about `Checker` | section 5 |
| `ShrinkerProofs`, `FuzzerProofs` | theorems about `Shrinker` and `Fuzzer` | section 5 |
| `MCCluster`, `MCSimulation`, `MCChecker`, `MCShrinker`, `MCFuzzer` | instances for TLC | plans, schedules, repertoires, the scenario to reduce |

### Replica

`store`, `issued` and `rounds` are `_store`, `_issued` and `_rounds`; `net` is a
bag of messages in flight. A round is indexed by its request, since a request is
sent to one coordinator only. The fields op, value and expected of a
`ClientRequest` never change on the way and are looked up in `Plan`.
`on_message` is split by message and by outcome: `_on_read_quorum`, for
example, becomes `FinishRead`, `WriteBack`, `RefuseSwap` and `StartWrite`, each
including the counting of the reply that completes the quorum, the closing of
the round and everything that is broadcast.

Deliberate abstractions:

* Latency, partitions and pauses appear only as the order of deliveries and as
  losses. `Simulation` models them.
* A timer may fire at any time. When a message of the request is still in
  flight, the timeout counts as a fault ("early"), so that runs without faults
  are runs whose timeouts are long enough.
* A duplicate may be taken of any message whose type is among `Faults`, at any
  time while it is in flight: at most `MaxFaults` in all. The code makes at most
  one extra copy per send.
* `answered` is a history variable that only properties read.

### Cluster

A plan is the client's requests in increasing order of id, as in `client.py`. A
run executes one of `Scenarios`; requests outside it are `absent`.
`before[r]` holds the operations completed when `r` was invoked: the model
orders events even within one millisecond, where `Operation.precedes` does not,
so the histories judged here are constrained at least as much as the checker's.
An unfinished operation may take effect at any time or never.
`RunOver` ends the run, as `stop_when` does in `runner.execute`.

### Simulation and Replayer

Events are records ordered by time and sequence number; `Advance` is one turn of
`Scheduler.pop` together with everything its handler schedules and cancels, and
drops the cancelled events it passes. `timers` is the table `_timers`,
`pausedUntil` is `_paused_until`, and `side` one of the two groups of the
partition. A node that is woken up sends one message (or two copies of it), sets
a timer, cancels one or does nothing; `MaxWork` bounds how often. `outages`,
`freezes` and `drops` are history variables. Clock skew only shifts what
`env.now()` returns to replicas, which never ask: it is left out.

A scenario comes with a fault schedule or without. Without one, `Decide` rolls
one die per kind of fault and writes down what it decided (`decisions`); with
one, `Replay` queues what the schedule holds for the tick's instant, confined to
replicas that exist. Both end in `Inject`, which queues the pairs of events and
the next tick. `InOrder` enumerates the faults due at a tick in the order of the
schedule, as the lists of `_by_tick` do. The assumptions are what a run starts
from: at least one replica (`StoreConfig` demands it), finitely many clients,
delays that are not negative, and schedules that are sequences of faults; kinds,
targets and times of a schedule are not restricted, since a scenario file may
have been written by hand.

`Replayer` adds what `buildFrames` shows of each replica and of the partition,
and the outage that `nodeOutages` has open for a node. The recorder writes one
trace event per step of the simulator that changes a node's status or the
partition, so the replayer takes each up in the same step and the trace itself
needs no variable.

### Checker

Histories are built by the calls clients make, with any result an operation of
that kind can return. The recursion of `walk` is a stack of frames; `seen`,
`spent` and the order in which candidates are tried are those of the code. The
budget is chosen when the run is over, from `Budgets`; without operations there is
no key to search and the verdict is immediate. `saw` and `explained` are history
variables: `saw[i]` holds the operations that had really been answered when
operation `i` began, those of the same millisecond included, and `explained` the
keys that one register explains in that order. They tie the verdict to what
happened, since search and definition both read the stamps by `Precedes`. `Legal` is the definition
a search of one key, or of a cut of one, is held against; `LegalTogether` is that
of a whole history: one total order of all its operations in which each key's
operations explain that key.

### Shrinker

A scenario is its plans, its store, its fault schedule and where its latencies
and dice come from (`origin`); all that `Weight` and the moves look at. `Produce`
gives the candidates of each move in the order the code tries them; `move` and
`next` are the place in the two loops. `Execute` pays for one candidate; `Take`
makes it the best, and ends the move; `Drop` passes on. A candidate's run is any
of `Runs`, except that a candidate dropped once is dropped again: runs are
deterministic and the best only gets lighter. The operations of a small shape
are all alike, since the search never looks at them. The list comprehensions of
the moves are `Only`. `OriginalAssumption` is what `shrink_command` starts from:
a scenario generated for a cluster and executed on it, so that its operations
and the faults its adversary decided on are aimed at replicas it has.

### Fuzzer

`verdict` maps each scenario a plan can produce to what its run yields, fixed in
the initial state. `TakeChunk` and `FinishChunk` are the workers, `Look` is the
loop of `fuzz` over the iterator of `_results`, which yields in the order of
seeds; `EndExploring` tears the pool down. `Report` is the rest of
`fuzz_command`: the new entries, the merge with what the file holds, the exit
code. `Regress` may run between two sessions. An entry keeps preset, seed and
size of the cluster. `rest` stands for all of a plan that an entry leaves out
(keys, ratios, overridden faults, timeout), and `ToScenario` puts `DefaultRest` in
its place: what is rebuilt of a failure found under another `rest` is another
scenario, with a verdict of its own. `Verdicts` are the worlds the initial state
chooses from. `log` is a history variable: what each session was told and said.

## 3. Runs

| run | instance | shows |
|---|---|---|
| `MCCluster_racing` | 2 replicas, R=1, W=2: two clients race through one coordinator and one then reads, or one client reads through both replicas while another writes; one loss | `Linearizable`, `RealTimeOrder`, `NoFaultNoDoubt`, `StampIdentifiesValue` |
| `MCCluster_majority` | 3 replicas, R=W=2, two writes through two coordinators, one loss or duplicate | `RealTimeOrder`, `AnsweredIsDurable`, `StoreNeverGoesBack` |
| `MCCluster_onebyone` | a write, then a swap through the other replica, two faults (loss, crash, early timeout), fairness | `TypeOK`, `Linearizable`, `RealTimeOrder`, `RefusedSwapLeavesNoTrace`, `RoundsClose`, `PlansFinish` |
| `MCSimulation_faults` | 2 replicas, 1 client, two faults the adversary decides on, or a schedule of five cut for another cluster; four ticks | `TypeOK`, `NothingIsLate`, `TimersMatchQueue`, `CancelledAreQueued`, `EveryFaultEnds`, `PausesLast`, `PinningChangesNothing`, `ReplayIsAnAdversary`, `ReplayIsTrue` |
| `MCChecker_verdicts` | every history of up to 3 operations over 2 keys and 3 milliseconds, budgets 0 and 6 | `TypeOK`, `VerdictIsRight`, `ViolationIsReal`, `SearchIsRight`, `MemoIsSound`, `CutsStayLegal`, `BlameIsNotLate` |
| `MCShrinker_search` | 2 clients with 3 and 1 operations on 2 keys, 4 replicas, 2 faults; 5 kinds of run, 20 candidates | `TypeOK`, `ReportIsOfOneRun`, `BudgetIsKept`, `NothingLeftToDelete`, `RebuiltIsReported` |
| `MCFuzzer_sessions` | 2 sessions of 3 seeds in chunks of 2, 2 workers, 2 plans that differ in size and in `rest`, fairness | `TypeOK`, `WorkersDoNotMatter`, `FailuresAreKept`, `RedOnce`, `RecordedFailuresReproduce`, `ExploringEnds` |

Five runs end in a counterexample, and are the findings of section 4:
`MCCluster_duplicate`, `MCSimulation_crashes`, `MCSimulation_pauses`,
`MCChecker_blame` and `MCFuzzer_tolerated`.

**Bounds.** Two replicas with R=1 and W=2 are the smallest cluster whose quorums
overlap and in which a read quorum is not a write quorum; both stale copies and
half-finished writes exist there. `MCCluster_majority` adds the case in which no
quorum is everybody. Two requests are enough for two rounds to race, three for
a read to follow one of two racing writes. `MaxFaults` bounds faults, never
ordinary reordering. In `Simulation` two faults overlap in every way two faults
can, four ticks leave room for their ends and for work held meanwhile, and
pauses of one and of three ticks let a shorter one end inside a longer; the
replayed schedule puts a partition, a crash and a pause of one node on each
other, and aims at a replica that is gone and at a partition with everybody on
one side. In `Checker` three operations suffice for an order that must be
backtracked from, and for two orders that meet in one memo entry, and budget 6
is one that some searches of three operations exhaust and others do not. In
`Shrinker` the original has something for each of the seven moves, a plan long
enough to be halved and a fault that a smaller cluster does not feel; twenty
candidates end some searches in the first pass, let others reach a pass that
changes nothing, and others the small shapes; the runs differ in weight, verdict
and failing key. In `Fuzzer` three seeds in chunks of two give a full chunk and
a last one that is not; two workers can finish in either order; two sessions
share the corpus, under plans of different size, one of which has a `rest` that an
entry does not keep. `SomeVerdicts` leaves every seed free to fail under both plans;
only seeds 2 and 3 may be undecided, and only on three nodes, and of the scenarios
that are rebuilt wrongly only that of seed 1 may fail: one of each is enough for a
count that goes wrong and for a regression test that fails for another reason. Each property has a mutant of the code
(an operator beside the one it replaces) that TLC finds to violate it under the
same bounds.

**Fairness.** `ClusterFairness` (and `Fairness` of `Replica`) is weak fairness of
handling a message, of firing each timer, of each client taking its next step
and of restarting each crashed replica. The scheduler justifies it: every one of
these is an event in the queue with a finite time, `Scheduler.pop` returns events
in the order of time, and the clock passes every time as long as the run lasts;
the horizon of a run is taken as large. Losses, duplications and crashes are
never forced. A run is over when its clients are (`RunOver`), and nothing is
handled after that: a run that ends with a round still open, which only an early
timeout of a client can leave behind, is none of the behaviours `ClusterFairness`
admits, and `RoundsClose` says nothing of it. `Fairness` of `Fuzzer` lets every worker go on and the command
consume what is ready: operating-system processes do, as long as none dies; a
worker that is killed leaves `Pool.imap` waiting, in the code as in a model
without that fairness. No step of `Begin` or `Regress` is forced.

**Deadlock** is checked in every run. A run that is over stutters (`Idle`,
`RunOver`, `Over`, `Done`), each under the condition that nothing is left to do.

## 4. Findings

1. `MCCluster_duplicate`: a duplicated `ClientRequest` that arrives after its
   round was answered is executed again (`cassette/kv/replica.py:141`).
   `RealTimeOrder` therefore is only claimed without duplicated requests.
2. `MCSimulation_crashes`: a crash of a node that is down is ignored, its
   restart is not, and ends a later crash early (`cassette/sim/simulation.py:219`).
3. `MCSimulation_pauses`: a message that has reached a paused node is dropped
   when the pause ends inside a partition (`cassette/sim/simulation.py:304`).
4. `MCChecker_blame`: `_blame` takes an exhausted search for a failed one and
   may name an operation that can be explained (`cassette/checker/linear.py:177`).
5. `MCFuzzer_tolerated`: failures are told apart by preset and seed alone, so one
   that was never seen passes for known when the corpus holds its seed and preset
   from another size of cluster, and is never recorded (`cassette/cli/fuzzing.py:100`).

Observed while modelling, and not stated as a property because no document
promises the opposite: `_smaller_cluster` builds its store anew and drops
`stable_versions` and `read_repair` (`cassette/shrink/reduce.py:335`); the small
shapes are called smallest first, but the loops run over operations per client
before clients, so nine operations come before eight (`reduce.py:394`); a second
pause, or a crash in a pause, restarts the bar of an outage
(`web/src/model.ts:242`); `save` truncates the corpus file before it writes it
(`cassette/corpus.py:116`); a failure found under keys, ratios, fault overrides or a
timeout of its own is written down without them, so `regress` executes another
scenario, which may pass (`corpus.py:85`); `_plainer_values` renumbers the arguments of
operations and not what a swap expects (`reduce.py:260`).

## 5. Proofs

The theorems about the store hold for every `N`, `R`, `W`, set of requests, plan,
set of faults and `MaxFaults` that satisfies the named assumptions of `Replica`
(`ConfigAssumption`, `PlanAssumption`, `BoundAssumption`); further assumptions are
stated in the theorem.

* `TypeCorrect` (`ReplicaProofs`): `Spec => []TypeOK`. `TypeOK` is inductive: it
  types every message in the bag and every field of every round.
* `StoresNeverGoBack`: an action property, from `TypeOK` and the comparison in
  `KeepNewer`.
* `StampsIdentifyValues` (`ReplicaProofs`): with `StableVersions`, one stamp never
  stands for two values of a key. `StampIdentifiesValue` is not inductive: it
  says nothing of stamps that only the memory of a coordinator rules out. The
  invariant `StampInv` adds `Minted`: every stamp anywhere was issued by the
  replica it names, and is not newer than what that replica remembers having
  issued, so that the next one it mints is new.
* `AnswersAreDurable` (`ReplicaProofs`): an answered write is on `W` replicas
  for ever, itself or something newer. `AckInv` follows the evidence backwards:
  each acknowledgement in flight (`AcksInFlightHold`), and each one counted in a
  round (`CountedAcksHold`), comes from a replica that holds the stamp or a newer
  one; replicas never go back, so the evidence stays good. No assumption on
  duplicates or crashes is needed.
* `ClusterImplementsReplica` (`ClusterProofs`): `ClusterSpec => Spec`. The state
  of the replicas is the same variables, so the refinement mapping is the
  identity: each step of a client maps to a step of the environment, or to a
  stutter. `RunsKeepAnswersDurable` and `RunsKeepStampsApart` carry the two
  invariants over to runs.
* `RunsKeepRealTimeOrder` (`ClusterProofs`): `ClusterSpec => []RealTimeOrder`, when
  quorums overlap and the network does not duplicate client requests; finding 1
  shows the second assumption to be needed. The property speaks of answers only,
  and its reason lies in messages that are still travelling, so the invariant has
  two parts. `LifeInv`: a request is sent once, coordinated once and answered
  once (`StartsOnce`, `Concluded`), so what precedes an operation was answered
  before it began, and stays what it is. `OrderInv`: whatever precedes operation
  `r` has `W` informed replicas: each holds it or something newer, and so does
  each of its replies to `r`, in flight or gathered. When `r` begins, these are
  the `W` replicas of `AnswersAreDurable`; they stay informed because stores
  never go back. A read quorum meets them, so what `r` reads, and the stamp it
  mints, is not older. Neither `StableVersions` nor `ReadRepair` is assumed: an
  answer that was not made durable promises nothing.
* `FaultlessRunsLeaveNoDoubt` (`ClusterProofs`): without faults every operation is
  answered, without any further assumption. The property says nothing of messages,
  and its reason is in them: for every replica that an open round has not heard
  from, the coordinator's question or the replica's answer is on the way. A round
  with nothing on the way would have heard from everybody, so it would have its
  quorum and be closed: a timer that fires when nothing is on the way ends nothing.
* `RunsAreLinearizable` (`LinearProofs`): `ClusterSpec => []Linearizable`, for any
  finite set of requests, when quorums overlap, stamps are remembered, reads are
  repaired, clients read and write, and no client request is duplicated. The
  definition asks for a total order of the operations, which no state variable
  holds. `GhostInv` therefore says that a record `mint` of the stamp each write
  was given *exists*, such that every copy of a value, in a store, a message or a
  round, carries the stamp its write was given, and every answered read saw such
  a copy or the empty register. Ordered by stamps, a write before the reads of
  it, reads of one write by real time, the operations make a history of one
  register; it respects real time by `OrderInv`, and, for writes that never
  answered, by the same quorum argument over what was minted (`MintsOver`). What
  is left is that a finite total order can be laid out as a sequence and run
  through a register, which the lemmas of `RegisterProofs` prove. The
  assumptions are what the store promises under: without memory of issued stamps
  one stamp names two values and without the write-back a read is followed by an
  older one (mutants of `MCCluster_racing`), finding 1 shows the need for the last
  one, and swaps are left out because their check and their write are two phases
  (in `docs/FINDINGS.md`, finding 3, two racing swaps both succeed).
* `RefusedSwapsLeaveNoTrace` (`LinearProofs`): `SwapInv` says that a swap is
  traceless, in every store, message and round, until its coordinator decides to
  write, and that having refused excludes having decided to. The assumption
  `OwnArguments` (no other operation of the key writes the value the swap would)
  is what makes a trace recognizable, and nothing else; the plans of the runs
  satisfy it, generated scenarios draw values from a small range and may not.
* Stamps are totally ordered; what is minted is newer than what it was minted from
  (`ReplicaProofs`).

About the simulator and the replayer (`SimulationProofs`), for any nodes, timers,
latencies, delays, durations and schedules that the assumptions of `Simulation`
admit, and for every horizon:

* `SimulationIsWellTyped`, `NothingIsEverLate`, `TimersAlwaysMatch`,
  `CancellationLeaksNothing`, `EveryFaultHasItsEnd` and `PausesLastAsPlanned` all
  come from one inductive invariant, `SimInv`, because none of these properties is
  inductive. Popping an event is safe only if it is the earliest (`QueueInv`: all
  that is live is not in the past, and numbers are unique). A fault that begins
  has its end in the queue only if the end was there before it began
  (`EndsArePlanned`: each start in the queue has its end behind it), and a restart
  that is spent on another crash (finding 2) must leave the one that counts. What
  is held for a pause is not late because the end of the pause is in the queue,
  hence not in the past. A crash may only cancel timers that are queued, hence
  `TimerInv`. A step is proved once for every way of scheduling and cancelling
  (`Orderly`) and then for each action.
* `ReplayRepeatsTheRun`: the action property `PinningChangesNothing`. The replay of
  a tick picks out of all the decisions of the run those made at this instant;
  they are the ones just made because there is one tick at a time, later than
  every decision so far (`TickInv`), and each survives being confined to the
  cluster it was made for.
* `ReplaysAreTrue`: `[]ReplayIsTrue` for the simulator that is watched. A watched run
  is a run of the simulator by definition, so `SimInv` holds of it (that watching
  rules no step out is not shown). `ReplayIsTrue` is then inductive: it takes from
  `SimInv` that a node is never down and paused at once, so that one
  status and one open outage per node are enough.

About the checker (`CheckerProofs`), for every repertoire, length of history,
horizon and set of budgets:

* `PrunedIsHopeless` and `SearchesAreRight`: the search is `walk`, unfolded on a
  stack, and neither property is inductive. The invariant `StackInv` says of each
  call under way that every candidate it has dropped is hopeless (no legal order
  continues the placement from there), except the one whose call is next on the
  stack; and of each memo that it is hopeless or belongs to a call on the stack. A
  call with no candidate left is hopeless, because the first operation of any
  legal continuation is one of its candidates. A memo that is met again is not on
  the stack, since what is placed grows from caller to callee: so it is hopeless,
  and pruning it drops nothing. When the first call ends, its placement is the
  empty one; when a call has placed every completed operation, the orders of its
  callers make a legal order of the whole, whether or not what is left out took
  effect.
* `CutsOfLegalAreLegal`: of the order of a legal history, the part up to the last
  operation that had returned by then explains the cut; what is in it without
  having returned is an unknown outcome the cut allows.
* `BlameIsNeverLate`: `BlameInv` says that the cuts cleared so far are legal and
  that the key is not. The last cut leaves out no operation that completed, so if
  it were legal the key would be (`LastCutIsAll`): some cut is never cleared. A cut
  depends on the time alone, so operations that return together share one.
  That what is blamed cannot be explained is false
  when the budget runs out (finding 4), and follows from `SearchesAreRight` when it
  does not.
* `VerdictsAreRight`: keys are judged one at a time and the verdict is about all of
  them. Each operation is given a point, the latest invocation among those up to
  it in its key's order; ordering all operations by their points, and by their
  key's order where points are equal, keeps to each key's order and to real time.
  Conversely the operations of one key in an order of the whole explain that key.
* `ViolationsAreReal`: a violation is not made up by the stamps. `SeenInv` says that
  whatever `Precedes` orders had really been answered when the later operation
  began, because time does not go back; so an order that explains what happened
  respects everything the checker asks for (`FewerConstraints`), and a key that one
  register explains has a legal order; a key is only called violated when its
  search, which is right, found none.
* `CheckerIsWellTyped`, from the same invariant, `CheckerInv`: calls are nested,
  each with one operation more than its caller, and the budget bounds them.

About the shrinker (`ShrinkerProofs`), for every scenario, budget, set of runs
and small shapes:

* `SearchIsWellTyped`: `[]TypeOK`, that is, every scenario the search keeps can be
  run. Each move is shown to turn a scenario that can be run into candidates that
  can (`MovesKeep`): `Rehome` and `Confine` are what makes it true of a smaller
  cluster, whose operations and faults were made for a larger one. Lists are
  filtered by flattening a list of lists; that the recursive function in
  `FlattenSeq` exists and yields only what it joins is shown by a least
  counterexample (`JoinsExist`, `FlattenKeeps`).

* `BudgetHolds`; `ReportsAreOfOneRun`, inductive by itself once it is known that
  pinning changes neither the schedule that is executed nor the weight;
  `RebuildsAreReported`, with the invariant `Compared`, which relates the size to
  the one deletion reached in each phase.
* `DeletionIsExhaustive`: `NothingLeftToDelete` looks back over a whole pass, so
  the invariant `Tried` says, at every position of the loops, which candidates
  have been rejected: those of the moves done in this pass, as long as nothing was
  accepted in it, and those of the current move before `next`.

About the fuzzer (`FuzzerProofs`), for every number of seeds, workers and
sessions and every size of chunk:

* `SessionsAreWellTyped`: `[]TypeOK`. That no more chunks are handed out than there
  are, and no more runs counted undecided than seeds exist, rests on `Ordered`
  below.

* `ReportsAreSequential`: `WorkersDoNotMatter`, from the invariant `Ordered`: the
  seeds looked at are an initial segment, findings and the count of undecided
  ones are those of that segment, and it has not passed the first failure when
  the session stops at one.
* `FailuresStay`, `KnownFailuresAreTolerated` and `RecordedFailuresFailAgain`, for every
  set of plans, come from one invariant over the log, `LogInv`: the corpus holds
  the first recorded failure of each preset and seed and nothing else, hence its
  ids are those that were ever recorded; each session's failures are those of its
  plan up to where it stopped, and it succeeded exactly if all of them had been
  recorded before; and `known` is what had been recorded when the session began.
  A session over covered ground can only find what the earlier one found
  (`StoppingFindsLess`: one that stops at the first failure finds no more than one
  that does not). A failure under a plan with the default `rest` is rebuilt as it
  was, so `regress` meets it whatever the other entries have become.

**Only model-checked:**

* All liveness (`RoundsClose`, `PlansFinish`, `ExploringEnds`), which is outside
  what the prover handles.
* `ReplayIsAnAdversary` of `Simulation`. It is a property of the schedules of the
  run: for any schedule whatsoever it does not hold, since a file written by hand
  may name two crashes for one tick, or open a partition inside another, which no
  adversary does, and the injector replays them all the same.

The induction theorems of the library take an operator as a parameter, which the
installed provers cannot instantiate. Where an induction over numbers was needed
(`StatesAlong`: the states a register goes through exist for a sequence of any
length; `JoinsExist` and `FlattenKeeps`, above), it is done by a least
counterexample, whose existence `LeastNatural` (in `RegisterProofs`) draws from
the well-foundedness of finite subsets (`WFMin`).

## 6. Not modelled

* The random source: every draw is a choice in the models, which covers every
  seed. Scenario generation is reduced to what a module needs of its outcome.
* The trace as data: its JSON form, its digest and the recorder's log. `Replayer`
  takes up each event in the step that records it. Of the web page, the stored
  values it shows are rebuilt by the rule of `KeepNewer`; message flights and
  views are presentation.
* The text form of the corpus, its sorting and its editing by hand; two processes
  that write it at once, or one that dies while it writes.
* The commands `run`, `replay` and `shrink`, which parse options, call one of the
  parts above once and print; the narration of a reduction; the scripts.
* Wall-clock time and throughput, the death of a worker process, and the size
  limits of Python.

## 7. Plan

Every safety property of the runs but `ReplayIsAnAdversary` has its theorem. What
a continuation would take up, in this order: `ReplayIsAnAdversary` for schedules
that a run of the adversary wrote down; that a search given enough budget never
runs out of it; linearizability of keys on which a single swap at a time is under
way; the pauses and crashes of `Simulation` as the losses and delays that
`Replica` assumes; clock skew, should a node ever read its clock.
