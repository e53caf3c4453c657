----------------------------- MODULE Simulation -----------------------------
(***************************************************************************)
(* The deterministic simulator: a virtual clock, a queue of events ordered *)
(* by (time, seq) with lazy cancellation, timers, and the faults that the  *)
(* adversary decides on a fixed tick, or replays from a schedule it had    *)
(* decided in an earlier run (cassette/sim/clock.py, scheduler.py,         *)
(* network.py, simulation.py, injector.py).                                *)
(*                                                                         *)
(* What the participants do is left open: a handler sends a message or     *)
(* none, and sets a timer, cancels one, or neither.  A dispatched event is *)
(* one action: the program is single-threaded.  The bounds Horizon,        *)
(* MaxFaults and MaxWork keep a behaviour finite.                          *)
(***************************************************************************)
EXTENDS Integers, Sequences, FiniteSets, Functions

CONSTANTS
  Replicas,   \* the nodes that faults are aimed at
  Clients,    \* participants outside every partition group
  Control,    \* the pseudo-node that owns fault events
  Tags,       \* names of timers
  Latencies,  \* delays the network may draw
  Delays,     \* delays nodes set timers for
  Durations,  \* how long a fault may last
  TickMs,     \* how often the injector wakes up
  Schedules,  \* fault schedules a scenario may come with
  NoSchedule, \* a scenario without one: the adversary decides
  NoTimer,    \* no event
  Horizon,    \* bound: time at which the run ends
  MaxFaults,  \* bound: faults the adversary decides on
  MaxWork     \* bound: handlers that do anything

Nodes == Replicas \cup Clients

ASSUME NodesAssumption ==
  /\ Replicas # {} /\ IsFiniteSet(Clients)
  /\ Replicas \cap Clients = {}
  /\ Control \notin Nodes
  /\ NoTimer \notin Nat

ASSUME TimesAssumption ==
  /\ Latencies \subseteq Nat
  /\ Delays \subseteq Nat
  /\ Durations \subseteq Nat
  /\ TickMs \in Nat \ {0}
  /\ Horizon \in Nat

\* What a scenario file says of its faults is not checked further when it is
\* read (InjectedFault.from_json).
ASSUME SchedulesAssumption ==
  \A script \in Schedules :
    /\ script \in Seq(Range(script))
    /\ \A i \in DOMAIN script : script[i].duration \in Nat

VARIABLES
  now,          \* the virtual clock
  queue,        \* the heap: events not popped, cancelled ones included
  nextSeq,      \* the next sequence number
  cancelled,    \* sequence numbers of cancelled events
  timers,       \* timers[n, tag]: the event that will fire it, or NoTimer
  down,         \* crashed nodes
  pausedUntil,  \* pausedUntil[n], for the nodes that are paused
  side,         \* one group of the partition, or {} when the cluster is whole
  schedule,     \* the schedule of this scenario, or NoSchedule
  decisions,    \* FaultInjector.decisions: the faults it decided on, in order
  work,         \* handlers that have done anything so far
  outages,      \* history variable: crashes that took effect, and their end
  freezes,      \* history variable: pauses that took effect, and their end
  drops         \* history variable: messages that died on arrival, and why

faultVars == <<down, pausedUntil, side, outages, freezes>>
injectorVars == <<schedule, decisions>>
vars == <<now, queue, nextSeq, cancelled, timers, work, drops, faultVars, injectorVars>>

-----------------------------------------------------------------------------
(* Events.  What an event does is its action (cassette/sim/events.py).     *)

At(time, node, action) == [time |-> time, node |-> node, action |-> action]

\* held: the message reached its recipient once, during a pause.
DeliverMessage(sender, held) == [kind |-> "message", sender |-> sender, held |-> held]
FireTimer(tag)               == [kind |-> "timer", tag |-> tag]
StartPartition(group)        == [kind |-> "cut", group |-> group]
HealPartition                == [kind |-> "heal"]
CrashNode(until)             == [kind |-> "crash", until |-> until]
RestartNode                  == [kind |-> "restart"]
PauseNode(until)             == [kind |-> "pause", until |-> until]
ResumeNode                   == [kind |-> "resume"]
FaultTick                    == [kind |-> "tick"]

Before(e, f) == e.time < f.time \/ (e.time = f.time /\ e.seq < f.seq)

Live == {e \in queue : e.seq \notin cancelled}

\* The event that Scheduler.pop returns next.
IsNext(e) == \A f \in Live : f = e \/ Before(e, f)

\* Pop e, and the cancelled events before it; then schedule new and cancel
\* the events numbered stale.
Advance(e, new, stale) ==
  LET later  == {f \in queue : Before(e, f)}
      queued == {[time |-> new[i].time, seq |-> nextSeq + i - 1,
                  node |-> new[i].node, action |-> new[i].action] : i \in DOMAIN new}
  IN  /\ now' = e.time
      /\ queue' = later \cup queued
      /\ nextSeq' = nextSeq + Len(new)
      /\ cancelled' = {s \in cancelled : \A f \in queue \ later : f.seq # s} \cup stale

\* Simulation.step dispatches e, an event of this kind.
Dispatch(e, kind) ==
  /\ e \in Live /\ e.action.kind = kind
  /\ IsNext(e)
  /\ e.time <= Horizon

Paused(n) == n \in DOMAIN pausedUntil

Unpaused(n) == [p \in DOMAIN pausedUntil \ {n} |-> pausedUntil[p]]

\* Nodes absent from every group can be reached, and can reach everyone.
CanReach(sender, recipient) ==
  \/ side = {}
  \/ sender \notin Replicas \/ recipient \notin Replicas
  \/ sender \in side <=> recipient \in side

PendingOf(table, n) == {table[<<n, tag>>] : tag \in Tags} \ {NoTimer}

\* The injector has armed its first tick, and then each client a timer.
Init ==
  /\ now = 0
  /\ nextSeq = Cardinality(Clients) + 1
  /\ \E started \in Bijection(Clients, 1 .. Cardinality(Clients)),
        first \in [Clients -> Tags], delay \in [Clients -> Delays] :
       /\ queue = {[time |-> TickMs, seq |-> 0, node |-> Control, action |-> FaultTick]}
                  \cup {[time |-> delay[n], seq |-> started[n], node |-> n,
                         action |-> FireTimer(first[n])] : n \in Clients}
       /\ timers = [x \in Nodes \X Tags |->
                      IF x[1] \in Clients /\ x[2] = first[x[1]] THEN started[x[1]] ELSE NoTimer]
  /\ cancelled = {}
  /\ down = {} /\ side = {}
  /\ pausedUntil = [n \in {} |-> 0]
  /\ schedule \in Schedules \cup {NoSchedule} /\ decisions = <<>>
  /\ work = 0
  /\ outages = {} /\ freezes = {} /\ drops = {}

-----------------------------------------------------------------------------
(* What a node does with the services of Env when e has woken it up.       *)

\* Network.send, unless the message is lost: a second copy travels on its own.
Flights == {<<d>> : d \in Latencies} \cup {<<c, d>> : c \in Latencies, d \in Latencies}

Copies(e, n, to, flight) ==
  [i \in DOMAIN flight |-> At(e.time + flight[i], to, DeliverMessage(n, FALSE))]

Sent(e, n) == {Copies(e, n, to, flight) : to \in Nodes, flight \in Flights}

\* Mutant: the timer it supersedes is left pending.
SetTimerStacking(e, n, sent, table, tag, delay) ==
  /\ Advance(e, Append(sent, At(e.time + delay, n, FireTimer(tag))), {})
  /\ timers' = [table EXCEPT ![<<n, tag>>] = nextSeq + Len(sent)]

\* Supersede the pending timer of this name.
SetTimer(e, n, sent, table, tag, delay) ==
  /\ Advance(e, Append(sent, At(e.time + delay, n, FireTimer(tag))),
             {table[<<n, tag>>]} \ {NoTimer})
  /\ timers' = [table EXCEPT ![<<n, tag>>] = nextSeq + Len(sent)]

CancelTimer(e, n, sent, table, tag) ==
  /\ Advance(e, sent, {table[<<n, tag>>]} \ {NoTimer})
  /\ timers' = [table EXCEPT ![<<n, tag>>] = NoTimer]

\* The handler runs; table is what is left of the timers.  Besides messages it
\* may have set or cancelled a timer.
React(e, n, table) ==
  \/ /\ Advance(e, <<>>, {})
     /\ timers' = table
     /\ UNCHANGED work
  \/ /\ work < MaxWork
     /\ work' = work + 1
     /\ \E sent \in {<<>>} \cup Sent(e, n) :
          \/ Advance(e, sent, {}) /\ timers' = table
          \/ \E tag \in Tags, d \in Delays : SetTimer(e, n, sent, table, tag, d)
          \/ \E tag \in Tags : CancelTimer(e, n, sent, table, tag)

-----------------------------------------------------------------------------
(* Messages and timers.                                                    *)

Drop(e, reason) ==
  /\ Advance(e, <<>>, {})
  /\ drops' = drops \cup {[held |-> e.action.held, reason |-> reason]}
  /\ UNCHANGED <<timers, injectorVars, work, faultVars>>

DropAcrossCut(e) ==
  /\ Dispatch(e, "message")
  /\ ~ CanReach(e.action.sender, e.node)
  /\ Drop(e, "partition")

DropAtDown(e) ==
  /\ Dispatch(e, "message")
  /\ CanReach(e.action.sender, e.node)
  /\ e.node \in down
  /\ Drop(e, "crashed")

\* Reached a paused node: deliver it again when the pause ends.
HoldMessage(e) ==
  /\ Dispatch(e, "message")
  /\ CanReach(e.action.sender, e.node)
  /\ e.node \notin down /\ Paused(e.node)
  /\ Advance(e, <<At(pausedUntil[e.node], e.node, DeliverMessage(e.action.sender, TRUE))>>, {})
  /\ UNCHANGED <<timers, injectorVars, work, drops, faultVars>>

OnMessage(e) ==
  /\ Dispatch(e, "message")
  /\ CanReach(e.action.sender, e.node)
  /\ e.node \notin down /\ ~ Paused(e.node)
  /\ React(e, e.node, timers)
  /\ UNCHANGED <<injectorVars, drops, faultVars>>

\* Mutant: the timer is still thought to be pending.
FiredStillPending(e) == timers

Fired(e) == [timers EXCEPT ![<<e.node, e.action.tag>>] = NoTimer]

\* A timer that has been superseded does not fire; nor does one of a node that
\* is down.
OnTimer(e) ==
  /\ Dispatch(e, "timer")
  /\ e.node \in down \/ ~ Paused(e.node)
  /\ IF timers[<<e.node, e.action.tag>>] = e.seq /\ e.node \notin down
     THEN React(e, e.node, Fired(e))
     ELSE /\ Advance(e, <<>>, {})
          /\ timers' = IF timers[<<e.node, e.action.tag>>] = e.seq THEN Fired(e) ELSE timers
          /\ UNCHANGED work
  /\ UNCHANGED <<injectorVars, drops, faultVars>>

HoldTimer(e) ==
  /\ Dispatch(e, "timer")
  /\ e.node \notin down /\ Paused(e.node)
  /\ IF timers[<<e.node, e.action.tag>>] = e.seq
     THEN /\ Advance(e, <<At(pausedUntil[e.node], e.node, e.action)>>, {})
          /\ timers' = [timers EXCEPT ![<<e.node, e.action.tag>>] = nextSeq]
     ELSE Advance(e, <<>>, {}) /\ UNCHANGED timers
  /\ UNCHANGED <<injectorVars, work, drops, faultVars>>

-----------------------------------------------------------------------------
(* Faults.                                                                 *)

(* A fault is written down as an InjectedFault; targets is one side of a   *)
(* partition, or the victim.                                               *)

InjectedFault(at, kind, duration, targets) ==
  [at |-> at, kind |-> kind, duration |-> duration, targets |-> targets]

Faults(at, kind, groups) == {InjectedFault(at, kind, d, g) : d \in Durations, g \in groups}

\* Simulation.schedule_partition, schedule_crash and schedule_pause.
Scheduled(fault) ==
  LET over == fault.at + fault.duration
      Pair(n, starts, ends) == <<At(fault.at, n, starts), At(over, n, ends)>>
      Victim == CHOOSE n \in fault.targets : TRUE
  IN  CASE fault.kind = "partition" -> Pair(Control, StartPartition(fault.targets), HealPartition)
        [] fault.kind = "crash"     -> Pair(Victim, CrashNode(over), RestartNode)
        [] fault.kind = "pause"     -> Pair(Victim, PauseNode(over), ResumeNode)

\* Schedule these faults, the start and then the end of each, and the next tick.
Inject(e, found) ==
  Advance(e, [i \in 1 .. 2 * Len(found) |-> Scheduled(found[(i + 1) \div 2])[2 - (i % 2)]]
               \o <<At(e.time + TickMs, Control, FaultTick)>>, {})

AtMostOne(set) == {<<>>} \cup {<<f>> : f \in set}

Victims == {{n} : n \in Replicas}

\* The sides a partition may cut off: none while one is open.
Sides == IF side = {} THEN (SUBSET Replicas) \ {{}, Replicas} ELSE {}

\* One die per kind of fault.
Rolls(t) ==
  {p \o c \o q : p \in AtMostOne(Faults(t, "partition", Sides)),
                 c \in AtMostOne(Faults(t, "crash", Victims)),
                 q \in AtMostOne(Faults(t, "pause", Victims))}

\* FaultInjector.tick.
Decide(e) ==
  \E found \in Rolls(e.time) :
    /\ Inject(e, found)
    /\ decisions' = decisions \o found
    /\ Len(decisions') <= MaxFaults

\* Mutant: a fault stays due once its time has come.
DueByNow(fault, t) == fault.at <= t

Due(fault, t) == fault.at = t

\* Mutant: a side that leaves nobody on the other is cut off all the same.
AppliesAnyway(fault) == fault.targets \cap Replicas # {}

\* A fault of another kind, aimed at nobody, or that leaves nobody on the other
\* side, is none.
Applies(fault) ==
  /\ fault.kind \in {"partition", "crash", "pause"}
  /\ fault.targets \cap Replicas # {}
  /\ fault.kind = "partition" => Replicas \ fault.targets # {}

\* The increasing enumeration of a finite set of numbers.
InOrder(set) ==
  {f \in [1 .. Cardinality(set) -> set] : \A i, j \in DOMAIN f : i < j => f[i] < f[j]}

\* A fault, as it concerns this cluster.
Confined(fault) ==
  InjectedFault(fault.at, fault.kind, fault.duration, fault.targets \cap Replicas)

\* ScriptedInjector.tick: what was recorded for this instant, in that order.
Replay(e, script) ==
  \E due \in InOrder({i \in DOMAIN script : Due(script[i], e.time) /\ Applies(script[i])}) :
    Inject(e, [i \in DOMAIN due |-> Confined(script[due[i]])])

Tick(e) ==
  /\ Dispatch(e, "tick")
  /\ \/ schedule = NoSchedule /\ Decide(e)
     \/ schedule # NoSchedule /\ Replay(e, schedule) /\ UNCHANGED decisions
  /\ UNCHANGED <<schedule, timers, work, drops, faultVars>>

Cut(e) ==
  /\ Dispatch(e, "cut")
  /\ Advance(e, <<>>, {})
  /\ side' = e.action.group
  /\ UNCHANGED <<timers, injectorVars, work, drops, down, pausedUntil, outages, freezes>>

Heal(e) ==
  /\ Dispatch(e, "heal")
  /\ Advance(e, <<>>, {})
  /\ side' = {}
  /\ UNCHANGED <<timers, injectorVars, work, drops, down, pausedUntil, outages, freezes>>

\* Mutant: a pause outlasts the crash.
CrashKeepingPause(e) ==
  /\ Dispatch(e, "crash")
  /\ e.node \notin down
  /\ Advance(e, <<>>, PendingOf(timers, e.node))
  /\ timers' = [x \in Nodes \X Tags |-> IF x[1] = e.node THEN NoTimer ELSE timers[x]]
  /\ down' = down \cup {e.node}
  /\ outages' = outages \cup {[node |-> e.node, until |-> e.action.until]}
  /\ UNCHANGED <<injectorVars, work, drops, pausedUntil, side, freezes>>

\* A crash ends a pause and cancels the node's timers.
Crash(e) ==
  /\ Dispatch(e, "crash")
  /\ e.node \notin down
  /\ Advance(e, <<>>, PendingOf(timers, e.node))
  /\ timers' = [x \in Nodes \X Tags |-> IF x[1] = e.node THEN NoTimer ELSE timers[x]]
  /\ down' = down \cup {e.node}
  /\ pausedUntil' = Unpaused(e.node)
  /\ outages' = outages \cup {[node |-> e.node, until |-> e.action.until]}
  /\ freezes' = {f \in freezes : f.node # e.node}
  /\ UNCHANGED <<injectorVars, work, drops, side>>

Restart(e) ==
  /\ Dispatch(e, "restart")
  /\ e.node \in down
  /\ Advance(e, <<>>, {})
  /\ down' = down \ {e.node}
  /\ UNCHANGED <<timers, injectorVars, work, drops, pausedUntil, side, outages, freezes>>

\* Mutant: the last of two overlapping pauses decides.
PauseAgain(e) ==
  /\ Dispatch(e, "pause")
  /\ e.node \notin down
  /\ Advance(e, <<>>, {})
  /\ pausedUntil' = [n \in DOMAIN pausedUntil \cup {e.node} |->
                       IF n = e.node THEN e.action.until ELSE pausedUntil[n]]
  /\ freezes' = freezes \cup {[node |-> e.node, until |-> e.action.until]}
  /\ UNCHANGED <<timers, injectorVars, work, drops, down, side, outages>>

\* Of overlapping pauses, the one that ends last decides.
Pause(e) ==
  /\ Dispatch(e, "pause")
  /\ e.node \notin down
  /\ Advance(e, <<>>, {})
  /\ pausedUntil' = [n \in DOMAIN pausedUntil \cup {e.node} |->
                       IF n # e.node THEN pausedUntil[n]
                       ELSE IF Paused(n) /\ pausedUntil[n] > e.action.until
                       THEN pausedUntil[n] ELSE e.action.until]
  /\ freezes' = freezes \cup {[node |-> e.node, until |-> e.action.until]}
  /\ UNCHANGED <<timers, injectorVars, work, drops, down, side, outages>>

\* Mutant: a pause does not end at its deadline, only after it.
PauseIsOverLate(e) == Paused(e.node) /\ pausedUntil[e.node] < e.time

PauseIsOver(e) == Paused(e.node) /\ pausedUntil[e.node] <= e.time

Resume(e) ==
  /\ Dispatch(e, "resume")
  /\ PauseIsOver(e)
  /\ Advance(e, <<>>, {})
  /\ pausedUntil' = Unpaused(e.node)
  /\ UNCHANGED <<timers, injectorVars, work, drops, down, side, outages, freezes>>

\* A crash or a pause of a node that is down, a restart of one that is up, the
\* end of a pause that another one outlasts, or that a crash has ended.
IgnoreFault(e) ==
  /\ \/ (Dispatch(e, "crash") \/ Dispatch(e, "pause")) /\ e.node \in down
     \/ Dispatch(e, "restart") /\ e.node \notin down
     \/ Dispatch(e, "resume") /\ ~ PauseIsOver(e)
  /\ Advance(e, <<>>, {})
  /\ UNCHANGED <<timers, injectorVars, work, drops, faultVars>>

\* The horizon is reached.
Over == (\A e \in Live : e.time > Horizon) /\ UNCHANGED vars

\* The events the recorder hears nothing of, or only as a message.
QuietStep(e) ==
  \/ DropAcrossCut(e) \/ DropAtDown(e) \/ HoldMessage(e) \/ OnMessage(e)
  \/ OnTimer(e) \/ HoldTimer(e)
  \/ Tick(e) \/ IgnoreFault(e)

FaultStep(e) == Cut(e) \/ Heal(e) \/ Crash(e) \/ Restart(e) \/ Pause(e) \/ Resume(e)

Next == (\E e \in queue : QuietStep(e) \/ FaultStep(e)) \/ Over

Spec == Init /\ [][Next]_vars

-----------------------------------------------------------------------------
(* Properties.                                                             *)

Actions ==
       [kind : {"message"}, sender : Nodes, held : BOOLEAN]
  \cup [kind : {"timer"}, tag : Tags]
  \cup [kind : {"cut"}, group : SUBSET Replicas]
  \cup [kind : {"crash", "pause"}, until : Nat]
  \cup [kind : {"heal", "restart", "resume", "tick"}]

Events == [time : Nat, seq : Nat, node : Nodes \cup {Control}, action : Actions]

TypeOK ==
  /\ now \in Nat
  /\ queue \subseteq Events
  /\ nextSeq \in Nat
  /\ \A e \in queue : e.seq < nextSeq
  /\ \A e, f \in queue : e.seq = f.seq => e = f
  /\ cancelled \subseteq Nat
  /\ timers \in [Nodes \X Tags -> Nat \cup {NoTimer}]
  /\ down \subseteq Replicas
  /\ DOMAIN pausedUntil \subseteq Replicas \ down
  /\ \A n \in DOMAIN pausedUntil : pausedUntil[n] \in Nat
  /\ side \in (SUBSET Replicas) \ {Replicas}

\* Nothing that is still to come lies in the past: neither an event, nor the
\* end of a pause, at which held work is scheduled.  Otherwise schedule_at or
\* VirtualClock.advance_to raises in the middle of a run.
NothingIsLate ==
  /\ \A e \in Live : e.time >= now
  /\ \A n \in DOMAIN pausedUntil : pausedUntil[n] >= now

\* The table of timers and the queue agree: a timer that a node counts on is
\* pending, once, and one it has replaced, cancelled or lost in a crash never
\* fires.
TimersMatchQueue ==
  /\ \A n \in Nodes, tag \in Tags : timers[<<n, tag>>] # NoTimer =>
       /\ n \notin down
       /\ \E e \in Live : e.seq = timers[<<n, tag>>] /\ e.node = n /\ e.action = FireTimer(tag)
  /\ \A e \in Live : e.action.kind = "timer" => timers[<<e.node, e.action.tag>>] = e.seq

\* Lazy cancellation leaks nothing: every number kept is that of an event the
\* queue will still pop.
CancelledAreQueued == \A s \in cancelled : \E e \in queue : e.seq = s

\* Every fault in force has its end in the queue.
EveryFaultEnds ==
  /\ \A n \in down : \E e \in Live : e.node = n /\ e.action = RestartNode
  /\ \A n \in DOMAIN pausedUntil :
       \E e \in Live : e.node = n /\ e.action = ResumeNode /\ e.time = pausedUntil[n]
  /\ side # {} => \E e \in Live : e.action = HealPartition

\* A pause lasts as long as it was meant to, unless the node crashes, however
\* many pauses overlap it.
PausesLast ==
  \A f \in freezes : now < f.until => Paused(f.node) /\ pausedUntil[f.node] >= f.until

\* A crash lasts as long as it was meant to.
CrashesLast == \A o \in outages : now < o.until => o.node \in down

\* What reaches a paused node is not lost, unless the node crashes.
PauseLosesNothing == \A d \in drops : d.held => d.reason = "crashed"

\* Replaying what the adversary has decided so far repeats what it did, tick by
\* tick and event by event, sequence numbers included: nothing else of a run
\* depends on who injects the faults.  The shrinker rests on this when it pins
\* a run before it reduces it (tests/test_schedule_capture.py).
PinningChangesNothing ==
  [][\A e \in queue : Tick(e) /\ schedule = NoSchedule => Replay(e, decisions')]_vars

\* A schedule with one fault of a kind per tick, as an adversary writes them,
\* does to the engine only what an adversary could have decided on at that
\* moment, also when it was made for another cluster (injector.py).
ReplayIsAnAdversary ==
  [][\A e \in queue : Tick(e) /\ schedule # NoSchedule =>
       \E found \in Rolls(e.time) : Inject(e, found)]_vars
=============================================================================
