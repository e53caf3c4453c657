-------------------------- MODULE SimulationProofs --------------------------
(***************************************************************************)
(* Proofs about the simulator (module Simulation) and about the replayer   *)
(* beside it (module Replayer), for any nodes, timers, latencies, faults   *)
(* and schedules: the queue and what it is for (timers, faults in force)   *)
(* agree in every state, a captured run replays as it was, and a reader of *)
(* a replay sees what happened.                                            *)
(***************************************************************************)
EXTENDS Replayer, SequenceTheorems, FiniteSetTheorems, TLAPS

-----------------------------------------------------------------------------
(* The inductive invariant.                                                *)

\* Where an event of each kind takes place, and what a partition cuts off.
Placed(x) ==
  /\ x.action.kind \in {"message", "timer"} => x.node \in Nodes
  /\ x.action.kind \in {"crash", "restart", "pause", "resume"} => x.node \in Replicas
  /\ x.action.kind = "cut" => x.action.group # Replicas

\* What may be asked of the scheduler.
Orders == {x \in [time : Nat, node : Nodes \cup {Control}, action : Actions] : Placed(x)}

\* The queue: events are numbered one by one, nothing cancelled has left it, and
\* nothing live is in the past.
QueueInv ==
  /\ now \in Nat /\ nextSeq \in Nat
  /\ queue \subseteq Events /\ \A e \in queue : Placed(e)
  /\ \A e \in queue : e.seq < nextSeq
  /\ \A e, f \in queue : e.seq = f.seq => e = f
  /\ cancelled \subseteq Nat
  /\ CancelledAreQueued
  /\ \A e \in Live : e.time >= now

\* What the faults in force look like, and the pauses that are remembered.
FaultsOK ==
  /\ down \subseteq Replicas
  /\ DOMAIN pausedUntil \subseteq Replicas \ down
  /\ \A n \in DOMAIN pausedUntil : pausedUntil[n] \in Nat
  /\ side \in (SUBSET Replicas) \ {Replicas}
  /\ freezes \subseteq [node : Replicas, until : Nat]

\* f ends the fault that e begins.
Ends(f, e) ==
  /\ e.action.kind = "crash" => f.node = e.node /\ f.action = RestartNode
  /\ e.action.kind = "pause" =>
       f.node = e.node /\ f.action = ResumeNode /\ f.time = e.action.until
  /\ e.action.kind = "cut" => f.action = HealPartition

\* A fault that is still to begin has its end in the queue, behind it.
EndsArePlanned ==
  \A e \in Live : e.action.kind \in {"crash", "pause", "cut"} =>
    \E f \in Live : Ends(f, e) /\ Before(e, f)

\* A table of timers and a set of events agree.
Match(table, events) ==
  /\ \A n \in Nodes, tag \in Tags : table[<<n, tag>>] # NoTimer =>
       \E e \in events : e.seq = table[<<n, tag>>] /\ e.node = n /\ e.action = FireTimer(tag)
  /\ \A e \in events : e.action.kind = "timer" => table[<<e.node, e.action.tag>>] = e.seq

TimerInv ==
  /\ timers \in [Nodes \X Tags -> Nat \cup {NoTimer}]
  /\ Match(timers, Live)
  /\ \A n \in Nodes, tag \in Tags : timers[<<n, tag>>] # NoTimer => n \notin down

\* The faults an adversary decides on.
Decided ==
  {f \in [at : Nat, kind : {"partition", "crash", "pause"}, duration : Nat,
          targets : SUBSET Replicas] : Applies(f)}

\* The injector wakes up once at a time, and later than anything it decided on.
TickInv ==
  /\ schedule \in Schedules \cup {NoSchedule}
  /\ decisions \in Seq(Decided)
  /\ \A e, f \in Live : e.action = FaultTick /\ f.action = FaultTick => e = f
  /\ \A e \in Live : e.action = FaultTick =>
       \A i \in 1 .. Len(decisions) : decisions[i].at < e.time

SimInv ==
  /\ QueueInv
  /\ FaultsOK
  /\ EndsArePlanned
  /\ EveryFaultEnds
  /\ TimerInv
  /\ PausesLast
  /\ TickInv

-----------------------------------------------------------------------------
(* The scheduler.                                                          *)

\* The events that the orders new become.
Numbered(new) ==
  {[time |-> new[i].time, seq |-> nextSeq + i - 1,
    node |-> new[i].node, action |-> new[i].action] : i \in DOMAIN new}

\* Event e is dispatched.  What it leads to is in order: nothing is asked for in
\* the past, and only other timers are cancelled.
InTurn(e) == e \in Live /\ IsNext(e)

OtherTimers(e) == {f \in Live : f # e /\ f.action.kind = "timer"}

Orderly(e, new, stale) ==
  /\ new \in Seq(Orders)
  /\ \A i \in 1 .. Len(new) : new[i].time >= e.time
  /\ stale \subseteq {f.seq : f \in OtherTimers(e)}

\* Whatever else is live comes later than the event that is dispatched.
LEMMA OthersAreLater ==
  ASSUME QueueInv, NEW e, InTurn(e), NEW f \in Live, f # e
  PROVE  /\ Before(e, f) /\ f.time >= e.time
         /\ f \in queue /\ f \in Events /\ e \in queue /\ e \in Events
BY DEF QueueInv, InTurn, IsNext, Before, Live, Events

LEMMA NumberedEvents ==
  ASSUME QueueInv, NEW new \in Seq(Orders)
  PROVE  /\ Numbered(new) \subseteq Events
         /\ \A g \in Numbered(new) :
              /\ Placed(g) /\ g.seq >= nextSeq /\ g.seq < nextSeq + Len(new)
              /\ \E i \in 1 .. Len(new) :
                   /\ g.seq = nextSeq + i - 1
                   /\ g.time = new[i].time /\ g.node = new[i].node /\ g.action = new[i].action
         /\ \A g, h \in Numbered(new) : g.seq = h.seq => g = h
<1>1. /\ Len(new) \in Nat /\ DOMAIN new = 1 .. Len(new)
      /\ \A i \in 1 .. Len(new) : new[i] \in Orders
  BY LenProperties, ElementOfSeq
<1>2. nextSeq \in Nat
  BY DEF QueueInv
<1>3. ASSUME NEW g \in Numbered(new)
      PROVE  /\ g \in Events /\ Placed(g)
             /\ \E i \in 1 .. Len(new) :
                  /\ g.seq = nextSeq + i - 1
                  /\ g.time = new[i].time /\ g.node = new[i].node /\ g.action = new[i].action
  <2>1. PICK i \in 1 .. Len(new) :
          g = [time |-> new[i].time, seq |-> nextSeq + i - 1,
               node |-> new[i].node, action |-> new[i].action]
    BY <1>1 DEF Numbered
  <2>2. /\ g.seq = nextSeq + i - 1 /\ g.seq \in Nat
        /\ g.time = new[i].time /\ g.node = new[i].node /\ g.action = new[i].action
    BY <2>1, <1>1, <1>2
  <2>3. /\ new[i].time \in Nat /\ new[i].node \in Nodes \cup {Control}
        /\ new[i].action \in Actions /\ Placed(new[i])
    BY <1>1 DEF Orders
  <2>4. g \in Events
    BY <2>1, <2>2, <2>3 DEF Events
  <2>5. Placed(g)
    BY <2>2, <2>3 DEF Placed
  <2> QED  BY <2>2, <2>4, <2>5
<1>4. ASSUME NEW g \in Numbered(new), NEW h \in Numbered(new), g.seq = h.seq
      PROVE  g = h
  <2>1. PICK i \in 1 .. Len(new) :
          g = [time |-> new[i].time, seq |-> nextSeq + i - 1,
               node |-> new[i].node, action |-> new[i].action]
    BY <1>1 DEF Numbered
  <2>2. PICK j \in 1 .. Len(new) :
          h = [time |-> new[j].time, seq |-> nextSeq + j - 1,
               node |-> new[j].node, action |-> new[j].action]
    BY <1>1 DEF Numbered
  <2>3. i = j
    BY <2>1, <2>2, <1>1, <1>2, <1>4
  <2> QED  BY <2>1, <2>2, <2>3
<1> QED
  <2>1. Numbered(new) \subseteq Events
    BY <1>3
  <2>2. \A g \in Numbered(new) :
          \E i \in 1 .. Len(new) :
            /\ g.seq = nextSeq + i - 1
            /\ g.time = new[i].time /\ g.node = new[i].node /\ g.action = new[i].action
    BY <1>3
  <2>3. \A g \in Numbered(new) : Placed(g)
    BY <1>3
  <2>4. \A g \in Numbered(new) : g.seq >= nextSeq /\ g.seq < nextSeq + Len(new)
    BY <1>1, <1>2, <2>2
  <2>5. \A g, h \in Numbered(new) : g.seq = h.seq => g = h
    BY <1>4
  <2> HIDE DEF Numbered
  <2> QED  BY <2>1, <2>2, <2>3, <2>4, <2>5

\* One dispatched event: it leaves the queue, what is cancelled with it dies, and
\* what is asked for joins what was live.
LEMMA QueueSteps ==
  ASSUME QueueInv, NEW e, InTurn(e), NEW new, NEW stale,
         Orderly(e, new, stale), Advance(e, new, stale)
  PROVE  /\ QueueInv'
         /\ now' = e.time /\ now' \in Nat /\ now' >= now
         /\ Live' = {f \in Live : f # e /\ f.seq \notin stale} \cup Numbered(new)
<1>1. /\ new \in Seq(Orders)
      /\ \A i \in 1 .. Len(new) : new[i].time >= e.time
      /\ \A s \in stale : \E f \in OtherTimers(e) : f.seq = s
  BY DEF Orderly
<1>2. Len(new) \in Nat
  BY <1>1, LenProperties
<1> DEFINE later == {f \in queue : Before(e, f)}
<1>3. /\ now' = e.time
      /\ queue' = later \cup Numbered(new)
      /\ nextSeq' = nextSeq + Len(new)
      /\ cancelled' = {s \in cancelled : \A f \in queue \ later : f.seq # s} \cup stale
  BY DEF Advance, Numbered
<1>4. /\ e \in queue /\ e \in Events /\ e.time \in Nat /\ e.seq \in Nat
      /\ e.time >= now /\ now \in Nat /\ nextSeq \in Nat
  BY DEF QueueInv, InTurn, Live, Events
<1>5. /\ e \notin later
      /\ \A f \in Live : f # e => f \in later
  BY <1>4, OthersAreLater DEF Before
<1>6. \A f \in later : f \in queue /\ f \in Events /\ f.seq \in Nat /\ f.time \in Nat
                       /\ f.seq < nextSeq /\ f.time >= e.time /\ Placed(f)
  BY <1>4 DEF QueueInv, Before, Events
<1>7. /\ Numbered(new) \subseteq Events
      /\ \A g \in Numbered(new) :
           /\ Placed(g) /\ g.seq >= nextSeq /\ g.seq < nextSeq + Len(new)
           /\ g.time >= e.time /\ g.seq \in Nat
      /\ \A g, h \in Numbered(new) : g.seq = h.seq => g = h
  <2>1. \A g \in Numbered(new) : \E i \in 1 .. Len(new) : g.time = new[i].time
    BY <1>1, NumberedEvents
  <2>2. \A g \in Numbered(new) : g.time >= e.time
    BY <2>1, <1>1
  <2>3. /\ Numbered(new) \subseteq Events
        /\ \A g \in Numbered(new) :
             Placed(g) /\ g.seq >= nextSeq /\ g.seq < nextSeq + Len(new)
        /\ \A g, h \in Numbered(new) : g.seq = h.seq => g = h
    BY <1>1, NumberedEvents
  <2>4. \A g \in Numbered(new) : g.seq \in Nat
    BY <2>3 DEF Events
  <2> QED  BY <2>2, <2>3, <2>4
<1>8. \A s \in stale : s \in Nat /\ s < nextSeq /\ \E f \in later : f.seq = s
  BY <1>1, <1>5, <1>6 DEF OtherTimers
<1>9. \A s \in cancelled : s \in Nat /\ \E f \in queue : f.seq = s /\ s < nextSeq
  BY DEF QueueInv, CancelledAreQueued
<1>10. \A f, g \in queue : f.seq = g.seq => f = g
  BY DEF QueueInv
<1> HIDE DEF later
<1>11. Live' = {f \in Live : f # e /\ f.seq \notin stale} \cup Numbered(new)
  <2>1. ASSUME NEW f \in queue', f.seq \notin cancelled'
        PROVE  f \in {g \in Live : g # e /\ g.seq \notin stale} \cup Numbered(new)
    <3>1. CASE f \in later
      <4>1. f.seq \notin stale /\ f # e /\ f \in queue
        BY <2>1, <3>1, <1>3, <1>5, <1>6
      <4>2. f.seq \notin cancelled
        BY <2>1, <3>1, <1>3, <1>6, <1>10
      <4> QED  BY <4>1, <4>2 DEF Live
    <3> QED  BY <2>1, <3>1, <1>3
  <2>2. ASSUME NEW f \in Live, f # e, f.seq \notin stale
        PROVE  f \in queue' /\ f.seq \notin cancelled'
    <3>1. f.seq \notin cancelled
      BY DEF Live
    <3> QED  BY <3>1, <2>2, <1>3, <1>5
  <2>3. ASSUME NEW f \in Numbered(new)
        PROVE  f \in queue' /\ f.seq \notin cancelled'
    <3>1. f.seq >= nextSeq /\ f.seq \in Nat
      BY <1>7
    <3>2. \A s \in cancelled' : s \in Nat /\ s < nextSeq
      BY <1>3, <1>8, <1>9
    <3> QED  BY <3>1, <3>2, <1>3, <1>4
  <2>4. Live' = {f \in queue' : f.seq \notin cancelled'}
    BY DEF Live
  <2> QED  BY <2>1, <2>2, <2>3, <2>4
<1>12. QueueInv'
  <2>1. now' \in Nat /\ nextSeq' \in Nat
    BY <1>2, <1>3, <1>4
  <2>2. queue' \subseteq Events /\ \A f \in queue' : Placed(f)
    BY <1>3, <1>6, <1>7
  <2>3. \A f \in queue' : f.seq < nextSeq'
    BY <1>2, <1>3, <1>4, <1>6, <1>7
  <2>4. \A f, g \in queue' : f.seq = g.seq => f = g
    <3> SUFFICES ASSUME NEW f \in queue', NEW g \in queue', f.seq = g.seq PROVE f = g
      OBVIOUS
    <3>1. CASE f \in later /\ g \in later
      BY <3>1, <1>6, <1>10
    <3>2. CASE f \in Numbered(new) /\ g \in Numbered(new)
      BY <3>2, <1>7
    <3>3. CASE f \in later /\ g \in Numbered(new)
      BY <3>3, <1>4, <1>6, <1>7
    <3>4. CASE f \in Numbered(new) /\ g \in later
      BY <3>4, <1>4, <1>6, <1>7
    <3> QED  BY <3>1, <3>2, <3>3, <3>4, <1>3
  <2>5. cancelled' \subseteq Nat
    BY <1>3, <1>8, <1>9
  <2>6. \A s \in cancelled' : \E f \in queue' : f.seq = s
    BY <1>3, <1>6, <1>8, <1>9
  <2>7. \A f \in Live' : f.time >= now'
    BY <1>11, <1>3, <1>5, <1>6, <1>7
  <2> QED  BY <2>1, <2>2, <2>3, <2>4, <2>5, <2>6, <2>7 DEF QueueInv, CancelledAreQueued
<1> QED  BY <1>3, <1>4, <1>11, <1>12

\* Event e is dispatched, and this is what comes of it.
Turn(e, new, stale) ==
  /\ InTurn(e)
  /\ Orderly(e, new, stale)
  /\ Advance(e, new, stale)

\* What an event may be.
LEMMA KindsOfActions ==
  ASSUME NEW a \in Actions
  PROVE  /\ a.kind = "message" => a.sender \in Nodes /\ a.held \in BOOLEAN
         /\ a.kind = "timer" => a.tag \in Tags /\ a = FireTimer(a.tag)
         /\ a.kind = "cut" => a.group \subseteq Replicas
         /\ a.kind \in {"crash", "pause"} => a.until \in Nat
         /\ a.kind = "restart" => a = RestartNode
         /\ a.kind = "resume" => a = ResumeNode
         /\ a.kind = "heal" => a = HealPartition
         /\ a.kind = "tick" => a = FaultTick
<1>1. CASE a \in [kind : {"message"}, sender : Nodes, held : BOOLEAN]
  BY <1>1
<1>2. CASE a \in [kind : {"timer"}, tag : Tags]
  BY <1>2 DEF FireTimer
<1>3. CASE a \in [kind : {"cut"}, group : SUBSET Replicas]
  BY <1>3
<1>4. CASE a \in [kind : {"crash", "pause"}, until : Nat]
  BY <1>4
<1>5. CASE a \in [kind : {"heal", "restart", "resume", "tick"}]
  BY <1>5 DEF RestartNode, ResumeNode, HealPartition, FaultTick
<1> QED  BY <1>1, <1>2, <1>3, <1>4, <1>5 DEF Actions

\* An event that is live, is not dispatched and is no timer stays so.
LEMMA OthersStay ==
  ASSUME QueueInv, NEW e, NEW new, NEW stale, Turn(e, new, stale),
         NEW f \in Live, f # e, f.action.kind # "timer"
  PROVE  f \in Live'
<1>1. Live' = {g \in Live : g # e /\ g.seq \notin stale} \cup Numbered(new)
  BY QueueSteps DEF Turn
<1>2. f.seq \notin stale
  <2>1. \A s \in stale : \E g \in OtherTimers(e) : g.seq = s
    BY DEF Turn, Orderly
  <2>2. \A g \in OtherTimers(e) : g.seq # f.seq
    BY DEF QueueInv, OtherTimers, Live
  <2> QED  BY <2>1, <2>2
<1> QED  BY <1>1, <1>2

\* What is live was so, or was asked for.
LEMMA WhereFrom ==
  ASSUME QueueInv, NEW e, NEW new, NEW stale, Turn(e, new, stale), NEW f \in Live'
  PROVE  \/ f \in Live /\ f # e /\ f.seq \notin stale
         \/ /\ f \in Numbered(new)
            /\ \E i \in 1 .. Len(new) :
                  /\ f.seq = nextSeq + i - 1
                  /\ f.time = new[i].time /\ f.node = new[i].node /\ f.action = new[i].action
<1>1. Live' = {g \in Live : g # e /\ g.seq \notin stale} \cup Numbered(new)
  BY QueueSteps DEF Turn
<1>2. new \in Seq(Orders)
  BY DEF Turn, Orderly
<1> QED  BY <1>1, <1>2, NumberedEvents

\* What was asked for is live.
LEMMA WhatIsAskedFor ==
  ASSUME QueueInv, NEW e, NEW new, NEW stale, Turn(e, new, stale), NEW i \in 1 .. Len(new)
  PROVE  \E f \in Live' :
           /\ f.seq = nextSeq + i - 1
           /\ f.time = new[i].time /\ f.node = new[i].node /\ f.action = new[i].action
<1>1. Live' = {g \in Live : g # e /\ g.seq \notin stale} \cup Numbered(new)
  BY QueueSteps DEF Turn
<1>2. DOMAIN new = 1 .. Len(new)
  <2>1. new \in Seq(Orders)
    BY DEF Turn, Orderly
  <2> QED  BY <2>1, LenProperties
<1> DEFINE f == [time |-> new[i].time, seq |-> nextSeq + i - 1,
                 node |-> new[i].node, action |-> new[i].action]
<1>3. f \in Live'
  BY <1>1, <1>2 DEF Numbered
<1> QED  BY <1>3

-----------------------------------------------------------------------------
(* Faults.                                                                 *)

StartKinds == {"crash", "pause", "cut"}

\* Whoever asks for a fault to begin asks for its end too.
PlansItsEnds(new) ==
  \A i \in 1 .. Len(new) : new[i].action.kind \in StartKinds =>
    \E j \in 1 .. Len(new) : i < j /\ Ends(new[j], new[i]) /\ new[i].time <= new[j].time

LEMMA PlansHold ==
  ASSUME QueueInv, EndsArePlanned,
         NEW e, NEW new, NEW stale, Turn(e, new, stale), PlansItsEnds(new)
  PROVE  EndsArePlanned'
<1> SUFFICES ASSUME NEW g \in Live', g.action.kind \in StartKinds
             PROVE  \E f \in Live' : Ends(f, g) /\ Before(g, f)
  BY DEF EndsArePlanned, StartKinds, Ends, Before
<1>1. CASE g \in Live /\ g # e
  <2>1. PICK f \in Live : Ends(f, g) /\ Before(g, f)
    BY <1>1 DEF EndsArePlanned, StartKinds
  <2>2. Before(e, g) /\ e \in Events /\ g \in Events
    BY <1>1, OthersAreLater DEF Turn
  <2>3. f # e
    BY <2>1, <2>2 DEF Before, Events
  <2>4. f.action.kind # "timer"
    BY <2>1 DEF Ends, StartKinds, RestartNode, ResumeNode, HealPartition
  <2> QED  BY <2>1, <2>3, <2>4, OthersStay
<1>2. CASE \E i \in 1 .. Len(new) :
             /\ g.seq = nextSeq + i - 1
             /\ g.time = new[i].time /\ g.node = new[i].node /\ g.action = new[i].action
  <2>1. PICK i \in 1 .. Len(new) :
          /\ g.seq = nextSeq + i - 1
          /\ g.time = new[i].time /\ g.node = new[i].node /\ g.action = new[i].action
    BY <1>2
  <2>2. PICK j \in 1 .. Len(new) :
          i < j /\ Ends(new[j], new[i]) /\ new[i].time <= new[j].time
    BY <2>1 DEF PlansItsEnds
  <2>3. PICK f \in Live' :
          /\ f.seq = nextSeq + j - 1
          /\ f.time = new[j].time /\ f.node = new[j].node /\ f.action = new[j].action
    BY WhatIsAskedFor
  <2>4. Ends(f, g)
    BY <2>1, <2>2, <2>3 DEF Ends
  <2>5. /\ Len(new) \in Nat /\ nextSeq \in Nat
        /\ new[i].time \in Nat /\ new[j].time \in Nat
    <3>1. new \in Seq(Orders) /\ nextSeq \in Nat
      BY DEF Turn, Orderly, QueueInv
    <3>2. Len(new) \in Nat /\ new[i] \in Orders /\ new[j] \in Orders
      BY <3>1, LenProperties, ElementOfSeq
    <3> QED  BY <3>1, <3>2 DEF Orders
  <2>6. Before(g, f)
    BY <2>1, <2>2, <2>3, <2>5 DEF Before
  <2> QED  BY <2>4, <2>6
<1> QED  BY <1>1, <1>2, WhereFrom

\* A step that begins and ends no fault keeps what is known of faults.
LEMMA FaultsStay ==
  ASSUME SimInv, NEW e, NEW new, NEW stale, Turn(e, new, stale), PlansItsEnds(new),
         e.action.kind \notin {"restart", "resume", "heal"},
         UNCHANGED faultVars
  PROVE  FaultsOK' /\ EndsArePlanned' /\ EveryFaultEnds' /\ PausesLast'
<1>1. QueueInv /\ FaultsOK /\ EndsArePlanned /\ EveryFaultEnds /\ PausesLast
  BY DEF SimInv
<1>2. FaultsOK'
  BY <1>1 DEF FaultsOK, faultVars
<1>3. EndsArePlanned'
  BY <1>1, PlansHold
<1>4. \A f \in Live : f.action.kind \in {"restart", "resume", "heal"} => f \in Live'
  BY <1>1, OthersStay
<1>5. EveryFaultEnds'
  <2>1. \A n \in down : \E f \in Live' : f.node = n /\ f.action = RestartNode
    BY <1>1, <1>4 DEF EveryFaultEnds, RestartNode
  <2>2. \A n \in DOMAIN pausedUntil :
          \E f \in Live' : f.node = n /\ f.action = ResumeNode /\ f.time = pausedUntil[n]
    BY <1>1, <1>4 DEF EveryFaultEnds, ResumeNode
  <2>3. side # {} => \E f \in Live' : f.action = HealPartition
    BY <1>1, <1>4 DEF EveryFaultEnds, HealPartition
  <2> QED  BY <2>1, <2>2, <2>3 DEF EveryFaultEnds, faultVars, RestartNode, ResumeNode,
              HealPartition
<1>6. PausesLast'
  <2>1. now' >= now /\ now' \in Nat /\ now \in Nat
    BY <1>1, QueueSteps DEF Turn, QueueInv
  <2>2. \A f \in freezes : f.until \in Nat
    BY <1>1 DEF FaultsOK
  <2> QED  BY <1>1, <2>1, <2>2 DEF PausesLast, Paused, faultVars
<1> QED  BY <1>2, <1>3, <1>5, <1>6

-----------------------------------------------------------------------------
(* Ticks and timers.                                                       *)

\* A step that asks for no tick, and that decides nothing, keeps what is known of
\* them.
LEMMA TicksStay ==
  ASSUME SimInv, NEW e, NEW new, NEW stale, Turn(e, new, stale),
         \A i \in 1 .. Len(new) : new[i].action.kind # "tick",
         UNCHANGED injectorVars
  PROVE  TickInv'
<1>1. QueueInv /\ TickInv
  BY DEF SimInv
<1>2. \A f \in Live' : f.action = FaultTick => f \in Live
  BY <1>1, WhereFrom DEF FaultTick
<1>3. schedule' = schedule /\ decisions' = decisions
  BY DEF injectorVars
<1> QED  BY <1>1, <1>2, <1>3 DEF TickInv, FaultTick

\* The timers of a handler that e has woken up, before it sets or cancels any.
Waking(e, n, table) ==
  /\ InTurn(e)
  /\ n \in Nodes \ down
  /\ table \in [Nodes \X Tags -> Nat \cup {NoTimer}]
  /\ Match(table, Live \ {e})
  /\ \A m \in Nodes, tag \in Tags : table[<<m, tag>>] # NoTimer => m \notin down

\* A step that sets and cancels no timers.
LEMMA TableStays ==
  ASSUME QueueInv, NEW e, NEW new, NEW table, Turn(e, new, {}),
         Match(table, Live \ {e}),
         \A i \in 1 .. Len(new) : new[i].action.kind # "timer"
  PROVE  Match(table, Live')
<1>1. Live' = {f \in Live : f # e} \cup Numbered(new)
  BY QueueSteps DEF Turn
<1>2. ASSUME NEW n \in Nodes, NEW tag \in Tags, table[<<n, tag>>] # NoTimer
      PROVE  \E f \in Live' : f.seq = table[<<n, tag>>] /\ f.node = n /\ f.action = FireTimer(tag)
  BY <1>1, <1>2 DEF Match
<1>3. ASSUME NEW f \in Live', f.action.kind = "timer"
      PROVE  table[<<f.node, f.action.tag>>] = f.seq
  <2>1. f \in Live \ {e}
    BY <1>3, WhereFrom
  <2> QED  BY <2>1, <1>3 DEF Match
<1> QED  BY <1>2, <1>3 DEF Match

\* Timer tag of node n is set, and what was pending under that name is cancelled.
LEMMA TimerIsSet ==
  ASSUME QueueInv, NEW e, NEW n \in Nodes, NEW table, Waking(e, n, table),
         NEW tag \in Tags, NEW new, NEW stale, Turn(e, new, stale),
         stale = {table[<<n, tag>>]} \ {NoTimer},
         Len(new) >= 1,
         new[Len(new)].node = n, new[Len(new)].action = FireTimer(tag),
         \A i \in 1 .. Len(new) - 1 : new[i].action.kind # "timer",
         timers' = [table EXCEPT ![<<n, tag>>] = nextSeq + Len(new) - 1]
  PROVE  Match(timers', Live')
<1>1. Live' = {f \in Live : f # e /\ f.seq \notin stale} \cup Numbered(new)
  BY QueueSteps DEF Turn
<1>2. new \in Seq(Orders)
  BY DEF Turn, Orderly
<1>3. Len(new) \in Nat /\ nextSeq \in Nat
  BY <1>2, LenProperties DEF QueueInv
<1>4. \A m \in Nodes, u \in Tags :
        timers'[<<m, u>>] = IF m = n /\ u = tag THEN nextSeq + Len(new) - 1 ELSE table[<<m, u>>]
  BY DEF Waking
<1>5. \A f, g \in Live : f.seq = g.seq => f = g
  BY DEF QueueInv, Live
<1>6. \A f \in Live \ {e} : f.seq \in Nat /\ f.node \in Nodes \cup {Control} /\ f.action \in Actions
                            /\ Placed(f)
  BY DEF QueueInv, Live, Events
<1>7. ASSUME NEW m \in Nodes, NEW u \in Tags, timers'[<<m, u>>] # NoTimer
      PROVE  \E f \in Live' : f.seq = timers'[<<m, u>>] /\ f.node = m /\ f.action = FireTimer(u)
  <2>1. CASE m = n /\ u = tag
    <3>1. Len(new) \in 1 .. Len(new)
      BY <1>3
    <3>2. \E f \in Live' :
            /\ f.seq = nextSeq + Len(new) - 1
            /\ f.node = new[Len(new)].node /\ f.action = new[Len(new)].action
      BY <3>1, WhatIsAskedFor
    <3> QED  BY <3>2, <2>1, <1>4
  <2>2. CASE ~ (m = n /\ u = tag)
    <3>1. timers'[<<m, u>>] = table[<<m, u>>]
      BY <2>2, <1>4
    <3>2. PICK f \in Live \ {e} : f.seq = table[<<m, u>>] /\ f.node = m /\ f.action = FireTimer(u)
      BY <3>1, <1>7 DEF Waking, Match
    <3>3. f.seq \notin stale
      <4> SUFFICES ASSUME f.seq \in stale PROVE FALSE
        OBVIOUS
      <4>1. f.seq = table[<<n, tag>>] /\ table[<<n, tag>>] # NoTimer
        OBVIOUS
      <4>2. PICK g \in Live \ {e} : g.seq = table[<<n, tag>>] /\ g.node = n /\ g.action = FireTimer(tag)
        BY <4>1 DEF Waking, Match
      <4>3. f = g
        BY <4>1, <4>2, <1>5
      <4> QED  BY <4>2, <4>3, <3>2, <2>2 DEF FireTimer
    <3>4. f \in Live'
      BY <1>1, <3>3
    <3> QED  BY <3>1, <3>2, <3>4
  <2> QED  BY <2>1, <2>2
<1>8. ASSUME NEW f \in Live', f.action.kind = "timer"
      PROVE  timers'[<<f.node, f.action.tag>>] = f.seq
  <2>1. CASE f \in Live /\ f # e /\ f.seq \notin stale
    <3>1. table[<<f.node, f.action.tag>>] = f.seq
      BY <2>1, <1>8 DEF Waking, Match
    <3>2. f.node \in Nodes /\ f.action.tag \in Tags
      BY <2>1, <1>6, <1>8, KindsOfActions DEF Placed
    <3>3. ~ (f.node = n /\ f.action.tag = tag)
      BY <2>1, <3>1, <1>6, NodesAssumption
    <3> QED  BY <3>1, <3>2, <3>3, <1>4
  <2>2. CASE \E i \in 1 .. Len(new) :
               /\ f.seq = nextSeq + i - 1
               /\ f.node = new[i].node /\ f.action = new[i].action
    <3>1. PICK i \in 1 .. Len(new) :
            f.seq = nextSeq + i - 1 /\ f.node = new[i].node /\ f.action = new[i].action
      BY <2>2
    <3>2. i = Len(new)
      BY <3>1, <1>3, <1>8
    <3> QED  BY <3>1, <3>2, <1>4 DEF FireTimer
  <2> QED  BY <2>1, <2>2, WhereFrom
<1> QED  BY <1>7, <1>8 DEF Match

\* Timer tag of node n is cancelled.
LEMMA TimerIsCancelled ==
  ASSUME QueueInv, NEW e, NEW n \in Nodes, NEW table, Waking(e, n, table),
         NEW tag \in Tags, NEW new, NEW stale, Turn(e, new, stale),
         stale = {table[<<n, tag>>]} \ {NoTimer},
         \A i \in 1 .. Len(new) : new[i].action.kind # "timer",
         timers' = [table EXCEPT ![<<n, tag>>] = NoTimer]
  PROVE  Match(timers', Live')
<1>1. Live' = {f \in Live : f # e /\ f.seq \notin stale} \cup Numbered(new)
  BY QueueSteps DEF Turn
<1>2. \A m \in Nodes, u \in Tags :
        timers'[<<m, u>>] = IF m = n /\ u = tag THEN NoTimer ELSE table[<<m, u>>]
  BY DEF Waking
<1>3. \A f, g \in Live : f.seq = g.seq => f = g
  BY DEF QueueInv, Live
<1>4. \A f \in Live \ {e} : f.seq \in Nat /\ f.node \in Nodes \cup {Control} /\ f.action \in Actions
                            /\ Placed(f)
  BY DEF QueueInv, Live, Events
<1>5. ASSUME NEW m \in Nodes, NEW u \in Tags, timers'[<<m, u>>] # NoTimer
      PROVE  \E f \in Live' : f.seq = timers'[<<m, u>>] /\ f.node = m /\ f.action = FireTimer(u)
  <2>1. timers'[<<m, u>>] = table[<<m, u>>] /\ ~ (m = n /\ u = tag)
    BY <1>2, <1>5
  <2>2. PICK f \in Live \ {e} : f.seq = table[<<m, u>>] /\ f.node = m /\ f.action = FireTimer(u)
    BY <2>1, <1>5 DEF Waking, Match
  <2>3. f.seq \notin stale
    <3> SUFFICES ASSUME f.seq \in stale PROVE FALSE
      OBVIOUS
    <3>1. f.seq = table[<<n, tag>>] /\ table[<<n, tag>>] # NoTimer
      OBVIOUS
    <3>2. PICK g \in Live \ {e} : g.seq = table[<<n, tag>>] /\ g.node = n /\ g.action = FireTimer(tag)
      BY <3>1 DEF Waking, Match
    <3>3. f = g
      BY <3>1, <3>2, <1>3
    <3> QED  BY <3>2, <3>3, <2>1, <2>2 DEF FireTimer
  <2>4. f \in Live'
    BY <1>1, <2>3
  <2> QED  BY <2>1, <2>2, <2>4
<1>6. ASSUME NEW f \in Live', f.action.kind = "timer"
      PROVE  timers'[<<f.node, f.action.tag>>] = f.seq
  <2>1. f \in Live /\ f # e /\ f.seq \notin stale
    BY <1>6, WhereFrom
  <2>2. table[<<f.node, f.action.tag>>] = f.seq
    BY <2>1, <1>6 DEF Waking, Match
  <2>3. f.node \in Nodes /\ f.action.tag \in Tags
    BY <2>1, <1>4, <1>6, KindsOfActions DEF Placed
  <2>4. ~ (f.node = n /\ f.action.tag = tag)
    BY <2>1, <2>2, <1>4, NodesAssumption
  <2> QED  BY <2>2, <2>3, <2>4, <1>2
<1> QED  BY <1>5, <1>6 DEF Match

\* What is pending under a name is another timer than the event dispatched.
LEMMA PendingAreOthers ==
  ASSUME QueueInv, NEW e, NEW table, NEW n \in Nodes, NEW tag \in Tags,
         Match(table, Live \ {e})
  PROVE  {table[<<n, tag>>]} \ {NoTimer} \subseteq {f.seq : f \in OtherTimers(e)}
<1> SUFFICES ASSUME table[<<n, tag>>] # NoTimer
             PROVE  \E f \in OtherTimers(e) : f.seq = table[<<n, tag>>]
  OBVIOUS
<1> PICK f \in Live \ {e} : f.seq = table[<<n, tag>>] /\ f.action = FireTimer(tag)
  BY DEF Match
<1> QED  BY DEF OtherTimers, FireTimer

-----------------------------------------------------------------------------
(* Messages and timers.                                                    *)

Ordinary(new) == \A i \in 1 .. Len(new) : new[i].action.kind \in {"message", "timer"}

\* A step that concerns messages and timers only.
LEMMA OrdinaryStep ==
  ASSUME SimInv, NEW e, NEW new, NEW stale, Turn(e, new, stale), Ordinary(new),
         e.action.kind \in {"message", "timer"},
         TimerInv', UNCHANGED <<injectorVars, faultVars>>
  PROVE  SimInv'
<1>1. QueueInv'
  BY QueueSteps DEF SimInv, Turn
<1>2. PlansItsEnds(new)
  BY DEF PlansItsEnds, Ordinary, StartKinds
<1>3. FaultsOK' /\ EndsArePlanned' /\ EveryFaultEnds' /\ PausesLast'
  BY <1>2, FaultsStay
<1>4. TickInv'
  BY TicksStay DEF Ordinary
<1> QED  BY <1>1, <1>3, <1>4 DEF SimInv

\* Orders of one message or timer, or of none.
LEMMA NoOrders == <<>> \in Seq(Orders) /\ Len(<<>>) = 0
OBVIOUS

LEMMA OneOrder ==
  ASSUME NEW x \in Orders
  PROVE  <<x>> \in Seq(Orders) /\ Len(<<x>>) = 1 /\ <<x>>[1] = x
OBVIOUS

LEMMA MessagesAndTimers ==
  ASSUME NEW time \in Nat, NEW n \in Nodes
  PROVE  /\ \A sender \in Nodes, held \in BOOLEAN :
              At(time, n, DeliverMessage(sender, held)) \in Orders
         /\ \A tag \in Tags : At(time, n, FireTimer(tag)) \in Orders
BY DEF At, DeliverMessage, FireTimer, Orders, Placed, Actions

\* What a handler may send is in order.
LEMMA SentIsInOrder ==
  ASSUME NEW e, e.time \in Nat, NEW n \in Nodes, NEW sent \in {<<>>} \cup Sent(e, n)
  PROVE  /\ sent \in Seq(Orders) /\ Len(sent) \in Nat
         /\ \A i \in 1 .. Len(sent) :
              sent[i].time >= e.time /\ sent[i].action.kind = "message"
<1>1. CASE sent = <<>>
  BY <1>1
<1>2. CASE sent \in Sent(e, n)
  <2>1. PICK flight \in Flights, to \in Nodes :
          sent = [i \in DOMAIN flight |-> At(e.time + flight[i], to, DeliverMessage(n, FALSE))]
    <3>1. PICK flight \in Flights, to \in Nodes : sent = Copies(e, n, to, flight)
      BY <1>2 DEF Sent
    <3> QED  BY <3>1 DEF Copies
  <2>2. flight \in Seq(Latencies)
    <3>1. CASE \E d \in Latencies : flight = <<d>>
      BY <3>1
    <3>2. CASE \E c, d \in Latencies : flight = <<c, d>>
      BY <3>2
    <3> QED  BY <3>1, <3>2 DEF Flights
  <2>3. /\ Len(flight) \in Nat /\ DOMAIN flight = 1 .. Len(flight)
        /\ \A i \in 1 .. Len(flight) : flight[i] \in Nat
    BY <2>2, LenProperties, ElementOfSeq, TimesAssumption
  <2> DEFINE Copy(i) == At(e.time + flight[i], to, DeliverMessage(n, FALSE))
  <2>4. \A i \in 1 .. Len(flight) :
          Copy(i) \in Orders /\ Copy(i).time >= e.time /\ Copy(i).action.kind = "message"
    <3> SUFFICES ASSUME NEW i \in 1 .. Len(flight)
                 PROVE  Copy(i) \in Orders /\ Copy(i).time >= e.time
                        /\ Copy(i).action.kind = "message"
      OBVIOUS
    <3>1. e.time + flight[i] \in Nat /\ e.time + flight[i] >= e.time
      BY <2>3
    <3>2. Copy(i) \in Orders
      BY <3>1, MessagesAndTimers
    <3> QED  BY <3>1, <3>2 DEF At, DeliverMessage
  <2>5. sent = [i \in 1 .. Len(flight) |-> Copy(i)]
    BY <2>1, <2>3
  <2> HIDE DEF Copy
  <2>6. sent \in Seq(Orders) /\ Len(sent) = Len(flight)
    BY <2>3, <2>4, <2>5
  <2> QED  BY <2>3, <2>4, <2>5, <2>6
<1> QED  BY <1>1, <1>2

\* A handler leaves everything in order.
LEMMA ReactSteps ==
  ASSUME SimInv, NEW e, e.action.kind \in {"message", "timer"},
         NEW n \in Nodes, NEW table, Waking(e, n, table), React(e, n, table),
         UNCHANGED <<injectorVars, faultVars>>
  PROVE  SimInv'
<1>1. /\ QueueInv /\ InTurn(e) /\ e.time \in Nat /\ nextSeq \in Nat
      /\ n \notin down /\ down' = down
      /\ table \in [Nodes \X Tags -> Nat \cup {NoTimer}]
      /\ Match(table, Live \ {e})
      /\ \A m \in Nodes, u \in Tags : table[<<m, u>>] # NoTimer => m \notin down
  BY DEF SimInv, QueueInv, Waking, InTurn, Live, Events, faultVars
<1>2. ASSUME NEW sent \in {<<>>} \cup Sent(e, n), Advance(e, sent, {}), timers' = table
      PROVE  SimInv'
  <2>1. /\ sent \in Seq(Orders)
        /\ \A i \in 1 .. Len(sent) :
             sent[i].time >= e.time /\ sent[i].action.kind = "message"
    BY <1>1, SentIsInOrder
  <2>2. Turn(e, sent, {}) /\ Ordinary(sent)
    BY <1>1, <1>2, <2>1 DEF Turn, Orderly, Ordinary
  <2>3. Match(table, Live')
    BY <1>1, <2>1, <2>2, TableStays
  <2>4. TimerInv'
    BY <1>1, <1>2, <2>3 DEF TimerInv
  <2> QED  BY <2>2, <2>4, OrdinaryStep
<1>3. ASSUME NEW sent \in {<<>>} \cup Sent(e, n), NEW tag \in Tags, NEW d \in Delays,
             SetTimer(e, n, sent, table, tag, d)
      PROVE  SimInv'
  <2> DEFINE timer == At(e.time + d, n, FireTimer(tag))
             new == Append(sent, timer)
             stale == {table[<<n, tag>>]} \ {NoTimer}
  <2>1. /\ sent \in Seq(Orders) /\ Len(sent) \in Nat
        /\ \A i \in 1 .. Len(sent) :
             sent[i].time >= e.time /\ sent[i].action.kind = "message"
    BY <1>1, SentIsInOrder
  <2>2. d \in Nat /\ e.time + d \in Nat /\ e.time + d >= e.time
    BY <1>1, TimesAssumption
  <2>3. /\ timer \in Orders /\ timer.time >= e.time
        /\ timer.node = n /\ timer.action = FireTimer(tag)
    <3>1. timer \in Orders
      BY <2>2, MessagesAndTimers
    <3> QED  BY <2>2, <3>1 DEF At
  <2>4. timer.action.kind = "timer"
    BY <2>3 DEF FireTimer
  <2>5. Advance(e, new, stale) /\ timers' = [table EXCEPT ![<<n, tag>>] = nextSeq + Len(sent)]
    BY <1>3 DEF SetTimer
  <2>6. stale \subseteq {f.seq : f \in OtherTimers(e)}
    BY <1>1, PendingAreOthers
  <2> HIDE DEF timer
  <2>7. /\ new \in Seq(Orders) /\ Len(new) = Len(sent) + 1
        /\ new[Len(new)] = timer
        /\ \A i \in 1 .. Len(sent) : new[i] = sent[i]
    BY <2>1, <2>3
  <2> HIDE DEF new
  <2>8. \A i \in 1 .. Len(new) : i \in 1 .. Len(sent) \/ i = Len(new)
    BY <2>1, <2>7
  <2>9. \A i \in 1 .. Len(new) :
          new[i].time >= e.time /\ new[i].action.kind \in {"message", "timer"}
    BY <2>1, <2>3, <2>4, <2>7, <2>8
  <2>10. \A i \in 1 .. Len(new) - 1 : new[i].action.kind # "timer"
    BY <2>1, <2>7
  <2> HIDE DEF stale
  <2>11. Turn(e, new, stale) /\ Ordinary(new)
    BY <1>1, <2>5, <2>6, <2>7, <2>9 DEF Turn, Orderly, Ordinary
  <2>12. timers' = [table EXCEPT ![<<n, tag>>] = nextSeq + Len(new) - 1]
    BY <1>1, <2>1, <2>5, <2>7
  <2>13. stale = {table[<<n, tag>>]} \ {NoTimer}
    BY DEF stale
  <2>14. Match(timers', Live')
    <3>1. Len(new) >= 1 /\ new[Len(new)].node = n /\ new[Len(new)].action = FireTimer(tag)
      BY <2>1, <2>3, <2>7
    <3> QED  BY <1>1, <2>10, <2>11, <2>12, <2>13, <3>1, TimerIsSet
  <2>15. /\ timers' \in [Nodes \X Tags -> Nat \cup {NoTimer}]
         /\ \A m \in Nodes, u \in Tags : timers'[<<m, u>>] # NoTimer => m \notin down'
    BY <1>1, <2>1, <2>5
  <2>16. TimerInv'
    BY <2>14, <2>15 DEF TimerInv
  <2> QED  BY <2>11, <2>16, OrdinaryStep
<1>4. ASSUME NEW sent \in {<<>>} \cup Sent(e, n), NEW tag \in Tags,
             CancelTimer(e, n, sent, table, tag)
      PROVE  SimInv'
  <2> DEFINE stale == {table[<<n, tag>>]} \ {NoTimer}
  <2>1. /\ sent \in Seq(Orders) /\ Len(sent) \in Nat
        /\ \A i \in 1 .. Len(sent) :
             sent[i].time >= e.time /\ sent[i].action.kind = "message"
    BY <1>1, SentIsInOrder
  <2>2. Advance(e, sent, stale) /\ timers' = [table EXCEPT ![<<n, tag>>] = NoTimer]
    BY <1>4 DEF CancelTimer
  <2>3. stale \subseteq {f.seq : f \in OtherTimers(e)}
    BY <1>1, PendingAreOthers
  <2>4. stale = {table[<<n, tag>>]} \ {NoTimer}
    OBVIOUS
  <2> HIDE DEF stale
  <2>5. Turn(e, sent, stale) /\ Ordinary(sent)
    BY <1>1, <2>1, <2>2, <2>3 DEF Turn, Orderly, Ordinary
  <2>6. Match(timers', Live')
    BY <1>1, <2>1, <2>2, <2>4, <2>5, TimerIsCancelled
  <2>7. /\ timers' \in [Nodes \X Tags -> Nat \cup {NoTimer}]
        /\ \A m \in Nodes, u \in Tags : timers'[<<m, u>>] # NoTimer => m \notin down'
    BY <1>1, <2>2
  <2>8. TimerInv'
    BY <2>6, <2>7 DEF TimerInv
  <2> QED  BY <2>5, <2>8, OrdinaryStep
<1> QED  BY <1>2, <1>3, <1>4 DEF React

\* An event that is no timer is not among those the timers wait for.
LEMMA MatchWithout ==
  ASSUME NEW table, NEW events, NEW e, e.action.kind # "timer", Match(table, events)
  PROVE  Match(table, events \ {e})
BY DEF Match, FireTimer

\* A timer fires when it was waited for, and the node that waits for it is up.
LEMMA TimersAreWaitedFor ==
  ASSUME SimInv, NEW e, InTurn(e), e.action.kind = "timer"
  PROVE  /\ e.node \in Nodes /\ e.action.tag \in Tags
         /\ timers[<<e.node, e.action.tag>>] = e.seq
         /\ e.seq \in Nat /\ e.seq # NoTimer
         /\ e.node \notin down
         /\ Waking(e, e.node, Fired(e))
<1>1. QueueInv /\ TimerInv /\ e \in Live
  BY DEF SimInv, InTurn
<1>2. e.action \in Actions /\ Placed(e) /\ e.seq \in Nat
  BY <1>1 DEF QueueInv, Live, Events
<1>3. e.node \in Nodes /\ e.action.tag \in Tags
  BY <1>2, KindsOfActions DEF Placed
<1>4. timers[<<e.node, e.action.tag>>] = e.seq
  BY <1>1 DEF TimerInv, Match
<1>5. e.seq # NoTimer
  BY <1>2, NodesAssumption
<1>6. e.node \notin down
  BY <1>1, <1>3, <1>4, <1>5 DEF TimerInv
<1>7. \A m \in Nodes, u \in Tags :
        Fired(e)[<<m, u>>] =
          IF m = e.node /\ u = e.action.tag THEN NoTimer ELSE timers[<<m, u>>]
  BY <1>1, <1>3 DEF TimerInv, Fired
<1>8. Fired(e) \in [Nodes \X Tags -> Nat \cup {NoTimer}]
  BY <1>1, <1>3 DEF TimerInv, Fired
<1>9. \A m \in Nodes, u \in Tags : Fired(e)[<<m, u>>] # NoTimer => m \notin down
  BY <1>1, <1>7 DEF TimerInv
<1>10. Match(Fired(e), Live \ {e})
  <2>1. ASSUME NEW m \in Nodes, NEW u \in Tags, Fired(e)[<<m, u>>] # NoTimer
        PROVE  \E f \in Live \ {e} :
                 f.seq = Fired(e)[<<m, u>>] /\ f.node = m /\ f.action = FireTimer(u)
    <3>1. ~ (m = e.node /\ u = e.action.tag) /\ Fired(e)[<<m, u>>] = timers[<<m, u>>]
      BY <1>7, <2>1
    <3>2. PICK f \in Live : f.seq = timers[<<m, u>>] /\ f.node = m /\ f.action = FireTimer(u)
      BY <1>1, <2>1, <3>1 DEF TimerInv, Match
    <3>3. f # e
      BY <3>1, <3>2 DEF FireTimer
    <3> QED  BY <3>1, <3>2, <3>3
  <2>2. ASSUME NEW f \in Live \ {e}, f.action.kind = "timer"
        PROVE  Fired(e)[<<f.node, f.action.tag>>] = f.seq
    <3>1. timers[<<f.node, f.action.tag>>] = f.seq
      BY <1>1, <2>2 DEF TimerInv, Match
    <3>2. f.node \in Nodes /\ f.action.tag \in Tags
      <4>1. f.action \in Actions /\ Placed(f)
        BY <1>1 DEF QueueInv, Live, Events
      <4> QED  BY <4>1, <2>2, KindsOfActions DEF Placed
    <3>3. f.seq # e.seq
      BY <1>1 DEF QueueInv, Live
    <3>4. ~ (f.node = e.node /\ f.action.tag = e.action.tag)
      BY <3>1, <3>3, <1>4
    <3> QED  BY <3>1, <3>2, <3>4, <1>7
  <2> QED  BY <2>1, <2>2 DEF Match
<1> QED  BY <1>3, <1>4, <1>2, <1>5, <1>6, <1>8, <1>9, <1>10 DEF Waking, InTurn

\* While a node is paused, the end of its pause is still to come.
LEMMA PausesAreNotOver ==
  ASSUME SimInv, NEW e, InTurn(e), NEW n \in DOMAIN pausedUntil
  PROVE  pausedUntil[n] \in Nat /\ pausedUntil[n] >= e.time
<1>1. QueueInv /\ EveryFaultEnds /\ FaultsOK /\ e.time \in Nat
  BY DEF SimInv, QueueInv, InTurn, Live, Events
<1>2. PICK f \in Live : f.time = pausedUntil[n]
  BY <1>1 DEF EveryFaultEnds
<1>3. f.time >= e.time
  BY <1>1, OthersAreLater
<1> QED  BY <1>1, <1>2, <1>3 DEF FaultsOK

LEMMA MessageSteps ==
  ASSUME SimInv, NEW e,
         DropAcrossCut(e) \/ DropAtDown(e) \/ HoldMessage(e) \/ OnMessage(e)
  PROVE  SimInv'
<1>1. /\ InTurn(e) /\ e.action.kind = "message"
      /\ UNCHANGED <<injectorVars, faultVars>>
  BY DEF DropAcrossCut, DropAtDown, HoldMessage, OnMessage, Drop, Dispatch, InTurn
<1>2. QueueInv /\ TimerInv /\ e \in Live
  BY <1>1 DEF SimInv, InTurn
<1>3. /\ e.node \in Nodes /\ e.action.sender \in Nodes /\ e.action.held \in BOOLEAN
      /\ e.time \in Nat
  <2>1. e.action \in Actions /\ Placed(e) /\ e.time \in Nat
    BY <1>2 DEF QueueInv, Live, Events
  <2> QED  BY <1>1, <2>1, KindsOfActions DEF Placed
<1>4. Match(timers, Live \ {e})
  BY <1>1, <1>2, MatchWithout DEF TimerInv
<1>5. ASSUME NEW new \in Seq(Orders), Advance(e, new, {}), UNCHANGED timers,
             \A i \in 1 .. Len(new) : new[i].time >= e.time /\ new[i].action.kind = "message"
      PROVE  SimInv'
  <2>1. Turn(e, new, {}) /\ Ordinary(new)
    BY <1>1, <1>5 DEF Turn, Orderly, Ordinary
  <2>2. Match(timers, Live')
    BY <1>2, <1>4, <1>5, <2>1, TableStays
  <2>3. TimerInv'
    BY <1>1, <1>2, <1>5, <2>2 DEF TimerInv, faultVars
  <2> QED  BY <1>1, <2>1, <2>3, OrdinaryStep
<1>6. CASE DropAcrossCut(e) \/ DropAtDown(e)
  <2>1. Advance(e, <<>>, {}) /\ UNCHANGED timers
    BY <1>6 DEF DropAcrossCut, DropAtDown, Drop
  <2>2. /\ <<>> \in Seq(Orders)
        /\ \A i \in 1 .. Len(<<>>) : <<>>[i].time >= e.time /\ <<>>[i].action.kind = "message"
    BY NoOrders
  <2> QED  BY <2>1, <2>2, <1>5
<1>7. CASE HoldMessage(e)
  <2> DEFINE order == At(pausedUntil[e.node], e.node, DeliverMessage(e.action.sender, TRUE))
  <2>1. Advance(e, <<order>>, {}) /\ UNCHANGED timers /\ e.node \in DOMAIN pausedUntil
    BY <1>7 DEF HoldMessage, Paused
  <2>2. pausedUntil[e.node] \in Nat /\ pausedUntil[e.node] >= e.time
    BY <2>1, <1>1, PausesAreNotOver
  <2>3. order \in Orders
    BY <2>2, <1>3, MessagesAndTimers
  <2>4. order.time >= e.time /\ order.action.kind = "message"
    BY <2>2 DEF At, DeliverMessage
  <2> HIDE DEF order
  <2>5. /\ <<order>> \in Seq(Orders)
        /\ \A i \in 1 .. Len(<<order>>) :
             <<order>>[i].time >= e.time /\ <<order>>[i].action.kind = "message"
    BY <2>3, <2>4, OneOrder
  <2> QED  BY <2>1, <2>5, <1>5
<1>8. CASE OnMessage(e)
  <2>1. React(e, e.node, timers) /\ e.node \notin down
    BY <1>8 DEF OnMessage
  <2>2. Waking(e, e.node, timers)
    BY <2>1, <1>1, <1>2, <1>3, <1>4 DEF Waking, TimerInv
  <2> QED  BY <2>1, <2>2, <1>1, <1>3, ReactSteps
<1> QED  BY <1>6, <1>7, <1>8

LEMMA TimerSteps ==
  ASSUME SimInv, NEW e, OnTimer(e) \/ HoldTimer(e)
  PROVE  SimInv'
<1>1. /\ InTurn(e) /\ e.action.kind = "timer"
      /\ UNCHANGED <<injectorVars, faultVars>>
  BY DEF OnTimer, HoldTimer, Dispatch, InTurn
<1>2. /\ e.node \in Nodes /\ e.action.tag \in Tags
      /\ timers[<<e.node, e.action.tag>>] = e.seq
      /\ e.node \notin down
      /\ Waking(e, e.node, Fired(e))
  BY <1>1, TimersAreWaitedFor
<1>3. CASE OnTimer(e)
  <2>1. React(e, e.node, Fired(e))
    BY <1>2, <1>3 DEF OnTimer
  <2> QED  BY <2>1, <1>1, <1>2, ReactSteps
<1>4. CASE HoldTimer(e)
  <2> DEFINE order == At(pausedUntil[e.node], e.node, e.action)
  <2>1. /\ Advance(e, <<order>>, {})
        /\ timers' = [timers EXCEPT ![<<e.node, e.action.tag>>] = nextSeq]
        /\ e.node \in DOMAIN pausedUntil
    BY <1>2, <1>4 DEF HoldTimer, Paused
  <2>2. pausedUntil[e.node] \in Nat /\ pausedUntil[e.node] >= e.time
    BY <2>1, <1>1, PausesAreNotOver
  <2>3. e.action = FireTimer(e.action.tag) /\ nextSeq \in Nat /\ QueueInv /\ TimerInv
    <3>1. e.action \in Actions /\ nextSeq \in Nat /\ QueueInv /\ TimerInv
      BY <1>1 DEF SimInv, QueueInv, InTurn, Live, Events
    <3> QED  BY <3>1, <1>1, KindsOfActions
  <2>4. order \in Orders
    BY <2>2, <2>3, <1>2, MessagesAndTimers
  <2>5. /\ order.time >= e.time /\ order.action.kind = "timer"
        /\ order.node = e.node /\ order.action = FireTimer(e.action.tag)
    BY <2>2, <2>3, <1>1 DEF At
  <2> HIDE DEF order
  <2>6. /\ <<order>> \in Seq(Orders) /\ Len(<<order>>) = 1 /\ <<order>>[1] = order
    BY <2>4, OneOrder
  <2>7. Turn(e, <<order>>, {}) /\ Ordinary(<<order>>)
    BY <2>1, <2>5, <2>6, <1>1 DEF Turn, Orderly, Ordinary
  <2>8. Fired(e)[<<e.node, e.action.tag>>] = NoTimer
        /\ timers' = [Fired(e) EXCEPT ![<<e.node, e.action.tag>>] = nextSeq + 1 - 1]
    <3>1. timers \in [Nodes \X Tags -> Nat \cup {NoTimer}]
      BY <2>3 DEF TimerInv
    <3>2. nextSeq + 1 - 1 = nextSeq
      BY <2>3
    <3>3. <<e.node, e.action.tag>> \in Nodes \X Tags
      BY <1>2
    <3>4. PICK x \in Nodes \X Tags : x = <<e.node, e.action.tag>>
      BY <3>3
    <3>5. Fired(e) = [timers EXCEPT ![x] = NoTimer] /\ timers' = [timers EXCEPT ![x] = nextSeq]
      BY <2>1, <3>4 DEF Fired
    <3>6. Fired(e)[x] = NoTimer
      BY <3>1, <3>5
    <3>7. timers' = [Fired(e) EXCEPT ![x] = nextSeq]
      BY <3>1, <3>5
    <3> QED  BY <3>2, <3>4, <3>6, <3>7
  <2>9. PICK new : new = <<order>>
    OBVIOUS
  <2>10. Match(timers', Live')
    <3>1. /\ Len(new) >= 1 /\ Len(new) = 1
          /\ new[Len(new)].node = e.node /\ new[Len(new)].action = FireTimer(e.action.tag)
          /\ \A i \in 1 .. Len(new) - 1 : new[i].action.kind # "timer"
      BY <2>5, <2>6, <2>9
    <3>2. timers' = [Fired(e) EXCEPT ![<<e.node, e.action.tag>>] = nextSeq + Len(new) - 1]
      BY <2>8, <3>1
    <3>3. {} = {Fired(e)[<<e.node, e.action.tag>>]} \ {NoTimer}
      BY <2>8
    <3> QED  BY <3>1, <3>2, <3>3, <2>3, <2>7, <2>9, <1>2, TimerIsSet
  <2>11. /\ timers' \in [Nodes \X Tags -> Nat \cup {NoTimer}]
         /\ \A m \in Nodes, u \in Tags : timers'[<<m, u>>] # NoTimer => m \notin down'
    BY <2>1, <2>3, <1>1, <1>2 DEF TimerInv, faultVars
  <2>12. TimerInv'
    BY <2>10, <2>11 DEF TimerInv
  <2> QED  BY <2>7, <2>12, <1>1, OrdinaryStep
<1> QED  BY <1>3, <1>4

-----------------------------------------------------------------------------
(* Faults that begin and end.                                              *)

\* What a step that begins or ends a fault keeps, whatever fault it is.  A crash
\* does more: see CrashStep.
LEMMA FaultTurn ==
  ASSUME SimInv, NEW e, InTurn(e), e.action.kind # "timer", Advance(e, <<>>, {}),
         down' \subseteq down, UNCHANGED <<timers, injectorVars>>
  PROVE  /\ QueueInv' /\ EndsArePlanned' /\ TimerInv' /\ TickInv'
         /\ now' = e.time /\ now' \in Nat /\ now \in Nat /\ now' >= now
         /\ \A f \in Live : f # e /\ f.action.kind # "timer" => f \in Live'
<1>1. QueueInv /\ EndsArePlanned /\ TimerInv
  BY DEF SimInv
<1>2. PICK new : new = <<>>
  OBVIOUS
<1>3. new \in Seq(Orders) /\ Len(new) = 0 /\ \A i \in 1 .. Len(new) : FALSE
  BY <1>2
<1>4. Turn(e, new, {})
  BY <1>2, <1>3 DEF Turn, Orderly
<1>5. PlansItsEnds(new)
  BY <1>3 DEF PlansItsEnds
<1>6. /\ QueueInv' /\ EndsArePlanned' /\ TickInv'
      /\ now' = e.time /\ now' \in Nat /\ now' >= now
  BY <1>1, <1>3, <1>4, <1>5, QueueSteps, PlansHold, TicksStay DEF Turn
<1>7. Match(timers, Live \ {e})
  BY <1>1, MatchWithout DEF TimerInv
<1>8. Match(timers, Live')
  BY <1>1, <1>3, <1>4, <1>7, TableStays
<1>9. TimerInv'
  BY <1>1, <1>8 DEF TimerInv
<1>10. \A f \in Live : f # e /\ f.action.kind # "timer" => f \in Live'
  BY <1>1, <1>4, OthersStay
<1> QED  BY <1>1, <1>6, <1>9, <1>10 DEF QueueInv

\* The end of a fault that is dispatched, in the queue.
LEMMA PlannedEnd ==
  ASSUME SimInv, NEW e, InTurn(e), e.action.kind \in StartKinds
  PROVE  \E f \in Live : f # e /\ Ends(f, e) /\ f.action.kind # "timer"
<1>1. EndsArePlanned /\ e \in Live /\ e \in Events
  BY DEF SimInv, InTurn, Live, QueueInv
<1>2. PICK f \in Live : Ends(f, e) /\ Before(e, f)
  BY <1>1 DEF EndsArePlanned, StartKinds
<1>3. f # e
  BY <1>1, <1>2 DEF Before, Events
<1> QED  BY <1>2, <1>3 DEF Ends, StartKinds, RestartNode, ResumeNode, HealPartition

LEMMA CutHealSteps ==
  ASSUME SimInv, NEW e, Cut(e) \/ Heal(e)
  PROVE  SimInv'
<1>1. /\ InTurn(e) /\ e.action.kind \in {"cut", "heal"} /\ Advance(e, <<>>, {})
      /\ UNCHANGED <<timers, injectorVars, down, pausedUntil, freezes>>
      /\ side' = IF e.action.kind = "cut" THEN e.action.group ELSE {}
  BY DEF Cut, Heal, Dispatch, InTurn
<1>2. FaultsOK /\ EveryFaultEnds /\ PausesLast /\ QueueInv
  BY DEF SimInv
<1>3. /\ QueueInv' /\ EndsArePlanned' /\ TimerInv' /\ TickInv'
      /\ now' = e.time /\ now' \in Nat /\ now \in Nat /\ now' >= now
      /\ \A f \in Live : f # e /\ f.action.kind # "timer" => f \in Live'
  BY <1>1, FaultTurn
<1>4. FaultsOK'
  <2>1. e.action \in Actions /\ Placed(e)
    BY <1>1, <1>2 DEF QueueInv, InTurn, Live, Events
  <2>2. side' \in (SUBSET Replicas) \ {Replicas}
    BY <2>1, <1>1, KindsOfActions, NodesAssumption DEF Placed
  <2> QED  BY <2>2, <1>1, <1>2 DEF FaultsOK
<1>5. EveryFaultEnds'
  <2>1. \A n \in down : \E f \in Live' : f.node = n /\ f.action = RestartNode
    BY <1>1, <1>2, <1>3 DEF EveryFaultEnds, RestartNode
  <2>2. \A n \in DOMAIN pausedUntil :
          \E f \in Live' : f.node = n /\ f.action = ResumeNode /\ f.time = pausedUntil[n]
    BY <1>1, <1>2, <1>3 DEF EveryFaultEnds, ResumeNode
  <2>3. e.action.kind = "cut" => \E f \in Live' : f.action = HealPartition
    BY <1>1, <1>3, PlannedEnd DEF Ends, StartKinds
  <2> QED  BY <2>1, <2>2, <2>3, <1>1 DEF EveryFaultEnds, RestartNode, ResumeNode, HealPartition
<1>6. PausesLast'
  <2>1. \A f \in freezes : f.until \in Nat
    BY <1>2 DEF FaultsOK
  <2> QED  BY <2>1, <1>1, <1>2, <1>3 DEF PausesLast, Paused
<1> QED  BY <1>3, <1>4, <1>5, <1>6 DEF SimInv

LEMMA RestartStep ==
  ASSUME SimInv, NEW e, Restart(e)
  PROVE  SimInv'
<1>1. /\ InTurn(e) /\ e.action.kind = "restart" /\ Advance(e, <<>>, {})
      /\ UNCHANGED <<timers, injectorVars, pausedUntil, freezes, side>>
      /\ down' = down \ {e.node}
  BY DEF Restart, Dispatch, InTurn
<1>2. FaultsOK /\ EveryFaultEnds /\ PausesLast
  BY DEF SimInv
<1>3. /\ QueueInv' /\ EndsArePlanned' /\ TimerInv' /\ TickInv'
      /\ now' = e.time /\ now' \in Nat /\ now \in Nat /\ now' >= now
      /\ \A f \in Live : f # e /\ f.action.kind # "timer" => f \in Live'
  BY <1>1, FaultTurn
<1>4. FaultsOK'
  BY <1>1, <1>2 DEF FaultsOK
<1>5. EveryFaultEnds'
  <2>1. \A n \in down' : \E f \in Live' : f.node = n /\ f.action = RestartNode
    BY <1>1, <1>2, <1>3 DEF EveryFaultEnds, RestartNode
  <2>2. \A n \in DOMAIN pausedUntil :
          \E f \in Live' : f.node = n /\ f.action = ResumeNode /\ f.time = pausedUntil[n]
    BY <1>1, <1>2, <1>3 DEF EveryFaultEnds, ResumeNode
  <2>3. side # {} => \E f \in Live' : f.action = HealPartition
    BY <1>1, <1>2, <1>3 DEF EveryFaultEnds, HealPartition
  <2> QED  BY <2>1, <2>2, <2>3, <1>1 DEF EveryFaultEnds, RestartNode, ResumeNode, HealPartition
<1>6. PausesLast'
  <2>1. \A f \in freezes : f.until \in Nat
    BY <1>2 DEF FaultsOK
  <2> QED  BY <2>1, <1>1, <1>2, <1>3 DEF PausesLast, Paused
<1> QED  BY <1>3, <1>4, <1>5, <1>6 DEF SimInv

LEMMA PauseStep ==
  ASSUME SimInv, NEW e, Pause(e)
  PROVE  SimInv'
<1>1. /\ InTurn(e) /\ e.action.kind = "pause" /\ Advance(e, <<>>, {}) /\ e.node \notin down
      /\ UNCHANGED <<timers, injectorVars, down, side>>
      /\ freezes' = freezes \cup {[node |-> e.node, until |-> e.action.until]}
  BY DEF Pause, Dispatch, InTurn
<1>2. FaultsOK /\ EveryFaultEnds /\ PausesLast
  BY DEF SimInv
<1>3. /\ QueueInv' /\ EndsArePlanned' /\ TimerInv' /\ TickInv'
      /\ now' = e.time /\ now' \in Nat /\ now \in Nat /\ now' >= now
      /\ \A f \in Live : f # e /\ f.action.kind # "timer" => f \in Live'
  BY <1>1, FaultTurn
<1>4. e.node \in Replicas /\ e.action.until \in Nat
  <2>1. e.action \in Actions /\ Placed(e)
    BY <1>1 DEF SimInv, QueueInv, InTurn, Live, Events
  <2> QED  BY <2>1, <1>1, KindsOfActions DEF Placed
<1>5. /\ DOMAIN pausedUntil' = DOMAIN pausedUntil \cup {e.node}
      /\ \A n \in DOMAIN pausedUntil : n # e.node => pausedUntil'[n] = pausedUntil[n]
      /\ \/ pausedUntil'[e.node] = e.action.until
         \/ e.node \in DOMAIN pausedUntil /\ pausedUntil'[e.node] = pausedUntil[e.node]
      /\ pausedUntil'[e.node] >= e.action.until
      /\ e.node \in DOMAIN pausedUntil => pausedUntil'[e.node] >= pausedUntil[e.node]
  <2>1. pausedUntil' = [n \in DOMAIN pausedUntil \cup {e.node} |->
                          IF n # e.node THEN pausedUntil[n]
                          ELSE IF n \in DOMAIN pausedUntil /\ pausedUntil[n] > e.action.until
                          THEN pausedUntil[n] ELSE e.action.until]
    BY DEF Pause, Paused
  <2>2. \A n \in DOMAIN pausedUntil : pausedUntil[n] \in Nat
    BY <1>2 DEF FaultsOK
  <2> QED  BY <2>1, <2>2, <1>4
<1>6. FaultsOK'
  <2>1. DOMAIN pausedUntil' \subseteq Replicas \ down'
    BY <1>1, <1>2, <1>4, <1>5 DEF FaultsOK
  <2>2. \A n \in DOMAIN pausedUntil' : pausedUntil'[n] \in Nat
    BY <1>2, <1>4, <1>5 DEF FaultsOK
  <2> QED  BY <2>1, <2>2, <1>1, <1>2, <1>4 DEF FaultsOK
<1>7. EveryFaultEnds'
  <2>1. \A n \in down : \E f \in Live' : f.node = n /\ f.action = RestartNode
    BY <1>1, <1>2, <1>3 DEF EveryFaultEnds, RestartNode
  <2>2. \A n \in DOMAIN pausedUntil :
          \E f \in Live' : f.node = n /\ f.action = ResumeNode /\ f.time = pausedUntil[n]
    BY <1>1, <1>2, <1>3 DEF EveryFaultEnds, ResumeNode
  <2>3. \E f \in Live' : f.node = e.node /\ f.action = ResumeNode /\ f.time = e.action.until
    BY <1>1, <1>3, PlannedEnd DEF Ends, StartKinds
  <2>4. \A n \in DOMAIN pausedUntil' :
          \E f \in Live' : f.node = n /\ f.action = ResumeNode /\ f.time = pausedUntil'[n]
    BY <2>2, <2>3, <1>5
  <2>5. side # {} => \E f \in Live' : f.action = HealPartition
    BY <1>1, <1>2, <1>3 DEF EveryFaultEnds, HealPartition
  <2> QED  BY <2>1, <2>4, <2>5, <1>1 DEF EveryFaultEnds, RestartNode, ResumeNode, HealPartition
<1>8. PausesLast'
  <2> SUFFICES ASSUME NEW f \in freezes', now' < f.until
               PROVE  f.node \in DOMAIN pausedUntil' /\ pausedUntil'[f.node] >= f.until
    BY DEF PausesLast, Paused
  <2>1. CASE f \in freezes
    <3>1. f.until \in Nat
      BY <2>1, <1>2 DEF FaultsOK
    <3>2. f.node \in DOMAIN pausedUntil /\ pausedUntil[f.node] >= f.until
      BY <2>1, <3>1, <1>2, <1>3 DEF PausesLast, Paused
    <3>3. pausedUntil[f.node] \in Nat /\ pausedUntil'[f.node] \in Nat
      BY <3>2, <1>2, <1>4, <1>5 DEF FaultsOK
    <3> QED  BY <3>1, <3>2, <3>3, <1>5
  <2>2. CASE f = [node |-> e.node, until |-> e.action.until]
    BY <2>2, <1>5
  <2> QED  BY <2>1, <2>2, <1>1
<1> QED  BY <1>3, <1>6, <1>7, <1>8 DEF SimInv

LEMMA ResumeStep ==
  ASSUME SimInv, NEW e, Resume(e)
  PROVE  SimInv'
<1>1. /\ InTurn(e) /\ e.action.kind = "resume" /\ Advance(e, <<>>, {})
      /\ e.node \in DOMAIN pausedUntil /\ pausedUntil[e.node] <= e.time
      /\ UNCHANGED <<timers, injectorVars, down, side, freezes>>
      /\ DOMAIN pausedUntil' = DOMAIN pausedUntil \ {e.node}
      /\ \A n \in DOMAIN pausedUntil' : pausedUntil'[n] = pausedUntil[n]
  BY DEF Resume, Dispatch, InTurn, PauseIsOver, Paused, Unpaused
<1>2. FaultsOK /\ EveryFaultEnds /\ PausesLast
  BY DEF SimInv
<1>3. /\ QueueInv' /\ EndsArePlanned' /\ TimerInv' /\ TickInv'
      /\ now' = e.time /\ now' \in Nat /\ now \in Nat /\ now' >= now
      /\ \A f \in Live : f # e /\ f.action.kind # "timer" => f \in Live'
  BY <1>1, FaultTurn
<1>4. FaultsOK'
  BY <1>1, <1>2 DEF FaultsOK
<1>5. EveryFaultEnds'
  <2>1. \A n \in down : \E f \in Live' : f.node = n /\ f.action = RestartNode
    BY <1>1, <1>2, <1>3 DEF EveryFaultEnds, RestartNode
  <2>2. \A n \in DOMAIN pausedUntil' :
          \E f \in Live' : f.node = n /\ f.action = ResumeNode /\ f.time = pausedUntil[n]
    <3> SUFFICES ASSUME NEW n \in DOMAIN pausedUntil'
                 PROVE  \E f \in Live' : f.node = n /\ f.action = ResumeNode
                                         /\ f.time = pausedUntil[n]
      OBVIOUS
    <3>1. n \in DOMAIN pausedUntil /\ n # e.node
      BY <1>1
    <3>2. PICK f \in Live : f.node = n /\ f.action = ResumeNode /\ f.time = pausedUntil[n]
      BY <3>1, <1>2 DEF EveryFaultEnds
    <3>3. f \in Live'
      BY <3>1, <3>2, <1>3 DEF ResumeNode
    <3> QED  BY <3>2, <3>3
  <2>3. side # {} => \E f \in Live' : f.action = HealPartition
    BY <1>1, <1>2, <1>3 DEF EveryFaultEnds, HealPartition
  <2> QED  BY <2>1, <2>2, <2>3, <1>1 DEF EveryFaultEnds, RestartNode, ResumeNode, HealPartition
<1>6. PausesLast'
  <2> SUFFICES ASSUME NEW f \in freezes, now' < f.until
               PROVE  f.node \in DOMAIN pausedUntil' /\ pausedUntil'[f.node] >= f.until
    BY <1>1 DEF PausesLast, Paused
  <2>1. f.until \in Nat
    BY <1>2 DEF FaultsOK
  <2>2. f.node \in DOMAIN pausedUntil /\ pausedUntil[f.node] >= f.until
    BY <2>1, <1>2, <1>3 DEF PausesLast, Paused
  <2>3. pausedUntil[f.node] \in Nat
    BY <2>2, <1>2 DEF FaultsOK
  <2>4. f.node # e.node
    BY <2>1, <2>2, <2>3, <1>1, <1>3
  <2> QED  BY <2>2, <2>4, <1>1
<1> QED  BY <1>3, <1>4, <1>5, <1>6 DEF SimInv

LEMMA IgnoreStep ==
  ASSUME SimInv, NEW e, IgnoreFault(e)
  PROVE  SimInv'
<1>1. /\ InTurn(e) /\ Advance(e, <<>>, {})
      /\ e.action.kind \in {"crash", "pause", "restart", "resume"}
      /\ e.action.kind = "restart" => e.node \notin down
      /\ e.action.kind = "resume" /\ e.node \in DOMAIN pausedUntil =>
           ~ (pausedUntil[e.node] <= e.time)
      /\ UNCHANGED <<timers, injectorVars, down, pausedUntil, side, freezes>>
  BY DEF IgnoreFault, Dispatch, InTurn, PauseIsOver, Paused, faultVars
<1>2. FaultsOK /\ EveryFaultEnds /\ PausesLast /\ e.time \in Nat
  BY <1>1 DEF SimInv, QueueInv, InTurn, Live, Events
<1>3. /\ QueueInv' /\ EndsArePlanned' /\ TimerInv' /\ TickInv'
      /\ now' = e.time /\ now' \in Nat /\ now \in Nat /\ now' >= now
      /\ \A f \in Live : f # e /\ f.action.kind # "timer" => f \in Live'
  BY <1>1, FaultTurn
<1>4. FaultsOK'
  BY <1>1, <1>2 DEF FaultsOK
<1>5. EveryFaultEnds'
  <2>1. \A n \in down : \E f \in Live' : f.node = n /\ f.action = RestartNode
    BY <1>1, <1>2, <1>3 DEF EveryFaultEnds, RestartNode
  <2>2. ASSUME NEW n \in DOMAIN pausedUntil
        PROVE  \E f \in Live' : f.node = n /\ f.action = ResumeNode /\ f.time = pausedUntil[n]
    <3>1. PICK f \in Live : f.node = n /\ f.action = ResumeNode /\ f.time = pausedUntil[n]
      BY <1>2 DEF EveryFaultEnds
    <3>2. f # e
      BY <3>1, <1>1, <1>2 DEF ResumeNode
    <3>3. f \in Live'
      BY <3>1, <3>2, <1>3 DEF ResumeNode
    <3> QED  BY <3>1, <3>3
  <2>3. side # {} => \E f \in Live' : f.action = HealPartition
    BY <1>1, <1>2, <1>3 DEF EveryFaultEnds, HealPartition
  <2> QED  BY <2>1, <2>2, <2>3, <1>1 DEF EveryFaultEnds, RestartNode, ResumeNode, HealPartition
<1>6. PausesLast'
  <2>1. \A f \in freezes : f.until \in Nat
    BY <1>2 DEF FaultsOK
  <2> QED  BY <2>1, <1>1, <1>2, <1>3 DEF PausesLast, Paused
<1> QED  BY <1>3, <1>4, <1>5, <1>6 DEF SimInv

\* A crash cancels the timers of its node, and its pause.
LEMMA CrashStep ==
  ASSUME SimInv, NEW e, Crash(e)
  PROVE  SimInv'
<1> DEFINE stale == PendingOf(timers, e.node)
<1>1. /\ InTurn(e) /\ e.action.kind = "crash" /\ Advance(e, <<>>, stale)
      /\ timers' = [x \in Nodes \X Tags |-> IF x[1] = e.node THEN NoTimer ELSE timers[x]]
      /\ down' = down \cup {e.node}
      /\ DOMAIN pausedUntil' = DOMAIN pausedUntil \ {e.node}
      /\ \A n \in DOMAIN pausedUntil' : pausedUntil'[n] = pausedUntil[n]
      /\ freezes' = {f \in freezes : f.node # e.node}
      /\ UNCHANGED <<injectorVars, side>>
  BY DEF Crash, Dispatch, InTurn, Unpaused
<1>2. /\ FaultsOK /\ EveryFaultEnds /\ EndsArePlanned /\ PausesLast
      /\ QueueInv /\ TimerInv /\ e \in Live
  BY <1>1 DEF SimInv, InTurn
<1>3. e.node \in Replicas /\ e.node \in Nodes
  BY <1>1, <1>2 DEF QueueInv, Live, Placed, Nodes
<1>4. Match(timers, Live \ {e})
  BY <1>1, <1>2, MatchWithout DEF TimerInv
<1>5. stale \subseteq {f.seq : f \in OtherTimers(e)}
  <2> SUFFICES ASSUME NEW tag \in Tags, timers[<<e.node, tag>>] # NoTimer
               PROVE  timers[<<e.node, tag>>] \in {f.seq : f \in OtherTimers(e)}
    BY DEF PendingOf
  <2> QED  BY <1>2, <1>3, <1>4, PendingAreOthers
<1>6. \A f \in Live : f.seq \in stale => \E tag \in Tags : f.seq = timers[<<e.node, tag>>]
  BY DEF PendingOf
<1>7. \A tag \in Tags : timers[<<e.node, tag>>] # NoTimer => timers[<<e.node, tag>>] \in stale
  BY DEF PendingOf
<1> HIDE DEF stale
<1>8. PICK new : new = <<>>
  OBVIOUS
<1>9. new \in Seq(Orders) /\ Len(new) = 0 /\ \A i \in 1 .. Len(new) : FALSE
  BY <1>8
<1>10. Turn(e, new, stale)
  BY <1>1, <1>5, <1>8, <1>9 DEF Turn, Orderly
<1>11. PlansItsEnds(new)
  BY <1>9 DEF PlansItsEnds
<1>12. /\ QueueInv' /\ EndsArePlanned' /\ TickInv'
       /\ now' = e.time /\ now' \in Nat /\ now \in Nat /\ now' >= now
  BY <1>1, <1>2, <1>9, <1>10, <1>11, QueueSteps, PlansHold, TicksStay DEF Turn, QueueInv
<1>13. \A f \in Live : f # e /\ f.action.kind # "timer" => f \in Live'
  BY <1>2, <1>10, OthersStay
<1>14. \A f \in Live' : f \in Live /\ f # e /\ f.seq \notin stale
  BY <1>2, <1>9, <1>10, WhereFrom
<1>15. \A f \in Live : f # e /\ f.seq \notin stale => f \in Live'
  BY <1>2, <1>10, QueueSteps DEF Turn
<1>16. TimerInv'
  <2>1. \A m \in Nodes, u \in Tags :
          timers'[<<m, u>>] = IF m = e.node THEN NoTimer ELSE timers[<<m, u>>]
    BY <1>1
  <2>2. timers' \in [Nodes \X Tags -> Nat \cup {NoTimer}]
    BY <1>1, <1>2 DEF TimerInv
  <2>3. \A m \in Nodes, u \in Tags : timers'[<<m, u>>] # NoTimer => m \notin down'
    BY <2>1, <1>1, <1>2 DEF TimerInv
  <2>4. ASSUME NEW m \in Nodes, NEW u \in Tags, timers'[<<m, u>>] # NoTimer
        PROVE  \E f \in Live' :
                 f.seq = timers'[<<m, u>>] /\ f.node = m /\ f.action = FireTimer(u)
    <3>1. m # e.node /\ timers'[<<m, u>>] = timers[<<m, u>>]
      BY <2>1, <2>4
    <3>2. PICK f \in Live \ {e} : f.seq = timers[<<m, u>>] /\ f.node = m /\ f.action = FireTimer(u)
      BY <3>1, <2>4, <1>4 DEF Match
    <3>3. f.seq \notin stale
      <4> SUFFICES ASSUME f.seq \in stale PROVE FALSE
        OBVIOUS
      <4>1. PICK tag \in Tags : f.seq = timers[<<e.node, tag>>]
        BY <1>6
      <4>2. timers[<<e.node, tag>>] # NoTimer
        BY <4>1, <3>1, <3>2, <2>4
      <4>3. PICK g \in Live \ {e} : g.seq = timers[<<e.node, tag>>] /\ g.node = e.node
        BY <4>2, <1>3, <1>4 DEF Match
      <4>4. f = g
        BY <4>1, <4>3, <1>2 DEF QueueInv, Live
      <4> QED  BY <4>3, <4>4, <3>1, <3>2
    <3> QED  BY <3>1, <3>2, <3>3, <1>15
  <2>5. ASSUME NEW f \in Live', f.action.kind = "timer"
        PROVE  timers'[<<f.node, f.action.tag>>] = f.seq
    <3>1. f \in Live /\ f # e /\ f.seq \notin stale
      BY <1>14
    <3>2. timers[<<f.node, f.action.tag>>] = f.seq
      BY <3>1, <2>5, <1>4 DEF Match
    <3>3. f.node \in Nodes /\ f.action.tag \in Tags /\ f.seq # NoTimer
      <4>1. f.action \in Actions /\ Placed(f) /\ f.seq \in Nat
        BY <3>1, <1>2 DEF QueueInv, Live, Events
      <4> QED  BY <4>1, <2>5, KindsOfActions, NodesAssumption DEF Placed
    <3>4. f.node # e.node
      BY <3>1, <3>2, <3>3, <1>7
    <3> QED  BY <3>2, <3>3, <3>4, <2>1
  <2>6. Match(timers', Live')
    BY <2>4, <2>5 DEF Match
  <2> QED  BY <2>2, <2>3, <2>6 DEF TimerInv
<1>17. FaultsOK'
  BY <1>1, <1>2, <1>3 DEF FaultsOK
<1>18. EveryFaultEnds'
  <2>1. \A n \in down : \E f \in Live' : f.node = n /\ f.action = RestartNode
    BY <1>1, <1>2, <1>13 DEF EveryFaultEnds, RestartNode
  <2>2. \A n \in DOMAIN pausedUntil :
          \E f \in Live' : f.node = n /\ f.action = ResumeNode /\ f.time = pausedUntil[n]
    BY <1>1, <1>2, <1>13 DEF EveryFaultEnds, ResumeNode
  <2>3. side # {} => \E f \in Live' : f.action = HealPartition
    BY <1>1, <1>2, <1>13 DEF EveryFaultEnds, HealPartition
  <2>4. \E f \in Live' : f.node = e.node /\ f.action = RestartNode
    BY <1>1, <1>13, PlannedEnd DEF Ends, StartKinds
  <2> QED  BY <2>1, <2>2, <2>3, <2>4, <1>1
           DEF EveryFaultEnds, RestartNode, ResumeNode, HealPartition
<1>19. PausesLast'
  <2>1. \A f \in freezes : f.until \in Nat
    BY <1>2 DEF FaultsOK
  <2> QED  BY <2>1, <1>1, <1>2, <1>12 DEF PausesLast, Paused
<1> QED  BY <1>12, <1>16, <1>17, <1>18, <1>19 DEF SimInv

-----------------------------------------------------------------------------
(* The injector.                                                           *)

\* A fault is a start and an end, and in order.
LEMMA FaultsAreInOrder ==
  ASSUME NEW f \in Decided
  PROVE  /\ Scheduled(f)[1] \in Orders /\ Scheduled(f)[2] \in Orders
         /\ Scheduled(f)[1].time = f.at /\ Scheduled(f)[2].time >= f.at
         /\ Scheduled(f)[1].action.kind \in StartKinds
         /\ Scheduled(f)[2].action.kind \in {"restart", "resume", "heal"}
         /\ Ends(Scheduled(f)[2], Scheduled(f)[1])
<1> DEFINE over == f.at + f.duration
           victim == CHOOSE n \in f.targets : TRUE
<1>1. /\ f.at \in Nat /\ f.duration \in Nat /\ over \in Nat /\ over >= f.at
      /\ f.kind \in {"partition", "crash", "pause"}
      /\ f.targets \subseteq Replicas /\ f.targets # {}
      /\ f.kind = "partition" => f.targets # Replicas
  BY DEF Decided, Applies
<1>2. victim \in Replicas
  BY <1>1
<1> HIDE DEF over, victim
<1>3. CASE f.kind = "partition"
  <2>1. Scheduled(f) = <<At(f.at, Control, StartPartition(f.targets)), At(over, Control, HealPartition)>>
    BY <1>3 DEF Scheduled, over
  <2>2. PICK x, y : x = At(f.at, Control, StartPartition(f.targets)) /\ y = At(over, Control, HealPartition)
    OBVIOUS
  <2>3. Scheduled(f)[1] = x /\ Scheduled(f)[2] = y
    BY <2>1, <2>2
  <2>4. x.time = f.at /\ x.node = Control /\ x.action = StartPartition(f.targets)
        /\ y.time = over /\ y.node = Control /\ y.action = HealPartition
    BY <2>2 DEF At
  <2>5. x \in Orders /\ y \in Orders
    BY <2>2, <1>1, <1>3 DEF At, StartPartition, HealPartition, Orders, Placed, Actions
  <2> QED  BY <2>3, <2>4, <2>5, <1>1 DEF StartPartition, HealPartition, Ends, StartKinds
<1>4. CASE f.kind = "crash"
  <2>1. Scheduled(f) = <<At(f.at, victim, CrashNode(over)), At(over, victim, RestartNode)>>
    BY <1>4 DEF Scheduled, over, victim
  <2>2. PICK x, y : x = At(f.at, victim, CrashNode(over)) /\ y = At(over, victim, RestartNode)
    OBVIOUS
  <2>3. Scheduled(f)[1] = x /\ Scheduled(f)[2] = y
    BY <2>1, <2>2
  <2>4. x.time = f.at /\ x.node = victim /\ x.action = CrashNode(over)
        /\ y.time = over /\ y.node = victim /\ y.action = RestartNode
    BY <2>2 DEF At
  <2>5. x \in Orders /\ y \in Orders
    BY <2>2, <1>1, <1>2 DEF At, CrashNode, RestartNode, Orders, Placed, Actions, Nodes
  <2> QED  BY <2>3, <2>4, <2>5, <1>1 DEF CrashNode, RestartNode, Ends, StartKinds
<1>5. CASE f.kind = "pause"
  <2>1. Scheduled(f) = <<At(f.at, victim, PauseNode(over)), At(over, victim, ResumeNode)>>
    BY <1>5 DEF Scheduled, over, victim
  <2>2. PICK x, y : x = At(f.at, victim, PauseNode(over)) /\ y = At(over, victim, ResumeNode)
    OBVIOUS
  <2>3. Scheduled(f)[1] = x /\ Scheduled(f)[2] = y
    BY <2>1, <2>2
  <2>4. x.time = f.at /\ x.node = victim /\ x.action = PauseNode(over)
        /\ y.time = over /\ y.node = victim /\ y.action = ResumeNode
    BY <2>2 DEF At
  <2>5. x \in Orders /\ y \in Orders
    BY <2>2, <1>1, <1>2 DEF At, PauseNode, ResumeNode, Orders, Placed, Actions, Nodes
  <2> QED  BY <2>3, <2>4, <2>5, <1>1 DEF PauseNode, ResumeNode, Ends, StartKinds
<1> QED  BY <1>1, <1>3, <1>4, <1>5

\* Half of a number, as the orders of a tick count them.
LEMMA Halves ==
  ASSUME NEW n \in Nat, NEW i \in 1 .. 2 * n
  PROVE  /\ (i + 1) \div 2 \in 1 .. n
         /\ \/ 2 - (i % 2) = 2
            \/ /\ 2 - (i % 2) = 1 /\ i + 1 \in 1 .. 2 * n
               /\ (i + 1 + 1) \div 2 = (i + 1) \div 2 /\ 2 - ((i + 1) % 2) = 2
OBVIOUS

\* A tick that schedules these faults.
LEMMA InjectSteps ==
  ASSUME SimInv, NEW e, InTurn(e), e.action.kind = "tick",
         NEW found \in Seq(Decided), \A i \in 1 .. Len(found) : found[i].at = e.time,
         Inject(e, found),
         decisions' = decisions \/ decisions' = decisions \o found,
         UNCHANGED <<schedule, timers, faultVars>>
  PROVE  SimInv'
<1>1. /\ QueueInv /\ TimerInv /\ TickInv /\ e \in Live /\ e.time \in Nat /\ Placed(e)
      /\ TickMs \in Nat \ {0} /\ e.action = FaultTick
  <2>1. QueueInv /\ TimerInv /\ TickInv /\ e \in Live /\ e.time \in Nat /\ Placed(e)
        /\ e.action \in Actions
    BY DEF SimInv, InTurn, QueueInv, Live, Events
  <2> QED  BY <2>1, KindsOfActions, TimesAssumption
<1>2. /\ Len(found) \in Nat
      /\ \A k \in 1 .. Len(found) : found[k] \in Decided /\ found[k].at = e.time
  BY LenProperties, ElementOfSeq
<1> DEFINE Half(i) == Scheduled(found[(i + 1) \div 2])[2 - (i % 2)]
           halves == [i \in 1 .. 2 * Len(found) |-> Half(i)]
           tick == At(e.time + TickMs, Control, FaultTick)
           new == halves \o <<tick>>
<1>3. \A i \in 1 .. 2 * Len(found) :
        /\ Half(i) \in Orders /\ Half(i).time >= e.time
        /\ Half(i).action.kind \in {"crash", "pause", "cut", "restart", "resume", "heal"}
        /\ Half(i).action.kind \in StartKinds =>
             /\ i + 1 \in 1 .. 2 * Len(found)
             /\ Ends(Half(i + 1), Half(i)) /\ Half(i).time <= Half(i + 1).time
  <2> SUFFICES ASSUME NEW i \in 1 .. 2 * Len(found)
               PROVE  /\ Half(i) \in Orders /\ Half(i).time >= e.time
                      /\ Half(i).action.kind \in {"crash", "pause", "cut", "restart", "resume", "heal"}
                      /\ Half(i).action.kind \in StartKinds =>
                           /\ i + 1 \in 1 .. 2 * Len(found)
                           /\ Ends(Half(i + 1), Half(i)) /\ Half(i).time <= Half(i + 1).time
    OBVIOUS
  <2> DEFINE fault == found[(i + 1) \div 2]
  <2>1. fault \in Decided /\ fault.at = e.time
    BY <1>2, Halves
  <2>2. /\ Scheduled(fault)[1] \in Orders /\ Scheduled(fault)[2] \in Orders
        /\ Scheduled(fault)[1].time = e.time /\ Scheduled(fault)[2].time >= e.time
        /\ Scheduled(fault)[1].action.kind \in StartKinds
        /\ Scheduled(fault)[2].action.kind \in {"restart", "resume", "heal"}
        /\ Ends(Scheduled(fault)[2], Scheduled(fault)[1])
    BY <2>1, FaultsAreInOrder
  <2>3. CASE 2 - (i % 2) = 2
    <3>1. Half(i) = Scheduled(fault)[2]
      BY <2>3
    <3> HIDE DEF Half, fault
    <3> QED  BY <3>1, <2>2 DEF StartKinds
  <2>4. CASE /\ 2 - (i % 2) = 1 /\ i + 1 \in 1 .. 2 * Len(found)
             /\ (i + 1 + 1) \div 2 = (i + 1) \div 2 /\ 2 - ((i + 1) % 2) = 2
    <3>1. Half(i) = Scheduled(fault)[1] /\ Half(i + 1) = Scheduled(fault)[2]
      BY <2>4
    <3>2. e.time <= Scheduled(fault)[2].time
      BY <2>2, <1>1 DEF Orders
    <3> HIDE DEF Half, fault
    <3> QED  BY <3>1, <3>2, <2>2, <2>4, <1>1 DEF StartKinds
  <2> QED  BY <2>3, <2>4, <1>2, Halves
<1>4. /\ tick \in Orders /\ tick.time = e.time + TickMs /\ tick.time >= e.time
      /\ tick.action = FaultTick /\ tick.action.kind = "tick"
  <2>1. e.time + TickMs \in Nat /\ e.time + TickMs >= e.time
    BY <1>1
  <2> QED  BY <2>1 DEF At, FaultTick, Orders, Placed, Actions
<1>5. Advance(e, new, {})
  BY DEF Inject
<1> HIDE DEF Half, tick
<1>6. halves \in Seq(Orders) /\ Len(halves) = 2 * Len(found)
      /\ \A i \in 1 .. 2 * Len(found) : halves[i] = Half(i)
  BY <1>2, <1>3
<1> HIDE DEF halves
<1>7. /\ new \in Seq(Orders) /\ Len(new) = 2 * Len(found) + 1
      /\ \A i \in 1 .. 2 * Len(found) : new[i] = Half(i)
      /\ new[Len(new)] = tick
  BY <1>2, <1>4, <1>6
<1> HIDE DEF new
<1>8. \A i \in 1 .. Len(new) : i \in 1 .. 2 * Len(found) \/ i = Len(new)
  BY <1>2, <1>7
<1>9. \A i \in 1 .. Len(new) : new[i].time >= e.time /\ new[i].action.kind # "timer"
  BY <1>3, <1>4, <1>7, <1>8
<1>10. Turn(e, new, {})
  BY <1>5, <1>7, <1>9 DEF Turn, Orderly
<1>11. PlansItsEnds(new)
  <2> SUFFICES ASSUME NEW i \in 1 .. Len(new), new[i].action.kind \in StartKinds
               PROVE  \E j \in 1 .. Len(new) :
                        i < j /\ Ends(new[j], new[i]) /\ new[i].time <= new[j].time
    BY DEF PlansItsEnds
  <2>1. i \in 1 .. 2 * Len(found)
    BY <1>4, <1>7, <1>8 DEF StartKinds
  <2>2. i + 1 \in 1 .. 2 * Len(found) /\ i + 1 \in 1 .. Len(new)
    BY <2>1, <1>2, <1>3, <1>7
  <2>3. i < i + 1 /\ Ends(new[i + 1], new[i]) /\ new[i].time <= new[i + 1].time
    BY <2>1, <2>2, <1>3, <1>7
  <2> QED  BY <2>2, <2>3
<1>12. QueueInv' /\ FaultsOK' /\ EndsArePlanned' /\ EveryFaultEnds' /\ PausesLast'
  BY <1>1, <1>10, <1>11, QueueSteps, FaultsStay DEF Turn
<1>13. TimerInv'
  <2>1. Match(timers, Live \ {e})
    BY <1>1, MatchWithout DEF TimerInv
  <2>2. Match(timers, Live')
    BY <2>1, <1>1, <1>9, <1>10, TableStays
  <2> QED  BY <2>2, <1>1 DEF TimerInv, faultVars
<1>14. TickInv'
  <2>1. ASSUME NEW f \in Live', f.action = FaultTick
        PROVE  f.seq = nextSeq + Len(new) - 1 /\ f.time = e.time + TickMs
    <3>1. PICK i \in 1 .. Len(new) :
            /\ f.seq = nextSeq + i - 1
            /\ f.time = new[i].time /\ f.action = new[i].action
      BY <2>1, <1>1, <1>10, WhereFrom DEF TickInv
    <3>2. i = Len(new)
      <4>1. new[i].action.kind = "tick"
        BY <3>1, <2>1 DEF FaultTick
      <4> QED  BY <4>1, <1>3, <1>7, <1>8
    <3> QED  BY <3>1, <3>2, <1>4, <1>7
  <2>2. \A f, g \in Live' : f.action = FaultTick /\ g.action = FaultTick => f = g
    BY <2>1, <1>12 DEF QueueInv, Live
  <2>3. decisions' \in Seq(Decided)
    <3>1. decisions \in Seq(Decided)
      BY <1>1 DEF TickInv
    <3>2. decisions \o found \in Seq(Decided)
      BY <3>1, ConcatProperties
    <3> QED  BY <3>1, <3>2
  <2>4. \A i \in 1 .. Len(decisions') : decisions'[i].at <= e.time /\ decisions'[i].at \in Nat
    <3>1. /\ decisions \in Seq(Decided) /\ Len(decisions) \in Nat
          /\ \A i \in 1 .. Len(decisions) :
               decisions[i] \in Decided /\ decisions[i].at < e.time
      <4>1. decisions \in Seq(Decided)
        BY <1>1 DEF TickInv
      <4> QED  BY <4>1, <1>1, LenProperties, ElementOfSeq DEF TickInv
    <3>2. \A i \in 1 .. Len(decisions) : decisions[i].at <= e.time /\ decisions[i].at \in Nat
      BY <3>1, <1>1 DEF Decided
    <3>3. CASE decisions' = decisions
      BY <3>2, <3>3
    <3>4. CASE decisions' = decisions \o found
      <4> SUFFICES ASSUME NEW i \in 1 .. Len(decisions')
                   PROVE  decisions'[i].at <= e.time /\ decisions'[i].at \in Nat
        OBVIOUS
      <4>1. /\ Len(decisions') = Len(decisions) + Len(found)
            /\ decisions'[i] = IF i <= Len(decisions) THEN decisions[i]
                                                      ELSE found[i - Len(decisions)]
        BY <3>1, <3>4, ConcatProperties
      <4>2. CASE i <= Len(decisions)
        BY <4>1, <4>2, <3>1, <3>2
      <4>3. CASE ~ (i <= Len(decisions))
        <5>1. i - Len(decisions) \in 1 .. Len(found)
          BY <4>1, <4>3, <3>1, <1>2
        <5> QED  BY <5>1, <4>1, <4>3, <1>1, <1>2
      <4> QED  BY <4>2, <4>3
    <3> QED  BY <3>3, <3>4
  <2>5. \A f \in Live' : f.action = FaultTick =>
          \A i \in 1 .. Len(decisions') : decisions'[i].at < f.time
    BY <2>1, <2>4, <1>1
  <2>6. schedule' \in Schedules \cup {NoSchedule}
    BY <1>1 DEF TickInv
  <2> QED  BY <2>2, <2>3, <2>5, <2>6 DEF TickInv, FaultTick
<1> QED  BY <1>12, <1>13, <1>14 DEF SimInv

\* The dice come up with faults that an adversary decides on.
LEMMA RollsAreDecided ==
  ASSUME SimInv, NEW t \in Nat, NEW found \in Rolls(t)
  PROVE  found \in Seq(Decided) /\ \A i \in 1 .. Len(found) : found[i].at = t
<1> DEFINE Now == {f \in Decided : f.at = t}
<1>1. ASSUME NEW d \in Durations, NEW g \in (SUBSET Replicas) \ {{}},
             NEW kind \in {"partition", "crash", "pause"}, kind = "partition" => g # Replicas
      PROVE  InjectedFault(t, kind, d, g) \in Now
  BY <1>1, TimesAssumption DEF InjectedFault, Decided, Applies
<1>2. \A f \in Faults(t, "partition", Sides) : f \in Now
  BY <1>1 DEF Faults, Sides
<1>3. \A f \in Faults(t, "crash", Victims) \cup Faults(t, "pause", Victims) : f \in Now
  BY <1>1 DEF Faults, Victims
<1>4. PICK p \in AtMostOne(Faults(t, "partition", Sides)),
           c \in AtMostOne(Faults(t, "crash", Victims)),
           q \in AtMostOne(Faults(t, "pause", Victims)) : found = p \o c \o q
  BY DEF Rolls
<1> HIDE DEF Now
<1>5. p \in Seq(Now) /\ c \in Seq(Now) /\ q \in Seq(Now)
  <2>1. ASSUME NEW set, set \subseteq Now, NEW s \in AtMostOne(set)
        PROVE  s \in Seq(Now)
    <3>1. CASE s = <<>>
      BY <3>1
    <3>2. CASE \E f \in set : s = <<f>>
      BY <3>2, <2>1
    <3> QED  BY <3>1, <3>2 DEF AtMostOne
  <2> QED  BY <2>1, <1>2, <1>3
<1>6. found \in Seq(Now)
  BY <1>4, <1>5
<1>7. \A i \in 1 .. Len(found) : found[i] \in Now
  BY <1>6, ElementOfSeq
<1>8. Now \subseteq Decided
  BY DEF Now
<1> QED  BY <1>6, <1>7, <1>8, SeqMonotonic DEF Now

LEMMA TickSteps ==
  ASSUME SimInv, NEW e, Tick(e)
  PROVE  SimInv'
<1>1. /\ InTurn(e) /\ e.action.kind = "tick" /\ e.time \in Nat
      /\ UNCHANGED <<schedule, timers, faultVars>>
      /\ TickInv
  BY DEF Tick, Dispatch, InTurn, SimInv, QueueInv, Live, Events
<1>2. CASE Decide(e)
  <2>1. PICK found \in Rolls(e.time) :
          Inject(e, found) /\ decisions' = decisions \o found
    BY <1>2 DEF Decide
  <2> QED  BY <2>1, <1>1, RollsAreDecided, InjectSteps
<1>3. CASE schedule # NoSchedule /\ Replay(e, schedule) /\ UNCHANGED decisions
  <2> DEFINE hits == {i \in DOMAIN schedule : Due(schedule[i], e.time) /\ Applies(schedule[i])}
  <2>1. PICK due \in InOrder(hits) :
          Inject(e, [i \in DOMAIN due |-> Confined(schedule[due[i]])])
    BY <1>3 DEF Replay
  <2>2. /\ schedule \in Seq(Range(schedule))
        /\ \A i \in DOMAIN schedule : schedule[i].duration \in Nat
    BY <1>1, <1>3, SchedulesAssumption DEF TickInv
  <2>3. DOMAIN schedule = 1 .. Len(schedule) /\ Len(schedule) \in Nat
    BY <2>2, LenProperties
  <2>4. Cardinality(hits) \in Nat
    <3>1. IsFiniteSet(1 .. Len(schedule)) /\ hits \subseteq 1 .. Len(schedule)
      BY <2>3, FS_Interval
    <3> HIDE DEF hits
    <3> QED  BY <3>1, FS_Subset, FS_CardinalityType
  <2> DEFINE found == [i \in 1 .. Cardinality(hits) |-> Confined(schedule[due[i]])]
  <2>5. \A i \in 1 .. Cardinality(hits) :
          Confined(schedule[due[i]]) \in Decided /\ Confined(schedule[due[i]]).at = e.time
    <3> SUFFICES ASSUME NEW i \in 1 .. Cardinality(hits)
                 PROVE  /\ Confined(schedule[due[i]]) \in Decided
                        /\ Confined(schedule[due[i]]).at = e.time
      OBVIOUS
    <3>1. due[i] \in hits
      BY <2>1 DEF InOrder
    <3>2. PICK f : f = schedule[due[i]]
      OBVIOUS
    <3>3. f.at = e.time /\ Applies(f) /\ f.duration \in Nat
      BY <3>1, <3>2, <2>2 DEF Due
    <3>4. Confined(f) \in Decided /\ Confined(f).at = e.time
      BY <3>3, <1>1 DEF Confined, InjectedFault, Decided, Applies
    <3> QED  BY <3>2, <3>4
  <2>6. Inject(e, found)
    <3>1. DOMAIN due = 1 .. Cardinality(hits)
      BY <2>1 DEF InOrder
    <3> QED  BY <2>1, <3>1
  <2>7. found \in Seq(Decided) /\ \A i \in 1 .. Len(found) : found[i].at = e.time
    <3> HIDE DEF hits
    <3> QED  BY <2>4, <2>5
  <2> HIDE DEF found
  <2> QED  BY <2>6, <2>7, <1>1, <1>3, InjectSteps
<1> QED  BY <1>2, <1>3 DEF Tick

-----------------------------------------------------------------------------
(* Every run.                                                              *)

LEMMA InitKeeps == Init => SimInv
<1> SUFFICES ASSUME Init PROVE SimInv
  OBVIOUS
<1> DEFINE size == Cardinality(Clients)
<1>1. size \in Nat
  BY NodesAssumption, FS_CardinalityType
<1>2. PICK started \in Bijection(Clients, 1 .. size),
           first \in [Clients -> Tags], delay \in [Clients -> Delays] :
        /\ queue = {[time |-> TickMs, seq |-> 0, node |-> Control, action |-> FaultTick]}
                   \cup {[time |-> delay[n], seq |-> started[n], node |-> n,
                          action |-> FireTimer(first[n])] : n \in Clients}
        /\ timers = [x \in Nodes \X Tags |->
                       IF x[1] \in Clients /\ x[2] = first[x[1]] THEN started[x[1]] ELSE NoTimer]
  BY DEF Init
<1>3. /\ now = 0 /\ nextSeq = size + 1 /\ cancelled = {} /\ down = {} /\ side = {}
      /\ DOMAIN pausedUntil = {} /\ freezes = {}
      /\ schedule \in Schedules \cup {NoSchedule} /\ decisions = <<>>
  BY DEF Init
<1>4. /\ \A n \in Clients : started[n] \in 1 .. size
      /\ \A m, n \in Clients : started[m] = started[n] => m = n
  BY <1>2 DEF Bijection, Injection, IsInjective
<1> HIDE DEF size
<1> DEFINE tick == [time |-> TickMs, seq |-> 0, node |-> Control, action |-> FaultTick]
           timer(n) == [time |-> delay[n], seq |-> started[n], node |-> n,
                        action |-> FireTimer(first[n])]
<1>5. queue = {tick} \cup {timer(n) : n \in Clients}
  BY <1>2
<1>6. /\ tick \in Events /\ tick.seq = 0 /\ Placed(tick)
      /\ tick.action = FaultTick /\ tick.action.kind = "tick"
  BY TimesAssumption DEF Events, Actions, FaultTick, Placed
<1>7. ASSUME NEW n \in Clients
      PROVE  /\ timer(n) \in Events /\ timer(n).seq = started[n]
             /\ timer(n).node = n /\ timer(n).action = FireTimer(first[n])
             /\ Placed(timer(n))
             /\ timer(n).action.kind = "timer" /\ timer(n).action.tag = first[n]
             /\ first[n] \in Tags /\ n \in Nodes
  <2>1. delay[n] \in Nat /\ started[n] \in Nat /\ first[n] \in Tags /\ n \in Nodes
    <3>1. delay[n] \in Delays /\ first[n] \in Tags
      OBVIOUS
    <3>2. delay[n] \in Nat
      BY <3>1, TimesAssumption
    <3>3. started[n] \in Nat /\ n \in Nodes
      BY <1>1, <1>4 DEF Nodes
    <3> QED  BY <3>1, <3>2, <3>3
  <2>2. FireTimer(first[n]) \in Actions /\ FireTimer(first[n]).kind = "timer"
        /\ FireTimer(first[n]).tag = first[n]
    BY <2>1 DEF FireTimer, Actions
  <2>3. timer(n).seq = started[n] /\ timer(n).node = n /\ timer(n).action = FireTimer(first[n])
    OBVIOUS
  <2>4. timer(n) \in Events
    BY <2>1, <2>2 DEF Events
  <2>5. Placed(timer(n))
    BY <2>1, <2>2, <2>3 DEF Placed
  <2> HIDE DEF timer
  <2> QED  BY <2>1, <2>2, <2>3, <2>4, <2>5
<1>8. \A m \in Nodes, u \in Tags :
        timers[<<m, u>>] = IF m \in Clients /\ u = first[m] THEN started[m] ELSE NoTimer
  BY <1>2
<1> HIDE DEF tick, timer
<1>9. Live = queue
  BY <1>3 DEF Live
<1>10. \A f \in queue : f = tick \/ \E n \in Clients : f = timer(n)
  BY <1>5
<1>11. QueueInv
  <2>1. now \in Nat /\ nextSeq \in Nat /\ cancelled \subseteq Nat
    BY <1>1, <1>3
  <2>2. queue \subseteq Events /\ \A f \in queue : Placed(f)
    BY <1>6, <1>7, <1>10
  <2>3. \A f \in queue : f.seq < nextSeq
    <3>1. \A n \in Clients : started[n] < nextSeq
      BY <1>1, <1>3, <1>4
    <3> QED  BY <3>1, <1>1, <1>3, <1>6, <1>7, <1>10
  <2>4. \A f, g \in queue : f.seq = g.seq => f = g
    <3>1. \A n \in Clients : started[n] # 0
      BY <1>1, <1>4
    <3> QED  BY <3>1, <1>4, <1>6, <1>7, <1>10
  <2>5. \A f \in Live : f.time >= now
    BY <2>2, <1>3 DEF Live, Events
  <2> QED  BY <2>1, <2>2, <2>3, <2>4, <2>5, <1>3 DEF QueueInv, CancelledAreQueued
<1>12. FaultsOK
  BY <1>3, NodesAssumption DEF FaultsOK
<1>13. \A f \in Live : f.action.kind \in {"tick", "timer"}
  BY <1>6, <1>7, <1>9, <1>10
<1>14. EndsArePlanned
  BY <1>13 DEF EndsArePlanned
<1>15. EveryFaultEnds
  BY <1>3 DEF EveryFaultEnds
<1>16. TimerInv
  <2>1. timers \in [Nodes \X Tags -> Nat \cup {NoTimer}]
    BY <1>1, <1>2, <1>4
  <2>2. ASSUME NEW m \in Nodes, NEW u \in Tags, timers[<<m, u>>] # NoTimer
        PROVE  \E f \in Live : f.seq = timers[<<m, u>>] /\ f.node = m /\ f.action = FireTimer(u)
    <3>1. m \in Clients /\ u = first[m] /\ timers[<<m, u>>] = started[m]
      BY <1>8, <2>2
    <3>2. timer(m) \in Live
      BY <3>1, <1>5, <1>9
    <3> QED  BY <3>1, <3>2, <1>7
  <2>3. ASSUME NEW f \in Live, f.action.kind = "timer"
        PROVE  timers[<<f.node, f.action.tag>>] = f.seq
    <3>1. PICK n \in Clients : f = timer(n)
      BY <2>3, <1>6, <1>9, <1>10
    <3> QED  BY <3>1, <1>7, <1>8
  <2>4. Match(timers, Live)
    BY <2>2, <2>3 DEF Match
  <2> QED  BY <2>1, <2>4, <1>3 DEF TimerInv
<1>17. PausesLast
  BY <1>3 DEF PausesLast
<1>18. TickInv
  <2>1. \A f, g \in Live : f.action = FaultTick /\ g.action = FaultTick => f = g
    BY <1>7, <1>9, <1>10 DEF FaultTick
  <2>2. decisions \in Seq(Decided) /\ Len(decisions) = 0
    BY <1>3
  <2> QED  BY <2>1, <2>2, <1>3 DEF TickInv
<1> QED  BY <1>11, <1>12, <1>14, <1>15, <1>16, <1>17, <1>18 DEF SimInv

LEMMA NothingChanges ==
  ASSUME SimInv, UNCHANGED vars
  PROVE  SimInv'
<1>1. Live' = Live
  BY DEF Live, vars
<1>2. QueueInv'
  BY <1>1 DEF SimInv, QueueInv, CancelledAreQueued, vars
<1>3. FaultsOK' /\ EveryFaultEnds' /\ PausesLast'
  BY <1>1 DEF SimInv, FaultsOK, EveryFaultEnds, PausesLast, Paused, vars, faultVars
<1>4. EndsArePlanned' /\ TimerInv' /\ TickInv'
  BY <1>1 DEF SimInv, EndsArePlanned, TimerInv, Match, TickInv, vars, faultVars, injectorVars
<1> QED  BY <1>2, <1>3, <1>4 DEF SimInv

LEMMA StepKeeps ==
  ASSUME SimInv, [Next]_vars
  PROVE  SimInv'
<1>1. CASE UNCHANGED vars
  BY <1>1, NothingChanges
<1>2. CASE Next
  <2>1. ASSUME NEW e \in queue, QuietStep(e) PROVE SimInv'
    BY <2>1, MessageSteps, TimerSteps, TickSteps, IgnoreStep DEF QuietStep
  <2>2. ASSUME NEW e \in queue, FaultStep(e) PROVE SimInv'
    BY <2>2, CutHealSteps, CrashStep, RestartStep, PauseStep, ResumeStep DEF FaultStep
  <2>3. CASE Over
    BY <2>3, NothingChanges DEF Over
  <2> QED  BY <1>2, <2>1, <2>2, <2>3 DEF Next
<1> QED  BY <1>1, <1>2

LEMMA Invariance == Spec => []SimInv
<1>1. Init => SimInv
  BY InitKeeps
<1>2. SimInv /\ [Next]_vars => SimInv'
  BY StepKeeps
<1> QED  BY <1>1, <1>2, PTL DEF Spec

\* The variables keep their types; a crashed replica is not paused at once, events
\* are numbered one by one, and no partition cuts everyone off (StartPartition,
\* Simulation._crash and _pause, Scheduler.schedule).
THEOREM SimulationIsWellTyped == Spec => []TypeOK
<1>1. SimInv => TypeOK
  BY DEF SimInv, QueueInv, FaultsOK, TimerInv, TypeOK
<1> QED  BY <1>1, Invariance, PTL

\* No run raises for want of time: neither schedule_at nor VirtualClock.advance_to
\* is ever asked to go back, and what is held for a paused node is rescheduled for
\* a moment that is still to come.
THEOREM NothingIsEverLate == Spec => []NothingIsLate
<1>1. SimInv => NothingIsLate
  <2> SUFFICES ASSUME SimInv PROVE NothingIsLate
    OBVIOUS
  <2>1. /\ now \in Nat /\ \A f \in Live : f.time >= now
        /\ EveryFaultEnds
    BY DEF SimInv, QueueInv
  <2>2. \A n \in DOMAIN pausedUntil : pausedUntil[n] >= now
    BY <2>1 DEF EveryFaultEnds
  <2> QED  BY <2>1, <2>2 DEF NothingIsLate
<1> QED  BY <1>1, Invariance, PTL

\* The timer table of _fire_timer, set_timer, cancel_timer and _crash, and the
\* queue, name the same timers.
THEOREM TimersAlwaysMatch == Spec => []TimersMatchQueue
<1>1. SimInv => TimersMatchQueue
  BY DEF SimInv, TimerInv, Match, TimersMatchQueue
<1> QED  BY <1>1, Invariance, PTL

\* Scheduler._cancelled never outgrows the heap.
THEOREM CancellationLeaksNothing == Spec => []CancelledAreQueued
<1>1. SimInv => CancelledAreQueued
  BY DEF SimInv, QueueInv
<1> QED  BY <1>1, Invariance, PTL

\* A replica that is down or paused, and a cluster that is cut in two, will be
\* told to come back: schedule_crash, schedule_pause and schedule_partition plan
\* both ends, and overlapping faults never lose the end that counts.
THEOREM EveryFaultHasItsEnd == Spec => []EveryFaultEnds
<1>1. SimInv => EveryFaultEnds
  BY DEF SimInv
<1> QED  BY <1>1, Invariance, PTL

\* Of overlapping pauses of a replica, none ends early (_pause and _resume).
THEOREM PausesLastAsPlanned == Spec => []PausesLast
<1>1. SimInv => PausesLast
  BY DEF SimInv
<1> QED  BY <1>1, Invariance, PTL

-----------------------------------------------------------------------------
(* Replay: of a captured schedule, and for a reader.                       *)

LEMMA DecidedIsConfined ==
  ASSUME NEW f \in Decided
  PROVE  Confined(f) = f /\ Applies(f)
<1>1. f.targets \cap Replicas = f.targets
  BY DEF Decided
<1> QED  BY <1>1 DEF Decided, Confined, InjectedFault

\* What was decided at this tick is the last of the decisions, and all that is due.
LEMMA DecisionsReplay ==
  ASSUME SimInv, NEW e, Tick(e), schedule = NoSchedule
  PROVE  Replay(e, decisions')
<1>1. /\ InTurn(e) /\ e.action = FaultTick /\ e.time \in Nat /\ e \in Live /\ TickInv
  <2>1. /\ InTurn(e) /\ e.action.kind = "tick" /\ e.time \in Nat /\ e \in Live /\ TickInv
        /\ e.action \in Actions
    BY DEF Tick, Dispatch, InTurn, SimInv, QueueInv, Live, Events
  <2> QED  BY <2>1, KindsOfActions
<1>2. PICK found \in Rolls(e.time) : Inject(e, found) /\ decisions' = decisions \o found
  BY DEF Tick, Decide
<1>3. found \in Seq(Decided) /\ \A i \in 1 .. Len(found) : found[i].at = e.time
  BY <1>1, RollsAreDecided
<1>4. decisions \in Seq(Decided) /\ \A i \in 1 .. Len(decisions) : decisions[i].at < e.time
  BY <1>1 DEF TickInv
<1> DEFINE n == Len(decisions)
           m == Len(found)
<1>5. /\ n \in Nat /\ m \in Nat
      /\ \A i \in 1 .. m : found[i] \in Decided
      /\ \A i \in 1 .. n : decisions[i] \in Decided
  BY <1>3, <1>4, LenProperties, ElementOfSeq
<1>6. PICK all : all = decisions'
  OBVIOUS
<1>7. /\ all \in Seq(Decided) /\ Len(all) = n + m /\ DOMAIN all = 1 .. n + m
      /\ \A i \in 1 .. n + m : all[i] = IF i <= n THEN decisions[i] ELSE found[i - n]
  BY <1>2, <1>3, <1>4, <1>6, ConcatProperties, LenProperties
<1> HIDE DEF n, m
<1>8. \A i \in 1 .. m : n + i \in 1 .. n + m /\ all[n + i] = found[i]
  BY <1>5, <1>7
<1> DEFINE hits == {i \in DOMAIN all : Due(all[i], e.time) /\ Applies(all[i])}
<1>9. hits = n + 1 .. n + m
  <2>1. ASSUME NEW i \in hits PROVE i \in n + 1 .. n + m
    <3>1. i \in 1 .. n + m /\ all[i].at = e.time
      BY <1>7 DEF Due
    <3>2. CASE i <= n
      <4>1. i \in 1 .. n
        BY <3>1, <3>2, <1>5
      <4>2. decisions[i].at < e.time /\ decisions[i].at = e.time
        BY <3>1, <3>2, <4>1, <1>4, <1>7 DEF n
      <4> QED  BY <4>2, <1>1
    <3> QED  BY <3>1, <3>2, <1>5
  <2>2. ASSUME NEW i \in n + 1 .. n + m PROVE i \in hits
    <3>1. PICK k \in 1 .. m : i = n + k
      <4>1. i - n \in 1 .. m /\ i = n + (i - n)
        BY <1>5
      <4> QED  BY <4>1
    <3>2. i \in DOMAIN all /\ all[i] = found[k]
      BY <3>1, <1>7, <1>8
    <3>3. found[k] \in Decided /\ found[k].at = e.time
      BY <1>3, <1>5 DEF m
    <3> QED  BY <3>2, <3>3, DecidedIsConfined DEF Due
  <2> QED  BY <2>1, <2>2
<1>10. Cardinality(hits) = m
  <2>1. n + 1 \in Int /\ n + m \in Int
    BY <1>5
  <2>2. Cardinality(n + 1 .. n + m) = IF n + 1 > n + m THEN 0 ELSE (n + m) - (n + 1) + 1
    BY <2>1, FS_Interval
  <2>3. Cardinality(n + 1 .. n + m) = m
    BY <2>2, <1>5
  <2> HIDE DEF hits
  <2> QED  BY <2>3, <1>9
<1> DEFINE due == [i \in 1 .. m |-> n + i]
<1>11. due \in InOrder(hits)
  <2>1. due \in [1 .. m -> hits]
    BY <1>5, <1>9
  <2>2. \A i, j \in DOMAIN due : i < j => due[i] < due[j]
    BY <1>5
  <2> HIDE DEF due, hits
  <2> QED  BY <2>1, <2>2, <1>10 DEF InOrder
<1>12. [i \in DOMAIN due |-> Confined(all[due[i]])] = found
  <2>1. \A i \in 1 .. m : Confined(all[n + i]) = found[i]
    BY <1>5, <1>8, DecidedIsConfined
  <2>2. [i \in DOMAIN due |-> Confined(all[due[i]])] = [i \in 1 .. m |-> Confined(all[n + i])]
    OBVIOUS
  <2>3. found = [i \in 1 .. m |-> found[i]]
    BY <1>3, LenProperties DEF m
  <2> QED  BY <2>1, <2>2, <2>3
<1>13. Inject(e, [i \in DOMAIN due |-> Confined(all[due[i]])])
  BY <1>2, <1>12
<1> HIDE DEF due
<1>14. Replay(e, all)
  BY <1>11, <1>13 DEF Replay
<1> QED  BY <1>6, <1>14

\* A run whose decisions are pinned and replayed does the same at every tick, event
\* by event (FaultInjector.decisions, ScriptedInjector.tick): what the shrinker
\* rests on.
THEOREM ReplayRepeatsTheRun == Spec => PinningChangesNothing
<1>1. SimInv /\ [Next]_vars =>
        [\A e \in queue : Tick(e) /\ schedule = NoSchedule => Replay(e, decisions')]_vars
  BY DecisionsReplay
<1> QED  BY <1>1, Invariance, PTL DEF Spec, PinningChangesNothing

\* A watched run is a run (by definition; that watching rules no step out is not
\* shown here): what holds of runs holds of it.
LEMMA WatchedRunIsARun == WatchSpec => Spec
<1>1. WatchInit => Init
  BY DEF WatchInit
<1>2. [WatchNext]_watchVars => [Next]_vars
  BY DEF WatchNext, watchVars, Next, FaultStep
<1> QED  BY <1>1, <1>2, PTL DEF WatchSpec, Spec

Statuses == {"up", "down", "paused"}

WatchInv == shown \in [Replicas -> Statuses] /\ ReplayIsTrue

LEMMA WatchKeeps ==
  ASSUME SimInv, WatchInv, [WatchNext]_watchVars
  PROVE  WatchInv'
<1>1. /\ shown \in [Replicas -> Statuses] /\ shownSide = side
      /\ \A n \in Replicas :
           /\ shown[n] = Status(n)
           /\ n \in DOMAIN open <=> Status(n) # "up"
           /\ n \in DOMAIN open => open[n].kind = Status(n)
  BY DEF WatchInv, ReplayIsTrue
<1>2. \A n \in DOMAIN pausedUntil : n \notin down
  BY DEF SimInv, FaultsOK
<1>3. CASE UNCHANGED replayVars /\ UNCHANGED faultVars
  BY <1>1, <1>3 DEF WatchInv, ReplayIsTrue, Status, Paused, replayVars, faultVars
<1>4. \A e \in queue : e.action.kind \in {"crash", "restart", "pause", "resume"} => e.node \in Replicas
  BY DEF SimInv, QueueInv, Placed
<1>5. ASSUME NEW e \in queue, QuietStep(e) PROVE UNCHANGED faultVars
  BY <1>5 DEF QuietStep, DropAcrossCut, DropAtDown, Drop, HoldMessage, OnMessage, OnTimer,
              HoldTimer, Tick, IgnoreFault
<1>6. ASSUME NEW e \in queue,
             (Cut(e) /\ ShowSide(e.action.group)) \/ (Heal(e) /\ ShowSide({}))
      PROVE  WatchInv'
  <2>1. /\ shownSide' = side'
        /\ UNCHANGED <<shown, open, down, pausedUntil>>
    BY <1>6 DEF Cut, Heal, ShowSide
  <2> QED  BY <2>1, <1>1 DEF WatchInv, ReplayIsTrue, Status, Paused
<1>7. ASSUME NEW e \in queue, Crash(e), GoesOut(e, "down") PROVE WatchInv'
  <2>1. /\ e.node \in Replicas
        /\ down' = down \cup {e.node} /\ side' = side
        /\ DOMAIN pausedUntil' = DOMAIN pausedUntil \ {e.node}
    BY <1>4, <1>7 DEF Crash, Dispatch, Unpaused
  <2>2. /\ shown' = [shown EXCEPT ![e.node] = "down"] /\ shownSide' = shownSide
        /\ DOMAIN open' = DOMAIN open \cup {e.node}
        /\ open'[e.node].kind = "down"
        /\ \A n \in DOMAIN open : n # e.node => open'[n] = open[n]
    BY <1>7 DEF GoesOut, SetStatus, Open
  <2> QED  BY <2>1, <2>2, <1>1 DEF WatchInv, ReplayIsTrue, Status, Paused, Statuses
<1>8. ASSUME NEW e \in queue, Pause(e), GoesOut(e, "paused") PROVE WatchInv'
  <2>1. /\ e.node \in Replicas \ down
        /\ down' = down /\ side' = side
        /\ DOMAIN pausedUntil' = DOMAIN pausedUntil \cup {e.node}
    BY <1>4, <1>8 DEF Pause, Dispatch
  <2>2. /\ shown' = [shown EXCEPT ![e.node] = "paused"] /\ shownSide' = shownSide
        /\ DOMAIN open' = DOMAIN open \cup {e.node}
        /\ open'[e.node].kind = "paused"
        /\ \A n \in DOMAIN open : n # e.node => open'[n] = open[n]
    BY <1>8 DEF GoesOut, SetStatus, Open
  <2> QED  BY <2>1, <2>2, <1>1 DEF WatchInv, ReplayIsTrue, Status, Paused, Statuses
<1>9. ASSUME NEW e \in queue, Restart(e) \/ Resume(e), ComesBack(e) PROVE WatchInv'
  <2>1. /\ e.node \in Replicas /\ side' = side
        /\ down' = down \ {e.node}
        /\ DOMAIN pausedUntil' = DOMAIN pausedUntil \ {e.node}
    <3>1. CASE Restart(e)
      BY <3>1, <1>2, <1>4 DEF Restart, Dispatch
    <3>2. CASE Resume(e)
      <4>1. /\ e.node \in Replicas /\ side' = side /\ down' = down
            /\ pausedUntil' = Unpaused(e.node) /\ e.node \in DOMAIN pausedUntil
        BY <3>2, <1>4 DEF Resume, Dispatch, PauseIsOver, Paused
      <4> QED  BY <4>1, <1>2 DEF Unpaused
    <3> QED  BY <3>1, <3>2, <1>9
  <2>2. /\ shown' = [shown EXCEPT ![e.node] = "up"] /\ shownSide' = shownSide
        /\ DOMAIN open' = DOMAIN open \ {e.node}
        /\ \A n \in DOMAIN open : n # e.node => open'[n] = open[n]
    BY <1>9 DEF ComesBack, SetStatus, Close
  <2> QED  BY <2>1, <2>2, <1>1 DEF WatchInv, ReplayIsTrue, Status, Paused, Statuses
<1>10. CASE UNCHANGED watchVars
  BY <1>3, <1>10 DEF watchVars, vars
<1>11. CASE WatchNext
  <2>1. CASE Over /\ UNCHANGED replayVars
    BY <1>3, <2>1 DEF vars, Over
  <2>2. ASSUME NEW e \in queue, QuietStep(e), UNCHANGED replayVars PROVE WatchInv'
    BY <1>3, <1>5, <2>2
  <2>3. CASE ~ (Over /\ UNCHANGED replayVars)
    <3>1. PICK e \in queue :
            \/ QuietStep(e) /\ UNCHANGED replayVars
            \/ Cut(e) /\ ShowSide(e.action.group)
            \/ Heal(e) /\ ShowSide({})
            \/ Crash(e) /\ GoesOut(e, "down")
            \/ Pause(e) /\ GoesOut(e, "paused")
            \/ (Restart(e) \/ Resume(e)) /\ ComesBack(e)
      BY <2>3, <1>11 DEF WatchNext
    <3> QED  BY <3>1, <2>2, <1>6, <1>7, <1>8, <1>9
  <2> QED  BY <2>1, <2>3
<1> QED  BY <1>10, <1>11

\* What the web replayer shows of a replica and of the partition, in every frame,
\* is what the simulator did, however its faults overlap (buildFrames, nodeOutages).
THEOREM ReplaysAreTrue == WatchSpec => []ReplayIsTrue
<1>1. WatchInit => WatchInv
  BY DEF WatchInit, Init, WatchInv, ReplayIsTrue, Status, Paused, Statuses
<1>2. SimInv /\ WatchInv /\ [WatchNext]_watchVars => WatchInv'
  BY WatchKeeps
<1>3. WatchSpec => []SimInv
  BY WatchedRunIsARun, Invariance, PTL
<1>4. WatchInv => ReplayIsTrue
  BY DEF WatchInv
<1> QED  BY <1>1, <1>2, <1>3, <1>4, PTL DEF WatchSpec
=============================================================================
