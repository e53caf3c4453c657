------------------------------ MODULE Shrinker ------------------------------
(***************************************************************************)
(* Delta debugging over a failing scenario (cassette/shrink/reduce.py).    *)
(*                                                                         *)
(* Deletion runs the moves one after another, and for each the candidates  *)
(* it produces from the best scenario so far, until a whole pass changes   *)
(* nothing.  Then small shapes are tried from scratch.  Every candidate is *)
(* executed, and counts against the budget.                                *)
(*                                                                         *)
(* What an execution yields is left open: Runs is what it may be.  It is   *)
(* deterministic, also once its fault schedule is made explicit            *)
(* (Simulation!PinningChangesNothing), so a candidate rejected once is     *)
(* rejected again: the best can only have become lighter.                  *)
(***************************************************************************)
EXTENDS Integers, Sequences, FiniteSets
LOCAL INSTANCE SequencesExt

CONSTANTS
  Original,     \* the scenario to reduce
  Decided,      \* the faults its adversary decides on
  Runs,         \* what executing a scenario may yield
  Budget,       \* candidates executed before the search gives up
  Profiles,     \* latency profiles of the small shapes, in order
  SearchSeeds,  \* seeds tried per shape
  Keys,
  NoKey,
  NoSchedule,   \* the adversary decides
  None          \* the argument of a read

ASSUME BudgetAssumption == Budget \in Nat

\* What a fault of a schedule looks like in a cluster of some size.
Fault(size) == [at : Nat, targets : (SUBSET (0 .. size - 1)) \ {{}}]

ASSUME ScheduleAssumption == NoSchedule \notin Seq([at : Nat, targets : SUBSET Nat])

\* Profiles are known by name.
ASSUME ShapesAssumption == Profiles \in Seq(STRING) /\ SearchSeeds \in Nat

\* A verdict, and how many events the run delivered.
RunOf(outcome, key, events) == [outcome |-> outcome, key |-> key, events |-> events]

Outcomes == {"linearizable", "exhausted", "violated"}

\* A violation always names the key it was found on.
ASSUME RunsAssumption ==
  /\ Runs \subseteq [outcome : Outcomes, key : Keys \cup {NoKey}, events : Nat]
  /\ \A run \in Runs : run.outcome = "violated" => run.key # NoKey

NoRun == RunOf("exhausted", NoKey, 0)

VARIABLES
  phase,        \* "start", "delete", "rebuild", "pin", and "done" or "refused"
  move,         \* the move deletion is at
  next,         \* the next candidate of the move, or of the small shapes
  changed,      \* some move of this pass has been accepted
  target,       \* the key that failed
  best,         \* the best scenario so far
  bestRun,      \* what it yielded
  bestSize,     \* and its weight
  spent,        \* candidates executed
  deletedSize,  \* how far deletion got
  rebuilt,      \* the best one is a small shape
  rejected      \* history variable: the candidates that were not accepted

position == <<phase, move, next, changed>>
chosen   == <<best, bestRun, bestSize>>
vars     == <<position, target, chosen, spent, deletedSize, rebuilt, rejected>>

-----------------------------------------------------------------------------
(* Scenarios.  A plan is a sequence of operations; a store is replicas, the *)
(* size of both quorums, and whether it is free of the known defects.       *)

Operations(s) == Cardinality(UNION {{c} \X DOMAIN s.plans[c] : c \in DOMAIN s.plans})

\* Run.schedule: what was decided, or what was told.
ScheduleOf(s) ==
  IF s.schedule # NoSchedule THEN s.schedule ELSE IF s = Original THEN Decided ELSE <<>>

\* Run.pinned: the same scenario with its fault schedule made explicit.
Pinned(s) ==
  [store |-> s.store, plans |-> s.plans, schedule |-> ScheduleOf(s), origin |-> s.origin]

\* An operation that a cluster of some size can execute.
Operation(size) ==
  [key : Keys, argument : Nat \cup {None}, coordinator : 0 .. size - 1, think : Nat]

\* A scenario that can be executed: its operations go to replicas it has, and
\* its faults are aimed at some.
Runnable(s) ==
  LET size == s.store.replicas
  IN  /\ s = [store |-> s.store, plans |-> s.plans, schedule |-> s.schedule, origin |-> s.origin]
      /\ s.store \in [replicas : Nat \ {0}, quorum : 1 .. size, faithful : BOOLEAN]
      /\ s.plans \in Seq(Seq(Operation(size)))
      /\ ScheduleOf(s) \in Seq(Fault(size))

\* The scenario to reduce has been executed.
ASSUME OriginalAssumption == Runnable(Original)

\* Size.weight of a run of s.
Weight(s, run) ==
  Operations(s) * 100 + Len(ScheduleOf(s)) * 50 + Len(s.plans) * 20
    + s.store.replicas * 10 + run.events

\* Mutant: a search that was given up counts as a failure.
FailsOrUnknown(run) == run.outcome # "linearizable" /\ run.key = target

FailsTheSameWay(run) == run.outcome = "violated" /\ run.key = target

-----------------------------------------------------------------------------
(* The moves: the candidates each produces from s, in the order they are    *)
(* tried.                                                                  *)

\* The entries of list that are in kept.
Only(list, kept) ==
  FlattenSeq([i \in DOMAIN list |-> IF list[i] \in kept THEN <<list[i]>> ELSE <<>>])

\* A candidate that is s itself is none.
Unless(s, c) == IF c = s THEN <<>> ELSE <<c>>

\* What is left of list: either half, then all but one.
Parts(list) ==
  LET middle == Len(list) \div 2
  IN  (IF Len(list) > 2
       THEN <<SubSeq(list, 1, middle), SubSeq(list, middle + 1, Len(list))>> ELSE <<>>)
      \o [i \in DOMAIN list |-> RemoveAt(list, i)]

OpsOf(s) == UNION {ToSet(s.plans[c]) : c \in DOMAIN s.plans}

\* s with new[op] in the place of every operation op.
MapOps(s, new) ==
  [s EXCEPT !.plans = [c \in DOMAIN @ |-> [i \in DOMAIN @[c] |-> new[@[c][i]]]]]

OnlyTheFailingKey(s, key) ==
  LET kept == {op \in OpsOf(s) : op.key = key}
  IN  Unless(s, [s EXCEPT !.plans = [c \in DOMAIN @ |-> Only(@[c], kept)]])

FewerFaults(s) ==
  LET parts == IF s.schedule = <<>> THEN <<>> ELSE <<<<>>>> \o Parts(s.schedule)
  IN  [i \in DOMAIN parts |-> [s EXCEPT !.schedule = parts[i]]]

FewerOperations(s) ==
  FlattenSeq([c \in DOMAIN s.plans |->
    LET parts == Parts(s.plans[c])
    IN  [i \in DOMAIN parts |-> [s EXCEPT !.plans[c] = parts[i]]]])

FewerClients(s) ==
  IF Len(s.plans) <= 1 THEN <<>>
  ELSE Unless(s, [s EXCEPT !.plans = Only(@, ToSet(@) \ {<<>>})])
       \o [c \in DOMAIN s.plans |-> [s EXCEPT !.plans = RemoveAt(@, c)]]

\* Mutant: operations keep their coordinator.
RehomeNot(op, size) == op

Rehome(op, size) == [op EXCEPT !.coordinator = @ % size]

\* The faults that still aim at somebody in a cluster of this size.
Confine(schedule, size) ==
  LET confined == [i \in DOMAIN schedule |-> [schedule[i] EXCEPT !.targets = @ \cap (0 .. size - 1)]]
  IN  Only(confined, {f \in ToSet(confined) : f.targets # {}})

\* The store is made anew: it does not take over the defects of the old one.
SmallerCluster(s) ==
  [i \in 1 .. s.store.replicas - 3 |->
    LET size == i + 2
    IN  [MapOps(s, [op \in OpsOf(s) |-> Rehome(op, size)]) EXCEPT
           !.store = [replicas |-> size, quorum |-> size \div 2 + 1, faithful |-> TRUE],
           !.schedule = Confine(@, size)]]

NoThinking(s) == Unless(s, MapOps(s, [op \in OpsOf(s) |-> [op EXCEPT !.think = 0]]))

\* The rank of an argument among those of s, in order of first appearance.
Renumbered(s, v) ==
  LET written == Only(FlattenSeq(s.plans), {op \in OpsOf(s) : op.argument # None})
      first == CHOOSE i \in DOMAIN written : written[i].argument = v
                 /\ \A j \in 1 .. i - 1 : written[j].argument # v
  IN  Cardinality({written[j].argument : j \in 1 .. first})

PlainerValues(s) ==
  Unless(s, MapOps(s, [op \in OpsOf(s) |-> IF op.argument = None THEN op
                                  ELSE [op EXCEPT !.argument = Renumbered(s, @)]]))

NMoves == 7

Produce(m, s, key) ==
  CASE m = 1 -> OnlyTheFailingKey(s, key)
    [] m = 2 -> FewerFaults(s)
    [] m = 3 -> FewerOperations(s)
    [] m = 4 -> FewerClients(s)
    [] m = 5 -> SmallerCluster(s)
    [] m = 6 -> NoThinking(s)
    [] m = 7 -> PlainerValues(s)

-----------------------------------------------------------------------------
(* The small shapes: quiet scenarios made from scratch, on the key that    *)
(* failed and on the store that failed, with three replicas.  Which        *)
(* operations a seed draws does not matter to the search.                  *)

\* scenario.generate: so many operations for each client.
Generated(shape) ==
  [store |-> [Original.store EXCEPT !.replicas = 3, !.quorum = 2],
   plans |-> [c \in 1 .. shape.clients |-> [i \in 1 .. shape.operations |->
                [key |-> target, argument |-> 1, coordinator |-> 0, think |-> 0]]],
   schedule |-> NoSchedule, origin |-> <<shape.latency, shape.seed>>]

\* In the order of the loops of _small_shapes.
Shapes ==
  FlattenSeq([o \in 1 .. 3 |-> FlattenSeq([c \in 1 .. 2 |-> FlattenSeq([l \in DOMAIN Profiles |->
    [seed \in 1 .. SearchSeeds |->
      [operations |-> o + 1, clients |-> c + 1, latency |-> Profiles[l], seed |-> seed - 1]]])])])

SmallShapes == [i \in DOMAIN Shapes |-> Generated(Shapes[i])]

-----------------------------------------------------------------------------
(* The search.                                                             *)

Candidates ==
  CASE phase = "delete" /\ move <= NMoves -> Produce(move, best, target)
    [] phase = "rebuild" -> SmallShapes
    [] OTHER -> <<>>

\* Mutant: one candidate too many.
AffordableOnceMore == spent <= Budget

Affordable == spent < Budget

Init ==
  /\ phase = "start" /\ move = 1 /\ next = 1 /\ changed = FALSE
  /\ target = NoKey
  /\ best = Original /\ bestRun = NoRun /\ bestSize = 0
  /\ spent = 0 /\ deletedSize = 0 /\ rebuilt = FALSE
  /\ rejected = {}

\* Only a failing scenario is reduced; its run is pinned first.
Start ==
  /\ phase = "start"
  /\ \E run \in Runs :
       IF run.outcome = "violated"
       THEN /\ phase' = "delete" /\ target' = run.key
            /\ best' = Pinned(Original) /\ bestRun' = run
            /\ bestSize' = Weight(Pinned(Original), run)
       ELSE phase' = "refused" /\ UNCHANGED <<target, chosen>>
  /\ UNCHANGED <<move, next, changed, spent, deletedSize, rebuilt, rejected>>

Improves(c, run) == FailsTheSameWay(run) /\ Weight(c, run) < bestSize

\* Execute the next candidate: it becomes the best one, or is dropped.
Execute(c) == Affordable /\ next \in DOMAIN Candidates /\ c = Candidates[next] /\ spent' = spent + 1

\* Mutant: the weight of the best is left as it was.
TakeOnly(c, run) == best' = c /\ bestRun' = run /\ UNCHANGED bestSize

Take(c, run) == best' = c /\ bestRun' = run /\ bestSize' = Weight(c, run)

Improve(c) ==
  /\ c \notin rejected
  /\ \E run \in Runs : Improves(c, run) /\ Take(c, run)
  /\ UNCHANGED rejected

Drop(c) ==
  /\ \E run \in Runs : ~ Improves(c, run)
  /\ rejected' = rejected \cup {c}
  /\ next' = next + 1
  /\ UNCHANGED <<phase, move, changed, chosen, rebuilt>>

\* The first candidate accepted ends a move.
Delete ==
  /\ phase = "delete"
  /\ \E c \in {Candidates[i] : i \in DOMAIN Candidates} :
       /\ Execute(c)
       /\ \/ Drop(c)
          \/ /\ Improve(c)
             /\ changed' = TRUE /\ move' = move + 1 /\ next' = 1
             /\ UNCHANGED <<phase, rebuilt>>
  /\ UNCHANGED <<target, deletedSize>>

\* No candidate is left to try, or to pay for: accept refuses them all.
Exhausted == DOMAIN Candidates \subseteq 1 .. next - 1 \/ ~ Affordable

NextMove ==
  /\ phase = "delete" /\ move <= NMoves /\ Exhausted
  /\ move' = move + 1 /\ next' = 1
  /\ UNCHANGED <<phase, changed, target, chosen, spent, deletedSize, rebuilt, rejected>>

\* Mutant: one pass is enough.
OnePass == FALSE

AnotherPass == changed /\ Affordable

\* Mutant: the size that deletion reached is not noted.
EndPassUnsized ==
  /\ phase = "delete" /\ move > NMoves
  /\ IF AnotherPass THEN UNCHANGED phase ELSE phase' = "rebuild"
  /\ move' = 1 /\ changed' = FALSE
  /\ UNCHANGED <<next, target, chosen, spent, deletedSize, rebuilt, rejected>>

EndPass ==
  /\ phase = "delete" /\ move > NMoves
  /\ IF AnotherPass THEN UNCHANGED <<phase, deletedSize>>
     ELSE phase' = "rebuild" /\ deletedSize' = bestSize
  /\ move' = 1 /\ changed' = FALSE
  /\ UNCHANGED <<next, target, chosen, spent, rebuilt, rejected>>

\* The first small shape accepted ends the search.
Rebuild ==
  /\ phase = "rebuild"
  /\ \E c \in {Candidates[i] : i \in DOMAIN Candidates} :
       /\ Execute(c)
       /\ \/ Drop(c)
          \/ /\ Improve(c)
             /\ rebuilt' = TRUE /\ phase' = "pin"
             /\ UNCHANGED <<move, next, changed>>
  /\ UNCHANGED <<target, deletedSize>>

GiveUp ==
  /\ phase = "rebuild" /\ Exhausted
  /\ phase' = "pin"
  /\ UNCHANGED <<move, next, changed, target, chosen, spent, deletedSize, rebuilt, rejected>>

\* The pinned form is what is reported, if it fails the same way.
Pin ==
  /\ phase = "pin"
  /\ best' = IF FailsTheSameWay(bestRun) THEN Pinned(best) ELSE best
  /\ phase' = "done"
  /\ UNCHANGED <<move, next, changed, target, bestRun, bestSize, spent, deletedSize, rebuilt,
                 rejected>>

Done == phase \in {"done", "refused"} /\ UNCHANGED vars

Next == Start \/ Delete \/ NextMove \/ EndPass \/ Rebuild \/ GiveUp \/ Pin \/ Done

Spec == Init /\ [][Next]_vars

-----------------------------------------------------------------------------
(* Properties.                                                             *)

\* The shape of the search; the best scenario is always one that can be run, and
\* its faults are explicit as long as moves look at them.
TypeOK ==
  /\ phase \in {"start", "delete", "rebuild", "pin", "done", "refused"}
  /\ move \in 1 .. NMoves + 1 /\ next \in Nat \ {0} /\ changed \in BOOLEAN
  /\ target \in Keys \cup {NoKey}
  /\ Runnable(best) /\ (phase = "delete" => best.schedule # NoSchedule)
  /\ bestRun \in Runs \cup {NoRun} /\ bestSize \in Nat
  /\ spent \in Nat /\ deletedSize \in Nat /\ rebuilt \in BOOLEAN

\* The verdict and the size that are reported are those of the scenario that
\* is reported, whose faults are explicit, and it fails on the key the original
\* failed on: wherever the budget ran out, and also after the last pinning,
\* which replaces the scenario and its run but not its size.
ReportIsOfOneRun ==
  /\ phase \notin {"start", "refused"} =>
       /\ bestRun.outcome = "violated" /\ bestRun.key = target
       /\ bestSize = Weight(best, bestRun)
  /\ phase = "done" => best.schedule # NoSchedule

\* No more candidates are executed than the budget allows.
BudgetIsKept == spent <= Budget

\* A deletion that ended by itself ended at a local minimum: every candidate of
\* every move of the best scenario has been executed and rejected, though the
\* moves were tried on different scenarios and one acceptance ends a move.
NothingLeftToDelete ==
  phase = "rebuild" /\ next = 1 /\ Affordable =>
    \A m \in 1 .. NMoves : \A c \in ToSet(Produce(m, best, target)) : c \in rejected

\* What the search found is told apart from what deletion reached: a scenario
\* that was rebuilt is lighter than the one deletion ended with, and one that was
\* not weighs the same (tests/test_shrink.py).
RebuiltIsReported ==
  phase = "done" => IF rebuilt THEN bestSize < deletedSize ELSE bestSize = deletedSize
=============================================================================
