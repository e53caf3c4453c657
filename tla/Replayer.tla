------------------------------ MODULE Replayer ------------------------------
(***************************************************************************)
(* The web replayer beside the simulator whose trace it reads: what        *)
(* buildFrames shows of every replica and of the partition, and what       *)
(* nodeOutages draws as the time a replica is down or frozen               *)
(* (web/src/model.ts).                                                     *)
(*                                                                         *)
(* A step that the simulator records (observer.record) is one event of the *)
(* trace, and the replayer takes it up in the same step.                   *)
(***************************************************************************)
EXTENDS Simulation

VARIABLES
  shown,      \* shown[n]: the status of n in the latest frame
  shownSide,  \* one group of the partition in the latest frame
  open        \* open[n]: the outage of n that has begun and not ended

replayVars == <<shown, shownSide, open>>
watchVars == <<vars, replayVars>>

WatchInit ==
  /\ Init
  /\ shown = [n \in Replicas |-> "up"] /\ shownSide = {}
  /\ open = [n \in {} |-> [from |-> 0, kind |-> "up"]]

SetStatus(n, status) == shown' = [shown EXCEPT ![n] = status]

\* Mutant: an outage that is open already goes on.
OpenFirst(e, kind) ==
  open' = [n \in DOMAIN open \cup {e.node} |->
             IF n \in DOMAIN open THEN open[n] ELSE [from |-> e.time, kind |-> kind]]

\* One outage may be open per node: the latest.
Open(e, kind) ==
  open' = [n \in DOMAIN open \cup {e.node} |->
             IF n = e.node THEN [from |-> e.time, kind |-> kind] ELSE open[n]]

Close(n) == open' = [p \in DOMAIN open \ {n} |-> open[p]]

\* node_crash and node_pause.
GoesOut(e, status) ==
  SetStatus(e.node, status) /\ Open(e, status) /\ UNCHANGED shownSide

\* node_restart and node_resume.
ComesBack(e) ==
  SetStatus(e.node, "up") /\ Close(e.node) /\ UNCHANGED shownSide

\* partition_start and partition_end.
ShowSide(group) == shownSide' = group /\ UNCHANGED <<shown, open>>

WatchNext ==
  \/ \E e \in queue :
       \/ QuietStep(e) /\ UNCHANGED replayVars
       \/ Cut(e) /\ ShowSide(e.action.group)
       \/ Heal(e) /\ ShowSide({})
       \/ Crash(e) /\ GoesOut(e, "down")
       \/ Pause(e) /\ GoesOut(e, "paused")
       \/ (Restart(e) \/ Resume(e)) /\ ComesBack(e)
  \/ Over /\ UNCHANGED replayVars

WatchSpec == WatchInit /\ [][WatchNext]_watchVars

-----------------------------------------------------------------------------
(* Properties.                                                             *)

Status(n) == IF n \in down THEN "down" ELSE IF Paused(n) THEN "paused" ELSE "up"

\* What a reader of the replay sees is what the simulator did, however crashes
\* and pauses of a node overlap: every frame has each replica's status and side
\* right, and the outage drawn for it, if any, has the right kind.
ReplayIsTrue ==
  /\ shownSide = side
  /\ \A n \in Replicas :
       /\ shown[n] = Status(n)
       /\ n \in DOMAIN open <=> Status(n) # "up"
       /\ n \in DOMAIN open => open[n].kind = Status(n)
=============================================================================
