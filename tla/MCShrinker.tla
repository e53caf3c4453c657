----------------------------- MODULE MCShrinker -----------------------------
(* Instances of Shrinker for TLC.                                          *)
EXTENDS Shrinker

Op(key, argument, coordinator, think) ==
  [key |-> key, argument |-> argument, coordinator |-> coordinator, think |-> think]

\* Four operations on two keys by two clients, four replicas with a defect,
\* and two faults, one of which a smaller cluster does not feel.
Failing ==
  [store |-> [replicas |-> 4, quorum |-> 3, faithful |-> FALSE],
   plans |-> << <<Op("x", 2, 3, 0), Op("y", 1, 0, 0), Op("x", None, 1, 0)>>,
                <<Op("x", 1, 0, 5)>> >>,
   schedule |-> NoSchedule, origin |-> <<"given", 7>>]

Faults == <<[at |-> 1, targets |-> {3}], [at |-> 2, targets |-> {0, 3}]>>

\* Failures with many or few events, one on another key, one undecided.
SomeRuns ==
  {RunOf("violated", "x", 9), RunOf("violated", "x", 3), RunOf("violated", "y", 3),
   RunOf("exhausted", "x", 3), RunOf("linearizable", NoKey, 3)}

OneProfile == <<"quiet">>
=============================================================================
