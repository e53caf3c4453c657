---------------------------- MODULE MCSimulation ----------------------------
(* Instances of Simulation and Replayer for TLC.                           *)
EXTENDS Replayer

CONSTANTS a, b, gone

\* A captured schedule, confined to a smaller cluster by the shrinker: replica
\* gone is left out, and a partition cuts off everybody.
Captured ==
  <<InjectedFault(1, "partition", 1, {a, b}), InjectedFault(1, "crash", 3, {a}),
    InjectedFault(1, "pause", 1, {gone}), InjectedFault(2, "partition", 1, {b, gone}),
    InjectedFault(2, "pause", 1, {b})>>
SomeSchedules == {Captured}
NoSchedules == {}
=============================================================================
