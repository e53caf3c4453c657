------------------------------ MODULE MCFuzzer ------------------------------
(* Instances of Fuzzer for TLC.                                            *)
EXTENDS Fuzzer

Template(preset, nodes, rest) == [preset |-> preset, nodes |-> nodes, rest |-> rest]

\* One preset, on two sizes of cluster.
TwoSizes == {Template("standard", 5, DefaultRest), Template("standard", 3, DefaultRest)}

\* Another size, and keys of its own.
OtherKeys == {Template("standard", 3, DefaultRest), Template("standard", 5, "z")}

\* Only seeds 2 and 3 may be undecided, on three nodes, and what an entry wrongly
\* rebuilds of a failure on five may fail for seed 1 only.
SomeVerdicts ==
  {v \in [Scenarios -> Outcomes] : \A s \in Scenarios :
     /\ v[s] = "exhausted" => s.seed # 1 /\ s.nodes = 3
     /\ s.nodes = 5 /\ s.rest = DefaultRest /\ s.seed # 1 => v[s] = "linearizable"}

AllVerdicts == [Scenarios -> Outcomes]
=============================================================================
