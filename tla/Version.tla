------------------------------ MODULE Version ------------------------------
(***************************************************************************)
(* Version stamps: a counter and, to break ties, the id of the replica     *)
(* that minted the stamp.  Stamps are compared field by field, so two      *)
(* replicas minting at the same time never tie (cassette/kv/version.py).   *)
(***************************************************************************)
EXTENDS Integers

Versions == [counter : Nat, node : Int]

\* What a register holds before any write: older than every minted stamp.
Zero == [counter |-> 0, node |-> -1]

Newer(a, b) ==
  \/ a.counter > b.counter
  \/ a.counter = b.counter /\ a.node > b.node

\* Python's max(a, b): the first argument wins a tie.
Later(a, b) == IF Newer(b, a) THEN b ELSE a

NextFrom(v, n) == [counter |-> v.counter + 1, node |-> n]

\* A held value and the stamp it was written under.
Stored(value, version) == [value |-> value, version |-> version]

\* Mutant: the last value to arrive is kept.
KeepLast(held, offered) == offered

\* Keep whichever of two held values carries the newer stamp; the first one
\* stays when the stamps are equal.
KeepNewer(held, offered) ==
  IF Newer(offered.version, held.version) THEN offered ELSE held
=============================================================================
