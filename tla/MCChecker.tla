----------------------------- MODULE MCChecker -----------------------------
(* Instances of Checker for TLC.                                           *)
EXTENDS Checker

Op(kind, k, argument, expected) ==
  [kind |-> kind, key |-> k, argument |-> argument, expected |-> expected]

\* Two keys: all that can be done to one of them, and swaps of the other.
Mixed ==
  {Op("write", 1, 1, None), Op("cas", 1, 2, 1), Op("read", 1, None, None),
   Op("cas", 2, 1, None)}

\* Reads and one kind of write.
ReadsAndWrites == {Op("write", 1, 1, None), Op("read", 1, None, None)}
=============================================================================
