------------------------------ MODULE Register ------------------------------
(***************************************************************************)
(* What the store promises: each key is one register, and the history the  *)
(* clients observed can be explained by applying the operations one at a   *)
(* time, in some order that agrees with real time                          *)
(* (cassette/checker/model.py, and the definition that                     *)
(* cassette/checker/linear.py searches for).                               *)
(*                                                                         *)
(* An operation is a record with kind, argument, expected, completed and   *)
(* result; pre[o] is the set of operations that provably finished before o *)
(* started.                                                                *)
(***************************************************************************)
EXTENDS Integers, Sequences, FiniteSets, Functions

\* The register after op, when it held state.
NextState(state, op) ==
  IF op.kind = "write" \/ (op.kind = "cas" /\ state = op.expected)
  THEN op.argument
  ELSE state

\* What op, a read or a swap, should have returned when the register held state.
Produced(state, op) ==
  IF op.kind = "read" THEN state ELSE IF state = op.expected THEN 1 ELSE 0

\* A write returns nothing that could be wrong.  Nobody knows what an unfinished
\* operation returned: nothing contradicts it.
Matches(op, state) ==
  op.completed /\ op.kind # "write" => op.result = Produced(state, op)

\* States a register that holds start goes through when the operations of order
\* are applied.
StatesAlong(start, ops, order) ==
  LET state[i \in 0 .. Len(order)] ==
        IF i = 0 THEN start ELSE NextState(state[i-1], ops[order[i]])
  IN  state

Explains(start, ops, pre, order) ==
  /\ \A i, j \in 1 .. Len(order) : i < j => order[j] \notin pre[order[i]]
  /\ LET state == StatesAlong(start, ops, order)
     IN  \A i \in 1 .. Len(order) : Matches(ops[order[i]], state[i-1])

\* The ways to line up the elements of a finite set.
Lines(S) == Bijection(1 .. Cardinality(S), S)

Completed(ops) == {o \in DOMAIN ops : ops[o].completed}

\* Completed operations all took effect; unfinished ones may have.
LinearizableFrom(start, ops, pre) ==
  \E unfinished \in SUBSET (DOMAIN ops \ Completed(ops)) :
    \E order \in Lines(Completed(ops) \cup unfinished) : Explains(start, ops, pre, order)
=============================================================================
