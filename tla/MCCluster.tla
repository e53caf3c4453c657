----------------------------- MODULE MCCluster -----------------------------
(* Instances of Cluster for TLC.  Request ids grow along a client's plan,   *)
(* as client.py's do (node * 1_000_000 + 1, + 2, ...).  TLC evaluates what a *)
(* cfg names at every use and what that refers to only once: hence the two  *)
(* names of each plan.                                                      *)
EXTENDS Cluster, TLC

Op(client, kind, argument, expected, coordinator) ==
  [client |-> client, kind |-> kind, key |-> "x", argument |-> argument,
   expected |-> expected, coordinator |-> coordinator]

WriteOp(client, v, n)   == Op(client, "write", v, None, n)
ReadOp(client, n)       == Op(client, "read", None, None, n)
SwapOp(client, e, v, n) == Op(client, "cas", v, e, n)

\* Two writes that race through one coordinator, one of them followed by a read
\* through another: the race that docs/FINDINGS.md begins from.  Or a write,
\* while another client reads twice through different coordinators.
RacesAndReadsOps ==
  (11 :> WriteOp(10, 1, 1)) @@ (12 :> ReadOp(10, 0)) @@ (21 :> WriteOp(20, 2, 1))
    @@ (31 :> WriteOp(30, 1, 0)) @@ (41 :> ReadOp(40, 0)) @@ (42 :> ReadOp(40, 1))
RacesAndReads == RacesAndReadsOps
RacesAndReadsIds == DOMAIN RacesAndReads
RacesOrReads == {{11, 12, 21}, {31, 41, 42}}

\* A write through one coordinator, then another through a second one.
MajorityOps ==
  (11 :> WriteOp(10, 1, 1)) @@ (12 :> WriteOp(10, 2, 0))
Majority == MajorityOps
MajorityIds == DOMAIN Majority

\* One client writes twice and then reads.
OneClientOps ==
  (11 :> WriteOp(10, 1, 0)) @@ (12 :> WriteOp(10, 2, 0)) @@ (13 :> ReadOp(10, 0))
OneClient == OneClientOps
OneClientIds == DOMAIN OneClient

\* A write, then a swap of the value it leaves, through the other replica.
\* The swap is refused when the write has not landed.
WriteThenSwapOps ==
  (11 :> WriteOp(10, 1, 0)) @@ (12 :> SwapOp(10, 1, 2, 1))
WriteThenSwap == WriteThenSwapOps
WriteThenSwapIds == DOMAIN WriteThenSwap

\* One scenario, of all the requests.
AllAtOnce == {Requests}
=============================================================================
