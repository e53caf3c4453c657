------------------------------ MODULE Cluster ------------------------------
(***************************************************************************)
(* A run: the replicas of Replica, and clients that each work through a    *)
(* plan, one operation at a time, writing down what they saw               *)
(* (cassette/kv/client.py, cassette/checker/history.py,                    *)
(* cassette/runner.py).                                                    *)
(*                                                                         *)
(* A client's plan is its requests in increasing order of id.  The run     *)
(* ends as soon as every client has worked through its plan; the history   *)
(* is then judged.                                                         *)
(***************************************************************************)
EXTENDS Replica, Register

CONSTANT Scenarios  \* sets of requests: a run executes those of one scenario

VARIABLES
  outcome,  \* outcome[r]: "planned", "pending", "ok", "unknown", or "absent"
            \* when r is not part of the scenario
  result,   \* result[r]: what the client was told, once outcome[r] = "ok"
  before    \* before[r]: the operations completed when r was invoked

clientVars  == <<outcome, result, before>>
clusterVars == <<vars, clientVars>>

Clients == {Plan[r].client : r \in Requests}

PlanOf(c) == {r \in Requests : Plan[r].client = c}

\* Mutant: an operation of unknown outcome is waited for.
IsCurrentAfterOk(r) ==
  /\ outcome[r] \in {"planned", "pending"}
  /\ \A q \in PlanOf(Plan[r].client) : q < r => outcome[q] = "ok"

\* The operation a client is at: the first of its plan that is not settled.
IsCurrent(r) ==
  /\ outcome[r] \in {"planned", "pending"}
  /\ \A q \in PlanOf(Plan[r].client) : q < r => outcome[q] \notin {"planned", "pending"}

Finished(c) == \A r \in PlanOf(c) : outcome[r] \notin {"planned", "pending"}

\* runner.execute stops the simulation when this holds.
RunOver == \A c \in Clients : Finished(c)

ClusterInit ==
  /\ Init
  /\ \E scenario \in Scenarios :
       outcome = [r \in Requests |-> IF r \in scenario THEN "planned" ELSE "absent"]
  /\ result  = [r \in Requests |-> None]
  /\ before  = [r \in Requests |-> {}]

\* The timer NEXT_TIMER fires: invoke the operation and send its request.
Issue(r) ==
  /\ outcome[r] = "planned" /\ IsCurrent(r)
  /\ Submit(r)
  /\ outcome' = [outcome EXCEPT ![r] = "pending"]
  /\ before' = [before EXCEPT ![r] = {q \in Requests : outcome[q] = "ok"}]
  /\ UNCHANGED result

\* A write has no result: what the reply carries is ignored.
Result(m) == IF Plan[m.req].kind = "write" THEN None ELSE m.value

\* The answer of a coordinator, if it is the one the client waits for.
Settle(m) ==
  /\ TakeReply(m)
  /\ outcome[m.req] = "pending"
  /\ outcome' = [outcome EXCEPT ![m.req] = IF m.ok THEN "ok" ELSE "unknown"]
  /\ result' = IF m.ok THEN [result EXCEPT ![m.req] = Result(m)] ELSE result
  /\ UNCHANGED before

\* An answer that comes after the client has moved on.
IgnoreReply(m) ==
  /\ TakeReply(m)
  /\ outcome[m.req] # "pending"
  /\ UNCHANGED clientVars

\* The timer PATIENCE_TIMER fires: nobody knows whether the operation landed.
GiveUp(r) ==
  /\ outcome[r] = "pending"
  /\ IF IsOpen(r) \/ \E m \in InFlight : m.req = r THEN LosePatience ELSE UNCHANGED vars
  /\ outcome' = [outcome EXCEPT ![r] = "unknown"]
  /\ UNCHANGED <<result, before>>

ClusterNext ==
  \/ /\ ~ RunOver
     /\ \/ ReplicaStep /\ UNCHANGED clientVars
        \/ \E r \in Requests : Issue(r) \/ GiveUp(r)
        \/ \E m \in InFlight : Settle(m) \/ IgnoreReply(m)
  \/ RunOver /\ UNCHANGED clusterVars

\* The scheduler also fires the clients' timers, and delivers what is sent to
\* them.
ClusterFairness ==
  /\ WF_clusterVars(\E m \in InFlight : Settle(m) \/ IgnoreReply(m))
  /\ WF_clusterVars(HandleMessage /\ UNCHANGED clientVars)
  /\ \A r \in Requests : /\ WF_clusterVars(Issue(r)) /\ WF_clusterVars(GiveUp(r))
                         /\ WF_clusterVars(Timeout(r) /\ UNCHANGED clientVars)
  /\ \A n \in Replicas : WF_clusterVars(Restart(n) /\ UNCHANGED clientVars)

ClusterSpec == ClusterInit /\ [][ClusterNext]_clusterVars

FairClusterSpec == ClusterSpec /\ ClusterFairness

-----------------------------------------------------------------------------
(* The history and its judgement.                                          *)

\* The operations that were invoked on key k, as the history records them.
HistoryOf(k) ==
  [r \in {q \in Requests : outcome[q] \notin {"planned", "absent"} /\ Key(q) = k} |->
     [kind |-> Plan[r].kind, argument |-> Plan[r].argument,
      expected |-> Plan[r].expected,
      completed |-> outcome[r] = "ok", result |-> result[r]]]

\* The verdict of a run: what its clients saw of each key can be explained by
\* one register.  ABD's write-back and quorum overlap are there for this.
Linearizable == RunOver => \A k \in Keys : LinearizableFrom(None, HistoryOf(k), before)

\* An answer never rests on a value older than one that a client had been told
\* about before the operation began, and a write or a swap rests on a newer
\* one.  Read and write quorums overlap for this, and reads write back.
RealTimeOrder ==
  \A a, b \in answered :
    a.durable /\ a.req \in before[b.req] /\ Key(a.req) = Key(b.req) =>
      /\ ~ Newer(a.version, b.version)
      /\ b.durable /\ Plan[b.req].kind # "read" => Newer(b.version, a.version)

\* A swap that was refused wrote nothing: no replica holds its value, and no
\* write of it is on its way.  (Meant for plans whose arguments are distinct.)
RefusedSwapLeavesNoTrace ==
  \A r \in Requests :
    Plan[r].kind = "cas" /\ outcome[r] = "ok" /\ result[r] = NotSwapped =>
      \A c \in Copies(Key(r)) : c.value # Plan[r].argument

\* Without faults every operation is answered: no coordinator waits for an
\* answer that a replica had no reason to withhold.
NoFaultNoDoubt == faults = 0 => \A r \in Requests : outcome[r] # "unknown"

\* Every client works through its plan, whatever is lost or crashes: an answer
\* comes, or the client's own timer does.
PlansFinish == <>RunOver
=============================================================================
