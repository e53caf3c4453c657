--------------------------- MODULE ClusterProofs ----------------------------
(***************************************************************************)
(* A run with its clients is a behaviour of the replicas: what is proved   *)
(* of the replicas, for clients that send what they like when they like,   *)
(* holds in every run.                                                     *)
(***************************************************************************)
EXTENDS Cluster, ReplicaProofs

LEMMA InitIsReplicaInit == ClusterInit => Init
BY DEF ClusterInit

\* Issuing is submitting, settling is taking a reply, and giving up is either
\* a client losing patience or nothing the replicas could see.
LEMMA StepIsReplicaStep == [ClusterNext]_clusterVars => [Next]_vars
<1> SUFFICES ASSUME [ClusterNext]_clusterVars PROVE [Next]_vars
  OBVIOUS
<1>1. CASE ReplicaStep
  BY <1>1 DEF Next
<1>2. ASSUME NEW r \in Requests, Issue(r) PROVE Next
  BY <1>2 DEF Issue, Next, ClientStep
<1>3. ASSUME NEW r \in Requests, GiveUp(r) PROVE [Next]_vars
  BY <1>3 DEF GiveUp, Next, ClientStep
<1>4. ASSUME NEW m \in InFlight, Settle(m) \/ IgnoreReply(m) PROVE Next
  BY <1>4 DEF Settle, IgnoreReply, Next, ClientStep
<1>5. CASE UNCHANGED clusterVars
  BY <1>5 DEF clusterVars
<1>6. QED
  BY <1>1, <1>2, <1>3, <1>4, <1>5 DEF ClusterNext

\* Every run of clients and replicas is a behaviour of the replicas alone.
THEOREM ClusterImplementsReplica == ClusterSpec => Spec
BY InitIsReplicaInit, StepIsReplicaStep, PTL DEF ClusterSpec, Spec

\* In every run, W replicas hold what a write quorum stands behind.
THEOREM RunsKeepAnswersDurable == ClusterSpec => []AnsweredIsDurable
BY ClusterImplementsReplica, AnswersAreDurable

\* In every run of replicas that remember the stamps they issued, a stamp names
\* one value.
THEOREM RunsKeepStampsApart ==
  ASSUME StableVersions
  PROVE  ClusterSpec => []StampIdentifiesValue
BY ClusterImplementsReplica, StampsIdentifyValues

-----------------------------------------------------------------------------
(***************************************************************************)
(* The real-time order of a run (Cluster!RealTimeOrder), for every number  *)
(* of replicas whose quorums overlap, when requests are not delivered      *)
(* twice.                                                                  *)
(*                                                                         *)
(* What a client was told before operation r began has, from then on, W    *)
(* informed replicas: each holds it or something newer, and so does every  *)
(* answer of theirs to r, in flight or gathered.  R answers include one of *)
(* these, so r rests on nothing older.                                     *)
(***************************************************************************)

-----------------------------------------------------------------------------
(* Informed replicas.                                                      *)

\* Whatever replica n tells, or has told, the coordinator of r is not older
\* than v.
Tells(n, r, v) ==
  /\ Holds(n, Key(r), v)
  /\ \A m \in InFlight :
       m.type = "ReadReply" /\ m.req = r /\ m.from = n => ~ Newer(v, m.version)
  /\ n \in DOMAIN rounds[r].replies => ~ Newer(v, rounds[r].replies[n].version)

Informed(r, v) == {n \in Replicas : Tells(n, r, v)}

\* What r writes, as far as it has come, respects v, ...
WritesOver(r, v) ==
  rounds[r].phase = "write" =>
    /\ ~ Newer(v, rounds[r].version)
    /\ Plan[r].kind # "read" => Newer(rounds[r].version, v)

\* ... and what r was answered with does.
AnswersOver(r, v) ==
  \A b \in answered : b.req = r =>
    /\ ~ Newer(v, b.version)
    /\ b.durable /\ Plan[r].kind # "read" => Newer(b.version, v)

Respects(r, v) ==
  /\ Cardinality(Informed(r, v)) >= W
  /\ WritesOver(r, v)
  /\ AnswersOver(r, v)

\* Only a read request makes a read reply, out of what its receiver holds.
LEMMA NewReplies ==
  ASSUME TypeOK, [Next]_vars, NEW x \in InFlight', x.type = "ReadReply"
  PROVE  \/ x \in InFlight
         \/ \E m \in InFlight : OnReadRequest(m) /\ x = ReadReply(m, store[m.to][m.key])
<1>1. IsABag(net)
  BY DEF TypeOK
<1>2. CASE Quiet
  BY <1>2 DEF Quiet
<1>3. ASSUME NEW m \in InFlight, NEW out, Handle(m, out)
      PROVE  InFlight' \subseteq InFlight \cup out
  <2>1. net' = Without(m) (+) SetToBag(out)
    BY <1>3 DEF Handle
  <2>2. QED
    BY <1>1, <2>1, NetHandle
<1>4. ASSUME NEW m \in InFlight, OnReadRequest(m), x \notin InFlight
      PROVE  x = ReadReply(m, store[m.to][m.key])
  <2>1. Handle(m, {ReadReply(m, store[m.to][m.key])})
    BY <1>4 DEF OnReadRequest
  <2>2. InFlight' \subseteq InFlight \cup {ReadReply(m, store[m.to][m.key])}
    BY <1>3, <2>1
  <2>3. QED
    BY <1>4, <2>2
<1>5. ASSUME NEW m \in InFlight, OnWriteRequest(m) PROVE x \in InFlight
  <2> DEFINE ack == WriteAck(m)
  <2>1. Handle(m, {ack}) /\ ack.type # "ReadReply"
    BY <1>5 DEF OnWriteRequest, WriteAck
  <2> HIDE DEF ack
  <2>2. QED
    BY <1>3, <2>1
<1>6. ASSUME NEW m \in InFlight, GatherReply(m) PROVE x \in InFlight
  BY <1>1, <1>6, NetConsume DEF GatherReply, Consume
<1>7. ASSUME NEW m \in InFlight, NEW held, Handle(m, ToAll(m.req, held)) PROVE x \in InFlight
  <2> DEFINE out == ToAll(m.req, held)
  <2>1. \A w \in out : w.type # "ReadReply"
    BY DEF ToAll, WriteRequest
  <2>2. Handle(m, out)
    BY <1>7
  <2> HIDE DEF out
  <2>3. QED
    BY <1>3, <2>1, <2>2
<1>8. ASSUME NEW m \in InFlight, WriteBack(m) PROVE x \in InFlight
  BY <1>7, <1>8 DEF WriteBack
<1>9. ASSUME NEW m \in InFlight, StartWrite(m) PROVE x \in InFlight
  <2>1. PICK held : Handle(m, ToAll(m.req, held))
    BY <1>9 DEF StartWrite
  <2>2. QED
    BY <1>7, <2>1
<1>10. QED
  BY <1>2, <1>4, <1>5, <1>6, <1>8, <1>9, StepKinds

\* What a step may do to a round: reset it, count an acknowledgement, gather a
\* reply, or enter its second phase.
LEMMA RoundSteps ==
  ASSUME TypeOK, [Next]_vars, NEW r \in Requests
  PROVE  \/ rounds'[r] = rounds[r]
         \/ rounds'[r] \in {NoRound, NewRound}
         \/ \E acks : rounds'[r] = [rounds[r] EXCEPT !.acks = acks]
         \/ \E m \in InFlight : /\ m.req = r
                               /\ \/ /\ GatherReply(m)
                                     /\ rounds'[r] = [rounds[r] EXCEPT !.replies = RepliesWith(m)]
                                  \/ WriteBack(m)
                                  \/ StartWrite(m)
<1>1. CASE Quiet
  BY <1>1 DEF Quiet
<1>2. ASSUME NEW m \in InFlight, OnReadRequest(m) \/ OnWriteRequest(m)
      PROVE  rounds'[r] = rounds[r]
  BY <1>2 DEF OnReadRequest, OnWriteRequest, nodeVars
<1>3. ASSUME NEW m \in InFlight, GatherReply(m)
      PROVE  \/ rounds'[r] = rounds[r]
             \/ m.req = r /\ rounds'[r] = [rounds[r] EXCEPT !.replies = RepliesWith(m)]
  <2>1. rounds' = [rounds EXCEPT ![m.req] = [rounds[m.req] EXCEPT !.replies = RepliesWith(m)]]
    BY <1>3 DEF GatherReply
  <2>2. QED
    BY <2>1 DEF TypeOK
<1>4. ASSUME NEW m \in InFlight, WriteBack(m) \/ StartWrite(m), m.req # r
      PROVE  rounds'[r] = rounds[r]
  <2>1. PICK round : rounds' = [rounds EXCEPT ![m.req] = round]
    BY <1>4 DEF WriteBack, StartWrite
  <2>2. QED
    BY <1>4, <2>1 DEF TypeOK
<1>5. QED
  BY <1>1, <1>2, <1>3, <1>4, StepKinds

\* An informed replica stays informed.
LEMMA TellsForEver ==
  ASSUME TypeOK, TypeOK', [Next]_vars,
         NEW r \in Requests, NEW v \in Versions, NEW n \in Replicas, Tells(n, r, v)
  PROVE  Tells(n, r, v)'
<1>1. Key(r) \in Keys /\ Holds(n, Key(r), v)
  BY PlanFacts DEF Tells
<1>2. Holds(n, Key(r), v)'
  BY <1>1, HoldsForEver
<1>3. ASSUME NEW x \in InFlight', x.type = "ReadReply", x.req = r, x.from = n
      PROVE  ~ Newer(v, x.version)
  <2>1. CASE x \in InFlight
    BY <1>3, <2>1 DEF Tells
  <2>2. ASSUME NEW m \in InFlight, OnReadRequest(m), x = ReadReply(m, store[m.to][m.key])
        PROVE  ~ Newer(v, x.version)
    <3>1. m.type = "ReadRequest" /\ WellFormed(m)
      BY <2>2 DEF OnReadRequest, Deliverable, TypeOK
    <3>2. m.key = Key(m.req)
      BY <3>1, Fields
    <3>3. m.req = r /\ m.to = n /\ x.version = store[m.to][m.key].version
      BY <1>3, <2>2 DEF ReadReply
    <3>4. QED
      BY <1>1, <3>2, <3>3 DEF Holds
  <2>3. QED
    BY <1>3, <2>1, <2>2, NewReplies
<1>4. ASSUME n \in DOMAIN rounds'[r].replies
      PROVE  ~ Newer(v, rounds'[r].replies[n].version)
  <2>1. PICK heard \in SUBSET Replicas : rounds[r] \in Round(heard)
    BY DEF TypeOK, WellFormedRound
  <2>2. \A value, stamp : /\ DOMAIN NoRound.replies = {} /\ DOMAIN NewRound.replies = {}
                             /\ DOMAIN WriteRound(value, stamp).replies = {}
    BY DEF NoRound, NewRound, WriteRound, RoundIn
  <2>3. CASE rounds'[r] = rounds[r]
    BY <1>4, <2>3 DEF Tells
  <2>4. CASE rounds'[r] \in {NoRound, NewRound}
    BY <1>4, <2>2, <2>4
  <2>5. ASSUME NEW acks, rounds'[r] = [rounds[r] EXCEPT !.acks = acks]
        PROVE  ~ Newer(v, rounds'[r].replies[n].version)
    <3>1. rounds'[r].replies = rounds[r].replies
      BY <2>1, <2>5 DEF Round
    <3>2. QED
      BY <1>4, <3>1 DEF Tells
  <2>6. ASSUME NEW m \in InFlight, m.req = r, GatherReply(m),
               rounds'[r] = [rounds[r] EXCEPT !.replies = RepliesWith(m)]
        PROVE  ~ Newer(v, rounds'[r].replies[n].version)
    <3>1. rounds'[r].replies = RepliesWith(m)
      BY <2>1, <2>6 DEF Round
    <3>2. m.type = "ReadReply" /\ WellFormed(m)
      BY <2>6 DEF GatherReply, Deliverable, TypeOK
    <3>3. CASE n = m.from
      <4>1. RepliesWith(m)[n] = Stored(m.value, m.version)
        BY <3>2, <3>3, RepliesGrow
      <4>2. ~ Newer(v, m.version)
        BY <2>6, <3>2, <3>3 DEF Tells
      <4>3. QED
        BY <3>1, <4>1, <4>2 DEF Stored
    <3>4. CASE n # m.from
      <4>1. n \in DOMAIN rounds[r].replies /\ RepliesWith(m)[n] = rounds[r].replies[n]
        BY <1>4, <2>6, <3>1, <3>2, <3>4, RepliesGrow
      <4>2. QED
        BY <3>1, <4>1 DEF Tells
    <3>5. QED
      BY <3>3, <3>4
  <2>7. ASSUME NEW m \in InFlight, m.req = r, WriteBack(m) \/ StartWrite(m)
        PROVE  DOMAIN rounds'[r].replies = {}
    <3>1. PICK value, stamp : rounds' = [rounds EXCEPT ![m.req] = WriteRound(value, stamp)]
      BY <2>7 DEF WriteBack, StartWrite
    <3>2. rounds'[r] = WriteRound(value, stamp)
      BY <2>7, <3>1 DEF TypeOK
    <3>3. QED
      BY <2>2, <3>2
  <2>8. QED
    BY <1>4, <2>3, <2>4, <2>5, <2>6, <2>7, RoundSteps
<1>5. QED
  BY <1>2, <1>3, <1>4 DEF Tells

LEMMA ReplicasAreFinite ==
  /\ IsFiniteSet(Replicas) /\ Cardinality(Replicas) = N
  /\ \A S \in SUBSET Replicas :
       IsFiniteSet(S) /\ Cardinality(S) \in Nat /\ Cardinality(S) <= N
<1>1. N \in Nat \ {0} /\ 0 \in Int /\ N-1 \in Int
  BY ConfigAssumption
<1>2. IsFiniteSet(Replicas) /\ Cardinality(Replicas) = N
  BY <1>1, FS_Interval DEF Replicas
<1>3. QED
  BY <1>2, FS_Subset, FS_CardinalityType

LEMMA InformedForEver ==
  ASSUME TypeOK, TypeOK', [Next]_vars, NEW r \in Requests, NEW v \in Versions,
         Cardinality(Informed(r, v)) >= W
  PROVE  (Cardinality(Informed(r, v)) >= W)'
<1>1. Informed(r, v) \subseteq Informed(r, v)'
  BY TellsForEver DEF Informed
<1>2. Informed(r, v)' \in SUBSET Replicas
  BY DEF Informed
<1>3. IsFiniteSet(Informed(r, v)')
  BY <1>2, ReplicasAreFinite
<1>4. /\ Cardinality(Informed(r, v)) <= Cardinality(Informed(r, v)')
      /\ Cardinality(Informed(r, v)) \in Nat /\ Cardinality(Informed(r, v)') \in Nat
  BY <1>1, <1>3, FS_Subset, FS_CardinalityType
<1>5. QED
  BY <1>4, ConfigAssumption

\* A read quorum meets the informed replicas: its newest answer is not older.
LEMMA ReadQuorumLearns ==
  ASSUME TypeOK, QuorumsOverlap, NEW m \in InFlight, NEW held \in Replied(m), ReadQuorum(m, held),
         NEW v \in Versions, Cardinality(Informed(m.req, v)) >= W
  PROVE  held.version \in Versions /\ ~ Newer(v, held.version)
<1> DEFINE Heard == DOMAIN RepliesWith(m)
           Known == Informed(m.req, v)
<1>1. m.type = "ReadReply" /\ WellFormed(m)
  BY DEF ReadQuorum, Deliverable, TypeOK
<1>2. Heard \in SUBSET Replicas /\ Known \in SUBSET Replicas
  BY <1>1, RepliesGrow DEF Informed
<1>3. Cardinality(Heard) >= R
  BY DEF ReadQuorum
<1>4. Heard \cap Known # {}
  <2>1. /\ Cardinality(Heard) \in Nat /\ Cardinality(Known) \in Nat
        /\ Cardinality(Heard \cup Known) <= N
        /\ IsFiniteSet(Heard) /\ IsFiniteSet(Known)
    BY <1>2, ReplicasAreFinite
  <2>2. Cardinality(Heard \cup Known)
          = Cardinality(Heard) + Cardinality(Known) - Cardinality(Heard \cap Known)
    BY <2>1, FS_Union
  <2>3. Heard \cap Known = {} => Cardinality(Heard \cap Known) = 0
    BY FS_EmptySet
  <2> HIDE DEF Heard, Known
  <2>4. QED
    BY <1>3, <2>1, <2>2, <2>3, ConfigAssumption DEF QuorumsOverlap, Known
<1>5. PICK n \in Heard : n \in Known
  BY <1>4
<1>6. ~ Newer(v, RepliesWith(m)[n].version)
  <2>1. Tells(n, m.req, v)
    BY <1>5 DEF Informed
  <2>2. CASE n = m.from
    <3>1. RepliesWith(m)[n] = Stored(m.value, m.version)
      BY <1>1, <2>2, RepliesGrow
    <3>2. ~ Newer(v, m.version)
      BY <1>1, <2>1, <2>2 DEF Tells
    <3>3. QED
      BY <3>1, <3>2 DEF Stored
  <2>3. CASE n # m.from
    <3>1. n \in DOMAIN rounds[m.req].replies /\ RepliesWith(m)[n] = rounds[m.req].replies[n]
      BY <1>1, <1>5, <2>3, RepliesGrow
    <3>2. QED
      BY <2>1, <3>1 DEF Tells
  <2>4. QED
    BY <2>2, <2>3
<1>7. RepliesWith(m)[n].version \in Versions /\ held.version \in Versions
  <2>1. RepliesWith(m)[n] \in StoredValues
    BY <1>1, <1>5, RepliesGrow
  <2>2. Deliverable(m, "ReadReply")
    BY DEF ReadQuorum
  <2>3. QED
    BY <2>1, <2>2, ChoiceTyped DEF StoredValues
<1>8. ~ Newer(RepliesWith(m)[n].version, held.version)
  BY <1>5 DEF ReadQuorum, IsNewest
<1>9. QED
  BY <1>6, <1>7, <1>8, NotNewerTransitive

\* The second phase writes what respects v: for a write or a swap, newer.
LEMMA WritesStayOver ==
  ASSUME TypeOK, TypeOK', [Next]_vars, QuorumsOverlap,
         NEW r \in Requests, NEW v \in Versions, Respects(r, v)
  PROVE  WritesOver(r, v)'
<1> SUFFICES ASSUME rounds'[r].phase = "write"
             PROVE  /\ ~ Newer(v, rounds'[r].version)
                    /\ Plan[r].kind # "read" => Newer(rounds'[r].version, v)
  BY DEF WritesOver
<1>1. PICK heard \in SUBSET Replicas : rounds[r] \in Round(heard)
  BY DEF TypeOK, WellFormedRound
<1>2. CASE rounds'[r] = rounds[r]
  BY <1>2 DEF Respects, WritesOver
<1>3. rounds'[r] \notin {NoRound, NewRound}
  BY DEF NoRound, NewRound, RoundIn
<1>4. ASSUME NEW acks, rounds'[r] = [rounds[r] EXCEPT !.acks = acks]
      PROVE  rounds'[r].phase = rounds[r].phase /\ rounds'[r].version = rounds[r].version
  BY <1>1, <1>4 DEF Round
<1>5. ASSUME NEW m \in InFlight, m.req = r,
             rounds'[r] = [rounds[r] EXCEPT !.replies = RepliesWith(m)]
      PROVE  rounds'[r].phase = rounds[r].phase /\ rounds'[r].version = rounds[r].version
  BY <1>1, <1>5 DEF Round
<1>6. ASSUME NEW m \in InFlight, m.req = r, WriteBack(m)
      PROVE  Plan[r].kind = "read" /\ ~ Newer(v, rounds'[r].version)
  <2>1. Plan[r].kind = "read"
    BY <1>6 DEF WriteBack
  <2>2. PICK held \in Replied(m) :
          ReadQuorum(m, held) /\ rounds' = [rounds EXCEPT ![m.req] = WriteRound(held.value, held.version)]
    BY <1>6 DEF WriteBack
  <2>3. rounds'[r].version = held.version
    BY <1>6, <2>2 DEF TypeOK, WriteRound, RoundIn
  <2>4. QED
    BY <1>6, <2>1, <2>2, <2>3, ReadQuorumLearns DEF Respects
<1>7. ASSUME NEW m \in InFlight, m.req = r, StartWrite(m)
      PROVE  Newer(rounds'[r].version, v) /\ ~ Newer(v, rounds'[r].version)
  <2>1. PICK held \in Replied(m) :
          /\ ReadQuorum(m, held)
          /\ rounds' = [rounds EXCEPT ![m.req] = WriteRound(None, Mint(m.to, m.key, held.version))]
    BY <1>7 DEF StartWrite
  <2>2. rounds'[r].version = Mint(m.to, m.key, held.version)
    BY <1>7, <2>1 DEF TypeOK, WriteRound, RoundIn
  <2>3. held.version \in Versions /\ ~ Newer(v, held.version)
    BY <1>7, <2>1, ReadQuorumLearns DEF Respects
  <2>4. m.to \in Replicas /\ m.key \in Keys /\ m.to \in Int
    <3>1. m.type = "ReadReply" /\ WellFormed(m)
      BY <1>7 DEF StartWrite, Deliverable, TypeOK
    <3>2. QED
      BY <3>1, Fields, PlanFacts, ConfigAssumption DEF Replicas
  <2>5. issued[m.to][m.key] \in Versions
    BY <2>4 DEF TypeOK
  <2>6. PICK u \in Versions : /\ Mint(m.to, m.key, held.version) = NextFrom(u, m.to)
                              /\ ~ Newer(held.version, u)
    <3>1. CASE StableVersions
      BY <2>3, <2>5, <3>1, LaterIsMax DEF Mint
    <3>2. CASE ~ StableVersions
      BY <2>3, <3>2, StampsAreOrdered DEF Mint
    <3>3. QED
      BY <3>1, <3>2
  <2>7. ~ Newer(v, u)
    BY <2>3, <2>6, NotNewerTransitive
  <2>8. NextFrom(u, m.to) \in Versions /\ Newer(NextFrom(u, m.to), v)
    BY <2>4, <2>6, <2>7, NextFromIsNewer
  <2>9. ~ Newer(v, NextFrom(u, m.to))
    BY <2>8, StampsAreOrdered
  <2>10. QED
    BY <2>2, <2>6, <2>8, <2>9
<1>8. QED
  BY <1>2, <1>3, <1>4, <1>5, <1>6, <1>7, RoundSteps DEF Respects, WritesOver

\* An answer is new by one of the three steps that close a round.
LEMMA AnswerSteps ==
  ASSUME [Next]_vars, NEW b \in answered', b \notin answered
  PROVE  \E m \in InFlight :
           /\ b.req = m.req
           /\ \/ /\ ~ b.durable
                 /\ \E held \in Replied(m) : ReadQuorum(m, held) /\ b.version = held.version
              \/ FinishWrite(m) /\ b.version = m.version
<1>1. ASSUME NEW r, NEW v, NEW d, NoteAnswer(r, v, d)
      PROVE  b.durable = d /\ b.req = r /\ b.version = v
  BY <1>1 DEF NoteAnswer
<1>2. ASSUME NEW m \in InFlight, FinishRead(m) \/ RefuseSwap(m)
      PROVE  /\ b.req = m.req /\ ~ b.durable
             /\ \E held \in Replied(m) : ReadQuorum(m, held) /\ b.version = held.version
  <2>1. PICK held \in Replied(m) : ReadQuorum(m, held) /\ NoteAnswer(m.req, held.version, FALSE)
    BY <1>2 DEF FinishRead, RefuseSwap
  <2>2. QED
    BY <1>1, <2>1
<1>3. ASSUME NEW m \in InFlight, FinishWrite(m)
      PROVE  b.req = m.req /\ b.version = m.version
  <2>1. answered' = answered \cup {[req |-> m.req, version |-> m.version, durable |-> TRUE]}
    BY <1>3 DEF FinishWrite, NoteAnswer
  <2>2. QED
    BY <2>1
<1>4. ASSUME NEW m \in InFlight, OnMessage(m)
      PROVE  FinishRead(m) \/ RefuseSwap(m) \/ FinishWrite(m)
  BY <1>4 DEF OnMessage, OnReadRequest, OnWriteRequest, OnClientRequest, Ignore, GatherReply,
              WriteBack, StartWrite, GatherAck
<1>5. \E m \in InFlight : OnMessage(m)
  BY NextCases DEF Timeout, Crash, Restart, Lose, Duplicate, DropAtDown, TakeReply, Submit,
                   LosePatience, vars
<1>6. QED
  BY <1>2, <1>3, <1>4, <1>5

LEMMA AnswersStayOver ==
  ASSUME TypeOK, [Next]_vars, QuorumsOverlap,
         NEW r \in Requests, NEW v \in Versions, Respects(r, v)
  PROVE  AnswersOver(r, v)'
<1> SUFFICES ASSUME NEW b \in answered', b.req = r
             PROVE  /\ ~ Newer(v, b.version)
                    /\ b.durable /\ Plan[r].kind # "read" => Newer(b.version, v)
  BY DEF AnswersOver
<1>1. CASE b \in answered
  BY <1>1 DEF Respects, AnswersOver
<1>2. ASSUME NEW m \in InFlight, m.req = r, NEW held \in Replied(m), ReadQuorum(m, held),
             b.version = held.version
      PROVE  ~ Newer(v, b.version)
  BY <1>2, ReadQuorumLearns DEF Respects
<1>3. ASSUME NEW m \in InFlight, m.req = r, FinishWrite(m), b.version = m.version
      PROVE  /\ ~ Newer(v, b.version)
             /\ Plan[r].kind # "read" => Newer(b.version, v)
  BY <1>3 DEF FinishWrite, AwaitsAck, Respects, WritesOver
<1>4. QED
  BY <1>1, <1>2, <1>3, AnswerSteps

\* Once W replicas are informed of v, all that r comes to respects it.
LEMMA RespectsForEver ==
  ASSUME TypeOK, TypeOK', [Next]_vars, QuorumsOverlap,
         NEW r \in Requests, NEW v \in Versions, Respects(r, v)
  PROVE  Respects(r, v)'
BY InformedForEver, WritesStayOver, AnswersStayOver DEF Respects

-----------------------------------------------------------------------------
(* The life of a request: sent once, coordinated once, answered once.      *)

\* The request has not been sent, or has not arrived.
Unstarted(r) == r \notin submitted \/ ClientRequest(r) \in InFlight

StartsOnce(r) ==
  /\ \A m \in InFlight : m.type = "ClientRequest" /\ m.req = r => m = ClientRequest(r)
  /\ r \notin submitted => ClientRequest(r) \notin InFlight
  /\ Unstarted(r) =>
       /\ rounds[r] = NoRound /\ outcome[r] # "ok"
       /\ \A a \in answered : a.req # r
       /\ \A m \in InFlight : m.req = r => m = ClientRequest(r) /\ net[m] = 1

\* A round is closed when its client is told so, and stays so.
Concluded(r) ==
  outcome[r] = "ok" \/ (\E m \in InFlight : m.type = "ClientReply" /\ m.req = r) => ~ IsOpen(r)

\* What precedes an operation has been answered.
PrecededByAnswered(r) == before[r] \subseteq {q \in Requests : outcome[q] = "ok"}

PerRequest ==
  /\ outcome = [r \in Requests |-> outcome[r]]
  /\ before  = [r \in Requests |-> before[r]]

LifeInv ==
  PerRequest /\ \A r \in Requests : StartsOnce(r) /\ Concluded(r) /\ PrecededByAnswered(r)

LEMMA BagCounts ==
  ASSUME NEW bag, IsABag(bag), NEW S
  PROVE  /\ \A e \in DOMAIN (bag (-) SetToBag(S)) :
              /\ (bag (-) SetToBag(S))[e] <= bag[e]
              /\ e \in S => (bag (-) SetToBag(S))[e] = bag[e] - 1
         /\ \A e \in DOMAIN bag \ S : (bag (+) SetToBag(S))[e] = bag[e]
         /\ \A e \in S \ DOMAIN bag : (bag (+) SetToBag(S))[e] = 1
         /\ \A e \in DOMAIN bag : bag[e] = 1 /\ e \in S => e \notin DOMAIN (bag (-) SetToBag(S))
         /\ \A e \in DOMAIN bag : bag[e] \in Nat /\ bag[e] > 0
BY DEF IsABag, SetToBag, (+), (-)

\* Where a message comes from.
LEMMA NewMessages ==
  ASSUME TypeOK, [Next]_vars, NEW x \in InFlight'
  PROVE  \/ x \in InFlight
         \/ \E r \in Requests : Submit(r) /\ x = ClientRequest(r)
         \/ \E m \in InFlight : OnMessage(m) /\ x.req = m.req /\ x.type # "ClientRequest"
                               /\ (x.type = "ClientReply" => rounds'[m.req] = NoRound)
         \/ \E r \in Requests : Timeout(r) /\ x.req = r /\ x.type = "ClientReply"
<1>1. IsABag(net)
  BY DEF TypeOK
<1> DEFINE FromMessage(m) == /\ x.req = m.req /\ x.type # "ClientRequest"
                             /\ (x.type = "ClientReply" => rounds'[m.req] = NoRound)
<1>2. ASSUME NEW m \in InFlight, NEW out, Handle(m, out)
      PROVE  x \in InFlight \/ x \in out
  <2>1. net' = Without(m) (+) SetToBag(out)
    BY <1>2 DEF Handle
  <2>2. QED
    BY <1>1, <2>1, NetHandle
<1>3. ASSUME NEW m \in InFlight, Consume(m) PROVE x \in InFlight
  BY <1>1, <1>3, NetConsume DEF Consume
<1>4. ASSUME NEW m \in InFlight, NEW v, Finish(m, v), x \notin InFlight PROVE FromMessage(m)
  <2>1. x \in {ClientReply(m.req, TRUE, v)} /\ rounds' = [rounds EXCEPT ![m.req] = NoRound]
    BY <1>2, <1>4 DEF Finish
  <2>2. m.req \in Requests
    BY Fields DEF TypeOK
  <2>3. rounds'[m.req] = NoRound
    BY <2>1, <2>2 DEF TypeOK
  <2>4. x.req = m.req /\ x.type = "ClientReply"
    BY <2>1 DEF ClientReply
  <2>5. QED
    BY <2>3, <2>4
<1>5. ASSUME NEW m \in InFlight, NEW held, Handle(m, ToAll(m.req, held)), x \notin InFlight
      PROVE  FromMessage(m)
  <2>1. x \in ToAll(m.req, held)
    BY <1>2, <1>5
  <2>2. QED
    BY <2>1 DEF ToAll, WriteRequest
<1>6. ASSUME NEW m \in InFlight, OnMessage(m), x \notin InFlight PROVE FromMessage(m)
  <2>1. CASE OnReadRequest(m)
    <3>1. x \in {ReadReply(m, store[m.to][m.key])}
      BY <1>2, <1>6, <2>1 DEF OnReadRequest
    <3>2. QED
      BY <3>1 DEF ReadReply
  <2>2. CASE OnWriteRequest(m)
    <3>1. x \in {WriteAck(m)}
      BY <1>2, <1>6, <2>2 DEF OnWriteRequest
    <3>2. QED
      BY <3>1 DEF WriteAck
  <2>3. CASE OnClientRequest(m)
    <3>1. x \in {ReadRequest(m.req, n) : n \in Replicas}
      BY <1>2, <1>6, <2>3 DEF OnClientRequest
    <3>2. QED
      BY <3>1 DEF ReadRequest
  <2>4. CASE Ignore(m) \/ GatherReply(m) \/ GatherAck(m)
    BY <1>3, <1>6, <2>4 DEF Ignore, GatherReply, GatherAck
  <2>5. CASE FinishRead(m) \/ RefuseSwap(m) \/ FinishWrite(m)
    <3>1. \E v : Finish(m, v)
      BY <2>5 DEF FinishRead, RefuseSwap, FinishWrite
    <3>2. QED
      BY <1>4, <1>6, <3>1
  <2>6. CASE WriteBack(m) \/ StartWrite(m)
    <3>1. \E held : Handle(m, ToAll(m.req, held))
      BY <2>6 DEF WriteBack, StartWrite
    <3>2. QED
      BY <1>5, <1>6, <3>1
  <2>7. QED
    BY <1>6, <2>1, <2>2, <2>3, <2>4, <2>5, <2>6 DEF OnMessage
<1>7. ASSUME NEW r \in Requests, Timeout(r), x \notin InFlight
      PROVE  x.req = r /\ x.type = "ClientReply"
  <2>1. x \in {ClientReply(r, FALSE, None)}
    BY <1>1, <1>7, NetSend DEF Timeout
  <2>2. QED
    BY <2>1 DEF ClientReply
<1>8. ASSUME NEW n \in Replicas, Crash(n) \/ Restart(n) PROVE x \in InFlight
  BY <1>8 DEF Crash, Restart, InFlight
<1>9. ASSUME NEW m \in InFlight, Lose(m) \/ Duplicate(m) \/ DropAtDown(m) \/ TakeReply(m)
      PROVE  x \in InFlight
  <2>1. CASE Lose(m)
    BY <1>1, <2>1, NetConsume DEF Lose
  <2>2. CASE Duplicate(m)
    BY <1>1, <2>2, NetSend DEF Duplicate
  <2>3. QED
    BY <1>3, <1>9, <2>1, <2>2 DEF DropAtDown, TakeReply
<1>10. ASSUME NEW r \in Requests, Submit(r), x \notin InFlight PROVE x = ClientRequest(r)
  BY <1>1, <1>10, NetSend DEF Submit
<1>11. CASE LosePatience \/ UNCHANGED vars
  BY <1>11 DEF LosePatience, vars, InFlight
<1>12. QED
  BY <1>6, <1>7, <1>8, <1>9, <1>10, <1>11, NextCases

\* A handler consumes its message and sends no client request.
LEMMA HandlersConsume ==
  ASSUME NEW m, OnMessage(m)
  PROVE  Consume(m) \/ \E out : Handle(m, out) /\ \A x \in out : x.type # "ClientRequest"
<1>1. CASE OnReadRequest(m)
  BY <1>1 DEF OnReadRequest, ReadReply
<1>2. CASE OnWriteRequest(m)
  BY <1>2 DEF OnWriteRequest, WriteAck
<1>3. CASE OnClientRequest(m)
  BY <1>3 DEF OnClientRequest, ReadRequest
<1>4. CASE Ignore(m) \/ GatherReply(m) \/ GatherAck(m)
  BY <1>4 DEF Ignore, GatherReply, GatherAck
<1>5. CASE FinishRead(m) \/ RefuseSwap(m) \/ FinishWrite(m)
  <2>1. PICK v : Finish(m, v)
    BY <1>5 DEF FinishRead, RefuseSwap, FinishWrite
  <2>2. QED
    BY <2>1 DEF Finish, ClientReply
<1>6. CASE WriteBack(m) \/ StartWrite(m)
  <2>1. PICK held : Handle(m, ToAll(m.req, held))
    BY <1>6 DEF WriteBack, StartWrite
  <2>2. QED
    BY <2>1 DEF ToAll, WriteRequest
<1>7. QED
  BY <1>1, <1>2, <1>3, <1>4, <1>5, <1>6 DEF OnMessage

\* No step but its client's sends a request, and a request that is alone is
\* gone when it has been handled.
LEMMA RequestsAreSentOnce ==
  ASSUME TypeOK, [Next]_vars, "ClientRequest" \notin Faults,
         NEW r \in Requests, ~ Submit(r), ClientRequest(r) \in InFlight'
  PROVE  /\ ClientRequest(r) \in InFlight
         /\ net[ClientRequest(r)] = 1 =>
              /\ net'[ClientRequest(r)] = 1
              /\ \A m \in InFlight : OnMessage(m) => m # ClientRequest(r)
<1> DEFINE c == ClientRequest(r)
<1>1. c.type = "ClientRequest" /\ c.req = r
  BY DEF ClientRequest
<1>2. \A q \in Requests : c = ClientRequest(q) => q = r
  BY DEF ClientRequest
<1>3. IsABag(net)
  BY DEF TypeOK
<1> HIDE DEF c
<1>4. c \in InFlight
  BY <1>1, <1>2, NewMessages DEF c
<1>5. IsABag(net')
  <2>1. IsABag(net)' \/ TypeOK'
    BY StepTyped
  <2>2. QED
    BY <2>1 DEF TypeOK
<1>6. net'[c] \in Nat /\ net'[c] > 0
  BY <1>5 DEF c, IsABag, InFlight, BagToSet
<1>7. ASSUME NEW m, net' = Without(m)
      PROVE  net[c] = 1 => net'[c] = 1 /\ m # c
  <2>1. c \in DOMAIN net'
    BY DEF c, InFlight, BagToSet
  <2>2. net'[c] <= net[c] /\ (m = c => net'[c] = net[c] - 1)
    BY <1>3, <1>7, <2>1, BagCounts DEF Without
  <2>3. QED
    BY <1>6, <2>2
<1>8. ASSUME NEW m, NEW out, net' = Without(m) (+) SetToBag(out), \A x \in out : x.type # "ClientRequest"
      PROVE  net[c] = 1 => net'[c] = 1 /\ m # c
  <2>1. c \notin out
    BY <1>1, <1>8
  <2>2. IsABag(Without(m)) /\ DOMAIN net' = DOMAIN Without(m) \cup out
    BY <1>3, <1>8, BagFacts DEF Without
  <2>3. c \in DOMAIN Without(m)
    BY <2>1, <2>2 DEF c, InFlight, BagToSet
  <2>4. net'[c] = Without(m)[c]
    BY <1>8, <2>1, <2>2, <2>3, BagCounts
  <2>5. Without(m)[c] <= net[c] /\ (m = c => Without(m)[c] = net[c] - 1)
    BY <1>3, <2>3, BagCounts DEF Without
  <2>6. QED
    BY <1>6, <2>4, <2>5
<1>9. ASSUME NEW out, net' = net (+) SetToBag(out), c \notin out
      PROVE  net'[c] = net[c]
  BY <1>3, <1>4, <1>9, BagCounts DEF InFlight, BagToSet
<1>10. ASSUME NEW m \in InFlight, OnMessage(m)
       PROVE  net[c] = 1 => net'[c] = 1 /\ m # c
  <2>1. CASE Consume(m)
    BY <1>7, <2>1 DEF Consume
  <2>2. ASSUME NEW out, Handle(m, out), \A x \in out : x.type # "ClientRequest"
        PROVE  net[c] = 1 => net'[c] = 1 /\ m # c
    <3>1. net' = Without(m) (+) SetToBag(out)
      BY <2>2 DEF Handle
    <3>2. QED
      BY <1>8, <2>2, <3>1
  <2>3. QED
    BY <1>10, <2>1, <2>2, HandlersConsume
<1>11. ASSUME ~ \E m \in InFlight : OnMessage(m)
       PROVE  net[c] = 1 => net'[c] = 1
  <2>1. ASSUME NEW q \in Requests, Timeout(q) PROVE net'[c] = net[c]
    <3>1. net' = net (+) SetToBag({ClientReply(q, FALSE, None)})
      BY <2>1 DEF Timeout
    <3>2. c \notin {ClientReply(q, FALSE, None)}
      BY <1>1 DEF ClientReply
    <3>3. QED
      BY <1>9, <3>1, <3>2
  <2>2. ASSUME NEW m \in InFlight, Duplicate(m) PROVE net'[c] = net[c]
    <3>1. net' = net (+) SetToBag({m}) /\ c \notin {m}
      BY <1>1, <2>2 DEF Duplicate, Fault
    <3>2. QED
      BY <1>9, <3>1
  <2>3. ASSUME NEW m \in InFlight, Lose(m) \/ DropAtDown(m) \/ TakeReply(m)
        PROVE  net[c] = 1 => net'[c] = 1
    BY <1>7, <2>3 DEF Lose, DropAtDown, TakeReply, Consume
  <2>4. ASSUME NEW q \in Requests, Submit(q) PROVE net'[c] = net[c]
    <3>1. net' = net (+) SetToBag({ClientRequest(q)}) /\ q # r
      BY <2>4 DEF Submit
    <3>2. c \notin {ClientRequest(q)}
      BY <1>2, <3>1
    <3>3. QED
      BY <1>9, <3>1, <3>2
  <2>5. ASSUME \/ \E n \in Replicas : Crash(n) \/ Restart(n)
               \/ LosePatience \/ UNCHANGED vars
        PROVE  net' = net
    BY <2>5 DEF Crash, Restart, LosePatience, vars
  <2>6. QED
    BY <1>11, <2>1, <2>2, <2>3, <2>4, <2>5, NextCases
<1>12. QED
  BY <1>4, <1>10, <1>11 DEF c


\* A handler leaves the rounds of other requests alone.
LEMMA HandlersKeepToTheirRound ==
  ASSUME TypeOK, NEW m \in InFlight, OnMessage(m), NEW r \in Requests, m.req # r
  PROVE  rounds'[r] = rounds[r]
<1>1. \/ rounds' = rounds
      \/ \E round : rounds' = [rounds EXCEPT ![m.req] = round]
  <2>1. CASE OnReadRequest(m) \/ OnWriteRequest(m) \/ Ignore(m)
    BY <2>1 DEF OnReadRequest, OnWriteRequest, Ignore, nodeVars
  <2>2. CASE OnClientRequest(m)
    BY <2>2 DEF OnClientRequest
  <2>3. CASE GatherReply(m)
    <3>1. rounds' = [rounds EXCEPT ![m.req] = [rounds[m.req] EXCEPT !.replies = RepliesWith(m)]]
      BY <2>3 DEF GatherReply
    <3>2. QED
      BY <3>1
  <2>4. CASE GatherAck(m)
    <3>1. rounds' = [rounds EXCEPT ![m.req] = [rounds[m.req] EXCEPT !.acks = AcksWith(m)]]
      BY <2>4 DEF GatherAck
    <3>2. QED
      BY <3>1
  <2>5. CASE FinishRead(m) \/ RefuseSwap(m) \/ FinishWrite(m)
    BY <2>5 DEF FinishRead, RefuseSwap, FinishWrite, Finish
  <2>6. CASE WriteBack(m) \/ StartWrite(m)
    BY <2>6 DEF WriteBack, StartWrite
  <2>7. QED
    BY <2>1, <2>2, <2>3, <2>4, <2>5, <2>6 DEF OnMessage
<1>2. QED
  BY <1>1 DEF TypeOK

\* A step changes no round but that of the message it handles, or closes it.
LEMMA OtherRounds ==
  ASSUME TypeOK, [Next]_vars, NEW r \in Requests
  PROVE  \/ rounds'[r] = rounds[r]
         \/ rounds'[r] = NoRound
         \/ \E m \in InFlight : OnMessage(m) /\ m.req = r
<1>1. ASSUME NEW m \in InFlight, OnMessage(m), m.req # r PROVE rounds'[r] = rounds[r]
  BY <1>1, HandlersKeepToTheirRound
<1>2. ASSUME NEW q \in Requests, Timeout(q) PROVE rounds'[r] = rounds[r] \/ rounds'[r] = NoRound
  BY <1>2 DEF Timeout, TypeOK
<1>3. ASSUME NEW n \in Replicas, Crash(n) \/ Restart(n)
      PROVE  rounds'[r] = rounds[r] \/ rounds'[r] = NoRound
  BY <1>3 DEF Crash, Restart
<1>4. ASSUME NEW m \in InFlight, Lose(m) \/ Duplicate(m) \/ DropAtDown(m) \/ TakeReply(m)
      PROVE  rounds' = rounds
  BY <1>4 DEF Lose, Duplicate, DropAtDown, TakeReply, nodeVars
<1>5. ASSUME NEW q \in Requests, Submit(q) PROVE rounds' = rounds
  BY <1>5 DEF Submit, nodeVars
<1>6. CASE LosePatience \/ UNCHANGED vars
  BY <1>6 DEF LosePatience, nodeVars, vars
<1>7. QED
  BY <1>1, <1>2, <1>3, <1>4, <1>5, <1>6, NextCases

\* A closed round is only opened by its client's request.
LEMMA OpeningSteps ==
  ASSUME TypeOK, [Next]_vars, NEW r \in Requests, ~ IsOpen(r), IsOpen(r)'
  PROVE  \E m \in InFlight : m.type = "ClientRequest" /\ m.req = r
<1>1. rounds'[r] # rounds[r] /\ rounds'[r] # NoRound
  BY DEF IsOpen, NoRound, RoundIn
<1>2. PICK m \in InFlight : OnMessage(m) /\ m.req = r
  BY <1>1, OtherRounds
<1>3. rounds[r].phase = "closed"
  BY DEF IsOpen
<1>4. ~ AwaitsReply(m) /\ ~ AwaitsAck(m)
  BY <1>2, <1>3 DEF AwaitsReply, AwaitsAck
<1>5. OnReadRequest(m) \/ OnWriteRequest(m) \/ Ignore(m) \/ OnClientRequest(m)
  BY <1>2, <1>4 DEF OnMessage, GatherReply, FinishRead, WriteBack, RefuseSwap, StartWrite,
                    ReadQuorum, GatherAck, FinishWrite
<1>6. OnClientRequest(m)
  BY <1>1, <1>5 DEF OnReadRequest, OnWriteRequest, Ignore, nodeVars
<1>7. QED
  BY <1>2, <1>6 DEF OnClientRequest, Deliverable

\* What a step does to an operation as its client sees it.
LEMMA ClientSteps ==
  ASSUME [ClusterNext]_clusterVars, PerRequest, NEW r \in Requests
  PROVE  /\ outcome[r] = "ok" => outcome'[r] = "ok"
         /\ outcome'[r] = "ok" =>
              \/ outcome[r] = "ok"
              \/ \E m \in InFlight : m.type = "ClientReply" /\ m.req = r
         /\ \/ before'[r] = before[r]
            \/ /\ Submit(r)
               /\ before'[r] = {q \in Requests : outcome[q] = "ok"}
<1>1. CASE UNCHANGED clientVars
  BY <1>1 DEF clientVars
<1>2. ASSUME NEW q \in Requests, Issue(q)
      PROVE  /\ outcome[r] = "ok" <=> outcome'[r] = "ok"
             /\ \/ before'[r] = before[r]
                \/ Submit(r) /\ before'[r] = {p \in Requests : outcome[p] = "ok"}
  <2>1. /\ outcome[q] = "planned" /\ Submit(q)
        /\ outcome' = [outcome EXCEPT ![q] = "pending"]
        /\ before' = [before EXCEPT ![q] = {p \in Requests : outcome[p] = "ok"}]
    BY <1>2 DEF Issue
  <2>2. outcome'[r] = IF r = q THEN "pending" ELSE outcome[r]
    BY <2>1 DEF PerRequest
  <2>3. before'[r] = IF r = q THEN {p \in Requests : outcome[p] = "ok"} ELSE before[r]
    BY <2>1 DEF PerRequest
  <2>4. QED
    BY <2>1, <2>2, <2>3
<1>3. ASSUME NEW q \in Requests, GiveUp(q)
      PROVE  (outcome[r] = "ok" <=> outcome'[r] = "ok") /\ before' = before
  <2>1. /\ outcome[q] = "pending" /\ before' = before
        /\ outcome' = [outcome EXCEPT ![q] = "unknown"]
    BY <1>3 DEF GiveUp
  <2>2. outcome'[r] = IF r = q THEN "unknown" ELSE outcome[r]
    BY <2>1 DEF PerRequest
  <2>3. QED
    BY <2>1, <2>2
<1>4. ASSUME NEW m \in InFlight, Settle(m)
      PROVE  /\ outcome[r] = "ok" => outcome'[r] = "ok"
             /\ outcome'[r] = "ok" => outcome[r] = "ok" \/ (m.type = "ClientReply" /\ m.req = r)
             /\ before' = before
  <2>1. /\ m.type = "ClientReply" /\ outcome[m.req] = "pending" /\ before' = before
        /\ outcome' = [outcome EXCEPT ![m.req] = IF m.ok THEN "ok" ELSE "unknown"]
    BY <1>4 DEF Settle, TakeReply, Deliverable
  <2>2. r # m.req => outcome'[r] = outcome[r]
    BY <2>1 DEF PerRequest
  <2>3. QED
    BY <2>1, <2>2
<1>5. \/ UNCHANGED clientVars
      \/ \E q \in Requests : Issue(q) \/ GiveUp(q)
      \/ \E m \in InFlight : Settle(m)
  BY DEF ClusterNext, IgnoreReply, clusterVars
<1>6. QED
  BY <1>1, <1>2, <1>3, <1>4, <1>5

\* A request that has not arrived is nowhere but in flight, and stays so until
\* it is handled.
LEMMA StartsOnceForEver ==
  ASSUME TypeOK, LifeInv, [ClusterNext]_clusterVars, "ClientRequest" \notin Faults,
         NEW r \in Requests
  PROVE  StartsOnce(r)'
<1> DEFINE c == ClientRequest(r)
<1>1. [Next]_vars /\ IsABag(net) /\ StartsOnce(r)
  BY StepIsReplicaStep DEF TypeOK, LifeInv
<1>2. c.type = "ClientRequest" /\ c.req = r
  BY DEF ClientRequest
<1>3. CASE Submit(r)
  <2>1. /\ r \notin submitted /\ c \notin InFlight /\ rounds[r] = NoRound /\ outcome[r] # "ok"
        /\ (\A a \in answered : a.req # r) /\ \A m \in InFlight : m.req = r => m = c
    BY <1>1, <1>3 DEF Submit, StartsOnce, Unstarted
  <2>2. /\ r \in submitted' /\ net' = net (+) SetToBag({c})
        /\ rounds' = rounds /\ answered' = answered
    BY <1>3 DEF Submit, nodeVars
  <2>3. InFlight' \subseteq InFlight \cup {c}
    BY <1>1, <2>2, NetSend
  <2>4. net'[c] = 1
    BY <1>1, <2>1, <2>2, BagCounts DEF InFlight, BagToSet
  <2>5. outcome'[r] # "ok"
    <3>1. ~ \E m \in InFlight : m.type = "ClientReply" /\ m.req = r
      BY <1>2, <2>1
    <3>2. QED
      BY <2>1, <3>1, ClientSteps DEF LifeInv
  <2> HIDE DEF c
  <2>6. \A m \in InFlight' : m.req = r => m = c /\ net'[m] = 1
    BY <2>1, <2>3, <2>4
  <2>7. QED
    BY <2>1, <2>2, <2>5, <2>6 DEF StartsOnce, c
<1>4. CASE ~ Submit(r)
  <2>1. r \in submitted' => r \in submitted
    <3>1. ASSUME NEW q \in Requests, Submit(q) PROVE submitted' = submitted \cup {q} /\ q # r
      BY <1>4, <3>1 DEF Submit
    <3>2. ASSUME NEW m \in InFlight, OnMessage(m) PROVE submitted' = submitted
      BY <3>2 DEF OnMessage, OnReadRequest, OnWriteRequest, OnClientRequest, Ignore,
                  GatherReply, FinishRead, WriteBack, RefuseSwap, StartWrite, GatherAck, FinishWrite
    <3>3. QED
      BY <1>1, <3>1, <3>2, NextCases
         DEF Timeout, Crash, Restart, Lose, Duplicate, DropAtDown, TakeReply, LosePatience, vars
  <2>2. submitted \subseteq submitted'
    <3>1. ASSUME NEW m \in InFlight, OnMessage(m) PROVE submitted' = submitted
      BY <3>1 DEF OnMessage, OnReadRequest, OnWriteRequest, OnClientRequest, Ignore,
                  GatherReply, FinishRead, WriteBack, RefuseSwap, StartWrite, GatherAck, FinishWrite
    <3>2. QED
      BY <1>1, <3>1, NextCases
         DEF Timeout, Crash, Restart, Lose, Duplicate, DropAtDown, TakeReply, Submit, LosePatience, vars
  <2>3. c \in InFlight' =>
          /\ c \in InFlight
          /\ net[c] = 1 => net'[c] = 1 /\ \A m \in InFlight : OnMessage(m) => m # c
    BY <1>1, <1>4, RequestsAreSentOnce
  <2>4. r \notin submitted' => c \notin InFlight'
    BY <1>1, <2>2, <2>3 DEF StartsOnce
  <2>5. ASSUME Unstarted(r)'
        PROVE  /\ rounds'[r] = NoRound /\ outcome'[r] # "ok"
               /\ \A a \in answered' : a.req # r
               /\ \A m \in InFlight' : m.req = r => m = c /\ net'[m] = 1
    <3>1. Unstarted(r)
      BY <2>2, <2>3, <2>5 DEF Unstarted
    <3>2. /\ rounds[r] = NoRound /\ outcome[r] # "ok" /\ (\A a \in answered : a.req # r)
          /\ \A m \in InFlight : m.req = r => m = c /\ net[m] = 1
      BY <1>1, <3>1 DEF StartsOnce
    <3>3. ASSUME NEW m \in InFlight, OnMessage(m) PROVE m.req # r
      <4>1. SUFFICES ASSUME m.req = r PROVE FALSE
        OBVIOUS
      <4>2. m = c /\ net[c] = 1 /\ r \in submitted
        BY <1>1, <3>2, <4>1 DEF StartsOnce
      <4>3. c \in InFlight'
        BY <2>2, <2>5, <4>2 DEF Unstarted
      <4>4. QED
        BY <2>3, <3>3, <4>2, <4>3
    <3>4. ~ Timeout(r)
      BY <3>2 DEF Timeout, IsOpen, NoRound, RoundIn
    <3>5. ASSUME NEW x \in InFlight', x.req = r PROVE x \in InFlight
      <4>1. \A q \in Requests : Submit(q) /\ x = ClientRequest(q) => q = r
        BY <3>5 DEF ClientRequest
      <4>2. QED
        BY <1>1, <1>4, <3>3, <3>4, <3>5, <4>1, NewMessages
    <3>6. rounds'[r] = NoRound
      BY <1>1, <3>2, <3>3, OtherRounds
    <3>7. outcome'[r] # "ok"
      <4>1. ~ \E m \in InFlight : m.type = "ClientReply" /\ m.req = r
        BY <1>2, <3>2
      <4>2. QED
        BY <3>2, <4>1, ClientSteps DEF LifeInv
    <3>8. \A a \in answered' : a.req # r
      <4>1. SUFFICES ASSUME NEW a \in answered', a.req = r PROVE FALSE
        OBVIOUS
      <4>2. PICK m \in InFlight :
              a.req = m.req /\ (Deliverable(m, "ReadReply") \/ Deliverable(m, "WriteAck"))
        <5>1. \A m, held : ReadQuorum(m, held) => Deliverable(m, "ReadReply")
          BY DEF ReadQuorum
        <5>2. \A m : FinishWrite(m) => Deliverable(m, "WriteAck")
          BY DEF FinishWrite
        <5>3. QED
          BY <1>1, <3>2, <4>1, <5>1, <5>2, AnswerSteps
      <4>3. m = c /\ m.type # "ClientRequest"
        BY <3>2, <4>1, <4>2 DEF Deliverable
      <4>4. QED
        BY <1>2, <4>3
    <3>9. QED
      BY <2>3, <3>2, <3>5, <3>6, <3>7, <3>8
  <2>6. ASSUME NEW x \in InFlight', x.type = "ClientRequest", x.req = r PROVE x = c
    <3>1. \A q \in Requests : x = ClientRequest(q) => q = r
      BY <2>6 DEF ClientRequest
    <3>2. x \in InFlight
      BY <1>1, <1>4, <2>6, <3>1, NewMessages
    <3>3. QED
      BY <1>1, <2>6, <3>2 DEF StartsOnce
  <2>7. QED
    BY <2>4, <2>5, <2>6 DEF StartsOnce
<1>5. QED
  BY <1>3, <1>4

\* A client that has been told, or is being told, has no round open.
LEMMA ConcludedForEver ==
  ASSUME TypeOK, LifeInv, [ClusterNext]_clusterVars, NEW r \in Requests
  PROVE  Concluded(r)'
<1>1. [Next]_vars /\ StartsOnce(r) /\ Concluded(r)
  BY StepIsReplicaStep DEF LifeInv
<1>2. ASSUME outcome[r] = "ok" \/ \E m \in InFlight : m.type = "ClientReply" /\ m.req = r
      PROVE  ~ IsOpen(r)'
  <2>1. SUFFICES ASSUME IsOpen(r)' PROVE FALSE
    OBVIOUS
  <2>2. ~ IsOpen(r)
    BY <1>1, <1>2 DEF Concluded
  <2>3. PICK m \in InFlight : m.type = "ClientRequest" /\ m.req = r
    BY <1>1, <2>1, <2>2, OpeningSteps
  <2>4. m = ClientRequest(r)
    BY <1>1, <2>3 DEF StartsOnce
  <2>5. outcome[r] # "ok" /\ \A x \in InFlight : x.req = r => x = m
    BY <1>1, <2>4 DEF StartsOnce, Unstarted
  <2>6. QED
    BY <1>2, <2>3, <2>5
<1>3. outcome'[r] = "ok" =>
        outcome[r] = "ok" \/ \E m \in InFlight : m.type = "ClientReply" /\ m.req = r
  BY ClientSteps DEF LifeInv
<1>4. ASSUME NEW x \in InFlight', x.type = "ClientReply", x.req = r
      PROVE  x \in InFlight \/ rounds'[r] = NoRound
  <2>1. \A q \in Requests : x # ClientRequest(q)
    BY <1>4 DEF ClientRequest
  <2>2. ASSUME NEW q \in Requests, Timeout(q) PROVE rounds'[q] = NoRound
    BY <2>2 DEF Timeout, TypeOK
  <2>3. QED
    BY <1>1, <1>4, <2>1, <2>2, NewMessages
<1>5. rounds'[r] = NoRound => ~ IsOpen(r)'
  BY DEF IsOpen, NoRound, RoundIn
<1>6. QED
  BY <1>2, <1>3, <1>4, <1>5 DEF Concluded

LEMMA InitLives == ClusterInit => LifeInv
<1> SUFFICES ASSUME ClusterInit PROVE LifeInv
  OBVIOUS
<1>1. InFlight = {}
  BY DEF ClusterInit, Init, EmptyBag, SetToBag, InFlight, BagToSet
<1>2. PerRequest /\ \A r \in Requests : outcome[r] # "ok" /\ before[r] = {}
  BY DEF ClusterInit, PerRequest
<1>3. answered = {} /\ \A r \in Requests : rounds[r] = NoRound
  BY DEF ClusterInit, Init
<1>4. QED
  BY <1>1, <1>2, <1>3 DEF LifeInv, StartsOnce, Concluded, PrecededByAnswered

LEMMA StepLives ==
  ASSUME TypeOK, LifeInv, [ClusterNext]_clusterVars, "ClientRequest" \notin Faults
  PROVE  LifeInv'
<1>1. PerRequest'
  <2>1. PerRequest
    BY DEF LifeInv
  <2>2. QED
    BY <2>1 DEF PerRequest, ClusterNext, Issue, GiveUp, Settle, IgnoreReply, clientVars, clusterVars
<1>2. ASSUME NEW r \in Requests PROVE PrecededByAnswered(r)'
  <2>1. before[r] \subseteq {q \in Requests : outcome[q] = "ok"}
    BY DEF LifeInv, PrecededByAnswered
  <2>2. \A q \in Requests : outcome[q] = "ok" => outcome'[q] = "ok"
    BY ClientSteps DEF LifeInv
  <2>3. before'[r] \in {before[r], {q \in Requests : outcome[q] = "ok"}}
    BY ClientSteps DEF LifeInv
  <2>4. QED
    BY <2>1, <2>2, <2>3 DEF PrecededByAnswered
<1>3. QED
  BY <1>1, <1>2, StartsOnceForEver, ConcludedForEver DEF LifeInv

-----------------------------------------------------------------------------
(* The theorem.                                                            *)

\* The client of r had been told of a before r began.
KnownTo(a, r) ==
  a.durable /\ a.req \in before[r] /\ Key(a.req) = Key(r)

OrderInv == \A r \in Requests : \A a \in answered : KnownTo(a, r) => Respects(r, a.version)

\* Nothing is answered anew that an operation has been preceded by.
LEMMA KnownStays ==
  ASSUME TypeOK, LifeInv, [ClusterNext]_clusterVars,
         NEW r \in Requests, NEW a \in answered', KnownTo(a, r)'
  PROVE  /\ a \in answered
         /\ KnownTo(a, r) \/ Submit(r)
<1>1. [Next]_vars
  BY StepIsReplicaStep
<1>2. CASE Submit(r)
  BY <1>2 DEF Submit
<1>3. CASE ~ Submit(r)
  <2>1. before'[r] = before[r]
    BY <1>3, ClientSteps DEF LifeInv
  <2>2. KnownTo(a, r)
    BY <2>1 DEF KnownTo
  <2>3. outcome[a.req] = "ok"
    BY <2>2 DEF KnownTo, LifeInv, PrecededByAnswered
  <2>4. a \in answered
    <3>1. SUFFICES ASSUME a \notin answered PROVE FALSE
      OBVIOUS
    <3>2. PICK m \in InFlight : FinishWrite(m) /\ a.req = m.req
      BY <1>1, <2>2, <3>1, NewAnswers DEF KnownTo
    <3>3. m.req \in Requests /\ rounds[m.req].phase = "write"
      BY <3>2, Fields DEF TypeOK, FinishWrite, AwaitsAck
    <3>4. IsOpen(m.req)
      BY <3>3 DEF IsOpen
    <3>5. QED
      BY <2>3, <3>2, <3>3, <3>4 DEF LifeInv, Concluded
  <2>5. QED
    BY <2>2, <2>4
<1>4. QED
  BY <1>2, <1>3

\* When r begins, all that hold what was answered are informed.
LEMMA BeginsInformed ==
  ASSUME TypeOK, TypeOK', AckInv, LifeInv, [ClusterNext]_clusterVars,
         "ClientRequest" \notin Faults,
         NEW r \in Requests, Submit(r), NEW a \in answered, a.durable, Key(a.req) = Key(r)
  PROVE  Respects(r, a.version)'
<1>1. rounds'[r] = NoRound /\ (\A b \in answered' : b.req # r)
      /\ \A m \in InFlight' : m.req = r => m = ClientRequest(r)
  <2>1. StartsOnce(r) /\ StartsOnce(r)'
    BY StartsOnceForEver DEF LifeInv
  <2>2. r \notin submitted /\ rounds' = rounds /\ answered' = answered
    BY DEF Submit, nodeVars
  <2>3. IsABag(net) /\ net' = net (+) SetToBag({ClientRequest(r)})
    BY DEF TypeOK, Submit
  <2>4. ClientRequest(r) \in InFlight'
    <3>1. DOMAIN net' = DOMAIN net \cup {ClientRequest(r)}
      BY <2>3, BagFacts
    <3>2. QED
      BY <3>1 DEF InFlight, BagToSet
  <2>5. QED
    BY <2>1, <2>4 DEF StartsOnce, Unstarted
<1>2. store' = store
  BY DEF Submit, nodeVars
<1>3. Holders(Key(r), a.version) \subseteq Informed(r, a.version)'
  <2>1. SUFFICES ASSUME NEW n \in Holders(Key(r), a.version) PROVE Tells(n, r, a.version)'
    BY DEF Holders, Informed
  <2>2. Holds(n, Key(r), a.version)'
    BY <1>2 DEF Holders, Holds
  <2>3. \A m \in InFlight' : m.req = r => m.type # "ReadReply"
    BY <1>1 DEF ClientRequest
  <2>4. DOMAIN rounds'[r].replies = {}
    BY <1>1 DEF NoRound, RoundIn
  <2>5. QED
    BY <2>2, <2>3, <2>4 DEF Tells
<1>4. Cardinality(Holders(Key(r), a.version)) >= W
  BY DEF AckInv, AnsweredIsDurable
<1>5. (Cardinality(Informed(r, a.version)) >= W)'
  <2>1. Informed(r, a.version)' \in SUBSET Replicas
    BY DEF Informed
  <2>2. IsFiniteSet(Informed(r, a.version)')
    BY <2>1, ReplicasAreFinite
  <2>3. /\ Cardinality(Holders(Key(r), a.version)) <= Cardinality(Informed(r, a.version)')
        /\ Cardinality(Holders(Key(r), a.version)) \in Nat
        /\ Cardinality(Informed(r, a.version)') \in Nat
    BY <1>3, <2>2, FS_Subset, FS_CardinalityType
  <2>4. QED
    BY <1>4, <2>3, ConfigAssumption
<1>6. WritesOver(r, a.version)' /\ AnswersOver(r, a.version)'
  BY <1>1 DEF WritesOver, AnswersOver, NoRound, RoundIn
<1>7. QED
  BY <1>5, <1>6 DEF Respects

LEMMA StepOrders ==
  ASSUME TypeOK, TypeOK', AckInv, LifeInv, OrderInv, [ClusterNext]_clusterVars,
         QuorumsOverlap, "ClientRequest" \notin Faults
  PROVE  OrderInv'
<1> SUFFICES ASSUME NEW r \in Requests, NEW a \in answered', KnownTo(a, r)'
             PROVE  Respects(r, a.version)'
  BY DEF OrderInv
<1>1. a \in answered /\ (KnownTo(a, r) \/ Submit(r))
  BY KnownStays
<1>2. a.version \in Versions /\ [Next]_vars
  BY <1>1, StepIsReplicaStep DEF TypeOK
<1>3. CASE KnownTo(a, r)
  BY <1>1, <1>2, <1>3, RespectsForEver DEF OrderInv
<1>4. CASE Submit(r)
  <2>1. a.durable /\ Key(a.req) = Key(r)
    BY DEF KnownTo
  <2>2. QED
    BY <1>1, <1>4, <2>1, BeginsInformed
<1>5. QED
  BY <1>1, <1>3, <1>4

\* In every run of replicas whose quorums overlap, and whose network does not
\* deliver a client's request twice, no answer rests on a value older than one
\* that a client had been told about before the operation began, and writes and
\* swaps rest on newer ones.
THEOREM RunsKeepRealTimeOrder ==
  ASSUME QuorumsOverlap, "ClientRequest" \notin Faults
  PROVE  ClusterSpec => []RealTimeOrder
<1> DEFINE Inv == TypeOK /\ AckInv /\ LifeInv /\ OrderInv
<1>1. ClusterInit => Inv
  <2>1. ClusterInit => TypeOK /\ AckInv /\ LifeInv
    BY InitIsReplicaInit, InitTyped, InitAcks, InitLives
  <2>2. ClusterInit => OrderInv
    BY DEF ClusterInit, Init, OrderInv
  <2>3. QED
    BY <2>1, <2>2
<1>2. Inv /\ [ClusterNext]_clusterVars => Inv'
  <2> SUFFICES ASSUME Inv, [ClusterNext]_clusterVars PROVE Inv'
    OBVIOUS
  <2>1. TypeOK'
    BY StepIsReplicaStep, StepTyped
  <2>2. AckInv'
    BY <2>1, StepIsReplicaStep, StepAcks
  <2>3. LifeInv'
    BY StepLives
  <2>4. OrderInv'
    BY <2>1, StepOrders
  <2>5. QED
    BY <2>1, <2>2, <2>3, <2>4
<1>3. Inv => RealTimeOrder
  <2> SUFFICES ASSUME Inv, NEW a \in answered, NEW b \in answered,
                      a.durable, a.req \in before[b.req], Key(a.req) = Key(b.req)
               PROVE  /\ ~ Newer(a.version, b.version)
                      /\ b.durable /\ Plan[b.req].kind # "read" => Newer(b.version, a.version)
    BY DEF RealTimeOrder
  <2>1. b.req \in Requests
    BY DEF TypeOK
  <2>2. Respects(b.req, a.version)
    BY <2>1 DEF OrderInv, KnownTo
  <2>3. QED
    BY <2>2 DEF Respects, AnswersOver
<1>4. QED
  BY <1>1, <1>2, <1>3, PTL DEF ClusterSpec

-----------------------------------------------------------------------------
(***************************************************************************)
(* A run without faults leaves no operation in doubt                       *)
(* (Cluster!NoFaultNoDoubt).  Every replica that an open round has not     *)
(* heard from has the coordinator's question, or its own answer, on the    *)
(* way to it.  A quorum never counts more replicas than there are: a round *)
(* with nothing on the way would have its quorum, and would be closed.     *)
(* So a timer that fires when nothing is on the way has nothing to end.    *)
(***************************************************************************)

\* Which steps send a client its answer, and what they note.
LEMMA NewReplySteps ==
  ASSUME TypeOK, [Next]_vars, NEW x \in InFlight', x.type = "ClientReply", x \notin InFlight
  PROVE  \/ \E r \in Requests : Timeout(r) /\ x = ClientReply(r, FALSE, None)
         \/ \E m \in InFlight : RefuseSwap(m) /\ x = ClientReply(m.req, TRUE, NotSwapped)
         \/ \E m \in InFlight : FinishRead(m) /\ \E held \in Replied(m) :
              /\ ReadQuorum(m, held)
              /\ NoteAnswer(m.req, held.version, FALSE)
              /\ x = ClientReply(m.req, TRUE, held.value)
         \/ \E m \in InFlight : FinishWrite(m) /\ x = ClientReply(m.req, TRUE, Answer(m.req))
<1>1. IsABag(net)
  BY DEF TypeOK
<1>2. ASSUME NEW r \in Requests, Submit(r), x = ClientRequest(r) PROVE FALSE
  BY <1>2 DEF ClientRequest
<1>3. ASSUME NEW r \in Requests, Timeout(r) PROVE x = ClientReply(r, FALSE, None)
  <2>1. InFlight' \subseteq InFlight \cup {ClientReply(r, FALSE, None)}
    BY <1>1, <1>3, NetSend DEF Timeout
  <2>2. QED
    BY <2>1
<1>4. ASSUME NEW m \in InFlight, NEW v, Finish(m, v)
      PROVE  x = ClientReply(m.req, TRUE, v)
  <2>1. net' = Without(m) (+) SetToBag({ClientReply(m.req, TRUE, v)})
    BY <1>4 DEF Finish, Handle
  <2>2. InFlight' \subseteq InFlight \cup {ClientReply(m.req, TRUE, v)}
    BY <1>1, <2>1, NetHandle
  <2>3. QED
    BY <2>2
<1>5. ASSUME NEW m \in InFlight, NEW out, Handle(m, out), \A y \in out : y.type # "ClientReply"
      PROVE  FALSE
  <2>1. net' = Without(m) (+) SetToBag(out)
    BY <1>5 DEF Handle
  <2>2. InFlight' \subseteq InFlight \cup out
    BY <1>1, <2>1, NetHandle
  <2>3. QED
    BY <1>5, <2>2
<1>6. ASSUME NEW m \in InFlight, OnMessage(m), ~ FinishRead(m), ~ RefuseSwap(m), ~ FinishWrite(m)
      PROVE  FALSE
  <2>1. CASE OnReadRequest(m)
    BY <1>5, <2>1 DEF OnReadRequest, ReadReply
  <2>2. CASE OnWriteRequest(m)
    BY <1>5, <2>2 DEF OnWriteRequest, WriteAck
  <2>3. CASE OnClientRequest(m)
    BY <1>5, <2>3 DEF OnClientRequest, ReadRequest
  <2>4. CASE Ignore(m) \/ GatherReply(m) \/ GatherAck(m)
    BY <1>1, <2>4, NetConsume DEF Ignore, GatherReply, GatherAck, Consume
  <2>5. CASE WriteBack(m) \/ StartWrite(m)
    <3>1. PICK held : Handle(m, ToAll(m.req, held))
      BY <2>5 DEF WriteBack, StartWrite
    <3>2. \A y \in ToAll(m.req, held) : y.type # "ClientReply"
      BY DEF ToAll, WriteRequest
    <3>3. QED
      BY <1>5, <3>1, <3>2
  <2>6. QED
    BY <1>6, <2>1, <2>2, <2>3, <2>4, <2>5 DEF OnMessage
<1>7. ASSUME NEW m \in InFlight, FinishRead(m)
      PROVE  \E held \in Replied(m) :
              /\ ReadQuorum(m, held)
              /\ NoteAnswer(m.req, held.version, FALSE)
              /\ x = ClientReply(m.req, TRUE, held.value)
  <2>1. PICK held \in Replied(m) :
          ReadQuorum(m, held) /\ NoteAnswer(m.req, held.version, FALSE) /\ Finish(m, held.value)
    BY <1>7 DEF FinishRead
  <2>2. x = ClientReply(m.req, TRUE, held.value)
    BY <1>4, <2>1
  <2>3. QED
    BY <2>1, <2>2
<1>8. ASSUME NEW m \in InFlight, RefuseSwap(m) PROVE x = ClientReply(m.req, TRUE, NotSwapped)
  <2>1. Finish(m, NotSwapped)
    BY <1>8 DEF RefuseSwap
  <2>2. QED
    BY <1>4, <2>1
<1>9. ASSUME NEW m \in InFlight, FinishWrite(m) PROVE x = ClientReply(m.req, TRUE, Answer(m.req))
  BY <1>4, <1>9 DEF FinishWrite
<1>10. QED
  BY <1>2, <1>3, <1>6, <1>7, <1>8, <1>9, NewMessages

\* Who has answered the open round of r, and how many answers it needs.
Heard(r) == IF rounds[r].phase = "read" THEN DOMAIN rounds[r].replies ELSE rounds[r].acks

Quorum(r) == IF rounds[r].phase = "read" THEN R ELSE W

\* A question to replica n about r's open round, or n's answer, is on its way.
Asked(r, n) ==
  \E m \in InFlight :
    /\ m.req = r
    /\ \/ rounds[r].phase = "read" /\ m.type = "ReadRequest" /\ m.to = n
       \/ rounds[r].phase = "read" /\ m.type = "ReadReply" /\ m.from = n
       \/ rounds[r].phase = "write" /\ m.type = "WriteRequest" /\ m.to = n /\ m.version = rounds[r].version
       \/ rounds[r].phase = "write" /\ m.type = "WriteAck" /\ m.from = n /\ m.version = rounds[r].version

\* An open round lacks answers, and whoever has not answered will.
Waits(r) ==
  IsOpen(r) => /\ Cardinality(Heard(r)) < Quorum(r)
               /\ \A n \in Replicas \ Heard(r) : Asked(r, n)

\* Without faults, no node is down, nobody is refused, and open rounds wait for
\* answers that will come.
Undisturbed ==
  faults = 0 =>
    /\ down = {}
    /\ \A r \in Requests : Waits(r)
    /\ \A m \in InFlight : m.type = "ClientReply" => m.ok

\* What a step leaves in flight.
LEMMA NetKeeps ==
  ASSUME IsABag(net), NEW m
  PROVE  /\ \A out : net' = Without(m) (+) SetToBag(out) => (InFlight \ {m}) \cup out \subseteq InFlight'
         /\ net' = Without(m) => InFlight \ {m} \subseteq InFlight'
         /\ \A out : net' = net (+) SetToBag(out) => InFlight \cup out \subseteq InFlight'
<1>1. IsABag(Without(m)) /\ DOMAIN net \ {m} \subseteq DOMAIN Without(m)
  <2>1. \A e \in DOMAIN net \ {m} : e \in DOMAIN (net (-) SetToBag({m}))
    BY DEF IsABag, SetToBag, (-)
  <2>2. QED
    BY <2>1, BagFacts DEF Without
<1>2. ASSUME NEW out, net' = Without(m) (+) SetToBag(out)
      PROVE  (InFlight \ {m}) \cup out \subseteq InFlight'
  <2>1. DOMAIN net' = DOMAIN Without(m) \cup out
    BY <1>1, <1>2, BagFacts
  <2>2. QED
    BY <1>1, <2>1 DEF InFlight, BagToSet
<1>3. ASSUME net' = Without(m) PROVE InFlight \ {m} \subseteq InFlight'
  BY <1>1, <1>3 DEF InFlight, BagToSet
<1>4. ASSUME NEW out, net' = net (+) SetToBag(out) PROVE InFlight \cup out \subseteq InFlight'
  <2>1. DOMAIN net' = DOMAIN net \cup out
    BY <1>4, BagFacts
  <2>2. QED
    BY <2>1 DEF InFlight, BagToSet
<1>5. QED
  BY <1>2, <1>3, <1>4

\* An open round that waits has something in flight.
LEMMA OpenRoundsAreBusy ==
  ASSUME TypeOK, NEW r \in Requests, Waits(r), IsOpen(r)
  PROVE  \E m \in InFlight : m.req = r
<1>1. PICK heard \in SUBSET Replicas : rounds[r] \in Round(heard)
  BY DEF TypeOK, WellFormedRound
<1>2. Heard(r) \in SUBSET Replicas /\ Quorum(r) <= N
  BY <1>1, ConfigAssumption DEF Heard, Quorum, Round
<1>3. IsFiniteSet(Replicas) /\ Cardinality(Replicas) = N
  BY ReplicasAreFinite
<1>4. Heard(r) # Replicas
  BY <1>2, <1>3, ConfigAssumption DEF Waits, Quorum
<1>5. QED
  BY <1>2, <1>4 DEF Waits, Asked

\* A round that is left alone goes on waiting while its messages stay.
LEMMA KeepsWaiting ==
  ASSUME NEW r \in Requests, Waits(r), rounds'[r] = rounds[r],
         \A x \in InFlight : x.req = r =>
           \/ x \in InFlight'
           \/ x.type \notin {"ReadRequest", "ReadReply", "WriteRequest", "WriteAck"}
  PROVE  Waits(r)'
<1>1. IsOpen(r)' = IsOpen(r) /\ Heard(r)' = Heard(r) /\ Quorum(r)' = Quorum(r)
  BY DEF IsOpen, Heard, Quorum
<1>2. ASSUME NEW n, Asked(r, n) PROVE Asked(r, n)'
  BY <1>2 DEF Asked
<1>3. QED
  BY <1>1, <1>2 DEF Waits

\* Handling a message takes it, and only it, off the network.
LEMMA HandlersLeaveTheRest ==
  ASSUME TypeOK, NEW m \in InFlight, OnMessage(m)
  PROVE  InFlight \ {m} \subseteq InFlight'
<1>1. Consume(m) \/ \E out : Handle(m, out)
  BY HandlersConsume
<1>2. QED
  BY <1>1, NetKeeps DEF Consume, Handle, TypeOK

\* An answer that is handled is counted, replaced by what it calls for, or was
\* not waited for.
LEMMA HandlersKeepWaiting ==
  ASSUME TypeOK, NEW m \in InFlight, OnMessage(m), Waits(m.req)
  PROVE  Waits(m.req)'
<1> DEFINE r == m.req
<1>1. /\ r \in Requests /\ IsABag(net) /\ InFlight \ {m} \subseteq InFlight'
      /\ rounds = [q \in Requests |-> rounds[q]] /\ WellFormed(m)
  BY HandlersLeaveTheRest, Fields DEF TypeOK
<1>2. ASSUME rounds'[r] = NoRound PROVE Waits(r)'
  BY <1>2 DEF Waits, IsOpen, NoRound, RoundIn
<1>3. ASSUME rounds' = rounds,
             \A n \in Replicas : Asked(r, n) => Asked(r, n)'
      PROVE  Waits(r)'
  <2>1. IsOpen(r)' = IsOpen(r) /\ Heard(r)' = Heard(r) /\ Quorum(r)' = Quorum(r)
    BY <1>3 DEF IsOpen, Heard, Quorum
  <2>2. QED
    BY <1>3, <2>1 DEF Waits
<1>4. CASE OnReadRequest(m)
  <2> DEFINE reply == ReadReply(m, store[m.to][m.key])
  <2>1. rounds' = rounds /\ Handle(m, {reply}) /\ m.type = "ReadRequest"
    BY <1>4 DEF OnReadRequest, nodeVars, Deliverable
  <2>2. reply.type = "ReadReply" /\ reply.req = r /\ reply.from = m.to
    BY DEF ReadReply
  <2> HIDE DEF reply
  <2>3. reply \in InFlight'
    BY <1>1, <2>1, NetKeeps DEF Handle
  <2>4. ASSUME NEW n \in Replicas, Asked(r, n) PROVE Asked(r, n)'
    <3>1. PICK x \in InFlight :
            /\ x.req = r
            /\ \/ rounds[r].phase = "read" /\ x.type = "ReadRequest" /\ x.to = n
               \/ rounds[r].phase = "read" /\ x.type = "ReadReply" /\ x.from = n
               \/ rounds[r].phase = "write" /\ x.type = "WriteRequest" /\ x.to = n /\ x.version = rounds[r].version
               \/ rounds[r].phase = "write" /\ x.type = "WriteAck" /\ x.from = n /\ x.version = rounds[r].version
      BY <2>4 DEF Asked
    <3>2. CASE x # m
      BY <1>1, <2>1, <3>1, <3>2 DEF Asked
    <3>3. CASE x = m
      BY <2>1, <2>2, <2>3, <3>1, <3>3 DEF Asked
    <3>4. QED
      BY <3>2, <3>3
  <2>5. QED
    BY <1>3, <2>1, <2>4
<1>5. CASE OnWriteRequest(m)
  <2> DEFINE ack == WriteAck(m)
  <2>1. rounds' = rounds /\ Handle(m, {ack}) /\ m.type = "WriteRequest"
    BY <1>5 DEF OnWriteRequest, Deliverable
  <2>2. ack.type = "WriteAck" /\ ack.req = r /\ ack.from = m.to /\ ack.version = m.version
    BY DEF WriteAck
  <2> HIDE DEF ack
  <2>3. ack \in InFlight'
    BY <1>1, <2>1, NetKeeps DEF Handle
  <2>4. ASSUME NEW n \in Replicas, Asked(r, n) PROVE Asked(r, n)'
    <3>1. PICK x \in InFlight :
            /\ x.req = r
            /\ \/ rounds[r].phase = "read" /\ x.type = "ReadRequest" /\ x.to = n
               \/ rounds[r].phase = "read" /\ x.type = "ReadReply" /\ x.from = n
               \/ rounds[r].phase = "write" /\ x.type = "WriteRequest" /\ x.to = n /\ x.version = rounds[r].version
               \/ rounds[r].phase = "write" /\ x.type = "WriteAck" /\ x.from = n /\ x.version = rounds[r].version
      BY <2>4 DEF Asked
    <3>2. CASE x # m
      BY <1>1, <2>1, <3>1, <3>2 DEF Asked
    <3>3. CASE x = m
      BY <2>1, <2>2, <2>3, <3>1, <3>3 DEF Asked
    <3>4. QED
      BY <3>2, <3>3
  <2>5. QED
    BY <1>3, <2>1, <2>4
<1>6. CASE OnClientRequest(m)
  <2>1. rounds' = [rounds EXCEPT ![r] = NewRound] /\ Handle(m, {ReadRequest(r, n) : n \in Replicas})
    BY <1>6 DEF OnClientRequest
  <2>2. {ReadRequest(r, n) : n \in Replicas} \subseteq InFlight'
    BY <1>1, <2>1, NetKeeps DEF Handle
  <2>3. rounds'[r].phase = "read" /\ DOMAIN rounds'[r].replies = {}
    BY <1>1, <2>1 DEF NewRound, RoundIn
  <2>4. ASSUME NEW n \in Replicas PROVE Asked(r, n)'
    <3>1. ReadRequest(r, n) \in InFlight'
      BY <2>2
    <3>2. QED
      BY <2>3, <3>1 DEF Asked, ReadRequest
  <2>5. Heard(r)' = {} /\ Quorum(r)' = R
    BY <2>3 DEF Heard, Quorum
  <2>6. QED
    BY <2>4, <2>5, FS_EmptySet, ConfigAssumption DEF Waits
<1>7. CASE Ignore(m)
  <2>1. rounds' = rounds
    BY <1>7 DEF Ignore, nodeVars
  <2>2. /\ m.type \in {"ClientRequest", "ReadReply", "WriteAck"}
        /\ m.type = "ReadReply" => rounds[r].phase # "read"
        /\ m.type = "WriteAck" => rounds[r].phase # "write" \/ m.version # rounds[r].version
    BY <1>1, <1>7, Fields DEF Ignore, Deliverable, AwaitsReply, AwaitsAck
  <2>3. ASSUME NEW n \in Replicas, Asked(r, n) PROVE Asked(r, n)'
    BY <1>1, <2>1, <2>2, <2>3 DEF Asked
  <2>4. QED
    BY <1>3, <2>1, <2>3
<1>8. CASE GatherReply(m)
  <2> DEFINE heard == DOMAIN RepliesWith(m)
  <2>1. /\ rounds[r].phase = "read" /\ Cardinality(heard) < R
        /\ rounds' = [rounds EXCEPT ![r] = [rounds[r] EXCEPT !.replies = RepliesWith(m)]]
        /\ m.type = "ReadReply"
    BY <1>8 DEF GatherReply, AwaitsReply, Deliverable
  <2>2. heard = DOMAIN rounds[r].replies \cup {m.from}
    BY DEF RepliesWith
  <2>3. rounds'[r].phase = "read" /\ DOMAIN rounds'[r].replies = heard
    <3>1. PICK replies : replies = RepliesWith(m)
      OBVIOUS
    <3>2. rounds'[r] = [rounds[r] EXCEPT !.replies = replies]
      BY <1>1, <2>1, <3>1
    <3>3. PICK had \in SUBSET Replicas : rounds[r] \in Round(had)
      BY <1>1 DEF TypeOK, WellFormedRound
    <3>4. rounds'[r].phase = rounds[r].phase /\ rounds'[r].replies = replies
      BY <3>2, <3>3 DEF Round
    <3>5. QED
      BY <2>1, <3>1, <3>4
  <2> HIDE DEF heard
  <2>4. Heard(r)' = heard /\ Heard(r) = DOMAIN rounds[r].replies /\ Quorum(r)' = R
    BY <2>1, <2>3 DEF Heard, Quorum
  <2>5. ASSUME NEW n \in Replicas \ heard PROVE Asked(r, n)'
    <3>1. Asked(r, n) /\ n # m.from
      BY <2>1, <2>2, <2>4 DEF Waits, IsOpen
    <3>2. QED
      BY <1>1, <2>1, <2>3, <3>1 DEF Asked
  <2>6. QED
    BY <2>1, <2>4, <2>5 DEF Waits
<1>9. CASE FinishRead(m) \/ RefuseSwap(m) \/ FinishWrite(m)
  <2>1. \E v : Finish(m, v)
    BY <1>9 DEF FinishRead, RefuseSwap, FinishWrite
  <2>2. rounds'[r] = NoRound
    BY <1>1, <2>1 DEF Finish
  <2>3. QED
    BY <1>2, <2>2
<1>10. CASE WriteBack(m) \/ StartWrite(m)
  <2>1. PICK v, held : /\ rounds' = [rounds EXCEPT ![r] = WriteRound(v, held.version)]
                       /\ Handle(m, ToAll(r, held))
    <3>1. CASE WriteBack(m)
      BY <3>1 DEF WriteBack
    <3>2. CASE StartWrite(m)
      <4>1. PICK minted : /\ rounds' = [rounds EXCEPT ![r] = WriteRound(None, minted)]
                          /\ Handle(m, ToAll(r, Stored(Plan[r].argument, minted)))
        BY <3>2 DEF StartWrite
      <4>2. minted = Stored(Plan[r].argument, minted).version
        BY DEF Stored
      <4>3. QED
        BY <4>1, <4>2
    <3>3. QED
      BY <1>10, <3>1, <3>2
  <2>2. ToAll(r, held) \subseteq InFlight'
    BY <1>1, <2>1, NetKeeps DEF Handle
  <2>3. rounds'[r].phase = "write" /\ rounds'[r].acks = {} /\ rounds'[r].version = held.version
    BY <1>1, <2>1 DEF WriteRound, RoundIn
  <2>4. ASSUME NEW n \in Replicas PROVE Asked(r, n)'
    <3>1. WriteRequest(r, n, held.value, held.version) \in InFlight'
      BY <2>2 DEF ToAll
    <3>2. QED
      BY <2>3, <3>1 DEF Asked, WriteRequest
  <2>5. Heard(r)' = {} /\ Quorum(r)' = W
    BY <2>3 DEF Heard, Quorum
  <2>6. QED
    BY <2>4, <2>5, FS_EmptySet, ConfigAssumption DEF Waits
<1>11. CASE GatherAck(m)
  <2> DEFINE heard == AcksWith(m)
  <2>1. /\ rounds[r].phase = "write" /\ m.version = rounds[r].version
        /\ rounds' = [rounds EXCEPT ![r] = [rounds[r] EXCEPT !.acks = heard]]
        /\ m.type = "WriteAck" /\ Cardinality(heard) < W
    BY <1>11 DEF GatherAck, AwaitsAck, Deliverable
  <2>2. heard = rounds[r].acks \cup {m.from}
    BY DEF AcksWith
  <2> HIDE DEF heard
  <2>3. rounds'[r].phase = "write" /\ rounds'[r].acks = heard /\ rounds'[r].version = rounds[r].version
    <3>1. rounds'[r] = [rounds[r] EXCEPT !.acks = heard]
      BY <1>1, <2>1
    <3>2. PICK had \in SUBSET Replicas : rounds[r] \in Round(had)
      BY <1>1 DEF TypeOK, WellFormedRound
    <3>3. QED
      BY <2>1, <3>1, <3>2 DEF Round
  <2>4. Heard(r)' = heard /\ Heard(r) = rounds[r].acks /\ Quorum(r)' = W
    BY <2>1, <2>3 DEF Heard, Quorum
  <2>5. ASSUME NEW n \in Replicas \ heard PROVE Asked(r, n)'
    <3>1. Asked(r, n) /\ n # m.from
      BY <2>1, <2>2, <2>4 DEF Waits, IsOpen
    <3>2. QED
      BY <1>1, <2>1, <2>3, <3>1 DEF Asked
  <2>6. QED
    BY <2>1, <2>4, <2>5 DEF Waits
<1>12. QED
  BY <1>4, <1>5, <1>6, <1>7, <1>8, <1>9, <1>10, <1>11 DEF OnMessage

\* Faults are counted, and the count never goes down.
LEMMA NoFaultsBefore ==
  ASSUME TypeOK, [Next]_vars, faults' = 0
  PROVE  faults = 0 /\ \A kind : ~ Fault(kind)
<1>1. faults \in Nat
  BY DEF TypeOK
<1>2. \A kind : ~ Fault(kind)
  BY <1>1 DEF Fault
<1>3. faults' = faults
  BY <1>1, <1>2, NextCases
     DEF Crash, Restart, Lose, Duplicate, DropAtDown, TakeReply, Submit, LosePatience, vars,
         Timeout, CountTimeout, Consume, Handle, OnMessage, OnReadRequest, OnWriteRequest,
         OnClientRequest, Ignore, GatherReply, FinishRead, WriteBack, RefuseSwap, StartWrite,
         GatherAck, FinishWrite, Finish
<1>4. QED
  BY <1>2, <1>3

\* No step disturbs what no fault has disturbed.
LEMMA StepUndisturbed ==
  ASSUME TypeOK, Undisturbed, [Next]_vars
  PROVE  Undisturbed'
<1> SUFFICES ASSUME faults' = 0
             PROVE  /\ down' = {}
                    /\ \A r \in Requests : Waits(r)'
                    /\ \A m \in InFlight' : m.type = "ClientReply" => m.ok
  BY DEF Undisturbed
<1>1. faults \in Nat /\ IsABag(net)
  BY DEF TypeOK
<1>2. faults = 0 /\ \A kind : ~ Fault(kind)
  BY NoFaultsBefore
<1>3. /\ down = {}
      /\ \A r \in Requests : Waits(r)
      /\ \A m \in InFlight : m.type = "ClientReply" => m.ok
  BY <1>2 DEF Undisturbed
<1>4. ASSUME NEW r \in Requests PROVE ~ Timeout(r)
  BY <1>2, <1>3, OpenRoundsAreBusy DEF Timeout, CountTimeout
<1>5. \/ \E m \in InFlight : OnMessage(m)
      \/ \E m \in InFlight : TakeReply(m)
      \/ \E r \in Requests : Submit(r)
      \/ UNCHANGED vars
  BY <1>2, <1>3, <1>4, NextCases DEF Crash, Restart, Lose, Duplicate, DropAtDown, LosePatience
<1>6. down' = {}
  BY <1>3, <1>5 DEF OnMessage, OnReadRequest, OnWriteRequest, OnClientRequest, Ignore, GatherReply,
                    FinishRead, WriteBack, RefuseSwap, StartWrite, GatherAck, FinishWrite,
                    TakeReply, Submit, nodeVars, vars
<1>7. \A m \in InFlight' : m.type = "ClientReply" => m.ok
  <2>1. SUFFICES ASSUME NEW x \in InFlight', x.type = "ClientReply", x \notin InFlight PROVE x.ok
    BY <1>3
  <2>2. ASSUME NEW r, NEW v, x = ClientReply(r, TRUE, v) PROVE x.ok
    BY <2>2 DEF ClientReply
  <2>3. \/ \E m \in InFlight : x = ClientReply(m.req, TRUE, NotSwapped)
        \/ \E m \in InFlight : \E held \in Replied(m) : x = ClientReply(m.req, TRUE, held.value)
        \/ \E m \in InFlight : x = ClientReply(m.req, TRUE, Answer(m.req))
    <3>1. \A r \in Requests : ~ (Timeout(r) /\ x = ClientReply(r, FALSE, None))
      BY <1>4
    <3>2. QED
      BY <2>1, <3>1, NewReplySteps
  <2>4. QED
    BY <2>2, <2>3
<1>8. ASSUME NEW r \in Requests PROVE Waits(r)'
  <2>1. ASSUME NEW m \in InFlight, OnMessage(m) PROVE Waits(r)'
    <3>1. CASE m.req = r
      BY <1>3, <2>1, <3>1, HandlersKeepWaiting
    <3>2. CASE m.req # r
      <4>1. rounds'[r] = rounds[r] /\ InFlight \ {m} \subseteq InFlight'
        BY <2>1, <3>2, HandlersKeepToTheirRound, HandlersLeaveTheRest
      <4>2. \A x \in InFlight : x.req = r => x \in InFlight'
        BY <3>2, <4>1
      <4>3. QED
        BY <1>3, <4>1, <4>2, KeepsWaiting
    <3>3. QED
      BY <3>1, <3>2
  <2>2. ASSUME NEW m \in InFlight, TakeReply(m) PROVE Waits(r)'
    <3>1. rounds'[r] = rounds[r] /\ net' = Without(m) /\ m.type = "ClientReply"
      BY <2>2 DEF TakeReply, nodeVars, Consume, Deliverable
    <3>2. InFlight \ {m} \subseteq InFlight'
      BY <1>1, <3>1, NetKeeps
    <3>3. QED
      BY <1>3, <3>1, <3>2, KeepsWaiting
  <2>3. ASSUME NEW q \in Requests, Submit(q) PROVE Waits(r)'
    <3>1. rounds'[r] = rounds[r] /\ InFlight \subseteq InFlight'
      BY <1>1, <2>3, NetKeeps DEF Submit, nodeVars
    <3>2. QED
      BY <1>3, <3>1, KeepsWaiting
  <2>4. CASE UNCHANGED vars
    BY <1>3, <2>4, KeepsWaiting DEF vars, InFlight
  <2>5. QED
    BY <1>5, <2>1, <2>2, <2>3, <2>4
<1>9. QED
  BY <1>6, <1>7, <1>8

\* A request that its client waits for is on its way, being coordinated, or
\* answered.
InHand(r) ==
  IsOpen(r) \/ \E m \in InFlight : m.req = r /\ m.type \in {"ClientRequest", "ClientReply"}

\* Without faults, an operation is settled or in hand.
NoneForgotten ==
  faults = 0 => \A r \in Requests : /\ outcome[r] # "unknown"
                                    /\ outcome[r] = "pending" => InHand(r)

\* A request stays in hand until its client takes the answer.
LEMMA StaysInHand ==
  ASSUME TypeOK, Undisturbed, faults' = 0, faults = 0, NEW r \in Requests, InHand(r),
         \/ ReplicaStep
         \/ \E q \in Requests : Submit(q)
         \/ \E m \in InFlight : TakeReply(m) /\ m.req # r
         \/ UNCHANGED vars
  PROVE  InHand(r)'
<1>1. /\ IsABag(net) /\ down = {} /\ \A q \in Requests : Waits(q)
      /\ rounds = [q \in Requests |-> rounds[q]]
  BY DEF TypeOK, Undisturbed
<1>2. \A kind : ~ Fault(kind)
  BY DEF Fault, TypeOK
<1>3. ASSUME NEW q \in Requests PROVE ~ Timeout(q)
  BY <1>1, <1>2, OpenRoundsAreBusy DEF Timeout, CountTimeout
<1>4. ASSUME rounds'[r] = rounds[r],
             \A m \in InFlight : m.req = r /\ m.type \in {"ClientRequest", "ClientReply"} => m \in InFlight'
      PROVE  InHand(r)'
  BY <1>4 DEF InHand, IsOpen
<1>5. ASSUME NEW m \in InFlight, OnMessage(m) PROVE InHand(r)'
  <2>1. InFlight \ {m} \subseteq InFlight' /\ m.req \in Requests
    BY <1>5, HandlersLeaveTheRest, Fields DEF TypeOK
  <2>2. CASE m.req # r
    <3>1. rounds'[r] = rounds[r]
      BY <1>5, <2>2, HandlersKeepToTheirRound
    <3>2. QED
      BY <1>4, <2>1, <2>2, <3>1
  <2>3. CASE m.req = r /\ rounds' = rounds /\ m.type # "ClientRequest" /\ m.type # "ClientReply"
    BY <1>4, <2>1, <2>3
  <2>4. ASSUME m.req = r, NEW v, Finish(m, v) PROVE InHand(r)'
    <3>1. net' = Without(m) (+) SetToBag({ClientReply(r, TRUE, v)})
      BY <2>4 DEF Finish, Handle
    <3>2. ClientReply(r, TRUE, v) \in InFlight'
      BY <1>1, <3>1, NetKeeps
    <3>3. QED
      BY <3>2 DEF InHand, ClientReply
  <2>5. ASSUME IsOpen(r)' PROVE InHand(r)'
    BY <2>5 DEF InHand
  <2>6. CASE m.req = r
    <3>1. CASE OnReadRequest(m) \/ OnWriteRequest(m)
      BY <2>3, <2>6, <3>1 DEF OnReadRequest, OnWriteRequest, Deliverable, nodeVars
    <3>2. CASE OnClientRequest(m)
      BY <1>1, <2>1, <2>5, <2>6, <3>2 DEF OnClientRequest, IsOpen, NewRound, RoundIn
    <3>3. CASE Ignore(m)
      <4>1. rounds' = rounds
        BY <3>3 DEF Ignore, nodeVars
      <4>2. CASE IsOpen(r)
        BY <2>5, <4>1, <4>2 DEF IsOpen
      <4>3. CASE m.type # "ClientRequest" /\ m.type # "ClientReply"
        BY <2>3, <2>6, <4>1, <4>3
      <4>4. QED
        BY <2>6, <3>3, <4>2, <4>3 DEF Ignore, Deliverable
    <3>4. CASE GatherReply(m) \/ GatherAck(m)
      <4>1. IsOpen(r)
        BY <2>6, <3>4 DEF GatherReply, GatherAck, AwaitsReply, AwaitsAck, IsOpen
      <4>2. PICK had \in SUBSET Replicas : rounds[r] \in Round(had)
        BY DEF TypeOK, WellFormedRound
      <4>3. \E replies, acks : \/ rounds'[r] = [rounds[r] EXCEPT !.replies = replies]
                               \/ rounds'[r] = [rounds[r] EXCEPT !.acks = acks]
        BY <1>1, <2>1, <2>6, <3>4 DEF GatherReply, GatherAck
      <4>4. rounds'[r].phase = rounds[r].phase
        BY <4>2, <4>3 DEF Round
      <4>5. QED
        BY <2>5, <4>1, <4>4 DEF IsOpen
    <3>5. CASE FinishRead(m) \/ RefuseSwap(m) \/ FinishWrite(m)
      <4>1. \E v : Finish(m, v)
        BY <3>5 DEF FinishRead, RefuseSwap, FinishWrite
      <4>2. QED
        BY <2>4, <2>6, <4>1
    <3>6. CASE WriteBack(m) \/ StartWrite(m)
      <4>1. \E v, version : rounds' = [rounds EXCEPT ![r] = WriteRound(v, version)]
        BY <2>6, <3>6 DEF WriteBack, StartWrite
      <4>2. QED
        BY <1>1, <2>5, <4>1 DEF WriteRound, RoundIn, IsOpen
    <3>7. QED
      BY <1>5, <3>1, <3>2, <3>3, <3>4, <3>5, <3>6 DEF OnMessage
  <2>7. QED
    BY <2>2, <2>6
<1>6. ASSUME NEW m \in InFlight, TakeReply(m), m.req # r PROVE InHand(r)'
  <2>1. rounds' = rounds /\ net' = Without(m) /\ m.req # r
    BY <1>6 DEF TakeReply, Consume, nodeVars
  <2>2. InFlight \ {m} \subseteq InFlight'
    BY <1>1, <2>1, NetKeeps
  <2>3. QED
    BY <1>4, <2>1, <2>2
<1>7. ASSUME NEW q \in Requests, Submit(q) PROVE InHand(r)'
  <2>1. rounds' = rounds /\ InFlight \subseteq InFlight'
    BY <1>1, <1>7, NetKeeps DEF Submit, nodeVars
  <2>2. QED
    BY <1>4, <2>1
<1>8. CASE UNCHANGED vars
  BY <1>4, <1>8 DEF vars, InFlight
<1>9. CASE ReplicaStep
  BY <1>1, <1>2, <1>3, <1>5, <1>9 DEF ReplicaStep, Crash, Restart, Lose, Duplicate, DropAtDown
<1>10. QED
  BY <1>6, <1>7, <1>8, <1>9

\* In every run without faults, however many replicas and requests, no
\* operation is left in doubt.
THEOREM FaultlessRunsLeaveNoDoubt == ClusterSpec => []NoFaultNoDoubt
<1> DEFINE Inv == TypeOK /\ PerRequest /\ Undisturbed /\ NoneForgotten
<1>1. ClusterInit => Inv
  <2> SUFFICES ASSUME ClusterInit PROVE Inv
    OBVIOUS
  <2>1. TypeOK /\ PerRequest
    BY InitIsReplicaInit, InitTyped, InitLives DEF LifeInv
  <2>2. /\ InFlight = {} /\ down = {} /\ \A r \in Requests : ~ IsOpen(r)
    BY DEF ClusterInit, Init, EmptyBag, SetToBag, InFlight, BagToSet, IsOpen, NoRound, RoundIn
  <2>3. \A r \in Requests : outcome[r] \in {"planned", "absent"}
    BY DEF ClusterInit
  <2>4. QED
    BY <2>1, <2>2, <2>3 DEF Undisturbed, Waits, NoneForgotten
<1>2. Inv /\ [ClusterNext]_clusterVars => Inv'
  <2> SUFFICES ASSUME Inv, [ClusterNext]_clusterVars PROVE Inv'
    OBVIOUS
  <2>1. [Next]_vars /\ TypeOK' /\ Undisturbed'
    BY StepIsReplicaStep, StepTyped, StepUndisturbed
  <2>2. PerRequest'
    BY DEF PerRequest, ClusterNext, Issue, GiveUp, Settle, IgnoreReply, clusterVars, clientVars
  <2>3. NoneForgotten'
    <3> SUFFICES ASSUME faults' = 0, NEW r \in Requests
                 PROVE  outcome'[r] # "unknown" /\ (outcome'[r] = "pending" => InHand(r)')
      BY DEF NoneForgotten
    <3>1. faults = 0 /\ \A kind : ~ Fault(kind)
      BY <2>1, NoFaultsBefore DEF Fault, TypeOK
    <3>2. outcome[r] # "unknown" /\ (outcome[r] = "pending" => InHand(r))
      BY <3>1 DEF NoneForgotten
    <3>3. ASSUME outcome'[r] = outcome[r],
                 \/ ReplicaStep
                 \/ \E q \in Requests : Submit(q)
                 \/ \E m \in InFlight : TakeReply(m) /\ m.req # r
                 \/ UNCHANGED vars
          PROVE  outcome'[r] # "unknown" /\ (outcome'[r] = "pending" => InHand(r)')
      BY <3>1, <3>2, <3>3, StaysInHand
    <3>4. CASE ReplicaStep /\ UNCHANGED clientVars
      BY <3>3, <3>4 DEF clientVars
    <3>5. ASSUME NEW q \in Requests, Issue(q)
          PROVE  outcome'[r] # "unknown" /\ (outcome'[r] = "pending" => InHand(r)')
      <4>1. Submit(q) /\ outcome' = [outcome EXCEPT ![q] = "pending"]
        BY <3>5 DEF Issue
      <4>2. CASE q = r
        <5>1. ClientRequest(r) \in InFlight'
          BY <4>1, <4>2, NetKeeps DEF Submit, TypeOK
        <5>2. outcome'[r] = "pending"
          BY <4>1, <4>2 DEF PerRequest
        <5>3. QED
          BY <5>1, <5>2 DEF InHand, ClientRequest
      <4>3. CASE q # r
        BY <3>3, <4>1, <4>3 DEF PerRequest
      <4>4. QED
        BY <4>2, <4>3
    <3>6. ASSUME NEW q \in Requests, GiveUp(q)
          PROVE  outcome'[r] # "unknown" /\ (outcome'[r] = "pending" => InHand(r)')
      <4>1. /\ outcome[q] = "pending" /\ outcome' = [outcome EXCEPT ![q] = "unknown"]
            /\ ~ InHand(q) /\ UNCHANGED vars
        BY <3>1, <3>6 DEF GiveUp, LosePatience, InHand
      <4>2. QED
        BY <3>1, <4>1 DEF NoneForgotten
    <3>7. ASSUME NEW m \in InFlight, Settle(m)
          PROVE  outcome'[r] # "unknown" /\ (outcome'[r] = "pending" => InHand(r)')
      <4>1. /\ TakeReply(m) /\ m.type = "ClientReply"
            /\ outcome' = [outcome EXCEPT ![m.req] = IF m.ok THEN "ok" ELSE "unknown"]
        BY <3>7 DEF Settle, TakeReply, Deliverable
      <4>2. m.ok
        BY <3>1, <4>1 DEF Undisturbed
      <4>3. CASE m.req = r
        BY <4>1, <4>2, <4>3 DEF PerRequest
      <4>4. CASE m.req # r
        <5>1. outcome'[r] = outcome[r]
          BY <4>1, <4>4 DEF PerRequest
        <5>2. QED
          BY <3>3, <4>1, <4>4, <5>1
      <4>5. QED
        BY <4>3, <4>4
    <3>8. ASSUME NEW m \in InFlight, IgnoreReply(m)
          PROVE  outcome'[r] # "unknown" /\ (outcome'[r] = "pending" => InHand(r)')
      <4>1. TakeReply(m) /\ outcome' = outcome /\ outcome[m.req] # "pending"
        BY <3>8 DEF IgnoreReply, clientVars
      <4>2. QED
        BY <3>2, <3>3, <4>1
    <3>9. CASE UNCHANGED clusterVars
      BY <3>3, <3>9 DEF clusterVars, clientVars
    <3>10. QED
      BY <3>4, <3>5, <3>6, <3>7, <3>8, <3>9 DEF ClusterNext
  <2>4. QED
    BY <2>1, <2>2, <2>3
<1>3. Inv => NoFaultNoDoubt
  BY DEF NoneForgotten, NoFaultNoDoubt
<1>4. QED
  BY <1>1, <1>2, <1>3, PTL DEF ClusterSpec
=============================================================================
