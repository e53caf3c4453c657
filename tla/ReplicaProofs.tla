--------------------------- MODULE ReplicaProofs ----------------------------
(***************************************************************************)
(* Theorems about Replica, for every number of replicas, every quorum      *)
(* size, every plan and every bound.                                       *)
(***************************************************************************)
EXTENDS Replica, FiniteSetTheorems, TLAPS

-----------------------------------------------------------------------------
(* Version stamps.                                                         *)

\* Two different stamps are always ordered, one way only (version.py:_key).
THEOREM StampsAreOrdered ==
  ASSUME NEW a \in Versions, NEW b \in Versions
  PROVE  /\ a = b \/ Newer(a, b) \/ Newer(b, a)
         /\ ~ (Newer(a, b) /\ Newer(b, a))
         /\ ~ Newer(a, a)
BY DEF Versions, Newer

\* "Not newer than" is transitive.
THEOREM NotNewerTransitive ==
  ASSUME NEW a \in Versions, NEW b \in Versions, NEW c \in Versions,
         ~ Newer(a, b), ~ Newer(b, c)
  PROVE  ~ Newer(a, c)
BY DEF Versions, Newer

\* next_from and max return stamps, and the successor of a stamp is newer than
\* the stamp and than everything the stamp is newer than.
THEOREM NextFromIsNewer ==
  ASSUME NEW v \in Versions, NEW n \in Int
  PROVE  /\ NextFrom(v, n) \in Versions
         /\ NextFrom(v, n).node = n
         /\ NextFrom(v, n).counter = v.counter + 1
         /\ \A u \in Versions : ~ Newer(u, v) => Newer(NextFrom(v, n), u)
BY DEF Versions, Newer, NextFrom

THEOREM LaterIsMax ==
  ASSUME NEW a \in Versions, NEW b \in Versions
  PROVE  /\ Later(a, b) \in {a, b}
         /\ ~ Newer(a, Later(a, b))
         /\ ~ Newer(b, Later(a, b))
BY DEF Versions, Newer, Later

-----------------------------------------------------------------------------
(* The network: what a step leaves in flight was there, or was just sent.  *)

LEMMA BagFacts ==
  ASSUME NEW bag, IsABag(bag), NEW S
  PROVE  /\ IsABag(bag (+) SetToBag(S))
         /\ DOMAIN (bag (+) SetToBag(S)) = DOMAIN bag \cup S
         /\ IsABag(bag (-) SetToBag(S))
         /\ DOMAIN (bag (-) SetToBag(S)) \subseteq DOMAIN bag
BY DEF IsABag, SetToBag, (+), (-)

LEMMA NetHandle ==
  ASSUME IsABag(net), NEW m, NEW out, net' = Without(m) (+) SetToBag(out)
  PROVE  IsABag(net') /\ InFlight' \subseteq InFlight \cup out
<1>1. IsABag(Without(m)) /\ DOMAIN Without(m) \subseteq DOMAIN net
  BY BagFacts DEF Without
<1>2. IsABag(net') /\ DOMAIN net' = DOMAIN Without(m) \cup out
  BY <1>1, BagFacts
<1>3. QED
  BY <1>1, <1>2 DEF InFlight, BagToSet

LEMMA NetSend ==
  ASSUME IsABag(net), NEW out, net' = net (+) SetToBag(out)
  PROVE  IsABag(net') /\ InFlight' \subseteq InFlight \cup out
BY BagFacts DEF InFlight, BagToSet

LEMMA NetConsume ==
  ASSUME IsABag(net), NEW m, net' = Without(m)
  PROVE  IsABag(net') /\ InFlight' \subseteq InFlight
BY BagFacts DEF InFlight, BagToSet, Without

-----------------------------------------------------------------------------
(* Type correctness.                                                       *)

LEMMA PlanFacts ==
  ASSUME NEW r \in Requests
  PROVE  /\ Plan[r] \in PlannedOp
         /\ Coordinator(r) \in Replicas
         /\ Coordinator(r) \in Int
         /\ Key(r) \in Keys
         /\ Plan[r].client \in Int
BY PlanAssumption, ConfigAssumption DEF PlannedOp, Coordinator, Key, Replicas

LEMMA ValueFacts ==
  /\ Zero \in Versions
  /\ Absent \in StoredValues
  /\ NoRound \in Round({})
  /\ NewRound \in Round({})
  /\ \A v \in Values \cup {None}, s \in Versions :
       /\ Stored(v, s) \in StoredValues
       /\ WriteRound(v, s) \in Round({})
BY DEF Zero, Versions, Absent, Stored, StoredValues, NoRound, NewRound, Round, WriteRound, RoundIn

LEMMA OwnMessages ==
  ASSUME NEW r \in Requests, NEW n \in Replicas
  PROVE  /\ WellFormed(ClientRequest(r))
         /\ WellFormed(ReadRequest(r, n))
         /\ \A ok \in BOOLEAN, v \in Answers : WellFormed(ClientReply(r, ok, v))
         /\ \A v \in Values \cup {None}, s \in Versions :
              WellFormed(WriteRequest(r, n, v, s))
<1> USE PlanFacts
<1>1. WellFormed(ClientRequest(r))
  BY DEF WellFormed, Messages, Addressed, ClientRequest
<1>2. WellFormed(ReadRequest(r, n))
  BY DEF WellFormed, Messages, Addressed, ReadRequest
<1>3. ASSUME NEW ok \in BOOLEAN, NEW v \in Answers
      PROVE  WellFormed(ClientReply(r, ok, v))
  BY DEF WellFormed, Messages, Addressed, ClientReply
<1>4. ASSUME NEW v \in Values \cup {None}, NEW s \in Versions
      PROVE  WellFormed(WriteRequest(r, n, v, s))
  BY DEF WellFormed, Messages, Addressed, WriteRequest
<1>5. QED
  BY <1>1, <1>2, <1>3, <1>4

LEMMA Responses ==
  ASSUME NEW m, WellFormed(m)
  PROVE  /\ m.type = "ReadRequest" =>
              \A held \in StoredValues : WellFormed(ReadReply(m, held))
         /\ m.type = "WriteRequest" => WellFormed(WriteAck(m))
BY DEF WellFormed, Messages, Addressed, ReadReply, WriteAck, StoredValues

\* The fields of a message in flight, by its type.
LEMMA Fields ==
  ASSUME NEW m, WellFormed(m)
  PROVE  /\ m.req \in Requests
         /\ m.type \in {"ReadRequest", "ReadReply", "WriteRequest", "WriteAck"} =>
              m.from \in Replicas /\ m.to \in Replicas /\ m.key = Key(m.req)
         /\ m.type \in {"ReadReply", "WriteRequest"} =>
              /\ m.value \in Values \cup {None}
              /\ m.version \in Versions
              /\ Stored(m.value, m.version) \in StoredValues
         /\ m.type = "WriteAck" => m.version \in Versions
         /\ m.type \in {"ClientRequest", "ReadReply", "WriteAck"} =>
              m.to = Coordinator(m.req)
<1>1. /\ m.req \in Requests
      /\ m.type \in {"ReadRequest", "ReadReply", "WriteRequest", "WriteAck"} =>
           m.from \in Replicas /\ m.to \in Replicas
      /\ m.type \in {"ReadReply", "WriteRequest"} =>
              m.value \in Values \cup {None} /\ m.version \in Versions
      /\ m.type = "WriteAck" => m.version \in Versions
  BY DEF WellFormed, Messages
<1>2. QED
  BY <1>1, ValueFacts DEF WellFormed, Addressed

LEMMA RepliesGrow ==
  ASSUME TypeOK, NEW m, WellFormed(m), m.type = "ReadReply"
  PROVE  /\ DOMAIN RepliesWith(m) \in SUBSET Replicas
         /\ RepliesWith(m) \in [DOMAIN RepliesWith(m) -> StoredValues]
         /\ m.from \in DOMAIN RepliesWith(m)
         /\ RepliesWith(m)[m.from] = Stored(m.value, m.version)
         /\ \A n \in DOMAIN RepliesWith(m) :
              n # m.from => /\ n \in DOMAIN rounds[m.req].replies
                            /\ RepliesWith(m)[n] = rounds[m.req].replies[n]
<1>1. PICK heard \in SUBSET Replicas : rounds[m.req] \in Round(heard)
  BY Fields DEF TypeOK, WellFormedRound
<1>2. rounds[m.req].replies \in [heard -> StoredValues]
  BY <1>1 DEF Round
<1>3. m.from \in Replicas /\ Stored(m.value, m.version) \in StoredValues
  BY Fields
<1>4. RepliesWith(m) = [n \in heard \cup {m.from} |->
         IF n = m.from THEN Stored(m.value, m.version) ELSE rounds[m.req].replies[n]]
  BY <1>2 DEF RepliesWith
<1>5. QED
  BY <1>2, <1>3, <1>4

\* What a step must show about the net, the round it touches and the answers.
LEMMA NetTyped ==
  ASSUME TypeOK
  PROVE  /\ \A m, out : Handle(m, out) /\ (\A x \in out : WellFormed(x)) =>
              IsABag(net') /\ (\A x \in InFlight' : WellFormed(x)) /\ faults' \in Nat
         /\ \A m : Consume(m) =>
              IsABag(net') /\ (\A x \in InFlight' : WellFormed(x)) /\ faults' \in Nat
         /\ \A out : net' = net (+) SetToBag(out) /\ (\A x \in out : WellFormed(x)) =>
              IsABag(net') /\ (\A x \in InFlight' : WellFormed(x))
<1>1. IsABag(net) /\ (\A x \in InFlight : WellFormed(x)) /\ faults \in Nat
  BY DEF TypeOK
<1>2. ASSUME NEW m, NEW out, Handle(m, out), \A x \in out : WellFormed(x)
      PROVE  IsABag(net') /\ (\A x \in InFlight' : WellFormed(x)) /\ faults' \in Nat
  <2>1. net' = Without(m) (+) SetToBag(out) /\ faults' = faults
    BY <1>2 DEF Handle
  <2>2. IsABag(net') /\ InFlight' \subseteq InFlight \cup out
    BY <1>1, <2>1, NetHandle
  <2>3. QED
    BY <1>1, <1>2, <2>1, <2>2
<1>3. ASSUME NEW m, Consume(m)
      PROVE  IsABag(net') /\ (\A x \in InFlight' : WellFormed(x)) /\ faults' \in Nat
  <2>1. net' = Without(m) /\ faults' = faults
    BY <1>3 DEF Consume
  <2>2. IsABag(net') /\ InFlight' \subseteq InFlight
    BY <1>1, <2>1, NetConsume
  <2>3. QED
    BY <1>1, <2>1, <2>2
<1>4. ASSUME NEW out, net' = net (+) SetToBag(out), \A x \in out : WellFormed(x)
      PROVE  IsABag(net') /\ (\A x \in InFlight' : WellFormed(x))
  <2>1. IsABag(net') /\ InFlight' \subseteq InFlight \cup out
    BY <1>1, <1>4, NetSend
  <2>2. QED
    BY <1>1, <1>4, <2>1
<1>5. QED
  BY <1>2, <1>3, <1>4

LEMMA RoundTyped ==
  ASSUME TypeOK, NEW r \in Requests, NEW round, WellFormedRound(round),
         rounds' = [rounds EXCEPT ![r] = round]
  PROVE  /\ rounds' = [q \in Requests |-> rounds'[q]]
         /\ \A q \in Requests : WellFormedRound(rounds'[q])
         /\ rounds'[r] = round
         /\ \A q \in Requests \ {r} : rounds'[q] = rounds[q]
BY DEF TypeOK

LEMMA AnswerTyped ==
  ASSUME TypeOK, NEW r \in Requests, NEW v \in Versions, NEW d \in BOOLEAN,
         NoteAnswer(r, v, d)
  PROVE  answered' \in SUBSET [req : Requests, version : Versions, durable : BOOLEAN]
BY DEF TypeOK, NoteAnswer

LEMMA InitTyped == Init => TypeOK
<1> SUFFICES ASSUME Init PROVE TypeOK
  OBVIOUS
<1>1. IsABag(net) /\ InFlight = {}
  BY DEF Init, IsABag, EmptyBag, SetToBag, InFlight, BagToSet
<1>2. rounds = [r \in Requests |-> rounds[r]] /\ \A r \in Requests : WellFormedRound(rounds[r])
  BY ValueFacts DEF Init, WellFormedRound
<1>3. QED
  BY <1>1, <1>2, ValueFacts DEF Init, TypeOK

LEMMA ChoiceTyped ==
  ASSUME TypeOK, NEW m, Deliverable(m, "ReadReply"), NEW held \in Replied(m)
  PROVE  held \in StoredValues /\ held.value \in Values \cup {None} /\ held.version \in Versions
<1>1. WellFormed(m) /\ m.type = "ReadReply"
  BY DEF TypeOK, Deliverable
<1>2. PICK n \in DOMAIN RepliesWith(m) : held = RepliesWith(m)[n]
  BY DEF Replied
<1>3. held \in StoredValues
  BY <1>1, <1>2, RepliesGrow
<1>4. QED
  BY <1>3 DEF StoredValues

LEMMA MintTyped ==
  ASSUME TypeOK, NEW n \in Replicas, NEW k \in Keys, NEW v \in Versions
  PROVE  Mint(n, k, v) \in Versions
<1>1. issued[n][k] \in Versions
  BY DEF TypeOK
<1>2. n \in Int
  BY ConfigAssumption DEF Replicas
<1>3. QED
  BY <1>1, <1>2, LaterIsMax, NextFromIsNewer DEF Mint

LEMMA StorageTyped ==
  ASSUME TypeOK, NEW m, OnReadRequest(m) \/ OnWriteRequest(m)
  PROVE  TypeOK'
<1>1. WellFormed(m)
  BY DEF TypeOK, OnReadRequest, OnWriteRequest, Deliverable
<1>2. CASE OnReadRequest(m)
  <2>1. m.type = "ReadRequest" /\ m.to \in Replicas /\ m.key \in Keys
    BY <1>1, <1>2, Fields, PlanFacts DEF OnReadRequest, Deliverable
  <2>2. WellFormed(ReadReply(m, store[m.to][m.key]))
    BY <1>1, <2>1, Responses DEF TypeOK
  <2>3. Handle(m, {ReadReply(m, store[m.to][m.key])})
    BY <1>2 DEF OnReadRequest
  <2>4. IsABag(net') /\ (\A x \in InFlight' : WellFormed(x)) /\ faults' \in Nat
    BY <2>2, <2>3, NetTyped
  <2>5. QED
    BY <1>2, <2>4 DEF OnReadRequest, nodeVars, TypeOK
<1>3. CASE OnWriteRequest(m)
  <2>1. m.type = "WriteRequest" /\ m.to \in Replicas /\ m.key \in Keys
    BY <1>1, <1>3, Fields, PlanFacts DEF OnWriteRequest, Deliverable
  <2>2. WellFormed(WriteAck(m))
    BY <1>1, <2>1, Responses
  <2>3. IsABag(net') /\ (\A x \in InFlight' : WellFormed(x)) /\ faults' \in Nat
    <3>1. Handle(m, {WriteAck(m)})
      BY <1>3 DEF OnWriteRequest
    <3>2. QED
      BY <2>2, <3>1, NetTyped
  <2>4. KeepNewer(store[m.to][m.key], Stored(m.value, m.version)) \in StoredValues
    BY <1>1, <2>1, Fields DEF KeepNewer, TypeOK
  <2>5. store' \in [Replicas -> [Keys -> StoredValues]]
    BY <1>3, <2>1, <2>4 DEF OnWriteRequest, TypeOK
  <2>6. QED
    BY <1>3, <2>3, <2>5 DEF OnWriteRequest, TypeOK
<1>4. QED
  BY <1>2, <1>3

LEMMA OpeningTyped ==
  ASSUME TypeOK, NEW m, OnClientRequest(m) \/ Ignore(m) \/ GatherReply(m) \/ GatherAck(m)
  PROVE  TypeOK'
<1>1. WellFormed(m)
  BY DEF TypeOK, OnClientRequest, Ignore, GatherReply, GatherAck, Deliverable
<1>2. m.req \in Requests
  BY <1>1, Fields
<1>3. CASE OnClientRequest(m)
  <2>1. \A x \in {ReadRequest(m.req, n) : n \in Replicas} : WellFormed(x)
    BY <1>2, OwnMessages
  <2>2. Handle(m, {ReadRequest(m.req, n) : n \in Replicas})
    BY <1>3 DEF OnClientRequest
  <2>3. IsABag(net') /\ (\A x \in InFlight' : WellFormed(x)) /\ faults' \in Nat
    BY <2>1, <2>2, NetTyped
  <2>4. WellFormedRound(NewRound)
    BY ValueFacts DEF WellFormedRound
  <2>5. rounds' = [q \in Requests |-> rounds'[q]] /\ \A q \in Requests : WellFormedRound(rounds'[q])
    BY <1>2, <1>3, <2>4, RoundTyped DEF OnClientRequest
  <2>6. QED
    BY <1>3, <2>3, <2>5 DEF OnClientRequest, TypeOK
<1>4. CASE Ignore(m)
  <2>1. IsABag(net') /\ (\A x \in InFlight' : WellFormed(x)) /\ faults' \in Nat
    BY <1>4, NetTyped DEF Ignore
  <2>2. QED
    BY <1>4, <2>1 DEF Ignore, nodeVars, TypeOK
<1>5. CASE GatherReply(m)
  <2>1. IsABag(net') /\ (\A x \in InFlight' : WellFormed(x)) /\ faults' \in Nat
    BY <1>5, NetTyped DEF GatherReply
  <2>2. m.type = "ReadReply"
    BY <1>5 DEF GatherReply, Deliverable
  <2>3. PICK heard \in SUBSET Replicas : rounds[m.req] \in Round(heard)
    BY <1>2 DEF TypeOK, WellFormedRound
  <2>4. WellFormedRound([rounds[m.req] EXCEPT !.replies = RepliesWith(m)])
    <3>1. [rounds[m.req] EXCEPT !.replies = RepliesWith(m)] \in Round(DOMAIN RepliesWith(m))
      BY <1>1, <2>2, <2>3, RepliesGrow DEF Round
    <3>2. QED
      BY <1>1, <2>2, <3>1, RepliesGrow DEF WellFormedRound
  <2>5. rounds' = [rounds EXCEPT ![m.req] = [rounds[m.req] EXCEPT !.replies = RepliesWith(m)]]
    BY <1>5 DEF GatherReply
  <2>6. rounds' = [q \in Requests |-> rounds'[q]] /\ \A q \in Requests : WellFormedRound(rounds'[q])
    BY <1>2, <2>4, <2>5, RoundTyped
  <2>7. QED
    BY <1>5, <2>1, <2>6 DEF GatherReply, TypeOK
<1>6. CASE GatherAck(m)
  <2>1. IsABag(net') /\ (\A x \in InFlight' : WellFormed(x)) /\ faults' \in Nat
    BY <1>6, NetTyped DEF GatherAck
  <2>2. m.type = "WriteAck" /\ m.from \in Replicas
    BY <1>1, <1>6, Fields DEF GatherAck, Deliverable
  <2>3. PICK heard \in SUBSET Replicas : rounds[m.req] \in Round(heard)
    BY <1>2 DEF TypeOK, WellFormedRound
  <2>4. WellFormedRound([rounds[m.req] EXCEPT !.acks = AcksWith(m)])
    BY <2>2, <2>3 DEF Round, AcksWith, WellFormedRound
  <2>5. rounds' = [rounds EXCEPT ![m.req] = [rounds[m.req] EXCEPT !.acks = AcksWith(m)]]
    BY <1>6 DEF GatherAck
  <2>6. rounds' = [q \in Requests |-> rounds'[q]] /\ \A q \in Requests : WellFormedRound(rounds'[q])
    BY <1>2, <2>4, <2>5, RoundTyped
  <2>7. QED
    BY <1>6, <2>1, <2>6 DEF GatherAck, TypeOK
<1>7. QED
  BY <1>3, <1>4, <1>5, <1>6

\* The five steps that close a round or start its second phase.
LEMMA FinishTyped ==
  ASSUME TypeOK, NEW m, WellFormed(m), NEW v \in Answers, Finish(m, v)
  PROVE  /\ IsABag(net') /\ (\A x \in InFlight' : WellFormed(x)) /\ faults' \in Nat
         /\ rounds' = [q \in Requests |-> rounds'[q]]
         /\ \A q \in Requests : WellFormedRound(rounds'[q])
<1>1. m.req \in Requests
  BY Fields
<1>2. WellFormed(ClientReply(m.req, TRUE, v))
  BY <1>1, OwnMessages, PlanFacts
<1>3. WellFormedRound(NoRound)
  BY ValueFacts DEF WellFormedRound
<1>4. Handle(m, {ClientReply(m.req, TRUE, v)}) /\ rounds' = [rounds EXCEPT ![m.req] = NoRound]
  BY DEF Finish
<1>5. \A x \in {ClientReply(m.req, TRUE, v)} : WellFormed(x)
  BY <1>2
<1>6. IsABag(net') /\ (\A x \in InFlight' : WellFormed(x)) /\ faults' \in Nat
  BY <1>4, <1>5, NetTyped
<1>7. QED
  BY <1>1, <1>3, <1>4, <1>6, RoundTyped

LEMMA WritePhaseTyped ==
  ASSUME TypeOK, NEW m, WellFormed(m), NEW v \in Values \cup {None},
         NEW res \in Values \cup {None}, NEW s \in Versions,
         Handle(m, ToAll(m.req, Stored(v, s))),
         rounds' = [rounds EXCEPT ![m.req] = WriteRound(res, s)]
  PROVE  /\ IsABag(net') /\ (\A x \in InFlight' : WellFormed(x)) /\ faults' \in Nat
         /\ rounds' = [q \in Requests |-> rounds'[q]]
         /\ \A q \in Requests : WellFormedRound(rounds'[q])
<1>1. m.req \in Requests
  BY Fields
<1>2. \A x \in ToAll(m.req, Stored(v, s)) : WellFormed(x)
  BY <1>1, OwnMessages DEF ToAll, Stored
<1>3. WellFormedRound(WriteRound(res, s))
  BY ValueFacts DEF WellFormedRound
<1>4. IsABag(net') /\ (\A x \in InFlight' : WellFormed(x)) /\ faults' \in Nat
  BY <1>2, NetTyped
<1>5. QED
  BY <1>1, <1>3, <1>4, RoundTyped

LEMMA QuorumTyped ==
  ASSUME TypeOK, NEW m,
         FinishRead(m) \/ WriteBack(m) \/ RefuseSwap(m) \/ StartWrite(m)
  PROVE  TypeOK'
<1>1. Deliverable(m, "ReadReply") /\ WellFormed(m) /\ m.type = "ReadReply"
  BY DEF TypeOK, FinishRead, WriteBack, RefuseSwap, StartWrite, Deliverable
<1>2. m.req \in Requests /\ m.to = Coordinator(m.req) /\ m.key = Key(m.req)
  BY <1>1, Fields
<1>3. \A held \in Replied(m) : /\ held \in StoredValues
                              /\ held.value \in Values \cup {None}
                              /\ held.version \in Versions
  BY <1>1, ChoiceTyped
<1>4. CASE FinishRead(m)
  <2>1. PICK held \in Replied(m) :
          NoteAnswer(m.req, held.version, FALSE) /\ Finish(m, held.value)
    BY <1>4 DEF FinishRead
  <2>2. held.value \in Answers
    BY <1>3 DEF Answers
  <2>3. /\ IsABag(net') /\ (\A x \in InFlight' : WellFormed(x)) /\ faults' \in Nat
        /\ rounds' = [q \in Requests |-> rounds'[q]]
        /\ \A q \in Requests : WellFormedRound(rounds'[q])
    BY <1>1, <2>1, <2>2, FinishTyped
  <2>4. answered' \in SUBSET [req : Requests, version : Versions, durable : BOOLEAN]
    BY <1>2, <1>3, <2>1, AnswerTyped
  <2>5. QED
    BY <1>4, <2>3, <2>4 DEF FinishRead, TypeOK
<1>5. CASE WriteBack(m)
  <2>1. PICK held \in Replied(m) :
          /\ rounds' = [rounds EXCEPT ![m.req] = WriteRound(held.value, held.version)]
          /\ Handle(m, ToAll(m.req, held))
    BY <1>5 DEF WriteBack
  <2>2. held = Stored(held.value, held.version)
    BY <1>3 DEF StoredValues, Stored
  <2>3. Handle(m, ToAll(m.req, Stored(held.value, held.version)))
    BY <2>1, <2>2
  <2>4. /\ IsABag(net') /\ (\A x \in InFlight' : WellFormed(x)) /\ faults' \in Nat
        /\ rounds' = [q \in Requests |-> rounds'[q]]
        /\ \A q \in Requests : WellFormedRound(rounds'[q])
    BY <1>1, <1>3, <2>1, <2>3, WritePhaseTyped
  <2>5. QED
    BY <1>5, <2>4 DEF WriteBack, TypeOK
<1>6. CASE RefuseSwap(m)
  <2>1. PICK held \in Replied(m) :
          NoteAnswer(m.req, held.version, FALSE) /\ Finish(m, NotSwapped)
    BY <1>6 DEF RefuseSwap
  <2>2. NotSwapped \in Answers
    BY DEF Answers
  <2>3. /\ IsABag(net') /\ (\A x \in InFlight' : WellFormed(x)) /\ faults' \in Nat
        /\ rounds' = [q \in Requests |-> rounds'[q]]
        /\ \A q \in Requests : WellFormedRound(rounds'[q])
    BY <1>1, <2>1, <2>2, FinishTyped
  <2>4. answered' \in SUBSET [req : Requests, version : Versions, durable : BOOLEAN]
    BY <1>2, <1>3, <2>1, AnswerTyped
  <2>5. QED
    BY <1>6, <2>3, <2>4 DEF RefuseSwap, TypeOK
<1>7. CASE StartWrite(m)
  <2>1. PICK held \in Replied(m) :
          LET minted == Mint(m.to, m.key, held.version)
          IN  /\ rounds' = [rounds EXCEPT ![m.req] = WriteRound(None, minted)]
              /\ issued' = IF StableVersions
                           THEN [issued EXCEPT ![m.to][m.key] = minted] ELSE issued
              /\ Handle(m, ToAll(m.req, Stored(Plan[m.req].argument, minted)))
    BY <1>7 DEF StartWrite
  <2> DEFINE minted == Mint(m.to, m.key, held.version)
  <2>2. minted \in Versions
    BY <1>2, <1>3, PlanFacts, MintTyped
  <2>3. Plan[m.req].argument \in Values \cup {None}
    BY <1>2, PlanFacts DEF PlannedOp
  <2> HIDE DEF minted
  <2>4. /\ IsABag(net') /\ (\A x \in InFlight' : WellFormed(x)) /\ faults' \in Nat
        /\ rounds' = [q \in Requests |-> rounds'[q]]
        /\ \A q \in Requests : WellFormedRound(rounds'[q])
    <3>1. /\ rounds' = [rounds EXCEPT ![m.req] = WriteRound(None, minted)]
          /\ Handle(m, ToAll(m.req, Stored(Plan[m.req].argument, minted)))
      BY <2>1 DEF minted
    <3>2. QED
      BY <1>1, <2>2, <2>3, <3>1, WritePhaseTyped
  <2>5. issued' \in [Replicas -> [Keys -> Versions]]
    BY <2>1, <2>2 DEF TypeOK, minted
  <2>6. QED
    BY <1>7, <2>4, <2>5 DEF StartWrite, TypeOK
<1>8. QED
  BY <1>4, <1>5, <1>6, <1>7

LEMMA FinishWriteTyped ==
  ASSUME TypeOK, NEW m, FinishWrite(m)
  PROVE  TypeOK'
<1>1. WellFormed(m) /\ m.type = "WriteAck"
  BY DEF TypeOK, FinishWrite, Deliverable
<1>2. m.req \in Requests /\ m.version \in Versions
  BY <1>1, Fields
<1>3. Answer(m.req) \in Answers
  <2>1. PICK heard \in SUBSET Replicas : rounds[m.req] \in Round(heard)
    BY <1>2 DEF TypeOK, WellFormedRound
  <2>2. rounds[m.req].result \in Values \cup {None}
    BY <2>1 DEF Round
  <2>3. Plan[m.req].kind \in Kinds
    BY <1>2, PlanFacts DEF PlannedOp
  <2>4. QED
    BY <2>2, <2>3 DEF Answer, Answers, Kinds
<1>4. NoteAnswer(m.req, m.version, TRUE) /\ Finish(m, Answer(m.req))
  BY DEF FinishWrite
<1>5. /\ IsABag(net') /\ (\A x \in InFlight' : WellFormed(x)) /\ faults' \in Nat
      /\ rounds' = [q \in Requests |-> rounds'[q]]
      /\ \A q \in Requests : WellFormedRound(rounds'[q])
  BY <1>1, <1>3, <1>4, FinishTyped
<1>6. answered' \in SUBSET [req : Requests, version : Versions, durable : BOOLEAN]
  BY <1>2, <1>4, AnswerTyped
<1>7. QED
  BY <1>5, <1>6 DEF FinishWrite, TypeOK

LEMMA TimeoutTyped ==
  ASSUME TypeOK, NEW r \in Requests, Timeout(r)
  PROVE  TypeOK'
<1> DEFINE out == {ClientReply(r, FALSE, None)}
<1>1. (\A x \in out : WellFormed(x)) /\ net' = net (+) SetToBag(out)
  BY OwnMessages, PlanFacts DEF Answers, Timeout
<1>2. IsABag(net') /\ (\A x \in InFlight' : WellFormed(x))
  <2> HIDE DEF out
  <2>1. QED
    BY <1>1, NetTyped
<1>3. faults' \in Nat
  BY DEF Timeout, CountTimeout, Fault, TypeOK
<1>4. WellFormedRound(NoRound)
  BY ValueFacts DEF WellFormedRound
<1>5. rounds' = [q \in Requests |-> rounds'[q]] /\ \A q \in Requests : WellFormedRound(rounds'[q])
  BY <1>4, RoundTyped DEF Timeout
<1>6. QED
  BY <1>2, <1>3, <1>5 DEF Timeout, TypeOK

LEMMA FaultTyped ==
  ASSUME TypeOK,
         \/ \E n \in Replicas : Crash(n) \/ Restart(n)
         \/ \E m \in InFlight : Lose(m) \/ Duplicate(m) \/ DropAtDown(m) \/ TakeReply(m)
         \/ \E r \in Requests : Submit(r)
         \/ LosePatience
         \/ UNCHANGED vars
  PROVE  TypeOK'
<1>1. ASSUME NEW n \in Replicas, Crash(n) PROVE TypeOK'
  <2>1. WellFormedRound(NoRound)
    BY ValueFacts DEF WellFormedRound
  <2>2. rounds' = [q \in Requests |-> rounds'[q]] /\ \A q \in Requests : WellFormedRound(rounds'[q])
    BY <1>1, <2>1 DEF Crash, TypeOK
  <2>3. QED
    BY <1>1, <2>2 DEF Crash, Fault, TypeOK, InFlight
<1>2. ASSUME NEW n \in Replicas, Restart(n) PROVE TypeOK'
  BY <1>2 DEF Restart, TypeOK, InFlight
<1>3. ASSUME NEW m \in InFlight, Lose(m) PROVE TypeOK'
  <2>1. IsABag(net') /\ InFlight' \subseteq InFlight
    BY <1>3, NetConsume DEF Lose, TypeOK
  <2>2. QED
    BY <1>3, <2>1 DEF Lose, Fault, nodeVars, TypeOK
<1>4. ASSUME NEW m \in InFlight, Duplicate(m) PROVE TypeOK'
  <2>1. \A x \in {m} : WellFormed(x)
    BY DEF TypeOK
  <2>2. IsABag(net') /\ (\A x \in InFlight' : WellFormed(x))
    BY <1>4, <2>1, NetTyped DEF Duplicate
  <2>3. QED
    BY <1>4, <2>2 DEF Duplicate, Fault, nodeVars, TypeOK
<1>5. ASSUME NEW m \in InFlight, DropAtDown(m) \/ TakeReply(m) PROVE TypeOK'
  <2>1. Consume(m)
    BY <1>5 DEF DropAtDown, TakeReply
  <2>2. IsABag(net') /\ (\A x \in InFlight' : WellFormed(x)) /\ faults' \in Nat
    BY <2>1, NetTyped
  <2>3. QED
    BY <1>5, <2>2 DEF DropAtDown, TakeReply, nodeVars, TypeOK
<1>6. ASSUME NEW r \in Requests, Submit(r) PROVE TypeOK'
  <2>1. \A x \in {ClientRequest(r)} : WellFormed(x)
    BY OwnMessages, PlanFacts
  <2>2. IsABag(net') /\ (\A x \in InFlight' : WellFormed(x))
    BY <1>6, <2>1, NetTyped DEF Submit
  <2>3. QED
    BY <1>6, <2>2 DEF Submit, nodeVars, TypeOK
<1>7. CASE LosePatience
  BY <1>7 DEF LosePatience, Fault, nodeVars, TypeOK, InFlight
<1>8. CASE UNCHANGED vars
  BY <1>8 DEF vars, TypeOK, InFlight
<1>9. QED
  BY <1>1, <1>2, <1>3, <1>4, <1>5, <1>6, <1>7, <1>8

LEMMA NextCases ==
  ASSUME [Next]_vars
  PROVE  \/ \E m \in InFlight : OnMessage(m)
         \/ \E r \in Requests : Timeout(r)
         \/ \E n \in Replicas : Crash(n) \/ Restart(n)
         \/ \E m \in InFlight : Lose(m) \/ Duplicate(m) \/ DropAtDown(m) \/ TakeReply(m)
         \/ \E r \in Requests : Submit(r)
         \/ LosePatience
         \/ UNCHANGED vars
BY DEF Next, ReplicaStep, ClientStep, Idle

LEMMA StepTyped == TypeOK /\ [Next]_vars => TypeOK'
<1> SUFFICES ASSUME TypeOK, [Next]_vars PROVE TypeOK'
  OBVIOUS
<1>1. ASSUME NEW m \in InFlight, OnMessage(m) PROVE TypeOK'
  BY <1>1, StorageTyped, OpeningTyped, QuorumTyped, FinishWriteTyped DEF OnMessage
<1>2. ASSUME NEW r \in Requests, Timeout(r) PROVE TypeOK'
  BY <1>2, TimeoutTyped
<1>3. QED
  BY <1>1, <1>2, NextCases, FaultTyped

\* The state always has the shape replica.py gives it, and every message is
\* addressed between its request's coordinator and one other node.
THEOREM TypeCorrect == Spec => []TypeOK
BY InitTyped, StepTyped, PTL DEF Spec

-----------------------------------------------------------------------------
(* Steps that neither write a store nor send a value or an acknowledgement, *)
(* and at most close, open or count an acknowledgement in a round.          *)

Quiet ==
  /\ store' = store /\ issued' = issued
  /\ \A m \in InFlight' :
       m \in InFlight \/ m.type \notin {"ReadReply", "WriteRequest", "WriteAck"}
  /\ \A r \in Requests :
       \/ rounds'[r] = rounds[r]
       \/ rounds'[r] \in {NoRound, NewRound}
       \/ \E acks : rounds'[r] = [rounds[r] EXCEPT !.acks = acks]

LEMMA QuietHandling ==
  ASSUME TypeOK, NEW m \in InFlight,
         \/ OnClientRequest(m) \/ Ignore(m) \/ FinishRead(m) \/ RefuseSwap(m)
         \/ GatherAck(m) \/ FinishWrite(m) \/ DropAtDown(m) \/ TakeReply(m)
         \/ Lose(m) \/ Duplicate(m)
  PROVE  Quiet
<1>1. IsABag(net) /\ m.req \in Requests
  BY Fields DEF TypeOK
<1>2. CASE OnClientRequest(m)
  <2>1. net' = Without(m) (+) SetToBag({ReadRequest(m.req, n) : n \in Replicas})
    BY <1>2 DEF OnClientRequest, Handle
  <2>2. InFlight' \subseteq InFlight \cup {ReadRequest(m.req, n) : n \in Replicas}
    BY <1>1, <2>1, NetHandle
  <2>3. \A x \in {ReadRequest(m.req, n) : n \in Replicas} : x.type = "ReadRequest"
    BY DEF ReadRequest
  <2>4. \A x \in InFlight' :
          x \in InFlight \/ x.type \notin {"ReadReply", "WriteRequest", "WriteAck"}
    BY <2>2, <2>3
  <2>5. \A r \in Requests : rounds'[r] = rounds[r] \/ rounds'[r] = NewRound
    BY <1>2 DEF OnClientRequest, TypeOK
  <2>6. QED
    BY <1>2, <2>4, <2>5 DEF OnClientRequest, Quiet
<1>3. ASSUME NEW v, Finish(m, v)
      PROVE  /\ \A x \in InFlight' :
                  x \in InFlight \/ x.type \notin {"ReadReply", "WriteRequest", "WriteAck"}
             /\ \A r \in Requests : rounds'[r] = rounds[r] \/ rounds'[r] = NoRound
  <2> DEFINE reply == ClientReply(m.req, TRUE, v)
  <2>1. reply.type = "ClientReply"
    BY DEF ClientReply
  <2>2. /\ net' = Without(m) (+) SetToBag({reply})
        /\ rounds' = [rounds EXCEPT ![m.req] = NoRound]
    BY <1>3 DEF Finish, Handle
  <2> HIDE DEF reply
  <2>3. InFlight' \subseteq InFlight \cup {reply}
    BY <1>1, <2>2, NetHandle
  <2>4. QED
    BY <2>1, <2>2, <2>3 DEF TypeOK
<1>4. CASE FinishRead(m)
  <2>1. PICK v : Finish(m, v)
    BY <1>4 DEF FinishRead
  <2>2. QED
    BY <1>3, <1>4, <2>1 DEF FinishRead, Quiet
<1>5. CASE RefuseSwap(m)
  <2>1. Finish(m, NotSwapped)
    BY <1>5 DEF RefuseSwap
  <2>2. QED
    BY <1>3, <1>5, <2>1 DEF RefuseSwap, Quiet
<1>6. CASE FinishWrite(m)
  <2>1. Finish(m, Answer(m.req))
    BY <1>6 DEF FinishWrite
  <2>2. QED
    BY <1>3, <1>6, <2>1 DEF FinishWrite, Quiet
<1>7. CASE GatherAck(m)
  <2>1. InFlight' \subseteq InFlight
    BY <1>1, <1>7, NetConsume DEF GatherAck, Consume
  <2>2. rounds' = [rounds EXCEPT ![m.req] = [rounds[m.req] EXCEPT !.acks = AcksWith(m)]]
    BY <1>7 DEF GatherAck
  <2>3. \A r \in Requests : \/ rounds'[r] = rounds[r]
                          \/ rounds'[r] = [rounds[r] EXCEPT !.acks = AcksWith(m)]
    BY <1>1, <2>2 DEF TypeOK
  <2>4. QED
    BY <1>7, <2>1, <2>3 DEF GatherAck, Quiet
<1>8. CASE Ignore(m) \/ DropAtDown(m) \/ TakeReply(m) \/ Lose(m)
  <2>1. InFlight' \subseteq InFlight
    BY <1>1, <1>8, NetConsume DEF Ignore, DropAtDown, TakeReply, Lose, Consume
  <2>2. QED
    BY <1>8, <2>1 DEF Ignore, DropAtDown, TakeReply, Lose, nodeVars, Quiet
<1>9. CASE Duplicate(m)
  <2>1. InFlight' \subseteq InFlight \cup {m}
    BY <1>1, <1>9, NetSend DEF Duplicate
  <2>2. QED
    BY <1>9, <2>1 DEF Duplicate, nodeVars, Quiet
<1>10. QED
  BY <1>2, <1>4, <1>5, <1>6, <1>7, <1>8, <1>9

LEMMA QuietOtherwise ==
  ASSUME TypeOK,
         \/ \E r \in Requests : Timeout(r) \/ Submit(r)
         \/ \E n \in Replicas : Crash(n) \/ Restart(n)
         \/ LosePatience
         \/ UNCHANGED vars
  PROVE  Quiet
<1>1. IsABag(net)
  BY DEF TypeOK
<1>2. ASSUME NEW r \in Requests, Timeout(r) PROVE Quiet
  <2> DEFINE reply == ClientReply(r, FALSE, None)
  <2>1. reply.type = "ClientReply" /\ net' = net (+) SetToBag({reply})
    BY <1>2 DEF ClientReply, Timeout
  <2> HIDE DEF reply
  <2>2. InFlight' \subseteq InFlight \cup {reply}
    BY <1>1, <2>1, NetSend
  <2>3. \A q \in Requests : rounds'[q] = rounds[q] \/ rounds'[q] = NoRound
    BY <1>2 DEF Timeout, TypeOK
  <2>4. QED
    BY <1>2, <2>1, <2>2, <2>3 DEF Timeout, Quiet
<1>3. ASSUME NEW r \in Requests, Submit(r) PROVE Quiet
  <2>1. InFlight' \subseteq InFlight \cup {ClientRequest(r)}
    BY <1>1, <1>3, NetSend DEF Submit
  <2>2. ClientRequest(r).type = "ClientRequest"
    BY DEF ClientRequest
  <2>3. QED
    BY <1>3, <2>1, <2>2 DEF Submit, nodeVars, Quiet
<1>4. ASSUME NEW n \in Replicas, Crash(n) PROVE Quiet
  BY <1>4 DEF Crash, Quiet, InFlight
<1>5. ASSUME NEW n \in Replicas, Restart(n) PROVE Quiet
  BY <1>5 DEF Restart, Quiet, InFlight
<1>6. CASE LosePatience \/ UNCHANGED vars
  BY <1>6 DEF LosePatience, nodeVars, vars, Quiet, InFlight
<1>7. QED
  BY <1>2, <1>3, <1>4, <1>5, <1>6

\* Every step is quiet, or one of the five that move a value.
LEMMA StepKinds ==
  ASSUME TypeOK, [Next]_vars
  PROVE  \/ Quiet
         \/ \E m \in InFlight : \/ OnReadRequest(m) \/ OnWriteRequest(m)
                               \/ GatherReply(m) \/ WriteBack(m) \/ StartWrite(m)
BY NextCases, QuietHandling, QuietOtherwise DEF OnMessage

-----------------------------------------------------------------------------
(* Stores only move forward.                                               *)

\* What one step may do to a store: keep a value, or take a newer one that a
\* write request in flight carries.
LEMMA StoreStep ==
  ASSUME TypeOK, [Next]_vars, NEW n \in Replicas, NEW k \in Keys
  PROVE  \/ store'[n][k] = store[n][k]
         \/ \E m \in InFlight :
              /\ OnWriteRequest(m) /\ m.type = "WriteRequest" /\ m.to = n /\ m.key = k
              /\ store'[n][k] = Stored(m.value, m.version)
              /\ Newer(m.version, store[n][k].version)
<1>1. CASE Quiet
  BY <1>1 DEF Quiet
<1>2. ASSUME NEW m \in InFlight,
             OnReadRequest(m) \/ GatherReply(m) \/ WriteBack(m) \/ StartWrite(m)
      PROVE  store' = store
  BY <1>2 DEF OnReadRequest, GatherReply, WriteBack, StartWrite, nodeVars
<1>3. ASSUME NEW m \in InFlight, OnWriteRequest(m), store'[n][k] # store[n][k]
      PROVE  /\ m.type = "WriteRequest" /\ m.to = n /\ m.key = k
             /\ store'[n][k] = Stored(m.value, m.version)
             /\ Newer(m.version, store[n][k].version)
  <2>1. m.type = "WriteRequest" /\ m.to \in Replicas /\ m.key \in Keys
    BY <1>3, Fields, PlanFacts DEF OnWriteRequest, Deliverable, TypeOK
  <2>2. store' = [store EXCEPT ![m.to][m.key] =
                    KeepNewer(store[m.to][m.key], Stored(m.value, m.version))]
    BY <1>3 DEF OnWriteRequest
  <2>3. m.to = n /\ m.key = k
    BY <1>3, <2>1, <2>2 DEF TypeOK
  <2>4. store'[n][k] = KeepNewer(store[n][k], Stored(m.value, m.version))
    BY <2>1, <2>2, <2>3 DEF TypeOK
  <2>5. Stored(m.value, m.version).version = m.version
    BY DEF Stored
  <2>6. QED
    BY <1>3, <2>1, <2>3, <2>4, <2>5 DEF KeepNewer
<1>4. QED
  BY <1>1, <1>2, <1>3, StepKinds

LEMMA StoreForward ==
  ASSUME TypeOK, TypeOK', [Next]_vars, NEW n \in Replicas, NEW k \in Keys
  PROVE  ~ Newer(store[n][k].version, store'[n][k].version)
<1>1. store[n][k] \in StoredValues /\ store'[n][k] \in StoredValues
  BY DEF TypeOK
<1>2. store[n][k].version \in Versions /\ store'[n][k].version \in Versions
  BY <1>1 DEF StoredValues
<1>3. CASE store'[n][k] = store[n][k]
  BY <1>2, <1>3, StampsAreOrdered
<1>4. CASE store'[n][k] # store[n][k]
  <2>1. PICK m \in InFlight : /\ store'[n][k] = Stored(m.value, m.version)
                             /\ Newer(m.version, store[n][k].version)
    BY <1>4, StoreStep
  <2>2. store'[n][k].version = m.version
    BY <2>1 DEF Stored
  <2>3. QED
    BY <1>2, <2>1, <2>2, StampsAreOrdered
<1>5. QED
  BY <1>3, <1>4

\* A replica's copy of a key never gets older, whatever late, duplicated or
\* reordered writes arrive.
THEOREM StoresNeverGoBack == Spec => StoreNeverGoesBack
<1>1. TypeOK /\ TypeOK' /\ [Next]_vars =>
        [\A n \in Replicas, k \in Keys :
           ~ Newer(store[n][k].version, store'[n][k].version)]_vars
  BY StoreForward
<1>2. QED
  BY <1>1, TypeCorrect, PTL DEF Spec, StoreNeverGoesBack

-----------------------------------------------------------------------------
(***************************************************************************)
(* A stamp names one value (Replica!StampIdentifiesValue), proved from an  *)
(* inductive invariant: every copy's stamp is Zero or one its replica      *)
(* remembers having issued.  A new stamp is beyond all of those, so it can *)
(* equal none of them; every other step only moves copies around.          *)
(***************************************************************************)

\* A copy is the unwritten register, or its stamp was minted by a replica that
\* remembers having issued that counter or a later one.
Minted(k, c) ==
  \/ c = Absent
  \/ /\ c.version.node \in Replicas
     /\ c.version.counter <= issued[c.version.node][k].counter

StampInv ==
  /\ \A k \in Keys : \A c \in Copies(k) : Minted(k, c)
  /\ StampIdentifiesValue

LEMMA CopyIntro ==
  ASSUME NEW k \in Keys
  PROVE  /\ \A n \in Replicas : store[n][k] \in Copies(k)
         /\ \A m \in InFlight : Carries(m) /\ m.key = k => Stored(m.value, m.version) \in Copies(k)
         /\ \A r \in Requests : Key(r) = k =>
              \A n \in DOMAIN rounds[r].replies : rounds[r].replies[n] \in Copies(k)
         /\ \A r \in Requests : Key(r) = k /\ rounds[r].phase = "write" => Writing(r) \in Copies(k)
<1>1. \A n \in Replicas : store[n][k] \in HeldCopies(k)
  BY DEF HeldCopies
<1>2. \A m \in InFlight : Carries(m) /\ m.key = k => Stored(m.value, m.version) \in CarriedCopies(k)
  BY DEF CarriedCopies
<1>3. ASSUME NEW r \in Requests, Key(r) = k, NEW n \in DOMAIN rounds[r].replies
      PROVE  rounds[r].replies[n] \in GatheredCopies(k)
  <2>1. rounds[r].replies[n] \in GatheredBy(r)
    BY DEF GatheredBy
  <2>2. QED
    BY <1>3, <2>1 DEF GatheredCopies
<1>4. \A r \in Requests : Key(r) = k /\ rounds[r].phase = "write" => Writing(r) \in WrittenCopies(k)
  BY DEF WrittenCopies
<1>5. QED
  BY <1>1, <1>2, <1>3, <1>4 DEF Copies

LEMMA CopyElim ==
  ASSUME NEW k \in Keys, NEW c \in Copies(k)
  PROVE  \/ \E n \in Replicas : c = store[n][k]
         \/ \E m \in InFlight : Carries(m) /\ m.key = k /\ c = Stored(m.value, m.version)
         \/ \E r \in Requests : Key(r) = k /\ \E n \in DOMAIN rounds[r].replies :
              c = rounds[r].replies[n]
         \/ \E r \in Requests : Key(r) = k /\ rounds[r].phase = "write" /\ c = Writing(r)
<1>1. CASE c \in HeldCopies(k)
  BY <1>1 DEF HeldCopies
<1>2. CASE c \in CarriedCopies(k)
  BY <1>2 DEF CarriedCopies
<1>3. CASE c \in GatheredCopies(k)
  <2>1. PICK r \in Requests : Key(r) = k /\ c \in GatheredBy(r)
    BY <1>3 DEF GatheredCopies
  <2>2. QED
    BY <2>1 DEF GatheredBy
<1>4. CASE c \in WrittenCopies(k)
  BY <1>4 DEF WrittenCopies
<1>5. QED
  BY <1>1, <1>2, <1>3, <1>4 DEF Copies

LEMMA CopyTyped ==
  ASSUME TypeOK, NEW k \in Keys, NEW c \in Copies(k)
  PROVE  c \in StoredValues
<1>1. \A n \in Replicas : store[n][k] \in StoredValues
  BY DEF TypeOK
<1>2. \A m \in InFlight : Carries(m) => Stored(m.value, m.version) \in StoredValues
  BY Fields DEF TypeOK, Carries
<1>3. ASSUME NEW r \in Requests
      PROVE  /\ \A n \in DOMAIN rounds[r].replies : rounds[r].replies[n] \in StoredValues
             /\ Writing(r) \in StoredValues
  <2>1. PICK heard \in SUBSET Replicas : rounds[r] \in Round(heard)
    BY DEF TypeOK, WellFormedRound
  <2>2. Plan[r].argument \in Values \cup {None}
    BY PlanFacts DEF PlannedOp
  <2>3. QED
    BY <2>1, <2>2 DEF Round, Writing, Stored, StoredValues
<1>4. QED
  BY <1>1, <1>2, <1>3, CopyElim

\* A step that copies what is there, and for each key adds at most added[k].
LEMMA NoOtherCopies ==
  ASSUME NEW added,
         \A k \in Keys, n \in Replicas : store'[n][k] \in Copies(k) \cup added[k],
         \A m \in InFlight' : Carries(m) =>
            m.key \in Keys /\ Stored(m.value, m.version) \in Copies(m.key) \cup added[m.key],
         \A r \in Requests : \A n \in DOMAIN rounds'[r].replies :
            rounds'[r].replies[n] \in Copies(Key(r)) \cup added[Key(r)],
         \A r \in Requests : rounds'[r].phase = "write" =>
            Writing(r)' \in Copies(Key(r)) \cup added[Key(r)]
  PROVE  \A k \in Keys : Copies(k)' \subseteq Copies(k) \cup added[k]
<1> SUFFICES ASSUME NEW k \in Keys, NEW c \in Copies(k)'
             PROVE  c \in Copies(k) \cup added[k]
  OBVIOUS
<1>1. CASE c \in HeldCopies(k)'
  BY <1>1 DEF HeldCopies
<1>2. CASE c \in CarriedCopies(k)'
  <2>1. PICK m \in InFlight' : Carries(m) /\ m.key = k /\ c = Stored(m.value, m.version)
    BY <1>2 DEF CarriedCopies
  <2>2. QED
    BY <2>1
<1>3. CASE c \in GatheredCopies(k)'
  <2>1. PICK r \in Requests : Key(r) = k /\ c \in GatheredBy(r)'
    BY <1>3 DEF GatheredCopies
  <2>2. PICK n \in DOMAIN rounds'[r].replies : c = rounds'[r].replies[n]
    BY <2>1 DEF GatheredBy
  <2>3. QED
    BY <2>1, <2>2
<1>4. CASE c \in WrittenCopies(k)'
  <2>1. PICK r \in Requests : Key(r) = k /\ rounds'[r].phase = "write" /\ c = Writing(r)'
    BY <1>4 DEF WrittenCopies
  <2>2. QED
    BY <2>1
<1>5. QED
  BY <1>1, <1>2, <1>3, <1>4 DEF Copies

\* What is already held, carried, gathered or written is a copy.
LEMMA OldCopies ==
  ASSUME TypeOK
  PROVE  /\ \A k \in Keys, n \in Replicas : store[n][k] \in Copies(k)
         /\ \A m \in InFlight : Carries(m) =>
              m.key \in Keys /\ Stored(m.value, m.version) \in Copies(m.key)
         /\ \A r \in Requests : \A n \in DOMAIN rounds[r].replies :
              rounds[r].replies[n] \in Copies(Key(r))
         /\ \A r \in Requests : rounds[r].phase = "write" => Writing(r) \in Copies(Key(r))
<1>1. \A m \in InFlight : Carries(m) => m.key \in Keys
  BY Fields, PlanFacts DEF TypeOK, Carries
<1>2. QED
  BY <1>1, CopyIntro, PlanFacts

LEMMA RepliedCopy ==
  ASSUME TypeOK, NEW m, Deliverable(m, "ReadReply"), NEW held \in Replied(m)
  PROVE  /\ m.req \in Requests
         /\ held \in Copies(Key(m.req))
         /\ Stored(held.value, held.version) = held
<1>1. m \in InFlight /\ WellFormed(m) /\ m.type = "ReadReply" /\ Carries(m)
  BY DEF TypeOK, Deliverable, Carries
<1>2. m.req \in Requests /\ m.key = Key(m.req)
  BY <1>1, Fields
<1>3. PICK n \in DOMAIN RepliesWith(m) : held = RepliesWith(m)[n]
  BY DEF Replied
<1>4. held = Stored(m.value, m.version) \/ \E p \in DOMAIN rounds[m.req].replies :
                                              held = rounds[m.req].replies[p]
  BY <1>1, <1>3, RepliesGrow
<1>5. held \in StoredValues
  BY ChoiceTyped
<1>6. QED
  BY <1>1, <1>2, <1>4, <1>5, OldCopies DEF Stored, StoredValues

LEMMA QuietCopies ==
  ASSUME TypeOK, Quiet
  PROVE  \A k \in Keys : Copies(k)' \subseteq Copies(k)
<1> DEFINE added == [k \in Keys |-> {}]
<1>1. \A k \in Keys, n \in Replicas : store'[n][k] \in Copies(k) \cup added[k]
  BY OldCopies DEF Quiet
<1>2. \A m \in InFlight' : Carries(m) =>
         m.key \in Keys /\ Stored(m.value, m.version) \in Copies(m.key) \cup added[m.key]
  BY OldCopies DEF Quiet, Carries
<1>3. ASSUME NEW r \in Requests
      PROVE  /\ \A n \in DOMAIN rounds'[r].replies :
                  rounds'[r].replies[n] \in Copies(Key(r)) \cup added[Key(r)]
             /\ rounds'[r].phase = "write" => Writing(r)' \in Copies(Key(r)) \cup added[Key(r)]
  <2>1. PICK heard \in SUBSET Replicas : rounds[r] \in Round(heard)
    BY DEF TypeOK, WellFormedRound
  <2>2. CASE rounds'[r] \in {NoRound, NewRound}
    BY <2>2 DEF NoRound, NewRound, RoundIn
  <2>3. CASE rounds'[r] = rounds[r] \/ \E acks : rounds'[r] = [rounds[r] EXCEPT !.acks = acks]
    <3>1. /\ rounds'[r].replies = rounds[r].replies
          /\ rounds'[r].phase = rounds[r].phase
          /\ rounds'[r].result = rounds[r].result
          /\ rounds'[r].version = rounds[r].version
      BY <2>1, <2>3 DEF Round
    <3>2. Writing(r)' = Writing(r)
      BY <3>1 DEF Writing
    <3>3. QED
      BY <3>1, <3>2, OldCopies
  <2>4. QED
    BY <2>2, <2>3 DEF Quiet
<1> HIDE DEF added
<1>4. \A k \in Keys : Copies(k)' \subseteq Copies(k) \cup added[k]
  BY <1>1, <1>2, <1>3, NoOtherCopies
<1>5. QED
  BY <1>4 DEF added

\* The stamp invariant survives a step that adds no copies.
LEMMA SameCopies ==
  ASSUME StampInv, \A k \in Keys : Copies(k)' \subseteq Copies(k), issued' = issued
  PROVE  StampInv'
BY DEF StampInv, StampIdentifiesValue, Minted

LEMMA StorageCopies ==
  ASSUME TypeOK, NEW m \in InFlight, OnReadRequest(m) \/ OnWriteRequest(m)
  PROVE  \A k \in Keys : Copies(k)' \subseteq Copies(k)
<1> DEFINE added == [k \in Keys |-> {}]
<1>1. IsABag(net) /\ WellFormed(m) /\ rounds' = rounds
  BY DEF TypeOK, OnReadRequest, OnWriteRequest, nodeVars
<1>2. /\ \A r \in Requests : \A n \in DOMAIN rounds'[r].replies :
           rounds'[r].replies[n] \in Copies(Key(r)) \cup added[Key(r)]
      /\ \A r \in Requests : rounds'[r].phase = "write" =>
           Writing(r)' \in Copies(Key(r)) \cup added[Key(r)]
  <2>1. \A r \in Requests : Writing(r)' = Writing(r)
    BY <1>1 DEF Writing
  <2>2. QED
    BY <1>1, <2>1, OldCopies
<1>3. /\ \A k \in Keys, n \in Replicas : store'[n][k] \in Copies(k) \cup added[k]
      /\ \A x \in InFlight' : Carries(x) =>
           x.key \in Keys /\ Stored(x.value, x.version) \in Copies(x.key) \cup added[x.key]
  <2>1. CASE OnReadRequest(m)
    <3> DEFINE reply == ReadReply(m, store[m.to][m.key])
    <3>1. m.to \in Replicas /\ m.key \in Keys
      BY <1>1, <2>1, Fields, PlanFacts DEF OnReadRequest, Deliverable
    <3>2. store[m.to][m.key] \in StoredValues
      BY <3>1 DEF TypeOK
    <3>3. reply.key = m.key /\ Stored(reply.value, reply.version) = store[m.to][m.key]
      BY <3>2 DEF ReadReply, Stored, StoredValues
    <3>4. net' = Without(m) (+) SetToBag({reply})
      BY <2>1 DEF OnReadRequest, Handle
    <3> HIDE DEF reply
    <3>5. InFlight' \subseteq InFlight \cup {reply}
      BY <1>1, <3>4, NetHandle
    <3>6. store' = store
      BY <2>1 DEF OnReadRequest, nodeVars
    <3>7. QED
      BY <3>1, <3>3, <3>5, <3>6, OldCopies
  <2>2. CASE OnWriteRequest(m)
    <3> DEFINE ack == WriteAck(m)
    <3>1. ~ Carries(ack) /\ net' = Without(m) (+) SetToBag({ack})
      BY <2>2 DEF OnWriteRequest, Handle, WriteAck, Carries
    <3>2. m.to \in Replicas /\ m.key \in Keys /\ Carries(m)
      BY <1>1, <2>2, Fields, PlanFacts DEF OnWriteRequest, Deliverable, Carries
    <3> HIDE DEF ack
    <3>3. InFlight' \subseteq InFlight \cup {ack}
      BY <1>1, <3>1, NetHandle
    <3>4. store' = [store EXCEPT ![m.to][m.key] =
                      KeepNewer(store[m.to][m.key], Stored(m.value, m.version))]
      BY <2>2 DEF OnWriteRequest
    <3>5. KeepNewer(store[m.to][m.key], Stored(m.value, m.version)) \in Copies(m.key)
      BY <3>2, OldCopies DEF KeepNewer
    <3>6. \A k \in Keys, n \in Replicas : store'[n][k] \in Copies(k)
      BY <3>2, <3>4, <3>5, OldCopies DEF TypeOK
    <3>7. QED
      BY <3>1, <3>3, <3>6, OldCopies
  <2>3. QED
    BY <2>1, <2>2
<1> HIDE DEF added
<1>4. \A k \in Keys : Copies(k)' \subseteq Copies(k) \cup added[k]
  BY <1>2, <1>3, NoOtherCopies
<1>5. QED
  BY <1>4 DEF added

LEMMA GatheringCopies ==
  ASSUME TypeOK, NEW m \in InFlight, GatherReply(m)
  PROVE  \A k \in Keys : Copies(k)' \subseteq Copies(k)
<1> DEFINE added == [k \in Keys |-> {}]
<1>1. IsABag(net) /\ WellFormed(m) /\ store' = store /\ Deliverable(m, "ReadReply")
  BY DEF TypeOK, GatherReply
<1>2. m.type = "ReadReply" /\ m.req \in Requests
  BY <1>1, Fields DEF Deliverable
<1>3. InFlight' \subseteq InFlight
  BY <1>1, NetConsume DEF GatherReply, Consume
<1>4. rounds' = [rounds EXCEPT ![m.req] = [rounds[m.req] EXCEPT !.replies = RepliesWith(m)]]
  BY DEF GatherReply
<1>5. ASSUME NEW r \in Requests
      PROVE  /\ \A n \in DOMAIN rounds'[r].replies :
                  rounds'[r].replies[n] \in Copies(Key(r)) \cup added[Key(r)]
             /\ rounds'[r].phase = "write" => Writing(r)' \in Copies(Key(r)) \cup added[Key(r)]
  <2>1. CASE r # m.req
    <3>1. rounds'[r] = rounds[r]
      BY <1>4, <2>1 DEF TypeOK
    <3>2. Writing(r)' = Writing(r)
      BY <3>1 DEF Writing
    <3>3. QED
      BY <3>1, <3>2, OldCopies
  <2>2. CASE r = m.req
    <3>1. PICK heard \in SUBSET Replicas : rounds[r] \in Round(heard)
      BY DEF TypeOK, WellFormedRound
    <3>2. rounds'[r] = [rounds[r] EXCEPT !.replies = RepliesWith(m)]
      BY <1>2, <1>4, <2>2 DEF TypeOK
    <3>3. /\ rounds'[r].replies = RepliesWith(m)
          /\ rounds'[r].phase = rounds[r].phase
          /\ rounds'[r].result = rounds[r].result
          /\ rounds'[r].version = rounds[r].version
      BY <3>1, <3>2 DEF Round
    <3>4. Writing(r)' = Writing(r)
      BY <3>3 DEF Writing
    <3>5. \A n \in DOMAIN RepliesWith(m) : RepliesWith(m)[n] \in Copies(Key(r))
      BY <1>1, <2>2, RepliedCopy DEF Replied
    <3>6. QED
      BY <3>3, <3>4, <3>5, OldCopies
  <2>3. QED
    BY <2>1, <2>2
<1> HIDE DEF added
<1>6. \A k \in Keys : Copies(k)' \subseteq Copies(k) \cup added[k]
  <2>1. \A k \in Keys, n \in Replicas : store'[n][k] \in Copies(k) \cup added[k]
    BY <1>1, OldCopies
  <2>2. \A x \in InFlight' : Carries(x) =>
          x.key \in Keys /\ Stored(x.value, x.version) \in Copies(x.key) \cup added[x.key]
    BY <1>3, OldCopies
  <2>3. QED
    BY <1>5, <2>1, <2>2, NoOtherCopies
<1>7. QED
  BY <1>6 DEF added

\* The second phase spreads one value: the one it chose, or a fresh one.
LEMMA PhaseTwoCopies ==
  ASSUME TypeOK, NEW m \in InFlight, Deliverable(m, "ReadReply"),
         NEW v, NEW res, NEW s, NEW added,
         store' = store,
         Handle(m, ToAll(m.req, Stored(v, s))),
         rounds' = [rounds EXCEPT ![m.req] = WriteRound(res, s)],
         Plan[m.req].kind = "read" => v = res,
         Plan[m.req].kind # "read" => v = Plan[m.req].argument,
         Stored(v, s) \in Copies(Key(m.req)) \cup added[Key(m.req)]
  PROVE  \A k \in Keys : Copies(k)' \subseteq Copies(k) \cup added[k]
<1>1. IsABag(net) /\ m.req \in Requests
  BY Fields DEF TypeOK
<1>2. \A k \in Keys, n \in Replicas : store'[n][k] \in Copies(k) \cup added[k]
  BY OldCopies
<1>3. \A x \in InFlight' : Carries(x) =>
         x.key \in Keys /\ Stored(x.value, x.version) \in Copies(x.key) \cup added[x.key]
  <2> DEFINE out == ToAll(m.req, Stored(v, s))
  <2>1. \A x \in out : x.key = Key(m.req) /\ Stored(x.value, x.version) = Stored(v, s)
    BY DEF ToAll, WriteRequest, Stored
  <2>2. net' = Without(m) (+) SetToBag(out)
    BY DEF Handle
  <2> HIDE DEF out
  <2>3. InFlight' \subseteq InFlight \cup out
    BY <1>1, <2>2, NetHandle
  <2>4. QED
    BY <1>1, <2>1, <2>3, PlanFacts, OldCopies
<1>4. ASSUME NEW r \in Requests
      PROVE  /\ \A n \in DOMAIN rounds'[r].replies :
                  rounds'[r].replies[n] \in Copies(Key(r)) \cup added[Key(r)]
             /\ rounds'[r].phase = "write" => Writing(r)' \in Copies(Key(r)) \cup added[Key(r)]
  <2>1. CASE r # m.req
    <3>1. rounds'[r] = rounds[r]
      BY <2>1 DEF TypeOK
    <3>2. Writing(r)' = Writing(r)
      BY <3>1 DEF Writing
    <3>3. QED
      BY <3>1, <3>2, OldCopies
  <2>2. CASE r = m.req
    <3>1. rounds'[r] = WriteRound(res, s)
      BY <1>1, <2>2 DEF TypeOK
    <3>2. DOMAIN rounds'[r].replies = {} /\ rounds'[r].version = s /\ rounds'[r].result = res
      BY <3>1 DEF WriteRound, RoundIn
    <3>3. Writing(r)' = Stored(v, s)
      BY <2>2, <3>2 DEF Writing
    <3>4. QED
      BY <2>2, <3>2, <3>3
  <2>3. QED
    BY <2>1, <2>2
<1>5. QED
  BY <1>2, <1>3, <1>4, NoOtherCopies

LEMMA WriteBackCopies ==
  ASSUME TypeOK, NEW m \in InFlight, WriteBack(m)
  PROVE  \A k \in Keys : Copies(k)' \subseteq Copies(k)
<1> DEFINE added == [k \in Keys |-> {}]
<1>1. PICK held \in Replied(m) :
        /\ rounds' = [rounds EXCEPT ![m.req] = WriteRound(held.value, held.version)]
        /\ Handle(m, ToAll(m.req, held))
  BY DEF WriteBack
<1>2. Deliverable(m, "ReadReply") /\ Plan[m.req].kind = "read" /\ store' = store
  BY DEF WriteBack
<1>3. held \in Copies(Key(m.req)) /\ Stored(held.value, held.version) = held
  BY <1>2, RepliedCopy
<1> HIDE DEF added
<1>4. \A k \in Keys : Copies(k)' \subseteq Copies(k) \cup added[k]
  <2>1. PICK v, s : v = held.value /\ s = held.version
    OBVIOUS
  <2>2. /\ Handle(m, ToAll(m.req, Stored(v, s)))
        /\ rounds' = [rounds EXCEPT ![m.req] = WriteRound(v, s)]
        /\ Stored(v, s) \in Copies(Key(m.req)) \cup added[Key(m.req)]
        /\ Plan[m.req].kind = "read"
    BY <1>1, <1>2, <1>3, <2>1
  <2>3. QED
    BY <1>2, <2>2, PhaseTwoCopies
<1>5. QED
  BY <1>4 DEF added

\* A minted stamp is newer than every copy its replica ever issued.
LEMMA FreshStamp ==
  ASSUME TypeOK, StampInv, StableVersions, NEW n \in Replicas, NEW k \in Keys,
         NEW held \in Copies(k), NEW c \in Copies(k)
  PROVE  /\ Mint(n, k, held.version) \in Versions
         /\ Mint(n, k, held.version).node = n
         /\ Mint(n, k, held.version).counter > issued[n][k].counter
         /\ c.version # Mint(n, k, held.version)
<1> DEFINE minted == Mint(n, k, held.version)
<1>1. held.version \in Versions /\ c.version \in Versions /\ issued[n][k] \in Versions
  BY CopyTyped DEF StoredValues, TypeOK
<1>2. minted \in Versions
  BY <1>1, MintTyped
<1>3. minted.node = n /\ minted.counter > issued[n][k].counter
  BY <1>1 DEF Mint, NextFrom, Later, Newer, Versions
<1>4. c.version # minted
  <2>1. Minted(k, c)
    BY DEF StampInv
  <2>2. CASE c = Absent
    <3>1. c.version.node = -1 /\ n # -1
      BY <2>2, ConfigAssumption DEF Absent, Stored, Zero, Replicas
    <3>2. QED
      BY <1>3, <3>1
  <2>3. CASE c.version.node \in Replicas /\ c.version.counter <= issued[c.version.node][k].counter
    BY <1>1, <1>3, <2>3 DEF Versions
  <2>4. QED
    BY <2>1, <2>2, <2>3 DEF Minted
<1>5. QED
  BY <1>2, <1>3, <1>4

LEMMA StartWriteStamps ==
  ASSUME TypeOK, StampInv, StableVersions, NEW m \in InFlight, StartWrite(m)
  PROVE  StampInv'
<1>1. PICK held \in Replied(m) :
        /\ rounds' = [rounds EXCEPT ![m.req] =
                        WriteRound(None, Mint(m.to, m.key, held.version))]
        /\ issued' = [issued EXCEPT ![m.to][m.key] = Mint(m.to, m.key, held.version)]
        /\ Handle(m, ToAll(m.req, Stored(Plan[m.req].argument, Mint(m.to, m.key, held.version))))
  BY DEF StartWrite
<1>2. Deliverable(m, "ReadReply") /\ Plan[m.req].kind # "read" /\ store' = store
  BY DEF StartWrite
<1>3. m.req \in Requests /\ m.to \in Replicas /\ m.key \in Keys /\ m.key = Key(m.req)
  BY <1>2, Fields, PlanFacts DEF Deliverable, TypeOK
<1>4. held \in Copies(m.key)
  BY <1>2, <1>3, RepliedCopy
<1> DEFINE minted == Mint(m.to, m.key, held.version)
           fresh  == Stored(Plan[m.req].argument, minted)
           added  == [k \in Keys |-> IF k = m.key THEN {fresh} ELSE {}]
<1>5. /\ minted \in Versions /\ minted.node = m.to
      /\ minted.counter > issued[m.to][m.key].counter
      /\ \A c \in Copies(m.key) : c.version # minted
  BY <1>3, <1>4, FreshStamp
<1>6. /\ issued'[m.to][m.key] = minted
      /\ \A n \in Replicas, k \in Keys :
           (n # m.to \/ k # m.key) => issued'[n][k] = issued[n][k]
  BY <1>1, <1>3 DEF TypeOK
<1>7. \A n \in Replicas, k \in Keys : issued[n][k].counter <= issued'[n][k].counter
  BY <1>3, <1>5, <1>6 DEF TypeOK, Versions
<1>8. fresh.version = minted
  BY DEF Stored
<1>9. added[m.key] = {fresh} /\ \A k \in Keys : k # m.key => added[k] = {}
  BY <1>3
<1>10. \A k \in Keys : Copies(k)' \subseteq Copies(k) \cup added[k]
  <2> HIDE DEF added, minted
  <2>1. PICK v : v = Plan[m.req].argument
    OBVIOUS
  <2>2. /\ rounds' = [rounds EXCEPT ![m.req] = WriteRound(None, minted)]
        /\ Handle(m, ToAll(m.req, Stored(v, minted)))
    BY <1>1, <2>1 DEF minted
  <2>3. Stored(v, minted) \in added[Key(m.req)]
    BY <1>3, <1>9, <2>1
  <2>4. QED
    BY <1>2, <2>1, <2>2, <2>3, PhaseTwoCopies
<1> HIDE DEF added, fresh, minted
<1>11. \A k \in Keys : \A c \in Copies(k)' : c \in Copies(k) \/ (k = m.key /\ c = fresh)
  BY <1>9, <1>10
<1>12. ASSUME NEW k \in Keys, NEW c \in Copies(k)'
       PROVE  Minted(k, c)'
  <2>1. CASE c \in Copies(k)
    <3>1. Minted(k, c) /\ c.version \in Versions
      BY <2>1, CopyTyped DEF StampInv, StoredValues
    <3>2. CASE c = Absent
      BY <3>2 DEF Minted
    <3>3. CASE c.version.node \in Replicas /\ c.version.counter <= issued[c.version.node][k].counter
      <4> DEFINE p == c.version.node
      <4>1. issued[p][k].counter <= issued'[p][k].counter
        BY <1>7, <3>3
      <4>2. c.version.counter \in Nat /\ issued[p][k].counter \in Nat
        BY <3>1, <3>3 DEF TypeOK, Versions
      <4>3. issued'[p][k].counter \in Nat
        BY <1>3, <1>5, <1>6, <3>3 DEF TypeOK, Versions
      <4>4. c.version.counter <= issued'[p][k].counter
        BY <3>3, <4>1, <4>2, <4>3
      <4>5. QED
        BY <3>3, <4>4 DEF Minted
    <3>4. QED
      BY <3>1, <3>2, <3>3 DEF Minted
  <2>2. CASE k = m.key /\ c = fresh
    <3>1. c.version.node = m.to /\ c.version.counter = issued'[m.to][k].counter
      BY <1>5, <1>6, <1>8, <2>2
    <3>2. c.version.counter <= issued'[m.to][k].counter
      BY <1>5, <1>8, <2>2, <3>1 DEF Versions
    <3>3. QED
      BY <1>3, <3>1, <3>2 DEF Minted
  <2>3. QED
    BY <1>11, <2>1, <2>2
<1>13. ASSUME NEW k \in Keys, NEW a \in Copies(k)', NEW b \in Copies(k)', a.version = b.version
       PROVE  a.value = b.value
  <2>1. CASE a \in Copies(k) /\ b \in Copies(k)
    BY <1>13, <2>1 DEF StampInv, StampIdentifiesValue
  <2>2. QED
    BY <1>5, <1>8, <1>11, <1>13, <2>1
<1>14. QED
  BY <1>12, <1>13 DEF StampInv, StampIdentifiesValue

LEMMA InitStamps == Init => StampInv
<1> SUFFICES ASSUME Init PROVE StampInv
  OBVIOUS
<1>1. InFlight = {}
  BY DEF Init, EmptyBag, SetToBag, InFlight, BagToSet
<1>2. ASSUME NEW k \in Keys, NEW c \in Copies(k) PROVE c = Absent
  <2>1. \A r \in Requests : DOMAIN rounds[r].replies = {} /\ rounds[r].phase = "closed"
    BY DEF Init, NoRound, RoundIn
  <2>2. \A n \in Replicas : store[n][k] = Absent
    BY DEF Init
  <2>3. QED
    BY <1>1, <2>1, <2>2, CopyElim
<1>3. QED
  BY <1>2 DEF StampInv, StampIdentifiesValue, Minted

LEMMA StepStamps == StableVersions /\ TypeOK /\ StampInv /\ [Next]_vars => StampInv'
<1> SUFFICES ASSUME StableVersions, TypeOK, StampInv, [Next]_vars PROVE StampInv'
  OBVIOUS
<1>1. CASE Quiet
  BY <1>1, QuietCopies, SameCopies DEF Quiet
<1>2. ASSUME NEW m \in InFlight, OnReadRequest(m) \/ OnWriteRequest(m) PROVE StampInv'
  <2>1. issued' = issued
    BY <1>2 DEF OnReadRequest, OnWriteRequest, nodeVars
  <2>2. QED
    BY <1>2, <2>1, StorageCopies, SameCopies
<1>3. ASSUME NEW m \in InFlight, GatherReply(m) PROVE StampInv'
  <2>1. issued' = issued
    BY <1>3 DEF GatherReply
  <2>2. QED
    BY <1>3, <2>1, GatheringCopies, SameCopies
<1>4. ASSUME NEW m \in InFlight, WriteBack(m) PROVE StampInv'
  <2>1. issued' = issued
    BY <1>4 DEF WriteBack
  <2>2. QED
    BY <1>4, <2>1, WriteBackCopies, SameCopies
<1>5. ASSUME NEW m \in InFlight, StartWrite(m) PROVE StampInv'
  BY <1>5, StartWriteStamps
<1>6. QED
  BY <1>1, <1>2, <1>3, <1>4, <1>5, StepKinds

\* With the record of issued stamps that _mint keeps (stable_versions), one
\* stamp never names two values of a key, anywhere in the cluster.
THEOREM StampsIdentifyValues ==
  ASSUME StableVersions
  PROVE  Spec => []StampIdentifiesValue
<1>1. StampInv => StampIdentifiesValue
  BY DEF StampInv
<1>2. TypeOK /\ StampInv /\ [Next]_vars => StampInv'
  BY StepStamps
<1>3. QED
  BY <1>1, <1>2, InitStamps, TypeCorrect, PTL DEF Spec

-----------------------------------------------------------------------------
(***************************************************************************)
(* What a write quorum acknowledged stays held (Replica!AnsweredIsDurable).*)
(* The inductive invariant follows an acknowledgement from its sender: in  *)
(* flight or counted by a round, it says the sender holds the acknowledged *)
(* stamp or a newer one, and stores never go back.                         *)
(***************************************************************************)

\* Replica n holds stamp v of key k, or a newer one.
Holds(n, k, v) == ~ Newer(v, store[n][k].version)

AcksInFlightHold ==
  \A m \in InFlight : m.type = "WriteAck" => Holds(m.from, m.key, m.version)

CountedAcksHold ==
  \A r \in Requests : \A n \in rounds[r].acks :
    n \in Replicas /\ Holds(n, Key(r), rounds[r].version)

AckInv == AcksInFlightHold /\ CountedAcksHold /\ AnsweredIsDurable

LEMMA HoldsForEver ==
  ASSUME TypeOK, TypeOK', [Next]_vars,
         NEW n \in Replicas, NEW k \in Keys, NEW v \in Versions, Holds(n, k, v)
  PROVE  Holds(n, k, v)'
<1>1. store[n][k] \in StoredValues /\ store'[n][k] \in StoredValues
  BY DEF TypeOK
<1>2. store[n][k].version \in Versions /\ store'[n][k].version \in Versions
  BY <1>1 DEF StoredValues
<1>3. ~ Newer(store[n][k].version, store'[n][k].version)
  BY StoreForward
<1>4. QED
  BY <1>2, <1>3, NotNewerTransitive DEF Holds

\* The replica that acknowledges a write holds it, or something newer.
LEMMA AckerHolds ==
  ASSUME TypeOK, NEW m \in InFlight, OnWriteRequest(m)
  PROVE  /\ m.to \in Replicas /\ m.key \in Keys /\ m.version \in Versions
         /\ Holds(m.to, m.key, m.version)'
<1>1. m.type = "WriteRequest" /\ m.to \in Replicas /\ m.key \in Keys /\ m.version \in Versions
  BY Fields, PlanFacts DEF OnWriteRequest, Deliverable, TypeOK
<1>2. store'[m.to][m.key] = KeepNewer(store[m.to][m.key], Stored(m.value, m.version))
  BY <1>1 DEF OnWriteRequest, TypeOK
<1>3. ~ Newer(m.version, KeepNewer(store[m.to][m.key], Stored(m.value, m.version)).version)
  BY <1>1, StampsAreOrdered DEF KeepNewer, Stored
<1>4. QED
  BY <1>1, <1>2, <1>3 DEF Holds

\* Only a write request makes an acknowledgement.
LEMMA NewAcks ==
  ASSUME TypeOK, [Next]_vars, NEW x \in InFlight', x.type = "WriteAck"
  PROVE  x \in InFlight \/ \E m \in InFlight : OnWriteRequest(m) /\ x = WriteAck(m)
<1>1. IsABag(net)
  BY DEF TypeOK
<1>2. CASE Quiet
  BY <1>2 DEF Quiet
<1>3. ASSUME NEW m \in InFlight, NEW out, Handle(m, out)
      PROVE  InFlight' \subseteq InFlight \cup out
  <2>1. net' = Without(m) (+) SetToBag(out)
    BY <1>3 DEF Handle
  <2>2. QED
    BY <1>1, <2>1, NetHandle
<1>4. ASSUME NEW m \in InFlight, OnReadRequest(m) PROVE x \in InFlight
  <2> DEFINE reply == ReadReply(m, store[m.to][m.key])
  <2>1. Handle(m, {reply})
    BY <1>4 DEF OnReadRequest
  <2>2. reply.type # "WriteAck"
    BY DEF ReadReply
  <2> HIDE DEF reply
  <2>3. QED
    BY <1>3, <2>1, <2>2
<1>5. ASSUME NEW m \in InFlight, OnWriteRequest(m), x \notin InFlight PROVE x = WriteAck(m)
  <2>1. Handle(m, {WriteAck(m)})
    BY <1>5 DEF OnWriteRequest
  <2>2. InFlight' \subseteq InFlight \cup {WriteAck(m)}
    BY <1>3, <2>1
  <2>3. QED
    BY <1>5, <2>2
<1>6. ASSUME NEW m \in InFlight, GatherReply(m) PROVE x \in InFlight
  BY <1>1, <1>6, NetConsume DEF GatherReply, Consume
<1>7. ASSUME NEW m \in InFlight, NEW held, Handle(m, ToAll(m.req, held)) PROVE x \in InFlight
  <2> DEFINE out == ToAll(m.req, held)
  <2>1. \A w \in out : w.type # "WriteAck"
    BY DEF ToAll, WriteRequest
  <2>2. Handle(m, out)
    BY <1>7
  <2> HIDE DEF out
  <2>3. QED
    BY <1>3, <2>1, <2>2
<1>8. ASSUME NEW m \in InFlight, WriteBack(m) PROVE x \in InFlight
  BY <1>7, <1>8 DEF WriteBack
<1>9. ASSUME NEW m \in InFlight, StartWrite(m) PROVE x \in InFlight
  <2>1. PICK held : Handle(m, ToAll(m.req, held))
    BY <1>9 DEF StartWrite
  <2>2. QED
    BY <1>7, <2>1
<1>10. QED
  BY <1>2, <1>4, <1>5, <1>6, <1>8, <1>9, StepKinds

\* m is counted by the round that waits for it.
CountsAck(m) ==
  /\ Deliverable(m, "WriteAck") /\ AwaitsAck(m)
  /\ rounds' = [rounds EXCEPT ![m.req].acks = AcksWith(m)]

\* A round counts no acknowledgement but by GatherAck.
LEMMA NewAckers ==
  ASSUME TypeOK, [Next]_vars, NEW r \in Requests, NEW n \in rounds'[r].acks
  PROVE  \/ n \in rounds[r].acks /\ rounds'[r].version = rounds[r].version
         \/ \E m \in InFlight : CountsAck(m) /\ m.req = r /\ n = m.from
                               /\ rounds'[r].version = rounds[r].version
<1> DEFINE Goal == \/ n \in rounds[r].acks /\ rounds'[r].version = rounds[r].version
                   \/ \E m \in InFlight : CountsAck(m) /\ m.req = r /\ n = m.from
                                         /\ rounds'[r].version = rounds[r].version
<1>1. PICK heard \in SUBSET Replicas : rounds[r] \in Round(heard)
  BY DEF TypeOK, WellFormedRound
<1>2. \A result, version : /\ NoRound.acks = {} /\ NewRound.acks = {}
                           /\ WriteRound(result, version).acks = {}
  BY DEF NoRound, NewRound, WriteRound, RoundIn
<1>3. CASE rounds' = rounds
  BY <1>3
<1>4. ASSUME NEW q \in Requests, NEW round, round.acks = {},
             rounds' = [rounds EXCEPT ![q] = round]
      PROVE  Goal
  BY <1>4 DEF TypeOK
<1>5. ASSUME NEW m \in InFlight, OnMessage(m) PROVE Goal
  <2>1. m.req \in Requests
    BY Fields DEF TypeOK
  <2>2. CASE OnReadRequest(m) \/ OnWriteRequest(m) \/ Ignore(m)
    BY <1>3, <2>2 DEF OnReadRequest, OnWriteRequest, Ignore, nodeVars
  <2>3. CASE OnClientRequest(m)
    BY <1>2, <1>4, <2>1, <2>3 DEF OnClientRequest
  <2>4. CASE GatherReply(m)
    <3>1. rounds' = [rounds EXCEPT ![m.req] = [rounds[m.req] EXCEPT !.replies = RepliesWith(m)]]
      BY <2>4 DEF GatherReply
    <3>2. rounds'[r] = rounds[r] \/ rounds'[r] = [rounds[r] EXCEPT !.replies = RepliesWith(m)]
      BY <3>1 DEF TypeOK
    <3>3. QED
      BY <1>1, <3>2 DEF Round
  <2>5. CASE FinishRead(m) \/ RefuseSwap(m) \/ FinishWrite(m)
    <3>1. rounds' = [rounds EXCEPT ![m.req] = NoRound]
      BY <2>5 DEF FinishRead, RefuseSwap, FinishWrite, Finish
    <3>2. QED
      BY <1>2, <1>4, <2>1, <3>1
  <2>6. CASE WriteBack(m) \/ StartWrite(m)
    <3>1. PICK result, version : rounds' = [rounds EXCEPT ![m.req] = WriteRound(result, version)]
      BY <2>6 DEF WriteBack, StartWrite
    <3>2. QED
      BY <1>2, <1>4, <2>1, <3>1
  <2>7. CASE GatherAck(m)
    <3>1. CountsAck(m)
      BY <2>7 DEF GatherAck, CountsAck
    <3>2. rounds' = [rounds EXCEPT ![m.req] = [rounds[m.req] EXCEPT !.acks = AcksWith(m)]]
      BY <2>7 DEF GatherAck
    <3>3. rounds'[r] = rounds[r] \/ (r = m.req /\ rounds'[r] = [rounds[r] EXCEPT !.acks = AcksWith(m)])
      BY <3>2 DEF TypeOK
    <3>4. rounds'[r].version = rounds[r].version
      BY <1>1, <3>3 DEF Round
    <3>5. n \in rounds[r].acks \/ (r = m.req /\ n = m.from)
      BY <1>1, <3>3 DEF Round, AcksWith
    <3>6. QED
      BY <3>1, <3>4, <3>5
  <2>8. QED
    BY <1>5, <2>2, <2>3, <2>4, <2>5, <2>6, <2>7 DEF OnMessage
<1>6. ASSUME NEW q \in Requests, Timeout(q) PROVE Goal
  BY <1>2, <1>4, <1>6 DEF Timeout
<1>7. ASSUME NEW p \in Replicas, Crash(p) \/ Restart(p) PROVE Goal
  <2>1. rounds'[r] = rounds[r] \/ rounds'[r] = NoRound
    BY <1>7 DEF Crash, Restart
  <2>2. QED
    BY <1>2, <2>1
<1>8. ASSUME NEW m \in InFlight, Lose(m) \/ Duplicate(m) \/ DropAtDown(m) \/ TakeReply(m) PROVE Goal
  BY <1>3, <1>8 DEF Lose, Duplicate, DropAtDown, TakeReply, nodeVars
<1>9. ASSUME NEW q \in Requests, Submit(q) PROVE Goal
  BY <1>3, <1>9 DEF Submit, nodeVars
<1>10. CASE LosePatience \/ UNCHANGED vars
  BY <1>3, <1>10 DEF LosePatience, nodeVars, vars
<1>11. QED
  BY <1>5, <1>6, <1>7, <1>8, <1>9, <1>10, NextCases

\* Only a write quorum makes a durable answer.
LEMMA NewAnswers ==
  ASSUME TypeOK, [Next]_vars, NEW a \in answered', a \notin answered, a.durable
  PROVE  \E m \in InFlight : FinishWrite(m) /\ a.req = m.req /\ a.version = m.version
<1>1. ASSUME NEW r, NEW v, NEW d, NoteAnswer(r, v, d)
      PROVE  d /\ a.req = r /\ a.version = v
  BY <1>1 DEF NoteAnswer
<1>2. ASSUME NEW m \in InFlight, OnMessage(m)
      PROVE  FinishWrite(m) /\ a.req = m.req /\ a.version = m.version
  <2>1. CASE FinishRead(m) \/ RefuseSwap(m)
    <3>1. PICK v : NoteAnswer(m.req, v, FALSE)
      BY <2>1 DEF FinishRead, RefuseSwap
    <3>2. QED
      BY <1>1, <3>1
  <2>2. CASE FinishWrite(m)
    <3>1. NoteAnswer(m.req, m.version, TRUE)
      BY <2>2 DEF FinishWrite
    <3>2. QED
      BY <1>1, <2>2, <3>1
  <2>3. CASE OnReadRequest(m) \/ OnWriteRequest(m) \/ OnClientRequest(m) \/ Ignore(m)
             \/ GatherReply(m) \/ WriteBack(m) \/ StartWrite(m) \/ GatherAck(m)
    BY <2>3 DEF OnReadRequest, OnWriteRequest, OnClientRequest, Ignore, GatherReply,
                WriteBack, StartWrite, GatherAck
  <2>4. QED
    BY <1>2, <2>1, <2>2, <2>3 DEF OnMessage
<1>3. \/ \E m \in InFlight : OnMessage(m)
      \/ answered' = answered
  BY NextCases DEF Timeout, Crash, Restart, Lose, Duplicate, DropAtDown, TakeReply, Submit,
                   LosePatience, vars
<1>4. QED
  BY <1>2, <1>3

LEMMA HoldersAreFinite ==
  ASSUME NEW k, NEW v
  PROVE  /\ IsFiniteSet(Holders(k, v))
         /\ \A S \in SUBSET Holders(k, v) : Cardinality(S) <= Cardinality(Holders(k, v))
         /\ \A S \in SUBSET Holders(k, v) : Cardinality(S) \in Nat
         /\ Cardinality(Holders(k, v)) \in Nat
<1>1. IsFiniteSet(Replicas)
  BY ConfigAssumption, FS_Interval DEF Replicas
<1>2. Holders(k, v) \in SUBSET Replicas
  BY DEF Holders
<1>3. IsFiniteSet(Holders(k, v))
  BY <1>1, <1>2, FS_Subset
<1>4. QED
  BY <1>3, FS_Subset, FS_CardinalityType

\* The replicas a finished write counts all hold it.
LEMMA QuorumHolds ==
  ASSUME TypeOK, AckInv, NEW m \in InFlight, FinishWrite(m)
  PROVE  /\ m.req \in Requests /\ m.version \in Versions
         /\ Cardinality(Holders(Key(m.req), m.version)) >= W
<1>1. /\ m.type = "WriteAck" /\ m.req \in Requests /\ m.from \in Replicas
      /\ m.key = Key(m.req) /\ m.version \in Versions
  BY Fields DEF FinishWrite, Deliverable, TypeOK
<1>2. rounds[m.req].version = m.version /\ Cardinality(AcksWith(m)) >= W
  BY DEF FinishWrite, AwaitsAck
<1>3. AcksWith(m) \in SUBSET Holders(Key(m.req), m.version)
  BY <1>1, <1>2 DEF AckInv, AcksInFlightHold, CountedAcksHold, AcksWith, Holders, Holds
<1>4. Cardinality(AcksWith(m)) \in Nat /\ Cardinality(Holders(Key(m.req), m.version)) \in Nat
      /\ Cardinality(AcksWith(m)) <= Cardinality(Holders(Key(m.req), m.version)) /\ W \in Nat
  BY <1>3, HoldersAreFinite, ConfigAssumption
<1>5. QED
  BY <1>1, <1>2, <1>4

LEMMA HoldersGrow ==
  ASSUME TypeOK, TypeOK', [Next]_vars, NEW k \in Keys, NEW v \in Versions,
         Cardinality(Holders(k, v)) >= W
  PROVE  (Cardinality(Holders(k, v)) >= W)'
<1>1. Holders(k, v) \subseteq Holders(k, v)'
  BY HoldsForEver DEF Holders, Holds
<1>2. IsFiniteSet(Holders(k, v)')
  <2>1. IsFiniteSet(Replicas) /\ Holders(k, v)' \in SUBSET Replicas
    BY ConfigAssumption, FS_Interval DEF Replicas, Holders
  <2>2. QED
    BY <2>1, FS_Subset
<1>3. /\ Cardinality(Holders(k, v)) <= Cardinality(Holders(k, v)')
      /\ Cardinality(Holders(k, v)) \in Nat /\ Cardinality(Holders(k, v)') \in Nat
  BY <1>1, <1>2, FS_Subset, FS_CardinalityType
<1>4. QED
  BY <1>3, ConfigAssumption

LEMMA InitAcks == Init => AckInv
<1> SUFFICES ASSUME Init PROVE AckInv
  OBVIOUS
<1>1. InFlight = {}
  BY DEF Init, EmptyBag, SetToBag, InFlight, BagToSet
<1>2. \A r \in Requests : rounds[r].acks = {}
  BY DEF Init, NoRound, RoundIn
<1>3. answered = {}
  BY DEF Init
<1>4. QED
  BY <1>1, <1>2, <1>3 DEF AckInv, AcksInFlightHold, CountedAcksHold, AnsweredIsDurable

LEMMA StepAcks == TypeOK /\ TypeOK' /\ AckInv /\ [Next]_vars => AckInv'
<1> SUFFICES ASSUME TypeOK, TypeOK', AckInv, [Next]_vars PROVE AckInv'
  OBVIOUS
<1>1. ASSUME NEW x \in InFlight', x.type = "WriteAck"
      PROVE  Holds(x.from, x.key, x.version)'
  <2>1. CASE x \in InFlight
    <3>1. x.from \in Replicas /\ x.key \in Keys /\ x.version \in Versions
      BY <1>1, <2>1, Fields, PlanFacts DEF TypeOK
    <3>2. Holds(x.from, x.key, x.version)
      BY <1>1, <2>1 DEF AckInv, AcksInFlightHold
    <3>3. QED
      BY <3>1, <3>2, HoldsForEver
  <2>2. ASSUME NEW m \in InFlight, OnWriteRequest(m), x = WriteAck(m)
        PROVE  Holds(x.from, x.key, x.version)'
    <3>1. Holds(m.to, m.key, m.version)'
      BY <2>2, AckerHolds
    <3>2. x.from = m.to /\ x.key = m.key /\ x.version = m.version
      BY <2>2 DEF WriteAck
    <3>3. QED
      BY <3>1, <3>2
  <2>3. QED
    BY <1>1, <2>1, <2>2, NewAcks
<1>2. ASSUME NEW r \in Requests, NEW n \in rounds'[r].acks
      PROVE  n \in Replicas /\ (~ Newer(rounds'[r].version, store'[n][Key(r)].version))
  <2>1. PICK heard \in SUBSET Replicas : rounds[r] \in Round(heard)
    BY DEF TypeOK, WellFormedRound
  <2>2. rounds[r].version \in Versions /\ Key(r) \in Keys
    BY <2>1, PlanFacts DEF Round
  <2>3. n \in Replicas /\ Holds(n, Key(r), rounds[r].version) /\ rounds'[r].version = rounds[r].version
    <3>1. CASE n \in rounds[r].acks /\ rounds'[r].version = rounds[r].version
      BY <3>1 DEF AckInv, CountedAcksHold
    <3>2. ASSUME NEW m \in InFlight, CountsAck(m), m.req = r, n = m.from
          PROVE  n \in Replicas /\ Holds(n, Key(r), rounds[r].version)
      <4>1. m.type = "WriteAck" /\ m.version = rounds[r].version
        BY <3>2 DEF CountsAck, Deliverable, AwaitsAck
      <4>2. m.from \in Replicas /\ m.key = Key(r)
        BY <3>2, <4>1, Fields DEF TypeOK
      <4>3. QED
        BY <3>2, <4>1, <4>2 DEF AckInv, AcksInFlightHold
    <3>3. QED
      BY <3>1, <3>2, NewAckers
  <2>4. ~ Newer(rounds[r].version, store'[n][Key(r)].version)
    <3>1. PICK v : v = rounds[r].version
      OBVIOUS
    <3>2. Holds(n, Key(r), v)'
      BY <2>2, <2>3, <3>1, HoldsForEver
    <3>3. QED
      BY <3>1, <3>2 DEF Holds
  <2>5. QED
    BY <2>3, <2>4 DEF Holds
<1>3. ASSUME NEW a \in answered', a.durable
      PROVE  (Cardinality(Holders(Key(a.req), a.version)) >= W)'
  <2>1. a.req \in Requests /\ a.version \in Versions /\ Key(a.req) \in Keys
    BY PlanFacts DEF TypeOK
  <2>2. Cardinality(Holders(Key(a.req), a.version)) >= W
    <3>1. CASE a \in answered
      BY <1>3, <3>1 DEF AckInv, AnsweredIsDurable
    <3>2. CASE a \notin answered
      BY <1>3, <3>2, NewAnswers, QuorumHolds
    <3>3. QED
      BY <3>1, <3>2
  <2>3. QED
    BY <2>1, <2>2, HoldersGrow
<1>4. AcksInFlightHold'
  BY <1>1 DEF AcksInFlightHold
<1>5. CountedAcksHold'
  BY <1>2 DEF CountedAcksHold, Holds
<1>6. AnsweredIsDurable'
  BY <1>3 DEF AnsweredIsDurable
<1>7. QED
  BY <1>4, <1>5, <1>6 DEF AckInv

\* Whatever is lost, duplicated, reordered or crashed, W replicas hold the
\* value of every answer that a write quorum stands behind.
THEOREM AnswersAreDurable == Spec => []AnsweredIsDurable
<1>1. AckInv => AnsweredIsDurable
  BY DEF AckInv
<1>2. TypeOK /\ TypeOK' /\ AckInv /\ [Next]_vars => AckInv'
  BY StepAcks
<1>3. QED
  BY <1>1, <1>2, InitAcks, TypeCorrect, PTL DEF Spec
=============================================================================
