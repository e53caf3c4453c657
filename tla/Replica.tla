------------------------------ MODULE Replica ------------------------------
(***************************************************************************)
(* The replicas of one cluster: each is a store, and a coordinator for the *)
(* requests clients send it (cassette/kv/replica.py).  A coordinator asks  *)
(* every replica what it holds, waits for R answers, then writes to every  *)
(* replica and waits for W acknowledgements.  A read writes back the       *)
(* newest value it saw before answering.                                   *)
(*                                                                         *)
(* Messages travel through a bag: they may be delivered in any order, at   *)
(* any time, twice, or never.  Latency, partitions and pauses show up only *)
(* as the order of deliveries and as losses.  A crash loses the rounds a   *)
(* replica coordinates and nothing else.                                   *)
(*                                                                         *)
(* Requests is the set of request ids; Plan gives each one the fields of   *)
(* the client's PlannedOp.  A request is sent to one coordinator only, so  *)
(* a round is indexed by its request and lives at Plan[r].coordinator.     *)
(***************************************************************************)
EXTENDS Version, FiniteSets, Bags

CONSTANTS
  N,               \* number of replicas; their ids are 0 .. N-1
  R,               \* read quorum
  W,               \* write quorum
  StableVersions,  \* remember issued stamps (StoreConfig.stable_versions)
  ReadRepair,      \* write back before answering a read (StoreConfig.read_repair)
  Requests,        \* ids of the requests that clients may send
  Plan,            \* Plan[r]: the operation behind request r
  Keys,
  Values,          \* what clients write
  None,            \* the value of a register never written
  Faults,          \* faults that may happen: "lose", "crash", "early", and the
                   \* types of message the network may deliver twice
  MaxFaults        \* bound: faults in a behaviour

Replicas == 0 .. N-1

Swapped    == 1
NotSwapped == 0
Answers    == Values \cup {None, Swapped, NotSwapped}

Kinds == {"read", "write", "cas"}

PlannedOp ==
  [client : Int, kind : Kinds, key : Keys, argument : Values \cup {None},
   expected : Values \cup {None}, coordinator : Replicas]

ASSUME ConfigAssumption ==
  /\ N \in Nat \ {0}
  /\ R \in 1 .. N
  /\ W \in 1 .. N
  /\ StableVersions \in BOOLEAN
  /\ ReadRepair \in BOOLEAN

ASSUME PlanAssumption ==
  /\ Plan \in [Requests -> PlannedOp]
  /\ \A r \in Requests : Plan[r].client \notin Replicas

ASSUME BoundAssumption == MaxFaults \in Nat

\* StoreConfig.quorums_overlap: every read quorum meets every write quorum.
QuorumsOverlap == R + W > N

Coordinator(r) == Plan[r].coordinator
Key(r)         == Plan[r].key

VARIABLES
  store,      \* store[n][k]: what replica n durably holds for key k
  issued,     \* issued[n][k]: the newest stamp n has minted for k, durable
  rounds,     \* rounds[r]: the round its coordinator has open for r
  down,       \* replicas that are crashed
  net,        \* bag of the messages in flight
  submitted,  \* requests their client has sent
  faults,     \* faults so far (bounded by MaxFaults)
  answered    \* history variable: the answers coordinators have given

nodeVars == <<store, issued, rounds, down>>
vars == <<store, issued, rounds, down, net, submitted, faults, answered>>

-----------------------------------------------------------------------------
(* Messages (cassette/kv/messages.py).  The op, value and expected fields  *)
(* of a client's request are those of Plan[r].                             *)

ClientRequest(r) ==
  [type |-> "ClientRequest", from |-> Plan[r].client, to |-> Coordinator(r), req |-> r]

ClientReply(r, ok, value) ==
  [type |-> "ClientReply", from |-> Coordinator(r), to |-> Plan[r].client,
   req |-> r, ok |-> ok, value |-> value]

ReadRequest(r, n) ==
  [type |-> "ReadRequest", from |-> Coordinator(r), to |-> n, req |-> r, key |-> Key(r)]

\* Mutant: the reply is addressed to its sender.
ReadReplyToSelf(m, held) ==
  [type |-> "ReadReply", from |-> m.from, to |-> m.to, req |-> m.req, key |-> m.key,
   value |-> held.value, version |-> held.version]

ReadReply(m, held) ==
  [type |-> "ReadReply", from |-> m.to, to |-> m.from, req |-> m.req, key |-> m.key,
   value |-> held.value, version |-> held.version]

WriteRequest(r, n, value, version) ==
  [type |-> "WriteRequest", from |-> Coordinator(r), to |-> n, req |-> r, key |-> Key(r),
   value |-> value, version |-> version]

WriteAck(m) ==
  [type |-> "WriteAck", from |-> m.to, to |-> m.from, req |-> m.req, key |-> m.key,
   version |-> m.version]

-----------------------------------------------------------------------------
(* The network.                                                            *)

InFlight == BagToSet(net)

Deliverable(m, type) ==
  /\ m \in InFlight
  /\ m.type = type
  /\ m.to \notin down

Fault(kind) ==
  /\ kind \in Faults
  /\ faults < MaxFaults
  /\ faults' = faults + 1

Without(m) == net (-) SetToBag({m})

\* Handle m, sending out.
Handle(m, out) == net' = Without(m) (+) SetToBag(out) /\ UNCHANGED faults

\* Handle m without sending anything.
Consume(m) == net' = Without(m) /\ UNCHANGED faults

\* A timeout fires.  One that overtakes a message counts as a fault.
CountTimeout(overtakes) == IF overtakes THEN Fault("early") ELSE UNCHANGED faults

Absent == Stored(None, Zero)

\* A round nobody has answered yet.
RoundIn(phase, result, version) ==
  [phase |-> phase, version |-> version, result |-> result,
   replies |-> [n \in {} |-> Absent], acks |-> {}]

NoRound == RoundIn("closed", None, Zero)

NewRound == RoundIn("read", None, Zero)

\* Phase two.  The replies of phase one are never read again: they are dropped.
WriteRound(result, version) == RoundIn("write", result, version)

IsOpen(r) == rounds[r].phase # "closed"

\* n sent the newest of the replies, the lowest id winning a tie.
IsNewest(replies, n) ==
  /\ n \in DOMAIN replies
  /\ \A p \in DOMAIN replies :
       /\ ~ Newer(replies[p].version, replies[n].version)
       /\ p < n => replies[p].version # replies[n].version

ToAll(r, held) == {WriteRequest(r, n, held.value, held.version) : n \in Replicas}

\* Mutant: the stamps already issued are forgotten.
MintForgetful(n, k, observed) == NextFrom(observed, n)

\* A stamp newer than anything n has seen or, with StableVersions, issued.
Mint(n, k, observed) ==
  NextFrom(IF StableVersions THEN Later(observed, issued[n][k]) ELSE observed, n)

\* r is answered on the strength of version; it is durable when a write quorum
\* has acknowledged it.  Only the properties read this.
NoteAnswer(r, version, durable) ==
  answered' = answered \cup {[req |-> r, version |-> version, durable |-> durable]}

Init ==
  /\ store     = [n \in Replicas |-> [k \in Keys |-> Absent]]
  /\ issued    = [n \in Replicas |-> [k \in Keys |-> Zero]]
  /\ rounds    = [r \in Requests |-> NoRound]
  /\ down      = {}
  /\ net       = EmptyBag
  /\ submitted = {}
  /\ faults    = 0
  /\ answered  = {}

-----------------------------------------------------------------------------
(* The environment: clients.                                               *)

Submit(r) ==
  /\ r \notin submitted
  /\ submitted' = submitted \cup {r}
  /\ net' = net (+) SetToBag({ClientRequest(r)})
  /\ UNCHANGED <<nodeVars, faults, answered>>

TakeReply(m) ==
  /\ Deliverable(m, "ClientReply")
  /\ Consume(m)
  /\ UNCHANGED <<nodeVars, submitted, answered>>

\* A client stops waiting for an answer on its way.  No replica notices.
LosePatience ==
  /\ Fault("early")
  /\ UNCHANGED <<nodeVars, net, submitted, answered>>

-----------------------------------------------------------------------------
(* The storage role.                                                       *)

OnReadRequest(m) ==
  /\ Deliverable(m, "ReadRequest")
  /\ Handle(m, {ReadReply(m, store[m.to][m.key])})
  /\ UNCHANGED <<nodeVars, submitted, answered>>

\* Mutant: a write that is not kept is not acknowledged.
OnWriteRequestSilent(m) ==
  /\ Deliverable(m, "WriteRequest")
  /\ store' = [store EXCEPT ![m.to][m.key] = KeepNewer(@, Stored(m.value, m.version))]
  /\ Handle(m, IF store' = store THEN {} ELSE {WriteAck(m)})
  /\ UNCHANGED <<issued, rounds, down, submitted, answered>>

\* The newer value is kept, and the write is acknowledged either way.
OnWriteRequest(m) ==
  /\ Deliverable(m, "WriteRequest")
  /\ store' = [store EXCEPT ![m.to][m.key] = KeepNewer(@, Stored(m.value, m.version))]
  /\ Handle(m, {WriteAck(m)})
  /\ UNCHANGED <<issued, rounds, down, submitted, answered>>

-----------------------------------------------------------------------------
(* The coordinator role.                                                   *)

\* Close the round of the message m and answer its client.
Finish(m, value) ==
  /\ rounds' = [rounds EXCEPT ![m.req] = NoRound]
  /\ Handle(m, {ClientReply(m.req, TRUE, value)})

OnClientRequest(m) ==
  /\ Deliverable(m, "ClientRequest")
  /\ ~ IsOpen(m.req)
  /\ rounds' = [rounds EXCEPT ![m.req] = NewRound]
  /\ Handle(m, {ReadRequest(m.req, n) : n \in Replicas})
  /\ UNCHANGED <<store, issued, down, submitted, answered>>

AwaitsReply(m) == rounds[m.req].phase = "read" /\ m.key = Key(m.req)

AwaitsAck(m) == rounds[m.req].phase = "write" /\ m.version = rounds[m.req].version

\* A request whose round is already open, or an answer no round waits for.
Ignore(m) ==
  /\ \/ Deliverable(m, "ClientRequest") /\ IsOpen(m.req)
     \/ Deliverable(m, "ReadReply") /\ ~ AwaitsReply(m)
     \/ Deliverable(m, "WriteAck") /\ ~ AwaitsAck(m)
  /\ Consume(m)
  /\ UNCHANGED <<nodeVars, submitted, answered>>

\* The replies of m's round once m is among them; a sender's last reply counts.
RepliesWith(m) ==
  LET replies == rounds[m.req].replies
  IN  [n \in DOMAIN replies \cup {m.from} |->
         IF n = m.from THEN Stored(m.value, m.version) ELSE replies[n]]

GatherReply(m) ==
  /\ Deliverable(m, "ReadReply") /\ AwaitsReply(m)
  /\ Cardinality(DOMAIN RepliesWith(m)) < R
  /\ rounds' = [rounds EXCEPT ![m.req].replies = RepliesWith(m)]
  /\ Consume(m)
  /\ UNCHANGED <<store, issued, down, submitted, answered>>

\* Mutant: one reply too few.
ReadQuorumShort(m, held) ==
  /\ Deliverable(m, "ReadReply") /\ AwaitsReply(m)
  /\ Cardinality(DOMAIN RepliesWith(m)) >= R - 1
  /\ \E n \in DOMAIN RepliesWith(m) :
       IsNewest(RepliesWith(m), n) /\ held = RepliesWith(m)[n]

\* m completes a read quorum, whose newest reply is held.
ReadQuorum(m, held) ==
  /\ Deliverable(m, "ReadReply") /\ AwaitsReply(m)
  /\ Cardinality(DOMAIN RepliesWith(m)) >= R
  /\ \E n \in DOMAIN RepliesWith(m) :
       IsNewest(RepliesWith(m), n) /\ held = RepliesWith(m)[n]

\* What m's round may choose from.
Replied(m) == {RepliesWith(m)[n] : n \in DOMAIN RepliesWith(m)}

\* Mutant: the value is reported before it is written back.
FinishReadUnrepaired(m) ==
  /\ Deliverable(m, "ReadReply") /\ Plan[m.req].kind = "read"
  /\ \E held \in Replied(m) :
       /\ ReadQuorum(m, held)
       /\ NoteAnswer(m.req, held.version, FALSE)
       /\ Finish(m, held.value)
  /\ UNCHANGED <<store, issued, down, submitted>>

FinishRead(m) ==
  /\ Deliverable(m, "ReadReply") /\ Plan[m.req].kind = "read"
  /\ \E held \in Replied(m) :
       /\ ReadQuorum(m, held)
       /\ ~ ReadRepair \/ held.version = Zero
       /\ NoteAnswer(m.req, held.version, FALSE)
       /\ Finish(m, held.value)
  /\ UNCHANGED <<store, issued, down, submitted>>

\* Phase two of a read: make the value it will report durable first.
WriteBack(m) ==
  /\ Deliverable(m, "ReadReply") /\ Plan[m.req].kind = "read"
  /\ \E held \in Replied(m) :
       /\ ReadQuorum(m, held)
       /\ ReadRepair /\ held.version # Zero
       /\ rounds' = [rounds EXCEPT ![m.req] = WriteRound(held.value, held.version)]
       /\ Handle(m, ToAll(m.req, held))
  /\ UNCHANGED <<store, issued, down, submitted, answered>>

\* Mutant: the expectation is checked after the write has been sent out.
RefuseSwapLate(m) ==
  /\ Deliverable(m, "ReadReply") /\ Plan[m.req].kind = "cas"
  /\ \E held \in Replied(m) :
       LET minted == Mint(m.to, m.key, held.version)
       IN  /\ ReadQuorum(m, held)
           /\ held.value # Plan[m.req].expected
           /\ NoteAnswer(m.req, held.version, FALSE)
           /\ rounds' = [rounds EXCEPT ![m.req] = NoRound]
           /\ Handle(m, ToAll(m.req, Stored(Plan[m.req].argument, minted))
                          \cup {ClientReply(m.req, TRUE, NotSwapped)})
  /\ UNCHANGED <<store, issued, down, submitted>>

\* A compare-and-swap whose expectation does not hold.
RefuseSwap(m) ==
  /\ Deliverable(m, "ReadReply") /\ Plan[m.req].kind = "cas"
  /\ \E held \in Replied(m) :
       /\ ReadQuorum(m, held)
       /\ held.value # Plan[m.req].expected
       /\ NoteAnswer(m.req, held.version, FALSE)
       /\ Finish(m, NotSwapped)
  /\ UNCHANGED <<store, issued, down, submitted>>

StartWrite(m) ==
  /\ Deliverable(m, "ReadReply") /\ Plan[m.req].kind # "read"
  /\ \E held \in Replied(m) :
       LET minted == Mint(m.to, m.key, held.version)
       IN  /\ ReadQuorum(m, held)
           /\ Plan[m.req].kind = "cas" => held.value = Plan[m.req].expected
           /\ rounds' = [rounds EXCEPT ![m.req] = WriteRound(None, minted)]
           /\ issued' = IF StableVersions
                        THEN [issued EXCEPT ![m.to][m.key] = minted]
                        ELSE issued
           /\ Handle(m, ToAll(m.req, Stored(Plan[m.req].argument, minted)))
  /\ UNCHANGED <<store, down, submitted, answered>>

AcksWith(m) == rounds[m.req].acks \cup {m.from}

GatherAck(m) ==
  /\ Deliverable(m, "WriteAck") /\ AwaitsAck(m)
  /\ Cardinality(AcksWith(m)) < W
  /\ rounds' = [rounds EXCEPT ![m.req].acks = AcksWith(m)]
  /\ Consume(m)
  /\ UNCHANGED <<store, issued, down, submitted, answered>>

Answer(r) ==
  CASE Plan[r].kind = "read"  -> rounds[r].result
    [] Plan[r].kind = "cas"   -> Swapped
    [] Plan[r].kind = "write" -> None

\* Mutant: one acknowledgement too few.
FinishWriteShort(m) ==
  /\ Deliverable(m, "WriteAck") /\ AwaitsAck(m)
  /\ Cardinality(AcksWith(m)) >= W - 1
  /\ NoteAnswer(m.req, m.version, TRUE)
  /\ Finish(m, Answer(m.req))
  /\ UNCHANGED <<store, issued, down, submitted>>

FinishWrite(m) ==
  /\ Deliverable(m, "WriteAck") /\ AwaitsAck(m)
  /\ Cardinality(AcksWith(m)) >= W
  /\ NoteAnswer(m.req, m.version, TRUE)
  /\ Finish(m, Answer(m.req))
  /\ UNCHANGED <<store, issued, down, submitted>>

\* Mutant: the timer is not armed anew for the second phase.
TimeoutOfPhaseOne(r) ==
  /\ rounds[r].phase = "read"
  /\ CountTimeout(\E m \in InFlight : m.req = r)
  /\ rounds' = [rounds EXCEPT ![r] = NoRound]
  /\ net' = net (+) SetToBag({ClientReply(r, FALSE, None)})
  /\ UNCHANGED <<store, issued, down, submitted, answered>>

\* The round never reached its quorum: the client is told so, and the writes
\* already sent stay in flight.
Timeout(r) ==
  /\ IsOpen(r)
  /\ CountTimeout(\E m \in InFlight : m.req = r)
  /\ rounds' = [rounds EXCEPT ![r] = NoRound]
  /\ net' = net (+) SetToBag({ClientReply(r, FALSE, None)})
  /\ UNCHANGED <<store, issued, down, submitted, answered>>

-----------------------------------------------------------------------------
(* Faults.                                                                 *)

\* Mutant: the store is lost with the rounds.
CrashForgetsStore(n) ==
  /\ n \notin down
  /\ Fault("crash")
  /\ down' = down \cup {n}
  /\ rounds' = [r \in Requests |-> IF Coordinator(r) = n THEN NoRound ELSE rounds[r]]
  /\ store' = [store EXCEPT ![n] = [k \in Keys |-> Absent]]
  /\ UNCHANGED <<issued, net, submitted, answered>>

\* Rounds and their timers are volatile; the store and the stamps are not.
Crash(n) ==
  /\ n \notin down
  /\ Fault("crash")
  /\ down' = down \cup {n}
  /\ rounds' = [r \in Requests |-> IF Coordinator(r) = n THEN NoRound ELSE rounds[r]]
  /\ UNCHANGED <<store, issued, net, submitted, answered>>

Restart(n) ==
  /\ n \in down
  /\ down' = down \ {n}
  /\ UNCHANGED <<store, issued, rounds, net, submitted, faults, answered>>

\* Lost when sent, or dropped on arrival by a partition.
Lose(m) ==
  /\ m \in InFlight
  /\ Fault("lose")
  /\ net' = Without(m)
  /\ UNCHANGED <<nodeVars, submitted, answered>>

\* The network delivers a copy of its own as well (at most one per message in
\* the code; MaxFaults bounds the copies here).
Duplicate(m) ==
  /\ m \in InFlight
  /\ Fault(m.type)
  /\ net' = net (+) SetToBag({m})
  /\ UNCHANGED <<nodeVars, submitted, answered>>

\* Arrived while its recipient is down.
DropAtDown(m) ==
  /\ m \in InFlight
  /\ m.to \in down
  /\ Consume(m)
  /\ UNCHANGED <<nodeVars, submitted, answered>>

-----------------------------------------------------------------------------
OnMessage(m) ==
  \/ OnReadRequest(m)
  \/ OnWriteRequest(m)
  \/ OnClientRequest(m)
  \/ Ignore(m)
  \/ GatherReply(m)
  \/ FinishRead(m)
  \/ WriteBack(m)
  \/ RefuseSwap(m)
  \/ StartWrite(m)
  \/ GatherAck(m)
  \/ FinishWrite(m)

\* Steps of the replicas, the network and the faults; clients do not take part.
ReplicaStep ==
  \/ \E m \in InFlight : OnMessage(m) \/ Lose(m) \/ Duplicate(m) \/ DropAtDown(m)
  \/ \E r \in Requests : Timeout(r)
  \/ \E n \in Replicas : Crash(n) \/ Restart(n)

ClientStep ==
  \/ \E r \in Requests : Submit(r)
  \/ \E m \in InFlight : TakeReply(m)
  \/ LosePatience

\* Nothing is left to do.
Idle ==
  /\ submitted = Requests
  /\ InFlight = {}
  /\ down = {}
  /\ \A r \in Requests : ~ IsOpen(r)
  /\ UNCHANGED vars

Next == ReplicaStep \/ ClientStep \/ Idle

Spec == Init /\ [][Next]_vars

-----------------------------------------------------------------------------
(* Fairness.  The scheduler pops every queued event sooner or later: a     *)
(* message is delivered, lost or dropped, a pending timer fires, a crashed *)
(* node has its restart queued.  No fault has to happen.                   *)

HandleMessage == \E m \in InFlight : OnMessage(m) \/ DropAtDown(m)

Fairness ==
  /\ WF_vars(HandleMessage)
  /\ \A r \in Requests : WF_vars(Timeout(r))
  /\ \A n \in Replicas : WF_vars(Restart(n))

FairSpec == Spec /\ Fairness

-----------------------------------------------------------------------------
(* Properties.                                                             *)

Messages ==
       [type : {"ClientRequest"}, from : Int, to : Replicas, req : Requests]
  \cup [type : {"ClientReply"}, from : Replicas, to : Int, req : Requests,
        ok : BOOLEAN, value : Answers]
  \cup [type : {"ReadRequest"}, from : Replicas, to : Replicas, req : Requests,
        key : Keys]
  \cup [type : {"ReadReply", "WriteRequest"}, from : Replicas, to : Replicas,
        req : Requests, key : Keys, value : Values \cup {None}, version : Versions]
  \cup [type : {"WriteAck"}, from : Replicas, to : Replicas, req : Requests,
        key : Keys, version : Versions]

StoredValues == [value : Values \cup {None}, version : Versions]

\* A round that has heard from the replicas in heard.
Round(heard) ==
  [phase : {"closed", "read", "write"}, version : Versions,
   result : Values \cup {None}, replies : [heard -> StoredValues],
   acks : SUBSET Replicas]

\* A request's messages run to and from its coordinator, about its key.
Addressed(m) ==
  /\ Coordinator(m.req) = IF m.type \in {"ClientRequest", "ReadReply", "WriteAck"}
                          THEN m.to ELSE m.from
  /\ m.type \notin {"ClientRequest", "ClientReply"} => m.key = Key(m.req)

WellFormed(m) == m \in Messages /\ Addressed(m)

WellFormedRound(round) == \E heard \in SUBSET Replicas : round \in Round(heard)

\* The shape of the state: what replica.py keeps, durable and volatile, and
\* what is in flight.
TypeOK ==
  /\ store \in [Replicas -> [Keys -> StoredValues]]
  /\ issued \in [Replicas -> [Keys -> Versions]]
  /\ rounds = [r \in Requests |-> rounds[r]]
  /\ \A r \in Requests : WellFormedRound(rounds[r])
  /\ down \in SUBSET Replicas
  /\ IsABag(net)
  /\ \A m \in InFlight : WellFormed(m)
  /\ submitted \in SUBSET Requests
  /\ faults \in Nat
  /\ answered \in SUBSET [req : Requests, version : Versions, durable : BOOLEAN]

Carries(m) == m.type \in {"ReadReply", "WriteRequest"}

\* What a round in its write phase asks the replicas to hold.
Writing(r) ==
  Stored(IF Plan[r].kind = "read" THEN rounds[r].result ELSE Plan[r].argument,
         rounds[r].version)

HeldCopies(k) == {store[n][k] : n \in Replicas}

CarriedCopies(k) ==
  {Stored(m.value, m.version) : m \in {c \in InFlight : Carries(c) /\ c.key = k}}

GatheredBy(r) == {rounds[r].replies[n] : n \in DOMAIN rounds[r].replies}

GatheredCopies(k) == UNION {GatheredBy(r) : r \in {q \in Requests : Key(q) = k}}

WrittenCopies(k) ==
  {Writing(r) : r \in {q \in Requests : Key(q) = k /\ rounds[q].phase = "write"}}

\* Every value of key k, with its stamp, anywhere in the cluster.
Copies(k) == HeldCopies(k) \cup CarriedCopies(k) \cup GatheredCopies(k) \cup WrittenCopies(k)

\* A stamp names one value: replicas that hold the same stamp for a key hold
\* the same value, whatever races, crashes, losses and duplicates led there.
\* This is what _mint's record of issued stamps is for.
StampIdentifiesValue ==
  \A k \in Keys : \A a, b \in Copies(k) : a.version = b.version => a.value = b.value

\* Holders(k, v): the replicas whose store has v or newer for k.
Holders(k, v) == {n \in Replicas : ~ Newer(v, store[n][k].version)}

\* A value a client was told about on the strength of a write quorum is held,
\* or superseded, by W replicas, and stays so across crashes.
AnsweredIsDurable ==
  \A a \in answered : a.durable => Cardinality(Holders(Key(a.req), a.version)) >= W

\* A replica's copy of a key never gets older: late, duplicated and reordered
\* writes are absorbed by the stamp comparison of _on_write_request.
StoreNeverGoesBack ==
  [][\A n \in Replicas, k \in Keys :
       ~ Newer(store[n][k].version, store'[n][k].version)]_vars

\* No round stays open for ever: it gathers its quorums, or its timer (armed
\* anew for each phase) gives up on it, or it dies with its coordinator.
RoundsClose == \A r \in Requests : IsOpen(r) ~> ~ IsOpen(r)
=============================================================================
