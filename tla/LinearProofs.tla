---------------------------- MODULE LinearProofs -----------------------------
(***************************************************************************)
(* Every run's history is linearizable (Cluster!Linearizable), for every   *)
(* cluster configured as the documentation says (overlapping quorums,      *)
(* remembered stamps, read repair), when clients read and write and        *)
(* requests are not delivered twice.                                       *)
(*                                                                         *)
(* The argument: mint, a record of the stamp each write was given, exists  *)
(* in every state reached (GhostInv).  Every value a replica holds or a    *)
(* message carries was put there by the write the record names, and every  *)
(* answer rests on one of these stamps, so that the stamps lay out the     *)
(* operations of a key in one order.  That this order agrees with real     *)
(* time is OrderInv of ClusterProofs for the reads, and the same quorum    *)
(* argument (MintsOver) for the writes, the ones never answered included.  *)
(* The rest is about orders and registers, and not about replicas.         *)
(***************************************************************************)
EXTENDS ClusterProofs, RegisterProofs

-----------------------------------------------------------------------------
(* One register, and operations that stamps put in order.                  *)

\* Where the last of the writes among the first i operations of order is.
LastWrite(ops, order, i) ==
  {j \in 1 .. i : /\ ops[order[j]].kind = "write"
                  /\ \A l \in j+1 .. i : ops[order[l]].kind # "write"}

HoldsLastWrite(ops, order, i) ==
  /\ LastWrite(ops, order, i) = {} => StatesAlong(None, ops, order)[i] = None
  /\ \A j \in LastWrite(ops, order, i) :
       StatesAlong(None, ops, order)[i] = ops[order[j]].argument

\* A register that is read and written holds what the last write put there.
LEMMA LastWriteIsHeld ==
  ASSUME NEW ops, NEW n \in Nat, NEW order \in [1 .. n -> DOMAIN ops],
         \A r \in DOMAIN ops : ops[r].kind \in {"read", "write"},
         NEW i \in 0 .. n
  PROVE  HoldsLastWrite(ops, order, i)
<1> DEFINE state == StatesAlong(None, ops, order)
           Wrong == {p \in 0 .. n : ~ HoldsLastWrite(ops, order, p)}
<1>1. state[0] = None /\ \A p \in 1 .. n : state[p] = NextState(state[p-1], ops[order[p]])
  <2>1. Len(order) = n
    OBVIOUS
  <2>2. QED
    BY <2>1, StatesUnfold
<1>2. SUFFICES ASSUME Wrong # {} PROVE FALSE
  OBVIOUS
<1>3. PICK p \in Wrong : \A q \in Wrong : p <= q
  <2>1. Wrong \in SUBSET Nat
    OBVIOUS
  <2> HIDE DEF Wrong
  <2>2. QED
    BY <1>2, <2>1, LeastNatural
<1>4. p \in 0 .. n /\ ~ HoldsLastWrite(ops, order, p)
  OBVIOUS
<1>5. p # 0
  <2>1. SUFFICES ASSUME p = 0 PROVE HoldsLastWrite(ops, order, 0)
    BY <1>4
  <2>2. LastWrite(ops, order, 0) = {}
    BY DEF LastWrite
  <2>3. QED
    BY <1>1, <2>2 DEF HoldsLastWrite
<1>6. p \in 1 .. n /\ p - 1 \in 0 .. n /\ p - 1 \notin Wrong /\ order[p] \in DOMAIN ops
  BY <1>3, <1>4, <1>5
<1>7. HoldsLastWrite(ops, order, p - 1) /\ state[p] = NextState(state[p-1], ops[order[p]])
  BY <1>1, <1>6
<1> HIDE DEF Wrong
<1>8. CASE ops[order[p]].kind = "write"
  <2>1. LastWrite(ops, order, p) = {p}
    <3>1. p \in LastWrite(ops, order, p)
      BY <1>6, <1>8 DEF LastWrite
    <3>2. ASSUME NEW j \in LastWrite(ops, order, p) PROVE j = p
      <4>1. j \in 1 .. p /\ \A l \in j+1 .. p : ops[order[l]].kind # "write"
        BY DEF LastWrite
      <4>2. QED
        BY <1>6, <1>8, <4>1
    <3>3. QED
      BY <3>1, <3>2
  <2>2. state[p] = ops[order[p]].argument
    BY <1>7, <1>8 DEF NextState
  <2>3. HoldsLastWrite(ops, order, p)
    BY <2>1, <2>2 DEF HoldsLastWrite
  <2>4. QED
    BY <1>4, <2>3
<1>9. CASE ops[order[p]].kind = "read"
  <2>1. LastWrite(ops, order, p) = LastWrite(ops, order, p - 1)
    <3>1. ASSUME NEW j \in LastWrite(ops, order, p) PROVE j \in LastWrite(ops, order, p - 1)
      BY <1>6, <1>9, <3>1 DEF LastWrite
    <3>2. ASSUME NEW j \in LastWrite(ops, order, p - 1) PROVE j \in LastWrite(ops, order, p)
      BY <1>6, <1>9, <3>2 DEF LastWrite
    <3>3. QED
      BY <3>1, <3>2
  <2>2. state[p] = state[p-1]
    BY <1>7, <1>9 DEF NextState
  <2>3. HoldsLastWrite(ops, order, p)
    BY <1>7, <2>1, <2>2 DEF HoldsLastWrite
  <2>4. QED
    BY <1>4, <2>3
<1>10. QED
  BY <1>6, <1>8, <1>9

\* The stamps tell which of the operations took effect, S, in which order.
StampsExplain(ops, pre, S, stamp) ==
  /\ \A o \in DOMAIN ops : ops[o].kind \in {"read", "write"}
  /\ S \in SUBSET DOMAIN ops /\ IsFiniteSet(S)
  /\ \A o \in DOMAIN ops : ops[o].completed => o \in S
  /\ stamp \in [S -> Versions]
  /\ \A v, w \in S : ops[v].kind = "write" /\ ops[w].kind = "write" /\ stamp[v] = stamp[w] => v = w
  /\ \A o \in S : ops[o].kind = "read" =>
       \/ /\ ops[o].result = None
          /\ \A w \in S : ops[w].kind = "write" => Newer(stamp[w], stamp[o])
       \/ \E w \in S : /\ ops[w].kind = "write" /\ stamp[w] = stamp[o]
                       /\ ops[o].result = ops[w].argument
  /\ \A o \in S : o \notin pre[o] /\ IsFiniteSet(pre[o])
  /\ \A o \in S : \A p \in S \cap pre[o] :
       /\ pre[p] \subseteq pre[o]
       /\ ~ Newer(stamp[p], stamp[o])
       /\ ops[o].kind = "write" => Newer(stamp[o], stamp[p])

\* Operations of one register, ordered by stamp, each write before the reads of
\* it, and those by real time, are a linearization.
LEMMA StampedHistoryIsLinearizable ==
  ASSUME NEW ops, NEW pre, NEW S, NEW stamp, StampsExplain(ops, pre, S, stamp)
  PROVE  LinearizableFrom(None, ops, pre)
<1> USE DEF StampsExplain
<1> DEFINE Writes(o) == ops[o].kind = "write"
           n         == Cardinality(S)
           size      == [o \in S |-> Cardinality(pre[o])]
<1>1. n \in Nat /\ size \in [S -> Nat]
  BY FS_CardinalityType
<1>2. PICK id \in [S -> Nat] : \A x, y \in S : id[x] = id[y] => x = y
  <2>1. PICK f \in Bijection(1 .. n, S) : TRUE
    BY FS_CardinalityType DEF ExistsBijection
  <2>2. f \in [1 .. n -> S] /\ \A x \in S : \E i \in 1 .. n : f[i] = x
    BY <2>1 DEF Bijection, Surjection
  <2> HIDE DEF n
  <2> DEFINE g == [x \in S |-> CHOOSE i \in 1 .. n : f[i] = x]
  <2>3. \A x \in S : g[x] \in 1 .. n /\ f[g[x]] = x
    BY <2>2
  <2>4. g \in [S -> Nat]
    BY <1>1, <2>3
  <2>5. \A x, y \in S : g[x] = g[y] => x = y
    BY <2>3
  <2> HIDE DEF g
  <2>6. QED
    BY <2>4, <2>5
<1> DEFINE Precedes(x, y) ==
             \/ Newer(stamp[y], stamp[x])
             \/ stamp[x] = stamp[y] /\ Writes(x) /\ ~ Writes(y)
             \/ /\ stamp[x] = stamp[y] /\ ~ Writes(x) /\ ~ Writes(y)
                /\ size[x] < size[y] \/ (size[x] = size[y] /\ id[x] < id[y])
           Less == {p \in S \X S : Precedes(p[1], p[2])}
<1> HIDE DEF n, size
<1>3. \A x, y \in S : <<x, y>> \in Less <=> Precedes(x, y)
  OBVIOUS
<1>4. \A x \in S : /\ stamp[x].counter \in Nat /\ stamp[x].node \in Int
                   /\ size[x] \in Nat /\ id[x] \in Nat
                   /\ stamp[x] = [counter |-> stamp[x].counter, node |-> stamp[x].node]
  BY <1>1, <1>2 DEF Versions
<1>5. \A x \in S : ~ Precedes(x, x)
  BY <1>4 DEF Newer
<1>6. ASSUME NEW x \in S, NEW y \in S, x # y PROVE Precedes(x, y) \/ Precedes(y, x)
  <2>1. stamp[x] = stamp[y] \/ Newer(stamp[x], stamp[y]) \/ Newer(stamp[y], stamp[x])
    BY StampsAreOrdered
  <2>2. id[x] # id[y] /\ ~ (stamp[x] = stamp[y] /\ Writes(x) /\ Writes(y))
    BY <1>2, <1>6
  <2>3. CASE stamp[x] = stamp[y] /\ ~ Writes(x) /\ ~ Writes(y)
    <3>1. size[x] < size[y] \/ size[y] < size[x] \/ (size[x] = size[y] /\ (id[x] < id[y] \/ id[y] < id[x]))
      BY <1>4, <2>2
    <3>2. QED
      BY <2>3, <3>1
  <2>4. CASE stamp[x] = stamp[y] /\ (Writes(x) \/ Writes(y))
    BY <2>2, <2>4
  <2>5. QED
    BY <2>1, <2>3, <2>4
<1>7. ASSUME NEW x \in S, NEW y \in S, NEW z \in S, Precedes(x, y), Precedes(y, z)
      PROVE  Precedes(x, z)
  <2>1. Newer(stamp[y], stamp[x]) /\ Newer(stamp[z], stamp[y]) => Newer(stamp[z], stamp[x])
    BY <1>4 DEF Newer
  <2>2. QED
    BY <1>4, <1>7, <2>1
<1>8. \A x, y \in S : ~ (Precedes(x, y) /\ Precedes(y, x))
  BY <1>5, <1>7
<1>9. PICK order \in [1 .. n -> S] :
        /\ \A i, j \in 1 .. n : i < j => Precedes(order[i], order[j])
        /\ \A x \in S : \E i \in 1 .. n : order[i] = x
  <2>1. Orders(Less, S)
    <3>1. \A x, y, z \in S : <<x, y>> \in Less /\ <<y, z>> \in Less => <<x, z>> \in Less
      <4> HIDE DEF Less, Precedes
      <4>1. QED
        BY <1>3, <1>7
    <3>2. Less \in SUBSET (S \X S)
      OBVIOUS
    <3> HIDE DEF Less, Precedes
    <3>3. QED
      BY <1>3, <1>5, <1>6, <3>1, <3>2 DEF Orders
  <2> HIDE DEF Less, Precedes
  <2>2. PICK line : LinesUp(line, Less, S)
    BY <2>1, LineUp
  <2>3. /\ line \in [1 .. n -> S]
        /\ \A i, j \in 1 .. n : i < j => <<line[i], line[j]>> \in Less
        /\ \A x \in S : \E i \in 1 .. n : line[i] = x
    BY <2>2 DEF LinesUp, n
  <2>4. QED
    BY <1>3, <2>3
<1>10. order \in Lines(S)
  <2>1. \A i, j \in 1 .. n : order[i] = order[j] => i = j
    <3> SUFFICES ASSUME NEW i \in 1 .. n, NEW j \in 1 .. n, i # j, order[i] = order[j] PROVE FALSE
      OBVIOUS
    <3> HIDE DEF Precedes
    <3>1. i < j \/ j < i
      BY <1>1
    <3>2. QED
      BY <1>5, <1>9, <3>1
  <2>2. QED
    BY <1>1, <1>9, <2>1, EnumerationIsLine
<1>11. ASSUME NEW i \in 1 .. n, NEW j \in 1 .. n, i < j
       PROVE  order[j] \notin pre[order[i]]
  <2> DEFINE o == order[i]
             p == order[j]
  <2>1. o \in S /\ p \in S /\ Precedes(o, p)
    BY <1>9, <1>11
  <2> HIDE DEF o, p
  <2>2. SUFFICES ASSUME p \in pre[o] PROVE FALSE
    BY DEF o, p
  <2>3. /\ pre[p] \subseteq pre[o] /\ ~ Newer(stamp[p], stamp[o])
        /\ Writes(o) => Newer(stamp[o], stamp[p])
        /\ p \notin pre[p] /\ IsFiniteSet(pre[o])
    BY <2>1, <2>2
  <2>4. size[p] < size[o]
    <3>1. Cardinality(pre[p]) <= Cardinality(pre[o]) /\ Cardinality(pre[p]) # Cardinality(pre[o])
      BY <2>2, <2>3, FS_Subset
    <3>2. size[p] = Cardinality(pre[p]) /\ size[o] = Cardinality(pre[o])
      BY <2>1 DEF size
    <3>3. QED
      BY <1>4, <2>1, <3>1, <3>2
  <2>5. stamp[p] = stamp[o] \/ Newer(stamp[o], stamp[p])
    BY <2>1, <2>3, StampsAreOrdered
  <2>6. Precedes(p, o)
    <3>1. CASE Newer(stamp[o], stamp[p])
      BY <3>1
    <3>2. CASE stamp[p] = stamp[o] /\ ~ Newer(stamp[o], stamp[p])
      BY <2>3, <2>4, <3>2
    <3>3. QED
      BY <2>5, <3>1, <3>2
  <2>7. QED
    BY <1>8, <2>1, <2>6
<1>12. ASSUME NEW i \in 1 .. n
       PROVE  Matches(ops[order[i]], StatesAlong(None, ops, order)[i-1])
  <2> DEFINE o     == order[i]
             state == StatesAlong(None, ops, order)
  <2>1. o \in S /\ o \in DOMAIN ops /\ i - 1 \in 0 .. n /\ order \in [1 .. n -> DOMAIN ops]
    BY <1>1, <1>9
  <2>2. /\ LastWrite(ops, order, i-1) = {} => state[i-1] = None
        /\ \A j \in LastWrite(ops, order, i-1) : state[i-1] = ops[order[j]].argument
    <3> HIDE DEF o, Precedes, Less
    <3>1. n \in Nat /\ i - 1 \in 0 .. n /\ order \in [1 .. n -> DOMAIN ops]
      BY <1>1, <2>1
    <3>2. HoldsLastWrite(ops, order, i-1)
      BY <3>1, LastWriteIsHeld
    <3>3. QED
      BY <3>2 DEF HoldsLastWrite
  <2> HIDE DEF state
  <2>3. CASE Writes(o)
    BY <2>3 DEF Matches
  <2>4. CASE ops[o].kind = "read"
    <3>1. \A j \in 1 .. i-1 : j \in 1 .. n /\ order[j] \in S /\ Precedes(order[j], o)
      <4> SUFFICES ASSUME NEW j \in 1 .. i-1
                   PROVE  j \in 1 .. n /\ order[j] \in S /\ Precedes(order[j], order[i])
        OBVIOUS
      <4>1. j \in 1 .. n /\ j < i
        BY <1>1
      <4> HIDE DEF Precedes, Less
      <4>2. QED
        BY <1>9, <4>1
    <3>2. CASE ops[o].result = None /\ \A w \in S : Writes(w) => Newer(stamp[w], stamp[o])
      <4>1. ASSUME NEW j \in LastWrite(ops, order, i-1) PROVE FALSE
        <5>1. j \in 1 .. i-1 /\ Writes(order[j])
          BY <4>1 DEF LastWrite
        <5>2. order[j] \in S /\ Newer(stamp[order[j]], stamp[o]) /\ Precedes(order[j], o)
          BY <3>1, <3>2, <5>1
        <5>3. stamp[order[j]] \in Versions /\ stamp[o] \in Versions
          BY <2>1, <5>2
        <5>4. QED
          BY <5>1, <5>2, <5>3, StampsAreOrdered
      <4>2. state[i-1] = ops[o].result
        BY <2>2, <3>2, <4>1
      <4>3. QED
        BY <2>4, <4>2 DEF Matches, Produced, state
    <3>3. ASSUME NEW w \in S, Writes(w), stamp[w] = stamp[o], ops[o].result = ops[w].argument
          PROVE  state[i-1] = ops[o].result
      <4>1. PICK j \in 1 .. n : order[j] = w
        BY <1>9
      <4>2. Precedes(w, o)
        BY <2>4, <3>3
      <4>3. j < i
        <5>1. ~ Precedes(o, w)
          BY <1>8, <2>1, <4>2
        <5>2. j # i
          BY <2>4, <3>3, <4>1
        <5>3. ~ (i < j)
          <6> HIDE DEF Precedes
          <6>1. QED
            BY <1>9, <4>1, <5>1
        <5>4. QED
          BY <1>1, <5>2, <5>3
      <4>4. ASSUME NEW l \in j+1 .. i-1 PROVE ~ Writes(order[l])
        <5>1. SUFFICES ASSUME Writes(order[l]) PROVE FALSE
          OBVIOUS
        <5>2. l \in 1 .. n /\ j < l /\ l \in 1 .. i-1
          BY <1>1, <4>1
        <5>3. order[l] \in S /\ Precedes(order[l], o) /\ Precedes(w, order[l])
          <6> HIDE DEF Precedes
          <6>1. QED
            BY <1>9, <3>1, <4>1, <5>2
        <5>4. Newer(stamp[order[l]], stamp[w])
          BY <3>3, <5>1, <5>3
        <5>5. Newer(stamp[o], stamp[order[l]]) \/ stamp[o] = stamp[order[l]]
          BY <5>3
        <5>6. stamp[o] \in Versions /\ stamp[order[l]] \in Versions
          BY <2>1, <5>3
        <5>7. QED
          BY <3>3, <5>4, <5>5, <5>6, StampsAreOrdered
      <4>5. j \in LastWrite(ops, order, i-1)
        BY <1>1, <3>3, <4>1, <4>3, <4>4 DEF LastWrite
      <4>6. QED
        BY <2>2, <3>3, <4>1, <4>5
    <3>4. CASE \E w \in S : Writes(w) /\ stamp[w] = stamp[o] /\ ops[o].result = ops[w].argument
      <4>1. state[i-1] = ops[o].result
        BY <3>3, <3>4
      <4>2. QED
        BY <2>4, <4>1 DEF Matches, Produced, state
    <3>5. QED
      BY <2>1, <2>4, <3>2, <3>4
  <2>5. QED
    BY <2>1, <2>3, <2>4
<1>13. Len(order) = n
  BY <1>1, <1>9
<1>14. Explains(None, ops, pre, order)
  BY <1>11, <1>12, <1>13 DEF Explains
<1>15. QED
  <2> DEFINE unfinished == S \ Completed(ops)
  <2>1. /\ unfinished \in SUBSET (DOMAIN ops \ Completed(ops))
        /\ S = Completed(ops) \cup unfinished
    BY DEF Completed
  <2>2. QED
    BY <1>10, <1>14, <2>1 DEF LinearizableFrom

-----------------------------------------------------------------------------
(* The record of the stamps minted.                                        *)

\* A swap is not one step of the register: the check and the write are two
\* phases.  Plans without swaps keep to what the protocol makes atomic.
NoSwaps == \A r \in Requests : Plan[r].kind # "cas"

\* c is what nobody, or a write of the record, put under key k.
Wrote(mint, k, c) ==
  \/ c = Absent
  \/ \E w \in Requests :
       Key(w) = k /\ mint[w] # Zero /\ c = Stored(Plan[w].argument, mint[w])

\* A stamp is minted once, by the coordinator of a write that is under way.
MintsOnce(mint) ==
  \A w \in Requests : mint[w] # Zero =>
    /\ Plan[w].kind = "write"
    /\ mint[w].node = Coordinator(w)
    /\ mint[w].counter \in 1 .. issued[Coordinator(w)][Key(w)].counter
    /\ ~ Unstarted(w) /\ rounds[w].phase # "read"
    /\ \A q \in Requests : mint[q] = mint[w] /\ Key(q) = Key(w) => q = w

\* Every copy of a value was put there by the write the record says.
CopiesWritten(mint) == \A k \in Keys : \A c \in Copies(k) : Wrote(mint, k, c)

\* A write in its second phase writes under the stamp of the record.
WritesMinted(mint) ==
  \A r \in Requests : rounds[r].phase = "write" /\ Plan[r].kind = "write" =>
    rounds[r].version = mint[r] /\ mint[r] # Zero

\* Writes are answered on the strength of their stamps, and reads on what is
\* durable or was never written.
Justified(mint) ==
  \A b \in answered :
    /\ Plan[b.req].kind = "write" => b.durable /\ b.version = mint[b.req] /\ mint[b.req] # Zero
    /\ Plan[b.req].kind = "read" => b.durable \/ b.version = Zero

\* r has been answered, and a client that is told value is told what that
\* answer rests on.
Tellable(mint, r, value) ==
  \E b \in answered :
    b.req = r /\ (Plan[r].kind = "read" => Wrote(mint, Key(r), Stored(value, b.version)))

\* What clients were told, or will be, agrees with the answers noted.
TellsTruth(mint) ==
  /\ \A m \in InFlight : m.type = "ClientReply" /\ m.ok => Tellable(mint, m.req, m.value)
  /\ \A r \in Requests : outcome[r] = "ok" => Tellable(mint, r, result[r])

\* A write is stamped over everything its client had been told of.
MintsOver(mint) ==
  \A w \in Requests : mint[w] # Zero =>
    \A a \in answered : KnownTo(a, w) => Newer(mint[w], a.version)

Ghost(mint) ==
  /\ MintsOnce(mint) /\ CopiesWritten(mint) /\ WritesMinted(mint)
  /\ Justified(mint) /\ TellsTruth(mint) /\ MintsOver(mint)

\* What the history keeps of real time is a strict order.
HistoryInv ==
  /\ result = [r \in Requests |-> result[r]]
  /\ \A r \in submitted : outcome[r] \notin {"planned", "absent"}
  /\ \A r \in Requests : /\ r \notin before[r]
                         /\ \A q \in before[r] : before[q] \subseteq before[r]

\* How the record grows in a step.
Records(mint, next) ==
  \/ next = mint /\ ~ \E m \in InFlight : StartWrite(m)
  \/ \E m \in InFlight : StartWrite(m) /\ next = [mint EXCEPT ![m.req] = rounds'[m.req].version]

\* A write enters its second phase under a stamp its coordinator mints then,
\* newer than those it minted before.
LEMMA WriteStarts ==
  ASSUME TypeOK, StableVersions, NoSwaps, NEW m \in InFlight, StartWrite(m)
  PROVE  /\ m.req \in Requests /\ Plan[m.req].kind = "write" /\ rounds[m.req].phase = "read"
         /\ submitted' = submitted /\ answered' = answered /\ store' = store
         /\ \E minted \in Versions :
              /\ minted.node = Coordinator(m.req)
              /\ minted.counter > issued[Coordinator(m.req)][Key(m.req)].counter
              /\ minted.counter > 0
              /\ rounds' = [rounds EXCEPT ![m.req] = WriteRound(None, minted)]
              /\ rounds'[m.req].version = minted
              /\ issued' = [issued EXCEPT ![Coordinator(m.req)][Key(m.req)] = minted]
              /\ Handle(m, ToAll(m.req, Stored(Plan[m.req].argument, minted)))
<1>1. PICK held \in Replied(m) :
        /\ ReadQuorum(m, held)
        /\ rounds' = [rounds EXCEPT ![m.req] =
                        WriteRound(None, Mint(m.to, m.key, held.version))]
        /\ issued' = [issued EXCEPT ![m.to][m.key] = Mint(m.to, m.key, held.version)]
        /\ Handle(m, ToAll(m.req, Stored(Plan[m.req].argument, Mint(m.to, m.key, held.version))))
  BY DEF StartWrite
<1>2. Deliverable(m, "ReadReply") /\ Plan[m.req].kind # "read" /\ store' = store
      /\ submitted' = submitted /\ answered' = answered
  BY DEF StartWrite
<1>3. /\ m.req \in Requests /\ m.to = Coordinator(m.req) /\ m.key = Key(m.req)
      /\ m.to \in Replicas /\ m.key \in Keys
  BY <1>2, Fields, PlanFacts DEF Deliverable, TypeOK
<1>4. rounds[m.req].phase = "read"
  BY <1>1 DEF ReadQuorum, AwaitsReply
<1>5. Plan[m.req].kind = "write"
  BY <1>2, <1>3, PlanFacts DEF NoSwaps, PlannedOp, Kinds
<1>6. PICK minted : minted = Mint(m.to, m.key, held.version)
  OBVIOUS
<1>7. held.version \in Versions /\ issued[m.to][m.key] \in Versions
  BY <1>2, <1>3, ChoiceTyped DEF TypeOK
<1>8. minted \in Versions
  BY <1>3, <1>6, <1>7, MintTyped
<1>9. /\ minted.node = m.to /\ minted.counter > issued[m.to][m.key].counter
      /\ minted.counter > 0
  BY <1>6, <1>7 DEF Mint, NextFrom, Later, Newer, Versions
<1>10. rounds'[m.req].version = minted
  BY <1>1, <1>3, <1>6 DEF TypeOK, WriteRound, RoundIn
<1>11. QED
  BY <1>1, <1>2, <1>3, <1>4, <1>5, <1>6, <1>8, <1>9, <1>10

\* The record of a write changes only when it is stamped.
LEMMA RecordGrows ==
  ASSUME TypeOK, StableVersions, NoSwaps, NEW mint \in [Requests -> Versions],
         MintsOnce(mint), NEW next, Records(mint, next)
  PROVE  /\ next \in [Requests -> Versions]
         /\ \A q \in Requests : mint[q] # Zero => next[q] = mint[q]
         /\ \A q \in Requests : next[q] # mint[q] =>
              \E m \in InFlight : /\ StartWrite(m) /\ m.req = q
                                  /\ next[q] = rounds'[q].version /\ next[q] # Zero
         /\ \A k, c : Wrote(mint, k, c) => Wrote(next, k, c)
<1>1. CASE next = mint
  BY <1>1
<1>2. ASSUME NEW m \in InFlight, StartWrite(m),
             next = [mint EXCEPT ![m.req] = rounds'[m.req].version]
      PROVE  /\ next \in [Requests -> Versions]
             /\ \A q \in Requests : mint[q] # Zero => next[q] = mint[q]
             /\ \A q \in Requests : next[q] # mint[q] =>
                  /\ m.req = q /\ next[q] = rounds'[q].version /\ next[q] # Zero
  <2>1. /\ m.req \in Requests /\ rounds[m.req].phase = "read"
        /\ rounds'[m.req].version \in Versions /\ rounds'[m.req].version.counter > 0
    BY <1>2, WriteStarts
  <2>2. rounds'[m.req].version # Zero
    BY <2>1 DEF Zero
  <2>3. mint[m.req] = Zero
    BY <2>1 DEF MintsOnce
  <2>4. QED
    BY <1>2, <2>1, <2>2, <2>3
<1>3. /\ next \in [Requests -> Versions]
      /\ \A q \in Requests : mint[q] # Zero => next[q] = mint[q]
      /\ \A q \in Requests : next[q] # mint[q] =>
              \E m \in InFlight : /\ StartWrite(m) /\ m.req = q
                                  /\ next[q] = rounds'[q].version /\ next[q] # Zero
  BY <1>1, <1>2 DEF Records
<1>4. \A k, c : Wrote(mint, k, c) => Wrote(next, k, c)
  BY <1>3 DEF Wrote
<1>5. QED
  BY <1>3, <1>4

\* Requests stay submitted, and only Submit submits.
LEMMA SubmittedSteps ==
  ASSUME [Next]_vars
  PROVE  submitted' = submitted \/ \E r \in Requests : Submit(r) /\ submitted' = submitted \cup {r}
<1>1. ASSUME NEW m \in InFlight, OnMessage(m) PROVE submitted' = submitted
  BY <1>1 DEF OnMessage, OnReadRequest, OnWriteRequest, OnClientRequest, Ignore,
              GatherReply, FinishRead, WriteBack, RefuseSwap, StartWrite, GatherAck, FinishWrite
<1>2. QED
  BY <1>1, NextCases
     DEF Timeout, Crash, Restart, Lose, Duplicate, DropAtDown, TakeReply, Submit, LosePatience, vars

\* A round is in its first phase only after its client's request has come.
LEMMA FirstPhase ==
  ASSUME TypeOK, [Next]_vars, NEW r \in Requests, rounds'[r].phase = "read"
  PROVE  \/ rounds[r].phase = "read"
         \/ \E m \in InFlight : m.type = "ClientRequest" /\ m.req = r
<1>1. CASE rounds'[r] = rounds[r]
  BY <1>1
<1>2. rounds'[r] # NoRound
  BY DEF NoRound, RoundIn
<1>3. ASSUME NEW m \in InFlight, OnMessage(m), m.req = r
      PROVE  \/ rounds[r].phase = "read" \/ rounds'[r] = rounds[r]
             \/ m.type = "ClientRequest"
  <2>1. PICK heard \in SUBSET Replicas : rounds[r] \in Round(heard)
    BY DEF TypeOK, WellFormedRound
  <2>2. CASE OnReadRequest(m) \/ OnWriteRequest(m) \/ Ignore(m)
    BY <2>2 DEF OnReadRequest, OnWriteRequest, Ignore, nodeVars
  <2>3. CASE OnClientRequest(m)
    BY <2>3 DEF OnClientRequest, Deliverable
  <2>4. CASE GatherReply(m) \/ FinishRead(m) \/ WriteBack(m) \/ RefuseSwap(m) \/ StartWrite(m)
    <3>1. AwaitsReply(m)
      BY <2>4 DEF GatherReply, FinishRead, WriteBack, RefuseSwap, StartWrite, ReadQuorum
    <3>2. QED
      BY <1>3, <3>1 DEF AwaitsReply
  <2>5. CASE GatherAck(m)
    <3>1. rounds' = [rounds EXCEPT ![m.req] = [rounds[m.req] EXCEPT !.acks = AcksWith(m)]]
      BY <2>5 DEF GatherAck
    <3>2. rounds'[r] = [rounds[r] EXCEPT !.acks = AcksWith(m)]
      BY <1>3, <3>1 DEF TypeOK
    <3>3. rounds'[r].phase = rounds[r].phase
      BY <2>1, <3>2 DEF Round
    <3>4. QED
      BY <3>3
  <2>6. CASE FinishWrite(m)
    <3>1. rounds' = [rounds EXCEPT ![m.req] = NoRound]
      BY <2>6 DEF FinishWrite, Finish
    <3>2. rounds'[r] = NoRound
      BY <1>3, <3>1 DEF TypeOK
    <3>3. QED
      BY <1>2, <3>2
  <2>7. QED
    BY <1>3, <2>2, <2>3, <2>4, <2>5, <2>6 DEF OnMessage
<1>4. QED
  BY <1>1, <1>2, <1>3, OtherRounds

\* The newest stamp a replica remembers never gets older.
LEMMA IssuedGrows ==
  ASSUME TypeOK, StableVersions, NoSwaps, [Next]_vars, NEW n \in Replicas, NEW k \in Keys
  PROVE  /\ issued[n][k].counter \in Nat /\ issued'[n][k].counter \in Nat
         /\ issued[n][k].counter <= issued'[n][k].counter
<1>1. issued[n][k] \in Versions /\ TypeOK'
  BY StepTyped DEF TypeOK
<1>2. issued[n][k].counter \in Nat /\ issued'[n][k].counter \in Nat
  BY <1>1 DEF TypeOK, Versions
<1>3. CASE Quiet
  BY <1>2, <1>3 DEF Quiet
<1>4. ASSUME NEW m \in InFlight,
             OnReadRequest(m) \/ OnWriteRequest(m) \/ GatherReply(m) \/ WriteBack(m)
      PROVE  issued' = issued
  BY <1>4 DEF OnReadRequest, OnWriteRequest, GatherReply, WriteBack, nodeVars
<1>5. ASSUME NEW m \in InFlight, StartWrite(m)
      PROVE  issued[n][k].counter <= issued'[n][k].counter
  <2>1. PICK minted \in Versions :
          /\ minted.counter > issued[Coordinator(m.req)][Key(m.req)].counter
          /\ issued' = [issued EXCEPT ![Coordinator(m.req)][Key(m.req)] = minted]
    BY <1>5, WriteStarts
  <2>2. issued'[n][k] = IF n = Coordinator(m.req) /\ k = Key(m.req) THEN minted ELSE issued[n][k]
    BY <2>1 DEF TypeOK
  <2>3. QED
    BY <1>2, <2>1, <2>2 DEF Versions
<1>6. QED
  BY <1>2, <1>3, <1>4, <1>5, StepKinds

\* No step mints a stamp of the record again.
LEMMA MintsOnceStep ==
  ASSUME TypeOK, LifeInv, StableVersions, NoSwaps, "ClientRequest" \notin Faults,
         [ClusterNext]_clusterVars,
         NEW mint \in [Requests -> Versions], MintsOnce(mint),
         NEW next, Records(mint, next)
  PROVE  MintsOnce(next)'
<1> USE DEF MintsOnce
<1>1. [Next]_vars
  BY StepIsReplicaStep
<1>2. \A w \in Requests : Coordinator(w) \in Replicas /\ Key(w) \in Keys
  BY PlanFacts
<1>3. next \in [Requests -> Versions]
  BY RecordGrows
<1>4. ASSUME NEW w \in Requests, mint[w] # Zero
      PROVE  ~ Unstarted(w)' /\ rounds'[w].phase # "read"
  <2>1. w \in submitted /\ ClientRequest(w) \notin InFlight /\ rounds[w].phase # "read" /\ StartsOnce(w)
    BY <1>4 DEF Unstarted, LifeInv
  <2>2. w \in submitted' /\ ~ Submit(w)
    BY <1>1, <2>1, SubmittedSteps DEF Submit
  <2>3. ClientRequest(w) \notin InFlight'
    BY <1>1, <2>1, <2>2, RequestsAreSentOnce
  <2>4. rounds'[w].phase # "read"
    BY <1>1, <2>1, FirstPhase DEF StartsOnce
  <2>5. QED
    BY <2>2, <2>3, <2>4 DEF Unstarted
<1>5. ASSUME NEW w \in Requests, mint[w] # Zero
      PROVE  mint[w].counter \in 1 .. issued'[Coordinator(w)][Key(w)].counter
  <2>1. mint[w].counter \in 1 .. issued[Coordinator(w)][Key(w)].counter
    BY <1>5
  <2>2. /\ issued[Coordinator(w)][Key(w)].counter <= issued'[Coordinator(w)][Key(w)].counter
        /\ issued[Coordinator(w)][Key(w)].counter \in Nat
        /\ issued'[Coordinator(w)][Key(w)].counter \in Nat
    BY <1>1, <1>2, IssuedGrows
  <2>3. QED
    BY <2>1, <2>2
<1>6. CASE next = mint
  BY <1>4, <1>5, <1>6
<1>7. ASSUME NEW m \in InFlight, StartWrite(m),
             next = [mint EXCEPT ![m.req] = rounds'[m.req].version]
      PROVE  MintsOnce(next)'
  <2> DEFINE r == m.req
  <2>1. r \in Requests /\ Plan[r].kind = "write" /\ rounds[r].phase = "read" /\ submitted' = submitted
    BY <1>7, WriteStarts
  <2>2. PICK minted \in Versions :
          /\ minted.node = Coordinator(r)
          /\ minted.counter > issued[Coordinator(r)][Key(r)].counter
          /\ minted.counter > 0
          /\ rounds'[r].version = minted
          /\ rounds' = [rounds EXCEPT ![r] = WriteRound(None, minted)]
          /\ issued' = [issued EXCEPT ![Coordinator(r)][Key(r)] = minted]
    BY <1>7, WriteStarts
  <2>3. next[r] = minted /\ \A q \in Requests : q # r => next[q] = mint[q]
    BY <1>7, <2>1, <2>2
  <2>4. rounds'[r].phase = "write" /\ issued'[Coordinator(r)][Key(r)] = minted
    BY <1>2, <2>1, <2>2 DEF TypeOK, WriteRound, RoundIn
  <2>5. ~ Unstarted(r)'
    <3>1. ~ Unstarted(r)
      BY <2>1 DEF LifeInv, StartsOnce, NoRound, RoundIn
    <3>2. r \in submitted /\ ClientRequest(r) \notin InFlight /\ ~ Submit(r)
      BY <3>1 DEF Unstarted, Submit
    <3>3. ClientRequest(r) \notin InFlight'
      BY <1>1, <2>1, <3>2, RequestsAreSentOnce
    <3>4. QED
      BY <2>1, <3>2, <3>3 DEF Unstarted
  <2>6. ASSUME NEW q \in Requests, q # r, mint[q] # Zero, Key(q) = Key(r)
        PROVE  mint[q] # minted
    <3>1. SUFFICES ASSUME mint[q] = minted PROVE FALSE
      OBVIOUS
    <3>2. Coordinator(q) = Coordinator(r)
      BY <2>2, <2>6, <3>1
    <3>3. minted.counter \in 1 .. issued[Coordinator(r)][Key(r)].counter
      BY <2>6, <3>1, <3>2
    <3>4. issued[Coordinator(r)][Key(r)].counter \in Nat
      BY <1>2, <2>1 DEF TypeOK, Versions
    <3>5. QED
      BY <2>2, <3>3, <3>4
  <2>7. minted # Zero /\ minted.counter \in 1 .. minted.counter
    BY <2>2 DEF Zero, Versions
  <2>8. ASSUME NEW w \in Requests, next[w] # Zero
        PROVE  /\ Plan[w].kind = "write"
               /\ next[w].node = Coordinator(w)
               /\ next[w].counter \in 1 .. issued'[Coordinator(w)][Key(w)].counter
               /\ ~ Unstarted(w)' /\ rounds'[w].phase # "read"
    <3>1. CASE w = r
      BY <2>1, <2>2, <2>3, <2>4, <2>5, <2>7, <3>1
    <3>2. CASE w # r
      BY <1>4, <1>5, <2>3, <2>8, <3>2
    <3>3. QED
      BY <3>1, <3>2
  <2>9. ASSUME NEW w \in Requests, next[w] # Zero, NEW q \in Requests,
               next[q] = next[w], Key(q) = Key(w)
        PROVE  q = w
    <3>1. CASE w # r /\ q # r
      BY <2>3, <2>9, <3>1
    <3>2. CASE w = r /\ q # r
      BY <2>3, <2>6, <2>9, <3>2
    <3>3. CASE w # r /\ q = r
      BY <2>3, <2>6, <2>9, <3>3
    <3>4. QED
      BY <3>1, <3>2, <3>3
  <2>10. QED
    BY <2>8, <2>9
<1>8. QED
  BY <1>6, <1>7 DEF Records

\* No step makes a copy that no write of the record explains.
LEMMA CopiesWrittenStep ==
  ASSUME TypeOK, StableVersions, NoSwaps, [Next]_vars,
         NEW mint \in [Requests -> Versions], MintsOnce(mint), CopiesWritten(mint),
         NEW next, Records(mint, next)
  PROVE  CopiesWritten(next)'
<1>1. /\ \A k, c : Wrote(mint, k, c) => Wrote(next, k, c)
      /\ \A k, c : Wrote(next, k, c) <=> Wrote(next, k, c)'
  BY RecordGrows DEF Wrote
<1>2. ASSUME \A k \in Keys : Copies(k)' \subseteq Copies(k)
      PROVE  CopiesWritten(next)'
  BY <1>1, <1>2 DEF CopiesWritten
<1>3. CASE Quiet
  BY <1>2, <1>3, QuietCopies
<1>4. ASSUME NEW m \in InFlight,
             OnReadRequest(m) \/ OnWriteRequest(m) \/ GatherReply(m) \/ WriteBack(m)
      PROVE  CopiesWritten(next)'
  BY <1>2, <1>4, StorageCopies, GatheringCopies, WriteBackCopies
<1>5. ASSUME NEW m \in InFlight, StartWrite(m),
             next = [mint EXCEPT ![m.req] = rounds'[m.req].version]
      PROVE  CopiesWritten(next)'
  <2>1. m.req \in Requests /\ Plan[m.req].kind = "write" /\ store' = store
    BY <1>5, WriteStarts
  <2>2. PICK minted \in Versions :
          /\ minted.counter > 0
          /\ rounds' = [rounds EXCEPT ![m.req] = WriteRound(None, minted)]
          /\ rounds'[m.req].version = minted
          /\ Handle(m, ToAll(m.req, Stored(Plan[m.req].argument, minted)))
    BY <1>5, WriteStarts
  <2>3. next[m.req] = minted /\ minted # Zero
    BY <1>5, <2>1, <2>2 DEF Zero
  <2> DEFINE fresh == Stored(Plan[m.req].argument, minted)
             added == [k \in Keys |-> IF k = Key(m.req) THEN {fresh} ELSE {}]
  <2>4. Deliverable(m, "ReadReply") /\ Key(m.req) \in Keys
    BY <1>5, <2>1, PlanFacts DEF StartWrite
  <2>5. \A k \in Keys : Copies(k)' \subseteq Copies(k) \cup added[k]
    <3>1. fresh \in added[Key(m.req)]
      BY <2>4
    <3>2. PICK v : v = Plan[m.req].argument
      OBVIOUS
    <3> HIDE DEF added
    <3>3. Handle(m, ToAll(m.req, Stored(v, minted))) /\ Stored(v, minted) \in added[Key(m.req)]
      BY <2>2, <3>1, <3>2
    <3>4. QED
      BY <2>1, <2>2, <2>4, <3>2, <3>3, PhaseTwoCopies
  <2>6. Wrote(next, Key(m.req), fresh)
    BY <2>1, <2>3 DEF Wrote
  <2>7. ASSUME NEW k \in Keys, NEW c \in Copies(k)' PROVE Wrote(next, k, c)'
    <3>1. c \in Copies(k) \/ (k = Key(m.req) /\ c = fresh)
      BY <2>5, <2>7
    <3>2. QED
      BY <1>1, <2>6, <3>1 DEF CopiesWritten
  <2>8. QED
    BY <2>7 DEF CopiesWritten
<1>6. QED
  BY <1>3, <1>4, <1>5, StepKinds DEF Records

\* Entering the second phase is what fills in the record.
LEMMA WritesMintedStep ==
  ASSUME TypeOK, StableVersions, NoSwaps, [Next]_vars,
         NEW mint \in [Requests -> Versions], MintsOnce(mint), WritesMinted(mint),
         NEW next, Records(mint, next)
  PROVE  WritesMinted(next)'
<1> SUFFICES ASSUME NEW r \in Requests, rounds'[r].phase = "write", Plan[r].kind = "write"
             PROVE  rounds'[r].version = next[r] /\ next[r] # Zero
  BY DEF WritesMinted
<1>1. PICK heard \in SUBSET Replicas : rounds[r] \in Round(heard)
  BY DEF TypeOK, WellFormedRound
<1>2. ASSUME rounds'[r].phase = rounds[r].phase, rounds'[r].version = rounds[r].version
      PROVE  rounds'[r].version = next[r] /\ next[r] # Zero
  BY <1>2, RecordGrows DEF WritesMinted
<1>3. rounds'[r] \notin {NoRound, NewRound}
  BY DEF NoRound, NewRound, RoundIn
<1>4. ASSUME NEW acks, rounds'[r] = [rounds[r] EXCEPT !.acks = acks]
      PROVE  rounds'[r].phase = rounds[r].phase /\ rounds'[r].version = rounds[r].version
  BY <1>1, <1>4 DEF Round
<1>5. ASSUME NEW m \in InFlight, rounds'[r] = [rounds[r] EXCEPT !.replies = RepliesWith(m)]
      PROVE  rounds'[r].phase = rounds[r].phase /\ rounds'[r].version = rounds[r].version
  BY <1>1, <1>5 DEF Round
<1>6. ASSUME NEW m \in InFlight, m.req = r, WriteBack(m) PROVE FALSE
  BY <1>6 DEF WriteBack
<1>7. ASSUME NEW m \in InFlight, m.req = r, StartWrite(m)
      PROVE  rounds'[r].version = next[r] /\ next[r] # Zero
  <2>1. mint[r] = Zero
    BY <1>7, WriteStarts DEF MintsOnce
  <2>2. rounds'[r].version.counter > 0
    BY <1>7, WriteStarts
  <2>3. rounds'[r].version # Zero
    BY <2>2 DEF Zero
  <2>4. PICK x \in InFlight : StartWrite(x) /\ next = [mint EXCEPT ![x.req] = rounds'[x.req].version]
    BY <1>7 DEF Records
  <2>5. x.req = r
    <3>1. SUFFICES ASSUME x.req # r PROVE FALSE
      OBVIOUS
    <3>2. /\ rounds[r].phase = "read" /\ \E minted : rounds' = [rounds EXCEPT ![x.req] = WriteRound(None, minted)]
      BY <1>7, <2>4, WriteStarts
    <3>3. rounds'[r] = rounds[r]
      BY <3>1, <3>2 DEF TypeOK
    <3>4. QED
      BY <3>2, <3>3
  <2>6. QED
    BY <2>3, <2>4, <2>5
<1>8. QED
  BY <1>2, <1>3, <1>4, <1>5, <1>6, <1>7, RoundSteps

-----------------------------------------------------------------------------
(* What clients are told.                                                  *)

\* Answers are never taken back.
LEMMA AnswersGrow ==
  ASSUME [Next]_vars
  PROVE  answered \subseteq answered'
<1>1. ASSUME NEW m \in InFlight, OnMessage(m) PROVE answered \subseteq answered'
  <2>1. CASE FinishRead(m) \/ RefuseSwap(m)
    <3>1. \E held \in Replied(m) : NoteAnswer(m.req, held.version, FALSE)
      BY <2>1 DEF FinishRead, RefuseSwap
    <3>2. QED
      BY <3>1 DEF NoteAnswer
  <2>2. CASE FinishWrite(m)
    <3>1. answered' = answered \cup {[req |-> m.req, version |-> m.version, durable |-> TRUE]}
      BY <2>2 DEF FinishWrite, NoteAnswer
    <3>2. QED
      BY <3>1
  <2>3. QED
    BY <1>1, <2>1, <2>2 DEF OnMessage, OnReadRequest, OnWriteRequest, OnClientRequest, Ignore,
                            GatherReply, WriteBack, StartWrite, GatherAck
<1>2. QED
  BY <1>1, NextCases
     DEF Timeout, Crash, Restart, Lose, Duplicate, DropAtDown, TakeReply, Submit, LosePatience, vars

\* What an answer that is not durable rests on, when reads write back.
LEMMA UnrepairedAnswers ==
  ASSUME ReadRepair, NoSwaps, [Next]_vars, TypeOK, NEW b \in answered', b \notin answered
  PROVE  \E m \in InFlight :
           /\ b.req = m.req /\ m.req \in Requests
           /\ \/ FinishRead(m) /\ Plan[m.req].kind = "read" /\ b.version = Zero /\ ~ b.durable
              \/ /\ FinishWrite(m) /\ b.version = m.version /\ b.durable
                 /\ rounds[m.req].phase = "write" /\ m.version = rounds[m.req].version
<1>1. ASSUME NEW r, NEW v, NEW d, NoteAnswer(r, v, d)
      PROVE  b.durable = d /\ b.req = r /\ b.version = v
  BY <1>1 DEF NoteAnswer
<1>2. ASSUME NEW m \in InFlight, FinishRead(m)
      PROVE  /\ b.req = m.req /\ Plan[m.req].kind = "read" /\ b.version = Zero /\ ~ b.durable
  <2>1. PICK held \in Replied(m) : held.version = Zero /\ NoteAnswer(m.req, held.version, FALSE)
    BY <1>2 DEF FinishRead
  <2>2. Plan[m.req].kind = "read"
    BY <1>2 DEF FinishRead
  <2>3. QED
    BY <1>1, <2>1, <2>2
<1>3. ASSUME NEW m \in InFlight, FinishWrite(m)
      PROVE  /\ b.req = m.req /\ b.version = m.version /\ b.durable
             /\ rounds[m.req].phase = "write" /\ m.version = rounds[m.req].version
  <2>1. answered' = answered \cup {[req |-> m.req, version |-> m.version, durable |-> TRUE]}
    BY <1>3 DEF FinishWrite, NoteAnswer
  <2>2. QED
    BY <1>3, <2>1 DEF FinishWrite, AwaitsAck
<1>4. ASSUME NEW m \in InFlight PROVE m.req \in Requests /\ ~ RefuseSwap(m)
  <2>1. m.req \in Requests
    BY Fields DEF TypeOK
  <2>2. QED
    BY <2>1 DEF RefuseSwap, NoSwaps
<1>5. ASSUME NEW m \in InFlight, OnMessage(m)
      PROVE  FinishRead(m) \/ RefuseSwap(m) \/ FinishWrite(m)
  BY <1>5 DEF OnMessage, OnReadRequest, OnWriteRequest, OnClientRequest, Ignore, GatherReply,
              WriteBack, StartWrite, GatherAck
<1>6. \E m \in InFlight : OnMessage(m)
  BY NextCases DEF Timeout, Crash, Restart, Lose, Duplicate, DropAtDown, TakeReply, Submit,
                   LosePatience, vars
<1>7. QED
  BY <1>2, <1>3, <1>4, <1>5, <1>6

\* Every new answer is justified.
LEMMA JustifiedStep ==
  ASSUME TypeOK, StableVersions, ReadRepair, NoSwaps, [Next]_vars,
         NEW mint \in [Requests -> Versions], MintsOnce(mint), WritesMinted(mint), Justified(mint),
         NEW next, Records(mint, next)
  PROVE  Justified(next)'
<1> SUFFICES ASSUME NEW b \in answered'
             PROVE  /\ Plan[b.req].kind = "write" =>
                         b.durable /\ b.version = next[b.req] /\ next[b.req] # Zero
                    /\ Plan[b.req].kind = "read" => b.durable \/ b.version = Zero
  BY DEF Justified
<1>1. CASE b \in answered
  <2>1. b.req \in Requests
    BY <1>1 DEF TypeOK
  <2>2. QED
    BY <1>1, <2>1, RecordGrows DEF Justified
<1>2. ASSUME NEW m \in InFlight, m.req \in Requests, b.req = m.req, FinishRead(m),
             Plan[m.req].kind = "read", b.version = Zero, ~ b.durable
      PROVE  /\ Plan[b.req].kind # "write" /\ b.version = Zero
  BY <1>2
<1>3. ASSUME NEW m \in InFlight, m.req \in Requests, b.req = m.req, b.version = m.version, b.durable,
             rounds[m.req].phase = "write", m.version = rounds[m.req].version
      PROVE  /\ b.durable
             /\ Plan[b.req].kind = "write" => b.version = next[b.req] /\ next[b.req] # Zero
  BY <1>3, RecordGrows DEF WritesMinted
<1>4. QED
  BY <1>1, <1>2, <1>3, UnrepairedAnswers

\* An operation is over when its client takes an answer that is ok.
LEMMA OkSteps ==
  ASSUME [ClusterNext]_clusterVars, LifeInv, HistoryInv, NEW r \in Requests, outcome'[r] = "ok"
  PROVE  \/ outcome[r] = "ok" /\ result'[r] = result[r]
         \/ \E m \in InFlight : /\ m.type = "ClientReply" /\ m.req = r /\ m.ok
                               /\ result'[r] = Result(m)
<1>1. CASE UNCHANGED clientVars
  BY <1>1 DEF clientVars
<1>2. ASSUME NEW q \in Requests, Issue(q) \/ GiveUp(q)
      PROVE  outcome[r] = "ok" /\ result'[r] = result[r]
  <2>1. PICK s \in {"pending", "unknown"} : outcome' = [outcome EXCEPT ![q] = s] /\ result' = result
    BY <1>2 DEF Issue, GiveUp
  <2>2. QED
    BY <2>1 DEF LifeInv, PerRequest
<1>3. ASSUME NEW m \in InFlight, Settle(m)
      PROVE  \/ outcome[r] = "ok" /\ result'[r] = result[r]
             \/ m.type = "ClientReply" /\ m.req = r /\ m.ok /\ result'[r] = Result(m)
  <2>1. /\ m.type = "ClientReply" /\ outcome[m.req] = "pending"
        /\ outcome' = [outcome EXCEPT ![m.req] = IF m.ok THEN "ok" ELSE "unknown"]
        /\ result' = IF m.ok THEN [result EXCEPT ![m.req] = Result(m)] ELSE result
    BY <1>3 DEF Settle, TakeReply, Deliverable
  <2>2. CASE m.req = r
    <3>1. outcome'[r] = IF m.ok THEN "ok" ELSE "unknown"
      BY <2>1, <2>2 DEF LifeInv, PerRequest
    <3>2. m.ok
      BY <3>1
    <3>3. result'[r] = Result(m)
      BY <2>1, <2>2, <3>2 DEF HistoryInv
    <3>4. QED
      BY <2>1, <2>2, <3>2, <3>3
  <2>3. CASE m.req # r
    BY <2>1, <2>3 DEF LifeInv, PerRequest, HistoryInv
  <2>4. QED
    BY <2>2, <2>3
<1>4. \/ UNCHANGED clientVars
      \/ \E q \in Requests : Issue(q) \/ GiveUp(q)
      \/ \E m \in InFlight : Settle(m)
  BY DEF ClusterNext, IgnoreReply, clusterVars
<1>5. QED
  BY <1>1, <1>2, <1>3, <1>4

\* No step makes a client believe what no answer rests on.
LEMMA TellsTruthStep ==
  ASSUME TypeOK, LifeInv, HistoryInv, StableVersions, NoSwaps, [ClusterNext]_clusterVars,
         NEW mint \in [Requests -> Versions], MintsOnce(mint), CopiesWritten(mint), TellsTruth(mint),
         NEW next, Records(mint, next)
  PROVE  TellsTruth(next)'
<1>1. [Next]_vars
  BY StepIsReplicaStep
<1>2. answered \subseteq answered' /\ \A k, c : Wrote(mint, k, c) => Wrote(next, k, c)
  BY <1>1, AnswersGrow, RecordGrows
<1>3. \A r, v : Tellable(mint, r, v) =>
        \E b \in answered' :
          b.req = r /\ (Plan[r].kind = "read" => Wrote(next, Key(r), Stored(v, b.version)))
  BY <1>2 DEF Tellable
<1>4. \A r, b, v : b \in answered' /\ b.req = r /\ Wrote(mint, Key(r), Stored(v, b.version)) =>
                     Tellable(next, r, v)'
  BY <1>2 DEF Tellable, Wrote
<1>5. ASSUME NEW x \in InFlight', x.type = "ClientReply", x.ok, x \notin InFlight
      PROVE  Tellable(next, x.req, x.value)'
  <2>1. ASSUME NEW r \in Requests, x = ClientReply(r, FALSE, None) PROVE FALSE
    BY <1>5, <2>1 DEF ClientReply
  <2>2. ASSUME NEW m \in InFlight, RefuseSwap(m) PROVE FALSE
    <3>1. m.req \in Requests
      BY Fields DEF TypeOK
    <3>2. QED
      BY <2>2, <3>1 DEF RefuseSwap, NoSwaps
  <2>3. ASSUME NEW m \in InFlight, NEW held \in Replied(m), ReadQuorum(m, held),
               NoteAnswer(m.req, held.version, FALSE), x = ClientReply(m.req, TRUE, held.value)
        PROVE  Tellable(next, x.req, x.value)'
    <3> DEFINE b == [req |-> m.req, version |-> held.version, durable |-> FALSE]
    <3>1. b \in answered'
      BY <2>3 DEF NoteAnswer
    <3>2. Deliverable(m, "ReadReply")
      BY <2>3 DEF ReadQuorum
    <3>3. /\ m.req \in Requests /\ held \in Copies(Key(m.req)) /\ Key(m.req) \in Keys
          /\ Stored(held.value, held.version) = held
      BY <3>2, RepliedCopy, PlanFacts
    <3>4. Wrote(mint, Key(m.req), Stored(held.value, held.version))
      BY <3>3 DEF CopiesWritten
    <3>5. x.req = m.req /\ x.value = held.value
      BY <2>3 DEF ClientReply
    <3>6. b.req = m.req /\ b.version = held.version
      OBVIOUS
    <3> HIDE DEF b
    <3>7. QED
      BY <1>4, <3>1, <3>4, <3>5, <3>6
  <2>4. ASSUME NEW m \in InFlight, FinishWrite(m), x = ClientReply(m.req, TRUE, Answer(m.req))
        PROVE  Tellable(next, x.req, x.value)'
    <3> DEFINE b == [req |-> m.req, version |-> m.version, durable |-> TRUE]
    <3>1. b \in answered'
      BY <2>4 DEF FinishWrite, NoteAnswer
    <3>2. x.req = m.req /\ x.value = Answer(m.req) /\ m.req \in Requests
      BY <2>4, Fields DEF ClientReply, TypeOK
    <3>3. rounds[m.req].phase = "write" /\ m.version = rounds[m.req].version
      BY <2>4 DEF FinishWrite, AwaitsAck
    <3>4. ASSUME Plan[m.req].kind = "read"
          PROVE  Wrote(mint, Key(m.req), Stored(x.value, b.version))
      <4>1. Writing(m.req) \in Copies(Key(m.req)) /\ Key(m.req) \in Keys
        BY <3>2, <3>3, OldCopies, PlanFacts
      <4>2. Writing(m.req) = Stored(x.value, b.version)
        BY <3>2, <3>3, <3>4 DEF Writing, Answer
      <4>3. QED
        BY <4>1, <4>2 DEF CopiesWritten
    <3>5. b.req = x.req
      BY <3>2
    <3> HIDE DEF b
    <3>6. QED
      BY <1>2, <3>1, <3>2, <3>4, <3>5 DEF Tellable, Wrote
  <2>5. QED
    BY <1>1, <1>5, <2>1, <2>2, <2>3, <2>4, NewReplySteps
<1>6. ASSUME NEW x \in InFlight', x.type = "ClientReply", x.ok
      PROVE  Tellable(next, x.req, x.value)'
  <2>1. CASE x \in InFlight
    <3>1. Tellable(mint, x.req, x.value)
      BY <1>6, <2>1 DEF TellsTruth
    <3>2. QED
      BY <1>3, <3>1 DEF Tellable, Wrote
  <2>2. QED
    BY <1>5, <1>6, <2>1
<1>7. ASSUME NEW r \in Requests, outcome'[r] = "ok"
      PROVE  \E b \in answered' :
               b.req = r /\ (Plan[r].kind = "read" => Wrote(next, Key(r), Stored(result'[r], b.version)))
  <2>1. CASE outcome[r] = "ok" /\ result'[r] = result[r]
    BY <1>3, <2>1 DEF TellsTruth
  <2>2. ASSUME NEW m \in InFlight, m.type = "ClientReply", m.req = r, m.ok, result'[r] = Result(m)
        PROVE  \E b \in answered' :
                 b.req = r /\ (Plan[r].kind = "read" => Wrote(next, Key(r), Stored(result'[r], b.version)))
    <3>1. Tellable(mint, r, m.value)
      BY <2>2 DEF TellsTruth
    <3>2. Plan[r].kind = "read" => result'[r] = m.value
      BY <2>2 DEF Result
    <3>3. Tellable(mint, r, result'[r])
      BY <3>1, <3>2 DEF Tellable
    <3>4. QED
      BY <1>3, <3>3
  <2>3. QED
    BY <1>7, <2>1, <2>2, OkSteps
<1>8. QED
  BY <1>6, <1>7 DEF TellsTruth, Tellable, Wrote

-----------------------------------------------------------------------------
(* The record in every step of a run.                                      *)

\* The quorum a write reads makes it mint over what had been told before it.
LEMMA MintsOverStep ==
  ASSUME TypeOK, LifeInv, OrderInv', StableVersions, NoSwaps, [ClusterNext]_clusterVars,
         NEW mint \in [Requests -> Versions], MintsOnce(mint), MintsOver(mint),
         NEW next, Records(mint, next)
  PROVE  MintsOver(next)'
<1> SUFFICES ASSUME NEW w \in Requests, next[w] # Zero, NEW a \in answered', KnownTo(a, w)'
             PROVE  Newer(next[w], a.version)
  BY DEF MintsOver
<1>1. a \in answered /\ (KnownTo(a, w) \/ Submit(w))
  BY KnownStays
<1>2. CASE next[w] = mint[w]
  <2>1. ~ Submit(w)
    BY <1>2 DEF MintsOnce, Unstarted, Submit
  <2>2. QED
    BY <1>1, <1>2, <2>1 DEF MintsOver
<1>3. CASE next[w] # mint[w]
  <2>1. PICK m \in InFlight : StartWrite(m) /\ m.req = w /\ next[w] = rounds'[w].version
    BY <1>3, RecordGrows
  <2>2. rounds'[w].phase = "write" /\ Plan[w].kind # "read"
    <3>1. PICK minted : rounds' = [rounds EXCEPT ![m.req] = WriteRound(None, minted)]
      BY <2>1, WriteStarts
    <3>2. Plan[w].kind = "write"
      BY <2>1, WriteStarts
    <3>3. QED
      BY <2>1, <3>1, <3>2 DEF TypeOK, WriteRound, RoundIn
  <2>3. Respects(w, a.version)'
    BY DEF OrderInv
  <2>4. QED
    BY <2>1, <2>2, <2>3 DEF Respects, WritesOver
<1>4. QED
  BY <1>2, <1>3

\* No step takes real time back.
LEMMA HistoryStep ==
  ASSUME TypeOK, LifeInv, HistoryInv, [ClusterNext]_clusterVars
  PROVE  HistoryInv'
<1>1. PerRequest /\ HistoryInv /\ \A r \in Requests : PrecededByAnswered(r)
  BY DEF LifeInv
<1>2. submitted \in SUBSET Requests
  BY DEF TypeOK
<1>3. CASE ReplicaStep /\ UNCHANGED clientVars
  <2>1. submitted' = submitted
    <3>1. ASSUME NEW m \in InFlight, OnMessage(m) PROVE submitted' = submitted
      BY <3>1 DEF OnMessage, OnReadRequest, OnWriteRequest, OnClientRequest, Ignore,
                  GatherReply, FinishRead, WriteBack, RefuseSwap, StartWrite, GatherAck, FinishWrite
    <3>2. QED
      BY <1>3, <3>1 DEF ReplicaStep, Timeout, Crash, Restart, Lose, Duplicate, DropAtDown
  <2>2. QED
    BY <1>1, <1>3, <2>1 DEF HistoryInv, clientVars
<1>4. ASSUME NEW r \in Requests, Issue(r) PROVE HistoryInv'
  <2>1. /\ outcome[r] = "planned" /\ submitted' = submitted \cup {r} /\ result' = result
        /\ outcome' = [outcome EXCEPT ![r] = "pending"]
        /\ before' = [before EXCEPT ![r] = {q \in Requests : outcome[q] = "ok"}]
    BY <1>4 DEF Issue, Submit
  <2>2. \A q \in Requests : outcome'[q] = IF q = r THEN "pending" ELSE outcome[q]
    BY <1>1, <2>1 DEF PerRequest
  <2>3. \A q \in Requests : before'[q] = IF q = r THEN {p \in Requests : outcome[p] = "ok"} ELSE before[q]
    BY <1>1, <2>1 DEF PerRequest
  <2>4. \A q \in Requests : before[q] \subseteq {p \in Requests : outcome[p] = "ok"}
    BY <1>1 DEF PrecededByAnswered
  <2>5. ASSUME NEW q \in Requests
        PROVE  q \notin before'[q] /\ \A p \in before'[q] : before'[p] \subseteq before'[q]
    <3>1. CASE q = r
      <4> DEFINE settled == {p \in Requests : outcome[p] = "ok"}
      <4>1. before'[r] = settled /\ r \notin settled
        <5>1. r \notin settled
          BY <2>1
        <5> HIDE DEF settled
        <5>2. before'[r] = settled
          BY <2>3 DEF settled
        <5>3. QED
          BY <5>1, <5>2
      <4>2. \A p \in before'[r] : before'[p] = before[p]
        BY <2>3, <4>1
      <4>3. QED
        BY <2>4, <3>1, <4>1, <4>2
    <3>2. CASE q # r
      <4>1. before'[q] = before[q] /\ r \notin before[q]
        BY <2>1, <2>3, <2>4, <3>2
      <4>2. \A p \in before[q] : p \in Requests /\ before'[p] = before[p]
        BY <2>3, <2>4, <4>1
      <4>3. QED
        BY <1>1, <4>1, <4>2 DEF HistoryInv
    <3>3. QED
      BY <3>1, <3>2
  <2>6. \A q \in submitted' : outcome'[q] \notin {"planned", "absent"}
    BY <1>1, <1>2, <2>1, <2>2 DEF HistoryInv
  <2>7. QED
    BY <1>1, <2>1, <2>5, <2>6 DEF HistoryInv
<1>5. ASSUME NEW r \in Requests, GiveUp(r) PROVE HistoryInv'
  <2>1. /\ submitted' = submitted /\ result' = result /\ before' = before
        /\ outcome' = [outcome EXCEPT ![r] = "unknown"]
    BY <1>5 DEF GiveUp, LosePatience, vars
  <2>2. QED
    BY <1>1, <1>2, <2>1 DEF HistoryInv, PerRequest
<1>6. ASSUME NEW m \in InFlight, Settle(m) PROVE HistoryInv'
  <2>1. /\ submitted' = submitted /\ before' = before
        /\ outcome' = [outcome EXCEPT ![m.req] = IF m.ok THEN "ok" ELSE "unknown"]
        /\ result' = IF m.ok THEN [result EXCEPT ![m.req] = Result(m)] ELSE result
    BY <1>6 DEF Settle, TakeReply
  <2>2. result' = [r \in Requests |-> result'[r]]
    BY <1>1, <2>1 DEF HistoryInv
  <2>3. PICK s \in {"ok", "unknown"} : outcome' = [outcome EXCEPT ![m.req] = s]
    BY <2>1
  <2>4. \A r \in submitted : outcome'[r] \notin {"planned", "absent"}
    BY <1>1, <1>2, <2>3 DEF HistoryInv, PerRequest
  <2>5. QED
    BY <1>1, <2>1, <2>2, <2>4 DEF HistoryInv
<1>7. ASSUME NEW m \in InFlight, IgnoreReply(m) PROVE HistoryInv'
  BY <1>1, <1>7 DEF HistoryInv, IgnoreReply, TakeReply, clientVars
<1>8. CASE UNCHANGED clusterVars
  BY <1>1, <1>8 DEF HistoryInv, clusterVars, clientVars, vars
<1>9. QED
  BY <1>3, <1>4, <1>5, <1>6, <1>7, <1>8 DEF ClusterNext

\* Some record explains the state: it is never stored, only known to exist.
GhostInv == \E mint \in [Requests -> Versions] : Ghost(mint)

\* The empty record explains the initial states.
LEMMA InitGhost == ClusterInit => GhostInv /\ HistoryInv
<1> SUFFICES ASSUME ClusterInit PROVE GhostInv /\ HistoryInv
  OBVIOUS
<1> DEFINE mint == [r \in Requests |-> Zero]
<1>1. mint \in [Requests -> Versions] /\ \A w \in Requests : mint[w] = Zero
  BY ValueFacts
<1>2. /\ InFlight = {} /\ answered = {} /\ submitted = {}
      /\ \A n \in Replicas, k \in Keys : store[n][k] = Absent
  BY DEF ClusterInit, Init, EmptyBag, SetToBag, InFlight, BagToSet
<1>3. \A r \in Requests : /\ rounds[r].phase = "closed" /\ DOMAIN rounds[r].replies = {}
                          /\ outcome[r] # "ok" /\ before[r] = {}
  BY DEF ClusterInit, Init, NoRound, RoundIn
<1> HIDE DEF mint
<1>4. CopiesWritten(mint)
  <2>1. \A k \in Keys : \A c \in Copies(k) : c = Absent
    BY <1>2, <1>3, CopyElim
  <2>2. QED
    BY <2>1 DEF CopiesWritten, Wrote
<1>5. Ghost(mint)
  BY <1>1, <1>2, <1>3, <1>4 DEF Ghost, MintsOnce, WritesMinted, Justified, TellsTruth, MintsOver
<1>6. HistoryInv
  BY <1>2, <1>3 DEF HistoryInv, ClusterInit
<1>7. QED
  BY <1>1, <1>5, <1>6 DEF GhostInv

\* The record of a state extends to one of the next.
LEMMA StepGhost ==
  ASSUME TypeOK, LifeInv, OrderInv', HistoryInv, GhostInv, [ClusterNext]_clusterVars,
         StableVersions, ReadRepair, NoSwaps, "ClientRequest" \notin Faults
  PROVE  GhostInv'
<1>1. PICK mint \in [Requests -> Versions] : Ghost(mint)
  BY DEF GhostInv
<1>2. PICK next : Records(mint, next)
  <2>1. CASE \E m \in InFlight : StartWrite(m)
    <3>1. PICK m \in InFlight : StartWrite(m)
      BY <2>1
    <3>2. Records(mint, [mint EXCEPT ![m.req] = rounds'[m.req].version])
      BY <3>1 DEF Records
    <3>3. QED
      BY <3>2
  <2>2. CASE ~ \E m \in InFlight : StartWrite(m)
    BY <2>2 DEF Records
  <2>3. QED
    BY <2>1, <2>2
<1>3. [Next]_vars /\ next \in [Requests -> Versions]
  BY <1>1, <1>2, StepIsReplicaStep, RecordGrows DEF Ghost
<1>4. MintsOnce(next)'
  BY <1>1, <1>2, MintsOnceStep DEF Ghost
<1>5. CopiesWritten(next)' /\ WritesMinted(next)' /\ Justified(next)'
  BY <1>1, <1>2, <1>3, CopiesWrittenStep, WritesMintedStep, JustifiedStep DEF Ghost
<1>6. TellsTruth(next)' /\ MintsOver(next)'
  BY <1>1, <1>2, TellsTruthStep, MintsOverStep DEF Ghost
<1>7. QED
  BY <1>3, <1>4, <1>5, <1>6 DEF GhostInv, Ghost

-----------------------------------------------------------------------------
(* The theorem.                                                            *)

\* The record and the answers give every history its stamps.
LEMMA HistoriesAreExplained ==
  ASSUME TypeOK, LifeInv, OrderInv, HistoryInv, NoSwaps, IsFiniteSet(Requests),
         NEW mint \in [Requests -> Versions], Ghost(mint), NEW k \in Keys
  PROVE  \E S, stamp : StampsExplain(HistoryOf(k), before, S, stamp)
<1> DEFINE ops       == HistoryOf(k)
           S         == {r \in DOMAIN ops : ops[r].completed \/ mint[r] # Zero}
           Told(r, b) == /\ b.req = r
                         /\ Plan[r].kind = "read" => Wrote(mint, Key(r), Stored(result[r], b.version))
           Given(r) == CHOOSE b \in answered : Told(r, b)
           stamp     == [r \in S |-> IF Plan[r].kind = "write" THEN mint[r] ELSE Given(r).version]
<1>1. /\ DOMAIN ops = {r \in Requests : outcome[r] \notin {"planned", "absent"} /\ Key(r) = k}
      /\ \A r \in DOMAIN ops : /\ ops[r].kind = Plan[r].kind /\ ops[r].argument = Plan[r].argument
                               /\ ops[r].completed = (outcome[r] = "ok") /\ ops[r].result = result[r]
  BY DEF HistoryOf
<1> HIDE DEF ops
<1>2. \A r \in Requests : Plan[r].kind \in {"read", "write"}
  BY PlanFacts DEF PlannedOp, Kinds, NoSwaps
<1>3. ASSUME NEW r \in Requests, outcome[r] = "ok"
      PROVE  /\ Given(r) \in answered /\ Told(r, Given(r))
             /\ Given(r).version \in Versions
  <2>1. \E b \in answered : Told(r, b)
    BY <1>3 DEF Ghost, TellsTruth, Tellable
  <2> HIDE DEF Told
  <2>2. Given(r) \in answered /\ Told(r, Given(r))
    BY <2>1
  <2> HIDE DEF Given
  <2>3. QED
    BY <2>2 DEF TypeOK
<1> HIDE DEF Given
<1>4. ASSUME NEW r \in Requests, outcome[r] = "ok"
      PROVE  /\ Plan[r].kind = "write" =>
                  Given(r).durable /\ Given(r).version = mint[r] /\ mint[r] # Zero
             /\ Plan[r].kind = "read" => Given(r).durable \/ Given(r).version = Zero
  BY <1>3, <1>4 DEF Ghost, Justified
<1>5. ASSUME NEW w \in Requests, mint[w] # Zero
      PROVE  /\ Plan[w].kind = "write" /\ Newer(mint[w], Zero)
             /\ outcome[w] \notin {"planned", "absent"}
  <2>1. Plan[w].kind = "write" /\ mint[w].counter > 0 /\ w \in submitted
    <3>1. /\ Plan[w].kind = "write" /\ ~ Unstarted(w)
          /\ mint[w].counter \in 1 .. issued[Coordinator(w)][Key(w)].counter
      BY <1>5 DEF Ghost, MintsOnce
    <3>2. issued[Coordinator(w)][Key(w)].counter \in Nat
      BY PlanFacts DEF TypeOK, Versions
    <3>3. QED
      BY <3>1, <3>2 DEF Unstarted
  <2>2. QED
    BY <2>1 DEF HistoryInv, Newer, Zero
<1>6. \A r \in S : /\ r \in DOMAIN ops /\ r \in Requests /\ Key(r) = k
                   /\ Plan[r].kind = "write" => mint[r] # Zero
                   /\ Plan[r].kind = "read" => outcome[r] = "ok"
  BY <1>1, <1>4, <1>5
<1>7. \A r \in S : stamp[r] = IF Plan[r].kind = "write" THEN mint[r] ELSE Given(r).version
  OBVIOUS
<1>8. stamp \in [S -> Versions]
  <2>1. \A r \in S : (IF Plan[r].kind = "write" THEN mint[r] ELSE Given(r).version) \in Versions
    BY <1>2, <1>3, <1>6
  <2>2. QED
    BY <2>1
<1>9. /\ S \in SUBSET DOMAIN ops /\ S \in SUBSET Requests /\ IsFiniteSet(S)
      /\ \A o \in DOMAIN ops : ops[o].completed => o \in S
  <2>1. S \in SUBSET DOMAIN ops /\ S \in SUBSET Requests /\ \A o \in DOMAIN ops : ops[o].completed => o \in S
    BY <1>1
  <2> HIDE DEF S
  <2>2. IsFiniteSet(S)
    BY <2>1, FS_Subset
  <2>3. QED
    BY <2>1, <2>2
<1>10. \A r \in Requests : mint[r] # Zero /\ Key(r) = k => r \in S
  BY <1>1, <1>5
<1>11. ASSUME NEW r \in Requests, outcome[r] = "ok", r \in S
       PROVE  stamp[r] = Given(r).version
  BY <1>2, <1>4, <1>7, <1>11
<1> HIDE DEF stamp, S
<1>12. ASSUME NEW v \in S, NEW w \in S, ops[v].kind = "write", ops[w].kind = "write", stamp[v] = stamp[w]
       PROVE  v = w
  <2>1. /\ v \in Requests /\ w \in Requests /\ Key(v) = Key(w)
        /\ mint[v] = mint[w] /\ mint[v] # Zero
    BY <1>1, <1>6, <1>7, <1>12
  <2>2. QED
    BY <2>1 DEF Ghost, MintsOnce
<1>13. ASSUME NEW o \in S, ops[o].kind = "read"
       PROVE  \/ /\ ops[o].result = None
                 /\ \A w \in S : ops[w].kind = "write" => Newer(stamp[w], stamp[o])
              \/ \E w \in S : /\ ops[w].kind = "write" /\ stamp[w] = stamp[o]
                              /\ ops[o].result = ops[w].argument
  <2>1. /\ o \in Requests /\ Key(o) = k /\ Plan[o].kind = "read" /\ outcome[o] = "ok"
        /\ ops[o].result = result[o]
    BY <1>1, <1>6, <1>13
  <2>2. Wrote(mint, k, Stored(result[o], stamp[o]))
    BY <1>3, <1>11, <2>1
  <2>3. CASE Stored(result[o], stamp[o]) = Absent
    <3>1. result[o] = None /\ stamp[o] = Zero
      BY <2>3 DEF Stored, Absent
    <3>2. \A w \in S : ops[w].kind = "write" => Newer(stamp[w], Zero)
      BY <1>1, <1>5, <1>6, <1>7
    <3>3. QED
      BY <2>1, <3>1, <3>2
  <2>4. ASSUME NEW w \in Requests, Key(w) = k, mint[w] # Zero,
               Stored(result[o], stamp[o]) = Stored(Plan[w].argument, mint[w])
        PROVE  \E x \in S : /\ ops[x].kind = "write" /\ stamp[x] = stamp[o]
                            /\ ops[o].result = ops[x].argument
    <3>1. result[o] = Plan[w].argument /\ stamp[o] = mint[w]
      BY <2>4 DEF Stored
    <3>2. w \in S /\ Plan[w].kind = "write"
      BY <1>5, <1>10, <2>4
    <3>3. stamp[w] = mint[w] /\ ops[w].kind = "write" /\ ops[w].argument = Plan[w].argument
      BY <1>1, <1>6, <1>7, <3>2
    <3>4. QED
      BY <2>1, <3>1, <3>2, <3>3
  <2>5. QED
    BY <2>2, <2>3, <2>4 DEF Wrote
<1>14. \A o \in S : o \notin before[o] /\ IsFiniteSet(before[o])
  <2>1. \A o \in S : before[o] \in SUBSET Requests
    BY <1>6 DEF LifeInv, PrecededByAnswered
  <2>2. QED
    BY <1>6, <2>1, FS_Subset DEF HistoryInv
<1>15. ASSUME NEW o \in S, NEW p \in S \cap before[o]
       PROVE  /\ before[p] \subseteq before[o]
              /\ ~ Newer(stamp[p], stamp[o])
              /\ ops[o].kind = "write" => Newer(stamp[o], stamp[p])
  <2>1. /\ o \in Requests /\ p \in Requests /\ Key(o) = k /\ Key(p) = k
        /\ outcome[p] = "ok" /\ before[p] \subseteq before[o]
    BY <1>6, <1>15 DEF HistoryInv, LifeInv, PrecededByAnswered
  <2>2. PICK a \in answered : a.req = p /\ a.version = stamp[p] /\ (a.durable \/ a.version = Zero)
    BY <1>2, <1>3, <1>4, <1>11, <2>1
  <2>3. stamp[o] \in Versions /\ stamp[p] \in Versions
    BY <1>8
  <2>4. CASE ops[o].kind = "write"
    <3>1. stamp[o] = mint[o] /\ mint[o] # Zero
      BY <1>1, <1>6, <1>7, <2>4
    <3>2. Newer(stamp[o], stamp[p])
      <4>1. CASE a.durable
        <5>1. KnownTo(a, o)
          BY <2>1, <2>2, <4>1 DEF KnownTo
        <5>2. QED
          BY <2>1, <2>2, <3>1, <5>1 DEF Ghost, MintsOver
      <4>2. CASE a.version = Zero
        BY <1>5, <2>1, <2>2, <3>1, <4>2
      <4>3. QED
        BY <2>2, <4>1, <4>2
    <3>3. QED
      BY <2>1, <2>3, <3>2, StampsAreOrdered
  <2>5. CASE ops[o].kind = "read"
    <3>1. outcome[o] = "ok"
      BY <1>1, <1>6, <2>5
    <3>2. PICK b \in answered : b.req = o /\ b.version = stamp[o]
      BY <1>3, <1>11, <2>1, <3>1
    <3>3. ~ Newer(stamp[p], stamp[o])
      <4>1. CASE a.durable
        <5>1. Respects(o, a.version)
          BY <2>1, <2>2, <4>1 DEF KnownTo, OrderInv
        <5>2. QED
          BY <2>2, <3>2, <5>1 DEF Respects, AnswersOver
      <4>2. CASE a.version = Zero
        <5>1. Wrote(mint, k, Stored(result[o], stamp[o]))
          BY <1>1, <1>3, <1>11, <2>1, <2>5, <3>1
        <5>2. stamp[o] = Zero \/ \E w \in Requests : mint[w] # Zero /\ stamp[o] = mint[w]
          BY <5>1 DEF Wrote, Absent, Stored
        <5>3. stamp[o] = Zero \/ Newer(stamp[o], Zero)
          BY <1>5, <5>2
        <5>4. QED
          BY <2>2, <2>3, <4>2, <5>3, StampsAreOrdered
      <4>3. QED
        BY <2>2, <4>1, <4>2
    <3>4. QED
      BY <2>1, <2>5, <3>3
  <2>6. QED
    BY <1>1, <1>2, <1>6, <2>4, <2>5
<1>16. \A o \in DOMAIN ops : ops[o].kind \in {"read", "write"}
  BY <1>1, <1>2
<1>17. StampsExplain(ops, before, S, stamp)
  BY <1>8, <1>9, <1>12, <1>13, <1>14, <1>15, <1>16 DEF StampsExplain
<1>18. QED
  BY <1>17 DEF ops

\* In every run of a correctly configured cluster whose clients read and write,
\* and whose network does not deliver a client's request twice, what the clients
\* saw of each key can be explained by one register (the judgement of
\* cassette/checker/linear.py, for every number of replicas and requests, every
\* loss, crash and delay).
THEOREM RunsAreLinearizable ==
  ASSUME QuorumsOverlap, StableVersions, ReadRepair, NoSwaps,
         "ClientRequest" \notin Faults, IsFiniteSet(Requests)
  PROVE  ClusterSpec => []Linearizable
<1> DEFINE Inv == TypeOK /\ AckInv /\ LifeInv /\ OrderInv /\ HistoryInv /\ GhostInv
<1>1. ClusterInit => Inv
  <2>1. ClusterInit => TypeOK /\ AckInv /\ LifeInv
    BY InitIsReplicaInit, InitTyped, InitAcks, InitLives
  <2>2. ClusterInit => OrderInv
    BY DEF ClusterInit, Init, OrderInv
  <2>3. QED
    BY <2>1, <2>2, InitGhost
<1>2. Inv /\ [ClusterNext]_clusterVars => Inv'
  <2> SUFFICES ASSUME Inv, [ClusterNext]_clusterVars PROVE Inv'
    OBVIOUS
  <2>1. TypeOK'
    BY StepIsReplicaStep, StepTyped
  <2>2. AckInv'
    BY <2>1, StepIsReplicaStep, StepAcks
  <2>3. LifeInv' /\ HistoryInv'
    BY StepLives, HistoryStep
  <2>4. OrderInv'
    BY <2>1, StepOrders
  <2>5. GhostInv'
    BY <2>4, StepGhost
  <2>6. QED
    BY <2>1, <2>2, <2>3, <2>4, <2>5
<1>3. Inv => Linearizable
  <2> SUFFICES ASSUME Inv, NEW k \in Keys
               PROVE  LinearizableFrom(None, HistoryOf(k), before)
    BY DEF Linearizable
  <2>1. PICK mint \in [Requests -> Versions] : Ghost(mint)
    BY DEF GhostInv
  <2>2. PICK S, stamp : StampsExplain(HistoryOf(k), before, S, stamp)
    BY <2>1, HistoriesAreExplained
  <2>3. QED
    BY <2>2, StampedHistoryIsLinearizable
<1>4. QED
  BY <1>1, <1>2, <1>3, PTL DEF ClusterSpec

-----------------------------------------------------------------------------
(***************************************************************************)
(* A swap that was refused wrote nothing (Cluster!                         *)
(* RefusedSwapLeavesNoTrace): a round decides once, at its read quorum,    *)
(* whether it will write or refuse, and no request has a second round.     *)
(***************************************************************************)

\* No other write or swap of the key has the argument of a swap: a copy that
\* holds it is a trace of the swap.
OwnArguments ==
  \A r \in Requests : Plan[r].kind = "cas" =>
    /\ Plan[r].argument # None
    /\ \A q \in Requests :
         Plan[q].kind # "read" /\ Key(q) = Key(r) /\ Plan[q].argument = Plan[r].argument => q = r

Traceless(r) == \A c \in Copies(Key(r)) : c.value # Plan[r].argument

\* The client of r has been told, or will be, that the swap was refused.
Refused(r) ==
  \/ outcome[r] = "ok" /\ result[r] = NotSwapped
  \/ \E m \in InFlight : m.type = "ClientReply" /\ m.req = r /\ m.ok /\ m.value = NotSwapped

\* A swap leaves no trace before its second phase, nor when it has none.
SwapInv ==
  \A r \in Requests :
    Plan[r].kind = "cas" /\ (Unstarted(r) \/ rounds[r].phase = "read" \/ Refused(r)) => Traceless(r)

\* Only its own second phase makes a trace of a swap.
LEMMA OthersLeaveNoTrace ==
  ASSUME TypeOK, OwnArguments, [Next]_vars, NEW r \in Requests, Plan[r].kind = "cas", Traceless(r),
         \A m \in InFlight : StartWrite(m) => m.req # r
  PROVE  Traceless(r)'
<1>1. Key(r) \in Keys
  BY PlanFacts
<1>2. ASSUME Copies(Key(r))' \subseteq Copies(Key(r)) PROVE Traceless(r)'
  BY <1>2 DEF Traceless
<1>3. CASE Quiet
  BY <1>1, <1>2, <1>3, QuietCopies
<1>4. ASSUME NEW m \in InFlight,
             OnReadRequest(m) \/ OnWriteRequest(m) \/ GatherReply(m) \/ WriteBack(m)
      PROVE  Traceless(r)'
  BY <1>1, <1>2, <1>4, StorageCopies, GatheringCopies, WriteBackCopies
<1>5. ASSUME NEW m \in InFlight, StartWrite(m) PROVE Traceless(r)'
  <2>1. PICK minted :
          /\ rounds' = [rounds EXCEPT ![m.req] = WriteRound(None, minted)]
          /\ Handle(m, ToAll(m.req, Stored(Plan[m.req].argument, minted)))
    BY <1>5 DEF StartWrite
  <2>2. /\ Deliverable(m, "ReadReply") /\ Plan[m.req].kind # "read" /\ store' = store
        /\ m.req \in Requests /\ m.req # r
    BY <1>5, Fields DEF StartWrite, TypeOK
  <2> DEFINE fresh == Stored(Plan[m.req].argument, minted)
             added == [k \in Keys |-> IF k = Key(m.req) THEN {fresh} ELSE {}]
  <2>3. \A k \in Keys : Copies(k)' \subseteq Copies(k) \cup added[k]
    <3>1. fresh \in added[Key(m.req)]
      BY <2>2, PlanFacts
    <3>2. PICK v : v = Plan[m.req].argument
      OBVIOUS
    <3> HIDE DEF added
    <3>3. Handle(m, ToAll(m.req, Stored(v, minted))) /\ Stored(v, minted) \in added[Key(m.req)]
      BY <2>1, <3>1, <3>2
    <3>4. QED
      BY <2>1, <2>2, <3>2, <3>3, PhaseTwoCopies
  <2>4. \A c \in added[Key(r)] : c.value = Plan[m.req].argument /\ Key(m.req) = Key(r)
    BY <1>1 DEF Stored
  <2>5. Copies(Key(r))' \subseteq Copies(Key(r)) \cup added[Key(r)]
    BY <1>1, <2>3
  <2>6. Key(m.req) = Key(r) => Plan[m.req].argument # Plan[r].argument
    BY <2>2 DEF OwnArguments
  <2> HIDE DEF added
  <2>7. QED
    BY <2>4, <2>5, <2>6 DEF Traceless
<1>6. QED
  BY <1>3, <1>4, <1>5, StepKinds

\* A swap that may still be refused was so before, or is refused now in its
\* first phase.
LEMMA StillUndecided ==
  ASSUME TypeOK, LifeInv, HistoryInv, [ClusterNext]_clusterVars, NEW r \in Requests,
         Plan[r].kind = "cas",
         Unstarted(r)' \/ rounds'[r].phase = "read" \/ Refused(r)'
  PROVE  Unstarted(r) \/ rounds[r].phase = "read" \/ Refused(r)
<1>1. [Next]_vars /\ StartsOnce(r)
  BY StepIsReplicaStep DEF LifeInv
<1>2. ASSUME Unstarted(r)' PROVE Unstarted(r)
  <2>1. r \notin submitted' => r \notin submitted
    BY <1>1, SubmittedSteps
  <2>2. ASSUME ClientRequest(r) \in InFlight', ClientRequest(r) \notin InFlight
        PROVE  r \notin submitted
    <3>1. ClientRequest(r).type = "ClientRequest" /\ ClientRequest(r).req = r
      BY DEF ClientRequest
    <3>2. \E q \in Requests : Submit(q) /\ ClientRequest(r) = ClientRequest(q)
      BY <1>1, <2>2, <3>1, NewMessages
    <3>3. \A q : ClientRequest(r) = ClientRequest(q) => q = r
      BY DEF ClientRequest
    <3>4. QED
      BY <3>2, <3>3 DEF Submit
  <2>3. QED
    BY <1>2, <2>1, <2>2 DEF Unstarted
<1>3. ASSUME rounds'[r].phase = "read" PROVE Unstarted(r) \/ rounds[r].phase = "read"
  BY <1>1, <1>3, FirstPhase DEF StartsOnce, Unstarted
<1>4. ASSUME outcome'[r] = "ok", result'[r] = NotSwapped PROVE Refused(r)
  <2>1. CASE outcome[r] = "ok" /\ result'[r] = result[r]
    BY <1>4, <2>1 DEF Refused
  <2>2. ASSUME NEW m \in InFlight, m.type = "ClientReply", m.req = r, m.ok, result'[r] = Result(m)
        PROVE  Refused(r)
    BY <1>4, <2>2 DEF Refused, Result
  <2>3. QED
    BY <1>4, <2>1, <2>2, OkSteps
<1>5. ASSUME NEW x \in InFlight', x.type = "ClientReply", x.req = r, x.ok, x.value = NotSwapped
      PROVE  rounds[r].phase = "read" \/ Refused(r)
  <2>1. CASE x \in InFlight
    BY <1>5, <2>1 DEF Refused
  <2>2. ASSUME NEW q, x = ClientReply(q, FALSE, None) PROVE FALSE
    BY <1>5, <2>2 DEF ClientReply
  <2>3. ASSUME NEW m \in InFlight, NEW v, x = ClientReply(m.req, TRUE, v) PROVE m.req = r /\ v = NotSwapped
    BY <1>5, <2>3 DEF ClientReply
  <2>4. ASSUME NEW m \in InFlight, RefuseSwap(m), x = ClientReply(m.req, TRUE, NotSwapped)
        PROVE  rounds[r].phase = "read"
    <3>1. m.req = r
      BY <2>3, <2>4
    <3>2. QED
      BY <2>4, <3>1 DEF RefuseSwap, ReadQuorum, AwaitsReply
  <2>5. ASSUME NEW m \in InFlight, FinishRead(m), NEW v, x = ClientReply(m.req, TRUE, v) PROVE FALSE
    BY <2>3, <2>5 DEF FinishRead
  <2>6. ASSUME NEW m \in InFlight, x = ClientReply(m.req, TRUE, Answer(m.req)) PROVE FALSE
    <3>1. m.req = r /\ Answer(m.req) = NotSwapped
      BY <2>3, <2>6
    <3>2. QED
      BY <3>1 DEF Answer, Swapped, NotSwapped
  <2>7. QED
    BY <1>1, <1>5, <2>1, <2>2, <2>4, <2>5, <2>6, NewReplySteps
<1>6. QED
  BY <1>2, <1>3, <1>4, <1>5 DEF Refused

\* In every run whose network does not deliver a client's request twice, a swap
\* that its client was told is refused has written nothing, anywhere.
THEOREM RefusedSwapsLeaveNoTrace ==
  ASSUME OwnArguments, "ClientRequest" \notin Faults
  PROVE  ClusterSpec => []RefusedSwapLeavesNoTrace
<1> DEFINE Inv == TypeOK /\ LifeInv /\ HistoryInv /\ SwapInv
<1>1. ClusterInit => Inv
  <2> SUFFICES ASSUME ClusterInit PROVE Inv
    OBVIOUS
  <2>1. TypeOK /\ LifeInv /\ HistoryInv
    BY InitIsReplicaInit, InitTyped, InitLives, InitGhost
  <2>2. /\ InFlight = {} /\ \A n \in Replicas, k \in Keys : store[n][k] = Absent
        /\ \A r \in Requests : rounds[r].phase = "closed" /\ DOMAIN rounds[r].replies = {}
    BY DEF ClusterInit, Init, EmptyBag, SetToBag, InFlight, BagToSet, NoRound, RoundIn
  <2>3. \A k \in Keys : \A c \in Copies(k) : c = Absent
    BY <2>2, CopyElim
  <2>4. \A r \in Requests : Plan[r].kind = "cas" => Traceless(r)
    BY <2>3, PlanFacts DEF Traceless, Absent, Stored, OwnArguments
  <2>5. QED
    BY <2>1, <2>4 DEF SwapInv
<1>2. Inv /\ [ClusterNext]_clusterVars => Inv'
  <2> SUFFICES ASSUME Inv, [ClusterNext]_clusterVars PROVE Inv'
    OBVIOUS
  <2>1. [Next]_vars /\ TypeOK' /\ LifeInv' /\ HistoryInv'
    BY StepIsReplicaStep, StepTyped, StepLives, HistoryStep
  <2>2. ASSUME NEW r \in Requests, Plan[r].kind = "cas",
               Unstarted(r)' \/ rounds'[r].phase = "read" \/ Refused(r)'
        PROVE  Traceless(r)'
    <3>1. Unstarted(r) \/ rounds[r].phase = "read" \/ Refused(r)
      BY <2>2, StillUndecided
    <3>2. Traceless(r)
      BY <2>2, <3>1 DEF SwapInv
    <3>3. ASSUME NEW m \in InFlight, StartWrite(m), m.req = r PROVE FALSE
      <4>1. rounds'[r].phase = "write"
        <5>1. PICK minted : rounds' = [rounds EXCEPT ![r] = WriteRound(None, minted)]
          BY <3>3 DEF StartWrite
        <5>2. QED
          BY <5>1 DEF TypeOK, WriteRound, RoundIn
      <4>2. ~ Refused(r)'
        BY <2>1, <4>1 DEF LifeInv, Concluded, IsOpen, Refused
      <4>3. ~ Unstarted(r)'
        BY <2>1, <4>1 DEF LifeInv, StartsOnce, NoRound, RoundIn
      <4>4. QED
        BY <2>2, <4>1, <4>2, <4>3
    <3>4. QED
      BY <2>1, <2>2, <3>2, <3>3, OthersLeaveNoTrace
  <2>3. QED
    BY <2>1, <2>2 DEF SwapInv
<1>3. Inv => RefusedSwapLeavesNoTrace
  BY DEF SwapInv, Refused, RefusedSwapLeavesNoTrace, Traceless
<1>4. QED
  BY <1>1, <1>2, <1>3, PTL DEF ClusterSpec
=============================================================================
