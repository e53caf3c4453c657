--------------------------- MODULE RegisterProofs ---------------------------
(***************************************************************************)
(* Lemmas about registers and the orders that explain histories (module    *)
(* Register), shared by the proofs about the store, which show that such   *)
(* an order exists, and about the checker, which searches for one.         *)
(***************************************************************************)
EXTENDS Register, FiniteSetTheorems, TLAPS

-----------------------------------------------------------------------------
(* Finite orders.                                                          *)

\* Every set of naturals that is not empty has a least element.
LEMMA LeastNatural ==
  ASSUME NEW S \in SUBSET Nat, S # {}
  PROVE  \E n \in S : \A m \in S : n <= m
<1> DEFINE Initial == {0 .. n : n \in S}
<1>1. \A n \in S : 0 .. n \in FiniteSubsetsOf(Nat)
  <2> SUFFICES ASSUME NEW n \in S PROVE 0 .. n \in SUBSET Nat /\ IsFiniteSet(0 .. n)
    BY DEF FiniteSubsetsOf
  <2>1. QED
    BY FS_Interval
<1>2. PICK I \in Initial : \A J \in Initial : <<J, I>> \notin StrictSubsetOrdering(Nat)
  <2>1. Initial \subseteq FiniteSubsetsOf(Nat) /\ Initial # {}
    BY <1>1
  <2>2. IsWellFoundedOn(StrictSubsetOrdering(Nat), FiniteSubsetsOf(Nat))
    BY FS_StrictSubsetOrderingWellFounded
  <2> HIDE DEF Initial
  <2>3. QED
    BY <2>1, <2>2, WFMin
<1>3. PICK n \in S : I = 0 .. n
  OBVIOUS
<1>4. ASSUME NEW m \in S, m < n PROVE FALSE
  <2>1. 0 .. m \in Initial /\ 0 .. m \subseteq 0 .. n /\ 0 .. m # 0 .. n
    BY <1>4
  <2>2. <<0 .. m, 0 .. n>> \in StrictSubsetOrdering(Nat)
    BY <2>1 DEF StrictSubsetOrdering
  <2>3. QED
    BY <1>2, <1>3, <2>1, <2>2
<1>5. QED
  BY <1>4

\* What a finite sequence holds is finite.
LEMMA FiniteRange ==
  ASSUME NEW n \in Nat, NEW f
  PROVE  IsFiniteSet({f[i] : i \in 1 .. n})
<1> DEFINE g == [i \in 1 .. n |-> f[i]]
           T == {f[i] : i \in 1 .. n}
<1>1. PICK Places : Places = 1 .. n
  OBVIOUS
<1>2. IsFiniteSet(Places)
  BY <1>1, FS_Interval
<1>3. g \in Surjection(Places, T)
  BY <1>1 DEF Surjection
<1> HIDE DEF g, T
<1>4. IsFiniteSet(T)
  BY <1>2, <1>3, FS_Surjection
<1>5. QED
  BY <1>4 DEF T

\* Less orders S totally.
Orders(Less, S) ==
  /\ Less \in SUBSET (S \X S)
  /\ \A x \in S : <<x, x>> \notin Less
  /\ \A x, y \in S : x # y => <<x, y>> \in Less \/ <<y, x>> \in Less
  /\ \A x, y, z \in S : <<x, y>> \in Less /\ <<y, z>> \in Less => <<x, z>> \in Less

\* line is the elements of S in that order.
LinesUp(line, Less, S) ==
  /\ line \in [1 .. Cardinality(S) -> S]
  /\ \A i, j \in 1 .. Cardinality(S) : i < j => <<line[i], line[j]>> \in Less
  /\ \A x \in S : \E i \in 1 .. Cardinality(S) : line[i] = x

\* A finite set that a relation orders totally can be lined up in that order.
LEMMA LineUp ==
  ASSUME NEW S, IsFiniteSet(S), NEW Less, Orders(Less, S)
  PROVE  \E line : LinesUp(line, Less, S)
<1> USE DEF Orders
<1> DEFINE Below(x) == {y \in S : <<y, x>> \in Less}
           size     == Cardinality(S)
           rank     == [x \in S |-> Cardinality(Below(x)) + 1]
<1>1. size \in Nat
  BY FS_CardinalityType
<1>2. ASSUME NEW x \in S
      PROVE  IsFiniteSet(Below(x)) /\ Cardinality(Below(x)) \in 0 .. size - 1
  <2>1. IsFiniteSet(S \ {x}) /\ Cardinality(S \ {x}) = size - 1
    BY FS_RemoveElement
  <2>2. Below(x) \in SUBSET (S \ {x})
    OBVIOUS
  <2> HIDE DEF Below, size
  <2>3. IsFiniteSet(Below(x)) /\ Cardinality(Below(x)) <= size - 1
    BY <2>1, <2>2, FS_Subset
  <2>4. QED
    BY <1>1, <2>3, FS_CardinalityType
<1>3. ASSUME NEW x \in S, NEW y \in S, <<x, y>> \in Less
      PROVE  Cardinality(Below(x)) < Cardinality(Below(y))
  <2>1. Below(x) \in SUBSET Below(y) /\ x \in Below(y) /\ x \notin Below(x)
    BY <1>3
  <2>2. /\ IsFiniteSet(Below(y)) /\ Cardinality(Below(x)) \in 0 .. size - 1
        /\ Cardinality(Below(y)) \in 0 .. size - 1
    BY <1>2
  <2> HIDE DEF Below, size
  <2>3. Cardinality(Below(x)) <= Cardinality(Below(y)) /\ Cardinality(Below(x)) # Cardinality(Below(y))
    BY <2>1, <2>2, FS_Subset
  <2>4. QED
    BY <1>1, <2>2, <2>3
<1>4. rank \in [S -> 1 .. size]
  <2>1. \A x \in S : Cardinality(Below(x)) + 1 \in 1 .. size
    <3> HIDE DEF Below, size
    <3>1. QED
      BY <1>1, <1>2
  <2>2. QED
    BY <2>1
<1>5. \A x, y \in S : <<x, y>> \in Less => rank[x] < rank[y]
  <2> SUFFICES ASSUME NEW x \in S, NEW y \in S, <<x, y>> \in Less PROVE rank[x] < rank[y]
    OBVIOUS
  <2>1. Cardinality(Below(x)) < Cardinality(Below(y))
    BY <1>3
  <2>2. Cardinality(Below(x)) \in 0 .. size - 1 /\ Cardinality(Below(y)) \in 0 .. size - 1
    BY <1>2
  <2>3. rank[x] = Cardinality(Below(x)) + 1 /\ rank[y] = Cardinality(Below(y)) + 1
    OBVIOUS
  <2> HIDE DEF Below, size, rank
  <2>4. QED
    BY <1>1, <2>1, <2>2, <2>3
<1> HIDE DEF rank, Below
<1>6. \A x, y \in S : rank[x] = rank[y] => x = y
  <2> SUFFICES ASSUME NEW x \in S, NEW y \in S, rank[x] = rank[y], x # y PROVE FALSE
    OBVIOUS
  <2>1. rank[x] < rank[y] \/ rank[y] < rank[x]
    BY <1>5
  <2>2. rank[x] \in Int
    BY <1>4
  <2>3. QED
    BY <2>1, <2>2
<1>7. \A i \in 1 .. size : \E x \in S : rank[x] = i
  <2>1. rank \in Injection(S, 1 .. size)
    BY <1>4, <1>6 DEF Injection, IsInjective
  <2>2. IsFiniteSet(1 .. size) /\ Cardinality(1 .. size) = size
    BY <1>1, FS_Interval
  <2>3. rank \in Surjection(S, 1 .. size)
    <3>1. PICK Places : Places = 1 .. size
      OBVIOUS
    <3>2. /\ IsFiniteSet(Places) /\ Cardinality(S) = Cardinality(Places)
          /\ rank \in Injection(S, Places)
      BY <2>1, <2>2, <3>1
    <3>3. rank \in Surjection(S, Places)
      BY <3>2, FS_Injection
    <3>4. QED
      BY <3>1, <3>3
  <2>4. QED
    BY <2>3 DEF Surjection
<1> DEFINE order == [i \in 1 .. size |-> CHOOSE x \in S : rank[x] = i]
<1>8. \A i \in 1 .. size : order[i] \in S /\ rank[order[i]] = i
  BY <1>7
<1>9. order \in [1 .. size -> S]
  BY <1>8
<1> HIDE DEF order
<1>10. \A i, j \in 1 .. size : i < j => <<order[i], order[j]>> \in Less
  <2> SUFFICES ASSUME NEW i \in 1 .. size, NEW j \in 1 .. size, i < j
               PROVE  <<order[i], order[j]>> \in Less
    OBVIOUS
  <2>1. order[i] \in S /\ order[j] \in S /\ rank[order[i]] = i /\ rank[order[j]] = j
    BY <1>8
  <2>2. order[i] # order[j] /\ ~ (rank[order[j]] < rank[order[i]])
    BY <2>1
  <2>3. QED
    BY <1>5, <2>1, <2>2
<1>11. ASSUME NEW x \in S PROVE \E i \in 1 .. size : order[i] = x
  <2>1. rank[x] \in 1 .. size
    BY <1>4
  <2>2. order[rank[x]] \in S /\ rank[order[rank[x]]] = rank[x]
    BY <1>8, <2>1
  <2>3. QED
    BY <1>6, <2>1, <2>2
<1>12. QED
  BY <1>9, <1>10, <1>11 DEF LinesUp

-----------------------------------------------------------------------------
(* The states of a register.                                               *)

\* s lists the states up to the m-th.
IsRun(s, m, start, ops, order) ==
  s = [p \in 0 .. m |-> IF p = 0 THEN start ELSE NextState(s[p-1], ops[order[p]])]

LEMMA RunExists ==
  ASSUME NEW start, NEW ops, NEW order, NEW m \in Nat
  PROVE  \E s : IsRun(s, m, start, ops, order)
<1> DEFINE Run(s, k) == IsRun(s, k, start, ops, order)
           Wrong == {k \in Nat : ~ \E s : Run(s, k)}
<1>1. SUFFICES ASSUME Wrong # {} PROVE FALSE
  OBVIOUS
<1>2. PICK k \in Wrong : \A l \in Wrong : k <= l
  <2>1. Wrong \in SUBSET Nat
    OBVIOUS
  <2> HIDE DEF Wrong
  <2>2. QED
    BY <1>1, <2>1, LeastNatural
<1>3. k \in Nat /\ ~ \E s : Run(s, k)
  OBVIOUS
<1>4. CASE k = 0
  <2>1. Run([p \in 0 .. 0 |-> start], 0)
    BY DEF IsRun
  <2>2. QED
    BY <1>3, <1>4, <2>1
<1>5. CASE k # 0
  <2>1. k - 1 \in Nat /\ k - 1 \notin Wrong
    BY <1>2, <1>3, <1>5
  <2>2. PICK s : Run(s, k - 1)
    BY <2>1
  <2> DEFINE t == [p \in 0 .. k |-> IF p < k THEN s[p] ELSE NextState(s[k-1], ops[order[k]])]
             next(f) == [p \in 0 .. k |-> IF p = 0 THEN start ELSE NextState(f[p-1], ops[order[p]])]
  <2>3. /\ \A p \in 0 .. k-1 :
             s[p] = IF p = 0 THEN start ELSE NextState(s[p-1], ops[order[p]])
    BY <2>2 DEF IsRun
  <2>4. ASSUME NEW p \in 0 .. k PROVE t[p] = next(t)[p]
    <3>1. /\ t[p] = IF p < k THEN s[p] ELSE NextState(s[k-1], ops[order[k]])
          /\ next(t)[p] = IF p = 0 THEN start ELSE NextState(t[p-1], ops[order[p]])
      OBVIOUS
    <3>2. CASE p = 0
      BY <1>3, <1>5, <2>3, <3>1, <3>2
    <3>3. CASE p # 0
      <4>1. p - 1 \in 0 .. k /\ p - 1 < k /\ t[p-1] = s[p-1]
        BY <1>3, <3>3
      <4>2. CASE p < k
        <5>1. p \in 0 .. k-1
          BY <1>3, <4>2
        <5> HIDE DEF t, next
        <5>2. QED
          BY <2>3, <3>1, <3>3, <4>1, <4>2, <5>1
      <4>3. CASE ~ (p < k)
        <5>1. p = k
          BY <1>3, <4>3
        <5> HIDE DEF t, next
        <5>2. QED
          BY <3>1, <3>3, <4>1, <4>3, <5>1
      <4>4. QED
        BY <4>2, <4>3
    <3>4. QED
      BY <3>2, <3>3
  <2>5. t = next(t)
    <3>1. DOMAIN t = 0 .. k /\ t = [p \in 0 .. k |-> t[p]]
      OBVIOUS
    <3>2. next(t) = [p \in 0 .. k |-> next(t)[p]]
      OBVIOUS
    <3> HIDE DEF t, next
    <3>3. [p \in 0 .. k |-> t[p]] = [p \in 0 .. k |-> next(t)[p]]
      BY <2>4
    <3>4. QED
      BY <3>1, <3>2, <3>3
  <2>6. Run(t, k)
    <3>1. next(t) = [p \in 0 .. k |-> IF p = 0 THEN start ELSE NextState(t[p-1], ops[order[p]])]
      OBVIOUS
    <3> HIDE DEF t, next
    <3>2. QED
      BY <2>5, <3>1 DEF IsRun
  <2>7. QED
    BY <1>3, <2>6
<1>6. QED
  BY <1>4, <1>5

\* The states of a register, one by one.
LEMMA StatesUnfold ==
  ASSUME NEW start, NEW ops, NEW order, Len(order) \in Nat
  PROVE  /\ StatesAlong(start, ops, order)[0] = start
         /\ \A i \in 1 .. Len(order) :
              StatesAlong(start, ops, order)[i] =
                NextState(StatesAlong(start, ops, order)[i-1], ops[order[i]])
<1> DEFINE state == StatesAlong(start, ops, order)
           n     == Len(order)
<1>1. state = CHOOSE s : s = [p \in 0 .. n |->
                  IF p = 0 THEN start ELSE NextState(s[p-1], ops[order[p]])]
  BY DEF StatesAlong
<1>2. PICK s : s = [p \in 0 .. n |-> IF p = 0 THEN start ELSE NextState(s[p-1], ops[order[p]])]
  <2>1. n \in Nat
    OBVIOUS
  <2> HIDE DEF n
  <2>2. PICK s : IsRun(s, n, start, ops, order)
    BY <2>1, RunExists
  <2>3. QED
    BY <2>2 DEF IsRun
<1>3. state = [p \in 0 .. n |-> IF p = 0 THEN start ELSE NextState(state[p-1], ops[order[p]])]
  <2> HIDE DEF state, n
  <2>1. QED
    BY <1>1, <1>2
<1> HIDE DEF state
<1>4. \A i \in 1 .. n : i \in 0 .. n /\ i # 0
  OBVIOUS
<1>5. \A i \in 1 .. n : state[i] = NextState(state[i-1], ops[order[i]])
  BY <1>3, <1>4
<1>6. state[0] = start
  BY <1>3
<1>7. QED
  BY <1>5, <1>6 DEF state

\* Two operations that do the same to a register.
SameEffect(o, p) == o.kind = p.kind /\ o.argument = p.argument /\ o.expected = p.expected

\* The m operations of line do what those of order do after the d-th.
Parallel(ops, order, d, others, line, m) ==
  /\ Len(order) \in Nat /\ Len(line) \in Nat /\ d \in Nat /\ m \in Nat
  /\ d + m <= Len(order) /\ m <= Len(line)
  /\ \A p \in 1 .. m : SameEffect(ops[order[d+p]], others[line[p]])

\* Along operations that do the same, from one state, go the same states.
LEMMA SameStates ==
  ASSUME NEW start, NEW ops, NEW order, NEW d, NEW others, NEW line, NEW m,
         Parallel(ops, order, d, others, line, m)
  PROVE  \A p \in 0 .. m :
           StatesAlong(StatesAlong(start, ops, order)[d], others, line)[p] =
             StatesAlong(start, ops, order)[d+p]
<1> DEFINE there == StatesAlong(start, ops, order)
           here  == StatesAlong(there[d], others, line)
           Wrong == {p \in 0 .. m : here[p] # there[d+p]}
<1> USE DEF Parallel
<1>1. /\ here[0] = there[d]
      /\ \A i \in 1 .. Len(line) : here[i] = NextState(here[i-1], others[line[i]])
      /\ \A i \in 1 .. Len(order) : there[i] = NextState(there[i-1], ops[order[i]])
  BY StatesUnfold
<1> HIDE DEF there, here
<1>2. SUFFICES ASSUME Wrong # {} PROVE FALSE
  BY DEF there, here
<1>3. PICK p \in Wrong : \A q \in Wrong : p <= q
  <2>1. Wrong \in SUBSET Nat
    OBVIOUS
  <2> HIDE DEF Wrong
  <2>2. QED
    BY <1>2, <2>1, LeastNatural
<1>4. p \in 0 .. m /\ here[p] # there[d+p]
  OBVIOUS
<1>5. p # 0
  BY <1>1, <1>4
<1>6. /\ p \in 1 .. m /\ p \in 1 .. Len(line) /\ d + p \in 1 .. Len(order)
      /\ p - 1 \in 0 .. m /\ p - 1 \notin Wrong /\ d + p - 1 = d + (p - 1)
  BY <1>3, <1>4, <1>5
<1>7. here[p-1] = there[d+p-1]
  BY <1>6
<1>8. SameEffect(ops[order[d+p]], others[line[p]])
  BY <1>6
<1>9. NextState(here[p-1], others[line[p]]) = NextState(there[d+p-1], ops[order[d+p]])
  BY <1>7, <1>8 DEF NextState, SameEffect
<1>10. QED
  BY <1>1, <1>4, <1>6, <1>9

\* The operations that line begins with do the same in another history.
Alike(ops, others, line, m) ==
  /\ Len(line) \in Nat /\ m \in 0 .. Len(line)
  /\ \A p \in 1 .. m : SameEffect(ops[line[p]], others[line[p]])

LEMMA StatesAlike ==
  ASSUME NEW start, NEW ops, NEW others, NEW line, NEW m, Alike(ops, others, line, m)
  PROVE  \A p \in 0 .. m :
           StatesAlong(start, others, line)[p] = StatesAlong(start, ops, line)[p]
<1>1. PICK d : d = 0
  OBVIOUS
<1>2. \A p \in 0 .. m : d + p = p
  BY <1>1 DEF Alike
<1>3. \A p \in 1 .. m : SameEffect(ops[line[d+p]], others[line[p]])
  <2> SUFFICES ASSUME NEW p \in 1 .. m PROVE SameEffect(ops[line[d+p]], others[line[p]])
    OBVIOUS
  <2>1. d + p = p /\ SameEffect(ops[line[p]], others[line[p]])
    BY <1>1 DEF Alike
  <2>2. QED
    BY <2>1
<1>4. Parallel(ops, line, d, others, line, m)
  BY <1>1, <1>3 DEF Parallel, Alike
<1>5. \A p \in 0 .. m : StatesAlong(StatesAlong(start, ops, line)[d], others, line)[p] =
                        StatesAlong(start, ops, line)[d+p]
  BY <1>4, SameStates
<1>6. StatesAlong(start, ops, line)[0] = start
  BY StatesUnfold DEF Alike
<1>7. QED
  BY <1>1, <1>2, <1>5, <1>6

-----------------------------------------------------------------------------
(* Orders that explain a history.                                          *)

\* order puts n of the operations ops as a register that held start could have
\* done them.
Lawful(order, n, start, ops, pre) ==
  /\ n \in Nat /\ order \in [1 .. n -> DOMAIN ops]
  /\ \A i, j \in 1 .. n : order[i] = order[j] => i = j
  /\ \A i, j \in 1 .. n : i < j => order[j] \notin pre[order[i]]
  /\ \A i \in 1 .. n : Matches(ops[order[i]], StatesAlong(start, ops, order)[i-1])

\* It accounts for the history ops if it leaves out nothing completed.
Accounts(order, n, start, ops, pre) ==
  /\ Lawful(order, n, start, ops, pre)
  /\ \A o \in DOMAIN ops : ops[o].completed => \E i \in 1 .. n : order[i] = o

\* An enumeration without repetitions lines its elements up.
LEMMA EnumerationIsLine ==
  ASSUME NEW S, NEW n \in Nat, NEW order \in [1 .. n -> S],
         \A i, j \in 1 .. n : order[i] = order[j] => i = j,
         \A x \in S : \E i \in 1 .. n : order[i] = x
  PROVE  order \in Lines(S) /\ IsFiniteSet(S) /\ Cardinality(S) = n
<1>1. PICK Places : Places = 1 .. n
  OBVIOUS
<1>2. IsFiniteSet(Places) /\ Cardinality(Places) = n
  BY <1>1, FS_Interval
<1>3. order \in Bijection(Places, S)
  BY <1>1 DEF Bijection, Injection, Surjection, IsInjective
<1>4. IsFiniteSet(S) /\ Cardinality(S) = n
  <2>1. ExistsBijection(Places, S)
    BY <1>3 DEF ExistsBijection
  <2>2. QED
    BY <1>2, <2>1, FS_Bijection
<1>5. QED
  BY <1>1, <1>3, <1>4 DEF Lines

LEMMA LineIsEnumeration ==
  ASSUME NEW S, IsFiniteSet(S), NEW order \in Lines(S)
  PROVE  /\ Cardinality(S) \in Nat
         /\ order \in [1 .. Cardinality(S) -> S]
         /\ Len(order) = Cardinality(S) /\ DOMAIN order = 1 .. Cardinality(S)
         /\ \A i, j \in 1 .. Cardinality(S) : order[i] = order[j] => i = j
         /\ \A x \in S : \E i \in 1 .. Cardinality(S) : order[i] = x
<1>1. Cardinality(S) \in Nat
  BY FS_CardinalityType
<1>2. order \in Bijection(1 .. Cardinality(S), S)
  BY DEF Lines
<1>3. /\ order \in [1 .. Cardinality(S) -> S]
      /\ \A i, j \in 1 .. Cardinality(S) : order[i] = order[j] => i = j
      /\ \A x \in S : \E i \in 1 .. Cardinality(S) : order[i] = x
  BY <1>2 DEF Bijection, Injection, Surjection, IsInjective
<1>4. QED
  BY <1>1, <1>3

\* The definition, without sets of operations that took effect.
LEMMA LinearizableWitness ==
  ASSUME NEW start, NEW ops, NEW pre, IsFiniteSet(DOMAIN ops)
  PROVE  LinearizableFrom(start, ops, pre) <=>
           \E n, order : Accounts(order, n, start, ops, pre)
<1>1. ASSUME LinearizableFrom(start, ops, pre)
      PROVE  \E n, order : Accounts(order, n, start, ops, pre)
  <2>1. PICK unfinished \in SUBSET (DOMAIN ops \ Completed(ops)) :
          \E order \in Lines(Completed(ops) \cup unfinished) : Explains(start, ops, pre, order)
    BY <1>1 DEF LinearizableFrom
  <2>2. PICK S \in SUBSET DOMAIN ops : S = Completed(ops) \cup unfinished
    BY DEF Completed
  <2>3. PICK order \in Lines(S) : Explains(start, ops, pre, order)
    BY <2>1, <2>2
  <2>4. IsFiniteSet(S)
    BY FS_Subset
  <2>5. PICK n : n = Cardinality(S)
    OBVIOUS
  <2>6. /\ n \in Nat /\ order \in [1 .. n -> S] /\ Len(order) = n
        /\ \A i, j \in 1 .. n : order[i] = order[j] => i = j
        /\ \A x \in S : \E i \in 1 .. n : order[i] = x
    BY <2>4, <2>5, LineIsEnumeration
  <2>7. \A o \in DOMAIN ops : ops[o].completed => \E i \in 1 .. n : order[i] = o
    BY <2>2, <2>6 DEF Completed
  <2>8. order \in [1 .. n -> DOMAIN ops]
    BY <2>6
  <2>9. /\ \A i, j \in 1 .. n : i < j => order[j] \notin pre[order[i]]
        /\ \A i \in 1 .. n : Matches(ops[order[i]], StatesAlong(start, ops, order)[i-1])
    BY <2>3, <2>6 DEF Explains
  <2>10. Accounts(order, n, start, ops, pre)
    BY <2>6, <2>7, <2>8, <2>9 DEF Accounts, Lawful
  <2>11. QED
    BY <2>10
<1>2. ASSUME NEW n, NEW order, Accounts(order, n, start, ops, pre)
      PROVE  LinearizableFrom(start, ops, pre)
  <2>0. /\ n \in Nat /\ order \in [1 .. n -> DOMAIN ops]
        /\ \A i, j \in 1 .. n : order[i] = order[j] => i = j
        /\ \A o \in DOMAIN ops : ops[o].completed => \E i \in 1 .. n : order[i] = o
        /\ \A i, j \in 1 .. n : i < j => order[j] \notin pre[order[i]]
        /\ \A i \in 1 .. n : Matches(ops[order[i]], StatesAlong(start, ops, order)[i-1])
    BY <1>2 DEF Accounts, Lawful
  <2>1. PICK S : S = {o \in DOMAIN ops : \E i \in 1 .. n : order[i] = o}
    OBVIOUS
  <2>2. order \in Lines(S) /\ Len(order) = n
    <3>1. order \in [1 .. n -> S] /\ \A x \in S : \E i \in 1 .. n : order[i] = x
      BY <2>0, <2>1
    <3>2. order \in Lines(S)
      BY <2>0, <3>1, EnumerationIsLine
    <3>3. QED
      BY <2>0, <3>2
  <2>3. S \ Completed(ops) \in SUBSET (DOMAIN ops \ Completed(ops))
    BY <2>1
  <2>4. Completed(ops) \cup (S \ Completed(ops)) = S
    <3>1. Completed(ops) \subseteq S
      BY <2>0, <2>1 DEF Completed
    <3>2. QED
      BY <3>1
  <2>5. Explains(start, ops, pre, order)
    BY <2>0, <2>2 DEF Explains
  <2>6. QED
    BY <2>2, <2>3, <2>4, <2>5 DEF LinearizableFrom
<1>3. QED
  BY <1>1, <1>2

\* What is left of a history when some operations are in place.
Left(ops, placed) == [i \in DOMAIN ops \ placed |-> ops[i]]

\* What comes first: an operation that nothing else that is left came before.
Foremost(ops, pre, placed, i) ==
  /\ i \in DOMAIN ops \ placed
  /\ \A j \in DOMAIN ops \ (placed \cup {i}) : j \notin pre[i]

\* When every completed operation is in place there is nothing left to explain.
LEMMA AllPlaced ==
  ASSUME NEW start, NEW ops, NEW pre, IsFiniteSet(DOMAIN ops), NEW placed,
         Completed(ops) \subseteq placed
  PROVE  LinearizableFrom(start, Left(ops, placed), pre)
<1>1. PICK left : left = Left(ops, placed)
  OBVIOUS
<1>2. DOMAIN left = DOMAIN ops \ placed /\ \A o \in DOMAIN left : left[o] = ops[o]
  BY <1>1 DEF Left
<1>3. IsFiniteSet(DOMAIN left)
  BY <1>2, FS_Subset
<1>4. \A o \in DOMAIN left : ~ left[o].completed
  BY <1>2 DEF Completed
<1>5. PICK none : none = [i \in 1 .. 0 |-> 0]
  OBVIOUS
<1>6. Accounts(none, 0, start, left, pre)
  BY <1>4, <1>5 DEF Accounts, Lawful
<1>7. LinearizableFrom(start, left, pre)
  BY <1>3, <1>6, LinearizableWitness
<1>8. QED
  BY <1>1, <1>7

\* What is foremost, and fits, may be put before an order of the rest.
LEMMA PutFirst ==
  ASSUME NEW start, NEW ops, NEW pre, IsFiniteSet(DOMAIN ops), NEW placed,
         NEW i, Foremost(ops, pre, placed, i), Matches(ops[i], start),
         LinearizableFrom(NextState(start, ops[i]), Left(ops, placed \cup {i}), pre)
  PROVE  LinearizableFrom(start, Left(ops, placed), pre)
<1>1. PICK left, rest : left = Left(ops, placed) /\ rest = Left(ops, placed \cup {i})
  OBVIOUS
<1>2. /\ DOMAIN left = DOMAIN ops \ placed /\ DOMAIN rest = DOMAIN ops \ (placed \cup {i})
      /\ \A o \in DOMAIN left : left[o] = ops[o]
      /\ \A o \in DOMAIN rest : rest[o] = ops[o]
  BY <1>1 DEF Left
<1>3. i \in DOMAIN left /\ \A j \in DOMAIN rest : j \notin pre[i]
  BY <1>2 DEF Foremost
<1>4. IsFiniteSet(DOMAIN left) /\ IsFiniteSet(DOMAIN rest)
  BY <1>2, FS_Subset
<1>5. PICK n, order : Accounts(order, n, NextState(start, left[i]), rest, pre)
  BY <1>1, <1>2, <1>3, <1>4, LinearizableWitness
<1>6. /\ n \in Nat /\ order \in [1 .. n -> DOMAIN rest] /\ Len(order) = n
      /\ \A j, l \in 1 .. n : order[j] = order[l] => j = l
      /\ \A o \in DOMAIN rest : rest[o].completed => \E j \in 1 .. n : order[j] = o
      /\ \A j, l \in 1 .. n : j < l => order[l] \notin pre[order[j]]
  BY <1>5 DEF Accounts, Lawful
<1>7. PICK line : line = [j \in 1 .. n + 1 |-> IF j = 1 THEN i ELSE order[j-1]]
  OBVIOUS
<1>8. /\ line[1] = i
      /\ \A j \in 1 .. n : j + 1 \in 1 .. n + 1 /\ line[j+1] = order[j]
      /\ \A j \in 1 .. n + 1 : j # 1 => j - 1 \in 1 .. n /\ line[j] = order[j-1]
  BY <1>6, <1>7
<1>9. line \in [1 .. n + 1 -> DOMAIN left] /\ Len(line) = n + 1
  <2>1. \A j \in 1 .. n + 1 : line[j] \in DOMAIN left
    BY <1>2, <1>3, <1>6, <1>8
  <2>2. QED
    BY <1>6, <1>7, <2>1
<1>10. /\ StatesAlong(start, left, line)[0] = start
       /\ StatesAlong(start, left, line)[1] = NextState(start, left[i])
       /\ \A p \in 0 .. n : StatesAlong(NextState(start, left[i]), rest, order)[p] =
                             StatesAlong(start, left, line)[1+p]
  <2>1. n + 1 \in Nat /\ 1 \in 1 .. n + 1
    BY <1>6
  <2>2. /\ StatesAlong(start, left, line)[0] = start
        /\ StatesAlong(start, left, line)[1] = NextState(StatesAlong(start, left, line)[1-1], left[line[1]])
    BY <1>9, <2>1, StatesUnfold
  <2>3. StatesAlong(start, left, line)[1] = NextState(start, left[i])
    BY <1>8, <2>2
  <2>4. \A p \in 1 .. n : SameEffect(left[line[1+p]], rest[order[p]])
    <3> SUFFICES ASSUME NEW p \in 1 .. n PROVE SameEffect(left[line[1+p]], rest[order[p]])
      OBVIOUS
    <3>1. 1 + p = p + 1 /\ order[p] \in DOMAIN rest /\ order[p] \in DOMAIN left
      BY <1>2, <1>6
    <3>2. left[line[1+p]] = rest[order[p]]
      BY <1>2, <1>8, <3>1
    <3>3. QED
      BY <3>2 DEF SameEffect
  <2>5. \A p \in 0 .. n : StatesAlong(StatesAlong(start, left, line)[1], rest, order)[p] =
                          StatesAlong(start, left, line)[1+p]
    <3>1. PICK d : d = 1
      OBVIOUS
    <3>2. /\ d + n <= Len(line) /\ n <= Len(order) /\ d \in Nat /\ n \in Nat
          /\ Len(line) \in Nat /\ Len(order) \in Nat
      BY <1>6, <1>9, <3>1
    <3>3. \A p \in 1 .. n : SameEffect(left[line[d+p]], rest[order[p]])
      BY <2>4, <3>1
    <3>4. Parallel(left, line, d, rest, order, n)
      BY <3>2, <3>3 DEF Parallel
    <3>5. \A p \in 0 .. n : StatesAlong(StatesAlong(start, left, line)[d], rest, order)[p] =
                            StatesAlong(start, left, line)[d+p]
      BY <3>4, SameStates
    <3>6. QED
      BY <3>1, <3>5
  <2>6. QED
    BY <2>2, <2>3, <2>5
<1>11. ASSUME NEW j \in 1 .. n + 1 PROVE Matches(left[line[j]], StatesAlong(start, left, line)[j-1])
  <2>1. CASE j = 1
    <3>1. left[line[j]] = ops[i] /\ StatesAlong(start, left, line)[j-1] = start
      BY <1>2, <1>3, <1>8, <1>10, <2>1
    <3>2. QED
      BY <3>1
  <2>2. CASE j # 1
    <3>1. PICK p \in 1 .. n : j = p + 1 /\ line[j] = order[p]
      BY <1>6, <1>8, <2>2
    <3>2. p - 1 \in 0 .. n /\ 1 + (p - 1) = j - 1 /\ order[p] \in DOMAIN rest
      BY <1>6, <3>1
    <3>3. StatesAlong(start, left, line)[j-1] = StatesAlong(NextState(start, left[i]), rest, order)[p-1]
      BY <1>10, <3>2
    <3>4. Matches(rest[order[p]], StatesAlong(NextState(start, left[i]), rest, order)[p-1])
      BY <1>5 DEF Accounts, Lawful
    <3>5. left[line[j]] = rest[order[p]]
      BY <1>2, <3>1, <3>2
    <3>6. QED
      BY <3>3, <3>4, <3>5
  <2>3. QED
    BY <2>1, <2>2
<1>12. ASSUME NEW j \in 1 .. n + 1, NEW l \in 1 .. n + 1, j < l
       PROVE  line[l] \notin pre[line[j]] /\ line[l] # line[j]
  <2>1. l # 1 /\ l - 1 \in 1 .. n /\ line[l] = order[l-1] /\ line[l] \in DOMAIN rest
    BY <1>6, <1>8, <1>12
  <2>2. CASE j = 1
    BY <1>2, <1>3, <1>8, <2>1, <2>2
  <2>3. CASE j # 1
    <3>1. j - 1 \in 1 .. n /\ line[j] = order[j-1] /\ j - 1 < l - 1 /\ j - 1 # l - 1
      BY <1>6, <1>8, <1>12, <2>3
    <3>2. QED
      BY <1>6, <2>1, <3>1
  <2>4. QED
    BY <2>2, <2>3
<1>13. \A j, l \in 1 .. n + 1 : line[j] = line[l] => j = l
  <2> SUFFICES ASSUME NEW j \in 1 .. n + 1, NEW l \in 1 .. n + 1, line[j] = line[l], j # l
               PROVE  FALSE
    OBVIOUS
  <2>1. j < l \/ l < j
    BY <1>6
  <2>2. QED
    BY <1>12, <2>1
<1>14. ASSUME NEW o \in DOMAIN left, left[o].completed PROVE \E j \in 1 .. n + 1 : line[j] = o
  <2>1. CASE o = i
    <3>1. 1 \in 1 .. n + 1
      BY <1>6
    <3>2. QED
      BY <1>8, <2>1, <3>1
  <2>2. CASE o # i
    <3>1. o \in DOMAIN rest /\ rest[o].completed
      BY <1>2, <1>14, <2>2
    <3>2. PICK j \in 1 .. n : order[j] = o
      BY <1>6, <3>1
    <3>3. QED
      BY <1>8, <3>2
  <2>3. QED
    BY <2>1, <2>2
<1>15. Accounts(line, n + 1, start, left, pre)
  <2>1. n + 1 \in Nat
    BY <1>6
  <2>2. QED
    BY <1>9, <1>11, <1>12, <1>13, <1>14, <2>1 DEF Accounts, Lawful
<1>16. LinearizableFrom(start, left, pre)
  BY <1>4, <1>15, LinearizableWitness
<1>17. QED
  BY <1>1, <1>16

\* An order that explains what is left begins with something foremost that fits.
LEMMA TakeFirst ==
  ASSUME NEW start, NEW ops, NEW pre, IsFiniteSet(DOMAIN ops), NEW placed,
         \A o \in DOMAIN ops : \A j \in DOMAIN ops : j \in pre[o] => ops[j].completed,
         ~ Completed(ops) \subseteq placed,
         LinearizableFrom(start, Left(ops, placed), pre)
  PROVE  \E i : /\ Foremost(ops, pre, placed, i) /\ Matches(ops[i], start)
                /\ LinearizableFrom(NextState(start, ops[i]), Left(ops, placed \cup {i}), pre)
<1>1. PICK left : left = Left(ops, placed)
  OBVIOUS
<1>2. DOMAIN left = DOMAIN ops \ placed /\ \A o \in DOMAIN left : left[o] = ops[o]
  BY <1>1 DEF Left
<1>3. IsFiniteSet(DOMAIN left)
  BY <1>2, FS_Subset
<1>4. PICK n, order : Accounts(order, n, start, left, pre)
  BY <1>1, <1>3, LinearizableWitness
<1>5. /\ n \in Nat /\ order \in [1 .. n -> DOMAIN left] /\ Len(order) = n
      /\ \A j, l \in 1 .. n : order[j] = order[l] => j = l
      /\ \A o \in DOMAIN left : left[o].completed => \E j \in 1 .. n : order[j] = o
      /\ \A j, l \in 1 .. n : j < l => order[l] \notin pre[order[j]]
      /\ \A j \in 1 .. n : Matches(left[order[j]], StatesAlong(start, left, order)[j-1])
  BY <1>4 DEF Accounts, Lawful
<1>6. n # 0
  <2>1. PICK o \in DOMAIN left : left[o].completed
    BY <1>2 DEF Completed
  <2>2. PICK j \in 1 .. n : order[j] = o
    BY <1>5, <2>1
  <2>3. QED
    BY <1>5, <2>2
<1>7. PICK m \in Nat : n = m + 1 /\ m = n - 1
  BY <1>5, <1>6
<1>8. 1 \in 1 .. n /\ \A j \in 1 .. m : j + 1 \in 1 .. n /\ 1 < j + 1
  BY <1>7
<1>9. PICK i : i = order[1]
  OBVIOUS
<1>10. i \in DOMAIN left /\ left[i] = ops[i]
  BY <1>2, <1>5, <1>8, <1>9
<1>11. Foremost(ops, pre, placed, i)
  <2> SUFFICES ASSUME NEW j \in DOMAIN ops \ (placed \cup {i}), j \in pre[i] PROVE FALSE
    BY <1>2, <1>10 DEF Foremost
  <2>1. j \in DOMAIN left /\ left[j].completed
    BY <1>2, <1>10
  <2>2. PICK l \in 1 .. n : order[l] = j
    BY <1>5, <2>1
  <2>3. l # 1 /\ 1 < l
    BY <1>5, <1>9, <2>2
  <2>4. QED
    BY <1>5, <1>8, <1>9, <2>2, <2>3
<1>12. StatesAlong(start, left, order)[0] = start
       /\ StatesAlong(start, left, order)[1] = NextState(start, left[i])
  <2>1. /\ StatesAlong(start, left, order)[0] = start
        /\ StatesAlong(start, left, order)[1] =
             NextState(StatesAlong(start, left, order)[1-1], left[order[1]])
    BY <1>5, <1>8, StatesUnfold
  <2>2. QED
    BY <1>9, <2>1
<1>13. Matches(ops[i], start)
  <2>1. Matches(left[order[1]], StatesAlong(start, left, order)[1-1])
    BY <1>5, <1>8
  <2>2. QED
    BY <1>9, <1>10, <1>12, <2>1
<1>14. PICK rest : rest = Left(ops, placed \cup {i})
  OBVIOUS
<1>15. /\ DOMAIN rest = DOMAIN left \ {i} /\ IsFiniteSet(DOMAIN rest)
       /\ \A o \in DOMAIN rest : rest[o] = left[o]
  <2>1. DOMAIN rest = DOMAIN left \ {i} /\ \A o \in DOMAIN rest : rest[o] = left[o]
    BY <1>2, <1>14 DEF Left
  <2>2. QED
    BY <1>3, <2>1, FS_Subset
<1>16. PICK line : line = [j \in 1 .. m |-> order[j+1]]
  OBVIOUS
<1>17. line \in [1 .. m -> DOMAIN rest] /\ Len(line) = m /\ \A j \in 1 .. m : line[j] = order[j+1]
  <2>1. \A j \in 1 .. m : order[j+1] \in DOMAIN rest
    <3> SUFFICES ASSUME NEW j \in 1 .. m PROVE order[j+1] \in DOMAIN rest
      OBVIOUS
    <3>1. j + 1 \in 1 .. n /\ j + 1 # 1
      BY <1>8
    <3>2. order[j+1] \in DOMAIN left /\ order[j+1] # i
      BY <1>5, <1>8, <1>9, <3>1
    <3>3. QED
      BY <1>15, <3>2
  <2>2. QED
    BY <1>7, <1>16, <2>1
<1>18. \A p \in 0 .. m : StatesAlong(NextState(start, left[i]), rest, line)[p] =
                         StatesAlong(start, left, order)[1+p]
  <2>1. \A p \in 1 .. m : SameEffect(left[order[1+p]], rest[line[p]])
    <3> SUFFICES ASSUME NEW p \in 1 .. m PROVE SameEffect(left[order[1+p]], rest[line[p]])
      OBVIOUS
    <3>1. 1 + p = p + 1 /\ line[p] \in DOMAIN rest
      BY <1>17
    <3>2. left[order[1+p]] = rest[line[p]]
      BY <1>15, <1>17, <3>1
    <3>3. QED
      BY <3>2 DEF SameEffect
  <2>2. PICK d : d = 1
    OBVIOUS
  <2>3. \A p \in 0 .. m : StatesAlong(StatesAlong(start, left, order)[d], rest, line)[p] =
                          StatesAlong(start, left, order)[d+p]
    <3>1. /\ d + m <= Len(order) /\ m <= Len(line) /\ d \in Nat /\ m \in Nat
          /\ Len(line) \in Nat /\ Len(order) \in Nat
      BY <1>5, <1>7, <1>17, <2>2
    <3>2. \A p \in 1 .. m : SameEffect(left[order[d+p]], rest[line[p]])
      BY <2>1, <2>2
    <3>3. Parallel(left, order, d, rest, line, m)
      BY <3>1, <3>2 DEF Parallel
    <3>4. QED
      BY <3>3, SameStates
  <2>4. QED
    BY <1>12, <2>2, <2>3
<1>19. Accounts(line, m, NextState(start, left[i]), rest, pre)
  <2>1. \A j, l \in 1 .. m : line[j] = line[l] => j = l
    <3> SUFFICES ASSUME NEW j \in 1 .. m, NEW l \in 1 .. m, line[j] = line[l] PROVE j = l
      OBVIOUS
    <3>1. PICK a, b : a = j + 1 /\ b = l + 1
      OBVIOUS
    <3>2. a \in 1 .. n /\ b \in 1 .. n /\ order[a] = order[b]
      BY <1>8, <1>17, <3>1
    <3>3. a = b
      BY <1>5, <3>2
    <3>4. QED
      BY <3>1, <3>3
  <2>2. ASSUME NEW o \in DOMAIN rest, rest[o].completed PROVE \E j \in 1 .. m : line[j] = o
    <3>1. o \in DOMAIN left /\ left[o].completed /\ o # i
      BY <1>15, <2>2
    <3>2. PICK l \in 1 .. n : order[l] = o
      BY <1>5, <3>1
    <3>3. l # 1
      BY <1>9, <3>1, <3>2
    <3>4. l - 1 \in 1 .. m /\ l = (l - 1) + 1
      BY <1>7, <3>3
    <3>5. QED
      BY <1>17, <3>2, <3>4
  <2>3. ASSUME NEW j \in 1 .. m, NEW l \in 1 .. m, j < l PROVE line[l] \notin pre[line[j]]
    <3>1. j + 1 \in 1 .. n /\ l + 1 \in 1 .. n /\ j + 1 < l + 1
      BY <1>8, <2>3
    <3>2. QED
      BY <1>5, <1>17, <3>1
  <2>4. ASSUME NEW j \in 1 .. m
        PROVE  Matches(rest[line[j]], StatesAlong(NextState(start, left[i]), rest, line)[j-1])
    <3>1. j + 1 \in 1 .. n /\ j - 1 \in 0 .. m /\ 1 + (j - 1) = (j + 1) - 1 /\ line[j] \in DOMAIN rest
      BY <1>8, <1>17
    <3>2. Matches(left[order[j+1]], StatesAlong(start, left, order)[(j+1)-1])
      BY <1>5, <3>1
    <3>3. left[order[j+1]] = rest[line[j]]
      BY <1>15, <1>17, <3>1
    <3>4. StatesAlong(start, left, order)[(j+1)-1] =
            StatesAlong(NextState(start, left[i]), rest, line)[j-1]
      BY <1>18, <3>1
    <3>5. QED
      BY <3>2, <3>3, <3>4
  <2>5. QED
    BY <1>17, <2>1, <2>2, <2>3, <2>4 DEF Accounts, Lawful
<1>20. LinearizableFrom(NextState(start, ops[i]), Left(ops, placed \cup {i}), pre)
  BY <1>10, <1>14, <1>15, <1>19, LinearizableWitness
<1>21. QED
  BY <1>11, <1>13, <1>20

\* The first m operations of order account for the history others: it has them,
\* with the same outcome where it knows one, and knows of no other outcome.
Suffices(order, m, ops, pre, others, pre2) ==
  /\ \A i \in 1 .. m :
       /\ order[i] \in DOMAIN others /\ SameEffect(ops[order[i]], others[order[i]])
       /\ others[order[i]].completed =>
            ops[order[i]].completed /\ others[order[i]].result = ops[order[i]].result
  /\ \A o \in DOMAIN others : others[o].completed => \E i \in 1 .. m : order[i] = o
  /\ \A i, j \in 1 .. m : order[j] \in pre2[order[i]] => order[j] \in pre[order[i]]

LEMMA CarryOver ==
  ASSUME NEW start, NEW ops, NEW pre, NEW n, NEW order, Lawful(order, n, start, ops, pre),
         NEW m \in 0 .. n, NEW others, NEW pre2, Suffices(order, m, ops, pre, others, pre2)
  PROVE  \E line : Accounts(line, m, start, others, pre2)
<1>1. /\ n \in Nat /\ order \in [1 .. n -> DOMAIN ops] /\ Len(order) = n /\ m \in Nat /\ m <= n
      /\ \A i, j \in 1 .. n : order[i] = order[j] => i = j
      /\ \A i, j \in 1 .. n : i < j => order[j] \notin pre[order[i]]
      /\ \A i \in 1 .. n : Matches(ops[order[i]], StatesAlong(start, ops, order)[i-1])
  BY DEF Lawful
<1>2. \A i \in 1 .. m : i \in 1 .. n
  BY <1>1
<1>3. PICK line : line = [i \in 1 .. m |-> order[i]]
  OBVIOUS
<1>4. /\ line \in [1 .. m -> DOMAIN others] /\ Len(line) = m
      /\ \A i \in 1 .. m : line[i] = order[i]
  BY <1>1, <1>3 DEF Suffices
<1>5. \A p \in 0 .. m : StatesAlong(start, others, line)[p] = StatesAlong(start, ops, order)[p]
  <2>1. PICK d : d = 0
    OBVIOUS
  <2>2. \A p \in 0 .. m : d + p = p
    BY <2>1
  <2>3. \A p \in 1 .. m : SameEffect(ops[order[d+p]], others[line[p]])
    <3> SUFFICES ASSUME NEW p \in 1 .. m PROVE SameEffect(ops[order[d+p]], others[line[p]])
      OBVIOUS
    <3>1. d + p = p /\ line[p] = order[p]
      BY <1>4, <2>1
    <3>2. SameEffect(ops[order[p]], others[order[p]])
      BY DEF Suffices
    <3>3. QED
      BY <3>1, <3>2
  <2>4. Parallel(ops, order, d, others, line, m)
    BY <1>1, <1>4, <2>1, <2>3 DEF Parallel
  <2>5. \A p \in 0 .. m : StatesAlong(StatesAlong(start, ops, order)[d], others, line)[p] =
                          StatesAlong(start, ops, order)[d+p]
    BY <2>4, SameStates
  <2>6. StatesAlong(start, ops, order)[0] = start
    BY <1>1, StatesUnfold
  <2>7. QED
    BY <2>1, <2>2, <2>5, <2>6
<1>6. ASSUME NEW i \in 1 .. m PROVE Matches(others[line[i]], StatesAlong(start, others, line)[i-1])
  <2>1. i \in 1 .. n /\ i - 1 \in 0 .. m /\ line[i] = order[i]
    BY <1>1, <1>2, <1>4
  <2>2. Matches(ops[order[i]], StatesAlong(start, ops, order)[i-1])
    BY <1>1, <2>1
  <2>3. StatesAlong(start, others, line)[i-1] = StatesAlong(start, ops, order)[i-1]
    BY <1>5, <2>1
  <2>4. /\ SameEffect(ops[order[i]], others[order[i]])
        /\ others[order[i]].completed =>
             ops[order[i]].completed /\ others[order[i]].result = ops[order[i]].result
    BY DEF Suffices
  <2>5. Matches(others[order[i]], StatesAlong(start, ops, order)[i-1])
    BY <2>2, <2>4 DEF Matches, SameEffect, Produced
  <2>6. QED
    BY <2>1, <2>3, <2>5
<1>7. \A i, j \in 1 .. m : line[i] = line[j] => i = j
  BY <1>1, <1>2, <1>4
<1>8. \A i, j \in 1 .. m : i < j => line[j] \notin pre2[line[i]]
  BY <1>1, <1>2, <1>4 DEF Suffices
<1>9. \A o \in DOMAIN others : others[o].completed => \E i \in 1 .. m : line[i] = o
  BY <1>4 DEF Suffices
<1>10. Accounts(line, m, start, others, pre2)
  BY <1>1, <1>4, <1>6, <1>7, <1>8, <1>9 DEF Accounts, Lawful
<1>11. QED
  BY <1>10
=============================================================================
