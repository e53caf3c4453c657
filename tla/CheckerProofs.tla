--------------------------- MODULE CheckerProofs ---------------------------
(***************************************************************************)
(* The checker is right, for every history and every budget: what its memo *)
(* prunes is hopeless, a verdict given one key at a time holds of the      *)
(* whole history, and nothing that returned before the operation it blames *)
(* breaks the history.                                                     *)
(***************************************************************************)
EXTENDS Checker, RegisterProofs, SequenceTheorems

-----------------------------------------------------------------------------
(* Numbers and sequences.                                                  *)

LEMMA LeastOf ==
  ASSUME NEW S \in SUBSET Nat, S # {}
  PROVE  Min(S) \in S /\ \A n \in S : Min(S) <= n
BY LeastNatural DEF Min

\* Numbers that have a bound have a greatest one.
LEMMA GreatestNatural ==
  ASSUME NEW bound \in Nat, NEW S \in SUBSET (0 .. bound), S # {}
  PROVE  \E n \in S : \A m \in S : m <= n
<1> DEFINE Short == {n \in 0 .. bound : bound - n \in S}
<1>1. Short \in SUBSET Nat /\ Short # {}
  <2>1. PICK m \in S : TRUE
    OBVIOUS
  <2>2. PICK n \in 0 .. bound : n = bound - m /\ bound - n = m
    OBVIOUS
  <2>3. n \in Short
    BY <2>2
  <2>4. Short \in SUBSET Nat
    OBVIOUS
  <2>5. QED
    BY <2>3, <2>4
<1>2. \A m \in S : bound - m \in Short
  <2> SUFFICES ASSUME NEW m \in S PROVE bound - m \in Short
    OBVIOUS
  <2>1. bound - m \in 0 .. bound /\ bound - (bound - m) = m
    OBVIOUS
  <2>2. QED
    BY <2>1
<1>3. \A n \in Short : n \in 0 .. bound /\ bound - n \in S
  OBVIOUS
<1> HIDE DEF Short
<1>4. PICK n \in Short : \A m \in Short : n <= m
  BY <1>1, LeastNatural
<1>5. \A m \in S : m <= bound - n
  <2> SUFFICES ASSUME NEW m \in S PROVE m <= bound - n
    OBVIOUS
  <2>1. n <= bound - m
    BY <1>2, <1>4
  <2>2. QED
    BY <1>3, <2>1
<1>6. QED
  BY <1>3, <1>5

LEMMA FrontOf ==
  ASSUME NEW S, NEW s \in Seq(S), s # <<>>
  PROVE  /\ Front(s) \in Seq(S) /\ Len(Front(s)) = Len(s) - 1
         /\ \A d \in 1 .. Len(s) - 1 : Front(s)[d] = s[d]
         /\ Last(s) = s[Len(s)] /\ Last(s) \in S /\ Len(s) \in Nat \ {0}
<1>1. Len(s) \in Nat \ {0} /\ s \in [1 .. Len(s) -> S]
  BY EmptySeq
<1>2. Last(s) = s[Len(s)] /\ Last(s) \in S
  BY <1>1 DEF Last
<1>3. PICK n, one : n = Len(s) - 1 /\ one = 1
  OBVIOUS
<1>4. n \in Int /\ one \in Int /\ \A d \in one .. n : s[d] \in S
  BY <1>1, <1>3
<1>5. /\ SubSeq(s, one, n) \in Seq(S)
      /\ Len(SubSeq(s, one, n)) = IF one <= n THEN n - one + 1 ELSE 0
      /\ \A d \in 1 .. n - one + 1 : SubSeq(s, one, n)[d] = s[one+d-1]
  BY <1>4, SubSeqProperties
<1>6. Len(SubSeq(s, one, n)) = n
  BY <1>1, <1>3, <1>5
<1>7. \A d \in 1 .. n : d \in 1 .. n - one + 1 /\ one + d - 1 = d
  BY <1>1, <1>3
<1>8. \A d \in 1 .. n : SubSeq(s, one, n)[d] = s[d]
  BY <1>5, <1>7
<1>9. QED
  BY <1>1, <1>2, <1>3, <1>5, <1>6, <1>8 DEF Front

\* A sequence whose last element is another one.
LEMMA LastReplaced ==
  ASSUME NEW S, NEW s \in Seq(S), s # <<>>, NEW e \in S
  PROVE  /\ Append(Front(s), e) \in Seq(S) /\ Len(Append(Front(s), e)) = Len(s)
         /\ Append(Front(s), e)[Len(s)] = e
         /\ \A d \in 1 .. Len(s) - 1 : Append(Front(s), e)[d] = s[d]
         /\ Last(s) = s[Len(s)] /\ Last(s) \in S /\ Len(s) \in Nat \ {0}
<1>1. PICK front \in Seq(S) : front = Front(s)
  BY FrontOf
<1>2. /\ Len(front) = Len(s) - 1 /\ \A d \in 1 .. Len(s) - 1 : front[d] = s[d]
      /\ Last(s) = s[Len(s)] /\ Last(s) \in S /\ Len(s) \in Nat \ {0}
  BY <1>1, FrontOf
<1>3. /\ Append(front, e) \in Seq(S) /\ Len(Append(front, e)) = Len(s)
      /\ Append(front, e)[Len(s)] = e
      /\ \A d \in 1 .. Len(s) - 1 : Append(front, e)[d] = front[d]
  BY <1>2
<1>4. QED
  BY <1>1, <1>2, <1>3

-----------------------------------------------------------------------------
(* Histories.                                                              *)

\* An operation did not return before it was invoked.
Timed(o) == o \in Operations /\ (o.completed => o.invoked <= o.returned)

\* Some operations of a history, by index.
Recorded(operations) ==
  /\ IsFiniteSet(DOMAIN operations) /\ DOMAIN operations \subseteq Nat
  /\ operations = [i \in DOMAIN operations |-> operations[i]]
  /\ \A i \in DOMAIN operations : Timed(operations[i])

HistoryInv ==
  /\ now \in 0 .. Horizon
  /\ history \in Seq(Operations) /\ Len(history) <= MaxOps
  /\ \A i \in DOMAIN history : Timed(history[i]) /\ history[i].invoked <= now
  /\ pending \in [Clients -> 0 .. Len(history)]

LEMMA TimesOf ==
  ASSUME NEW o, Timed(o)
  PROVE  /\ o.invoked \in 0 .. Horizon /\ o.completed \in BOOLEAN /\ o.key \in Keys
         /\ o.completed => o.returned \in 0 .. Horizon /\ o.returned # Never /\ o.invoked <= o.returned
BY BoundsAssumption DEF Timed, Operations, Never

LEMMA HistoryStart == Init => HistoryInv
<1> SUFFICES ASSUME Init PROVE HistoryInv
  OBVIOUS
<1>1. DOMAIN history = {} /\ Len(history) = 0 /\ history \in Seq(Operations)
  BY DEF Init
<1>2. now \in 0 .. Horizon /\ Len(history) <= MaxOps
  BY <1>1, BoundsAssumption DEF Init
<1>3. pending \in [Clients -> 0 .. Len(history)]
  BY <1>1 DEF Init
<1>4. QED
  BY <1>1, <1>2, <1>3 DEF HistoryInv

LEMMA InvokeKeepsHistory ==
  ASSUME HistoryInv, NEW c \in Clients, NEW t \in now .. Horizon, NEW what \in Repertoire,
         Invoke(c, what, t)
  PROVE  HistoryInv'
<1> DEFINE o == [kind |-> what.kind, key |-> what.key, argument |-> what.argument,
                 expected |-> what.expected, invoked |-> t, returned |-> Never,
                 completed |-> FALSE, result |-> None]
<1>1. /\ now \in 0 .. Horizon /\ Horizon \in Nat /\ MaxOps \in Nat
      /\ history \in Seq(Operations) /\ Len(history) <= MaxOps /\ Len(history) < MaxOps
      /\ pending \in [Clients -> 0 .. Len(history)]
      /\ now' = t /\ history' = Append(history, o)
      /\ pending' = [pending EXCEPT ![c] = Len(history) + 1]
  BY BoundsAssumption DEF HistoryInv, Invoke, Record
<1>2. t \in 0 .. Horizon /\ now <= t
  BY <1>1
<1>3. Timed(o) /\ o.invoked = t
  <2>1. what \in [kind : Kinds, key : Keys, argument : Values \cup {None},
                  expected : Values \cup {None}]
    BY RepertoireAssumption
  <2>2. o \in Operations
    BY <1>2, <2>1 DEF Operations
  <2>3. QED
    BY <2>2 DEF Timed
<1> HIDE DEF o
<1>4. o \in Operations
  BY <1>3 DEF Timed
<1>5. /\ history' \in Seq(Operations) /\ Len(history') = Len(history) + 1
      /\ DOMAIN history' = 1 .. Len(history) + 1 /\ DOMAIN history = 1 .. Len(history)
      /\ \A i \in 1 .. Len(history) : history'[i] = history[i]
      /\ history'[Len(history) + 1] = o
  BY <1>1, <1>4
<1>6. ASSUME NEW i \in DOMAIN history' PROVE Timed(history'[i]) /\ history'[i].invoked <= now'
  <2>1. CASE i = Len(history) + 1
    BY <1>1, <1>2, <1>3, <1>5, <2>1
  <2>2. CASE i # Len(history) + 1
    <3>1. i \in DOMAIN history /\ history'[i] = history[i]
      BY <1>1, <1>5, <2>2
    <3>2. Timed(history[i]) /\ history[i].invoked <= now
      BY <3>1 DEF HistoryInv
    <3>3. history[i].invoked \in 0 .. Horizon
      BY <3>2, TimesOf
    <3>4. QED
      BY <1>1, <1>2, <3>1, <3>2, <3>3
  <2>3. QED
    BY <2>1, <2>2
<1>7. pending' \in [Clients -> 0 .. Len(history')]
  <2>1. \A d \in Clients : pending'[d] \in 0 .. Len(history')
    BY <1>1, <1>5
  <2>2. QED
    BY <1>1, <2>1
<1>8. QED
  BY <1>1, <1>2, <1>5, <1>6, <1>7 DEF HistoryInv

\* The operation that client c waits for changes.
LEMMA SettleKeepsHistory ==
  ASSUME HistoryInv, NEW c \in Clients, NEW t \in now .. Horizon, NEW o,
         pending[c] # 0, now' = t,
         Timed(history[pending[c]]) /\ history[pending[c]].invoked <= t =>
           Timed(o) /\ o.invoked <= t,
         history' = [history EXCEPT ![pending[c]] = o],
         pending' = [pending EXCEPT ![c] = 0]
  PROVE  HistoryInv'
<1>1. /\ now \in 0 .. Horizon /\ Horizon \in Nat
      /\ history \in Seq(Operations) /\ Len(history) <= MaxOps
      /\ pending \in [Clients -> 0 .. Len(history)]
      /\ DOMAIN history = 1 .. Len(history) /\ Len(history) \in Nat
  BY BoundsAssumption DEF HistoryInv
<1>2. t \in 0 .. Horizon /\ now <= t
  BY <1>1
<1>3. pending[c] \in DOMAIN history
  BY <1>1
<1>4. ASSUME NEW i \in DOMAIN history PROVE Timed(history[i]) /\ history[i].invoked <= t
  <2>1. Timed(history[i]) /\ history[i].invoked <= now
    BY DEF HistoryInv
  <2>2. history[i].invoked \in 0 .. Horizon
    BY <2>1, TimesOf
  <2>3. QED
    BY <1>1, <1>2, <2>1, <2>2
<1>5. Timed(o) /\ o.invoked <= t
  BY <1>3, <1>4
<1>6. o \in Operations
  BY <1>5 DEF Timed
<1>7. /\ history' \in Seq(Operations) /\ Len(history') = Len(history)
      /\ DOMAIN history' = DOMAIN history
      /\ \A i \in DOMAIN history : history'[i] = IF i = pending[c] THEN o ELSE history[i]
  BY <1>1, <1>3, <1>6
<1>8. \A i \in DOMAIN history' : Timed(history'[i]) /\ history'[i].invoked <= now'
  BY <1>4, <1>5, <1>7
<1>9. pending' \in [Clients -> 0 .. Len(history')]
  <2>1. \A d \in Clients : pending'[d] \in 0 .. Len(history')
    BY <1>1, <1>7
  <2>2. QED
    BY <1>1, <2>1
<1>10. QED
  BY <1>1, <1>2, <1>7, <1>8, <1>9 DEF HistoryInv

LEMMA CompleteKeepsHistory ==
  ASSUME HistoryInv, NEW c \in Clients, NEW t \in now .. Horizon, Complete(c, t)
  PROVE  HistoryInv'
<1>1. PICK result \in Results(history[pending[c]]) :
        history' = [history EXCEPT ![pending[c]] =
          [@ EXCEPT !.returned = t, !.completed = TRUE, !.result = result]]
  BY DEF Complete
<1>2. pending[c] # 0 /\ now' = t /\ pending' = [pending EXCEPT ![c] = 0]
  BY DEF Complete, Record
<1>3. PICK p : p = history[pending[c]]
  OBVIOUS
<1>4. PICK o : o = [p EXCEPT !.returned = t, !.completed = TRUE, !.result = result]
  OBVIOUS
<1>5. history' = [history EXCEPT ![pending[c]] = o]
  BY <1>1, <1>3, <1>4
<1>6. ASSUME Timed(p), p.invoked <= t PROVE Timed(o) /\ o.invoked <= t
  <2>1. p \in Operations
    BY <1>6 DEF Timed
  <2>2. p.kind \in Kinds
    BY <2>1 DEF Operations
  <2>3. result \in Values \cup {None, 0, 1}
    <3>1. p.kind = "read" => Results(p) = Values \cup {None}
      BY DEF Results
    <3>2. p.kind = "write" => Results(p) = {None}
      BY DEF Results
    <3>3. p.kind = "cas" => Results(p) = {0, 1}
      BY DEF Results
    <3>4. p.kind = "read" \/ p.kind = "write" \/ p.kind = "cas"
      BY <2>2 DEF Kinds
    <3>5. QED
      BY <1>1, <1>3, <3>1, <3>2, <3>3, <3>4
  <2>4. t \in 0 .. Horizon
    BY BoundsAssumption DEF HistoryInv
  <2>5. o \in Operations /\ o.invoked = p.invoked /\ o.returned = t
    BY <1>4, <2>1, <2>3, <2>4 DEF Operations
  <2>6. QED
    BY <1>6, <2>5 DEF Timed
<1>7. QED
  BY <1>2, <1>3, <1>5, <1>6, SettleKeepsHistory

LEMMA GiveUpKeepsHistory ==
  ASSUME HistoryInv, NEW c \in Clients, GiveUp(c)
  PROVE  HistoryInv'
<1>1. PICK p : p = history[pending[c]]
  OBVIOUS
<1>2. PICK o : o = Unknown(p)
  OBVIOUS
<1>3. PICK t \in now .. Horizon : t = now
  BY BoundsAssumption DEF HistoryInv
<1>4. /\ pending[c] # 0 /\ now' = t /\ pending' = [pending EXCEPT ![c] = 0]
      /\ history' = [history EXCEPT ![pending[c]] = o]
  BY <1>1, <1>2, <1>3 DEF GiveUp, Record
<1>5. ASSUME Timed(p), p.invoked <= t PROVE Timed(o) /\ o.invoked <= t
  <2>1. p \in Operations
    BY <1>5 DEF Timed
  <2>2. o \in Operations /\ o.invoked = p.invoked /\ ~ o.completed
    BY <1>2, <2>1 DEF Unknown, Operations
  <2>3. QED
    BY <1>5, <2>2 DEF Timed
<1>6. QED
  BY <1>1, <1>3, <1>4, <1>5, SettleKeepsHistory

-----------------------------------------------------------------------------
(* The search.  A memo is a placement and what the register holds after it. *)

Memos(operations) == [placed : SUBSET DOMAIN operations, state : Values \cup {None}]

\* No order of the rest continues this placement.
Hopeless(operations, memo) ==
  ~ LinearizableFrom(memo.state, Left(operations, memo.placed), BeforeIn(operations))

\* What walk is called with when i is put next.
Child(operations, memo, i) ==
  [placed |-> memo.placed \cup {i}, state |-> NextState(memo.state, operations[i])]

First(operations, memo, i) == Foremost(operations, BeforeIn(operations), memo.placed, i)

Calls(operations) ==
  [placed : SUBSET DOMAIN operations, state : Values \cup {None},
   untried : SUBSET DOMAIN operations]

\* A call of walk: something is left to place, it has candidates only, and an
\* order of what is left makes an order of everything.
CallInv(operations, call) ==
  /\ ~ Completed(operations) \subseteq call.placed
  /\ \A i \in call.untried : First(operations, call, i)
  /\ ~ Hopeless(operations, call) => Legal(operations)

\* What has been tried from a call without success cannot succeed, or is what
\* goes on now: the call that follows on the stack, or one about to begin.
TriedInVain(operations, calls, opening, d) ==
  \A i \in DOMAIN operations \ calls[d].untried :
    First(operations, calls[d], i) /\ Matches(operations[i], calls[d].state) =>
      \/ Hopeless(operations, Child(operations, calls[d], i))
      \/ (d < Len(calls) /\ Child(operations, calls[d], i) = Memo(calls[d+1]))
      \/ (d = Len(calls) /\ Child(operations, calls[d], i) \in opening)

StackInv(operations, calls, memos, opening) ==
  /\ calls \in Seq(Calls(operations))
  /\ \A d \in 1 .. Len(calls) :
       /\ Cardinality(calls[d].placed) = d - 1
       /\ Memo(calls[d]) \in memos
       /\ CallInv(operations, calls[d])
       /\ TriedInVain(operations, calls, opening, d)
  /\ calls # <<>> => calls[1].state = None
  /\ \A m \in memos : Hopeless(operations, m) \/ \E d \in 1 .. Len(calls) : m = Memo(calls[d])

LEMMA MemoOf ==
  ASSUME NEW call
  PROVE  /\ Memo(call).placed = call.placed /\ Memo(call).state = call.state
         /\ \A operations : Hopeless(operations, Memo(call)) <=> Hopeless(operations, call)
         /\ \A operations, i : Child(operations, Memo(call), i) = Child(operations, call, i)
         /\ \A operations, i : First(operations, Memo(call), i) <=> First(operations, call, i)
<1>1. Memo(call).placed = call.placed /\ Memo(call).state = call.state
  BY DEF Memo
<1>2. QED
  BY <1>1 DEF Hopeless, Child, First

LEMMA CandidatesComeFirst ==
  ASSUME NEW memo, NEW i
  PROVE  i \in Candidates(memo.placed) <=> First(ops, memo, i)
BY DEF Candidates, First, Foremost, BeforeIn

\* A history in which only completed operations come before others, as TakeFirst
\* asks for.
LEMMA OnlyCompletedPrecede ==
  ASSUME NEW operations
  PROVE  \A o \in DOMAIN operations : \A j \in DOMAIN operations :
           j \in BeforeIn(operations)[o] => operations[j].completed
BY DEF BeforeIn, Precedes

\* A call with a hopeful candidate is hopeful.
LEMMA HopeSpreads ==
  ASSUME NEW operations, Recorded(operations), NEW memo, NEW i, First(operations, memo, i),
         Matches(operations[i], memo.state),
         ~ Hopeless(operations, Child(operations, memo, i))
  PROVE  ~ Hopeless(operations, memo)
<1>1. PICK placed, state, pre :
        placed = memo.placed /\ state = memo.state /\ pre = BeforeIn(operations)
  OBVIOUS
<1>2. /\ Foremost(operations, pre, placed, i) /\ Matches(operations[i], state)
      /\ IsFiniteSet(DOMAIN operations)
  BY <1>1 DEF First, Recorded
<1>3. LinearizableFrom(NextState(state, operations[i]), Left(operations, placed \cup {i}), pre)
  BY <1>1 DEF Hopeless, Child
<1>4. LinearizableFrom(state, Left(operations, placed), pre)
  BY <1>2, <1>3, PutFirst
<1>5. QED
  BY <1>1, <1>4 DEF Hopeless

\* A hopeful call, with something left to place, has a hopeful candidate.
LEMMA HopeLeads ==
  ASSUME NEW operations, Recorded(operations), NEW memo,
         ~ Completed(operations) \subseteq memo.placed, ~ Hopeless(operations, memo)
  PROVE  \E i \in DOMAIN operations :
           /\ First(operations, memo, i) /\ Matches(operations[i], memo.state)
           /\ ~ Hopeless(operations, Child(operations, memo, i))
<1>1. PICK placed, state, pre :
        placed = memo.placed /\ state = memo.state /\ pre = BeforeIn(operations)
  OBVIOUS
<1>2. /\ IsFiniteSet(DOMAIN operations) /\ ~ Completed(operations) \subseteq placed
      /\ LinearizableFrom(state, Left(operations, placed), pre)
      /\ \A o \in DOMAIN operations : \A j \in DOMAIN operations :
           j \in pre[o] => operations[j].completed
  BY <1>1, OnlyCompletedPrecede DEF Recorded, Hopeless
<1>3. PICK i : /\ Foremost(operations, pre, placed, i) /\ Matches(operations[i], state)
               /\ LinearizableFrom(NextState(state, operations[i]),
                                   Left(operations, placed \cup {i}), pre)
  BY <1>2, TakeFirst
<1>4. i \in DOMAIN operations
  BY <1>3 DEF Foremost
<1>5. First(operations, memo, i) /\ ~ Hopeless(operations, Child(operations, memo, i))
  BY <1>1, <1>3 DEF First, Hopeless, Child
<1>6. QED
  BY <1>1, <1>3, <1>4, <1>5

\* The history is legal if the search may start with nothing placed.
LEMMA NothingPlaced ==
  ASSUME NEW operations, Recorded(operations), NEW memo, memo.placed = {}, memo.state = None
  PROVE  ~ Hopeless(operations, memo) <=> Legal(operations)
<1>1. Left(operations, {}) = operations
  BY DEF Left, Recorded
<1>2. QED
  BY <1>1 DEF Hopeless, Legal

LEMMA EverythingPlaced ==
  ASSUME NEW operations, Recorded(operations), NEW memo,
         Completed(operations) \subseteq memo.placed
  PROVE  ~ Hopeless(operations, memo)
<1>1. PICK placed, state, pre :
        placed = memo.placed /\ state = memo.state /\ pre = BeforeIn(operations)
  OBVIOUS
<1>2. IsFiniteSet(DOMAIN operations) /\ Completed(operations) \subseteq placed
  BY <1>1 DEF Recorded
<1>3. LinearizableFrom(state, Left(operations, placed), pre)
  BY <1>2, AllPlaced
<1>4. QED
  BY <1>1, <1>3 DEF Hopeless

LEMMA ChildOf ==
  ASSUME NEW operations, Recorded(operations), NEW memo,
         memo.placed \in SUBSET DOMAIN operations, memo.state \in Values \cup {None},
         NEW i, First(operations, memo, i)
  PROVE  /\ Child(operations, memo, i) \in Memos(operations)
         /\ Cardinality(Child(operations, memo, i).placed) = Cardinality(memo.placed) + 1
<1>1. i \in DOMAIN operations /\ i \notin memo.placed
  BY DEF First, Foremost
<1>2. operations[i] \in Operations
  BY <1>1 DEF Recorded, Timed
<1>3. NextState(memo.state, operations[i]) \in Values \cup {None}
  BY <1>2 DEF NextState, Operations
<1>4. Child(operations, memo, i) \in Memos(operations)
  BY <1>1, <1>3 DEF Child, Memos
<1>5. IsFiniteSet(memo.placed)
  BY FS_Subset DEF Recorded
<1>6. PICK placed : placed = memo.placed
  OBVIOUS
<1>7. Cardinality(placed \cup {i}) = Cardinality(placed) + 1
  BY <1>1, <1>5, <1>6, FS_AddElement
<1>8. QED
  BY <1>4, <1>6, <1>7 DEF Child

\* What was about to begin turns out to be hopeless: walk returns at once.
LEMMA WalkReturns ==
  ASSUME NEW operations, NEW calls, NEW memos, NEW memo,
         StackInv(operations, calls, memos, {memo}), Hopeless(operations, memo)
  PROVE  StackInv(operations, calls, memos, {})
<1>1. \A d \in 1 .. Len(calls) : TriedInVain(operations, calls, {}, d)
  <2> SUFFICES ASSUME NEW d \in 1 .. Len(calls) PROVE TriedInVain(operations, calls, {}, d)
    OBVIOUS
  <2>1. TriedInVain(operations, calls, {memo}, d)
    BY DEF StackInv
  <2>2. QED
    BY <2>1 DEF TriedInVain
<1>2. QED
  BY <1>1 DEF StackInv

\* It begins: a new call with all its candidates.
LEMMA WalkBegins ==
  ASSUME NEW operations, Recorded(operations), NEW calls, NEW memos,
         NEW memo \in Memos(operations), StackInv(operations, calls, memos, {memo}),
         NEW call \in Calls(operations), Memo(call) = memo, CallInv(operations, call),
         \A i \in DOMAIN operations : First(operations, call, i) => i \in call.untried,
         Cardinality(memo.placed) = Len(calls), calls = <<>> => memo.state = None
  PROVE  StackInv(operations, Append(calls, call), memos \cup {memo}, {})
<1>1. PICK longer : longer = Append(calls, call)
  OBVIOUS
<1>2. /\ calls \in Seq(Calls(operations)) /\ Len(calls) \in Nat
      /\ longer \in Seq(Calls(operations)) /\ Len(longer) = Len(calls) + 1
      /\ longer[Len(calls) + 1] = call
      /\ \A d \in 1 .. Len(calls) : longer[d] = calls[d]
  BY <1>1 DEF StackInv
<1>3. call.placed = memo.placed /\ call.state = memo.state
  BY MemoOf
<1>4. ASSUME NEW d \in 1 .. Len(longer)
      PROVE  /\ Cardinality(longer[d].placed) = d - 1
             /\ Memo(longer[d]) \in memos \cup {memo}
             /\ CallInv(operations, longer[d])
             /\ TriedInVain(operations, longer, {}, d)
  <2>1. CASE d = Len(longer)
    <3>1. longer[d] = call /\ d - 1 = Len(calls)
      BY <1>2, <2>1
    <3>2. TriedInVain(operations, longer, {}, d)
      BY <3>1 DEF TriedInVain
    <3>3. QED
      BY <1>3, <3>1, <3>2
  <2>2. CASE d # Len(longer)
    <3>1. d \in 1 .. Len(calls) /\ longer[d] = calls[d] /\ d < Len(longer)
      BY <1>2, <2>2
    <3>2. /\ Cardinality(calls[d].placed) = d - 1 /\ Memo(calls[d]) \in memos
          /\ CallInv(operations, calls[d]) /\ TriedInVain(operations, calls, {memo}, d)
      BY <3>1 DEF StackInv
    <3>3. ASSUME NEW i \in DOMAIN operations \ longer[d].untried,
                 First(operations, longer[d], i), Matches(operations[i], longer[d].state)
          PROVE  \/ Hopeless(operations, Child(operations, longer[d], i))
                 \/ (d < Len(longer) /\ Child(operations, longer[d], i) = Memo(longer[d+1]))
      <4>1. PICK child : child = Child(operations, longer[d], i)
        OBVIOUS
      <4>2. \/ Hopeless(operations, child)
            \/ (d < Len(calls) /\ child = Memo(calls[d+1]))
            \/ (d = Len(calls) /\ child = memo)
        BY <3>1, <3>2, <3>3, <4>1 DEF TriedInVain
      <4>3. CASE d < Len(calls)
        <5>1. d + 1 \in 1 .. Len(calls)
          BY <1>2, <3>1, <4>3
        <5>2. longer[d+1] = calls[d+1]
          BY <1>2, <5>1
        <5>3. QED
          BY <1>2, <3>1, <4>1, <4>2, <4>3, <5>2
      <4>4. CASE d = Len(calls)
        <5>1. longer[d+1] = call
          BY <1>2, <4>4
        <5>2. QED
          BY <1>2, <3>1, <4>1, <4>2, <4>4, <5>1
      <4>5. QED
        BY <1>2, <3>1, <4>3, <4>4
    <3>4. TriedInVain(operations, longer, {}, d)
      BY <3>3 DEF TriedInVain
    <3>5. QED
      BY <3>1, <3>2, <3>4
  <2>3. QED
    BY <2>1, <2>2
<1>5. longer[1].state = None
  <2>1. CASE calls = <<>>
    <3>1. longer[1] = call
      BY <1>1, <2>1
    <3>2. QED
      BY <1>3, <2>1, <3>1
  <2>2. CASE calls # <<>>
    <3>1. calls[1].state = None /\ Len(calls) # 0
      BY <1>2, <2>2 DEF StackInv
    <3>2. 1 \in 1 .. Len(calls)
      BY <1>2, <3>1
    <3>3. QED
      BY <1>2, <3>1, <3>2
  <2>3. QED
    BY <2>1, <2>2
<1>6. ASSUME NEW m \in memos \cup {memo}
      PROVE  Hopeless(operations, m) \/ \E d \in 1 .. Len(longer) : m = Memo(longer[d])
  <2>1. CASE m = memo
    <3>1. Len(longer) \in 1 .. Len(longer) /\ m = Memo(longer[Len(longer)])
      BY <1>2, <2>1
    <3>2. QED
      BY <3>1
  <2>2. CASE m # memo
    <3>1. Hopeless(operations, m) \/ \E d \in 1 .. Len(calls) : m = Memo(calls[d])
      BY <2>2 DEF StackInv
    <3>2. \A d \in 1 .. Len(calls) : d \in 1 .. Len(longer) /\ longer[d] = calls[d]
      BY <1>2
    <3>3. QED
      BY <3>1, <3>2
  <2>3. QED
    BY <2>1, <2>2
<1>7. StackInv(operations, longer, memos \cup {memo}, {})
  BY <1>2, <1>4, <1>5, <1>6 DEF StackInv
<1>8. QED
  BY <1>1, <1>7

\* The innermost call tries a candidate.
LEMMA CandidateTried ==
  ASSUME NEW operations, NEW calls, NEW memos, StackInv(operations, calls, memos, {}),
         calls # <<>>, NEW i \in Last(calls).untried, NEW opening,
         Matches(operations[i], Last(calls).state) =>
           Child(operations, Last(calls), i) \in opening
  PROVE  StackInv(operations, Append(Front(calls), [Last(calls) EXCEPT !.untried = @ \ {i}]),
                  memos, opening)
<1>1. PICK last, tried : last = Last(calls) /\ tried = [last EXCEPT !.untried = @ \ {i}]
  OBVIOUS
<1>2. PICK below : below = Append(Front(calls), tried)
  OBVIOUS
<1>3. calls \in Seq(Calls(operations)) /\ last \in Calls(operations) /\ Len(calls) \in Nat \ {0}
  BY <1>1, FrontOf DEF StackInv
<1>4. /\ tried \in Calls(operations) /\ tried.placed = last.placed /\ tried.state = last.state
      /\ tried.untried = last.untried \ {i}
  BY <1>1, <1>3 DEF Calls
<1>5. /\ below \in Seq(Calls(operations)) /\ Len(below) = Len(calls)
      /\ below[Len(calls)] = tried /\ calls[Len(calls)] = last
      /\ \A d \in 1 .. Len(calls) - 1 : below[d] = calls[d]
  <2>1. PICK Frames : Frames = Calls(operations)
    OBVIOUS
  <2>2. calls \in Seq(Frames) /\ tried \in Frames
    BY <1>3, <1>4, <2>1
  <2>3. /\ Append(Front(calls), tried) \in Seq(Frames)
        /\ Len(Append(Front(calls), tried)) = Len(calls)
        /\ Append(Front(calls), tried)[Len(calls)] = tried
        /\ \A d \in 1 .. Len(calls) - 1 : Append(Front(calls), tried)[d] = calls[d]
        /\ Last(calls) = calls[Len(calls)]
    BY <2>2, LastReplaced
  <2>4. QED
    BY <1>1, <1>2, <2>1, <2>3
<1>6. Memo(tried) = Memo(last)
  BY <1>4 DEF Memo
<1>7. /\ \A d \in 1 .. Len(calls) :
           /\ Memo(below[d]) = Memo(calls[d]) /\ below[d].placed = calls[d].placed
           /\ below[d].state = calls[d].state /\ below[d].untried \subseteq calls[d].untried
  <2> SUFFICES ASSUME NEW d \in 1 .. Len(calls)
               PROVE  /\ Memo(below[d]) = Memo(calls[d]) /\ below[d].placed = calls[d].placed
                      /\ below[d].state = calls[d].state
                      /\ below[d].untried \subseteq calls[d].untried
    OBVIOUS
  <2>1. CASE d = Len(calls)
    BY <1>4, <1>5, <1>6, <2>1
  <2>2. CASE d # Len(calls)
    <3>1. d \in 1 .. Len(calls) - 1
      BY <1>3, <2>2
    <3>2. below[d] = calls[d]
      BY <1>5, <3>1
    <3>3. QED
      BY <3>2
  <2>3. QED
    BY <2>1, <2>2
<1>8. ASSUME NEW d \in 1 .. Len(below)
      PROVE  /\ Cardinality(below[d].placed) = d - 1
             /\ Memo(below[d]) \in memos
             /\ CallInv(operations, below[d])
             /\ TriedInVain(operations, below, opening, d)
  <2>1. d \in 1 .. Len(calls)
    BY <1>5
  <2>2. /\ Memo(below[d]) = Memo(calls[d]) /\ below[d].placed = calls[d].placed
        /\ below[d].state = calls[d].state /\ below[d].untried \subseteq calls[d].untried
    BY <1>7, <2>1
  <2>3. /\ Cardinality(calls[d].placed) = d - 1 /\ Memo(calls[d]) \in memos
        /\ CallInv(operations, calls[d]) /\ TriedInVain(operations, calls, {}, d)
    BY <2>1 DEF StackInv
  <2>4. CallInv(operations, below[d])
    BY <2>2, <2>3 DEF CallInv, Hopeless, First
  <2>5. ASSUME NEW o \in DOMAIN operations \ below[d].untried,
               First(operations, below[d], o), Matches(operations[o], below[d].state)
        PROVE  \/ Hopeless(operations, Child(operations, below[d], o))
               \/ (d < Len(below) /\ Child(operations, below[d], o) = Memo(below[d+1]))
               \/ (d = Len(below) /\ Child(operations, below[d], o) \in opening)
    <3>1. PICK child : child = Child(operations, below[d], o)
      OBVIOUS
    <3>2. child = Child(operations, calls[d], o) /\ First(operations, calls[d], o)
          /\ Matches(operations[o], calls[d].state)
      BY <2>2, <2>5, <3>1 DEF Child, First
    <3>3. CASE o \notin calls[d].untried
      <4>1. Hopeless(operations, child) \/ (d < Len(calls) /\ child = Memo(calls[d+1]))
        BY <2>3, <3>2, <3>3 DEF TriedInVain
      <4>2. CASE Hopeless(operations, child)
        BY <3>1, <4>2
      <4>3. CASE d < Len(calls) /\ child = Memo(calls[d+1])
        <5>1. d + 1 \in 1 .. Len(calls)
          BY <1>3, <2>1, <4>3
        <5>2. Memo(below[d+1]) = Memo(calls[d+1])
          BY <1>7, <5>1
        <5>3. QED
          BY <1>5, <3>1, <4>3, <5>2
      <4>4. QED
        BY <4>1, <4>2, <4>3
    <3>4. CASE o \in calls[d].untried
      <4>1. d = Len(calls) /\ o = i
        <5>1. below[d] # calls[d]
          BY <2>5, <3>4
        <5>2. d = Len(calls)
          <6>1. d \notin 1 .. Len(calls) - 1
            BY <1>5, <5>1
          <6>2. QED
            BY <1>3, <2>1, <6>1
        <5>3. QED
          BY <1>4, <1>5, <2>5, <3>4, <5>2
      <4>2. child = Child(operations, last, i) /\ Matches(operations[i], last.state)
        BY <1>5, <3>2, <4>1
      <4>3. child \in opening
        BY <1>1, <4>2
      <4>4. QED
        BY <1>5, <3>1, <4>1, <4>3
    <3>5. QED
      BY <3>3, <3>4
  <2>6. TriedInVain(operations, below, opening, d)
    BY <2>5 DEF TriedInVain
  <2>7. QED
    BY <2>2, <2>3, <2>4, <2>6
<1>9. below[1].state = None
  <2>1. calls[1].state = None /\ 1 \in 1 .. Len(calls)
    BY <1>3 DEF StackInv
  <2>2. QED
    BY <1>7, <2>1
<1>10. ASSUME NEW m \in memos
       PROVE  Hopeless(operations, m) \/ \E d \in 1 .. Len(below) : m = Memo(below[d])
  <2>1. Hopeless(operations, m) \/ \E d \in 1 .. Len(calls) : m = Memo(calls[d])
    BY DEF StackInv
  <2>2. QED
    BY <1>5, <1>7, <2>1
<1>11. StackInv(operations, below, memos, opening)
  BY <1>5, <1>8, <1>9, <1>10 DEF StackInv
<1>12. QED
  BY <1>1, <1>2, <1>11

\* A call without candidates left returns: it was hopeless.
LEMMA WalkFails ==
  ASSUME NEW operations, Recorded(operations), NEW calls, NEW memos,
         StackInv(operations, calls, memos, {}), calls # <<>>, Last(calls).untried = {}
  PROVE  /\ Hopeless(operations, Last(calls))
         /\ StackInv(operations, Front(calls), memos, {})
<1>1. PICK last, below : last = Last(calls) /\ below = Front(calls)
  OBVIOUS
<1>2. /\ calls \in Seq(Calls(operations)) /\ Len(calls) \in Nat \ {0}
      /\ last \in Calls(operations) /\ last = calls[Len(calls)]
      /\ below \in Seq(Calls(operations)) /\ Len(below) = Len(calls) - 1
      /\ \A d \in 1 .. Len(calls) - 1 : below[d] = calls[d]
  BY <1>1, FrontOf DEF StackInv
<1>3. \A d \in 1 .. Len(calls) :
        /\ Cardinality(calls[d].placed) = d - 1 /\ Memo(calls[d]) \in memos
        /\ CallInv(operations, calls[d]) /\ TriedInVain(operations, calls, {}, d)
  BY DEF StackInv
<1>4. Hopeless(operations, last)
  <2>1. SUFFICES ASSUME ~ Hopeless(operations, last) PROVE FALSE
    OBVIOUS
  <2>2. Len(calls) \in 1 .. Len(calls)
    BY <1>2
  <2>3. CallInv(operations, last) /\ TriedInVain(operations, calls, {}, Len(calls))
    BY <1>2, <1>3, <2>2
  <2>4. ~ Completed(operations) \subseteq last.placed
    BY <2>3 DEF CallInv
  <2>5. PICK i \in DOMAIN operations :
          /\ First(operations, last, i) /\ Matches(operations[i], last.state)
          /\ ~ Hopeless(operations, Child(operations, last, i))
    BY <2>1, <2>4, HopeLeads
  <2>6. i \notin last.untried
    BY <1>1
  <2>7. QED
    BY <1>2, <2>3, <2>5, <2>6 DEF TriedInVain
<1>5. Hopeless(operations, Memo(last))
  BY <1>4, MemoOf
<1>6. ASSUME NEW d \in 1 .. Len(below) PROVE TriedInVain(operations, below, {}, d)
  <2>1. /\ d \in 1 .. Len(calls) - 1 /\ d \in 1 .. Len(calls) /\ below[d] = calls[d]
        /\ d < Len(calls) /\ d # Len(calls)
    BY <1>2
  <2>2. TriedInVain(operations, calls, {}, d)
    BY <1>3, <2>1
  <2>3. ASSUME NEW i \in DOMAIN operations \ below[d].untried,
               First(operations, below[d], i), Matches(operations[i], below[d].state)
        PROVE  \/ Hopeless(operations, Child(operations, below[d], i))
               \/ (d < Len(below) /\ Child(operations, below[d], i) = Memo(below[d+1]))
    <3>1. PICK child : child = Child(operations, below[d], i)
      OBVIOUS
    <3>2. Hopeless(operations, child) \/ child = Memo(calls[d+1])
      BY <2>1, <2>2, <2>3, <3>1 DEF TriedInVain
    <3>3. CASE d + 1 = Len(calls)
      BY <1>2, <1>5, <3>1, <3>2, <3>3
    <3>4. CASE d + 1 # Len(calls)
      <4>1. d + 1 \in 1 .. Len(calls) - 1 /\ d < Len(below)
        BY <1>2, <2>1, <3>4
      <4>2. below[d+1] = calls[d+1]
        BY <1>2, <4>1
      <4>3. QED
        BY <3>1, <3>2, <4>1, <4>2
    <3>5. QED
      BY <3>3, <3>4
  <2>4. QED
    BY <2>3 DEF TriedInVain
<1>7. \A d \in 1 .. Len(below) : d \in 1 .. Len(calls) /\ below[d] = calls[d]
  BY <1>2
<1>8. below # <<>> => below[1].state = None
  <2>1. CASE Len(calls) = 1
    BY <1>2, <2>1
  <2>2. CASE Len(calls) # 1
    <3>1. 1 \in 1 .. Len(calls) - 1
      BY <1>2, <2>2
    <3>2. QED
      BY <1>2, <3>1 DEF StackInv
  <2>3. QED
    BY <2>1, <2>2
<1>9. ASSUME NEW m \in memos
      PROVE  Hopeless(operations, m) \/ \E d \in 1 .. Len(below) : m = Memo(below[d])
  <2>1. SUFFICES ASSUME ~ Hopeless(operations, m)
                 PROVE  \E d \in 1 .. Len(below) : m = Memo(below[d])
    OBVIOUS
  <2>2. PICK d \in 1 .. Len(calls) : m = Memo(calls[d])
    BY <2>1 DEF StackInv
  <2>3. d # Len(calls)
    BY <1>2, <1>5, <2>1, <2>2
  <2>4. d \in 1 .. Len(below) /\ d \in 1 .. Len(calls) - 1
    BY <1>2, <2>3
  <2>5. QED
    BY <1>2, <2>2, <2>4
<1>10. StackInv(operations, below, memos, {})
  BY <1>2, <1>3, <1>6, <1>7, <1>8, <1>9 DEF StackInv
<1>11. QED
  BY <1>1, <1>4, <1>10

SearchInv ==
  /\ Recorded(ops)
  /\ budget \in Nat /\ spent \in 0 .. budget + 1
  /\ found \in {"open", "order", "none", "exhausted"}
  /\ found = "open" =>
       StackInv(ops, stack, seen, {}) /\ spent <= budget /\ (stack = <<>> => seen = {})
  /\ found # "open" => stack = <<>>
  /\ found = "order" => Legal(ops)
  /\ found = "none" => ~ Legal(ops) /\ \A m \in seen : Hopeless(ops, m)

\* A search that begins.
LEMMA SearchStart ==
  ASSUME NEW operations, Recorded(operations), Begin(operations), budget' \in Nat
  PROVE  SearchInv'
<1>1. /\ ops' = operations /\ found' = "open" /\ stack' = <<>> /\ seen' = {} /\ spent' = 0
  BY DEF Begin
<1>2. StackInv(operations, <<>>, {}, {})
  BY DEF StackInv
<1>3. Recorded(ops') /\ StackInv(ops', stack', seen', {})
  BY <1>1, <1>2
<1>4. spent' \in 0 .. budget' + 1 /\ spent' <= budget'
  <2>1. PICK b, n : b = budget' /\ n = spent'
    OBVIOUS
  <2>2. b \in Nat /\ n = 0
    BY <1>1, <2>1
  <2>3. n \in 0 .. b + 1 /\ n <= b
    BY <2>2
  <2>4. QED
    BY <2>1, <2>3
<1>5. QED
  BY <1>1, <1>3, <1>4 DEF SearchInv

LEMMA WalkKeepsSearch ==
  ASSUME SearchInv, found = "open", UNCHANGED budget,
         NEW memo \in Memos(ops), NEW below, StackInv(ops, below, seen, {memo}),
         Cardinality(memo.placed) = Len(below),
         below = <<>> => memo.state = None /\ seen = {},
         ~ Hopeless(ops, memo) => Legal(ops),
         Walk(memo.placed, memo.state, below)
  PROVE  SearchInv'
<1>1. /\ Recorded(ops) /\ budget \in Nat /\ spent \in 0 .. budget + 1 /\ spent <= budget
      /\ below \in Seq(Calls(ops)) /\ Len(below) \in Nat
  BY DEF SearchInv, StackInv
<1>2. CASE Completed(ops) \subseteq memo.placed /\ Stop("order") /\ UNCHANGED spent
  <2>1. Legal(ops)
    BY <1>1, <1>2, EverythingPlaced
  <2>2. found' = "order" /\ stack' = <<>> /\ ops' = ops /\ spent' = spent
    BY <1>2 DEF Stop
  <2>3. QED
    BY <1>1, <2>1, <2>2 DEF SearchInv
<1>3. CASE spent' = spent + 1 /\ spent >= budget /\ Stop("exhausted")
  <2>1. found' = "exhausted" /\ stack' = <<>> /\ ops' = ops /\ spent' \in 0 .. budget + 1
    BY <1>1, <1>3 DEF Stop
  <2>2. QED
    BY <1>1, <2>1 DEF SearchInv
<1>4. CASE /\ spent' = spent + 1 /\ spent < budget /\ UNCHANGED <<found, ops>>
           /\ memo \in seen /\ stack' = below /\ UNCHANGED seen
  <2>1. below # <<>>
    BY <1>4
  <2>2. \A d \in 1 .. Len(below) : memo # Memo(below[d])
    <3> SUFFICES ASSUME NEW d \in 1 .. Len(below), memo = Memo(below[d]) PROVE FALSE
      OBVIOUS
    <3>1. Cardinality(memo.placed) = d - 1
      BY MemoOf DEF StackInv
    <3>2. QED
      BY <1>1, <3>1
  <2>3. Hopeless(ops, memo)
    BY <1>4, <2>2 DEF StackInv
  <2>4. StackInv(ops, below, seen, {})
    BY <2>3, WalkReturns
  <2>5. spent' \in 0 .. budget + 1 /\ spent' <= budget
    BY <1>1, <1>4
  <2>6. QED
    BY <1>1, <1>4, <2>1, <2>4, <2>5 DEF SearchInv
<1>5. CASE /\ spent' = spent + 1 /\ spent < budget /\ UNCHANGED <<found, ops>>
           /\ ~ Completed(ops) \subseteq memo.placed
           /\ seen' = seen \cup {memo} /\ stack' = Append(below, Frame(memo.placed, memo.state))
  <2>1. PICK call : call = Frame(memo.placed, memo.state)
    OBVIOUS
  <2>2. \A i : i \in Candidates(memo.placed) <=> First(ops, memo, i)
    BY CandidatesComeFirst
  <2>3. Candidates(memo.placed) \in SUBSET DOMAIN ops
    BY DEF Candidates
  <2>4. /\ call.placed = memo.placed /\ call.state = memo.state
        /\ call.untried = Candidates(memo.placed)
    BY <2>1 DEF Frame
  <2>5. Memo(call) = memo /\ call \in Calls(ops)
    BY <2>1, <2>3 DEF Frame, Memo, Memos, Calls
  <2>6. \A i : First(ops, call, i) <=> First(ops, memo, i)
    BY <2>4 DEF First
  <2>7. CallInv(ops, call)
    <3>1. Hopeless(ops, call) <=> Hopeless(ops, memo)
      BY <2>4 DEF Hopeless
    <3>2. QED
      BY <1>5, <2>2, <2>4, <2>6, <3>1 DEF CallInv
  <2>8. \A i \in DOMAIN ops : First(ops, call, i) => i \in call.untried
    BY <2>2, <2>4, <2>6
  <2>9. StackInv(ops, Append(below, call), seen \cup {memo}, {})
    BY <1>1, <2>5, <2>7, <2>8, WalkBegins
  <2>10. spent' \in 0 .. budget + 1 /\ spent' <= budget
    BY <1>1, <1>5
  <2>11. Append(below, call) # <<>>
    BY <1>1, <2>5
  <2>12. StackInv(ops', stack', seen', {}) /\ stack' # <<>>
    BY <1>5, <2>1, <2>9, <2>11
  <2>13. QED
    BY <1>1, <1>5, <2>10, <2>12 DEF SearchInv
<1>6. Memo(Frame(memo.placed, memo.state)) = memo
  BY DEF Memo, Frame, Memos
<1>7. QED
  <2>1. CASE Completed(ops) \subseteq memo.placed
    BY <1>2, <2>1 DEF Walk
  <2>2. CASE ~ Completed(ops) \subseteq memo.placed
    <3>1. /\ spent' = spent + 1
          /\ \/ spent >= budget /\ Stop("exhausted")
             \/ /\ spent < budget
                /\ IF memo \in seen
                   THEN stack' = below /\ UNCHANGED seen
                   ELSE /\ seen' = seen \cup {memo}
                        /\ stack' = Append(below, Frame(memo.placed, memo.state))
                /\ UNCHANGED <<found, ops>>
      BY <1>6, <2>2 DEF Walk
    <3>2. QED
      BY <1>3, <1>4, <1>5, <2>2, <3>1
  <2>3. QED
    BY <2>1, <2>2

LEMMA WalkFirstKeepsSearch ==
  ASSUME SearchInv, WalkFirst
  PROVE  SearchInv'
<1>1. PICK memo : memo = [placed |-> {}, state |-> None]
  OBVIOUS
<1>2. memo.placed = {} /\ memo.state = None /\ memo \in Memos(ops)
  BY <1>1 DEF Memos
<1>3. /\ found = "open" /\ UNCHANGED budget /\ stack = <<>> /\ seen = {} /\ Recorded(ops)
      /\ Walk(memo.placed, memo.state, <<>>)
  BY <1>2 DEF WalkFirst, Searching, SearchInv
<1>4. Cardinality(memo.placed) = Len(<<>>)
  BY <1>2, FS_EmptySet
<1>5. ~ Hopeless(ops, memo) => Legal(ops)
  BY <1>2, <1>3, NothingPlaced
<1>6. StackInv(ops, <<>>, seen, {memo})
  BY <1>3 DEF StackInv
<1>7. QED
  BY <1>2, <1>3, <1>4, <1>5, <1>6, WalkKeepsSearch

LEMMA TryCandidateKeepsSearch ==
  ASSUME SearchInv, TryCandidate
  PROVE  SearchInv'
<1>1. PICK call, i : call = Last(stack) /\ i = Min(call.untried)
  OBVIOUS
<1>2. PICK below : below = Append(Front(stack), [call EXCEPT !.untried = @ \ {i}])
  OBVIOUS
<1>3. /\ found = "open" /\ UNCHANGED budget /\ stack # <<>> /\ call.untried # {}
      /\ Recorded(ops) /\ StackInv(ops, stack, seen, {}) /\ spent <= budget /\ budget \in Nat
      /\ spent \in 0 .. budget + 1
      /\ \/ /\ ~ Matches(ops[i], call.state)
            /\ stack' = below /\ UNCHANGED <<found, seen, spent, ops>>
         \/ /\ Matches(ops[i], call.state)
            /\ Walk(call.placed \cup {i}, NextState(call.state, ops[i]), below)
  BY <1>1, <1>2 DEF TryCandidate, Searching, SearchInv
<1>4. /\ stack \in Seq(Calls(ops)) /\ call \in Calls(ops) /\ call = stack[Len(stack)]
      /\ Len(stack) \in Nat \ {0}
  BY <1>1, <1>3, FrontOf DEF StackInv
<1>5. /\ call.placed \in SUBSET DOMAIN ops /\ call.state \in Values \cup {None}
      /\ call.untried \in SUBSET DOMAIN ops
  BY <1>4 DEF Calls
<1>6. i \in call.untried
  <2>1. call.untried \in SUBSET Nat
    BY <1>3, <1>5 DEF Recorded
  <2>2. QED
    BY <1>1, <1>3, <2>1, LeastOf
<1>7. Len(stack) \in 1 .. Len(stack)
  BY <1>4
<1>8. Cardinality(call.placed) = Len(stack) - 1 /\ CallInv(ops, call)
  BY <1>3, <1>4, <1>7 DEF StackInv
<1>9. First(ops, call, i)
  BY <1>6, <1>8 DEF CallInv
<1>10. below # <<>> /\ Len(below) = Len(stack)
  <2>1. PICK Frames, tried : Frames = Calls(ops) /\ tried = [call EXCEPT !.untried = @ \ {i}]
    OBVIOUS
  <2>2. stack \in Seq(Frames) /\ tried \in Frames
    BY <1>4, <1>5, <2>1 DEF Calls
  <2>3. Len(Append(Front(stack), tried)) = Len(stack)
    BY <1>3, <2>2, LastReplaced
  <2>4. QED
    BY <1>2, <1>4, <2>1, <2>3
<1>11. CASE ~ Matches(ops[i], call.state) /\ stack' = below /\ UNCHANGED <<found, seen, spent, ops>>
  <2>1. StackInv(ops, below, seen, {})
    BY <1>1, <1>2, <1>3, <1>6, <1>11, CandidateTried
  <2>2. QED
    BY <1>3, <1>10, <1>11, <2>1 DEF SearchInv
<1>12. CASE /\ Matches(ops[i], call.state)
            /\ Walk(call.placed \cup {i}, NextState(call.state, ops[i]), below)
  <2>1. PICK memo : memo = Child(ops, call, i)
    OBVIOUS
  <2>2. memo \in Memos(ops) /\ Cardinality(memo.placed) = Cardinality(call.placed) + 1
    BY <1>3, <1>5, <1>9, <2>1, ChildOf
  <2>3. StackInv(ops, below, seen, {memo})
    <3>1. PICK opening : opening = {memo}
      OBVIOUS
    <3>2. Child(ops, Last(stack), i) \in opening
      BY <1>1, <2>1, <3>1
    <3>3. StackInv(ops, below, seen, opening)
      BY <1>1, <1>2, <1>3, <1>6, <3>2, CandidateTried
    <3>4. QED
      BY <3>1, <3>3
  <2>4. Cardinality(memo.placed) = Len(below)
    BY <1>4, <1>8, <1>10, <2>2
  <2>5. ~ Hopeless(ops, memo) => Legal(ops)
    BY <1>3, <1>8, <1>9, <1>12, <2>1, HopeSpreads DEF CallInv
  <2>6. Walk(memo.placed, memo.state, below)
    BY <1>12, <2>1 DEF Child
  <2>7. QED
    BY <1>3, <1>10, <2>2, <2>3, <2>4, <2>5, <2>6, WalkKeepsSearch
<1>13. QED
  BY <1>3, <1>11, <1>12

LEMMA BacktrackKeepsSearch ==
  ASSUME SearchInv, Backtrack
  PROVE  SearchInv'
<1>1. /\ found = "open" /\ stack # <<>> /\ Last(stack).untried = {} /\ stack' = Front(stack)
      /\ found' = (IF Len(stack) = 1 THEN "none" ELSE found)
      /\ UNCHANGED <<budget, ops, seen, spent>>
      /\ Recorded(ops) /\ StackInv(ops, stack, seen, {}) /\ spent <= budget /\ budget \in Nat
      /\ spent \in 0 .. budget + 1
  BY DEF Backtrack, Searching, SearchInv
<1>2. Hopeless(ops, Last(stack)) /\ StackInv(ops, Front(stack), seen, {})
  BY <1>1, WalkFails
<1>3. /\ stack \in Seq(Calls(ops)) /\ Last(stack) = stack[Len(stack)]
      /\ Front(stack) \in Seq(Calls(ops)) /\ Len(Front(stack)) = Len(stack) - 1
      /\ Len(stack) \in Nat \ {0} /\ Last(stack) \in Calls(ops)
  BY <1>1, FrontOf DEF StackInv
<1>4. CASE Len(stack) = 1
  <2>1. Front(stack) = <<>>
    BY <1>3, <1>4, EmptySeq
  <2>2. 1 \in 1 .. Len(stack)
    BY <1>4
  <2>3. PICK call : call = Last(stack)
    OBVIOUS
  <2>4. call.state = None /\ Cardinality(call.placed) = 0
    BY <1>1, <1>3, <1>4, <2>2, <2>3 DEF StackInv
  <2>5. call.placed = {}
    <3>1. IsFiniteSet(call.placed)
      BY <1>1, <1>3, <2>3, FS_Subset DEF Calls, Recorded
    <3>2. QED
      BY <2>4, <3>1, FS_EmptySet
  <2>6. ~ Legal(ops)
    BY <1>1, <1>2, <2>3, <2>4, <2>5, NothingPlaced
  <2>7. \A m \in seen : Hopeless(ops, m)
    BY <1>2, <2>1 DEF StackInv
  <2>8. found' = "none" /\ stack' = <<>>
    BY <1>1, <1>4, <2>1
  <2>9. QED
    BY <1>1, <2>6, <2>7, <2>8 DEF SearchInv
<1>5. CASE Len(stack) # 1
  <2>1. found' = "open" /\ Front(stack) # <<>>
    BY <1>1, <1>3, <1>5
  <2>2. QED
    BY <1>1, <1>2, <2>1 DEF SearchInv
<1>6. QED
  BY <1>4, <1>5

\* What is not part of the search leaves it as it is.
LEMMA SearchStays ==
  ASSUME SearchInv, UNCHANGED <<searchVars, budget>>
  PROVE  SearchInv'
<1>1. /\ ops' = ops /\ found' = found /\ stack' = stack /\ seen' = seen /\ spent' = spent
      /\ budget' = budget
  BY DEF searchVars
<1>2. QED
  BY <1>1 DEF SearchInv

-----------------------------------------------------------------------------
(* Histories cut at a point in time.                                       *)

LEMMA UnknownOf ==
  ASSUME NEW o, Timed(o)
  PROVE  /\ Timed(Unknown(o)) /\ ~ Unknown(o).completed /\ SameEffect(o, Unknown(o))
         /\ Unknown(o).invoked = o.invoked
<1>1. o \in Operations
  BY DEF Timed
<1>2. /\ Unknown(o) \in Operations /\ ~ Unknown(o).completed /\ SameEffect(o, Unknown(o))
      /\ Unknown(o).invoked = o.invoked
  BY <1>1 DEF Unknown, Operations, SameEffect
<1>3. QED
  BY <1>2 DEF Timed

\* The cut of a history, one operation at a time.
LEMMA CutOf ==
  ASSUME NEW operations, Recorded(operations), NEW t \in Nat
  PROVE  LET cut == CutAt(operations, t)
         IN  /\ Recorded(cut)
             /\ DOMAIN cut = {i \in DOMAIN operations : operations[i].invoked <= t}
             /\ \A i \in DOMAIN cut :
                  /\ SameEffect(operations[i], cut[i]) /\ cut[i].invoked = operations[i].invoked
                  /\ cut[i].completed <=> operations[i].completed /\ operations[i].returned <= t
                  /\ cut[i].completed => cut[i] = operations[i]
<1> DEFINE cut  == CutAt(operations, t)
           Kept(i) == operations[i].completed /\ operations[i].returned <= t
<1>1. /\ DOMAIN cut = {i \in DOMAIN operations : operations[i].invoked <= t}
      /\ cut = [i \in DOMAIN cut |-> IF Kept(i) THEN operations[i] ELSE Unknown(operations[i])]
  BY DEF CutAt
<1> HIDE DEF cut
<1>2. ASSUME NEW i \in DOMAIN cut
      PROVE  /\ Timed(cut[i])
             /\ SameEffect(operations[i], cut[i]) /\ cut[i].invoked = operations[i].invoked
             /\ cut[i].completed <=> Kept(i)
             /\ cut[i].completed => cut[i] = operations[i]
  <2>1. Timed(operations[i])
    BY <1>1 DEF Recorded
  <2>2. CASE Kept(i)
    BY <1>1, <2>1, <2>2 DEF SameEffect
  <2>3. CASE ~ Kept(i)
    <3>1. cut[i] = Unknown(operations[i])
      BY <1>1, <2>3
    <3>2. QED
      BY <2>1, <2>3, <3>1, UnknownOf
  <2>4. QED
    BY <2>2, <2>3
<1>3. IsFiniteSet(DOMAIN cut) /\ DOMAIN cut \subseteq Nat
  <2>1. DOMAIN cut \in SUBSET DOMAIN operations
    BY <1>1
  <2>2. QED
    BY <2>1, FS_Subset DEF Recorded
<1>4. cut = [i \in DOMAIN cut |-> cut[i]]
  BY <1>1
<1>5. Recorded(cut)
  BY <1>2, <1>3, <1>4 DEF Recorded
<1>6. QED
  BY <1>1, <1>2, <1>5 DEF cut

LEMMA LegalWitness ==
  ASSUME NEW operations, Recorded(operations)
  PROVE  Legal(operations) <=>
           \E n, order : Accounts(order, n, None, operations, BeforeIn(operations))
BY LinearizableWitness DEF Legal, Recorded

\* A legal history stays legal when it is cut: what had completed by then, and
\* whatever comes before the last of that in a legal order, had been invoked.
LEMMA CutIsLegal ==
  ASSUME NEW operations, Recorded(operations), Legal(operations), NEW t \in Nat
  PROVE  Legal(CutAt(operations, t))
<1>1. PICK cut : cut = CutAt(operations, t)
  OBVIOUS
<1>2. /\ Recorded(cut) /\ DOMAIN cut = {i \in DOMAIN operations : operations[i].invoked <= t}
      /\ \A i \in DOMAIN cut :
           /\ SameEffect(operations[i], cut[i]) /\ cut[i].invoked = operations[i].invoked
           /\ cut[i].completed <=> operations[i].completed /\ operations[i].returned <= t
           /\ cut[i].completed => cut[i] = operations[i]
  BY <1>1, CutOf
<1>3. PICK pre, pre2 : pre = BeforeIn(operations) /\ pre2 = BeforeIn(cut)
  OBVIOUS
<1>4. PICK n, order : Accounts(order, n, None, operations, pre)
  BY <1>3, LegalWitness
<1>5. /\ n \in Nat /\ order \in [1 .. n -> DOMAIN operations]
      /\ \A i, j \in 1 .. n : i < j => order[j] \notin pre[order[i]]
      /\ \A o \in DOMAIN operations : operations[o].completed => \E i \in 1 .. n : order[i] = o
  BY <1>4 DEF Accounts, Lawful
<1> DEFINE Early(o) == operations[o].completed /\ operations[o].returned <= t
<1>6. PICK m \in 0 .. n : /\ \A i \in 1 .. n : Early(order[i]) => i <= m
                          /\ m # 0 => Early(order[m])
  <2>1. PICK S : S = {i \in 1 .. n : Early(order[i])}
    OBVIOUS
  <2>2. CASE S = {}
    <3>1. 0 \in 0 .. n
      BY <1>5
    <3>2. QED
      BY <2>1, <2>2, <3>1
  <2>3. CASE S # {}
    <3>1. S \in SUBSET (0 .. n)
      BY <1>5, <2>1
    <3>2. PICK m \in S : \A i \in S : i <= m
      BY <1>5, <2>3, <3>1, GreatestNatural
    <3>3. m \in 0 .. n
      BY <3>1
    <3>4. QED
      BY <2>1, <3>2, <3>3
  <2>4. QED
    BY <2>2, <2>3
<1>7. ASSUME NEW i \in 1 .. m PROVE order[i] \in DOMAIN cut
  <2>1. /\ i \in 1 .. n /\ m \in 1 .. n /\ order[i] \in DOMAIN operations
        /\ order[m] \in DOMAIN operations /\ Early(order[m]) /\ (i # m => i < m)
    BY <1>5, <1>6
  <2>2. PICK o, p : o = operations[order[i]] /\ p = operations[order[m]]
    OBVIOUS
  <2>3. Timed(o) /\ Timed(p)
    BY <2>1, <2>2 DEF Recorded
  <2>4. /\ o.invoked \in 0 .. Horizon /\ p.invoked \in 0 .. Horizon /\ p.completed
        /\ p.returned \in 0 .. Horizon /\ p.returned # Never /\ p.invoked <= p.returned
        /\ p.returned <= t
    BY <2>1, <2>2, <2>3, TimesOf
  <2>5. o.invoked <= t
    <3>1. CASE i = m
      BY <2>2, <2>4, <3>1
    <3>2. CASE i # m
      <4>1. SUFFICES ASSUME ~ (o.invoked <= t) PROVE FALSE
        OBVIOUS
      <4>2. p.returned < o.invoked
        BY <2>4, <4>1
      <4>3. Precedes(p, o)
        BY <2>4, <4>2 DEF Precedes
      <4>4. order[m] \in pre[order[i]]
        BY <1>3, <2>1, <2>2, <4>3 DEF BeforeIn
      <4>5. QED
        BY <1>5, <2>1, <3>2, <4>4
    <3>3. QED
      BY <3>1, <3>2
  <2>6. QED
    BY <1>2, <2>1, <2>2, <2>5
<1>8. Suffices(order, m, operations, pre, cut, pre2)
  <2>1. ASSUME NEW i \in 1 .. m
        PROVE  /\ order[i] \in DOMAIN cut /\ SameEffect(operations[order[i]], cut[order[i]])
               /\ cut[order[i]].completed =>
                    operations[order[i]].completed
                      /\ cut[order[i]].result = operations[order[i]].result
    <3>1. order[i] \in DOMAIN cut
      BY <1>7
    <3>2. QED
      BY <1>2, <3>1
  <2>2. ASSUME NEW o \in DOMAIN cut, cut[o].completed PROVE \E i \in 1 .. m : order[i] = o
    <3>1. o \in DOMAIN operations /\ Early(o)
      BY <1>2, <2>2
    <3>2. PICK i \in 1 .. n : order[i] = o
      BY <1>5, <3>1
    <3>3. i \in 1 .. m
      BY <1>6, <3>1, <3>2
    <3>4. QED
      BY <3>2, <3>3
  <2>3. ASSUME NEW i \in 1 .. m, NEW j \in 1 .. m, order[j] \in pre2[order[i]]
        PROVE  order[j] \in pre[order[i]]
    <3>1. order[i] \in DOMAIN cut /\ order[j] \in DOMAIN cut
      BY <1>7
    <3>2. Precedes(cut[order[j]], cut[order[i]])
      BY <1>3, <2>3, <3>1 DEF BeforeIn
    <3>3. /\ order[i] \in DOMAIN operations /\ order[j] \in DOMAIN operations
          /\ cut[order[j]] = operations[order[j]]
          /\ cut[order[i]].invoked = operations[order[i]].invoked
      BY <1>2, <3>1, <3>2 DEF Precedes
    <3>4. Precedes(operations[order[j]], operations[order[i]])
      BY <3>2, <3>3 DEF Precedes
    <3>5. QED
      BY <1>3, <3>3, <3>4 DEF BeforeIn
  <2>4. QED
    BY <2>1, <2>2, <2>3 DEF Suffices
<1>9. \E line : Accounts(line, m, None, cut, pre2)
  <2>1. Lawful(order, n, None, operations, pre)
    BY <1>4 DEF Accounts
  <2>2. QED
    BY <1>8, <2>1, CarryOver
<1>10. QED
  BY <1>1, <1>2, <1>3, <1>9, LegalWitness

\* A cut after everything that returned leaves nothing out that matters.
LEMMA LastCutIsAll ==
  ASSUME NEW operations, Recorded(operations), NEW t \in Nat,
         \A i \in Completed(operations) : operations[i].returned <= t,
         Legal(CutAt(operations, t))
  PROVE  Legal(operations)
<1>1. PICK cut : cut = CutAt(operations, t)
  OBVIOUS
<1>2. /\ Recorded(cut) /\ DOMAIN cut = {i \in DOMAIN operations : operations[i].invoked <= t}
      /\ \A i \in DOMAIN cut :
           /\ SameEffect(operations[i], cut[i]) /\ cut[i].invoked = operations[i].invoked
           /\ cut[i].completed <=> operations[i].completed /\ operations[i].returned <= t
           /\ cut[i].completed => cut[i] = operations[i]
  BY <1>1, CutOf
<1>3. ASSUME NEW i \in DOMAIN operations, operations[i].completed
      PROVE  i \in DOMAIN cut /\ cut[i].completed /\ cut[i] = operations[i]
  <2>1. Timed(operations[i]) /\ operations[i].returned <= t
    BY <1>3 DEF Recorded, Completed
  <2>2. operations[i].invoked <= t
    <3>1. /\ operations[i].invoked \in 0 .. Horizon /\ operations[i].returned \in 0 .. Horizon
          /\ operations[i].invoked <= operations[i].returned
      BY <1>3, <2>1, TimesOf
    <3>2. QED
      BY <2>1, <3>1
  <2>3. i \in DOMAIN cut
    BY <1>2, <2>2
  <2>4. QED
    BY <1>2, <1>3, <2>1, <2>3
<1>4. PICK pre, pre2 : pre = BeforeIn(cut) /\ pre2 = BeforeIn(operations)
  OBVIOUS
<1>5. PICK n, order : Accounts(order, n, None, cut, pre)
  BY <1>1, <1>2, <1>4, LegalWitness
<1>6. /\ n \in Nat /\ order \in [1 .. n -> DOMAIN cut] /\ Lawful(order, n, None, cut, pre)
      /\ \A o \in DOMAIN cut : cut[o].completed => \E i \in 1 .. n : order[i] = o
  BY <1>5 DEF Accounts, Lawful
<1>7. Suffices(order, n, cut, pre, operations, pre2)
  <2>1. ASSUME NEW i \in 1 .. n
        PROVE  /\ order[i] \in DOMAIN operations
               /\ SameEffect(cut[order[i]], operations[order[i]])
               /\ operations[order[i]].completed =>
                    cut[order[i]].completed
                      /\ operations[order[i]].result = cut[order[i]].result
    <3>1. order[i] \in DOMAIN cut /\ order[i] \in DOMAIN operations
      BY <1>2, <1>6
    <3>2. SameEffect(cut[order[i]], operations[order[i]])
      BY <1>2, <3>1 DEF SameEffect
    <3>3. QED
      BY <1>3, <3>1, <3>2
  <2>2. \A o \in DOMAIN operations : operations[o].completed => \E i \in 1 .. n : order[i] = o
    BY <1>3, <1>6
  <2>3. ASSUME NEW i \in 1 .. n, NEW j \in 1 .. n, order[j] \in pre2[order[i]]
        PROVE  order[j] \in pre[order[i]]
    <3>1. /\ order[i] \in DOMAIN cut /\ order[j] \in DOMAIN cut
          /\ order[i] \in DOMAIN operations /\ order[j] \in DOMAIN operations
      BY <1>2, <1>6
    <3>2. Precedes(operations[order[j]], operations[order[i]])
      BY <1>4, <2>3, <3>1 DEF BeforeIn
    <3>3. operations[order[j]].completed
      BY <3>2 DEF Precedes
    <3>4. cut[order[j]] = operations[order[j]]
          /\ cut[order[i]].invoked = operations[order[i]].invoked
      BY <1>2, <1>3, <3>1, <3>3
    <3>5. Precedes(cut[order[j]], cut[order[i]])
      BY <3>2, <3>4 DEF Precedes
    <3>6. QED
      BY <1>4, <3>1, <3>5 DEF BeforeIn
  <2>4. QED
    BY <2>1, <2>2, <2>3 DEF Suffices
<1>8. \E line : Accounts(line, n, None, operations, pre2)
  <2>1. n \in 0 .. n
    BY <1>6
  <2>2. QED
    BY <1>6, <1>7, <2>1, CarryOver
<1>9. QED
  BY <1>4, <1>8, LegalWitness

\* A history in which nothing completed is legal.
LEMMA NothingCompleted ==
  ASSUME NEW operations, Recorded(operations), Completed(operations) = {}
  PROVE  Legal(operations)
<1>1. PICK memo : memo = [placed |-> {}, state |-> None]
  OBVIOUS
<1>2. memo.placed = {} /\ memo.state = None /\ Completed(operations) \subseteq memo.placed
  BY <1>1
<1>3. QED
  BY <1>2, NothingPlaced, EverythingPlaced

LEMMA KeyRecorded ==
  ASSUME HistoryInv, NEW k
  PROVE  /\ Recorded(OperationsOn(k))
         /\ DOMAIN OperationsOn(k) = {i \in DOMAIN history : history[i].key = k}
         /\ \A i \in DOMAIN OperationsOn(k) : OperationsOn(k)[i] = history[i]
<1>1. /\ DOMAIN OperationsOn(k) = {i \in DOMAIN history : history[i].key = k}
      /\ \A i \in DOMAIN OperationsOn(k) : OperationsOn(k)[i] = history[i]
      /\ OperationsOn(k) = [i \in DOMAIN OperationsOn(k) |-> OperationsOn(k)[i]]
  BY DEF OperationsOn
<1>2. DOMAIN history = 1 .. Len(history) /\ Len(history) \in Nat
  BY DEF HistoryInv
<1>3. IsFiniteSet(DOMAIN history) /\ DOMAIN history \subseteq Nat
  BY <1>2, FS_Interval
<1>4. IsFiniteSet(DOMAIN OperationsOn(k))
  <2>1. DOMAIN OperationsOn(k) \in SUBSET DOMAIN history
    BY <1>1
  <2>2. QED
    BY <1>3, <2>1, FS_Subset
<1>5. \A i \in DOMAIN OperationsOn(k) : Timed(OperationsOn(k)[i])
  BY <1>1 DEF HistoryInv
<1>6. QED
  BY <1>1, <1>3, <1>4, <1>5 DEF Recorded

\* The first to return, of some that did.
LEMMA FirstOf ==
  ASSUME HistoryInv, NEW S \in SUBSET Completed(history), S # {}
  PROVE  /\ FirstReturned(S) \in S
         /\ \A j \in S : history[FirstReturned(S)].returned <= history[j].returned
<1>1. ASSUME NEW i \in S
      PROVE  /\ i \in Nat /\ history[i].returned \in 0 .. Horizon
             /\ history[i].returned \in Nat
  <2>1. i \in DOMAIN history /\ history[i].completed /\ DOMAIN history = 1 .. Len(history)
    BY DEF Completed, HistoryInv
  <2>2. Timed(history[i])
    BY <2>1 DEF HistoryInv
  <2>3. QED
    BY <2>1, <2>2, TimesOf
<1>2. PICK r \in Nat : (\E i \in S : history[i].returned = r)
                       /\ \A i \in S : r <= history[i].returned
  <2>1. PICK Times : Times = {n \in Nat : \E i \in S : history[i].returned = n}
    OBVIOUS
  <2>2. Times \in SUBSET Nat /\ Times # {}
    <3>1. PICK i \in S : TRUE
      OBVIOUS
    <3>2. history[i].returned \in Times
      BY <1>1, <2>1
    <3>3. QED
      BY <2>1, <3>2
  <2>3. PICK r \in Times : \A m \in Times : r <= m
    BY <2>2, LeastNatural
  <2>4. QED
    BY <1>1, <2>1, <2>3
<1>3. PICK i \in S : /\ history[i].returned = r
                     /\ \A j \in S : history[j].returned = r => i <= j
  <2>1. PICK Places : Places = {j \in S : history[j].returned = r}
    OBVIOUS
  <2>2. Places \in SUBSET Nat /\ Places # {}
    BY <1>1, <1>2, <2>1
  <2>3. PICK i \in Places : \A j \in Places : i <= j
    BY <2>2, LeastNatural
  <2>4. QED
    BY <2>1, <2>3
<1> DEFINE IsFirst(x) ==
             \A j \in S :
               history[x].returned < history[j].returned
                 \/ (history[x].returned = history[j].returned /\ x <= j)
<1>4. IsFirst(i)
  <2> SUFFICES ASSUME NEW j \in S
               PROVE  history[i].returned < history[j].returned
                        \/ (history[i].returned = history[j].returned /\ i <= j)
    OBVIOUS
  <2>1. r <= history[j].returned /\ history[j].returned \in Nat
    BY <1>1, <1>2
  <2>2. QED
    BY <1>3, <2>1
<1>5. FirstReturned(S) = CHOOSE x \in S : IsFirst(x)
  BY DEF FirstReturned
<1>6. PICK first : first = FirstReturned(S)
  OBVIOUS
<1>7. first \in S /\ IsFirst(first)
  <2> HIDE DEF IsFirst
  <2>1. QED
    BY <1>4, <1>5, <1>6
<1>8. \A j \in S : history[first].returned <= history[j].returned
  <2> SUFFICES ASSUME NEW j \in S PROVE history[first].returned <= history[j].returned
    OBVIOUS
  <2>1. history[first].returned \in Nat /\ history[j].returned \in Nat
    BY <1>1, <1>7
  <2>2. QED
    BY <1>7, <2>1
<1>9. QED
  BY <1>6, <1>7, <1>8

-----------------------------------------------------------------------------
(* One key at a time.                                                      *)

\* An order of everything holds an order of each key's operations.
LEMMA KeysApart ==
  ASSUME HistoryInv, LegalTogether, NEW k \in Keys
  PROVE  Legal(OperationsOn(k))
<1>1. PICK unfinished \in SUBSET (DOMAIN history \ Completed(history)) :
        \E order \in Lines(Completed(history) \cup unfinished) :
          \A l \in Keys : \E line \in Lines({o \in Range(order) : history[o].key = l}) :
            Follows(line, order) /\ Explains(None, history, BeforeIn(history), line)
  BY DEF LegalTogether
<1>2. PICK S : S = Completed(history) \cup unfinished
  OBVIOUS
<1>3. PICK order \in Lines(S) :
        \E line \in Lines({o \in Range(order) : history[o].key = k}) :
          Explains(None, history, BeforeIn(history), line)
  BY <1>1, <1>2
<1>4. S \subseteq DOMAIN history /\ Completed(history) \subseteq S
  BY <1>2 DEF Completed
<1>5. IsFiniteSet(DOMAIN history) /\ IsFiniteSet(S)
  <2>1. DOMAIN history = 1 .. Len(history) /\ Len(history) \in Nat
    BY DEF HistoryInv
  <2>2. IsFiniteSet(DOMAIN history)
    BY <2>1, FS_Interval
  <2>3. QED
    BY <1>4, <2>2, FS_Subset
<1>6. Range(order) = S
  <2>1. /\ order \in [1 .. Cardinality(S) -> S] /\ DOMAIN order = 1 .. Cardinality(S)
        /\ \A x \in S : \E i \in 1 .. Cardinality(S) : order[i] = x
    BY <1>5, LineIsEnumeration
  <2>2. QED
    BY <2>1 DEF Range
<1>7. PICK T : T = {o \in S : history[o].key = k}
  OBVIOUS
<1>8. IsFiniteSet(T)
  BY <1>5, <1>7, FS_Subset
<1>9. PICK line \in Lines(T) : Explains(None, history, BeforeIn(history), line)
  BY <1>3, <1>6, <1>7
<1>10. PICK n : n = Cardinality(T)
  OBVIOUS
<1>11. /\ n \in Nat /\ line \in [1 .. n -> T] /\ Len(line) = n
       /\ \A i, j \in 1 .. n : line[i] = line[j] => i = j
       /\ \A x \in T : \E i \in 1 .. n : line[i] = x
  BY <1>8, <1>10, LineIsEnumeration
<1>12. PICK all, mine, pre, pre2 :
         /\ all = history /\ mine = OperationsOn(k)
         /\ pre = BeforeIn(all) /\ pre2 = BeforeIn(mine)
  OBVIOUS
<1>13. /\ Recorded(mine) /\ DOMAIN mine = {i \in DOMAIN all : all[i].key = k}
       /\ \A i \in DOMAIN mine : mine[i] = all[i]
  BY <1>12, KeyRecorded
<1>14. Lawful(line, n, None, all, pre)
  <2>1. line \in [1 .. n -> DOMAIN all]
    BY <1>4, <1>7, <1>11, <1>12
  <2>2. QED
    BY <1>9, <1>11, <1>12, <2>1 DEF Lawful, Explains
<1>15. Suffices(line, n, all, pre, mine, pre2)
  <2>1. ASSUME NEW i \in 1 .. n PROVE line[i] \in DOMAIN mine /\ mine[line[i]] = all[line[i]]
    BY <1>4, <1>7, <1>11, <1>12, <1>13
  <2>2. ASSUME NEW o \in DOMAIN mine, mine[o].completed PROVE \E i \in 1 .. n : line[i] = o
    <3>1. o \in T
      BY <1>4, <1>7, <1>12, <1>13, <2>2 DEF Completed
    <3>2. QED
      BY <1>11, <3>1
  <2>3. ASSUME NEW i \in 1 .. n, NEW j \in 1 .. n, line[j] \in pre2[line[i]]
        PROVE  line[j] \in pre[line[i]]
    <3>1. line[i] \in DOMAIN mine /\ line[j] \in DOMAIN mine
      BY <2>1
    <3>2. QED
      BY <1>12, <1>13, <2>3, <3>1 DEF BeforeIn
  <2>4. QED
    BY <2>1, <2>2, <2>3 DEF Suffices, SameEffect
<1>16. \E other : Accounts(other, n, None, mine, pre2)
  <2>1. n \in 0 .. n
    BY <1>11
  <2>2. QED
    BY <1>14, <1>15, <2>1, CarryOver
<1>17. QED
  BY <1>12, <1>13, <1>16, LegalWitness

\* Legal orders of each key's operations.
LawfulByKey(order, n) ==
  \A k \in Keys : Accounts(order[k], n[k], None, OperationsOn(k), BeforeIn(OperationsOn(k)))

LEMMA OrdersByKey ==
  ASSUME HistoryInv, \A k \in Keys : Legal(OperationsOn(k))
  PROVE  \E order, n : LawfulByKey(order, n)
<1> DEFINE Is(k, w) ==
             Accounts(w.order, w.n, None, OperationsOn(k), BeforeIn(OperationsOn(k)))
           Found(k) == CHOOSE w : Is(k, w)
<1>1. ASSUME NEW k \in Keys PROVE Is(k, Found(k))
  <2>1. Recorded(OperationsOn(k))
    BY KeyRecorded
  <2>2. PICK n, order : Accounts(order, n, None, OperationsOn(k), BeforeIn(OperationsOn(k)))
    BY <2>1, LegalWitness
  <2>3. Is(k, [order |-> order, n |-> n])
    BY <2>2
  <2> HIDE DEF Is
  <2>4. QED
    BY <2>3
<1> HIDE DEF Found
<1>2. LawfulByKey([k \in Keys |-> Found(k).order], [k \in Keys |-> Found(k).n])
  BY <1>1 DEF LawfulByKey
<1>3. QED
  BY <1>2

\* The same, of the whole history.
ByKey(order, n) ==
  \A k \in Keys :
    /\ n[k] \in Nat /\ order[k] \in [1 .. n[k] -> DOMAIN history]
    /\ \A i \in 1 .. n[k] : history[order[k][i]].key = k
    /\ \A i, j \in 1 .. n[k] : order[k][i] = order[k][j] => i = j
    /\ \A i, j \in 1 .. n[k] :
         i < j => ~ Precedes(history[order[k][j]], history[order[k][i]])
    /\ \A o \in Completed(history) :
         history[o].key = k => \E i \in 1 .. n[k] : order[k][i] = o
    /\ Explains(None, history, BeforeIn(history), order[k])

LEMMA ByKeyHolds ==
  ASSUME HistoryInv, NEW order, NEW n, LawfulByKey(order, n)
  PROVE  ByKey(order, n)
<1> SUFFICES ASSUME NEW k \in Keys
             PROVE  /\ n[k] \in Nat /\ order[k] \in [1 .. n[k] -> DOMAIN history]
                    /\ \A i \in 1 .. n[k] : history[order[k][i]].key = k
                    /\ \A i, j \in 1 .. n[k] : order[k][i] = order[k][j] => i = j
                    /\ \A i, j \in 1 .. n[k] :
                         i < j => ~ Precedes(history[order[k][j]], history[order[k][i]])
                    /\ \A o \in Completed(history) :
                         history[o].key = k => \E i \in 1 .. n[k] : order[k][i] = o
                    /\ Explains(None, history, BeforeIn(history), order[k])
  BY DEF ByKey
<1>1. PICK line, m, mine, pre :
        line = order[k] /\ m = n[k] /\ mine = OperationsOn(k) /\ pre = BeforeIn(mine)
  OBVIOUS
<1>2. Accounts(line, m, None, mine, pre)
  BY <1>1 DEF LawfulByKey
<1>3. /\ m \in Nat /\ line \in [1 .. m -> DOMAIN mine] /\ Len(line) = m
      /\ \A i, j \in 1 .. m : line[i] = line[j] => i = j
      /\ \A i, j \in 1 .. m : i < j => line[j] \notin pre[line[i]]
      /\ \A i \in 1 .. m : Matches(mine[line[i]], StatesAlong(None, mine, line)[i-1])
      /\ \A o \in DOMAIN mine : mine[o].completed => \E i \in 1 .. m : line[i] = o
  BY <1>2 DEF Accounts, Lawful
<1>4. PICK all : all = history
  OBVIOUS
<1>5. /\ DOMAIN mine = {i \in DOMAIN all : all[i].key = k}
      /\ \A i \in DOMAIN mine : mine[i] = all[i]
  BY <1>1, <1>4, KeyRecorded
<1>6. \A i \in 1 .. m : /\ line[i] \in DOMAIN mine /\ line[i] \in DOMAIN all
                        /\ mine[line[i]] = all[line[i]] /\ all[line[i]].key = k
  BY <1>3, <1>5
<1>7. line \in [1 .. m -> DOMAIN all]
  BY <1>3, <1>6
<1>8. ASSUME NEW i \in 1 .. m, NEW j \in 1 .. m, i < j
      PROVE  ~ Precedes(all[line[j]], all[line[i]]) /\ line[j] \notin BeforeIn(all)[line[i]]
  <2>1. line[j] \notin pre[line[i]]
    BY <1>3, <1>8
  <2>2. ~ Precedes(mine[line[j]], mine[line[i]])
    BY <1>1, <1>6, <2>1 DEF BeforeIn
  <2>3. ~ Precedes(all[line[j]], all[line[i]])
    BY <1>6, <2>2
  <2>4. QED
    BY <1>6, <2>3 DEF BeforeIn
<1>9. ASSUME NEW o \in Completed(all), all[o].key = k PROVE \E i \in 1 .. m : line[i] = o
  <2>1. o \in DOMAIN mine /\ mine[o].completed
    BY <1>5, <1>9 DEF Completed
  <2>2. QED
    BY <1>3, <2>1
<1>10. \A p \in 0 .. m : StatesAlong(None, all, line)[p] = StatesAlong(None, mine, line)[p]
  <2>1. Alike(mine, all, line, m)
    BY <1>3, <1>6 DEF Alike, SameEffect
  <2>2. QED
    BY <2>1, StatesAlike
<1>11. \A i \in 1 .. m : Matches(all[line[i]], StatesAlong(None, all, line)[i-1])
  <2> SUFFICES ASSUME NEW i \in 1 .. m
               PROVE  Matches(all[line[i]], StatesAlong(None, all, line)[i-1])
    OBVIOUS
  <2>1. i - 1 \in 0 .. m
    BY <1>3
  <2>2. StatesAlong(None, all, line)[i-1] = StatesAlong(None, mine, line)[i-1]
    BY <1>10, <2>1
  <2>3. QED
    BY <1>3, <1>6, <2>2
<1>12. Explains(None, all, BeforeIn(all), line)
  BY <1>3, <1>8, <1>11 DEF Explains
<1>13. QED
  BY <1>1, <1>3, <1>4, <1>6, <1>7, <1>8, <1>9, <1>12

\* What the orders place.
Placed(order, n) ==
  {o \in DOMAIN history : \E i \in 1 .. n[history[o].key] : order[history[o].key][i] = o}

\* at[o] is the place of o in the order of its key, and point[o] a moment by
\* which everything up to o in that order had been invoked, and no earlier one.
IsPoint(order, at, point, o) ==
  LET line == order[history[o].key]
  IN  /\ \A i \in 1 .. at[o] : history[line[i]].invoked <= point[o]
      /\ \E i \in 1 .. at[o] : history[line[i]].invoked = point[o]

Points(order, n, at, point) ==
  \A o \in Placed(order, n) :
    /\ at[o] \in 1 .. n[history[o].key] /\ order[history[o].key][at[o]] = o
    /\ point[o] \in 0 .. Horizon /\ IsPoint(order, at, point, o)

LEMMA PointsExist ==
  ASSUME HistoryInv, NEW order, NEW n, ByKey(order, n)
  PROVE  \E at, point : Points(order, n, at, point)
<1> DEFINE S == Placed(order, n)
           line(o) == order[history[o].key]
           at == [o \in S |-> CHOOSE i \in 1 .. n[history[o].key] : line(o)[i] = o]
<1>1. ASSUME NEW o \in S
      PROVE  /\ o \in DOMAIN history /\ history[o].key \in Keys
             /\ at[o] \in 1 .. n[history[o].key] /\ line(o)[at[o]] = o
  <2>1. o \in DOMAIN history /\ \E i \in 1 .. n[history[o].key] : line(o)[i] = o
    BY DEF Placed
  <2>2. Timed(history[o])
    BY <2>1 DEF HistoryInv
  <2>3. history[o].key \in Keys
    BY <2>2, TimesOf
  <2>4. QED
    BY <2>1, <2>3
<1> HIDE DEF at
<1> DEFINE Invoked(o) == {t \in 0 .. Horizon : \E i \in 1 .. at[o] : history[line(o)[i]].invoked = t}
           IsLatest(o, t) == t \in Invoked(o) /\ \A u \in Invoked(o) : u <= t
           point == [o \in S |-> CHOOSE t : IsLatest(o, t)]
<1>2. ASSUME NEW o \in S, NEW i \in 1 .. at[o]
      PROVE  history[line(o)[i]].invoked \in Invoked(o)
  <2>1. /\ history[o].key \in Keys /\ at[o] \in 1 .. n[history[o].key]
        /\ n[history[o].key] \in Nat
    BY <1>1 DEF ByKey
  <2>2. i \in 1 .. n[history[o].key]
    BY <2>1
  <2>3. line(o)[i] \in DOMAIN history
    BY <2>1, <2>2 DEF ByKey
  <2>4. Timed(history[line(o)[i]])
    BY <2>3 DEF HistoryInv
  <2>5. history[line(o)[i]].invoked \in 0 .. Horizon
    BY <2>4, TimesOf
  <2>6. QED
    BY <2>5
<1>3. ASSUME NEW o \in S PROVE IsLatest(o, point[o])
  <2>1. 1 \in 1 .. at[o]
    <3>1. at[o] \in 1 .. n[history[o].key] /\ n[history[o].key] \in Nat
      BY <1>1 DEF ByKey
    <3>2. QED
      BY <3>1
  <2>2. Invoked(o) # {} /\ Invoked(o) \in SUBSET (0 .. Horizon) /\ Horizon \in Nat
    BY <1>2, <2>1, BoundsAssumption
  <2> HIDE DEF Invoked
  <2>3. PICK t \in Invoked(o) : \A u \in Invoked(o) : u <= t
    BY <2>2, GreatestNatural
  <2>4. IsLatest(o, t)
    BY <2>3
  <2>5. point[o] = CHOOSE u : IsLatest(o, u)
    OBVIOUS
  <2> HIDE DEF IsLatest, point
  <2>6. QED
    BY <2>4, <2>5
<1> HIDE DEF point
<1>4. ASSUME NEW o \in S PROVE point[o] \in 0 .. Horizon /\ IsPoint(order, at, point, o)
  <2>1. point[o] \in Invoked(o) /\ \A u \in Invoked(o) : u <= point[o]
    BY <1>3
  <2>2. \A i \in 1 .. at[o] : history[line(o)[i]].invoked <= point[o]
    <3> HIDE DEF Invoked
    <3>1. QED
      BY <1>2, <2>1
  <2>3. point[o] \in 0 .. Horizon /\ \E i \in 1 .. at[o] : history[line(o)[i]].invoked = point[o]
    BY <2>1
  <2>4. QED
    BY <2>2, <2>3 DEF IsPoint
<1>5. Points(order, n, at, point)
  BY <1>1, <1>4 DEF Points
<1>6. QED
  BY <1>5

\* By points; then by keys; then as the order of the key has it.
Sooner(at, point, o, p) ==
  \/ point[o] < point[p]
  \/ point[o] = point[p] /\ history[o].key < history[p].key
  \/ (point[o] = point[p] /\ history[o].key = history[p].key) /\ at[o] < at[p]

\* Locality: orders of each key's operations fit together.
LEMMA KeysTogether ==
  ASSUME HistoryInv, \A k \in Keys : Legal(OperationsOn(k))
  PROVE  LegalTogether
<1>1. PICK order, n : LawfulByKey(order, n)
  BY OrdersByKey
<1>2. ByKey(order, n)
  BY <1>1, ByKeyHolds
<1>3. PICK at, point : Points(order, n, at, point)
  BY <1>2, PointsExist
<1>4. PICK S : S = Placed(order, n)
  OBVIOUS
<1>5. ASSUME NEW o \in S
      PROVE  /\ o \in DOMAIN history /\ history[o].key \in Keys /\ history[o].key \in Nat
             /\ Timed(history[o]) /\ n[history[o].key] \in Nat
             /\ at[o] \in 1 .. n[history[o].key] /\ order[history[o].key][at[o]] = o
             /\ point[o] \in 0 .. Horizon /\ IsPoint(order, at, point, o)
  <2>1. /\ o \in DOMAIN history
        /\ at[o] \in 1 .. n[history[o].key] /\ order[history[o].key][at[o]] = o
        /\ point[o] \in 0 .. Horizon /\ IsPoint(order, at, point, o)
    BY <1>3, <1>4 DEF Points, Placed
  <2>2. Timed(history[o])
    BY <2>1 DEF HistoryInv
  <2>3. history[o].key \in Keys
    BY <2>2, TimesOf
  <2>4. QED
    BY <1>2, <2>1, <2>2, <2>3, KeysAssumption DEF ByKey
<1>6. S \subseteq DOMAIN history /\ IsFiniteSet(S)
  <2>1. DOMAIN history = 1 .. Len(history) /\ Len(history) \in Nat
    BY DEF HistoryInv
  <2>2. IsFiniteSet(DOMAIN history)
    BY <2>1, FS_Interval
  <2>3. QED
    BY <1>4, <2>2, FS_Subset DEF Placed
<1>7. ASSUME NEW k \in Keys, NEW i \in 1 .. n[k]
      PROVE  order[k][i] \in S /\ history[order[k][i]].key = k /\ at[order[k][i]] = i
  <2>1. order[k][i] \in DOMAIN history /\ history[order[k][i]].key = k
    BY <1>2 DEF ByKey
  <2>2. order[k][i] \in S
    BY <1>4, <2>1 DEF Placed
  <2>3. at[order[k][i]] \in 1 .. n[k] /\ order[k][at[order[k][i]]] = order[k][i]
    BY <1>5, <2>1, <2>2
  <2>4. QED
    BY <1>2, <2>1, <2>2, <2>3 DEF ByKey
<1> DEFINE Less == {e \in S \X S : Sooner(at, point, e[1], e[2])}
<1>8. \A o, p \in S : <<o, p>> \in Less <=> Sooner(at, point, o, p)
  OBVIOUS
<1>9. Less \in SUBSET (S \X S)
  OBVIOUS
<1> HIDE DEF Less
<1>10. ASSUME NEW o \in S PROVE point[o] \in Int /\ history[o].key \in Int /\ at[o] \in Int
  <2>1. /\ history[o].key \in Nat /\ n[history[o].key] \in Nat
        /\ at[o] \in 1 .. n[history[o].key] /\ point[o] \in 0 .. Horizon
    BY <1>5
  <2>2. QED
    BY <2>1
<1>11. Orders(Less, S)
  <2>1. \A x \in S : <<x, x>> \notin Less
    BY <1>8, <1>10 DEF Sooner
  <2>2. ASSUME NEW x \in S, NEW y \in S, x # y
        PROVE  <<x, y>> \in Less \/ <<y, x>> \in Less
    <3>1. ASSUME history[x].key = history[y].key PROVE at[x] # at[y]
      BY <1>5, <2>2, <3>1
    <3>2. Sooner(at, point, x, y) \/ Sooner(at, point, y, x)
      BY <1>10, <3>1 DEF Sooner
    <3>3. QED
      BY <1>8, <3>2
  <2>3. ASSUME NEW x \in S, NEW y \in S, NEW z \in S, <<x, y>> \in Less, <<y, z>> \in Less
        PROVE  <<x, z>> \in Less
    <3>1. Sooner(at, point, x, y) /\ Sooner(at, point, y, z)
      BY <1>8, <2>3
    <3>2. Sooner(at, point, x, z)
      BY <1>10, <3>1 DEF Sooner
    <3>3. QED
      BY <1>8, <3>2
  <2>4. QED
    BY <1>9, <2>1, <2>2, <2>3 DEF Orders
<1>12. PICK line : LinesUp(line, Less, S)
  BY <1>6, <1>11, LineUp
<1>13. PICK m : m = Cardinality(S)
  OBVIOUS
<1>14. /\ m \in Nat /\ line \in [1 .. m -> S]
       /\ \A i, j \in 1 .. m : i < j => Sooner(at, point, line[i], line[j])
       /\ \A x \in S : \E i \in 1 .. m : line[i] = x
  BY <1>6, <1>8, <1>12, <1>13, FS_CardinalityType DEF LinesUp
<1>15. \A i, j \in 1 .. m : line[i] = line[j] => i = j
  <2> SUFFICES ASSUME NEW i \in 1 .. m, NEW j \in 1 .. m, line[i] = line[j], i # j PROVE FALSE
    OBVIOUS
  <2>1. i < j \/ j < i
    OBVIOUS
  <2>2. Sooner(at, point, line[i], line[i])
    BY <1>14, <2>1
  <2>3. QED
    BY <1>10, <1>14, <2>2 DEF Sooner
<1>16. line \in Lines(S)
  BY <1>14, <1>15, EnumerationIsLine
<1>17. DOMAIN line = 1 .. m /\ Range(line) = S
  <2>1. DOMAIN line = 1 .. m
    BY <1>14
  <2>2. QED
    BY <1>14, <2>1 DEF Range
<1>18. Completed(history) \subseteq S
  <2> SUFFICES ASSUME NEW o \in Completed(history) PROVE o \in S
    OBVIOUS
  <2>1. o \in DOMAIN history
    BY DEF Completed
  <2>2. Timed(history[o])
    BY <2>1 DEF HistoryInv
  <2>3. history[o].key \in Keys
    BY <2>2, TimesOf
  <2>4. \E i \in 1 .. n[history[o].key] : order[history[o].key][i] = o
    BY <1>2, <2>3 DEF ByKey
  <2>5. QED
    BY <1>4, <2>1, <2>4 DEF Placed
<1>19. ASSUME NEW o \in S, NEW q \in S, Sooner(at, point, o, q) PROVE ~ Precedes(history[q], history[o])
  <2>1. SUFFICES ASSUME Precedes(history[q], history[o]) PROVE FALSE
    OBVIOUS
  <2>2. PICK k : k = history[q].key
    OBVIOUS
  <2>3. PICK i \in 1 .. at[q] : history[order[k][i]].invoked = point[q]
    BY <1>5, <2>2 DEF IsPoint
  <2>4. /\ at[q] \in 1 .. n[k] /\ order[k][at[q]] = q /\ k \in Keys /\ n[k] \in Nat
    BY <1>5, <2>2
  <2>5. i \in 1 .. n[k]
    BY <2>4
  <2>6. PICK x : x = order[k][i]
    OBVIOUS
  <2>7. x \in S /\ history[x].invoked = point[q]
    BY <1>7, <2>3, <2>4, <2>5, <2>6
  <2>8. /\ Timed(history[q]) /\ Timed(history[o]) /\ Timed(history[x])
        /\ history[q].completed /\ history[q].returned < history[o].invoked
    BY <1>5, <2>1, <2>7 DEF Precedes
  <2>9. /\ history[q].invoked \in 0 .. Horizon /\ history[q].returned \in 0 .. Horizon
        /\ history[q].invoked <= history[q].returned /\ history[q].returned # Never
        /\ history[o].invoked \in 0 .. Horizon /\ history[x].invoked \in 0 .. Horizon
    BY <2>8, TimesOf
  <2>10. history[o].invoked <= point[o]
    <3>1. PICK l, j : l = history[o].key /\ j = at[o]
      OBVIOUS
    <3>2. j \in 1 .. j /\ order[l][j] = o
      BY <1>5, <3>1
    <3>3. QED
      BY <1>5, <3>1, <3>2 DEF IsPoint
  <2>11. point[o] <= point[q]
    BY <1>10, <1>19 DEF Sooner
  <2>12. point[o] \in Int /\ point[q] \in Int
    BY <1>10
  <2>13. history[q].returned < history[x].invoked
    BY <2>7, <2>8, <2>9, <2>10, <2>11, <2>12
  <2>14. Precedes(history[q], history[x])
    BY <2>8, <2>9, <2>13 DEF Precedes
  <2>15. i # at[q]
    BY <2>4, <2>6, <2>9, <2>13
  <2>16. i < at[q]
    BY <2>4, <2>15
  <2>17. ~ Precedes(history[order[k][at[q]]], history[order[k][i]])
    BY <1>2, <2>4, <2>5, <2>16 DEF ByKey
  <2>18. QED
    BY <2>4, <2>6, <2>14, <2>17
<1>20. ASSUME NEW i \in DOMAIN line, NEW j \in DOMAIN line, i < j
       PROVE  ~ Precedes(history[line[j]], history[line[i]])
  BY <1>14, <1>17, <1>19, <1>20
<1>21. ASSUME NEW k \in Keys
       PROVE  /\ order[k] \in Lines({o \in Range(line) : history[o].key = k})
              /\ Follows(order[k], line)
              /\ Explains(None, history, BeforeIn(history), order[k])
  <2>1. PICK T, mine, l : T = {o \in S : history[o].key = k} /\ mine = order[k] /\ l = n[k]
    OBVIOUS
  <2>2. l \in Nat /\ DOMAIN mine = 1 .. l /\ mine \in [1 .. l -> T]
    <3>1. l \in Nat /\ mine \in [1 .. l -> DOMAIN history]
      BY <1>2, <2>1 DEF ByKey
    <3>2. \A i \in 1 .. l : mine[i] \in T
      BY <1>7, <2>1
    <3>3. QED
      BY <3>1, <3>2
  <2>3. \A i, j \in 1 .. l : mine[i] = mine[j] => i = j
    BY <1>2, <2>1 DEF ByKey
  <2>4. \A x \in T : \E i \in 1 .. l : mine[i] = x
    BY <1>5, <2>1
  <2>5. mine \in Lines(T)
    BY <2>2, <2>3, <2>4, EnumerationIsLine
  <2>6. ASSUME NEW i \in DOMAIN mine, NEW j \in DOMAIN mine, i < j
        PROVE  \E p, q \in DOMAIN line : p < q /\ line[p] = mine[i] /\ line[q] = mine[j]
    <3>1. /\ i \in 1 .. n[k] /\ j \in 1 .. n[k]
          /\ mine[i] \in S /\ mine[j] \in S
          /\ history[mine[i]].key = k /\ history[mine[j]].key = k
          /\ at[mine[i]] = i /\ at[mine[j]] = j
      BY <1>7, <2>1, <2>2
    <3>2. point[mine[i]] <= point[mine[j]]
      <4>1. PICK h \in 1 .. i : history[mine[h]].invoked = point[mine[i]]
        BY <1>5, <2>1, <3>1 DEF IsPoint
      <4>2. h \in 1 .. j
        BY <2>2, <2>6, <3>1, <4>1
      <4>3. \A g \in 1 .. j : history[mine[g]].invoked <= point[mine[j]]
        BY <1>5, <2>1, <3>1 DEF IsPoint
      <4>4. QED
        BY <4>1, <4>2, <4>3
    <3>3. Sooner(at, point, mine[i], mine[j])
      BY <1>10, <2>6, <3>1, <3>2 DEF Sooner
    <3>4. PICK p \in 1 .. m, q \in 1 .. m : line[p] = mine[i] /\ line[q] = mine[j]
      BY <1>14, <3>1
    <3>5. p < q
      <4>1. SUFFICES ASSUME ~ (p < q) PROVE FALSE
        OBVIOUS
      <4>2. p = q \/ q < p
        BY <4>1
      <4>3. Sooner(at, point, mine[j], mine[i]) \/ mine[i] = mine[j]
        BY <1>14, <3>4, <4>2
      <4>4. mine[i] # mine[j]
        BY <2>6, <3>1
      <4>5. QED
        BY <1>10, <2>6, <3>1, <3>3, <4>3, <4>4 DEF Sooner
    <3>6. p \in DOMAIN line /\ q \in DOMAIN line
      BY <1>17
    <3>7. QED
      BY <3>4, <3>5, <3>6
  <2>7. Follows(mine, line)
    BY <2>6 DEF Follows
  <2>8. Explains(None, history, BeforeIn(history), mine)
    BY <1>2, <2>1 DEF ByKey
  <2>9. QED
    BY <1>17, <2>1, <2>5, <2>7, <2>8
<1>22. S \ Completed(history) \in SUBSET (DOMAIN history \ Completed(history))
       /\ Completed(history) \cup (S \ Completed(history)) = S
  BY <1>6, <1>18
<1>23. QED
  BY <1>16, <1>20, <1>21, <1>22 DEF LegalTogether

-----------------------------------------------------------------------------
(* The verdict.                                                            *)

\* The search is that of the key, and the keys before it are legal.
CheckInv ==
  task = "check" =>
    /\ ops = OperationsOn(key)
    /\ \A k \in Keys : k < key => Legal(OperationsOn(k))

\* What has been looked at is legal up to its return.
ClearedUpTo(k, left) ==
  \A i \in Completed(OperationsOn(k)) \ left :
    Legal(CutAt(OperationsOn(k), history[i].returned))

\* The search is that of the cut at the next return.
BlameInv ==
  task = "blame" =>
    /\ ~ Legal(OperationsOn(key)) /\ suspects # {}
    /\ suspects \subseteq Completed(OperationsOn(key))
    /\ ops = CutAt(OperationsOn(key), history[FirstReturned(suspects)].returned)
    /\ ClearedUpTo(key, suspects)

VerdictInv ==
  /\ task # "done" => verdict.kind = "none"
  /\ verdict.kind = "linearizable" => \A k \in Keys : Legal(OperationsOn(k))
  /\ verdict.kind = "violated" =>
       /\ ~ Legal(OperationsOn(key))
       /\ verdict.operation \in Completed(OperationsOn(key))
       /\ \A i \in Completed(OperationsOn(key)) :
            history[i].returned < history[verdict.operation].returned =>
              Legal(CutAt(OperationsOn(key), history[i].returned))

TaskInv ==
  /\ DOMAIN ops \subseteq DOMAIN history /\ key \in Keys
  /\ task \in {"record", "check", "blame", "done"}
  /\ task = "record" => suspects = {}
  /\ suspects \subseteq Completed(history)
  /\ CheckInv /\ BlameInv /\ VerdictInv

CheckerInv == HistoryInv /\ SearchInv /\ TaskInv

LEMMA CheckerStart == Init => CheckerInv
<1> SUFFICES ASSUME Init PROVE CheckerInv
  OBVIOUS
<1>1. HistoryInv
  BY HistoryStart
<1>2. DOMAIN ops = {} /\ Recorded(ops)
  <2>1. DOMAIN ops = {} /\ ops = [i \in {} |-> ops[i]]
    BY DEF Init
  <2>2. QED
    BY <2>1, FS_EmptySet DEF Recorded
<1>3. SearchInv
  <2>1. StackInv(ops, stack, seen, {})
    BY DEF Init, StackInv
  <2>2. /\ budget \in Nat /\ spent \in 0 .. budget + 1 /\ spent <= budget
        /\ found = "open" /\ seen = {}
    BY DEF Init
  <2>3. QED
    BY <1>2, <2>1, <2>2 DEF SearchInv
<1>4. key \in Keys
  BY KeysAssumption, LeastOf DEF Init
<1>5. /\ task = "record" /\ suspects = {} /\ verdict.kind = "none"
  BY DEF Init
<1>6. QED
  BY <1>1, <1>2, <1>3, <1>4, <1>5 DEF CheckerInv, TaskInv, CheckInv, BlameInv, VerdictInv

\* While the history is recorded.
LEMMA RecordingKeeps ==
  ASSUME CheckerInv, HistoryInv', NEW t, Record(t), Len(history) <= Len(history')
  PROVE  CheckerInv'
<1>1. /\ task = "record" /\ task' = task
      /\ UNCHANGED <<key, budget, suspects, searchVars, verdict>>
  BY DEF Record
<1>2. SearchInv'
  BY <1>1, SearchStays DEF CheckerInv
<1>3. DOMAIN history \subseteq DOMAIN history'
  <2>1. PICK m, n : m = Len(history) /\ n = Len(history')
    OBVIOUS
  <2>2. /\ DOMAIN history = 1 .. m /\ DOMAIN history' = 1 .. n /\ m \in Nat /\ n \in Nat
        /\ m <= n
    BY <2>1 DEF HistoryInv, CheckerInv
  <2>3. QED
    BY <2>2
<1>4. TaskInv'
  <2>1. /\ ops' = ops /\ key' = key /\ suspects' = {} /\ verdict' = verdict
        /\ verdict.kind = "none" /\ key \in Keys /\ DOMAIN ops \subseteq DOMAIN history
    BY <1>1 DEF searchVars, CheckerInv, TaskInv, VerdictInv
  <2>2. QED
    BY <1>1, <1>3, <2>1 DEF TaskInv, CheckInv, BlameInv, VerdictInv
<1>5. QED
  BY <1>2, <1>4 DEF CheckerInv

LEMMA RecordStepsKeep ==
  ASSUME CheckerInv, NEW c \in Clients,
         \/ \E t \in now .. Horizon, what \in Repertoire : Invoke(c, what, t)
         \/ \E t \in now .. Horizon : Complete(c, t)
         \/ GiveUp(c)
  PROVE  CheckerInv'
<1>1. HistoryInv /\ history \in Seq(Operations) /\ Len(history) \in Nat
  BY DEF CheckerInv, HistoryInv
<1>2. ASSUME NEW t \in now .. Horizon, NEW what \in Repertoire, Invoke(c, what, t)
      PROVE  CheckerInv'
  <2>1. HistoryInv' /\ Record(t)
    BY <1>1, <1>2, InvokeKeepsHistory DEF Invoke
  <2>2. Len(history') = Len(history) + 1
    BY <1>1, <1>2 DEF Invoke
  <2>3. Len(history) <= Len(history')
    <3>1. PICK m, n : m = Len(history) /\ n = Len(history')
      OBVIOUS
    <3>2. QED
      BY <1>1, <2>2, <3>1
  <2>4. QED
    BY <2>1, <2>3, RecordingKeeps
<1>3. ASSUME NEW e, history' = [history EXCEPT ![pending[c]] = e]
      PROVE  Len(history) <= Len(history')
  <2>1. DOMAIN history' = DOMAIN history
    BY <1>3
  <2>2. Len(history') = Len(history)
    BY <1>1, <1>3, <2>1
  <2>3. QED
    BY <1>1, <2>2
<1>4. ASSUME NEW t \in now .. Horizon, Complete(c, t) PROVE CheckerInv'
  <2>1. HistoryInv' /\ Record(t)
    BY <1>1, <1>4, CompleteKeepsHistory DEF Complete
  <2>2. \E e : history' = [history EXCEPT ![pending[c]] = e]
    BY <1>4 DEF Complete
  <2>3. QED
    BY <1>3, <2>1, <2>2, RecordingKeeps
<1>5. ASSUME GiveUp(c) PROVE CheckerInv'
  <2>1. HistoryInv' /\ Record(now)
    BY <1>1, <1>5, GiveUpKeepsHistory DEF GiveUp
  <2>2. \E e : history' = [history EXCEPT ![pending[c]] = e]
    BY <1>5 DEF GiveUp
  <2>3. QED
    BY <1>3, <2>1, <2>2, RecordingKeeps
<1>6. QED
  BY <1>2, <1>4, <1>5

LEMMA HistoryStays ==
  ASSUME UNCHANGED history
  PROVE  /\ \A k : OperationsOn(k)' = OperationsOn(k)
         /\ \A S : FirstReturned(S)' = FirstReturned(S)
         /\ \A k, left : ClearedUpTo(k, left)' <=> ClearedUpTo(k, left)
<1>1. \A k : OperationsOn(k)' = OperationsOn(k)
  BY DEF OperationsOn
<1>2. QED
  BY <1>1 DEF FirstReturned, ClearedUpTo

\* The steps of a search change nothing else.
LEMMA SearchKeepsTask ==
  ASSUME CheckerInv, SearchInv', UNCHANGED <<recordVars, task, key, budget, suspects, ops, verdict>>
  PROVE  CheckerInv'
<1>1. /\ now' = now /\ history' = history /\ pending' = pending /\ task' = task /\ key' = key
      /\ suspects' = suspects /\ ops' = ops /\ verdict' = verdict
  BY DEF recordVars
<1>2. HistoryInv'
  BY <1>1 DEF CheckerInv, HistoryInv
<1>3. /\ \A k : OperationsOn(k)' = OperationsOn(k)
      /\ \A S : FirstReturned(S)' = FirstReturned(S)
      /\ \A k, left : ClearedUpTo(k, left)' <=> ClearedUpTo(k, left)
  BY <1>1, HistoryStays
<1>4. CheckInv'
  BY <1>1, <1>3 DEF CheckerInv, TaskInv, CheckInv
<1>5. BlameInv'
  BY <1>1 DEF CheckerInv, TaskInv, BlameInv, ClearedUpTo, OperationsOn, FirstReturned
<1>6. VerdictInv'
  BY <1>1, <1>3 DEF CheckerInv, TaskInv, VerdictInv
<1>7. TaskInv'
  BY <1>1, <1>4, <1>5, <1>6 DEF CheckerInv, TaskInv
<1>8. QED
  BY <1>2, <1>7 DEF CheckerInv

LEMMA WalkKeepsOps ==
  ASSUME NEW placed, NEW state, NEW below, Walk(placed, state, below)
  PROVE  ops' = ops
BY DEF Walk, Stop

LEMMA SearchStepsKeep ==
  ASSUME CheckerInv, WalkFirst \/ TryCandidate \/ Backtrack
  PROVE  CheckerInv'
<1>1. SearchInv
  BY DEF CheckerInv
<1>2. CASE WalkFirst
  <2>1. ops' = ops
    BY <1>2, WalkKeepsOps DEF WalkFirst
  <2>2. UNCHANGED <<recordVars, task, key, budget, suspects, ops, verdict>>
    BY <1>2, <2>1 DEF WalkFirst
  <2>3. QED
    BY <1>1, <1>2, <2>2, WalkFirstKeepsSearch, SearchKeepsTask
<1>3. CASE TryCandidate
  <2>1. ops' = ops
    BY <1>3, WalkKeepsOps DEF TryCandidate
  <2>2. UNCHANGED <<recordVars, task, key, budget, suspects, ops, verdict>>
    BY <1>3, <2>1 DEF TryCandidate
  <2>3. QED
    BY <1>1, <1>3, <2>2, TryCandidateKeepsSearch, SearchKeepsTask
<1>4. CASE Backtrack
  <2>1. UNCHANGED <<recordVars, task, key, budget, suspects, ops, verdict>>
    BY <1>4 DEF Backtrack
  <2>2. QED
    BY <1>1, <1>4, <2>1, BacktrackKeepsSearch, SearchKeepsTask
<1>5. QED
  BY <1>2, <1>3, <1>4

\* A key before which all are legal is searched.
LEMMA CheckKeyKeeps ==
  ASSUME CheckerInv, NEW k \in Keys, CheckKey(k), task \in {"record", "check"},
         budget' \in Nat, UNCHANGED <<now, history, suspects, verdict>>,
         pending' = pending \/ pending' = [c \in Clients |-> 0],
         \A l \in Keys : l < k => Legal(OperationsOn(l))
  PROVE  CheckerInv'
<1>1. /\ task' = "check" /\ key' = k /\ ops' = OperationsOn(k) /\ now' = now
      /\ history' = history /\ suspects' = suspects /\ verdict' = verdict
  BY DEF CheckKey, Begin
<1>2. HistoryInv
  BY DEF CheckerInv
<1>3. HistoryInv'
  <2>1. pending' \in [Clients -> 0 .. Len(history)]
    BY DEF CheckerInv, HistoryInv
  <2>2. QED
    BY <1>1, <1>2, <2>1 DEF HistoryInv
<1>4. SearchInv'
  <2>1. Recorded(OperationsOn(k))
    BY <1>2, KeyRecorded
  <2>2. QED
    BY <2>1, SearchStart DEF CheckKey
<1>5. \A l : OperationsOn(l)' = OperationsOn(l)
  BY <1>1, HistoryStays
<1>6. CheckInv'
  BY <1>1, <1>5 DEF CheckInv, OperationsOn
<1>7. verdict.kind = "none"
  BY DEF CheckerInv, TaskInv, VerdictInv
<1>8. BlameInv' /\ VerdictInv'
  BY <1>1, <1>7 DEF BlameInv, VerdictInv
<1>9. DOMAIN ops' \subseteq DOMAIN history'
  BY <1>1, <1>2, KeyRecorded
<1>10. TaskInv'
  BY <1>1, <1>6, <1>8, <1>9 DEF TaskInv, CheckerInv
<1>11. QED
  BY <1>3, <1>4, <1>10 DEF CheckerInv

\* A key on which nothing is recorded is legal.
LEMMA NothingOnKey ==
  ASSUME HistoryInv, NEW k, \A i \in DOMAIN history : history[i].key # k
  PROVE  Legal(OperationsOn(k))
<1>1. DOMAIN OperationsOn(k) = {} /\ Recorded(OperationsOn(k))
  BY KeyRecorded
<1>2. Completed(OperationsOn(k)) = {}
  BY <1>1 DEF Completed
<1>3. QED
  BY <1>1, <1>2, NothingCompleted

LEMMA CheckKeeps ==
  ASSUME CheckerInv, NEW b \in Budgets, Check(b), history # <<>>
  PROVE  CheckerInv'
<1>1. PICK Recordeds : Recordeds = {history[i].key : i \in DOMAIN history}
  OBVIOUS
<1>2. /\ task = "record" /\ history # <<>> /\ CheckKey(Min(Recordeds)) /\ budget' = b
      /\ pending' = [c \in Clients |-> 0] /\ UNCHANGED <<now, history, suspects, verdict>>
  BY <1>1 DEF Check
<1>3. HistoryInv /\ DOMAIN history = 1 .. Len(history) /\ Len(history) \in Nat \ {0}
  <2>1. HistoryInv /\ history \in Seq(Operations)
    BY DEF CheckerInv, HistoryInv
  <2>2. QED
    BY <1>2, <2>1, EmptySeq
<1>4. \A i \in DOMAIN history : history[i].key \in Keys
  BY <1>3, TimesOf DEF HistoryInv
<1>5. Recordeds \in SUBSET Keys /\ Recordeds \in SUBSET Nat
  BY <1>1, <1>4, KeysAssumption
<1>6. Recordeds # {}
  <2>1. 1 \in DOMAIN history
    BY <1>3
  <2>2. QED
    BY <1>1, <2>1
<1>7. PICK k \in Keys : k = Min(Recordeds) /\ \A l \in Recordeds : k <= l
  BY <1>5, <1>6, LeastOf
<1>8. ASSUME NEW l \in Keys, l < k PROVE Legal(OperationsOn(l))
  <2>1. l \notin Recordeds
    <3>1. l \in Nat /\ k \in Nat
      BY KeysAssumption
    <3>2. QED
      BY <1>7, <1>8, <3>1
  <2>2. QED
    BY <1>1, <1>3, <2>1, NothingOnKey
<1>9. budget' \in Nat
  BY <1>2, BoundsAssumption
<1>10. CheckKey(k)
  BY <1>2, <1>7
<1>11. QED
  BY <1>2, <1>8, <1>9, <1>10, CheckKeyKeeps

\* A verdict is given.
LEMMA DecideKeeps ==
  ASSUME CheckerInv, NEW kind, NEW operation, Decide(kind, operation),
         kind = "linearizable" => \A k \in Keys : Legal(OperationsOn(k)),
         kind = "violated" =>
           /\ ~ Legal(OperationsOn(key)) /\ operation \in Completed(OperationsOn(key))
           /\ \A i \in Completed(OperationsOn(key)) :
                history[i].returned < history[operation].returned =>
                  Legal(CutAt(OperationsOn(key), history[i].returned))
  PROVE  CheckerInv'
<1>1. /\ task' = "done" /\ verdict' = [kind |-> kind, operation |-> operation]
      /\ now' = now /\ history' = history /\ pending' = pending /\ key' = key
      /\ suspects' = suspects /\ ops' = ops /\ UNCHANGED <<searchVars, budget>>
  BY DEF Decide, recordVars, searchVars
<1>2. HistoryInv'
  BY <1>1 DEF CheckerInv, HistoryInv
<1>3. SearchInv'
  BY <1>1, SearchStays DEF CheckerInv
<1>4. verdict'.kind = kind /\ verdict'.operation = operation
  BY <1>1
<1>5. \A k : OperationsOn(k)' = OperationsOn(k)
  BY <1>1, HistoryStays
<1>6. VerdictInv'
  BY <1>1, <1>4, <1>5 DEF VerdictInv, OperationsOn
<1>7. TaskInv'
  BY <1>1, <1>6 DEF TaskInv, CheckInv, BlameInv, CheckerInv
<1>8. QED
  BY <1>2, <1>3, <1>7 DEF CheckerInv

\* Without operations there is nothing to search.
LEMMA CheckNothingKeeps ==
  ASSUME CheckerInv, NEW b \in Budgets, Check(b), history = <<>>
  PROVE  CheckerInv'
<1>1. Decide("linearizable", 0)
  BY DEF Check
<1>2. \A k \in Keys : Legal(OperationsOn(k))
  <2>1. HistoryInv /\ DOMAIN history = {}
    BY DEF CheckerInv
  <2>2. QED
    BY <2>1, NothingOnKey
<1>3. QED
  BY <1>1, <1>2, DecideKeeps

LEMMA AcceptKeeps ==
  ASSUME CheckerInv, Accept
  PROVE  CheckerInv'
<1>1. /\ task = "check" /\ found = "order"
      /\ \/ /\ KeysLeft # {} /\ CheckKey(Min(KeysLeft))
            /\ UNCHANGED <<recordVars, budget, suspects, verdict>>
         \/ KeysLeft = {} /\ Decide("linearizable", 0)
  BY DEF Accept
<1>2. HistoryInv /\ key \in Keys /\ Legal(OperationsOn(key)) /\ budget \in Nat
  <2>1. Legal(ops) /\ ops = OperationsOn(key)
    BY <1>1 DEF CheckerInv, SearchInv, TaskInv, CheckInv
  <2>2. QED
    BY <2>1 DEF CheckerInv, SearchInv, TaskInv
<1>3. ASSUME NEW l \in Keys, l \notin KeysLeft PROVE Legal(OperationsOn(l))
  <2>1. l \in Nat /\ key \in Nat
    BY <1>2, KeysAssumption
  <2>2. CASE l < key
    BY <1>1, <2>2 DEF CheckerInv, TaskInv, CheckInv
  <2>3. CASE l = key
    BY <1>2, <2>3
  <2>4. CASE l > key
    <3>1. DOMAIN OperationsOn(l) = {}
      BY <1>3, <2>4 DEF KeysLeft
    <3>2. Completed(OperationsOn(l)) = {}
      BY <3>1 DEF Completed
    <3>3. QED
      BY <1>2, <3>2, KeyRecorded, NothingCompleted
  <2>5. QED
    BY <2>1, <2>2, <2>3, <2>4
<1>4. CASE KeysLeft = {} /\ Decide("linearizable", 0)
  BY <1>3, <1>4, DecideKeeps
<1>5. CASE /\ KeysLeft # {} /\ CheckKey(Min(KeysLeft))
           /\ UNCHANGED <<recordVars, budget, suspects, verdict>>
  <2>1. PICK Rest : Rest = KeysLeft
    OBVIOUS
  <2>2. Rest \in SUBSET Keys /\ Rest \in SUBSET Nat /\ Rest # {}
    BY <1>5, <2>1, KeysAssumption DEF KeysLeft
  <2>3. PICK k \in Keys : k = Min(Rest) /\ \A l \in Rest : k <= l
    BY <2>2, LeastOf
  <2>4. ASSUME NEW l \in Keys, l < k PROVE Legal(OperationsOn(l))
    <3>1. l \in Nat /\ k \in Nat
      BY KeysAssumption
    <3>2. l \notin KeysLeft
      BY <2>1, <2>3, <2>4, <3>1
    <3>3. QED
      BY <1>3, <3>2
  <2>5. /\ CheckKey(k) /\ budget' \in Nat /\ UNCHANGED <<now, history, suspects, verdict>>
        /\ pending' = pending
    BY <1>2, <1>5, <2>1, <2>3 DEF recordVars
  <2>6. QED
    BY <1>1, <2>4, <2>5, CheckKeyKeeps
<1>6. QED
  BY <1>1, <1>4, <1>5

\* The next cut is searched, when all before it are legal.
LEMMA BlameNextKeeps ==
  ASSUME CheckerInv, task \in {"check", "blame"},
         ~ Legal(OperationsOn(key)), NEW left \in SUBSET Completed(OperationsOn(key)),
         left # {}, ClearedUpTo(key, left), BlameNext(left)
  PROVE  CheckerInv'
<1>1. PICK mine, first : mine = OperationsOn(key) /\ first = FirstReturned(left)
  OBVIOUS
<1>2. PICK cut : cut = CutAt(mine, history[first].returned)
  OBVIOUS
<1>3. /\ task' = "blame" /\ suspects' = left /\ Begin(cut) /\ ops' = cut
      /\ now' = now /\ history' = history /\ pending' = pending
      /\ key' = key /\ budget' = budget /\ verdict' = verdict
  BY <1>1, <1>2 DEF BlameNext, Begin, recordVars
<1>4. HistoryInv /\ budget \in Nat
  BY DEF CheckerInv, SearchInv
<1>5. HistoryInv'
  BY <1>3, <1>4 DEF HistoryInv
<1>6. /\ Recorded(mine) /\ DOMAIN mine = {i \in DOMAIN history : history[i].key = key}
      /\ \A i \in DOMAIN mine : mine[i] = history[i]
  BY <1>1, <1>4, KeyRecorded
<1>7. left \in SUBSET Completed(history)
  BY <1>1, <1>6 DEF Completed
<1>8. first \in left
  BY <1>1, <1>4, <1>7, FirstOf
<1>9. history[first].returned \in Nat
  <2>1. first \in DOMAIN history /\ history[first].completed
    BY <1>7, <1>8 DEF Completed
  <2>2. Timed(history[first])
    BY <1>4, <2>1 DEF HistoryInv
  <2>3. QED
    BY <2>1, <2>2, TimesOf
<1>10. Recorded(cut) /\ DOMAIN cut \subseteq DOMAIN mine
  <2>1. PICK t \in Nat : t = history[first].returned
    BY <1>9
  <2>2. /\ Recorded(CutAt(mine, t))
        /\ DOMAIN CutAt(mine, t) = {i \in DOMAIN mine : mine[i].invoked <= t}
    BY <1>6, CutOf
  <2>3. QED
    BY <1>2, <2>1, <2>2
<1>11. SearchInv'
  BY <1>3, <1>4, <1>10, SearchStart
<1>12. BlameInv'
  <2>1. ~ Legal(mine) /\ left \subseteq Completed(mine)
        /\ \A i \in Completed(mine) \ left : Legal(CutAt(mine, history[i].returned))
    BY <1>1 DEF ClearedUpTo
  <2>2. OperationsOn(key)' = mine /\ FirstReturned(suspects)' = first
    BY <1>1, <1>3 DEF OperationsOn, FirstReturned
  <2>3. ops' = CutAt(mine, history'[first].returned)
    BY <1>2, <1>3
  <2>4. ClearedUpTo(key, suspects)'
    BY <1>3, <2>1, <2>2 DEF ClearedUpTo
  <2>5. QED
    BY <1>3, <2>1, <2>2, <2>3, <2>4 DEF BlameInv
<1>13. verdict.kind = "none"
  BY DEF CheckerInv, TaskInv, VerdictInv
<1>14. CheckInv' /\ VerdictInv'
  BY <1>3, <1>13 DEF CheckInv, VerdictInv
<1>15. DOMAIN ops' \subseteq DOMAIN history' /\ suspects' \subseteq Completed(history')
  BY <1>3, <1>6, <1>7, <1>10
<1>16. TaskInv'
  BY <1>3, <1>12, <1>14, <1>15 DEF TaskInv, CheckerInv
<1>17. QED
  BY <1>5, <1>11, <1>16 DEF CheckerInv

LEMMA RejectKeeps ==
  ASSUME CheckerInv, Reject
  PROVE  CheckerInv'
<1>1. /\ task = "check" /\ found = "none" /\ BlameNext(Completed(OperationsOn(key)))
  BY DEF Reject
<1>2. ~ Legal(OperationsOn(key)) /\ Recorded(OperationsOn(key))
  BY <1>1, KeyRecorded DEF CheckerInv, SearchInv, TaskInv, CheckInv
<1>3. PICK left : left = Completed(OperationsOn(key))
  OBVIOUS
<1>4. left # {}
  BY <1>2, <1>3, NothingCompleted
<1>5. ClearedUpTo(key, left)
  BY <1>3 DEF ClearedUpTo
<1>6. QED
  BY <1>1, <1>2, <1>3, <1>4, <1>5, BlameNextKeeps

LEMMA ClearKeeps ==
  ASSUME CheckerInv, Clear
  PROVE  CheckerInv'
<1>1. PICK first, left : first = FirstReturned(suspects) /\ left = suspects \ {first}
  OBVIOUS
<1>2. /\ task = "blame" /\ found = "order"
      /\ IF left = {} THEN Decide("violated", 0) ELSE BlameNext(left)
  BY <1>1 DEF Clear
<1>3. PICK mine : mine = OperationsOn(key)
  OBVIOUS
<1>4. /\ ~ Legal(mine) /\ suspects \subseteq Completed(mine)
      /\ Legal(CutAt(mine, history[first].returned))
      /\ \A i \in Completed(mine) \ suspects : Legal(CutAt(mine, history[i].returned))
      /\ HistoryInv
  BY <1>1, <1>2, <1>3 DEF CheckerInv, SearchInv, TaskInv, BlameInv, ClearedUpTo
<1>5. \A i \in Completed(mine) \ left : Legal(CutAt(mine, history[i].returned))
  BY <1>1, <1>4
<1>6. left # {}
  <2>1. SUFFICES ASSUME left = {} PROVE FALSE
    OBVIOUS
  <2>2. /\ Recorded(mine) /\ DOMAIN mine \subseteq DOMAIN history
        /\ \A i \in DOMAIN mine : mine[i] = history[i]
    BY <1>3, <1>4, KeyRecorded
  <2>3. Completed(mine) # {}
    BY <1>4, <2>2, NothingCompleted
  <2>4. ASSUME NEW i \in Completed(mine)
        PROVE  mine[i].returned \in 0 .. Horizon /\ history[i].returned = mine[i].returned
    <3>1. i \in DOMAIN mine /\ mine[i].completed
      BY DEF Completed
    <3>2. Timed(mine[i])
      BY <2>2, <3>1 DEF Recorded
    <3>3. QED
      BY <2>2, <3>1, <3>2, TimesOf
  <2>5. PICK Returns : Returns = {t \in 0 .. Horizon : \E i \in Completed(mine) : mine[i].returned = t}
    OBVIOUS
  <2>6. Returns \in SUBSET (0 .. Horizon) /\ Returns # {} /\ Horizon \in Nat
    BY <2>3, <2>4, <2>5, BoundsAssumption
  <2>7. PICK t \in Returns : \A u \in Returns : u <= t
    BY <2>6, GreatestNatural
  <2>8. PICK i \in Completed(mine) : mine[i].returned = t
    BY <2>5, <2>7
  <2>9. Legal(CutAt(mine, t))
    BY <1>5, <2>1, <2>4, <2>8
  <2>10. \A j \in Completed(mine) : mine[j].returned <= t
    BY <2>4, <2>5, <2>7
  <2>11. t \in Nat
    BY <2>6
  <2>12. Legal(mine)
    BY <2>2, <2>9, <2>10, <2>11, LastCutIsAll
  <2>13. QED
    BY <1>4, <2>12
<1>7. ClearedUpTo(key, left)
  BY <1>3, <1>5 DEF ClearedUpTo
<1>8. left \in SUBSET Completed(OperationsOn(key)) /\ ~ Legal(OperationsOn(key))
  BY <1>1, <1>3, <1>4
<1>9. QED
  BY <1>2, <1>6, <1>7, <1>8, BlameNextKeeps

LEMMA BlameKeeps ==
  ASSUME CheckerInv, Blame
  PROVE  CheckerInv'
<1>1. PICK first : first = FirstReturned(suspects)
  OBVIOUS
<1>2. task = "blame" /\ Decide("violated", first)
  BY <1>1 DEF Blame
<1>3. /\ HistoryInv /\ ~ Legal(OperationsOn(key)) /\ suspects # {}
      /\ suspects \subseteq Completed(OperationsOn(key))
      /\ suspects \in SUBSET Completed(history)
      /\ ClearedUpTo(key, suspects)
  BY <1>2 DEF CheckerInv, TaskInv, BlameInv
<1>4. first \in suspects /\ \A j \in suspects : history[first].returned <= history[j].returned
  BY <1>1, <1>3, FirstOf
<1>5. ASSUME NEW i \in Completed(OperationsOn(key)),
             history[i].returned < history[first].returned
      PROVE  Legal(CutAt(OperationsOn(key), history[i].returned))
  <2>1. i \notin suspects
    <3>1. SUFFICES ASSUME i \in suspects PROVE FALSE
      OBVIOUS
    <3>2. ASSUME NEW j \in suspects PROVE history[j].returned \in 0 .. Horizon
      <4>1. j \in DOMAIN history /\ history[j].completed /\ Timed(history[j])
        BY <1>3 DEF Completed, HistoryInv
      <4>2. QED
        BY <4>1, TimesOf
    <3>3. history[i].returned \in Int /\ history[first].returned \in Int
      BY <1>4, <3>1, <3>2
    <3>4. QED
      BY <1>4, <1>5, <3>1, <3>3
  <2>2. QED
    BY <1>3, <2>1 DEF ClearedUpTo
<1>6. first \in Completed(OperationsOn(key))
  BY <1>3, <1>4
<1>7. QED
  BY <1>2, <1>3, <1>5, <1>6, DecideKeeps

LEMMA CheckerStep ==
  ASSUME CheckerInv, [Next]_vars
  PROVE  CheckerInv'
<1>1. CASE \E c \in Clients, t \in now .. Horizon :
             (\E what \in Repertoire : Invoke(c, what, t)) \/ Complete(c, t)
  BY <1>1, RecordStepsKeep
<1>2. CASE \E c \in Clients : GiveUp(c)
  BY <1>2, RecordStepsKeep
<1>3. CASE \E b \in Budgets : Check(b)
  BY <1>3, CheckKeeps, CheckNothingKeeps
<1>4. CASE WalkFirst \/ TryCandidate \/ Backtrack
  BY <1>4, SearchStepsKeep
<1>5. CASE Accept
  BY <1>5, AcceptKeeps
<1>6. CASE CannotTell
  BY <1>6, DecideKeeps DEF CannotTell
<1>7. CASE Reject
  BY <1>7, RejectKeeps
<1>8. CASE Clear
  BY <1>8, ClearKeeps
<1>9. CASE Blame
  BY <1>9, BlameKeeps
<1>10. CASE Done \/ UNCHANGED vars
  <2>1. UNCHANGED <<recordVars, task, key, budget, suspects, searchVars, verdict>>
    BY <1>10 DEF Done, vars
  <2>2. SearchInv' /\ UNCHANGED <<recordVars, task, key, budget, suspects, ops, verdict>>
    BY <2>1, SearchStays DEF CheckerInv, searchVars
  <2>3. QED
    BY <2>2, SearchKeepsTask
<1>11. QED
  BY <1>1, <1>2, <1>3, <1>4, <1>5, <1>6, <1>7, <1>8, <1>9, <1>10 DEF Next

\* The inductive invariant of recording, search and blame.
THEOREM CheckerInvariant == Spec => []CheckerInv
<1>1. Init => CheckerInv
  BY CheckerStart
<1>2. CheckerInv /\ [Next]_vars => CheckerInv'
  BY CheckerStep
<1>3. QED
  BY <1>1, <1>2, PTL DEF Spec

-----------------------------------------------------------------------------
(* The order of events.                                                    *)

\* Stamps order nothing that was not in that order, and what was legal in the
\* order of events is legal by the stamps.
SeenInv ==
  /\ saw \in Seq(SUBSET (1 .. MaxOps)) /\ explained \subseteq Keys
  /\ task = "record" =>
       /\ Len(saw) = Len(history) /\ explained = {}
       /\ \A i, j \in DOMAIN history : Precedes(history[j], history[i]) => j \in saw[i]
  /\ \A k \in explained : Legal(OperationsOn(k))

\* What is legal under a stronger order is legal.
LEMMA FewerConstraints ==
  ASSUME NEW operations, Recorded(operations), NEW pre,
         \A i, j \in DOMAIN operations : Precedes(operations[j], operations[i]) => j \in pre[i],
         LinearizableFrom(None, operations, pre)
  PROVE  Legal(operations)
<1>1. PICK n, order : Accounts(order, n, None, operations, pre)
  BY LinearizableWitness DEF Recorded
<1>2. /\ n \in Nat /\ order \in [1 .. n -> DOMAIN operations]
      /\ \A i, j \in 1 .. n : i < j => order[j] \notin pre[order[i]]
  BY <1>1 DEF Accounts, Lawful
<1>3. \A i, j \in 1 .. n : i < j => order[j] \notin BeforeIn(operations)[order[i]]
  BY <1>2 DEF BeforeIn
<1>4. Accounts(order, n, None, operations, BeforeIn(operations))
  BY <1>1, <1>3 DEF Accounts, Lawful
<1>5. QED
  BY <1>4, LegalWitness

\* An operation begins after what its client's history shows as answered.
LEMMA InvokeSees ==
  ASSUME HistoryInv, SeenInv, NEW c \in Clients, NEW t \in now .. Horizon,
         NEW what \in Repertoire, Invoke(c, what, t)
  PROVE  SeenInv'
<1>1. PICK n : n = Len(history)
  OBVIOUS
<1>2. PICK o : o = [kind |-> what.kind, key |-> what.key, argument |-> what.argument,
                    expected |-> what.expected, invoked |-> t, returned |-> Never,
                    completed |-> FALSE, result |-> None]
  OBVIOUS
<1>3. PICK done : done = Completed(history)
  OBVIOUS
<1>4. /\ task = "record" /\ task' = task /\ explained' = explained
      /\ history' = Append(history, o) /\ saw' = Append(saw, done)
  BY <1>2, <1>3 DEF Invoke, Record
<1>5. /\ n \in Nat /\ n <= MaxOps /\ DOMAIN history = 1 .. n /\ history \in Seq(Operations)
      /\ saw \in Seq(SUBSET (1 .. MaxOps)) /\ Len(saw) = n /\ explained = {}
  BY <1>1, <1>4 DEF HistoryInv, SeenInv
<1>6. done \in SUBSET (1 .. MaxOps)
  BY <1>3, <1>5, BoundsAssumption DEF Completed
<1>7. /\ Len(history') = n + 1 /\ DOMAIN history' = 1 .. n + 1
      /\ \A i \in 1 .. n : history'[i] = history[i]
      /\ history'[n + 1] = o /\ ~ o.completed
  BY <1>2, <1>4, <1>5
<1>8. /\ saw' \in Seq(SUBSET (1 .. MaxOps)) /\ Len(saw') = n + 1
      /\ \A i \in 1 .. n : saw'[i] = saw[i]
      /\ saw'[n + 1] = done
  BY <1>4, <1>5, <1>6
<1>9. ASSUME NEW i \in 1 .. n + 1, NEW j \in 1 .. n + 1, Precedes(history'[j], history'[i])
      PROVE  j \in saw'[i]
  <2>1. j \in 1 .. n /\ history[j].completed
    BY <1>5, <1>7, <1>9 DEF Precedes
  <2>2. CASE i = n + 1
    BY <1>3, <1>5, <1>8, <2>1, <2>2 DEF Completed
  <2>3. CASE i \in 1 .. n
    BY <1>5, <1>7, <1>8, <1>9, <1>4, <2>1, <2>3 DEF SeenInv
  <2>4. QED
    BY <1>5, <2>2, <2>3
<1>10. QED
  BY <1>4, <1>5, <1>7, <1>8, <1>9 DEF SeenInv

\* An answer comes no earlier than what has begun so far.
LEMMA SettleSees ==
  ASSUME HistoryInv, HistoryInv', SeenInv, NEW c \in Clients, NEW t \in now .. Horizon,
         Record(t), UNCHANGED saw, pending[c] # 0, NEW o,
         history' = [history EXCEPT ![pending[c]] = o],
         o.invoked = history[pending[c]].invoked,
         o.completed => o.returned = t
  PROVE  SeenInv'
<1>1. PICK n : n = Len(history)
  OBVIOUS
<1>2. PICK p : p = pending[c]
  OBVIOUS
<1>3. /\ n \in Nat /\ DOMAIN history = 1 .. n /\ p \in 1 .. n
      /\ now \in 0 .. Horizon /\ Horizon \in Nat
  BY <1>1, <1>2, BoundsAssumption DEF HistoryInv
<1>4. /\ history' = [history EXCEPT ![p] = o]
      /\ task = "record" /\ task' = task /\ explained' = explained /\ saw' = saw
  BY <1>2 DEF Record
<1>5. /\ DOMAIN history' = 1 .. n /\ history'[p] = o
      /\ \A i \in 1 .. n : i # p => history'[i] = history[i]
      /\ \A i \in 1 .. n : history'[i].invoked = history[i].invoked
  BY <1>2, <1>3, <1>4
<1>6. Len(history') = n
  BY <1>3, <1>5 DEF HistoryInv
<1>7. \A i \in 1 .. n : history[i].invoked \in 0 .. Horizon /\ history[i].invoked <= t
  <2>1. \A i \in 1 .. n : Timed(history[i]) /\ history[i].invoked <= now
    BY <1>3 DEF HistoryInv
  <2>2. \A i \in 1 .. n : history[i].invoked \in 0 .. Horizon
    BY <2>1, TimesOf
  <2>3. QED
    BY <1>3, <2>1, <2>2
<1>8. ASSUME NEW i \in 1 .. n, NEW j \in 1 .. n, Precedes(history'[j], history'[i])
      PROVE  j \in saw[i]
  <2>1. j # p
    <3>1. SUFFICES ASSUME j = p PROVE FALSE
      OBVIOUS
    <3>2. o.returned = t /\ o.returned < history[i].invoked
      BY <1>5, <1>8, <3>1 DEF Precedes
    <3>3. t \in Nat
      BY <1>3
    <3>4. QED
      BY <1>3, <1>7, <3>2, <3>3
  <2>2. Precedes(history[j], history[i])
    BY <1>5, <1>8, <2>1 DEF Precedes
  <2>3. QED
    BY <1>3, <1>4, <2>2 DEF SeenInv
<1>9. QED
  BY <1>1, <1>3, <1>4, <1>5, <1>6, <1>8 DEF SeenInv

\* What was legal in the order of events is legal by the stamps.
LEMMA CheckSees ==
  ASSUME HistoryInv, SeenInv, NEW b \in Budgets, Check(b), history # <<>>
  PROVE  SeenInv'
<1>1. /\ task = "record" /\ task' = "check" /\ history' = history /\ saw' = <<>>
      /\ explained' = {k \in Keys : ExplainedAsSeen(OperationsOn(k))}
  BY DEF Check, CheckKey
<1>2. ASSUME NEW k \in Keys, ExplainedAsSeen(OperationsOn(k)) PROVE Legal(OperationsOn(k))
  <2>1. PICK operations : operations = OperationsOn(k)
    OBVIOUS
  <2>2. /\ Recorded(operations) /\ DOMAIN operations \subseteq DOMAIN history
        /\ \A i \in DOMAIN operations : operations[i] = history[i]
    BY <2>1, KeyRecorded
  <2>3. PICK pre : pre = [i \in DOMAIN operations |-> saw[i] \cap DOMAIN operations]
    OBVIOUS
  <2>4. \A i, j \in DOMAIN operations : Precedes(operations[j], operations[i]) => j \in pre[i]
    BY <1>1, <2>2, <2>3 DEF SeenInv
  <2>5. LinearizableFrom(None, operations, pre)
    BY <1>2, <2>1, <2>3 DEF ExplainedAsSeen
  <2>6. QED
    BY <2>1, <2>2, <2>4, <2>5, FewerConstraints
<1>3. \A k : OperationsOn(k)' = OperationsOn(k)
  BY <1>1, HistoryStays
<1>4. \A k \in explained' : Legal(OperationsOn(k))'
  BY <1>1, <1>2, <1>3 DEF Legal, BeforeIn
<1>5. saw' \in Seq(SUBSET (1 .. MaxOps))
  BY <1>1
<1>6. QED
  BY <1>1, <1>4, <1>5 DEF SeenInv

LEMMA SeenInvariant == Spec => []SeenInv
<1>1. Init => SeenInv
  BY DEF Init, SeenInv
<1>2. CheckerInv /\ CheckerInv' /\ SeenInv /\ [Next]_vars => SeenInv'
  <2> SUFFICES ASSUME HistoryInv, HistoryInv', SeenInv, [Next]_vars PROVE SeenInv'
    BY DEF CheckerInv
  <2>1. ASSUME NEW c \in Clients, NEW t \in now .. Horizon, NEW what \in Repertoire,
               Invoke(c, what, t)
        PROVE  SeenInv'
    BY <2>1, InvokeSees
  <2>2. ASSUME NEW c \in Clients, NEW t \in now .. Horizon, Complete(c, t) PROVE SeenInv'
    <3>1. PICK p : p = history[pending[c]]
      OBVIOUS
    <3>2. PICK result : history' = [history EXCEPT ![pending[c]] =
                          [p EXCEPT !.returned = t, !.completed = TRUE, !.result = result]]
      BY <2>2, <3>1 DEF Complete
    <3>3. PICK o : o = [p EXCEPT !.returned = t, !.completed = TRUE, !.result = result]
      OBVIOUS
    <3>4. p \in Operations
      BY <2>2, <3>1 DEF Complete, HistoryInv
    <3>5. o.invoked = p.invoked /\ o.returned = t
      BY <3>3, <3>4 DEF Operations
    <3>6. Record(t) /\ UNCHANGED saw /\ pending[c] # 0
      BY <2>2 DEF Complete
    <3>7. history' = [history EXCEPT ![pending[c]] = o]
      BY <3>2, <3>3
    <3>8. QED
      BY <3>1, <3>5, <3>6, <3>7, SettleSees
  <2>3. ASSUME NEW c \in Clients, GiveUp(c) PROVE SeenInv'
    <3>1. PICK p : p = history[pending[c]]
      OBVIOUS
    <3>2. PICK o : o = Unknown(p)
      OBVIOUS
    <3>3. p \in Operations
      BY <2>3, <3>1 DEF GiveUp, HistoryInv
    <3>4. o.invoked = p.invoked /\ ~ o.completed
      BY <3>2, <3>3 DEF Unknown, Operations
    <3>5. PICK t \in now .. Horizon : t = now
      BY BoundsAssumption DEF HistoryInv
    <3>6. Record(t) /\ UNCHANGED saw /\ pending[c] # 0
      BY <2>3, <3>5 DEF GiveUp
    <3>7. history' = [history EXCEPT ![pending[c]] = o]
      BY <2>3, <3>1, <3>2 DEF GiveUp
    <3>8. QED
      BY <3>1, <3>4, <3>6, <3>7, SettleSees
  <2>4. ASSUME NEW b \in Budgets, Check(b), history # <<>> PROVE SeenInv'
    BY <2>4, CheckSees
  <2>5. ASSUME UNCHANGED <<history, saw, explained>>, task' = "record" => task = "record"
        PROVE  SeenInv'
    <3>1. \A k : OperationsOn(k)' = OperationsOn(k)
      BY <2>5, HistoryStays
    <3>2. QED
      BY <2>5, <3>1 DEF SeenInv, Legal, BeforeIn
  <2>6. ASSUME NEW b \in Budgets, Check(b), history = <<>> PROVE SeenInv'
    BY <2>5, <2>6 DEF Check, Decide, recordVars
  <2>7. CASE WalkFirst \/ TryCandidate \/ Backtrack
    BY <2>5, <2>7 DEF WalkFirst, TryCandidate, Backtrack, recordVars
  <2>8. CASE Accept \/ CannotTell \/ Reject \/ Clear \/ Blame
    BY <2>5, <2>8 DEF Accept, CannotTell, Reject, Clear, Blame, Decide, BlameNext, CheckKey,
                      recordVars
  <2>9. CASE UNCHANGED vars
    BY <2>5, <2>9 DEF vars, recordVars
  <2>10. QED
    BY <2>1, <2>2, <2>3, <2>4, <2>6, <2>7, <2>8, <2>9 DEF Next, Done
<1>3. QED
  BY <1>1, <1>2, CheckerInvariant, PTL DEF Spec

\* A violation is one in the order in which things happened, of which the stamps
\* show only what lies in different milliseconds.
THEOREM ViolationsAreReal == Spec => []ViolationIsReal
<1>1. CheckerInv /\ SeenInv => ViolationIsReal
  BY DEF CheckerInv, TaskInv, VerdictInv, SeenInv, ViolationIsReal
<1>2. QED
  BY <1>1, CheckerInvariant, SeenInvariant, PTL

-----------------------------------------------------------------------------
\* Types; the calls of walk are nested.
THEOREM CheckerIsWellTyped == Spec => []TypeOK
<1>1. CheckerInv /\ SeenInv => TypeOK
  <2> SUFFICES ASSUME CheckerInv, SeenInv PROVE TypeOK
    OBVIOUS
  <2>1. HistoryInv /\ SearchInv /\ TaskInv
    BY DEF CheckerInv
  <2>2. ASSUME NEW d \in DOMAIN stack
        PROVE  /\ Cardinality(stack[d].placed) = d - 1
               /\ stack[d].untried \subseteq DOMAIN ops \ stack[d].placed
               /\ Memo(stack[d]) \in seen
    <3>1. found = "open"
      BY <2>1 DEF SearchInv
    <3>2. StackInv(ops, stack, seen, {})
      BY <2>1, <3>1 DEF SearchInv
    <3>3. d \in 1 .. Len(stack)
      BY <3>2 DEF StackInv
    <3>4. /\ Cardinality(stack[d].placed) = d - 1 /\ Memo(stack[d]) \in seen
          /\ CallInv(ops, stack[d])
      BY <3>2, <3>3 DEF StackInv
    <3>5. stack[d].untried \subseteq DOMAIN ops \ stack[d].placed
      BY <3>4 DEF CallInv, First, Foremost
    <3>6. QED
      BY <3>4, <3>5
  <2>3. QED
    BY <2>1, <2>2 DEF HistoryInv, SearchInv, TaskInv, SeenInv, TypeOK
<1>2. QED
  BY <1>1, CheckerInvariant, SeenInvariant, PTL

\* What the memo prunes is hopeless.
THEOREM PrunedIsHopeless == Spec => []MemoIsSound
<1>1. CheckerInv => MemoIsSound
  <2> SUFFICES ASSUME CheckerInv, found \in {"open", "none"},
                      NEW m \in seen \ {Memo(stack[d]) : d \in DOMAIN stack}
               PROVE  ~ LinearizableFrom(m.state, [i \in DOMAIN ops \ m.placed |-> ops[i]],
                                         BeforeIn(ops))
    BY DEF MemoIsSound
  <2>1. Hopeless(ops, m)
    <3>1. CASE found = "none"
      BY <3>1 DEF CheckerInv, SearchInv
    <3>2. CASE found = "open"
      <4>1. StackInv(ops, stack, seen, {})
        BY <3>2 DEF CheckerInv, SearchInv
      <4>2. DOMAIN stack = 1 .. Len(stack)
        BY <4>1 DEF StackInv
      <4>3. QED
        BY <4>1, <4>2 DEF StackInv
    <3>3. QED
      BY <3>1, <3>2
  <2>2. QED
    BY <2>1 DEF Hopeless, Left
<1>2. QED
  BY <1>1, CheckerInvariant, PTL

\* What a search that decides comes to is right, of whatever it was given.
THEOREM SearchesAreRight == Spec => []SearchIsRight
<1>1. CheckerInv => SearchIsRight
  BY DEF CheckerInv, SearchInv, SearchIsRight
<1>2. QED
  BY <1>1, CheckerInvariant, PTL

\* A legal history may be cut anywhere.
THEOREM CutsOfLegalAreLegal == Spec => []CutsStayLegal
<1>1. CheckerInv => CutsStayLegal
  <2> SUFFICES ASSUME CheckerInv, Legal(ops), NEW t \in 0 .. Horizon PROVE Legal(CutAt(ops, t))
    BY DEF CutsStayLegal
  <2>1. Recorded(ops) /\ t \in Nat
    BY DEF CheckerInv, SearchInv
  <2>2. QED
    BY <2>1, CutIsLegal
<1>2. QED
  BY <1>1, CheckerInvariant, PTL

\* Nothing that returned before the operation blamed breaks the history.
THEOREM BlameIsNeverLate == Spec => []BlameIsNotLate
<1>1. CheckerInv => BlameIsNotLate
  <2> SUFFICES ASSUME CheckerInv, verdict.kind = "violated"
               PROVE  /\ verdict.operation # 0
                      /\ \A i \in Completed(OperationsOn(key)) :
                           history[i].returned < history[verdict.operation].returned =>
                             Legal(CutAt(OperationsOn(key), history[i].returned))
    BY DEF BlameIsNotLate
  <2>1. HistoryInv /\ verdict.operation \in Completed(OperationsOn(key))
        /\ \A i \in Completed(OperationsOn(key)) :
             history[i].returned < history[verdict.operation].returned =>
               Legal(CutAt(OperationsOn(key), history[i].returned))
    BY DEF CheckerInv, TaskInv, VerdictInv
  <2>2. PICK blamed : blamed = verdict.operation
    OBVIOUS
  <2>3. blamed \in DOMAIN OperationsOn(key)
    BY <2>1, <2>2 DEF Completed
  <2>4. blamed \in DOMAIN history
    BY <2>1, <2>3, KeyRecorded
  <2>5. DOMAIN history = 1 .. Len(history)
    BY <2>1 DEF HistoryInv
  <2>6. blamed # 0
    BY <2>4, <2>5
  <2>7. QED
    BY <2>1, <2>2, <2>6
<1>2. QED
  BY <1>1, CheckerInvariant, PTL

\* A verdict is right of the whole history.
THEOREM VerdictsAreRight == Spec => []VerdictIsRight
<1>1. CheckerInv => VerdictIsRight
  <2> SUFFICES ASSUME CheckerInv PROVE VerdictIsRight
    OBVIOUS
  <2>1. HistoryInv /\ VerdictInv /\ key \in Keys
    BY DEF CheckerInv, TaskInv
  <2>2. CASE verdict.kind = "linearizable"
    BY <2>1, <2>2, KeysTogether DEF VerdictInv, VerdictIsRight
  <2>3. CASE verdict.kind = "violated"
    BY <2>1, <2>3, KeysApart DEF VerdictInv, VerdictIsRight
  <2>4. QED
    BY <2>2, <2>3 DEF VerdictIsRight
<1>2. QED
  BY <1>1, CheckerInvariant, PTL
=============================================================================
