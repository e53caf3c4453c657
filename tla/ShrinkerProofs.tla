--------------------------- MODULE ShrinkerProofs ---------------------------
(***************************************************************************)
(* What the search for a smaller scenario keeps, for every scenario, every *)
(* set of outcomes, every budget, and whatever the moves produce; and that *)
(* what they produce can be run.  From RegisterProofs come two facts about *)
(* numbers, LeastNatural and FiniteRange.                                  *)
(***************************************************************************)
EXTENDS Shrinker, RegisterProofs
LOCAL INSTANCE SequencesExt

\* Where the search is.
Position ==
  /\ phase \in {"start", "delete", "rebuild", "pin", "done", "refused"}
  /\ move \in 1 .. NMoves + 1
  /\ next \in Nat \ {0}
  /\ spent \in Nat
  /\ phase \in {"start", "delete"} /\ move > NMoves => next = 1

LEMMA PositionInvariant == Spec => []Position
<1>1. Init => Position
  BY DEF Init, Position, NMoves
<1>2. Position /\ [Next]_vars => Position'
  <2> SUFFICES ASSUME Position, [Next]_vars PROVE Position'
    OBVIOUS
  <2> USE DEF Position, NMoves
  <2>1. CASE Start
    BY <2>1 DEF Start
  <2>2. CASE Delete
    <3>1. /\ phase = "delete" /\ next \in DOMAIN Candidates /\ spent' = spent + 1
          /\ \/ next' = next + 1 /\ UNCHANGED <<phase, move>>
             \/ move' = move + 1 /\ next' = 1 /\ UNCHANGED phase
      BY <2>2 DEF Delete, Execute, Drop
    <3>2. move <= NMoves
      BY <3>1 DEF Candidates
    <3>3. QED
      BY <3>1, <3>2
  <2>3. CASE NextMove
    BY <2>3 DEF NextMove
  <2>4. CASE EndPass
    BY <2>4 DEF EndPass
  <2>5. CASE Rebuild
    <3>1. /\ phase = "rebuild" /\ next \in DOMAIN Candidates /\ spent' = spent + 1
          /\ \/ next' = next + 1 /\ UNCHANGED <<phase, move>>
             \/ phase' = "pin" /\ UNCHANGED <<move, next>>
      BY <2>5 DEF Rebuild, Execute, Drop
    <3>2. QED
      BY <3>1
  <2>6. CASE GiveUp
    BY <2>6 DEF GiveUp
  <2>7. CASE Pin
    BY <2>7 DEF Pin
  <2>8. CASE UNCHANGED vars
    BY <2>8 DEF vars, position
  <2>9. QED
    BY <2>1, <2>2, <2>3, <2>4, <2>5, <2>6, <2>7, <2>8 DEF Next, Done
<1>3. QED
  BY <1>1, <1>2, PTL DEF Spec


-----------------------------------------------------------------------------
(* The budget.                                                             *)

\* At whatever candidate the search is, it has not executed more of them than
\* it was allowed (shrink's accept).
THEOREM BudgetHolds == Spec => []BudgetIsKept
<1>1. Init => BudgetIsKept
  BY BudgetAssumption DEF Init, BudgetIsKept
<1>2. Position /\ BudgetIsKept /\ [Next]_vars => BudgetIsKept'
  <2> SUFFICES ASSUME Position, BudgetIsKept, [Next]_vars PROVE BudgetIsKept'
    OBVIOUS
  <2>1. CASE Delete \/ Rebuild
    <3>1. spent < Budget /\ spent' = spent + 1
      BY <2>1 DEF Delete, Rebuild, Execute, Affordable
    <3>2. QED
      BY <3>1, BudgetAssumption DEF BudgetIsKept, Position
  <2>2. CASE Start \/ NextMove \/ EndPass \/ GiveUp \/ Pin \/ UNCHANGED vars
    BY <2>2 DEF Start, NextMove, EndPass, GiveUp, Pin, vars, BudgetIsKept
  <2>3. QED
    BY <2>1, <2>2 DEF Next, Done
<1>3. QED
  BY <1>1, <1>2, PositionInvariant, PTL DEF Spec

-----------------------------------------------------------------------------
(* What is reported.                                                       *)

LEMMA FaultsAreNotNoSchedule ==
  ASSUME NEW n \in Nat, NEW faults \in Seq(Fault(n))
  PROVE  faults # NoSchedule
<1>1. PICK All : All = [at : Nat, targets : SUBSET Nat]
  OBVIOUS
<1>2. Fault(n) \subseteq All
  BY <1>1 DEF Fault
<1>3. \A F : F \subseteq All /\ faults \in Seq(F) => faults \in Seq(All)
  OBVIOUS
<1>4. QED
  BY <1>1, <1>2, <1>3, ScheduleAssumption

LEMMA PinnedKeepsItsFaults ==
  ASSUME NEW s
  PROVE  /\ Pinned(s).schedule # NoSchedule
         /\ ScheduleOf(Pinned(s)) = ScheduleOf(s)
<1>1. ScheduleOf(s) # NoSchedule
  <2>1. <<>> # NoSchedule
    <3>1. <<>> \in Seq(Fault(0))
      OBVIOUS
    <3>2. QED
      BY <3>1, FaultsAreNotNoSchedule
  <2>2. ScheduleOf(Original) # NoSchedule
    <3>1. PICK n : n = Original.store.replicas
      OBVIOUS
    <3>2. n \in Nat /\ ScheduleOf(Original) \in Seq(Fault(n))
      BY <3>1, OriginalAssumption DEF Runnable
    <3>3. QED
      BY <3>2, FaultsAreNotNoSchedule
  <2>3. QED
    BY <2>1, <2>2 DEF ScheduleOf
<1>2. Pinned(s).schedule = ScheduleOf(s)
  BY DEF Pinned
<1>3. QED
  BY <1>1, <1>2 DEF ScheduleOf

\* Making the faults explicit changes nothing of what a run weighs.
LEMMA PinnedWeighsTheSame ==
  ASSUME NEW s, NEW run
  PROVE  Weight(Pinned(s), run) = Weight(s, run)
<1>1. /\ Pinned(s).plans = s.plans
      /\ Pinned(s).store = s.store
  BY DEF Pinned
<1>2. Operations(Pinned(s)) = Operations(s)
  BY <1>1 DEF Operations
<1>3. QED
  BY <1>1, <1>2, PinnedKeepsItsFaults DEF Weight

\* A candidate is executed by a step that leaves the best as it was, or takes
\* the candidate in its place with its run and its weight.
LEMMA BestIsKeptOrTaken ==
  ASSUME Delete \/ Rebuild
  PROVE  /\ UNCHANGED <<target, deletedSize>>
         /\ \/ UNCHANGED <<phase, chosen, rebuilt>>
            \/ /\ FailsTheSameWay(bestRun')
               /\ bestSize' = Weight(best', bestRun') /\ bestSize' < bestSize
               /\ \/ phase = "delete" /\ phase' = "delete" /\ UNCHANGED rebuilt
                  \/ phase = "rebuild" /\ phase' = "pin" /\ rebuilt'
BY DEF Delete, Rebuild, Execute, Drop, Improve, Improves, Take

\* The verdict and the size reported are those of the scenario reported, which
\* fails on the key the original failed on, wherever the budget ran out.
THEOREM ReportsAreOfOneRun == Spec => []ReportIsOfOneRun
<1>1. Init => ReportIsOfOneRun
  BY DEF Init, ReportIsOfOneRun
<1>2. ReportIsOfOneRun /\ [Next]_vars => ReportIsOfOneRun'
  <2> SUFFICES ASSUME ReportIsOfOneRun, [Next]_vars PROVE ReportIsOfOneRun'
    OBVIOUS
  <2>1. CASE Start
    BY <2>1 DEF Start, ReportIsOfOneRun, chosen
  <2>2. CASE Delete \/ Rebuild
    BY <2>2, BestIsKeptOrTaken DEF Delete, Rebuild, ReportIsOfOneRun, FailsTheSameWay, chosen
  <2>3. CASE NextMove \/ EndPass \/ GiveUp
    BY <2>3 DEF NextMove, EndPass, GiveUp, ReportIsOfOneRun, chosen
  <2>4. CASE Pin
    <3>1. best' = Pinned(best)
      BY <2>4 DEF Pin, ReportIsOfOneRun, FailsTheSameWay
    <3>2. QED
      BY <2>4, <3>1, PinnedKeepsItsFaults, PinnedWeighsTheSame DEF Pin, ReportIsOfOneRun
  <2>5. CASE UNCHANGED vars
    BY <2>5 DEF vars, position, chosen, ReportIsOfOneRun
  <2>6. QED
    BY <2>1, <2>2, <2>3, <2>4, <2>5 DEF Next, Done
<1>3. QED
  BY <1>1, <1>2, PTL DEF Spec

\* What deletion reached is noted when it ends, and beaten or kept after that.
Compared ==
  /\ phase \in {"start", "delete", "rebuild"} => ~ rebuilt
  /\ phase = "rebuild" => bestSize = deletedSize
  /\ phase \in {"pin", "done"} => IF rebuilt THEN bestSize < deletedSize
                                  ELSE bestSize = deletedSize

\* The scenario reported was rebuilt exactly if it beats what deletion reached.
THEOREM RebuildsAreReported == Spec => []RebuiltIsReported
<1>1. Init => Compared
  BY DEF Init, Compared
<1>2. Compared /\ [Next]_vars => Compared'
  <2> SUFFICES ASSUME Compared, [Next]_vars PROVE Compared'
    OBVIOUS
  <2>1. CASE Start
    BY <2>1 DEF Start, Compared, chosen
  <2>2. CASE Delete \/ Rebuild
    <3>1. phase \in {"delete", "rebuild"} /\ deletedSize' = deletedSize
      BY <2>2 DEF Delete, Rebuild
    <3>2. CASE UNCHANGED <<phase, chosen, rebuilt>>
      BY <3>1, <3>2 DEF Compared, chosen
    <3>3. CASE phase = "delete" /\ phase' = "delete" /\ UNCHANGED rebuilt
      BY <3>3 DEF Compared
    <3>4. CASE phase = "rebuild" /\ phase' = "pin" /\ rebuilt' /\ bestSize' < bestSize
      BY <3>1, <3>4 DEF Compared
    <3>5. QED
      BY <2>2, <3>2, <3>3, <3>4, BestIsKeptOrTaken
  <2>3. CASE NextMove \/ EndPass \/ GiveUp
    BY <2>3 DEF NextMove, EndPass, GiveUp, Compared, chosen
  <2>4. CASE Pin
    BY <2>4 DEF Pin, Compared
  <2>5. CASE UNCHANGED vars
    BY <2>5 DEF vars, position, chosen, Compared
  <2>6. QED
    BY <2>1, <2>2, <2>3, <2>4, <2>5 DEF Next, Done
<1>3. Compared => RebuiltIsReported
  BY DEF Compared, RebuiltIsReported
<1>4. QED
  BY <1>1, <1>2, <1>3, PTL DEF Spec

-----------------------------------------------------------------------------
(* Where deletion ends.                                                    *)

AllRejected(candidates) == \A i \in DOMAIN candidates : candidates[i] \in rejected

\* As long as a pass has changed nothing, the scenario is the one the pass began
\* with, and what has been tried of it is rejected.
Tried ==
  /\ phase = "start" => move = 1 /\ next = 1
  /\ phase = "delete" /\ ~ changed /\ Affordable =>
       /\ \A m \in 1 .. move - 1 : AllRejected(Produce(m, best, target))
       /\ \A i \in 1 .. next - 1 : i \in DOMAIN Candidates => Candidates[i] \in rejected

LEMMA TriedInvariant == Spec => [](Tried /\ NothingLeftToDelete)
<1>1. Init => Tried /\ NothingLeftToDelete
  BY DEF Init, Tried, NothingLeftToDelete
<1>2. Position /\ Tried /\ NothingLeftToDelete /\ [Next]_vars => (Tried /\ NothingLeftToDelete)'
  <2> SUFFICES ASSUME Position, Tried, NothingLeftToDelete, [Next]_vars
               PROVE  Tried' /\ NothingLeftToDelete'
    OBVIOUS
  <2>1. CASE Start
    <3>1. /\ phase' \in {"delete", "refused"} /\ move' = 1 /\ next' = 1
      BY <2>1 DEF Start, Tried
    <3>2. QED
      BY <3>1 DEF Tried, NothingLeftToDelete
  <2>2. CASE Delete
    <3>1. phase = "delete" /\ phase' = "delete" /\ UNCHANGED target /\ spent' = spent + 1
      BY <2>2 DEF Delete, Execute, Drop
    <3>2. NothingLeftToDelete'
      BY <3>1 DEF NothingLeftToDelete
    <3>3. CASE changed'
      BY <3>1, <3>2, <3>3 DEF Tried
    <3>4. CASE ~ changed'
      <4>1. /\ next \in DOMAIN Candidates /\ next' = next + 1
            /\ rejected' = rejected \cup {Candidates[next]}
            /\ UNCHANGED <<move, changed, best>>
        BY <2>2, <3>4 DEF Delete, Execute, Drop, chosen
      <4>2. Candidates' = Candidates
        BY <3>1, <4>1 DEF Candidates
      <4>3. Affordable' => Affordable
        BY <3>1, BudgetAssumption DEF Affordable, Position
      <4>4. ASSUME Affordable', NEW m \in 1 .. move' - 1
            PROVE  AllRejected(Produce(m, best, target))'
        BY <3>1, <3>4, <4>1, <4>3, <4>4 DEF Tried, AllRejected
      <4>5. ASSUME Affordable', NEW i \in 1 .. next' - 1, i \in DOMAIN Candidates'
            PROVE  Candidates'[i] \in rejected'
        <5>1. i \in 1 .. next - 1 \/ i = next
          BY <4>1 DEF Position
        <5>2. QED
          BY <3>1, <3>4, <4>1, <4>2, <4>3, <4>5, <5>1 DEF Tried
      <4>6. QED
        BY <3>1, <3>2, <4>4, <4>5 DEF Tried
    <3>5. QED
      BY <3>2, <3>3, <3>4
  <2>3. CASE NextMove
    <3>1. /\ phase = "delete" /\ phase' = "delete" /\ move <= NMoves
          /\ move' = move + 1 /\ next' = 1 /\ Exhausted
          /\ UNCHANGED <<changed, target, best, spent, rejected>>
      BY <2>3 DEF NextMove, chosen
    <3>2. NothingLeftToDelete'
      BY <3>1 DEF NothingLeftToDelete
    <3>3. ASSUME ~ changed', Affordable', NEW m \in 1 .. move' - 1
          PROVE  AllRejected(Produce(m, best, target))'
      <4>1. ~ changed /\ Affordable
        BY <3>1, <3>3 DEF Affordable
      <4>2. CASE m \in 1 .. move - 1
        BY <3>1, <4>1, <4>2 DEF Tried, AllRejected
      <4>3. CASE m = move
        <5>1. Candidates = Produce(m, best, target)
          BY <3>1, <4>3 DEF Candidates
        <5>2. \A i \in DOMAIN Candidates : i \in 1 .. next - 1
          BY <3>1, <4>1 DEF Exhausted
        <5>3. QED
          BY <3>1, <4>1, <5>1, <5>2 DEF Tried, AllRejected
      <4>4. QED
        BY <3>1, <4>2, <4>3 DEF Position
    <3>4. Tried'
      BY <3>1, <3>3 DEF Tried
    <3>5. QED
      BY <3>2, <3>4
  <2>4. CASE EndPass
    <3>1. /\ phase = "delete" /\ move = NMoves + 1 /\ next = 1 /\ next' = 1
          /\ move' = 1 /\ phase' \in {"delete", "rebuild"}
          /\ phase' = "rebuild" => ~ AnotherPass
          /\ UNCHANGED <<target, best, spent, rejected>>
      BY <2>4 DEF EndPass, Position, chosen, NMoves
    <3>2. Tried'
      BY <3>1 DEF Tried
    <3>3. ASSUME phase' = "rebuild", Affordable', NEW m \in 1 .. NMoves
          PROVE  AllRejected(Produce(m, best, target))'
      <4>1. ~ changed /\ Affordable
        BY <3>1, <3>3 DEF AnotherPass, Affordable
      <4>2. QED
        BY <3>1, <4>1 DEF Tried, AllRejected, NMoves
    <3>4. QED
      BY <3>2, <3>3 DEF NothingLeftToDelete, AllRejected, ToSet
  <2>5. CASE Rebuild
    <3>1. phase = "rebuild" /\ phase' \in {"rebuild", "pin"}
          /\ (phase' = "rebuild" => next' = next + 1)
      BY <2>5 DEF Rebuild, Execute, Drop
    <3>2. QED
      BY <3>1 DEF Tried, NothingLeftToDelete, Position
  <2>6. CASE GiveUp \/ Pin
    BY <2>6 DEF GiveUp, Pin, Tried, NothingLeftToDelete
  <2>7. CASE UNCHANGED vars
    <3>1. Candidates' = Candidates
      BY <2>7 DEF vars, position, chosen, Candidates, SmallShapes, Generated
    <3>2. QED
      BY <2>7, <3>1 DEF vars, position, chosen, Tried, NothingLeftToDelete, AllRejected, Affordable
  <2>8. QED
    BY <2>1, <2>2, <2>3, <2>4, <2>5, <2>6, <2>7 DEF Next, Done
<1>3. QED
  BY <1>1, <1>2, PositionInvariant, PTL DEF Spec

\* Deletion that ended within its budget ended at a local minimum: every
\* candidate of every move has been executed and rejected, however the moves and
\* their acceptances were interleaved.
THEOREM DeletionIsExhaustive == Spec => []NothingLeftToDelete
BY TriedInvariant, PTL

-----------------------------------------------------------------------------
(* Sequences.  What a recursive function yields is shown by its least        *)
(* counterexample.                                                           *)

\* g joins the first n of lists, one after another.
Joins(g, lists, n) ==
  g = [i \in 1 .. n |-> IF i = 1 THEN lists[i] ELSE g[i - 1] \o lists[i]]

LEMMA JoinsExist ==
  ASSUME NEW lists, NEW n \in Nat
  PROVE  \E g : Joins(g, lists, n)
<1> DEFINE Missing == {m \in Nat : ~ \E g : Joins(g, lists, m)}
<1> SUFFICES ASSUME Missing # {} PROVE FALSE
  OBVIOUS
<1>1. PICK m \in Missing : \A k \in Missing : m <= k
  BY LeastNatural
<1>2. CASE m = 0
  <2>1. Joins([i \in 1 .. 0 |-> 0], lists, 0)
    BY DEF Joins
  <2>2. QED
    BY <1>1, <1>2, <2>1
<1>3. CASE m # 0
  <2>1. m - 1 \in Nat /\ m - 1 \notin Missing
    BY <1>1, <1>3
  <2>2. PICK g : Joins(g, lists, m - 1)
    BY <2>1
  <2> DEFINE h == [i \in 1 .. m |-> IF i \in 1 .. m - 1 THEN g[i]
                                     ELSE IF i = 1 THEN lists[i] ELSE g[i - 1] \o lists[i]]
  <2>3. ASSUME NEW i \in 1 .. m
        PROVE  h[i] = IF i = 1 THEN lists[i] ELSE h[i - 1] \o lists[i]
    <3>1. CASE i = 1
      BY <2>2, <3>1 DEF Joins
    <3>2. CASE i # 1
      <4>1. i - 1 \in 1 .. m - 1
        BY <3>2
      <4>2. h[i - 1] = g[i - 1]
        BY <4>1
      <4>3. h[i] = g[i - 1] \o lists[i]
        BY <2>2, <3>2 DEF Joins
      <4>4. QED
        BY <3>2, <4>2, <4>3
    <3>3. QED
      BY <3>1, <3>2
  <2>4. h = [i \in 1 .. m |-> IF i = 1 THEN lists[i] ELSE h[i - 1] \o lists[i]]
    <3>1. PICK f : f = [i \in 1 .. m |-> IF i = 1 THEN lists[i] ELSE h[i - 1] \o lists[i]]
      OBVIOUS
    <3>2. \A i \in 1 .. m : f[i] = h[i]
      <4> HIDE DEF h
      <4>1. QED
        BY <2>3, <3>1
    <3>3. f = h
      BY <3>1, <3>2
    <3>4. QED
      BY <3>1, <3>3
  <2>5. Joins(h, lists, m)
    BY <2>4 DEF Joins
  <2>6. QED
    BY <2>5
<1>4. QED
  BY <1>2, <1>3

\* Whatever is in other is in list.
Holds(list, other) ==
  \A j \in DOMAIN other : \E k \in DOMAIN list : list[k] = other[j]

LEMMA JoinedHold ==
  ASSUME NEW S, NEW front \in Seq(S), NEW back \in Seq(S)
  PROVE  /\ front \o back \in Seq(S)
         /\ \A list : Holds(front, list) => Holds(front \o back, list)
         /\ Holds(front \o back, back)
<1> DEFINE all == front \o back
<1>1. all \in Seq(S) /\ Len(all) = Len(front) + Len(back)
  OBVIOUS
<1>2. /\ \A k \in DOMAIN front : k \in DOMAIN all /\ all[k] = front[k]
      /\ \A k \in DOMAIN back : Len(front) + k \in DOMAIN all /\ all[Len(front) + k] = back[k]
  OBVIOUS
<1> HIDE DEF all
<1>3. QED
  BY <1>1, <1>2 DEF Holds, all

\* What lists hold is what their concatenation holds.
LEMMA FlattenKeeps ==
  ASSUME NEW S, NEW lists \in Seq(Seq(S))
  PROVE  /\ FlattenSeq(lists) \in Seq(S)
         /\ \A i \in DOMAIN lists : Holds(FlattenSeq(lists), lists[i])
<1>1. CASE Len(lists) = 0
  BY <1>1 DEF FlattenSeq
<1>2. CASE Len(lists) # 0
  <2>1. PICK n \in Nat \ {0} : n = Len(lists)
    BY <1>2
  <2>2. PICK g : Joins(g, lists, n) /\ FlattenSeq(lists) = g[n]
    <3> DEFINE f == CHOOSE f : Joins(f, lists, Len(lists))
    <3>1. Joins(f, lists, n)
      BY <2>1, JoinsExist
    <3>2. FlattenSeq(lists) = f[n]
      BY <1>2, <2>1 DEF FlattenSeq, Joins
    <3>3. QED
      BY <3>1, <3>2
  <2> DEFINE Good(k) == /\ g[k] \in Seq(S)
                        /\ \A i \in 1 .. k : Holds(g[k], lists[i])
             Bad == {k \in 1 .. n : ~ Good(k)}
  <2>3. Bad = {}
    <3> SUFFICES ASSUME Bad # {} PROVE FALSE
      OBVIOUS
    <3>1. Bad \in SUBSET Nat
      OBVIOUS
    <3>2. PICK b \in Bad : \A k \in Bad : b <= k
      BY <3>1, LeastNatural
    <3>3. b \in 1 .. n /\ lists[b] \in Seq(S)
      BY <2>1
    <3>4. CASE b = 1
      <4>1. g[1] = lists[1]
        BY <2>2, <3>3, <3>4 DEF Joins
      <4>2. Good(1)
        BY <3>3, <3>4, <4>1 DEF Holds
      <4>3. QED
        BY <3>4, <4>2
    <3>5. CASE b # 1
      <4>1. b - 1 \in 1 .. n /\ b - 1 \notin Bad
        BY <3>2, <3>3, <3>5
      <4>2. Good(b - 1)
        BY <4>1
      <4>3. g[b] = g[b - 1] \o lists[b]
        BY <2>2, <3>3, <3>5 DEF Joins
      <4>4. PICK front, back : front = g[b - 1] /\ back = lists[b]
        OBVIOUS
      <4>5. front \in Seq(S) /\ back \in Seq(S)
        BY <3>3, <4>2, <4>4
      <4>6. /\ front \o back \in Seq(S)
            /\ \A list : Holds(front, list) => Holds(front \o back, list)
            /\ Holds(front \o back, back)
        BY <4>5, JoinedHold
      <4>7. \A i \in 1 .. b : i \in 1 .. b - 1 \/ i = b
        BY <3>3
      <4>8. Good(b)
        BY <4>2, <4>3, <4>4, <4>6, <4>7
      <4>9. QED
        BY <4>8
    <3>6. QED
      BY <3>4, <3>5
  <2>4. Good(n)
    BY <2>1, <2>3
  <2>5. QED
    BY <2>1, <2>2, <2>4
<1>3. QED
  BY <1>1, <1>2

LEMMA ListIsSequence ==
  ASSUME NEW S, NEW n \in Nat, NEW f \in [1 .. n -> S]
  PROVE  f \in Seq(S)
OBVIOUS

LEMMA OnlyKeeps ==
  ASSUME NEW S, NEW list \in Seq(S), NEW kept
  PROVE  /\ Only(list, kept) \in Seq(S \cap kept)
         /\ \A i \in DOMAIN list : list[i] \in kept =>
              \E k \in DOMAIN Only(list, kept) : Only(list, kept)[k] = list[i]
<1> DEFINE lists == [i \in DOMAIN list |-> IF list[i] \in kept THEN <<list[i]>> ELSE <<>>]
<1>1. lists \in Seq(Seq(S \cap kept))
  <2>1. PICK n \in Nat : n = Len(list) /\ DOMAIN list = 1 .. n
    OBVIOUS
  <2>2. ASSUME NEW i \in 1 .. n
        PROVE  (IF list[i] \in kept THEN <<list[i]>> ELSE <<>>) \in Seq(S \cap kept)
    <3>1. list[i] \in S
      BY <2>1
    <3>2. CASE list[i] \in kept
      BY <3>1, <3>2
    <3>3. CASE list[i] \notin kept
      BY <3>3
    <3>4. QED
      BY <3>2, <3>3
  <2>3. lists \in [1 .. n -> Seq(S \cap kept)]
    BY <2>1, <2>2
  <2> HIDE DEF lists
  <2>4. QED
    BY <2>3, ListIsSequence
<1>2. /\ FlattenSeq(lists) \in Seq(S \cap kept)
      /\ \A i \in DOMAIN lists : Holds(FlattenSeq(lists), lists[i])
  <2> HIDE DEF lists
  <2>1. QED
    BY <1>1, FlattenKeeps
<1>3. Only(list, kept) = FlattenSeq(lists)
  BY DEF Only
<1>4. ASSUME NEW i \in DOMAIN list, list[i] \in kept
      PROVE  \E k \in DOMAIN FlattenSeq(lists) : FlattenSeq(lists)[k] = list[i]
  <2>1. lists[i] = <<list[i]>> /\ i \in DOMAIN lists
    BY <1>4
  <2>2. 1 \in DOMAIN lists[i] /\ lists[i][1] = list[i]
    BY <2>1
  <2>3. QED
    BY <1>2, <2>1, <2>2 DEF Holds
<1>5. QED
  BY <1>2, <1>3, <1>4

LEMMA RemovalKeeps ==
  ASSUME NEW S, NEW list \in Seq(S), NEW i \in DOMAIN list
  PROVE  RemoveAt(list, i) \in Seq(S)
<1>1. PICK n \in Nat : n = Len(list)
  OBVIOUS
<1>2. i \in 1 .. n
  BY <1>1
<1>3. SubSeq(list, 1, i - 1) \in Seq(S)
  BY <1>1, <1>2
<1>4. SubSeq(list, i + 1, n) \in Seq(S)
  BY <1>1, <1>2
<1>5. QED
  BY <1>1, <1>3, <1>4 DEF RemoveAt

LEMMA PartsKeep ==
  ASSUME NEW S, NEW list \in Seq(S)
  PROVE  Parts(list) \in Seq(Seq(S))
<1> DEFINE middle == Len(list) \div 2
           halves == IF Len(list) > 2
                     THEN <<SubSeq(list, 1, middle), SubSeq(list, middle + 1, Len(list))>> ELSE <<>>
           others == [i \in DOMAIN list |-> RemoveAt(list, i)]
<1>1. halves \in Seq(Seq(S))
  <2>1. middle \in 0 .. Len(list)
    OBVIOUS
  <2>2. SubSeq(list, 1, middle) \in Seq(S)
    BY <2>1
  <2>3. SubSeq(list, middle + 1, Len(list)) \in Seq(S)
    BY <2>1
  <2>4. QED
    BY <2>2, <2>3
<1>2. others \in Seq(Seq(S))
  <2>1. PICK n \in Nat : n = Len(list) /\ DOMAIN list = 1 .. n
    OBVIOUS
  <2>2. ASSUME NEW i \in 1 .. n PROVE RemoveAt(list, i) \in Seq(S)
    BY <2>1, RemovalKeeps
  <2>3. others \in [1 .. n -> Seq(S)]
    BY <2>1, <2>2
  <2> HIDE DEF others
  <2>4. QED
    BY <2>3, ListIsSequence
<1>3. Parts(list) = halves \o others
  BY DEF Parts
<1> HIDE DEF halves, others
<1>4. QED
  BY <1>1, <1>2, <1>3

-----------------------------------------------------------------------------
(* The moves.                                                              *)

\* A scenario whose faults are explicit, as deletion sees them.
Reducible(s) == Runnable(s) /\ s.schedule # NoSchedule

\* The parts of a scenario that can be reduced.
LEMMA ReducibleParts ==
  ASSUME NEW s, Reducible(s)
  PROVE  LET n == s.store.replicas
         IN  /\ s = [store |-> s.store, plans |-> s.plans, schedule |-> s.schedule, origin |-> s.origin]
             /\ s.store \in [replicas : Nat \ {0}, quorum : 1 .. n, faithful : BOOLEAN]
             /\ n \in Nat \ {0}
             /\ s.plans \in Seq(Seq(Operation(n)))
             /\ s.schedule \in Seq(Fault(n))
<1>1. ScheduleOf(s) = s.schedule
  BY DEF Reducible, ScheduleOf
<1>2. QED
  BY <1>1 DEF Reducible, Runnable

LEMMA PartsReducible ==
  ASSUME NEW n \in Nat \ {0}, NEW quorum \in 1 .. n, NEW faithful \in BOOLEAN,
         NEW plans \in Seq(Seq(Operation(n))), NEW schedule \in Seq(Fault(n)), NEW s,
         s.store = [replicas |-> n, quorum |-> quorum, faithful |-> faithful],
         s = [store |-> s.store, plans |-> plans, schedule |-> schedule, origin |-> s.origin]
  PROVE  Reducible(s)
<1>1. schedule # NoSchedule
  BY FaultsAreNotNoSchedule
<1>2. s.schedule = schedule /\ s.plans = plans /\ s.store.replicas = n
  OBVIOUS
<1>3. ScheduleOf(s) = schedule
  BY <1>1, <1>2 DEF ScheduleOf
<1>4. s.store \in [replicas : Nat \ {0}, quorum : 1 .. n, faithful : BOOLEAN]
  OBVIOUS
<1>5. QED
  BY <1>1, <1>2, <1>3, <1>4 DEF Reducible, Runnable

\* What s becomes with other plans for the same cluster.
Replanned(s) == {[s EXCEPT !.plans = plans] : plans \in Seq(Seq(Operation(s.store.replicas)))}

Rescheduled(s) == {[s EXCEPT !.schedule = faults] : faults \in Seq(Fault(s.store.replicas))}

LEMMA ReplannedIsReducible ==
  ASSUME NEW s, Reducible(s), NEW c \in Replanned(s) \cup Rescheduled(s)
  PROVE  Reducible(c)
<1>1. PICK n : n = s.store.replicas
  OBVIOUS
<1>2. /\ s = [store |-> s.store, plans |-> s.plans, schedule |-> s.schedule, origin |-> s.origin]
      /\ s.store \in [replicas : Nat \ {0}, quorum : 1 .. n, faithful : BOOLEAN]
      /\ n \in Nat \ {0}
      /\ s.plans \in Seq(Seq(Operation(n)))
      /\ s.schedule \in Seq(Fault(n))
  BY <1>1, ReducibleParts
<1>3. PICK quorum \in 1 .. n, faithful \in BOOLEAN :
        s.store = [replicas |-> n, quorum |-> quorum, faithful |-> faithful]
  BY <1>1, <1>2
<1>4. CASE c \in Replanned(s)
  <2>1. PICK plans \in Seq(Seq(Operation(n))) : c = [s EXCEPT !.plans = plans]
    BY <1>1, <1>4 DEF Replanned
  <2>2. /\ c.store = s.store
        /\ c = [store |-> c.store, plans |-> plans, schedule |-> s.schedule, origin |-> c.origin]
    BY <1>2, <2>1
  <2>3. QED
    BY <1>2, <1>3, <2>2, PartsReducible
<1>5. CASE c \in Rescheduled(s)
  <2>1. PICK faults \in Seq(Fault(n)) : c = [s EXCEPT !.schedule = faults]
    BY <1>1, <1>5 DEF Rescheduled
  <2>2. /\ c.store = s.store
        /\ c = [store |-> c.store, plans |-> s.plans, schedule |-> faults, origin |-> c.origin]
    BY <1>2, <2>1
  <2>3. QED
    BY <1>2, <1>3, <2>2, PartsReducible
<1>6. QED
  BY <1>4, <1>5

\* A candidate or none.
LEMMA UnlessKeeps ==
  ASSUME NEW S, NEW s, NEW c \in S
  PROVE  Unless(s, c) \in Seq(S)
BY DEF Unless

\* What the operations of s are.
LEMMA OpsOfAreOperations ==
  ASSUME NEW S, NEW s, s.plans \in Seq(Seq(S))
  PROVE  /\ OpsOf(s) \subseteq S
         /\ \A c \in DOMAIN s.plans : \A i \in DOMAIN s.plans[c] : s.plans[c][i] \in OpsOf(s)
<1>1. \A c \in DOMAIN s.plans : s.plans[c] \in Seq(S)
  OBVIOUS
<1>2. \A c \in DOMAIN s.plans : ToSet(s.plans[c]) \subseteq S
  BY <1>1 DEF ToSet
<1>3. \A c \in DOMAIN s.plans : \A i \in DOMAIN s.plans[c] : s.plans[c][i] \in ToSet(s.plans[c])
  BY DEF ToSet
<1>4. QED
  BY <1>2, <1>3 DEF OpsOf

\* The moves, one by one, in the order in which they are tried.
LEMMA OnlyTheFailingKeyKeeps ==
  ASSUME NEW s, Reducible(s), NEW key
  PROVE  OnlyTheFailingKey(s, key) \in Seq(Replanned(s))
<1> DEFINE kept == {op \in OpsOf(s) : op.key = key}
           plans == [c \in DOMAIN s.plans |-> Only(s.plans[c], kept)]
<1>1. PICK Ops : Ops = Operation(s.store.replicas)
  OBVIOUS
<1>2. s.plans \in Seq(Seq(Ops))
  BY <1>1, ReducibleParts
<1>3. PICK n \in Nat : n = Len(s.plans) /\ DOMAIN s.plans = 1 .. n
  BY <1>2
<1>4. ASSUME NEW c \in 1 .. n PROVE Only(s.plans[c], kept) \in Seq(Ops)
  <2>1. s.plans[c] \in Seq(Ops)
    BY <1>2, <1>3
  <2> HIDE DEF kept
  <2>2. Only(s.plans[c], kept) \in Seq(Ops \cap kept)
    BY <2>1, OnlyKeeps
  <2>3. QED
    BY <2>2
<1>5. plans \in [1 .. n -> Seq(Ops)]
  BY <1>3, <1>4
<1>6. plans \in Seq(Seq(Ops))
  <2> HIDE DEF plans
  <2>1. QED
    BY <1>5, ListIsSequence
<1>7. OnlyTheFailingKey(s, key) = Unless(s, [s EXCEPT !.plans = plans])
  BY DEF OnlyTheFailingKey
<1>8. [s EXCEPT !.plans = plans] \in Replanned(s)
  <2> HIDE DEF plans
  <2>1. QED
    BY <1>1, <1>6 DEF Replanned
<1> HIDE DEF plans
<1>9. QED
  BY <1>7, <1>8, UnlessKeeps

LEMMA FewerFaultsKeeps ==
  ASSUME NEW s, Reducible(s)
  PROVE  FewerFaults(s) \in Seq(Rescheduled(s))
<1> DEFINE parts == IF s.schedule = <<>> THEN <<>> ELSE <<<<>>>> \o Parts(s.schedule)
           candidates == [i \in DOMAIN parts |-> [s EXCEPT !.schedule = parts[i]]]
<1>1. PICK Faults : Faults = Fault(s.store.replicas)
  OBVIOUS
<1>2. s.schedule \in Seq(Faults)
  BY <1>1, ReducibleParts
<1>3. parts \in Seq(Seq(Faults))
  <2>1. Parts(s.schedule) \in Seq(Seq(Faults))
    BY <1>2, PartsKeep
  <2>2. <<<<>>>> \in Seq(Seq(Faults))
    OBVIOUS
  <2>3. PICK first, rest : first = <<<<>>>> /\ rest = Parts(s.schedule)
    OBVIOUS
  <2>4. first \o rest \in Seq(Seq(Faults))
    BY <2>1, <2>2, <2>3
  <2>5. QED
    BY <2>3, <2>4
<1> HIDE DEF parts
<1>4. PICK n \in Nat : n = Len(parts) /\ DOMAIN parts = 1 .. n
  BY <1>3
<1>5. \A i \in 1 .. n : [s EXCEPT !.schedule = parts[i]] \in Rescheduled(s)
  BY <1>1, <1>3, <1>4 DEF Rescheduled
<1>6. candidates \in [1 .. n -> Rescheduled(s)]
  BY <1>4, <1>5
<1>7. FewerFaults(s) = candidates
  BY DEF FewerFaults, parts
<1> HIDE DEF candidates
<1>8. QED
  BY <1>6, <1>7, ListIsSequence

LEMMA FewerOperationsKeeps ==
  ASSUME NEW s, Reducible(s)
  PROVE  FewerOperations(s) \in Seq(Replanned(s))
<1> DEFINE Shortened(c) == [i \in DOMAIN Parts(s.plans[c]) |->
                              [s EXCEPT !.plans[c] = Parts(s.plans[c])[i]]]
           lists == [c \in DOMAIN s.plans |-> Shortened(c)]
<1>1. PICK Ops : Ops = Operation(s.store.replicas)
  OBVIOUS
<1>2. s.plans \in Seq(Seq(Ops))
  BY <1>1, ReducibleParts
<1>3. PICK n \in Nat : n = Len(s.plans) /\ DOMAIN s.plans = 1 .. n
  BY <1>2
<1>4. ASSUME NEW c \in 1 .. n PROVE Shortened(c) \in Seq(Replanned(s))
  <2>1. PICK parts : parts = Parts(s.plans[c])
    OBVIOUS
  <2>2. parts \in Seq(Seq(Ops))
    <3>1. s.plans[c] \in Seq(Ops)
      BY <1>2, <1>3
    <3>2. QED
      BY <2>1, <3>1, PartsKeep
  <2>3. PICK m \in Nat : m = Len(parts) /\ DOMAIN parts = 1 .. m
    BY <2>2
  <2>4. ASSUME NEW i \in 1 .. m PROVE [s EXCEPT !.plans[c] = parts[i]] \in Replanned(s)
    <3>1. PICK plans : plans = [s.plans EXCEPT ![c] = parts[i]]
      OBVIOUS
    <3>2. plans \in Seq(Seq(Ops))
      BY <1>2, <1>3, <2>2, <2>3, <3>1
    <3>3. [s EXCEPT !.plans[c] = parts[i]] = [s EXCEPT !.plans = plans]
      BY <3>1
    <3>4. QED
      BY <1>1, <3>2, <3>3 DEF Replanned
  <2>5. [i \in DOMAIN parts |-> [s EXCEPT !.plans[c] = parts[i]]] \in [1 .. m -> Replanned(s)]
    BY <2>3, <2>4
  <2>6. PICK list : list = [i \in DOMAIN parts |-> [s EXCEPT !.plans[c] = parts[i]]]
    OBVIOUS
  <2>7. list \in Seq(Replanned(s))
    BY <2>5, <2>6, ListIsSequence
  <2>8. QED
    BY <2>1, <2>6, <2>7
<1>5. lists \in [1 .. n -> Seq(Replanned(s))]
  <2> HIDE DEF Shortened
  <2>1. QED
    BY <1>3, <1>4
<1>6. FewerOperations(s) = FlattenSeq(lists)
  BY DEF FewerOperations
<1> HIDE DEF lists
<1>7. lists \in Seq(Seq(Replanned(s)))
  BY <1>5, ListIsSequence
<1>8. QED
  BY <1>6, <1>7, FlattenKeeps

LEMMA FewerClientsKeeps ==
  ASSUME NEW s, Reducible(s)
  PROVE  FewerClients(s) \in Seq(Replanned(s))
<1> DEFINE busy == Unless(s, [s EXCEPT !.plans = Only(s.plans, ToSet(s.plans) \ {<<>>})])
           others == [c \in DOMAIN s.plans |-> [s EXCEPT !.plans = RemoveAt(s.plans, c)]]
<1>1. PICK Ops : Ops = Operation(s.store.replicas)
  OBVIOUS
<1>2. s.plans \in Seq(Seq(Ops))
  BY <1>1, ReducibleParts
<1>3. PICK n \in Nat : n = Len(s.plans) /\ DOMAIN s.plans = 1 .. n
  BY <1>2
<1>4. busy \in Seq(Replanned(s))
  <2>1. PICK kept : kept = ToSet(s.plans) \ {<<>>}
    OBVIOUS
  <2>2. PICK P : P = Seq(Ops)
    OBVIOUS
  <2>3. PICK plans : plans = Only(s.plans, kept)
    OBVIOUS
  <2>4. plans \in Seq(P \cap kept)
    BY <1>2, <2>2, <2>3, OnlyKeeps
  <2>5. plans \in Seq(P)
    BY <2>4
  <2>6. [s EXCEPT !.plans = plans] \in Replanned(s)
    BY <1>1, <2>2, <2>5 DEF Replanned
  <2>7. QED
    BY <2>1, <2>3, <2>6, UnlessKeeps
<1>5. others \in Seq(Replanned(s))
  <2>1. ASSUME NEW c \in 1 .. n PROVE [s EXCEPT !.plans = RemoveAt(s.plans, c)] \in Replanned(s)
    <3>1. PICK plans : plans = RemoveAt(s.plans, c)
      OBVIOUS
    <3>2. plans \in Seq(Seq(Ops))
      <4>1. PICK P : P = Seq(Ops)
        OBVIOUS
      <4>2. s.plans \in Seq(P) /\ c \in DOMAIN s.plans
        BY <1>2, <1>3, <4>1
      <4>3. plans \in Seq(P)
        BY <3>1, <4>2, RemovalKeeps
      <4>4. QED
        BY <4>1, <4>3
    <3>3. QED
      BY <1>1, <3>1, <3>2 DEF Replanned
  <2>2. others \in [1 .. n -> Replanned(s)]
    BY <1>3, <2>1
  <2> HIDE DEF others
  <2>3. QED
    BY <2>2, ListIsSequence
<1>6. FewerClients(s) = IF Len(s.plans) <= 1 THEN <<>> ELSE busy \o others
  BY DEF FewerClients
<1> HIDE DEF busy, others
<1>7. busy \o others \in Seq(Replanned(s))
  BY <1>4, <1>5
<1>8. QED
  BY <1>6, <1>7

\* Replacing every operation keeps the shape of the plans.
LEMMA MapOpsKeeps ==
  ASSUME NEW S, NEW T, NEW s, s.plans \in Seq(Seq(S)), DOMAIN s = {"store", "plans", "schedule", "origin"},
         NEW new, \A op \in OpsOf(s) : new[op] \in T
  PROVE  \E plans \in Seq(Seq(T)) : MapOps(s, new) = [s EXCEPT !.plans = plans]
<1> DEFINE Mapped(c) == [i \in DOMAIN s.plans[c] |-> new[s.plans[c][i]]]
           plans == [c \in DOMAIN s.plans |-> Mapped(c)]
<1>1. PICK n \in Nat : n = Len(s.plans) /\ DOMAIN s.plans = 1 .. n
  OBVIOUS
<1>2. ASSUME NEW c \in 1 .. n PROVE Mapped(c) \in Seq(T)
  <2>1. PICK list : list = s.plans[c]
    OBVIOUS
  <2>2. list \in Seq(S)
    BY <1>1, <2>1
  <2>3. PICK m \in Nat : m = Len(list) /\ DOMAIN list = 1 .. m
    BY <2>2
  <2>4. \A i \in 1 .. m : list[i] \in OpsOf(s)
    BY <1>1, <2>1, <2>3, OpsOfAreOperations
  <2>5. PICK mapped : mapped = [i \in DOMAIN list |-> new[list[i]]]
    OBVIOUS
  <2>6. mapped \in [1 .. m -> T]
    BY <2>3, <2>4, <2>5
  <2>7. mapped \in Seq(T)
    BY <2>6, ListIsSequence
  <2>8. QED
    BY <2>1, <2>5, <2>7
<1>3. plans \in [1 .. n -> Seq(T)]
  <2> HIDE DEF Mapped
  <2>1. QED
    BY <1>1, <1>2
<1>4. MapOps(s, new) = [s EXCEPT !.plans = plans]
  BY DEF MapOps
<1>5. plans \in Seq(Seq(T))
  <2> HIDE DEF plans
  <2>1. QED
    BY <1>3, ListIsSequence
<1> HIDE DEF plans
<1>6. QED
  BY <1>4, <1>5

LEMMA NoThinkingKeeps ==
  ASSUME NEW s, Reducible(s)
  PROVE  NoThinking(s) \in Seq(Replanned(s))
<1> DEFINE new == [op \in OpsOf(s) |-> [op EXCEPT !.think = 0]]
<1>1. PICK Ops : Ops = Operation(s.store.replicas)
  OBVIOUS
<1>2. s.plans \in Seq(Seq(Ops)) /\ DOMAIN s = {"store", "plans", "schedule", "origin"}
  BY <1>1, ReducibleParts
<1>3. ASSUME NEW op \in OpsOf(s) PROVE new[op] \in Ops
  <2>1. op \in Ops
    BY <1>2, OpsOfAreOperations
  <2>2. [op EXCEPT !.think = 0] \in Ops
    BY <1>1, <2>1 DEF Operation
  <2>3. QED
    BY <2>2
<1> HIDE DEF new
<1>4. PICK plans \in Seq(Seq(Ops)) : MapOps(s, new) = [s EXCEPT !.plans = plans]
  BY <1>2, <1>3, MapOpsKeeps
<1>5. MapOps(s, new) \in Replanned(s)
  BY <1>1, <1>4 DEF Replanned
<1>6. NoThinking(s) = Unless(s, MapOps(s, new))
  BY DEF NoThinking, new
<1>7. QED
  BY <1>5, <1>6, UnlessKeeps

\* An argument of s has a rank.
LEMMA RenumberedIsNumber ==
  ASSUME NEW s, Reducible(s), NEW op \in OpsOf(s), op.argument # None
  PROVE  Renumbered(s, op.argument) \in Nat
<1> DEFINE v == op.argument
           kept == {o \in OpsOf(s) : o.argument # None}
           written == Only(FlattenSeq(s.plans), kept)
           IsFirst(i) == /\ written[i].argument = v
                         /\ \A j \in 1 .. i - 1 : written[j].argument # v
           first == CHOOSE i \in DOMAIN written : IsFirst(i)
<1>1. PICK Ops : Ops = Operation(s.store.replicas)
  OBVIOUS
<1>2. s.plans \in Seq(Seq(Ops))
  BY <1>1, ReducibleParts
<1>3. PICK flat : flat = FlattenSeq(s.plans) /\ flat \in Seq(Ops)
                  /\ \A c \in DOMAIN s.plans : Holds(flat, s.plans[c])
  BY <1>2, FlattenKeeps
<1>4. PICK k \in DOMAIN flat : flat[k] = op
  <2>1. PICK c \in DOMAIN s.plans : op \in ToSet(s.plans[c])
    BY DEF OpsOf
  <2>2. PICK i \in DOMAIN s.plans[c] : s.plans[c][i] = op
    BY <2>1 DEF ToSet
  <2>3. QED
    BY <1>3, <2>1, <2>2 DEF Holds
<1>5. /\ written \in Seq(Ops)
      /\ \E i \in DOMAIN written : written[i] = op
  <2> HIDE DEF kept
  <2>1. /\ written \in Seq(Ops \cap kept)
        /\ flat[k] \in kept => \E i \in DOMAIN written : written[i] = flat[k]
    BY <1>3, OnlyKeeps
  <2>2. op \in kept
    BY DEF kept
  <2>3. QED
    BY <1>4, <2>1, <2>2
<1> HIDE DEF written, IsFirst
<1>6. PICK n \in Nat : n = Len(written) /\ DOMAIN written = 1 .. n
  BY <1>5
<1>7. \E i \in DOMAIN written : IsFirst(i)
  <2> DEFINE Places == {i \in 1 .. n : written[i].argument = v}
  <2>1. Places # {} /\ Places \in SUBSET Nat
    BY <1>5, <1>6
  <2>2. PICK i \in Places : \A j \in Places : i <= j
    BY <2>1, LeastNatural
  <2>3. \A j \in 1 .. i - 1 : j \in 1 .. n /\ ~ (i <= j)
    BY <1>6, <2>2
  <2>4. QED
    BY <1>6, <2>2, <2>3 DEF IsFirst
<1>8. first \in Nat
  BY <1>6, <1>7
<1>9. Renumbered(s, v) = Cardinality({written[j].argument : j \in 1 .. first})
  BY DEF Renumbered, written, IsFirst
<1> HIDE DEF first
<1>10. IsFiniteSet({written[j].argument : j \in 1 .. first})
  <2>1. PICK f : f = [j \in 1 .. first |-> written[j].argument]
    OBVIOUS
  <2>2. {f[j] : j \in 1 .. first} = {written[j].argument : j \in 1 .. first}
    BY <2>1
  <2>3. QED
    BY <1>8, <2>2, FiniteRange
<1>11. QED
  BY <1>9, <1>10, FS_CardinalityType

LEMMA PlainerValuesKeeps ==
  ASSUME NEW s, Reducible(s)
  PROVE  PlainerValues(s) \in Seq(Replanned(s))
<1> DEFINE Plainer(op) == IF op.argument = None THEN op
                          ELSE [op EXCEPT !.argument = Renumbered(s, op.argument)]
           new == [op \in OpsOf(s) |-> Plainer(op)]
<1>1. PICK Ops : Ops = Operation(s.store.replicas)
  OBVIOUS
<1>2. s.plans \in Seq(Seq(Ops)) /\ DOMAIN s = {"store", "plans", "schedule", "origin"}
  BY <1>1, ReducibleParts
<1>3. ASSUME NEW op \in OpsOf(s) PROVE Plainer(op) \in Ops
  <2>1. op \in Ops
    BY <1>2, OpsOfAreOperations
  <2>2. CASE op.argument = None
    BY <2>1, <2>2
  <2>3. CASE op.argument # None
    <3>1. PICK v : v = Renumbered(s, op.argument)
      OBVIOUS
    <3>2. v \in Nat
      BY <2>3, <3>1, RenumberedIsNumber
    <3>3. [op EXCEPT !.argument = v] \in Ops
      BY <1>1, <2>1, <3>2 DEF Operation
    <3>4. QED
      BY <2>3, <3>1, <3>3
  <2>4. QED
    BY <2>2, <2>3
<1>4. PlainerValues(s) = Unless(s, MapOps(s, new))
  BY DEF PlainerValues
<1>5. \A op \in OpsOf(s) : new[op] \in Ops
  <2> HIDE DEF Plainer
  <2>1. QED
    BY <1>3
<1> HIDE DEF new
<1>6. PICK plans \in Seq(Seq(Ops)) : MapOps(s, new) = [s EXCEPT !.plans = plans]
  BY <1>2, <1>5, MapOpsKeeps
<1>7. MapOps(s, new) \in Replanned(s)
  BY <1>1, <1>6 DEF Replanned
<1>8. QED
  BY <1>4, <1>7, UnlessKeeps

\* The faults that remain are aimed at replicas that remain.
LEMMA ConfineKeeps ==
  ASSUME NEW n \in Nat, NEW size \in Nat, NEW schedule \in Seq(Fault(n))
  PROVE  Confine(schedule, size) \in Seq(Fault(size))
<1> DEFINE Confined(f) == [f EXCEPT !.targets = @ \cap (0 .. size - 1)]
           confined == [i \in DOMAIN schedule |-> Confined(schedule[i])]
           kept == {f \in ToSet(confined) : f.targets # {}}
<1>1. PICK All : All = [at : Nat, targets : SUBSET (0 .. size - 1)]
  OBVIOUS
<1>2. PICK m \in Nat : m = Len(schedule) /\ DOMAIN schedule = 1 .. m
  OBVIOUS
<1>3. ASSUME NEW i \in 1 .. m PROVE Confined(schedule[i]) \in All
  <2>1. PICK f : f = schedule[i]
    OBVIOUS
  <2>2. f \in Fault(n)
    BY <1>2, <2>1
  <2>3. f \in [at : Nat, targets : SUBSET (0 .. n - 1)]
    BY <2>2 DEF Fault
  <2>4. [f EXCEPT !.targets = f.targets \cap (0 .. size - 1)] \in All
    BY <1>1, <2>3
  <2>5. QED
    BY <2>1, <2>4
<1>4. confined \in [1 .. m -> All]
  <2> HIDE DEF Confined
  <2>1. QED
    BY <1>2, <1>3
<1>5. Confine(schedule, size) = Only(confined, kept)
  BY DEF Confine
<1> HIDE DEF confined
<1>6. confined \in Seq(All)
  BY <1>4, ListIsSequence
<1>7. All \cap kept \subseteq Fault(size)
  BY <1>1 DEF Fault
<1> HIDE DEF kept
<1>8. Only(confined, kept) \in Seq(All \cap kept)
  BY <1>6, OnlyKeeps
<1>9. PICK list : list = Only(confined, kept)
  OBVIOUS
<1>10. PICK Some : Some = All \cap kept
  OBVIOUS
<1>11. \A F : Some \subseteq F /\ list \in Seq(Some) => list \in Seq(F)
  OBVIOUS
<1>12. QED
  BY <1>5, <1>7, <1>8, <1>9, <1>10, <1>11

LEMMA SmallerClusterKeeps ==
  ASSUME NEW s, Reducible(s), NEW i \in DOMAIN SmallerCluster(s)
  PROVE  Reducible(SmallerCluster(s)[i])
<1> DEFINE size == i + 2
           new == [op \in OpsOf(s) |-> Rehome(op, size)]
           store == [replicas |-> size, quorum |-> size \div 2 + 1, faithful |-> TRUE]
<1>1. PICK n \in Nat \ {0} : n = s.store.replicas
  BY ReducibleParts
<1>2. s.plans \in Seq(Seq(Operation(n))) /\ s.schedule \in Seq(Fault(n))
      /\ s = [store |-> s.store, plans |-> s.plans, schedule |-> s.schedule, origin |-> s.origin]
  BY <1>1, ReducibleParts
<1>3. i \in 1 .. n - 3
  BY <1>1 DEF SmallerCluster
<1>4. SmallerCluster(s)[i] = [MapOps(s, new) EXCEPT !.store = store, !.schedule = Confine(@, size)]
  BY <1>1, <1>3 DEF SmallerCluster
<1>5. size \in Nat \ {0} /\ size \div 2 + 1 \in 1 .. size
  BY <1>3
<1>6. PICK m, q : m = size /\ q = size \div 2 + 1
  OBVIOUS
<1>7. ASSUME NEW op \in OpsOf(s) PROVE new[op] \in Operation(m)
  <2>1. op \in Operation(n)
    BY <1>2, OpsOfAreOperations
  <2>2. op.coordinator \in Nat
    BY <2>1 DEF Operation
  <2>3. \A x \in Nat : x % m \in 0 .. m - 1
    BY <1>5, <1>6
  <2>4. [op EXCEPT !.coordinator = @ % m] \in Operation(m)
    BY <2>1, <2>2, <2>3 DEF Operation
  <2>5. new[op] = [op EXCEPT !.coordinator = @ % m]
    BY <1>6 DEF Rehome
  <2>6. QED
    BY <2>4, <2>5
<1> HIDE DEF new, size
<1>8. PICK plans \in Seq(Seq(Operation(m))) : MapOps(s, new) = [s EXCEPT !.plans = plans]
  <2>1. DOMAIN s = {"store", "plans", "schedule", "origin"}
    BY <1>2
  <2>2. PICK A, B : A = Operation(n) /\ B = Operation(m)
    OBVIOUS
  <2>3. \E plans \in Seq(Seq(B)) : MapOps(s, new) = [s EXCEPT !.plans = plans]
    BY <1>2, <1>7, <2>1, <2>2, MapOpsKeeps
  <2>4. QED
    BY <2>2, <2>3
<1>9. PICK schedule : schedule = Confine(s.schedule, m)
  OBVIOUS
<1>10. schedule \in Seq(Fault(m))
  BY <1>2, <1>5, <1>6, <1>9, ConfineKeeps
<1>11. PICK c : c = [[s EXCEPT !.plans = plans] EXCEPT !.store = store, !.schedule = Confine(@, m)]
  OBVIOUS
<1>12. PICK st : st = [replicas |-> m, quorum |-> q, faithful |-> TRUE]
  OBVIOUS
<1>13. /\ c.store = st
       /\ c = [store |-> c.store, plans |-> plans, schedule |-> schedule, origin |-> c.origin]
  BY <1>2, <1>6, <1>9, <1>11, <1>12
<1>14. SmallerCluster(s)[i] = c
  BY <1>4, <1>6, <1>8, <1>11
<1>15. Reducible(c)
  BY <1>5, <1>6, <1>10, <1>12, <1>13, PartsReducible
<1>16. QED
  BY <1>14, <1>15

-----------------------------------------------------------------------------
(* What is executed can be run.                                            *)

\* Every move produces scenarios that can be run, with their faults explicit.
LEMMA MovesKeep ==
  ASSUME NEW m \in 1 .. NMoves, NEW s, Reducible(s), NEW key, NEW i \in DOMAIN Produce(m, s, key)
  PROVE  Reducible(Produce(m, s, key)[i])
<1>1. ASSUME NEW list \in Seq(Replanned(s)), NEW j \in DOMAIN list PROVE Reducible(list[j])
  BY <1>1, ReplannedIsReducible
<1>2. ASSUME NEW list \in Seq(Rescheduled(s)), NEW j \in DOMAIN list PROVE Reducible(list[j])
  BY <1>2, ReplannedIsReducible
<1>3. CASE m = 1
  BY <1>1, <1>3, OnlyTheFailingKeyKeeps DEF Produce
<1>4. CASE m = 2
  BY <1>2, <1>4, FewerFaultsKeeps DEF Produce
<1>5. CASE m = 3
  BY <1>1, <1>5, FewerOperationsKeeps DEF Produce
<1>6. CASE m = 4
  BY <1>1, <1>6, FewerClientsKeeps DEF Produce
<1>7. CASE m = 5
  BY <1>7, SmallerClusterKeeps DEF Produce
<1>8. CASE m = 6
  BY <1>1, <1>8, NoThinkingKeeps DEF Produce
<1>9. CASE m = 7
  BY <1>1, <1>9, PlainerValuesKeeps DEF Produce
<1>10. QED
  BY <1>3, <1>4, <1>5, <1>6, <1>7, <1>8, <1>9 DEF NMoves

ShapeSet == [operations : Nat, clients : Nat, latency : STRING, seed : Nat]

LEMMA ShapesAreShapes == Shapes \in Seq(ShapeSet)
<1> DEFINE Shape(o, c, l, seed) ==
             [operations |-> o + 1, clients |-> c + 1, latency |-> Profiles[l], seed |-> seed - 1]
           Seeded(o, c, l)  == [seed \in 1 .. SearchSeeds |-> Shape(o, c, l, seed)]
           Timed(o, c)      == [l \in DOMAIN Profiles |-> Seeded(o, c, l)]
           Peopled(o)       == [c \in 1 .. 2 |-> FlattenSeq(Timed(o, c))]
           all              == [o \in 1 .. 3 |-> FlattenSeq(Peopled(o))]
<1>1. ASSUME NEW o \in 1 .. 3, NEW c \in 1 .. 2, NEW l \in DOMAIN Profiles
      PROVE  Seeded(o, c, l) \in Seq(ShapeSet)
  <2>1. Profiles[l] \in STRING
    BY ShapesAssumption
  <2>2. \A seed \in 1 .. SearchSeeds : Shape(o, c, l, seed) \in ShapeSet
    BY <2>1 DEF ShapeSet
  <2>3. Seeded(o, c, l) \in [1 .. SearchSeeds -> ShapeSet]
    BY <2>2
  <2> HIDE DEF Seeded
  <2>4. QED
    BY <2>3, ShapesAssumption, ListIsSequence
<1>2. ASSUME NEW o \in 1 .. 3, NEW c \in 1 .. 2 PROVE FlattenSeq(Timed(o, c)) \in Seq(ShapeSet)
  <2>1. PICK n \in Nat : DOMAIN Profiles = 1 .. n
    BY ShapesAssumption
  <2>2. Timed(o, c) \in [1 .. n -> Seq(ShapeSet)]
    <3> HIDE DEF Seeded
    <3>1. QED
      BY <1>1, <2>1
  <2> HIDE DEF Timed
  <2>3. QED
    BY <2>2, ListIsSequence, FlattenKeeps
<1>3. ASSUME NEW o \in 1 .. 3 PROVE FlattenSeq(Peopled(o)) \in Seq(ShapeSet)
  <2>1. Peopled(o) \in [1 .. 2 -> Seq(ShapeSet)]
    <3> HIDE DEF Timed
    <3>1. QED
      BY <1>2
  <2> HIDE DEF Peopled
  <2>2. QED
    BY <2>1, ListIsSequence, FlattenKeeps
<1>4. all \in [1 .. 3 -> Seq(ShapeSet)]
  <2> HIDE DEF Peopled
  <2>1. QED
    BY <1>3
<1>5. Shapes = FlattenSeq(all)
  BY DEF Shapes
<1> HIDE DEF all
<1>6. QED
  BY <1>4, <1>5, ListIsSequence, FlattenKeeps

LEMMA GeneratedIsRunnable ==
  ASSUME target \in Keys, NEW shape \in ShapeSet
  PROVE  Runnable(Generated(shape))
<1> DEFINE op == [key |-> target, argument |-> 1, coordinator |-> 0, think |-> 0]
           plan == [i \in 1 .. shape.operations |-> op]
           plans == [c \in 1 .. shape.clients |-> plan]
<1>1. PICK g : g = Generated(shape)
  OBVIOUS
<1>2. CASE g = Original
  BY <1>1, <1>2, OriginalAssumption
<1>3. CASE g # Original
  <2>1. op \in Operation(3)
    BY DEF Operation
  <2>2. shape.operations \in Nat /\ shape.clients \in Nat
    BY DEF ShapeSet
  <2>3. plan \in Seq(Operation(3))
    <3>1. plan \in [1 .. shape.operations -> Operation(3)]
      BY <2>1
    <3> HIDE DEF plan
    <3>2. QED
      BY <2>2, <3>1, ListIsSequence
  <2>4. plans \in Seq(Seq(Operation(3)))
    <3>1. plans \in [1 .. shape.clients -> Seq(Operation(3))]
      BY <2>3
    <3> HIDE DEF plans
    <3>2. QED
      BY <2>2, <3>1, ListIsSequence
  <2>5. PICK st : st = [Original.store EXCEPT !.replicas = 3, !.quorum = 2]
    OBVIOUS
  <2>6. st \in [replicas : Nat \ {0}, quorum : 1 .. 3, faithful : BOOLEAN] /\ st.replicas = 3
    <3>1. PICK old, n : old = Original.store /\ n = old.replicas
      OBVIOUS
    <3>2. old \in [replicas : Nat \ {0}, quorum : 1 .. n, faithful : BOOLEAN]
      BY <3>1, OriginalAssumption DEF Runnable
    <3>3. PICK f \in BOOLEAN : old = [replicas |-> n, quorum |-> old.quorum, faithful |-> f]
      BY <3>1, <3>2
    <3>4. PICK q : old = [replicas |-> n, quorum |-> q, faithful |-> f]
      BY <3>3
    <3>5. st = [[old EXCEPT !.replicas = 3] EXCEPT !.quorum = 2]
      BY <2>5, <3>1
    <3>6. [old EXCEPT !.replicas = 3] = [replicas |-> 3, quorum |-> q, faithful |-> f]
      BY <3>4
    <3>7. st = [replicas |-> 3, quorum |-> 2, faithful |-> f]
      BY <3>5, <3>6
    <3>8. QED
      BY <3>7
  <2>7. g = [store |-> st, plans |-> plans, schedule |-> NoSchedule,
             origin |-> <<shape.latency, shape.seed>>]
    BY <1>1, <2>5 DEF Generated
  <2>8. ScheduleOf(g) = <<>>
    BY <1>3, <2>7 DEF ScheduleOf
  <2>9. <<>> \in Seq(Fault(3))
    OBVIOUS
  <2> HIDE DEF plans
  <2>10. /\ g.store = st /\ g.plans = plans
         /\ g = [store |-> g.store, plans |-> g.plans, schedule |-> g.schedule, origin |-> g.origin]
    BY <2>7
  <2>11. QED
    BY <1>1, <2>4, <2>6, <2>8, <2>9, <2>10 DEF Runnable
<1>4. QED
  BY <1>2, <1>3

LEMMA PinnedIsReducible ==
  ASSUME NEW s, Runnable(s)
  PROVE  Reducible(Pinned(s))
<1>1. PICK p : p = Pinned(s)
  OBVIOUS
<1>2. p.schedule # NoSchedule /\ ScheduleOf(p) = ScheduleOf(s)
  BY <1>1, PinnedKeepsItsFaults
<1>3. /\ p.store = s.store /\ p.plans = s.plans
      /\ p = [store |-> p.store, plans |-> p.plans, schedule |-> p.schedule, origin |-> p.origin]
  BY <1>1 DEF Pinned
<1>4. QED
  BY <1>1, <1>2, <1>3 DEF Runnable, Reducible

LEMMA WeightIsNumber ==
  ASSUME NEW s, Runnable(s), NEW run \in Runs
  PROVE  Weight(s, run) \in Nat
<1>1. PICK n : n = s.store.replicas
  OBVIOUS
<1>2. n \in Nat /\ s.plans \in Seq(Seq(Operation(n))) /\ ScheduleOf(s) \in Seq(Fault(n))
  BY <1>1 DEF Runnable
<1>3. PICK m \in Nat : m = Len(s.plans) /\ DOMAIN s.plans = 1 .. m
  BY <1>2
<1>4. Operations(s) \in Nat
  <2>1. PICK places : places = [c \in 1 .. m |-> {c} \X DOMAIN s.plans[c]]
    OBVIOUS
  <2>2. PICK All : All = {places[c] : c \in 1 .. m}
    OBVIOUS
  <2>3. IsFiniteSet(All)
    BY <2>2, FiniteRange
  <2>4. ASSUME NEW c \in 1 .. m PROVE IsFiniteSet(places[c])
    <3>1. PICK plan : plan = s.plans[c]
      OBVIOUS
    <3>2. plan \in Seq(Operation(n))
      BY <1>2, <1>3, <3>1
    <3>3. PICK k \in Nat : DOMAIN plan = 1 .. k
      BY <3>2
    <3>4. PICK Ones, Places : Ones = {c} /\ Places = 1 .. k
      OBVIOUS
    <3>5. IsFiniteSet(Ones)
      BY <3>4, FS_Singleton
    <3>6. IsFiniteSet(Places)
      BY <3>4, FS_Interval
    <3>7. IsFiniteSet(Ones \X Places)
      BY <3>5, <3>6, FS_Product
    <3>8. QED
      BY <2>1, <3>1, <3>3, <3>4, <3>7
  <2>5. \A T \in All : IsFiniteSet(T)
    BY <2>2, <2>4
  <2>6. IsFiniteSet(UNION All)
    BY <2>3, <2>5, FS_UNION
  <2>7. All = {{c} \X DOMAIN s.plans[c] : c \in DOMAIN s.plans}
    BY <1>3, <2>1, <2>2
  <2>8. QED
    BY <2>6, <2>7, FS_CardinalityType DEF Operations
<1>5. PICK a, b, e : a = Operations(s) /\ b = Len(ScheduleOf(s)) /\ e = run.events
  OBVIOUS
<1>6. a \in Nat /\ b \in Nat /\ e \in Nat
  BY <1>2, <1>4, <1>5, RunsAssumption
<1>7. Weight(s, run) = a * 100 + b * 50 + m * 20 + n * 10 + e
  BY <1>1, <1>3, <1>5 DEF Weight
<1>8. QED
  BY <1>2, <1>6, <1>7

\* What the search is about to execute can be run.
LEMMA CandidatesAreRunnable ==
  ASSUME TypeOK, phase \in {"delete", "rebuild"}, target \in Keys, NEW i \in DOMAIN Candidates
  PROVE  /\ Runnable(Candidates[i])
         /\ phase = "delete" => Candidates[i].schedule # NoSchedule
<1>1. CASE phase = "delete"
  <2>1. move \in 1 .. NMoves /\ Candidates = Produce(move, best, target)
    BY <1>1 DEF Candidates, TypeOK, NMoves
  <2>2. Reducible(best)
    BY <1>1 DEF TypeOK, Reducible
  <2>3. Reducible(Candidates[i])
    BY <2>1, <2>2, MovesKeep
  <2>4. QED
    BY <2>3 DEF Reducible
<1>2. CASE phase = "rebuild"
  <2>1. Candidates = SmallShapes
    BY <1>2 DEF Candidates
  <2>2. i \in DOMAIN Shapes /\ Candidates[i] = Generated(Shapes[i])
    BY <2>1 DEF SmallShapes
  <2>3. Shapes[i] \in ShapeSet
    BY <2>2, ShapesAreShapes
  <2>4. QED
    BY <1>2, <2>2, <2>3, GeneratedIsRunnable
<1>3. QED
  BY <1>1, <1>2

\* The search keeps its shape, and the scenario it is at can always be run:
\* operations go to replicas there are, and faults are aimed at some, whatever
\* the moves have deleted, renumbered or made smaller (shrink/reduce.py).
THEOREM SearchIsWellTyped == Spec => []TypeOK
<1>1. Init => TypeOK
  <2> SUFFICES ASSUME Init PROVE TypeOK
    OBVIOUS
  <2>1. best = Original /\ phase = "start"
    BY DEF Init
  <2>2. Runnable(best)
    BY <2>1, OriginalAssumption DEF Runnable, ScheduleOf
  <2>3. changed \in BOOLEAN /\ rebuilt \in BOOLEAN
    BY DEF Init
  <2>4. /\ phase = "start" /\ move = 1 /\ next = 1 /\ target = NoKey /\ bestRun = NoRun
        /\ bestSize = 0 /\ spent = 0 /\ deletedSize = 0
    BY DEF Init
  <2>5. move \in 1 .. NMoves + 1
    BY <2>4 DEF NMoves
  <2>6. QED
    BY <2>2, <2>3, <2>4, <2>5 DEF TypeOK
<1>2. TypeOK /\ Position' /\ ReportIsOfOneRun /\ [Next]_vars => TypeOK'
  <2> SUFFICES ASSUME TypeOK, Position', ReportIsOfOneRun, [Next]_vars PROVE TypeOK'
    OBVIOUS
  <2>1. CASE Start
    <3>1. CASE phase' = "refused"
      BY <2>1, <3>1 DEF Start, TypeOK, Position, chosen
    <3>2. CASE phase' # "refused"
      <4>1. PICK run \in Runs :
              /\ run.outcome = "violated" /\ phase' = "delete" /\ target' = run.key
              /\ best' = Pinned(Original) /\ bestRun' = run
              /\ bestSize' = Weight(Pinned(Original), run)
        BY <2>1, <3>2 DEF Start
      <4>2. run.key \in Keys
        BY <4>1, RunsAssumption
      <4>3. Reducible(Pinned(Original))
        BY OriginalAssumption, PinnedIsReducible
      <4>4. Runnable(best') /\ best'.schedule # NoSchedule /\ bestSize' \in Nat
        BY <4>1, <4>3, WeightIsNumber DEF Reducible
      <4>5. Runnable(best)'
        BY <4>4 DEF Runnable, ScheduleOf
      <4>6. UNCHANGED <<changed, deletedSize, rebuilt>>
        BY <2>1 DEF Start
      <4>7. QED
        BY <4>1, <4>2, <4>4, <4>5, <4>6 DEF TypeOK, Position
    <3>3. QED
      BY <3>1, <3>2
  <2>2. CASE Delete \/ Rebuild
    <3>1. phase \in {"delete", "rebuild"} /\ UNCHANGED <<target, deletedSize>>
      BY <2>2 DEF Delete, Rebuild
    <3>2. changed' \in BOOLEAN /\ rebuilt' \in BOOLEAN
      BY <2>2 DEF Delete, Rebuild, Drop, TypeOK
    <3>3. CASE UNCHANGED <<phase, chosen>>
      BY <3>1, <3>2, <3>3 DEF TypeOK, Position, chosen, Runnable, ScheduleOf
    <3>4. CASE ~ UNCHANGED <<phase, chosen>>
      <4>1. PICK c \in {Candidates[i] : i \in DOMAIN Candidates} : Improve(c)
        BY <2>2, <3>4 DEF Delete, Rebuild, Drop
      <4>2. PICK run \in Runs : best' = c /\ bestRun' = run /\ bestSize' = Weight(c, run)
        BY <4>1 DEF Improve, Take
      <4>3. target \in Keys
        BY <3>1, RunsAssumption DEF ReportIsOfOneRun, TypeOK, NoRun, RunOf
      <4>4. Runnable(c) /\ (phase = "delete" => c.schedule # NoSchedule)
        BY <3>1, <4>1, <4>3, CandidatesAreRunnable
      <4>5. Runnable(best)'
        BY <4>2, <4>4 DEF Runnable, ScheduleOf
      <4>6. phase' = "delete" => phase = "delete"
        BY <2>2, <3>1 DEF Delete, Rebuild, Drop
      <4>7. bestSize' \in Nat /\ bestRun' \in Runs
        BY <4>2, <4>4, WeightIsNumber
      <4>8. QED
        BY <3>1, <3>2, <4>2, <4>4, <4>5, <4>6, <4>7 DEF TypeOK, Position
    <3>5. QED
      BY <3>3, <3>4
  <2>3. CASE NextMove \/ EndPass \/ GiveUp
    <3>1. /\ UNCHANGED <<target, best, bestRun, bestSize, rebuilt>>
          /\ changed' \in BOOLEAN /\ deletedSize' \in Nat
          /\ phase' = "delete" => phase = "delete"
      BY <2>3 DEF NextMove, EndPass, GiveUp, chosen, TypeOK
    <3>2. Runnable(best)'
      BY <3>1 DEF TypeOK, Runnable, ScheduleOf
    <3>3. QED
      BY <3>1, <3>2 DEF TypeOK, Position
  <2>4. CASE Pin
    <3>1. /\ UNCHANGED <<changed, target, bestRun, bestSize, deletedSize, rebuilt>>
          /\ phase' = "done" /\ best' \in {best, Pinned(best)}
      BY <2>4 DEF Pin
    <3>2. Runnable(best')
      BY <3>1, PinnedIsReducible DEF Reducible, TypeOK
    <3>3. Runnable(best)'
      BY <3>2 DEF Runnable, ScheduleOf
    <3>4. QED
      BY <3>1, <3>3 DEF TypeOK, Position
  <2>5. CASE UNCHANGED vars
    BY <2>5 DEF vars, position, chosen, TypeOK, Runnable, ScheduleOf
  <2>6. QED
    BY <2>1, <2>2, <2>3, <2>4, <2>5 DEF Next, Done
<1>3. QED
  BY <1>1, <1>2, PositionInvariant, ReportsAreOfOneRun, PTL DEF Spec
=============================================================================
