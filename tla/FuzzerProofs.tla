---------------------------- MODULE FuzzerProofs ----------------------------
(***************************************************************************)
(* What a session reports and what the corpus keeps, for every number of   *)
(* seeds and workers, every size of chunk, every verdict on every scenario *)
(* and every sequence of sessions.                                         *)
(***************************************************************************)
EXTENDS Fuzzer, FiniteSetTheorems, TLAPS
LOCAL INSTANCE SequencesExt

LEMMA SeedsAreNumbers == NTasks \in Nat /\ Seeds = 1 .. NTasks
BY PoolAssumption DEF Seeds

-----------------------------------------------------------------------------
(* What a session has seen.                                                *)

Undecided(n) == {s \in 1 .. n : Probe(s) = "exhausted"}

\* The results come in the order of the seeds, and the search goes past a
\* violation only if it was not told to stop.
InOrder ==
  /\ seen \in Seq(Seeds) /\ Len(seen) <= NTasks
  /\ \A i \in 1 .. Len(seen) : seen[i] = i
  /\ findings \in Seq(Seeds)
  /\ ToSet(findings) = {s \in 1 .. Len(seen) : Violated(s)}
  /\ \A i, j \in DOMAIN findings : i < j => findings[i] < findings[j]
  /\ undecided = Cardinality(Undecided(Len(seen)))
  /\ stops => \A s \in 1 .. Len(seen) - 1 : ~ Violated(s)

Ordered ==
  /\ phase \in {"explore", "report"} => InOrder
  /\ phase = "report" => Stopped

LEMMA UndecidedIsFinite == ASSUME NEW n \in Nat PROVE IsFiniteSet(Undecided(n))
<1>1. IsFiniteSet(1 .. n)
  BY FS_Interval
<1>2. Undecided(n) \subseteq 1 .. n
  BY DEF Undecided
<1>3. QED
  BY <1>1, <1>2, FS_Subset

LEMMA LookKeepsOrder ==
  ASSUME NEW seed \in Seeds, InOrder, Look(seed)
  PROVE  InOrder'
<1> DEFINE n == Len(seen)
<1>1. /\ ~ Stopped /\ seed = n + 1 /\ seen' = Append(seen, seed)
      /\ findings' = IF Probe(seed) = "violated" THEN Append(findings, seed) ELSE findings
      /\ undecided' = IF Probe(seed) = "exhausted" THEN undecided + 1 ELSE undecided
      /\ UNCHANGED <<plan, verdict, stops>>
  BY DEF Look, Yields, sessionVars
<1>2. n \in Nat /\ Len(seen') = n + 1
  BY <1>1 DEF InOrder
<1>3. seen' \in Seq(Seeds) /\ Len(seen') <= NTasks
  BY <1>1, <1>2, SeedsAreNumbers DEF InOrder
<1>4. \A i \in 1 .. Len(seen') : seen'[i] = i
  BY <1>1, <1>2 DEF InOrder
<1>5. Undecided(Len(seen))' = Undecided(Len(seen'))
  BY <1>1 DEF Probe, Undecided
<1>6. findings' \in Seq(Seeds)
  BY <1>1 DEF InOrder
<1>7. ToSet(findings') = {s \in 1 .. n + 1 : Violated(s)}
  <2>1. CASE Probe(seed) = "violated"
    <3>1. ToSet(findings') = ToSet(findings) \cup {seed}
      <4>1. findings' = Append(findings, seed) /\ findings \in Seq(Seeds)
        BY <1>1, <2>1 DEF InOrder
      <4>2. /\ DOMAIN findings' = DOMAIN findings \cup {Len(findings) + 1}
            /\ \A i \in DOMAIN findings : findings'[i] = findings[i]
            /\ findings'[Len(findings) + 1] = seed
        BY <4>1
      <4>3. QED
        BY <4>2 DEF ToSet
    <3>2. QED
      BY <1>1, <1>2, <2>1, <3>1 DEF InOrder, Violated
  <2>2. CASE Probe(seed) # "violated"
    BY <1>1, <1>2, <2>2 DEF InOrder, Violated
  <2>3. QED
    BY <2>1, <2>2
<1>8. \A i, j \in DOMAIN findings' : i < j => findings'[i] < findings'[j]
  <2>1. CASE Probe(seed) = "violated"
    <3>1. \A i \in DOMAIN findings : findings[i] \in 1 .. n
      BY DEF InOrder, ToSet
    <3>2. QED
      BY <1>1, <1>2, <2>1, <3>1 DEF InOrder
  <2>2. CASE Probe(seed) # "violated"
    BY <1>1, <2>2 DEF InOrder
  <2>3. QED
    BY <2>1, <2>2
<1>9. undecided' = Cardinality(Undecided(n + 1))
  <2>1. IsFiniteSet(Undecided(n)) /\ Cardinality(Undecided(n)) \in Nat
    BY <1>2, UndecidedIsFinite, FS_CardinalityType
  <2>2. CASE Probe(seed) = "exhausted"
    <3>1. Undecided(n + 1) = Undecided(n) \cup {seed} /\ seed \notin Undecided(n)
      BY <1>1, <1>2, <2>2 DEF Undecided
    <3>2. Cardinality(Undecided(n + 1)) = Cardinality(Undecided(n)) + 1
      BY <2>1, <3>1, FS_AddElement
    <3>3. QED
      BY <1>1, <2>2, <3>2 DEF InOrder
  <2>3. CASE Probe(seed) # "exhausted"
    <3>1. Undecided(n + 1) = Undecided(n)
      BY <1>1, <1>2, <2>3 DEF Undecided
    <3>2. QED
      BY <1>1, <2>3, <3>1 DEF InOrder
  <2>4. QED
    BY <2>2, <2>3
<1>10. stops' => \A s \in 1 .. n : ~ Violated(s)
  <2>1. stops => findings = <<>>
    BY <1>1 DEF Stopped
  <2>2. stops => ToSet(findings) = {}
    BY <2>1 DEF ToSet
  <2>3. QED
    BY <1>1, <2>2 DEF InOrder
<1>11. ToSet(findings)' = {s \in 1 .. Len(seen) : Violated(s)}'
  BY <1>1, <1>2, <1>7 DEF Probe, Violated
<1>12. undecided' = Cardinality(Undecided(Len(seen)))'
  BY <1>2, <1>5, <1>9
<1>13. (stops => \A s \in 1 .. Len(seen) - 1 : ~ Violated(s))'
  BY <1>1, <1>2, <1>10 DEF Probe, Violated
<1>14. QED
  BY <1>3, <1>4, <1>6, <1>8, <1>11, <1>12, <1>13 DEF InOrder

LEMMA OrderedInvariant == Spec => []Ordered
<1>1. Init => Ordered
  BY DEF Init, Ordered
<1>2. Ordered /\ [Next]_vars => Ordered'
  <2> SUFFICES ASSUME Ordered, [Next]_vars PROVE Ordered'
    OBVIOUS
  <2>1. CASE Begin
    <3>1. seen' = <<>> /\ findings' = <<>> /\ undecided' = 0 /\ phase' = "explore"
      BY <2>1 DEF Begin, NothingSeenYet
    <3>2. Undecided(Len(seen))' = {}
      BY <3>1 DEF Undecided
    <3>3. Cardinality({}) = 0
      BY FS_EmptySet
    <3>4. ToSet(findings') = {}
      BY <3>1 DEF ToSet
    <3>5. {s \in 1 .. Len(seen) : Violated(s)}' = {}
      BY <3>1
    <3>6. InOrder'
      <4>1. seen' \in Seq(Seeds) /\ Len(seen') = 0 /\ findings' \in Seq(Seeds) /\ DOMAIN findings' = {}
        BY <3>1
      <4>2. /\ ToSet(findings)' = {s \in 1 .. Len(seen) : Violated(s)}'
            /\ undecided' = Cardinality(Undecided(Len(seen)))'
        BY <3>1, <3>2, <3>3, <3>4, <3>5
      <4>3. (stops => \A s \in 1 .. Len(seen) - 1 : ~ Violated(s))'
        BY <4>1
      <4>4. QED
        BY <4>1, <4>2, <4>3, SeedsAreNumbers DEF InOrder
    <3>7. QED
      BY <3>1, <3>6 DEF Ordered
  <2>2. CASE EndExploring
    <3>1. Stopped /\ phase = "explore" /\ UNCHANGED <<verdict, sessionVars, reportVars>>
      BY <2>2 DEF EndExploring
    <3>2. QED
      BY <3>1 DEF Ordered, InOrder, Stopped, Undecided, Violated, Probe, sessionVars, reportVars
  <2>3. ASSUME NEW w \in Workers, TakeChunk(w) \/ FinishChunk(w) PROVE Ordered'
    <3>1. phase = "explore" /\ UNCHANGED <<phase, verdict, sessionVars, reportVars>>
      BY <2>3 DEF TakeChunk, FinishChunk
    <3>2. QED
      BY <3>1 DEF Ordered, InOrder, Undecided, Violated, Probe, sessionVars, reportVars
  <2>4. ASSUME NEW seed \in Seeds, Look(seed) PROVE Ordered'
    <3>1. phase = "explore" /\ phase' = "explore"
      BY <2>4 DEF Look
    <3>2. QED
      BY <2>4, <3>1, LookKeepsOrder DEF Ordered
  <2>5. CASE Report \/ Regress
    BY <2>5 DEF Report, Regress, Ordered
  <2>6. CASE UNCHANGED vars
    BY <2>6 DEF vars, Ordered, InOrder, Stopped, Undecided, Violated, Probe,
                sessionVars, reportVars
  <2>7. QED
    BY <2>1, <2>2, <2>3, <2>4, <2>5, <2>6 DEF Next, Idle
<1>3. QED
  BY <1>1, <1>2, PTL DEF Spec

\* The search ends where one process would have ended.
LEMMA EndsWhereOneWould ==
  ASSUME InOrder, Stopped
  PROVE  Len(seen) = SequentialEnd
<1>1. Len(seen) \in Nat
  BY DEF InOrder
<1>2. CASE stops /\ findings # <<>>
  <2>1. PICK s \in 1 .. Len(seen) : Violated(s)
    <3>1. 1 \in DOMAIN findings
      BY <1>2 DEF InOrder
    <3>2. findings[1] \in ToSet(findings)
      BY <3>1 DEF ToSet
    <3>3. QED
      BY <3>2 DEF InOrder
  <2>2. /\ Len(seen) \in Seeds /\ Violated(Len(seen))
        /\ \A t \in 1 .. Len(seen) - 1 : ~ Violated(t)
    BY <1>1, <1>2, <2>1, SeedsAreNumbers DEF InOrder
  <2>3. \A u \in Seeds : Violated(u) /\ (\A t \in 1 .. u - 1 : ~ Violated(t)) => u = Len(seen)
    BY <1>1, <2>2, SeedsAreNumbers
  <2>4. QED
    BY <1>2, <2>2, <2>3 DEF SequentialEnd
<1>3. CASE ~ (stops /\ findings # <<>>)
  <2>1. Len(seen) = NTasks
    BY <1>3 DEF Stopped
  <2>2. stops => \A s \in Seeds : ~ Violated(s)
    <3>1. stops => ToSet(findings) = {}
      BY <1>3 DEF ToSet
    <3>2. QED
      BY <2>1, <3>1, SeedsAreNumbers DEF InOrder
  <2>3. QED
    BY <2>1, <2>2 DEF SequentialEnd
<1>4. QED
  BY <1>2, <1>3

\* What a session reports is what one process would have reported, whatever the
\* number of workers, the size of the chunks and the order they finish in.
THEOREM ReportsAreSequential == Spec => []WorkersDoNotMatter
<1>1. Ordered => WorkersDoNotMatter
  <2> SUFFICES ASSUME Ordered, phase = "report" PROVE WorkersDoNotMatter
    BY DEF WorkersDoNotMatter
  <2>1. InOrder /\ Len(seen) = SequentialEnd
    BY EndsWhereOneWould DEF Ordered
  <2>2. seen = [i \in 1 .. SequentialEnd |-> i]
    BY <2>1 DEF InOrder
  <2>3. QED
    BY <2>1, <2>2 DEF InOrder, WorkersDoNotMatter, Undecided
<1>2. QED
  BY <1>1, OrderedInvariant, PTL

-----------------------------------------------------------------------------
(* Types.                                                                  *)

\* What is counted while a session looks at results is within its seeds.
Counted ==
  phase \in {"explore", "report"} =>
    seen \in Seq(Seeds) /\ findings \in Seq(Seeds) /\ undecided \in 0 .. NTasks

LEMMA CountsAreBounded == Spec => []Counted
<1>1. Ordered => Counted
  <2> SUFFICES ASSUME InOrder PROVE undecided \in 0 .. NTasks
    BY DEF Ordered, Counted, InOrder
  <2>1. PICK n : n = Len(seen)
    OBVIOUS
  <2>2. n \in Nat /\ n <= NTasks
    BY <2>1 DEF InOrder
  <2>3. IsFiniteSet(1 .. n) /\ Cardinality(1 .. n) = n
    BY <2>2, FS_Interval
  <2>4. Undecided(n) \subseteq 1 .. n
    BY DEF Undecided
  <2>5. Cardinality(Undecided(n)) \in Nat /\ Cardinality(Undecided(n)) <= n
    BY <2>2, <2>3, <2>4, UndecidedIsFinite, FS_CardinalityType, FS_Subset
  <2>6. QED
    BY <2>1, <2>2, <2>5, SeedsAreNumbers DEF InOrder
<1>2. QED
  BY <1>1, OrderedInvariant, PTL

LEMMA ChunksAreNumbers == NChunks \in Nat
BY PoolAssumption DEF NChunks, ChunkOf

\* What a session adds to the corpus was found under its plan.
LEMMA NewEntriesAreEntries ==
  ASSUME plan \in Plans, findings \in Seq(Seeds)
  PROVE  NewEntries \subseteq Entries
<1>1. \A s \in ToSet(findings) : s \in Seeds
  BY DEF ToSet
<1>2. \A p \in Plans, s \in Seeds : EntryFor(p, s) \in Entries
  BY DEF Entries
<1>3. \A e \in NewEntries : \E s \in ToSet(findings) : e = EntryFor(plan, s)
  BY DEF NewEntries
<1>4. QED
  BY <1>1, <1>2, <1>3

\* The variables keep their types: no chunk is handed out, worked on or reported
\* that does not exist, nothing is counted twice, and the corpus holds only what
\* some plan can find.
THEOREM SessionsAreWellTyped == Spec => []TypeOK
<1>1. Init => TypeOK
  BY PoolAssumption, ChunksAreNumbers DEF Init, TypeOK
<1>2. TypeOK /\ Counted /\ Counted' /\ [Next]_vars => TypeOK'
  <2> SUFFICES ASSUME TypeOK, Counted, Counted', [Next]_vars PROVE TypeOK'
    OBVIOUS
  <2>1. CASE Begin
    BY <2>1, PoolAssumption, ChunksAreNumbers DEF Begin, NothingSeenYet, TypeOK
  <2>2. CASE EndExploring
    BY <2>2, ChunksAreNumbers DEF EndExploring, TypeOK, sessionVars, reportVars, exitVars
  <2>3. ASSUME NEW w \in Workers, TakeChunk(w) PROVE TypeOK'
    <3>1. /\ handedOut \in 0 .. NChunks /\ handedOut < NChunks /\ handedOut' = handedOut + 1
          /\ works' = [works EXCEPT ![w] = handedOut + 1]
      BY <2>3 DEF TakeChunk, TypeOK
    <3>2. handedOut' \in 0 .. NChunks /\ handedOut + 1 \in 1 .. NChunks
      BY <3>1, ChunksAreNumbers
    <3>3. works' \in [Workers -> (1 .. NChunks) \cup {NoChunk}]
      BY <3>1, <3>2 DEF TypeOK
    <3>4. QED
      BY <2>3, <3>2, <3>3 DEF TakeChunk, TypeOK, sessionVars, reportVars, exitVars
  <2>4. ASSUME NEW w \in Workers, FinishChunk(w) PROVE TypeOK'
    BY <2>4 DEF FinishChunk, TypeOK, sessionVars, reportVars, exitVars
  <2>5. ASSUME NEW seed \in Seeds, Look(seed) PROVE TypeOK'
    <3>1. phase' = "explore" /\ UNCHANGED <<corpus, sessions, phase, sessionVars, poolVars, exitVars, log>>
      BY <2>5 DEF Look
    <3>2. seen' \in Seq(Seeds) /\ findings' \in Seq(Seeds) /\ undecided' \in 0 .. NTasks
      BY <3>1 DEF Counted
    <3>3. QED
      BY <3>1, <3>2 DEF TypeOK, sessionVars, poolVars, exitVars
  <2>6. CASE Report
    <3>1. NewEntries \subseteq Entries
      BY NewEntriesAreEntries DEF TypeOK
    <3>2. corpus' \subseteq Entries
      BY <2>6, <3>1 DEF Report, Merge, TypeOK
    <3>3. exit' \in {0, 1} /\ command' = "fuzz" /\ phase' = "idle"
      BY <2>6 DEF Report, ExitCode
    <3>4. UNCHANGED <<sessions, sessionVars, poolVars, reportVars>>
      BY <2>6 DEF Report
    <3>5. log' \in Seq(Sessions)
      <4>1. ToSet(findings) \subseteq Seeds
        BY DEF TypeOK, ToSet
      <4>2. /\ log' = Append(log, [plan |-> plan, stops |-> stops, records |-> records,
                                  failures |-> ToSet(findings), exit |-> exit'])
            /\ plan \in Plans /\ stops \in BOOLEAN /\ records \in BOOLEAN
        BY <2>6 DEF Report, TypeOK
      <4>3. PICK session : session = [plan |-> plan, stops |-> stops, records |-> records,
                                      failures |-> ToSet(findings), exit |-> exit']
        OBVIOUS
      <4>4. session \in Sessions
        BY <3>3, <4>1, <4>2, <4>3 DEF Sessions
      <4>5. log' = Append(log, session) /\ log \in Seq(Sessions)
        BY <4>2, <4>3 DEF TypeOK
      <4>6. QED
        BY <4>4, <4>5
    <3>6. QED
      BY <3>2, <3>3, <3>4, <3>5 DEF TypeOK, sessionVars, poolVars, reportVars
  <2>7. CASE Regress
    BY <2>7 DEF Regress, TypeOK, sessionVars, poolVars, reportVars
  <2>8. CASE UNCHANGED vars
    BY <2>8 DEF vars, TypeOK, sessionVars, poolVars, reportVars, exitVars
  <2>9. QED
    BY <2>1, <2>2, <2>3, <2>4, <2>5, <2>6, <2>7, <2>8 DEF Next, Idle
<1>3. QED
  BY <1>1, <1>2, CountsAreBounded, PTL DEF Spec

-----------------------------------------------------------------------------
(* What a session finds.                                                   *)

Failed(p, seed) == verdict[ScenarioOf(p, seed)] = "violated"

\* The seeds a session with plan p finds to fail: all, or the first only.
Failures(p, first) ==
  {s \in Seeds : Failed(p, s) /\ (first => \A t \in 1 .. s - 1 : ~ Failed(p, t))}

\* A session that stops finds no more than one that does not.
LEMMA StoppingFindsLess ==
  ASSUME NEW p, NEW first, NEW other, other => first
  PROVE  Failures(p, first) \subseteq Failures(p, other)
BY DEF Failures

\* What is found is what there was to find.
LEMMA FindsItsFailures ==
  ASSUME InOrder, Stopped, stops \in BOOLEAN
  PROVE  ToSet(findings) = Failures(plan, stops)
<1> DEFINE n == Len(seen)
<1>1. n \in Nat /\ n <= NTasks /\ ToSet(findings) = {s \in 1 .. n : Violated(s)}
  BY DEF InOrder
<1>2. \A s : Violated(s) <=> Failed(plan, s)
  BY DEF Violated, Failed, Probe
<1>3. CASE stops /\ findings # <<>>
  <2>1. Violated(n) /\ n \in 1 .. n /\ \A t \in 1 .. n - 1 : ~ Violated(t)
    <3>1. PICK s \in 1 .. n : Violated(s)
      <4>1. 1 \in DOMAIN findings
        BY <1>3 DEF InOrder
      <4>2. findings[1] \in ToSet(findings)
        BY <4>1 DEF ToSet
      <4>3. QED
        BY <1>1, <4>2
    <3>2. \A t \in 1 .. n - 1 : ~ Violated(t)
      BY <1>3 DEF InOrder
    <3>3. s = n
      BY <1>1, <3>1, <3>2
    <3>4. QED
      BY <1>1, <3>1, <3>2, <3>3
  <2>2. {s \in 1 .. n : Violated(s)} = {n}
    BY <1>1, <2>1
  <2>3. Failures(plan, TRUE) = {n}
    <3>1. n \in Seeds /\ Failed(plan, n) /\ \A t \in 1 .. n - 1 : ~ Failed(plan, t)
      BY <1>1, <1>2, <2>1, SeedsAreNumbers
    <3>2. ASSUME NEW s \in Failures(plan, TRUE) PROVE s = n
      <4>1. s \in 1 .. NTasks /\ Failed(plan, s) /\ \A t \in 1 .. s - 1 : ~ Failed(plan, t)
        BY SeedsAreNumbers DEF Failures
      <4>2. QED
        BY <1>1, <3>1, <4>1, SeedsAreNumbers
    <3>3. n \in Failures(plan, TRUE)
      BY <3>1 DEF Failures
    <3>4. QED
      BY <3>2, <3>3
  <2>4. QED
    BY <1>1, <1>3, <2>2, <2>3
<1>4. CASE ~ (stops /\ findings # <<>>)
  <2>1. n = NTasks
    BY <1>4 DEF Stopped
  <2>2. {s \in 1 .. n : Violated(s)} = Failures(plan, FALSE)
    BY <1>2, <2>1, SeedsAreNumbers DEF Failures
  <2>3. CASE ~ stops
    BY <1>1, <2>2, <2>3
  <2>4. CASE stops
    <3>1. ToSet(findings) = {}
      BY <1>4, <2>4 DEF ToSet
    <3>2. Failures(plan, TRUE) \subseteq Failures(plan, FALSE)
      BY StoppingFindsLess
    <3>3. QED
      BY <1>1, <2>2, <2>4, <3>1, <3>2
  <2>5. QED
    BY <2>3, <2>4
<1>5. QED
  BY <1>3, <1>4

-----------------------------------------------------------------------------
(* The corpus and the log.                                                 *)

Ids == {IdOf(e) : e \in corpus}

\* The ids in the corpus are those of the failures recorded so far.
IdsAreRecorded == \A p, s : <<p, s>> \in Ids <=> RecordedBefore(Len(log) + 1, p, s)

\* What a session found and said follows from its plan and from the sessions
\* before it, not from the workers.
SessionIsExplained(i) ==
  /\ log[i].failures = Failures(log[i].plan, log[i].stops)
  /\ log[i].exit = 0 <=> \A s \in log[i].failures : RecordedBefore(i, log[i].plan.preset, s)

LogInv ==
  /\ FailuresAreKept
  /\ IdsAreRecorded
  /\ \A i \in DOMAIN log : SessionIsExplained(i)
  /\ phase # "idle" => known = Ids

\* What the log says of the past does not change when a session is added.
LEMMA LogGrows ==
  ASSUME log \in Seq(Sessions), NEW session \in Sessions, log' = Append(log, session)
  PROVE  LET n == Len(log)
         IN  /\ n \in Nat /\ DOMAIN log = 1 .. n /\ DOMAIN log' = 1 .. n + 1 /\ Len(log') = n + 1
             /\ \A i \in 1 .. n : log'[i] = log[i]
             /\ log'[n + 1] = session
             /\ \A i \in 1 .. n + 1 : \A p, s : RecordedBefore(i, p, s)' <=> RecordedBefore(i, p, s)
             /\ \A i \in 1 .. n : \A p, s : Records(i, p, s)' <=> Records(i, p, s)
<1> DEFINE n == Len(log)
<1>1. /\ n \in Nat /\ DOMAIN log = 1 .. n /\ DOMAIN log' = 1 .. n + 1 /\ Len(log') = n + 1
      /\ \A i \in 1 .. n : log'[i] = log[i]
      /\ log'[n + 1] = session
  OBVIOUS
<1>2. \A i \in 1 .. n : \A p, s : Records(i, p, s)' <=> Records(i, p, s)
  BY <1>1 DEF Records
<1>3. \A i \in 1 .. n + 1 : \A j : j \in 1 .. i - 1 => j \in 1 .. n
  BY <1>1
<1>4. \A i \in 1 .. n + 1 : \A p, s : RecordedBefore(i, p, s)' <=> RecordedBefore(i, p, s)
  BY <1>2, <1>3 DEF RecordedBefore
<1>5. QED
  BY <1>1, <1>2, <1>4

\* The entry of every failure of the session that is new, if it is to be recorded.
Added(session) ==
  {EntryFor(session.plan, s) :
     s \in {t \in session.failures :
              session.records /\ ~ RecordedBefore(Len(log) + 1, session.plan.preset, t)}}

LEMMA KeptGrows ==
  ASSUME log \in Seq(Sessions), NEW session \in Sessions, log' = Append(log, session),
         FailuresAreKept, corpus' = corpus \cup Added(session)
  PROVE  FailuresAreKept'
<1>a. PICK n : n = Len(log)
  OBVIOUS
<1> DEFINE New == {t \in session.failures :
                     session.records /\ ~ RecordedBefore(n + 1, session.plan.preset, t)}
<1>1. /\ n \in Nat /\ DOMAIN log = 1 .. n /\ DOMAIN log' = 1 .. n + 1
      /\ \A i \in 1 .. n : log'[i] = log[i]
      /\ log'[n + 1] = session
      /\ \A i \in 1 .. n + 1 : \A p, s : RecordedBefore(i, p, s)' <=> RecordedBefore(i, p, s)
      /\ \A i \in 1 .. n : \A p, s : Records(i, p, s)' <=> Records(i, p, s)
  BY <1>a, LogGrows
<1>2. New \subseteq Seeds
  BY DEF Sessions
<1>3. \A i \in 1 .. n, s \in Seeds : <<i, s>> \in FirstRecorded' <=> <<i, s>> \in FirstRecorded
  BY <1>1 DEF FirstRecorded
<1>4. \A s \in Seeds : <<n + 1, s>> \in FirstRecorded' <=> s \in New
  <2>1. \A s : Records(n + 1, session.plan.preset, s)' <=> session.records /\ s \in session.failures
    BY <1>1 DEF Records
  <2>2. \A s \in Seeds : <<n + 1, s>> \in FirstRecorded' <=>
          /\ Records(n + 1, session.plan.preset, s)'
          /\ ~ RecordedBefore(n + 1, session.plan.preset, s)'
    <3>1. n + 1 \in DOMAIN log' /\ log'[n + 1] = session
      BY <1>1
    <3>2. QED
      BY <3>1 DEF FirstRecorded
  <2>3. \A p, s : RecordedBefore(n + 1, p, s)' <=> RecordedBefore(n + 1, p, s)
    BY <1>1
  <2>4. QED
    BY <1>2, <2>1, <2>2, <2>3
<1>5. FirstRecorded \subseteq (1 .. n) \X Seeds /\ FirstRecorded' \subseteq (1 .. n + 1) \X Seeds
  BY <1>1 DEF FirstRecorded
<1>6. Added(session) = {EntryFor(session.plan, s) : s \in New}
  BY <1>a DEF Added
<1>7. ASSUME NEW e \in corpus' PROVE \E f \in FirstRecorded' : e = EntryFor(log'[f[1]].plan, f[2])
  <2>1. CASE e \in corpus
    <3>1. PICK f \in FirstRecorded : e = EntryFor(log[f[1]].plan, f[2])
      BY <2>1 DEF FailuresAreKept
    <3>2. PICK i \in 1 .. n, s \in Seeds : f = <<i, s>>
      BY <1>5
    <3>3. f \in FirstRecorded' /\ log'[f[1]] = log[f[1]]
      BY <1>1, <1>3, <3>1, <3>2
    <3>4. QED
      BY <3>1, <3>3
  <2>2. CASE e \in Added(session)
    <3>1. PICK s \in New : e = EntryFor(session.plan, s)
      BY <1>6, <2>2
    <3>2. PICK f : f = <<n + 1, s>>
      OBVIOUS
    <3>3. f \in FirstRecorded' /\ f[1] = n + 1 /\ f[2] = s
      BY <1>2, <1>4, <3>2
    <3>4. QED
      BY <1>1, <3>1, <3>3
  <2>3. QED
    BY <2>1, <2>2
<1>8. ASSUME NEW f \in FirstRecorded' PROVE EntryFor(log'[f[1]].plan, f[2]) \in corpus'
  <2>1. PICK i \in 1 .. n + 1, s \in Seeds : f = <<i, s>>
    BY <1>5
  <2>2. CASE i \in 1 .. n
    <3>1. f \in FirstRecorded /\ log'[f[1]] = log[f[1]]
      BY <1>1, <1>3, <2>1, <2>2
    <3>2. EntryFor(log[f[1]].plan, f[2]) \in corpus
      BY <3>1 DEF FailuresAreKept
    <3>3. QED
      BY <3>1, <3>2
  <2>3. CASE i = n + 1
    <3>1. s \in New
      BY <1>4, <2>1, <2>3
    <3>2. EntryFor(session.plan, s) \in Added(session)
      BY <1>6, <3>1
    <3>3. log'[f[1]] = session /\ f[2] = s
      BY <1>1, <2>1, <2>3
    <3>4. QED
      BY <3>2, <3>3
  <2>4. QED
    BY <1>1, <2>1, <2>2, <2>3
<1>9. QED
  BY <1>7, <1>8 DEF FailuresAreKept

LEMMA IdsGrow ==
  ASSUME log \in Seq(Sessions), NEW session \in Sessions, log' = Append(log, session),
         IdsAreRecorded, corpus' = corpus \cup Added(session)
  PROVE  IdsAreRecorded'
<1>a. PICK n : n = Len(log)
  OBVIOUS
<1>1. /\ n \in Nat /\ Len(log') = n + 1 /\ log'[n + 1] = session
      /\ \A i \in 1 .. n + 1 : \A p, s : RecordedBefore(i, p, s)' <=> RecordedBefore(i, p, s)
      /\ \A i \in 1 .. n : \A p, s : Records(i, p, s)' <=> Records(i, p, s)
  BY <1>a, LogGrows
<1>2. \A p, s : <<p, s>> \in {IdOf(e) : e \in Added(session)} <=>
        /\ session.records /\ p = session.plan.preset /\ s \in session.failures
        /\ ~ RecordedBefore(n + 1, p, s)
  <2>1. \A s : IdOf(EntryFor(session.plan, s)) = <<session.plan.preset, s>>
    BY DEF IdOf, EntryFor
  <2>2. \A p, s : <<p, s>> \in {IdOf(e) : e \in Added(session)} <=>
          \E t \in session.failures :
            /\ session.records /\ ~ RecordedBefore(n + 1, session.plan.preset, t)
            /\ <<p, s>> = IdOf(EntryFor(session.plan, t))
    BY <1>a DEF Added
  <2>3. QED
    BY <2>1, <2>2
<1>3. \A p, s : RecordedBefore(Len(log) + 1, p, s)' <=>
        RecordedBefore(n + 1, p, s) \/ Records(n + 1, p, s)'
  <2>1. \A p, s : RecordedBefore(n + 1, p, s) <=> \E j \in 1 .. n : Records(j, p, s)'
    BY <1>1 DEF RecordedBefore
  <2>2. \A p, s : RecordedBefore(Len(log) + 1, p, s)' <=> \E j \in 1 .. n + 1 : Records(j, p, s)'
    BY <1>1 DEF RecordedBefore
  <2>3. 1 .. n + 1 = (1 .. n) \cup {n + 1}
    BY <1>1
  <2>4. QED
    BY <2>1, <2>2, <2>3
<1>4. \A p, s : Records(n + 1, p, s)' <=>
        session.records /\ session.plan.preset = p /\ s \in session.failures
  BY <1>1 DEF Records
<1>5. \A p, s : <<p, s>> \in Ids' <=>
        <<p, s>> \in Ids \/ <<p, s>> \in {IdOf(e) : e \in Added(session)}
  BY DEF Ids, IdOf
<1>6. QED
  BY <1>a, <1>2, <1>3, <1>4, <1>5 DEF IdsAreRecorded

LEMMA ExplanationsStay ==
  ASSUME log \in Seq(Sessions), NEW session \in Sessions, log' = Append(log, session),
         verdict' = verdict, \A i \in DOMAIN log : SessionIsExplained(i),
         session.failures = Failures(session.plan, session.stops),
         session.exit = 0 <=>
           \A s \in session.failures : RecordedBefore(Len(log) + 1, session.plan.preset, s)
  PROVE  (\A i \in DOMAIN log : SessionIsExplained(i))'
<1>a. PICK n : n = Len(log)
  OBVIOUS
<1>1. /\ n \in Nat /\ DOMAIN log = 1 .. n /\ DOMAIN log' = 1 .. n + 1
      /\ \A i \in 1 .. n : log'[i] = log[i]
      /\ log'[n + 1] = session
      /\ \A i \in 1 .. n + 1 : \A p, s : RecordedBefore(i, p, s)' <=> RecordedBefore(i, p, s)
  BY <1>a, LogGrows
<1>2. \A p, first : Failures(p, first)' = Failures(p, first)
  BY DEF Failures, Failed
<1>3. ASSUME NEW i \in 1 .. n PROVE SessionIsExplained(i)'
  <2>1. SessionIsExplained(i) /\ log'[i] = log[i]
    BY <1>1
  <2>2. \A p, s : RecordedBefore(i, p, s)' <=> RecordedBefore(i, p, s)
    BY <1>1
  <2>3. QED
    BY <1>2, <2>1, <2>2 DEF SessionIsExplained
<1>4. SessionIsExplained(n + 1)'
  <2>1. \A p, s : RecordedBefore(n + 1, p, s)' <=> RecordedBefore(n + 1, p, s)
    BY <1>1
  <2>2. QED
    BY <1>a, <1>1, <1>2, <2>1 DEF SessionIsExplained
<1>5. \A i \in DOMAIN log' : SessionIsExplained(i)'
  BY <1>1, <1>3, <1>4
<1>6. QED
  BY <1>5

\* The end of a session keeps the corpus and the log in agreement.
LEMMA ReportKeepsLog ==
  ASSUME TypeOK, Ordered, LogInv, Report
  PROVE  LogInv'
<1> DEFINE Unknown(s) == ~ RecordedBefore(Len(log) + 1, plan.preset, s)
<1>1. PICK session : session = [plan |-> plan, stops |-> stops, records |-> records,
                                failures |-> ToSet(findings), exit |-> ExitCode(NewEntries)]
  OBVIOUS
<1>2. /\ phase = "report" /\ phase' = "idle" /\ verdict' = verdict
      /\ log' = Append(log, session)
      /\ corpus' = IF NewEntries # {} /\ records THEN Merge(corpus, NewEntries) ELSE corpus
  BY <1>1 DEF Report
<1>3. ToSet(findings) = Failures(plan, stops)
  BY <1>2, FindsItsFailures DEF Ordered, TypeOK
<1>4. /\ session \in Sessions /\ log \in Seq(Sessions)
      /\ session.plan = plan /\ session.stops = stops /\ session.records = records
      /\ session.failures = ToSet(findings) /\ session.exit = ExitCode(NewEntries)
  <2>1. ToSet(findings) \subseteq Seeds
    BY <1>3 DEF Failures
  <2>2. ExitCode(NewEntries) \in {0, 1}
    BY DEF ExitCode
  <2>3. QED
    BY <1>1, <2>1, <2>2 DEF Sessions, TypeOK
<1>5. \A s : <<plan.preset, s>> \notin known <=> Unknown(s)
  BY <1>2 DEF LogInv, IdsAreRecorded
<1>6. NewEntries = {EntryFor(plan, s) : s \in {t \in ToSet(findings) : Unknown(t)}}
  BY <1>5 DEF NewEntries
<1>7. Merge(corpus, NewEntries) = corpus \cup NewEntries
  <2>1. \A e \in NewEntries : \E s : e = EntryFor(plan, s) /\ <<plan.preset, s>> \notin known
    BY DEF NewEntries
  <2>2. \A e \in NewEntries : IdOf(e) \notin known
    <3>1. \A s : IdOf(EntryFor(plan, s)) = <<plan.preset, s>>
      BY DEF IdOf, EntryFor
    <3>2. QED
      BY <2>1, <3>1
  <2>3. \A e \in NewEntries, f \in corpus : IdOf(f) # IdOf(e)
    BY <1>2, <2>2 DEF LogInv, Ids
  <2>4. QED
    BY <2>3 DEF Merge
<1>8. corpus' = corpus \cup Added(session)
  <2>1. CASE records
    <3>1. Added(session) = NewEntries
      BY <1>4, <1>6, <2>1 DEF Added
    <3>2. QED
      BY <1>2, <1>7, <2>1, <3>1
  <2>2. CASE ~ records
    <3>1. Added(session) = {}
      BY <1>4, <2>2 DEF Added
    <3>2. QED
      BY <1>2, <2>2, <3>1
  <2>3. QED
    BY <2>1, <2>2
<1>9. session.exit = 0 <=>
        \A s \in session.failures : RecordedBefore(Len(log) + 1, session.plan.preset, s)
  <2>1. NewEntries = {} <=> \A s \in ToSet(findings) : ~ Unknown(s)
    BY <1>6
  <2>2. ExitCode(NewEntries) = 0 <=> NewEntries = {}
    BY DEF ExitCode
  <2>3. QED
    BY <1>4, <2>1, <2>2
<1>10. FailuresAreKept'
  BY <1>2, <1>4, <1>8, KeptGrows DEF LogInv
<1>11. IdsAreRecorded'
  BY <1>2, <1>4, <1>8, IdsGrow DEF LogInv
<1>12. (\A i \in DOMAIN log : SessionIsExplained(i))'
  <2>1. \A i \in DOMAIN log : SessionIsExplained(i)
    BY DEF LogInv
  <2>2. session.failures = Failures(session.plan, session.stops)
    BY <1>3, <1>4
  <2>3. QED
    BY <1>2, <1>4, <1>9, <2>1, <2>2, ExplanationsStay
<1>13. QED
  BY <1>2, <1>10, <1>11, <1>12 DEF LogInv

LEMMA LogInvariant == Spec => []LogInv
<1>1. Init => LogInv
  <2> SUFFICES ASSUME Init PROVE LogInv
    OBVIOUS
  <2>1. corpus = {} /\ log = <<>> /\ phase = "idle"
    BY DEF Init
  <2>2. DOMAIN log = {} /\ Len(log) = 0
    BY <2>1
  <2>3. FirstRecorded = {}
    BY <2>2 DEF FirstRecorded
  <2>4. FailuresAreKept
    BY <2>1, <2>3 DEF FailuresAreKept
  <2>5. IdsAreRecorded
    BY <2>1, <2>2 DEF IdsAreRecorded, RecordedBefore, Ids
  <2>6. QED
    BY <2>1, <2>2, <2>4, <2>5 DEF LogInv
<1>2. TypeOK /\ Ordered /\ LogInv /\ [Next]_vars => LogInv'
  <2> SUFFICES ASSUME TypeOK, Ordered, LogInv, [Next]_vars PROVE LogInv'
    OBVIOUS
  <2>1. CASE Report
    BY <2>1, ReportKeepsLog
  <2>2. ASSUME UNCHANGED <<verdict, corpus, log>>,
               phase' # "idle" => known' = Ids
        PROVE  LogInv'
    <3>1. FailuresAreKept'
      BY <2>2 DEF LogInv, FailuresAreKept, FirstRecorded, Records, RecordedBefore
    <3>2. IdsAreRecorded' /\ Ids' = Ids
      BY <2>2 DEF LogInv, IdsAreRecorded, Ids, Records, RecordedBefore
    <3>3. \A i : SessionIsExplained(i)' <=> SessionIsExplained(i)
      BY <2>2 DEF SessionIsExplained, Failures, Failed, Records, RecordedBefore
    <3>4. (\A i \in DOMAIN log : SessionIsExplained(i))'
      BY <2>2, <3>3 DEF LogInv
    <3>5. QED
      BY <2>2, <3>1, <3>2, <3>4 DEF LogInv
  <2>3. CASE Begin
    BY <2>2, <2>3 DEF Begin, Ids
  <2>4. ASSUME NEW w \in Workers, TakeChunk(w) \/ FinishChunk(w) PROVE LogInv'
    BY <2>2, <2>4 DEF TakeChunk, FinishChunk, LogInv, sessionVars
  <2>5. ASSUME NEW seed \in Seeds, Look(seed) PROVE LogInv'
    BY <2>2, <2>5 DEF Look, LogInv, sessionVars
  <2>6. CASE EndExploring \/ Regress
    BY <2>2, <2>6 DEF EndExploring, Regress, LogInv, sessionVars
  <2>7. CASE UNCHANGED vars
    BY <2>2, <2>7 DEF vars, LogInv, sessionVars
  <2>8. QED
    BY <2>1, <2>3, <2>4, <2>5, <2>6, <2>7 DEF Next, Idle
<1>3. QED
  BY <1>1, <1>2, SessionsAreWellTyped, OrderedInvariant, PTL DEF Spec

\* The corpus holds the first failure of each preset and seed that sessions were
\* to record, with the size it was found on, and nothing else, whatever plans the
\* sessions before and after had: nothing is dropped and nothing is replaced.
THEOREM FailuresStay == Spec => []FailuresAreKept
<1>1. LogInv => FailuresAreKept
  BY DEF LogInv
<1>2. QED
  BY <1>1, LogInvariant, PTL

\* A session over ground that a recording session with its plan has covered
\* succeeds, with any number of workers and whatever sessions came in between; and
\* one that succeeds found no failure whose preset and seed were not recorded.
THEOREM KnownFailuresAreTolerated == Spec => []RedOnce
<1>1. TypeOK /\ LogInv => RedOnce
  <2> SUFFICES ASSUME TypeOK, LogInv, NEW i \in DOMAIN log
               PROVE  /\ (\E j \in 1 .. i - 1 : log[j].records /\ log[j].plan = log[i].plan
                                                  /\ (log[j].stops => log[i].stops))
                           => log[i].exit = 0
                      /\ log[i].exit = 0 =>
                           \A s \in log[i].failures : RecordedBefore(i, log[i].plan.preset, s)
    BY DEF RedOnce
  <2>1. SessionIsExplained(i)
    BY DEF LogInv
  <2>2. ASSUME NEW j \in 1 .. i - 1, log[j].records, log[j].plan = log[i].plan,
               log[j].stops => log[i].stops
        PROVE  log[i].exit = 0
    <3>1. j \in DOMAIN log
      BY DEF TypeOK
    <3>2. log[j].failures = Failures(log[j].plan, log[j].stops)
      BY <3>1 DEF LogInv, SessionIsExplained
    <3>3. log[i].failures \subseteq log[j].failures
      BY <2>1, <2>2, <3>2, StoppingFindsLess DEF SessionIsExplained
    <3>4. \A s \in log[i].failures : RecordedBefore(i, log[i].plan.preset, s)
      BY <2>2, <3>3 DEF RecordedBefore, Records
    <3>5. QED
      BY <2>1, <3>4 DEF SessionIsExplained
  <2>3. QED
    BY <2>1, <2>2 DEF SessionIsExplained
<1>2. QED
  BY <1>1, SessionsAreWellTyped, LogInvariant, PTL

\* What regress says of the corpus it finds.
RegressSays ==
  phase = "idle" /\ command = "regress" =>
    (exit = 0 <=> \A e \in corpus : verdict[ToScenario(e)] # "violated")

LEMMA RegressInvariant == Spec => []RegressSays
<1>1. Init => RegressSays
  BY DEF Init, RegressSays
<1>2. RegressSays /\ [Next]_vars => RegressSays'
  <2> SUFFICES ASSUME RegressSays, [Next]_vars PROVE RegressSays'
    OBVIOUS
  <2>1. CASE Begin \/ EndExploring \/ Report
    BY <2>1 DEF Begin, EndExploring, Report, RegressSays
  <2>2. CASE Regress
    BY <2>2 DEF Regress, RegressSays
  <2>3. ASSUME NEW w \in Workers, TakeChunk(w) \/ FinishChunk(w) PROVE RegressSays'
    BY <2>3 DEF TakeChunk, FinishChunk, RegressSays
  <2>4. ASSUME NEW seed \in Seeds, Look(seed) PROVE RegressSays'
    BY <2>4 DEF Look, RegressSays
  <2>5. CASE UNCHANGED vars
    BY <2>5 DEF vars, exitVars, RegressSays
  <2>6. QED
    BY <2>1, <2>2, <2>3, <2>4, <2>5 DEF Next, Idle
<1>3. QED
  BY <1>1, <1>2, PTL DEF Spec

\* A recorded failure makes regress fail unless its plan had something other than
\* the default where an entry says nothing; nothing else that is recorded later,
\* under any plan, takes its place.  And regress does not fail of itself.
THEOREM RecordedFailuresFailAgain == Spec => []RecordedFailuresReproduce
<1>1. TypeOK /\ LogInv /\ RegressSays => RecordedFailuresReproduce
  <2> SUFFICES ASSUME TypeOK, LogInv, RegressSays, phase = "idle", command = "regress"
               PROVE  /\ exit = 0 => \A f \in FirstRecorded : log[f[1]].plan.rest # DefaultRest
                      /\ exit = 1 => FirstRecorded # {}
    BY DEF RecordedFailuresReproduce
  <2>1. exit = 0 <=> \A e \in corpus : verdict[ToScenario(e)] # "violated"
    BY DEF RegressSays
  <2>2. corpus = {EntryFor(log[f[1]].plan, f[2]) : f \in FirstRecorded}
    BY DEF LogInv, FailuresAreKept
  <2>3. ASSUME NEW f \in FirstRecorded, log[f[1]].plan.rest = DefaultRest
        PROVE  exit # 0
    <3>1. PICK i \in DOMAIN log, s \in Seeds :
            f[1] = i /\ f[2] = s /\ s \in log[i].failures
      BY DEF FirstRecorded, Records
    <3>2. Failed(log[i].plan, s)
      BY <3>1 DEF LogInv, SessionIsExplained, Failures
    <3>3. PICK e \in corpus : e = EntryFor(log[i].plan, s)
      BY <2>2, <3>1
    <3>4. ToScenario(e) = ScenarioOf(log[i].plan, s)
      BY <2>3, <3>1, <3>3 DEF ToScenario, EntryFor, ScenarioOf
    <3>5. QED
      BY <2>1, <3>2, <3>3, <3>4 DEF Failed
  <2>4. exit = 1 => FirstRecorded # {}
    BY <2>1, <2>2
  <2>5. QED
    BY <2>3, <2>4
<1>2. QED
  BY <1>1, SessionsAreWellTyped, LogInvariant, RegressInvariant, PTL

=============================================================================
