------------------------------- MODULE Fuzzer -------------------------------
(***************************************************************************)
(* Exploring seeds with a pool of worker processes, and the corpus of the  *)
(* failures found so far (cassette/fuzz.py, cassette/corpus.py,            *)
(* cassette/cli/fuzzing.py).                                               *)
(*                                                                         *)
(* A session is one call of `cassette fuzz`; sessions follow each other,   *)
(* with plans of their own, on one corpus file, and `cassette regress` is  *)
(* called between them.  The pool (multiprocessing.Pool.imap) gives chunks *)
(* of tasks to workers, in order, and yields the results in order,         *)
(* whatever order the workers finish in.  The verdict on a scenario is     *)
(* fixed but unknown: a run is deterministic.                              *)
(***************************************************************************)
EXTENDS Integers, Sequences, FiniteSets
LOCAL INSTANCE SequencesExt

CONSTANTS
  Plans,        \* the scenario templates sessions are called with
  DefaultRest,  \* what a plan has where an entry says nothing
  Verdicts,     \* what executing scenarios may yield, one function per world
  NTasks,       \* seeds explored by a session: 1 .. NTasks
  ChunkSize,    \* seeds handed to a worker at a time
  Workers,      \* processes of the pool
  NoChunk,      \* what an idle worker works on
  MaxSessions   \* bound: calls of the command

ASSUME PoolAssumption ==
  /\ NTasks \in Nat /\ ChunkSize \in Nat \ {0}
  /\ IsFiniteSet(Workers) /\ NoChunk \notin Nat /\ MaxSessions \in Nat

Seeds == 1 .. NTasks

\* What a seed becomes under a plan (scenario.generate).  The rest of a plan is
\* what an entry does not hold: keys, ratios, overridden faults, timeout.
ScenarioOf(plan, seed) ==
  [seed |-> seed, preset |-> plan.preset, nodes |-> plan.nodes, rest |-> plan.rest]

\* Mutant: the size of the cluster is not written down.
EntryForNoSize(plan, seed) == [seed |-> seed, preset |-> plan.preset, nodes |-> 5]

\* Plan.entry_for: what is written down of a failure.
EntryFor(plan, seed) == [seed |-> seed, preset |-> plan.preset, nodes |-> plan.nodes]

\* Entry.to_scenario: what is rebuilt from it.
ToScenario(entry) ==
  [seed |-> entry.seed, preset |-> entry.preset, nodes |-> entry.nodes, rest |-> DefaultRest]

Entries == {EntryFor(p, s) : p \in Plans, s \in Seeds}

Scenarios == {ScenarioOf(p, s) : p \in Plans, s \in Seeds} \cup {ToScenario(e) : e \in Entries}

Outcomes == {"linearizable", "exhausted", "violated"}

ASSUME VerdictsAssumption == Verdicts \subseteq [Scenarios -> Outcomes]

\* What entries are told apart by.
IdOf(entry) == <<entry.preset, entry.seed>>

VARIABLES
  verdict,    \* verdict[s]: what executing s yields
  corpus,     \* the entries of the corpus file
  sessions,   \* calls of the command so far
  phase,      \* "idle", "explore" or "report"
  plan,       \* the plan of this session
  stops,      \* stop_at_first
  records,    \* not --no-record
  known,      \* the ids in the corpus when this session began
  handedOut,  \* chunks the pool has handed out
  works,      \* works[w]: the chunk worker w is at
  ready,      \* chunks whose results have come back
  seen,       \* the seeds reported on, in order
  findings,   \* those with a violation
  undecided,  \* how many were undecided
  command,    \* the command that has just ended: "none", "fuzz" or "regress"
  exit,       \* its exit code
  log         \* history variable: what the sessions so far were told and said

poolVars    == <<handedOut, works, ready>>
reportVars  == <<seen, findings, undecided>>
sessionVars == <<plan, stops, records, known>>
exitVars    == <<command, exit>>
vars == <<verdict, corpus, sessions, phase, sessionVars, poolVars, reportVars, exitVars, log>>

Init ==
  /\ verdict \in Verdicts
  /\ corpus = {} /\ sessions = 0 /\ phase = "idle"
  /\ plan \in Plans /\ stops = TRUE /\ records = TRUE /\ known = {}
  /\ handedOut = 0 /\ works = [w \in Workers |-> NoChunk] /\ ready = {}
  /\ seen = <<>> /\ findings = <<>> /\ undecided = 0
  /\ command = "none" /\ exit = 0 /\ log = <<>>

-----------------------------------------------------------------------------
(* Exploring.                                                              *)

Probe(seed) == verdict[ScenarioOf(plan, seed)]

\* A handful of seeds, or a single worker, is explored without the pool.
Serial == Cardinality(Workers) <= 1 \/ NTasks < ChunkSize

ChunkOf(seed) == (seed - 1) \div ChunkSize + 1

\* Mutant: a last chunk that is not full is forgotten.
NChunksFull == NTasks \div ChunkSize

NChunks == ChunkOf(NTasks)

\* Mutant: the count of the last session goes on.
NothingSeenYetButCounts == seen' = <<>> /\ findings' = <<>> /\ UNCHANGED undecided

NothingSeenYet == seen' = <<>> /\ findings' = <<>> /\ undecided' = 0

Begin ==
  /\ phase = "idle" /\ sessions < MaxSessions
  /\ sessions' = sessions + 1 /\ phase' = "explore"
  /\ plan' \in Plans /\ stops' \in BOOLEAN /\ records' \in BOOLEAN
  /\ known' = {IdOf(entry) : entry \in corpus}
  /\ handedOut' = 0 /\ works' = [w \in Workers |-> NoChunk] /\ ready' = {}
  /\ NothingSeenYet
  /\ command' = "none" /\ exit' = 0
  /\ UNCHANGED <<verdict, corpus, log>>

TakeChunk(w) ==
  /\ phase = "explore" /\ ~ Serial
  /\ works[w] = NoChunk /\ handedOut < NChunks
  /\ handedOut' = handedOut + 1
  /\ works' = [works EXCEPT ![w] = handedOut + 1]
  /\ UNCHANGED <<verdict, corpus, sessions, phase, sessionVars, ready, reportVars, exitVars, log>>

FinishChunk(w) ==
  /\ phase = "explore"
  /\ works[w] # NoChunk
  /\ ready' = ready \cup {works[w]}
  /\ works' = [works EXCEPT ![w] = NoChunk]
  /\ UNCHANGED <<verdict, corpus, sessions, phase, sessionVars, handedOut, reportVars, exitVars, log>>

\* Mutant: imap_unordered, chunks as they finish.
YieldsUnordered(seed) ==
  /\ \A i \in DOMAIN seen : seen[i] # seed
  /\ \A s \in Seeds : ChunkOf(s) = ChunkOf(seed) /\ s < seed => \E i \in DOMAIN seen : seen[i] = s
  /\ Serial \/ ChunkOf(seed) \in ready

\* The next result of the iterator is that of seed.
Yields(seed) == seed = Len(seen) + 1 /\ (Serial \/ ChunkOf(seed) \in ready)

\* A violation stops the search, if told so; the pool is then torn down.
Stopped == Len(seen) = NTasks \/ (stops /\ findings # <<>>)

\* probe's answer about one seed.
Look(seed) ==
  /\ phase = "explore" /\ ~ Stopped
  /\ Yields(seed)
  /\ seen' = Append(seen, seed)
  /\ findings' = IF Probe(seed) = "violated" THEN Append(findings, seed) ELSE findings
  /\ undecided' = IF Probe(seed) = "exhausted" THEN undecided + 1 ELSE undecided
  /\ UNCHANGED <<verdict, corpus, sessions, phase, sessionVars, poolVars, exitVars, log>>

EndExploring ==
  /\ phase = "explore" /\ Stopped
  /\ phase' = "report"
  /\ handedOut' = 0 /\ works' = [w \in Workers |-> NoChunk] /\ ready' = {}
  /\ UNCHANGED <<verdict, corpus, sessions, sessionVars, reportVars, exitVars, log>>

-----------------------------------------------------------------------------
(* Reporting.                                                              *)

NewEntries == {EntryFor(plan, s) : s \in {t \in ToSet(findings) : <<plan.preset, t>> \notin known}}

\* Mutant: the file is written anew.
MergeForgetful(old, new) == new

\* corpus.add: an entry whose id is there already is left out.
Merge(old, new) == old \cup {e \in new : \A f \in old : IdOf(f) # IdOf(e)}

ExitCode(fresh) == IF fresh # {} THEN 1 ELSE 0

Report ==
  /\ phase = "report"
  /\ corpus' = IF NewEntries # {} /\ records THEN Merge(corpus, NewEntries) ELSE corpus
  /\ command' = "fuzz" /\ exit' = ExitCode(NewEntries)
  /\ log' = Append(log, [plan |-> plan, stops |-> stops, records |-> records,
                         failures |-> ToSet(findings), exit |-> exit'])
  /\ phase' = "idle"
  /\ UNCHANGED <<verdict, sessions, sessionVars, poolVars, reportVars>>

\* regress_command: every entry is rebuilt and executed once more.
Regress ==
  /\ phase = "idle"
  /\ command' = "regress"
  /\ exit' = IF \E e \in corpus : verdict[ToScenario(e)] = "violated" THEN 1 ELSE 0
  /\ UNCHANGED <<verdict, corpus, sessions, phase, sessionVars, poolVars, reportVars, log>>

Idle == phase = "idle" /\ sessions = MaxSessions /\ UNCHANGED vars

Next ==
  \/ Begin \/ EndExploring \/ Report \/ Regress \/ Idle
  \/ \E w \in Workers : TakeChunk(w) \/ FinishChunk(w)
  \/ \E seed \in Seeds : Look(seed)

Spec == Init /\ [][Next]_vars

\* Every worker goes on working, and the command on asking for results.
Fairness ==
  /\ \A w \in Workers : WF_vars(TakeChunk(w)) /\ WF_vars(FinishChunk(w))
  /\ WF_vars(\E seed \in Seeds : Look(seed)) /\ WF_vars(EndExploring)

FairSpec == Spec /\ Fairness

-----------------------------------------------------------------------------
(* Properties.                                                             *)

Sessions ==
  [plan : Plans, stops : BOOLEAN, records : BOOLEAN, failures : SUBSET Seeds, exit : {0, 1}]

TypeOK ==
  /\ corpus \subseteq Entries /\ sessions \in 0 .. MaxSessions
  /\ phase \in {"idle", "explore", "report"}
  /\ plan \in Plans /\ stops \in BOOLEAN /\ records \in BOOLEAN
  /\ handedOut \in 0 .. NChunks
  /\ works \in [Workers -> (1 .. NChunks) \cup {NoChunk}] /\ ready \subseteq 1 .. NChunks
  /\ seen \in Seq(Seeds) /\ findings \in Seq(Seeds) /\ undecided \in 0 .. NTasks
  /\ command \in {"none", "fuzz", "regress"} /\ exit \in {0, 1}
  /\ log \in Seq(Sessions)

Violated(seed) == Probe(seed) = "violated"

\* How far one process that looks at one seed after another would have got.
SequentialEnd ==
  IF stops /\ \E s \in Seeds : Violated(s)
  THEN CHOOSE s \in Seeds : Violated(s) /\ \A t \in 1 .. s - 1 : ~ Violated(t)
  ELSE NTasks

\* What a session reports depends on the seeds and not on the workers, which
\* finish in any order and are torn down in the middle: it is what one process
\* would have reported, in the same order (fuzz.py; tests/test_fuzz.py).
WorkersDoNotMatter ==
  phase = "report" =>
    /\ seen = [i \in 1 .. SequentialEnd |-> i]
    /\ ToSet(findings) = {s \in 1 .. SequentialEnd : Violated(s)}
    /\ \A i, j \in DOMAIN findings : i < j => findings[i] < findings[j]
    /\ undecided = Cardinality({s \in 1 .. SequentialEnd : Probe(s) = "exhausted"})

\* Session i of the log wrote the failure of seed down, if it was new.
Records(i, preset, seed) ==
  log[i].records /\ log[i].plan.preset = preset /\ seed \in log[i].failures

\* Some session before session i did.
RecordedBefore(i, preset, seed) == \E j \in 1 .. i - 1 : Records(j, preset, seed)

\* Where in the log a failure of its preset and seed was first recorded.
FirstRecorded ==
  {f \in (DOMAIN log) \X Seeds :
     LET preset == log[f[1]].plan.preset
     IN  Records(f[1], preset, f[2]) /\ ~ RecordedBefore(f[1], preset, f[2])}

\* "Every seed that ever produced a violation goes in regressions.txt and stays
\* there" (corpus.py): of the failures that sessions were to record, whatever
\* their plans, the corpus holds the first of each preset and seed, with the size
\* of cluster it was found on, and nothing else.  A later one of the same preset
\* and seed is not kept, also if it was found on another size.
FailuresAreKept == corpus = {EntryFor(log[f[1]].plan, f[2]) : f \in FirstRecorded}

\* "A known failure is reported and tolerated, so this can run on every push
\* without going red for a bug that is already written down" (fuzz_command): a
\* session that covers only ground which a recording session with the same plan
\* has covered succeeds, with any number of workers; and one that succeeds found
\* no seed failing whose failure under its preset was not recorded by then.
RedOnce ==
  \A i \in DOMAIN log :
    /\ (\E j \in 1 .. i - 1 :
          log[j].records /\ log[j].plan = log[i].plan /\ (log[j].stops => log[i].stops))
         => log[i].exit = 0
    /\ log[i].exit = 0 => \A s \in log[i].failures : RecordedBefore(i, log[i].plan.preset, s)

\* What was written down is enough to fail again (Plan.entry_for: "The corpus
\* line that reproduces this seed."), if the plan it was found under has the
\* default wherever an entry says nothing, and whatever else is in the corpus:
\* regress lets no such failure pass, and fails only if some failure was recorded.
RecordedFailuresReproduce ==
  phase = "idle" /\ command = "regress" =>
    /\ exit = 0 => \A f \in FirstRecorded : log[f[1]].plan.rest # DefaultRest
    /\ exit = 1 => FirstRecorded # {}

\* No session waits for ever for a result.
ExploringEnds == phase = "explore" ~> phase = "report"

\* A violation is tolerated only if the corpus holds it (fuzz_command: "Exits
\* non-zero only on a violation that is not already in the corpus").
ToleratedIsRecorded ==
  phase = "idle" /\ command = "fuzz" /\ exit = 0 =>
    \A s \in ToSet(findings) : ScenarioOf(plan, s) \in {ToScenario(e) : e \in corpus}
=============================================================================
