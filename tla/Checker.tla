------------------------------ MODULE Checker ------------------------------
(***************************************************************************)
(* The judge of a run: the history the clients record                      *)
(* (cassette/checker/history.py), and the search for a legal total order   *)
(* of each key's operations: depth first, memoised, and under a budget;    *)
(* then the search for the operation to blame (cassette/checker/linear.py).*)
(*                                                                         *)
(* An operation's index is its place in the sequence history.  MaxOps and  *)
(* Horizon bound the histories.                                            *)
(***************************************************************************)
EXTENDS Register, SequencesExt

CONSTANTS
  Clients,
  Repertoire,  \* what a client may invoke: kind, key, argument and expected
  Keys,        \* a set of numbers: keys are checked in increasing order
  Values,      \* what a read may have returned
  None,        \* no value
  Budgets,     \* budgets the checker may be given
  MaxOps,      \* bound: length of the history
  Horizon      \* bound: the last millisecond

Kinds == {"read", "write", "cas"}

ASSUME RepertoireAssumption ==
  Repertoire \subseteq [kind : Kinds, key : Keys, argument : Values \cup {None},
                        expected : Values \cup {None}]

ASSUME KeysAssumption == Keys \subseteq Nat /\ Keys # {}

ASSUME BoundsAssumption == Budgets \subseteq Nat /\ MaxOps \in Nat /\ Horizon \in Nat

Never == -1

VARIABLES
  now,      \* the time of the last thing recorded
  history,  \* the operations, in the order they were invoked
  pending,  \* pending[c]: the operation client c waits for, or 0
  saw,      \* history variable: saw[i] had been answered when operation i began
  explained,  \* history variable: the keys one register explains in that order
  task,     \* "record", "check" (a key), "blame" (a cut of it) or "done"
  key,      \* the key being checked
  budget,   \* states a search may explore
  suspects, \* completed operations whose cut has not been searched
  ops,      \* the operations being searched
  found,    \* what the search came to: "open" while it goes on
  stack,    \* the calls of walk, the innermost one last
  seen,     \* placements that a call of walk has begun with
  spent,    \* calls of walk so far
  verdict

recordVars == <<now, history, pending, saw, explained>>
searchVars == <<ops, found, stack, seen, spent>>
vars == <<recordVars, task, key, budget, suspects, searchVars, verdict>>

-----------------------------------------------------------------------------
(* Operations.                                                             *)

\* Mutant: in the same millisecond will do.
PrecedesOrMeets(o, p) == o.completed /\ o.returned # Never /\ o.returned <= p.invoked

\* o provably finished before p started.  Only an operation that completed
\* (its outcome is OK, not UNKNOWN) can.
Precedes(o, p) == o.completed /\ o.returned # Never /\ o.returned < p.invoked

Unknown(o) == [o EXCEPT !.completed = FALSE]

\* History.by_key, as a function from indices to operations.
OperationsOn(k) ==
  [i \in {j \in DOMAIN history : history[j].key = k} |-> history[i]]

\* Mutant: what had not returned by then is left out.
CutAtReturns(operations, t) ==
  [i \in {j \in DOMAIN operations :
            operations[j].completed /\ operations[j].returned <= t} |-> operations[i]]

\* The operations as they stood at time t: later returns become unknown.
CutAt(operations, t) ==
  [i \in {j \in DOMAIN operations : operations[j].invoked <= t} |->
     IF operations[i].completed /\ operations[i].returned <= t
     THEN operations[i] ELSE Unknown(operations[i])]

\* Mutant: real time is ignored.
CandidatesAny(placed) == DOMAIN ops \ placed

\* What may go next: nothing else that is left provably came before it.
Candidates(placed) ==
  LET left == DOMAIN ops \ placed
  IN  {i \in left : \A j \in left \ {i} : ~ Precedes(ops[j], ops[i])}

\* Mutant: the first to be invoked.
FirstInvoked(indices) == CHOOSE i \in indices : \A j \in indices : i <= j

\* The first of these operations to return; indices decide between equals.
FirstReturned(indices) ==
  CHOOSE i \in indices : \A j \in indices :
    history[i].returned < history[j].returned
      \/ (history[i].returned = history[j].returned /\ i <= j)

-----------------------------------------------------------------------------
(* Recording.                                                              *)

Init ==
  /\ now = 0 /\ history = <<>> /\ saw = <<>> /\ explained = {}
  /\ pending = [c \in Clients |-> 0]
  /\ task = "record" /\ key = Min(Keys) /\ budget = 0
  /\ suspects = {}
  /\ ops = <<>> /\ found = "open" /\ stack = <<>> /\ seen = {} /\ spent = 0
  /\ verdict = [kind |-> "none", operation |-> 0]

Record(t) ==
  /\ task = "record"
  /\ now' = t
  /\ UNCHANGED <<explained, task, key, budget, suspects, searchVars, verdict>>

Invoke(c, what, t) ==
  /\ Record(t)
  /\ pending[c] = 0
  /\ Len(history) < MaxOps
  /\ history' = Append(history,
       [kind |-> what.kind, key |-> what.key, argument |-> what.argument,
        expected |-> what.expected, invoked |-> t, returned |-> Never,
        completed |-> FALSE, result |-> None])
  /\ pending' = [pending EXCEPT ![c] = Len(history) + 1]
  /\ saw' = Append(saw, Completed(history))

Results(o) ==
  CASE o.kind = "read"  -> Values \cup {None}
    [] o.kind = "write" -> {None}
    [] o.kind = "cas"   -> {0, 1}

Complete(c, t) ==
  /\ Record(t)
  /\ pending[c] # 0
  /\ \E result \in Results(history[pending[c]]) :
       history' = [history EXCEPT ![pending[c]] =
         [@ EXCEPT !.returned = t, !.completed = TRUE, !.result = result]]
  /\ pending' = [pending EXCEPT ![c] = 0]
  /\ UNCHANGED saw

GiveUp(c) ==
  /\ Record(now)
  /\ pending[c] # 0
  /\ history' = [history EXCEPT ![pending[c]] = Unknown(@)]
  /\ pending' = [pending EXCEPT ![c] = 0]
  /\ UNCHANGED saw

-----------------------------------------------------------------------------
(* The search.                                                             *)

\* _search begins.
Begin(operations) ==
  /\ ops' = operations
  /\ found' = "open" /\ stack' = <<>> /\ seen' = {} /\ spent' = 0

Frame(placed, state) ==
  [placed |-> placed, state |-> state, untried |-> Candidates(placed)]

Stop(outcome) == found' = outcome /\ stack' = <<>> /\ UNCHANGED <<seen, ops>>

\* Mutant: only what the register holds is remembered.
MemoOfState(frame) == [placed |-> {}, state |-> frame.state]

\* Orders that place the same operations and leave the register holding the
\* same value are indistinguishable from there on.
Memo(frame) == [placed |-> frame.placed, state |-> frame.state]

\* Mutant: a call is not checked against the budget.
WalkUnbounded(placed, state, below) ==
  \/ /\ Completed(ops) \subseteq placed
     /\ Stop("order")
     /\ UNCHANGED spent
  \/ /\ ~ Completed(ops) \subseteq placed
     /\ spent' = spent + 1
     /\ IF Memo(Frame(placed, state)) \in seen
        THEN stack' = below /\ UNCHANGED seen
        ELSE /\ seen' = seen \cup {Memo(Frame(placed, state))}
             /\ stack' = Append(below, Frame(placed, state))
     /\ UNCHANGED <<found, ops>>

\* walk is called, and below is the stack of its callers.
Walk(placed, state, below) ==
  \/ /\ Completed(ops) \subseteq placed
     /\ Stop("order")
     /\ UNCHANGED spent
  \/ /\ ~ Completed(ops) \subseteq placed
     /\ spent' = spent + 1
     /\ \/ spent >= budget /\ Stop("exhausted")
        \/ /\ spent < budget
           /\ IF Memo(Frame(placed, state)) \in seen
              THEN stack' = below /\ UNCHANGED seen
              ELSE /\ seen' = seen \cup {Memo(Frame(placed, state))}
                   /\ stack' = Append(below, Frame(placed, state))
           /\ UNCHANGED <<found, ops>>

Searching == task \in {"check", "blame"} /\ found = "open"

WalkFirst ==
  /\ Searching
  /\ stack = <<>> /\ spent = 0
  /\ Walk({}, None, <<>>)
  /\ UNCHANGED <<recordVars, task, key, budget, suspects, verdict>>

\* The innermost call tries its next candidate.
TryCandidate ==
  /\ Searching
  /\ stack # <<>> /\ Last(stack).untried # {}
  /\ LET call  == Last(stack)
         i     == Min(call.untried)
         below == Append(Front(stack), [call EXCEPT !.untried = @ \ {i}])
         fits  == Matches(ops[i], call.state)
     IN  \/ /\ ~ fits
            /\ stack' = below
            /\ UNCHANGED <<found, seen, spent, ops>>
         \/ /\ fits
            /\ Walk(call.placed \cup {i}, NextState(call.state, ops[i]), below)
  /\ UNCHANGED <<recordVars, task, key, budget, suspects, verdict>>

\* It has no candidate left: backtrack.
Backtrack ==
  /\ Searching
  /\ stack # <<>> /\ Last(stack).untried = {}
  /\ stack' = Front(stack)
  /\ found' = IF Len(stack) = 1 THEN "none" ELSE found
  /\ UNCHANGED <<recordVars, task, key, budget, suspects, ops, seen, spent, verdict>>

-----------------------------------------------------------------------------
(* The verdict.                                                            *)

Decide(kind, operation) ==
  /\ task' = "done"
  /\ verdict' = [kind |-> kind, operation |-> operation]
  /\ UNCHANGED <<recordVars, key, budget, suspects, searchVars>>

KeysLeft == {k \in Keys : k > key /\ DOMAIN OperationsOn(k) # {}}

CheckKey(k) ==
  /\ task' = "check" /\ key' = k
  /\ Begin(OperationsOn(k))

\* One register explains the operations in the order in which they were really
\* invoked and answered, stamps aside.
ExplainedAsSeen(operations) ==
  LinearizableFrom(None, operations,
                   [i \in DOMAIN operations |-> saw[i] \cap DOMAIN operations])

\* check(history, budget): the run is over.  Without operations there is no key
\* to check.
Check(b) ==
  /\ task = "record"
  /\ \/ /\ history # <<>>
        /\ CheckKey(Min({history[i].key : i \in DOMAIN history}))
        /\ budget' = b
        /\ pending' = [c \in Clients |-> 0]
        /\ saw' = <<>> /\ explained' = {k \in Keys : ExplainedAsSeen(OperationsOn(k))}
        /\ UNCHANGED <<now, history, suspects, verdict>>
     \/ history = <<>> /\ Decide("linearizable", 0)

\* The key has a legal order: the next one, or the verdict.
Accept ==
  /\ task = "check" /\ found = "order"
  /\ \/ /\ KeysLeft # {}
        /\ CheckKey(Min(KeysLeft))
        /\ UNCHANGED <<recordVars, budget, suspects, verdict>>
     \/ KeysLeft = {} /\ Decide("linearizable", 0)

CannotTell ==
  /\ task = "check" /\ found = "exhausted"
  /\ Decide("exhausted", 0)

\* Search the cut at the return of i, the first of those left.
BlameNext(left) ==
  /\ task' = "blame" /\ suspects' = left
  /\ Begin(CutAt(OperationsOn(key), history[FirstReturned(left)].returned))
  /\ UNCHANGED <<recordVars, key, budget, verdict>>

Reject ==
  /\ task = "check" /\ found = "none"
  /\ BlameNext(Completed(OperationsOn(key)))

\* This cut is legal: a later one is to blame.
Clear ==
  /\ task = "blame" /\ found = "order"
  /\ LET left == suspects \ {FirstReturned(suspects)}
     IN  IF left = {} THEN Decide("violated", 0) ELSE BlameNext(left)

\* A search that found no order, or that gave up.
Blame ==
  /\ task = "blame" /\ found \in {"none", "exhausted"}
  /\ Decide("violated", FirstReturned(suspects))

Done == task = "done" /\ UNCHANGED vars

Next ==
  \/ \E c \in Clients, t \in now .. Horizon :
       (\E what \in Repertoire : Invoke(c, what, t)) \/ Complete(c, t)
  \/ \E c \in Clients : GiveUp(c)
  \/ \E b \in Budgets : Check(b)
  \/ WalkFirst \/ TryCandidate \/ Backtrack
  \/ Accept \/ CannotTell \/ Reject \/ Clear \/ Blame
  \/ Done

Spec == Init /\ [][Next]_vars

-----------------------------------------------------------------------------
(* Properties.                                                             *)

Operations ==
  [kind : Kinds, key : Keys, argument : Values \cup {None}, expected : Values \cup {None},
   invoked : 0 .. Horizon, returned : 0 .. Horizon \cup {Never}, completed : BOOLEAN,
   result : Values \cup {None, 0, 1}]

\* Type correctness; the calls of walk are nested, each with one operation more
\* than its caller.
TypeOK ==
  /\ now \in 0 .. Horizon
  /\ history \in Seq(Operations) /\ Len(history) <= MaxOps
  /\ pending \in [Clients -> 0 .. Len(history)]
  /\ saw \in Seq(SUBSET (1 .. MaxOps)) /\ explained \subseteq Keys
  /\ task \in {"record", "check", "blame", "done"}
  /\ key \in Keys
  /\ DOMAIN ops \subseteq DOMAIN history
  /\ found \in {"open", "order", "none", "exhausted"}
  /\ spent \in 0 .. budget + 1
  /\ \A d \in DOMAIN stack :
       /\ Cardinality(stack[d].placed) = d - 1
       /\ stack[d].untried \subseteq DOMAIN ops \ stack[d].placed
       /\ Memo(stack[d]) \in seen
  /\ suspects \subseteq Completed(history)

\* The definition the verdict is about: linearizability.
BeforeIn(operations) ==
  [i \in DOMAIN operations |->
     {j \in DOMAIN operations : Precedes(operations[j], operations[i])}]

Legal(operations) == LinearizableFrom(None, operations, BeforeIn(operations))

\* line keeps to the order in which order has the same operations.
Follows(line, order) ==
  \A i, j \in DOMAIN line : i < j =>
    \E p, q \in DOMAIN order : p < q /\ order[p] = line[i] /\ order[q] = line[j]

\* One order for all keys at once.
LegalTogether ==
  \E unfinished \in SUBSET (DOMAIN history \ Completed(history)) :
    \E order \in Lines(Completed(history) \cup unfinished) :
      /\ \A i, j \in DOMAIN order :
           i < j => ~ Precedes(history[order[j]], history[order[i]])
      /\ \A k \in Keys :
           \E line \in Lines({o \in Range(order) : history[o].key = k}) :
             Follows(line, order) /\ Explains(None, history, BeforeIn(history), line)

\* A verdict given one key at a time is right of the whole history, and a
\* search that ran out of budget is never reported as a violation.
VerdictIsRight ==
  /\ verdict.kind = "linearizable" => LegalTogether
  /\ verdict.kind = "violated" => ~ LegalTogether /\ ~ Legal(OperationsOn(key))

\* A run that is called a violation is one, in the order in which its clients
\* really invoked and were answered: that stamps are milliseconds, and that many
\* things may happen within one, costs violations but makes none up.
ViolationIsReal == verdict.kind = "violated" => key \notin explained

\* What the memo prunes is hopeless: no order continues a placement that has
\* been tried and left.
MemoIsSound ==
  found \in {"open", "none"} =>
    \A m \in seen \ {Memo(stack[d]) : d \in DOMAIN stack} :
      ~ LinearizableFrom(m.state, [i \in DOMAIN ops \ m.placed |-> ops[i]], BeforeIn(ops))

\* A search that decides is right, of a whole key as of a cut of one: memo and
\* backtracking neither miss an order nor make one up.
SearchIsRight ==
  /\ found = "order" => Legal(ops)
  /\ found = "none" => ~ Legal(ops)

\* "Linearizability is closed under cutting a history at a point in time",
\* which is what looking for the first cut that fails rests on.
CutsStayLegal ==
  task = "check" /\ spent = 0 /\ Legal(ops) =>
    \A t \in 0 .. Horizon : Legal(CutAt(ops, t))

\* A violation is always put down to some operation, and nothing that returned
\* earlier breaks the history, whatever the budget.
BlameIsNotLate ==
  verdict.kind = "violated" =>
    /\ verdict.operation # 0
    /\ \A i \in Completed(OperationsOn(key)) :
         history[i].returned < history[verdict.operation].returned =>
           Legal(CutAt(OperationsOn(key), history[i].returned))

\* The operation that is blamed cannot be explained.
BlameIsRight ==
  verdict.kind = "violated" =>
    ~ Legal(CutAt(OperationsOn(key), history[verdict.operation].returned))
=============================================================================
