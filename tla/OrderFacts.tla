----------------------------- MODULE OrderFacts ------------------------------
(***************************************************************************)
(* The per-order facts and everybody who writes them: event deliveries     *)
(* (duplicated, reordered and retried by the platform), the rollup job's   *)
(* writeOrderFact, and the restatement script that purges facts.           *)
(*                                                                         *)
(* A writer fetches the order, reads the stored fact, and writes with the  *)
(* version of the stored object it read.  Other writers may run at every   *)
(* await, so each of the three is a step of its own.                       *)
(***************************************************************************)
EXTENDS CustomObjects, Sequences

CONSTANTS
  Orders, Days, Months,
  MonthOf,     \* MonthOf[d]: the month container of business day d
  Events,      \* concurrent event deliveries
  Jobs,        \* concurrent callers of the job's writeOrderFact
  ForceRewrite,\* ROLLUP_FORCE_REWRITE: the job skips the version guard
  Restating,   \* restate-categories.mjs --apply may run
  MaxVersion,  \* bound: edits of one order
  MaxObjectVersion  \* bound: writes of one stored object

ASSUME MonthOfAssumption == MonthOf \in [Days -> Months]
ASSUME FlagsAssumption == ForceRewrite \in BOOLEAN /\ Restating \in BOOLEAN
ASSUME BoundsAssumption == MaxVersion \in Nat /\ MaxObjectVersion \in Nat
ASSUME NoValueAssumption == NoValue \notin Orders

Writers == Events \cup Jobs

Fact == [orderVersion : Nat, businessDate : Days]

VARIABLES
  history,  \* history[o][v]: business day of version v; empty: no such order
  facts,    \* facts[m][o]: the stored object of order o in month container m
  pc,       \* pc[w] \in {"idle", "fetched", "put"}
  target,   \* target[w]: the order writer w is working on
  fact,     \* fact[w]: the fact writer w computed from the fetched order
  seen,     \* seen[w]: the object version writer w read before writing
  listed,   \* listed[m][o]: the object version the purge listed, 0 if none
  purged    \* the cells <<m, o>> the purge has deleted a fact from (history)

vars == <<history, facts, pc, target, fact, seen, listed, purged>>

TypeOK ==
  /\ history \in [Orders -> Seq(Days)]
  /\ facts \in [Months -> [Orders -> Object(Fact)]]
  /\ pc \in [Writers -> {"idle", "fetched", "put"}]
  /\ target \in [Writers -> Orders \cup {NoValue}]
  /\ fact \in [Writers -> Fact \cup {NoValue}]
  /\ seen \in [Writers -> Nat]
  /\ listed \in [Months -> [Orders -> Nat]]
  /\ purged \subseteq Months \X Orders
  /\ \A w \in Writers :
       pc[w] # "idle" => target[w] \in Orders /\ fact[w] \in Fact

Init ==
  /\ history = [o \in Orders |-> <<>>]
  /\ facts = [m \in Months |-> [o \in Orders |-> Absent]]
  /\ pc = [w \in Writers |-> "idle"]
  /\ target = [w \in Writers |-> NoValue]
  /\ fact = [w \in Writers |-> NoValue]
  /\ seen = [w \in Writers |-> Unversioned]
  /\ listed = [m \in Months |-> [o \in Orders |-> 0]]
  /\ purged = {}

-----------------------------------------------------------------------------
(* The commerce side: an order is created and edited; completedAt, and     *)
(* with it the business day, may change with any edit.                     *)
Edit(o, d) ==
  /\ Len(history[o]) < MaxVersion
  /\ history' = [history EXCEPT ![o] = Append(@, d)]
  /\ UNCHANGED <<facts, pc, target, fact, seen, listed, purged>>

(* toOrderFact: recomputed wholesale from the order as it is now.          *)
FactOf(o) ==
  [orderVersion |-> Len(history[o]),
   businessDate |-> history[o][Len(history[o])]]

(* A writer leaves its handler, whatever the outcome.                      *)
Finish(w) ==
  /\ pc' = [pc EXCEPT ![w] = "idle"]
  /\ target' = [target EXCEPT ![w] = NoValue]
  /\ fact' = [fact EXCEPT ![w] = NoValue]
  /\ seen' = [seen EXCEPT ![w] = Unversioned]
  /\ UNCHANGED <<history, listed, purged>>

(* fetchOrder, or the order's turn in a scanned page.  A delivery names an *)
(* order that exists; the platform may repeat it at any time.              *)
Fetch(w, o) ==
  /\ pc[w] = "idle"
  /\ history[o] # <<>>
  /\ pc' = [pc EXCEPT ![w] = "fetched"]
  /\ target' = [target EXCEPT ![w] = o]
  /\ fact' = [fact EXCEPT ![w] = FactOf(o)]
  /\ UNCHANGED <<history, facts, seen, listed, purged>>

(* The stored object writer w reads and writes: its container follows from *)
(* the fact it is about to write.                                          *)
MonthOfCreation(w) == MonthOf[history[target[w]][1]]
MonthFor(w) == MonthOf[fact[w].businessDate]
Cell(w) == facts[MonthFor(w)][target[w]]

Unguarded(w) == w \in Jobs /\ ForceRewrite

Newer(stored, incoming) == stored.orderVersion < incoming.orderVersion

(* get; the monotonic guard lets the write go on ...                       *)
Read(w) ==
  /\ pc[w] = "fetched"
  /\ Unguarded(w) \/ (Present(Cell(w)) => Newer(Cell(w).value, fact[w]))
  /\ pc' = [pc EXCEPT ![w] = "put"]
  /\ seen' = [seen EXCEPT ![w] = Cell(w).version]
  /\ UNCHANGED <<history, facts, target, fact, listed, purged>>

(* ... or ends the delivery as stale.                                      *)
IgnoreStale(w) ==
  /\ pc[w] = "fetched"
  /\ ~Unguarded(w)
  /\ Present(Cell(w))
  /\ ~Newer(Cell(w).value, fact[w])
  /\ Finish(w)
  /\ UNCHANGED facts

(* put, with the version read ...                                          *)
Write(w) ==
  /\ pc[w] = "put"
  /\ Cell(w).version < MaxObjectVersion
  /\ PutAccepted(Cell(w), seen[w])
  /\ facts' = [facts EXCEPT ![MonthFor(w)][target[w]] =
                 AfterPut(Cell(w), fact[w])]
  /\ Finish(w)

(* ... or, on ConcurrentModificationError, dropped and acknowledged.       *)
Drop(w) ==
  /\ pc[w] = "put"
  /\ ~PutAccepted(Cell(w), seen[w])
  /\ Finish(w)
  /\ UNCHANGED facts

(* Any other error: the delivery is answered 500 and repeated later, the   *)
(* job run ends.                                                           *)
Fail(w) ==
  /\ pc[w] # "idle"
  /\ Finish(w)
  /\ UNCHANGED facts

-----------------------------------------------------------------------------
(* restate-categories.mjs: a page of facts is listed with their versions,  *)
(* then each is deleted at the version listed; 404 and 409 are skipped.    *)
PurgeList(m, o) ==
  /\ Restating
  /\ Present(facts[m][o])
  /\ listed' = [listed EXCEPT ![m][o] = facts[m][o].version]
  /\ UNCHANGED <<history, facts, pc, target, fact, seen, purged>>

PurgeDelete(m, o) ==
  /\ listed[m][o] > 0
  /\ IF facts[m][o].version = listed[m][o]
       THEN /\ facts' = [facts EXCEPT ![m][o] = Absent]
            /\ purged' = purged \cup {<<m, o>>}
       ELSE UNCHANGED <<facts, purged>>
  /\ listed' = [listed EXCEPT ![m][o] = 0]
  /\ UNCHANGED <<history, pc, target, fact, seen>>

-----------------------------------------------------------------------------
WriterStep(w) ==
  \/ \E o \in Orders : Fetch(w, o)
  \/ Read(w)
  \/ IgnoreStale(w)
  \/ Write(w)
  \/ Drop(w)
  \/ Fail(w)

Next ==
  \/ \E o \in Orders, d \in Days : Edit(o, d)
  \/ \E w \in Writers : WriterStep(w)
  \/ \E m \in Months, o \in Orders : PurgeList(m, o) \/ PurgeDelete(m, o)

Spec == Init /\ [][Next]_vars

-----------------------------------------------------------------------------
(* Safety *)

(* The fact is what toOrderFact makes of some version order o has had.     *)
IsVersionOf(f, o) ==
  /\ f.orderVersion \in 1..Len(history[o])
  /\ f.businessDate = history[o][f.orderVersion]

(* No reader of a month container is ever shown something the order never  *)
(* was: a stored fact carries a version the order has had, the business    *)
(* day of exactly that version, and sits in that day's month.  Holds under *)
(* every interleaving of deliveries, job, purge and forced rewrites.       *)
FactMatchesOrder ==
  \A m \in Months, o \in Orders :
    LET stored == facts[m][o] IN
    Present(stored) =>
      /\ IsVersionOf(stored.value, o)
      /\ MonthOf[stored.value.businessDate] = m

(* With the upsert of the real store the guard can still be passed by, but *)
(* by few: a writer that found no fact at all and so had no version to     *)
(* compare, a forced one, and one whose fact was purged and written anew   *)
(* under the object version it had read.  Every other writer that read a   *)
(* fact never takes it back.                                               *)
RegressionOnlyByCreateRace ==
  [][\A m \in Months, o \in Orders, w \in Writers :
       /\ Write(w) /\ m = MonthFor(w) /\ o = target[w]
       /\ Present(facts[m][o])
       /\ facts'[m][o].value.orderVersion < facts[m][o].value.orderVersion
       => \/ seen[w] = Unversioned
          \/ Unguarded(w)
          \/ <<m, o>> \in purged]_vars

(* "Lost a race to a concurrent writer - the winner had a version too, so  *)
(* it is safe to drop this write": the fact that won is at least as new as *)
(* the one dropped.                                                        *)
DroppedIsSuperseded ==
  [][\A w \in Writers :
       Drop(w) => ~Newer(Cell(w).value, fact[w])]_vars

(* "Write one fact per order": an order's money sits in one month only.    *)
OneFactPerOrder ==
  \A o \in Orders, m1, m2 \in Months :
    Present(facts[m1][o]) /\ Present(facts[m2][o]) => m1 = m2

-----------------------------------------------------------------------------
(* The abstract ledger.  A writer is blind when it has nothing to compare  *)
(* its fact with and the store will take it all the same.                  *)
RecordedVersion(m, o) ==
  IF Present(facts[m][o]) THEN facts[m][o].value.orderVersion ELSE 0

Blind(w) ==
  /\ pc[w] = "put"
  /\ Unguarded(w) \/ seen[w] = Unversioned

Contested ==
  purged \cup {<<MonthFor(w), target[w]>> : w \in {v \in Writers : Blind(v)}}

Ledger ==
  INSTANCE FactLedger WITH
    ledger <- [m \in Months |-> [o \in Orders |-> RecordedVersion(m, o)]],
    contested <- Contested

(* Deliveries, retries, lost races, forced rewrites and purges, seen       *)
(* through the stored versions, are nothing but orders being edited and    *)
(* newer versions being recorded, but where a fact was purged or a blind   *)
(* writer is at work.                                                      *)
ImplementsLedger == Ledger!Spec
=============================================================================
