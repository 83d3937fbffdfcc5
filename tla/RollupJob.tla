------------------------------ MODULE RollupJob ------------------------------
(***************************************************************************)
(* runJob of the rollup job, next to the event deliveries and the orders   *)
(* it works on: a keyset scan that checkpoints its cursor per page, writes *)
(* the orders' facts and collects their business days; a fold of those     *)
(* days; a watermark that tells readers up to which day a missing          *)
(* partition means no trade.  The budget may run out and the run may be    *)
(* killed at every step.                                                   *)
(*                                                                         *)
(* A fact is read and put in separate steps, by the run and by deliveries, *)
(* which are not held up by the run's lock; OrderFacts is about forced     *)
(* runs, purges and moves between months as well.  One run at a time:      *)
(* JobLock is about that.  A day is folded in one step: Partition is about *)
(* what happens in between.  All days are of one month.                    *)
(*                                                                         *)
(* Two history variables name what the job is known to lose: lost, orders  *)
(* whose present version went under in a race of writers, and left, days   *)
(* that were dirty when a run ended and were not folded since.             *)
(***************************************************************************)
EXTENDS Integers, FiniteSets

CONSTANTS
  Orders,        \* order ids: natural numbers, compared by the keyset
  Deliveries,    \* concurrent event deliveries
  Job,           \* the run, as a writer of facts
  DayLength,     \* ticks in a day
  Lag,           \* ROLLUP_SAFE_LAG_SECONDS
  MaxSettle,     \* after this long an edit is visible to every query
  PageSize,      \* ROLLUP_PAGE_SIZE
  DaysMove,      \* TRUE: an edit may change an order's business day
  MaxClock,      \* bound: ticks; no edit in the last Lag + 1 of them
  MaxEdits,      \* bound: edits of all orders together
  MaxInterrupts  \* bound: runs killed or out of budget

ASSUME OrdersAssumption == Orders \subseteq Nat \ {0}
ASSUME JobAssumption == Job \notin Deliveries
ASSUME LagAssumption ==
  /\ Lag \in Nat /\ MaxSettle \in Nat
  /\ MaxSettle <= Lag  \* what the lag is there for
ASSUME PageAssumption == PageSize \in Nat \ {0} /\ DayLength \in Nat \ {0}
ASSUME BoundsAssumption ==
  /\ MaxClock \in Nat /\ Lag <= MaxClock
  /\ MaxEdits \in Nat /\ MaxInterrupts \in Nat

VARIABLES
  clock,
  orders,     \* orders[o]: [version, mod, day]; version 0: no such order
  shown,      \* shown[o]: what the order query shows of it
  edits,      \* how many edits there were
  facts,      \* facts[o]: [version, day] as stored; version 0: none
  writes,     \* writes[w]: the fact writer w is about to put, if any
  cursor,     \* the stored keyset position [mod, id]
  partition,  \* partition[d]: the order versions day d was last folded from
  watermark,  \* the stored throughDate
  pc,         \* "idle", "scan", "page" or "fold"
  until, pageCursor, page, dirty, complete, exhausted,  \* the run's locals
  claimed,    \* the latest `until` a watermark was written for (history)
  lost,       \* the orders whose present version lost a race (history)
  left,       \* the days left dirty by a run and not folded since (history)
  interrupts

orderVars == <<clock, orders, shown, edits>>
factVars == <<facts, writes, lost>>
foldVars == <<cursor, partition, watermark, claimed, left>>
runVars == <<pc, until, pageCursor, page, dirty, complete, exhausted>>
vars == <<orderVars, factVars, foldVars, runVars, interrupts>>

DayOf(t) == t \div DayLength
Days == 0..DayOf(MaxClock)

NoOrder == [version |-> 0, mod |-> 0, day |-> 0]
NoFact == [version |-> 0, day |-> 0]
NoWrite == [id |-> 0, version |-> 0, day |-> 0, read |-> "idle"]
NoCursor == [mod |-> -1, id |-> 0]

OrderState == [version : 0..MaxEdits, mod : 0..MaxClock, day : Days]
Position == [mod : -1..MaxClock, id : Orders \cup {0}]
Scanned == [id : Orders, state : OrderState]
Writers == Deliveries \cup {Job}

(* What a writer's read told it: nothing yet, that there is no fact, or an *)
(* older one, which another writer may have replaced since.                *)
Readings == {"fetched", "none", "current", "outdated"}
Writing ==
  [id : Orders, version : 0..MaxEdits, day : Days, read : Readings]

TypeOK ==
  /\ clock \in 0..MaxClock
  /\ orders \in [Orders -> OrderState] /\ shown \in [Orders -> OrderState]
  /\ edits \in 0..MaxEdits
  /\ facts \in [Orders -> [version : 0..MaxEdits, day : Days]]
  /\ writes \in [Writers -> Writing \cup {NoWrite}]
  /\ lost \subseteq Orders /\ left \subseteq Days
  /\ cursor \in Position /\ pageCursor \in Position
  /\ partition \in [Days -> SUBSET (Orders \X (1..MaxEdits))]
  /\ watermark \in Days /\ until \in 0..MaxClock /\ claimed \in 0..MaxClock
  /\ pc \in {"idle", "scan", "page", "fold"}
  /\ page \subseteq Scanned
  /\ dirty \subseteq Days
  /\ complete \in BOOLEAN /\ exhausted \in BOOLEAN
  /\ interrupts \in 0..MaxInterrupts

Init ==
  /\ clock = Lag
  /\ orders = [o \in Orders |-> NoOrder]
  /\ shown = [o \in Orders |-> NoOrder]
  /\ edits = 0
  /\ facts = [o \in Orders |-> NoFact]
  /\ writes = [w \in Writers |-> NoWrite]
  /\ lost = {} /\ left = {}
  /\ cursor = NoCursor
  /\ partition = [d \in Days |-> {}]
  /\ watermark = 0
  /\ claimed = 0
  /\ pc = "idle"
  /\ until = 0 /\ pageCursor = NoCursor /\ page = {} /\ dirty = {}
  /\ complete = FALSE /\ exhausted = FALSE
  /\ interrupts = 0

-----------------------------------------------------------------------------
(* Orders and time *)

(* An order is created or edited; its business day is that of completedAt  *)
(* where it has one, of its creation otherwise.                            *)
Edit(o, d) ==
  /\ clock + Lag < MaxClock
  /\ edits < MaxEdits
  /\ d <= DayOf(clock)
  /\ orders[o].version > 0 /\ ~DaysMove => d = orders[o].day
  /\ orders' = [orders EXCEPT ![o] =
                  [version |-> @.version + 1, mod |-> clock, day |-> d]]
  /\ edits' = edits + 1
  /\ lost' = lost \ {o}
  /\ UNCHANGED <<clock, shown, facts, writes, foldVars, runVars, interrupts>>

Settle(o) ==
  /\ shown[o] # orders[o]
  /\ shown' = [shown EXCEPT ![o] = orders[o]]
  /\ UNCHANGED <<clock, orders, edits, factVars, foldVars, runVars, interrupts>>

Tick ==
  /\ clock < MaxClock
  /\ \A o \in Orders :
       shown[o] # orders[o] => clock - orders[o].mod < MaxSettle
  /\ clock' = clock + 1
  /\ UNCHANGED <<orders, shown, edits, factVars, foldVars, runVars, interrupts>>

(* writeOrderFact and its twin in the event handler: get, the monotonic    *)
(* guard, put with the object version read.  The put is refused where that *)
(* version is no longer the stored one, and the write is then dropped; one *)
(* that read no fact sends no version and replaces what it finds.          *)
Newer(o, version) == version > facts[o].version

ReadingOf(o) == IF facts[o].version = 0 THEN "none" ELSE "current"

WriteOf(o, order, read) ==
  [id |-> o, version |-> order.version, day |-> order.day, read |-> read]

Accepted(w) == writes[w].read \in {"none", "current"}

Put(w) ==
  LET o == writes[w].id
      outrun == IF Accepted(w) THEN facts[o].version ELSE writes[w].version
  IN  /\ facts' = IF Accepted(w)
                    THEN [facts EXCEPT ![o] = [version |-> writes[w].version,
                                               day |-> writes[w].day]]
                    ELSE facts
      /\ writes' = [v \in Writers |->
                      IF v = w THEN NoWrite
                      ELSE IF /\ Accepted(w)
                              /\ writes[v].id = o
                              /\ writes[v].read = "current"
                        THEN [writes[v] EXCEPT !.read = "outdated"]
                      ELSE writes[v]]
      /\ lost' = IF /\ writes[w].read # "current"
                    /\ outrun = orders[o].version
                    /\ facts'[o].version < outrun
                   THEN lost \cup {o} ELSE lost

(* processDelivery fetches the order ...                                   *)
Fetch(w, o) ==
  /\ writes[w] = NoWrite
  /\ orders[o].version > 0
  /\ writes' = [writes EXCEPT ![w] = WriteOf(o, orders[o], "fetched")]
  /\ UNCHANGED <<orderVars, facts, lost, foldVars, runVars, interrupts>>

(* ... reads its fact, ending here if that is not older ...                *)
Compare(w) ==
  /\ writes[w].read = "fetched"
  /\ writes' = [writes EXCEPT ![w] =
                  IF Newer(@.id, @.version)
                    THEN [@ EXCEPT !.read = ReadingOf(writes[w].id)]
                    ELSE NoWrite]
  /\ UNCHANGED <<orderVars, facts, lost, foldVars, runVars, interrupts>>

(* ... and puts it.                                                        *)
Deliver(w) ==
  /\ writes[w].read \in Readings \ {"fetched"}
  /\ Put(w)
  /\ UNCHANGED <<orderVars, foldVars, runVars, interrupts>>

(* Or a call fails: the delivery is answered 500 and may be repeated.      *)
FailDelivery(w) ==
  /\ writes[w] # NoWrite
  /\ writes' = [writes EXCEPT ![w] = NoWrite]
  /\ UNCHANGED <<orderVars, facts, lost, foldVars, runVars, interrupts>>

-----------------------------------------------------------------------------
(* runJob *)
UpToNow == clock
SafeUpperBound == clock - Lag

StartRun ==
  /\ pc = "idle"
  /\ pc' = "scan"
  /\ until' = SafeUpperBound
  /\ pageCursor' = cursor
  /\ UNCHANGED <<orderVars, factVars, foldVars, page, dirty, complete,
                 exhausted, interrupts>>

EndRun ==
  /\ pc' = "idle"
  /\ until' = 0
  /\ pageCursor' = NoCursor
  /\ page' = {}
  /\ dirty' = {}
  /\ complete' = FALSE
  /\ exhausted' = FALSE
  /\ writes' = [writes EXCEPT ![Job] = NoWrite]
  /\ left' = left \cup dirty

PositionOf(o, order) == [mod |-> order.mod, id |-> o]

(* The keyset's sort order                                                 *)
Before(p, q) == p.mod < q.mod \/ (p.mod = q.mod /\ p.id < q.id)

(* Its where clause goes on inside a tie on lastModifiedAt.                *)
ResumesByTime(p, q) == p.mod < q.mod
Resumes(p, q) == Before(p, q)

(* The orders behind the cursor's position and modified before `until`     *)
Matching ==
  {o \in Orders :
     /\ shown[o].version > 0
     /\ Resumes(pageCursor, PositionOf(o, shown[o]))
     /\ shown[o].mod < until}

(* A page is the first PageSize of them by the keyset, all of them if they *)
(* are fewer; `last` is its last.                                          *)
IsPage(P, last) ==
  /\ IF Cardinality(P) < PageSize THEN P = Matching
                                  ELSE Cardinality(P) = PageSize
  /\ \A o \in P, q \in Matching \ P :
       Before(PositionOf(o, shown[o]), PositionOf(q, shown[q]))
  /\ \A o \in P \ {last} :
       Before(PositionOf(o, shown[o]), PositionOf(last, shown[last]))

(* A short page completes the scan (once the page is processed).           *)
ScanPage ==
  /\ pc = "scan"
  /\ ~exhausted
  /\ \E P \in SUBSET Matching : \E last \in P :
       /\ IsPage(P, last)
       /\ page' = {[id |-> o, state |-> shown[o]] : o \in P}
       /\ pageCursor' = PositionOf(last, shown[last])
       /\ complete' = (Cardinality(P) < PageSize)
  /\ pc' = "page"
  /\ UNCHANGED <<orderVars, factVars, foldVars, until, dirty, exhausted,
                 interrupts>>

ScanEnd ==
  /\ pc = "scan"
  /\ ~exhausted
  /\ Matching = {}
  /\ complete' = TRUE
  /\ pc' = "fold"
  /\ UNCHANGED <<orderVars, factVars, foldVars, until, pageCursor, page,
                 dirty, exhausted, interrupts>>

(* "budget exhausted; checkpointing and exiting to resume next run"        *)
ScanStop ==
  /\ pc = "scan"
  /\ exhausted
  /\ pc' = "fold"
  /\ UNCHANGED <<orderVars, factVars, foldVars, until, pageCursor, page,
                 dirty, complete, exhausted, interrupts>>

DirtiedIfUnsealed(s) == IF s.state.day > watermark
                          THEN dirty \cup {s.state.day} ELSE dirty
Dirtied(s) == dirty \cup {s.state.day}

(* An order of the page whose fact is not older leaves it at that; its day *)
(* is dirty all the same.                                                  *)
SkipStale ==
  /\ pc = "page"
  /\ writes[Job] = NoWrite
  /\ \E s \in page :
       /\ ~Newer(s.id, s.state.version)
       /\ dirty' = Dirtied(s)
       /\ page' = page \ {s}
  /\ UNCHANGED <<orderVars, factVars, foldVars, pc, until, pageCursor,
                 complete, exhausted, interrupts>>

ReadFact ==
  /\ pc = "page"
  /\ writes[Job] = NoWrite
  /\ \E s \in page :
       /\ Newer(s.id, s.state.version)
       /\ writes' = [writes EXCEPT ![Job] =
                       WriteOf(s.id, s.state, ReadingOf(s.id))]
  /\ UNCHANGED <<orderVars, facts, lost, foldVars, runVars, interrupts>>

WriteFact ==
  /\ pc = "page"
  /\ writes[Job] # NoWrite
  /\ Put(Job)
  /\ \E s \in page :
       /\ s.id = writes[Job].id
       /\ dirty' = Dirtied(s)
       /\ page' = page \ {s}
  /\ UNCHANGED <<orderVars, foldVars, pc, until, pageCursor, complete,
                 exhausted, interrupts>>

SaveCursor ==
  /\ pc = "page"
  /\ page = {}
  /\ cursor' = pageCursor
  /\ pc' = IF complete THEN "fold" ELSE "scan"
  /\ UNCHANGED <<orderVars, factVars, partition, watermark, claimed, left,
                 until, pageCursor, page, dirty, complete, exhausted,
                 interrupts>>

FactsOf(d) ==
  {<<o, facts[o].version>> :
     o \in {p \in Orders : facts[p].version > 0 /\ facts[p].day = d}}

InBudget == ~exhausted

(* foldDay, a full rebuild from the day's facts                            *)
FoldDay(d) ==
  /\ pc = "fold"
  /\ d \in dirty
  /\ InBudget
  /\ partition' = [partition EXCEPT ![d] = FactsOf(d)]
  /\ dirty' = dirty \ {d}
  /\ left' = left \ {d}
  /\ UNCHANGED <<orderVars, factVars, cursor, watermark, claimed, pc, until,
                 pageCursor, page, complete, exhausted, interrupts>>

(* The watermark follows a complete scan, whatever became of the fold.     *)
FinishRun ==
  /\ pc = "fold"
  /\ dirty = {} \/ ~InBudget
  /\ watermark' = IF complete /\ DayOf(until) > watermark
                    THEN DayOf(until) ELSE watermark
  /\ claimed' = IF complete /\ until > claimed THEN until ELSE claimed
  /\ EndRun
  /\ UNCHANGED <<orderVars, facts, lost, cursor, partition, interrupts>>

(* The budget never comes back within a run.                               *)
Exhaust ==
  /\ pc # "idle"
  /\ ~exhausted
  /\ interrupts < MaxInterrupts
  /\ interrupts' = interrupts + 1
  /\ exhausted' = TRUE
  /\ UNCHANGED <<orderVars, factVars, foldVars, pc, until, pageCursor, page,
                 dirty, complete>>

(* A crash, the platform's kill or an error of the store                   *)
Crash ==
  /\ pc # "idle"
  /\ interrupts < MaxInterrupts
  /\ interrupts' = interrupts + 1
  /\ EndRun
  /\ UNCHANGED <<orderVars, facts, lost, cursor, partition, watermark, claimed>>

-----------------------------------------------------------------------------
RunStep ==
  \/ ScanPage \/ ScanEnd \/ ScanStop
  \/ SkipStale \/ ReadFact \/ WriteFact \/ SaveCursor
  \/ \E d \in Days : FoldDay(d)
  \/ FinishRun

DeliveryStep(w) ==
  \/ \E o \in Orders : Fetch(w, o)
  \/ Compare(w)
  \/ Deliver(w)
  \/ FailDelivery(w)

Next ==
  \/ \E o \in Orders, d \in Days : Edit(o, d)
  \/ \E o \in Orders : Settle(o)
  \/ \E w \in Deliveries : DeliveryStep(w)
  \/ Tick
  \/ StartRun \/ RunStep
  \/ Exhaust \/ Crash

Spec == Init /\ [][Next]_vars

(* Time passes, edits settle, the schedule starts runs and a run in its    *)
(* budget gets on.  Nothing is assumed of edits, deliveries and crashes.   *)
Fairness ==
  /\ WF_vars(Tick)
  /\ \A o \in Orders : WF_vars(Settle(o))
  /\ WF_vars(StartRun \/ RunStep)

FairSpec == Spec /\ Fairness

-----------------------------------------------------------------------------
(* "Each sweep stops slightly short of now so a write that is still        *)
(* settling is not missed and then skipped forever": no order is behind    *)
(* the stored cursor with a fact older than the order itself, whatever     *)
(* runs were cut short - unless that very version of the order lost a race *)
(* between a delivery and the job: refused for an older one that was put   *)
(* first, or replaced by an older one whose writer had found no fact.      *)
CursorBehindFacts ==
  \A o \in Orders :
    orders[o].version > 0 /\ ~Before(cursor, PositionOf(o, orders[o])) =>
      facts[o].version >= orders[o].version \/ o \in lost

(* New versus returning is only known to a run that scanned to the end; a  *)
(* run cut short in its scan folds no day at all, so that no partition is  *)
(* ever rebuilt without those labels.                                      *)
FoldsFollowCompleteScans ==
  [][\A d \in Days : FoldDay(d) => complete]_vars

(* "Every order modified up to `until` has been folded, so a reader can    *)
(* treat any missing partition on or before `until` as genuine zero trade":*)
(* true of every order but those whose version lost a race and those of a  *)
(* day that a run, out of budget or killed, left dirty and no later one    *)
(* came to fold.                                                           *)
WatermarkHonest ==
  \A o \in Orders :
    /\ orders[o].version > 0
    /\ orders[o].mod < claimed
    /\ orders[o].day <= watermark
    /\ orders[o].day \notin left
    /\ o \notin lost
    => <<o, orders[o].version>> \in partition[orders[o].day]

(* What the partitions would be if they were folded from the orders now    *)
Truth(d) ==
  {<<o, orders[o].version>> :
     o \in {p \in Orders : orders[p].version > 0 /\ orders[p].day = d}}

(* "Rebuilding converges": once orders stop changing, every partition ends *)
(* up with the orders of its day, each once and at its last version.       *)
Converges == <>[](\A d \in Days : partition[d] = Truth(d))

(* The same where business days may move, deliveries race with the run and *)
(* runs are cut short: in the end every order is in its day's partition,   *)
(* there only at its last version, and what a partition has too much are   *)
(* orders that left its day - except in the days that were left dirty, and *)
(* for the orders whose last version lost a race.                          *)
ConvergesUnlessMoved ==
  <>[](\A d \in Days \ left :
         /\ \A f \in Truth(d) \ partition[d] : f[1] \in lost
         /\ \A f \in partition[d] \ Truth(d) :
              orders[f[1]].day # d \/ f[1] \in lost)
=============================================================================
