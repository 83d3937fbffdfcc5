--------------------------- MODULE RollupJob_proofs ---------------------------
(***************************************************************************)
(* For any number of orders and deliveries, any page size and any lag that *)
(* covers the settling time, however often runs are cut short:             *)
(*   - an order behind the stored cursor has no fact older than itself,    *)
(*     but where its present version lost a race of writers;               *)
(*   - the watermark is honest but for such orders and for the days that a *)
(*     run left dirty;                                                     *)
(*   - no day is folded by a run that did not scan to the end;             *)
(*   - every variable keeps its type.                                      *)
(*                                                                         *)
(* Three invariants, each on top of the one before.  The writers': a fact, *)
(* a page and a write under way are of versions their order has had, and a *)
(* reading that still stands is of an older fact.  The scan's: an order at *)
(* or before a keyset position is accounted for, settled before the run    *)
(* began and hence seen by the page that moved the position past it; that  *)
(* no order can slip in behind a position rests on positions being older   *)
(* than clock - Lag.  The fold's: the day of such an order is reported,    *)
(* dirty, or left.                                                         *)
(***************************************************************************)
EXTENDS RollupJob, TLAPS

Exists(o) == orders[o].version > 0

(* Order o, as it is now, is at or before keyset position p                *)
Passed(o, p) == Exists(o) /\ ~Before(p, PositionOf(o, orders[o]))

Recorded(o) == facts[o].version >= orders[o].version

Kept(o) == Recorded(o) \/ o \in lost

InPage(o) == \E s \in page : s.id = o /\ s.state = orders[o]

OrderType == [version : Nat, mod : Nat, day : Nat]
WriteType == [id : Orders, version : Nat, day : Nat, read : Readings]

Typed ==
  /\ clock \in Nat /\ until \in Int /\ claimed \in Int
  /\ orders \in [Orders -> OrderType] /\ shown \in [Orders -> OrderType]
  /\ facts \in [Orders -> [version : Nat, day : Nat]]
  /\ writes \in [Writers -> WriteType \cup {NoWrite}]
  /\ cursor \in [mod : Int, id : Nat] /\ pageCursor \in [mod : Int, id : Nat]
  /\ page \subseteq [id : Orders, state : OrderType]
  /\ partition \in [Days -> SUBSET (Orders \X Nat)]
  /\ pc \in {"idle", "scan", "page", "fold"}

(* Version v with business day d is one that order o has had, and with its *)
(* present day if it is the present version.                               *)
Real(o, v, d) ==
  /\ v <= orders[o].version
  /\ v = orders[o].version => d = orders[o].day

VersionsReal ==
  /\ \A o \in Orders :
       /\ Real(o, facts[o].version, facts[o].day)
       /\ shown[o].version <= orders[o].version
       /\ shown[o].version = orders[o].version => shown[o] = orders[o]
  /\ \A s \in page :
       /\ s.state.version <= orders[s.id].version
       /\ s.state.version = orders[s.id].version => s.state = orders[s.id]
  /\ \A w \in Writers :
       writes[w] # NoWrite =>
         Real(writes[w].id, writes[w].version, writes[w].day)

(* What the compare-and-swap is for: as long as the object a writer read   *)
(* has not been replaced, its fact is older than the writer's.             *)
ReadingsStand ==
  \A w \in Writers :
    writes[w].read = "current" => Newer(writes[w].id, writes[w].version)

PageIsSet == \A s, t \in page : s.id = t.id => s = t

(* The run writes an order of its page.                                    *)
JobWrites ==
  writes[Job] # NoWrite =>
    /\ pc = "page"
    /\ \E s \in page :
         s.id = writes[Job].id /\ s.state.version = writes[Job].version

WriterInv == Typed /\ VersionsReal /\ ReadingsStand /\ PageIsSet /\ JobWrites

(* Nothing the run or the stores know is newer than clock - Lag            *)
Behind ==
  /\ Lag <= clock
  /\ cursor.mod < clock - Lag
  /\ pageCursor.mod < clock - Lag
  /\ until <= clock - Lag
  /\ claimed <= clock - Lag

Settling ==
  \A o \in Orders :
    /\ orders[o].mod <= clock
    /\ shown[o] # orders[o] => clock - orders[o].mod <= MaxSettle

CursorKept == pc \in {"scan", "fold"} => pageCursor = cursor

PageAccounted ==
  pc = "page" =>
    \A o \in Orders : Passed(o, pageCursor) => Kept(o) \/ InPage(o)

(* The run reads the fact in the step that takes up the order.             *)
JobReads == writes[Job].read # "fetched"

ScanInv ==
  /\ WriterInv /\ JobReads
  /\ Behind /\ Settling /\ CursorKept /\ PageAccounted /\ CursorBehindFacts

-----------------------------------------------------------------------------
(* The writers *)

LEMMA NoWriteIsNone ==
  /\ NoWrite \notin WriteType
  /\ NoWrite.read \notin Readings
BY DEF NoWrite, WriteType, Readings

LEMMA WriterInit == Init => WriterInv
<1> SUFFICES ASSUME Init PROVE WriterInv
  OBVIOUS
<1> USE DEF Init, NoOrder, NoFact
<1>1. 0 \in Nat /\ -1 \in Int /\ Lag \in Nat
  BY LagAssumption
<1>2. Typed
  BY <1>1 DEF Typed, OrderType, NoCursor
<1> QED
  BY <1>2
     DEF WriterInv, VersionsReal, Real, ReadingsStand, PageIsSet, JobWrites,
         NoWrite, Writers

(* A put changes no fact but the one of its order, and that to a version   *)
(* the order has had; and no reading still stands that it replaced.        *)
LEMMA PutKeepsWriters ==
  ASSUME WriterInv, NEW w \in Writers, writes[w] # NoWrite, Put(w)
  PROVE  /\ facts' \in [Orders -> [version : Nat, day : Nat]]
         /\ writes' \in [Writers -> WriteType \cup {NoWrite}]
         /\ writes'[w] = NoWrite
         /\ \A o \in Orders : Real(o, facts'[o].version, facts'[o].day)
         /\ \A v \in Writers :
              writes'[v] # NoWrite =>
                /\ v # w /\ writes[v] # NoWrite
                /\ writes'[v].id = writes[v].id
                /\ writes'[v].version = writes[v].version
                /\ writes'[v].day = writes[v].day
         /\ \A v \in Writers :
              writes'[v].read = "current" =>
                writes'[v].version > facts'[writes'[v].id].version
<1> DEFINE o == writes[w].id
<1>0. /\ writes[w] \in WriteType /\ o \in Orders
      /\ writes[w].version \in Nat /\ writes[w].day \in Nat
  BY DEF WriterInv, Typed, WriteType
<1>1. /\ facts' \in [Orders -> [version : Nat, day : Nat]]
      /\ \A p \in Orders : p # o => facts'[p] = facts[p]
      /\ ~Accepted(w) => facts' = facts
      /\ Accepted(w) => facts'[o] = [version |-> writes[w].version,
                                     day |-> writes[w].day]
  BY <1>0 DEF Put, WriterInv, Typed
<1>2. \A p \in Orders : Real(p, facts'[p].version, facts'[p].day)
  BY <1>0, <1>1 DEF WriterInv, VersionsReal, Real
<1>3. ASSUME NEW v \in Writers
      PROVE  /\ v = w => writes'[v] = NoWrite
             /\ v # w =>
                  \/ writes'[v] = writes[v]
                     /\ ~(Accepted(w) /\ writes[v].id = o
                            /\ writes[v].read = "current")
                  \/ /\ writes[v].read = "current"
                     /\ writes'[v] = [writes[v] EXCEPT !.read = "outdated"]
  BY DEF Put
<1>4. ASSUME NEW v \in Writers
      PROVE  /\ writes'[v] \in WriteType \cup {NoWrite}
             /\ writes'[v] # NoWrite =>
                  /\ v # w /\ writes[v] # NoWrite
                  /\ writes'[v].id = writes[v].id
                  /\ writes'[v].version = writes[v].version
                  /\ writes'[v].day = writes[v].day
             /\ writes'[v].read = "current" =>
                  /\ v # w /\ writes'[v] = writes[v]
                  /\ ~(Accepted(w) /\ writes[v].id = o)
  <2>1. writes[v] \in WriteType \/ writes[v] = NoWrite
    BY DEF WriterInv, Typed
  <2>0. NoWrite.read # "current"
    BY NoWriteIsNone DEF Readings
  <2>2. CASE v = w
    <3>1. writes'[v] = NoWrite
      BY <1>3, <2>2
    <3> QED
      BY <2>0, <3>1
  <2>3. CASE /\ v # w /\ writes'[v] = writes[v]
             /\ ~(Accepted(w) /\ writes[v].id = o
                    /\ writes[v].read = "current")
    BY <2>1, <2>3
  <2>4. CASE /\ v # w /\ writes[v].read = "current"
             /\ writes'[v] = [writes[v] EXCEPT !.read = "outdated"]
    <3>1. writes[v] \in WriteType
      BY <2>1, <2>4 DEF NoWrite
    <3> QED
      BY <2>4, <3>1, NoWriteIsNone DEF WriteType, Readings
  <2> QED
    BY <1>3, <2>2, <2>3, <2>4
<1>5. ASSUME NEW v \in Writers, writes'[v].read = "current"
      PROVE  writes'[v].version > facts'[writes'[v].id].version
  <2>1. /\ writes'[v] = writes[v] /\ writes[v].read = "current"
        /\ ~(Accepted(w) /\ writes[v].id = o)
    BY <1>4, <1>5
  <2>2. writes[v].id \in Orders
    BY <2>1 DEF WriterInv, Typed, WriteType, NoWrite
  <2>3. facts'[writes[v].id] = facts[writes[v].id]
    BY <1>1, <2>1, <2>2
  <2> QED
    BY <2>1, <2>3 DEF WriterInv, ReadingsStand, Newer
<1>6. writes' \in [Writers -> WriteType \cup {NoWrite}]
  <2>1. writes' = [v \in Writers |-> writes'[v]]
    BY DEF Put
  <2> QED
    BY <1>4, <2>1
<1> QED
  BY <1>1, <1>2, <1>3, <1>4, <1>5, <1>6

(* What a put does to the versions recorded: none is taken back, and the   *)
(* writer's own is recorded, but where the history variable says so.       *)
LEMMA PutKeepsRecords ==
  ASSUME WriterInv, NEW w \in Writers, writes[w] # NoWrite,
         writes[w].read # "fetched", Put(w), orders' = orders,
         NEW o \in Orders, o = writes[w].id
  PROVE  /\ \A p \in Orders : Kept(p) => Kept(p)'
         /\ writes[w].version = orders[o].version => Kept(o)'
         /\ lost \subseteq lost'
<1>0. /\ writes[w].version \in Nat
      /\ writes[w].read \in {"none", "current", "outdated"}
      /\ orders[o].version \in Nat /\ facts[o].version \in Nat
      /\ Real(o, facts[o].version, facts[o].day)
      /\ Real(o, writes[w].version, writes[w].day)
  BY DEF WriterInv, Typed, VersionsReal, WriteType, Readings, OrderType
<1>1. /\ \A p \in Orders : p # o => facts'[p] = facts[p]
      /\ ~Accepted(w) => facts' = facts
      /\ Accepted(w) => facts'[o].version = writes[w].version
  BY <1>0 DEF Put, WriterInv, Typed
<1>2. lost \subseteq lost'
  BY DEF Put
<1>3. CASE writes[w].read = "current"
  <2>1. Accepted(w) /\ writes[w].version > facts[o].version
    BY <1>3 DEF Accepted, WriterInv, ReadingsStand, Newer
  <2> QED
    BY <1>0, <1>1, <1>2, <2>1 DEF Kept, Recorded
<1>4. CASE writes[w].read # "current" /\ Accepted(w)
  <2>1. facts[o].version = orders[o].version
          /\ writes[w].version < facts[o].version => o \in lost'
    BY <1>0, <1>1, <1>4 DEF Put
  <2> QED
    BY <1>0, <1>1, <1>2, <1>4, <2>1 DEF Kept, Recorded, Real
<1>5. CASE ~Accepted(w)
  <2>1. /\ writes[w].version = orders[o].version
        /\ facts[o].version < writes[w].version
        => o \in lost'
    BY <1>0, <1>1, <1>5 DEF Put, Accepted
  <2>2. facts' = facts
    BY <1>1, <1>5
  <2> QED
    BY <1>0, <1>2, <2>1, <2>2 DEF Kept, Recorded
<1> QED
  BY <1>3, <1>4, <1>5

(* Writes that are dropped, and steps that touch no write.                 *)
LEMMA WritesShrink ==
  ASSUME WriterInv, Typed', UNCHANGED <<orders, shown, facts>>,
         \A w \in Writers : writes'[w] = writes[w] \/ writes'[w] = NoWrite,
         page' \subseteq page,
         writes'[Job] # NoWrite => pc' = pc /\ page' = page
  PROVE  WriterInv'
<1>1. VersionsReal'
  BY DEF WriterInv, VersionsReal, Real
<1>2. ReadingsStand'
  BY DEF WriterInv, ReadingsStand, Newer, NoWrite
<1>3. JobWrites'
  BY DEF WriterInv, JobWrites, Writers
<1>4. PageIsSet'
  BY DEF WriterInv, PageIsSet
<1> QED
  BY <1>1, <1>2, <1>3, <1>4 DEF WriterInv

LEMMA WriterEdit ==
  ASSUME WriterInv, NEW o \in Orders, NEW d \in Days, Edit(o, d)
  PROVE  WriterInv'
<1> USE DEF WriterInv
<1>1. /\ orders' \in [Orders -> OrderType]
      /\ orders'[o].version = orders[o].version + 1
      /\ \A p \in Orders : p # o => orders'[p] = orders[p]
      /\ orders[o].version \in Nat
      /\ UNCHANGED <<clock, shown, facts, writes, foldVars, runVars>>
  BY DEF Typed, OrderType, Edit, Days
<1>2. ASSUME NEW p \in Orders, NEW v \in Nat, NEW e, Real(p, v, e)
      PROVE  Real(p, v, e)'
  BY <1>1, <1>2 DEF Real
<1>3. \A p \in Orders :
        /\ shown[p].version <= orders'[p].version
        /\ shown[p].version = orders'[p].version => shown[p] = orders'[p]
  <2> SUFFICES ASSUME NEW p \in Orders
               PROVE  /\ shown[p].version <= orders'[p].version
                      /\ shown[p].version = orders'[p].version
                           => shown[p] = orders'[p]
    OBVIOUS
  <2>1. shown[p].version \in Nat /\ shown[p].version <= orders[p].version
    BY DEF Typed, OrderType, VersionsReal
  <2>2. CASE p = o
    BY <1>1, <2>1, <2>2
  <2>3. CASE p # o
    BY <1>1, <2>3 DEF VersionsReal
  <2> QED
    BY <2>2, <2>3
<1>4. \A s \in page :
        /\ s.state.version <= orders'[s.id].version
        /\ s.state.version = orders'[s.id].version => s.state = orders'[s.id]
  <2> SUFFICES ASSUME NEW s \in page
               PROVE  /\ s.state.version <= orders'[s.id].version
                      /\ s.state.version = orders'[s.id].version
                           => s.state = orders'[s.id]
    OBVIOUS
  <2>1. /\ s.id \in Orders /\ s.state.version \in Nat
        /\ s.state.version <= orders[s.id].version
    BY DEF Typed, OrderType, VersionsReal
  <2>2. CASE s.id = o
    BY <1>1, <2>1, <2>2
  <2>3. CASE s.id # o
    BY <1>1, <2>1, <2>3 DEF VersionsReal
  <2> QED
    BY <2>2, <2>3
<1>5. \A p \in Orders : Real(p, facts[p].version, facts[p].day)'
  <2>1. ASSUME NEW p \in Orders PROVE facts[p].version \in Nat
    BY DEF Typed
  <2> QED
    BY <1>1, <1>2, <2>1 DEF VersionsReal
<1>6. \A w \in Writers :
        writes[w] # NoWrite =>
          Real(writes[w].id, writes[w].version, writes[w].day)'
  <2>1. ASSUME NEW w \in Writers, writes[w] # NoWrite
        PROVE  writes[w].id \in Orders /\ writes[w].version \in Nat
    BY <2>1 DEF Typed, WriteType
  <2> QED
    BY <1>1, <1>2, <2>1 DEF VersionsReal
<1>7. VersionsReal'
  BY <1>1, <1>3, <1>4, <1>5, <1>6 DEF VersionsReal, runVars
<1>8. Typed'
  BY <1>1 DEF Typed, foldVars, runVars
<1> QED
  BY <1>1, <1>7, <1>8
     DEF ReadingsStand, Newer, PageIsSet, JobWrites, foldVars, runVars

(* A writer that begins: its fact is that of an order it saw.              *)
LEMMA WriteBegins ==
  ASSUME WriterInv, Typed', NEW w \in Writers, NEW write \in WriteType,
         UNCHANGED <<orders, shown, facts, pc, page>>,
         writes' = [writes EXCEPT ![w] = write],
         Real(write.id, write.version, write.day),
         write.read = "current" => Newer(write.id, write.version),
         w = Job =>
           /\ pc = "page"
           /\ \E s \in page :
                s.id = write.id /\ s.state.version = write.version
  PROVE  WriterInv'
<1>1. \A v \in Writers :
        writes'[v] = IF v = w THEN write ELSE writes[v]
  BY DEF WriterInv, Typed
<1>2. VersionsReal' /\ ReadingsStand'
  BY <1>1 DEF WriterInv, VersionsReal, Real, ReadingsStand, Newer
<1>3. JobWrites' /\ PageIsSet'
  BY <1>1 DEF WriterInv, JobWrites, PageIsSet, Writers
<1> QED
  BY <1>2, <1>3 DEF WriterInv

LEMMA WriterFetch ==
  ASSUME WriterInv, NEW w \in Deliveries, NEW o \in Orders, Fetch(w, o)
  PROVE  WriterInv'
<1> DEFINE write == WriteOf(o, orders[o], "fetched")
<1>1. write \in WriteType /\ w \in Writers /\ w # Job
  BY JobAssumption
     DEF WriteOf, WriteType, Readings, WriterInv, Typed, OrderType, Writers
<1>2. writes' = [writes EXCEPT ![w] = write]
  BY DEF Fetch
<1>3. Typed'
  BY <1>1, <1>2 DEF Fetch, WriterInv, Typed, orderVars, foldVars, runVars
<1>4. /\ write.id = o /\ write.version = orders[o].version
      /\ write.day = orders[o].day /\ write.read = "fetched"
      /\ orders[o].version \in Nat
  BY DEF WriteOf, WriterInv, Typed, OrderType
<1>5. Real(write.id, write.version, write.day)
  BY <1>4 DEF Real
<1> HIDE DEF write
<1> QED
  BY <1>1, <1>2, <1>3, <1>4, <1>5, WriteBegins
     DEF Fetch, orderVars, runVars

LEMMA WriterCompare ==
  ASSUME WriterInv, NEW w \in Deliveries, Compare(w)
  PROVE  WriterInv'
<1>1. /\ w \in Writers /\ w # Job /\ writes[w] \in WriteType
      /\ writes[w] # NoWrite
      /\ UNCHANGED <<orderVars, facts, foldVars, runVars>>
  BY JobAssumption, NoWriteIsNone
     DEF Compare, WriterInv, Typed, Writers, NoWrite
<1>2. CASE ~Newer(writes[w].id, writes[w].version)
  <2>1. writes' = [writes EXCEPT ![w] = NoWrite]
    BY <1>2 DEF Compare
  <2>2. Typed'
    BY <1>1, <2>1 DEF WriterInv, Typed, orderVars, foldVars, runVars
  <2>3. \A v \in Writers : writes'[v] = writes[v] \/ writes'[v] = NoWrite
    BY <2>1 DEF WriterInv, Typed
  <2> QED
    BY <1>1, <2>2, <2>3, WritesShrink DEF orderVars, runVars
<1>3. CASE Newer(writes[w].id, writes[w].version)
  <2> DEFINE write == [writes[w] EXCEPT !.read = ReadingOf(writes[w].id)]
  <2>1. writes' = [writes EXCEPT ![w] = write]
    BY <1>3 DEF Compare
  <2>2. /\ write \in WriteType /\ write.id = writes[w].id
        /\ write.version = writes[w].version /\ write.day = writes[w].day
    BY <1>1 DEF WriteType, Readings, ReadingOf
  <2> HIDE DEF write
  <2>3. Typed'
    BY <1>1, <2>1, <2>2 DEF WriterInv, Typed, orderVars, foldVars, runVars
  <2>4. Real(write.id, write.version, write.day)
    BY <1>1, <2>2 DEF WriterInv, VersionsReal
  <2> QED
    BY <1>1, <1>3, <2>1, <2>2, <2>3, <2>4, WriteBegins DEF orderVars, runVars
<1> QED
  BY <1>2, <1>3

LEMMA WriterDeliver ==
  ASSUME WriterInv, NEW w \in Deliveries, Deliver(w)
  PROVE  WriterInv'
<1>1. /\ w \in Writers /\ w # Job /\ writes[w] # NoWrite /\ Put(w)
      /\ UNCHANGED <<orderVars, foldVars, runVars>>
  BY JobAssumption, NoWriteIsNone DEF Deliver, Writers
<1>2. Typed'
  BY <1>1, PutKeepsWriters
     DEF WriterInv, Typed, orderVars, foldVars, runVars
<1>3. VersionsReal' /\ ReadingsStand'
  BY <1>1, PutKeepsWriters
     DEF WriterInv, VersionsReal, Real, ReadingsStand, Newer, orderVars,
         runVars
<1>4. JobWrites' /\ PageIsSet'
  BY <1>1, PutKeepsWriters
     DEF WriterInv, JobWrites, PageIsSet, Writers, runVars
<1> QED
  BY <1>2, <1>3, <1>4 DEF WriterInv

LEMMA WriterScanPage == ASSUME WriterInv, ScanPage PROVE WriterInv'
<1>0. PICK P \in SUBSET Matching :
        \E last \in P :
          /\ page' = {[id |-> o, state |-> shown[o]] : o \in P}
          /\ pageCursor' = PositionOf(last, shown[last])
  BY DEF ScanPage
<1>1. PICK last \in P :
        /\ page' = {[id |-> o, state |-> shown[o]] : o \in P}
        /\ pageCursor' = PositionOf(last, shown[last])
  BY <1>0
<1>2. /\ P \subseteq Orders /\ last \in Orders
      /\ UNCHANGED <<orderVars, factVars, foldVars, until>> /\ pc' = "page"
  BY DEF Matching, ScanPage
<1>3. Typed'
  BY <1>1, <1>2, OrdersAssumption
     DEF WriterInv, Typed, PositionOf, OrderType, orderVars, factVars, foldVars
<1>4. writes'[Job] = NoWrite
  BY <1>2 DEF WriterInv, JobWrites, ScanPage, factVars
<1>5. VersionsReal'
  BY <1>1, <1>2 DEF WriterInv, VersionsReal, Real, orderVars, factVars
<1>6. ReadingsStand' /\ PageIsSet'
  BY <1>1, <1>2 DEF WriterInv, ReadingsStand, Newer, PageIsSet, factVars
<1> QED
  BY <1>3, <1>4, <1>5, <1>6 DEF WriterInv, JobWrites

LEMMA WriterReadFact == ASSUME WriterInv, ReadFact PROVE WriterInv'
<1>1. PICK s \in page :
        /\ Newer(s.id, s.state.version)
        /\ writes' = [writes EXCEPT ![Job] =
                        WriteOf(s.id, s.state, ReadingOf(s.id))]
  BY DEF ReadFact
<1> DEFINE write == WriteOf(s.id, s.state, ReadingOf(s.id))
<1>2. /\ s.id \in Orders /\ s.state \in OrderType /\ Job \in Writers
      /\ pc = "page" /\ UNCHANGED <<orderVars, facts, foldVars, runVars>>
  BY DEF WriterInv, Typed, Writers, ReadFact
<1>3. /\ write \in WriteType /\ write.id = s.id
      /\ write.version = s.state.version /\ write.day = s.state.day
  BY <1>2 DEF WriteOf, WriteType, Readings, ReadingOf, OrderType
<1>4. writes' = [writes EXCEPT ![Job] = write]
  BY <1>1
<1> HIDE DEF write
<1>5. Typed'
  BY <1>2, <1>3, <1>4 DEF WriterInv, Typed, orderVars, foldVars, runVars
<1>6. Real(write.id, write.version, write.day)
  BY <1>2, <1>3 DEF WriterInv, VersionsReal, Real
<1> QED
  BY <1>1, <1>2, <1>3, <1>4, <1>5, <1>6, WriteBegins
     DEF orderVars, runVars

(* The order of the page that the run has written.                         *)
LEMMA WrittenOfPage ==
  ASSUME WriterInv, WriteFact
  PROVE  \E s \in page :
           /\ s.id = writes[Job].id /\ s.state.version = writes[Job].version
           /\ dirty' = Dirtied(s)
           /\ page' = page \ {s}
<1>1. PICK s \in page : /\ s.id = writes[Job].id
                        /\ dirty' = Dirtied(s)
                        /\ page' = page \ {s}
  BY DEF WriteFact
<1>2. PICK t \in page :
        t.id = writes[Job].id /\ t.state.version = writes[Job].version
  BY DEF WriterInv, JobWrites, WriteFact
<1>3. s = t
  BY <1>1, <1>2 DEF WriterInv, PageIsSet
<1> QED
  BY <1>1, <1>2, <1>3

LEMMA WriterWriteFact == ASSUME WriterInv, WriteFact PROVE WriterInv'
<1>1. PICK s \in page : page' = page \ {s}
  BY DEF WriteFact
<1>2. /\ Job \in Writers /\ writes[Job] # NoWrite /\ Put(Job)
      /\ UNCHANGED <<orderVars, foldVars, pc, until, pageCursor>>
  BY DEF WriteFact, Writers
<1>3. Typed'
  BY <1>1, <1>2, PutKeepsWriters
     DEF WriterInv, Typed, orderVars, foldVars
<1>4. VersionsReal' /\ ReadingsStand'
  BY <1>1, <1>2, PutKeepsWriters
     DEF WriterInv, VersionsReal, Real, ReadingsStand, Newer, orderVars
<1>5. JobWrites' /\ PageIsSet'
  BY <1>1, <1>2, PutKeepsWriters DEF WriterInv, JobWrites, PageIsSet
<1> QED
  BY <1>3, <1>4, <1>5 DEF WriterInv

LEMMA WritersStep == WriterInv /\ [Next]_vars => WriterInv'
<1> SUFFICES ASSUME WriterInv, [Next]_vars PROVE WriterInv'
  OBVIOUS
<1> USE DEF WriterInv
<1>1. CASE \E o \in Orders, d \in Days : Edit(o, d)
  BY <1>1, WriterEdit
<1>2. ASSUME NEW o \in Orders, Settle(o) PROVE WriterInv'
  <2>1. /\ shown' \in [Orders -> OrderType]
        /\ shown'[o] = orders[o]
        /\ \A p \in Orders \ {o} : shown'[p] = shown[p]
        /\ orders[o].version \in Nat
        /\ UNCHANGED <<clock, orders, factVars, foldVars, runVars>>
    BY <1>2 DEF Typed, Settle, OrderType
  <2>2. VersionsReal'
    BY <2>1 DEF VersionsReal, Real, factVars, runVars
  <2> QED
    BY <2>1, <2>2
       DEF Typed, ReadingsStand, Newer, PageIsSet, JobWrites, factVars,
           foldVars, runVars
<1>3. CASE Tick
  <2>1. clock' = clock + 1
        /\ UNCHANGED <<orders, shown, factVars, foldVars, runVars>>
    BY <1>3 DEF Tick
  <2>2. Typed'
    BY <2>1 DEF Typed, factVars, foldVars, runVars
  <2> QED
    BY <2>1, <2>2, WritesShrink DEF factVars, runVars
<1>4. ASSUME NEW w \in Deliveries, NEW o \in Orders, Fetch(w, o)
      PROVE  WriterInv'
  BY <1>4, WriterFetch
<1>5. ASSUME NEW w \in Deliveries, Compare(w) PROVE WriterInv'
  BY <1>5, WriterCompare
<1>6. ASSUME NEW w \in Deliveries, Deliver(w) PROVE WriterInv'
  BY <1>6, WriterDeliver
<1>7. ASSUME NEW w \in Deliveries, FailDelivery(w) PROVE WriterInv'
  <2>1. /\ writes' = [writes EXCEPT ![w] = NoWrite]
        /\ UNCHANGED <<orderVars, facts, foldVars, runVars>>
    BY <1>7 DEF FailDelivery
  <2>2. \A v \in Writers : writes'[v] = writes[v] \/ writes'[v] = NoWrite
    BY <2>1 DEF Typed
  <2>3. Typed'
    BY <2>1 DEF Typed, orderVars, foldVars, runVars, Writers
  <2> QED
    BY <2>1, <2>2, <2>3, WritesShrink DEF orderVars, runVars
<1>8. CASE StartRun \/ ScanEnd \/ ScanStop \/ SaveCursor
  <2>1. /\ UNCHANGED <<clock, orders, shown, factVars, partition, claimed,
                       page>>
        /\ until' = until \/ until' = SafeUpperBound
        /\ cursor' \in {cursor, pageCursor}
        /\ pageCursor' \in {cursor, pageCursor}
        /\ pc' \in {"scan", "fold"}
        /\ pc # "page" \/ page = {}
    BY <1>8 DEF StartRun, ScanEnd, ScanStop, SaveCursor, orderVars, foldVars
  <2>2. writes[Job] = NoWrite
    BY <2>1 DEF JobWrites
  <2>3. until' \in Int
    <3>1. CASE StartRun
      BY <1>8, <3>1, LagAssumption DEF StartRun, SafeUpperBound, Typed
    <3> QED
      BY <1>8, <3>1 DEF ScanEnd, ScanStop, SaveCursor, Typed
  <2>4. Typed'
    BY <2>1, <2>3 DEF Typed, factVars
  <2> QED
    BY <2>1, <2>2, <2>4, WritesShrink DEF factVars
<1>9. CASE ScanPage
  BY <1>9, WriterScanPage
<1>10. CASE SkipStale
  <2>1. /\ UNCHANGED <<orderVars, factVars, foldVars, pc, until, pageCursor>>
        /\ page' \subseteq page /\ writes[Job] = NoWrite
    BY <1>10 DEF SkipStale
  <2>2. Typed'
    BY <2>1 DEF Typed, orderVars, factVars, foldVars
  <2> QED
    BY <2>1, <2>2, WritesShrink DEF orderVars, factVars
<1>11. CASE ReadFact
  BY <1>11, WriterReadFact
<1>12. CASE WriteFact
  BY <1>12, WriterWriteFact
<1>13. ASSUME NEW d \in Days, FoldDay(d) PROVE WriterInv'
  <2>1. FactsOf(d) \in SUBSET (Orders \X Nat)
    BY DEF Typed, FactsOf
  <2>2. Typed'
    BY <1>13, <2>1 DEF Typed, FoldDay, orderVars, factVars
  <2> QED
    BY <1>13, <2>2, WritesShrink DEF FoldDay, orderVars, factVars
<1>14. CASE FinishRun \/ Crash
  <2>1. /\ EndRun /\ (claimed' = until \/ claimed' = claimed)
        /\ UNCHANGED <<orderVars, facts, cursor, partition>>
        /\ writes' = [writes EXCEPT ![Job] = NoWrite]
    BY <1>14 DEF FinishRun, Crash, EndRun
  <2>2. \A v \in Writers : writes'[v] = writes[v] \/ writes'[v] = NoWrite
    BY <2>1 DEF Typed
  <2>3. Typed' /\ writes'[Job] = NoWrite
    BY <2>1 DEF Typed, EndRun, NoCursor, orderVars, Writers
  <2> QED
    BY <2>1, <2>2, <2>3, WritesShrink DEF EndRun, orderVars
<1>15. CASE Exhaust \/ UNCHANGED vars
  <2>1. UNCHANGED <<orderVars, factVars, foldVars, pc, until, pageCursor, page>>
    BY <1>15 DEF Exhaust, vars, runVars
  <2>2. Typed'
    BY <2>1 DEF Typed, orderVars, factVars, foldVars
  <2> QED
    BY <2>1, <2>2, WritesShrink DEF orderVars, factVars
<1> QED
  BY <1>1, <1>2, <1>3, <1>4, <1>5, <1>6, <1>7, <1>8, <1>9, <1>10, <1>11,
     <1>12, <1>13, <1>14, <1>15
     DEF Next, RunStep, DeliveryStep

-----------------------------------------------------------------------------
(* The scan *)

(* An edit is never behind a position the scan has reached.                *)
LEMMA EditsAreAhead ==
  ASSUME ScanInv, NEW o \in Orders, NEW d \in Days, Edit(o, d)
  PROVE  ~Passed(o, cursor)' /\ ~Passed(o, pageCursor)'
<1>1. orders'[o].mod = clock /\ cursor' = cursor /\ pageCursor' = pageCursor
  BY DEF ScanInv, WriterInv, Typed, Edit, foldVars, runVars
<1>2. cursor.mod < clock /\ pageCursor.mod < clock
  BY LagAssumption DEF ScanInv, WriterInv, Typed, Behind
<1> QED
  BY <1>1, <1>2 DEF Passed, Before, PositionOf

(* An order before `until` that the scan has not passed has settled, and   *)
(* the next query returns it.                                              *)
LEMMA AheadIsMatching ==
  ASSUME ScanInv, pc = "scan", NEW o \in Orders, Exists(o),
         orders[o].mod < until, ~Passed(o, pageCursor)
  PROVE  o \in Matching /\ shown[o] = orders[o]
<1>1. clock - orders[o].mod > MaxSettle
  BY LagAssumption DEF ScanInv, WriterInv, Typed, Behind, OrderType
<1>2. shown[o] = orders[o]
  BY <1>1, LagAssumption DEF ScanInv, WriterInv, Typed, Settling, OrderType
<1> QED
  BY <1>2 DEF Matching, Resumes, Exists, Passed

(* A page that moves the position past an order has read that order as it  *)
(* is now.                                                                 *)
LEMMA PagesMissNothing ==
  ASSUME ScanInv, pc = "scan",
         NEW P \in SUBSET Matching, NEW last \in P, IsPage(P, last),
         NEW o \in Orders, Exists(o), orders[o].mod < until,
         \/ ~Before(PositionOf(last, shown[last]), PositionOf(o, orders[o]))
         \/ P = Matching
  PROVE  Passed(o, pageCursor) \/ (o \in P /\ shown[o] = orders[o])
<1> SUFFICES ASSUME ~Passed(o, pageCursor)
             PROVE  o \in P /\ shown[o] = orders[o]
  OBVIOUS
<1>1. o \in Matching /\ shown[o] = orders[o]
  BY AheadIsMatching
<1>2. CASE o \notin P
  <2>1. Before(PositionOf(last, shown[last]), PositionOf(o, shown[o]))
    BY <1>1, <1>2 DEF IsPage
  <2> QED
    BY <1>1, <1>2, <2>1
<1> QED
  BY <1>1, <1>2

LEMMA ScanPageStep == ASSUME ScanInv, ScanPage PROVE ScanInv'
<1>0. PICK P \in SUBSET Matching :
        \E last \in P :
          /\ IsPage(P, last)
          /\ page' = {[id |-> o, state |-> shown[o]] : o \in P}
          /\ pageCursor' = PositionOf(last, shown[last])
  BY DEF ScanPage
<1>1. PICK last \in P :
        /\ IsPage(P, last)
        /\ page' = {[id |-> o, state |-> shown[o]] : o \in P}
        /\ pageCursor' = PositionOf(last, shown[last])
  BY <1>0
<1>2. P \subseteq Orders /\ last \in Orders /\ shown[last].mod < until
  BY DEF Matching, Resumes
<1>3. WriterInv'
  BY WritersStep DEF ScanInv, WriterInv, Next, RunStep
<1>4. Behind'
  BY <1>1, <1>2, LagAssumption
     DEF ScanInv, WriterInv, Typed, Behind, ScanPage, PositionOf, OrderType,
         orderVars, foldVars
<1>5. PageAccounted'
  <2> SUFFICES ASSUME NEW o \in Orders, Passed(o, pageCursor)'
               PROVE  Kept(o)' \/ InPage(o)'
    BY DEF PageAccounted
  <2>1. /\ Exists(o)
        /\ ~Before(PositionOf(last, shown[last]), PositionOf(o, orders[o]))
    BY <1>1 DEF Passed, Exists, ScanPage, orderVars, PositionOf
  <2>2. orders[o].mod < until
    BY <1>2, <2>1 DEF ScanInv, WriterInv, Typed, Before, PositionOf, OrderType
  <2>3. Passed(o, pageCursor) \/ (o \in P /\ shown[o] = orders[o])
    BY <1>1, <2>1, <2>2, PagesMissNothing DEF ScanPage
  <2>4. CASE Passed(o, pageCursor)
    <3>1. Passed(o, cursor)
      BY <2>4 DEF ScanInv, CursorKept, ScanPage
    <3> QED
      BY <3>1
         DEF ScanInv, CursorBehindFacts, Passed, Exists, Kept, Recorded,
             ScanPage, orderVars, factVars
  <2>5. CASE o \in P /\ shown[o] = orders[o]
    <3>1. [id |-> o, state |-> shown[o]] \in page'
      BY <1>1, <2>5
    <3>2. orders' = orders
      BY DEF ScanPage, orderVars
    <3> QED
      BY <2>5, <3>1, <3>2 DEF InPage
  <2> QED
    BY <2>3, <2>4, <2>5
<1> QED
  BY <1>3, <1>4, <1>5
     DEF ScanInv, Settling, CursorKept, CursorBehindFacts, JobReads, ScanPage,
         orderVars, factVars, foldVars

(* A put of the page's next order: what was kept is kept, and the order    *)
(* written is too.                                                         *)
LEMMA WriteFactStep == ASSUME ScanInv, WriteFact PROVE ScanInv'
<1>1. PICK s \in page :
        /\ s.id = writes[Job].id /\ s.state.version = writes[Job].version
        /\ page' = page \ {s}
  BY WrittenOfPage DEF ScanInv
<1>2. /\ Job \in Writers /\ writes[Job] # NoWrite /\ Put(Job) /\ pc = "page"
      /\ UNCHANGED <<orderVars, foldVars, pc, until, pageCursor>>
  BY DEF WriteFact, Writers
<1>3. writes[Job].read # "fetched"
  BY DEF ScanInv, JobReads, WriteFact
<1>4. s.id \in Orders
  BY DEF ScanInv, WriterInv, Typed
<1>5. /\ \A p \in Orders : Kept(p) => Kept(p)'
      /\ s.state.version = orders[s.id].version => Kept(s.id)'
  BY <1>1, <1>2, <1>3, <1>4, PutKeepsRecords DEF ScanInv, orderVars
<1>6. PageAccounted'
  <2> SUFFICES ASSUME NEW o \in Orders, Passed(o, pageCursor)
               PROVE  Kept(o)' \/ InPage(o)'
    BY <1>2 DEF PageAccounted, Passed, Exists, orderVars
  <2>1. CASE Kept(o)
    BY <1>5, <2>1
  <2>2. CASE InPage(o)
    <3>1. PICK t \in page : t.id = o /\ t.state = orders[o]
      BY <2>2 DEF InPage
    <3>2. CASE t = s
      BY <1>5, <3>1, <3>2
    <3>3. CASE t # s
      BY <1>1, <1>2, <3>1, <3>3 DEF InPage, orderVars
    <3> QED
      BY <3>2, <3>3
  <2> QED
    BY <1>2, <2>1, <2>2 DEF ScanInv, PageAccounted
<1>7. CursorBehindFacts'
  BY <1>2, <1>5
     DEF ScanInv, CursorBehindFacts, Kept, Recorded, orderVars, foldVars
<1>8. WriterInv'
  BY WritersStep DEF ScanInv, Next, RunStep
<1>9. JobReads'
  BY <1>2, PutKeepsWriters, NoWriteIsNone DEF ScanInv, JobReads, Readings
<1> QED
  BY <1>2, <1>6, <1>7, <1>8, <1>9
     DEF ScanInv, Behind, Settling, CursorKept, orderVars, foldVars

(* A delivery may put in between, whatever it read and whenever.           *)
LEMMA DeliverStep ==
  ASSUME ScanInv, NEW w \in Deliveries, Deliver(w) PROVE ScanInv'
<1>1. /\ w \in Writers /\ writes[w] # NoWrite /\ Put(w)
      /\ writes[w].read # "fetched" /\ w # Job
      /\ writes[w].id \in Orders
      /\ UNCHANGED <<orderVars, foldVars, runVars>>
  BY JobAssumption, NoWriteIsNone
     DEF Deliver, Writers, ScanInv, WriterInv, Typed, WriteType
<1>2. \A p \in Orders : Kept(p) => Kept(p)'
  BY <1>1, PutKeepsRecords DEF ScanInv, orderVars
<1>3. PageAccounted'
  BY <1>1, <1>2
     DEF ScanInv, PageAccounted, Passed, Exists, InPage, orderVars, runVars
<1>4. CursorBehindFacts'
  BY <1>1, <1>2
     DEF ScanInv, CursorBehindFacts, Kept, Recorded, orderVars, foldVars
<1>5. WriterInv'
  BY WritersStep DEF ScanInv, Next, DeliveryStep
<1>6. JobReads'
  <2>1. writes'[Job] = writes[Job]
        \/ writes'[Job] = [writes[Job] EXCEPT !.read = "outdated"]
    BY <1>1 DEF Put, Writers
  <2>2. Job \in Writers /\ writes[Job] \in WriteType \cup {NoWrite}
    BY DEF ScanInv, WriterInv, Typed, Writers
  <2> QED
    BY <2>1, <2>2 DEF ScanInv, JobReads, WriteType, NoWrite
<1> QED
  BY <1>1, <1>3, <1>4, <1>5, <1>6
     DEF ScanInv, Behind, Settling, CursorKept, orderVars, foldVars, runVars

LEMMA SkipStaleStep == ASSUME ScanInv, SkipStale PROVE ScanInv'
<1>1. PICK s \in page : ~Newer(s.id, s.state.version) /\ page' = page \ {s}
  BY DEF SkipStale
<1>2. /\ pc = "page"
      /\ UNCHANGED <<orderVars, factVars, foldVars, pc, until, pageCursor>>
  BY DEF SkipStale
<1>3. PageAccounted'
  <2> SUFFICES ASSUME NEW o \in Orders, Passed(o, pageCursor)
               PROVE  Kept(o) \/ InPage(o)'
    BY <1>2 DEF PageAccounted, Passed, Exists, Kept, Recorded, orderVars,
                factVars
  <2>1. CASE InPage(o)
    <3>1. PICK t \in page : t.id = o /\ t.state = orders[o]
      BY <2>1 DEF InPage
    <3>2. CASE t = s
      BY <1>1, <3>1, <3>2
         DEF Kept, Recorded, Newer, ScanInv, WriterInv, Typed, OrderType
    <3>3. CASE t # s
      BY <1>1, <1>2, <3>1, <3>3 DEF InPage, orderVars
    <3> QED
      BY <3>2, <3>3
  <2> QED
    BY <1>2, <2>1 DEF ScanInv, PageAccounted
<1>4. WriterInv'
  BY WritersStep DEF ScanInv, Next, RunStep
<1> QED
  BY <1>2, <1>3, <1>4
     DEF ScanInv, Behind, Settling, CursorKept, CursorBehindFacts, JobReads,
         orderVars, factVars, foldVars

LEMMA SaveCursorStep == ASSUME ScanInv, SaveCursor PROVE ScanInv'
<1>1. CursorBehindFacts'
  BY DEF ScanInv, PageAccounted, CursorBehindFacts, Passed, Exists, Kept,
         Recorded, InPage, SaveCursor, orderVars, factVars
<1>2. WriterInv'
  BY WritersStep DEF ScanInv, Next, RunStep
<1> QED
  BY <1>1, <1>2
     DEF ScanInv, SaveCursor, Behind, Settling, CursorKept, PageAccounted,
         JobReads, orderVars, factVars

LEMMA EditStep ==
  ASSUME ScanInv, NEW o \in Orders, NEW d \in Days, Edit(o, d)
  PROVE  ScanInv'
<1>1. /\ orders'[o].mod = clock
      /\ \A p \in Orders \ {o} : orders'[p] = orders[p]
      /\ \A p \in Orders \ {o} : p \in lost => p \in lost'
  BY DEF ScanInv, WriterInv, Typed, OrderType, Edit, Days
<1>2. UNCHANGED <<clock, shown, facts, writes, foldVars, runVars>>
  BY DEF Edit
<1>3. WriterInv'
  BY WritersStep DEF ScanInv, Next
<1>4. Behind' /\ CursorKept' /\ JobReads'
  BY <1>2 DEF ScanInv, Behind, CursorKept, JobReads, foldVars, runVars
<1>5. Settling'
  BY <1>1, <1>2, LagAssumption DEF ScanInv, WriterInv, Typed, Settling
<1>6. PageAccounted'
  BY <1>1, <1>2, EditsAreAhead
     DEF ScanInv, PageAccounted, Passed, Exists, Kept, Recorded, InPage,
         foldVars, runVars
<1>7. CursorBehindFacts'
  BY <1>1, <1>2, EditsAreAhead
     DEF ScanInv, CursorBehindFacts, Passed, Exists, foldVars, runVars
<1> QED
  BY <1>3, <1>4, <1>5, <1>6, <1>7 DEF ScanInv

LEMMA TickStep == ASSUME ScanInv, Tick PROVE ScanInv'
<1>1. clock' = clock + 1
      /\ UNCHANGED <<orders, shown, factVars, foldVars, runVars>>
  BY DEF Tick
<1>2. WriterInv'
  BY WritersStep DEF ScanInv, Next
<1>3. Behind'
  BY <1>1, LagAssumption
     DEF ScanInv, WriterInv, Typed, Behind, foldVars, runVars
<1>4. Settling'
  BY <1>1, LagAssumption
     DEF ScanInv, WriterInv, Typed, OrderType, Settling, Tick
<1> QED
  BY <1>1, <1>2, <1>3, <1>4
     DEF ScanInv, CursorKept, PageAccounted, CursorBehindFacts, JobReads,
         Passed, Exists, Kept, Recorded, InPage, factVars, foldVars, runVars

(* The steps that leave facts, orders and positions alone                  *)
LEMMA QuietStep ==
  ASSUME ScanInv, WriterInv', JobReads',
         UNCHANGED <<clock, orders, facts, lost, cursor, claimed, pageCursor,
                     page, pc, until>>,
         \A o \in Orders : shown'[o] # shown[o] => shown'[o] = orders[o]
  PROVE  ScanInv'
BY DEF ScanInv, Behind, Settling, CursorKept, PageAccounted,
       CursorBehindFacts, Passed, Exists, Kept, Recorded, InPage

(* The steps of the run outside its pages                                  *)
LEMMA OtherStep ==
  ASSUME ScanInv, WriterInv', JobReads', Behind', CursorKept', pc' # "page",
         UNCHANGED <<clock, orders, shown, facts, lost, cursor>>
  PROVE  ScanInv'
BY DEF ScanInv, Settling, PageAccounted, CursorBehindFacts

LEMMA ScanStep == ScanInv /\ [Next]_vars => ScanInv'
<1> SUFFICES ASSUME ScanInv, [Next]_vars PROVE ScanInv'
  OBVIOUS
<1>0. WriterInv /\ WriterInv'
  BY WritersStep DEF ScanInv
<1>1. CASE \E o \in Orders, d \in Days : Edit(o, d)
  BY <1>1, EditStep
<1>2. ASSUME NEW w \in Deliveries,
             FailDelivery(w) \/ Compare(w) \/ \E o \in Orders : Fetch(w, o)
      PROVE  ScanInv'
  <2>1. UNCHANGED <<orderVars, facts, lost, foldVars, runVars>>
    BY <1>2 DEF FailDelivery, Compare, Fetch
  <2>2. writes'[Job] = writes[Job]
    BY <1>0, <1>2, JobAssumption
       DEF FailDelivery, Compare, Fetch, WriterInv, Typed, Writers
  <2> QED
    BY <1>0, <2>1, <2>2, QuietStep
       DEF ScanInv, JobReads, orderVars, foldVars, runVars
<1>3. ASSUME NEW o \in Orders, Settle(o) PROVE ScanInv'
  <2>1. \A p \in Orders : shown'[p] # shown[p] => shown'[p] = orders[p]
    BY <1>0, <1>3 DEF WriterInv, Typed, Settle
  <2> QED
    BY <1>0, <1>3, <2>1, QuietStep
       DEF ScanInv, JobReads, Settle, factVars, foldVars, runVars
<1>4. CASE Tick
  BY <1>4, TickStep
<1>5. CASE StartRun
  BY <1>0, <1>5, OtherStep, LagAssumption
     DEF ScanInv, WriterInv, Typed, Behind, CursorKept, JobReads, StartRun,
         SafeUpperBound, orderVars, factVars, foldVars
<1>6. CASE ScanPage
  BY <1>6, ScanPageStep
<1>7. CASE ScanEnd \/ ScanStop
  BY <1>0, <1>7, OtherStep
     DEF ScanInv, Behind, CursorKept, JobReads, ScanEnd, ScanStop, orderVars,
         factVars, foldVars
<1>8. CASE SkipStale
  BY <1>8, SkipStaleStep
<1>9. CASE ReadFact
  <2>1. PICK s \in page :
          writes' = [writes EXCEPT ![Job] =
                      WriteOf(s.id, s.state, ReadingOf(s.id))]
    BY <1>9 DEF ReadFact
  <2>2. JobReads'
    BY <1>0, <2>1
       DEF JobReads, WriterInv, Typed, Writers, WriteOf, ReadingOf
  <2> QED
    BY <1>0, <1>9, <2>2, QuietStep DEF ReadFact, orderVars, foldVars, runVars
<1>10. CASE WriteFact
  BY <1>10, WriteFactStep
<1>11. CASE SaveCursor
  BY <1>11, SaveCursorStep
<1>12. ASSUME NEW d \in Days, FoldDay(d) PROVE ScanInv'
  BY <1>0, <1>12, OtherStep
     DEF ScanInv, Behind, CursorKept, JobReads, FoldDay, orderVars, factVars
<1>13. CASE FinishRun \/ Crash
  <2>1. EndRun /\ (claimed' = until \/ claimed' = claimed)
        /\ UNCHANGED <<orderVars, facts, lost, cursor>>
    BY <1>13 DEF FinishRun, Crash
  <2>2. JobReads'
    BY <1>0, <2>1 DEF EndRun, JobReads, WriterInv, Typed, Writers, NoWrite
  <2>3. Behind' /\ CursorKept' /\ pc' # "page"
    BY <1>0, <2>1, LagAssumption
       DEF ScanInv, WriterInv, Typed, Behind, CursorKept, EndRun, NoCursor,
           orderVars
  <2> QED
    BY <1>0, <2>1, <2>2, <2>3, OtherStep DEF orderVars
<1>14. CASE Exhaust \/ UNCHANGED vars
  <2>1. UNCHANGED <<orderVars, factVars, foldVars, pc, until, pageCursor, page>>
    BY <1>14 DEF Exhaust, vars, runVars
  <2> QED
    BY <1>0, <2>1, QuietStep
       DEF ScanInv, JobReads, orderVars, factVars, foldVars
<1>15. ASSUME NEW w \in Deliveries, Deliver(w) PROVE ScanInv'
  BY <1>15, DeliverStep
<1> QED
  BY <1>1, <1>2, <1>3, <1>4, <1>5, <1>6, <1>7, <1>8, <1>9, <1>10, <1>11,
     <1>12, <1>13, <1>14, <1>15
     DEF Next, RunStep, DeliveryStep

LEMMA ScanInit == Init => ScanInv
<1> SUFFICES ASSUME Init PROVE ScanInv
  OBVIOUS
<1> USE DEF Init
<1>1. Lag \in Nat /\ MaxSettle \in Nat
  BY LagAssumption
<1>2. Behind /\ Settling
  BY <1>1 DEF Behind, Settling, NoCursor, NoOrder
<1>3. JobReads
  BY DEF JobReads, NoWrite, Writers
<1>4. CursorKept /\ PageAccounted /\ CursorBehindFacts
  BY DEF CursorKept, PageAccounted, CursorBehindFacts, NoOrder
<1> QED
  BY <1>2, <1>3, <1>4, WriterInit DEF ScanInv

LEMMA ScanInvariant == Spec => []ScanInv
BY ScanInit, ScanStep, PTL DEF Spec

(* saveCursor comes after the page's facts, and `until` before anything    *)
(* unsettled: no order is skipped forever.                                 *)
THEOREM NothingIsSkipped == Spec => []CursorBehindFacts
<1>1. ScanInv => CursorBehindFacts
  BY DEF ScanInv
<1> QED
  BY <1>1, ScanInvariant, PTL

-----------------------------------------------------------------------------
(* The fold and the watermark.  The fact of a passed order is exactly      *)
(* current, unless its version lost a race, so that folding its day        *)
(* reports it; until then its day is dirty in the run, or left by one.     *)
Reported(o) == <<o, orders[o].version>> \in partition[orders[o].day]

Excused(o) == orders[o].day \in left \/ o \in lost

Accounted(o) == Reported(o) \/ Excused(o) \/ orders[o].day \in dirty

CursorAccounted == \A o \in Orders : Passed(o, cursor) => Accounted(o)

PageReported ==
  pc = "page" =>
    /\ ~Before(pageCursor, cursor)
    /\ \A o \in Orders : Passed(o, pageCursor) => Accounted(o) \/ InPage(o)

(* A complete scan has passed everything modified before `until`           *)
CompletePasses ==
  /\ pc \in {"idle", "scan"} => complete = FALSE
  /\ complete = TRUE =>
       \A o \in Orders :
         Exists(o) /\ orders[o].mod < until =>
           /\ pc = "page" => Passed(o, pageCursor)
           /\ pc = "fold" => Passed(o, cursor)

ClaimsReported ==
  \A o \in Orders :
    Exists(o) /\ orders[o].mod < claimed =>
      Passed(o, cursor) /\ (Reported(o) \/ Excused(o))

FoldInv ==
  CursorAccounted /\ PageReported /\ CompletePasses /\ ClaimsReported

JobInv == ScanInv /\ FoldInv

LEMMA FoldInit == Init => FoldInv
<1> SUFFICES ASSUME Init PROVE FoldInv
  OBVIOUS
<1>1. \A o \in Orders : ~Exists(o)
  BY DEF Init, Exists, NoOrder
<1> QED
  BY <1>1
     DEF Init, FoldInv, CursorAccounted, PageReported, CompletePasses,
         ClaimsReported, Passed

(* A position only moves forward, and an order passed stays passed.        *)
LEMMA PassedLater ==
  ASSUME NEW o \in Orders, NEW p \in [mod : Int, id : Nat],
         NEW q \in [mod : Int, id : Nat], ~Before(q, p),
         orders[o] \in OrderType, o \in Nat, Passed(o, p)
  PROVE  Passed(o, q)
BY DEF Passed, Before, PositionOf, OrderType

(* What a step that loses no claim and folds nothing must leave alone.     *)
LEMMA AccountsKept ==
  ASSUME NEW o \in Orders, UNCHANGED <<orders, partition>>,
         dirty \subseteq dirty' \cup left', left \subseteq left',
         lost \subseteq lost'
  PROVE  /\ Accounted(o) => Accounted(o)'
         /\ Reported(o) \/ Excused(o) => (Reported(o) \/ Excused(o))'
         /\ Exists(o)' = Exists(o)
         /\ cursor' = cursor => Passed(o, cursor)' = Passed(o, cursor)
         /\ pageCursor' = pageCursor
              => Passed(o, pageCursor)' = Passed(o, pageCursor)
BY DEF Accounted, Reported, Excused, Exists, Passed

(* The steps of the writers and of the rest of the world but for edits     *)
LEMMA FoldQuietStep ==
  ASSUME FoldInv, UNCHANGED <<orders, foldVars, pc, until, pageCursor, page,
                              dirty, complete>>,
         lost \subseteq lost'
  PROVE  FoldInv'
<1>1. \A o \in Orders :
        /\ Accounted(o) => Accounted(o)'
        /\ Reported(o) \/ Excused(o) => (Reported(o) \/ Excused(o))'
        /\ Exists(o)' = Exists(o)
        /\ Passed(o, cursor)' = Passed(o, cursor)
        /\ Passed(o, pageCursor)' = Passed(o, pageCursor)
        /\ InPage(o)' = InPage(o)
  BY AccountsKept DEF foldVars, InPage
<1> QED
  BY <1>1
     DEF FoldInv, CursorAccounted, PageReported, CompletePasses,
         ClaimsReported, foldVars

(* Folding the day of a passed order reports it.                           *)
LEMMA FoldReports ==
  ASSUME ScanInv, NEW d \in Days, FoldDay(d), NEW o \in Orders,
         Passed(o, cursor), orders[o].day = d, o \notin lost
  PROVE  Reported(o)'
<1>1. facts[o].version >= orders[o].version
  BY DEF ScanInv, CursorBehindFacts, Passed, Exists
<1>2. facts[o].version = orders[o].version /\ facts[o].day = d
  <2>1. facts[o].version \in Nat /\ orders[o].version \in Nat
    BY DEF ScanInv, WriterInv, Typed, OrderType
  <2>2. Real(o, facts[o].version, facts[o].day)
    BY DEF ScanInv, WriterInv, VersionsReal
  <2> QED
    BY <1>1, <2>1, <2>2 DEF Real
<1>3. <<o, orders[o].version>> \in FactsOf(d)
  BY <1>2 DEF FactsOf, Passed, Exists
<1>4. partition'[d] = FactsOf(d) /\ orders' = orders
  BY DEF FoldDay, ScanInv, WriterInv, Typed, orderVars
<1> QED
  BY <1>3, <1>4 DEF Reported

LEMMA FoldDayStep ==
  ASSUME JobInv, NEW d \in Days, FoldDay(d) PROVE FoldInv'
<1> USE DEF JobInv, FoldInv
<1>1. /\ UNCHANGED <<orderVars, factVars, cursor, claimed, pc, until, page,
                     complete>>
      /\ pc = "fold"
      /\ dirty' = dirty \ {d} /\ left' = left \ {d}
      /\ \A e \in Days \ {d} : partition'[e] = partition[e]
  BY DEF FoldDay, ScanInv, WriterInv, Typed
<1>2. ASSUME NEW o \in Orders, Passed(o, cursor)
      PROVE  /\ Reported(o) \/ Excused(o) => (Reported(o) \/ Excused(o))'
             /\ Accounted(o) => Accounted(o)'
  <2>1. CASE orders[o].day = d /\ o \notin lost
    BY <1>2, <2>1, FoldReports DEF Accounted
  <2>2. CASE o \in lost
    BY <1>1, <2>2 DEF Accounted, Excused, factVars
  <2>3. CASE orders[o].day # d
    <3>1. partition'[orders[o].day] = partition[orders[o].day]
      <4>1. CASE orders[o].day \in Days
        BY <1>1, <2>3, <4>1
      <4>2. CASE orders[o].day \notin Days
        <5>1. /\ partition' = [partition EXCEPT ![d] = FactsOf(d)]
              /\ DOMAIN partition = Days
          BY DEF FoldDay, ScanInv, WriterInv, Typed
        <5> QED
          BY <2>3, <5>1
      <4> QED
        BY <4>1, <4>2
    <3> QED
      BY <1>1, <2>3, <3>1 DEF Accounted, Reported, Excused, orderVars, factVars
  <2> QED
    BY <2>1, <2>2, <2>3
<1>3. \A o \in Orders : Passed(o, cursor)' = Passed(o, cursor)
  BY <1>1 DEF Passed, Exists, orderVars
<1>4. CursorAccounted'
  BY <1>2, <1>3 DEF CursorAccounted
<1>5. ClaimsReported'
  BY <1>1, <1>2, <1>3 DEF ClaimsReported, Exists, orderVars
<1>6. PageReported' /\ CompletePasses'
  BY <1>1, <1>3 DEF PageReported, CompletePasses, Exists, orderVars
<1> QED
  BY <1>4, <1>5, <1>6

LEMMA FoldScanPageStep == ASSUME JobInv, ScanPage PROVE FoldInv'
<1> USE DEF JobInv, FoldInv
<1>0. PICK P \in SUBSET Matching :
        \E last \in P :
          /\ IsPage(P, last)
          /\ page' = {[id |-> o, state |-> shown[o]] : o \in P}
          /\ pageCursor' = PositionOf(last, shown[last])
          /\ complete' = (Cardinality(P) < PageSize)
  BY DEF ScanPage
<1>1. PICK last \in P :
        /\ IsPage(P, last)
        /\ page' = {[id |-> o, state |-> shown[o]] : o \in P}
        /\ pageCursor' = PositionOf(last, shown[last])
        /\ complete' = (Cardinality(P) < PageSize)
  BY <1>0
<1>2. /\ pc = "scan" /\ pc' = "page" /\ pageCursor = cursor
      /\ UNCHANGED <<orderVars, factVars, foldVars, until, dirty>>
  BY DEF ScanPage, ScanInv, CursorKept
<1>3. /\ P \subseteq Orders /\ last \in Orders /\ shown[last].mod < until
      /\ Before(pageCursor, PositionOf(last, shown[last]))
  BY DEF Matching, Resumes
<1>4. pageCursor' \in [mod : Int, id : Nat] /\ ~Before(pageCursor', pageCursor)
  BY <1>1, <1>3, OrdersAssumption
     DEF ScanInv, WriterInv, Typed, OrderType, Before, PositionOf
<1>5. ASSUME NEW o \in Orders, Exists(o), orders[o].mod < until,
             \/ Passed(o, pageCursor)'
             \/ P = Matching
      PROVE  Passed(o, cursor) \/ (o \in P /\ shown[o] = orders[o])
  <2>1. \/ ~Before(PositionOf(last, shown[last]), PositionOf(o, orders[o]))
        \/ P = Matching
    BY <1>1, <1>2, <1>5 DEF Passed, PositionOf, orderVars
  <2> QED
    BY <1>1, <1>2, <1>5, <2>1, PagesMissNothing
<1>6. \A o \in Orders :
        /\ Accounted(o) => Accounted(o)'
        /\ Reported(o) \/ Excused(o) => (Reported(o) \/ Excused(o))'
        /\ Exists(o)' = Exists(o)
        /\ Passed(o, cursor)' = Passed(o, cursor)
  BY <1>2, AccountsKept DEF orderVars, factVars, foldVars
<1>7. PageReported'
  <2>1. ASSUME NEW o \in Orders, Passed(o, pageCursor)'
        PROVE  (Accounted(o) \/ InPage(o))'
    <3>1. Exists(o)
      BY <1>2, <2>1 DEF Passed, Exists, orderVars
    <3>2. orders[o].mod < until
      BY <1>1, <1>2, <1>3, <2>1
         DEF ScanInv, WriterInv, Typed, Passed, Before, PositionOf, OrderType,
             orderVars
    <3>3. CASE Passed(o, cursor)
      BY <1>6, <3>3 DEF CursorAccounted
    <3>4. CASE o \in P /\ shown[o] = orders[o]
      <4>1. [id |-> o, state |-> shown[o]] \in page'
        BY <1>1, <3>4
      <4> QED
        BY <1>2, <3>4, <4>1 DEF InPage, orderVars
    <3> QED
      BY <1>5, <2>1, <3>1, <3>2, <3>3, <3>4
  <2> QED
    BY <1>2, <1>4, <2>1 DEF PageReported, foldVars
<1>8. CompletePasses'
  <2> SUFFICES ASSUME NEW o \in Orders, Exists(o), orders[o].mod < until,
                      P = Matching
               PROVE  Passed(o, pageCursor)'
    BY <1>1, <1>2, <1>6 DEF CompletePasses, IsPage, orderVars
  <2>1. Passed(o, cursor) \/ (o \in P /\ shown[o] = orders[o])
    BY <1>5
  <2>2. CASE Passed(o, cursor)
    <3>1. Passed(o, pageCursor')
      BY <1>2, <1>4, <2>2, PassedLater, OrdersAssumption
         DEF ScanInv, WriterInv, Typed
    <3> QED
      BY <1>2, <3>1 DEF Passed, Exists, orderVars
  <2>3. CASE o \in P /\ shown[o] = orders[o]
    <3>1. o = last \/ Before(PositionOf(o, shown[o]),
                             PositionOf(last, shown[last]))
      BY <1>1, <2>3 DEF IsPage
    <3> QED
      BY <1>1, <1>2, <1>3, <2>3, <3>1, OrdersAssumption
         DEF Passed, Exists, Before, PositionOf, orderVars, ScanInv,
             WriterInv, Typed, OrderType
  <2> QED
    BY <2>1, <2>2, <2>3
<1> QED
  BY <1>2, <1>6, <1>7, <1>8 DEF CursorAccounted, ClaimsReported, foldVars,
     orderVars

LEMMA FoldScanEndStep == ASSUME JobInv, ScanEnd PROVE FoldInv'
<1> USE DEF JobInv, FoldInv
<1>1. /\ pc = "scan" /\ pc' = "fold" /\ pageCursor = cursor
      /\ UNCHANGED <<orderVars, factVars, foldVars, until, page, dirty>>
  BY DEF ScanEnd, ScanInv, CursorKept
<1>2. CompletePasses'
  <2> SUFFICES ASSUME NEW o \in Orders, Exists(o), orders[o].mod < until
               PROVE  Passed(o, cursor)
    BY <1>1 DEF CompletePasses, Passed, Exists, orderVars, foldVars
  <2> QED
    BY <1>1, AheadIsMatching DEF ScanEnd
<1> QED
  BY <1>1, <1>2
     DEF CursorAccounted, PageReported, ClaimsReported, Accounted, Reported,
         Excused, Passed, Exists, orderVars, factVars, foldVars

(* One order of the page is done with, stale or put: its day is dirty.     *)
LEMMA FoldPageStep ==
  ASSUME JobInv, pc = "page", NEW s \in page, page' = page \ {s},
         dirty' = Dirtied(s), lost \subseteq lost',
         UNCHANGED <<orderVars, foldVars, pc, until, pageCursor, complete>>
  PROVE  FoldInv'
<1> USE DEF JobInv, FoldInv
<1>1. dirty' = dirty \cup {s.state.day}
  BY DEF Dirtied
<1>2. \A o \in Orders :
        /\ Accounted(o) => Accounted(o)'
        /\ Reported(o) \/ Excused(o) => (Reported(o) \/ Excused(o))'
        /\ Exists(o)' = Exists(o)
        /\ Passed(o, cursor)' = Passed(o, cursor)
        /\ Passed(o, pageCursor)' = Passed(o, pageCursor)
  BY <1>1, AccountsKept DEF orderVars, foldVars
<1>3. PageReported'
  <2>1. ASSUME NEW o \in Orders, Passed(o, pageCursor)
        PROVE  (Accounted(o) \/ InPage(o))'
    <3>1. CASE Accounted(o)
      BY <1>2, <3>1
    <3>2. CASE InPage(o)
      <4>1. PICK t \in page : t.id = o /\ t.state = orders[o]
        BY <3>2 DEF InPage
      <4>2. CASE t = s
        BY <1>1, <4>1, <4>2 DEF Accounted, orderVars
      <4>3. CASE t # s
        BY <4>1, <4>3 DEF InPage, orderVars
      <4> QED
        BY <4>2, <4>3
    <3> QED
      BY <2>1, <3>1, <3>2 DEF PageReported
  <2> QED
    BY <1>2, <2>1 DEF PageReported, foldVars
<1> QED
  BY <1>2, <1>3
     DEF CursorAccounted, CompletePasses, ClaimsReported, orderVars, foldVars

LEMMA FoldSaveCursorStep == ASSUME JobInv, SaveCursor PROVE FoldInv'
<1> USE DEF JobInv, FoldInv
<1>1. /\ pc = "page" /\ page = {}
      /\ cursor' = pageCursor
      /\ pc' = IF complete THEN "fold" ELSE "scan"
      /\ UNCHANGED <<orderVars, factVars, partition, claimed, left, until,
                     pageCursor, page, dirty, complete>>
  BY DEF SaveCursor
<1>2. \A o \in Orders :
        /\ Accounted(o) => Accounted(o)'
        /\ Reported(o) \/ Excused(o) => (Reported(o) \/ Excused(o))'
        /\ Exists(o)' = Exists(o)
  BY <1>1, AccountsKept DEF orderVars, factVars
<1>3. \A o \in Orders : Passed(o, cursor)' = Passed(o, pageCursor)
  BY <1>1 DEF Passed, Exists, orderVars
<1>4. CursorAccounted'
  BY <1>1, <1>2, <1>3 DEF PageReported, InPage, CursorAccounted
<1>5. CompletePasses'
  BY <1>1, <1>2, <1>3 DEF CompletePasses, orderVars
<1>6. ClaimsReported'
  <2>1. ASSUME NEW o \in Orders, Passed(o, cursor) PROVE Passed(o, pageCursor)
    BY <1>1, <2>1, PassedLater, OrdersAssumption
       DEF PageReported, ScanInv, WriterInv, Typed
  <2> QED
    BY <1>1, <1>2, <1>3, <2>1 DEF ClaimsReported, orderVars
<1> QED
  BY <1>1, <1>4, <1>5, <1>6 DEF PageReported

(* A run that ends, at its own end or before, leaves its dirty days.       *)
LEMMA FoldEndStep ==
  ASSUME JobInv, EndRun, UNCHANGED <<orderVars, lost, cursor, partition>>,
         \/ claimed' = claimed
         \/ claimed' = until /\ pc = "fold" /\ complete
  PROVE  FoldInv'
<1> USE DEF JobInv, FoldInv
<1>1. /\ pc' = "idle" /\ dirty' = {} /\ complete' = FALSE
      /\ left' = left \cup dirty
  BY DEF EndRun
<1>2. \A o \in Orders :
        /\ Accounted(o) => (Reported(o) \/ Excused(o))'
        /\ Reported(o) \/ Excused(o) => (Reported(o) \/ Excused(o))'
        /\ Exists(o)' = Exists(o)
        /\ Passed(o, cursor)' = Passed(o, cursor)
  BY <1>1 DEF Accounted, Reported, Excused, Exists, Passed, orderVars
<1>3. CursorAccounted'
  BY <1>2 DEF CursorAccounted, Accounted
<1>4. ClaimsReported'
  <2>1. CASE claimed' = claimed
    BY <1>2, <2>1 DEF ClaimsReported, orderVars
  <2>2. CASE claimed' = until /\ pc = "fold" /\ complete
    BY <1>2, <2>2 DEF ClaimsReported, CompletePasses, CursorAccounted, orderVars
  <2> QED
    BY <2>1, <2>2
<1> QED
  BY <1>1, <1>3, <1>4 DEF PageReported, CompletePasses

LEMMA FoldEditStep ==
  ASSUME JobInv, NEW o \in Orders, NEW d \in Days, Edit(o, d) PROVE FoldInv'
<1> USE DEF JobInv, FoldInv
<1>1. /\ orders'[o].mod = clock
      /\ \A p \in Orders \ {o} : orders'[p] = orders[p]
      /\ lost' = lost \ {o}
      /\ UNCHANGED <<clock, shown, facts, foldVars, runVars>>
  BY DEF Edit, ScanInv, WriterInv, Typed
<1>2. ~Passed(o, cursor)' /\ ~Passed(o, pageCursor)'
  BY EditsAreAhead
<1>3. \A p \in Orders \ {o} :
        /\ Passed(p, cursor)' = Passed(p, cursor)
        /\ Passed(p, pageCursor)' = Passed(p, pageCursor)
        /\ Accounted(p)' = Accounted(p)
        /\ (Reported(p) \/ Excused(p))' = (Reported(p) \/ Excused(p))
        /\ InPage(p)' = InPage(p)
        /\ Exists(p)' = Exists(p)
  BY <1>1
     DEF Passed, Exists, Accounted, Reported, Excused, InPage, foldVars,
         runVars
<1>4. CursorAccounted' /\ PageReported'
  BY <1>1, <1>2, <1>3
     DEF CursorAccounted, PageReported, foldVars, runVars
<1>5. ~(orders'[o].mod < until) /\ ~(orders'[o].mod < claimed)
  BY <1>1, LagAssumption DEF ScanInv, WriterInv, Typed, Behind
<1>6. CompletePasses' /\ ClaimsReported'
  BY <1>1, <1>3, <1>5
     DEF CompletePasses, ClaimsReported, foldVars, runVars
<1> QED
  BY <1>4, <1>6

LEMMA FoldStep == JobInv /\ [Next]_vars => FoldInv'
<1> SUFFICES ASSUME JobInv, [Next]_vars PROVE FoldInv'
  OBVIOUS
<1> USE DEF JobInv
<1>1. CASE \E o \in Orders, d \in Days : Edit(o, d)
  BY <1>1, FoldEditStep
<1>2. ASSUME NEW w \in Deliveries, DeliveryStep(w) PROVE FoldInv'
  <2>1. UNCHANGED <<orderVars, foldVars, runVars>> /\ lost \subseteq lost'
    BY <1>2 DEF DeliveryStep, Fetch, Compare, Deliver, FailDelivery, Put
  <2> QED
    BY <2>1, FoldQuietStep DEF orderVars, runVars
<1>3. CASE Tick \/ (\E o \in Orders : Settle(o)) \/ UNCHANGED vars
  BY <1>3, FoldQuietStep
     DEF Tick, Settle, vars, orderVars, factVars, foldVars, runVars
<1>4. CASE StartRun
  <2>1. /\ pc = "idle" /\ pc' = "scan"
        /\ UNCHANGED <<orderVars, factVars, foldVars, dirty, complete>>
    BY <1>4 DEF StartRun
  <2> QED
    BY <2>1
       DEF FoldInv, CursorAccounted, PageReported, CompletePasses,
           ClaimsReported, Accounted, Reported, Excused, Passed, Exists,
           orderVars, factVars, foldVars
<1>5. CASE ScanPage
  BY <1>5, FoldScanPageStep
<1>6. CASE ScanEnd
  BY <1>6, FoldScanEndStep
<1>7. CASE ScanStop
  <2>1. /\ pc = "scan" /\ pc' = "fold"
        /\ UNCHANGED <<orderVars, factVars, foldVars, dirty, complete>>
    BY <1>7 DEF ScanStop
  <2> QED
    BY <2>1
       DEF FoldInv, CursorAccounted, PageReported, CompletePasses,
           ClaimsReported, Accounted, Reported, Excused, Passed, Exists,
           orderVars, factVars, foldVars
<1>8. CASE SkipStale
  <2>1. PICK s \in page : dirty' = Dirtied(s) /\ page' = page \ {s}
    BY <1>8 DEF SkipStale
  <2> QED
    BY <1>8, <2>1, FoldPageStep DEF SkipStale, factVars
<1>9. CASE ReadFact
  BY <1>9, FoldQuietStep DEF ReadFact, orderVars, runVars
<1>10. CASE WriteFact
  <2>1. PICK s \in page : dirty' = Dirtied(s) /\ page' = page \ {s}
    BY <1>10 DEF WriteFact
  <2>2. lost \subseteq lost'
    BY <1>10 DEF WriteFact, Put
  <2> QED
    BY <1>10, <2>1, <2>2, FoldPageStep DEF WriteFact
<1>11. CASE SaveCursor
  BY <1>11, FoldSaveCursorStep
<1>12. CASE \E d \in Days : FoldDay(d)
  BY <1>12, FoldDayStep
<1>13. CASE FinishRun
  BY <1>13, FoldEndStep DEF FinishRun
<1>14. CASE Crash
  BY <1>14, FoldEndStep DEF Crash
<1>15. CASE Exhaust
  BY <1>15, FoldQuietStep DEF Exhaust, orderVars, factVars
<1> QED
  BY <1>1, <1>2, <1>3, <1>4, <1>5, <1>6, <1>7, <1>8, <1>9, <1>10, <1>11,
     <1>12, <1>13, <1>14, <1>15
     DEF Next, RunStep

(* The watermark's promise to readers holds, however edits, deliveries and *)
(* runs interleave and runs are cut short, but for the days left dirty and *)
(* the orders whose version lost a race.                                   *)
THEOREM WatermarkIsHonest == Spec => []WatermarkHonest
<1>1. Init => JobInv
  BY ScanInit, FoldInit DEF JobInv
<1>2. JobInv /\ [Next]_vars => JobInv'
  BY ScanStep, FoldStep DEF JobInv
<1>3. JobInv => WatermarkHonest
  BY DEF JobInv, FoldInv, ClaimsReported, WatermarkHonest, Reported, Excused,
         Exists
<1> QED
  BY <1>1, <1>2, <1>3, PTL DEF Spec

-----------------------------------------------------------------------------
(* A run only gets to the fold with its scan complete or its budget gone,  *)
(* and the budget does not come back.                                      *)
FoldIsLabelled == pc = "fold" => complete \/ exhausted

LEMMA LabelStep == FoldIsLabelled /\ [Next]_vars => FoldIsLabelled'
<1> SUFFICES ASSUME FoldIsLabelled, [Next]_vars PROVE FoldIsLabelled'
  OBVIOUS
<1> USE DEF FoldIsLabelled
<1>1. CASE EndRun
  BY <1>1 DEF EndRun
<1>2. CASE UNCHANGED <<pc, complete, exhausted>>
  BY <1>2
<1>3. CASE StartRun \/ ScanPage
  BY <1>3 DEF StartRun, ScanPage
<1>4. CASE ScanEnd \/ ScanStop \/ SaveCursor
  BY <1>4 DEF ScanEnd, ScanStop, SaveCursor
<1>5. CASE Exhaust
  BY <1>5 DEF Exhaust
<1> QED
  BY <1>1, <1>2, <1>3, <1>4, <1>5
     DEF Next, RunStep, DeliveryStep, Edit, Settle, Fetch, Compare, Deliver,
         FailDelivery, Tick, SkipStale, ReadFact, WriteFact, FoldDay,
         FinishRun, Crash, runVars, vars

(* No day is rebuilt by a run that did not scan to the end, and so without *)
(* the labels of new and returning customers.                              *)
THEOREM FoldsAreLabelled == Spec => FoldsFollowCompleteScans
<1>1. Init => FoldIsLabelled
  BY DEF Init, FoldIsLabelled
<1>2. FoldIsLabelled => [\A d \in Days : FoldDay(d) => complete]_vars
  BY DEF FoldIsLabelled, FoldDay, InBudget
<1> QED
  BY <1>1, <1>2, LabelStep, PTL DEF Spec, FoldsFollowCompleteScans
-----------------------------------------------------------------------------
(* Type correctness: every position and every fact is one that an order in *)
(* the bounds can have, and a run's locals are gone when it is over.       *)

LEMMA DaysOfTimes ==
  ASSUME NEW t \in 0..MaxClock PROVE DayOf(t) \in Days
<1>1. /\ DayOf(t) \in Nat /\ DayOf(MaxClock) \in Nat
      /\ DayLength * DayOf(t) <= t
      /\ MaxClock < DayLength * (DayOf(MaxClock) + 1)
  BY PageAssumption, BoundsAssumption DEF DayOf
<1>2. ASSUME NEW m \in Nat, NEW n \in Nat, NEW k \in Nat \ {0},
             m > n
      PROVE  k * (n + 1) <= k * m
  <2>1. PICK e \in Nat : m = n + 1 + e
    BY <1>2
  <2>2. k * m = k * (n + 1) + k * e /\ k * e >= 0
    BY <1>2, <2>1
  <2> QED
    BY <1>2, <2>2
<1>3. ~(DayOf(t) > DayOf(MaxClock))
  BY <1>1, <1>2, PageAssumption, BoundsAssumption
<1> QED
  BY <1>1, <1>3 DEF Days

(* No order has been edited more often than there were edits.              *)
EditsCounted == \A o \in Orders : orders[o].version <= edits

TypeInv == TypeOK /\ Lag <= clock /\ EditsCounted

LEMMA TypeInit == Init => TypeInv
<1> SUFFICES ASSUME Init PROVE TypeInv
  OBVIOUS
<1>1. 0 \in Days
  BY DaysOfTimes, BoundsAssumption DEF Days
<1>2. complete \in BOOLEAN /\ exhausted \in BOOLEAN
  BY Zenon DEF Init
<1>3. NoOrder \in OrderState /\ NoFact \in [version : 0..MaxEdits, day : Days]
  BY <1>1, BoundsAssumption DEF NoOrder, NoFact, OrderState
<1>4. NoCursor \in Position
  BY BoundsAssumption DEF NoCursor, Position
<1>5. EditsCounted
  BY BoundsAssumption DEF Init, EditsCounted, NoOrder
<1> QED
  BY <1>1, <1>2, <1>3, <1>4, <1>5, LagAssumption, BoundsAssumption
     DEF Init, TypeInv, TypeOK

Stored == [version : 0..MaxEdits, day : Days]

LEMMA WriteTyped ==
  ASSUME NEW o \in Orders, NEW s \in OrderState, NEW read \in Readings
  PROVE  WriteOf(o, s, read) \in Writing
BY DEF WriteOf, Writing, OrderState

LEMMA PutTyped ==
  ASSUME TypeOK, NEW w \in Writers, writes[w] # NoWrite, Put(w)
  PROVE  /\ facts' \in [Orders -> Stored]
         /\ writes' \in [Writers -> Writing \cup {NoWrite}]
         /\ lost' \subseteq Orders
<1>1. writes[w] \in Writing
  BY DEF TypeOK
<1>2. /\ writes[w].id \in Orders
      /\ writes[w].version \in 0..MaxEdits /\ writes[w].day \in Days
  BY <1>1 DEF Writing
<1>3. facts' \in [Orders -> Stored]
  <2>1. facts' = facts
        \/ facts' = [facts EXCEPT ![writes[w].id] =
                       [version |-> writes[w].version, day |-> writes[w].day]]
    BY DEF Put
  <2> QED
    BY <1>2, <2>1 DEF TypeOK, Stored
<1>4. lost' \subseteq Orders
  <2>1. lost' = lost \/ lost' = lost \cup {writes[w].id}
    BY DEF Put
  <2> QED
    BY <1>2, <2>1 DEF TypeOK
<1>5. ASSUME NEW v \in Writers
      PROVE  writes'[v] \in Writing \cup {NoWrite}
  <2>1. writes[v] \in Writing \cup {NoWrite}
    BY DEF TypeOK
  <2>2. \/ writes'[v] = NoWrite \/ writes'[v] = writes[v]
        \/ /\ writes[v].read = "current"
           /\ writes'[v] = [writes[v] EXCEPT !.read = "outdated"]
    BY DEF Put
  <2>3. CASE writes'[v] = NoWrite \/ writes'[v] = writes[v]
    BY <2>1, <2>3
  <2>4. CASE /\ writes[v].read = "current"
             /\ writes'[v] = [writes[v] EXCEPT !.read = "outdated"]
    <3>1. writes[v] \in Writing
      BY <2>1, <2>4 DEF NoWrite
    <3> QED
      BY <2>4, <3>1 DEF Writing, Readings
  <2> QED
    BY <2>2, <2>3, <2>4
<1>6. \E f : writes' = [v \in Writers |-> f[v]]
  <2>1. writes' = [v \in Writers |->
                    IF v = w THEN NoWrite
                    ELSE IF /\ Accepted(w)
                            /\ writes[v].id = writes[w].id
                            /\ writes[v].read = "current"
                      THEN [writes[v] EXCEPT !.read = "outdated"]
                    ELSE writes[v]]
    BY DEF Put
  <2>2. writes' = [v \in Writers |-> writes'[v]]
    BY <2>1
  <2> QED
    BY <2>2
<1> QED
  BY <1>3, <1>4, <1>5, <1>6

LEMMA TypeStep == TypeInv /\ [Next]_vars => TypeInv'
<1> SUFFICES ASSUME TypeInv, [Next]_vars PROVE TypeInv'
  OBVIOUS
<1> USE LagAssumption, BoundsAssumption DEF TypeInv
<1>0. Job \in Writers /\ Deliveries \subseteq Writers
  BY DEF Writers
<1>1. ASSUME NEW o \in Orders, NEW d \in Days, Edit(o, d) PROVE TypeInv'
  <2>1. orders[o].version + 1 <= edits + 1 /\ edits' \in 0..MaxEdits
    BY <1>1 DEF Edit, TypeOK, OrderState, EditsCounted
  <2>2. [version |-> orders[o].version + 1, mod |-> clock, day |-> d]
          \in OrderState
    BY <1>1, <2>1 DEF Edit, TypeOK, OrderState
  <2>3. orders' \in [Orders -> OrderState]
    BY <1>1, <2>2 DEF Edit, TypeOK
  <2>4. EditsCounted'
    <3> SUFFICES ASSUME NEW p \in Orders PROVE orders'[p].version <= edits'
      BY DEF EditsCounted
    <3>1. orders[p].version <= edits /\ orders[p].version \in Nat /\ edits \in Nat
      BY DEF EditsCounted, TypeOK, OrderState
    <3>2. CASE p = o
      BY <1>1, <2>1, <3>2 DEF Edit, TypeOK
    <3>3. CASE p # o
      BY <1>1, <3>1, <3>3 DEF Edit, TypeOK
    <3> QED
      BY <3>2, <3>3
  <2> QED
    BY <1>1, <2>1, <2>3, <2>4 DEF Edit, TypeOK, foldVars, runVars
<1>2. ASSUME NEW o \in Orders, Settle(o) PROVE TypeInv'
  <2>1. shown' \in [Orders -> OrderState]
    BY <1>2 DEF Settle, TypeOK
  <2> QED
    BY <1>2, <2>1
       DEF Settle, TypeOK, EditsCounted, factVars, foldVars, runVars
<1>3. ASSUME NEW o \in Orders PROVE ReadingOf(o) \in Readings
  BY DEF ReadingOf, Readings
<1>4. ASSUME NEW w \in Deliveries, DeliveryStep(w) PROVE TypeInv'
  <2>1. CASE \E o \in Orders : Fetch(w, o)
    <3>1. PICK o \in Orders : Fetch(w, o)
      BY <2>1
    <3>2. WriteOf(o, orders[o], "fetched") \in Writing
      BY WriteTyped DEF TypeOK, Readings
    <3>3. writes' \in [Writers -> Writing \cup {NoWrite}]
      BY <3>1, <3>2 DEF Fetch, TypeOK
    <3> QED
      BY <3>1, <3>3
         DEF Fetch, TypeOK, EditsCounted, orderVars, foldVars, runVars
  <2>2. CASE Compare(w)
    <3>1. writes[w] \in Writing
      BY <1>0, <2>2 DEF Compare, TypeOK, NoWrite
    <3>2. [writes[w] EXCEPT !.read = ReadingOf(writes[w].id)] \in Writing
      BY <1>3, <3>1 DEF Writing
    <3>3. \/ writes' = [writes EXCEPT ![w] =
                          [@ EXCEPT !.read = ReadingOf(writes[w].id)]]
          \/ writes' = [writes EXCEPT ![w] = NoWrite]
      BY <2>2 DEF Compare
    <3>4. writes' \in [Writers -> Writing \cup {NoWrite}]
      BY <3>2, <3>3 DEF TypeOK
    <3> QED
      BY <2>2, <3>4
         DEF Compare, TypeOK, EditsCounted, orderVars, foldVars, runVars
  <2>3. CASE Deliver(w)
    <3>1. writes[w] # NoWrite
      BY <2>3, NoWriteIsNone DEF Deliver
    <3>2. /\ facts' \in [Orders -> Stored]
          /\ writes' \in [Writers -> Writing \cup {NoWrite}]
          /\ lost' \subseteq Orders
      BY <1>0, <2>3, <3>1, PutTyped DEF Deliver
    <3> QED
      BY <2>3, <3>2
         DEF Deliver, TypeOK, EditsCounted, Stored, orderVars, foldVars,
             runVars
  <2>4. CASE FailDelivery(w)
    <3>1. writes' \in [Writers -> Writing \cup {NoWrite}]
      BY <2>4 DEF FailDelivery, TypeOK
    <3> QED
      BY <2>4, <3>1
         DEF FailDelivery, TypeOK, EditsCounted, orderVars, foldVars, runVars
  <2> QED
    BY <1>4, <2>1, <2>2, <2>3, <2>4 DEF DeliveryStep
<1>5. CASE Tick
  BY <1>5 DEF Tick, TypeOK, EditsCounted, factVars, foldVars, runVars
<1>6. CASE StartRun
  BY <1>6
     DEF StartRun, SafeUpperBound, TypeOK, EditsCounted, orderVars, factVars,
         foldVars
<1>7. CASE ScanPage
  <2>0. PICK P \in SUBSET Matching : \E last \in P :
          /\ page' = {[id |-> o, state |-> shown[o]] : o \in P}
          /\ pageCursor' = PositionOf(last, shown[last])
          /\ complete' = (Cardinality(P) < PageSize)
    BY <1>7 DEF ScanPage
  <2>1. PICK last \in P :
          /\ page' = {[id |-> o, state |-> shown[o]] : o \in P}
          /\ pageCursor' = PositionOf(last, shown[last])
          /\ complete' = (Cardinality(P) < PageSize)
    BY <2>0
  <2>2. P \subseteq Orders /\ last \in Orders
    BY DEF Matching
  <2>3. page' \subseteq Scanned
    BY <2>1, <2>2 DEF Scanned, TypeOK
  <2>4. pageCursor' \in Position
    BY <2>1, <2>2 DEF PositionOf, Position, TypeOK, OrderState
  <2>5. complete' \in BOOLEAN
    <3> DEFINE short == Cardinality(P) < PageSize
    <3>1. short \in BOOLEAN
      OBVIOUS
    <3>2. complete' = short
      BY <2>1
    <3> HIDE DEF short
    <3> QED
      BY <3>1, <3>2, Zenon
  <2> QED
    BY <1>7, <2>3, <2>4, <2>5
       DEF ScanPage, TypeOK, EditsCounted, orderVars, factVars, foldVars
<1>8. CASE ScanEnd \/ ScanStop
  BY <1>8
     DEF ScanEnd, ScanStop, TypeOK, EditsCounted, orderVars, factVars, foldVars
<1>9. ASSUME NEW s \in page, dirty' = Dirtied(s), page' = page \ {s}
      PROVE  dirty' \subseteq Days /\ page' \subseteq Scanned
  BY <1>9 DEF Dirtied, TypeOK, Scanned, OrderState
<1>10. CASE SkipStale
  <2>1. dirty' \subseteq Days /\ page' \subseteq Scanned
    BY <1>9, <1>10 DEF SkipStale
  <2> QED
    BY <1>10, <2>1
       DEF SkipStale, TypeOK, EditsCounted, orderVars, factVars, foldVars
<1>11. CASE ReadFact
  <2>1. PICK s \in page :
          writes' = [writes EXCEPT ![Job] =
                       WriteOf(s.id, s.state, ReadingOf(s.id))]
    BY <1>11 DEF ReadFact
  <2>2. s.id \in Orders /\ s.state \in OrderState
    BY DEF TypeOK, Scanned
  <2>3. writes' \in [Writers -> Writing \cup {NoWrite}]
    BY <1>3, <2>1, <2>2, WriteTyped DEF TypeOK
  <2> QED
    BY <1>11, <2>3
       DEF ReadFact, TypeOK, EditsCounted, orderVars, foldVars, runVars
<1>12. CASE WriteFact
  <2>1. dirty' \subseteq Days /\ page' \subseteq Scanned
    BY <1>9, <1>12 DEF WriteFact
  <2>2. /\ facts' \in [Orders -> Stored]
        /\ writes' \in [Writers -> Writing \cup {NoWrite}]
        /\ lost' \subseteq Orders
    BY <1>0, <1>12, PutTyped DEF WriteFact
  <2> QED
    BY <1>12, <2>1, <2>2
       DEF WriteFact, TypeOK, EditsCounted, Stored, orderVars, foldVars
<1>13. CASE SaveCursor
  BY <1>13 DEF SaveCursor, TypeOK, EditsCounted, orderVars, factVars
<1>14. ASSUME NEW d \in Days, FoldDay(d) PROVE TypeInv'
  <2>1. FactsOf(d) \in SUBSET (Orders \X (1..MaxEdits))
    BY DEF FactsOf, TypeOK
  <2>2. partition' \in [Days -> SUBSET (Orders \X (1..MaxEdits))]
    BY <1>14, <2>1 DEF FoldDay, TypeOK
  <2>3. left' \subseteq Days /\ dirty' \subseteq Days
    BY <1>14 DEF FoldDay, TypeOK
  <2> QED
    BY <1>14, <2>2, <2>3
       DEF FoldDay, TypeOK, EditsCounted, orderVars, factVars
<1>15. NoCursor \in Position
  BY DEF NoCursor, Position
<1>16. ASSUME EndRun
       PROVE  /\ pc' = "idle" /\ until' = 0 /\ pageCursor' = NoCursor
              /\ page' = {} /\ dirty' = {}
              /\ complete' \in BOOLEAN /\ exhausted' \in BOOLEAN
              /\ writes' \in [Writers -> Writing \cup {NoWrite}]
              /\ left' \subseteq Days
  <2>1. complete' \in BOOLEAN /\ exhausted' \in BOOLEAN
    BY <1>16, Zenon DEF EndRun
  <2>2. /\ writes' = [writes EXCEPT ![Job] = NoWrite]
        /\ left' = left \cup dirty
        /\ pc' = "idle" /\ until' = 0 /\ pageCursor' = NoCursor
        /\ page' = {} /\ dirty' = {}
    BY <1>16 DEF EndRun
  <2> QED
    BY <2>1, <2>2 DEF TypeOK
<1>17. CASE FinishRun
  <2>1. DayOf(until) \in Days
    BY DaysOfTimes DEF TypeOK
  <2>2. watermark' \in Days /\ claimed' \in 0..MaxClock
    BY <1>17, <2>1 DEF FinishRun, TypeOK
  <2> QED
    BY <1>15, <1>16, <1>17, <2>2
       DEF FinishRun, TypeOK, EditsCounted, orderVars
<1>18. CASE Exhaust
  BY <1>18
     DEF Exhaust, TypeOK, EditsCounted, orderVars, factVars, foldVars
<1>19. CASE Crash
  BY <1>15, <1>16, <1>19 DEF Crash, TypeOK, EditsCounted, orderVars
<1>20. CASE UNCHANGED vars
  BY <1>20
     DEF TypeOK, EditsCounted, vars, orderVars, factVars, foldVars, runVars
<1> QED
  BY <1>1, <1>2, <1>4, <1>5, <1>6, <1>7, <1>8, <1>10, <1>11, <1>12, <1>13,
     <1>14, <1>17, <1>18, <1>19, <1>20
     DEF Next, RunStep

(* Every time, position and day of the job is one of its bounds.           *)
THEOREM TypeCorrect == Spec => []TypeOK
<1>1. TypeInv => TypeOK
  BY DEF TypeInv
<1> QED
  BY <1>1, TypeInit, TypeStep, PTL DEF Spec
=============================================================================
