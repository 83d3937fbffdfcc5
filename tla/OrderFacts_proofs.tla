-------------------------- MODULE OrderFacts_proofs --------------------------
(***************************************************************************)
(* Proofs about OrderFacts for any number of orders, days, months,         *)
(* deliveries and edits.                                                   *)
(***************************************************************************)
EXTENDS OrderFacts, TLAPS

(* The fact computed from an existing order is that order's last version.  *)
LEMMA FactOfLatest ==
  ASSUME TypeOK, NEW o \in Orders, history[o] # <<>>
  PROVE  FactOf(o) \in Fact /\ IsVersionOf(FactOf(o), o)
<1>1. history[o] \in Seq(Days) /\ Len(history[o]) \in Nat \ {0}
  BY DEF TypeOK
<1>2. Len(history[o]) \in 1..Len(history[o])
  BY <1>1
<1>3. history[o][Len(history[o])] \in Days
  BY <1>1, <1>2
<1> QED
  BY <1>1, <1>2, <1>3 DEF FactOf, Fact, IsVersionOf

(* A busy writer addresses a cell of the store.                            *)
LEMMA CellTyped ==
  ASSUME TypeOK, NEW w \in Writers, pc[w] # "idle"
  PROVE  /\ target[w] \in Orders
         /\ fact[w] \in Fact
         /\ MonthFor(w) \in Months
         /\ Cell(w) = facts[MonthFor(w)][target[w]]
         /\ Cell(w) \in Object(Fact)
<1>1. target[w] \in Orders /\ fact[w] \in Fact
  BY DEF TypeOK
<1>2. MonthFor(w) \in Months
  BY <1>1, MonthOfAssumption DEF MonthFor, Fact
<1> QED
  BY <1>1, <1>2 DEF TypeOK, Cell

(* What a put leaves behind is a present object of the value put.          *)
LEMMA AfterPutTyped ==
  ASSUME NEW obj \in Object(Fact), NEW f \in Fact
  PROVE  /\ AfterPut(obj, f) \in Object(Fact)
         /\ Present(AfterPut(obj, f))
         /\ AfterPut(obj, f).value = f
         /\ AfterPut(obj, f).version > obj.version
BY DEF AfterPut, Object, Absent, Present

LEMMA TypeStep == TypeOK /\ [Next]_vars => TypeOK'
<1> SUFFICES ASSUME TypeOK, [Next]_vars PROVE TypeOK'
  OBVIOUS
<1>1. ASSUME NEW o \in Orders, NEW d \in Days, Edit(o, d) PROVE TypeOK'
  BY <1>1 DEF TypeOK, Edit
<1>2. ASSUME NEW w \in Writers, Finish(w), UNCHANGED facts PROVE TypeOK'
  BY <1>2 DEF TypeOK, Finish, Unversioned
<1>3. ASSUME NEW w \in Writers, NEW o \in Orders, Fetch(w, o) PROVE TypeOK'
  BY <1>3, FactOfLatest DEF TypeOK, Fetch
<1>4. ASSUME NEW w \in Writers, Read(w) PROVE TypeOK'
  <2>1. Cell(w).version \in Nat
    BY <1>4, CellTyped DEF Read, Object, Absent
  <2> QED
    BY <1>4, <2>1 DEF TypeOK, Read
<1>5. ASSUME NEW w \in Writers, Write(w) PROVE TypeOK'
  <2>1. pc[w] # "idle"
    BY <1>5 DEF Write
  <2>2. AfterPut(Cell(w), fact[w]) \in Object(Fact)
    BY <2>1, CellTyped, AfterPutTyped
  <2>3. facts' \in [Months -> [Orders -> Object(Fact)]]
    BY <1>5, <2>1, <2>2, CellTyped DEF TypeOK, Write
  <2> QED
    BY <1>5, <2>3 DEF TypeOK, Write, Finish, Unversioned
<1>6. ASSUME NEW m \in Months, NEW o \in Orders, PurgeList(m, o) PROVE TypeOK'
  <2>1. facts[m][o].version \in Nat
    BY DEF TypeOK, Object, Absent
  <2> QED
    BY <1>6, <2>1 DEF TypeOK, PurgeList
<1>7. ASSUME NEW m \in Months, NEW o \in Orders, PurgeDelete(m, o) PROVE TypeOK'
  <2>1. CASE /\ facts' = [facts EXCEPT ![m][o] = Absent]
             /\ purged' = purged \cup {<<m, o>>}
    <3>1. facts' \in [Months -> [Orders -> Object(Fact)]]
      BY <2>1 DEF TypeOK, Object
    <3>2. purged' \subseteq Months \X Orders
      BY <2>1 DEF TypeOK
    <3> QED
      BY <1>7, <3>1, <3>2 DEF TypeOK, PurgeDelete
  <2>2. CASE UNCHANGED <<facts, purged>>
    BY <1>7, <2>2 DEF TypeOK, PurgeDelete
  <2> QED
    BY <1>7, <2>1, <2>2 DEF PurgeDelete
<1>8. CASE UNCHANGED vars
  BY <1>8 DEF TypeOK, vars
<1> QED
  BY <1>1, <1>2, <1>3, <1>4, <1>5, <1>6, <1>7, <1>8
     DEF Next, WriterStep, IgnoreStale, Drop, Fail

(* Every reachable state is well typed: containers, objects, and what each *)
(* busy writer carries between its awaits.                                 *)
THEOREM TypeCorrect == Spec => []TypeOK
<1>1. Init => TypeOK
  BY DEF Init, TypeOK, Object, Unversioned
<1> QED
  BY <1>1, TypeStep, PTL DEF Spec

-----------------------------------------------------------------------------
(* FactMatchesOrder is not inductive: the fact a writer carries must be a  *)
(* version of its order too, or its write could store anything.            *)
CarriedMatchesOrder ==
  \A w \in Writers : pc[w] # "idle" => IsVersionOf(fact[w], target[w])

ProvenanceInv == TypeOK /\ FactMatchesOrder /\ CarriedMatchesOrder

(* Editing an order appends a version and leaves its earlier ones alone.   *)
LEMMA EditKeepsVersions ==
  ASSUME TypeOK, NEW o \in Orders, NEW d \in Days, Edit(o, d),
         NEW f \in Fact, NEW p \in Orders, IsVersionOf(f, p)
  PROVE  IsVersionOf(f, p)'
<1>1. CASE p = o
  <2>1. history[o] \in Seq(Days) /\ history'[o] = Append(history[o], d)
    BY DEF TypeOK, Edit
  <2>2. /\ Len(history'[o]) = Len(history[o]) + 1
        /\ Len(history[o]) \in Nat
        /\ \A i \in 1..Len(history[o]) : history'[o][i] = history[o][i]
    BY <2>1
  <2>3. f.orderVersion \in 1..Len(history[o])
    BY <1>1 DEF IsVersionOf
  <2> QED
    BY <1>1, <2>2, <2>3 DEF IsVersionOf
<1>2. CASE p # o
  BY <1>2 DEF IsVersionOf, Edit, TypeOK
<1> QED
  BY <1>1, <1>2

LEMMA ProvenanceStep == ProvenanceInv /\ [Next]_vars => ProvenanceInv'
<1> SUFFICES ASSUME ProvenanceInv, [Next]_vars PROVE ProvenanceInv'
  OBVIOUS
<1>0. TypeOK /\ TypeOK'
  BY TypeStep DEF ProvenanceInv
<1>1. ASSUME NEW o \in Orders, NEW d \in Days, Edit(o, d)
      PROVE  ProvenanceInv'
  <2>1. FactMatchesOrder'
    <3> SUFFICES ASSUME NEW m \in Months, NEW p \in Orders,
                        Present(facts[m][p])
                 PROVE  /\ IsVersionOf(facts[m][p].value, p)'
                        /\ MonthOf[facts[m][p].value.businessDate] = m
      BY <1>1 DEF FactMatchesOrder, Edit
    <3>1. facts[m][p].value \in Fact
      BY <1>0 DEF TypeOK, Object, Present, Absent
    <3>2. IsVersionOf(facts[m][p].value, p)
      BY DEF ProvenanceInv, FactMatchesOrder
    <3>3. IsVersionOf(facts[m][p].value, p)'
      <4> DEFINE f == facts[m][p].value
      <4>1. history'[p] = history[p] \/ p = o
        BY <1>1, <1>0 DEF Edit, TypeOK
      <4>2. facts' = facts
        BY <1>1 DEF Edit
      <4> QED
        BY <1>0, <1>1, <3>1, <3>2, <4>2, EditKeepsVersions DEF IsVersionOf
    <3> QED
      BY <3>3 DEF ProvenanceInv, FactMatchesOrder
  <2>2. CarriedMatchesOrder'
    <3> SUFFICES ASSUME NEW w \in Writers, pc[w] # "idle"
                 PROVE  IsVersionOf(fact[w], target[w])'
      BY <1>1 DEF CarriedMatchesOrder, Edit
    <3>1. target[w] \in Orders /\ fact[w] \in Fact
      BY <1>0, CellTyped
    <3>2. UNCHANGED <<fact, target>>
      BY <1>1 DEF Edit
    <3> QED
      BY <1>0, <1>1, <3>1, <3>2, EditKeepsVersions
         DEF ProvenanceInv, CarriedMatchesOrder, IsVersionOf
  <2> QED
    BY <1>0, <2>1, <2>2 DEF ProvenanceInv
<1>2. ASSUME NEW w \in Writers, Finish(w), UNCHANGED facts
      PROVE  ProvenanceInv'
  BY <1>0, <1>2
     DEF ProvenanceInv, TypeOK, FactMatchesOrder, CarriedMatchesOrder,
         IsVersionOf, Finish
<1>3. ASSUME NEW w \in Writers, NEW o \in Orders, Fetch(w, o)
      PROVE  ProvenanceInv'
  <2>1. FactOf(o) \in Fact /\ IsVersionOf(FactOf(o), o)
    BY <1>0, <1>3, FactOfLatest DEF Fetch
  <2>2. CarriedMatchesOrder'
    BY <1>0, <1>3, <2>1
       DEF ProvenanceInv, TypeOK, CarriedMatchesOrder, IsVersionOf, Fetch
  <2> QED
    BY <1>0, <1>3, <2>2
       DEF ProvenanceInv, FactMatchesOrder, IsVersionOf, Fetch
<1>4. ASSUME NEW w \in Writers, Read(w) PROVE ProvenanceInv'
  BY <1>0, <1>4
     DEF ProvenanceInv, TypeOK, FactMatchesOrder, CarriedMatchesOrder,
         IsVersionOf, Read
<1>5. ASSUME NEW w \in Writers, Write(w) PROVE ProvenanceInv'
  <2>1. pc[w] # "idle" /\ UNCHANGED history
    BY <1>5 DEF Write, Finish
  <2>2. CarriedMatchesOrder'
    BY <1>0, <1>5
       DEF ProvenanceInv, TypeOK, CarriedMatchesOrder, IsVersionOf, Write,
           Finish
  <2>3. /\ AfterPut(Cell(w), fact[w]).value = fact[w]
        /\ target[w] \in Orders
        /\ MonthFor(w) \in Months
    BY <1>0, <2>1, CellTyped, AfterPutTyped
  <2>4. FactMatchesOrder'
    <3> SUFFICES ASSUME NEW m \in Months, NEW o \in Orders,
                        Present(facts'[m][o])
                 PROVE  /\ IsVersionOf(facts'[m][o].value, o)
                        /\ MonthOf[facts'[m][o].value.businessDate] = m
      BY <2>1 DEF FactMatchesOrder, IsVersionOf
    <3>1. CASE m = MonthFor(w) /\ o = target[w]
      <4>1. facts'[m][o].value = fact[w]
        BY <1>0, <1>5, <2>3, <3>1 DEF TypeOK, Write
      <4> QED
        BY <2>1, <3>1, <4>1 DEF ProvenanceInv, CarriedMatchesOrder, MonthFor
    <3>2. CASE ~(m = MonthFor(w) /\ o = target[w])
      <4>1. facts'[m][o] = facts[m][o]
        BY <1>0, <1>5, <2>3, <3>2 DEF TypeOK, Write
      <4> QED
        BY <4>1 DEF ProvenanceInv, FactMatchesOrder
    <3> QED
      BY <3>1, <3>2
  <2> QED
    BY <1>0, <2>2, <2>4 DEF ProvenanceInv
<1>6. ASSUME NEW m \in Months, NEW o \in Orders, PurgeList(m, o)
      PROVE  ProvenanceInv'
  BY <1>0, <1>6
     DEF ProvenanceInv, FactMatchesOrder, CarriedMatchesOrder, IsVersionOf,
         PurgeList
<1>7. ASSUME NEW m \in Months, NEW o \in Orders, PurgeDelete(m, o)
      PROVE  ProvenanceInv'
  <2>1. \A n \in Months, p \in Orders :
          facts'[n][p] = facts[n][p] \/ facts'[n][p] = Absent
    <3> SUFFICES ASSUME NEW n \in Months, NEW p \in Orders
                 PROVE  facts'[n][p] = facts[n][p] \/ facts'[n][p] = Absent
      OBVIOUS
    <3>1. CASE facts' = facts
      BY <3>1
    <3>2. CASE facts' = [facts EXCEPT ![m][o] = Absent]
      BY <1>0, <3>2 DEF TypeOK
    <3> QED
      BY <1>7, <3>1, <3>2 DEF PurgeDelete
  <2>2. FactMatchesOrder'
    BY <1>7, <2>1
       DEF ProvenanceInv, FactMatchesOrder, IsVersionOf, PurgeDelete,
           Present, Absent
  <2> QED
    BY <1>0, <1>7, <2>2
       DEF ProvenanceInv, CarriedMatchesOrder, IsVersionOf, PurgeDelete
<1>8. CASE UNCHANGED vars
  BY <1>0, <1>8
     DEF ProvenanceInv, FactMatchesOrder, CarriedMatchesOrder, IsVersionOf,
         vars
<1> QED
  BY <1>1, <1>2, <1>3, <1>4, <1>5, <1>6, <1>7, <1>8
     DEF Next, WriterStep, IgnoreStale, Drop, Fail

(* A stored fact is always the fact of a version its order really had,     *)
(* with the store's upsert, with forced rewrites and with the purge        *)
(* running.                                                                *)
THEOREM FactsMatchOrders == Spec => []FactMatchesOrder
<1>1. Init => ProvenanceInv
  <2>1. Init => TypeOK
    BY DEF Init, TypeOK, Object, Unversioned
  <2> QED
    BY <2>1
       DEF Init, ProvenanceInv, FactMatchesOrder, CarriedMatchesOrder,
           Present, Absent
<1>2. ProvenanceInv => FactMatchesOrder
  BY DEF ProvenanceInv
<1> QED
  BY <1>1, <1>2, ProvenanceStep, PTL DEF Spec

-----------------------------------------------------------------------------
(* Why the compare-and-swap carries the guard across the await: an object  *)
(* that still has the version a writer read still has the value it was     *)
(* compared with, because versions only grow until it is deleted.          *)
Guards(w) ==
  pc[w] = "put" /\ ~Unguarded(w) /\ <<MonthFor(w), target[w]>> \notin purged

ReadStillGuards ==
  \A w \in Writers :
    Guards(w) =>
      /\ seen[w] <= Cell(w).version
      /\ seen[w] = Cell(w).version /\ Present(Cell(w))
           => Newer(Cell(w).value, fact[w])

GuardInv == TypeOK /\ ReadStillGuards
LEMMA GuardStep == GuardInv /\ [Next]_vars => GuardInv'
<1> SUFFICES ASSUME GuardInv, [Next]_vars PROVE GuardInv'
  OBVIOUS
<1>0. TypeOK /\ TypeOK'
  BY TypeStep DEF GuardInv
<1>1. ASSUME NEW o \in Orders, NEW d \in Days, Edit(o, d) PROVE GuardInv'
  BY <1>0, <1>1
     DEF GuardInv, ReadStillGuards, Guards, Unguarded, Edit, Cell, MonthFor
<1>2. ASSUME NEW w \in Writers, Finish(w), UNCHANGED facts PROVE GuardInv'
  BY <1>0, <1>2
     DEF GuardInv, TypeOK, ReadStillGuards, Guards, Unguarded, Finish, Cell,
         MonthFor
<1>3. ASSUME NEW w \in Writers, NEW o \in Orders, Fetch(w, o) PROVE GuardInv'
  BY <1>0, <1>3
     DEF GuardInv, TypeOK, ReadStillGuards, Guards, Unguarded, Fetch, Cell,
         MonthFor
<1>4. ASSUME NEW w \in Writers, Read(w) PROVE GuardInv'
  <2>1. Cell(w).version \in Nat
    BY <1>0, <1>4, CellTyped DEF Read, Object, Absent
  <2>2. ~Unguarded(w) /\ Present(Cell(w)) => Newer(Cell(w).value, fact[w])
    BY <1>4 DEF Read
  <2>3. \A v \in Writers : Cell(v)' = Cell(v)
    BY <1>4 DEF Read, Cell, MonthFor
  <2>4. ReadStillGuards'
    <3> SUFFICES ASSUME NEW v \in Writers, pc'[v] = "put", ~Unguarded(v),
                        <<MonthFor(v), target[v]>> \notin purged
                 PROVE  /\ seen'[v] <= Cell(v).version
                        /\ seen'[v] = Cell(v).version /\ Present(Cell(v))
                             => Newer(Cell(v).value, fact[v])
      BY <1>4, <2>3 DEF ReadStillGuards, Guards, Unguarded, MonthFor, Read
    <3>1. CASE v = w
      BY <1>0, <1>4, <2>1, <2>2, <3>1 DEF Read, TypeOK
    <3>2. CASE v # w
      BY <1>0, <1>4, <3>2 DEF Read, TypeOK, GuardInv, ReadStillGuards, Guards
    <3> QED
      BY <3>1, <3>2
  <2> QED
    BY <1>0, <1>4, <2>4 DEF GuardInv, Read
<1>5. ASSUME NEW w \in Writers, Write(w) PROVE GuardInv'
  <2>1. /\ target[w] \in Orders
        /\ MonthFor(w) \in Months
        /\ AfterPut(Cell(w), fact[w]).version > Cell(w).version
    BY <1>0, <1>5, CellTyped, AfterPutTyped DEF Write
  <2>2. ReadStillGuards'
    <3> SUFFICES ASSUME NEW v \in Writers, Guards(v)'
                 PROVE  /\ seen'[v] <= Cell(v)'.version
                        /\ seen'[v] = Cell(v)'.version /\ Present(Cell(v)')
                             => Newer(Cell(v)'.value, fact'[v])
      BY DEF ReadStillGuards
    <3>1. v # w /\ pc[v] = "put" /\ seen'[v] = seen[v] /\ fact'[v] = fact[v]
          /\ target'[v] = target[v]
      BY <1>0, <1>5 DEF Write, Finish, TypeOK, Guards
    <3>0. Guards(v)
      BY <1>5, <3>1 DEF Write, Finish, Guards, Unguarded, MonthFor
    <3>2. /\ target[v] \in Orders
          /\ MonthFor(v) \in Months
          /\ MonthFor(v)' = MonthFor(v)
          /\ Cell(v)' = facts'[MonthFor(v)][target[v]]
          /\ Cell(v).version \in Nat
          /\ seen[v] \in Nat
      <4>1. /\ target[v] \in Orders
            /\ MonthFor(v) \in Months
            /\ Cell(v) \in Object(Fact)
        BY <1>0, <3>1, CellTyped
      <4>2. MonthFor(v)' = MonthFor(v)
        BY <3>1 DEF MonthFor
      <4>3. Cell(v)' = facts'[MonthFor(v)][target[v]]
        BY <3>1, <4>2 DEF Cell
      <4>4. Cell(v).version \in Nat
        BY <4>1 DEF Object, Absent
      <4> QED
        BY <1>0, <4>1, <4>2, <4>3, <4>4 DEF TypeOK
    <3>3. CASE MonthFor(v) = MonthFor(w) /\ target[v] = target[w]
      <4>1. Cell(v) = Cell(w) /\ Cell(v)' = AfterPut(Cell(w), fact[w])
        BY <1>0, <1>5, <2>1, <3>2, <3>3 DEF Write, Cell, TypeOK
      <4>2. seen[v] <= Cell(v).version
        BY <3>0 DEF GuardInv, ReadStillGuards
      <4>3. AfterPut(Cell(w), fact[w]).version \in Nat
        BY <3>2, <4>1 DEF AfterPut
      <4> QED
        BY <2>1, <3>1, <3>2, <4>1, <4>2, <4>3
    <3>4. CASE ~(MonthFor(v) = MonthFor(w) /\ target[v] = target[w])
      <4>1. Cell(v)' = Cell(v)
        BY <1>0, <1>5, <2>1, <3>2, <3>4 DEF Write, Cell, TypeOK
      <4> QED
        BY <3>0, <3>1, <4>1 DEF GuardInv, ReadStillGuards
    <3> QED
      BY <3>3, <3>4
  <2> QED
    BY <1>0, <1>5, <2>2 DEF GuardInv, Write, Finish
<1>6. ASSUME NEW m \in Months, NEW o \in Orders, PurgeList(m, o)
      PROVE  GuardInv'
  BY <1>0, <1>6
     DEF PurgeList, GuardInv, ReadStillGuards, Guards, Unguarded, Cell, MonthFor
<1>7. ASSUME NEW m \in Months, NEW o \in Orders, PurgeDelete(m, o)
      PROVE  GuardInv'
  <2> SUFFICES ASSUME NEW v \in Writers, Guards(v)'
               PROVE  Guards(v) /\ Cell(v)' = Cell(v) /\ UNCHANGED <<seen, fact>>
    BY <1>0 DEF GuardInv, ReadStillGuards
  <2>1. /\ Guards(v) /\ MonthFor(v)' = MonthFor(v)
        /\ UNCHANGED <<seen, fact, target, pc>>
    BY <1>7 DEF PurgeDelete, Guards, Unguarded, MonthFor
  <2>2. MonthFor(v) \in Months /\ target[v] \in Orders
    BY <1>0, <2>1, CellTyped DEF Guards
  <2>3. facts'[MonthFor(v)][target[v]] = facts[MonthFor(v)][target[v]]
    <3>1. CASE UNCHANGED facts
      BY <3>1
    <3>2. CASE /\ facts' = [facts EXCEPT ![m][o] = Absent]
               /\ purged' = purged \cup {<<m, o>>}
      <4>1. <<MonthFor(v), target[v]>> # <<m, o>>
        BY <2>1, <3>2 DEF Guards
      <4>2. MonthFor(v) # m \/ target[v] # o
        BY <4>1
      <4> QED
        BY <1>0, <2>2, <3>2, <4>2 DEF TypeOK
    <3> QED
      BY <1>7, <3>1, <3>2 DEF PurgeDelete
  <2> QED
    BY <2>1, <2>3 DEF Cell
<1>8. CASE UNCHANGED vars
  BY <1>0, <1>8
     DEF GuardInv, ReadStillGuards, Guards, Unguarded, Cell, MonthFor, vars
<1> QED
  BY <1>1, <1>2, <1>3, <1>4, <1>5, <1>6, <1>7, <1>8
     DEF Next, WriterStep, IgnoreStale, Drop, Fail

LEMMA GuardInit == Init => GuardInv
<1>1. Init => TypeOK
  BY DEF Init, TypeOK, Object, Unversioned
<1> QED
  BY <1>1 DEF Init, GuardInv, ReadStillGuards, Guards

(* One write changes one cell, to the fact its writer carries.             *)
LEMMA WriteChangesOneCell ==
  ASSUME TypeOK, NEW w \in Writers, Write(w),
         NEW m \in Months, NEW o \in Orders
  PROVE  IF m = MonthFor(w) /\ o = target[w]
           THEN /\ facts[m][o] = Cell(w)
                /\ facts'[m][o].value = fact[w]
                /\ Present(facts'[m][o])
           ELSE facts'[m][o] = facts[m][o]
<1>1. /\ target[w] \in Orders
      /\ MonthFor(w) \in Months
      /\ AfterPut(Cell(w), fact[w]).value = fact[w]
      /\ Present(AfterPut(Cell(w), fact[w]))
  BY CellTyped, AfterPutTyped DEF Write
<1> QED
  BY <1>1 DEF Write, Cell, TypeOK

(* With the upsert of the real store, forced runs and purges: a writer     *)
(* that read a fact never puts an older version over a newer one, unless   *)
(* it was forced or the fact was purged; one that found no fact can.       *)
THEOREM OnlyCreateRacesRegress == Spec => RegressionOnlyByCreateRace
<1> DEFINE Step ==
      \A m \in Months, o \in Orders, w \in Writers :
        /\ Write(w) /\ m = MonthFor(w) /\ o = target[w]
        /\ Present(facts[m][o])
        /\ facts'[m][o].value.orderVersion < facts[m][o].value.orderVersion
        => \/ seen[w] = Unversioned
           \/ Unguarded(w)
           \/ <<m, o>> \in purged
<1>1. GuardInv => [Step]_vars
  <2> SUFFICES ASSUME GuardInv,
                      NEW m \in Months, NEW o \in Orders, NEW w \in Writers,
                      Write(w), m = MonthFor(w), o = target[w],
                      Present(facts[m][o]),
                      facts'[m][o].value.orderVersion
                        < facts[m][o].value.orderVersion,
                      ~Unguarded(w), <<m, o>> \notin purged
               PROVE  seen[w] = Unversioned
    OBVIOUS
  <2>1. facts[m][o] = Cell(w) /\ facts'[m][o].value = fact[w]
    BY WriteChangesOneCell DEF GuardInv
  <2>2. ~Newer(Cell(w).value, fact[w])
    <3>1. /\ fact[w].orderVersion \in Nat
          /\ facts[m][o].value.orderVersion \in Nat
      <4>1. fact[w] \in Fact
        BY CellTyped DEF GuardInv, Write
      <4>2. facts[m][o].value \in Fact
        BY DEF GuardInv, TypeOK, Object, Absent, Present
      <4> QED
        BY <4>1, <4>2 DEF Fact
    <3> QED
      BY <2>1, <3>1 DEF Newer
  <2>3. seen[w] # Cell(w).version
    BY <2>1, <2>2 DEF GuardInv, ReadStillGuards, Guards, Write
  <2> QED
    BY <2>1, <2>3 DEF Write, PutAccepted
<1>2. Spec => []GuardInv
  BY GuardInit, GuardStep, PTL DEF Spec
<1>3. Spec => [][Step]_vars
  BY <1>1, <1>2, PTL DEF Spec
<1> QED
  BY <1>3 DEF RegressionOnlyByCreateRace

-----------------------------------------------------------------------------
(* The refinement: a write records a newer version or its cell is          *)
(* contested, a purge withdraws, and every other step but an edit leaves   *)
(* the ledger alone.                                                       *)
HistoryBounded == \A o \in Orders : Len(history[o]) <= MaxVersion

RefinementInv == GuardInv /\ ProvenanceInv /\ HistoryBounded

LedgerOf == [m \in Months |-> [o \in Orders |-> RecordedVersion(m, o)]]

LEMMA HistoryStep ==
  ASSUME TypeOK, HistoryBounded, [Next]_vars
  PROVE  HistoryBounded'
<1>1. ASSUME NEW o \in Orders, NEW d \in Days, Edit(o, d)
      PROVE  HistoryBounded'
  <2>1. \A p \in Orders : Len(history[p]) \in Nat
    BY DEF TypeOK
  <2>2. Len(history'[o]) = Len(history[o]) + 1
    BY <1>1 DEF Edit, TypeOK
  <2>3. \A p \in Orders : p # o => history'[p] = history[p]
    BY <1>1 DEF Edit, TypeOK
  <2> QED
    BY <1>1, <2>1, <2>2, <2>3, BoundsAssumption DEF Edit, HistoryBounded
<1>2. CASE UNCHANGED history
  BY <1>2 DEF HistoryBounded
<1> QED
  BY <1>1, <1>2
     DEF Next, WriterStep, Fetch, Read, IgnoreStale, Write, Drop, Fail,
         Finish, PurgeList, PurgeDelete, vars

(* Only cells of the store are contested.                                  *)
LEMMA ContestedTyped == TypeOK => Contested \subseteq Months \X Orders
<1> SUFFICES ASSUME TypeOK, NEW w \in Writers, Blind(w)
             PROVE  <<MonthFor(w), target[w]>> \in Months \X Orders
  BY DEF Contested, TypeOK
<1> QED
  BY CellTyped DEF Blind

LEMMA ContestedTypedNext ==
  TypeOK' => (Contested \subseteq Months \X Orders)'
BY ContestedTyped, PTL

LEMMA InitRefines == Init => Ledger!Init
<1> SUFFICES ASSUME Init PROVE Ledger!Init
  OBVIOUS
<1>1. Contested = {}
  BY DEF Init, Contested, Blind
<1> QED
  BY <1>1 DEF Init, Ledger!Init, RecordedVersion, Present, Absent

(* A write over a present fact that is not contested met the very object   *)
(* its guard was about.                                                    *)
LEMMA UncontestedWriteIsNewer ==
  ASSUME GuardInv, NEW w \in Writers, Write(w), Present(Cell(w)),
         <<MonthFor(w), target[w]>> \notin Contested
  PROVE  Newer(Cell(w).value, fact[w])
<1>1. pc[w] = "put" /\ PutAccepted(Cell(w), seen[w])
  BY DEF Write
<1>2. /\ ~Blind(w)
      /\ <<MonthFor(w), target[w]>> \notin purged
  BY DEF Contested
<1>3. ~Unguarded(w) /\ seen[w] # Unversioned
  BY <1>1, <1>2 DEF Blind
<1>4. seen[w] = Cell(w).version
  BY <1>1, <1>3 DEF PutAccepted
<1> QED
  BY <1>1, <1>2, <1>3, <1>4 DEF GuardInv, ReadStillGuards, Guards

LEMMA WriteRefines ==
  ASSUME RefinementInv, NEW w \in Writers, Write(w),
         NEW m \in Months, NEW o \in Orders, NEW v,
         m = MonthFor(w), o = target[w], v = fact[w].orderVersion
  PROVE  Ledger!Record(m, o, v)
<1>0. TypeOK /\ GuardInv
  BY DEF RefinementInv, GuardInv
<1>1. fact[w] \in Fact
  BY <1>0, CellTyped DEF Write
<1>2. IsVersionOf(fact[w], o)
  BY DEF RefinementInv, ProvenanceInv, CarriedMatchesOrder, Write
<1>3. v \in 1..Len(history[o]) /\ MonthOf[history[o][v]] = m
  BY <1>2 DEF IsVersionOf, MonthFor
<1>4. RecordedVersion(m, o) < v \/ <<m, o>> \in Contested
  <2>1. facts[m][o] = Cell(w)
    BY <1>0, WriteChangesOneCell
  <2>2. CASE Present(Cell(w))
    BY <1>0, <2>1, <2>2, UncontestedWriteIsNewer DEF RecordedVersion, Newer
  <2>3. CASE ~Present(Cell(w))
    BY <1>1, <1>3, <2>1, <2>3 DEF RecordedVersion
  <2> QED
    BY <2>2, <2>3
<1>5. RecordedVersion(m, o)' = v
  <2>1. facts'[m][o].value = fact[w] /\ Present(facts'[m][o])
    BY <1>0, WriteChangesOneCell
  <2> QED
    BY <2>1 DEF RecordedVersion, Present
<1>6. \A n \in Months, p \in Orders :
        ~(n = m /\ p = o) => RecordedVersion(n, p)' = RecordedVersion(n, p)
  BY <1>0, WriteChangesOneCell DEF RecordedVersion
<1>7. LedgerOf' = [LedgerOf EXCEPT ![m][o] = v]
  BY <1>5, <1>6 DEF LedgerOf
<1>8. UNCHANGED history
  BY DEF Write, Finish
<1>9. Contested' \subseteq Contested
  <2>1. ASSUME NEW u \in Writers, Blind(u)'
        PROVE  Blind(u) /\ MonthFor(u)' = MonthFor(u) /\ target'[u] = target[u]
    <3>1. u # w
      BY <1>0, <2>1 DEF Write, Finish, Blind, TypeOK
    <3> QED
      BY <1>0, <2>1, <3>1 DEF Write, Finish, Blind, Unguarded, MonthFor, TypeOK
  <2>2. purged' = purged
    BY DEF Write, Finish
  <2> QED
    BY <2>1, <2>2 DEF Contested
<1> QED
  BY <1>3, <1>4, <1>7, <1>8, <1>9 DEF Ledger!Record, LedgerOf

LEMMA PurgeRefines ==
  ASSUME RefinementInv, NEW m \in Months, NEW o \in Orders,
         PurgeDelete(m, o), facts' # facts
  PROVE  Ledger!Withdraw(m, o)
<1>0. TypeOK
  BY DEF RefinementInv, GuardInv
<1>1. /\ facts' = [facts EXCEPT ![m][o] = Absent]
      /\ purged' = purged \cup {<<m, o>>}
      /\ UNCHANGED <<history, pc, target, fact, seen>>
  BY DEF PurgeDelete
<1>2. RecordedVersion(m, o)' = 0
  BY <1>0, <1>1 DEF RecordedVersion, Present, Absent, TypeOK
<1>3. \A n \in Months, p \in Orders :
        ~(n = m /\ p = o) => RecordedVersion(n, p)' = RecordedVersion(n, p)
  BY <1>0, <1>1 DEF RecordedVersion, TypeOK
<1>4. LedgerOf' = [LedgerOf EXCEPT ![m][o] = 0]
  BY <1>2, <1>3 DEF LedgerOf
<1>5. Contested' = Contested \cup {<<m, o>>}
  BY <1>1 DEF Contested, Blind, Unguarded, MonthFor
<1> QED
  BY <1>1, <1>4, <1>5 DEF Ledger!Withdraw, LedgerOf

LEMMA StepRefines ==
  RefinementInv /\ [Next]_vars => [Ledger!Next]_(Ledger!vars)
<1> SUFFICES ASSUME RefinementInv, [Next]_vars
             PROVE  [Ledger!Next]_(Ledger!vars)
  OBVIOUS
<1>0. TypeOK /\ TypeOK'
  BY TypeStep DEF RefinementInv, GuardInv
<1>1. ASSUME NEW o \in Orders, NEW d \in Days, Edit(o, d)
      PROVE  Ledger!Next
  <2>1. Contested' = Contested
    BY <1>1 DEF Edit, Contested, Blind, Unguarded, MonthFor
  <2>2. Ledger!Edit(o, d)
    BY <1>1, <2>1 DEF Edit, Ledger!Edit, RecordedVersion
  <2> QED
    BY <2>2 DEF Ledger!Next
<1>2. ASSUME NEW w \in Writers, Write(w) PROVE Ledger!Next
  <2>1. /\ MonthFor(w) \in Months
        /\ target[w] \in Orders
        /\ fact[w] \in Fact
    BY <1>0, <1>2, CellTyped DEF Write
  <2>2. fact[w].orderVersion \in 1..Len(history[target[w]])
    BY <1>2
       DEF RefinementInv, ProvenanceInv, CarriedMatchesOrder, IsVersionOf,
           Write
  <2>3. Len(history[target[w]]) <= MaxVersion
    BY <2>1 DEF RefinementInv, HistoryBounded
  <2>4. Len(history[target[w]]) \in Nat
    BY <1>0, <2>1 DEF TypeOK
  <2>5. fact[w].orderVersion \in 1..MaxVersion
    BY <2>2, <2>3, <2>4, BoundsAssumption
  <2>6. PICK m \in Months, o \in Orders, v \in 1..MaxVersion :
          m = MonthFor(w) /\ o = target[w] /\ v = fact[w].orderVersion
    BY <2>1, <2>5
  <2>7. Ledger!Record(m, o, v)
    BY <1>2, <2>6, WriteRefines
  <2> QED
    BY <2>7 DEF Ledger!Next
<1>3. CASE UNCHANGED <<history, facts>>
  <2>1. UNCHANGED LedgerOf
    BY <1>3 DEF LedgerOf, RecordedVersion
  <2>2. Contested' \subseteq Months \X Orders
    BY <1>0, ContestedTypedNext
  <2> QED
    BY <1>3, <2>1, <2>2 DEF Ledger!Next, Ledger!Contest, LedgerOf
<1>4. ASSUME NEW m \in Months, NEW o \in Orders, PurgeDelete(m, o),
             facts' # facts
      PROVE  Ledger!Next
  BY <1>4, PurgeRefines DEF Ledger!Next
<1>5. CASE UNCHANGED vars
  BY <1>3, <1>5 DEF vars
<1> QED
  BY <1>1, <1>2, <1>3, <1>4, <1>5
     DEF Next, WriterStep, Fetch, Read, IgnoreStale, Drop, Fail, Finish,
         PurgeList, PurgeDelete

(* Event deliveries, job, forced rewrites and restatement together         *)
(* implement the abstract ledger, through the store's upsert.              *)
THEOREM FactsImplementLedger == Spec => ImplementsLedger
<1>1. Init => RefinementInv
  <2>1. Init => TypeOK
    BY DEF Init, TypeOK, Object, Unversioned
  <2>2. Init => ProvenanceInv
    BY <2>1
       DEF Init, ProvenanceInv, FactMatchesOrder, CarriedMatchesOrder,
           Present, Absent
  <2>3. Init => HistoryBounded
    BY BoundsAssumption DEF Init, HistoryBounded
  <2> QED
    BY <2>2, <2>3, GuardInit DEF RefinementInv
<1>2. RefinementInv /\ [Next]_vars => RefinementInv'
  BY GuardStep, ProvenanceStep, HistoryStep DEF RefinementInv, GuardInv
<1>3. RefinementInv /\ [Next]_vars => [Ledger!Next]_(Ledger!vars)
  BY StepRefines
<1> QED
  BY <1>1, <1>2, <1>3, InitRefines, PTL
     DEF Spec, ImplementsLedger, Ledger!Spec
=============================================================================
