---------------------------- MODULE TileRun_proofs ----------------------------
(***************************************************************************)
(* What holds of the parts of a report run for every value of the          *)
(* constants: the date arithmetic (Calendar), the resolution of access     *)
(* (Access), what a watermark vouches for while the job is at work, which  *)
(* columns and rows a tile shows, and when it is whole (TileRun).          *)
(***************************************************************************)
EXTENDS TileRunTerms, TLAPS, FiniteSetTheorems, WellFoundedInduction

-----------------------------------------------------------------------------
(* Calendar                                                                *)

(* splitSealedHot loses no day and doubles none: each day of the range is  *)
(* in exactly one part, and in the sealed one iff it is before the         *)
(* boundary, whatever the range and the window, a negative one included.   *)
THEOREM SplitIsExact ==
  ASSUME NEW from \in Int, NEW to \in Int, NEW today \in Int,
         NEW window \in Int
  PROVE  LET range == DateRange(from, to)
             split == SplitSealedHot(range, today, window)
             boundary == SealedBoundary(today, window)
         IN  /\ DaysIn(split.sealed) = {d \in DaysIn(range) : d < boundary}
             /\ DaysIn(split.hot) = {d \in DaysIn(range) : d >= boundary}
<1> DEFINE range == DateRange(from, to)
           split == SplitSealedHot(range, today, window)
           boundary == SealedBoundary(today, window)
<1>1. boundary \in Int
  BY DEF SealedBoundary
<1>2. range.from = from /\ range.to = to
  BY DEF DateRange
<1>3. CASE to <= boundary
  <2>1. split.sealed = range /\ split.hot = NoRange
    BY <1>2, <1>3 DEF SplitSealedHot
  <2> QED
    BY <1>1, <1>2, <1>3, <2>1 DEF DaysIn, NoRange, DateRange
<1>4. CASE ~(to <= boundary) /\ from >= boundary
  <2>1. split.sealed = NoRange /\ split.hot = range
    BY <1>2, <1>4 DEF SplitSealedHot
  <2> QED
    BY <1>1, <1>2, <1>4, <2>1 DEF DaysIn, NoRange, DateRange
<1>5. CASE ~(to <= boundary) /\ ~(from >= boundary)
  <2>1. /\ split.sealed = DateRange(from, boundary)
        /\ split.hot = DateRange(boundary, to)
    BY <1>2, <1>5 DEF SplitSealedHot
  <2> QED
    BY <1>1, <1>2, <1>5, <2>1 DEF DaysIn, DateRange
<1> QED
  BY <1>3, <1>4, <1>5

(* The previous period ends where the range begins and is as long, and it  *)
(* keeps the weekdays when the range is a number of weeks; the previous    *)
(* year, aligned by weekday, always does (resolveComparison).              *)
THEOREM ComparisonAligns ==
  ASSUME NEW from \in Int, NEW to \in Int
  PROVE  LET range == DateRange(from, to)
             period == ResolveComparison(range, "previousPeriod")
             year == ResolveComparison(range, "previousYear")
         IN  /\ period.to = from
             /\ RangeLengthDays(period) = RangeLengthDays(range)
             /\ RangeLengthDays(year) = RangeLengthDays(range)
             /\ (to - from) % 7 = 0 => DayOfWeek(period.from) = DayOfWeek(from)
             /\ DayOfWeek(year.from) = DayOfWeek(from)
<1> DEFINE range == DateRange(from, to)
           period == ResolveComparison(range, "previousPeriod")
           year == ResolveComparison(range, "previousYear")
<1>1. /\ period = DateRange(from - (to - from), to - (to - from))
      /\ year = DateRange(from - 364, to - 364)
  BY DEF ResolveComparison, ShiftDays, RangeLengthDays, DateRange
<1>2. \A n \in Int : n % 7 = 0 => (from - n + 4) % 7 = (from + 4) % 7
  OBVIOUS
<1>3. (from - 364 + 4) % 7 = (from + 4) % 7
  OBVIOUS
<1> HIDE DEF period, year
<1>4. /\ period.from = from - (to - from) /\ period.to = to - (to - from)
      /\ year.from = from - 364 /\ year.to = to - 364
      /\ range.from = from /\ range.to = to
  BY <1>1 DEF DateRange
<1>5. to - (to - from) = from
  OBVIOUS
<1>6. /\ RangeLengthDays(period) = RangeLengthDays(range)
      /\ RangeLengthDays(year) = RangeLengthDays(range)
  BY <1>4 DEF RangeLengthDays
<1>7. (to - from) % 7 = 0 => DayOfWeek(period.from) = DayOfWeek(from)
  BY <1>2, <1>4 DEF DayOfWeek
<1>8. DayOfWeek(year.from) = DayOfWeek(from)
  BY <1>3, <1>4 DEF DayOfWeek
<1> QED
  BY <1>4, <1>5, <1>6, <1>7, <1>8 DEF period, year

(* A week begins on its first weekday, holds the day it is the week of,    *)
(* and is its own week: bucketing a second time changes nothing.           *)
THEOREM WeekHoldsItsDays ==
  ASSUME NEW d \in Int, NEW weekStart
  PROVE  LET week == BucketDay(d, "week", weekStart)
         IN  /\ week \in Int /\ week <= d /\ d < week + 7
             /\ DayOfWeek(week) = FirstWeekday(weekStart)
             /\ BucketDay(week, "week", weekStart) = week
<1> DEFINE week == BucketDay(d, "week", weekStart)
           first == FirstWeekday(weekStart)
<1>1. week = d - ((((d + 4) % 7) - first) % 7)
  BY DEF BucketDay, IntoWeek, DayOfWeek
<1>2. first \in {0, 1}
  BY DEF FirstWeekday
<1>3. /\ week \in Int /\ week <= d /\ d < week + 7
      /\ (week + 4) % 7 = first
  BY <1>1, <1>2
<1>4. BucketDay(week, "week", weekStart) = week - ((((week + 4) % 7) - first) % 7)
  BY DEF BucketDay, IntoWeek, DayOfWeek
<1>5. BucketDay(week, "week", weekStart) = week
  BY <1>2, <1>3, <1>4
<1> QED
  BY <1>3, <1>5 DEF DayOfWeek

LEMMA LatestOfIsLatest ==
  ASSUME NEW starts, NEW d, HasLatest(starts, d)
  PROVE  /\ LatestOf(starts, d) \in starts
         /\ LatestOf(starts, d) <= d
         /\ \A t \in starts : t <= d => t <= LatestOf(starts, d)
BY DEF HasLatest, LatestOf

LEMMA LatestOfIsOnly ==
  ASSUME NEW starts \in SUBSET Int, NEW d \in Int, NEW s \in starts,
         s <= d, \A t \in starts : t <= d => t <= s
  PROVE  LatestOf(starts, d) = s
<1>1. /\ LatestOf(starts, d) \in starts /\ LatestOf(starts, d) <= d
      /\ \A t \in starts : t <= d => t <= LatestOf(starts, d)
  BY LatestOfIsLatest DEF HasLatest
<1>2. LatestOf(starts, d) \in Int /\ s \in Int
  BY <1>1
<1>3. LatestOf(starts, d) <= s /\ s <= LatestOf(starts, d)
  BY <1>1
<1> QED
  BY <1>2, <1>3

(* The quarter of a month is the quarter of its days: a report by quarter  *)
(* may be rolled up from months.                                           *)
THEOREM MonthsNestInQuarters ==
  ASSUME NEW d \in Int, HasLatest(MonthStarts, d), HasLatest(QuarterStarts, d)
  PROVE  LatestOf(QuarterStarts, LatestOf(MonthStarts, d))
           = LatestOf(QuarterStarts, d)
<1>1. PICK month \in MonthStarts :
        /\ month = LatestOf(MonthStarts, d) /\ month <= d
        /\ \A t \in MonthStarts : t <= d => t <= month
  BY LatestOfIsLatest
<1>2. PICK quarter \in QuarterStarts :
        /\ quarter = LatestOf(QuarterStarts, d) /\ quarter <= d
        /\ \A t \in QuarterStarts : t <= d => t <= quarter
  BY LatestOfIsLatest
<1>3. /\ QuarterStarts \in SUBSET Int /\ month \in Int /\ quarter \in Int
      /\ quarter \in MonthStarts
  BY CalendarAssumption
<1>4. quarter <= month
  BY <1>1, <1>2, <1>3
<1>5. \A t \in QuarterStarts : t <= month => t <= quarter
  BY <1>1, <1>2, <1>3
<1>6. LatestOf(QuarterStarts, month) = quarter
  BY <1>3, <1>4, <1>5, LatestOfIsOnly
<1> QED
  BY <1>1, <1>2, <1>6

-----------------------------------------------------------------------------
(* Access                                                                  *)

(* Of the restrictions of one dimension every one holds: a subject sees no *)
(* row that any policy that applies to it leaves out.                      *)
LEMMA ScopeWithinEach ==
  ASSUME NEW restrictions, NEW assignment, NEW r \in restrictions
  PROVE  /\ r.dimension \in DOMAIN IntersectScope(restrictions, assignment)
         /\ IntersectScope(restrictions, assignment)[r.dimension]
              \subseteq ScopeValues(r, assignment)
<1> DEFINE scope == IntersectScope(restrictions, assignment)
           left == {ScopeValues(q, assignment) :
                      q \in {s \in restrictions : s.dimension = r.dimension}}
<1>1. r.dimension \in {q.dimension : q \in restrictions}
  OBVIOUS
<1>2. /\ r.dimension \in DOMAIN scope
      /\ scope[r.dimension] = {v \in UNION left : \A values \in left : v \in values}
  BY <1>1 DEF IntersectScope
<1>3. ScopeValues(r, assignment) \in left
  OBVIOUS
<1> QED
  BY <1>2, <1>3

(* More policies never widen the rows a subject sees (intersectScope).     *)
THEOREM ScopeOnlyNarrows ==
  ASSUME NEW restrictions, NEW more, restrictions \subseteq more, NEW assignment
  PROVE  LET scope == IntersectScope(restrictions, assignment)
             narrower == IntersectScope(more, assignment)
         IN  /\ DOMAIN scope \subseteq DOMAIN narrower
             /\ \A d \in DOMAIN scope : narrower[d] \subseteq scope[d]
<1> DEFINE scope == IntersectScope(restrictions, assignment)
           narrower == IntersectScope(more, assignment)
<1>1. DOMAIN scope = {r.dimension : r \in restrictions}
  BY DEF IntersectScope
<1>2. ASSUME NEW d \in DOMAIN scope, NEW v \in narrower[d]
      PROVE  v \in scope[d]
  <2>1. PICK r \in restrictions : r.dimension = d
    BY <1>1
  <2>2. \A q \in more : q.dimension = d => v \in ScopeValues(q, assignment)
    BY <1>2, ScopeWithinEach
  <2> DEFINE left == {ScopeValues(q, assignment) :
                        q \in {s \in restrictions : s.dimension = d}}
  <2>3. scope[d] = {w \in UNION left : \A values \in left : w \in values}
    BY <1>1 DEF IntersectScope
  <2>4. \A values \in left : v \in values
    BY <2>2
  <2>5. ScopeValues(r, assignment) \in left
    BY <2>1
  <2> QED
    BY <2>3, <2>4, <2>5
<1>3. DOMAIN scope \subseteq DOMAIN narrower
  BY DEF IntersectScope
<1> QED
  BY <1>2, <1>3

(* Fail closed: a restriction by assignment leaves no rows to a subject    *)
(* whose assignment does not name the dimension.                           *)
THEOREM UnassignedSeesNothing ==
  ASSUME NEW restrictions, NEW assignment, NEW r \in restrictions,
         r.from # "literal", r.dimension \notin DOMAIN assignment.scope
  PROVE  IntersectScope(restrictions, assignment)[r.dimension] = {}
<1>1. ScopeValues(r, assignment) = {}
  BY DEF ScopeValues
<1> QED
  BY <1>1, ScopeWithinEach

-----------------------------------------------------------------------------
(* A wildcard shows no sensitive metric: without a policy that applies and *)
(* grants its sensitivity, or the metric by name, it stays hidden.         *)
THEOREM SensitiveNeedsGrant ==
  ASSUME NEW permissions, NEW policies, NEW assignment, NEW id,
         Sensitivity(id) # Null,
         \A p \in policies :
           Matches(p, permissions, assignment.tags) =>
             /\ \A c \in p.grant : c # <<"metric", id>>
             /\ \A c \in p.grant : c # <<"sensitivity", Sensitivity(id)>>,
         \A p \in policies : \A c \in p.grant : c = <<c[1], c[2]>>
  PROVE  ~CanSeeMetric(ResolveAccess(permissions, policies, assignment), id)
<1> DEFINE access == ResolveAccess(permissions, policies, assignment)
           grants == UNION {p.grant : p \in {q \in policies :
                              Matches(q, permissions, assignment.tags)}}
           denies == UNION {p.deny : p \in {q \in policies :
                              Matches(q, permissions, assignment.tags)}}
           Ids(S, kind) == {c[2] : c \in {b \in S : b[1] = kind}}
<1>1. \A c \in grants : /\ c = <<c[1], c[2]>> /\ c # <<"metric", id>>
                        /\ c # <<"sensitivity", Sensitivity(id)>>
  OBVIOUS
<1>2. /\ access.sensitivities = Ids(grants, "sensitivity")
      /\ access.granted["metric"] = Ids(grants, "metric") \ Ids(denies, "metric")
  BY DEF ResolveAccess
<1> HIDE DEF access, grants, denies
<1>3. Sensitivity(id) \notin Ids(grants, "sensitivity")
  BY <1>1
<1>4. id \notin Ids(grants, "metric")
  BY <1>1
<1>5. ~CanSeeMetric(access, id)
  BY <1>2, <1>3, <1>4 DEF CanSeeMetric
<1> QED
  BY <1>5 DEF access

(* A denial wins over every grant, by whatever policy it is granted.       *)
THEOREM DenialWins ==
  ASSUME NEW permissions, NEW policies, NEW assignment, NEW id,
         NEW p \in policies, Matches(p, permissions, assignment.tags)
  PROVE  LET access == ResolveAccess(permissions, policies, assignment)
         IN  /\ <<"metric", id>> \in p.deny => ~CanSeeMetric(access, id)
             /\ <<"dim", id>> \in p.deny => ~CanSeeDimension(access, id)
             /\ <<"report", id>> \in p.deny => ~CanSeeReport(access, id)
<1> DEFINE access == ResolveAccess(permissions, policies, assignment)
           denies == UNION {q.deny : q \in {r \in policies :
                              Matches(r, permissions, assignment.tags)}}
           Ids(S, kind) == {c[2] : c \in {b \in S : b[1] = kind}}
<1>1. p.deny \subseteq denies
  OBVIOUS
<1>2. \A kind \in {"report", "metric", "dim"} :
        access.denied[kind] = Ids(denies, kind)
  BY DEF ResolveAccess
<1> HIDE DEF access, denies
<1>3. \A kind \in {"report", "metric", "dim"} :
        <<kind, id>> \in p.deny => id \in access.denied[kind]
  <2>1. SUFFICES ASSUME NEW kind \in {"report", "metric", "dim"},
                        <<kind, id>> \in p.deny
                 PROVE  id \in access.denied[kind]
    OBVIOUS
  <2>2. <<kind, id>>[1] = kind /\ <<kind, id>>[2] = id
    OBVIOUS
  <2> QED
    BY <1>1, <1>2, <2>1, <2>2
<1>4. /\ <<"metric", id>> \in p.deny => ~CanSeeMetric(access, id)
      /\ <<"dim", id>> \in p.deny => ~CanSeeDimension(access, id)
      /\ <<"report", id>> \in p.deny => ~CanSeeReport(access, id)
  BY <1>3 DEF CanSeeMetric, CanSeeDimension, CanSeeReport
<1> QED
  BY <1>4 DEF access

-----------------------------------------------------------------------------
(* The watermark                                                           *)

LEMMA InitIInv == Init => IInv
<1> SUFFICES ASSUME Init PROVE IInv
  OBVIOUS
<1>1. PICK s \in Scenarios :
        LET there == DOMAIN Orders \ s.late
        IN  /\ orders = there
            /\ IF s.settled
                 THEN /\ cubes = [d \in DaysOf(there) |->
                           [orders |-> OnDay(there, d), known |-> there]]
                      /\ scanned = there
                      /\ published = [watermark |-> Today, known |-> there,
                                      left |-> {}, cohort |-> there]
                 ELSE /\ cubes = <<>> /\ scanned = {}
                      /\ published = [watermark |-> Null, known |-> {},
                                      left |-> {}, cohort |-> {}]
  BY DEF Init
<1>2. pass = Null /\ seen = Null
  BY DEF Init
<1>3. CASE s.settled
  <2>1. /\ cubes = [d \in DaysOf(orders) |->
                      [orders |-> OnDay(orders, d), known |-> orders]]
        /\ scanned = orders
        /\ published.known = orders /\ published.cohort = orders
    BY <1>1, <1>3
  <2>2. \A o \in orders : Folded(o)
    BY <2>1 DEF Folded, DaysOf, OnDay
  <2> QED
    BY <1>2, <2>1, <2>2 DEF IInv
<1>4. CASE ~s.settled
  <2>1. /\ cubes = <<>> /\ scanned = {}
        /\ published.known = {} /\ published.cohort = {}
    BY <1>1, <1>4
  <2>2. DOMAIN cubes = {}
    BY <2>1
  <2> QED
    BY <1>2, <2>1, <2>2 DEF IInv
<1> QED
  BY <1>3, <1>4

LEMMA PlaceOrderIInv ==
  ASSUME IInv, NEW o \in late, PlaceOrder(o)
  PROVE  IInv'
<1>1. /\ orders' = orders \cup {o}
      /\ UNCHANGED <<pass, scanned, cubes, published, seen>>
  BY DEF PlaceOrder, runVars
<1>2. \A d : OnDay(orders, d) \subseteq OnDay(orders', d)
  BY <1>1 DEF OnDay
<1> QED
  BY <1>1, <1>2 DEF IInv, Folded, LeftOut, Vouched

LEMMA StartPassIInv ==
  ASSUME IInv, StartPass
  PROVE  IInv'
<1>1. /\ pass' = [known |-> orders, todo |-> DaysOf(orders \ scanned)]
      /\ UNCHANGED <<orders, scanned, cubes, published, seen>>
  BY DEF StartPass, runVars
<1>2. \A o \in orders : Fact[o].businessDate \in DaysOf(orders \ scanned)
                       \/ LeftOut(o) \/ Folded(o)
  BY DEF IInv, DaysOf
<1> QED
  BY <1>1, <1>2 DEF IInv, Folded, LeftOut, Vouched

(* The day rebuilt holds at least what it held, so what was in the cubes   *)
(* still is.                                                               *)
LEMMA RebuildDayIInv ==
  ASSUME IInv, NEW d, RebuildDay(d)
  PROVE  IInv'
<1> DEFINE rebuilt == [orders |-> OnDay(orders, d), known |-> pass.known]
<1>1. /\ pass # Null
      /\ cubes' = [e \in DOMAIN cubes \cup {d} |->
                     IF e = d THEN rebuilt ELSE cubes[e]]
      /\ pass' = [pass EXCEPT !.todo = @ \ {d}]
      /\ published' = [published EXCEPT !.left = @ \ {d}]
      /\ UNCHANGED <<orders, scanned, seen>>
  BY DEF RebuildDay, runVars
<1>2. /\ DOMAIN cubes' = DOMAIN cubes \cup {d}
      /\ cubes'[d] = rebuilt
      /\ \A e \in DOMAIN cubes \ {d} : cubes'[e] = cubes[e]
  BY <1>1
<1>3. \A e \in DOMAIN cubes' : cubes'[e].orders \subseteq OnDay(orders, e)
  BY <1>2 DEF IInv
<1>4. \A o : Folded(o) => Folded(o)'
  BY <1>1, <1>2 DEF Folded, IInv
<1>5. \A o \in orders : Fact[o].businessDate = d => Folded(o)'
  BY <1>1, <1>2 DEF Folded, OnDay
<1>6. ASSUME pass' # Null, NEW o \in pass'.known
      PROVE  /\ o \in orders
             /\ Fact[o].businessDate \in pass'.todo \/ LeftOut(o)' \/ Folded(o)'
  <2>1. pass'.known = pass.known /\ pass'.todo = pass.todo \ {d}
    BY <1>1, <1>6
  <2>2. /\ o \in orders
        /\ Fact[o].businessDate \in pass.todo \/ LeftOut(o) \/ Folded(o)
    BY <1>1, <1>6, <2>1 DEF IInv
  <2>3. LeftOut(o) => LeftOut(o)' \/ Fact[o].businessDate = d
    BY <1>1 DEF LeftOut
  <2> QED
    BY <1>4, <1>5, <2>1, <2>2, <2>3
<1>7. \A o \in scanned : LeftOut(o)' \/ Folded(o)'
  <2> TAKE o \in scanned
  <2>1. o \in orders /\ (LeftOut(o) \/ Folded(o))
    BY DEF IInv
  <2>2. LeftOut(o) => LeftOut(o)' \/ Fact[o].businessDate = d
    BY <1>1 DEF LeftOut
  <2> QED
    BY <1>4, <1>5, <2>1, <2>2
<1>8. published'.known = published.known /\ published'.cohort = published.cohort
  BY <1>1
<1>9. seen' # Null => \A o \in Vouched(seen) : Folded(o)'
  BY <1>1, <1>4 DEF IInv
<1> QED
  BY <1>1, <1>3, <1>6, <1>7, <1>8, <1>9 DEF IInv, Vouched

(* Days to do are left out from now on.                                    *)
LEMMA PublishIInv ==
  ASSUME IInv, JobInv, Publish
  PROVE  IInv'
<1>1. /\ pass # Null /\ pass' = Null
      /\ published'.known = pass.known
      /\ published'.left = published.left \cup pass.todo
      /\ published'.cohort \in {published.cohort, pass.known}
      /\ scanned' = pass.known
      /\ UNCHANGED <<orders, cubes, seen>>
  BY DEF Publish, EndPass, runVars
<1>2. \A o \in pass.known : o \in orders /\ (LeftOut(o)' \/ Folded(o))
  BY <1>1 DEF IInv, LeftOut
<1>3. published'.cohort \subseteq pass.known
  BY <1>1 DEF IInv, JobInv
<1> QED
  BY <1>1, <1>2, <1>3 DEF IInv, Folded, Vouched

(* A run reads: of what the invariants speak of it changes only the        *)
(* watermark it has seen, which it forgets or takes from what is published.*)
LEMMA RunReads ==
  ASSUME Run
  PROVE  UNCHANGED jobVars /\ seen' \in {seen, Null, published}
<1>1. CASE Receive \/ Finish
  BY <1>1 DEF Receive, Finish
<1>2. CASE BeginTile
  BY <1>2 DEF BeginTile, Settle
<1>3. CASE Conclude
  <2>1. UNCHANGED jobVars
    BY <1>3 DEF Conclude
  <2>2. seen' = Null
    BY <1>3 DEF Conclude, Settle
  <2> QED
    BY <2>1, <2>2
<1>4. ASSUME NEW q \in pending,
             AnswerQuery(q) \/ ReadWatermark(q) \/ ReadCubes(q) \/ LoseQuery(q)
      PROVE  UNCHANGED jobVars /\ seen' \in {seen, Null, published}
  BY <1>4 DEF AnswerQuery, ReadWatermark, ReadCubes, LoseQuery, Receives
<1> QED
  BY <1>1, <1>2, <1>3, <1>4 DEF Run

LEMMA RunIInv ==
  ASSUME IInv, Run
  PROVE  IInv'
<1>1. UNCHANGED <<orders, pass, scanned, cubes, published>>
  BY RunReads DEF jobVars
<1>2. \A o \in Vouched(published) : Folded(o)
  BY DEF IInv, Vouched, LeftOut
<1>3. seen' # Null => \A o \in Vouched(seen') : Folded(o)
  BY RunReads, <1>2 DEF IInv
<1> QED
  BY <1>1, <1>3 DEF IInv, Folded, LeftOut, Vouched

LEMMA StepIInv == IInv /\ JobInv /\ [Next]_vars => IInv'
<1> SUFFICES ASSUME IInv, JobInv, [Next]_vars PROVE IInv'
  OBVIOUS
<1>1. CASE Job
  <2>1. ASSUME NEW o \in late, PlaceOrder(o) PROVE IInv'
    BY <2>1, PlaceOrderIInv
  <2>2. ASSUME NEW d \in pass.todo, RebuildDay(d) PROVE IInv'
    BY <2>2, RebuildDayIInv
  <2> QED
    BY <1>1, <2>1, <2>2, StartPassIInv, PublishIInv DEF Job
<1>2. CASE Run
  BY <1>2, RunIInv
<1>3. CASE UNCHANGED vars
  BY <1>3 DEF vars, IInv, Folded, LeftOut, Vouched
<1> QED
  BY <1>1, <1>2, <1>3 DEF Next

-----------------------------------------------------------------------------
(* Plans                                                                   *)

LEMMA SelectionIsTotal ==
  ASSUME NEW sources, NEW wanted
  PROVE  DOMAIN SelectSources(sources, wanted) = wanted.metrics
BY DEF SelectSources, Assign

LEMMA AssignedPlan ==
  ASSUME NEW shape, NEW report, NEW r, NEW wanted, NEW assigned,
         DOMAIN assigned = BaseMetrics(Permitted(shape, r.access))
  PROVE  PlanOf(PlanAssigned(shape, report, r, wanted, assigned),
                shape, report, r)
<1> DEFINE plan == PlanAssigned(shape, report, r, wanted, assigned)
           permitted == Permitted(shape, r.access)
           unserved == Unserved(assigned)
           join == PlanJoin(wanted.dimensions, wanted.grain,
                            Range(assigned) \ {Null})
           grain == OrElse(join.effectiveGrain, wanted.grain)
<1>1. /\ plan.baseMetrics = DOMAIN assigned \ unserved
      /\ plan.derived = DerivedMetrics(permitted)
      /\ plan.unavailable =
           unserved \cup {d \in DerivedMetrics(permitted) :
                            Range(LeavesOf(d)) \cap unserved # {}}
      /\ plan.subQueries =
           SubQueries(assigned, wanted.dimensions, grain, shape, report, r)
  BY DEF PlanAssigned, Unserved
<1>2. plan.renderable => (report.strict => plan.unavailable = {})
  BY DEF PlanAssigned
<1> QED
  BY <1>1, <1>2 DEF PlanOf

LEMMA TilePlan ==
  ASSUME NEW shape, NEW report, NEW r
  PROVE  PlanOf(PlanTile(shape, report, r), shape, report, r)
<1> DEFINE permitted == Permitted(shape, r.access)
           wanted == Wanted(shape, report, r)
<1>1. /\ wanted.metrics = BaseMetrics(permitted)
      /\ PlanTile(shape, report, r) = PlanWanted(shape, report, r, wanted)
  <2>1. wanted.metrics = BaseMetrics(permitted)
    BY DEF Wanted
  <2>2. PlanTile(shape, report, r) = PlanWanted(shape, report, r, wanted)
    BY DEF PlanTile
  <2> QED
    BY <2>1, <2>2
<1> HIDE DEF wanted
<1>2. PlanTile(shape, report, r)
        = PlanAssigned(shape, report, r, wanted,
                       SelectSources(UsableSources(r), wanted))
  BY <1>1 DEF PlanWanted
<1> QED
  BY <1>1, <1>2, SelectionIsTotal, AssignedPlan

(* A base metric of a plan is one the subject may see, or one that the     *)
(* formula of a metric it may see needs.                                   *)
LEMMA LeavesAreGranted ==
  ASSUME NEW shape, NEW access, NEW m,
         m \in BaseMetrics(Permitted(shape, access))
               \cup DerivedMetrics(Permitted(shape, access)),
         Sensitivity(m) # Null
  PROVE  Sensitivity(m) \in access.sensitivities \/ GrantedByName(access, m)
<1>1. PICK d : /\ CanSeeMetric(access, d)
               /\ m = d \/ m \in Range(LeavesOf(d))
  BY DEF Permitted, BaseMetrics, DerivedMetrics
<1>2. Sensitivity(d) = Sensitivity(m)
  <2>1. CASE m = d
    BY <2>1
  <2>2. CASE m \in Range(LeavesOf(d))
    <3>1. d \in DOMAIN METRICS
      BY <2>2 DEF LeavesOf, Known, Range
    <3> QED
      BY <2>2, <3>1, RegistryAssumption
  <2> QED
    BY <1>1, <2>1, <2>2
<1>3. Sensitivity(d) \in access.sensitivities \/ d \in access.granted["metric"]
  BY <1>1, <1>2 DEF CanSeeMetric
<1> QED
  BY <1>1, <1>2, <1>3 DEF GrantedByName

(* A function has no more values than arguments.                           *)
LEMMA FewValues ==
  ASSUME NEW S, IsFiniteSet(S), NEW T, NEW f \in [S -> T],
         \A t \in T : \E x \in S : f[x] = t
  PROVE  IsFiniteSet(T) /\ Cardinality(T) <= Cardinality(S)
<1>1. f \in Surjection(S, T)
  BY DEF Surjection
<1> QED
  BY <1>1, FS_Surjection

(* Base metrics are metrics of the registry, of which there are finitely   *)
(* many, so a plan has finitely many queries.                              *)
LEMMA FewBaseMetrics ==
  ASSUME NEW requested
  PROVE  IsFiniteSet(BaseMetrics(requested))
<1>1. BaseMetrics(requested) \subseteq DOMAIN METRICS
  <2> SUFFICES ASSUME NEW id \in requested, NEW m \in Range(LeavesOf(id))
               PROVE  m \in DOMAIN METRICS
    BY DEF BaseMetrics
  <2>1. CASE id \in DOMAIN METRICS
    BY <2>1, RegistryAssumption DEF IsBase, Known
  <2>2. CASE id \notin DOMAIN METRICS
    BY <2>2 DEF LeavesOf, Known, Range
  <2> QED
    BY <2>1, <2>2
<1> QED
  BY <1>1, RegistryAssumption, FS_Subset

LEMMA FewQueries ==
  ASSUME NEW plan, NEW shape, NEW report, NEW r, PlanOf(plan, shape, report, r)
  PROVE  IsFiniteSet(plan.subQueries)
<1>1. PICK assigned, dimensions, grain :
        /\ DOMAIN assigned = BaseMetrics(Permitted(shape, r.access))
        /\ plan.subQueries =
             SubQueries(assigned, dimensions, grain, shape, report, r)
  BY DEF PlanOf
<1> DEFINE Mode(m) ==
             <<assigned[m], Descriptors[assigned[m]].metrics[m].execution>>
           served == {m \in DOMAIN assigned : assigned[m] # Null}
           modes == {Mode(m) : m \in served}
           PointInTime(mode) == mode[2] = "live" \/ shape.pointInTime
           Query(mode) ==
             [sourceId |-> mode[1],
              metrics |-> {m \in served : Mode(m) = mode},
              dimensions |-> dimensions,
              grain |-> IF PointInTime(mode) THEN Null ELSE grain,
              timeRange |-> IF PointInTime(mode) THEN Null ELSE r.range,
              filters |-> report.filters \cup r.filters \cup shape.filters,
              scope |-> r.access.rowScope]
<1>2. plan.subQueries = {Query(mode) : mode \in modes}
  BY <1>1 DEF SubQueries, SourceQuery
<1>3. IsFiniteSet(served)
  BY <1>1, FewBaseMetrics, FS_Subset
<1> HIDE DEF Mode, served, Query
<1>4. IsFiniteSet(modes)
  <2> DEFINE f == [m \in served |-> Mode(m)]
  <2>1. f \in [served -> modes] /\ \A t \in modes : \E m \in served : f[m] = t
    OBVIOUS
  <2> HIDE DEF f, modes
  <2> QED
    BY <1>3, <2>1, FewValues
<1> HIDE DEF modes
<1> DEFINE queries == {Query(mode) : mode \in modes}
           g == [mode \in modes |-> Query(mode)]
<1>5. g \in [modes -> queries] /\ \A q \in queries : \E mode \in modes : g[mode] = q
  OBVIOUS
<1> HIDE DEF g, queries
<1>6. IsFiniteSet(queries)
  BY <1>4, <1>5, FewValues
<1> QED
  BY <1>2, <1>6 DEF queries

(* The metrics of a plan are those of its queries.                         *)
LEMMA QueriesCoverMetrics ==
  ASSUME NEW plan, NEW shape, NEW report, NEW r, PlanOf(plan, shape, report, r),
         NEW m \in plan.baseMetrics
  PROVE  \E q \in plan.subQueries : m \in q.metrics
<1>1. PICK assigned, dimensions, grain :
        /\ plan.baseMetrics = DOMAIN assigned \ Unserved(assigned)
        /\ plan.subQueries =
             SubQueries(assigned, dimensions, grain, shape, report, r)
  BY DEF PlanOf
<1> DEFINE Mode(n) ==
             <<assigned[n], Descriptors[assigned[n]].metrics[n].execution>>
           served == {n \in DOMAIN assigned : assigned[n] # Null}
           PointInTime(mode) == mode[2] = "live" \/ shape.pointInTime
           Query(mode) ==
             [sourceId |-> mode[1],
              metrics |-> {n \in served : Mode(n) = mode},
              dimensions |-> dimensions,
              grain |-> IF PointInTime(mode) THEN Null ELSE grain,
              timeRange |-> IF PointInTime(mode) THEN Null ELSE r.range,
              filters |-> report.filters \cup r.filters \cup shape.filters,
              scope |-> r.access.rowScope]
           q == Query(Mode(m))
<1>2. m \in served
  BY <1>1 DEF Unserved
<1>3. q \in plan.subQueries
  <2>1. plan.subQueries = {Query(mode) : mode \in {Mode(n) : n \in served}}
    BY <1>1 DEF SubQueries, SourceQuery
  <2> HIDE DEF Query, Mode, served
  <2> QED
    BY <1>2, <2>1
<1>4. m \in q.metrics
  BY <1>2
<1> QED
  BY <1>3, <1>4

LEMMA QueriesAreScoped ==
  ASSUME NEW plan, NEW shape, NEW report, NEW r, PlanOf(plan, shape, report, r),
         NEW q \in plan.subQueries
  PROVE  q.scope = r.access.rowScope
<1>1. PICK assigned, dimensions, grain :
        plan.subQueries =
          SubQueries(assigned, dimensions, grain, shape, report, r)
  BY DEF PlanOf
<1> QED
  BY <1>1 DEF SubQueries, SourceQuery

(* What is displayed and not given up is served, to its last leaf.         *)
LEMMA AvailableIsServed ==
  ASSUME NEW plan, NEW shape, NEW report, NEW r, PlanOf(plan, shape, report, r),
         NEW m \in Permitted(shape, r.access) \ plan.unavailable
  PROVE  Range(LeavesOf(m)) \subseteq plan.baseMetrics
<1>1. PICK assigned :
        /\ DOMAIN assigned = BaseMetrics(Permitted(shape, r.access))
        /\ plan.baseMetrics = DOMAIN assigned \ Unserved(assigned)
        /\ plan.derived = DerivedMetrics(Permitted(shape, r.access))
        /\ plan.unavailable =
             Unserved(assigned)
             \cup {d \in plan.derived :
                     Range(LeavesOf(d)) \cap Unserved(assigned) # {}}
  BY DEF PlanOf
<1>2. Range(LeavesOf(m)) \subseteq DOMAIN assigned
  BY <1>1 DEF BaseMetrics
<1>3. CASE ~Known(m)
  BY <1>3 DEF LeavesOf, Range
<1>4. CASE IsBase(m)
  <2>1. Range(LeavesOf(m)) = {m}
    BY <1>4 DEF LeavesOf, IsBase, Range
  <2> QED
    BY <1>1, <1>2, <2>1
<1>5. CASE Known(m) /\ ~IsBase(m)
  BY <1>1, <1>2, <1>5 DEF DerivedMetrics
<1> QED
  BY <1>3, <1>4, <1>5

-----------------------------------------------------------------------------
(* What the columns of a report show                                       *)

LEMMA InitPlansInv == Init => PlansInv
BY DEF Init, PlansInv

LEMMA StepKeepsRequest == [Next]_vars => request' = request
BY DEF Next, Job, Run, vars, PlaceOrder, StartPass, RebuildDay, Publish, EndPass, runVars,
       Receive, BeginTile, Conclude, Finish, AnswerQuery, ReadWatermark,
       ReadCubes, LoseQuery, Receives

LEMMA StepPlans ==
  ASSUME [Next]_vars
  PROVE  plans' \in {plans, PlanReport(TheReport, request)}
<1>1. CASE Receive
  BY <1>1 DEF Receive, Refuse
<1> QED
  BY <1>1 DEF Next, Job, Run, vars, PlaceOrder, StartPass, RebuildDay, Publish, EndPass,
       runVars, BeginTile, Conclude, Finish, AnswerQuery, ReadWatermark,
       ReadCubes, LoseQuery, Receives

LEMMA StepPlansInv == PlansInv /\ [Next]_vars => PlansInv'
<1> SUFFICES ASSUME PlansInv, [Next]_vars PROVE PlansInv'
  OBVIOUS
<1>1. TheReport' = TheReport /\ request' = request
  BY StepKeepsRequest DEF TheReport, Definition, IsStored
<1> QED
  BY <1>1, StepPlans DEF PlansInv

(* Whatever the report, the subject and the sources: no column of a plan   *)
(* shows a sensitive metric to a subject who was granted neither its class *)
(* nor, by name, the metric or one that needs it.                          *)
THEOREM SensitiveIsHidden == Spec => []SensitiveStaysHidden
<1>1. PlansInv => SensitiveStaysHidden
  <2> SUFFICES ASSUME PlansInv, plans # Null, NEW i \in DOMAIN plans,
                      NEW m \in plans[i].baseMetrics \cup plans[i].derived,
                      Sensitivity(m) # Null
               PROVE  \/ Sensitivity(m) \in request.access.sensitivities
                      \/ GrantedByName(request.access, m)
    BY DEF SensitiveStaysHidden
  <2>1. plans[i] = PlanTile(TheReport.tiles[i], TheReport, request)
    BY DEF PlansInv, PlanReport
  <2>2. PlanOf(plans[i], TheReport.tiles[i], TheReport, request)
    BY <2>1, TilePlan
  <2>3. m \in BaseMetrics(Permitted(TheReport.tiles[i], request.access))
              \cup DerivedMetrics(Permitted(TheReport.tiles[i], request.access))
    BY <2>2 DEF PlanOf
  <2> QED
    BY <2>3, LeavesAreGranted
<1> QED
  BY <1>1, InitPlansInv, StepPlansInv, PTL DEF Spec

-----------------------------------------------------------------------------
(* The answers of a tile                                                   *)

LEMMA InitRunInv == Init => RunInv
<1> SUFFICES ASSUME Init PROVE RunInv
  OBVIOUS
<1>1. /\ plans = Null /\ tile = 1 /\ begun = FALSE /\ pending = {}
      /\ answers = {} /\ shown = Null /\ statuses = <<>>
  BY DEF Init
<1>2. statuses \in Seq({"unavailable", "partial", "ok"}) /\ tile = Len(statuses) + 1
  BY <1>1
<1>3. begun \in BOOLEAN /\ ~begun
  BY <1>1
<1>4. TileInv
  BY <1>1, <1>2, <1>3 DEF TileInv
<1> QED
  BY <1>1, <1>4, InitPlansInv DEF RunInv, ShownInv

LEMMA SettleKeepsTheInv ==
  ASSUME RunInv, plans # Null,
         NEW status \in {"unavailable", "partial", "ok"}, NEW result,
         Settle(status, result), UNCHANGED <<plans, request>>,
         result # Null =>
           /\ begun /\ result.tile = tile
           /\ status = TileStatus(ArrivedOf(answers), Plan.subQueries)
           /\ result.answers = answers
           /\ result.merged = MergeResults(ArrivedOf(answers), Plan, TheTile,
                                           "monday")
  PROVE  TileInv' /\ ShownInv'
<1>1. /\ statuses' = Append(statuses, status) /\ shown' = result
      /\ tile' = tile + 1 /\ begun' = FALSE /\ pending' = {} /\ answers' = {}
      /\ plans' = plans /\ request' = request
  BY DEF Settle
<1>2. /\ statuses \in Seq({"unavailable", "partial", "ok"})
      /\ tile = Len(statuses) + 1
  BY DEF RunInv, TileInv
<1>3. /\ statuses' \in Seq({"unavailable", "partial", "ok"})
      /\ Len(statuses') = tile /\ statuses'[tile] = status
      /\ tile \in DOMAIN statuses'
  BY <1>1, <1>2
<1>4. TileInv'
  BY <1>1, <1>2, <1>3 DEF TileInv
<1>5. ASSUME shown' # Null PROVE ShownInv'
  <2>1. /\ begun /\ shown'.tile = tile
        /\ status = TileStatus(ArrivedOf(answers), Plan.subQueries)
        /\ shown'.answers = answers
        /\ shown'.merged = MergeResults(ArrivedOf(answers), Plan, TheTile,
                                        "monday")
    BY <1>1, <1>5
  <2>2. /\ tile \in DOMAIN plans /\ plans[tile].renderable
        /\ AnswersTo(answers, plans[tile].subQueries)
    BY <2>1 DEF RunInv, TileInv, Plan, AnswersTo
  <2>3. TheReport' = TheReport
    BY <1>1 DEF TheReport, Definition, IsStored
  <2> QED
    BY <1>1, <1>3, <2>1, <2>2, <2>3 DEF ShownInv, Plan, TheTile
<1> QED
  BY <1>4, <1>5 DEF ShownInv

(* An answer to q, or none, and what was shown stays.                      *)
LEMMA ReceivingKeepsTheInv ==
  ASSUME RunInv, begun, NEW q \in pending, pending' = pending \ {q},
         UNCHANGED <<request, plans, tile, begun, shown, statuses>>,
         \/ answers' = answers
         \/ \E a : a.query = q /\ answers' = answers \cup {a}
  PROVE  TileInv' /\ ShownInv'
<1>1. /\ AnswersTo(answers, Plan.subQueries \ pending)
      /\ pending \subseteq Plan.subQueries
  BY DEF RunInv, TileInv
<1>2. AnswersTo(answers', Plan.subQueries \ pending')
  <2>1. CASE answers' = answers
    BY <1>1, <2>1 DEF AnswersTo
  <2>2. ASSUME NEW a, a.query = q, answers' = answers \cup {a}
        PROVE  AnswersTo(answers', Plan.subQueries \ pending')
    <3>1. q \in Plan.subQueries \ pending'
      BY <1>1
    <3>2. \A b \in answers : b.query # q
      BY <1>1 DEF AnswersTo
    <3> QED
      BY <1>1, <2>2, <3>1, <3>2 DEF AnswersTo
  <2> QED
    BY <2>1, <2>2
<1>3. Plan' = Plan /\ TheReport' = TheReport
  BY DEF Plan, TheReport, Definition, IsStored
<1>4. pending' \subseteq Plan.subQueries
  BY <1>1
<1>5. TileInv'
  BY <1>2, <1>3, <1>4 DEF RunInv, TileInv
<1>6. ShownInv'
  BY <1>3 DEF RunInv, ShownInv
<1> QED
  BY <1>5, <1>6

LEMMA UnchangedKeepsTheInv ==
  ASSUME RunInv,
         UNCHANGED <<request, plans, tile, begun, pending, answers, shown,
                     statuses>>
  PROVE  TileInv' /\ ShownInv'
<1>1. Plan' = Plan /\ TheReport' = TheReport
  BY DEF Plan, TheReport, Definition, IsStored
<1>2. TileInv'
  BY <1>1 DEF RunInv, TileInv, AnswersTo
<1>3. ShownInv'
  BY <1>1 DEF RunInv, ShownInv
<1> QED
  BY <1>2, <1>3

LEMMA StepRunInv == RunInv /\ [Next]_vars => RunInv'
<1> SUFFICES ASSUME RunInv, [Next]_vars PROVE RunInv'
  OBVIOUS
<1>1. PlansInv'
  BY StepPlansInv DEF RunInv
<1> SUFFICES TileInv' /\ ShownInv'
  BY <1>1 DEF RunInv
<1>2. CASE Job
  BY <1>2, UnchangedKeepsTheInv
     DEF Job, PlaceOrder, StartPass, RebuildDay, Publish, EndPass, runVars
<1>3. CASE Receive
  <2>1. /\ plans = Null
        /\ UNCHANGED <<request, tile, begun, pending, answers, shown, statuses>>
    BY <1>3 DEF Receive
  <2>2. ~begun /\ shown = Null
    BY <2>1 DEF RunInv, TileInv, ShownInv
  <2> QED
    BY <2>1, <2>2 DEF RunInv, TileInv, ShownInv
<1>4. CASE BeginTile
  <2>1. /\ plans # Null /\ tile \in DOMAIN plans /\ ~begun
        /\ UNCHANGED <<request, plans>>
    BY <1>4 DEF BeginTile, Running
  <2>2. CASE Plan.renderable
    <3>1. /\ begun' = TRUE /\ pending' = Plan.subQueries
          /\ UNCHANGED <<request, plans, tile, answers, shown, statuses>>
      BY <1>4, <2>1, <2>2 DEF BeginTile
    <3>2. answers' = {} /\ Plan' = Plan /\ TheReport' = TheReport
      BY <2>1, <3>1 DEF RunInv, TileInv, Plan, TheReport, Definition, IsStored
    <3>3. TileInv'
      BY <2>1, <2>2, <3>1, <3>2 DEF RunInv, TileInv, AnswersTo
    <3>4. ShownInv'
      BY <3>1, <3>2 DEF RunInv, ShownInv
    <3> QED
      BY <3>3, <3>4
  <2>3. CASE ~Plan.renderable
    <3>1. Settle("unavailable", Null)
      BY <1>4, <2>3 DEF BeginTile
    <3> QED
      BY <2>1, <3>1, SettleKeepsTheInv
  <2> QED
    BY <2>2, <2>3
<1>5. CASE Conclude
  <2>1. /\ plans # Null /\ begun /\ UNCHANGED <<request, plans>>
    BY <1>5 DEF Conclude, Running
  <2>2. CASE Arrived = {}
    <3>1. Settle("unavailable", Null)
      BY <1>5, <2>2 DEF Conclude
    <3> QED
      BY <2>1, <3>1, SettleKeepsTheInv
  <2>3. CASE Arrived # {}
    <3> DEFINE status == TileStatus(Arrived, Plan.subQueries)
               result == [tile |-> tile, answers |-> answers,
                          merged |-> MergeResults(Arrived, Plan, TheTile,
                                                  "monday")]
    <3>1. Settle(status, result)
      BY <1>5, <2>3 DEF Conclude
    <3>2. status \in {"unavailable", "partial", "ok"}
      BY DEF TileStatus
    <3>3. /\ result.tile = tile /\ result.answers = answers
          /\ result.merged = MergeResults(Arrived, Plan, TheTile, "monday")
      OBVIOUS
    <3>4. Arrived = ArrivedOf(answers)
      BY DEF Arrived, ArrivedOf
    <3> HIDE DEF status, result
    <3> QED
      BY <2>1, <3>1, <3>2, <3>3, <3>4, SettleKeepsTheInv DEF status
  <2> QED
    BY <2>2, <2>3
<1>6. CASE Finish
  BY <1>6, UnchangedKeepsTheInv DEF Finish
<1>7. ASSUME NEW q \in pending, Answering(q), NEW answer, NEW covers,
             Receives(q, answer, covers)
      PROVE  TileInv' /\ ShownInv'
  <2>1. /\ begun /\ pending' = pending \ {q}
        /\ UNCHANGED <<request, plans, tile, begun, shown, statuses>>
    BY <1>7 DEF Answering, Receives
  <2>2. \/ answers' = answers
        \/ \E a : a.query = q /\ answers' = answers \cup {a}
    <3> DEFINE a == [query |-> q, answer |-> answer, covers |-> covers,
                     reads |-> orders, behind |-> BackDated]
    <3>1. a.query = q
      OBVIOUS
    <3>2. answers' \in {answers, answers \cup {a}}
      BY <1>7 DEF Receives
    <3> HIDE DEF a
    <3> QED
      BY <3>1, <3>2
  <2> QED
    BY <2>1, <2>2, ReceivingKeepsTheInv
<1>8. ASSUME NEW q \in pending, AnswerQuery(q)
      PROVE  TileInv' /\ ShownInv'
  BY <1>7, <1>8 DEF AnswerQuery
<1>9. ASSUME NEW q \in pending, ReadWatermark(q)
      PROVE  TileInv' /\ ShownInv'
  BY <1>9, UnchangedKeepsTheInv DEF ReadWatermark
<1>10. ASSUME NEW q \in pending, ReadCubes(q)
       PROVE  TileInv' /\ ShownInv'
  BY <1>7, <1>10 DEF ReadCubes
<1>11. ASSUME NEW q \in pending, LoseQuery(q)
       PROVE  TileInv' /\ ShownInv'
  BY <1>11, ReceivingKeepsTheInv DEF LoseQuery, Answering
<1>12. CASE UNCHANGED vars
  BY <1>12, UnchangedKeepsTheInv DEF vars
<1> QED
  BY <1>2, <1>3, <1>4, <1>5, <1>6, <1>8, <1>9, <1>10, <1>11, <1>12
     DEF Next, Run

(* As many answers as queries, each to a query of its own: all have one.   *)
LEMMA AllAreAnswered ==
  ASSUME NEW queries, IsFiniteSet(queries), NEW some, AnswersTo(some, queries),
         ~(Cardinality(ArrivedOf(some)) < Cardinality(queries))
  PROVE  \A q \in queries : \E a \in some : a.query = q
<1> DEFINE answered == {a.query : a \in some}
           arrived == ArrivedOf(some)
           good == {a.query : a \in {b \in some : b.answer.error = Null}}
           f == [q \in good |->
                   (CHOOSE a \in some : a.query = q).answer]
<1>1. good \in SUBSET queries /\ good \subseteq answered
  BY DEF AnswersTo
<1>2. /\ IsFiniteSet(good) /\ Cardinality(good) <= Cardinality(queries)
      /\ Cardinality(good) = Cardinality(queries) => good = queries
  <2> HIDE DEF good
  <2> QED
    BY <1>1, FS_Subset
<1>3. \A a \in some : a.answer.error = Null => f[a.query] = a.answer
  BY DEF AnswersTo
<1>4. \A t : t \in arrived
            <=> \E a \in some : a.answer.error = Null /\ a.answer = t
  BY DEF ArrivedOf
<1>5. \A q : q \in good
            <=> \E a \in some : a.answer.error = Null /\ a.query = q
  OBVIOUS
<1>6. DOMAIN f = good /\ f = [q \in good |-> f[q]]
  OBVIOUS
<1> HIDE DEF f, good, arrived
<1>7. f \in [good -> arrived]
  BY <1>3, <1>4, <1>5, <1>6
<1>8. \A t \in arrived : \E q \in good : f[q] = t
  BY <1>3, <1>4, <1>5
<1>9. Cardinality(arrived) <= Cardinality(good) /\ IsFiniteSet(arrived)
  BY <1>2, <1>7, <1>8, FewValues
<1>10. /\ Cardinality(arrived) \in Nat /\ Cardinality(good) \in Nat
       /\ Cardinality(queries) \in Nat
  BY <1>2, <1>9, FS_CardinalityType
<1>11. Cardinality(good) = Cardinality(queries)
  BY <1>2, <1>9, <1>10 DEF arrived
<1> QED
  BY <1>2, <1>5, <1>11

LEMMA OkIsWhole ==
  ASSUME RunInv, shown # Null, statuses[shown.tile] = "ok"
  PROVE  LET plan == plans[shown.tile]
             answered == UNION {a.query.metrics : a \in shown.answers}
             displayed == Permitted(TheReport.tiles[shown.tile], request.access)
         IN  /\ \A m \in displayed \ plan.unavailable :
                  Range(LeavesOf(m)) \subseteq answered
             /\ TheReport.strict => plan.unavailable = {}
<1> DEFINE plan == plans[shown.tile]
           shape == TheReport.tiles[shown.tile]
           answered == UNION {a.query.metrics : a \in shown.answers}
<1>1. /\ plan = PlanTile(shape, TheReport, request)
      /\ plan.renderable
      /\ AnswersTo(shown.answers, plan.subQueries)
      /\ TileStatus(ArrivedOf(shown.answers), plan.subQueries) = "ok"
  BY DEF RunInv, ShownInv, PlansInv, PlanReport
<1> HIDE DEF plan, shape
<1>2. PlanOf(plan, shape, TheReport, request)
  BY <1>1, TilePlan
<1>3. \A q \in plan.subQueries : \E a \in shown.answers : a.query = q
  <2>1. ~(Cardinality(ArrivedOf(shown.answers)) < Cardinality(plan.subQueries))
    BY <1>1 DEF TileStatus
  <2> QED
    BY <1>1, <1>2, <2>1, FewQueries, AllAreAnswered
<1>4. plan.baseMetrics \subseteq answered
  BY <1>2, <1>3, QueriesCoverMetrics
<1>5. \A m \in Permitted(shape, request.access) \ plan.unavailable :
        Range(LeavesOf(m)) \subseteq answered
  BY <1>2, <1>4, AvailableIsServed
<1>6. TheReport.strict => plan.unavailable = {}
  BY <1>1, <1>2 DEF PlanOf
<1> QED
  BY <1>5, <1>6 DEF plan, shape

(* Whatever the report, the subject, the sources and those out of reach: a *)
(* tile said to be ok has an answer to every query of its plan, so one for *)
(* every metric that was planned, and a strict report has given up none.   *)
THEOREM OkTilesKeepTheirWord == Spec => []OkTilesAreWhole
<1>1. RunInv => OkTilesAreWhole
  BY OkIsWhole DEF OkTilesAreWhole
<1> QED
  BY <1>1, InitRunInv, StepRunInv, PTL DEF Spec

-----------------------------------------------------------------------------
(* Rows and the scope of the subject                                       *)

-----------------------------------------------------------------------------
(* The answers of the sources: no row has a value that is in no column.    *)

LEMMA FailedIsColumned ==
  ASSUME NEW code
  PROVE  Columned(Failed(code))
BY DEF Failed, Columned

LEMMA AnsweredIsColumned ==
  ASSUME NEW columns, NEW metrics, NEW rows, NEW partial, NEW degraded,
         \A r \in rows : DOMAIN r.k \subseteq columns \cup {"date"}
  PROVE  Columned(Answered(columns, metrics, rows, partial, degraded))
BY DEF Answered, ResultSet, Columned

LEMMA GroupedKeys ==
  ASSUME NEW rows, NEW dimensions, NEW metrics
  PROVE  \A r \in Grouped(rows, dimensions, metrics) : DOMAIN r.k = dimensions
BY DEF Grouped, Row, KeyFor, GroupsBy

LEMMA CellKeys ==
  ASSUME NEW cells, NEW query
  PROVE  \A r \in CellRows(cells, query) :
           DOMAIN r.k = GroupDims(query) \cup WithDate(query)
<1> DEFINE columns == GroupDims(query) \cup WithDate(query)
<1> TAKE r \in CellRows(cells, query)
<1>1. PICK c, group : r = Row(KeyFor(c.k, columns), KeyFor(c.k, columns),
                              [m \in query.metrics |->
                                 SumOf(group, MEASURE_BY_METRIC[m])])
  <2> DEFINE merged ==
               {[k |-> KeyFor((CHOOSE c \in group : TRUE).k, columns),
                 cells |-> group] :
                  group \in GroupsBy(cells, LAMBDA c : KeyFor(c.k, columns))}
  <2>1. PICK g \in merged : r = Row(g.k, g.k, [m \in query.metrics |->
                                    SumOf(g.cells, MEASURE_BY_METRIC[m])])
    BY DEF CellRows
  <2>2. PICK group : g = [k |-> KeyFor((CHOOSE c \in group : TRUE).k, columns),
                          cells |-> group]
    BY DEF GroupsBy
  <2> QED
    BY <2>1, <2>2
<1> QED
  BY <1>1 DEF Row, KeyFor

LEMMA LiveIsColumned ==
  ASSUME NEW query
  PROVE  Columned(CtNativeLive(query))
<1>1. Columned(ReadInventory(query))
  <2> DEFINE breakdown == query.dimensions \ {"currency"}
             rows == ReadInventory(query).rows
  <2>1. ReadInventory(query).columns = breakdown
    BY DEF ReadInventory, Answered, ResultSet
  <2>2. CASE breakdown = {}
    <3>1. \A r \in rows : r.k = NoKey
      BY <2>2 DEF ReadInventory, Answered, ResultSet, Row
    <3> QED
      BY <3>1 DEF Columned, NoKey
  <2>3. CASE breakdown # {}
    <3>1. PICK found : rows = Grouped(found, breakdown, query.metrics)
      BY <2>3 DEF ReadInventory, Answered, ResultSet
    <3> QED
      BY <2>1, <3>1, GroupedKeys DEF Columned
  <2> QED
    BY <2>2, <2>3
<1>2. Columned(ReadLivePromotions(query))
  <2> DEFINE none == Each(query.dimensions, NONE)
  <2>1. ReadLivePromotions(query).columns = query.dimensions
    BY DEF ReadLivePromotions, Answered, ResultSet
  <2>2. DOMAIN none = query.dimensions
    BY DEF Each
  <2>3. \A r \in ReadLivePromotions(query).rows : DOMAIN r.k = DOMAIN none
    BY DEF ReadLivePromotions, Answered, ResultSet, Row
  <2> QED
    BY <2>1, <2>2, <2>3 DEF Columned
<1>3. Columned(ReadLiveFacets(query))
  <2> DEFINE columns == query.dimensions \ {"currency"}
             breakdown == query.dimensions \ {"currency", "priceBand"}
             found == LiveProducts(query)
             Key(v) == [d \in columns |->
                          IF d \in breakdown THEN Value(v, d) ELSE Null]
             Sharing(v) == Cardinality({o \in found : KeyFor(o, breakdown)
                                                       = KeyFor(v, breakdown)})
             OfBand(b) == Cardinality({v \in UNION {p.variants : p \in found} :
                                         v.band = b})
  <2>1. \A k, count : Bucket(k, count, query).k = k
    BY DEF Bucket, Row
  <2>2. LiveRows(query) =
          IF breakdown # {} THEN {Bucket(Key(v), Sharing(v), query) : v \in found}
          ELSE IF "priceBand" \in query.dimensions
            THEN {Bucket([priceBand |-> b], OfBand(b), query) :
                    b \in Holdings.priceBands}
          ELSE {Bucket(NoKey, Cardinality(found), query)}
    BY DEF LiveRows
  <2> HIDE DEF found, Sharing, OfBand
  <2>3. ASSUME NEW r \in LiveRows(query) PROVE DOMAIN r.k \subseteq columns
    <3>1. CASE breakdown # {}
      <4>1. PICK v \in found : r = Bucket(Key(v), Sharing(v), query)
        BY <2>2, <2>3, <3>1
      <4>2. r.k = Key(v)
        BY <2>1, <4>1
      <4> QED
        BY <4>2
    <3>2. CASE breakdown = {} /\ "priceBand" \in query.dimensions
      <4>1. PICK b \in Holdings.priceBands :
              r = Bucket([priceBand |-> b], OfBand(b), query)
        BY <2>2, <2>3, <3>2
      <4>2. r.k = [priceBand |-> b]
        BY <2>1, <4>1
      <4> QED
        BY <3>2, <4>2
    <3>3. CASE breakdown = {} /\ "priceBand" \notin query.dimensions
      BY <2>1, <2>2, <2>3, <3>3 DEF NoKey
    <3> QED
      BY <3>1, <3>2, <3>3
  <2>4. \/ \E code : ReadLiveFacets(query) = Failed(code)
        \/ ReadLiveFacets(query)
             = Answered(columns, query.metrics, LiveRows(query), FALSE, FALSE)
    BY DEF ReadLiveFacets
  <2> QED
    BY <2>3, <2>4, AnsweredIsColumned, FailedIsColumned
<1> QED
  BY <1>1, <1>2, <1>3, FailedIsColumned DEF CtNativeLive

LEMMA CubesAreColumned ==
  ASSUME NEW query, NEW stored, NEW cohort, NEW watermark
  PROVE  Columned(CtNativeAnswer(query, stored, cohort, watermark))
<1> DEFINE names == CubesFor(query.metrics, GroupDims(query))
           columns == GroupDims(query) \cup WithDate(query)
           snapshot == [query EXCEPT !.grain = Null,
                                     !.dimensions = GroupDims(query)]
<1>1. CASE names = {"customers-daily"}
  <2>1. PICK cells : CtNativeAnswer(query, stored, cohort, watermark)
                       = Answered(GroupDims(query), query.metrics,
                                  CellRows(cells, snapshot), FALSE, FALSE)
    BY <1>1 DEF CtNativeAnswer, SnapshotAnswer
  <2>2. /\ GroupDims(snapshot) \subseteq GroupDims(query)
        /\ WithDate(snapshot) \subseteq {"date"}
    BY DEF GroupDims, WithDate
  <2>3. \A r \in CellRows(cells, snapshot) :
          DOMAIN r.k \subseteq GroupDims(query) \cup {"date"}
    BY <2>2, CellKeys
  <2> QED
    BY <2>1, <2>3, AnsweredIsColumned
<1>2. CASE names # {"customers-daily"}
  <2>1. PICK partial : CtNativeAnswer(query, stored, cohort, watermark)
                         = Answered(columns, query.metrics,
                             CellRows(ReadDays(query, stored, names), query),
                             partial, partial)
    BY <1>2 DEF CtNativeAnswer
  <2>2. \A r \in CellRows(ReadDays(query, stored, names), query) :
          DOMAIN r.k \subseteq columns \cup {"date"}
    BY CellKeys
  <2> QED
    BY <2>1, <2>2, AnsweredIsColumned
<1> QED
  BY <1>1, <1>2

LEMMA SourceIsColumned ==
  ASSUME NEW sourceId, NEW query
  PROVE  Columned(SourceAnswer(sourceId, query))
<1>1. Columned(CtNativeRefusal(query))
  BY LiveIsColumned, FailedIsColumned DEF CtNativeRefusal
<1>2. Columned(WarehouseAnswer(query))
  <2> DEFINE columns == GroupDims(query) \cup WithDate(query)
             Shown(selected) ==
               {Row(r.k, KeyFor(r.k, columns), r.m) : r \in selected}
  <2>1. \/ \E code : WarehouseAnswer(query) = Failed(code)
        \/ \E selected :
             WarehouseAnswer(query) =
               Answered(columns, query.metrics, Shown(selected), FALSE, FALSE)
    BY DEF WarehouseAnswer
  <2>2. \A selected : \A s \in Shown(selected) :
          DOMAIN s.k \subseteq columns \cup {"date"}
    BY DEF Row, KeyFor
  <2> HIDE DEF Shown, columns
  <2>3. ASSUME NEW selected
        PROVE  Columned(Answered(columns, query.metrics, Shown(selected),
                                 FALSE, FALSE))
    BY <2>2, AnsweredIsColumned
  <2> QED
    BY <2>1, <2>3, FailedIsColumned
<1>3. Columned(ErpAnswer(query))
  <2>1. \/ \E code : ErpAnswer(query) = Failed(code)
        \/ \E columns, found :
             ErpAnswer(query) =
               Answered(columns, query.metrics,
                        Grouped(found, columns, query.metrics), FALSE, TRUE)
    BY DEF ErpAnswer
  <2> QED
    BY <2>1, GroupedKeys, AnsweredIsColumned, FailedIsColumned
<1>4. Columned(WebAnswer(query))
  BY GroupedKeys, AnsweredIsColumned, FailedIsColumned DEF WebAnswer
<1> QED
  BY <1>1, <1>2, <1>3, <1>4, FailedIsColumned DEF SourceAnswer

LEMMA VerifiedIsInScope ==
  ASSUME NEW answer, NEW scope, Columned(answer), VerifyScope(answer, scope),
         answer.rows # {} => "date" \notin DOMAIN scope
  PROVE  \A r \in answer.rows : InScope(r.k, scope)
<1> SUFFICES ASSUME NEW r \in answer.rows, NEW d \in DOMAIN scope
             PROVE  d # "date" /\ Value(r.k, d) \in scope[d] \cup {Null, OTHER_BUCKET}
  BY DEF InScope
<1>1. d # "date"
  OBVIOUS
<1>2. CASE d \in answer.columns
  <2>1. Value(r.k, d) = Null \/ r.k[d] \in scope[d]
    BY <1>2 DEF VerifyScope
  <2> QED
    BY <1>1, <2>1 DEF Value
<1>3. CASE d \notin answer.columns
  <2>1. d \notin DOMAIN r.k
    BY <1>1, <1>3 DEF Columned
  <2> QED
    BY <1>1, <2>1 DEF Value
<1> QED
  BY <1>2, <1>3

LEMMA AcceptsScope ==
  ASSUME NEW query, NEW descriptor,
         ValidateAgainstDescriptor(query, descriptor) = Null
  PROVE  DOMAIN query.scope \subseteq descriptor.rowLevelDimensions
<1>1. /\ "UNSUPPORTED_METRIC" # Null /\ "UNSUPPORTED_DIMENSION" # Null
      /\ "UNSUPPORTED_GRAIN" # Null /\ "SCOPE_UNSATISFIABLE" # Null
  BY ErrorAssumption DEF DSP_ERROR_CODES, CapabilityErrors
<1> QED
  BY <1>1 DEF ValidateAgainstDescriptor

(* A source that answers with a row has been asked to enforce no scope it  *)
(* cannot.                                                                 *)
LEMMA AcceptedScope ==
  ASSUME NEW s \in DOMAIN Descriptors, NEW query,
         ValidateAgainstDescriptor(query, Descriptors[s]) = Null
         \/ SourceAnswer(s, query).rows # {}
  PROVE  "date" \notin DOMAIN query.scope
<1>1. ValidateAgainstDescriptor(query, Descriptors[s]) = Null
  BY DEF SourceAnswer, Failed
<1> QED
  BY <1>1, AcceptsScope, DescriptorAssumption

-----------------------------------------------------------------------------
(* Merging keeps rows in scope.                                            *)

LEMMA RowIsKeyed ==
  ASSUME NEW id, NEW k, NEW m, NEW scope, InScope(k, scope)
  PROVE  Keyed(Row(id, k, m), scope)
BY DEF Keyed, Row

LEMMA ProjectionInScope ==
  ASSUME NEW k, NEW dimensions, NEW scope, InScope(k, scope)
  PROVE  InScope(KeyFor(k, dimensions), scope)
BY DEF InScope, KeyFor, Value

LEMMA CollapseIsKeyed ==
  ASSUME NEW rows, NEW joinKey, NEW metrics, NEW scope,
         \A r \in rows : InScope(r.k, scope)
  PROVE  AllKeyed(CollapseToJoinKey(rows, joinKey, metrics), scope)
<1> SUFFICES ASSUME NEW row \in CollapseToJoinKey(rows, joinKey, metrics)
             PROVE  Keyed(row, scope)
  BY DEF AllKeyed
<1> DEFINE key == [r \in rows |-> KeyFor(r.k, joinKey)]
           Key(group) == KeyFor((CHOOSE r \in group : TRUE).k, joinKey)
           GroupRow(group) ==
             IF Cardinality(group) = 1
               THEN Row(Key(group), Key(group), (CHOOSE r \in group : TRUE).m)
               ELSE Row(Key(group), Key(group),
                        [m \in metrics |-> Collapsed(group, m)])
           groups == {{r \in rows : key[r] = c} : c \in Range(key)}
<1>0. CollapseToJoinKey(rows, joinKey, metrics)
        = {GroupRow(group) : group \in groups}
  BY DEF CollapseToJoinKey, GroupsBy
<1>1. PICK group \in groups : row = GroupRow(group)
  BY <1>0
<1>2. PICK c \in Range(key) : group = {r \in rows : key[r] = c}
  BY <1>1
<1>3. group # {}
  BY <1>2 DEF Range
<1>4. (CHOOSE r \in group : TRUE) \in rows
  BY <1>2, <1>3
<1>5. InScope(Key(group), scope)
  BY <1>4, ProjectionInScope
<1>6. \/ row = Row(Key(group), Key(group), (CHOOSE r \in group : TRUE).m)
      \/ row = Row(Key(group), Key(group), [m \in metrics |-> Collapsed(group, m)])
  BY <1>1
<1> QED
  BY <1>5, <1>6, RowIsKeyed

LEMMA JoinIsKeyed ==
  ASSUME NEW some, NEW joinKey, NEW scope,
         \A a \in some : \A r \in a.rows : InScope(r.k, scope)
  PROVE  AllKeyed(FullOuterJoin(some, joinKey), scope)
<1> SUFFICES ASSUME NEW row \in FullOuterJoin(some, joinKey)
             PROVE  Keyed(row, scope)
  BY DEF AllKeyed
<1> DEFINE parts == UNION {CollapseToJoinKey(a.rows, joinKey, a.metrics) :
                             a \in some}
           key == [r \in parts |-> r.k]
<1>1. \A r \in parts : InScope(r.k, scope)
  <2> SUFFICES ASSUME NEW a \in some,
                      NEW r \in CollapseToJoinKey(a.rows, joinKey, a.metrics)
               PROVE  InScope(r.k, scope)
    OBVIOUS
  <2>1. \A s \in a.rows : InScope(s.k, scope)
    OBVIOUS
  <2>2. AllKeyed(CollapseToJoinKey(a.rows, joinKey, a.metrics), scope)
    BY <2>1, CollapseIsKeyed
  <2> QED
    BY <2>2 DEF AllKeyed, Keyed
<1> DEFINE Joined(group) ==
             [m \in UNION {DOMAIN r.m : r \in group} |->
                (CHOOSE r \in group : m \in DOMAIN r.m).m[m]]
           KeyOfGroup(group) == (CHOOSE r \in group : TRUE).k
           groups == {{r \in parts : key[r] = c} : c \in Range(key)}
<1>0. FullOuterJoin(some, joinKey)
        = {Row("joined", KeyOfGroup(group), Joined(group)) : group \in groups}
  BY DEF FullOuterJoin, GroupsBy
<1> HIDE DEF parts, Joined, KeyOfGroup
<1>2. PICK group \in groups : row = Row("joined", KeyOfGroup(group), Joined(group))
  BY <1>0
<1>3. PICK c \in Range(key) : group = {r \in parts : key[r] = c}
  BY <1>2
<1>4. group # {}
  BY <1>3 DEF Range
<1>5. (CHOOSE r \in group : TRUE) \in parts
  BY <1>3, <1>4
<1>6. InScope(KeyOfGroup(group), scope)
  BY <1>1, <1>5 DEF KeyOfGroup
<1> QED
  BY <1>2, <1>6, RowIsKeyed

LEMMA RollUpIsKeyed ==
  ASSUME NEW rows, NEW grain, NEW weekStart, NEW metrics, NEW scope,
         AllKeyed(rows, scope)
  PROVE  AllKeyed(RollUp(rows, grain, weekStart, metrics), scope)
<1> SUFFICES ASSUME NEW row \in RollUp(rows, grain, weekStart, metrics)
             PROVE  Keyed(row, scope)
  BY DEF AllKeyed
<1> DEFINE Bucketed(k) == [k EXCEPT !["date"] = BucketDay(@, grain, weekStart)]
           bucketed == {Row(r.k, Bucketed(r.k), r.m) :
                          r \in {s \in rows : s.k["date"] # Null}}
           key == [r \in bucketed |-> r.k]
<1>1. \A r \in bucketed : InScope(r.k, scope)
  <2> SUFFICES ASSUME NEW s \in rows
               PROVE  InScope(Bucketed(s.k), scope)
    BY DEF Row
  <2>1. InScope(s.k, scope)
    BY DEF AllKeyed, Keyed
  <2> QED
    BY <2>1 DEF InScope, Value
<1> DEFINE Rolled(group) ==
             [m \in metrics |->
                IF AddsUpOverTime(m) THEN SumOf(group, m) ELSE Null]
           KeyOfGroup(group) == (CHOOSE r \in group : TRUE).k
           groups == {{r \in bucketed : key[r] = c} : c \in Range(key)}
<1>0. RollUp(rows, grain, weekStart, metrics)
        = {Row("joined", KeyOfGroup(group), Rolled(group)) : group \in groups}
  BY DEF RollUp, GroupsBy
<1> HIDE DEF bucketed, Rolled, KeyOfGroup
<1>2. PICK group \in groups : row = Row("joined", KeyOfGroup(group), Rolled(group))
  BY <1>0
<1>3. PICK c \in Range(key) : group = {r \in bucketed : key[r] = c}
  BY <1>2
<1>4. group # {}
  BY <1>3 DEF Range
<1>5. (CHOOSE r \in group : TRUE) \in bucketed
  BY <1>3, <1>4
<1>6. InScope(KeyOfGroup(group), scope)
  BY <1>1, <1>5 DEF KeyOfGroup
<1> QED
  BY <1>2, <1>6, RowIsKeyed

LEMMA DerivedIsKeyed ==
  ASSUME NEW row, NEW derived, NEW scope, Keyed(row, scope)
  PROVE  Keyed(WithDerived(row, derived), scope)
BY DEF Keyed, WithDerived

LEMMA LargestAreRows ==
  ASSUME NEW rows, NEW metric, NEW n
  PROVE  Largest(rows, metric, n) \subseteq rows
BY DEF Largest

LEMMA TopIsKeyed ==
  ASSUME NEW rows, NEW top, NEW joinKey, NEW metrics, NEW derived, NEW scope,
         AllKeyed(rows, scope)
  PROVE  AllKeyed(TopN(rows, top, joinKey, metrics, derived), scope)
<1> DEFINE head == Largest(rows, top.by, Kept(top.n))
           tail == rows \ head
           other == OtherRow(tail, joinKey, metrics)
<1>1. AllKeyed(head, scope)
  BY LargestAreRows DEF AllKeyed
<1>2. CASE tail = {}
  BY <1>1, <1>2 DEF TopN
<1>3. CASE tail # {}
  <2>1. \A d \in DOMAIN scope : d # "date"
    BY <1>3 DEF AllKeyed, Keyed, InScope
  <2>2. PICK m : other = Row("rest",
                      [d \in joinKey |-> IF d = "date" THEN Null ELSE "__other__"], m)
    BY DEF OtherRow
  <2>3. Keyed(other, scope)
    BY <2>1, <2>2, RowIsKeyed DEF InScope, Value, OTHER_BUCKET
  <2>4. Keyed(WithDerived(other, derived), scope)
    BY <2>3, DerivedIsKeyed
  <2>5. TopN(rows, top, joinKey, metrics, derived)
          \subseteq head \cup {WithDerived(other, derived)}
    BY DEF TopN
  <2> QED
    BY <1>1, <2>4, <2>5 DEF AllKeyed
<1> QED
  BY <1>2, <1>3

LEMMA MergeIsKeyed ==
  ASSUME NEW some, NEW plan, NEW shape, NEW weekStart, NEW scope,
         \A a \in some : \A r \in a.rows : InScope(r.k, scope)
  PROVE  AllKeyed(MergeResults(some, plan, shape, weekStart).rows, scope)
<1> DEFINE joined == FullOuterJoin(some, plan.joinKey)
           rolled == IF NeedsRollUp(plan.effectiveGrain, plan.joinKey)
                       THEN RollUp(joined, plan.effectiveGrain, weekStart,
                                   plan.baseMetrics)
                       ELSE joined
           rows == {WithDerived(r, plan.derived) : r \in rolled}
           topped == IF shape.topN = Null THEN rows
                     ELSE TopN(rows, shape.topN, plan.joinKey,
                               plan.baseMetrics, plan.derived)
           kept == IF shape.limit = Null THEN topped
                   ELSE Largest(topped, shape.orderBy, Kept(shape.limit))
<1>1. MergeResults(some, plan, shape, weekStart).rows = kept
  BY DEF MergeResults
<1>2. AllKeyed(joined, scope)
  BY JoinIsKeyed
<1> HIDE DEF joined
<1>3. AllKeyed(rolled, scope)
  BY <1>2, RollUpIsKeyed
<1> HIDE DEF rolled
<1>4. AllKeyed(rows, scope)
  BY <1>3, DerivedIsKeyed DEF AllKeyed
<1> HIDE DEF rows
<1>5. AllKeyed(topped, scope)
  BY <1>4, TopIsKeyed
<1> HIDE DEF topped
<1>6. AllKeyed(kept, scope)
  BY <1>5, LargestAreRows DEF AllKeyed
<1> QED
  BY <1>1, <1>6

-----------------------------------------------------------------------------
(* Scope: every answer kept is within that of the subject.                 *)

LEMMA InitScopeInv == Init => ScopeInv
<1> SUFFICES ASSUME Init PROVE ScopeInv
  OBVIOUS
<1>1. RunInv
  BY InitRunInv
<1>2. PICK s \in Scenarios : request = s.request
  BY DEF Init
<1>3. answers = {} /\ shown = Null
  BY DEF Init
<1> QED
  BY <1>1, <1>2, <1>3, ScenarioAssumption DEF ScopeInv, AnswersInScope

LEMMA ReceivedInScope ==
  ASSUME ScopeInv, NEW q \in pending, Answering(q), NEW answer, NEW covers,
         Receives(q, answer, covers), Columned(answer),
         answer.rows # {} => "date" \notin DOMAIN q.scope
  PROVE  AnswersInScope(answers')
<1>1. q.scope = request.access.rowScope
  <2>1. /\ q \in Plan.subQueries /\ tile \in DOMAIN plans
        /\ plans = PlanReport(TheReport, request)
    BY DEF ScopeInv, RunInv, TileInv, PlansInv, Answering
  <2>2. Plan = PlanTile(TheReport.tiles[tile], TheReport, request)
    BY <2>1 DEF Plan, PlanReport
  <2>3. PlanOf(Plan, TheReport.tiles[tile], TheReport, request)
    BY <2>2, TilePlan
  <2> QED
    BY <2>1, <2>3, QueriesAreScoped
<1>2. CASE answers' = answers
  BY <1>2 DEF ScopeInv, AnswersInScope
<1>3. CASE VerifyScope(answer, q.scope)
  <2> DEFINE a == [query |-> q, answer |-> answer, covers |-> covers,
                   reads |-> orders, behind |-> BackDated]
  <2>1. answers' = answers \cup {a}
    BY <1>3 DEF Receives
  <2>2. a.answer = answer
    OBVIOUS
  <2>3. \A r \in answer.rows : InScope(r.k, request.access.rowScope)
    BY <1>1, <1>3, VerifiedIsInScope
  <2> HIDE DEF a
  <2> QED
    BY <2>1, <2>2, <2>3 DEF ScopeInv, AnswersInScope
<1> QED
  BY <1>2, <1>3 DEF Receives

LEMMA StepScopeInv == ScopeInv /\ [Next]_vars => ScopeInv'
<1> SUFFICES ASSUME ScopeInv, [Next]_vars PROVE ScopeInv'
  OBVIOUS
<1>1. RunInv' /\ request' = request
  BY StepRunInv, StepKeepsRequest DEF ScopeInv
<1> SUFFICES /\ AnswersInScope(answers')
             /\ shown' # Null => AnswersInScope(shown'.answers)
  BY <1>1 DEF ScopeInv, AnswersInScope
<1>2. ASSUME UNCHANGED <<answers, shown>>
      PROVE  /\ AnswersInScope(answers')
             /\ shown' # Null => AnswersInScope(shown'.answers)
  BY <1>2 DEF ScopeInv
<1>3. CASE Job
  BY <1>2, <1>3
     DEF Job, PlaceOrder, StartPass, RebuildDay, Publish, EndPass, runVars
<1>4. CASE Receive
  BY <1>2, <1>4 DEF Receive
<1>5. ASSUME NEW status, NEW result, Settle(status, result),
             result # Null => result.answers = answers
      PROVE  /\ AnswersInScope(answers')
             /\ shown' # Null => AnswersInScope(shown'.answers)
  BY <1>5 DEF Settle, ScopeInv, AnswersInScope
<1>6. CASE BeginTile
  BY <1>2, <1>5, <1>6 DEF BeginTile
<1>7. CASE Conclude
  <2> DEFINE result == [tile |-> tile, answers |-> answers,
                        merged |-> MergeResults(Arrived, Plan, TheTile, "monday")]
  <2>1. \/ Settle("unavailable", Null)
        \/ Settle(TileStatus(Arrived, Plan.subQueries), result)
    BY <1>7 DEF Conclude
  <2>2. result.answers = answers
    OBVIOUS
  <2> HIDE DEF result
  <2> QED
    BY <1>5, <2>1, <2>2
<1>8. CASE Finish
  BY <1>2, <1>8 DEF Finish
<1>9. ASSUME NEW q \in pending, AnswerQuery(q)
      PROVE  /\ AnswersInScope(answers')
             /\ shown' # Null => AnswersInScope(shown'.answers)
  <2> DEFINE answer == SourceAnswer(q.sourceId, q)
  <2>1. Answering(q) /\ Receives(q, answer, {})
    BY <1>9 DEF AnswerQuery
  <2>2. q.sourceId \in DOMAIN Descriptors
    BY <2>1 DEF Answering, ScopeInv
  <2>3. Columned(answer) /\ (answer.rows # {} => "date" \notin DOMAIN q.scope)
    BY <2>2, SourceIsColumned, AcceptedScope
  <2>4. AnswersInScope(answers')
    BY <2>1, <2>3, ReceivedInScope
  <2> QED
    BY <2>1, <2>4 DEF Receives, ScopeInv
<1>10. ASSUME NEW q \in pending, ReadCubes(q)
       PROVE  /\ AnswersInScope(answers')
              /\ shown' # Null => AnswersInScope(shown'.answers)
  <2> DEFINE answer == CtNativeAnswer(q, Partitions, Cohort, seen.watermark)
  <2>1. Answering(q) /\ Receives(q, answer, Vouched(seen)) /\ FromCubes(q)
    BY <1>10 DEF ReadCubes
  <2>2. q.sourceId \in DOMAIN Descriptors
    BY <2>1 DEF Answering, ScopeInv
  <2>3. Columned(answer) /\ (answer.rows # {} => "date" \notin DOMAIN q.scope)
    BY <2>1, <2>2, CubesAreColumned, AcceptedScope DEF FromCubes
  <2>4. AnswersInScope(answers')
    BY <2>1, <2>3, ReceivedInScope
  <2> QED
    BY <2>1, <2>4 DEF Receives, ScopeInv
<1>11. ASSUME NEW q \in pending, ReadWatermark(q) \/ LoseQuery(q)
       PROVE  /\ AnswersInScope(answers')
              /\ shown' # Null => AnswersInScope(shown'.answers)
  BY <1>2, <1>11 DEF ReadWatermark, LoseQuery
<1>12. CASE UNCHANGED vars
  BY <1>2, <1>12 DEF vars
<1> QED
  BY <1>3, <1>4, <1>6, <1>7, <1>8, <1>9, <1>10, <1>11, <1>12 DEF Next, Run

LEMMA ShownIsInScope ==
  ASSUME ScopeInv, shown # Null
  PROVE  \A r \in shown.merged.rows : InScope(r.k, request.access.rowScope)
<1> DEFINE scope == request.access.rowScope
           arrived == ArrivedOf(shown.answers)
           plan == plans[shown.tile]
           shape == TheReport.tiles[shown.tile]
<1>1. shown.merged = MergeResults(arrived, plan, shape, "monday")
  BY DEF ScopeInv, RunInv, ShownInv
<1>2. \A a \in arrived : \A r \in a.rows : InScope(r.k, scope)
  BY DEF ScopeInv, AnswersInScope, ArrivedOf
<1> HIDE DEF arrived, plan, shape, scope
<1>3. AllKeyed(MergeResults(arrived, plan, shape, "monday").rows, scope)
  BY <1>2, MergeIsKeyed
<1> QED
  BY <1>1, <1>3 DEF AllKeyed, Keyed, scope

(* Whatever the report, the scope of the subject and what the sources      *)
(* hold: every row a tile shows is within the scope, though some sources   *)
(* restrict nothing, and whatever merging makes of their rows.             *)
THEOREM RowsStayInScope == Spec => []ShownRowsAreInScope
<1>1. ScopeInv => ShownRowsAreInScope
  BY ShownIsInScope DEF ShownRowsAreInScope, InScope
<1> QED
  BY <1>1, InitScopeInv, StepScopeInv, PTL DEF Spec

-----------------------------------------------------------------------------
(* Sums.  What holds of {} and is kept by adding an element holds of every *)
(* finite set; so the sum over a finite set exists, there is one, and it   *)
(* can be taken element by element or group by group.                      *)

LEMMA SubsetInduction ==
  ASSUME NEW S, IsFiniteSet(S), NEW T,
         {} \in T,
         \A A \in SUBSET S : \A x \in S \ A : A \in T => A \cup {x} \in T
  PROVE  SUBSET S \subseteq T
<1> DEFINE R == StrictSubsetOrdering(S)
           F == FiniteSubsetsOf(S)
           Left == F \ T
<1>1. F = SUBSET S
  BY FS_FiniteSubsetsOfFinite
<1>2. SUFFICES ASSUME Left # {} PROVE FALSE
  BY <1>1
<1>3. IsWellFoundedOn(R, F)
  BY FS_StrictSubsetOrderingWellFounded
<1>4. Left \subseteq F
  OBVIOUS
<1> HIDE DEF R, F
<1>5. PICK A \in Left : \A B \in Left : ~ (<<B, A>> \in R)
  <2> HIDE DEF Left
  <2> QED
  BY <1>2, <1>3, <1>4, WFMin
<1>6. A # {}
  BY <1>5
<1>7. PICK x \in A : TRUE
  BY <1>6
<1>8. A \ {x} \in T
  <2> DEFINE B == A \ {x}
  <2>1. A \in SUBSET S /\ B \in SUBSET S /\ B \subseteq A /\ B # A
    BY <1>1, <1>5, <1>7
  <2>2. <<B, A>> \in R
    BY <2>1, Zenon DEF R, StrictSubsetOrdering
  <2> QED
    BY <1>1, <1>5, <2>1, <2>2
<1>9. (A \ {x}) \cup {x} = A
  BY <1>7
<1> QED
  BY <1>1, <1>5, <1>7, <1>8, <1>9

LEMMA SumExists ==
  ASSUME NEW S, IsFiniteSet(S), NEW f, \A x \in S : f[x] \in Int
  PROVE  \E g \in [SUBSET S -> Int] : \A s \in SUBSET S : Adds(f, g, s)
<1> DEFINE Upto(A, g) ==
             \A s \in SUBSET S : Cardinality(s) <= Cardinality(A) => Adds(f, g, s)
           T == {A \in SUBSET S : \E g \in [SUBSET S -> Int] : Upto(A, g)}
<1>0. \A s \in SUBSET S : IsFiniteSet(s) /\ Cardinality(s) \in Nat
  BY FS_Subset, FS_CardinalityType
<1>1. {} \in T
  <2> DEFINE z == [s \in SUBSET S |-> 0]
  <2>1. z \in [SUBSET S -> Int]
    OBVIOUS
  <2>2. Upto({}, z)
    BY <1>0, FS_EmptySet DEF Adds
  <2> QED
    BY <2>1, <2>2
<1>2. ASSUME NEW A \in SUBSET S, NEW x \in S \ A, A \in T
      PROVE  A \cup {x} \in T
  <2>1. PICK g \in [SUBSET S -> Int] : Upto(A, g)
    BY <1>2
  <2> DEFINE n == Cardinality(A)
             h == [s \in SUBSET S |->
                     IF Cardinality(s) <= n THEN g[s]
                     ELSE f[Picked(s)] + g[s \ {Picked(s)}]]
  <2>2. n \in Nat /\ Cardinality(A \cup {x}) = n + 1
    BY <1>0, FS_AddElement
  <2>3. \A s \in SUBSET S : s # {} => Picked(s) \in s
    BY DEF Picked
  <2>4. h \in [SUBSET S -> Int]
    <3>1. ASSUME NEW s \in SUBSET S PROVE h[s] \in Int
      <4>1. CASE Cardinality(s) <= n
        BY <4>1
      <4>2. CASE ~(Cardinality(s) <= n)
        <5>1. s # {}
          <6>1. Cardinality({}) = 0
            BY FS_EmptySet
          <6>2. ASSUME s = {} PROVE Cardinality(s) = 0
            BY <6>1, <6>2, Zenon
          <6> QED
            BY <4>2, <2>2, <6>2
        <5>2. Picked(s) \in S /\ s \ {Picked(s)} \in SUBSET S
          BY <5>1, <2>3
        <5> QED
          BY <4>2, <5>2
      <4> QED
        BY <4>1, <4>2
    <3> QED
      BY <3>1
  <2>5. ASSUME NEW s \in SUBSET S, Cardinality(s) <= n + 1
        PROVE  Adds(f, h, s)
    <3> DEFINE r == s \ {Picked(s)}
    <3>1. CASE s = {}
      <4>1. Cardinality(s) <= n
        BY <3>1, <2>2, FS_EmptySet
      <4> QED
        BY <4>1, <2>1, <3>1 DEF Adds
    <3>2. CASE s # {}
      <4>1. Picked(s) \in s /\ r \in SUBSET S /\ Cardinality(r) = Cardinality(s) - 1
        BY <3>2, <2>3, <1>0, FS_RemoveElement
      <4>2. Cardinality(r) <= n /\ h[r] = g[r]
        BY <4>1, <2>5, <2>2, <1>0
      <4>3. h[s] = f[Picked(s)] + g[r]
        <5>1. CASE Cardinality(s) <= n
          BY <5>1, <2>1, <3>2 DEF Adds
        <5>2. CASE ~(Cardinality(s) <= n)
          BY <5>2
        <5> QED
          BY <5>1, <5>2
      <4> QED
        BY <4>2, <4>3, <3>2 DEF Adds
    <3> QED
      BY <3>1, <3>2
  <2> QED
    BY <2>2, <2>4, <2>5
<1> HIDE DEF T
<1>3. SUBSET S \subseteq T
  BY <1>1, <1>2, SubsetInduction
<1>4. S \in T
  BY <1>3
<1>5. \A s \in SUBSET S : Cardinality(s) <= Cardinality(S)
  BY FS_Subset
<1> QED
  BY <1>4, <1>5 DEF T

LEMMA SumIsTally ==
  ASSUME NEW S, NEW f
  PROVE  SumFunctionOnSet(f, S) = Tally(f, S)[S]
  BY DEF SumFunctionOnSet, FoldFunctionOnSet, MapThenFoldSet, Tally, Picked

(* There is one way to add up.                                             *)
LEMMA SumIsUnique ==
  ASSUME NEW S, IsFiniteSet(S), NEW f, NEW g, NEW h,
         \A s \in SUBSET S : Adds(f, g, s) /\ Adds(f, h, s)
  PROVE  \A s \in SUBSET S : g[s] = h[s]
<1> DEFINE Small(A) ==
             \A s \in SUBSET S : Cardinality(s) <= Cardinality(A) => g[s] = h[s]
           T == {A \in SUBSET S : Small(A)}
<1>0. \A s \in SUBSET S : IsFiniteSet(s) /\ Cardinality(s) \in Nat
  BY FS_Subset, FS_CardinalityType
<1>1. {} \in T
  <2>1. ASSUME NEW s \in SUBSET S, Cardinality(s) <= Cardinality({})
        PROVE  g[s] = h[s]
    <3>1. s = {}
      BY <1>0, <2>1, FS_EmptySet
    <3> QED
      BY <3>1 DEF Adds
  <2> QED
    BY <2>1
<1>2. ASSUME NEW A \in SUBSET S, NEW x \in S \ A, A \in T
      PROVE  A \cup {x} \in T
  <2>1. Cardinality(A) \in Nat /\ Cardinality(A \cup {x}) = Cardinality(A) + 1
    BY <1>0, FS_AddElement
  <2>2. ASSUME NEW s \in SUBSET S, Cardinality(s) <= Cardinality(A) + 1
        PROVE  g[s] = h[s]
    <3> DEFINE r == s \ {Picked(s)}
    <3>1. CASE s = {}
      BY <3>1 DEF Adds
    <3>2. CASE s # {}
      <4>1. Picked(s) \in s
        BY <3>2 DEF Picked
      <4>2. r \in SUBSET S /\ Cardinality(r) = Cardinality(s) - 1
        BY <4>1, <1>0, FS_RemoveElement
      <4>3. g[r] = h[r]
        BY <1>2, <4>2, <2>1, <2>2, <1>0
      <4> QED
        BY <3>2, <4>3 DEF Adds
    <3> QED
      BY <3>1, <3>2
  <2> QED
    BY <2>1, <2>2
<1> HIDE DEF T
<1>3. SUBSET S \subseteq T
  BY <1>1, <1>2, SubsetInduction
<1>4. S \in T
  BY <1>3
<1>5. \A s \in SUBSET S : Cardinality(s) <= Cardinality(S)
  BY FS_Subset
<1> QED
  BY <1>4, <1>5 DEF T

LEMMA TallyAdds ==
  ASSUME NEW S, IsFiniteSet(S), NEW f, \A x \in S : f[x] \in Int
  PROVE  /\ Tally(f, S) \in [SUBSET S -> Int]
         /\ \A s \in SUBSET S : Adds(f, Tally(f, S), s)
<1>0. \A g, h : (\A s \in SUBSET S : Adds(f, g, s) /\ Adds(f, h, s))
                => \A s \in SUBSET S : g[s] = h[s]
  <2> TAKE g, h
  <2> HAVE \A s \in SUBSET S : Adds(f, g, s) /\ Adds(f, h, s)
  <2> QED
    BY SumIsUnique
<1> DEFINE t == Tally(f, S)
           Sums(g) == [s \in SUBSET S |->
                         IF s = {} THEN 0
                         ELSE f[Picked(s)] + g[s \ {Picked(s)}]]
<1>1. PICK g \in [SUBSET S -> Int] : \A s \in SUBSET S : Adds(f, g, s)
  BY SumExists
<1>2. g = Sums(g)
  BY <1>1 DEF Adds
<1>3. t = Sums(t)
  BY <1>2 DEF Tally
<1>4. \A s \in SUBSET S : Adds(f, t, s)
  BY <1>3 DEF Adds
<1>5. \A s \in SUBSET S : g[s] = t[s]
  <2>1. \A s \in SUBSET S : Adds(f, g, s) /\ Adds(f, t, s)
    BY <1>1, <1>4
  <2> QED
    BY <2>1, <1>0
<1>6. t \in [SUBSET S -> Int]
  <2> HIDE DEF t
  <2>1. DOMAIN Sums(t) = SUBSET S
    OBVIOUS
  <2> QED
    BY <1>1, <1>3, <1>5
<1> QED
  BY <1>4, <1>6

(* A sum is that of one of its terms and of the others.                    *)
LEMMA SumSplits ==
  ASSUME NEW S, IsFiniteSet(S), NEW f, \A x \in S : f[x] \in Int
  PROVE  /\ SumFunctionOnSet(f, S) \in Int
         /\ \A A \in SUBSET S : SumFunctionOnSet(f, A) = Tally(f, S)[A]
<1>1. ASSUME NEW A \in SUBSET S
      PROVE  SumFunctionOnSet(f, A) = Tally(f, S)[A]
  <2>1. IsFiniteSet(A)
    BY FS_Subset
  <2>2. \A s \in SUBSET A : Adds(f, Tally(f, A), s) /\ Adds(f, Tally(f, S), s)
    BY <2>1, TallyAdds
  <2>3. Tally(f, A)[A] = Tally(f, S)[A]
    BY <2>1, <2>2, SumIsUnique
  <2> QED
    BY <2>3, SumIsTally
<1>2. S \in SUBSET S /\ Tally(f, S) \in [SUBSET S -> Int]
  BY TallyAdds
<1>3. SumFunctionOnSet(f, S) \in Int
  BY <1>1, <1>2
<1> QED
  BY <1>1, <1>3

LEMMA SumOfNone ==
  ASSUME NEW f
  PROVE  SumFunctionOnSet(f, {}) = 0
<1>1. IsFiniteSet({})
  BY FS_EmptySet
<1>2. Adds(f, Tally(f, {}), {})
  BY <1>1, TallyAdds
<1> QED
  BY <1>2, SumIsTally DEF Adds

LEMMA SumTakesOne ==
  ASSUME NEW S, IsFiniteSet(S), NEW f, \A y \in S : f[y] \in Int, NEW x \in S
  PROVE  SumFunctionOnSet(f, S) = f[x] + SumFunctionOnSet(f, S \ {x})
<1> DEFINE t == Tally(f, S)
           T == {A \in SUBSET S : \A y \in A : t[A] = f[y] + t[A \ {y}]}
<1>0. /\ t \in [SUBSET S -> Int] /\ \A s \in SUBSET S : Adds(f, t, s)
      /\ \A A \in SUBSET S : SumFunctionOnSet(f, A) = t[A]
  BY TallyAdds, SumSplits
<1> HIDE DEF t
<1> DEFINE Small(A) ==
             \A B \in SUBSET S : Cardinality(B) <= Cardinality(A) => B \in T
           U == {A \in SUBSET S : Small(A)}
<1>1. \A s \in SUBSET S : IsFiniteSet(s) /\ Cardinality(s) \in Nat
  BY FS_Subset, FS_CardinalityType
<1>2. {} \in U
  <2>1. ASSUME NEW B \in SUBSET S, Cardinality(B) <= Cardinality({})
        PROVE  B \in T
    <3>1. B = {}
      BY <1>1, <2>1, FS_EmptySet
    <3> QED
      BY <3>1
  <2> QED
    BY <2>1
<1>3. ASSUME NEW A \in SUBSET S, NEW z \in S \ A, A \in U
      PROVE  A \cup {z} \in U
  <2>1. Cardinality(A) \in Nat /\ Cardinality(A \cup {z}) = Cardinality(A) + 1
    BY <1>1, FS_AddElement
  <2>2. ASSUME NEW B \in SUBSET S, Cardinality(B) <= Cardinality(A) + 1,
               NEW y \in B
        PROVE  t[B] = f[y] + t[B \ {y}]
    <3> DEFINE p == Picked(B)
    <3>1. p \in B /\ t[B] = f[p] + t[B \ {p}]
      BY <1>0, <2>2 DEF Adds, Picked
    <3> HIDE DEF p
    <3>2. CASE p = y
      BY <3>1, <3>2
    <3>3. CASE p # y
      <4> DEFINE Bp == B \ {p}
                 By == B \ {y}
                 R == (B \ {p}) \ {y}
      <4>1. /\ Bp \in SUBSET S /\ By \in SUBSET S
            /\ Cardinality(Bp) = Cardinality(B) - 1
            /\ Cardinality(By) = Cardinality(B) - 1
        BY <1>1, <3>1, FS_RemoveElement
      <4>2. Bp \in T /\ By \in T
        <5>1. /\ Cardinality(Bp) <= Cardinality(A)
              /\ Cardinality(By) <= Cardinality(A)
          BY <4>1, <2>1, <2>2, <1>1
        <5>2. Small(A)
          BY <1>3
        <5> HIDE DEF T, Bp, By
        <5> QED
          BY <4>1, <5>1, <5>2
      <4>3. R = By \ {p} /\ R = Bp \ {y} /\ y \in Bp /\ p \in By /\ R \in SUBSET S
        BY <3>1, <3>3
      <4>4. t[Bp] = f[y] + t[R] /\ t[By] = f[p] + t[R]
        BY <4>2, <4>3
      <4>5. t[R] \in Int /\ f[p] \in Int /\ f[y] \in Int
        BY <1>0, <4>3, <3>1
      <4> QED
        BY <3>1, <4>4, <4>5
    <3> QED
      BY <3>2, <3>3
  <2> QED
    BY <2>1, <2>2
<1> HIDE DEF U
<1>4. SUBSET S \subseteq U
  BY <1>2, <1>3, SubsetInduction
<1>5. S \in T
  BY <1>4, FS_Subset DEF U
<1> QED
  BY <1>0, <1>5

(* What all subsets built one element at a time have, a finite set has.    *)
LEMMA SumIsSame ==
  ASSUME NEW S, IsFiniteSet(S), NEW f, NEW g,
         \A x \in S : f[x] \in Int /\ f[x] = g[x]
  PROVE  SumFunctionOnSet(f, S) = SumFunctionOnSet(g, S)
<1>1. \A s \in SUBSET S : Adds(f, Tally(f, S), s) /\ Adds(g, Tally(g, S), s)
  <2>1. \A x \in S : g[x] \in Int
    OBVIOUS
  <2> QED
    BY <2>1, TallyAdds
<1>2. \A s \in SUBSET S : s # {} => Picked(s) \in S /\ f[Picked(s)] = g[Picked(s)]
  BY DEF Picked
<1>3. \A s \in SUBSET S : Adds(f, Tally(f, S), s) /\ Adds(f, Tally(g, S), s)
  BY <1>1, <1>2 DEF Adds
<1>4. S \in SUBSET S
  OBVIOUS
<1>5. Tally(f, S)[S] = Tally(g, S)[S]
  <2>1. \A u, v : (\A s \in SUBSET S : Adds(f, u, s) /\ Adds(f, v, s))
                 => \A s \in SUBSET S : u[s] = v[s]
    <3> TAKE u, v
    <3> HAVE \A s \in SUBSET S : Adds(f, u, s) /\ Adds(f, v, s)
    <3> QED
      BY SumIsUnique
  <2> QED
    BY <1>3, <1>4, <2>1
<1> QED
  BY <1>5, SumIsTally

LEMMA SumAddsOne ==
  ASSUME NEW S, IsFiniteSet(S), NEW x, x \notin S, NEW f, f[x] \in Int,
         \A y \in S : f[y] \in Int
  PROVE  /\ IsFiniteSet(S \cup {x})
         /\ SumFunctionOnSet(f, S \cup {x}) = f[x] + SumFunctionOnSet(f, S)
<1>1. IsFiniteSet(S \cup {x}) /\ (S \cup {x}) \ {x} = S /\ x \in S \cup {x}
  BY FS_AddElement
<1>2. \A y \in S \cup {x} : f[y] \in Int
  OBVIOUS
<1> DEFINE T == S \cup {x}
<1>3. IsFiniteSet(T) /\ T \ {x} = S /\ x \in T /\ \A y \in T : f[y] \in Int
  BY <1>1, <1>2
<1> HIDE DEF T
<1>4. SumFunctionOnSet(f, T) = f[x] + SumFunctionOnSet(f, S)
  BY <1>3, SumTakesOne
<1> QED
  BY <1>1, <1>4 DEF T

(* Two functions that differ in one place.                                 *)
LEMMA SumChanges ==
  ASSUME NEW T, IsFiniteSet(T), NEW t \in T, NEW f, NEW g,
         \A u \in T : f[u] \in Int /\ g[u] \in Int,
         \A u \in T \ {t} : f[u] = g[u]
  PROVE  SumFunctionOnSet(g, T) = SumFunctionOnSet(f, T) + (g[t] - f[t])
<1> DEFINE R == T \ {t}
<1>1. IsFiniteSet(R)
  BY FS_RemoveElement
<1>2. SumFunctionOnSet(f, R) = SumFunctionOnSet(g, R)
  BY <1>1, SumIsSame
<1>3. /\ SumFunctionOnSet(f, T) = f[t] + SumFunctionOnSet(f, R)
      /\ SumFunctionOnSet(g, T) = g[t] + SumFunctionOnSet(g, R)
  BY SumTakesOne
<1>4. SumFunctionOnSet(f, R) \in Int /\ f[t] \in Int /\ g[t] \in Int
  BY <1>1, SumSplits
<1> HIDE DEF R
<1> QED
  BY <1>2, <1>3, <1>4

LEMMA SumOfZeroes ==
  ASSUME NEW S, IsFiniteSet(S), NEW f, \A x \in S : f[x] = 0
  PROVE  SumFunctionOnSet(f, S) = 0
<1> DEFINE T == {A \in SUBSET S : SumFunctionOnSet(f, A) = 0}
<1>1. {} \in T
  BY SumOfNone
<1>2. ASSUME NEW A \in SUBSET S, NEW x \in S \ A, A \in T
      PROVE  A \cup {x} \in T
  <2>1. IsFiniteSet(A)
    BY FS_Subset
  <2>2. SumFunctionOnSet(f, A \cup {x}) = f[x] + SumFunctionOnSet(f, A)
    <3>1. \A y \in A \cup {x} : f[y] \in Int
      OBVIOUS
    <3> QED
      BY <2>1, <3>1, SumAddsOne
  <2> QED
    BY <1>2, <2>2
<1> HIDE DEF T
<1>3. SUBSET S \subseteq T
  BY <1>1, <1>2, SubsetInduction
<1> QED
  BY <1>3 DEF T

(* Adding up group by group.                                               *)
LEMMA SumByGroup ==
  ASSUME NEW S, IsFiniteSet(S), NEW f, \A x \in S : f[x] \in Int,
         NEW T, IsFiniteSet(T), NEW group, \A t \in T : group[t] \subseteq S,
         \A x \in S : \E t \in T : x \in group[t],
         \A t, u \in T : \A x \in S : x \in group[t] /\ x \in group[u] => t = u,
         NEW g, \A t \in T : g[t] = SumFunctionOnSet(f, group[t])
  PROVE  SumFunctionOnSet(g, T) = SumFunctionOnSet(f, S)
<1> DEFINE key == [x \in S |-> CHOOSE t \in T : x \in group[t]]
<1>k. \A x \in S : key[x] \in T /\ x \in group[key[x]]
  OBVIOUS
<1> HIDE DEF key
<1>g. \A t \in T : group[t] = {x \in S : key[x] = t}
  BY <1>k
<1> DEFINE In(A, t) == {x \in A : key[x] = t}
           By(A) == [t \in T |-> SumFunctionOnSet(f, In(A, t))]
           U == {A \in SUBSET S :
                   SumFunctionOnSet(By(A), T) = SumFunctionOnSet(f, A)}
<1>0. ASSUME NEW A \in SUBSET S
      PROVE  /\ IsFiniteSet(A) /\ SumFunctionOnSet(f, A) \in Int
             /\ \A t \in T : IsFiniteSet(In(A, t)) /\ By(A)[t] \in Int
  <2>1. IsFiniteSet(A) /\ SumFunctionOnSet(f, A) \in Int
    BY FS_Subset, SumSplits
  <2>2. ASSUME NEW t \in T PROVE IsFiniteSet(In(A, t)) /\ By(A)[t] \in Int
    <3>1. In(A, t) \subseteq A /\ \A x \in In(A, t) : f[x] \in Int
      OBVIOUS
    <3>2. IsFiniteSet(In(A, t))
      BY <2>1, <3>1, FS_Subset
    <3>3. SumFunctionOnSet(f, In(A, t)) \in Int
      BY <3>1, <3>2, SumSplits
    <3> QED
      BY <3>2, <3>3
  <2> QED
    BY <2>1, <2>2
<1>1. {} \in U
  <2>1. \A t \in T : In({}, t) = {}
    OBVIOUS
  <2>2. \A t \in T : By({})[t] = 0
    BY <2>1, SumOfNone
  <2>3. SumFunctionOnSet(By({}), T) = 0
    BY <2>2, SumOfZeroes
  <2> QED
    BY <2>3, SumOfNone
<1>2. ASSUME NEW A \in SUBSET S, NEW x \in S \ A, A \in U
      PROVE  A \cup {x} \in U
  <2> DEFINE B == A \cup {x}
             p == key[x]
  <2>1. p \in T /\ f[x] \in Int /\ B \in SUBSET S
    BY <1>k
  <2>2. \A t \in T \ {p} : In(B, t) = In(A, t)
    OBVIOUS
  <2>3. In(B, p) = In(A, p) \cup {x} /\ x \notin In(A, p)
    OBVIOUS
  <2>4. By(B)[p] = f[x] + By(A)[p]
    <3>1. IsFiniteSet(In(A, p)) /\ \A y \in In(A, p) : f[y] \in Int
      BY <1>0, <2>1
    <3>2. SumFunctionOnSet(f, In(A, p) \cup {x}) = f[x] + SumFunctionOnSet(f, In(A, p))
      BY <2>1, <2>3, <3>1, SumAddsOne
    <3> QED
      BY <2>1, <2>3, <3>2
  <2>5. \A t \in T \ {p} : By(A)[t] = By(B)[t]
    BY <2>2
  <2>6. \A t \in T : By(A)[t] \in Int /\ By(B)[t] \in Int
    BY <1>0, <2>1
  <2>7. SumFunctionOnSet(f, B) = f[x] + SumFunctionOnSet(f, A)
    BY <1>0, SumAddsOne
  <2>8. SumFunctionOnSet(By(A), T) = SumFunctionOnSet(f, A)
    BY <1>2
  <2>9. SumFunctionOnSet(f, A) \in Int
    BY <1>0
  <2> HIDE DEF By, In, B, p
  <2>10. SumFunctionOnSet(By(B), T) = SumFunctionOnSet(By(A), T) + (By(B)[p] - By(A)[p])
    BY <2>1, <2>5, <2>6, SumChanges
  <2>11. SumFunctionOnSet(By(B), T) = SumFunctionOnSet(f, B)
    BY <2>1, <2>4, <2>6, <2>7, <2>8, <2>9, <2>10
  <2> QED
    BY <2>1, <2>11 DEF B
<1>3. SUBSET S \subseteq U
  <2> HIDE DEF U
  <2> QED
    BY <1>1, <1>2, SubsetInduction
<1>4. SumFunctionOnSet(By(S), T) = SumFunctionOnSet(f, S)
  BY <1>3
<1>5. \A t \in T : By(S)[t] \in Int /\ By(S)[t] = g[t]
  BY <1>0, <1>g
<1>6. SumFunctionOnSet(By(S), T) = SumFunctionOnSet(g, T)
  <2> HIDE DEF By
  <2> QED
    BY <1>5, SumIsSame
<1> QED
  BY <1>4, <1>6

(* A set counts its elements, each once.                                   *)
LEMMA SumOfOnes ==
  ASSUME NEW S, IsFiniteSet(S), NEW f, \A x \in S : f[x] = 1
  PROVE  SumFunctionOnSet(f, S) = Cardinality(S)
<1> DEFINE T == {A \in SUBSET S : SumFunctionOnSet(f, A) = Cardinality(A)}
<1>1. {} \in T
  BY SumOfNone, FS_EmptySet
<1>2. ASSUME NEW A \in SUBSET S, NEW x \in S \ A, A \in T
      PROVE  A \cup {x} \in T
  <2>1. IsFiniteSet(A)
    BY FS_Subset
  <2>2. SumFunctionOnSet(f, A \cup {x}) = f[x] + SumFunctionOnSet(f, A)
    BY <2>1, SumAddsOne
  <2>3. Cardinality(A \cup {x}) = Cardinality(A) + 1 /\ Cardinality(A) \in Nat
    BY <2>1, FS_AddElement, FS_CardinalityType
  <2> QED
    BY <1>2, <2>2, <2>3
<1>3. SUBSET S \subseteq T
  <2> HIDE DEF T
  <2> QED
    BY <1>1, <1>2, SubsetInduction
<1> QED
  BY <1>3

(* A sum of terms no larger is no larger.                                  *)
LEMMA SumIsMonotone ==
  ASSUME NEW S, IsFiniteSet(S), NEW f, NEW g,
         \A x \in S : f[x] \in Int /\ g[x] \in Int /\ f[x] <= g[x]
  PROVE  SumFunctionOnSet(f, S) <= SumFunctionOnSet(g, S)
<1> DEFINE T == {A \in SUBSET S : SumFunctionOnSet(f, A) <= SumFunctionOnSet(g, A)}
<1>1. {} \in T
  BY SumOfNone
<1>2. ASSUME NEW A \in SUBSET S, NEW x \in S \ A, A \in T
      PROVE  A \cup {x} \in T
  <2>1. IsFiniteSet(A) /\ \A y \in A : f[y] \in Int /\ g[y] \in Int
    BY FS_Subset
  <2>2. /\ SumFunctionOnSet(f, A \cup {x}) = f[x] + SumFunctionOnSet(f, A)
        /\ SumFunctionOnSet(g, A \cup {x}) = g[x] + SumFunctionOnSet(g, A)
    BY <2>1, SumAddsOne
  <2>3. SumFunctionOnSet(f, A) \in Int /\ SumFunctionOnSet(g, A) \in Int
    BY <2>1, SumSplits
  <2> QED
    BY <1>2, <2>2, <2>3
<1>3. SUBSET S \subseteq T
  <2> HIDE DEF T
  <2> QED
    BY <1>1, <1>2, SubsetInduction
<1> QED
  BY <1>3

-----------------------------------------------------------------------------
(* First orders and facts                                                  *)

(* A finite set of integers has a largest one.                             *)
LEMMA LargestExists ==
  ASSUME NEW S \in SUBSET Int, IsFiniteSet(S), S # {}
  PROVE  \E m \in S : \A n \in S : n <= m
<1> DEFINE Has(A) == A = {} \/ \E m \in A : \A n \in A : n <= m
           T == {A \in SUBSET S : Has(A)}
<1>1. {} \in T
  OBVIOUS
<1>2. ASSUME NEW A \in SUBSET S, NEW x \in S \ A, A \in T
      PROVE  A \cup {x} \in T
  <2>1. CASE A = {}
    BY <2>1
  <2>2. CASE \E m \in A : \A n \in A : n <= m
    <3>1. PICK m \in A : \A n \in A : n <= m
      BY <2>2
    <3>2. CASE x <= m
      BY <3>1, <3>2
    <3>3. CASE ~(x <= m)
      <4>1. \A n \in A \cup {x} : n <= x
        BY <3>1, <3>3
      <4> QED
        BY <4>1
    <3> QED
      BY <3>2, <3>3
  <2> QED
    BY <1>2, <2>1, <2>2
<1>3. SUBSET S \subseteq T
  <2> HIDE DEF T
  <2> QED
    BY <1>1, <1>2, SubsetInduction
<1> QED
  BY <1>3

(* A customer who has ordered has a first order.                           *)
LEMMA FirstExists ==
  ASSUME NEW facts, IsFiniteSet(facts), facts # {}, Dated(facts)
  PROVE  /\ FirstOrder(facts) \in facts
         /\ \A g \in facts : Earlier(FirstOrder(facts), g)
<1> DEFINE Has(A) == A = {} \/ \E f \in A : \A g \in A : Earlier(f, g)
           T == {A \in SUBSET facts : Has(A)}
<1>1. {} \in T
  OBVIOUS
<1>2. ASSUME NEW A \in SUBSET facts, NEW x \in facts \ A, A \in T
      PROVE  A \cup {x} \in T
  <2>1. CASE A = {}
    BY <2>1 DEF Dated, Earlier
  <2>2. CASE \E f \in A : \A g \in A : Earlier(f, g)
    <3>1. PICK f \in A : \A g \in A : Earlier(f, g)
      BY <2>2
    <3>2. CASE Earlier(f, x)
      BY <3>1, <3>2
    <3>3. CASE ~Earlier(f, x)
      <4>1. \A g \in A \cup {x} : Earlier(x, g)
        BY <3>1, <3>3 DEF Dated, Earlier
      <4> QED
        BY <4>1
    <3> QED
      BY <3>2, <3>3
  <2> QED
    BY <1>2, <2>1, <2>2
<1>3. SUBSET facts \subseteq T
  <2> HIDE DEF T
  <2> QED
    BY <1>1, <1>2, SubsetInduction
<1>4. \E f \in facts : \A g \in facts : Earlier(f, g)
  BY <1>3
<1> QED
  BY <1>4 DEF FirstOrder, Earlier

(* The facts of the orders.                                                *)
LEMMA FactOfOrder ==
  ASSUME NEW o \in DOMAIN Orders
  PROVE  /\ Fact[o].orderId = o /\ o \in Int
         /\ Fact[o].businessDate \in Int
         /\ HasLatest(MonthStarts, Fact[o].businessDate)
<1> DEFINE order == ApplyLineCategories(Orders[o])
<1>1. /\ order.id = Orders[o].id
      /\ order.completedAt = Orders[o].completedAt
      /\ order.createdAt = Orders[o].createdAt
  BY OrderAssumption DEF ApplyLineCategories, Amounts
<1>2. Fact[o] = ToOrderFact(order)
  BY DEF Fact
<1> HIDE DEF order
<1>3. Fact[o].orderId = order.id /\ Fact[o].businessDate = BusinessDateOf(order)
  BY <1>2 DEF ToOrderFact
<1>4. BusinessDateOf(order) = BusinessDateOf(Orders[o])
  BY <1>1 DEF BusinessDateOf
<1>5. BusinessDateOf(Orders[o]) \in Int
  BY OrderAssumption DEF BusinessDateOf, Amounts
<1> QED
  BY <1>1, <1>3, <1>4, <1>5, OrderAssumption

LEMMA FactsAreFinite ==
  ASSUME NEW S \in SUBSET DOMAIN Orders
  PROVE  /\ IsFiniteSet(S) /\ IsFiniteSet(FactsOf(S)) /\ Dated(FactsOf(S))
         /\ \A f \in FactsOf(S) :
              /\ f.orderId \in S /\ f = Fact[f.orderId]
              /\ HasLatest(MonthStarts, f.businessDate)
<1>1. IsFiniteSet(S)
  BY OrderAssumption, FS_Subset
<1>2. \A f \in FactsOf(S) :
        /\ f.orderId \in S /\ f = Fact[f.orderId]
        /\ f.orderId \in Int /\ f.businessDate \in Int
        /\ HasLatest(MonthStarts, f.businessDate)
  BY FactOfOrder DEF FactsOf
<1>3. [o \in S |-> Fact[o]] \in [S -> FactsOf(S)]
  BY DEF FactsOf
<1>4. IsFiniteSet(FactsOf(S))
  <2>1. \A f \in FactsOf(S) : \E o \in S : [p \in S |-> Fact[p]][o] = f
    BY DEF FactsOf
  <2> QED
    BY <1>1, <1>3, <2>1, FewValues
<1> QED
  BY <1>1, <1>2, <1>4 DEF Dated

LEMMA SumOfTwo ==
  ASSUME NEW A, NEW B, IsFiniteSet(A), IsFiniteSet(B), A \cap B = {}, NEW f,
         \A x \in A \cup B : f[x] \in Int
  PROVE  SumFunctionOnSet(f, A \cup B)
           = SumFunctionOnSet(f, A) + SumFunctionOnSet(f, B)
<1> DEFINE S == A \cup B
           T == {0, 1}
           group == [t \in T |-> IF t = 0 THEN A ELSE B]
           g == [t \in T |-> IF t = 0 THEN SumFunctionOnSet(f, A)
                             ELSE SumFunctionOnSet(f, B)]
<1>1. IsFiniteSet(S) /\ IsFiniteSet(T) /\ IsFiniteSet({1})
  <2>1. T = {0} \cup {1}
    OBVIOUS
  <2>2. IsFiniteSet({0}) /\ IsFiniteSet({1})
    BY FS_Singleton
  <2> HIDE DEF T
  <2> QED
    BY <2>1, <2>2, FS_Union
<1>3. /\ SumFunctionOnSet(f, A) \in Int /\ SumFunctionOnSet(f, B) \in Int
  BY SumSplits
<1>4. SumFunctionOnSet(g, T) = SumFunctionOnSet(f, S)
  <2>1. \A t \in T : group[t] \subseteq S /\ g[t] = SumFunctionOnSet(f, group[t])
    OBVIOUS
  <2>2. /\ \A x \in S : f[x] \in Int /\ \E t \in T : x \in group[t]
        /\ \A t, u \in T : \A x \in S : x \in group[t] /\ x \in group[u] => t = u
    OBVIOUS
  <2> HIDE DEF S, T, group, g
  <2> QED
    BY <1>1, <2>1, <2>2, SumByGroup
<1>5. SumFunctionOnSet(g, T) = g[0] + g[1]
  <2>1. \A t \in T : g[t] \in Int
    BY <1>3
  <2>2. SumFunctionOnSet(g, T) = g[0] + SumFunctionOnSet(g, T \ {0})
    <3> HIDE DEF g
    <3> QED
      BY <1>1, <2>1, SumTakesOne
  <2>3. T \ {0} = {1}
    OBVIOUS
  <2>4. SumFunctionOnSet(g, {1}) = g[1] + SumFunctionOnSet(g, {1} \ {1})
    <3>1. 1 \in {1} /\ \A y \in {1} : g[y] \in Int
      BY <2>1
    <3> HIDE DEF g
    <3> QED
      BY <1>1, <3>1, SumTakesOne
  <2>5. SumFunctionOnSet(g, {1} \ {1}) = 0
    <3>1. {1} \ {1} = {}
      OBVIOUS
    <3> HIDE DEF g
    <3> QED
      BY <3>1, SumOfNone
  <2>6. g[0] \in Int /\ g[1] \in Int
    BY <2>1
  <2>7. SumFunctionOnSet(g, T \ {0}) = SumFunctionOnSet(g, {1})
    BY <2>3, Zenon
  <2> HIDE DEF g, T
  <2> QED
    BY <2>2, <2>4, <2>5, <2>6, <2>7
<1> QED
  BY <1>4, <1>5

-----------------------------------------------------------------------------
(* The figures of rows                                                     *)

LEMMA FiguresAdd ==
  ASSUME NEW rows, NEW m, Countable(rows, m)
  PROVE  /\ Figures(rows, m) = Tot(rows, m) /\ Tot(rows, m) \in Int
         /\ SumOf(rows, m) \in Int \cup {Null}
         /\ SumOf(rows, m) = Null <=> Having(rows, m) = {}
<1> DEFINE f == [r \in rows |-> FigureOr0(r, m)]
           H == Having(rows, m)
           h == [r \in H |-> r.m[m]]
           Rest == rows \ H
<1>1. /\ \A r \in rows : f[r] \in Int
      /\ \A r \in Rest : f[r] = 0
      /\ \A r \in H : h[r] \in Int /\ f[r] = h[r]
  BY NullAssumption DEF Countable, FigureOr0, OrZero, Having, Figure
<1>2. H \subseteq rows /\ H \cup Rest = rows /\ H \cap Rest = {}
  BY DEF Having
<1>3. IsFiniteSet(rows) /\ IsFiniteSet(H) /\ IsFiniteSet(Rest)
  <2> HIDE DEF H
  <2> QED
    BY <1>2, FS_Subset DEF Countable
<1>4. DOMAIN h = H
  OBVIOUS
<1>5. Tot(rows, m) = SumFunctionOnSet(f, rows)
  BY DEF Tot
<1>6. SumOf(rows, m) = IF H = {} THEN Null ELSE SumFunctionOnSet(h, H)
  BY <1>4 DEF SumOf, SumFunction
<1> HIDE DEF f, h, H, Rest
<1>7. SumFunctionOnSet(f, rows) = SumFunctionOnSet(f, H) + SumFunctionOnSet(f, Rest)
  <2>1. SumFunctionOnSet(f, H \cup Rest)
          = SumFunctionOnSet(f, H) + SumFunctionOnSet(f, Rest)
    BY <1>1, <1>2, <1>3, SumOfTwo
  <2> QED
    BY <1>2, <2>1
<1>8. SumFunctionOnSet(f, Rest) = 0
  BY <1>1, <1>3, SumOfZeroes
<1>9. SumFunctionOnSet(h, H) = SumFunctionOnSet(f, H) /\ SumFunctionOnSet(h, H) \in Int
  BY <1>1, <1>2, <1>3, SumIsSame, SumSplits
<1>10. H = {} => SumFunctionOnSet(h, H) = 0
  BY SumOfNone
<1>11. Figures(rows, m) = OrZero(SumOf(rows, m))
  BY DEF Figures
<1> QED
  BY <1>5, <1>6, <1>7, <1>8, <1>9, <1>10, <1>11, NullAssumption DEF OrZero, H

(* What is made of the elements of a finite set is finite.                 *)
LEMMA MadeOfFew ==
  ASSUME NEW S, IsFiniteSet(S), NEW T, NEW f, \A t \in T : \E x \in S : t = f[x]
  PROVE  IsFiniteSet(T)
<1> DEFINE part == {x \in S : f[x] \in T}
           g == [x \in part |-> f[x]]
<1>1. IsFiniteSet(part)
  BY FS_Subset
<1>2. g \in [part -> T] /\ \A t \in T : \E x \in part : g[x] = t
  OBVIOUS
<1> HIDE DEF part, g
<1> QED
  BY <1>1, <1>2, FewValues

(* And so is the union of finitely many finite sets.                       *)
LEMMA UnitedFew ==
  ASSUME NEW S, IsFiniteSet(S), NEW part, \A x \in S : IsFiniteSet(part[x]),
         NEW T, \A t \in T : \E x \in S : t \in part[x]
  PROVE  IsFiniteSet(T)
<1> DEFINE parts == {part[x] : x \in S}
<1>1. IsFiniteSet(parts)
  <2> DEFINE g == [x \in S |-> part[x]]
  <2>1. g \in [S -> parts] /\ \A t \in parts : \E x \in S : g[x] = t
    OBVIOUS
  <2> HIDE DEF g, parts
  <2> QED
    BY <2>1, FewValues
<1>2. \A A \in parts : IsFiniteSet(A)
  OBVIOUS
<1>3. T \subseteq UNION parts
  OBVIOUS
<1>4. IsFiniteSet(UNION parts)
  <2> HIDE DEF parts
  <2> QED
    BY <1>1, <1>2, FS_UNION
<1> QED
  BY <1>3, <1>4, FS_Subset

-----------------------------------------------------------------------------
(* Cohorts                                                                 *)

LEMMA MonthOfFact ==
  ASSUME NEW f, HasLatest(MonthStarts, f.businessDate)
  PROVE  MonthOf(f) \in MonthStarts /\ MonthOf(f) \in Int
BY LatestOfIsLatest, CalendarAssumption DEF MonthOf

LEMMA CohortsOfFacts ==
  ASSUME NEW facts, IsFiniteSet(facts), Dated(facts),
         \A f \in facts : HasLatest(MonthStarts, f.businessDate)
  PROVE  FoldCohortKeeps(facts)
<1> DEFINE customers == CustomersOf(facts)
           first == [c \in customers |-> FirstOrder(OrdersOf(facts, c))]
           months == {MonthOf(f) : f \in Attributed(facts)}
           Members(month, store) ==
             {c \in DOMAIN first :
                MonthOf(first[c]) = month /\ first[c].dims.store = store}
           Of(c) == <<MonthOf(first[c]), first[c].dims.store>>
           cohorts == {Of(c) : c \in DOMAIN first}
           latest == CHOOSE m \in months : \A n \in months : n <= m
           Elapsed(month) == {m \in MonthStarts : month <= m /\ m <= latest}
           Before(month, m) == {n \in Elapsed(month) : n < m}
           Key(month, store, m) ==
             [cohortMonth |-> month, store |-> store,
              periodIndex |-> Cardinality(Before(month, m))]
           Cell(month, store, m) ==
             Row(Key(month, store, m), Key(month, store, m),
                 [cohortSize |-> Cardinality(Members(month, store)),
                  retained |-> Retained(Members(month, store), facts, m)])
           cohort == FoldCohort(facts)
           Starts == {c \in cohort : c.k.periodIndex = 0}
<1>1. \A x : x \in cohort <=> \E c \in cohorts : \E m \in Elapsed(c[1]) :
                                x = Cell(c[1], c[2], m)
  <2>1. cohort = UNION {{Cell(c[1], c[2], m) : m \in Elapsed(c[1])} : c \in cohorts}
    BY DEF FoldCohort
  <2> HIDE DEF cohort, Cell, Elapsed, cohorts
  <2> QED
    BY <2>1
<1>0. DOMAIN first = customers
  OBVIOUS
<1>2. IsFiniteSet(customers)
  <2>1. Attributed(facts) \subseteq facts
    BY DEF Attributed
  <2>2. IsFiniteSet(Attributed(facts))
    BY <2>1, FS_Subset
  <2> DEFINE c == [f \in Attributed(facts) |-> f.customer]
  <2>3. /\ c \in [Attributed(facts) -> customers]
        /\ \A x \in customers : \E f \in Attributed(facts) : c[f] = x
    BY DEF CustomersOf
  <2> HIDE DEF c, customers
  <2> QED
    BY <2>2, <2>3, FewValues
<1>3. ASSUME NEW c \in customers
      PROVE  /\ first[c] \in Attributed(facts) /\ first[c].customer = c
             /\ first[c] \in OrdersOf(facts, c)
  <2> DEFINE O == OrdersOf(facts, c)
  <2>1. O \subseteq facts /\ O # {} /\ Dated(O) /\ O \subseteq Attributed(facts)
    BY DEF OrdersOf, CustomersOf, Attributed, Dated
  <2>2. IsFiniteSet(O)
    BY <2>1, FS_Subset
  <2>3. \A f \in O : f.customer = c
    BY DEF OrdersOf
  <2>4. first[c] = FirstOrder(O)
    OBVIOUS
  <2> HIDE DEF O, first
  <2>5. FirstOrder(O) \in O
    BY <2>1, <2>2, FirstExists
  <2> QED
    BY <2>1, <2>3, <2>4, <2>5 DEF O
<1>4. \A f \in Attributed(facts) :
        f \in facts /\ MonthOf(f) \in MonthStarts /\ MonthOf(f) \in Int
        /\ MonthOf(f) \in months
  BY MonthOfFact DEF Attributed
<1>5. IsFiniteSet(months)
  <2>1. IsFiniteSet(Attributed(facts))
    BY FS_Subset DEF Attributed
  <2> DEFINE o == [f \in Attributed(facts) |-> MonthOf(f)]
  <2>2. /\ o \in [Attributed(facts) -> months]
        /\ \A x \in months : \E f \in Attributed(facts) : o[f] = x
    OBVIOUS
  <2> HIDE DEF o, months
  <2> QED
    BY <2>1, <2>2, FewValues
<1>6. months # {} => latest \in months /\ \A n \in months : n <= latest
  <2>1. months \subseteq Int
    BY <1>4
  <2> HIDE DEF months
  <2>2. months # {} => \E m \in months : \A n \in months : n <= m
    BY <1>5, <2>1, LargestExists
  <2> QED
    BY <2>2
<1>7. ASSUME NEW c \in cohorts
      PROVE  /\ c[1] \in MonthStarts /\ c[1] \in Int /\ latest \in Int
             /\ c[1] <= latest /\ c = <<c[1], c[2]>>
             /\ c[1] \in Elapsed(c[1]) /\ IsFiniteSet(Elapsed(c[1]))
  <2>1. PICK x \in customers : c = Of(x)
    OBVIOUS
  <2>2. MonthOf(first[x]) \in months /\ MonthOf(first[x]) \in MonthStarts
    BY <1>3, <1>4
  <2>3. months \subseteq Int /\ months # {}
    BY <1>4, <2>2
  <2>4. /\ c[1] = MonthOf(first[x]) /\ c = <<c[1], c[2]>>
    BY <2>1
  <2>5. latest \in Int /\ c[1] <= latest /\ c[1] \in Int /\ c[1] \in MonthStarts
    <3> HIDE DEF months, latest, first
    <3> QED
      BY <1>6, <2>2, <2>3, <2>4
  <2> HIDE DEF latest, cohorts, months
  <2>6. Elapsed(c[1]) \subseteq c[1]..latest
    <3>1. MonthStarts \subseteq Int
      BY CalendarAssumption
    <3>2. ASSUME NEW m \in MonthStarts, c[1] <= m, m <= latest
          PROVE  m \in c[1]..latest
      BY <2>5, <3>1, <3>2
    <3> QED
      BY <3>2
  <2>7. IsFiniteSet(Elapsed(c[1]))
    <3> HIDE DEF Elapsed
    <3> QED
      BY <2>5, <2>6, FS_Interval, FS_Subset
  <2>8. c[1] \in Elapsed(c[1])
    BY <2>5
  <2> HIDE DEF Elapsed, cohorts
  <2> QED
    BY <2>4, <2>5, <2>7, <2>8

<1>8. ASSUME NEW c \in cohorts, NEW m \in Elapsed(c[1])
      PROVE  /\ IsFiniteSet(Before(c[1], m)) /\ Cardinality(Before(c[1], m)) \in Nat
             /\ Cardinality(Before(c[1], m)) = 0 <=> m = c[1]
             /\ m # c[1] => \E b \in Elapsed(c[1]) :
                  Cardinality(Before(c[1], b)) = Cardinality(Before(c[1], m)) - 1
  <2> DEFINE E == Elapsed(c[1])
             B(x) == {n \in E : n < x}
  <2>1. /\ IsFiniteSet(E) /\ c[1] \in E /\ c[1] \in Int /\ m \in E
        /\ E \subseteq Int /\ \A n \in E : c[1] <= n
    BY <1>7, CalendarAssumption
  <2>2. Before(c[1], m) = B(m)
    OBVIOUS
  <2>3. \A b : Before(c[1], b) = B(b)
    OBVIOUS
  <2> HIDE DEF E, Before
  <2>4. \A x : IsFiniteSet(B(x)) /\ Cardinality(B(x)) \in Nat
    <3> TAKE x
    <3>1. IsFiniteSet(B(x))
      BY <2>1, FS_Subset
    <3> QED
      BY <3>1, FS_CardinalityType
  <2>5. m = c[1] => B(m) = {}
    <3>1. ASSUME NEW n \in E, n < c[1] PROVE FALSE
      BY <2>1, <3>1
    <3> QED
      BY <3>1
  <2>6. m # c[1] => B(m) # {}
    BY <2>1
  <2>7. Cardinality(B(m)) = 0 <=> B(m) = {}
    <3>1. IsFiniteSet(B(m))
      BY <2>4
    <3> HIDE DEF B
    <3> QED
      BY <3>1, FS_EmptySet
  <2>8. ASSUME m # c[1]
        PROVE  \E b \in E : Cardinality(B(b)) = Cardinality(B(m)) - 1
    <3>1. PICK b \in B(m) : \A n \in B(m) : n <= b
      <4>1. B(m) \subseteq Int /\ B(m) # {} /\ IsFiniteSet(B(m))
        BY <2>1, <2>4, <2>6, <2>8
      <4> HIDE DEF B
      <4> QED
        BY <4>1, LargestExists
    <3>2. B(b) = B(m) \ {b}
      BY <2>1, <3>1
    <3>3. Cardinality(B(m) \ {b}) = Cardinality(B(m)) - 1
      <4>1. IsFiniteSet(B(m)) /\ b \in B(m)
        BY <2>4, <3>1
      <4> HIDE DEF B
      <4> QED
        BY <4>1, FS_RemoveElement
    <3> QED
      BY <3>1, <3>2, <3>3
  <2> HIDE DEF B
  <2> QED
    BY <2>2, <2>3, <2>4, <2>5, <2>6, <2>7, <2>8 DEF E
<1> DEFINE StartOf(c) == Cell(c[1], c[2], c[1])
<1>9. \A month, store, m :
        LET cell == Cell(month, store, m)
        IN  /\ cell.k = Key(month, store, m)
            /\ cell.k.periodIndex = Cardinality(Before(month, m))
            /\ cell.k.cohortMonth = month /\ cell.k.store = store
            /\ cell.m["cohortSize"] = Cardinality(Members(month, store))
            /\ cell.m["retained"] = Retained(Members(month, store), facts, m)
            /\ Figure(cell, "cohortSize") = Cardinality(Members(month, store))
            /\ \A x : Figure(cell, x) \in
                        {Cardinality(Members(month, store)),
                         Retained(Members(month, store), facts, m), Null}
  <2> HIDE DEF Before, Members
  <2> QED
    BY DEF Row, Figure
<1> HIDE DEF first, Key, Cell, cohort, Elapsed, Before, latest, months
<1>10. \A x : x \in Starts <=> \E c \in cohorts : x = StartOf(c)
  <2>1. ASSUME NEW x \in Starts PROVE \E c \in cohorts : x = StartOf(c)
    <3>1. PICK c \in cohorts : \E m \in Elapsed(c[1]) : x = Cell(c[1], c[2], m)
      BY <1>1
    <3>2. PICK m \in Elapsed(c[1]) : x = Cell(c[1], c[2], m)
      BY <3>1
    <3>3. Cardinality(Before(c[1], m)) = 0
      BY <1>9, <3>2
    <3>4. m = c[1]
      BY <1>8, <3>3
    <3> QED
      BY <3>2, <3>4
  <2>2. ASSUME NEW c \in cohorts PROVE StartOf(c) \in Starts
    <3>1. c[1] \in Elapsed(c[1])
      BY <1>7
    <3>2. StartOf(c) \in cohort
      BY <1>1, <3>1
    <3>3. Cardinality(Before(c[1], c[1])) = 0
      BY <1>8, <3>1
    <3> QED
      BY <1>9, <3>2, <3>3
  <2> QED
    BY <2>1, <2>2
<1>11. ASSUME NEW month, NEW store
       PROVE  /\ IsFiniteSet(Members(month, store))
              /\ Cardinality(Members(month, store)) \in Int
  <2>1. Members(month, store) \subseteq customers
    BY <1>0
  <2> HIDE DEF Members, customers
  <2>2. IsFiniteSet(Members(month, store))
    BY <1>2, <2>1, FS_Subset
  <2> QED
    BY <2>2, FS_CardinalityType
<1>12. Figures(Starts, "cohortSize") = Cardinality(customers)
  <2> DEFINE one == [c \in customers |-> 1]
             key == [c \in customers |-> StartOf(Of(c))]
             size == [r \in Starts |-> FigureOr0(r, "cohortSize")]
             StartedAt(t) == {c \in customers : key[c] = t}
  <2>1. \A c \in customers : Of(c) \in cohorts /\ key[c] \in Starts
    <3> TAKE c \in customers
    <3>1. Of(c) \in cohorts
      BY <1>0
    <3>2. StartOf(Of(c)) \in Starts
      <4> HIDE DEF Of, StartOf, Starts, cohorts
      <4> QED
        BY <1>10, <3>1
    <3> HIDE DEF Starts, cohorts, Of, StartOf
    <3> QED
      BY <3>1, <3>2
  <2>2. IsFiniteSet(Starts)
    <3>1. key \in [customers -> Starts]
      BY <2>1
    <3>2. \A t \in Starts : \E c \in customers : key[c] = t
      <4> TAKE t \in Starts
      <4>1. PICK c \in cohorts : t = StartOf(c)
        BY <1>10
      <4>2. PICK x \in customers : c = Of(x)
        BY <1>0
      <4> HIDE DEF StartOf, Of, customers
      <4> QED
        BY <4>1, <4>2
    <3> HIDE DEF key, Starts, customers
    <3> QED
      BY <1>2, <3>1, <3>2, FewValues
  <2>3. ASSUME NEW t \in Starts
        PROVE  /\ size[t] = SumFunctionOnSet(one, StartedAt(t))
               /\ Figure(t, "cohortSize") \in Int
    <3>1. PICK c \in cohorts : t = StartOf(c)
      BY <1>10
    <3>2. c = <<c[1], c[2]>>
      BY <1>7
    <3>3. \A d : /\ StartOf(d).k.cohortMonth = d[1] /\ StartOf(d).k.store = d[2]
      BY <1>9
    <3>4. \A x \in customers : key[x] = t <=>
                                 (MonthOf(first[x]) = c[1] /\ first[x].dims.store = c[2])
      <4> TAKE x \in customers
      <4>1. key[x] = StartOf(Of(x)) /\ Of(x)[1] = MonthOf(first[x])
            /\ Of(x)[2] = first[x].dims.store
        OBVIOUS
      <4>2. key[x] = t => Of(x)[1] = c[1] /\ Of(x)[2] = c[2]
        <5> HIDE DEF StartOf, Of, key
        <5> QED
          BY <3>1, <3>3, <4>1
      <4>3. MonthOf(first[x]) = c[1] /\ first[x].dims.store = c[2] => Of(x) = c
        BY <3>2
      <4> HIDE DEF StartOf, Of, key
      <4> QED
        BY <3>1, <4>1, <4>2, <4>3
    <3>5. StartedAt(t) = Members(c[1], c[2])
      <4> HIDE DEF key
      <4> QED
        BY <1>0, <3>4
    <3>6. IsFiniteSet(Members(c[1], c[2])) /\ Cardinality(Members(c[1], c[2])) \in Int
      <4> HIDE DEF Members
      <4> QED
        BY <1>11
    <3>7. \A x \in StartedAt(t) : one[x] = 1
      OBVIOUS
    <3>8. Figure(t, "cohortSize") = Cardinality(Members(c[1], c[2]))
      BY <1>9, <3>1
    <3>9. size[t] = FigureOr0(t, "cohortSize")
      OBVIOUS
    <3> HIDE DEF StartedAt, Members, one, size, Starts
    <3>10. SumFunctionOnSet(one, StartedAt(t)) = Cardinality(StartedAt(t))
      BY <3>5, <3>6, <3>7, SumOfOnes
    <3> QED
      BY <3>5, <3>6, <3>8, <3>9, <3>10, NullAssumption DEF FigureOr0, OrZero
  <2>4. Countable(Starts, "cohortSize")
    BY <2>2, <2>3 DEF Countable
  <2>5. Figures(Starts, "cohortSize") = SumFunctionOnSet(size, Starts)
    <3> HIDE DEF Starts
    <3> QED
      BY <2>4, FiguresAdd DEF Tot
  <2>6. SumFunctionOnSet(one, customers) = Cardinality(customers)
    <3>1. \A x \in customers : one[x] = 1
      OBVIOUS
    <3> HIDE DEF one, customers
    <3> QED
      BY <1>2, <3>1, SumOfOnes
  <2>7. SumFunctionOnSet(size, Starts) = SumFunctionOnSet(one, customers)
    <3>1. \A x \in customers : one[x] \in Int /\ key[x] \in Starts
      BY <2>1
    <3> DEFINE group == [t \in Starts |-> StartedAt(t)]
    <3>2. \A t \in Starts : /\ group[t] \subseteq customers
                           /\ size[t] = SumFunctionOnSet(one, group[t])
      BY <2>3
    <3>3. /\ \A x \in customers : \E t \in Starts : x \in group[t]
          /\ \A t, u \in Starts : \A x \in customers :
               x \in group[t] /\ x \in group[u] => t = u
      BY <3>1
    <3> HIDE DEF one, customers, size, Starts, group
    <3> QED
      BY <1>2, <2>2, <3>1, <3>2, <3>3, SumByGroup
  <2> QED
    BY <2>5, <2>6, <2>7
<1>13. ASSUME NEW c \in cohort
       PROVE  /\ c \in Starts => c.m["retained"] = c.m["cohortSize"]
              /\ c.m["retained"] <= c.m["cohortSize"]
              /\ c.k.periodIndex > 0 =>
                   \E b \in cohort :
                     /\ b.k = [c.k EXCEPT !.periodIndex = @ - 1]
                     /\ b.m["cohortSize"] = c.m["cohortSize"]
  <2>1. PICK d \in cohorts : \E m \in Elapsed(d[1]) : c = Cell(d[1], d[2], m)
    BY <1>1
  <2>2. PICK m \in Elapsed(d[1]) : c = Cell(d[1], d[2], m)
    BY <2>1
  <2> DEFINE M == Members(d[1], d[2])
             Back == {x \in M : \E f \in OrdersOf(facts, x) : MonthOf(f) = m}
  <2>3. /\ c.m["cohortSize"] = Cardinality(M)
        /\ c.m["retained"] = Cardinality(Back)
        /\ c.k.periodIndex = Cardinality(Before(d[1], m))
    BY <1>9, <2>2 DEF Retained
  <2>4. IsFiniteSet(M) /\ Back \subseteq M
    BY <1>11
  <2>5. Cardinality(Back) <= Cardinality(M)
    <3> HIDE DEF M, Back
    <3> QED
      BY <2>4, FS_Subset
  <2>6. ASSUME c \in Starts PROVE Back = M
    <3>1. m = d[1]
      <4>1. Cardinality(Before(d[1], m)) = 0
        BY <2>3, <2>6
      <4> QED
        BY <1>8, <4>1
    <3>2. \A x \in M : first[x] \in OrdersOf(facts, x) /\ MonthOf(first[x]) = m
      BY <1>0, <1>3, <3>1
    <3> QED
      BY <3>2
  <2>7. ASSUME c.k.periodIndex > 0
        PROVE  \E b \in cohort :
                 /\ b.k = [c.k EXCEPT !.periodIndex = @ - 1]
                 /\ b.m["cohortSize"] = c.m["cohortSize"]
    <3>1. m # d[1]
      <4>1. Cardinality(Before(d[1], m)) # 0
        BY <1>8, <2>3, <2>7
      <4> QED
        BY <1>8, <4>1
    <3>2. PICK p \in Elapsed(d[1]) :
            Cardinality(Before(d[1], p)) = Cardinality(Before(d[1], m)) - 1
      BY <1>8, <3>1
    <3> DEFINE b == Cell(d[1], d[2], p)
    <3>3. b \in cohort
      BY <1>1
    <3>4. b.k = Key(d[1], d[2], p) /\ c.k = Key(d[1], d[2], m)
          /\ b.m["cohortSize"] = Cardinality(M)
      BY <1>9, <2>2
    <3>5. Key(d[1], d[2], p) = [Key(d[1], d[2], m) EXCEPT !.periodIndex = @ - 1]
      BY <3>2 DEF Key
    <3> HIDE DEF b
    <3> QED
      BY <2>3, <3>3, <3>4, <3>5
  <2> QED
    BY <2>3, <2>5, <2>6, <2>7
<1>14. Numeric(cohort)
  <2> DEFINE part == [c \in cohorts |-> {Cell(c[1], c[2], m) : m \in Elapsed(c[1])}]
  <2>1. IsFiniteSet(cohorts)
    <3> DEFINE of == [c \in customers |-> Of(c)]
    <3>1. \A c \in cohorts : \E x \in customers : c = of[x]
      BY <1>0
    <3> HIDE DEF of, cohorts, customers
    <3> QED
      BY <1>2, <3>1, MadeOfFew
  <2>2. ASSUME NEW c \in cohorts PROVE IsFiniteSet(part[c])
    <3> DEFINE cell == [m \in Elapsed(c[1]) |-> Cell(c[1], c[2], m)]
               made == {Cell(c[1], c[2], m) : m \in Elapsed(c[1])}
    <3>1. IsFiniteSet(Elapsed(c[1]))
      BY <1>7
    <3>2. \A t \in made : \E m \in Elapsed(c[1]) : t = cell[m]
      OBVIOUS
    <3>3. part[c] = made
      OBVIOUS
    <3> HIDE DEF made, cell, part
    <3>4. IsFiniteSet(made)
      BY <3>1, <3>2, MadeOfFew
    <3> QED
      BY <3>3, <3>4
  <2>3. ASSUME NEW x \in cohort PROVE \E c \in cohorts : x \in part[c]
    <3>1. PICK c \in cohorts : \E m \in Elapsed(c[1]) : x = Cell(c[1], c[2], m)
      BY <1>1
    <3> HIDE DEF cohorts
    <3> QED
      BY <3>1
  <2>4. IsFiniteSet(cohort)
    <3> HIDE DEF part, cohorts
    <3> QED
      BY <2>1, <2>2, <2>3, UnitedFew
  <2>5. ASSUME NEW c \in cohort, NEW x PROVE Figure(c, x) \in Int \cup {Null}
    <3>1. PICK d \in cohorts : \E m \in Elapsed(d[1]) : c = Cell(d[1], d[2], m)
      BY <1>1
    <3>2. PICK m \in Elapsed(d[1]) : c = Cell(d[1], d[2], m)
      BY <3>1
    <3> DEFINE M == Members(d[1], d[2])
               Back == {y \in M : \E f \in OrdersOf(facts, y) : MonthOf(f) = m}
    <3>3. Figure(c, x) \in {Cardinality(M), Cardinality(Back), Null}
      BY <1>9, <3>2 DEF Retained
    <3>4. IsFiniteSet(M) /\ Cardinality(M) \in Int /\ Back \in SUBSET M
      BY <1>11
    <3>5. Cardinality(Back) \in Int
      <4> HIDE DEF M, Back
      <4>1. IsFiniteSet(Back)
        BY <3>4, FS_Subset
      <4> QED
        BY <4>1, FS_CardinalityType
    <3> HIDE DEF M, Back
    <3> QED
      BY <3>3, <3>4, <3>5
  <2> QED
    BY <2>4, <2>5 DEF Numeric
<1> QED
  BY <1>12, <1>13, <1>14 DEF FoldCohortKeeps, cohort

-----------------------------------------------------------------------------
(* What the job has counted                                                *)

LEMMA InitJobInv == Init => JobInv
<1> SUFFICES ASSUME Init PROVE JobInv
  OBVIOUS
<1>1. PICK s \in Scenarios :
        LET there == DOMAIN Orders \ s.late
        IN  /\ late = s.late /\ orders = there
            /\ IF s.settled
                 THEN /\ cubes = [d \in DaysOf(there) |->
                           [orders |-> OnDay(there, d), known |-> there]]
                      /\ scanned = there
                 ELSE cubes = <<>> /\ scanned = {}
  BY DEF Init
<1>2. pass = Null /\ seen = Null
  BY DEF Init
<1>3. late \cup orders \subseteq DOMAIN Orders
  BY <1>1, ScenarioAssumption
<1>4. CASE s.settled
  <2>1. /\ cubes = [d \in DaysOf(orders) |->
                      [orders |-> OnDay(orders, d), known |-> orders]]
        /\ scanned = orders
    BY <1>1, <1>4
  <2>2. \A o \in orders : KnownFolded(o)
    BY <2>1 DEF KnownFolded, DaysOf
  <2>3. DOMAIN cubes = DaysOf(orders)
    BY <2>1
  <2>4. IsFiniteSet(DaysOf(orders))
    <3> DEFINE day == [o \in orders |-> Fact[o].businessDate]
    <3>1. /\ day \in [orders -> DaysOf(orders)]
          /\ \A d \in DaysOf(orders) : \E o \in orders : day[o] = d
      BY DEF DaysOf
    <3>2. IsFiniteSet(orders)
      BY <1>3, OrderAssumption, FS_Subset
    <3> HIDE DEF day
    <3> QED
      BY <3>1, <3>2, FewValues
  <2> QED
    BY <1>2, <1>3, <2>1, <2>2, <2>3, <2>4 DEF JobInv
<1>5. CASE ~s.settled
  <2>1. cubes = <<>> /\ scanned = {}
    BY <1>1, <1>5
  <2>2. DOMAIN cubes = {} /\ IsFiniteSet({})
    BY <2>1, FS_EmptySet
  <2> QED
    BY <1>2, <1>3, <2>1, <2>2 DEF JobInv
<1> QED
  BY <1>4, <1>5

LEMMA StepJobInv == IInv /\ JobInv /\ [Next]_vars => JobInv'
<1> SUFFICES ASSUME IInv, JobInv, [Next]_vars PROVE JobInv'
  OBVIOUS
<1> USE DEF LeftOut, Vouched
<1>1. ASSUME UNCHANGED jobVars, seen' \in {seen, Null, published} PROVE JobInv'
  <2>1. UNCHANGED <<late, orders, pass, scanned, cubes, published>>
    BY <1>1 DEF jobVars
  <2>2. /\ published.known \subseteq scanned
        /\ \A o \in Vouched(published) : KnownFolded(o)
    BY DEF IInv, JobInv
  <2>3. seen' # Null => /\ seen'.known \subseteq scanned
                        /\ \A o \in Vouched(seen') : KnownFolded(o)
    BY <1>1, <2>2 DEF JobInv
  <2> QED
    BY <2>1, <2>3 DEF JobInv, KnownFolded
<1>2. ASSUME NEW o \in late, PlaceOrder(o) PROVE JobInv'
  <2>1. /\ late' = late \ {o} /\ orders' = orders \cup {o}
        /\ UNCHANGED <<pass, scanned, cubes, published, seen>>
    BY <1>2 DEF PlaceOrder, runVars
  <2> QED
    BY <2>1 DEF JobInv, KnownFolded
<1>3. CASE StartPass
  <2>1. /\ pass' = [known |-> orders, todo |-> DaysOf(orders \ scanned)]
        /\ UNCHANGED <<late, orders, scanned, cubes, published, seen>>
    BY <1>3 DEF StartPass, runVars
  <2>2. \A o \in orders : Fact[o].businessDate \in DaysOf(orders \ scanned)
                         \/ LeftOut(o) \/ KnownFolded(o)
    BY DEF JobInv, DaysOf
  <2> QED
    BY <2>1, <2>2 DEF JobInv, KnownFolded, IInv
<1>4. ASSUME NEW d, RebuildDay(d) PROVE JobInv'
  <2>1. /\ pass # Null
        /\ cubes' = [e \in DOMAIN cubes \cup {d} |->
                       IF e = d THEN [orders |-> OnDay(orders, d),
                                      known |-> pass.known]
                       ELSE cubes[e]]
        /\ pass' = [pass EXCEPT !.todo = @ \ {d}]
        /\ published' = [published EXCEPT !.left = @ \ {d}]
        /\ UNCHANGED <<late, orders, scanned, seen>>
    BY <1>4 DEF RebuildDay, runVars
  <2>2. /\ DOMAIN cubes' = DOMAIN cubes \cup {d}
        /\ cubes'[d].known = pass.known
        /\ \A e \in DOMAIN cubes \ {d} : cubes'[e] = cubes[e]
    BY <2>1
  <2>3. pass.known \subseteq orders /\ scanned \subseteq pass.known
    BY <2>1 DEF IInv, JobInv
  <2>4. \A e \in DOMAIN cubes' : cubes'[e].known \subseteq orders
    BY <2>2, <2>3 DEF JobInv
  <2>5. \A o \in pass.known : KnownFolded(o) => KnownFolded(o)'
    BY <2>1, <2>2 DEF KnownFolded
  <2>6. \A o \in pass.known : Fact[o].businessDate = d => KnownFolded(o)'
    BY <2>1, <2>2 DEF KnownFolded
  <2>7. \A o : LeftOut(o) => LeftOut(o)' \/ Fact[o].businessDate = d
    BY <2>1
  <2>8. \A o \in scanned : LeftOut(o)' \/ KnownFolded(o)'
    <3> TAKE o \in scanned
    <3>1. o \in pass.known /\ (LeftOut(o) \/ KnownFolded(o))
      BY <2>3 DEF JobInv
    <3> QED
      BY <2>5, <2>6, <2>7, <3>1
  <2>9. ASSUME pass' # Null, NEW o \in pass'.known
        PROVE  /\ Fact[o].businessDate \in pass'.todo
                  \/ LeftOut(o)' \/ KnownFolded(o)'
               /\ pass'.known = pass.known
    <3>1. pass'.known = pass.known /\ pass'.todo = pass.todo \ {d}
      BY <2>1, <2>9
    <3>2. Fact[o].businessDate \in pass.todo \/ LeftOut(o) \/ KnownFolded(o)
      BY <2>1, <2>9, <3>1 DEF JobInv
    <3> QED
      BY <2>5, <2>9, <2>6, <2>7, <3>1, <3>2
  <2>10. pass' # Null => scanned' \subseteq pass'.known
    BY <2>1, <2>3
  <2>11. IsFiniteSet(DOMAIN cubes')
    BY <2>2, FS_AddElement DEF JobInv
  <2>12. seen' # Null => /\ seen'.known \subseteq scanned'
                         /\ \A o \in Vouched(seen) : KnownFolded(o)'
    <3> SUFFICES ASSUME seen' # Null
                 PROVE  /\ seen'.known \subseteq scanned'
                        /\ \A o \in Vouched(seen) : KnownFolded(o)'
      OBVIOUS
    <3>1. seen.known \subseteq scanned /\ \A o \in Vouched(seen) : KnownFolded(o)
      BY <2>1 DEF JobInv
    <3>2. \A o \in Vouched(seen) : o \in pass.known
      BY <2>3, <3>1
    <3> QED
      BY <2>1, <2>5, <3>1, <3>2
  <2> HIDE DEF LeftOut
  <2> QED
    BY <2>1, <2>4, <2>8, <2>9, <2>10, <2>11, <2>12 DEF JobInv
<1>5. CASE Publish
  <2>1. /\ pass # Null /\ pass' = Null /\ scanned' = pass.known
        /\ published'.left = published.left \cup pass.todo
        /\ UNCHANGED <<late, orders, cubes, seen>>
    BY <1>5 DEF Publish, EndPass, runVars
  <2>2. \A o \in pass.known : LeftOut(o)' \/ KnownFolded(o)
    BY <2>1 DEF JobInv
  <2>3. seen # Null => seen.known \subseteq pass.known
    BY <2>1 DEF JobInv
  <2> HIDE DEF LeftOut
  <2> QED
    BY <2>1, <2>2, <2>3 DEF JobInv, KnownFolded
<1>6. CASE Run
  BY <1>1, <1>6, RunReads
<1>7. CASE UNCHANGED vars
  BY <1>1, <1>7 DEF vars, jobVars
<1> QED
  BY <1>2, <1>3, <1>4, <1>5, <1>6, <1>7 DEF Next, Job

(* For any orders, reports and requests, and any interleaving of the job   *)
(* with a run: what a watermark vouches for - every order scanned before   *)
(* it was published but those of days that a pass out of budget left - is  *)
(* in the cubes, from when it is published on, and still when a query that *)
(* has read it reads them.                                                 *)
THEOREM WatermarkIsVouched == Spec => []WatermarkVouches
<1>1. IInv => WatermarkVouches
  BY DEF IInv, WatermarkVouches, Vouched, LeftOut
<1> QED
  BY <1>1, InitIInv, StepIInv, InitJobInv, StepJobInv, PTL DEF Spec

(* The cohorts of the snapshot, and so of every answer about them, share   *)
(* out the customers it knew, whatever orders there are.                   *)
THEOREM CohortsAreExact == Spec => []CohortsShareCustomers
<1>1. IInv /\ JobInv => CohortsShareCustomers
  <2> SUFFICES ASSUME IInv, JobInv PROVE CohortsShareCustomers
    OBVIOUS
  <2> DEFINE facts == FactsOf(published.cohort)
  <2>1. published.cohort \in SUBSET DOMAIN Orders
    BY DEF IInv, JobInv
  <2>2. FoldCohortKeeps(facts)
    <3>1. /\ IsFiniteSet(facts) /\ Dated(facts)
          /\ \A f \in facts : HasLatest(MonthStarts, f.businessDate)
      BY <2>1, FactsAreFinite
    <3> HIDE DEF facts
    <3> QED
      BY <3>1, CohortsOfFacts
  <2> QED
    BY <2>2 DEF FoldCohortKeeps, CohortsShareCustomers, Cohort
<1> QED
  BY <1>1, InitIInv, StepIInv, InitJobInv, StepJobInv, PTL DEF Spec

-----------------------------------------------------------------------------
(* Regrouping rows                                                         *)

(* When each row of out has the figures of a group of rows, and the groups *)
(* share out the rows, nothing is lost and nothing counted twice.          *)
LEMMA Regrouped ==
  ASSUME NEW rows, NEW m, Countable(rows, m),
         NEW out, NEW n, IsFiniteSet(out),
         NEW group, \A t \in out : group[t] \subseteq rows,
         \A r \in rows : \E t \in out : r \in group[t],
         \A t, u \in out : \A r \in rows : r \in group[t] /\ r \in group[u] => t = u,
         \A t \in out : FigureOr0(t, n) = Figures(group[t], m)
  PROVE  Tot(out, n) = Tot(rows, m)
<1> DEFINE f == [r \in rows |-> FigureOr0(r, m)]
           g == [t \in out |-> FigureOr0(t, n)]
<1>1. IsFiniteSet(rows) /\ \A r \in rows : f[r] \in Int
  BY NullAssumption DEF Countable, FigureOr0, OrZero
<1>2. ASSUME NEW t \in out PROVE g[t] = SumFunctionOnSet(f, group[t])
  <2> DEFINE S == group[t]
             h == [r \in S |-> FigureOr0(r, m)]
  <2>1. Countable(S, m)
    BY FS_Subset DEF Countable
  <2>2. Figures(S, m) = SumFunctionOnSet(h, S)
    BY <2>1, FiguresAdd DEF Tot
  <2>3. IsFiniteSet(S) /\ \A r \in S : f[r] \in Int /\ f[r] = h[r]
    BY <1>1, <2>1 DEF Countable
  <2>4. SumFunctionOnSet(f, S) = SumFunctionOnSet(h, S)
    <3> HIDE DEF f, h, S
    <3> QED
      BY <2>3, SumIsSame
  <2> QED
    BY <2>2, <2>4
<1>3. Tot(out, n) = SumFunctionOnSet(g, out) /\ Tot(rows, m) = SumFunctionOnSet(f, rows)
  BY DEF Tot
<1> HIDE DEF f, g
<1> QED
  BY <1>1, <1>2, <1>3, SumByGroup

(* A fold has one cell for each key of the rows, with their sums.          *)
LEMMA CellsOfFold ==
  ASSUME NEW rows, NEW measures
  PROVE  /\ \A c \in Fold(rows, measures) :
              /\ c = Row(c.k, c.k, [x \in measures |-> SumOf(Part(rows, c.k), x)])
              /\ Part(rows, c.k) # {}
         /\ \A r \in rows : \E c \in Fold(rows, measures) : c.k = r.k
<1> DEFINE key == [r \in rows |-> r.k]
           groups == {{r \in rows : key[r] = k} : k \in Range(key)}
           KeyOfGroup(g) == (CHOOSE r \in g : TRUE).k
           Summed(g) == [k |-> KeyOfGroup(g), m |-> [x \in measures |-> SumOf(g, x)]]
           Cell(g) == Row(Summed(g).k, Summed(g).k, Summed(g).m)
<1>1. Fold(rows, measures) = {Row(c.k, c.k, c.m) : c \in {Summed(g) : g \in groups}}
  BY DEF Fold, GroupsBy
<1>2. ASSUME NEW k \in Range(key)
      PROVE  /\ {r \in rows : key[r] = k} = Part(rows, k)
             /\ KeyOfGroup(Part(rows, k)) = k /\ Part(rows, k) # {}
  BY DEF Range, Part
<1>3. \A x : x \in Fold(rows, measures) <=>
             \E k \in Range(key) : x = Cell(Part(rows, k))
  <2>1. \A g : g \in groups <=> \E k \in Range(key) : g = Part(rows, k)
    <3> DEFINE At(k) == {r \in rows : key[r] = k}
    <3>1. \A g : g \in groups <=> \E k \in Range(key) : g = At(k)
      OBVIOUS
    <3>2. \A k \in Range(key) : At(k) = Part(rows, k)
      BY <1>2
    <3> HIDE DEF At, key, groups
    <3> QED
      BY <3>1, <3>2
  <2>2. \A x : x \in Fold(rows, measures) <=> \E g \in groups : x = Cell(g)
    <3> HIDE DEF Summed, key, groups
    <3> QED
      BY <1>1
  <2> HIDE DEF Cell, groups, key
  <2> QED
    BY <2>1, <2>2
<1>4. \A k \in Range(key) :
        Cell(Part(rows, k)) = Row(k, k, [x \in measures |-> SumOf(Part(rows, k), x)])
  BY <1>2
<1>5. \A r \in rows : r.k \in Range(key)
  BY DEF Range
<1>6. \A k, m : Row(k, k, m).k = k
  BY DEF Row
<1>7. \A k \in Range(key) : Cell(Part(rows, k)).k = k
  BY <1>4, <1>6
<1> HIDE DEF Cell, key
<1>8. ASSUME NEW c \in Fold(rows, measures)
      PROVE  /\ c = Row(c.k, c.k, [x \in measures |-> SumOf(Part(rows, c.k), x)])
             /\ Part(rows, c.k) # {}
  <2>1. PICK k \in Range(key) : c = Cell(Part(rows, k))
    BY <1>3
  <2> QED
    BY <1>2, <1>4, <1>7, <2>1
<1>9. ASSUME NEW r \in rows PROVE \E c \in Fold(rows, measures) : c.k = r.k
  BY <1>3, <1>5, <1>7
<1> QED
  BY <1>8, <1>9

LEMMA FoldAdds ==
  ASSUME NEW rows, NEW measures, NEW x \in measures, Countable(rows, x)
  PROVE  /\ Countable(Fold(rows, measures), x)
         /\ Tot(Fold(rows, measures), x) = Tot(rows, x)
<1> DEFINE out == Fold(rows, measures)
           group == [c \in out |-> Part(rows, c.k)]
           cell == [r \in rows |-> CHOOSE c \in out : c.k = r.k]
<1>1. /\ \A c \in out :
           /\ c = Row(c.k, c.k, [y \in measures |-> SumOf(Part(rows, c.k), y)])
           /\ Part(rows, c.k) # {}
      /\ \A r \in rows : \E c \in out : c.k = r.k
  BY CellsOfFold
<1>2. \A c, e \in out : c.k = e.k => c = e
  BY <1>1
<1>3. \A c \in out : Figure(c, x) = SumOf(group[c], x)
  <2> SUFFICES ASSUME NEW c \in out PROVE Figure(c, x) = SumOf(group[c], x)
    OBVIOUS
  <2>1. c.m = [y \in measures |-> SumOf(Part(rows, c.k), y)]
    BY <1>1 DEF Row
  <2> QED
    BY <2>1 DEF Figure
<1>4. \A c \in out : group[c] \subseteq rows /\ \A r \in group[c] : r.k = c.k
  BY DEF Part
<1>5. \A r \in rows : \E c \in out : r \in group[c]
  <2> HIDE DEF out
  <2> QED
    BY <1>1 DEF Part
<1>6. IsFiniteSet(out)
  <2>1. cell \in [rows -> out]
    <3> HIDE DEF out
    <3> QED
      BY <1>1
  <2>2. \A c \in out : \E r \in rows : cell[r] = c
    <3> SUFFICES ASSUME NEW c \in out PROVE \E r \in rows : cell[r] = c
      OBVIOUS
    <3>1. PICK r \in Part(rows, c.k) : TRUE
      BY <1>1
    <3>2. r \in rows /\ r.k = c.k
      BY DEF Part
    <3> HIDE DEF out
    <3> QED
      BY <1>2, <3>2
  <2> HIDE DEF cell, out
  <2> QED
    BY <2>1, <2>2, FewValues DEF Countable
<1>7. \A c \in out : Countable(group[c], x)
  <2> HIDE DEF out, group
  <2> QED
    BY <1>4, FS_Subset DEF Countable
<1>8. \A c \in out : FigureOr0(c, x) = Figures(group[c], x)
  BY <1>3 DEF FigureOr0, Figures
<1>9. Countable(out, x)
  <2> HIDE DEF out, group
  <2> QED
    BY <1>3, <1>6, <1>7, FiguresAdd DEF Countable
<1> HIDE DEF out, group
<1>10. Tot(out, x) = Tot(rows, x)
  BY <1>2, <1>4, <1>5, <1>6, <1>8, Regrouped
<1> QED
  BY <1>9, <1>10 DEF out

(* A row alone, rows that only change their identity, and parts that share *)
(* no row.                                                                 *)
LEMMA TotOfOne ==
  ASSUME NEW r, NEW m, Figure(r, m) \in Int \cup {Null}
  PROVE  Countable({r}, m) /\ Figures({r}, m) = FigureOr0(r, m)
<1> DEFINE f == [x \in {r} |-> FigureOr0(x, m)]
<1>1. Countable({r}, m)
  BY FS_Singleton DEF Countable
<1>2. Figures({r}, m) = SumFunctionOnSet(f, {r})
  BY <1>1, FiguresAdd DEF Tot
<1>3. f[r] = FigureOr0(r, m) /\ f[r] \in Int
  BY NullAssumption DEF FigureOr0, OrZero
<1> HIDE DEF f
<1>4. SumFunctionOnSet(f, {r}) = f[r] + SumFunctionOnSet(f, {r} \ {r})
  <2>1. IsFiniteSet({r}) /\ \A x \in {r} : f[x] \in Int
    BY <1>3, FS_Singleton
  <2> QED
    BY <2>1, SumTakesOne
<1>5. SumFunctionOnSet(f, {r} \ {r}) = 0
  <2>1. {r} \ {r} = {}
    OBVIOUS
  <2> QED
    BY <2>1, SumOfNone
<1> QED
  BY <1>1, <1>2, <1>3, <1>4, <1>5

LEMMA TotIsSame ==
  ASSUME NEW rows, NEW m, Countable(rows, m), NEW out, NEW n,
         NEW f \in [rows -> out], \A t \in out : \E r \in rows : f[r] = t,
         \A r, s \in rows : f[r] = f[s] => r = s,
         \A r \in rows : Figure(f[r], n) = Figure(r, m)
  PROVE  Countable(out, n) /\ Tot(out, n) = Tot(rows, m)
<1> DEFINE group == [t \in out |-> {r \in rows : f[r] = t}]
<1>1. IsFiniteSet(out)
  BY FewValues DEF Countable
<1>2. \A t \in out : \E r \in rows : group[t] = {r} /\ f[r] = t
  OBVIOUS
<1>3. \A t \in out : group[t] \subseteq rows
  OBVIOUS
<1>4. \A r \in rows : \E t \in out : r \in group[t]
  OBVIOUS
<1>5. \A t, u \in out : \A r \in rows : r \in group[t] /\ r \in group[u] => t = u
  OBVIOUS
<1> HIDE DEF group
<1>6. \A t \in out : /\ FigureOr0(t, n) = Figures(group[t], m)
                     /\ Figure(t, n) \in Int \cup {Null}
  <2> TAKE t \in out
  <2>1. PICK r \in rows : group[t] = {r} /\ f[r] = t
    BY <1>2
  <2>2. Figure(r, m) \in Int \cup {Null} /\ Figure(t, n) = Figure(r, m)
    BY <2>1 DEF Countable
  <2>3. Figures({r}, m) = FigureOr0(r, m)
    BY <2>2, TotOfOne
  <2> QED
    BY <2>1, <2>2, <2>3 DEF FigureOr0
<1> QED
  BY <1>1, <1>3, <1>4, <1>5, <1>6, Regrouped DEF Countable

LEMMA SharedAdds ==
  ASSUME NEW D, NEW part, NEW rows, NEW m, SharedOut(D, part, rows, m)
  PROVE  /\ Countable(rows, m)
         /\ Tot(rows, m) = SumFunctionOnSet([d \in D |-> Tot(part[d], m)], D)
<1> USE DEF SharedOut
<1> DEFINE f == [r \in rows |-> FigureOr0(r, m)]
           g == [d \in D |-> Tot(part[d], m)]
           parts == {part[d] : d \in D}
<1>1. IsFiniteSet(rows)
  <2>1. IsFiniteSet(parts)
    <3> DEFINE h == [d \in D |-> part[d]]
    <3>1. h \in [D -> parts] /\ \A p \in parts : \E d \in D : h[d] = p
      OBVIOUS
    <3> HIDE DEF h, parts
    <3> QED
      BY <3>1, FewValues
  <2>2. rows = UNION parts
    OBVIOUS
  <2>3. \A p \in parts : IsFiniteSet(p)
    BY DEF Countable
  <2> HIDE DEF parts
  <2> QED
    BY <2>1, <2>2, <2>3, FS_UNION
<1>2. \A r \in rows : f[r] \in Int /\ Figure(r, m) \in Int \cup {Null}
  BY NullAssumption DEF Countable, FigureOr0, OrZero
<1>3. ASSUME NEW d \in D PROVE g[d] = SumFunctionOnSet(f, part[d])
  <2> DEFINE h == [r \in part[d] |-> FigureOr0(r, m)]
  <2>1. /\ IsFiniteSet(part[d]) /\ g[d] = SumFunctionOnSet(h, part[d])
        /\ \A r \in part[d] : h[r] \in Int /\ h[r] = f[r]
    BY <1>2 DEF Countable, Tot
  <2> HIDE DEF f, g, h
  <2> QED
    BY <2>1, SumIsSame
<1>4. Tot(rows, m) = SumFunctionOnSet(f, rows)
  BY DEF Tot
<1>5. Countable(rows, m)
  BY <1>1, <1>2 DEF Countable
<1> HIDE DEF f, g
<1>6. SumFunctionOnSet(g, D) = SumFunctionOnSet(f, rows)
  BY <1>1, <1>2, <1>3, SumByGroup
<1> QED
  BY <1>4, <1>5, <1>6 DEF g

LEMMA SumOfSingle ==
  ASSUME NEW f, NEW x, f[x] \in Int
  PROVE  SumFunctionOnSet(f, {x}) = f[x]
<1>1. IsFiniteSet({x}) /\ \A y \in {x} : f[y] \in Int
  BY FS_Singleton
<1>2. SumFunctionOnSet(f, {x}) = f[x] + SumFunctionOnSet(f, {x} \ {x})
  BY <1>1, SumTakesOne
<1>3. {x} \ {x} = {}
  OBVIOUS
<1>4. SumFunctionOnSet(f, {x} \ {x}) = 0
  BY <1>3, SumOfNone
<1> QED
  BY <1>2, <1>4

LEMMA SumRenamed ==
  ASSUME NEW S, IsFiniteSet(S), NEW T, NEW f, \A x \in S : f[x] \in Int,
         NEW to \in [S -> T], \A t \in T : \E x \in S : to[x] = t,
         \A x, y \in S : to[x] = to[y] => x = y,
         NEW h, \A x \in S : h[to[x]] = f[x]
  PROVE  SumFunctionOnSet(h, T) = SumFunctionOnSet(f, S)
<1> DEFINE group == [t \in T |-> {x \in S : to[x] = t}]
<1>1. IsFiniteSet(T)
  BY FewValues
<1>2. \A t \in T : \E x \in S : group[t] = {x} /\ to[x] = t
  OBVIOUS
<1>3. /\ \A t \in T : group[t] \subseteq S
      /\ \A x \in S : \E t \in T : x \in group[t]
      /\ \A t, u \in T : \A x \in S : x \in group[t] /\ x \in group[u] => t = u
  OBVIOUS
<1> HIDE DEF group
<1>4. \A t \in T : h[t] = SumFunctionOnSet(f, group[t])
  <2> TAKE t \in T
  <2>1. PICK x \in S : group[t] = {x} /\ to[x] = t
    BY <1>2
  <2>2. SumFunctionOnSet(f, {x}) = f[x]
    BY SumOfSingle
  <2> QED
    BY <2>1, <2>2
<1> QED
  BY <1>1, <1>3, <1>4, SumByGroup

(* The sum of ones and zeroes counts the ones.                             *)
LEMMA SumCounts ==
  ASSUME NEW S, IsFiniteSet(S), NEW A \in SUBSET S, NEW f,
         \A x \in A : f[x] = 1, \A x \in S \ A : f[x] = 0
  PROVE  IsFiniteSet(A) /\ SumFunctionOnSet(f, S) = Cardinality(A)
<1> DEFINE Rest == S \ A
<1>1. IsFiniteSet(A) /\ IsFiniteSet(Rest) /\ A \cap Rest = {} /\ A \cup Rest = S
  BY FS_Subset
<1>2. /\ \A x \in A \cup Rest : f[x] \in Int
      /\ \A x \in Rest : f[x] = 0
  OBVIOUS
<1> HIDE DEF Rest
<1>3. SumFunctionOnSet(f, A \cup Rest) = SumFunctionOnSet(f, A) + SumFunctionOnSet(f, Rest)
  BY <1>1, <1>2, SumOfTwo
<1>4. SumFunctionOnSet(f, A) = Cardinality(A) /\ SumFunctionOnSet(f, Rest) = 0
  BY <1>1, <1>2, SumOfOnes, SumOfZeroes
<1>5. Cardinality(A) \in Int
  BY <1>1, FS_CardinalityType
<1>6. SumFunctionOnSet(f, S) = SumFunctionOnSet(f, A \cup Rest)
  BY <1>1, Zenon
<1> QED
  BY <1>1, <1>3, <1>4, <1>5, <1>6

-----------------------------------------------------------------------------
(* New customers                                                           *)

(* The cube of a day counts as new the customers whose first order, as far *)
(* as was known, is among the orders it was folded from.                   *)
LEMMA NewOfDay ==
  ASSUME NEW S \in SUBSET DOMAIN Orders, NEW first
  PROVE  LET cube == FoldOrdersDaily(FactsOf(S), first)
         IN  /\ Countable(cube, "customersNew")
             /\ Tot(cube, "customersNew") = Cardinality(NewOf(S, first))
<1> DEFINE measures == ORDER_MEASURES \cup {"customersNew"}
           rows == {OrderRow(f, first) : f \in FactsOf(S)}
           row == [o \in S |-> OrderRow(Fact[o], first)]
           figure == [o \in S |-> IF IsFirst(Fact[o], first) THEN 1 ELSE 0]
           h == [r \in rows |-> FigureOr0(r, "customersNew")]
<1>1. \A f : /\ OrderRow(f, first).id = f.orderId
             /\ Figure(OrderRow(f, first), "customersNew")
                  = IF IsFirst(f, first) THEN 1 ELSE Null
  BY DEF OrderRow, Row, Figure
<1>2. IsFiniteSet(S) /\ \A o \in S : Fact[o] \in FactsOf(S) /\ Fact[o].orderId = o
  BY FactsAreFinite, FactOfOrder DEF FactsOf
<1>3. /\ row \in [S -> rows] /\ \A r \in rows : \E o \in S : row[o] = r
      /\ \A o, p \in S : row[o] = row[p] => o = p
  <2>1. row \in [S -> rows]
    BY <1>2
  <2>2. \A r \in rows : \E o \in S : row[o] = r
    BY DEF FactsOf
  <2>3. \A o \in S : row[o].id = o
    BY <1>1, <1>2
  <2> HIDE DEF row
  <2> QED
    BY <2>1, <2>2, <2>3
<1>4. \A r \in rows : Figure(r, "customersNew") \in Int \cup {Null}
  BY <1>1
<1>5. Countable(rows, "customersNew")
  <2> HIDE DEF row, rows
  <2> QED
    BY <1>2, <1>3, <1>4, FewValues DEF Countable
<1>6. \A o \in S : h[row[o]] = figure[o] /\ figure[o] \in Int
  BY <1>1, <1>2, NullAssumption DEF FigureOr0, OrZero
<1>7. Tot(rows, "customersNew") = SumFunctionOnSet(h, rows)
  BY DEF Tot
<1>8. SumFunctionOnSet(h, rows) = SumFunctionOnSet(figure, S)
  <2> HIDE DEF h, rows, figure, row
  <2> QED
    BY <1>2, <1>3, <1>6, SumRenamed
<1>9. SumFunctionOnSet(figure, S) = Cardinality(NewOf(S, first))
  <2>1. /\ NewOf(S, first) \in SUBSET S
        /\ \A o \in NewOf(S, first) : figure[o] = 1
        /\ \A o \in S \ NewOf(S, first) : figure[o] = 0
    BY DEF NewOf
  <2> HIDE DEF figure
  <2> QED
    BY <1>2, <2>1, SumCounts
<1>10. FoldOrdersDaily(FactsOf(S), first) = Fold(rows, measures)
  BY DEF FoldOrdersDaily
<1>11. "customersNew" \in measures
  OBVIOUS
<1> HIDE DEF rows, measures, h, figure
<1> QED
  BY <1>5, <1>7, <1>8, <1>9, <1>10, <1>11, FoldAdds

(* All days together count the orders each of which was the first known of *)
(* its customer when its day was folded.                                   *)
LEMMA NewOfDays ==
  ASSUME IInv, JobInv
  PROVE  /\ IsFiniteSet(CountedAsNew)
         /\ Figures(NewCells, "customersNew") = Cardinality(CountedAsNew)
<1> DEFINE D == DOMAIN cubes
           cube == [d \in D |-> Partitions[d]["orders-daily"]]
           part == [d \in D |-> {Row(<<d, c.k>>, c.k, c.m) : c \in cube[d]}]
           new == [d \in D |-> NewOn(d)]
           size == [d \in D |-> Cardinality(new[d])]
           one == [o \in CountedAsNew |-> 1]
<1>1. IsFiniteSet(D) /\ orders \subseteq DOMAIN Orders
  BY DEF JobInv
<1>2. IsFiniteSet(CountedAsNew)
  BY <1>1, OrderAssumption, FS_Subset DEF CountedAsNew
<1>3. ASSUME NEW d \in D
      PROVE  /\ Countable(cube[d], "customersNew")
             /\ Tot(cube[d], "customersNew") = Cardinality(new[d])
  <2>1. cubes[d].orders \in SUBSET DOMAIN Orders
    BY <1>1 DEF IInv, OnDay
  <2>2. cube[d] = FoldOrdersDaily(FactsOf(cubes[d].orders), FirstOf(cubes[d].known))
    BY DEF Partitions, FoldDay, DAILY_CUBES
  <2> QED
    BY <2>1, <2>2, NewOfDay DEF NewOn
<1>4. ASSUME NEW d \in D, NEW c \in cube[d], NEW e \in cube[d], c.k = e.k
      PROVE  c = e
  <2>1. cube[d] = FoldOrdersDaily(FactsOf(cubes[d].orders), FirstOf(cubes[d].known))
    BY DEF Partitions, FoldDay, DAILY_CUBES
  <2> DEFINE rows == {OrderRow(f, FirstOf(cubes[d].known)) :
                        f \in FactsOf(cubes[d].orders)}
             measures == ORDER_MEASURES \cup {"customersNew"}
  <2>2. cube[d] = Fold(rows, measures)
    BY <2>1 DEF FoldOrdersDaily
  <2> HIDE DEF cube, rows, measures
  <2>3. \A x \in Fold(rows, measures) :
          x = Row(x.k, x.k, [m \in measures |-> SumOf(Part(rows, x.k), m)])
    BY CellsOfFold
  <2> QED
    BY <1>4, <2>2, <2>3
<1>5. ASSUME NEW d \in D
      PROVE  /\ Countable(part[d], "customersNew")
             /\ Tot(part[d], "customersNew") = size[d]
  <2> DEFINE C == cube[d]
             out == part[d]
             tag == [c \in C |-> Row(<<d, c.k>>, c.k, c.m)]
  <2>1. tag \in [C -> out] /\ \A t \in out : \E c \in C : tag[c] = t
    OBVIOUS
  <2>2. \A c \in C : /\ tag[c].k = c.k
                     /\ Figure(tag[c], "customersNew") = Figure(c, "customersNew")
    BY DEF Row, Figure
  <2>3. \A c, e \in C : tag[c] = tag[e] => c = e
    BY <1>4, <2>2
  <2>4. Countable(C, "customersNew") /\ Tot(C, "customersNew") = size[d]
    BY <1>3
  <2> HIDE DEF C, tag, out
  <2>5. Countable(out, "customersNew") /\ Tot(out, "customersNew") = size[d]
    BY <2>1, <2>2, <2>3, <2>4, TotIsSame
  <2> QED
    BY <2>5 DEF out
<1>6. \A d, e \in D : \A r \in part[d] : r \in part[e] => d = e
  <2>1. \A d \in D : \A r \in part[d] : r.id[1] = d
    BY DEF Row
  <2> HIDE DEF part
  <2> QED
    BY <2>1
<1>7. NewCells = UNION {part[d] : d \in D}
  BY DEF NewCells
<1> HIDE DEF cube, part
<1>8. /\ \A d \in D : part[d] \subseteq NewCells
      /\ \A r \in NewCells : \E d \in D : r \in part[d]
  BY <1>7
<1>9. /\ Countable(NewCells, "customersNew")
      /\ Tot(NewCells, "customersNew")
           = SumFunctionOnSet([d \in D |-> Tot(part[d], "customersNew")], D)
  <2>1. SharedOut(D, part, NewCells, "customersNew")
    BY <1>1, <1>5, <1>6, <1>8 DEF SharedOut
  <2> QED
    BY <2>1, SharedAdds
<1>10. [d \in D |-> Tot(part[d], "customersNew")] = size
  BY <1>5
<1>11. ASSUME NEW d \in D
       PROVE  /\ new[d] \subseteq CountedAsNew
              /\ \A o \in new[d] : Fact[o].businessDate = d
              /\ size[d] = SumFunctionOnSet(one, new[d])
  <2>1. new[d] \subseteq OnDay(orders, d)
    BY DEF NewOn, NewOf, IInv
  <2>2. new[d] \subseteq CountedAsNew /\ \A o \in new[d] : Fact[o].businessDate = d
    BY <2>1 DEF CountedAsNew, OnDay
  <2>3. IsFiniteSet(new[d]) /\ \A o \in new[d] : one[o] = 1
    BY <1>2, <2>2, FS_Subset
  <2>4. SumFunctionOnSet(one, new[d]) = Cardinality(new[d])
    <3> HIDE DEF one, new
    <3> QED
      BY <2>3, SumOfOnes
  <2> QED
    BY <2>2, <2>4
<1>12. \A o \in CountedAsNew : \E d \in D : o \in new[d]
  BY DEF CountedAsNew
<1>13. \A o \in CountedAsNew : one[o] \in Int /\ one[o] = 1
  OBVIOUS
<1> HIDE DEF new, size, one
<1>14. SumFunctionOnSet(size, D) = SumFunctionOnSet(one, CountedAsNew)
  BY <1>1, <1>2, <1>11, <1>12, <1>13, SumByGroup
<1>15. SumFunctionOnSet(one, CountedAsNew) = Cardinality(CountedAsNew)
  BY <1>2, <1>13, SumOfOnes
<1>16. Figures(NewCells, "customersNew") = Tot(NewCells, "customersNew")
  BY <1>9, FiguresAdd
<1> QED
  BY <1>2, <1>9, <1>10, <1>14, <1>15, <1>16

LEMMA FirstOfOrders ==
  ASSUME NEW S \in SUBSET DOMAIN Orders, NEW c \in CustomersOf(FactsOf(S))
  PROVE  LET o == FirstIds(S)[c]
         IN  /\ o \in S /\ Fact[o].customer = c /\ c # Null
             /\ \A p \in S : Fact[p].customer = c => Earlier(Fact[o], Fact[p])
             /\ FirstOf(S)[c] = o /\ c \in DOMAIN FirstOf(S)
<1> DEFINE facts == FactsOf(S)
           O == OrdersOf(facts, c)
<1>1. /\ IsFiniteSet(facts) /\ Dated(facts)
      /\ \A f \in facts : f.orderId \in S /\ f = Fact[f.orderId]
  BY FactsAreFinite
<1>2. c # Null /\ O # {} /\ O \subseteq facts
  BY DEF CustomersOf, Attributed, OrdersOf
<1>3. IsFiniteSet(O) /\ Dated(O) /\ \A f \in O : f.customer = c
  BY <1>1, <1>2, FS_Subset DEF Dated, OrdersOf
<1>4. FirstIds(S)[c] = FirstOrder(O).orderId
  BY DEF FirstIds
<1>5. \A p \in S : Fact[p].customer = c => Fact[p] \in O
  BY DEF OrdersOf, FactsOf
<1>6. FirstOf(S)[c] = FirstIds(S)[c] /\ c \in DOMAIN FirstOf(S)
  BY DEF FirstOf, FirstOrderIds, FirstIds
<1> HIDE DEF O, facts
<1>7. FirstOrder(O) \in O /\ \A g \in O : Earlier(FirstOrder(O), g)
  BY <1>2, <1>3, FirstExists
<1>8. FirstOrder(O) = Fact[FirstIds(S)[c]] /\ FirstIds(S)[c] \in S
  BY <1>1, <1>2, <1>4, <1>7
<1> QED
  BY <1>2, <1>3, <1>5, <1>6, <1>7, <1>8

(* When all that is there was folded, the first order of each customer    *)
(* has been counted, and unless some order came after a later day of its   *)
(* customer was folded, no other order has.                                *)
LEMMA FirstAreCounted ==
  ASSUME IInv, JobInv, AllFolded
  PROVE  /\ \A c \in CustomersOf(FactsOf(orders)) : FirstIds(orders)[c] \in CountedAsNew
         /\ ~BackDated =>
              \A o \in CountedAsNew : /\ Fact[o].customer \in CustomersOf(FactsOf(orders))
                                      /\ o = FirstIds(orders)[Fact[o].customer]
<1>1. orders \in SUBSET DOMAIN Orders
  BY DEF JobInv
<1>2. \A o \in orders : Folded(o) /\ KnownFolded(o)
  BY DEF AllFolded
<1>3. \A o \in orders : o \in Int /\ Fact[o].orderId = o /\ Fact[o].businessDate \in Int
  BY <1>1, FactOfOrder
<1>4. \A d \in DOMAIN cubes : /\ cubes[d].known \in SUBSET DOMAIN Orders
                              /\ cubes[d].known \subseteq orders
                              /\ FirstOf(cubes[d].known) # Null
                              /\ cubes[d].orders \subseteq OnDay(orders, d)
  BY <1>1, FirstAssumption DEF JobInv, IInv
<1>5. ASSUME NEW c \in CustomersOf(FactsOf(orders))
      PROVE  FirstIds(orders)[c] \in CountedAsNew
  <2> DEFINE o == FirstIds(orders)[c]
             d == Fact[o].businessDate
             K == cubes[d].known
             p == FirstIds(K)[c]
  <2>1. /\ o \in orders /\ Fact[o].customer = c /\ c # Null
        /\ \A x \in orders : Fact[x].customer = c => Earlier(Fact[o], Fact[x])
    BY <1>1, <1>5, FirstOfOrders
  <2> HIDE DEF o
  <2>2. d \in DOMAIN cubes /\ o \in cubes[d].orders /\ o \in K
    BY <1>2, <2>1 DEF Folded, KnownFolded
  <2>3. c \in CustomersOf(FactsOf(K))
    BY <2>1, <2>2 DEF CustomersOf, FactsOf, Attributed
  <2>4. K \in SUBSET DOMAIN Orders /\ K \subseteq orders /\ FirstOf(K) # Null
    BY <1>4, <2>2
  <2> HIDE DEF K
  <2>5. /\ p \in K /\ Fact[p].customer = c /\ Earlier(Fact[p], Fact[o])
        /\ FirstOf(K)[c] = p /\ c \in DOMAIN FirstOf(K)
    BY <2>1, <2>2, <2>3, <2>4, FirstOfOrders
  <2> HIDE DEF p
  <2>6. p = o
    <3>1. Earlier(Fact[o], Fact[p])
      BY <2>1, <2>4, <2>5
    <3>2. p \in orders
      BY <2>4, <2>5
    <3> QED
      BY <1>3, <2>1, <2>5, <3>1, <3>2 DEF Earlier
  <2>7. IsFirst(Fact[o], FirstOf(K))
    BY <1>3, <2>1, <2>4, <2>5, <2>6 DEF IsFirst
  <2> QED
    BY <2>1, <2>2, <2>7 DEF CountedAsNew, NewOn, NewOf, o, K
<1>6. ASSUME ~BackDated, NEW o \in CountedAsNew
      PROVE  /\ Fact[o].customer \in CustomersOf(FactsOf(orders))
             /\ o = FirstIds(orders)[Fact[o].customer]
  <2> DEFINE c == Fact[o].customer
             d == Fact[o].businessDate
             K == cubes[d].known
             p == FirstIds(orders)[c]
             k == FirstIds(K)[c]
  <2>1. /\ o \in orders /\ d \in DOMAIN cubes /\ o \in cubes[d].orders
        /\ IsFirst(Fact[o], FirstOf(K))
    BY <1>6 DEF CountedAsNew, NewOn, NewOf
  <2>2. c # Null /\ c \in DOMAIN FirstOf(K) /\ FirstOf(K)[c] = o
    BY <1>3, <2>1 DEF IsFirst
  <2>3. c \in CustomersOf(FactsOf(K)) /\ c \in CustomersOf(FactsOf(orders))
    BY <2>1, <2>2 DEF FirstOf, FirstOrderIds, CustomersOf, FactsOf, Attributed
  <2>4. K \in SUBSET DOMAIN Orders /\ K \subseteq orders
    BY <1>4, <2>1
  <2> HIDE DEF K, c
  <2>5. /\ FirstOf(K)[c] = k
        /\ \A x \in K : Fact[x].customer = c => Earlier(Fact[k], Fact[x])
    BY <2>3, <2>4, FirstOfOrders
  <2>6. /\ p \in orders /\ Fact[p].customer = c
        /\ \A x \in orders : Fact[x].customer = c => Earlier(Fact[p], Fact[x])
    BY <1>1, <2>3, FirstOfOrders
  <2> HIDE DEF k, p
  <2>7. k = o
    BY <2>2, <2>5
  <2>8. p \in K
    <3>1. SUFFICES ASSUME p \notin K PROVE FALSE
      OBVIOUS
    <3>2. Earlier(Fact[p], Fact[o])
      BY <2>1, <2>6 DEF c
    <3>3. Fact[p].businessDate < d \/ Fact[p].businessDate = d
      BY <3>2 DEF Earlier
    <3>4. Fact[p].businessDate # d
      BY <1>2, <2>6, <3>1 DEF KnownFolded, K
    <3>5. BackDated
      BY <2>1, <2>2, <2>6, <3>1, <3>3, <3>4 DEF BackDated, c, K
    <3> QED
      BY <1>6, <3>5
  <2>9. Earlier(Fact[o], Fact[p]) /\ Earlier(Fact[p], Fact[o])
    BY <2>1, <2>5, <2>6, <2>7, <2>8 DEF c
  <2>10. o = p
    BY <1>3, <2>1, <2>6, <2>9 DEF Earlier
  <2> QED
    BY <2>3, <2>10 DEF c, p
<1> QED
  BY <1>5, <1>6

(* Every customer is counted as new once the job has caught up and left no *)
(* day, and exactly once unless an order arrived after a later day of its customer  *)
(* was folded (order-mapping.ts:359), whatever orders arrive and whatever  *)
(* the passes they arrive between.                                         *)
THEOREM NewAreCountedOnce == Spec => []NewCountedOnce
<1>1. IInv /\ JobInv => NewCountedOnce
  <2> SUFFICES ASSUME IInv, JobInv PROVE NewCountedOnce
    OBVIOUS
  <2> DEFINE customers == CustomersOf(FactsOf(orders))
             new == Figures(NewCells, "customersNew")
             N == CountedAsNew
             first == FirstIds(orders)
  <2>1. NewCountedOnce <=>
          (Settled => new >= Cardinality(customers)
                      /\ (BackDated \/ new = Cardinality(customers)))
    BY Zenon DEF NewCountedOnce, NewCells
  <2>2. SUFFICES ASSUME Settled
                 PROVE  new >= Cardinality(customers)
                        /\ (BackDated \/ new = Cardinality(customers))
    BY <2>1
  <2>3. IsFiniteSet(N) /\ new = Cardinality(N) /\ Cardinality(N) \in Nat
    BY NewOfDays, FS_CardinalityType
  <2>4. /\ \A c \in customers : first[c] \in N
        /\ ~BackDated => \A o \in N : /\ Fact[o].customer \in customers
                                      /\ o = first[Fact[o].customer]
    <3>1. AllFolded
      BY <2>2 DEF Settled, AllFolded, IInv, JobInv, LeftOut
    <3> QED
      BY <3>1, FirstAreCounted
  <2>5. \A c \in customers : Fact[first[c]].customer = c
    BY FirstOfOrders DEF JobInv
  <2>6. DOMAIN first = customers /\ first = [c \in customers |-> first[c]]
    BY DEF FirstIds
  <2> HIDE DEF first, customers, N, new
  <2>7. first \in [customers -> N] /\ \A c, e \in customers : first[c] = first[e] => c = e
    BY <2>4, <2>5, <2>6
  <2>8. first \in Injection(customers, N)
    BY <2>7 DEF Injection, IsInjective
  <2>9. IsFiniteSet(customers) /\ Cardinality(customers) <= Cardinality(N)
    BY <2>3, <2>8, FS_Injection
  <2>10. ~BackDated => Cardinality(N) <= Cardinality(customers)
    <3>1. ~BackDated => \A o \in N : \E c \in customers : first[c] = o
      BY <2>4
    <3> QED
      BY <2>7, <2>9, <3>1, FewValues
  <2>11. Cardinality(customers) \in Nat
    BY <2>9, FS_CardinalityType
  <2> QED
    BY <2>3, <2>9, <2>10, <2>11
<1> QED
  BY <1>1, InitIInv, StepIInv, InitJobInv, StepJobInv, PTL DEF Spec

-----------------------------------------------------------------------------
(* Merging                                                                 *)

(* An answer has one row for each key, its figures added up.               *)
LEMMA CollapsedAt ==
  ASSUME NEW rows, IsFiniteSet(rows), NEW joinKey, NEW metrics, NEW m,
         \A r \in rows : DOMAIN r.m = metrics
  PROVE  LET out == CollapseToJoinKey(rows, joinKey, metrics)
         IN  /\ \A r \in rows : \E t \in out : t.k = KeyFor(r.k, joinKey)
             /\ \A t \in out : /\ AtKey(rows, joinKey, t.k) # {}
                               /\ DOMAIN t.m = metrics
             /\ \A t, u \in out : t.k = u.k => t = u
             /\ IsFiniteSet(out)
             /\ (/\ m \in metrics /\ Countable(rows, m)
                 /\ AddsUp(m) /\ Aggregation(m) # "avg")
                => \A t \in out :
                     Figure(t, m) = SumOf(AtKey(rows, joinKey, t.k), m)
<1> DEFINE key == [r \in rows |-> KeyFor(r.k, joinKey)]
           At(k) == AtKey(rows, joinKey, k)
           Key(group) == KeyFor((CHOOSE r \in group : TRUE).k, joinKey)
           Joint(group) ==
             IF Cardinality(group) = 1
               THEN Row(Key(group), Key(group), (CHOOSE r \in group : TRUE).m)
               ELSE Row(Key(group), Key(group),
                        [x \in metrics |-> Collapsed(group, x)])
           groups == {{r \in rows : key[r] = c} : c \in Range(key)}
           out == CollapseToJoinKey(rows, joinKey, metrics)
           Plain == /\ m \in metrics /\ Countable(rows, m)
                    /\ AddsUp(m) /\ Aggregation(m) # "avg"
<1>1. out = {Joint(group) : group \in groups}
  BY DEF CollapseToJoinKey, GroupsBy
<1>2. ASSUME NEW c \in Range(key)
      PROVE  /\ {r \in rows : key[r] = c} = At(c) /\ At(c) # {}
             /\ (CHOOSE r \in At(c) : TRUE) \in At(c) /\ Key(At(c)) = c
  BY DEF Range, AtKey
<1>3. \A t : t \in out <=> \E c \in Range(key) : t = Joint(At(c))
  <2> DEFINE cs == Range(key)
             part == [c \in cs |-> {r \in rows : key[r] = c}]
  <2>1. out = {Joint(part[c]) : c \in cs}
    <3>1. groups = {part[c] : c \in cs}
      OBVIOUS
    <3> HIDE DEF Joint, key, out, cs, part, groups
    <3> QED
      BY <1>1, <3>1
  <2>2. \A c \in cs : part[c] = At(c)
    BY <1>2
  <2> HIDE DEF Joint, key, out, At, cs, part
  <2>3. \A t : t \in out <=> \E c \in cs : t = Joint(part[c])
    BY <2>1
  <2>4. \A t : t \in out <=> \E c \in cs : t = Joint(At(c))
    BY <2>2, <2>3
  <2> QED
    BY <2>4 DEF cs
<1>4. ASSUME NEW c \in Range(key)
      PROVE  /\ Joint(At(c)).k = c /\ DOMAIN Joint(At(c)).m = metrics
             /\ Plain => Figure(Joint(At(c)), m) = SumOf(At(c), m)
  <2> DEFINE G == At(c)
             r == CHOOSE x \in G : TRUE
  <2>1. G \subseteq rows /\ r \in G /\ Key(G) = c /\ G # {}
    BY <1>2 DEF AtKey
  <2>2. IsFiniteSet(G) /\ (Plain => Countable(G, m))
    BY <2>1, FS_Subset DEF Countable
  <2> HIDE DEF G, r
  <2>3. CASE Cardinality(G) = 1
    <3>1. G = {r}
      <4>1. Cardinality(G \ {r}) = 0 /\ IsFiniteSet(G \ {r})
        BY <2>1, <2>2, <2>3, FS_RemoveElement
      <4>2. G \ {r} = {}
        BY <4>1, FS_EmptySet
      <4> QED
        BY <2>1, <4>2
    <3>2. Joint(G) = Row(c, c, r.m)
      BY <2>1, <2>3 DEF r
    <3>0. DOMAIN r.m = metrics
      BY <2>1
    <3>3. Plain => r.m[m] \in Int \cup {Null} /\ Figure(r, m) = r.m[m]
      BY <2>1, <2>2, <3>0 DEF Countable, Figure
    <3>4. ASSUME Plain PROVE SumOf(G, m) = r.m[m]
      <4>1. CASE r.m[m] = Null
        <5>1. Having(G, m) = {}
          BY <3>1, <3>3, <3>4, <4>1 DEF Having
        <5> QED
          BY <4>1, <5>1 DEF SumOf
      <4>2. CASE r.m[m] # Null
        <5> DEFINE h == [x \in Having(G, m) |-> x.m[m]]
        <5>1. Having(G, m) = {r} /\ DOMAIN h = Having(G, m)
          BY <3>1, <3>3, <3>4, <4>2 DEF Having
        <5>2. h[r] = r.m[m] /\ h[r] \in Int
          BY <3>3, <3>4, <4>2, <5>1
        <5>3. SumOf(G, m) = SumFunctionOnSet(h, {r})
          BY <5>1 DEF SumOf, SumFunction
        <5> HIDE DEF h
        <5> QED
          BY <5>2, <5>3, SumOfSingle
      <4> QED
        BY <4>1, <4>2
    <3> QED
      BY <3>0, <3>2, <3>3, <3>4 DEF Row, Figure, G
  <2>4. CASE Cardinality(G) # 1
    <3>1. Joint(G) = Row(c, c, [x \in metrics |-> Collapsed(G, x)])
      BY <2>1, <2>4
    <3>2. /\ m \in metrics => Figure(Joint(G), m) = Collapsed(G, m)
          /\ DOMAIN Joint(G).m = metrics /\ Joint(G).k = c
      BY <3>1 DEF Row, Figure
    <3>3. Plain => Collapsed(G, m) = SumOf(G, m)
      <4>1. {x.m[m] : x \in Having(G, m)} = {} <=> Having(G, m) = {}
        OBVIOUS
      <4> QED
        BY <4>1 DEF Collapsed, SumOf
    <3> QED
      BY <3>2, <3>3 DEF G
  <2> QED
    BY <2>3, <2>4
<1>5. \A r \in rows : KeyFor(r.k, joinKey) \in Range(key)
  BY DEF Range
<1> HIDE DEF Joint, key, At
<1>6. \A r \in rows : \E t \in out : t.k = KeyFor(r.k, joinKey)
  BY <1>3, <1>4, <1>5
<1>7. ASSUME NEW t \in out
      PROVE  /\ AtKey(rows, joinKey, t.k) # {} /\ DOMAIN t.m = metrics
             /\ Plain => Figure(t, m) = SumOf(AtKey(rows, joinKey, t.k), m)
  <2>1. PICK c \in Range(key) : t = Joint(At(c))
    BY <1>3
  <2> QED
    BY <1>2, <1>4, <2>1 DEF At
<1>8. \A t, u \in out : t.k = u.k => t = u
  BY <1>3, <1>4
<1>9. IsFiniteSet(out)
  <2> DEFINE of == [r \in rows |-> CHOOSE t \in out : t.k = KeyFor(r.k, joinKey)]
  <2>1. of \in [rows -> out] /\ \A r \in rows : of[r].k = KeyFor(r.k, joinKey)
    <3> HIDE DEF out
    <3> QED
      BY <1>6
  <2>2. ASSUME NEW t \in out PROVE \E r \in rows : of[r] = t
    <3>1. PICK r \in AtKey(rows, joinKey, t.k) : TRUE
      BY <1>7
    <3>2. r \in rows /\ KeyFor(r.k, joinKey) = t.k
      BY <3>1 DEF AtKey
    <3> HIDE DEF out, of
    <3> QED
      BY <1>8, <2>1, <3>2
  <2> HIDE DEF of, out
  <2> QED
    BY <2>1, <2>2, FewValues
<1> QED
  BY <1>6, <1>7, <1>8, <1>9

(* One row for each key, and what it has of a metric is what the rows of   *)
(* that key in the answer to that metric have.                             *)
LEMMA JoinedAt ==
  ASSUME NEW some, Mergeable(some), NEW joinKey
  PROVE  LET out == FullOuterJoin(some, joinKey)
         IN  /\ \A a \in some : \A r \in a.rows :
                  \E t \in out : t.k = KeyFor(r.k, joinKey)
             /\ \A t \in out : /\ t = Row("joined", t.k, t.m) /\ DOMAIN t.k = joinKey
                               /\ \E a \in some : AtKey(a.rows, joinKey, t.k) # {}
                               /\ \A m \in DOMAIN t.m : \E a \in some : m \in a.metrics
             /\ \A t, u \in out : t.k = u.k => t = u
             /\ IsFiniteSet(out)
             /\ \A a \in some : \A m \in a.metrics :
                  Countable(a.rows, m) /\ AddsUp(m) /\ Aggregation(m) # "avg"
                    => \A t \in out :
                         Figure(t, m) = SumOf(AtKey(a.rows, joinKey, t.k), m)
<1> DEFINE part == [a \in some |-> CollapseToJoinKey(a.rows, joinKey, a.metrics)]
           parts == UNION {CollapseToJoinKey(a.rows, joinKey, a.metrics) : a \in some}
           key == [r \in parts |-> r.k]
           Joined(group) ==
             [m \in UNION {DOMAIN r.m : r \in group} |->
                (CHOOSE r \in group : m \in DOMAIN r.m).m[m]]
           Joint(group) == Row("joined", (CHOOSE r \in group : TRUE).k, Joined(group))
           groups == {{r \in parts : key[r] = c} : c \in Range(key)}
           out == FullOuterJoin(some, joinKey)
           ks == Range(key)
           at == [c \in ks |-> {r \in parts : key[r] = c}]
           Plain(a, m) == Countable(a.rows, m) /\ AddsUp(m) /\ Aggregation(m) # "avg"
<1>1. out = {Joint(group) : group \in groups}
  BY DEF FullOuterJoin, GroupsBy
<1>2. \A t : t \in out <=> \E c \in ks : t = Joint(at[c])
  <2>1. groups = {at[c] : c \in ks}
    OBVIOUS
  <2> HIDE DEF Joint, key, out, ks, at, groups
  <2> QED
    BY <1>1, <2>1
<1>3. ASSUME NEW a \in some
      PROVE  /\ \A r \in a.rows : \E t \in part[a] : t.k = KeyFor(r.k, joinKey)
             /\ \A t \in part[a] : /\ AtKey(a.rows, joinKey, t.k) # {}
                                   /\ DOMAIN t.m = a.metrics
             /\ IsFiniteSet(part[a])
             /\ \A m \in a.metrics : Plain(a, m) =>
                  \A t \in part[a] : Figure(t, m) = SumOf(AtKey(a.rows, joinKey, t.k), m)
  <2>1. IsFiniteSet(a.rows) /\ \A r \in a.rows : DOMAIN r.m = a.metrics
    BY DEF Mergeable
  <2> QED
    BY <2>1, CollapsedAt
<1>4. /\ \A a \in some : part[a] \subseteq parts
      /\ \A r \in parts : \E a \in some : r \in part[a]
  OBVIOUS
<1>5. IsFiniteSet(parts)
  <2> DEFINE sets == {part[a] : a \in some}
             f == [a \in some |-> part[a]]
  <2>1. f \in [some -> sets]
    OBVIOUS
  <2>2. \A s \in sets : \E a \in some : f[a] = s
    OBVIOUS
  <2>3. IsFiniteSet(sets)
    <3>1. IsFiniteSet(some)
      BY DEF Mergeable
    <3> HIDE DEF part, sets, f
    <3> QED
      BY <2>1, <2>2, <3>1, FewValues
  <2>4. parts = UNION sets /\ \A s \in sets : IsFiniteSet(s)
    BY <1>3
  <2> HIDE DEF parts, sets
  <2> QED
    BY <2>3, <2>4, FS_UNION
<1> HIDE DEF part, parts
<1>6. ASSUME NEW c \in ks
      PROVE  /\ at[c] # {} /\ at[c] \subseteq parts /\ \A r \in at[c] : r.k = c
             /\ Joint(at[c]).k = c
             /\ Joint(at[c]) = Row("joined", Joint(at[c]).k, Joint(at[c]).m)
             /\ Joint(at[c]).m = Joined(at[c])
             /\ DOMAIN Joined(at[c]) = UNION {DOMAIN r.m : r \in at[c]}
  <2>1. at[c] # {} /\ at[c] \subseteq parts /\ \A r \in at[c] : r.k = c
    BY DEF Range
  <2>2. (CHOOSE r \in at[c] : TRUE).k = c
    <3> HIDE DEF at
    <3> QED
      BY <2>1
  <2> HIDE DEF at, Joined
  <2>3. /\ Joint(at[c]).k = c
        /\ Joint(at[c]) = Row("joined", Joint(at[c]).k, Joint(at[c]).m)
        /\ Joint(at[c]).m = Joined(at[c])
    BY <2>2 DEF Row
  <2> QED
    BY <2>1, <2>3 DEF Joined
<1>7. \A r \in parts : r.k \in ks /\ r \in at[r.k]
  BY DEF Range
<1>8. ASSUME NEW a \in some, NEW m \in a.metrics, Plain(a, m), NEW c \in ks
      PROVE  Figure(Joint(at[c]), m) = SumOf(AtKey(a.rows, joinKey, c), m)
  <2> DEFINE G == at[c]
             has == \E r \in G : m \in DOMAIN r.m
  <2>1. \A r \in G : m \in DOMAIN r.m => r \in part[a]
    BY <1>3, <1>4, <1>6 DEF Mergeable
  <2>2. CASE has
    <3> DEFINE r == CHOOSE x \in G : m \in DOMAIN x.m
    <3>1. r \in G /\ m \in DOMAIN r.m /\ r \in part[a] /\ r.k = c
      <4> HIDE DEF G
      <4>1. r \in G /\ m \in DOMAIN r.m
        BY <2>2
      <4> QED
        BY <1>6, <2>1, <4>1 DEF G
    <3>2. m \in UNION {DOMAIN x.m : x \in G}
      BY <3>1
    <3>3. Joined(G)[m] = r.m[m]
      BY <3>2
    <3>4. Joint(G).m = Joined(G) /\ m \in DOMAIN Joined(G)
      BY <1>6, <3>2
    <3>5. Figure(Joint(G), m) = Figure(r, m)
      <4> HIDE DEF Joint, Joined, G, r
      <4> QED
        BY <3>1, <3>3, <3>4 DEF Figure
    <3> HIDE DEF r, G
    <3>6. Figure(r, m) = SumOf(AtKey(a.rows, joinKey, c), m)
      BY <1>3, <1>8, <3>1
    <3> QED
      BY <3>5, <3>6 DEF G
  <2>3. CASE ~has
    <3>1. m \notin DOMAIN Joined(G) /\ Joint(G).m = Joined(G)
      <4>1. m \notin UNION {DOMAIN x.m : x \in G}
        BY <2>3
      <4> HIDE DEF Joint, Joined
      <4> QED
        BY <1>6, <4>1
    <3>2. Figure(Joint(G), m) = Null
      <4> HIDE DEF Joint, Joined, G
      <4> QED
        BY <3>1 DEF Figure
    <3>3. AtKey(a.rows, joinKey, c) = {}
      <4>1. SUFFICES ASSUME NEW r \in AtKey(a.rows, joinKey, c) PROVE FALSE
        OBVIOUS
      <4>2. PICK t \in part[a] : t.k = c
        BY <1>3 DEF AtKey
      <4>3. t \in G /\ DOMAIN t.m = a.metrics
        BY <1>3, <1>4, <1>7, <4>2
      <4> QED
        BY <2>3, <4>3
    <3>4. SumOf(AtKey(a.rows, joinKey, c), m) = Null
      <4>1. Having({}, m) = {}
        BY DEF Having
      <4> QED
        BY <3>3, <4>1 DEF SumOf
    <3> QED
      BY <3>2, <3>4
  <2> QED
    BY <2>2, <2>3
<1>9. ASSUME NEW c \in ks
      PROVE  /\ DOMAIN c = joinKey
             /\ \E a \in some : AtKey(a.rows, joinKey, c) # {}
             /\ \A m \in DOMAIN Joint(at[c]).m : \E a \in some : m \in a.metrics
  <2>1. PICK r \in at[c] : r \in parts /\ r.k = c
    <3> HIDE DEF Joint, Joined, at, ks
    <3> QED
      BY <1>6
  <2>2. PICK a \in some : r \in part[a]
    BY <1>4, <2>1
  <2>3. AtKey(a.rows, joinKey, c) # {}
    BY <1>3, <2>1, <2>2
  <2>4. DOMAIN c = joinKey
    BY <2>3 DEF AtKey, KeyFor
  <2>5. \A m \in DOMAIN Joint(at[c]).m : \E x \in at[c] : m \in DOMAIN x.m
    <3>1. DOMAIN Joint(at[c]).m = UNION {DOMAIN x.m : x \in at[c]}
      <4> HIDE DEF Joined, at, Joint, ks
      <4> QED
        BY <1>6
    <3> HIDE DEF Joined, at, Joint, ks
    <3> QED
      BY <3>1
  <2>6. \A x \in at[c] : \E b \in some : DOMAIN x.m = b.metrics
    BY <1>3, <1>4, <1>6
  <2> QED
    BY <2>3, <2>4, <2>5, <2>6
<1> HIDE DEF Joint, Joined, at, ks, key, out
<1>k. ASSUME NEW t \in out
      PROVE  t.k \in ks /\ t = Joint(at[t.k])
  <2>1. PICK c \in ks : t = Joint(at[c])
    BY <1>2
  <2>2. Joint(at[c]).k = c
    BY <1>6
  <2> QED
    BY <2>1, <2>2
<1>10. \A t, u \in out : t.k = u.k => t = u
  BY <1>k
<1>11. IsFiniteSet(out)
  <2> DEFINE of == [r \in parts |-> Joint(at[r.k])]
  <2>1. of \in [parts -> out]
    BY <1>2, <1>7
  <2>2. \A t \in out : \E r \in parts : of[r] = t
    <3> SUFFICES ASSUME NEW t \in out PROVE \E r \in parts : of[r] = t
      OBVIOUS
    <3>1. PICK c \in ks : t = Joint(at[c])
      BY <1>2
    <3>2. PICK r \in at[c] : r \in parts /\ r.k = c
      BY <1>6
    <3> QED
      BY <3>1, <3>2
  <2> HIDE DEF of
  <2> QED
    BY <1>5, <2>1, <2>2, FewValues
<1>12. ASSUME NEW a \in some, NEW r \in a.rows
       PROVE  \E t \in out : t.k = KeyFor(r.k, joinKey)
  <2>1. PICK x \in part[a] : x.k = KeyFor(r.k, joinKey)
    BY <1>3
  <2>2. x.k \in ks
    BY <1>4, <1>7, <2>1
  <2>3. Joint(at[x.k]) \in out
    BY <1>2, <2>2
  <2>4. Joint(at[x.k]).k = x.k
    BY <1>6, <2>2
  <2> QED
    BY <2>1, <2>3, <2>4
<1>13. ASSUME NEW t \in out
       PROVE  /\ t = Row("joined", t.k, t.m) /\ DOMAIN t.k = joinKey
              /\ \E a \in some : AtKey(a.rows, joinKey, t.k) # {}
              /\ \A m \in DOMAIN t.m : \E a \in some : m \in a.metrics
              /\ \A a \in some : \A m \in a.metrics : Plain(a, m) =>
                   Figure(t, m) = SumOf(AtKey(a.rows, joinKey, t.k), m)
  <2>1. PICK c \in ks : t = Joint(at[c])
    BY <1>2
  <2>2. t.k = c /\ t = Row("joined", t.k, t.m)
    BY <1>6, <2>1
  <2> QED
    BY <1>8, <1>9, <2>1, <2>2
<1> QED
  BY <1>10, <1>11, <1>12, <1>13 DEF out

LEMMA JoinAdds ==
  ASSUME NEW some, Mergeable(some), NEW joinKey, NEW a \in some,
         NEW m \in a.metrics, Countable(a.rows, m), AddsUp(m),
         Aggregation(m) # "avg"
  PROVE  AddUpTo(FullOuterJoin(some, joinKey), m, Tot(a.rows, m))
<1> DEFINE out == FullOuterJoin(some, joinKey)
           group == [t \in out |-> AtKey(a.rows, joinKey, t.k)]
<1>1. /\ IsFiniteSet(out) /\ \A t, u \in out : t.k = u.k => t = u
      /\ \A r \in a.rows : \E t \in out : t.k = KeyFor(r.k, joinKey)
      /\ \A t \in out : Figure(t, m) = SumOf(group[t], m)
  BY JoinedAt
<1>2. \A t \in out : group[t] \subseteq a.rows
  BY DEF AtKey
<1>3. \A t \in out : \A r \in a.rows : r \in group[t] <=> KeyFor(r.k, joinKey) = t.k
  BY DEF AtKey
<1> HIDE DEF out, group
<1>4. \A t \in out : Countable(group[t], m)
  BY <1>2, FS_Subset DEF Countable
<1>5. Countable(out, m)
  BY <1>1, <1>4, FiguresAdd DEF Countable
<1>6. \A t \in out : FigureOr0(t, m) = Figures(group[t], m)
  BY <1>1 DEF FigureOr0, Figures
<1>7. /\ \A r \in a.rows : \E t \in out : r \in group[t]
      /\ \A t, u \in out : \A r \in a.rows : r \in group[t] /\ r \in group[u] => t = u
  BY <1>1, <1>3
<1>8. Tot(out, m) = Tot(a.rows, m)
  BY <1>1, <1>2, <1>6, <1>7, Regrouped
<1> QED
  BY <1>5, <1>8 DEF AddUpTo, out

LEMMA NoFigures ==
  ASSUME NEW rows, IsFiniteSet(rows), NEW m, \A r \in rows : Figure(r, m) = Null
  PROVE  AddUpTo(rows, m, 0)
<1> DEFINE f == [r \in rows |-> FigureOr0(r, m)]
<1>1. \A r \in rows : f[r] = 0
  BY DEF FigureOr0, OrZero
<1>2. Tot(rows, m) = SumFunctionOnSet(f, rows)
  BY DEF Tot
<1> HIDE DEF f
<1>3. SumFunctionOnSet(f, rows) = 0
  BY <1>1, SumOfZeroes
<1> QED
  BY <1>2, <1>3 DEF AddUpTo, Countable

LEMMA JoinOmits ==
  ASSUME NEW some, Mergeable(some), NEW joinKey, NEW m,
         \A a \in some : m \notin a.metrics
  PROVE  AddUpTo(FullOuterJoin(some, joinKey), m, 0)
<1>1. /\ IsFiniteSet(FullOuterJoin(some, joinKey))
      /\ \A t \in FullOuterJoin(some, joinKey) : m \notin DOMAIN t.m
  BY JoinedAt
<1> QED
  BY <1>1, NoFigures DEF Figure

LEMMA JoinIsOnePerKey ==
  ASSUME NEW some, Mergeable(some), NEW joinKey
  PROVE  /\ OnePerKey(FullOuterJoin(some, joinKey))
         /\ \A t \in FullOuterJoin(some, joinKey) : DOMAIN t.k = joinKey
BY JoinedAt DEF OnePerKey

(* Leaving out rows without a figure.                                      *)
LEMMA TotOfSome ==
  ASSUME NEW rows, NEW m, Countable(rows, m), NEW A \in SUBSET rows
  PROVE  /\ Countable(A, m) /\ Countable(rows \ A, m)
         /\ Tot(rows, m) = Tot(A, m) + Tot(rows \ A, m)
<1> DEFINE B == rows \ A
           f == [r \in rows |-> FigureOr0(r, m)]
           g == [r \in A |-> FigureOr0(r, m)]
           h == [r \in B |-> FigureOr0(r, m)]
<1>1. IsFiniteSet(A) /\ IsFiniteSet(B) /\ A \cap B = {} /\ A \cup B = rows
  BY FS_Subset DEF Countable
<1>2. Countable(A, m) /\ Countable(B, m)
  BY <1>1 DEF Countable
<1>3. /\ \A r \in A \cup B : f[r] \in Int
      /\ \A r \in A : f[r] = g[r] /\ f[r] \in Int
      /\ \A r \in B : f[r] = h[r] /\ f[r] \in Int
  BY NullAssumption DEF Countable, FigureOr0, OrZero
<1>4. /\ Tot(rows, m) = SumFunctionOnSet(f, rows) /\ Tot(A, m) = SumFunctionOnSet(g, A)
      /\ Tot(B, m) = SumFunctionOnSet(h, B)
  BY DEF Tot
<1> HIDE DEF f, g, h, B
<1>5. SumFunctionOnSet(f, A \cup B) = SumFunctionOnSet(f, A) + SumFunctionOnSet(f, B)
  BY <1>1, <1>3, SumOfTwo
<1>6. /\ SumFunctionOnSet(f, A) = SumFunctionOnSet(g, A)
      /\ SumFunctionOnSet(f, B) = SumFunctionOnSet(h, B)
  BY <1>1, <1>3, SumIsSame
<1>7. SumFunctionOnSet(f, A \cup B) = SumFunctionOnSet(f, rows)
  BY <1>1, Zenon
<1> QED
  BY <1>2, <1>4, <1>5, <1>6, <1>7 DEF B

LEMMA RollUpAdds ==
  ASSUME NEW rows, OnePerKey(rows), NEW grain, NEW weekStart, NEW metrics
  PROVE  LET out == RollUp(rows, grain, weekStart, metrics)
         IN  /\ OnePerKey(out)
             /\ \A m \in metrics : \A total :
                  (/\ AddsUpOverTime(m) /\ AddUpTo(rows, m, total)
                   /\ \A t \in rows : Figure(t, m) # Null => t.k["date"] # Null)
                  => AddUpTo(out, m, total)
<1> DEFINE Bucketed(k) == [k EXCEPT !["date"] = BucketDay(@, grain, weekStart)]
           dated == {s \in rows : s.k["date"] # Null}
           bucketed == {Row(r.k, Bucketed(r.k), r.m) : r \in dated}
           key == [r \in bucketed |-> r.k]
           Rolled(group) ==
             [m \in metrics |->
                IF AddsUpOverTime(m) THEN SumOf(group, m) ELSE Null]
           Joint(group) == Row("joined", (CHOOSE r \in group : TRUE).k, Rolled(group))
           groups == {{r \in bucketed : key[r] = c} : c \in Range(key)}
           ks == Range(key)
           at == [c \in ks |-> {r \in bucketed : key[r] = c}]
           to == [r \in dated |-> Row(r.k, Bucketed(r.k), r.m)]
           out == RollUp(rows, grain, weekStart, metrics)
<1>1. out = {Joint(group) : group \in groups}
  BY DEF RollUp, GroupsBy
<1>2. \A t : t \in out <=> \E c \in ks : t = Joint(at[c])
  <2>1. groups = {at[c] : c \in ks}
    OBVIOUS
  <2> HIDE DEF Joint, key, out, ks, at, groups
  <2> QED
    BY <1>1, <2>1
<1>3. IsFiniteSet(rows) /\ IsFiniteSet(dated) /\ dated \subseteq rows
  BY FS_Subset DEF OnePerKey
<1>4. /\ to \in [dated -> bucketed] /\ \A b \in bucketed : \E r \in dated : to[r] = b
      /\ \A r, s \in dated : to[r] = to[s] => r = s
      /\ \A r \in dated : \A m : Figure(to[r], m) = Figure(r, m)
  <2>1. /\ to \in [dated -> bucketed] /\ \A b \in bucketed : \E r \in dated : to[r] = b
    OBVIOUS
  <2>2. \A r \in dated : to[r].id = r.k /\ \A m : Figure(to[r], m) = Figure(r, m)
    BY DEF Row, Figure
  <2>3. \A r, s \in dated : r.k = s.k => r = s
    BY <1>3 DEF OnePerKey
  <2> HIDE DEF to, bucketed, dated
  <2>4. \A r, s \in dated : to[r] = to[s] => r = s
    BY <2>2, <2>3
  <2> QED
    BY <2>1, <2>2, <2>4
<1>5. IsFiniteSet(bucketed)
  <2> HIDE DEF to, bucketed, dated
  <2> QED
    BY <1>3, <1>4, FewValues
<1> HIDE DEF bucketed, to
<1>6. ASSUME NEW c \in ks
      PROVE  /\ at[c] # {} /\ at[c] \subseteq bucketed /\ \A r \in at[c] : r.k = c
             /\ Joint(at[c]).k = c
             /\ Joint(at[c]) = Row("joined", Joint(at[c]).k, Joint(at[c]).m)
             /\ Joint(at[c]).m = Rolled(at[c])
  <2>1. at[c] # {} /\ at[c] \subseteq bucketed /\ \A r \in at[c] : r.k = c
    BY DEF Range
  <2>2. (CHOOSE r \in at[c] : TRUE).k = c
    <3> HIDE DEF at
    <3> QED
      BY <2>1
  <2> HIDE DEF at, Rolled
  <2> QED
    BY <2>1, <2>2 DEF Row
<1>7. \A r \in bucketed : r.k \in ks /\ r \in at[r.k]
  BY DEF Range
<1>8. \A c \in ks : \A m \in metrics :
        AddsUpOverTime(m) => Figure(Joint(at[c]), m) = SumOf(at[c], m)
  <2> TAKE c \in ks
  <2>1. Joint(at[c]).m = Rolled(at[c])
    BY <1>6
  <2> HIDE DEF Joint, at
  <2> QED
    BY <2>1 DEF Figure
<1> HIDE DEF Joint, at, ks, key, out, Rolled
<1>9. ASSUME NEW t \in out
      PROVE  t.k \in ks /\ t = Joint(at[t.k]) /\ t = Row("joined", t.k, t.m)
  <2>1. PICK c \in ks : t = Joint(at[c])
    BY <1>2
  <2>2. Joint(at[c]).k = c /\ Joint(at[c]) = Row("joined", Joint(at[c]).k, Joint(at[c]).m)
    BY <1>6
  <2> QED
    BY <2>1, <2>2
<1>10. \A t, u \in out : t.k = u.k => t = u
  BY <1>9
<1>11. \A r \in bucketed : \E t \in out : t.k = r.k
  <2> TAKE r \in bucketed
  <2>1. Joint(at[r.k]) \in out /\ Joint(at[r.k]).k = r.k
    BY <1>2, <1>6, <1>7
  <2> QED
    BY <2>1
<1>12. IsFiniteSet(out)
  <2> DEFINE of == [r \in bucketed |-> CHOOSE t \in out : t.k = r.k]
  <2>1. of \in [bucketed -> out] /\ \A r \in bucketed : of[r].k = r.k
    BY <1>11
  <2>2. \A t \in out : \E r \in bucketed : of[r] = t
    <3> SUFFICES ASSUME NEW t \in out PROVE \E r \in bucketed : of[r] = t
      OBVIOUS
    <3>1. PICK r \in at[t.k] : r \in bucketed /\ r.k = t.k
      BY <1>6, <1>9
    <3> HIDE DEF of
    <3> QED
      BY <1>10, <2>1, <3>1
  <2> HIDE DEF of
  <2> QED
    BY <1>5, <2>1, <2>2, FewValues
<1>13. ASSUME NEW m \in metrics, NEW total, AddsUpOverTime(m),
              AddUpTo(rows, m, total),
              \A t \in rows : Figure(t, m) # Null => t.k["date"] # Null
       PROVE  AddUpTo(out, m, total)
  <2> DEFINE rest == rows \ dated
             group == [t \in out |-> at[t.k]]
  <2>1. /\ Countable(rows, m) /\ Countable(dated, m)
        /\ Tot(rows, m) = Tot(dated, m) + Tot(rest, m)
    BY <1>3, <1>13, TotOfSome DEF AddUpTo
  <2>2. Tot(rest, m) = 0
    <3>1. IsFiniteSet(rest) /\ \A r \in rest : Figure(r, m) = Null
      BY <1>3, <1>13, FS_Subset
    <3> QED
      BY <3>1, NoFigures DEF AddUpTo
  <2>3. Countable(bucketed, m) /\ Tot(bucketed, m) = Tot(dated, m)
    <3> HIDE DEF dated
    <3> QED
      BY <1>4, <2>1, TotIsSame
  <2>4. Tot(dated, m) \in Int
    BY <2>1, FiguresAdd
  <2>5. \A t \in out : group[t] \subseteq bucketed /\ Figure(t, m) = SumOf(group[t], m)
    BY <1>6, <1>8, <1>9, <1>13
  <2>6. /\ \A r \in bucketed : \E t \in out : r \in group[t]
        /\ \A t, u \in out : \A r \in bucketed :
             r \in group[t] /\ r \in group[u] => t = u
    BY <1>6, <1>7, <1>9, <1>10, <1>11
  <2> HIDE DEF group
  <2>7. \A t \in out : Countable(group[t], m)
    BY <1>5, <2>3, <2>5, FS_Subset DEF Countable
  <2>8. Countable(out, m)
    BY <1>12, <2>5, <2>7, FiguresAdd DEF Countable
  <2>9. \A t \in out : FigureOr0(t, m) = Figures(group[t], m)
    BY <2>5 DEF FigureOr0, Figures
  <2>10. Tot(out, m) = Tot(bucketed, m)
    BY <1>12, <2>3, <2>5, <2>6, <2>9, Regrouped
  <2> QED
    BY <1>13, <2>1, <2>2, <2>3, <2>4, <2>8, <2>10 DEF AddUpTo
<1>14. OnePerKey(out)
  BY <1>9, <1>10, <1>12 DEF OnePerKey
<1> QED
  BY <1>13, <1>14 DEF out

LEMMA DerivedFigure ==
  ASSUME NEW k, NEW m, NEW derived, NEW id
  PROVE  LET row == WithDerived(Row(id, k, m), derived)
         IN  /\ row = Row(id, k, ApplyDerived(m, derived))
             /\ \A x : x \notin derived => Figure(row, x) = Figure(Row(id, k, m), x)
<1>1. WithDerived(Row(id, k, m), derived) = Row(id, k, ApplyDerived(m, derived))
  BY DEF WithDerived, Row
<1>2. \A x : x \notin derived =>
        /\ x \in DOMAIN ApplyDerived(m, derived) <=> x \in DOMAIN m
        /\ x \in DOMAIN m => ApplyDerived(m, derived)[x] = m[x]
  BY DEF ApplyDerived
<1> QED
  BY <1>1, <1>2 DEF Figure, Row

LEMMA DerivedAdds ==
  ASSUME NEW rows, OnePerKey(rows), NEW derived
  PROVE  LET out == {WithDerived(r, derived) : r \in rows}
         IN  /\ OnePerKey(out)
             /\ \A m, total : m \notin derived /\ AddUpTo(rows, m, total)
                  => AddUpTo(out, m, total)
<1> DEFINE out == {WithDerived(r, derived) : r \in rows}
           to == [r \in rows |-> WithDerived(r, derived)]
<1>1. ASSUME NEW r \in rows
      PROVE  /\ to[r].k = r.k /\ to[r] = Row("joined", to[r].k, to[r].m)
             /\ \A m : m \notin derived => Figure(to[r], m) = Figure(r, m)
  <2>1. r = Row("joined", r.k, r.m) /\ to[r] = WithDerived(r, derived)
    BY DEF OnePerKey
  <2>2. /\ to[r] = Row("joined", r.k, ApplyDerived(r.m, derived))
        /\ \A m : m \notin derived => Figure(to[r], m) = Figure(r, m)
    <3> HIDE DEF to
    <3> QED
      BY <2>1, DerivedFigure
  <2> HIDE DEF to
  <2> QED
    BY <2>2 DEF Row
<1>2. to \in [rows -> out] /\ \A t \in out : \E r \in rows : to[r] = t
  OBVIOUS
<1> HIDE DEF to, out
<1>3. \A r, s \in rows : to[r].k = to[s].k => r = s
  BY <1>1 DEF OnePerKey
<1>4. \A r, s \in rows : to[r] = to[s] => r = s
  BY <1>3
<1>5. OnePerKey(out)
  <2>1. IsFiniteSet(out)
    BY <1>2, FewValues DEF OnePerKey
  <2> QED
    BY <1>1, <1>2, <1>3, <2>1 DEF OnePerKey
<1>6. ASSUME NEW m, NEW total, m \notin derived, AddUpTo(rows, m, total)
      PROVE  AddUpTo(out, m, total)
  <2>1. Countable(out, m) /\ Tot(out, m) = Tot(rows, m)
    BY <1>1, <1>2, <1>4, <1>6, TotIsSame DEF AddUpTo
  <2> QED
    BY <1>6, <2>1 DEF AddUpTo
<1> QED
  BY <1>5, <1>6 DEF out

(* The residual of a top N has what the rows that are cut have.            *)
LEMMA TopAdds ==
  ASSUME NEW rows, OnePerKey(rows), NEW top, top.otherBucket, AddsUp(top.by),
         NEW joinKey, NEW metrics, NEW derived, NEW m \in metrics, AddsUp(m),
         m \notin derived, NEW total, AddUpTo(rows, m, total)
  PROVE  AddUpTo(TopN(rows, top, joinKey, metrics, derived), m, total)
<1> DEFINE head == Largest(rows, top.by, Kept(top.n))
           tail == rows \ head
           k == [d \in joinKey |-> IF d = "date" THEN Null ELSE "__other__"]
           Or0(x) == IF x = Null THEN 0 ELSE x
           sums == [x \in metrics |-> IF AddsUp(x) THEN Or0(SumOf(tail, x)) ELSE Null]
           other == WithDerived(Row("rest", k, sums), derived)
           out == TopN(rows, top, joinKey, metrics, derived)
<1>1. head \subseteq rows
  BY LargestAreRows
<1>2. out = IF tail = {} THEN head ELSE head \cup {other}
  BY DEF TopN, OtherRow
<1>3. /\ Countable(head, m) /\ Countable(tail, m)
      /\ Tot(rows, m) = Tot(head, m) + Tot(tail, m)
  <2> HIDE DEF head
  <2> QED
    BY <1>1, TotOfSome DEF AddUpTo
<1>4. CASE tail = {}
  <2>1. head = rows
    BY <1>1, <1>4
  <2> QED
    BY <1>2, <1>4, <2>1
<1>5. CASE tail # {}
  <2>1. Figure(Row("rest", k, sums), m) = Or0(SumOf(tail, m))
    BY DEF Row, Figure
  <2> HIDE DEF head, k, tail, sums
  <2>2. /\ other = Row("rest", k, ApplyDerived(sums, derived))
        /\ Figure(other, m) = Or0(SumOf(tail, m))
    BY <2>1, DerivedFigure
  <2>3. Or0(SumOf(tail, m)) = Tot(tail, m) /\ Tot(tail, m) \in Int /\ Tot(head, m) \in Int
    BY <1>3, FiguresAdd DEF Figures, OrZero
  <2>4. other \notin head
    <3>1. other.id = "rest"
      BY <2>2 DEF Row
    <3>2. \A t \in head : t.id = "joined"
      BY <1>1 DEF OnePerKey, Row
    <3> QED
      BY <3>1, <3>2
  <2> HIDE DEF other
  <2>5. Countable(head \cup {other}, m)
    BY <1>3, <2>2, <2>3, FS_AddElement DEF Countable
  <2>6. Tot(head \cup {other}, m) = Tot(head, m) + Tot(tail, m)
    <3> DEFINE all == head \cup {other}
    <3>1. /\ head \in SUBSET all /\ all \ head = {other}
      BY <2>4
    <3>2. Tot(all, m) = Tot(head, m) + Tot(all \ head, m)
      BY <2>5, <3>1, TotOfSome
    <3>3. Tot({other}, m) = Tot(tail, m)
      <4>1. Figure(other, m) \in Int \cup {Null} /\ FigureOr0(other, m) = Tot(tail, m)
        BY <2>2, <2>3, NullAssumption DEF FigureOr0, OrZero
      <4>2. Countable({other}, m) /\ Figures({other}, m) = FigureOr0(other, m)
        BY <4>1, TotOfOne
      <4> QED
        BY <4>1, <4>2, FiguresAdd
    <3> QED
      BY <3>1, <3>2, <3>3
  <2> QED
    BY <1>2, <1>3, <1>5, <2>5, <2>6 DEF AddUpTo
<1> QED
  BY <1>4, <1>5

(* Merging keeps the sum of a figure that adds up, over time too if days   *)
(* are put together, unless rows are cut and nothing stands for them.      *)
LEMMA MergeAdds ==
  ASSUME NEW some, Mergeable(some), NEW plan, NEW shape, NEW weekStart,
         shape.limit = Null,
         shape.topN # Null => shape.topN.otherBucket /\ AddsUp(shape.topN.by),
         NEW m \in plan.baseMetrics, m \notin plan.derived, AddsUp(m),
         NEW total, AddUpTo(FullOuterJoin(some, plan.joinKey), m, total),
         NeedsRollUp(plan.effectiveGrain, plan.joinKey) =>
           /\ AddsUpOverTime(m)
           /\ \A t \in FullOuterJoin(some, plan.joinKey) :
                Figure(t, m) # Null => t.k["date"] # Null
  PROVE  AddUpTo(MergeResults(some, plan, shape, weekStart).rows, m, total)
<1> DEFINE joined == FullOuterJoin(some, plan.joinKey)
           rolled == IF NeedsRollUp(plan.effectiveGrain, plan.joinKey)
                       THEN RollUp(joined, plan.effectiveGrain, weekStart,
                                   plan.baseMetrics)
                       ELSE joined
           rows == {WithDerived(r, plan.derived) : r \in rolled}
           topped == IF shape.topN = Null THEN rows
                     ELSE TopN(rows, shape.topN, plan.joinKey, plan.baseMetrics,
                               plan.derived)
<1>1. MergeResults(some, plan, shape, weekStart).rows = topped
  BY DEF MergeResults
<1>2. OnePerKey(joined)
  BY JoinIsOnePerKey
<1>3. OnePerKey(rolled) /\ AddUpTo(rolled, m, total)
  <2> HIDE DEF joined
  <2> QED
    BY <1>2, RollUpAdds DEF joined
<1>4. OnePerKey(rows) /\ AddUpTo(rows, m, total)
  <2> HIDE DEF rolled
  <2> QED
    BY <1>3, DerivedAdds
<1>5. AddUpTo(topped, m, total)
  <2> HIDE DEF rows
  <2> QED
    BY <1>4, TopAdds
<1> QED
  BY <1>1, <1>5

-----------------------------------------------------------------------------
(* Rows of integers                                                        *)

LEMMA NumericIsCountable ==
  ASSUME NEW rows, Numeric(rows), NEW m
  PROVE  Countable(rows, m)
BY DEF Numeric, Countable

LEMMA FewerAreNumeric ==
  ASSUME NEW rows, Numeric(rows), NEW A \in SUBSET rows
  PROVE  Numeric(A)
BY FS_Subset DEF Numeric

LEMMA SumIsNumeric ==
  ASSUME NEW rows, Numeric(rows), NEW m
  PROVE  SumOf(rows, m) \in Int \cup {Null}
BY NumericIsCountable, FiguresAdd

(* A total over a finite set of integers is an integer.                    *)
LEMMA TotalIsInt ==
  ASSUME NEW S, IsFiniteSet(S), NEW f, DOMAIN f = S, \A x \in S : f[x] \in Int
  PROVE  SumFunction(f) \in Int
<1>1. SumFunctionOnSet(f, S) \in Int
  BY SumSplits
<1> QED
  BY <1>1 DEF SumFunction

(* And of natural numbers, a natural number.                               *)
LEMMA TotalIsNat ==
  ASSUME NEW S, IsFiniteSet(S), NEW f, DOMAIN f = S, \A x \in S : f[x] \in Nat
  PROVE  SumFunction(f) \in Nat
<1> DEFINE zero == [x \in S |-> 0]
<1>1. SumFunctionOnSet(zero, S) = 0
  BY SumOfZeroes
<1>2. SumFunctionOnSet(zero, S) <= SumFunctionOnSet(f, S)
  BY SumIsMonotone
<1>3. SumFunctionOnSet(f, S) \in Int
  BY SumSplits
<1> HIDE DEF zero
<1> QED
  BY <1>1, <1>2, <1>3 DEF SumFunction

(* The fold of rows of integers is one.                                    *)
LEMMA FoldIsNumeric ==
  ASSUME NEW rows, Numeric(rows), NEW measures
  PROVE  Numeric(Fold(rows, measures))
<1> DEFINE out == Fold(rows, measures)
           at == [r \in rows |->
                    Row(r.k, r.k, [x \in measures |-> SumOf(Part(rows, r.k), x)])]
<1>1. \A c \in out : \E r \in rows : c = at[r]
  <2> SUFFICES ASSUME NEW c \in out PROVE \E r \in rows : c = at[r]
    OBVIOUS
  <2>1. /\ c = Row(c.k, c.k, [x \in measures |-> SumOf(Part(rows, c.k), x)])
        /\ Part(rows, c.k) # {}
    BY CellsOfFold
  <2>2. PICK r \in rows : r.k = c.k
    BY <2>1 DEF Part
  <2> QED
    BY <2>1, <2>2
<1>2. IsFiniteSet(rows)
  BY DEF Numeric
<1>3. IsFiniteSet(out)
  <2> HIDE DEF out, at
  <2> QED
    BY <1>1, <1>2, MadeOfFew
<1>4. ASSUME NEW c \in out, NEW m PROVE Figure(c, m) \in Int \cup {Null}
  <2>1. c = Row(c.k, c.k, [x \in measures |-> SumOf(Part(rows, c.k), x)])
    BY CellsOfFold
  <2>2. Numeric(Part(rows, c.k))
    <3>1. Part(rows, c.k) \in SUBSET rows
      BY DEF Part
    <3> QED
      BY <3>1, FewerAreNumeric
  <2>3. \A x : SumOf(Part(rows, c.k), x) \in Int \cup {Null}
    BY <2>2, SumIsNumeric
  <2> DEFINE figures == [x \in measures |-> SumOf(Part(rows, c.k), x)]
  <2>4. c.m = figures
    BY <2>1 DEF Row
  <2> QED
    BY <2>3, <2>4 DEF Figure
<1> QED
  BY <1>3, <1>4 DEF Numeric

-----------------------------------------------------------------------------
(* The facts and the cubes are of integers, and none is negative when no   *)
(* amount of an order is                                                   *)

LEMMA AmountsAreIntegers == ASSUME NEW o \in DOMAIN Orders PROVE AmountsIn(o, Int)
<1> DEFINE order == Orders[o]
<1>1. /\ Amounts(order, {"id", "createdAt", "total", "shipping", "discount"})
      /\ order.taxed # Null => Amounts(order.taxed, {"gross", "net", "tax"})
      /\ \A l \in order.lines : Amounts(l, {"quantity", "price", "unitCost"})
  BY OrderAssumption
<1> HIDE DEF order
<1>2. /\ order["total"] \in Int /\ order["shipping"] \in Int
      /\ order["discount"] \in Int
      /\ order.taxed # Null => /\ order.taxed["gross"] \in Int
                               /\ order.taxed["net"] \in Int
                               /\ order.taxed["tax"] \in Int
      /\ \A l \in order.lines : /\ l["quantity"] \in Int /\ l["price"] \in Int
                                 /\ l["unitCost"] \in Int
  BY <1>1 DEF Amounts
<1> QED
  BY <1>2 DEF AmountsIn, order

LEMMA AmountsArePositive == ASSUME NEW o \in DOMAIN Orders PROVE AmountsIn(o, Nat)
<1> DEFINE order == Orders[o]
<1>1. /\ \A x \in {"total", "shipping", "discount"} : order[x] >= 0
      /\ order.taxed # Null => \A x \in {"gross", "net", "tax"} : order.taxed[x] >= 0
      /\ \A l \in order.lines : \A x \in {"quantity", "price", "unitCost"} : l[x] >= 0
  BY AmountAssumption
<1>2. AmountsIn(o, Int)
  BY AmountsAreIntegers
<1> QED
  BY <1>1, <1>2 DEF AmountsIn

LEMMA LinesOfOrder ==
  ASSUME NEW o \in DOMAIN Orders, NEW N, AmountsIn(o, N)
  PROVE  LET lines == ApplyLineCategories(Orders[o]).lines
         IN  /\ IsFiniteSet(lines)
             /\ \A l \in lines : /\ l.quantity \in N /\ l.price \in N
                                 /\ l.unitCost \in N
<1> DEFINE lines == Orders[o].lines
           categorized ==
             [l \in lines |->
                [x \in DOMAIN l \cup {"category"} |->
                   IF x = "category" THEN CategoryOf(l.productId) ELSE l[x]]]
           known == {[x \in DOMAIN l \cup {"category"} |->
                        IF x = "category" THEN CategoryOf(l.productId) ELSE l[x]] :
                       l \in lines}
<1>1. ApplyLineCategories(Orders[o]).lines = known
  BY OrderAssumption DEF ApplyLineCategories
<1>2. /\ IsFiniteSet(lines)
      /\ \A l \in lines : /\ {"quantity", "price", "unitCost"} \subseteq DOMAIN l
                          /\ l.quantity \in N /\ l.price \in N /\ l.unitCost \in N
  BY OrderAssumption DEF Amounts, AmountsIn
<1>3. \A l \in known : \E x \in lines : l = categorized[x]
  OBVIOUS
<1>4. IsFiniteSet(known)
  <2> HIDE DEF known, categorized
  <2> QED
    BY <1>2, <1>3, MadeOfFew
<1>5. ASSUME NEW l \in known
      PROVE  l.quantity \in N /\ l.price \in N /\ l.unitCost \in N
  <2>1. PICK x \in lines : l = categorized[x]
    BY <1>3
  <2>2. /\ {"quantity", "price", "unitCost"} \subseteq DOMAIN x
        /\ x["quantity"] \in N /\ x["price"] \in N /\ x["unitCost"] \in N
    BY <1>2
  <2>3. /\ l["quantity"] = x["quantity"] /\ l["price"] = x["price"]
        /\ l["unitCost"] = x["unitCost"]
    BY <2>1, <2>2
  <2> QED
    BY <2>2, <2>3
<1> QED
  BY <1>1, <1>4, <1>5

LEMMA MeasuresOfOrder ==
  ASSUME NEW o \in DOMAIN Orders, NEW N \in {Int, Nat}, AmountsIn(o, N)
  PROVE  \A x \in COUNTED : OrderMeasures(ApplyLineCategories(Orders[o]))[x] \in N
<1> DEFINE order == ApplyLineCategories(Orders[o])
           measures == OrderMeasures(order)
<1>1. /\ order.taxed = Orders[o].taxed /\ order.total = Orders[o].total
      /\ order.shipping = Orders[o].shipping
      /\ order.discount = Orders[o].discount
  BY OrderAssumption DEF ApplyLineCategories, Amounts
<1>2. /\ order.taxed # Null => /\ order.taxed.gross \in N
                               /\ order.taxed.net \in N /\ order.taxed.tax \in N
      /\ order.total \in N /\ order.shipping \in N /\ order.discount \in N
  BY <1>1 DEF AmountsIn
<1>3. IsFiniteSet(order.lines) /\ \A l \in order.lines : l.quantity \in N
  BY LinesOfOrder
<1> HIDE DEF order
<1>4. Cardinality(order.lines) \in Nat
  BY <1>3, FS_CardinalityType
<1>5. Total(order.lines, LAMBDA l : l.quantity) \in N
  <2> DEFINE f == [l \in order.lines |-> l.quantity]
  <2>1. DOMAIN f = order.lines /\ \A l \in order.lines : f[l] \in N
    BY <1>3
  <2>2. SumFunction(f) \in N
    <3> HIDE DEF f
    <3> QED
      BY <1>3, <2>1, TotalIsInt, TotalIsNat
  <2> QED
    BY <2>2 DEF Total
<1> DEFINE net == IF order.taxed = Null THEN order.total ELSE order.taxed.net
           gross == IF order.taxed = Null THEN order.total ELSE order.taxed.gross
           tax == IF order.taxed = Null THEN 0 ELSE order.taxed.tax
           refunds == IF order.paymentState = "CreditOwed" THEN net ELSE 0
           units == Total(order.lines, LAMBDA l : l.quantity)
           promoted == Truth(order.codes # {} \/ order.discount > 0)
<1>6. /\ net \in N /\ gross \in N /\ tax \in N /\ refunds \in N
      /\ promoted \in N
  BY <1>2 DEF Truth
<1>7. measures = [orders |-> 1, revenueGross |-> gross, revenueNet |-> net,
                  revenueNetCash |-> net, tax |-> tax,
                  shipping |-> order.shipping, discount |-> order.discount,
                  refunds |-> refunds, units |-> units,
                  lines |-> Cardinality(order.lines),
                  ordersPromoted |-> promoted]
  BY DEF OrderMeasures
<1>8. units \in N
  BY <1>5
<1> HIDE DEF net, gross, tax, refunds, units, promoted, measures
<1>9. /\ measures["orders"] = 1 /\ measures["revenueGross"] = gross
      /\ measures["revenueNet"] = net /\ measures["revenueNetCash"] = net
      /\ measures["tax"] = tax /\ measures["shipping"] = order.shipping
      /\ measures["discount"] = order.discount
      /\ measures["refunds"] = refunds /\ measures["units"] = units
      /\ measures["lines"] = Cardinality(order.lines)
      /\ measures["ordersPromoted"] = promoted
  BY <1>7
<1>10. \A x \in COUNTED : measures[x] \in N
  BY <1>2, <1>4, <1>6, <1>8, <1>9 DEF COUNTED
<1> QED
  BY <1>10 DEF measures, order

(* The measures of a fact, and of its items, are integers.                 *)
LEMMA FactIsIn ==
  ASSUME NEW o \in DOMAIN Orders, NEW N \in {Int, Nat}, AmountsIn(o, N)
  PROVE  FactIn(o, N)
<1> DEFINE order == ApplyLineCategories(Orders[o])
           measures == OrderMeasures(order)
           item == [l \in order.lines |->
                      [line |-> l.line, sku |-> l.sku, category |-> l.category,
                       units |-> l.quantity, revenueNet |-> l.price,
                       cost |-> l.unitCost * l.quantity]]
<1>1. Fact[o] = ToOrderFact(order)
  BY DEF Fact
<1>2. \A x \in COUNTED : measures[x] \in N
  BY MeasuresOfOrder
<1>3. IsFiniteSet(order.lines) /\ \A l \in order.lines :
        l.quantity \in N /\ l.price \in N /\ l.unitCost \in N
  BY LinesOfOrder
<1> HIDE DEF order
<1> DEFINE redemptions == Truth(order.promoCode # Null)
           shipped == Truth(order.shippedAt # Null)
           inTime == Truth(/\ order.shippedAt # Null
                           /\ order.shippedAt - BusinessDateOf(order)
                                <= DISPATCH_SLA_DAYS)
<1>4. Fact[o].measures =
        [x \in ORDER_MEASURES |->
            CASE x = "redemptions" -> redemptions
              [] x = "shipments" -> shipped
              [] x = "shipmentsOnTime" -> inTime
              [] x = "ordersPromoted" ->
                   IF measures[x] > 0 THEN measures[x] ELSE redemptions
              [] OTHER -> measures[x]]
  BY <1>1 DEF ToOrderFact, Truth
<1>5. redemptions \in N /\ shipped \in N /\ inTime \in N
  BY DEF Truth
<1>6. Fact[o].items =
        {[line |-> l.line, sku |-> l.sku, category |-> l.category,
          units |-> l.quantity, revenueNet |-> l.price,
          cost |-> l.unitCost * l.quantity] : l \in order.lines}
  BY <1>1 DEF ToOrderFact
<1>7. \A i \in Fact[o].items : \E l \in order.lines : i = item[l]
  BY <1>6
<1>8. ASSUME NEW l \in order.lines, NEW x \in ItemMeasures
      PROVE  item[l][x] \in N
  <2>1. (\A a, b \in Nat : a * b \in Nat) /\ (\A a, b \in Int : a * b \in Int)
    OBVIOUS
  <2>2. l.unitCost * l.quantity \in N
    BY <1>3, <2>1
  <2> QED
    BY <1>3, <2>2 DEF ItemMeasures
<1>9. \A i \in Fact[o].items : \A x \in ItemMeasures : i[x] \in N
  <2> HIDE DEF item
  <2> QED
    BY <1>7, <1>8
<1>10. IsFiniteSet(Fact[o].items)
  <2> HIDE DEF item
  <2> QED
    BY <1>3, <1>7, MadeOfFew
<1> HIDE DEF measures, redemptions, shipped, inTime
<1>11. ASSUME NEW x \in ORDER_MEASURES PROVE Fact[o].measures[x] \in N
  <2>1. CASE x = "redemptions"
    BY <1>4, <1>5, <2>1
  <2>2. CASE x = "shipments"
    BY <1>4, <1>5, <2>2
  <2>3. CASE x = "shipmentsOnTime"
    BY <1>4, <1>5, <2>3
  <2>4. CASE x = "ordersPromoted"
    BY <1>2, <1>4, <1>5, <2>4 DEF COUNTED
  <2>5. CASE x \notin {"redemptions", "shipments", "shipmentsOnTime",
                       "ordersPromoted"}
    <3>1. Fact[o].measures[x] = measures[x]
      BY <1>4, <2>5
    <3>2. x \in COUNTED
      BY <2>5 DEF ORDER_MEASURES, COUNTED
    <3> QED
      BY <1>2, <3>1, <3>2
  <2> QED
    BY <2>1, <2>2, <2>3, <2>4, <2>5
<1> QED
  BY <1>9, <1>10, <1>11 DEF FactIn

LEMMA FactIsNumeric == ASSUME NEW o \in DOMAIN Orders PROVE FactIn(o, Int)
BY AmountsAreIntegers, FactIsIn

LEMMA FactIsPositive == ASSUME NEW o \in DOMAIN Orders PROVE FactIn(o, Nat)
BY AmountsArePositive, FactIsIn

-----------------------------------------------------------------------------
(* The cubes of a day                                                      *)

LEMMA OrdersAreNumeric ==
  ASSUME NEW S \in SUBSET DOMAIN Orders, NEW first
  PROVE  Numeric(FoldOrdersDaily(FactsOf(S), first))
<1> DEFINE rows == {OrderRow(f, first) : f \in FactsOf(S)}
           row == [o \in S |-> OrderRow(Fact[o], first)]
<1>1. IsFiniteSet(rows)
  <2>1. \A r \in rows : \E o \in S : r = row[o]
    BY DEF FactsOf
  <2>2. IsFiniteSet(S)
    BY FactsAreFinite
  <2> HIDE DEF rows, row
  <2> QED
    BY <2>1, <2>2, MadeOfFew
<1>2. ASSUME NEW r \in rows, NEW x PROVE Figure(r, x) \in Int \cup {Null}
  <2>1. PICK o \in S : r = OrderRow(Fact[o], first)
    BY DEF FactsOf
  <2>2. \A y \in ORDER_MEASURES : Fact[o].measures[y] \in Int
    BY FactIsNumeric DEF FactIn
  <2>3. r.m = [y \in ORDER_MEASURES \cup {"customersNew"} |->
                 IF y # "customersNew" THEN Fact[o].measures[y]
                 ELSE IF IsFirst(Fact[o], first) THEN 1 ELSE Null]
    BY <2>1 DEF OrderRow, Row
  <2> QED
    BY <2>2, <2>3 DEF Figure
<1>3. Numeric(rows)
  BY <1>1, <1>2 DEF Numeric
<1> HIDE DEF rows
<1>4. Numeric(Fold(rows, ORDER_MEASURES \cup {"customersNew"}))
  BY <1>3, FoldIsNumeric
<1> QED
  BY <1>4 DEF FoldOrdersDaily, rows

LEMMA RowsAreOfItems ==
  ASSUME NEW T \in SUBSET DOMAIN Orders, NEW key, NEW rows, RowsKeyed(T, key, rows)
  PROVE  ItemRowsKeyed(T, key, rows)
<1> DEFINE Of(o, i) == Row(<<o, i.line>>, key[o][i], Restrict(i, ItemMeasures))
           row == [o \in T |-> [i \in Fact[o].items |-> Of(o, i)]]
<1>1. \A o \in T : Fact[o].orderId = o
  BY FactOfOrder
<1>2. \A r : r \in rows <=> \E o \in T : \E i \in Fact[o].items : r = Of(o, i)
  <2>1. \A r : r \in rows <=> \E f \in FactsOf(T) : \E i \in f.items : r = Of(f.orderId, i)
    BY DEF RowsKeyed
  <2> HIDE DEF Of
  <2> QED
    BY <1>1, <2>1 DEF FactsOf
<1>3. \A o, i : /\ Of(o, i).id = <<o, i.line>> /\ Of(o, i).k = key[o][i]
                /\ Of(o, i).m = Restrict(i, ItemMeasures)
  BY DEF Row
<1>4. \A o \in T : \A i \in Fact[o].items : row[o][i] = Of(o, i)
  OBVIOUS
<1> HIDE DEF row, Of
<1>5. \A o \in T : \A i \in Fact[o].items :
        /\ row[o][i] \in rows /\ row[o][i].id = <<o, i.line>>
        /\ row[o][i].m = Restrict(i, ItemMeasures) /\ row[o][i].k = key[o][i]
  BY <1>2, <1>3, <1>4
<1>6. \A r \in rows : \E o \in T : \E i \in Fact[o].items : r = row[o][i]
  BY <1>2, <1>4
<1>7. ItemRowsOf(T, row, rows)
  BY <1>5, <1>6 DEF ItemRowsOf
<1> QED
  BY <1>5, <1>7 DEF ItemRowsKeyed

LEMMA RowsOfItems ==
  ASSUME NEW T \in SUBSET DOMAIN Orders
  PROVE  \E row, rows :
           /\ FoldOrderLinesDaily(FactsOf(T)) = Fold(rows, ItemMeasures)
           /\ ItemRowsOf(T, row, rows)
           /\ \A o \in T : \A i \in Fact[o].items :
                row[o][i].k = [currency |-> Fact[o].dims.currency,
                               store |-> Fact[o].dims.store, product |-> i.sku]
<1> DEFINE facts == FactsOf(T)
           Key(f, i) == [currency |-> f.dims.currency, store |-> f.dims.store,
                         product |-> i.sku]
           key == [o \in T |-> [i \in Fact[o].items |-> Key(Fact[o], i)]]
           Of(f, i) == Row(<<f.orderId, i.line>>, Key(f, i), Restrict(i, ItemMeasures))
           WithKey(f, i) == Row(<<f.orderId, i.line>>, key[f.orderId][i],
                              Restrict(i, ItemMeasures))
           rows == UNION {{Of(f, i) : i \in f.items} : f \in facts}
<1>1. FoldOrderLinesDaily(facts) = Fold(rows, ItemMeasures)
  BY DEF FoldOrderLinesDaily, ItemRows
<1>2. \A f \in facts : \A i \in f.items :
        Of(f, i) = WithKey(f, i)
  BY FactsAreFinite
<1>3. \A o \in T : \A i \in Fact[o].items :
        key[o][i] = [currency |-> Fact[o].dims.currency,
                     store |-> Fact[o].dims.store, product |-> i.sku]
  OBVIOUS
<1>4. \A r : r \in rows <=> \E f \in facts : \E i \in f.items : r = Of(f, i)
  <2> HIDE DEF facts, Of
  <2> QED
    OBVIOUS
<1> HIDE DEF facts, rows, Of, WithKey, key
<1>5. \A r : r \in rows <=> \E f \in facts : \E i \in f.items : r = WithKey(f, i)
  BY <1>2, <1>4
<1>6. RowsKeyed(T, key, rows)
  BY ONLY <1>5 DEF RowsKeyed, WithKey, facts
<1>7. ItemRowsKeyed(T, key, rows)
  BY <1>6, RowsAreOfItems
<1> QED
  BY <1>1, <1>3, <1>7 DEF facts, ItemRowsKeyed

LEMMA RowsOfCategories ==
  ASSUME NEW T \in SUBSET DOMAIN Orders
  PROVE  \E row, rows :
           /\ FoldOrderCategoriesDaily(FactsOf(T)) = Fold(rows, ItemMeasures)
           /\ ItemRowsOf(T, row, rows)
           /\ \A o \in T : \A i \in Fact[o].items :
                row[o][i].k = [currency |-> Fact[o].dims.currency,
                               store |-> Fact[o].dims.store, category |-> i.category]
<1> DEFINE facts == FactsOf(T)
           Key(f, i) == [currency |-> f.dims.currency, store |-> f.dims.store,
                         category |-> i.category]
           key == [o \in T |-> [i \in Fact[o].items |-> Key(Fact[o], i)]]
           Of(f, i) == Row(<<f.orderId, i.line>>, Key(f, i), Restrict(i, ItemMeasures))
           WithKey(f, i) == Row(<<f.orderId, i.line>>, key[f.orderId][i],
                              Restrict(i, ItemMeasures))
           rows == UNION {{Of(f, i) : i \in f.items} : f \in facts}
<1>1. FoldOrderCategoriesDaily(facts) = Fold(rows, ItemMeasures)
  BY DEF FoldOrderCategoriesDaily, ItemRows
<1>2. \A f \in facts : \A i \in f.items :
        Of(f, i) = WithKey(f, i)
  BY FactsAreFinite
<1>3. \A o \in T : \A i \in Fact[o].items :
        key[o][i] = [currency |-> Fact[o].dims.currency,
                     store |-> Fact[o].dims.store, category |-> i.category]
  OBVIOUS
<1>4. \A r : r \in rows <=> \E f \in facts : \E i \in f.items : r = Of(f, i)
  <2> HIDE DEF facts, Of
  <2> QED
    OBVIOUS
<1> HIDE DEF facts, rows, Of, WithKey, key
<1>5. \A r : r \in rows <=> \E f \in facts : \E i \in f.items : r = WithKey(f, i)
  BY <1>2, <1>4
<1>6. RowsKeyed(T, key, rows)
  BY ONLY <1>5 DEF RowsKeyed, WithKey, facts
<1>7. ItemRowsKeyed(T, key, rows)
  BY <1>6, RowsAreOfItems
<1> QED
  BY <1>1, <1>3, <1>7 DEF facts, ItemRowsKeyed

LEMMA ItemsAreNumeric ==
  ASSUME NEW S \in SUBSET DOMAIN Orders, NEW row, NEW rows, ItemRowsOf(S, row, rows)
  PROVE  Numeric(rows)
<1> USE DEF ItemRowsOf
<1> DEFINE part == [o \in S |-> {row[o][i] : i \in Fact[o].items}]
<1>1. ASSUME NEW o \in S PROVE IsFiniteSet(part[o])
  <2> DEFINE items == Fact[o].items
             f == row[o]
             made == {f[i] : i \in items}
  <2>1. IsFiniteSet(items)
    BY FactIsNumeric DEF FactIn
  <2>2. \A t \in made : \E i \in items : t = f[i]
    OBVIOUS
  <2>3. part[o] = made
    OBVIOUS
  <2> HIDE DEF items, f, made, part
  <2>4. IsFiniteSet(made)
    BY <2>1, <2>2, MadeOfFew
  <2> QED
    BY <2>3, <2>4
<1>2. IsFiniteSet(S)
  BY FactsAreFinite
<1>3. ASSUME NEW r \in rows PROVE \E o \in S : r \in part[o]
  <2>1. PICK o \in S : \E i \in Fact[o].items : r = row[o][i]
    OBVIOUS
  <2> QED
    BY <2>1
<1>4. IsFiniteSet(rows)
  <2> HIDE DEF part
  <2> QED
    BY <1>1, <1>2, <1>3, UnitedFew
<1>5. ASSUME NEW r \in rows, NEW x PROVE Figure(r, x) \in Int \cup {Null}
  <2>1. PICK o \in S : \E i \in Fact[o].items : r = row[o][i]
    OBVIOUS
  <2>2. PICK i \in Fact[o].items : r = row[o][i]
    BY <2>1
  <2>3. \A y \in ItemMeasures : i[y] \in Int
    BY FactIsNumeric DEF FactIn
  <2>4. r.m = Restrict(i, ItemMeasures)
    BY <2>2
  <2> QED
    BY <2>3, <2>4 DEF Figure, Restrict
<1> QED
  BY <1>4, <1>5 DEF Numeric

LEMMA FoldsOfItems ==
  ASSUME NEW S \in SUBSET DOMAIN Orders
  PROVE  /\ Numeric(FoldOrderLinesDaily(FactsOf(S)))
         /\ Numeric(FoldOrderCategoriesDaily(FactsOf(S)))
<1>1. PICK row, rows :
        /\ FoldOrderLinesDaily(FactsOf(S)) = Fold(rows, ItemMeasures)
        /\ ItemRowsOf(S, row, rows)
  BY RowsOfItems
<1>2. PICK cell, cells :
        /\ FoldOrderCategoriesDaily(FactsOf(S)) = Fold(cells, ItemMeasures)
        /\ ItemRowsOf(S, cell, cells)
  BY RowsOfCategories
<1> QED
  BY <1>1, <1>2, ItemsAreNumeric, FoldIsNumeric

LEMMA SomeAreNumeric ==
  ASSUME NEW S \in SUBSET DOMAIN Orders, NEW having, NEW dims, NEW measures
  PROVE  Numeric(FoldSome(FactsOf(S), having, dims, measures))
<1> DEFINE some == {g \in FactsOf(S) : g.measures[having] > 0}
           rows == {Row(f.orderId, Restrict(f.dims, dims), f.measures) : f \in some}
           row == [f \in FactsOf(S) |-> Row(f.orderId, Restrict(f.dims, dims), f.measures)]
<1>1. IsFiniteSet(rows)
  <2>1. \A r \in rows : \E f \in FactsOf(S) : r = row[f]
    OBVIOUS
  <2>2. IsFiniteSet(FactsOf(S))
    BY FactsAreFinite
  <2> HIDE DEF rows, row
  <2> QED
    BY <2>1, <2>2, MadeOfFew
<1>2. ASSUME NEW r \in rows, NEW x PROVE Figure(r, x) \in Int \cup {Null}
  <2>1. PICK o \in S : r.m = Fact[o].measures
    BY DEF FactsOf, Row
  <2>2. \A y \in ORDER_MEASURES : Fact[o].measures[y] \in Int
    BY FactIsNumeric DEF FactIn
  <2>3. DOMAIN Fact[o].measures = ORDER_MEASURES
    BY DEF Fact, ToOrderFact
  <2> QED
    BY <2>1, <2>2, <2>3 DEF Figure
<1>3. Numeric(rows)
  BY <1>1, <1>2 DEF Numeric
<1> HIDE DEF rows
<1>4. Numeric(Fold(rows, measures))
  BY <1>3, FoldIsNumeric
<1> QED
  BY <1>4 DEF FoldSome, rows

(* The n largest and a row with the sums of the rest.                      *)
LEMMA ResidualIsNumeric ==
  ASSUME NEW cells, Numeric(cells), NEW measure, NEW n
  PROVE  Numeric(TopNWithResidual(cells, measure, n))
<1> DEFINE head == Largest(cells, measure, n)
           first == (CHOOSE c \in cells : TRUE).k
           k == [currency |-> first.currency, store |-> first.store,
                 product |-> OTHER_BUCKET]
           rest == Row(k, k, [x \in ItemMeasures |-> SumOf(cells \ head, x)])
           out == TopNWithResidual(cells, measure, n)
<1>1. out \in {cells, head \cup {rest}}
  BY DEF TopNWithResidual
<1>2. head \in SUBSET cells
  BY LargestAreRows
<1>3. rest.m = [x \in ItemMeasures |-> SumOf(cells \ head, x)]
  BY DEF Row
<1> HIDE DEF head, rest, out
<1>4. Numeric(head) /\ Numeric(cells \ head)
  BY <1>2, FewerAreNumeric
<1>5. \A x : SumOf(cells \ head, x) \in Int \cup {Null}
  BY <1>4, SumIsNumeric
<1>6. \A m : Figure(rest, m) \in Int \cup {Null}
  BY <1>3, <1>5 DEF Figure
<1>7. IsFiniteSet(head \cup {rest})
  BY <1>4, FS_AddElement DEF Numeric
<1>8. Numeric(head \cup {rest})
  BY <1>4, <1>6, <1>7 DEF Numeric
<1> QED
  BY <1>1, <1>8 DEF out

LEMMA UnitedAreNumeric ==
  ASSUME NEW S, IsFiniteSet(S), NEW part, \A x \in S : Numeric(part[x]),
         NEW T, \A t \in T : \E x \in S : t \in part[x]
  PROVE  Numeric(T)
<1>1. IsFiniteSet(T)
  <2>1. \A x \in S : IsFiniteSet(part[x])
    BY DEF Numeric
  <2> QED
    BY <2>1, UnitedFew
<1>2. ASSUME NEW t \in T, NEW m PROVE Figure(t, m) \in Int \cup {Null}
  BY DEF Numeric
<1> QED
  BY <1>1, <1>2 DEF Numeric

LEMMA TopItemsAreNumeric ==
  ASSUME NEW cells, Numeric(cells), NEW n
  PROVE  Numeric(UNION {TopNWithResidual(store, "revenueNet", n) :
                          store \in GroupsBy(cells, LAMBDA c : c.k.store)})
<1> DEFINE key == [c \in cells |-> c.k.store]
           At(k) == {c \in cells : key[c] = k}
           groups == {At(k) : k \in Range(key)}
           TopOf(g) == TopNWithResidual(g, "revenueNet", n)
           all == UNION {TopOf(g) : g \in groups}
           of == [c \in cells |-> TopOf(At(c.k.store))]
<1>1. GroupsBy(cells, LAMBDA c : c.k.store) = groups
  BY DEF GroupsBy
<1>2. \A c \in cells : Numeric(of[c])
  <2>1. \A k : Numeric(At(k))
    <3> TAKE k
    <3>1. At(k) \in SUBSET cells
      OBVIOUS
    <3> HIDE DEF At
    <3> QED
      BY <3>1, FewerAreNumeric
  <2> HIDE DEF At
  <2> QED
    BY <2>1, ResidualIsNumeric
<1>3. ASSUME NEW r \in all PROVE \E c \in cells : r \in of[c]
  <2>1. PICK g \in groups : r \in TopOf(g)
    <3> HIDE DEF TopOf, groups
    <3> QED
      OBVIOUS
  <2>2. PICK k \in Range(key) : g = At(k)
    OBVIOUS
  <2>3. PICK c \in cells : k = c.k.store
    BY DEF Range
  <2> QED
    BY <2>1, <2>2, <2>3
<1>4. IsFiniteSet(cells)
  BY DEF Numeric
<1>5. Numeric(all)
  <2> HIDE DEF all, of
  <2> QED
    BY <1>2, <1>3, <1>4, UnitedAreNumeric
<1> QED
  BY <1>1, <1>5

(* Every cube of a day.                                                    *)
LEMMA DayIsNumeric ==
  ASSUME NEW S \in SUBSET DOMAIN Orders, NEW first
  PROVE  LET day == FoldDay(FactsOf(S), first)
         IN  \A cube \in DOMAIN day : Numeric(day[cube])
<1> DEFINE facts == FactsOf(S)
           day == FoldDay(facts, first)
           top == UNION {TopNWithResidual(store, "revenueNet", ItemTopN) :
                           store \in GroupsBy(FoldOrderLinesDaily(facts),
                                              LAMBDA c : c.k.store)}
<1>1. Numeric(top)
  BY FoldsOfItems, TopItemsAreNumeric
<1>2. /\ Numeric(FoldOrdersDaily(facts, first))
      /\ Numeric(FoldOrderCategoriesDaily(facts))
      /\ Numeric(FoldPromotionsDaily(facts))
      /\ Numeric(FoldFulfilmentDaily(facts))
  BY OrdersAreNumeric, FoldsOfItems, SomeAreNumeric
     DEF FoldPromotionsDaily, FoldFulfilmentDaily
<1>3. day = [cube \in DAILY_CUBES |->
               CASE cube = "orders-daily" -> FoldOrdersDaily(facts, first)
                 [] cube = "order-lines-daily" -> top
                 [] cube = "order-categories-daily" -> FoldOrderCategoriesDaily(facts)
                 [] cube = "promotions-daily" -> FoldPromotionsDaily(facts)
                 [] cube = "fulfilment-daily" -> FoldFulfilmentDaily(facts)]
  BY DEF FoldDay
<1> HIDE DEF facts, day, top
<1>4. ASSUME NEW cube \in DAILY_CUBES PROVE Numeric(day[cube])
  BY <1>1, <1>2, <1>3 DEF DAILY_CUBES
<1>5. DOMAIN day = DAILY_CUBES
  BY <1>3
<1> QED
  BY <1>4, <1>5 DEF day, facts

-----------------------------------------------------------------------------
(* Rows added up                                                           *)

LEMMA GroupedAreSums ==
  ASSUME NEW rows, NEW columns, NEW metrics
  PROVE  Grouped(rows, columns, metrics)
           = SumRows(rows, columns, [m \in metrics |-> m])
<1> DEFINE key == [r \in rows |-> KeyFor(r.k, columns)]
           At(c) == {r \in rows : key[r] = c}
           Made(g) == LET k == KeyFor((CHOOSE r \in g : TRUE).k, columns)
                      IN  Row(k, k, [x \in metrics |-> SumOf(g, x)])
           groups == {At(c) : c \in Range(key)}
           out == Grouped(rows, columns, metrics)
           Sum(c) == SumRow(rows, columns, [m \in metrics |-> m], c)
<1>1. out = {Made(g) : g \in groups}
  BY DEF Grouped, GroupsBy
<1>2. \A t : t \in out <=> \E c \in Range(key) : t = Made(At(c))
  <2> HIDE DEF out, key, At, Made
  <2> QED
    BY <1>1
<1>3. ASSUME NEW c \in Range(key) PROVE Made(At(c)) = Sum(c)
  <2>1. At(c) = AtKey(rows, columns, c)
    BY DEF AtKey
  <2>2. At(c) # {} /\ \A r \in At(c) : KeyFor(r.k, columns) = c
    BY DEF Range
  <2>3. KeyFor((CHOOSE r \in At(c) : TRUE).k, columns) = c
    BY <2>2
  <2> HIDE DEF At
  <2>4. Made(At(c)) = Row(c, c, [x \in metrics |-> SumOf(At(c), x)])
    BY <2>3
  <2>5. Sum(c) = Row(c, c, [m \in metrics |-> SumOf(AtKey(rows, columns, c), m)])
    BY DEF SumRow
  <2> QED
    BY <2>1, <2>4, <2>5
<1>4. \A c : c \in Range(key) <=> \E r \in rows : c = KeyFor(r.k, columns)
  BY DEF Range
<1> HIDE DEF key, Made, At, Sum, out
<1>5. \A t : t \in out <=> \E r \in rows : t = Sum(KeyFor(r.k, columns))
  BY <1>2, <1>3, <1>4
<1>6. SumRows(rows, columns, [m \in metrics |-> m])
        = {Sum(KeyFor(r.k, columns)) : r \in rows}
  BY DEF SumRows, Sum
<1> QED
  BY <1>5, <1>6 DEF out

LEMMA CellsAreSums ==
  ASSUME NEW cells, NEW q
  PROVE  CellRows(cells, q)
           = SumRows(cells, GroupDims(q) \cup WithDate(q), Measured(q))
<1> DEFINE columns == GroupDims(q) \cup WithDate(q)
           key == [r \in cells |-> KeyFor(r.k, columns)]
           At(c) == {r \in cells : key[r] = c}
           Key(g) == KeyFor((CHOOSE c \in g : TRUE).k, columns)
           Group(g) == [k |-> Key(g), cells |-> g]
           Cell(g) == Row(g.k, g.k, [m \in q.metrics |->
                                       SumOf(g.cells, MEASURE_BY_METRIC[m])])
           groups == {At(c) : c \in Range(key)}
           out == CellRows(cells, q)
           Sum(c) == SumRow(cells, columns, Measured(q), c)
<1>1. out = {Cell(g) : g \in {Group(g) : g \in groups}}
  BY DEF CellRows, GroupsBy
<1>2. \A t : t \in out <=> \E c \in Range(key) : t = Cell(Group(At(c)))
  <2> HIDE DEF out, key, At, Cell, Group
  <2> QED
    BY <1>1
<1>3. ASSUME NEW c \in Range(key) PROVE Cell(Group(At(c))) = Sum(c)
  <2>1. At(c) = AtKey(cells, columns, c)
    BY DEF AtKey
  <2>2. At(c) # {} /\ \A r \in At(c) : KeyFor(r.k, columns) = c
    BY DEF Range
  <2>3. Key(At(c)) = c
    BY <2>2
  <2> HIDE DEF At, Key
  <2>4. Cell(Group(At(c)))
          = Row(c, c, [m \in q.metrics |-> SumOf(At(c), MEASURE_BY_METRIC[m])])
    BY <2>3
  <2>5. Sum(c) = Row(c, c, [m \in q.metrics |->
                              SumOf(AtKey(cells, columns, c), MEASURE_BY_METRIC[m])])
    BY DEF SumRow, Measured
  <2> QED
    BY <2>1, <2>4, <2>5
<1>4. \A c : c \in Range(key) <=> \E r \in cells : c = KeyFor(r.k, columns)
  BY DEF Range
<1> DEFINE ks == Range(key)
           Made(c) == Cell(Group(At(c)))
<1> HIDE DEF key, Cell, Group, At, Sum, out, columns, ks
<1>5. \A t : t \in out <=> \E r \in cells : t = Sum(KeyFor(r.k, columns))
  <2>1. \A c \in ks : Made(c) = Sum(c)
    BY <1>3 DEF ks
  <2>2. \A t : t \in out <=> \E c \in ks : t = Made(c)
    BY <1>2 DEF ks
  <2>3. \A c : c \in ks <=> \E r \in cells : c = KeyFor(r.k, columns)
    BY <1>4 DEF ks
  <2> HIDE DEF Made
  <2>4. \A t : t \in out <=> \E c \in ks : t = Sum(c)
    BY <2>1, <2>2
  <2> QED
    BY <2>3, <2>4
<1>6. SumRows(cells, columns, Measured(q)) = {Sum(KeyFor(r.k, columns)) : r \in cells}
  BY DEF SumRows, Sum
<1> QED
  BY <1>5, <1>6 DEF out, columns

(* Rows of integers are added up to rows of integers, and their keys are   *)
(* those of the rows.                                                      *)
LEMMA SumsAreReported ==
  ASSUME NEW rows, Numeric(rows), NEW columns, NEW measure
  PROVE  LET out == SumRows(rows, columns, measure)
         IN  /\ Numeric(out) /\ Reported(out, DOMAIN measure)
             /\ \A t \in out : \E r \in rows : t.k = KeyFor(r.k, columns)
<1> DEFINE out == SumRows(rows, columns, measure)
           sum == [r \in rows |-> SumRow(rows, columns, measure, KeyFor(r.k, columns))]
<1>1. \A t \in out : \E r \in rows : t = sum[r]
  BY DEF SumRows
<1>2. IsFiniteSet(rows)
  BY DEF Numeric
<1>3. IsFiniteSet(out)
  <2> HIDE DEF out, sum
  <2> QED
    BY <1>1, <1>2, MadeOfFew
<1>4. ASSUME NEW t \in out
      PROVE  /\ DOMAIN t.m = DOMAIN measure
             /\ \A m \in DOMAIN measure : t.m[m] \in Int \cup {Null}
             /\ \A m : Figure(t, m) \in Int \cup {Null}
             /\ \E r \in rows : t.k = KeyFor(r.k, columns)
  <2>1. PICK r \in rows : t = sum[r]
    BY <1>1
  <2> DEFINE c == KeyFor(r.k, columns)
             at == AtKey(rows, columns, c)
  <2>2. t.k = c /\ t.m = [m \in DOMAIN measure |-> SumOf(at, measure[m])]
    BY <2>1 DEF SumRow, Row
  <2>3. at \in SUBSET rows
    BY DEF AtKey
  <2> HIDE DEF at
  <2>4. \A m : SumOf(at, m) \in Int \cup {Null}
    BY <2>3, FewerAreNumeric, SumIsNumeric
  <2> QED
    BY <2>2, <2>4 DEF Figure
<1> QED
  BY <1>3, <1>4 DEF Numeric, Reported

-----------------------------------------------------------------------------
(* What the sources report                                                 *)

LEMMA FailedIsSound ==
  ASSUME NEW code \in DSP_ERROR_CODES, NEW metrics
  PROVE  Failed(code).error # Null /\ Sound(Failed(code), metrics)
BY ErrorAssumption DEF Failed, Sound

LEMMA AnsweredIsSound ==
  ASSUME NEW columns, NEW metrics, NEW rows, Reported(rows, metrics),
         NEW partial, NEW degraded
  PROVE  Sound(Answered(columns, metrics, rows, partial, degraded), metrics)
BY DEF Answered, ResultSet, Sound

LEMMA GroupedAreReported ==
  ASSUME NEW rows, Numeric(rows), NEW columns, NEW metrics
  PROVE  Reported(Grouped(rows, columns, metrics), metrics)
<1> DEFINE same == [m \in metrics |-> m]
<1>1. DOMAIN same = metrics /\ Grouped(rows, columns, metrics) = SumRows(rows, columns, same)
  BY GroupedAreSums
<1> HIDE DEF same
<1> QED
  BY <1>1, SumsAreReported

LEMMA CountedIsNumeric ==
  ASSUME NEW rows, Counted(rows)
  PROVE  Numeric(rows)
BY DEF Counted, Numeric, Figure

(* Rows that are each made of one of few things.                           *)
LEMMA MadeAreReported ==
  ASSUME NEW S, IsFiniteSet(S), NEW rows, NEW f, NEW metrics,
         \A r \in rows : \E x \in S : r = f[x],
         \A r \in rows : /\ DOMAIN r.m = metrics
                         /\ \A m \in metrics : AddsUp(m) => r.m[m] \in Int \cup {Null}
  PROVE  Reported(rows, metrics)
<1>1. IsFiniteSet(rows)
  BY MadeOfFew
<1> QED
  BY <1>1 DEF Reported

LEMMA StockIsNumeric ==
  Numeric(Stock) /\ \A s \in Stock : s.m["inventory.available"] \in Int
<1> DEFINE of == [s \in Holdings.stock |->
                    [s EXCEPT !.k = "category" :> CategoryOfSku(s.k.product) @@ @]]
<1>1. \A t \in Stock : \E s \in Holdings.stock : t = of[s]
  BY DEF Stock
<1>2. IsFiniteSet(Holdings.stock) /\ \A s \in Holdings.stock :
        /\ s = Row(s.id, s.k, s.m)
        /\ \A m \in DOMAIN s.m : s.m[m] \in Int \cup {Null}
        /\ s.m["inventory.available"] \in Int
  BY HoldingsAssumption DEF Counted
<1>3. \A s \in Holdings.stock : of[s].m = s.m
  BY <1>2 DEF Row
<1> HIDE DEF of
<1>4. IsFiniteSet(Stock)
  BY <1>1, <1>2, MadeOfFew
<1>5. \A t \in Stock : \A m : Figure(t, m) \in Int \cup {Null}
  BY <1>1, <1>2, <1>3 DEF Figure
<1> QED
  BY <1>1, <1>2, <1>3, <1>4, <1>5 DEF Numeric

LEMMA InventoryIsSound ==
  ASSUME NEW q, q.metrics = {"inventory.available"}
  PROVE  Sound(ReadInventory(q), q.metrics)
<1> DEFINE breakdown == q.dimensions \ {"currency"}
           scoped == IF "distributionChannel" \in DOMAIN q.scope
                       THEN q.scope["distributionChannel"] \cup {NONE}
                       ELSE {s.k.supplyChannel : s \in Holdings.stock}
           found == {s \in Stock :
                       /\ Passes(s.k, {f \in q.filters :
                                         f.dimension \in DOMAIN s.k})
                       /\ s.k.supplyChannel \in scoped}
           All(m) == Total(found, LAMBDA s : s.m[m])
           whole == Row(NoKey, NoKey, [m \in q.metrics |-> All(m)])
           rows == IF breakdown = {} THEN {whole}
                   ELSE Grouped(found, breakdown, q.metrics)
<1>1. ReadInventory(q) = Answered(breakdown, q.metrics, rows, FALSE, FALSE)
  BY DEF ReadInventory
<1>2. found \in SUBSET Stock
  OBVIOUS
<1> HIDE DEF found
<1>3. Numeric(found) /\ \A s \in found : s.m["inventory.available"] \in Int
  BY <1>2, StockIsNumeric, FewerAreNumeric
<1>4. All("inventory.available") \in Int
  <2> DEFINE f == [s \in found |-> s.m["inventory.available"]]
  <2>1. DOMAIN f = found /\ \A s \in found : f[s] \in Int
    BY <1>3
  <2>2. SumFunction(f) \in Int
    <3> HIDE DEF f
    <3> QED
      BY <1>3, <2>1, TotalIsInt DEF Numeric
  <2> QED
    BY <2>2 DEF Total
<1>5. Reported({whole}, q.metrics)
  <2>1. whole.m = [m \in q.metrics |-> All(m)]
    BY DEF Row
  <2> HIDE DEF All, whole
  <2>2. DOMAIN whole.m = q.metrics /\ \A m \in q.metrics : whole.m[m] \in Int
    BY <1>4, <2>1
  <2>3. IsFiniteSet({whole})
    BY FS_Singleton
  <2> QED
    BY <2>2, <2>3 DEF Reported
<1>6. Reported(Grouped(found, breakdown, q.metrics), q.metrics)
  BY <1>3, GroupedAreReported
<1>7. Reported(rows, q.metrics)
  BY <1>5, <1>6
<1> HIDE DEF rows, breakdown
<1> QED
  BY <1>1, <1>7, AnsweredIsSound

LEMMA PromotionsAreSound ==
  ASSUME NEW q
  PROVE  Sound(ReadLivePromotions(q), q.metrics)
<1> DEFINE Promotion(k, count) == Row(k, k, [m \in q.metrics |-> count])
           none == Each(q.dimensions, NONE)
           one == [c \in Holdings.codes |->
                     Promotion([none EXCEPT !["discountCode"] = c], 1)]
           each == {Promotion([none EXCEPT !["discountCode"] = c], 1) :
                      c \in Holdings.codes}
           whole == Promotion(none, Cardinality(Holdings.codes))
           rows == IF "discountCode" \in q.dimensions THEN each ELSE {whole}
<1>1. ReadLivePromotions(q) = Answered(q.dimensions, q.metrics, rows, FALSE, FALSE)
  BY DEF ReadLivePromotions
<1>2. IsFiniteSet(Holdings.codes) /\ Cardinality(Holdings.codes) \in Int
  BY HoldingsAssumption, FS_CardinalityType
<1>3. \A k, count : /\ DOMAIN Promotion(k, count).m = q.metrics
                    /\ \A m \in q.metrics : Promotion(k, count).m[m] = count
  BY DEF Row
<1> HIDE DEF Promotion, none
<1>4. Reported(each, q.metrics)
  <2>1. \A r \in each : \E c \in Holdings.codes : r = one[c]
    OBVIOUS
  <2>2. ASSUME NEW r \in each PROVE  DOMAIN r.m = q.metrics /\ \A m \in q.metrics : r.m[m] = 1
    <3>1. PICK c \in Holdings.codes :
            r = Promotion([none EXCEPT !["discountCode"] = c], 1)
      OBVIOUS
    <3> QED
      BY <1>3, <3>1
  <2> HIDE DEF each, one
  <2>3. \A r \in each : /\ DOMAIN r.m = q.metrics
                        /\ \A m \in q.metrics : r.m[m] \in Int
    BY <2>2
  <2> QED
    BY <1>2, <2>1, <2>3, MadeAreReported
<1>5. Reported({whole}, q.metrics)
  <2>1. /\ DOMAIN whole.m = q.metrics
        /\ \A m \in q.metrics : whole.m[m] = Cardinality(Holdings.codes)
    BY <1>3
  <2>2. IsFiniteSet({whole})
    BY FS_Singleton
  <2> HIDE DEF whole
  <2> QED
    BY <1>2, <2>1, <2>2 DEF Reported
<1>6. Reported(rows, q.metrics)
  BY <1>4, <1>5
<1> HIDE DEF rows
<1> QED
  BY <1>1, <1>6, AnsweredIsSound

(* Products, variants and the buckets of either are counted.               *)
LEMMA CountsAreReported ==
  ASSUME NEW q, q.metrics \subseteq DOMAIN LiveMetrics,
         q.metrics \cap {"inventory.available", "promotions.active"} = {},
         NEW k, NEW count \in Int
  PROVE  LET r == Bucket(k, count, q)
         IN  /\ DOMAIN r.m = q.metrics
             /\ \A m \in q.metrics : AddsUp(m) => r.m[m] \in Int \cup {Null}
<1> DEFINE r == Bucket(k, count, q)
           prices == UNION {p.variants : p \in LiveProducts(q)}
<1>1. r.m = [m \in q.metrics |-> MetricValue(m, count, q)]
  BY DEF Bucket, Row
<1>2. Cardinality(prices) \in Int
  <2>1. LiveProducts(q) \subseteq Holdings.products
    BY DEF LiveProducts
  <2> DEFINE part == [p \in LiveProducts(q) |-> p.variants]
  <2>2. /\ IsFiniteSet(LiveProducts(q))
        /\ \A p \in LiveProducts(q) : IsFiniteSet(part[p])
    BY <2>1, HoldingsAssumption, FS_Subset
  <2>3. \A v \in prices : \E p \in LiveProducts(q) : v \in part[p]
    OBVIOUS
  <2> HIDE DEF prices, part
  <2>4. IsFiniteSet(prices)
    BY <2>2, <2>3, UnitedFew
  <2> QED
    BY <2>4, FS_CardinalityType
<1>3. ASSUME NEW m \in q.metrics, AddsUp(m) PROVE MetricValue(m, count, q) \in Int
  <2>1. m \in {"products.count", "variants.count"}
    BY <1>3, CubeAssumption DEF AddsUp
  <2>2. CASE m = "products.count"
    BY <2>2 DEF MetricValue
  <2>3. CASE m = "variants.count"
    <3>1. MetricValue(m, count, q) \in {Cardinality(prices), count}
      BY <2>3 DEF MetricValue
    <3> QED
      BY <1>2, <3>1
  <2> QED
    BY <2>1, <2>2, <2>3
<1> HIDE DEF r
<1>4. /\ DOMAIN r.m = q.metrics
      /\ \A m \in q.metrics : AddsUp(m) => r.m[m] \in Int \cup {Null}
  BY <1>1, <1>3
<1> QED
  BY <1>4 DEF r

LEMMA FacetsAreSound ==
  ASSUME NEW q, q.metrics \subseteq DOMAIN LiveMetrics,
         q.metrics \cap {"inventory.available", "promotions.active"} = {}
  PROVE  Sound(ReadLiveFacets(q), q.metrics)
<1> DEFINE found == LiveProducts(q)
           columns == q.dimensions \ {"currency"}
           breakdown == q.dimensions \ {"currency", "priceBand"}
           Key(v) == [d \in columns |->
                        IF d \in breakdown THEN Value(v, d) ELSE Null]
           Like(v) == {o \in found : KeyFor(o, breakdown) = KeyFor(v, breakdown)}
           InBand(b) == {v \in UNION {p.variants : p \in found} : v.band = b}
           ByField(v) == Bucket(Key(v), Cardinality(Like(v)), q)
           ByBand(b) == Bucket([priceBand |-> b], Cardinality(InBand(b)), q)
           whole == Bucket(NoKey, Cardinality(found), q)
           fields == {ByField(v) : v \in found}
           bands == {ByBand(b) : b \in Holdings.priceBands}
           rows == LiveRows(q)
<1>1. rows \in {fields, bands, {whole}}
  BY DEF LiveRows
<1>2. IsFiniteSet(found) /\ IsFiniteSet(Holdings.priceBands)
  BY HoldingsAssumption, FS_Subset DEF LiveProducts
<1>3. ASSUME NEW v PROVE Cardinality(Like(v)) \in Int
  <2>1. Like(v) \in SUBSET found
    OBVIOUS
  <2> HIDE DEF Like, found
  <2>2. IsFiniteSet(Like(v))
    BY <1>2, <2>1, FS_Subset
  <2> QED
    BY <2>2, FS_CardinalityType
<1>4. ASSUME NEW b PROVE Cardinality(InBand(b)) \in Int
  <2> DEFINE part == [p \in found |-> p.variants]
             in == InBand(b)
  <2>1. \A p \in found : IsFiniteSet(part[p])
    BY HoldingsAssumption DEF LiveProducts
  <2>2. \A v \in in : \E p \in found : v \in part[p]
    OBVIOUS
  <2> HIDE DEF in, part, found
  <2>3. IsFiniteSet(in)
    BY <1>2, <2>1, <2>2, UnitedFew
  <2>4. Cardinality(in) \in Int
    BY <2>3, FS_CardinalityType
  <2> QED
    BY <2>4 DEF in
<1>5. Cardinality(found) \in Int
  BY <1>2, FS_CardinalityType
<1> DEFINE Good(r) == /\ DOMAIN r.m = q.metrics
                      /\ \A m \in q.metrics : AddsUp(m) => r.m[m] \in Int \cup {Null}
<1>6. \A k : \A count \in Int : Good(Bucket(k, count, q))
  BY CountsAreReported
<1> HIDE DEF Like, InBand, Key, found, Good
<1>7. Reported(fields, q.metrics)
  <2> DEFINE f == [v \in found |-> ByField(v)]
  <2>1. \A r \in fields : \E v \in found : r = f[v]
    OBVIOUS
  <2>2. \A r \in fields : Good(r)
    BY <1>3, <1>6
  <2> HIDE DEF f, fields
  <2> QED
    BY <1>2, <2>1, <2>2, MadeAreReported DEF Good
<1>8. Reported(bands, q.metrics)
  <2> DEFINE f == [b \in Holdings.priceBands |-> ByBand(b)]
  <2>1. \A r \in bands : \E b \in Holdings.priceBands : r = f[b]
    OBVIOUS
  <2>2. \A r \in bands : Good(r)
    BY <1>4, <1>6
  <2> HIDE DEF f, bands
  <2> QED
    BY <1>2, <2>1, <2>2, MadeAreReported DEF Good
<1>9. Reported({whole}, q.metrics)
  <2>1. Good(whole)
    BY <1>5, <1>6
  <2>2. IsFiniteSet({whole})
    BY FS_Singleton
  <2> HIDE DEF whole
  <2> QED
    BY <2>1, <2>2 DEF Good, Reported
<1>10. Reported(rows, q.metrics)
  <2> HIDE DEF rows, fields, bands, whole
  <2> QED
    BY <1>1, <1>7, <1>8, <1>9
<1>11. Sound(Answered(columns, q.metrics, rows, FALSE, FALSE), q.metrics)
  <2> HIDE DEF rows, columns
  <2> QED
    BY <1>10, AnsweredIsSound
<1>12. /\ Sound(Failed("FILTER_REQUIRED"), q.metrics)
       /\ Sound(Failed("UNSUPPORTED_DIMENSION"), q.metrics)
  BY FailedIsSound DEF DSP_ERROR_CODES, CapabilityErrors
<1>13. ReadLiveFacets(q) \in {Failed("FILTER_REQUIRED"),
                              Failed("UNSUPPORTED_DIMENSION"),
                              Answered(columns, q.metrics, rows, FALSE, FALSE)}
  BY DEF ReadLiveFacets
<1> HIDE DEF rows, columns
<1> QED
  BY <1>11, <1>12, <1>13

(* What is live in ct-native, and does not add up over time.               *)
LEMMA LiveIsSound ==
  ASSUME NEW q
  PROVE  /\ Sound(CtNativeRefusal(q), q.metrics)
         /\ CtNativeRefusal(q).error = Null =>
              \A m \in q.metrics : ~AddsUpOverTime(m)
<1>1. /\ Sound(Failed("UNSUPPORTED_METRIC"), q.metrics)
      /\ Sound(Failed("UNSUPPORTED_GRAIN"), q.metrics)
      /\ Failed("UNSUPPORTED_METRIC").error # Null
      /\ Failed("UNSUPPORTED_GRAIN").error # Null
  BY FailedIsSound DEF DSP_ERROR_CODES, CapabilityErrors
<1>2. CASE q.metrics \subseteq DOMAIN LiveMetrics
  <2>1. \A m \in q.metrics : ~AddsUpOverTime(m)
    BY <1>2, CubeAssumption DEF AddsUpOverTime
  <2>2. CtNativeRefusal(q) = CtNativeLive(q)
    BY <1>2 DEF CtNativeRefusal
  <2>3. CASE q.metrics = {"inventory.available"}
    BY <2>1, <2>2, <2>3, InventoryIsSound DEF CtNativeLive
  <2>4. CASE q.metrics # {"inventory.available"} /\ q.metrics = {"promotions.active"}
    BY <2>1, <2>2, <2>4, PromotionsAreSound DEF CtNativeLive
  <2>5. CASE /\ q.metrics # {"inventory.available"}
             /\ q.metrics # {"promotions.active"}
             /\ q.metrics \cap {"inventory.available", "promotions.active"} # {}
    <3>1. CtNativeLive(q) = Failed("UNSUPPORTED_METRIC")
      BY <2>5 DEF CtNativeLive
    <3> QED
      BY <1>1, <2>1, <2>2, <3>1
  <2>6. CASE q.metrics \cap {"inventory.available", "promotions.active"} = {}
    <3>1. CtNativeLive(q) = ReadLiveFacets(q)
      BY <2>6 DEF CtNativeLive
    <3> QED
      BY <1>2, <2>1, <2>2, <2>6, <3>1, FacetsAreSound
  <2> QED
    BY <2>3, <2>4, <2>5, <2>6
<1>3. CASE ~(q.metrics \subseteq DOMAIN LiveMetrics)
  <2>1. CtNativeRefusal(q) \in {Failed("UNSUPPORTED_METRIC"),
                                Failed("UNSUPPORTED_GRAIN")}
    BY <1>3 DEF CtNativeRefusal
  <2> QED
    BY <1>1, <2>1
<1> QED
  BY <1>2, <1>3

LEMMA SumsAreDated ==
  ASSUME NEW rows, DatedRows(rows), Numeric(rows), NEW columns,
         "date" \in columns, NEW measure
  PROVE  DatedRows(SumRows(rows, columns, measure))
<1> SUFFICES ASSUME NEW t \in SumRows(rows, columns, measure)
             PROVE  Value(t.k, "date") # Null
  BY DEF DatedRows
<1>1. PICK r \in rows : t.k = KeyFor(r.k, columns)
  BY SumsAreReported
<1>2. Value(t.k, "date") = Value(r.k, "date")
  BY <1>1 DEF KeyFor, Value
<1> QED
  BY <1>2 DEF DatedRows

LEMMA GroupedAreDated ==
  ASSUME NEW rows, DatedRows(rows), Numeric(rows), NEW columns,
         "date" \in columns, NEW metrics
  PROVE  DatedRows(Grouped(rows, columns, metrics))
BY GroupedAreSums, SumsAreDated

LEMMA DailyAreDated ==
  ASSUME NEW rows, Daily(rows), NEW range
  PROVE  /\ Numeric(InRange(rows, range)) /\ DatedRows(InRange(rows, range))
         /\ \A r \in InRange(rows, range) : r \in rows
<1>1. InRange(rows, range) \in SUBSET rows
  BY DEF InRange
<1>2. Numeric(rows) /\ DatedRows(rows)
  BY CountedIsNumeric, NullAssumption DEF Daily, DatedRows, Value
<1> QED
  BY <1>1, <1>2, FewerAreNumeric DEF DatedRows

LEMMA AnsweredRows ==
  ASSUME NEW columns, NEW metrics, NEW rows, NEW partial, NEW degraded,
         NEW answer, answer = Answered(columns, metrics, rows, partial, degraded)
  PROVE  answer.rows = rows /\ answer.error = Null
BY DEF Answered, ResultSet

LEMMA AnsweredIsDated ==
  ASSUME NEW columns, NEW rows, NEW q, NEW partial, NEW degraded, NEW answer,
         answer = Answered(columns, q.metrics, rows, partial, degraded),
         Reported(rows, q.metrics), q.grain # Null => DatedRows(rows)
  PROVE  Sound(answer, q.metrics) /\ WellDated(answer, q)
<1>1. Sound(answer, q.metrics)
  BY AnsweredIsSound
<1>2. answer.rows = rows
  BY AnsweredRows
<1> QED
  BY <1>1, <1>2 DEF WellDated

LEMMA WebIsSound ==
  ASSUME NEW q
  PROVE  /\ Sound(WebAnswer(q), q.metrics) /\ WellDated(WebAnswer(q), q)
         /\ WebAnswer(q).error = Null => q.timeRange # Null
<1> DEFINE columns == GroupDims(q) \cup WithDate(q)
           found == {v \in InRange(Holdings.visits, q.timeRange) : Passes(v.k, q.filters)}
           rows == Grouped(found, columns, q.metrics)
<1>1. CASE q.timeRange = Null
  <2>1. WebAnswer(q) = Failed("UNSUPPORTED_GRAIN")
    BY <1>1 DEF WebAnswer
  <2> QED
    BY <2>1, FailedIsSound DEF WellDated, DSP_ERROR_CODES, CapabilityErrors
<1>2. CASE q.timeRange # Null
  <2>1. WebAnswer(q) = Answered(columns, q.metrics, rows, FALSE, FALSE)
    BY <1>2 DEF WebAnswer
  <2>2. found \in SUBSET InRange(Holdings.visits, q.timeRange)
    OBVIOUS
  <2> HIDE DEF found
  <2>3. Numeric(found) /\ DatedRows(found)
    BY <2>2, HoldingsAssumption, DailyAreDated, FewerAreNumeric DEF DatedRows
  <2>4. q.grain # Null => "date" \in columns
    BY DEF WithDate, WantsDate
  <2> HIDE DEF columns
  <2>5. Reported(rows, q.metrics) /\ (q.grain # Null => DatedRows(rows))
    BY <2>3, <2>4, GroupedAreReported, GroupedAreDated
  <2> HIDE DEF rows
  <2> QED
    BY <1>2, <2>1, <2>5, AnsweredIsDated
<1> QED
  BY <1>1, <1>2

LEMMA WarehouseIsSound ==
  ASSUME NEW q
  PROVE  Sound(WarehouseAnswer(q), q.metrics) /\ WellDated(WarehouseAnswer(q), q)
<1> DEFINE covering == {t \in TEMPLATES : /\ q.metrics \subseteq t.metrics
                                         /\ GroupDims(q) \subseteq t.dimensions}
           template == CHOOSE t \in covering : TRUE
           columns == GroupDims(q) \cup WithDate(q)
           dims == GroupDims(q) \cup {"date"}
           held == InRange(template.rows, q.timeRange)
           selected == Grouped(held, dims, q.metrics)
           rows == {Row(r.k, KeyFor(r.k, columns), r.m) : r \in selected}
           row == [r \in selected |-> Row(r.k, KeyFor(r.k, columns), r.m)]
<1>1. \/ WarehouseAnswer(q) \in {Failed("UNSUPPORTED_GRAIN"),
                                 Failed("UNSUPPORTED_METRIC")}
      \/ /\ covering # {}
         /\ WarehouseAnswer(q) = Answered(columns, q.metrics, rows, FALSE, FALSE)
  BY DEF WarehouseAnswer
<1>2. CASE WarehouseAnswer(q) \in {Failed("UNSUPPORTED_GRAIN"),
                                   Failed("UNSUPPORTED_METRIC")}
  BY <1>2, FailedIsSound DEF WellDated, DSP_ERROR_CODES, CapabilityErrors
<1>3. CASE /\ covering # {}
           /\ WarehouseAnswer(q) = Answered(columns, q.metrics, rows, FALSE, FALSE)
  <2>1. template \in TEMPLATES
    BY <1>3
  <2>2. template.rows = Holdings.orderLines \/ template.rows = Holdings.spend
    <3> DEFINE Template(metrics, dimensions, rows_) ==
                 [metrics |-> metrics, dimensions |-> dimensions, rows |-> rows_]
    <3>1. \A metrics, dimensions, rows_ : Template(metrics, dimensions, rows_).rows = rows_
      OBVIOUS
    <3>2. PICK metrics, dimensions :
            \/ template = Template(metrics, dimensions, Holdings.orderLines)
            \/ template = Template(metrics, dimensions, Holdings.spend)
      BY <2>1, Zenon DEF TEMPLATES
    <3> HIDE DEF template, Template
    <3> QED
      BY <3>1, <3>2
  <2> HIDE DEF template
  <2>3. Daily(template.rows)
    BY <2>2, HoldingsAssumption
  <2>4. Numeric(held) /\ DatedRows(held)
    BY <2>3, DailyAreDated
  <2>5. "date" \in dims /\ (q.grain # Null => "date" \in columns)
    BY DEF WithDate, WantsDate
  <2> HIDE DEF held, dims, columns
  <2>6. Reported(selected, q.metrics) /\ DatedRows(selected)
    BY <2>4, <2>5, GroupedAreReported, GroupedAreDated
  <2>7. \A r \in rows : \E s \in selected : r = row[s]
    OBVIOUS
  <2>8. \A s \in selected : row[s].m = s.m /\ row[s].k = KeyFor(s.k, columns)
    BY DEF Row
  <2> HIDE DEF rows, row, selected
  <2>9. Reported(rows, q.metrics)
    <3>1. IsFiniteSet(selected)
      BY <2>6 DEF Reported
    <3>2. \A r \in rows : /\ DOMAIN r.m = q.metrics
                          /\ \A m \in q.metrics : AddsUp(m) => r.m[m] \in Int \cup {Null}
      BY <2>6, <2>7, <2>8 DEF Reported
    <3> QED
      BY <2>7, <3>1, <3>2, MadeAreReported
  <2>10. ASSUME q.grain # Null PROVE DatedRows(rows)
    <3>1. ASSUME NEW r \in rows PROVE Value(r.k, "date") # Null
      <4>1. PICK s \in selected : r = row[s]
        BY <2>7
      <4>2. Value(r.k, "date") = Value(s.k, "date")
        BY <2>5, <2>8, <2>10, <4>1 DEF KeyFor, Value
      <4> QED
        BY <2>6, <4>2 DEF DatedRows
    <3> QED
      BY <3>1 DEF DatedRows
  <2> QED
    BY <1>3, <2>9, <2>10, AnsweredIsDated
<1> QED
  BY <1>1, <1>2, <1>3

(* A day that is in a period of the calendar is put into one.              *)
LEMMA BucketIsDay ==
  ASSUME NEW d \in Int, NEW grain \in DateGrains, NEW weekStart,
         \A starts \in {MonthStarts, QuarterStarts, YearStarts} : HasLatest(starts, d)
  PROVE  BucketDay(d, grain, weekStart) \in Int
<1>1. /\ LatestOf(MonthStarts, d) \in Int /\ LatestOf(QuarterStarts, d) \in Int
      /\ LatestOf(YearStarts, d) \in Int
  BY LatestOfIsLatest, CalendarAssumption
<1>2. BucketDay(d, "week", weekStart) \in Int
  BY WeekHoldsItsDays
<1>3. grain \in {"day", "week", "month", "quarter", "year"}
  BY DEF DateGrains
<1> QED
  BY <1>1, <1>2, <1>3 DEF BucketDay

LEMMA ErpIsSound ==
  ASSUME NEW q, q.grain \in DateGrains \cup {Null}
  PROVE  /\ Sound(ErpAnswer(q), q.metrics)
         /\ WellDated(ErpAnswer(q), q) \/ q.metrics = {"inventory.available"}
<1> DEFINE stock == q.metrics = {"inventory.available"}
           range == IF q.timeRange = Null THEN DateRange(Today, Today)
                    ELSE q.timeRange
           read == IF stock THEN DateRange(range.to - 1, range.to) ELSE range
           columns == GroupDims(q) \cup (IF stock THEN {} ELSE WithDate(q))
           Bucketed(r) == IF "date" \in columns /\ q.grain # Null
                            THEN Row(r.id, [r.k EXCEPT !["date"] =
                                              BucketDay(@, q.grain, "monday")], r.m)
                            ELSE r
           held == InRange(Holdings.erp, read)
           found == {Bucketed(r) : r \in held}
           dataset == {r \in found : DOMAIN r.m \cap q.metrics # {}}
           rows == Grouped(dataset, columns, q.metrics)
           put == [r \in held |-> Bucketed(r)]
<1>1. ErpAnswer(q) \in {Failed("UNSUPPORTED_METRIC"),
                        Answered(columns, q.metrics, rows, FALSE, TRUE)}
  BY DEF ErpAnswer
<1>2. /\ Numeric(held) /\ DatedRows(held) /\ \A r \in held : r \in Holdings.erp
  BY HoldingsAssumption, DailyAreDated
<1>3. ~stock /\ q.grain # Null => "date" \in columns
  BY DEF WithDate, WantsDate
<1> HIDE DEF read, range, columns, held, stock
<1>4. \A r \in found : \E s \in held : r = put[s]
  OBVIOUS
<1>5. ASSUME NEW s \in held
      PROVE  put[s].m = s.m /\ Value(put[s].k, "date") # Null
  <2>1. "date" \in DOMAIN s.k /\ s.k["date"] \in Int
        /\ \A starts \in {MonthStarts, QuarterStarts, YearStarts} :
             HasLatest(starts, s.k["date"])
    BY <1>2, HoldingsAssumption DEF Daily
  <2>2. CASE "date" \in columns /\ q.grain # Null
    <3> DEFINE day == BucketDay(s.k["date"], q.grain, "monday")
               k == [s.k EXCEPT !["date"] = BucketDay(@, q.grain, "monday")]
    <3>1. day \in Int
      BY <2>1, <2>2, BucketIsDay
    <3>2. put[s] = Row(s.id, k, s.m)
      BY <2>2
    <3>3. "date" \in DOMAIN k /\ k["date"] = day
      BY <2>1
    <3> HIDE DEF day, k, put
    <3>4. put[s].k = k /\ put[s].m = s.m
      BY <3>2 DEF Row
    <3> QED
      BY <3>1, <3>3, <3>4, NullAssumption DEF Value
  <2>3. CASE ~("date" \in columns /\ q.grain # Null)
    <3>1. put[s] = s
      BY <2>3
    <3> QED
      BY <1>2, <3>1 DEF DatedRows
  <2> QED
    BY <2>2, <2>3
<1> HIDE DEF found, put
<1>6. Numeric(found) /\ DatedRows(found)
  <2>1. IsFiniteSet(held)
    BY <1>2 DEF Numeric
  <2>2. IsFiniteSet(found)
    BY <1>4, <2>1, MadeOfFew
  <2>3. ASSUME NEW r \in found, NEW m
        PROVE  Figure(r, m) \in Int \cup {Null} /\ Value(r.k, "date") # Null
    <3>1. PICK s \in held : r = put[s]
      BY <1>4
    <3>2. Figure(s, m) \in Int \cup {Null}
      BY <1>2 DEF Numeric
    <3> QED
      BY <1>5, <3>1, <3>2 DEF Figure
  <2> QED
    BY <2>2, <2>3 DEF Numeric, DatedRows
<1>7. Numeric(dataset) /\ DatedRows(dataset)
  <2>1. dataset \in SUBSET found
    OBVIOUS
  <2> HIDE DEF dataset
  <2> QED
    BY <1>6, <2>1, FewerAreNumeric DEF DatedRows
<1> HIDE DEF dataset
<1>8. Reported(rows, q.metrics) /\ ("date" \in columns => DatedRows(rows))
  BY <1>7, GroupedAreReported, GroupedAreDated
<1> HIDE DEF rows
<1>9. CASE ErpAnswer(q) = Failed("UNSUPPORTED_METRIC")
  BY <1>9, FailedIsSound DEF WellDated, DSP_ERROR_CODES, CapabilityErrors
<1>10. CASE ErpAnswer(q) = Answered(columns, q.metrics, rows, FALSE, TRUE)
  <2>1. Sound(ErpAnswer(q), q.metrics)
    BY <1>8, <1>10, AnsweredIsSound
  <2>2. ErpAnswer(q).rows = rows
    BY <1>10 DEF Answered, ResultSet
  <2>3. ~stock \/ q.metrics = {"inventory.available"}
    BY DEF stock
  <2>4. stock \/ WellDated(ErpAnswer(q), q)
    BY <1>3, <1>8, <2>2 DEF WellDated
  <2> QED
    BY <2>1, <2>3, <2>4
<1> QED
  BY <1>1, <1>9, <1>10

(* The rows read from the cubes have the figures of their cells, and a day. *)
LEMMA DaysAreRead ==
  ASSUME NEW stored, NEW q, NEW names, NEW t \in ReadDays(q, stored, names)
  PROVE  \E d \in DOMAIN stored \cap EachDay(q.timeRange) :
           \E name \in DOMAIN stored[d] : \E c \in stored[d][name] :
             t = CellOfDay(d, name, c)
<1> DEFINE days == DOMAIN stored \cap EachDay(q.timeRange)
           KeptOf(d, name) == {b \in stored[d][name] : Passes(b.k, Allowed(q))}
           Made(d, name) == {CellOfDay(d, name, c) : c \in KeptOf(d, name)}
           OfDay(d) == UNION {Made(d, name) : name \in names \cap DOMAIN stored[d]}
<1>1. ReadDays(q, stored, names) = UNION {OfDay(d) : d \in days}
  BY DEF ReadDays, CellOfDay
<1> HIDE DEF days, OfDay
<1>2. PICK d \in days : t \in OfDay(d)
  BY <1>1
<1> HIDE DEF Made
<1>3. PICK name \in names \cap DOMAIN stored[d] : t \in Made(d, name)
  BY <1>2 DEF OfDay
<1> HIDE DEF KeptOf
<1>4. PICK c \in KeptOf(d, name) : t = CellOfDay(d, name, c)
  BY <1>3 DEF Made
<1> QED
  BY <1>2, <1>3, <1>4 DEF days, KeptOf

LEMMA DaysAreNumeric ==
  ASSUME NEW stored, IsFiniteSet(DOMAIN stored), NEW q, NEW names,
         \A d \in DOMAIN stored :
           /\ IsFiniteSet(DOMAIN stored[d])
           /\ \A name \in DOMAIN stored[d] : Numeric(stored[d][name])
  PROVE  Numeric(ReadDays(q, stored, names)) /\ DatedRows(ReadDays(q, stored, names))
<1> DEFINE rows == ReadDays(q, stored, names)
           cubeRows == [d \in DOMAIN stored |-> [name \in DOMAIN stored[d] |->
                          {CellOfDay(d, name, c) : c \in stored[d][name]}]]
           dayRows == [d \in DOMAIN stored |->
                         UNION {cubeRows[d][name] : name \in DOMAIN stored[d]}]
<1>1. ASSUME NEW t \in rows
      PROVE  \E d \in DOMAIN stored \cap EachDay(q.timeRange) :
               \E name \in DOMAIN stored[d] : \E c \in stored[d][name] :
                 t = CellOfDay(d, name, c)
  BY DaysAreRead
<1>2. \A d \in DOMAIN stored : \A name \in DOMAIN stored[d] :
        \A c \in stored[d][name] : CellOfDay(d, name, c) \in cubeRows[d][name]
  OBVIOUS
<1>3. ASSUME NEW d \in DOMAIN stored, NEW name \in DOMAIN stored[d]
      PROVE  IsFiniteSet(cubeRows[d][name])
  <2> DEFINE cells == stored[d][name]
             made == [c \in cells |-> CellOfDay(d, name, c)]
  <2>1. IsFiniteSet(cells)
    BY DEF Numeric
  <2>2. \A t \in cubeRows[d][name] : \E c \in cells : t = made[c]
    OBVIOUS
  <2> HIDE DEF cells, made, cubeRows
  <2> QED
    BY <2>1, <2>2, MadeOfFew
<1>4. \A d \in DOMAIN stored : \A t :
        t \in dayRows[d] <=> \E name \in DOMAIN stored[d] : t \in cubeRows[d][name]
  OBVIOUS
<1> HIDE DEF rows, cubeRows, dayRows
<1>5. ASSUME NEW d \in DOMAIN stored PROVE IsFiniteSet(dayRows[d])
  <2> DEFINE part == [name \in DOMAIN stored[d] |-> cubeRows[d][name]]
  <2>1. IsFiniteSet(DOMAIN stored[d])
    OBVIOUS
  <2>2. \A name \in DOMAIN stored[d] : IsFiniteSet(part[name])
    BY <1>3
  <2>3. \A t \in dayRows[d] : \E name \in DOMAIN stored[d] : t \in part[name]
    BY <1>4
  <2> HIDE DEF part
  <2> QED
    BY <2>1, <2>2, <2>3, UnitedFew
<1>6. \A t \in rows : \E d \in DOMAIN stored : t \in dayRows[d]
  BY <1>1, <1>2, <1>4
<1>7. IsFiniteSet(rows)
  BY <1>5, <1>6, UnitedFew
<1>8. ASSUME NEW t \in rows
      PROVE  (\A m : Figure(t, m) \in Int \cup {Null}) /\ Value(t.k, "date") # Null
  <2>a. PICK d \in DOMAIN stored \cap EachDay(q.timeRange) :
          \E name \in DOMAIN stored[d] : \E c \in stored[d][name] :
            t = CellOfDay(d, name, c)
    BY <1>1
  <2>b. PICK name \in DOMAIN stored[d] :
          \E c \in stored[d][name] : t = CellOfDay(d, name, c)
    BY <2>a
  <2>1. PICK c \in stored[d][name] : t = CellOfDay(d, name, c)
    BY <2>b
  <2> DEFINE k == [x \in DOMAIN c.k \cup {"date"} |->
                     IF x = "date" THEN d ELSE c.k[x]]
  <2>2. "date" \in DOMAIN k /\ k["date"] = d
    OBVIOUS
  <2>3. t = Row(<<d, name, c.k>>, k, c.m)
    BY <2>1 DEF CellOfDay
  <2> HIDE DEF k
  <2>4. t.k = k /\ t.m = c.m
    BY <2>3 DEF Row
  <2>5. d \in EachDay(q.timeRange)
    OBVIOUS
  <2>6. d # Null
    BY <2>5, NullAssumption DEF EachDay
  <2>7. \A m : Figure(c, m) \in Int \cup {Null}
    BY DEF Numeric
  <2> QED
    BY <2>2, <2>4, <2>6, <2>7 DEF Figure, Value
<1> QED
  BY <1>7, <1>8 DEF Numeric, DatedRows, rows

LEMMA FiveAreFew ==
  ASSUME NEW a, NEW b, NEW c, NEW d, NEW e
  PROVE  IsFiniteSet({a, b, c, d, e})
<1>1. \A S, x : IsFiniteSet(S) => IsFiniteSet(S \cup {x})
  BY FS_AddElement
<1>2. IsFiniteSet({a})
  BY FS_Singleton
<1>3. IsFiniteSet({a} \cup {b})
  BY <1>1, <1>2
<1>4. IsFiniteSet(({a} \cup {b}) \cup {c})
  BY <1>1, <1>3
<1>5. IsFiniteSet((({a} \cup {b}) \cup {c}) \cup {d})
  BY <1>1, <1>4
<1>6. IsFiniteSet(((({a} \cup {b}) \cup {c}) \cup {d}) \cup {e})
  BY <1>1, <1>5
<1>7. ((({a} \cup {b}) \cup {c}) \cup {d}) \cup {e} = {a, b, c, d, e}
  OBVIOUS
<1> QED
  BY <1>6, <1>7

(* What the job writes has integers, at every step of it.                  *)
LEMMA PartitionsAreNumeric ==
  ASSUME IInv, JobInv
  PROVE  /\ IsFiniteSet(DOMAIN Partitions)
         /\ \A d \in DOMAIN Partitions :
              /\ IsFiniteSet(DOMAIN Partitions[d])
              /\ \A name \in DOMAIN Partitions[d] : Numeric(Partitions[d][name])
         /\ Numeric(Cohort)
<1>1. IsFiniteSet(DOMAIN cubes) /\ DOMAIN Partitions = DOMAIN cubes
  BY DEF JobInv, Partitions
<1>2. ASSUME NEW d \in DOMAIN cubes
      PROVE  /\ IsFiniteSet(DOMAIN Partitions[d])
             /\ \A name \in DOMAIN Partitions[d] : Numeric(Partitions[d][name])
  <2>1. cubes[d].orders \in SUBSET DOMAIN Orders
    BY DEF IInv, JobInv, OnDay
  <2>2. Partitions[d] = FoldDay(FactsOf(cubes[d].orders), FirstOf(cubes[d].known))
    BY DEF Partitions
  <2>3. DOMAIN Partitions[d] = DAILY_CUBES
    BY <2>2 DEF FoldDay
  <2>4. IsFiniteSet(DAILY_CUBES)
    BY FiveAreFew DEF DAILY_CUBES
  <2> QED
    BY <2>1, <2>2, <2>3, <2>4, DayIsNumeric
<1>3. Numeric(Cohort)
  <2> DEFINE facts == FactsOf(published.cohort)
  <2>1. published.cohort \in SUBSET DOMAIN Orders
    BY DEF IInv, JobInv
  <2>2. /\ IsFiniteSet(facts) /\ Dated(facts)
        /\ \A f \in facts : HasLatest(MonthStarts, f.businessDate)
    BY <2>1, FactsAreFinite
  <2> HIDE DEF facts
  <2>3. FoldCohortKeeps(facts)
    BY <2>2, CohortsOfFacts
  <2> QED
    BY <2>3 DEF FoldCohortKeeps, Cohort, facts
<1> QED
  BY <1>1, <1>2, <1>3

LEMMA ValidIsServed ==
  ASSUME NEW q, NEW descriptor, ValidateAgainstDescriptor(q, descriptor) = Null
  PROVE  /\ q.metrics \subseteq DOMAIN descriptor.metrics
         /\ q.grain # Null =>
              \A m \in q.metrics : q.grain \in descriptor.metrics[m].grains
<1>1. /\ "UNSUPPORTED_METRIC" # Null /\ "UNSUPPORTED_GRAIN" # Null
      /\ "UNSUPPORTED_DIMENSION" # Null
  BY ErrorAssumption DEF DSP_ERROR_CODES, CapabilityErrors
<1> QED
  BY <1>1 DEF ValidateAgainstDescriptor

LEMMA CubesAreFaithful ==
  ASSUME IInv, JobInv, NEW q, q.metrics # {}, FromCubes(q), NEW watermark,
         q.sourceId \in DOMAIN Descriptors
  PROVE  Faithful(CtNativeAnswer(q, Partitions, Cohort, watermark), q)
<1> DEFINE names == CubesFor(q.metrics, GroupDims(q))
           columns == GroupDims(q) \cup WithDate(q)
           answer == CtNativeAnswer(q, Partitions, Cohort, watermark)
<1>1. /\ q.sourceId = "ct-native" /\ q.metrics \cap DOMAIN LiveMetrics = {}
      /\ q.metrics \subseteq DOMAIN Descriptors["ct-native"].metrics
  BY ValidIsServed DEF FromCubes, IsForCubes
<1>2. DOMAIN Measured(q) = q.metrics
  BY DEF Measured
<1>3. CASE names = {"customers-daily"}
  <2> DEFINE found == {c \in Cohort : Passes(c.k, Allowed(q))}
             snapshot == [q EXCEPT !.grain = Null, !.dimensions = GroupDims(q)]
             rows == CellRows(found, snapshot)
  <2>1. \A m \in q.metrics : ~AddsUpOverTime(m)
    <3> SUFFICES ASSUME NEW m \in q.metrics PROVE ~AddsUpOverTime(m)
      OBVIOUS
    <3> DEFINE cube == IF m \in ITEM_METRICS /\ "category" \in GroupDims(q)
                         THEN "order-categories-daily"
                       ELSE IF m \in ITEM_METRICS /\ "product" \in GroupDims(q)
                         THEN "order-lines-daily"
                       ELSE CUBE_BY_METRIC[m]
    <3>1. cube \in names
      BY DEF CubesFor
    <3>2. CUBE_BY_METRIC[m] = "customers-daily"
      BY <1>3, <3>1
    <3> QED
      BY <1>1, <3>2, CubeAssumption DEF AddsUpOverTime
  <2>2. answer = Answered(GroupDims(q), q.metrics, rows, FALSE, FALSE)
    BY <1>3 DEF CtNativeAnswer, SnapshotAnswer
  <2>3. answer.rows = rows /\ answer.metrics = q.metrics /\ answer.error = Null
    BY <2>2 DEF Answered, ResultSet
  <2>4. found \in SUBSET Cohort
    OBVIOUS
  <2>5. Numeric(found)
    BY <2>4, PartitionsAreNumeric, FewerAreNumeric
  <2>6. snapshot.metrics = q.metrics
    OBVIOUS
  <2> HIDE DEF found, snapshot
  <2>7. DOMAIN Measured(snapshot) = q.metrics
    BY <2>6 DEF Measured
  <2>8. Reported(rows, q.metrics)
    <3>1. rows = SumRows(found, GroupDims(snapshot) \cup WithDate(snapshot),
                         Measured(snapshot))
      BY CellsAreSums
    <3> HIDE DEF rows
    <3> QED
      BY <2>5, <2>7, <3>1, SumsAreReported
  <2> HIDE DEF rows
  <2> QED
    BY <1>1, <2>1, <2>3, <2>8 DEF Faithful
<1>4. CASE names # {"customers-daily"}
  <2> DEFINE read == ReadDays(q, Partitions, names)
             rows == CellRows(read, q)
  <2>1. PICK partial : answer = Answered(columns, q.metrics, rows, partial, partial)
    BY <1>4 DEF CtNativeAnswer
  <2>2. answer.rows = rows /\ answer.metrics = q.metrics /\ answer.error = Null
    BY <2>1 DEF Answered, ResultSet
  <2>3. Numeric(read) /\ DatedRows(read)
    BY PartitionsAreNumeric, DaysAreNumeric
  <2>4. q.grain # Null => "date" \in columns
    BY DEF WithDate, WantsDate
  <2> HIDE DEF read, columns
  <2>5. rows = SumRows(read, columns, Measured(q))
    BY CellsAreSums DEF columns
  <2> HIDE DEF rows
  <2>6. Reported(rows, q.metrics) /\ (q.grain # Null => DatedRows(rows))
    BY <1>2, <2>3, <2>4, <2>5, SumsAreReported, SumsAreDated
  <2> QED
    BY <1>1, <2>2, <2>6 DEF Faithful
<1> QED
  BY <1>3, <1>4

(* An answer that fails has no rows.                                       *)
LEMMA FailedIsRefusing ==
  ASSUME NEW code
  PROVE  Refusing(Failed(code))
BY DEF Failed, Refusing
LEMMA AnsweredIsRefusing ==
  ASSUME NEW columns, NEW metrics, NEW rows, NEW partial, NEW degraded
  PROVE  Refusing(Answered(columns, metrics, rows, partial, degraded))
BY DEF Answered, ResultSet, Refusing

LEMMA SourceIsRefusing ==
  ASSUME NEW sourceId, NEW q
  PROVE  Refusing(SourceAnswer(sourceId, q))
<1>1. Refusing(CtNativeRefusal(q))
  <2>1. /\ Refusing(ReadLiveFacets(q)) /\ Refusing(ReadInventory(q))
        /\ Refusing(ReadLivePromotions(q))
    BY FailedIsRefusing, AnsweredIsRefusing
       DEF ReadLiveFacets, ReadInventory, ReadLivePromotions
  <2> QED
    BY <2>1, FailedIsRefusing DEF CtNativeRefusal, CtNativeLive
<1>2. Refusing(WarehouseAnswer(q))
  BY FailedIsRefusing, AnsweredIsRefusing DEF WarehouseAnswer
<1>3. Refusing(ErpAnswer(q))
  BY FailedIsRefusing, AnsweredIsRefusing DEF ErpAnswer
<1>4. Refusing(WebAnswer(q))
  BY FailedIsRefusing, AnsweredIsRefusing DEF WebAnswer
<1> QED
  BY <1>1, <1>2, <1>3, <1>4, FailedIsRefusing DEF SourceAnswer

LEMMA SourceIsFaithful ==
  ASSUME NEW q, q.metrics # {}, q.sourceId \in DOMAIN Descriptors
  PROVE  Faithful(SourceAnswer(q.sourceId, q), q)
<1> DEFINE refusal == ValidateAgainstDescriptor(q, Descriptors[q.sourceId])
           answer == SourceAnswer(q.sourceId, q)
<1>0. answer.error # Null => answer.rows = {}
  BY SourceIsRefusing DEF Refusing
<1>1. CASE refusal # Null
  <2>1. answer = Failed(refusal)
    BY <1>1 DEF SourceAnswer
  <2>2. answer.error # Null
    BY <1>1, <2>1 DEF Failed
  <2> QED
    BY <1>0, <2>2 DEF Faithful
<1>2. CASE refusal = Null
  <2>1. /\ q.metrics \subseteq DOMAIN Descriptors[q.sourceId].metrics
        /\ q.grain \in DateGrains \cup {Null}
    BY <1>2, ValidIsServed, DescriptorAssumption
  <2>2. CASE q.sourceId = "ct-native"
    <3>1. answer = CtNativeRefusal(q)
      BY <1>2, <2>2 DEF SourceAnswer
    <3> QED
      BY <1>0, <2>1, <2>2, <3>1, LiveIsSound DEF Faithful, Sound
  <2>3. CASE q.sourceId = "warehouse"
    <3>1. answer = WarehouseAnswer(q)
      BY <1>2, <2>3 DEF SourceAnswer
    <3> QED
      BY <1>0, <2>1, <2>3, <3>1, WarehouseIsSound DEF Faithful, Sound, WellDated
  <2>4. CASE q.sourceId = "erp-oms"
    <3>1. answer = ErpAnswer(q)
      BY <1>2, <2>4 DEF SourceAnswer
    <3>2. ~AddsUpOverTime("inventory.available")
      BY CubeAssumption DEF AddsUpOverTime
    <3> QED
      BY <1>0, <2>1, <2>4, <3>1, <3>2, ErpIsSound DEF Faithful, Sound, WellDated
  <2>5. CASE q.sourceId \notin {"ct-native", "warehouse", "erp-oms"}
    <3>1. answer = WebAnswer(q)
      BY <1>2, <2>5 DEF SourceAnswer
    <3> QED
      BY <1>0, <2>1, <3>1, WebIsSound DEF Faithful, Sound, WellDated
  <2> QED
    BY <2>2, <2>3, <2>4, <2>5
<1> QED
  BY <1>1, <1>2

-----------------------------------------------------------------------------
(* What the planner asks of the sources                                    *)

(* The queries of a tile: those of one grain, and none of a tile that is a *)
(* point in time.                                                          *)
LEMMA TileQueries ==
  ASSUME NEW shape, NEW report, NEW r
  PROVE  LET plan == PlanTile(shape, report, r)
         IN  /\ \E assigned, dimensions :
                  plan.subQueries = SubQueries(assigned, dimensions,
                                      plan.effectiveGrain, shape, report, r)
             /\ shape.pointInTime => plan.effectiveGrain = Null
             /\ plan.derived = DerivedMetrics(Permitted(shape, r.access))
<1> DEFINE wanted == Wanted(shape, report, r)
           assigned == SelectSources(UsableSources(r), wanted)
           plan == PlanTile(shape, report, r)
           join == PlanJoin(wanted.dimensions, wanted.grain, Range(assigned) \ {Null})
           grain == OrElse(join.effectiveGrain, wanted.grain)
<1>1. shape.pointInTime => wanted.grain = Null
  BY DEF Wanted
<1>2. plan = PlanWanted(shape, report, r, wanted)
  BY DEF PlanTile
<1> HIDE DEF wanted
<1>3. plan = PlanAssigned(shape, report, r, wanted, assigned)
  BY <1>2 DEF PlanWanted
<1> HIDE DEF assigned
<1>4. wanted.grain = Null => join.effectiveGrain = Null
  BY DEF PlanJoin, EffectiveGrain
<1>5. /\ plan.subQueries =
           SubQueries(assigned, wanted.dimensions, grain, shape, report, r)
      /\ plan.effectiveGrain = grain
      /\ plan.derived = DerivedMetrics(Permitted(shape, r.access))
  BY <1>3 DEF PlanAssigned
<1> HIDE DEF join
<1>6. wanted.grain = Null => grain = Null
  BY <1>4 DEF OrElse
<1> HIDE DEF grain, plan
<1> QED
  BY <1>1, <1>5, <1>6 DEF plan

(* A query that is not of the tile's grain is one for what is live.        *)
LEMMA QueriesAreOfAMode ==
  ASSUME NEW assigned, NEW dimensions, NEW grain, NEW shape, NEW report, NEW r,
         shape.pointInTime => grain = Null
  PROVE  LET queries == SubQueries(assigned, dimensions, grain, shape, report, r)
         IN  /\ \A q \in queries :
                  /\ q.metrics # {}
                  /\ \/ q.grain = grain
                     \/ /\ q.timeRange = Null
                        /\ \A m \in q.metrics :
                             Descriptors[q.sourceId].metrics[m].execution = "live"
             /\ \A q, p \in queries : \A m \in q.metrics : m \in p.metrics => q = p
<1> DEFINE Mode(m) ==
             <<assigned[m], Descriptors[assigned[m]].metrics[m].execution>>
           served == {m \in DOMAIN assigned : assigned[m] # Null}
           modes == {Mode(m) : m \in served}
           PointInTime(mode) == mode[2] = "live" \/ shape.pointInTime
           Of(mode) == {m \in served : Mode(m) = mode}
           Query(mode) ==
             [sourceId |-> mode[1], metrics |-> Of(mode),
              dimensions |-> dimensions,
              grain |-> IF PointInTime(mode) THEN Null ELSE grain,
              timeRange |-> IF PointInTime(mode) THEN Null ELSE r.range,
              filters |-> report.filters \cup r.filters \cup shape.filters,
              scope |-> r.access.rowScope]
           queries == SubQueries(assigned, dimensions, grain, shape, report, r)
<1>1. queries = {Query(mode) : mode \in modes}
  BY DEF SubQueries, SourceQuery
<1>2. ASSUME NEW mode \in modes
      PROVE  /\ Query(mode).metrics = Of(mode) /\ Of(mode) # {}
             /\ \/ Query(mode).grain = grain
                \/ /\ Query(mode).timeRange = Null
                   /\ \A m \in Of(mode) :
                        Descriptors[Query(mode).sourceId].metrics[m].execution = "live"
  <2>1. Of(mode) # {}
    OBVIOUS
  <2>2. \A m \in Of(mode) :
          mode[1] = assigned[m]
          /\ mode[2] = Descriptors[assigned[m]].metrics[m].execution
    OBVIOUS
  <2>3. /\ Query(mode).metrics = Of(mode) /\ Query(mode).sourceId = mode[1]
        /\ Query(mode).grain = (IF PointInTime(mode) THEN Null ELSE grain)
        /\ Query(mode).timeRange = (IF PointInTime(mode) THEN Null ELSE r.range)
    OBVIOUS
  <2> HIDE DEF Of, Query, modes, Mode
  <2>4. CASE shape.pointInTime
    BY <2>1, <2>3, <2>4
  <2>5. CASE ~shape.pointInTime /\ mode[2] = "live"
    BY <2>1, <2>2, <2>3, <2>5
  <2>6. CASE ~shape.pointInTime /\ mode[2] # "live"
    BY <2>1, <2>3, <2>6
  <2> QED
    BY <2>4, <2>5, <2>6
<1>3. \A n, p : \A m \in Of(n) : m \in Of(p) => n = p
  OBVIOUS
<1> HIDE DEF modes, Of, Query, queries
<1>4. \A q \in queries : \E mode \in modes : q = Query(mode)
  BY <1>1
<1>5. ASSUME NEW q \in queries, NEW p \in queries, NEW m \in q.metrics, m \in p.metrics
      PROVE  q = p
  <2>1. PICK n \in modes : q = Query(n)
    BY <1>4
  <2>2. PICK o \in modes : p = Query(o)
    BY <1>4
  <2>3. m \in Of(n) /\ m \in Of(o)
    BY <1>2, <1>5, <2>1, <2>2
  <2> QED
    BY <1>3, <2>1, <2>2, <2>3
<1>6. ASSUME NEW q \in queries
      PROVE  /\ q.metrics # {}
             /\ \/ q.grain = grain
                \/ /\ q.timeRange = Null
                   /\ \A m \in q.metrics :
                        Descriptors[q.sourceId].metrics[m].execution = "live"
  <2>1. PICK mode \in modes : q = Query(mode)
    BY <1>4
  <2> QED
    BY <1>2, <2>1
<1> QED
  BY <1>5, <1>6 DEF queries

(* What the plan of a tile asks for.                                       *)
LEMMA TilesAsk ==
  ASSUME NEW shape, NEW report, NEW r
  PROVE  Asked(PlanTile(shape, report, r))
<1> DEFINE plan == PlanTile(shape, report, r)
<1>1. PICK assigned, dimensions :
        plan.subQueries = SubQueries(assigned, dimensions, plan.effectiveGrain,
                                     shape, report, r)
  BY TileQueries
<1>2. /\ shape.pointInTime => plan.effectiveGrain = Null
      /\ plan.derived = DerivedMetrics(Permitted(shape, r.access))
  BY TileQueries
<1>3. IsFiniteSet(plan.subQueries)
  BY TilePlan, FewQueries
<1>4. \A m \in plan.derived : ~IsBase(m)
  BY <1>2 DEF DerivedMetrics, IsBase
<1> HIDE DEF plan
<1> QED
  BY <1>1, <1>2, <1>3, <1>4, QueriesAreOfAMode DEF Asked, plan

-----------------------------------------------------------------------------
(* Merging                                                                 *)

LEMMA InitFaithfulInv == Init => FaithfulInv
<1> SUFFICES ASSUME Init PROVE FaithfulInv
  OBVIOUS
<1>1. ScopeInv /\ IInv /\ JobInv
  BY InitScopeInv, InitIInv, InitJobInv
<1>2. answers = {} /\ shown = Null
  BY DEF Init
<1> QED
  BY <1>1, <1>2 DEF FaithfulInv, AnswersFaithful

LEMMA ReceivedFaithfully ==
  ASSUME FaithfulInv, NEW q \in pending, NEW answer, NEW covers,
         Receives(q, answer, covers), Faithful(answer, q)
  PROVE  AnswersFaithful(answers')
<1> DEFINE a == [query |-> q, answer |-> answer, covers |-> covers,
                 reads |-> orders, behind |-> BackDated]
<1>1. answers' = answers \/ answers' = answers \cup {a}
  BY DEF Receives
<1>2. a.answer = answer /\ a.query = q
  OBVIOUS
<1> HIDE DEF a
<1> QED
  BY <1>1, <1>2 DEF FaithfulInv, AnswersFaithful

(* What is pending asks for something.                                     *)
LEMMA PendingAsks ==
  ASSUME ScopeInv, NEW q \in pending, Answering(q)
  PROVE  q.metrics # {} /\ q.sourceId \in DOMAIN Descriptors
<1>1. /\ q \in Plan.subQueries /\ tile \in DOMAIN plans
      /\ plans = PlanReport(TheReport, request)
  BY DEF ScopeInv, RunInv, TileInv, PlansInv, Answering
<1>2. Plan = PlanTile(TheReport.tiles[tile], TheReport, request)
  BY <1>1 DEF Plan, PlanReport
<1>3. Asked(Plan)
  BY <1>2, TilesAsk
<1> QED
  BY <1>1, <1>3 DEF Asked, Answering, ScopeInv

LEMMA StepFaithfulInv == FaithfulInv /\ [Next]_vars => FaithfulInv'
<1> SUFFICES ASSUME FaithfulInv, [Next]_vars PROVE FaithfulInv'
  OBVIOUS
<1>1. ScopeInv' /\ IInv' /\ JobInv'
  BY StepScopeInv, StepIInv, StepJobInv DEF FaithfulInv
<1> SUFFICES /\ AnswersFaithful(answers')
             /\ shown' # Null => AnswersFaithful(shown'.answers)
  BY <1>1 DEF FaithfulInv, AnswersFaithful
<1>2. ASSUME UNCHANGED <<answers, shown>>
      PROVE  /\ AnswersFaithful(answers')
             /\ shown' # Null => AnswersFaithful(shown'.answers)
  BY <1>2 DEF FaithfulInv
<1>3. CASE Job
  BY <1>2, <1>3
     DEF Job, PlaceOrder, StartPass, RebuildDay, Publish, EndPass, runVars
<1>4. CASE Receive
  BY <1>2, <1>4 DEF Receive
<1>5. ASSUME NEW status, NEW result, Settle(status, result),
             result # Null => result.answers = answers
      PROVE  /\ AnswersFaithful(answers')
             /\ shown' # Null => AnswersFaithful(shown'.answers)
  BY <1>5 DEF Settle, FaithfulInv, AnswersFaithful
<1>6. CASE BeginTile
  BY <1>2, <1>5, <1>6 DEF BeginTile
<1>7. CASE Conclude
  <2> DEFINE result == [tile |-> tile, answers |-> answers,
                        merged |-> MergeResults(Arrived, Plan, TheTile, "monday")]
  <2>1. \/ Settle("unavailable", Null)
        \/ Settle(TileStatus(Arrived, Plan.subQueries), result)
    BY <1>7 DEF Conclude
  <2>2. result.answers = answers
    OBVIOUS
  <2> HIDE DEF result
  <2> QED
    BY <1>5, <2>1, <2>2
<1>8. CASE Finish
  BY <1>2, <1>8 DEF Finish
<1>9. ASSUME NEW q \in pending, AnswerQuery(q)
      PROVE  /\ AnswersFaithful(answers')
             /\ shown' # Null => AnswersFaithful(shown'.answers)
  <2> DEFINE answer == SourceAnswer(q.sourceId, q)
  <2>1. Answering(q) /\ Receives(q, answer, {})
    BY <1>9 DEF AnswerQuery
  <2>2. Faithful(answer, q)
    BY <2>1, PendingAsks, SourceIsFaithful DEF FaithfulInv
  <2>3. AnswersFaithful(answers')
    BY <2>1, <2>2, ReceivedFaithfully
  <2> QED
    BY <2>1, <2>3 DEF Receives, FaithfulInv
<1>10. ASSUME NEW q \in pending, ReadCubes(q)
       PROVE  /\ AnswersFaithful(answers')
              /\ shown' # Null => AnswersFaithful(shown'.answers)
  <2> DEFINE answer == CtNativeAnswer(q, Partitions, Cohort, seen.watermark)
  <2>1. Answering(q) /\ Receives(q, answer, Vouched(seen)) /\ FromCubes(q)
    BY <1>10 DEF ReadCubes
  <2>2. Faithful(answer, q)
    BY <2>1, PendingAsks, CubesAreFaithful DEF FaithfulInv
  <2>3. AnswersFaithful(answers')
    BY <2>1, <2>2, ReceivedFaithfully
  <2> QED
    BY <2>1, <2>3 DEF Receives, FaithfulInv
<1>11. ASSUME NEW q \in pending, ReadWatermark(q) \/ LoseQuery(q)
       PROVE  /\ AnswersFaithful(answers')
              /\ shown' # Null => AnswersFaithful(shown'.answers)
  BY <1>2, <1>11 DEF ReadWatermark, LoseQuery
<1>12. CASE UNCHANGED vars
  BY <1>2, <1>12 DEF vars
<1> QED
  BY <1>3, <1>4, <1>6, <1>7, <1>8, <1>9, <1>10, <1>11, <1>12 DEF Next, Run

(* The answers to few queries are few, and no two of those that arrived    *)
(* have a metric in common.                                                *)
LEMMA FewAnswers ==
  ASSUME NEW some, NEW queries, IsFiniteSet(queries), AnswersTo(some, queries)
  PROVE  IsFiniteSet(some)
<1> DEFINE to == [q \in queries |-> CHOOSE a \in some : a.query = q]
<1>1. \A a \in some : a.query \in queries /\ a = to[a.query]
  BY DEF AnswersTo
<1> HIDE DEF to
<1> QED
  BY <1>1, MadeOfFew

LEMMA ArrivedAreMergeable ==
  ASSUME NEW some, NEW plan, Asked(plan), AnswersTo(some, plan.subQueries),
         AnswersFaithful(some)
  PROVE  /\ IsFiniteSet(some) /\ Mergeable(ArrivedOf(some))
         /\ \A a \in some : a.answer.error = Null =>
              /\ a.answer \in ArrivedOf(some) /\ a.answer.metrics = a.query.metrics
         /\ \A b \in ArrivedOf(some) :
              \E a \in some : b = a.answer /\ a.answer.error = Null
<1> DEFINE of == [a \in some |-> a.answer]
           arrived == ArrivedOf(some)
<1>1. IsFiniteSet(some)
  BY FewAnswers DEF Asked
<1>2. /\ \A b \in arrived : \E a \in some : b = of[a] /\ a.answer.error = Null
      /\ \A a \in some : a.answer.error = Null => a.answer \in arrived
  BY DEF ArrivedOf
<1>3. \A a \in some : of[a] = a.answer
  OBVIOUS
<1> HIDE DEF of, arrived
<1>4. IsFiniteSet(arrived)
  BY <1>1, <1>2, MadeOfFew
<1>5. ASSUME NEW b \in arrived
      PROVE  IsFiniteSet(b.rows) /\ \A r \in b.rows : DOMAIN r.m = b.metrics
  BY <1>2, <1>3 DEF AnswersFaithful, Faithful, Reported
<1>6. ASSUME NEW b \in arrived, NEW c \in arrived, NEW m \in b.metrics, m \in c.metrics
      PROVE  b = c
  <2>1. PICK x \in some : b = x.answer /\ x.answer.error = Null
    BY <1>2, <1>3
  <2>2. PICK y \in some : c = y.answer /\ y.answer.error = Null
    BY <1>2, <1>3
  <2>3. m \in x.query.metrics /\ m \in y.query.metrics
    BY <1>6, <2>1, <2>2 DEF AnswersFaithful, Faithful
  <2>4. x.query = y.query
    BY <2>3 DEF Asked, AnswersTo
  <2> QED
    BY <2>1, <2>2, <2>4 DEF AnswersTo
<1>7. Mergeable(arrived)
  BY <1>4, <1>5, <1>6 DEF Mergeable
<1> QED
  BY <1>1, <1>2, <1>3, <1>7 DEF arrived, AnswersFaithful, Faithful

(* A metric is in the figures of one answer, or of none.                   *)
LEMMA OneAnswerHasIt ==
  ASSUME NEW some, NEW plan, Asked(plan), AnswersTo(some, plan.subQueries),
         AnswersFaithful(some), NEW m, AddsUp(m), NEW joinKey
  PROVE  AddUpTo(FullOuterJoin(ArrivedOf(some), joinKey), m,
                 SumFunction([a \in some |-> Figures(a.answer.rows, m)]))
<1> DEFINE arrived == ArrivedOf(some)
           f == [a \in some |-> Figures(a.answer.rows, m)]
           Has(a) == a.answer.error = Null /\ m \in a.query.metrics
<1>1. /\ IsFiniteSet(some) /\ Mergeable(arrived)
      /\ \A a \in some : a.answer.error = Null =>
           a.answer \in arrived /\ a.answer.metrics = a.query.metrics
      /\ \A b \in arrived : \E a \in some : b = a.answer /\ a.answer.error = Null
  BY ArrivedAreMergeable
<1>2. SumFunction(f) = SumFunctionOnSet(f, some)
  BY DEF SumFunction, FoldFunction, SumFunctionOnSet
<1>3. ASSUME NEW a \in some, ~Has(a) PROVE f[a] = 0
  <2> DEFINE rows == a.answer.rows
  <2>1. \A r \in rows : Figure(r, m) = Null
    BY <1>3 DEF AnswersFaithful, Faithful, Reported, Figure
  <2>2. SumOf(rows, m) = Null
    BY <2>1 DEF SumOf, Having
  <2>3. f[a] = Figures(rows, m)
    OBVIOUS
  <2> HIDE DEF f, rows
  <2> QED
    BY <2>2, <2>3 DEF Figures, OrZero
<1>4. Aggregation(m) # "avg"
  BY MergeAssumption DEF AddsUp, IsBase, Known
<1>5. CASE \E a \in some : Has(a)
  <2>1. PICK a \in some : Has(a)
    BY <1>5
  <2> DEFINE rows == a.answer.rows
  <2>2. Countable(rows, m)
    BY <2>1 DEF AnswersFaithful, Faithful, Reported, Countable, Figure
  <2>3. f[a] = Tot(rows, m) /\ Tot(rows, m) \in Int
    BY <2>2, FiguresAdd
  <2>4. \A b \in some \ {a} : f[b] = 0
    <3>1. ASSUME NEW b \in some, Has(b) PROVE b = a
      BY <2>1, <3>1 DEF AnswersTo, Asked
    <3> QED
      BY <1>3, <3>1
  <2>5. AddUpTo(FullOuterJoin(arrived, joinKey), m, Tot(rows, m))
    <3>1. a.answer \in arrived /\ m \in a.answer.metrics
      BY <1>1, <2>1
    <3> QED
      BY <1>1, <1>4, <2>2, <3>1, JoinAdds
  <2> HIDE DEF f, Has, rows
  <2>6. SumFunctionOnSet(f, some \ {a}) = 0
    <3> DEFINE rest == some \ {a}
    <3>1. IsFiniteSet(rest)
      BY <1>1, FS_Subset
    <3>2. \A b \in rest : f[b] = 0
      BY <2>4
    <3> HIDE DEF rest
    <3>3. SumFunctionOnSet(f, rest) = 0
      BY <3>1, <3>2, SumOfZeroes
    <3> QED
      BY <3>3 DEF rest
  <2>7. \A b \in some : f[b] \in Int
    BY <2>3, <2>4
  <2>8. SumFunctionOnSet(f, some) = f[a] + SumFunctionOnSet(f, some \ {a})
    BY <1>1, <2>7, SumTakesOne
  <2>9. SumFunction(f) = Tot(rows, m)
    BY <1>2, <2>3, <2>6, <2>8
  <2> QED
    BY <2>5, <2>9 DEF f
<1>6. CASE \A a \in some : ~Has(a)
  <2>1. \A b \in arrived : m \notin b.metrics
    BY <1>1, <1>6
  <2>2. AddUpTo(FullOuterJoin(arrived, joinKey), m, 0)
    BY <1>1, <2>1, JoinOmits
  <2>3. \A a \in some : f[a] = 0
    BY <1>3, <1>6
  <2> HIDE DEF f
  <2>4. SumFunction(f) = 0
    BY <1>1, <1>2, <2>3, SumOfZeroes
  <2> QED
    BY <2>2, <2>4 DEF f
<1> QED
  BY <1>5, <1>6

(* What is rolled up has a day.                                            *)
LEMMA JoinedAreDated ==
  ASSUME NEW some, NEW plan, Asked(plan), AnswersTo(some, plan.subQueries),
         AnswersFaithful(some), NEW m, AddsUp(m), AddsUpOverTime(m),
         plan.effectiveGrain # Null, NEW joinKey, "date" \in joinKey
  PROVE  \A t \in FullOuterJoin(ArrivedOf(some), joinKey) :
           Figure(t, m) # Null => t.k["date"] # Null
<1> DEFINE arrived == ArrivedOf(some)
           joined == FullOuterJoin(arrived, joinKey)
<1>1. /\ Mergeable(arrived)
      /\ \A a \in some : a.answer.error = Null =>
           a.answer \in arrived /\ a.answer.metrics = a.query.metrics
      /\ \A b \in arrived : \E a \in some : b = a.answer /\ a.answer.error = Null
  BY ArrivedAreMergeable
<1> SUFFICES ASSUME NEW t \in joined, Figure(t, m) # Null
             PROVE  t.k["date"] # Null
  OBVIOUS
<1>2. m \in DOMAIN t.m
  BY DEF Figure
<1>3. PICK b \in arrived : m \in b.metrics
  BY <1>1, <1>2, JoinedAt
<1>4. PICK a \in some : b = a.answer /\ a.answer.error = Null
  BY <1>1
<1>5. /\ m \in a.query.metrics /\ Faithful(a.answer, a.query)
      /\ a.query \in plan.subQueries
  BY <1>1, <1>3, <1>4 DEF AnswersFaithful, AnswersTo
<1>6. DatedRows(b.rows)
  <2>1. CASE a.query.grain = plan.effectiveGrain
    BY <1>4, <1>5, <2>1 DEF Faithful
  <2>2. CASE /\ a.query.timeRange = Null
             /\ Descriptors[a.query.sourceId].metrics[m].execution = "live"
    <3>1. /\ a.query.sourceId \in DOMAIN Descriptors
          /\ m \in DOMAIN Descriptors[a.query.sourceId].metrics
          /\ a.query.sourceId # "ga4"
      BY <1>4, <1>5, <2>2 DEF Faithful
    <3> QED
      BY <2>2, <3>1, DescriptorAssumption DEF AddsUpOverTime
  <2> QED
    BY <1>5, <2>1, <2>2 DEF Asked
<1>7. Countable(b.rows, m)
  BY <1>4, <1>5 DEF Faithful, Reported, Countable, Figure
<1>8. Aggregation(m) # "avg"
  BY MergeAssumption DEF AddsUp, IsBase, Known
<1>9. Figure(t, m) = SumOf(AtKey(b.rows, joinKey, t.k), m)
  BY <1>1, <1>3, <1>7, <1>8, JoinedAt
<1>10. PICK r \in AtKey(b.rows, joinKey, t.k) : TRUE
  BY <1>9 DEF SumOf, Having
<1>11. r \in b.rows /\ t.k = KeyFor(r.k, joinKey)
  BY <1>10 DEF AtKey
<1>12. t.k["date"] = Value(r.k, "date")
  BY <1>11 DEF KeyFor
<1> QED
  BY <1>6, <1>11, <1>12 DEF DatedRows

(* Whatever the sources hold and answer, and whichever of them answer: a   *)
(* figure that adds up has the same sum over the rows a tile shows as over *)
(* the answers it was merged from, through the join, the rolling up, the   *)
(* formulas and a top N with its rest, unless rows are cut.                *)
THEOREM MergingConserves == Spec => []MergeConserves
<1>1. FaithfulInv => MergeConserves
  <2> SUFFICES ASSUME FaithfulInv, shown # Null PROVE MergeConserves
    BY DEF MergeConserves
  <2> DEFINE plan == plans[shown.tile]
             shape == TheReport.tiles[shown.tile]
             some == shown.answers
             joined == FullOuterJoin(ArrivedOf(some), plan.joinKey)
             merged == MergeResults(ArrivedOf(some), plan, shape, "monday").rows
             Whole == /\ shape.limit = Null
                      /\ shape.topN # Null =>
                           shape.topN.otherBucket /\ AddsUp(shape.topN.by)
             RolledUp == NeedsRollUp(plan.effectiveGrain, plan.joinKey)
             Sum(m) == SumFunction([a \in some |-> Figures(a.answer.rows, m)])
  <2>1. /\ AnswersFaithful(some) /\ AnswersTo(some, plan.subQueries)
        /\ shown.merged.rows = merged
    BY DEF FaithfulInv, ScopeInv, RunInv, ShownInv
  <2>2. Asked(plan)
    <3>1. plan = PlanTile(shape, TheReport, request)
      BY DEF FaithfulInv, ScopeInv, RunInv, PlansInv, ShownInv, PlanReport
    <3> QED
      BY <3>1, TilesAsk
  <2>3. ASSUME NEW m \in plan.baseMetrics, Whole, AddsUp(m),
               RolledUp => AddsUpOverTime(m)
        PROVE  Figures(shown.merged.rows, m) = Sum(m)
    <3> HIDE DEF plan, shape, some
    <3>1. AddUpTo(joined, m, Sum(m))
      BY <2>1, <2>2, <2>3, OneAnswerHasIt
    <3>2. m \notin plan.derived
      BY <2>2, <2>3 DEF Asked, AddsUp
    <3>3. RolledUp => /\ AddsUpOverTime(m)
                      /\ \A t \in joined : Figure(t, m) # Null => t.k["date"] # Null
      BY <2>1, <2>2, <2>3, JoinedAreDated DEF NeedsRollUp
    <3>4. Mergeable(ArrivedOf(some))
      BY <2>1, <2>2, ArrivedAreMergeable
    <3> HIDE DEF Sum
    <3>5. AddUpTo(merged, m, Sum(m))
      BY <2>3, <3>1, <3>2, <3>3, <3>4, MergeAdds
    <3>6. Figures(merged, m) = Sum(m)
      BY <3>5, FiguresAdd DEF AddUpTo
    <3> QED
      BY <2>1, <3>6
  <2> QED
    BY <2>3 DEF MergeConserves
<1> QED
  BY <1>1, InitFaithfulInv, StepFaithfulInv, PTL DEF Spec

-----------------------------------------------------------------------------
(* What is kept of the figures of some of the rows, chosen by their keys   *)

LEMMA SomeKeysAreFew ==
  ASSUME NEW rows, NEW K, NEW x, Countable(rows, x)
  PROVE  WithKeys(rows, K) \in SUBSET rows /\ Countable(WithKeys(rows, K), x)
<1>1. WithKeys(rows, K) \in SUBSET rows
  BY DEF WithKeys
<1> QED
  BY <1>1, FS_Subset DEF Countable

(* A fold has, of any keys, the figures of the rows of those keys.         *)
LEMMA FoldKeepsKeys ==
  ASSUME NEW rows, NEW measures, NEW x \in measures, Countable(rows, x), NEW K
  PROVE  LET out == WithKeys(Fold(rows, measures), K)
         IN  Countable(out, x) /\ Tot(out, x) = Tot(WithKeys(rows, K), x)
<1> DEFINE folded == Fold(rows, measures)
           out == WithKeys(folded, K)
           some == WithKeys(rows, K)
           group == [c \in out |-> Part(rows, c.k)]
<1>1. /\ \A c \in folded :
           c = Row(c.k, c.k, [y \in measures |-> SumOf(Part(rows, c.k), y)])
      /\ \A r \in rows : \E c \in folded : c.k = r.k
  BY CellsOfFold
<1>2. Countable(folded, x)
  BY FoldAdds
<1> HIDE DEF folded
<1>3. Countable(out, x) /\ Countable(some, x) /\ out \subseteq folded
  BY <1>2, SomeKeysAreFew
<1>4. \A c, e \in out : c.k = e.k => c = e
  BY <1>1, <1>3
<1>5. \A c \in out : FigureOr0(c, x) = Figures(group[c], x)
  <2> SUFFICES ASSUME NEW c \in out PROVE FigureOr0(c, x) = Figures(group[c], x)
    OBVIOUS
  <2>1. c.m = [y \in measures |-> SumOf(Part(rows, c.k), y)]
    BY <1>1, <1>3 DEF Row
  <2> QED
    BY <2>1 DEF Figure, FigureOr0, Figures
<1>6. \A c \in out : group[c] \subseteq some /\ \A r \in group[c] : r.k = c.k
  BY DEF Part, WithKeys
<1>7. \A r \in some : \E c \in out : r \in group[c]
  <2> SUFFICES ASSUME NEW r \in some PROVE \E c \in out : r \in group[c]
    OBVIOUS
  <2>1. r \in rows /\ r.k \in K
    BY DEF WithKeys
  <2>2. PICK c \in folded : c.k = r.k
    BY <1>1, <2>1
  <2>3. c \in out
    BY <2>1, <2>2 DEF WithKeys
  <2>4. r \in Part(rows, c.k)
    BY <2>1, <2>2 DEF Part
  <2> HIDE DEF out
  <2> QED
    BY <2>3, <2>4
<1>8. \A c, e \in out : \A r \in some : r \in group[c] /\ r \in group[e] => c = e
  BY <1>4, <1>6
<1>9. IsFiniteSet(out)
  BY <1>3 DEF Countable
<1> HIDE DEF out, some, group
<1>10. Tot(out, x) = Tot(some, x)
  BY <1>3, <1>5, <1>6, <1>7, <1>8, <1>9, Regrouped
<1> QED
  BY <1>3, <1>10 DEF out, some, folded

(* Rows without a figure can be left away.                                 *)
LEMMA TotOfFigured ==
  ASSUME NEW rows, NEW m, Countable(rows, m), NEW A \in SUBSET rows,
         \A r \in rows \ A : Figure(r, m) = Null
  PROVE  Countable(A, m) /\ Tot(A, m) = Tot(rows, m)
<1>1. /\ Countable(A, m) /\ Countable(rows \ A, m)
      /\ Tot(rows, m) = Tot(A, m) + Tot(rows \ A, m)
  BY TotOfSome
<1>2. Tot(rows \ A, m) = 0
  <2>1. IsFiniteSet(rows \ A)
    BY <1>1 DEF Countable
  <2> QED
    BY <2>1, NoFigures DEF AddUpTo
<1>3. Tot(A, m) \in Int
  BY <1>1, FiguresAdd
<1> QED
  BY <1>1, <1>2, <1>3

(* The n largest and the sums of the rest have the figures of all.         *)
LEMMA ResidualAdds ==
  ASSUME NEW cells, Numeric(cells), NEW measure, NEW n, NEW x \in ItemMeasures,
         \A c \in cells : c.k.product # OTHER_BUCKET
  PROVE  LET out == TopNWithResidual(cells, measure, n)
         IN  Countable(out, x) /\ Tot(out, x) = Tot(cells, x)
<1> DEFINE head == Largest(cells, measure, n)
           first == (CHOOSE c \in cells : TRUE).k
           k == [currency |-> first.currency, store |-> first.store,
                 product |-> OTHER_BUCKET]
           rest == Row(k, k, [y \in ItemMeasures |-> SumOf(cells \ head, y)])
           out == TopNWithResidual(cells, measure, n)
<1>1. out \in {cells, head \cup {rest}}
  BY DEF TopNWithResidual
<1>2. head \in SUBSET cells
  BY LargestAreRows
<1>3. rest.m = [y \in ItemMeasures |-> SumOf(cells \ head, y)]
      /\ rest.k.product = OTHER_BUCKET
  BY DEF Row
<1>4. Countable(cells, x)
  BY NumericIsCountable
<1> HIDE DEF head, rest, out
<1>5. /\ Countable(head, x) /\ Countable(cells \ head, x)
      /\ Tot(cells, x) = Tot(head, x) + Tot(cells \ head, x)
  BY <1>2, <1>4, TotOfSome
<1>6. Figure(rest, x) = SumOf(cells \ head, x)
  BY <1>3 DEF Figure
<1>7. /\ FigureOr0(rest, x) = Tot(cells \ head, x)
      /\ Figure(rest, x) \in Int \cup {Null}
  BY <1>5, <1>6, FiguresAdd DEF FigureOr0, Figures
<1>8. rest \notin head
  BY <1>2, <1>3
<1>9. Countable({rest}, x) /\ Tot({rest}, x) = FigureOr0(rest, x)
  BY <1>7, TotOfOne, FiguresAdd
<1> DEFINE both == head \cup {rest}
<1>10. Countable(both, x)
  <2>1. IsFiniteSet(both)
    BY <1>5, FS_AddElement DEF Countable
  <2> QED
    BY <1>5, <1>7, <2>1 DEF Countable
<1>11. Tot(both, x) = Tot(head, x) + Tot(both \ head, x)
  <2>1. head \in SUBSET both
    OBVIOUS
  <2> HIDE DEF both
  <2> QED
    BY <1>10, <2>1, TotOfSome
<1>12. both \ head = {rest}
  BY <1>8
<1>13. Tot(both, x) = Tot(cells, x)
  BY <1>5, <1>7, <1>9, <1>11, <1>12
<1> QED
  BY <1>1, <1>4, <1>10, <1>13 DEF out

LEMMA PartsAreSame ==
  ASSUME NEW D, NEW at, NEW of, NEW m, NEW n, NEW rows, NEW out,
         SharedOut(D, at, rows, m), SharedOut(D, of, out, n),
         \A d \in D : Tot(of[d], n) = Tot(at[d], m)
  PROVE  Countable(rows, m) /\ Countable(out, n) /\ Tot(out, n) = Tot(rows, m)
<1>1. /\ Countable(rows, m)
      /\ Tot(rows, m) = SumFunctionOnSet([d \in D |-> Tot(at[d], m)], D)
  BY SharedAdds
<1>2. /\ Countable(out, n)
      /\ Tot(out, n) = SumFunctionOnSet([d \in D |-> Tot(of[d], n)], D)
  BY SharedAdds
<1>3. [d \in D |-> Tot(at[d], m)] = [d \in D |-> Tot(of[d], n)]
  OBVIOUS
<1> QED
  BY <1>1, <1>2, <1>3

(* The top N of the items of a store, with the residual, are of the store. *)
LEMMA ResidualIsOfStore ==
  ASSUME NEW cells, NEW s, \A c \in cells : c.k.store = s, cells # {},
         NEW measure, NEW n, NEW t \in TopNWithResidual(cells, measure, n)
  PROVE  t.k.store = s
<1> DEFINE head == Largest(cells, measure, n)
           first == (CHOOSE c \in cells : TRUE).k
           k == [currency |-> first.currency, store |-> first.store,
                 product |-> OTHER_BUCKET]
           rest == Row(k, k, [y \in ItemMeasures |-> SumOf(cells \ head, y)])
<1>1. TopNWithResidual(cells, measure, n) \in {cells, head \cup {rest}}
  BY DEF TopNWithResidual
<1>2. head \in SUBSET cells
  BY LargestAreRows
<1>3. first.store = s
  OBVIOUS
<1>4. rest.k.store = s
  BY <1>3 DEF Row
<1> HIDE DEF head, rest
<1> QED
  BY <1>1, <1>2, <1>4

(* The stores have among them the figures of all their items.              *)
LEMMA TopItemsKeepStores ==
  ASSUME NEW cells, Numeric(cells), NEW n, NEW x \in ItemMeasures,
         \A c \in cells : c.k.product # OTHER_BUCKET, NEW K,
         NEW all, all = TopItems(cells, n),
         \A c \in cells : \A t \in cells \cup all :
           c.k.store = t.k.store => (c.k \in K <=> t.k \in K)
  PROVE  /\ Countable(WithKeys(all, K), x)
         /\ Tot(WithKeys(all, K), x) = Tot(WithKeys(cells, K), x)
<1> DEFINE key == [c \in cells |-> c.k.store]
           At(s) == {c \in cells : key[c] = s}
           ks == Range(key)
           groups == {At(s) : s \in ks}
           TopOf(g) == TopNWithResidual(g, "revenueNet", n)
           some == WithKeys(cells, K)
           D == {c.k.store : c \in some}
           at == [s \in D |-> At(s)]
           of == [s \in D |-> TopOf(At(s))]
           out == WithKeys(all, K)
<1>1. all = UNION {TopOf(g) : g \in groups}
  BY DEF TopItems, GroupsBy
<1>2. \A t : t \in all <=> \E s \in ks : t \in TopOf(At(s))
  <2>1. \A t : t \in all <=> \E g \in groups : t \in TopOf(g)
    <3> HIDE DEF TopOf, groups
    <3> QED
      BY <1>1
  <2>2. \A g : g \in groups <=> \E s \in ks : g = At(s)
    <3> HIDE DEF At, ks
    <3> QED
      OBVIOUS
  <2> HIDE DEF TopOf, groups, At, ks
  <2> QED
    BY <2>1, <2>2
<1>3. \A s : At(s) \in SUBSET cells /\ \A c \in At(s) : c.k.store = s
  OBVIOUS
<1>4. \A c \in cells : c \in At(c.k.store) /\ c.k.store \in ks
  BY DEF Range
<1>5. \A s \in ks : At(s) # {}
  BY DEF Range
<1>6. some \in SUBSET cells /\ D \subseteq ks
  BY <1>4 DEF WithKeys
<1>7. IsFiniteSet(D)
  <2> DEFINE h == [c \in some |-> c.k.store]
  <2>1. h \in [some -> D] /\ \A s \in D : \E c \in some : h[c] = s
    OBVIOUS
  <2>2. IsFiniteSet(some)
    BY <1>6, FS_Subset DEF Numeric
  <2> HIDE DEF h, some, D
  <2> QED
    BY <2>1, <2>2, FewValues
<1>8. \A s \in D : \E c \in cells : c.k.store = s /\ c.k \in K
  BY DEF WithKeys
<1> HIDE DEF key, At, ks, groups
<1>9. \A s \in ks : /\ Numeric(At(s))
                    /\ \A t \in TopOf(At(s)) : t.k.store = s /\ t \in all
                    /\ Countable(TopOf(At(s)), x)
                    /\ Tot(TopOf(At(s)), x) = Tot(At(s), x)
  <2> SUFFICES ASSUME NEW s \in ks
               PROVE  /\ Numeric(At(s))
                      /\ \A t \in TopOf(At(s)) : t.k.store = s /\ t \in all
                      /\ Countable(TopOf(At(s)), x)
                      /\ Tot(TopOf(At(s)), x) = Tot(At(s), x)
    OBVIOUS
  <2> DEFINE g == At(s)
  <2>1. Numeric(g) /\ g # {} /\ \A c \in g : c.k.store = s /\ c.k.product # OTHER_BUCKET
    BY <1>3, <1>5, FewerAreNumeric
  <2>2. \A t \in TopOf(g) : t \in all
    BY <1>2
  <2> HIDE DEF g
  <2>3. \A t \in TopNWithResidual(g, "revenueNet", n) : t.k.store = s
    BY <2>1, ResidualIsOfStore
  <2>4. /\ Countable(TopNWithResidual(g, "revenueNet", n), x)
        /\ Tot(TopNWithResidual(g, "revenueNet", n), x) = Tot(g, x)
    BY <2>1, ResidualAdds
  <2> QED
    BY <2>1, <2>2, <2>3, <2>4 DEF g
<1> HIDE DEF TopOf
<1>10. \A c \in some : \E s \in D : c \in at[s]
  BY <1>4, <1>6
<1>11. \A s \in D : at[s] \subseteq some
  BY <1>3, <1>6, <1>8 DEF WithKeys
<1>12. \A t \in out : \E s \in D : t \in of[s]
  <2> SUFFICES ASSUME NEW t \in out PROVE \E s \in D : t \in of[s]
    OBVIOUS
  <2>1. t \in all /\ t.k \in K
    BY DEF WithKeys
  <2>2. PICK s \in ks : t \in TopOf(At(s))
    BY <1>2, <2>1
  <2>3. t.k.store = s
    BY <1>9, <2>2
  <2>4. PICK c \in At(s) : c \in cells /\ c.k.store = s
    BY <1>3, <1>5
  <2>5. c.k \in K
    BY <2>1, <2>3, <2>4
  <2>6. s \in D
    BY <2>4, <2>5 DEF WithKeys
  <2> QED
    BY <2>2, <2>6
<1>13. \A s \in D : of[s] \subseteq out
  <2> SUFFICES ASSUME NEW s \in D, NEW t \in of[s] PROVE t \in out
    OBVIOUS
  <2>1. t.k.store = s /\ t \in all
    BY <1>6, <1>9
  <2>2. PICK c \in cells : c.k.store = s /\ c.k \in K
    BY <1>8
  <2>3. t.k \in K
    BY <2>1, <2>2
  <2> QED
    BY <2>1, <2>3 DEF WithKeys
<1>14. /\ \A s, u \in D : \A c \in at[s] : c \in at[u] => s = u
       /\ \A s, u \in D : \A t \in of[s] : t \in of[u] => s = u
  BY <1>3, <1>6, <1>9
<1>15. /\ \A s \in D : Countable(at[s], x)
       /\ \A s \in D : Countable(of[s], x)
       /\ \A s \in D : Tot(of[s], x) = Tot(at[s], x)
  BY <1>6, <1>9, NumericIsCountable
<1> HIDE DEF at, of, D, some, out
<1>16. SharedOut(D, at, some, x)
  BY <1>7, <1>10, <1>11, <1>14, <1>15 DEF SharedOut
<1>17. SharedOut(D, of, out, x)
  BY <1>7, <1>12, <1>13, <1>14, <1>15 DEF SharedOut
<1>18. Countable(out, x) /\ Tot(out, x) = Tot(some, x)
  BY <1>15, <1>16, <1>17, PartsAreSame
<1> QED
  BY <1>18 DEF some, out

-----------------------------------------------------------------------------
(* What a query asks of the cells of a day, and what it is due             *)

LEMMA AlikePass ==
  ASSUME NEW q, NEW k, NEW j, Alike(k, j, FilterDims(q))
  PROVE  Passes(k, Allowed(q)) <=> Passes(j, Allowed(q))
  BY DEF Alike, FilterDims, Passes
LEMMA AlikeKeys ==
  ASSUME NEW k, NEW j, NEW columns, Alike(k, j, columns)
  PROVE  KeyFor(k, columns) = KeyFor(j, columns)
  BY DEF Alike, KeyFor

LEMMA ChosenOfFold ==
  ASSUME NEW rows, NEW measures, NEW x \in measures, Countable(rows, x),
         NEW q, NEW d, NEW columns, NEW key
  PROVE  LET out == Chosen(Fold(rows, measures), q, d, columns, key)
         IN  /\ Countable(out, x)
             /\ Tot(out, x) = Tot(Chosen(rows, q, d, columns, key), x)
<1> DEFINE cells == Fold(rows, measures)
           keys == {r.k : r \in rows \cup cells}
           Is(k) == /\ Passes(k, Allowed(q))
                    /\ KeyFor(DatedKey(k, d), columns) = key
           K == {k \in keys : Is(k)}
<1>1. \A A \in SUBSET (rows \cup cells) :
        Chosen(A, q, d, columns, key) = WithKeys(A, K)
  <2> TAKE A \in SUBSET (rows \cup cells)
  <2>1. Chosen(A, q, d, columns, key) = {r \in A : Is(r.k)}
    BY DEF Chosen
  <2>2. \A r \in A : r.k \in K <=> Is(r.k)
    <3> HIDE DEF Is, cells
    <3> QED
      OBVIOUS
  <2> HIDE DEF Is, K
  <2> QED
    BY <2>1, <2>2 DEF WithKeys
<1> HIDE DEF K, cells
<1>2. /\ Chosen(cells, q, d, columns, key) = WithKeys(cells, K)
      /\ Chosen(rows, q, d, columns, key) = WithKeys(rows, K)
  BY <1>1
<1>3. /\ Countable(WithKeys(cells, K), x)
      /\ Tot(WithKeys(cells, K), x) = Tot(WithKeys(rows, K), x)
  BY FoldKeepsKeys DEF cells
<1> QED
  BY <1>2, <1>3 DEF cells

LEMMA TotOfMade ==
  ASSUME NEW A, IsFiniteSet(A), NEW row, NEW rows, NEW m, Makes(A, row, rows, m)
  PROVE  /\ Countable(rows, m)
         /\ Tot(rows, m) = SumFunctionOnSet([o \in A |-> FigureOr0(row[o], m)], A)
<1> DEFINE to == [o \in A |-> row[o]]
           f == [o \in A |-> FigureOr0(row[o], m)]
           h == [r \in rows |-> FigureOr0(r, m)]
<1>1. /\ to \in [A -> rows] /\ \A r \in rows : \E o \in A : to[o] = r
      /\ \A o, p \in A : to[o] = to[p] => o = p
  BY DEF Makes
<1>2. \A o \in A : f[o] \in Int /\ h[to[o]] = f[o]
  BY NullAssumption DEF FigureOr0, OrZero, Makes
<1>3. Tot(rows, m) = SumFunctionOnSet(h, rows)
  BY DEF Tot
<1> HIDE DEF f, h, to
<1>4. SumFunctionOnSet(h, rows) = SumFunctionOnSet(f, A)
  BY <1>1, <1>2, SumRenamed
<1>5. IsFiniteSet(rows)
  BY <1>1, FewValues
<1>6. Countable(rows, m)
  BY <1>5 DEF Countable, Makes
<1> QED
  BY <1>3, <1>4, <1>6 DEF f

(* So do rows made of the same things with the same figures, also when     *)
(* some of those without a figure are missing.                             *)
LEMMA MadeOfTheSame ==
  ASSUME NEW A, IsFiniteSet(A), NEW B \in SUBSET A,
         NEW row, NEW rows, NEW x, Makes(B, row, rows, x),
         NEW due, NEW dues, NEW m, Makes(A, due, dues, m),
         \A o \in B : FigureOr0(row[o], x) = FigureOr0(due[o], m),
         \A o \in A \ B : FigureOr0(due[o], m) = 0
  PROVE  /\ Countable(rows, x) /\ Countable(dues, m)
         /\ Tot(rows, x) = Tot(dues, m)
<1> DEFINE f == [o \in A |-> FigureOr0(due[o], m)]
           g == [o \in B |-> FigureOr0(row[o], x)]
<1>1. Countable(dues, m) /\ Tot(dues, m) = SumFunctionOnSet(f, A)
  BY TotOfMade
<1>2. IsFiniteSet(B) /\ IsFiniteSet(A \ B)
  BY FS_Subset
<1>3. Countable(rows, x) /\ Tot(rows, x) = SumFunctionOnSet(g, B)
  BY <1>2, TotOfMade
<1>4. /\ \A o \in A : f[o] \in Int
      /\ \A o \in B : f[o] = g[o]
      /\ \A o \in A \ B : f[o] = 0
  BY NullAssumption DEF FigureOr0, OrZero, Makes
<1> HIDE DEF f, g
<1>5. SumFunctionOnSet(f, B) = SumFunctionOnSet(g, B)
  BY <1>2, <1>4, SumIsSame
<1>6. SumFunctionOnSet(f, A \ B) = 0
  BY <1>2, <1>4, SumOfZeroes
<1>7. SumFunctionOnSet(f, B \cup (A \ B))
        = SumFunctionOnSet(f, B) + SumFunctionOnSet(f, A \ B)
  <2>1. B \cap (A \ B) = {} /\ \A o \in B \cup (A \ B) : f[o] \in Int
    BY <1>4
  <2> QED
    BY <1>2, <2>1, SumOfTwo
<1>8. SumFunctionOnSet(f, A) = SumFunctionOnSet(f, B \cup (A \ B))
  <2>1. B \cup (A \ B) = A
    OBVIOUS
  <2> QED
    BY <2>1, Zenon
<1>9. SumFunctionOnSet(f, B) \in Int
  BY <1>2, <1>4, SumSplits
<1> QED
  BY <1>1, <1>3, <1>5, <1>6, <1>7, <1>8, <1>9

LEMMA DueOfOrders ==
  ASSUME NEW S \in SUBSET DOMAIN Orders, NEW q, ~SplitsItems(q)
  PROVE  \A t : t \in DueRows(q, S) <=>
           (IsAsked(q, t) /\ \E o \in S : t = DueOrder(q, S, o))
<1> DEFINE first == FirstOf(S)
           facts == FactsOf(S)
           Of(f) == Row(f.orderId, OrderKey(f, first),
                        [m \in q.metrics |->
                           DueOfOrder(f, first, MEASURE_BY_METRIC[m])])
           rows == {Of(f) : f \in facts}
<1>1. DueRows(q, S) = {r \in rows : IsAsked(q, r)}
  BY DEF DueRows, IsAsked
<1>2. \A o \in S : Fact[o].orderId = o
  BY FactOfOrder
<1>3. \A o \in S : Of(Fact[o]) = DueOrder(q, S, o)
  BY <1>2 DEF DueOrder
<1> HIDE DEF Of
<1>4. \A t : t \in rows <=> \E o \in S : t = DueOrder(q, S, o)
  BY <1>3 DEF FactsOf
<1> HIDE DEF rows
<1> QED
  BY <1>1, <1>4

LEMMA DueOfItems ==
  ASSUME NEW S \in SUBSET DOMAIN Orders, NEW q, SplitsItems(q)
  PROVE  \A t : t \in DueRows(q, S) <=>
           (/\ IsAsked(q, t)
            /\ \E o \in S : \E i \in Fact[o].items : t = DueItem(q, S, o, i))
<1> DEFINE first == FirstOf(S)
           facts == FactsOf(S)
           Of(f, i) == Row(<<f.orderId, i.line>>, ItemKey(f, i, first),
                           [m \in q.metrics |-> i[MEASURE_BY_METRIC[m]]])
           rows == UNION {{Of(f, i) : i \in f.items} : f \in facts}
<1>1. DueRows(q, S) = {r \in rows : IsAsked(q, r)}
  BY DEF DueRows, IsAsked
<1>2. \A o \in S : Fact[o].orderId = o
  BY FactOfOrder
<1>3. \A o \in S : \A i \in Fact[o].items : Of(Fact[o], i) = DueItem(q, S, o, i)
  BY <1>2 DEF DueItem
<1>4. \A t : t \in rows <=> \E f \in facts : \E i \in f.items : t = Of(f, i)
  <2> HIDE DEF Of, facts
  <2> QED
    OBVIOUS
<1> HIDE DEF Of, rows
<1>5. \A t : t \in rows <=>
               \E o \in S : \E i \in Fact[o].items : t = DueItem(q, S, o, i)
  BY <1>3, <1>4 DEF FactsOf
<1> QED
  BY <1>1, <1>5

(* The key of an order has its day and its dimensions.                     *)
LEMMA OrderKeys ==
  ASSUME NEW o \in DOMAIN Orders, NEW first
  PROVE  LET k == OrderKey(Fact[o], first)
         IN  /\ k["date"] = Fact[o].businessDate
             /\ Value(k, "date") = Fact[o].businessDate
             /\ Value(k, "customerType") = CustomerType(Fact[o], first)
             /\ \A d \in OrderDims \cup {"discountCode", "shippingMethod", "carrier"} :
                  Value(k, d) = Fact[o].dims[d]
<1>1. DOMAIN Fact[o].dims =
        {"currency", "store", "distributionChannel", "country", "orderState",
         "paymentState", "discountCode", "shippingMethod", "carrier"}
  BY DEF Fact, ToOrderFact
<1>2. OrderKey(Fact[o], first) =
        [d \in DOMAIN Fact[o].dims \cup {"date", "customerType"} |->
           CASE d = "date" -> Fact[o].businessDate
             [] d = "customerType" -> CustomerType(Fact[o], first)
             [] OTHER -> Fact[o].dims[d]]
  BY DEF OrderKey
<1> QED
  BY <1>1, <1>2 DEF Value, OrderDims
LEMMA ItemKeys ==
  ASSUME NEW o \in DOMAIN Orders, NEW first, NEW i \in Fact[o].items
  PROVE  LET k == ItemKey(Fact[o], i, first)
         IN  /\ k["date"] = Fact[o].businessDate
             /\ Value(k, "date") = Fact[o].businessDate
             /\ Value(k, "product") = i.sku /\ Value(k, "category") = i.category
             /\ \A d \in {"currency", "store"} : Value(k, d) = Fact[o].dims[d]
<1>1. DOMAIN Fact[o].dims =
        {"currency", "store", "distributionChannel", "country", "orderState",
         "paymentState", "discountCode", "shippingMethod", "carrier"}
  BY DEF Fact, ToOrderFact
<1> DEFINE key == OrderKey(Fact[o], first)
<1>2. DOMAIN key = DOMAIN Fact[o].dims \cup {"date", "customerType"}
  BY DEF OrderKey
<1>3. /\ key["date"] = Fact[o].businessDate
      /\ \A d \in {"currency", "store"} : key[d] = Fact[o].dims[d]
  BY <1>1 DEF OrderKey
<1>4. ItemKey(Fact[o], i, first) =
        [d \in DOMAIN key \cup {"product", "category"} |->
           CASE d = "product" -> i.sku
             [] d = "category" -> i.category
             [] OTHER -> key[d]]
  BY DEF ItemKey
<1> HIDE DEF key
<1> QED
  BY <1>1, <1>2, <1>3, <1>4 DEF Value

(* What is due of a day: a row for each of the orders that are asked for.  *)
LEMMA DueOfDay ==
  ASSUME NEW S \in SUBSET DOMAIN Orders, NEW q, ~SplitsItems(q),
         NEW d \in EachDay(q.timeRange), NEW columns, NEW key
  PROVE  LET A == AskedOn(q, S, d, columns, key)
             dues == DueOn(q, S, d, columns, key)
         IN  /\ A \in SUBSET S /\ IsFiniteSet(A)
             /\ \A o \in A : DueOrder(q, S, o) \in dues
             /\ \A t \in dues : \E o \in A : t = DueOrder(q, S, o)
             /\ \A o, p \in A : DueOrder(q, S, o) = DueOrder(q, S, p) => o = p
<1> DEFINE A == AskedOn(q, S, d, columns, key)
           dues == DueOn(q, S, d, columns, key)
<1>1. A \in SUBSET S
  BY DEF AskedOn, OnDay
<1>2. IsFiniteSet(A)
  BY <1>1, FactsAreFinite, FS_Subset
<1>3. \A o \in S : /\ DueOrder(q, S, o).k = OrderKey(Fact[o], FirstOf(S))
                   /\ DueOrder(q, S, o).id = o
  BY DEF DueOrder, Row
<1>4. \A o \in S : OrderKey(Fact[o], FirstOf(S))["date"] = Fact[o].businessDate
  BY OrderKeys
<1>5. \A o \in S : o \in A <=>
        LET t == DueOrder(q, S, o)
        IN  /\ t.k["date"] = d /\ Passes(t.k, Allowed(q))
            /\ KeyFor(t.k, columns) = key
  BY <1>3, <1>4 DEF AskedOn, OnDay
<1>6. \A t : t \in dues <=>
        /\ \E o \in S : t = DueOrder(q, S, o)
        /\ t.k["date"] = d /\ Passes(t.k, Allowed(q)) /\ KeyFor(t.k, columns) = key
  <2>1. \A t : t \in DueRows(q, S) <=>
          (IsAsked(q, t) /\ \E o \in S : t = DueOrder(q, S, o))
    BY DueOfOrders
  <2>2. \A t : t \in dues <=>
          t \in DueRows(q, S) /\ t.k["date"] = d /\ KeyFor(t.k, columns) = key
    BY DEF DueOn
  <2> QED
    BY <2>1, <2>2 DEF IsAsked
<1> HIDE DEF A, dues
<1>7. \A o \in A : DueOrder(q, S, o) \in dues
  BY <1>1, <1>5, <1>6
<1>8. \A t \in dues : \E o \in A : t = DueOrder(q, S, o)
  BY <1>5, <1>6
<1>9. \A o, p \in A : DueOrder(q, S, o) = DueOrder(q, S, p) => o = p
  BY <1>1, <1>3
<1> QED
  BY <1>1, <1>2, <1>7, <1>8, <1>9 DEF A, dues

LEMMA TotalIsTotalOf ==
  ASSUME NEW I, NEW x
  PROVE  SumFunction([i \in I |-> i[x]]) = TotalOf(I, x)
<1> DEFINE f == [i \in I |-> i[x]]
<1>1. DOMAIN f = I
  OBVIOUS
<1>2. SumFunction(f) = SumFunctionOnSet(f, DOMAIN f)
  BY DEF SumFunction
<1> QED
  BY <1>1, <1>2 DEF TotalOf

(* What an order is due of the measures it has.                            *)
LEMMA DueFigures ==
  ASSUME NEW S \in SUBSET DOMAIN Orders, NEW q, NEW m \in q.metrics, NEW o \in S
  PROVE  FiguresDue(q, S, o, m, MEASURE_BY_METRIC[m])
<1> DEFINE x == MEASURE_BY_METRIC[m]
           t == DueOrder(q, S, o)
           f == Fact[o]
           cost == Total(f.items, LAMBDA i : i.cost)
           new == Truth(IsFirst(f, FirstOf(S)))
<1>1. Figure(t, m) = DueOfOrder(f, FirstOf(S), x)
  BY DEF DueOrder, Row, Figure
<1>2. DueOfOrder(f, FirstOf(S), x) =
        CASE x = "cost" -> cost
          [] x = "customersNew" -> new
          [] x \in ORDER_MEASURES -> f.measures[x]
          [] OTHER -> Null
  BY DEF DueOfOrder
<1>3. "cost" \notin ORDER_MEASURES /\ "customersNew" \notin ORDER_MEASURES
  BY DEF ORDER_MEASURES
<1>4. /\ \A y \in ORDER_MEASURES : f.measures[y] \in Int
      /\ IsFiniteSet(f.items)
      /\ \A i \in f.items : \A y \in ItemMeasures : i[y] \in Int
  BY FactIsNumeric DEF FactIn
<1>5. cost \in Int
  <2> DEFINE of == [i \in f.items |-> i.cost]
  <2>1. DOMAIN of = f.items /\ \A i \in f.items : of[i] \in Int
    BY <1>4 DEF ItemMeasures
  <2>2. cost = SumFunction(of)
    BY DEF Total
  <2> HIDE DEF of, f
  <2> QED
    BY <1>4, <2>1, <2>2, TotalIsInt
<1>6. cost = TotalOf(f.items, "cost") /\ new \in Int
  BY TotalIsTotalOf DEF Total, Truth
<1> HIDE DEF cost, new, f, t, x
<1>7. Figure(t, m) \in Int \cup {Null}
  BY <1>1, <1>2, <1>4, <1>5, <1>6
<1>8. x \in ORDER_MEASURES => Figure(t, m) = f.measures[x]
  BY <1>1, <1>2, <1>3
<1>9. x = "customersNew" => Figure(t, m) = new
  BY <1>1, <1>2, <1>3
<1>10. x = "cost" => Figure(t, m) = cost
  BY <1>1, <1>2, <1>3
<1> QED
  BY <1>1, <1>6, <1>7, <1>8, <1>9, <1>10 DEF FiguresDue, new, f, t, x

LEMMA RowsOfOrders ==
  ASSUME NEW S \in SUBSET DOMAIN Orders, NEW q, ~SplitsItems(q),
         NEW m \in q.metrics, NEW x, NEW d \in EachDay(q.timeRange),
         NEW columns, NEW key, NEW T \in SUBSET OnDay(S, d), NEW row, NEW rows,
         SaysWhatIsDue(T, row, rows, x, q, S, d, columns, m)
  PROVE  LET some == Chosen(rows, q, d, columns, key)
             dues == DueOn(q, S, d, columns, key)
         IN  /\ Countable(rows, x)
             /\ Countable(some, x) /\ Countable(dues, m) /\ Tot(some, x) = Tot(dues, m)
<1> DEFINE some == Chosen(rows, q, d, columns, key)
           dues == DueOn(q, S, d, columns, key)
           A == AskedOn(q, S, d, columns, key)
           B == A \cap T
           due == [o \in A |-> DueOrder(q, S, o)]
<1>1. /\ A \in SUBSET S /\ IsFiniteSet(A)
      /\ \A o \in A : DueOrder(q, S, o) \in dues
      /\ \A t \in dues : \E o \in A : t = DueOrder(q, S, o)
      /\ \A o, p \in A : DueOrder(q, S, o) = DueOrder(q, S, p) => o = p
  BY DueOfDay
<1>2. A \subseteq OnDay(S, d)
  BY DEF AskedOn
<1>3. \A o \in T : o \in A <=> row[o] \in some
  <2> SUFFICES ASSUME NEW o \in T PROVE o \in A <=> row[o] \in some
    OBVIOUS
  <2> DEFINE k == OrderKey(Fact[o], FirstOf(S))
             j == row[o].k
  <2>1. Alike(DatedKey(j, d), k, columns) /\ Alike(j, k, FilterDims(q))
    BY DEF SaysWhatIsDue
  <2>2. o \in A <=> Passes(k, Allowed(q)) /\ KeyFor(k, columns) = key
    BY DEF AskedOn
  <2>3. row[o] \in some <=>
          Passes(j, Allowed(q)) /\ KeyFor(DatedKey(j, d), columns) = key
    BY DEF Chosen, SaysWhatIsDue
  <2> HIDE DEF k, j, A, some
  <2>4. Passes(j, Allowed(q)) <=> Passes(k, Allowed(q))
    BY <2>1, AlikePass
  <2>5. KeyFor(DatedKey(j, d), columns) = KeyFor(k, columns)
    BY <2>1, AlikeKeys
  <2> QED
    BY <2>2, <2>3, <2>4, <2>5
<1>4. some \subseteq rows
  BY DEF Chosen
<1>5. Countable(rows, x)
  <2>1. IsFiniteSet(T)
    <3>1. T \subseteq S
      BY DEF OnDay
    <3> QED
      BY <3>1, FactsAreFinite, FS_Subset
  <2>2. IsFiniteSet(rows)
    BY <2>1, MadeOfFew DEF SaysWhatIsDue
  <2> QED
    BY <2>2 DEF Countable, SaysWhatIsDue
<1>6. \A o \in A : /\ Figure(due[o], m) \in Int \cup {Null}
                   /\ due[o] = DueOrder(q, S, o)
  BY <1>1, DueFigures DEF FiguresDue
<1> HIDE DEF some, dues, A
<1>7. Makes(B, row, some, x)
  BY <1>3, <1>4 DEF SaysWhatIsDue, Makes
<1>8. Makes(A, due, dues, m)
  BY <1>1, <1>6 DEF Makes
<1>9. /\ \A o \in B : FigureOr0(row[o], x) = FigureOr0(due[o], m)
      /\ \A o \in A \ B : FigureOr0(due[o], m) = 0
  BY <1>2, <1>6 DEF SaysWhatIsDue
<1>10. B \in SUBSET A
  OBVIOUS
<1> HIDE DEF B, due
<1>11. /\ Countable(some, x) /\ Countable(dues, m)
       /\ Tot(some, x) = Tot(dues, m)
  BY <1>1, <1>7, <1>8, <1>9, <1>10, MadeOfTheSame
<1> QED
  BY <1>5, <1>11 DEF some, dues

LEMMA OrdersAreExact ==
  ASSUME NEW S \in SUBSET DOMAIN Orders, NEW q, ~SplitsItems(q),
         NEW m \in q.metrics, NEW x, x = MEASURE_BY_METRIC[m],
         x \in ORDER_MEASURES \cup {"customersNew"},
         NEW d \in EachDay(q.timeRange), NEW columns, NEW key,
         AsksOf(q, columns, OrderDims \cup {"customerType"}),
         NEW first, first # Null, AgreeOnFirst(S, first, d, q, columns, x)
  PROVE  LET some == Chosen(FoldOrdersDaily(FactsOf(OnDay(S, d)), first),
                            q, d, columns, key)
             dues == DueOn(q, S, d, columns, key)
         IN  Countable(some, x) /\ Countable(dues, m) /\ Tot(some, x) = Tot(dues, m)
<1> DEFINE T == OnDay(S, d)
           rows == {OrderRow(f, first) : f \in FactsOf(T)}
           row == [o \in T |-> OrderRow(Fact[o], first)]
           measures == ORDER_MEASURES \cup {"customersNew"}
           dims == OrderDims \cup {"customerType"}
           dues == DueOn(q, S, d, columns, key)
<1>1. T \in SUBSET S
  BY DEF OnDay
<1>2. \A o \in T : row[o] \in rows
  BY DEF FactsOf
<1>3. \A r \in rows : \E o \in T : r = row[o]
  BY DEF FactsOf
<1>4. \A o \in T :
        /\ row[o].id = Fact[o].orderId
        /\ row[o].k = [y \in dims |-> IF y = "customerType"
                         THEN CustomerType(Fact[o], first) ELSE Fact[o].dims[y]]
        /\ row[o].m = [y \in measures |->
                         IF y # "customersNew" THEN Fact[o].measures[y]
                         ELSE IF IsFirst(Fact[o], first) THEN 1 ELSE Null]
  BY DEF OrderRow, Row
<1> HIDE DEF row, rows
<1>5. \A o \in T : /\ Fact[o].orderId = o /\ Fact[o].businessDate = d
                   /\ \A y \in ORDER_MEASURES : Fact[o].measures[y] \in Int
  BY <1>1, FactOfOrder, FactIsNumeric DEF OnDay, FactIn
<1>a. \A o \in T :
        Figure(row[o], x) = IF x # "customersNew" THEN Fact[o].measures[x]
                            ELSE IF IsFirst(Fact[o], first) THEN 1 ELSE Null
  <2>1. x \in measures
    OBVIOUS
  <2>2. \A o \in T : x \in DOMAIN row[o].m
    BY <1>4, <2>1
  <2>3. \A o \in T :
          row[o].m[x] = IF x # "customersNew" THEN Fact[o].measures[x]
                        ELSE IF IsFirst(Fact[o], first) THEN 1 ELSE Null
    BY <1>4, <2>1, ZenonT(30)
  <2> HIDE DEF measures, T
  <2> QED
    BY <2>2, <2>3 DEF Figure
<1>6. \A o \in T : row[o].id = o /\ Figure(row[o], x) \in Int \cup {Null}
  <2> SUFFICES ASSUME NEW o \in T
               PROVE  row[o].id = o /\ Figure(row[o], x) \in Int \cup {Null}
    OBVIOUS
  <2>1. Figure(row[o], x) = IF x # "customersNew" THEN Fact[o].measures[x]
                            ELSE IF IsFirst(Fact[o], first) THEN 1 ELSE Null
    BY <1>a
  <2>2. "customersNew" \notin ORDER_MEASURES
    BY DEF ORDER_MEASURES
  <2>3. row[o].id = o
    BY <1>4, <1>5
  <2>4. CASE x = "customersNew"
    <3>1. Figure(row[o], x) = IF IsFirst(Fact[o], first) THEN 1 ELSE Null
      BY <2>1, <2>4
    <3> QED
      BY <2>3, <3>1
  <2>5. CASE x \in ORDER_MEASURES
    BY <1>5, <2>1, <2>2, <2>3, <2>5
  <2> QED
    BY <2>4, <2>5
<1>7. \A o \in T : FigureOr0(row[o], x) = FigureOr0(DueOrder(q, S, o), m)
  <2> SUFFICES ASSUME NEW o \in T
               PROVE  FigureOr0(row[o], x) = FigureOr0(DueOrder(q, S, o), m)
    OBVIOUS
  <2>1. "customersNew" \notin ORDER_MEASURES
    BY DEF ORDER_MEASURES
  <2>2. CASE x = "customersNew"
    <3>1. Figure(DueOrder(q, S, o), m) = Truth(IsFirst(Fact[o], FirstOf(S)))
      <4>1. o \in S /\ MEASURE_BY_METRIC[m] = "customersNew"
        BY <1>1, <2>2
      <4>2. MEASURE_BY_METRIC[m] = "customersNew" =>
              Figure(DueOrder(q, S, o), m) = Truth(IsFirst(Fact[o], FirstOf(S)))
        BY <4>1, DueFigures DEF FiguresDue
      <4> QED
        BY <4>1, <4>2
    <3>2. Figure(row[o], x) = IF IsFirst(Fact[o], first) THEN 1 ELSE Null
      BY <1>a, <2>2
    <3>3. IsFirst(Fact[o], first) <=> IsFirst(Fact[o], FirstOf(S))
      BY <2>2 DEF AgreeOnFirst
    <3> QED
      BY <3>1, <3>2, <3>3, NullAssumption DEF FigureOr0, OrZero, Truth
  <2>3. CASE x \in ORDER_MEASURES
    <3>1. Figure(DueOrder(q, S, o), m) = Fact[o].measures[x]
      BY <1>1, <2>3, DueFigures DEF FiguresDue
    <3>2. Figure(row[o], x) = Fact[o].measures[x]
      BY <1>a, <2>1, <2>3
    <3> QED
      BY <3>1, <3>2 DEF FigureOr0
  <2> QED
    BY <2>2, <2>3
<1>8. \A o \in T :
        LET k == OrderKey(Fact[o], FirstOf(S))
        IN  /\ Alike(DatedKey(row[o].k, d), k, columns)
            /\ Alike(row[o].k, k, FilterDims(q))
  <2> SUFFICES ASSUME NEW o \in T
               PROVE  LET k == OrderKey(Fact[o], FirstOf(S))
                      IN  /\ Alike(DatedKey(row[o].k, d), k, columns)
                          /\ Alike(row[o].k, k, FilterDims(q))
    OBVIOUS
  <2> DEFINE k == OrderKey(Fact[o], FirstOf(S))
             j == row[o].k
  <2>1. /\ Value(k, "date") = d
        /\ Value(k, "customerType") = CustomerType(Fact[o], FirstOf(S))
        /\ \A y \in OrderDims : Value(k, y) = Fact[o].dims[y]
    BY <1>1, <1>5, OrderKeys
  <2>2. /\ \A y \in dims : Value(j, y) = IF y = "customerType"
             THEN CustomerType(Fact[o], first) ELSE Fact[o].dims[y]
        /\ DOMAIN j = dims
    <3>1. /\ DOMAIN j = dims
          /\ \A y \in dims : j[y] = IF y = "customerType"
               THEN CustomerType(Fact[o], first) ELSE Fact[o].dims[y]
      BY <1>4, ZenonT(30)
    <3> HIDE DEF j, dims
    <3> QED
      BY <3>1 DEF Value
  <2> HIDE DEF k, j
  <2>3. /\ Value(DatedKey(j, d), "date") = d
        /\ \A y \in dims \ {"date"} : Value(DatedKey(j, d), y) = Value(j, y)
    BY <2>2 DEF Value, DatedKey
  <2>4. "customerType" \in columns \cup FilterDims(q) =>
          CustomerType(Fact[o], first) = CustomerType(Fact[o], FirstOf(S))
    <3>1. FirstOf(S) # Null
      BY FirstAssumption
    <3>2. SUFFICES ASSUME IsFirst(Fact[o], first) <=> IsFirst(Fact[o], FirstOf(S))
                   PROVE  CustomerType(Fact[o], first) = CustomerType(Fact[o], FirstOf(S))
      BY DEF AgreeOnFirst
    <3> QED
      BY <3>1, <3>2 DEF CustomerType
  <2>5. \A y \in (columns \cup FilterDims(q)) \cap dims : Value(j, y) = Value(k, y)
    BY <2>1, <2>2, <2>4
  <2> QED
    BY <2>1, <2>3, <2>5 DEF Alike, AsksOf, k, j
<1>9. T \in SUBSET OnDay(S, d) /\ OnDay(S, d) \ T = {}
  OBVIOUS
<1> HIDE DEF T, dues
<1>13. SaysWhatIsDue(T, row, rows, x, q, S, d, columns, m)
  BY <1>2, <1>3, <1>6, <1>7, <1>8, <1>9 DEF SaysWhatIsDue
<1>10. /\ Countable(rows, x) /\ Countable(Chosen(rows, q, d, columns, key), x)
       /\ Countable(dues, m) /\ Tot(Chosen(rows, q, d, columns, key), x) = Tot(dues, m)
  <2> HIDE DEF measures, dims
  <2> QED
    BY <1>9, <1>13, RowsOfOrders, SMTT(30) DEF dues
<1>11. LET out == Chosen(Fold(rows, measures), q, d, columns, key)
       IN  /\ Countable(out, x)
           /\ Tot(out, x) = Tot(Chosen(rows, q, d, columns, key), x)
  BY <1>10, ChosenOfFold
<1>12. FoldOrdersDaily(FactsOf(T), first) = Fold(rows, measures)
  BY DEF FoldOrdersDaily, rows
<1> QED
  BY <1>10, <1>11, <1>12 DEF T, dues

LEMMA DueMeasure ==
  ASSUME NEW S \in SUBSET DOMAIN Orders, NEW q, NEW m \in q.metrics, NEW o \in S,
         MEASURE_BY_METRIC[m] \in ORDER_MEASURES
  PROVE  Figure(DueOrder(q, S, o), m) = Fact[o].measures[MEASURE_BY_METRIC[m]]
<1>1. FiguresDue(q, S, o, m, MEASURE_BY_METRIC[m])
  BY DueFigures
<1> QED
  BY <1>1 DEF FiguresDue

(* The cubes about some of the orders have the figures due of all of them: *)
(* of the others nothing is due.                                           *)
LEMMA SomeAreExact ==
  ASSUME NEW S \in SUBSET DOMAIN Orders, NEW q, ~SplitsItems(q),
         NEW m \in q.metrics, NEW x, x = MEASURE_BY_METRIC[m],
         NEW having \in ORDER_MEASURES, NEW dims, NEW measures,
         x \in measures \cap ORDER_MEASURES,
         dims \subseteq {"currency", "store", "discountCode", "shippingMethod",
                         "carrier"},
         NEW d \in EachDay(q.timeRange), NEW columns, NEW key,
         AsksOf(q, columns, dims), OnlySomeHave(S, d, having, x)
  PROVE  SameFigures(Chosen(FoldSome(FactsOf(OnDay(S, d)), having, dims, measures),
                            q, d, columns, key), x,
                     DueOn(q, S, d, columns, key), m)
<1> DEFINE R == OnDay(S, d)
           T == {o \in R : Fact[o].measures[having] > 0}
           Of(f) == Row(f.orderId, Restrict(f.dims, dims), f.measures)
           rows == {Of(f) : f \in {g \in FactsOf(R) : g.measures[having] > 0}}
           row == [o \in T |-> Of(Fact[o])]
           dues == DueOn(q, S, d, columns, key)
<1>1. R \in SUBSET S /\ T \in SUBSET R
  BY DEF OnDay
<1>2. \A o \in R : /\ Fact[o].orderId = o /\ Fact[o].businessDate = d
                   /\ \A y \in ORDER_MEASURES : Fact[o].measures[y] \in Int
  BY <1>1, FactOfOrder, FactIsNumeric DEF OnDay, FactIn
<1>3. \A o \in T : row[o] \in rows
  BY DEF FactsOf
<1>4. \A r \in rows : \E o \in T : r = row[o]
  BY DEF FactsOf
<1>5. \A o \in R : /\ DOMAIN Fact[o].measures = ORDER_MEASURES
                   /\ DOMAIN Fact[o].dims =
                        {"currency", "store", "distributionChannel", "country",
                         "orderState", "paymentState", "discountCode",
                         "shippingMethod", "carrier"}
  BY <1>1 DEF Fact, ToOrderFact
<1>6. \A o \in T : /\ row[o].id = o
                   /\ row[o].k = [y \in dims |-> Fact[o].dims[y]]
                   /\ row[o].m = Fact[o].measures
  <2>1. \A o \in T : dims \cap DOMAIN Fact[o].dims = dims
    BY <1>1, <1>5
  <2> QED
    BY <1>2, <2>1 DEF Row, Restrict
<1> HIDE DEF row, rows, Of
<1>7. \A o \in T : Figure(row[o], x) = Fact[o].measures[x]
  BY <1>1, <1>5, <1>6 DEF Figure
<1>8. ASSUME NEW o \in R
      PROVE  Figure(DueOrder(q, S, o), m) = Fact[o].measures[x]
  <2>1. o \in S /\ MEASURE_BY_METRIC[m] \in ORDER_MEASURES
    BY <1>1
  <2>2. Figure(DueOrder(q, S, o), m) = Fact[o].measures[MEASURE_BY_METRIC[m]]
    BY <2>1, DueMeasure
  <2> QED
    BY <2>1, <2>2
<1>9. /\ \A o \in T : FigureOr0(row[o], x) = FigureOr0(DueOrder(q, S, o), m)
      /\ \A o \in R \ T : FigureOr0(DueOrder(q, S, o), m) = 0
  <2>1. \A o \in R \ T : Fact[o].measures[x] = 0
    BY DEF OnlySomeHave
  <2> QED
    BY <1>1, <1>7, <1>8, <2>1, NullAssumption DEF FigureOr0, OrZero
<1>10. \A o \in T :
         LET k == OrderKey(Fact[o], FirstOf(S))
         IN  /\ Alike(DatedKey(row[o].k, d), k, columns)
             /\ Alike(row[o].k, k, FilterDims(q))
  <2> SUFFICES ASSUME NEW o \in T
               PROVE  LET k == OrderKey(Fact[o], FirstOf(S))
                      IN  /\ Alike(DatedKey(row[o].k, d), k, columns)
                          /\ Alike(row[o].k, k, FilterDims(q))
    OBVIOUS
  <2> DEFINE k == OrderKey(Fact[o], FirstOf(S))
             j == row[o].k
  <2>1. /\ Value(k, "date") = d
        /\ \A y \in dims : Value(k, y) = Fact[o].dims[y]
    <3>1. /\ o \in DOMAIN Orders /\ Fact[o].businessDate = d
          /\ \A y \in dims : y \in OrderDims \cup {"discountCode",
                                                 "shippingMethod", "carrier"}
      BY <1>1, <1>2 DEF OrderDims
    <3> QED
      BY <3>1, OrderKeys
  <2>2. j = [y \in dims |-> Fact[o].dims[y]]
    BY <1>6
  <2> HIDE DEF k, j
  <2>3. \A y \in dims : Value(j, y) = Fact[o].dims[y]
    BY <2>2 DEF Value
  <2>4. /\ Value(DatedKey(j, d), "date") = d
        /\ \A y \in dims \ {"date"} : Value(DatedKey(j, d), y) = Value(j, y)
    BY <2>2 DEF Value, DatedKey
  <2> QED
    BY <2>1, <2>3, <2>4 DEF Alike, AsksOf, k, j
<1> HIDE DEF R, T, dues
<1>11. SaysWhatIsDue(T, row, rows, x, q, S, d, columns, m)
  <2>1. \A o \in T : row[o] \in rows /\ row[o].id = o
    BY <1>3, <1>6
  <2>2. \A o \in T : Figure(row[o], x) \in Int \cup {Null}
    BY <1>1, <1>2, <1>7
  <2>3. OnDay(S, d) \ T = R \ T
    BY DEF R
  <2> QED
    BY <1>4, <1>9, <1>10, <2>1, <2>2, <2>3 DEF SaysWhatIsDue
<1>12. T \in SUBSET OnDay(S, d)
  BY <1>1 DEF R
<1>13. /\ Countable(rows, x) /\ Countable(Chosen(rows, q, d, columns, key), x)
       /\ Countable(dues, m) /\ Tot(Chosen(rows, q, d, columns, key), x) = Tot(dues, m)
  BY <1>11, <1>12, RowsOfOrders DEF dues
<1>14. LET out == Chosen(Fold(rows, measures), q, d, columns, key)
       IN  /\ Countable(out, x)
           /\ Tot(out, x) = Tot(Chosen(rows, q, d, columns, key), x)
  BY <1>13, ChosenOfFold
<1>15. FoldSome(FactsOf(R), having, dims, measures) = Fold(rows, measures)
  BY DEF FoldSome, rows, Of
<1> QED
  BY <1>13, <1>14, <1>15 DEF R, dues, SameFigures

(* Only an order with a promotion code has redemptions, and only a shipped *)
(* one has shipments, in time or not.                                      *)
LEMMA OthersHaveNone ==
  ASSUME NEW o \in DOMAIN Orders
  PROVE  /\ ~(Fact[o].measures["redemptions"] > 0) =>
              Fact[o].measures["redemptions"] = 0
         /\ ~(Fact[o].measures["shipments"] > 0) =>
              /\ Fact[o].measures["shipments"] = 0
              /\ Fact[o].measures["shipmentsOnTime"] = 0
<1> DEFINE order == ApplyLineCategories(Orders[o])
           measures == OrderMeasures(order)
           redemptions == Truth(order.promoCode # Null)
           shipped == Truth(order.shippedAt # Null)
           inTime == Truth(/\ order.shippedAt # Null
                           /\ order.shippedAt - BusinessDateOf(order)
                                <= DISPATCH_SLA_DAYS)
<1>1. Fact[o] = ToOrderFact(order)
  BY DEF Fact
<1> HIDE DEF order
<1>2. Fact[o].measures =
        [x \in ORDER_MEASURES |->
            CASE x = "redemptions" -> redemptions
              [] x = "shipments" -> shipped
              [] x = "shipmentsOnTime" -> inTime
              [] x = "ordersPromoted" ->
                   IF measures[x] > 0 THEN measures[x] ELSE redemptions
              [] OTHER -> measures[x]]
  BY <1>1 DEF ToOrderFact, Truth
<1>3. redemptions \in {0, 1} /\ shipped \in {0, 1} /\ (shipped = 0 => inTime = 0)
  BY DEF Truth
<1> HIDE DEF redemptions, shipped, inTime, measures
<1>4. /\ Fact[o].measures["redemptions"] = redemptions
      /\ Fact[o].measures["shipments"] = shipped
      /\ Fact[o].measures["shipmentsOnTime"] = inTime
  BY <1>2 DEF ORDER_MEASURES
<1> QED
  BY <1>3, <1>4

-----------------------------------------------------------------------------
(* The items of an order                                                   *)

(* The items of an order differ in their lines, and have its units.        *)
LEMMA LinesAreItems ==
  ASSUME NEW o \in DOMAIN Orders
  PROVE  /\ \A i \in Fact[o].items :
              /\ DOMAIN i = {"line", "sku", "category", "units", "revenueNet", "cost"}
              /\ i.sku # OTHER_BUCKET
         /\ \A i, j \in Fact[o].items : i.line = j.line => i = j
         /\ Fact[o].measures["units"] = Total(Fact[o].items, LAMBDA i : i.units)
<1> DEFINE raw == Orders[o].lines
           Filed(l) == [x \in DOMAIN l \cup {"category"} |->
                          IF x = "category" THEN CategoryOf(l.productId) ELSE l[x]]
           order == ApplyLineCategories(Orders[o])
           lines == order.lines
           Item(l) == [line |-> l.line, sku |-> l.sku, category |-> l.category,
                       units |-> l.quantity, revenueNet |-> l.price,
                       cost |-> l.unitCost * l.quantity]
           items == Fact[o].items
<1>1. lines = {Filed(l) : l \in raw}
  BY OrderAssumption DEF ApplyLineCategories
<1>2. \A l \in raw :
        /\ {"line", "sku", "quantity"} \subseteq DOMAIN l /\ l.quantity \in Int
        /\ l.sku # OTHER_BUCKET
        /\ \A n \in raw : n.line = l.line => n = l
  BY OrderAssumption DEF Amounts
<1>3. \A l \in raw : /\ Filed(l).line = l.line /\ Filed(l).sku = l.sku
                     /\ Filed(l).quantity = l.quantity
  BY <1>2
<1> HIDE DEF Filed, raw
<1>4. /\ \A l \in lines : l.quantity \in Int /\ l.sku # OTHER_BUCKET
      /\ \A l, n \in lines : l.line = n.line => l = n
  BY <1>1, <1>2, <1>3
<1>5. IsFiniteSet(lines)
  BY LinesOfOrder, AmountsAreIntegers
<1>6. items = {Item(l) : l \in lines}
  BY DEF Fact, ToOrderFact
<1>7. Fact[o].measures["units"] = Total(lines, LAMBDA l : l.quantity)
  <2>1. /\ Fact[o].measures["units"] = OrderMeasures(order)["units"]
    BY DEF Fact, ToOrderFact, ORDER_MEASURES
  <2>2. OrderMeasures(order)["units"] = Total(lines, LAMBDA l : l.quantity)
    BY DEF OrderMeasures
  <2> QED
    BY <2>1, <2>2
<1> HIDE DEF lines, order, items
<1>8. \A l \in lines : /\ Item(l).line = l.line /\ Item(l).sku = l.sku
                       /\ Item(l).units = l.quantity
                       /\ DOMAIN Item(l) = {"line", "sku", "category", "units",
                                            "revenueNet", "cost"}
  OBVIOUS
<1> HIDE DEF Item
<1> DEFINE to == [l \in lines |-> Item(l)]
           f == [l \in lines |-> l.quantity]
           h == [i \in items |-> i.units]
<1>9. /\ to \in [lines -> items] /\ \A i \in items : \E l \in lines : to[l] = i
      /\ \A l, n \in lines : to[l] = to[n] => l = n
  BY <1>4, <1>6, <1>8
<1>10. \A l \in lines : f[l] \in Int /\ h[to[l]] = f[l]
  BY <1>4, <1>6, <1>8
<1>11. /\ Total(lines, LAMBDA l : l.quantity) = SumFunctionOnSet(f, lines)
       /\ Total(items, LAMBDA i : i.units) = SumFunctionOnSet(h, items)
  <2>1. DOMAIN f = lines /\ DOMAIN h = items
    OBVIOUS
  <2>2. /\ Total(lines, LAMBDA l : l.quantity) = SumFunction(f)
        /\ Total(items, LAMBDA i : i.units) = SumFunction(h)
    BY DEF Total
  <2> HIDE DEF f, h
  <2> QED
    BY <2>1, <2>2 DEF SumFunction
<1> HIDE DEF f, h, to
<1>12. SumFunctionOnSet(h, items) = SumFunctionOnSet(f, lines)
  BY <1>5, <1>9, <1>10, SumRenamed
<1>13. \A i \in items : \E l \in lines : i = Item(l)
  BY <1>6
<1>14. \A i \in items :
         /\ DOMAIN i = {"line", "sku", "category", "units", "revenueNet", "cost"}
         /\ i.sku # OTHER_BUCKET
  BY <1>4, <1>8, <1>13
<1>15. \A i, j \in items : i.line = j.line => i = j
  BY <1>4, <1>8, <1>13
<1> QED
  BY <1>7, <1>11, <1>12, <1>14, <1>15 DEF items

(* Rows made of some items of an order have the sum of what these have.    *)
LEMMA ItemsMake ==
  ASSUME NEW o \in DOMAIN Orders, NEW I \in SUBSET Fact[o].items, NEW row,
         NEW made, NEW x \in ItemMeasures, NEW m, OfItems(o, I, row, made, x, m)
  PROVE  /\ Countable(made, m)
         /\ Tot(made, m) = TotalOf(I, x)
<1> DEFINE f == [i \in I |-> i[x]]
           g == [i \in I |-> FigureOr0(row[i], m)]
<1>1. IsFiniteSet(I) /\ \A i \in I : i[x] \in Int
  BY FactIsNumeric, FS_Subset DEF FactIn
<1>2. \A i, j \in I : row[i] = row[j] => i = j
  <2>1. \A i, j \in I : row[i] = row[j] => <<o, i.line>> = <<o, j.line>>
    BY DEF OfItems
  <2>2. \A i, j \in I : i.line = j.line => i = j
    BY LinesAreItems
  <2> QED
    BY <2>1, <2>2
<1>3. Makes(I, row, made, m)
  BY <1>1, <1>2 DEF Makes, OfItems
<1>4. Countable(made, m) /\ Tot(made, m) = SumFunctionOnSet(g, I)
  BY <1>1, <1>3, TotOfMade
<1>5. \A i \in I : f[i] \in Int /\ f[i] = g[i]
  BY <1>1, NullAssumption DEF FigureOr0, OrZero, OfItems
<1> HIDE DEF f, g
<1>6. SumFunctionOnSet(f, I) = SumFunctionOnSet(g, I)
  BY <1>1, <1>5, SumIsSame
<1> QED
  BY <1>4, <1>6 DEF f, TotalOf

LEMMA ItemRowsMake ==
  ASSUME NEW T \in SUBSET DOMAIN Orders, NEW row, NEW rows,
         ItemRowsOf(T, row, rows), NEW o \in T, NEW I \in SUBSET Fact[o].items,
         NEW x \in ItemMeasures, NEW made, MadeOfItems(row, o, I, made)
  PROVE  /\ Countable(made, x)
         /\ Tot(made, x) = TotalOf(I, x)
<1> DEFINE to == row[o]
<1>1. \A i \in I : to[i].id = <<o, i.line>> /\ to[i].m = Restrict(i, ItemMeasures)
  BY DEF ItemRowsOf
<1>2. ASSUME NEW i \in I PROVE Figure(to[i], x) = i[x]
  <2>1. to[i].m = [y \in ItemMeasures |-> i[y]]
    BY <1>1 DEF Restrict
  <2> QED
    BY <2>1 DEF Figure
<1>3. \A i \in I : to[i] \in made
  BY DEF MadeOfItems
<1>4. \A r \in made : \E i \in I : r = to[i]
  BY DEF MadeOfItems
<1>5. o \in DOMAIN Orders
  OBVIOUS
<1> HIDE DEF to
<1>6. OfItems(o, I, to, made, x, x)
  BY <1>1, <1>2, <1>3, <1>4 DEF OfItems
<1> QED
  BY <1>5, <1>6, ItemsMake

LEMMA ItemRowsAreCountable ==
  ASSUME NEW T \in SUBSET DOMAIN Orders, NEW row, NEW rows,
         ItemRowsOf(T, row, rows), NEW x
  PROVE  Countable(rows, x)
<1>1. Numeric(rows)
  BY ItemsAreNumeric
<1> QED
  BY <1>1, NumericIsCountable

(* What is due of a day to a query that splits items: a row for each item  *)
(* that is asked for.                                                      *)
LEMMA DueOfLines ==
  ASSUME NEW S \in SUBSET DOMAIN Orders, NEW q, SplitsItems(q),
         NEW d \in EachDay(q.timeRange), NEW columns, NEW key
  PROVE  LET dues == DueOn(q, S, d, columns, key)
         IN  /\ \A o \in OnDay(S, d) : \A i \in AskedOf(q, S, o, columns, key) :
                  DueItem(q, S, o, i) \in dues
             /\ \A t \in dues : \E o \in OnDay(S, d) :
                  \E i \in AskedOf(q, S, o, columns, key) : t = DueItem(q, S, o, i)
<1> DEFINE dues == DueOn(q, S, d, columns, key)
<1>1. \A o \in S : \A i \in Fact[o].items :
        DueItem(q, S, o, i).k = ItemKey(Fact[o], i, FirstOf(S))
  BY DEF DueItem, Row
<1>2. \A o \in S : \A i \in Fact[o].items :
        ItemKey(Fact[o], i, FirstOf(S))["date"] = Fact[o].businessDate
  BY ItemKeys
<1>3. \A t : t \in dues <=>
        /\ \E o \in S : \E i \in Fact[o].items : t = DueItem(q, S, o, i)
        /\ t.k["date"] = d /\ Passes(t.k, Allowed(q)) /\ KeyFor(t.k, columns) = key
  <2>1. \A t : t \in DueRows(q, S) <=>
          (/\ IsAsked(q, t)
           /\ \E o \in S : \E i \in Fact[o].items : t = DueItem(q, S, o, i))
    BY DueOfItems
  <2>2. \A t : t \in dues <=>
          t \in DueRows(q, S) /\ t.k["date"] = d /\ KeyFor(t.k, columns) = key
    BY DEF DueOn
  <2> QED
    BY <2>1, <2>2 DEF IsAsked
<1> HIDE DEF dues
<1>4. ASSUME NEW o \in OnDay(S, d), NEW i \in AskedOf(q, S, o, columns, key)
      PROVE  DueItem(q, S, o, i) \in dues
  BY <1>1, <1>2, <1>3 DEF OnDay, AskedOf
<1>5. ASSUME NEW t \in dues
      PROVE  \E o \in OnDay(S, d) :
               \E i \in AskedOf(q, S, o, columns, key) : t = DueItem(q, S, o, i)
  <2>1. PICK o \in S : \E i \in Fact[o].items : t = DueItem(q, S, o, i)
    BY <1>3
  <2>2. PICK i \in Fact[o].items : t = DueItem(q, S, o, i)
    BY <2>1
  <2>3. o \in OnDay(S, d) /\ i \in AskedOf(q, S, o, columns, key)
    BY <1>1, <1>2, <1>3, <2>2 DEF OnDay, AskedOf
  <2> QED
    BY <2>2, <2>3
<1> QED
  BY <1>4, <1>5 DEF dues

LEMMA ItemsAreExact ==
  ASSUME NEW S \in SUBSET DOMAIN Orders, NEW q, SplitsItems(q),
         NEW m \in q.metrics, NEW x \in ItemMeasures, x = MEASURE_BY_METRIC[m],
         NEW d \in EachDay(q.timeRange), NEW columns, NEW key,
         NEW row, NEW rows, ItemRowsOf(OnDay(S, d), row, rows),
         KeysOfItems(row, q, S, d, columns)
  PROVE  SameFigures(Chosen(rows, q, d, columns, key), x,
                     DueOn(q, S, d, columns, key), m)
<1> DEFINE some == Chosen(rows, q, d, columns, key)
           dues == DueOn(q, S, d, columns, key)
           D == OnDay(S, d)
           I(o) == AskedOf(q, S, o, columns, key)
           at == [o \in D |-> {DueItem(q, S, o, i) : i \in I(o)}]
           of == [o \in D |-> {row[o][i] : i \in I(o)}]
<1>1. D \in SUBSET DOMAIN Orders /\ IsFiniteSet(D)
  <2>1. D \in SUBSET DOMAIN Orders
    BY DEF OnDay
  <2> QED
    BY <2>1, FactsAreFinite
<1>2. \A o \in D : I(o) \in SUBSET Fact[o].items
  BY DEF AskedOf
<1>3. \A o \in D : \A i \in Fact[o].items :
        /\ row[o][i] \in rows /\ row[o][i].id = <<o, i.line>>
        /\ DueItem(q, S, o, i).id = <<o, i.line>>
        /\ Figure(DueItem(q, S, o, i), m) = i[x]
  BY DEF ItemRowsOf, DueItem, Row, Figure
<1>4. \A o \in D : \A i \in Fact[o].items : i \in I(o) <=> row[o][i] \in some
  <2> SUFFICES ASSUME NEW o \in D, NEW i \in Fact[o].items
               PROVE  i \in I(o) <=> row[o][i] \in some
    OBVIOUS
  <2> DEFINE k == ItemKey(Fact[o], i, FirstOf(S))
             j == row[o][i].k
  <2>1. Alike(DatedKey(j, d), k, columns) /\ Alike(j, k, FilterDims(q))
    BY DEF KeysOfItems
  <2>2. i \in I(o) <=> Passes(k, Allowed(q)) /\ KeyFor(k, columns) = key
    BY DEF AskedOf
  <2>3. row[o][i] \in some <=>
          Passes(j, Allowed(q)) /\ KeyFor(DatedKey(j, d), columns) = key
    BY <1>3 DEF Chosen
  <2> HIDE DEF k, j, I, some
  <2>4. Passes(j, Allowed(q)) <=> Passes(k, Allowed(q))
    BY <2>1, AlikePass
  <2>5. KeyFor(DatedKey(j, d), columns) = KeyFor(k, columns)
    BY <2>1, AlikeKeys
  <2> QED
    BY <2>2, <2>3, <2>4, <2>5
<1>5. some \subseteq rows
  BY DEF Chosen
<1>6. /\ \A o \in D : \A i \in I(o) : DueItem(q, S, o, i) \in dues
      /\ \A t \in dues : \E o \in D : \E i \in I(o) : t = DueItem(q, S, o, i)
  BY DueOfLines
<1>7. \A r \in rows : \E o \in D : \E i \in Fact[o].items : r = row[o][i]
  BY DEF ItemRowsOf
<1> HIDE DEF some, dues, I
<1>8. ASSUME NEW o \in D
      PROVE  /\ Countable(at[o], m) /\ Countable(of[o], x)
             /\ Tot(of[o], x) = Tot(at[o], m)
  <2> DEFINE J == I(o)
             due == [i \in J |-> DueItem(q, S, o, i)]
             to == [i \in J |-> row[o][i]]
  <2>1. MadeOfItems(row, o, J, of[o])
    BY DEF MadeOfItems
  <2>2. /\ \A i \in J : /\ due[i] \in at[o] /\ Figure(due[i], m) = i[x]
                        /\ due[i].id = <<o, i.line>>
        /\ \A r \in at[o] : \E i \in J : r = due[i]
    BY <1>2, <1>3
  <2>3. J \in SUBSET Fact[o].items /\ o \in DOMAIN Orders
    BY <1>1, <1>2
  <2> HIDE DEF D, J, due, of, at
  <2>4. /\ Countable(of[o], x)
        /\ Tot(of[o], x) = TotalOf(J, x)
    <3>1. OnDay(S, d) \in SUBSET DOMAIN Orders /\ o \in OnDay(S, d)
      BY <1>1 DEF D
    <3> QED
      BY <2>1, <2>3, <3>1, ItemRowsMake
  <2>5. /\ Countable(at[o], m)
        /\ Tot(at[o], m) = TotalOf(J, x)
    <3>1. OfItems(o, J, due, at[o], x, m)
      BY <2>2 DEF OfItems
    <3> QED
      BY <2>3, <3>1, ItemsMake
  <2> QED
    BY <2>4, <2>5
<1>9. /\ \A o \in D : \A r \in at[o] : \E i \in I(o) : r = DueItem(q, S, o, i)
      /\ \A o \in D : \A r \in of[o] : \E i \in I(o) : r = row[o][i]
  OBVIOUS
<1>10. /\ \A o \in D : at[o] \subseteq dues
       /\ \A r \in dues : \E o \in D : r \in at[o]
       /\ \A o, p \in D : \A r \in at[o] : r \in at[p] => o = p
  <2>1. \A o \in D : at[o] \subseteq dues
    BY <1>6
  <2>2. \A r \in dues : \E o \in D : r \in at[o]
    BY <1>6
  <2>3. ASSUME NEW o \in D, NEW p \in D, NEW r \in at[o], r \in at[p]
        PROVE  o = p
    <3>1. PICK i \in I(o) : r = DueItem(q, S, o, i)
      BY <1>9
    <3>2. PICK j \in I(p) : r = DueItem(q, S, p, j)
      BY <1>9, <2>3
    <3>3. r.id = <<o, i.line>> /\ r.id = <<p, j.line>>
      BY <1>2, <1>3, <3>1, <3>2
    <3> QED
      BY <3>3
  <2> HIDE DEF at
  <2> QED
    BY <2>1, <2>2, <2>3
<1>11. /\ \A o \in D : of[o] \subseteq some
       /\ \A r \in some : \E o \in D : r \in of[o]
       /\ \A o, p \in D : \A r \in of[o] : r \in of[p] => o = p
  <2>1. \A o \in D : of[o] \subseteq some
    BY <1>2, <1>4
  <2>2. ASSUME NEW r \in some PROVE \E o \in D : r \in of[o]
    <3>1. PICK o \in D : \E i \in Fact[o].items : r = row[o][i]
      BY <1>5, <1>7
    <3>2. PICK i \in Fact[o].items : r = row[o][i]
      BY <3>1
    <3>3. i \in I(o)
      BY <1>4, <3>2
    <3> QED
      BY <3>2, <3>3
  <2>3. ASSUME NEW o \in D, NEW p \in D, NEW r \in of[o], r \in of[p]
        PROVE  o = p
    <3>1. PICK i \in I(o) : r = row[o][i]
      BY <1>9
    <3>2. PICK j \in I(p) : r = row[p][j]
      BY <1>9, <2>3
    <3>3. r.id = <<o, i.line>> /\ r.id = <<p, j.line>>
      BY <1>2, <1>3, <3>1, <3>2
    <3> QED
      BY <3>3
  <2> HIDE DEF of
  <2> QED
    BY <2>1, <2>2, <2>3
<1> HIDE DEF at, of, D
<1>12. SharedOut(D, at, dues, m) /\ SharedOut(D, of, some, x)
  BY <1>1, <1>8, <1>10, <1>11 DEF SharedOut
<1>13. \A o \in D : Tot(of[o], x) = Tot(at[o], m)
  BY <1>8
<1>14. SameFigures(some, x, dues, m)
  BY <1>12, <1>13, PartsAreSame DEF SameFigures
<1> QED
  BY <1>14 DEF some, dues

(* What an order is due of its items is what they have in sum.             *)
LEMMA DueOfItsItems ==
  ASSUME NEW S \in SUBSET DOMAIN Orders, NEW q, NEW m \in q.metrics, NEW o \in S,
         NEW x \in {"units", "cost"}, x = MEASURE_BY_METRIC[m]
  PROVE  /\ Countable({DueOrder(q, S, o)}, m)
         /\ Tot({DueOrder(q, S, o)}, m) = TotalOf(Fact[o].items, x)
<1> DEFINE t == DueOrder(q, S, o)
           y == MEASURE_BY_METRIC[m]
           I == Fact[o].items
<1>1. /\ Figure(t, m) \in Int \cup {Null}
      /\ y \in ORDER_MEASURES => Figure(t, m) = Fact[o].measures[y]
      /\ y = "cost" => Figure(t, m) = TotalOf(I, "cost")
  BY DueFigures DEF FiguresDue
<1>2. /\ Fact[o].measures["units"] = Total(I, LAMBDA i : i.units)
      /\ Fact[o].measures["units"] \in Int
  BY LinesAreItems, FactIsNumeric DEF ORDER_MEASURES, FactIn
<1>3. /\ IsFiniteSet(I) /\ \A i \in I : i["cost"] \in Int
  BY FactIsNumeric DEF ItemMeasures, FactIn
<1>4. Total(I, LAMBDA i : i.units) = SumFunction([i \in I |-> i["units"]])
  BY DEF Total
<1>5. SumFunction([i \in I |-> i["cost"]]) \in Int
  <2> DEFINE f == [i \in I |-> i["cost"]]
  <2>1. DOMAIN f = I /\ \A i \in I : f[i] \in Int
    BY <1>3
  <2> HIDE DEF f
  <2>2. SumFunction(f) \in Int
    BY <1>3, <2>1, TotalIsInt
  <2> QED
    BY <2>2 DEF f
<1>6. /\ SumFunction([i \in I |-> i["units"]]) = TotalOf(I, "units")
      /\ SumFunction([i \in I |-> i["cost"]]) = TotalOf(I, "cost")
  BY TotalIsTotalOf
<1>7. y = x /\ "units" \in ORDER_MEASURES
  BY DEF ORDER_MEASURES
<1> HIDE DEF t, y, I
<1>8. Figure(t, m) = TotalOf(I, x) /\ Figure(t, m) \in Int
  <2>1. CASE x = "units"
    BY <1>1, <1>2, <1>4, <1>6, <1>7, <2>1
  <2>2. CASE x = "cost"
    BY <1>1, <1>5, <1>6, <1>7, <2>2
  <2> QED
    BY <2>1, <2>2
<1>9. Countable({t}, m) /\ Tot({t}, m) = FigureOr0(t, m)
  BY <1>8, TotOfOne, FiguresAdd
<1>10. FigureOr0(t, m) = Figure(t, m)
  BY <1>8, NullAssumption DEF FigureOr0, OrZero
<1> QED
  BY <1>8, <1>9, <1>10 DEF t, I

LEMMA WholeIsExact ==
  ASSUME NEW S \in SUBSET DOMAIN Orders, NEW q, ~SplitsItems(q),
         NEW m \in q.metrics, NEW x \in {"units", "cost"},
         x = MEASURE_BY_METRIC[m],
         NEW d \in EachDay(q.timeRange), NEW columns, NEW key,
         NEW row, NEW rows, ItemRowsOf(OnDay(S, d), row, rows),
         KeysOfOrders(row, q, S, d, columns)
  PROVE  SameFigures(Chosen(rows, q, d, columns, key), x,
                     DueOn(q, S, d, columns, key), m)
<1> DEFINE some == Chosen(rows, q, d, columns, key)
           dues == DueOn(q, S, d, columns, key)
           D == OnDay(S, d)
           A == AskedOn(q, S, d, columns, key)
           at == [o \in A |-> {DueOrder(q, S, o)}]
           of == [o \in A |-> {row[o][i] : i \in Fact[o].items}]
<1>1. /\ A \in SUBSET S /\ IsFiniteSet(A)
      /\ \A o \in A : DueOrder(q, S, o) \in dues
      /\ \A t \in dues : \E o \in A : t = DueOrder(q, S, o)
      /\ \A o, p \in A : DueOrder(q, S, o) = DueOrder(q, S, p) => o = p
  BY DueOfDay
<1>2. D \in SUBSET DOMAIN Orders /\ A \in SUBSET D
  BY DEF OnDay, AskedOn
<1>3. \A o \in D : \A i \in Fact[o].items :
        row[o][i] \in rows /\ row[o][i].id = <<o, i.line>>
  BY DEF ItemRowsOf
<1>4. \A o \in D : \A i \in Fact[o].items : o \in A <=> row[o][i] \in some
  <2> SUFFICES ASSUME NEW o \in D, NEW i \in Fact[o].items
               PROVE  o \in A <=> row[o][i] \in some
    OBVIOUS
  <2> DEFINE k == OrderKey(Fact[o], FirstOf(S))
             j == row[o][i].k
  <2>1. Alike(DatedKey(j, d), k, columns) /\ Alike(j, k, FilterDims(q))
    BY DEF KeysOfOrders
  <2>2. o \in A <=> Passes(k, Allowed(q)) /\ KeyFor(k, columns) = key
    BY DEF AskedOn
  <2>3. row[o][i] \in some <=>
          Passes(j, Allowed(q)) /\ KeyFor(DatedKey(j, d), columns) = key
    BY <1>3 DEF Chosen
  <2> HIDE DEF k, j, A, some
  <2>4. Passes(j, Allowed(q)) <=> Passes(k, Allowed(q))
    BY <2>1, AlikePass
  <2>5. KeyFor(DatedKey(j, d), columns) = KeyFor(k, columns)
    BY <2>1, AlikeKeys
  <2> QED
    BY <2>2, <2>3, <2>4, <2>5
<1>5. some \subseteq rows
  BY DEF Chosen
<1>6. \A r \in rows : \E o \in D : \E i \in Fact[o].items : r = row[o][i]
  BY DEF ItemRowsOf
<1>7. ItemRowsOf(D, row, rows)
  OBVIOUS
<1> HIDE DEF some, dues, A, D
<1>8. ASSUME NEW o \in A
      PROVE  /\ Countable(at[o], m) /\ Countable(of[o], x)
             /\ Tot(of[o], x) = Tot(at[o], m)
  <2>1. /\ Countable({DueOrder(q, S, o)}, m)
        /\ Tot({DueOrder(q, S, o)}, m) = TotalOf(Fact[o].items, x)
    <3>1. o \in S
      BY <1>1
    <3> QED
      BY <3>1, DueOfItsItems
  <2>2. at[o] = {DueOrder(q, S, o)}
    OBVIOUS
  <2>3. MadeOfItems(row, o, Fact[o].items, of[o])
    BY DEF MadeOfItems
  <2>4. /\ o \in D /\ D \in SUBSET DOMAIN Orders /\ x \in ItemMeasures
        /\ Fact[o].items \in SUBSET Fact[o].items
    BY <1>2 DEF ItemMeasures
  <2> HIDE DEF at, of
  <2>5. /\ Countable(of[o], x)
        /\ Tot(of[o], x) = TotalOf(Fact[o].items, x)
    BY <1>7, <2>3, <2>4, ItemRowsMake
  <2> QED
    BY <2>1, <2>2, <2>5
<1>9. \A o \in A : \A r \in of[o] : \E i \in Fact[o].items : r = row[o][i]
  OBVIOUS
<1>10. /\ \A o \in A : at[o] \subseteq dues
       /\ \A r \in dues : \E o \in A : r \in at[o]
       /\ \A o, p \in A : \A r \in at[o] : r \in at[p] => o = p
  BY <1>1
<1>11. /\ \A o \in A : of[o] \subseteq some
       /\ \A r \in some : \E o \in A : r \in of[o]
       /\ \A o, p \in A : \A r \in of[o] : r \in of[p] => o = p
  <2>1. \A o \in A : of[o] \subseteq some
    BY <1>2, <1>4
  <2>2. ASSUME NEW r \in some PROVE \E o \in A : r \in of[o]
    <3>1. PICK o \in D : \E i \in Fact[o].items : r = row[o][i]
      BY <1>5, <1>6
    <3>2. PICK i \in Fact[o].items : r = row[o][i]
      BY <3>1
    <3>3. o \in A
      BY <1>4, <3>2
    <3> QED
      BY <3>2, <3>3
  <2>3. ASSUME NEW o \in A, NEW p \in A, NEW r \in of[o], r \in of[p]
        PROVE  o = p
    <3>1. PICK i \in Fact[o].items : r = row[o][i]
      BY <1>9
    <3>2. PICK j \in Fact[p].items : r = row[p][j]
      BY <1>9, <2>3
    <3>3. r.id = <<o, i.line>> /\ r.id = <<p, j.line>>
      BY <1>2, <1>3, <3>1, <3>2
    <3> QED
      BY <3>3
  <2> HIDE DEF of
  <2> QED
    BY <2>1, <2>2, <2>3
<1> HIDE DEF at, of
<1>12. SharedOut(A, at, dues, m) /\ SharedOut(A, of, some, x)
  BY <1>1, <1>8, <1>10, <1>11 DEF SharedOut
<1>13. \A o \in A : Tot(of[o], x) = Tot(at[o], m)
  BY <1>8
<1>14. SameFigures(some, x, dues, m)
  BY <1>12, <1>13, PartsAreSame DEF SameFigures
<1> QED
  BY <1>14 DEF some, dues

-----------------------------------------------------------------------------
(* The cubes of items                                                      *)

LEMMA KeysOfTop ==
  ASSUME NEW cells, \A c \in cells : DOMAIN c.k = KeyOfProduct,
         NEW n, NEW t \in TopItems(cells, n)
  PROVE  DOMAIN t.k = KeyOfProduct
<1>1. PICK store \in GroupsBy(cells, LAMBDA c : c.k.store) :
        t \in TopNWithResidual(store, "revenueNet", n)
  BY DEF TopItems
<1>2. store \subseteq cells
  BY DEF GroupsBy
<1> DEFINE head == Largest(store, "revenueNet", n)
           first == (CHOOSE c \in store : TRUE).k
           k == [currency |-> first.currency, store |-> first.store,
                 product |-> OTHER_BUCKET]
           rest == Row(k, k, [y \in ItemMeasures |-> SumOf(store \ head, y)])
<1>3. t \in IF Cardinality(store) <= n THEN store ELSE head \cup {rest}
  BY <1>1 DEF TopNWithResidual
<1>4. head \subseteq store
  BY LargestAreRows
<1>5. DOMAIN rest.k = KeyOfProduct
  BY DEF Row, KeyOfProduct
<1> HIDE DEF head, rest
<1>6. t \in store \/ t = rest
  BY <1>3, <1>4
<1> QED
  BY <1>2, <1>5, <1>6

(* The top items of a day have of each store what all its items have, also *)
(* of the rows that are chosen by store.                                   *)
LEMMA ChosenOfTop ==
  ASSUME NEW cells, Numeric(cells), NEW n, NEW x \in ItemMeasures,
         \A c \in cells : DOMAIN c.k = KeyOfProduct /\ c.k.product # OTHER_BUCKET,
         NEW q, NEW d, NEW columns, NEW key, AsksOf(q, columns, {"store"})
  PROVE  SameFigures(Chosen(TopItems(cells, n), q, d, columns, key), x,
                     Chosen(cells, q, d, columns, key), x)
<1> DEFINE all == TopItems(cells, n)
           keys == {r.k : r \in cells \cup all}
           Is(k) == /\ Passes(k, Allowed(q))
                    /\ KeyFor(DatedKey(k, d), columns) = key
           K == {k \in keys : Is(k)}
<1>1. all = TopItems(cells, n)
  OBVIOUS
<1>2. ASSUME NEW A \in SUBSET (cells \cup all)
      PROVE  Chosen(A, q, d, columns, key) = WithKeys(A, K)
  <2>1. Chosen(A, q, d, columns, key) = {r \in A : Is(r.k)}
    BY DEF Chosen
  <2>2. \A r \in A : r.k \in K <=> Is(r.k)
    <3> HIDE DEF Is
    <3> QED
      OBVIOUS
  <2> HIDE DEF K, Is
  <2> QED
    BY <2>1, <2>2 DEF WithKeys
<1>3. /\ Chosen(all, q, d, columns, key) = WithKeys(all, K)
      /\ Chosen(cells, q, d, columns, key) = WithKeys(cells, K)
  BY <1>2
<1>4. \A t \in cells \cup all : DOMAIN t.k = KeyOfProduct
  <2> HIDE DEF all
  <2> QED
    BY <1>1, KeysOfTop
<1>5. ASSUME NEW c \in cells, NEW t \in cells \cup all, c.k.store = t.k.store
      PROVE  c.k \in K <=> t.k \in K
  <2>1. Value(c.k, "store") = Value(t.k, "store")
    BY <1>4, <1>5 DEF Value, KeyOfProduct
  <2>2. /\ Value(DatedKey(c.k, d), "store") = Value(c.k, "store")
        /\ Value(DatedKey(t.k, d), "store") = Value(t.k, "store")
        /\ Value(DatedKey(c.k, d), "date") = Value(DatedKey(t.k, d), "date")
    BY DEF Value, DatedKey
  <2>3. /\ Alike(c.k, t.k, FilterDims(q))
        /\ Alike(DatedKey(c.k, d), DatedKey(t.k, d), columns)
    BY <2>1, <2>2 DEF AsksOf, Alike
  <2>4. /\ Passes(c.k, Allowed(q)) <=> Passes(t.k, Allowed(q))
        /\ KeyFor(DatedKey(c.k, d), columns) = KeyFor(DatedKey(t.k, d), columns)
    BY <2>3, AlikePass, AlikeKeys
  <2>5. c.k \in keys /\ t.k \in keys
    OBVIOUS
  <2> HIDE DEF keys
  <2> QED
    BY <2>4, <2>5
<1> HIDE DEF all, K, Is, keys
<1>6. /\ Countable(WithKeys(all, K), x)
      /\ Tot(WithKeys(all, K), x) = Tot(WithKeys(cells, K), x)
  BY <1>1, <1>5, TopItemsKeepStores
<1>7. Countable(WithKeys(cells, K), x)
  BY NumericIsCountable, SomeKeysAreFew
<1> QED
  BY <1>3, <1>6, <1>7 DEF SameFigures, all

LEMMA LinesAreExact ==
  ASSUME NEW S \in SUBSET DOMAIN Orders, NEW q, NEW m \in q.metrics, NEW x,
         x = MEASURE_BY_METRIC[m], AsksItems(q, x),
         NEW d \in EachDay(q.timeRange), NEW columns, NEW key, NEW n,
         AsksOf(q, columns, {"store"})
  PROVE  SameFigures(Chosen(TopItems(FoldOrderLinesDaily(FactsOf(OnDay(S, d))), n),
                            q, d, columns, key), x,
                     DueOn(q, S, d, columns, key), m)
<1> DEFINE T == OnDay(S, d)
           cells == FoldOrderLinesDaily(FactsOf(T))
           dues == DueOn(q, S, d, columns, key)
<1>1. T \in SUBSET DOMAIN Orders /\ x \in ItemMeasures
  BY DEF OnDay, AsksItems, ItemMeasures
<1>2. PICK row, rows :
        /\ cells = Fold(rows, ItemMeasures)
        /\ ItemRowsOf(T, row, rows)
        /\ \A o \in T : \A i \in Fact[o].items :
             row[o][i].k = [currency |-> Fact[o].dims.currency,
                            store |-> Fact[o].dims.store, product |-> i.sku]
  <2> HIDE DEF T
  <2> QED
    BY <1>1, RowsOfItems
<1>3. \A o \in T : \A i \in Fact[o].items :
        /\ DOMAIN row[o][i].k = KeyOfProduct
        /\ row[o][i].k.product # OTHER_BUCKET
        /\ Value(row[o][i].k, "store") = Fact[o].dims["store"]
        /\ "date" \notin DOMAIN row[o][i].k
  <2> SUFFICES ASSUME NEW o \in T, NEW i \in Fact[o].items
               PROVE  /\ DOMAIN row[o][i].k = KeyOfProduct
                      /\ row[o][i].k.product # OTHER_BUCKET
                      /\ Value(row[o][i].k, "store") = Fact[o].dims["store"]
                      /\ "date" \notin DOMAIN row[o][i].k
    OBVIOUS
  <2>1. i.sku # OTHER_BUCKET
    BY <1>1, LinesAreItems
  <2>2. row[o][i].k = [currency |-> Fact[o].dims.currency,
                       store |-> Fact[o].dims.store, product |-> i.sku]
    BY <1>2
  <2> QED
    BY <2>1, <2>2 DEF Value, KeyOfProduct
<1>4. ASSUME NEW c \in cells
      PROVE  DOMAIN c.k = KeyOfProduct /\ c.k.product # OTHER_BUCKET
  <2>1. \E r \in rows : r.k = c.k
    <3> HIDE DEF cells
    <3>1. Part(rows, c.k) # {}
      BY <1>2, CellsOfFold
    <3> QED
      BY <3>1 DEF Part
  <2>2. PICK r \in rows : r.k = c.k
    BY <2>1
  <2>3. PICK o \in T : \E i \in Fact[o].items : r = row[o][i]
    BY <1>2 DEF ItemRowsOf
  <2>4. PICK i \in Fact[o].items : r = row[o][i]
    BY <2>3
  <2> QED
    BY <1>3, <2>2, <2>4
<1>5. Numeric(cells) /\ Countable(rows, x)
  <2> HIDE DEF T
  <2> QED
    BY <1>1, <1>2, FoldsOfItems, ItemRowsAreCountable
<1>6. SameFigures(Chosen(TopItems(cells, n), q, d, columns, key), x,
                  Chosen(cells, q, d, columns, key), x)
  <2> HIDE DEF cells
  <2> QED
    BY <1>1, <1>4, <1>5, ChosenOfTop
<1>7. /\ Countable(Chosen(cells, q, d, columns, key), x)
      /\ Tot(Chosen(cells, q, d, columns, key), x)
           = Tot(Chosen(rows, q, d, columns, key), x)
  <2> HIDE DEF cells
  <2> QED
    BY <1>1, <1>2, <1>5, ChosenOfFold
<1>8. SameFigures(Chosen(rows, q, d, columns, key), x, dues, m)
  <2>1. CASE SplitsItems(q)
    <3>1. KeysOfItems(row, q, S, d, columns)
      <4> SUFFICES ASSUME NEW o \in T, NEW i \in Fact[o].items
                   PROVE  LET k == ItemKey(Fact[o], i, FirstOf(S))
                              j == row[o][i].k
                          IN  /\ Alike(DatedKey(j, d), k, columns)
                              /\ Alike(j, k, FilterDims(q))
        BY DEF KeysOfItems
      <4> DEFINE k == ItemKey(Fact[o], i, FirstOf(S))
                 j == row[o][i].k
      <4>1. /\ Value(k, "date") = Fact[o].businessDate
            /\ Value(k, "store") = Fact[o].dims["store"]
        BY <1>1, ItemKeys
      <4>2. Fact[o].businessDate = d
        BY DEF OnDay
      <4>3. Value(j, "store") = Fact[o].dims["store"] /\ "date" \notin DOMAIN j
        BY <1>3
      <4> HIDE DEF k, j
      <4>4. /\ Value(DatedKey(j, d), "store") = Value(j, "store")
            /\ Value(DatedKey(j, d), "date") = d
        BY DEF Value, DatedKey
      <4> QED
        BY <4>1, <4>2, <4>3, <4>4 DEF AsksOf, Alike, k, j
    <3> HIDE DEF dues
    <3> QED
      BY <1>1, <1>2, <2>1, <3>1, ItemsAreExact DEF dues
  <2>2. CASE ~SplitsItems(q)
    <3>1. KeysOfOrders(row, q, S, d, columns)
      <4> SUFFICES ASSUME NEW o \in T, NEW i \in Fact[o].items
                   PROVE  LET k == OrderKey(Fact[o], FirstOf(S))
                              j == row[o][i].k
                          IN  /\ Alike(DatedKey(j, d), k, columns)
                              /\ Alike(j, k, FilterDims(q))
        BY DEF KeysOfOrders
      <4> DEFINE k == OrderKey(Fact[o], FirstOf(S))
                 j == row[o][i].k
      <4>1. /\ Value(k, "date") = Fact[o].businessDate
            /\ Value(k, "store") = Fact[o].dims["store"]
        BY <1>1, OrderKeys DEF OrderDims
      <4>2. Fact[o].businessDate = d
        BY DEF OnDay
      <4>3. Value(j, "store") = Fact[o].dims["store"] /\ "date" \notin DOMAIN j
        BY <1>3
      <4> HIDE DEF k, j
      <4>4. /\ Value(DatedKey(j, d), "store") = Value(j, "store")
            /\ Value(DatedKey(j, d), "date") = d
        BY DEF Value, DatedKey
      <4> QED
        BY <4>1, <4>2, <4>3, <4>4 DEF AsksOf, Alike, k, j
    <3>2. x \in {"units", "cost"}
      BY <2>2 DEF AsksItems
    <3> HIDE DEF dues
    <3> QED
      BY <1>1, <1>2, <2>2, <3>1, <3>2, WholeIsExact DEF dues
  <2> QED
    BY <2>1, <2>2
<1> HIDE DEF cells, dues, T
<1>9. SameFigures(Chosen(TopItems(cells, n), q, d, columns, key), x, dues, m)
  BY <1>6, <1>7, <1>8 DEF SameFigures
<1> QED
  BY <1>9 DEF cells, dues, T

LEMMA CategoriesAreExact ==
  ASSUME NEW S \in SUBSET DOMAIN Orders, NEW q, SplitsItems(q),
         NEW m \in q.metrics, NEW x \in ItemMeasures, x = MEASURE_BY_METRIC[m],
         NEW d \in EachDay(q.timeRange), NEW columns, NEW key,
         AsksOf(q, columns, {"currency", "store", "category"})
  PROVE  SameFigures(Chosen(FoldOrderCategoriesDaily(FactsOf(OnDay(S, d))),
                            q, d, columns, key), x,
                     DueOn(q, S, d, columns, key), m)
<1> DEFINE T == OnDay(S, d)
           cells == FoldOrderCategoriesDaily(FactsOf(T))
           dues == DueOn(q, S, d, columns, key)
           dims == {"currency", "store", "category"}
<1>1. T \in SUBSET DOMAIN Orders
  BY DEF OnDay
<1>2. PICK row, rows :
        /\ cells = Fold(rows, ItemMeasures)
        /\ ItemRowsOf(T, row, rows)
        /\ \A o \in T : \A i \in Fact[o].items :
             row[o][i].k = [currency |-> Fact[o].dims.currency,
                            store |-> Fact[o].dims.store, category |-> i.category]
  <2> HIDE DEF T
  <2> QED
    BY <1>1, RowsOfCategories
<1>3. Countable(rows, x)
  BY <1>1, <1>2, ItemRowsAreCountable
<1>4. KeysOfItems(row, q, S, d, columns)
  <2> SUFFICES ASSUME NEW o \in T, NEW i \in Fact[o].items
               PROVE  LET k == ItemKey(Fact[o], i, FirstOf(S))
                          j == row[o][i].k
                      IN  /\ Alike(DatedKey(j, d), k, columns)
                          /\ Alike(j, k, FilterDims(q))
    BY DEF KeysOfItems
  <2> DEFINE k == ItemKey(Fact[o], i, FirstOf(S))
             j == row[o][i].k
  <2>1. /\ Value(k, "date") = Fact[o].businessDate
        /\ Value(k, "category") = i.category
        /\ Value(k, "store") = Fact[o].dims["store"]
        /\ Value(k, "currency") = Fact[o].dims["currency"]
    BY <1>1, ItemKeys
  <2>2. Fact[o].businessDate = d
    BY DEF OnDay
  <2>3. j = [currency |-> Fact[o].dims.currency,
             store |-> Fact[o].dims.store, category |-> i.category]
    BY <1>2
  <2> HIDE DEF k, j
  <2>4. \A y \in dims : Value(j, y) = Value(k, y)
    BY <2>1, <2>3 DEF Value
  <2>5. /\ Value(DatedKey(j, d), "date") = d
        /\ \A y \in dims : Value(DatedKey(j, d), y) = Value(j, y)
    BY DEF Value, DatedKey
  <2> QED
    BY <2>1, <2>2, <2>4, <2>5 DEF AsksOf, Alike, k, j
<1>5. SameFigures(Chosen(rows, q, d, columns, key), x, dues, m)
  <2> HIDE DEF dues
  <2> QED
    BY <1>1, <1>2, <1>4, ItemsAreExact DEF dues
<1> HIDE DEF cells, dues, T
<1>6. /\ Countable(Chosen(cells, q, d, columns, key), x)
      /\ Tot(Chosen(cells, q, d, columns, key), x)
           = Tot(Chosen(rows, q, d, columns, key), x)
  BY <1>2, <1>3, ChosenOfFold
<1>7. SameFigures(Chosen(cells, q, d, columns, key), x, dues, m)
  BY <1>5, <1>6 DEF SameFigures
<1> QED
  BY <1>7 DEF cells, dues, T

-----------------------------------------------------------------------------
(* The cubes of a day                                                      *)

LEMMA CubeDimensions ==
  /\ CUBE_DIMENSIONS["orders-daily"] = OrderDims \cup {"customerType"}
  /\ CUBE_DIMENSIONS["order-lines-daily"] = {"currency", "store", "product"}
  /\ CUBE_DIMENSIONS["order-categories-daily"] = {"currency", "store", "category"}
  /\ CUBE_DIMENSIONS["promotions-daily"] = {"currency", "store", "discountCode"}
  /\ CUBE_DIMENSIONS["fulfilment-daily"] = {"store", "shippingMethod", "carrier"}
BY DEF CUBE_DIMENSIONS, DAILY_CUBES

LEMMA CubeMeasures ==
  /\ CUBE_MEASURES["orders-daily"] = ORDER_MEASURES \cup {"customersNew"}
  /\ CUBE_MEASURES["order-lines-daily"] = ItemMeasures
  /\ CUBE_MEASURES["order-categories-daily"] = ItemMeasures
  /\ CUBE_MEASURES["promotions-daily"] =
       {"redemptions", "ordersPromoted", "discount"}
  /\ CUBE_MEASURES["fulfilment-daily"] = {"shipments", "shipmentsOnTime"}
BY DEF CUBE_MEASURES, DAILY_CUBES

LEMMA CubesOfDay ==
  ASSUME NEW facts, NEW first
  PROVE  LET day == FoldDay(facts, first)
         IN  /\ DOMAIN day = DAILY_CUBES
             /\ day["orders-daily"] = FoldOrdersDaily(facts, first)
             /\ day["order-lines-daily"] =
                  TopItems(FoldOrderLinesDaily(facts), ItemTopN)
             /\ day["order-categories-daily"] = FoldOrderCategoriesDaily(facts)
             /\ day["promotions-daily"] = FoldPromotionsDaily(facts)
             /\ day["fulfilment-daily"] = FoldFulfilmentDaily(facts)
  BY DEF FoldDay, DAILY_CUBES, TopItems

LEMMA CellsOfCube ==
  ASSUME NEW S \in SUBSET DOMAIN Orders, NEW first, NEW cube \in DAILY_CUBES,
         NEW c \in FoldDay(FactsOf(S), first)[cube]
  PROVE  IsCell(c, CUBE_MEASURES[cube])
<1> DEFINE facts == FactsOf(S)
           day == FoldDay(facts, first)
<1>1. \A rows, measures : \A t \in Fold(rows, measures) : IsCell(t, measures)
  <2> SUFFICES ASSUME NEW rows, NEW measures, NEW t \in Fold(rows, measures)
               PROVE  IsCell(t, measures)
    OBVIOUS
  <2>1. t = Row(t.k, t.k, [x \in measures |-> SumOf(Part(rows, t.k), x)])
    BY CellsOfFold
  <2>2. Row(t.k, t.k, [x \in measures |-> SumOf(Part(rows, t.k), x)]).m
          = [x \in measures |-> SumOf(Part(rows, t.k), x)]
    BY DEF Row
  <2>3. t.m = [x \in measures |-> SumOf(Part(rows, t.k), x)]
    BY <2>1, <2>2
  <2> QED
    BY <2>1, <2>3 DEF IsCell
<1>2. ASSUME NEW cells, \A t \in cells : IsCell(t, ItemMeasures),
             NEW t \in TopItems(cells, ItemTopN)
      PROVE  IsCell(t, ItemMeasures)
  <2> DEFINE n == ItemTopN
  <2>1. PICK store \in GroupsBy(cells, LAMBDA r : r.k.store) :
          t \in TopNWithResidual(store, "revenueNet", n)
    BY DEF TopItems
  <2>2. store \subseteq cells
    BY DEF GroupsBy
  <2> DEFINE head == Largest(store, "revenueNet", n)
             k1 == (CHOOSE r \in store : TRUE).k
             k == [currency |-> k1.currency, store |-> k1.store,
                   product |-> OTHER_BUCKET]
             sums == [y \in ItemMeasures |-> SumOf(store \ head, y)]
             rest == Row(k, k, sums)
  <2>3. t \in IF Cardinality(store) <= n THEN store ELSE head \cup {rest}
    BY <2>1 DEF TopNWithResidual
  <2>4. head \subseteq store
    BY LargestAreRows
  <2>5. DOMAIN sums = ItemMeasures
    OBVIOUS
  <2> HIDE DEF head, k, sums, n
  <2>6. IsCell(rest, ItemMeasures)
    BY <2>5 DEF Row, IsCell
  <2> HIDE DEF rest
  <2>7. t \in store \/ t = rest
    BY <2>3, <2>4
  <2> QED
    BY <1>2, <2>2, <2>6, <2>7
<1>3. c \in day[cube]
  OBVIOUS
<1> HIDE DEF day, facts
<1>4. /\ day["orders-daily"] = FoldOrdersDaily(facts, first)
      /\ day["order-lines-daily"] = TopItems(FoldOrderLinesDaily(facts), ItemTopN)
      /\ day["order-categories-daily"] = FoldOrderCategoriesDaily(facts)
      /\ day["promotions-daily"] = FoldPromotionsDaily(facts)
      /\ day["fulfilment-daily"] = FoldFulfilmentDaily(facts)
  BY CubesOfDay DEF day
<1>5. /\ \A t \in FoldOrderLinesDaily(facts) : IsCell(t, ItemMeasures)
      /\ \A t \in FoldOrderCategoriesDaily(facts) : IsCell(t, ItemMeasures)
      /\ \A t \in FoldOrdersDaily(facts, first) :
           IsCell(t, ORDER_MEASURES \cup {"customersNew"})
      /\ \A t \in FoldPromotionsDaily(facts) :
           IsCell(t, {"redemptions", "ordersPromoted", "discount"})
      /\ \A t \in FoldFulfilmentDaily(facts) :
           IsCell(t, {"shipments", "shipmentsOnTime"})
  <2>1. \A t \in FoldOrderLinesDaily(facts) : IsCell(t, ItemMeasures)
    BY <1>1 DEF FoldOrderLinesDaily, ItemRows
  <2>2. \A t \in FoldOrderCategoriesDaily(facts) : IsCell(t, ItemMeasures)
    BY <1>1 DEF FoldOrderCategoriesDaily, ItemRows
  <2>3. \A t \in FoldOrdersDaily(facts, first) :
          IsCell(t, ORDER_MEASURES \cup {"customersNew"})
    BY <1>1 DEF FoldOrdersDaily
  <2>4. \A having, dims, measures :
          \A t \in FoldSome(facts, having, dims, measures) : IsCell(t, measures)
    BY <1>1 DEF FoldSome
  <2> QED
    BY <2>1, <2>2, <2>3, <2>4 DEF FoldPromotionsDaily, FoldFulfilmentDaily
<1>6. \A t \in TopItems(FoldOrderLinesDaily(facts), ItemTopN) :
        IsCell(t, ItemMeasures)
  BY <1>2, <1>5
<1>7. CASE cube = "orders-daily"
  BY <1>3, <1>4, <1>5, <1>7, CubeMeasures
<1>8. CASE cube = "order-lines-daily"
  BY <1>3, <1>4, <1>6, <1>8, CubeMeasures
<1>9. CASE cube = "order-categories-daily"
  BY <1>3, <1>4, <1>5, <1>9, CubeMeasures
<1>10. CASE cube = "promotions-daily"
  BY <1>3, <1>4, <1>5, <1>10, CubeMeasures
<1>11. CASE cube = "fulfilment-daily"
  BY <1>3, <1>4, <1>5, <1>11, CubeMeasures
<1> QED
  BY <1>7, <1>8, <1>9, <1>10, <1>11 DEF DAILY_CUBES

LEMMA CubeIsRead ==
  ASSUME NEW q, Carried(q), NEW m \in q.metrics, m \in DOMAIN CUBE_BY_METRIC
  PROVE  ReadFor(m, q, CubeOf(m, q), MEASURE_BY_METRIC[m])
<1> DEFINE cube == CubeOf(m, q)
           x == MEASURE_BY_METRIC[m]
           G == GroupDims(q)
<1>1. cube \in CubesOf(q) /\ CubesFor({m}, G) = {cube}
  BY DEF CubesOf, CubesFor, CubeOf
<1>2. cube \in DAILY_CUBES /\ G \cup FilterDims(q) \subseteq CUBE_DIMENSIONS[cube]
  BY <1>1 DEF Carried
<1>3. Mixed(m, q) = IF cube = "order-lines-daily"
                      THEN {"product", "currency"} ELSE {}
  <2> HIDE DEF cube
  <2>1. {cube} = {"order-lines-daily"} <=> cube = "order-lines-daily"
    OBVIOUS
  <2> QED
    BY <1>1, <2>1 DEF Mixed
<1>4. /\ CUBE_BY_METRIC[m] # "order-categories-daily"
      /\ CUBE_BY_METRIC[m] = "order-lines-daily" =>
           m \in ITEM_METRICS /\ x \in {"units", "cost"}
      /\ m \in ITEM_METRICS => x \in ItemMeasures
  BY MeasureAssumption
<1>5. SplitsItems(q) <=> "product" \in G \/ "category" \in G
  BY DEF SplitsItems
<1>6. /\ "category" \in G => cube = "order-categories-daily"
      /\ "product" \in G => cube = "order-lines-daily"
  <2>1. \A c \in DAILY_CUBES :
          /\ "category" \in CUBE_DIMENSIONS[c] => c = "order-categories-daily"
          /\ "product" \in CUBE_DIMENSIONS[c] => c = "order-lines-daily"
    BY CubeDimensions DEF DAILY_CUBES, OrderDims
  <2> QED
    BY <1>2, <2>1
<1>7. cube = "order-categories-daily" => SplitsItems(q) /\ x \in ItemMeasures
  BY <1>4, <1>5 DEF CubeOf
<1>8. cube = "order-lines-daily" => m \in ITEM_METRICS
  BY <1>4 DEF CubeOf
<1>9. ~SplitsItems(q) => cube = CUBE_BY_METRIC[m]
  BY <1>5 DEF CubeOf
<1>10. cube = "order-lines-daily" => AsksItems(q, x)
  BY <1>4, <1>8, <1>9 DEF AsksItems
<1> QED
  BY <1>1, <1>2, <1>3, <1>5, <1>6, <1>7, <1>9, <1>10 DEF ReadFor

(* Whatever the cube, what is chosen of its cells of a day has the figures *)
(* that are due of the orders of that day.                                 *)
LEMMA CubeIsExact ==
  ASSUME NEW S \in SUBSET DOMAIN Orders, NEW q, Carried(q),
         NEW m \in q.metrics, m \in DOMAIN CUBE_BY_METRIC,
         FilterDims(q) \cap Mixed(m, q) = {},
         NEW d \in EachDay(q.timeRange), NEW key,
         NEW columns, columns \subseteq (GroupDims(q) \cup WithDate(q)) \ Mixed(m, q),
         NEW first, first # Null,
         AgreeOnFirst(S, first, d, q, columns, MEASURE_BY_METRIC[m])
  PROVE  SameFigures(Chosen(FoldDay(FactsOf(OnDay(S, d)), first)[CubeOf(m, q)],
                            q, d, columns, key), MEASURE_BY_METRIC[m],
                     DueOn(q, S, d, columns, key), m)
<1> DEFINE cube == CubeOf(m, q)
           x == MEASURE_BY_METRIC[m]
           facts == FactsOf(OnDay(S, d))
           day == FoldDay(facts, first)
           dues == DueOn(q, S, d, columns, key)
<1>1. ReadFor(m, q, cube, x)
  BY CubeIsRead
<1>2. /\ CUBE_BY_METRIC[m] = "orders-daily" =>
           x \in ORDER_MEASURES \cup {"customersNew", "customersActive"}
      /\ CUBE_BY_METRIC[m] = "promotions-daily" => x = "redemptions"
      /\ CUBE_BY_METRIC[m] = "fulfilment-daily" =>
           x \in {"shipments", "shipmentsOnTime"}
  BY MeasureAssumption
<1>3. columns \subseteq GroupDims(q) \cup {"date"}
  BY DEF WithDate
<1>4. /\ day["orders-daily"] = FoldOrdersDaily(facts, first)
      /\ day["order-lines-daily"] = TopItems(FoldOrderLinesDaily(facts), ItemTopN)
      /\ day["order-categories-daily"] = FoldOrderCategoriesDaily(facts)
      /\ day["promotions-daily"] = FoldPromotionsDaily(facts)
      /\ day["fulfilment-daily"] = FoldFulfilmentDaily(facts)
  BY CubesOfDay
<1>5. OnDay(S, d) \in SUBSET DOMAIN Orders
  BY DEF OnDay
<1> HIDE DEF cube, x, facts, day, dues
<1> USE DEF ReadFor
<1>6. CASE cube = "order-categories-daily"
  <2>1. AsksOf(q, columns, {"currency", "store", "category"})
    BY <1>1, <1>3, <1>6, CubeDimensions DEF AsksOf
  <2>2. SplitsItems(q) /\ x \in ItemMeasures /\ x = MEASURE_BY_METRIC[m]
    BY <1>1, <1>6 DEF x
  <2>3. SameFigures(Chosen(FoldOrderCategoriesDaily(facts), q, d, columns, key),
                    x, dues, m)
    BY <2>1, <2>2, CategoriesAreExact DEF facts, dues
  <2> QED
    BY <1>4, <1>6, <2>3 DEF x, cube, day, facts, dues
<1>7. CASE cube = "order-lines-daily"
  <2>1. AsksOf(q, columns, {"store"})
    BY <1>1, <1>3, <1>7, CubeDimensions DEF AsksOf
  <2>2. AsksItems(q, x) /\ x = MEASURE_BY_METRIC[m]
    BY <1>1, <1>7 DEF x
  <2>3. SameFigures(Chosen(TopItems(FoldOrderLinesDaily(facts), ItemTopN),
                           q, d, columns, key), x, dues, m)
    BY <2>1, <2>2, LinesAreExact DEF facts, dues
  <2> QED
    BY <1>4, <1>7, <2>3 DEF x, cube, day, facts, dues
<1>a. ASSUME NEW having \in ORDER_MEASURES, NEW dims, NEW measures,
             ~SplitsItems(q), x = MEASURE_BY_METRIC[m],
             x \in measures \cap ORDER_MEASURES, "date" \notin dims,
             dims \subseteq {"currency", "store", "discountCode",
                             "shippingMethod", "carrier"},
             GroupDims(q) \cup FilterDims(q) \subseteq dims,
             OnlySomeHave(S, d, having, x),
             day[cube] = FoldSome(facts, having, dims, measures)
      PROVE  SameFigures(Chosen(day[cube], q, d, columns, key), x, dues, m)
  <2>1. AsksOf(q, columns, dims)
    BY <1>3, <1>a DEF AsksOf
  <2> QED
    BY <1>a, <2>1, SomeAreExact DEF facts, dues
<1>8. CASE cube = "promotions-daily"
  <2> DEFINE having == "redemptions"
             dims == {"currency", "store", "discountCode"}
             measures == {"redemptions", "ordersPromoted", "discount"}
  <2>1. /\ ~SplitsItems(q) /\ x = "redemptions" /\ x = MEASURE_BY_METRIC[m]
        /\ GroupDims(q) \cup FilterDims(q) \subseteq dims
    BY <1>1, <1>2, <1>8, CubeDimensions DEF x
  <2>2. having \in ORDER_MEASURES /\ OnlySomeHave(S, d, having, x)
    BY <1>5, <2>1, OthersHaveNone DEF ORDER_MEASURES, OnlySomeHave
  <2>3. day[cube] = FoldSome(facts, having, dims, measures)
    BY <1>4, <1>8 DEF FoldPromotionsDaily
  <2>4. /\ x \in measures \cap ORDER_MEASURES /\ "date" \notin dims
        /\ dims \subseteq {"currency", "store", "discountCode",
                           "shippingMethod", "carrier"}
    BY <2>1 DEF ORDER_MEASURES
  <2> HIDE DEF having, dims, measures
  <2> QED
    BY <1>a, <2>1, <2>2, <2>3, <2>4 DEF x, cube, day, facts, dues
<1>9. CASE cube = "fulfilment-daily"
  <2> DEFINE having == "shipments"
             dims == {"store", "shippingMethod", "carrier"}
             measures == {"shipments", "shipmentsOnTime"}
  <2>1. /\ ~SplitsItems(q) /\ x \in measures /\ x = MEASURE_BY_METRIC[m]
        /\ GroupDims(q) \cup FilterDims(q) \subseteq dims
    BY <1>1, <1>2, <1>9, CubeDimensions DEF x
  <2>2. having \in ORDER_MEASURES /\ OnlySomeHave(S, d, having, x)
    BY <1>5, <2>1, OthersHaveNone DEF ORDER_MEASURES, OnlySomeHave
  <2>3. day[cube] = FoldSome(facts, having, dims, measures)
    BY <1>4, <1>9 DEF FoldFulfilmentDaily
  <2>4. /\ x \in measures \cap ORDER_MEASURES /\ "date" \notin dims
        /\ dims \subseteq {"currency", "store", "discountCode",
                           "shippingMethod", "carrier"}
    BY <2>1 DEF ORDER_MEASURES
  <2> HIDE DEF having, dims, measures
  <2> QED
    BY <1>a, <2>1, <2>2, <2>3, <2>4 DEF x, cube, day, facts, dues
<1>10. CASE cube = "orders-daily"
  <2>1. AsksOf(q, columns, OrderDims \cup {"customerType"})
    <3>1. "date" \notin OrderDims
      BY DEF OrderDims
    <3> QED
      BY <1>1, <1>3, <1>10, <3>1, CubeDimensions DEF AsksOf
  <2>2. /\ ~SplitsItems(q) /\ x = MEASURE_BY_METRIC[m]
        /\ x \in ORDER_MEASURES \cup {"customersNew", "customersActive"}
    BY <1>1, <1>2, <1>10 DEF x
  <2>3. CASE x \in ORDER_MEASURES \cup {"customersNew"}
    <3>1. AgreeOnFirst(S, first, d, q, columns, x)
      BY DEF x
    <3>2. LET some == Chosen(FoldOrdersDaily(FactsOf(OnDay(S, d)), first),
                            q, d, columns, key)
              due == DueOn(q, S, d, columns, key)
          IN  Countable(some, x) /\ Countable(due, m) /\ Tot(some, x) = Tot(due, m)
      BY <2>1, <2>2, <2>3, <3>1, OrdersAreExact
    <3>3. SameFigures(Chosen(FoldOrdersDaily(facts, first), q, d, columns, key),
                      x, dues, m)
      BY <3>2 DEF SameFigures, facts, dues
    <3> QED
      BY <1>4, <1>10, <3>3 DEF x, cube, day, facts, dues
  <2>4. CASE x = "customersActive"
    <3> DEFINE some == Chosen(day[cube], q, d, columns, key)
               A == AskedOn(q, S, d, columns, key)
    <3>1. /\ "customersActive" \notin ORDER_MEASURES \cup {"customersNew"}
          /\ x # "cost" /\ x # "customersNew"
      BY <2>4 DEF ORDER_MEASURES
    <3>2. \A c \in some : Figure(c, x) = Null
      <4>1. \A c \in day[cube] : DOMAIN c.m = CUBE_MEASURES[cube]
        BY <1>1, <1>5, CellsOfCube DEF day, facts, IsCell
      <4> QED
        BY <1>10, <2>4, <3>1, <4>1, CubeMeasures DEF Figure, Chosen
    <3>3. IsFiniteSet(some)
      <4>1. Numeric(day[cube])
        BY <1>1, <1>5, DayIsNumeric, CubesOfDay DEF day, facts
      <4> QED
        BY <4>1, FS_Subset DEF Numeric, Chosen
    <3>4. /\ A \in SUBSET S /\ IsFiniteSet(A)
          /\ \A t \in dues : \E o \in A : t = DueOrder(q, S, o)
      BY <2>2, DueOfDay DEF dues
    <3>5. \A t \in dues : Figure(t, m) = Null
      <4>1. \A o \in A : DueOfOrder(Fact[o], FirstOf(S), x) = Null
        BY <2>4, <3>1 DEF DueOfOrder
      <4>2. \A o \in A :
              Figure(DueOrder(q, S, o), m) = DueOfOrder(Fact[o], FirstOf(S), x)
        BY DEF DueOrder, Row, Figure, x
      <4> QED
        BY <3>4, <4>1, <4>2
    <3>6. IsFiniteSet(dues)
      <4> DEFINE f == [o \in A |-> DueOrder(q, S, o)]
      <4>1. \A t \in dues : \E o \in A : t = f[o]
        BY <3>4
      <4> HIDE DEF f, A
      <4> QED
        BY <3>4, <4>1, MadeOfFew
    <3> HIDE DEF some, A
    <3>7. AddUpTo(some, x, 0) /\ AddUpTo(dues, m, 0)
      BY <3>2, <3>3, <3>5, <3>6, NoFigures
    <3>8. SameFigures(some, x, dues, m)
      BY <3>7 DEF SameFigures, AddUpTo
    <3> QED
      BY <3>8 DEF some, x, cube, day, facts, dues
  <2> QED
    BY <2>2, <2>3, <2>4
<1> QED
  BY <1>1, <1>6, <1>7, <1>8, <1>9, <1>10 DEF DAILY_CUBES

-----------------------------------------------------------------------------
(* From the cells of the days to the rows of an answer                     *)

LEMMA CellIsDated ==
  ASSUME NEW d, NEW name, NEW c
  PROVE  LET t == CellOfDay(d, name, c)
         IN  /\ t.id = <<d, name, c.k>> /\ t.k = DatedKey(c.k, d) /\ t.m = c.m
             /\ t.k["date"] = d /\ Value(t.k, "date") = d
<1> DEFINE k == DatedKey(c.k, d)
           t == CellOfDay(d, name, c)
<1>1. t = Row(<<d, name, c.k>>, k, c.m)
  BY DEF CellOfDay, DatedKey
<1>2. "date" \in DOMAIN k /\ k["date"] = d
  BY DEF DatedKey
<1> HIDE DEF k, t
<1>3. t.id = <<d, name, c.k>> /\ t.k = k /\ t.m = c.m
  BY <1>1 DEF Row
<1> QED
  BY <1>2, <1>3 DEF Value, k, t

LEMMA RowsOfDays ==
  ASSUME NEW stored, NEW q, NEW names
  PROVE  \A t : t \in ReadDays(q, stored, names) <=>
           \E d \in DOMAIN stored \cap EachDay(q.timeRange) :
             \E name \in names \cap DOMAIN stored[d] : \E c \in stored[d][name] :
               Passes(c.k, Allowed(q)) /\ t = CellOfDay(d, name, c)
<1> DEFINE days == DOMAIN stored \cap EachDay(q.timeRange)
           KeptOf(d, name) == {b \in stored[d][name] : Passes(b.k, Allowed(q))}
           Made(d, name) == {CellOfDay(d, name, c) : c \in KeptOf(d, name)}
           OfDay(d) == UNION {Made(d, name) : name \in names \cap DOMAIN stored[d]}
<1>1. ReadDays(q, stored, names) = UNION {OfDay(d) : d \in days}
  BY DEF ReadDays, CellOfDay
<1>2. \A d, name : \A t :
        t \in Made(d, name) <=> \E c \in stored[d][name] :
          Passes(c.k, Allowed(q)) /\ t = CellOfDay(d, name, c)
  OBVIOUS
<1> HIDE DEF Made
<1>3. \A d : \A t :
        t \in OfDay(d) <=> \E name \in names \cap DOMAIN stored[d] : t \in Made(d, name)
  OBVIOUS
<1> HIDE DEF OfDay, days
<1>4. \A t : t \in ReadDays(q, stored, names) <=> \E d \in days : t \in OfDay(d)
  BY <1>1
<1> QED
  BY <1>2, <1>3, <1>4 DEF days

(* No other cube a query reads has the measure of a metric that is read    *)
(* once.                                                                   *)
LEMMA OnlyCube ==
  ASSUME NEW q, Carried(q), NEW m \in q.metrics, m \in DOMAIN CUBE_BY_METRIC,
         ReadOnce(m, q), NEW other \in CubesOf(q), other # CubeOf(m, q)
  PROVE  other \in DAILY_CUBES /\ MEASURE_BY_METRIC[m] \notin CUBE_MEASURES[other]
<1> DEFINE cube == CubeOf(m, q)
           x == MEASURE_BY_METRIC[m]
<1>1. ReadFor(m, q, cube, x)
  BY CubeIsRead
<1>2. /\ cube = "orders-daily" =>
           x \in ORDER_MEASURES \cup {"customersNew", "customersActive"}
      /\ cube = "promotions-daily" => x = "redemptions"
      /\ cube = "fulfilment-daily" => x \in {"shipments", "shipmentsOnTime"}
  <2> HIDE DEF cube, x
  <2>1. cube \in {"orders-daily", "promotions-daily", "fulfilment-daily"} =>
          cube = CUBE_BY_METRIC[m]
    BY <1>1 DEF ReadFor
  <2> QED
    BY <2>1, MeasureAssumption DEF x
<1>3. other \in DAILY_CUBES
  BY DEF Carried
<1>4. x \in CUBE_MEASURES[cube] \/ x = "customersActive"
  <2> HIDE DEF cube, x
  <2>1. AsksItems(q, x) => x \in ItemMeasures
    BY DEF AsksItems, ItemMeasures
  <2> QED
    BY <1>1, <1>2, <2>1, CubeMeasures DEF DAILY_CUBES, ReadFor
<1>5. "customersActive" \notin CUBE_MEASURES[other]
  BY <1>3, CubeMeasures DEF DAILY_CUBES, ORDER_MEASURES, ItemMeasures
<1>6. x \in CUBE_MEASURES[cube] /\ x \in CUBE_MEASURES[other] => cube = other
  BY <1>1 DEF ReadOnce, ReadFor
<1> HIDE DEF cube, x
<1> QED
  BY <1>3, <1>4, <1>5, <1>6 DEF cube, x

(* The rows read from a cube of a day have the figures of its cells.       *)
LEMMA RowsFromCells ==
  ASSUME NEW cells, NEW measures, \A c \in cells : IsCell(c, measures),
         NEW q, NEW d, NEW name, NEW columns, NEW key, NEW x,
         Countable(Chosen(cells, q, d, columns, key), x)
  PROVE  /\ Countable(RowsFrom(cells, q, d, name, columns, key), x)
         /\ Tot(RowsFrom(cells, q, d, name, columns, key), x)
              = Tot(Chosen(cells, q, d, columns, key), x)
<1> DEFINE chosen == Chosen(cells, q, d, columns, key)
           rows == RowsFrom(cells, q, d, name, columns, key)
           f == [c \in chosen |-> CellOfDay(d, name, c)]
<1>1. f \in [chosen -> rows] /\ \A t \in rows : \E c \in chosen : f[c] = t
  BY DEF RowsFrom
<1>2. \A c \in chosen : /\ f[c].id = <<d, name, c.k>> /\ f[c].m = c.m
  <2> TAKE c \in chosen
  <2>1. f[c] = CellOfDay(d, name, c)
    OBVIOUS
  <2> HIDE DEF f
  <2> QED
    BY <2>1, CellIsDated
<1>3. \A c \in chosen : IsCell(c, measures) /\ c = Row(c.k, c.k, c.m)
  BY DEF Chosen, IsCell
<1> HIDE DEF chosen, rows, f
<1>4. \A b, c \in chosen : f[b] = f[c] => b = c
  BY <1>2, <1>3
<1>5. \A c \in chosen : Figure(f[c], x) = Figure(c, x)
  BY <1>2 DEF Figure
<1>6. Countable(chosen, x)
  BY DEF chosen
<1> QED
  BY <1>1, <1>4, <1>5, <1>6, TotIsSame DEF chosen, rows

LEMMA StoredAreNumeric ==
  ASSUME NEW stored, NEW S, NEW firsts, HoldsDays(stored, S, firsts), NEW q, NEW names
  PROVE  Numeric(ReadDays(q, stored, names))
<1>1. \A d \in DOMAIN stored :
        /\ IsFiniteSet(DOMAIN stored[d]) /\ DOMAIN stored[d] = DAILY_CUBES
        /\ \A name \in DOMAIN stored[d] : Numeric(stored[d][name])
  <2> TAKE d \in DOMAIN stored
  <2> DEFINE T == OnDay(S, d)
             day == FoldDay(FactsOf(T), firsts[d])
  <2>1. T \in SUBSET DOMAIN Orders
    BY DEF HoldsDays, OnDay
  <2>2. stored[d] = day
    BY DEF HoldsDays
  <2> HIDE DEF T
  <2>3. DOMAIN day = DAILY_CUBES
    BY CubesOfDay
  <2>4. \A cube \in DOMAIN day : Numeric(day[cube])
    BY <2>1, DayIsNumeric
  <2>5. IsFiniteSet(DAILY_CUBES)
    BY FiveAreFew DEF DAILY_CUBES
  <2> HIDE DEF day
  <2> QED
    BY <2>2, <2>3, <2>4, <2>5
<1> QED
  BY <1>1, DaysAreNumeric DEF HoldsDays

(* What a query is due is of the days of its range, one part for each.     *)
LEMMA DueIsDated ==
  ASSUME NEW S \in SUBSET DOMAIN Orders, NEW q, NEW r \in DueRows(q, S)
  PROVE  /\ r.k["date"] \in EachDay(q.timeRange)
         /\ \E o \in S : r.k["date"] = Fact[o].businessDate
<1>1. CASE SplitsItems(q)
  <2>1. IsAsked(q, r) /\ \E o \in S : \E i \in Fact[o].items : r = DueItem(q, S, o, i)
    BY <1>1, DueOfItems
  <2>a. PICK o \in S : \E i \in Fact[o].items : r = DueItem(q, S, o, i)
    BY <2>1
  <2>2. PICK i \in Fact[o].items : r = DueItem(q, S, o, i)
    BY <2>a
  <2>3. ItemKey(Fact[o], i, FirstOf(S))["date"] = Fact[o].businessDate
    BY ItemKeys
  <2>4. r.k["date"] = Fact[o].businessDate
    BY <2>2, <2>3 DEF DueItem, Row
  <2> QED
    BY <2>1, <2>4 DEF IsAsked
<1>2. CASE ~SplitsItems(q)
  <2>1. IsAsked(q, r) /\ \E o \in S : r = DueOrder(q, S, o)
    BY <1>2, DueOfOrders
  <2>2. PICK o \in S : r = DueOrder(q, S, o)
    BY <2>1
  <2>3. OrderKey(Fact[o], FirstOf(S))["date"] = Fact[o].businessDate
    BY OrderKeys
  <2>4. r.k["date"] = Fact[o].businessDate
    BY <2>2, <2>3 DEF DueOrder, Row
  <2> QED
    BY <2>1, <2>4 DEF IsAsked
<1> QED
  BY <1>1, <1>2

LEMMA DueIsShared ==
  ASSUME NEW stored, NEW S, NEW firsts, HoldsDays(stored, S, firsts), NEW q,
         NEW m, NEW columns, NEW key,
         NEW D, D = DOMAIN stored \cap EachDay(q.timeRange),
         \A d \in D : Countable(DueOn(q, S, d, columns, key), m)
  PROVE  SharedOut(D, [d \in D |-> DueOn(q, S, d, columns, key)],
                   AtKey(DueRows(q, S), columns, key), m)
<1> DEFINE rows == DueRows(q, S)
           out == AtKey(rows, columns, key)
           of == [d \in D |-> DueOn(q, S, d, columns, key)]
<1>1. S \in SUBSET DOMAIN Orders /\ IsFiniteSet(DOMAIN stored)
  BY DEF HoldsDays
<1>2. IsFiniteSet(D)
  BY <1>1, FS_Subset
<1>3. \A d \in D : \A r :
        r \in of[d] <=> r \in rows /\ r.k["date"] = d /\ KeyFor(r.k, columns) = key
  BY DEF DueOn
<1>4. \A r : r \in out <=> r \in rows /\ KeyFor(r.k, columns) = key
  BY DEF AtKey
<1>5. \A r \in rows : r.k["date"] \in D
  <2> TAKE r \in rows
  <2>1. /\ r.k["date"] \in EachDay(q.timeRange)
        /\ \E o \in S : r.k["date"] = Fact[o].businessDate
    BY <1>1, DueIsDated
  <2> QED
    BY <2>1 DEF HoldsDays
<1>6. \A d \in D : Countable(of[d], m)
  OBVIOUS
<1> HIDE DEF rows, out, of
<1> QED
  BY <1>2, <1>3, <1>4, <1>5, <1>6 DEF SharedOut, rows, out, of

LEMMA OwnIsShared ==
  ASSUME NEW stored, NEW S, NEW firsts, HoldsDays(stored, S, firsts), NEW q,
         NEW x, NEW columns, NEW key, NEW names, NEW cube \in names,
         cube \in DAILY_CUBES,
         NEW D, D = DOMAIN stored \cap EachDay(q.timeRange),
         NEW at, at = [d \in D |-> RowsFrom(stored[d][cube], q, d, cube, columns, key)],
         \A d \in D : Countable(at[d], x)
  PROVE  SharedOut(D, at, OfCube(AtKey(ReadDays(q, stored, names), columns, key), cube), x)
<1> DEFINE all == ReadDays(q, stored, names)
           own == OfCube(AtKey(all, columns, key), cube)
<1>1. IsFiniteSet(D)
  BY FS_Subset DEF HoldsDays
<1>2. \A t : t \in all <=>
        \E d \in D : \E name \in names \cap DOMAIN stored[d] :
          \E c \in stored[d][name] :
            Passes(c.k, Allowed(q)) /\ t = CellOfDay(d, name, c)
  BY RowsOfDays
<1>3. \A d \in D : \A t : t \in at[d] <=>
        \E c \in stored[d][cube] :
          /\ Passes(c.k, Allowed(q)) /\ KeyFor(DatedKey(c.k, d), columns) = key
          /\ t = CellOfDay(d, cube, c)
  BY DEF RowsFrom, Chosen
<1>4. \A d \in D : cube \in DOMAIN stored[d]
  BY CubesOfDay DEF HoldsDays
<1>5. \A t : t \in own <=> /\ t \in all /\ KeyFor(t.k, columns) = key
                           /\ \E d, k : t.id = <<d, cube, k>>
  BY DEF AtKey, OfCube
<1> HIDE DEF all, own
<1>6. ASSUME NEW d \in D, NEW t \in at[d]
      PROVE  t \in own /\ \E k : t.id = <<d, cube, k>>
  <2>1. PICK c \in stored[d][cube] :
          /\ Passes(c.k, Allowed(q)) /\ KeyFor(DatedKey(c.k, d), columns) = key
          /\ t = CellOfDay(d, cube, c)
    BY <1>3
  <2>2. t.id = <<d, cube, c.k>> /\ t.k = DatedKey(c.k, d)
    BY <2>1, CellIsDated
  <2>3. t \in all
    BY <1>2, <1>4, <2>1
  <2> QED
    BY <1>5, <2>1, <2>2, <2>3
<1>7. ASSUME NEW t \in own PROVE \E d \in D : t \in at[d]
  <2>1. t \in all /\ KeyFor(t.k, columns) = key /\ \E d, k : t.id = <<d, cube, k>>
    BY <1>5
  <2>2. PICK d \in D : \E name \in names \cap DOMAIN stored[d] :
          \E c \in stored[d][name] :
            Passes(c.k, Allowed(q)) /\ t = CellOfDay(d, name, c)
    BY <1>2, <2>1
  <2>3. PICK name \in names \cap DOMAIN stored[d] :
          \E c \in stored[d][name] :
            Passes(c.k, Allowed(q)) /\ t = CellOfDay(d, name, c)
    BY <2>2
  <2>4. PICK c \in stored[d][name] :
          Passes(c.k, Allowed(q)) /\ t = CellOfDay(d, name, c)
    BY <2>3
  <2>5. t.id = <<d, name, c.k>> /\ t.k = DatedKey(c.k, d)
    BY <2>4, CellIsDated
  <2>6. name = cube
    BY <2>1, <2>5
  <2> QED
    BY <1>3, <2>1, <2>4, <2>5, <2>6
<1>8. \A d, e \in D : \A r \in at[d] : r \in at[e] => d = e
  <2> SUFFICES ASSUME NEW d \in D, NEW e \in D, NEW r \in at[d], r \in at[e]
               PROVE  d = e
    OBVIOUS
  <2>1. (\E k : r.id = <<d, cube, k>>) /\ (\E k : r.id = <<e, cube, k>>)
    BY <1>6
  <2> QED
    BY <2>1
<1> QED
  BY <1>1, <1>6, <1>7, <1>8 DEF SharedOut, own, all

(* The rows of the other cubes that are read have no figure of it.         *)
LEMMA OthersHaveNoFigure ==
  ASSUME NEW stored, NEW S, NEW firsts, HoldsDays(stored, S, firsts), NEW q,
         NEW m, NEW columns, AsksExactly(q, m, columns), NEW key,
         NEW rows, rows = AtKey(ReadDays(q, stored, CubesOf(q)), columns, key),
         NEW r \in rows \ OfCube(rows, CubeOf(m, q))
  PROVE  Figure(r, MEASURE_BY_METRIC[m]) = Null
<1> DEFINE cube == CubeOf(m, q)
           x == MEASURE_BY_METRIC[m]
           names == CubesOf(q)
<1>1. r \in ReadDays(q, stored, names) /\ ~ \E d, k : r.id = <<d, cube, k>>
  BY DEF AtKey, OfCube
<1>2. PICK d \in DOMAIN stored \cap EachDay(q.timeRange) :
        \E name \in names \cap DOMAIN stored[d] : \E c \in stored[d][name] :
          Passes(c.k, Allowed(q)) /\ r = CellOfDay(d, name, c)
  BY <1>1, RowsOfDays
<1>3. PICK name \in names \cap DOMAIN stored[d] : \E c \in stored[d][name] :
        Passes(c.k, Allowed(q)) /\ r = CellOfDay(d, name, c)
  BY <1>2
<1>4. PICK c \in stored[d][name] :
        Passes(c.k, Allowed(q)) /\ r = CellOfDay(d, name, c)
  BY <1>3
<1>5. r.id = <<d, name, c.k>> /\ r.m = c.m
  BY <1>4, CellIsDated
<1>6. name # cube
  BY <1>1, <1>5
<1>7. name \in DAILY_CUBES /\ x \notin CUBE_MEASURES[name]
  <2>1. /\ Carried(q) /\ m \in q.metrics /\ m \in DOMAIN CUBE_BY_METRIC
        /\ ReadOnce(m, q)
    BY DEF AsksExactly
  <2>2. name \in CubesOf(q)
    BY <1>3
  <2> HIDE DEF names
  <2> QED
    BY <1>6, <2>1, <2>2, OnlyCube DEF cube, x
<1>8. IsCell(c, CUBE_MEASURES[name])
  <2> DEFINE T == OnDay(S, d)
  <2>1. T \in SUBSET DOMAIN Orders
    BY DEF HoldsDays, OnDay
  <2>2. stored[d] = FoldDay(FactsOf(T), firsts[d])
    BY DEF HoldsDays
  <2> HIDE DEF T
  <2>3. c \in FoldDay(FactsOf(T), firsts[d])[name]
    BY <1>4, <2>2
  <2> QED
    BY <1>7, <2>1, <2>3, CellsOfCube
<1> HIDE DEF x
<1>9. x \notin DOMAIN r.m
  BY <1>5, <1>7, <1>8 DEF IsCell
<1> QED
  BY <1>9 DEF Figure, x

LEMMA DaysAreExact ==
  ASSUME NEW stored, NEW S, NEW firsts, HoldsDays(stored, S, firsts), NEW q,
         NEW m, NEW columns, AsksExactly(q, m, columns), NEW key,
         FirstsAgree(stored, S, firsts, q, columns, MEASURE_BY_METRIC[m])
  PROVE  SameFigures(AtKey(ReadDays(q, stored, CubesOf(q)), columns, key),
                     MEASURE_BY_METRIC[m],
                     AtKey(DueRows(q, S), columns, key), m)
<1> DEFINE cube == CubeOf(m, q)
           x == MEASURE_BY_METRIC[m]
           names == CubesOf(q)
           all == ReadDays(q, stored, names)
           rows == AtKey(all, columns, key)
           own == OfCube(rows, cube)
           dues == AtKey(DueRows(q, S), columns, key)
           D == DOMAIN stored \cap EachDay(q.timeRange)
           at == [d \in D |-> RowsFrom(stored[d][cube], q, d, cube, columns, key)]
           of == [d \in D |-> DueOn(q, S, d, columns, key)]
<1>1. /\ Carried(q) /\ m \in q.metrics /\ m \in DOMAIN CUBE_BY_METRIC
      /\ FilterDims(q) \cap Mixed(m, q) = {}
      /\ columns \subseteq (GroupDims(q) \cup WithDate(q)) \ Mixed(m, q)
  BY DEF AsksExactly
<1>2. S \in SUBSET DOMAIN Orders
  BY DEF HoldsDays
<1>3. cube \in names /\ cube \in DAILY_CUBES
  BY <1>1, CubeIsRead DEF ReadFor
<1>4. Countable(rows, x)
  <2>1. Numeric(all)
    BY StoredAreNumeric
  <2>2. rows \in SUBSET all
    BY DEF AtKey
  <2> HIDE DEF all, rows
  <2>3. Numeric(rows)
    BY <2>1, <2>2, FewerAreNumeric
  <2> QED
    BY <2>3, NumericIsCountable
<1>5. own \in SUBSET rows /\ \A r \in rows \ own : Figure(r, x) = Null
  BY OthersHaveNoFigure DEF OfCube
<1>6. Countable(own, x) /\ Tot(own, x) = Tot(rows, x)
  <2> HIDE DEF rows, own, x
  <2> QED
    BY <1>4, <1>5, TotOfFigured
<1>7. ASSUME NEW d \in D
      PROVE  /\ Countable(at[d], x) /\ Countable(of[d], m)
             /\ Tot(of[d], m) = Tot(at[d], x)
  <2> DEFINE cells == FoldDay(FactsOf(OnDay(S, d)), firsts[d])[cube]
             chosen == Chosen(cells, q, d, columns, key)
             made == RowsFrom(cells, q, d, cube, columns, key)
  <2>1. firsts[d] # Null /\ stored[d][cube] = cells
    BY DEF HoldsDays
  <2>2. d \in EachDay(q.timeRange)
    OBVIOUS
  <2>3. AgreeOnFirst(S, firsts[d], d, q, columns, x)
    BY DEF FirstsAgree
  <2>4. SameFigures(chosen, x, DueOn(q, S, d, columns, key), m)
    BY <1>1, <1>2, <2>1, <2>2, <2>3, CubeIsExact
  <2>5. at[d] = made /\ of[d] = DueOn(q, S, d, columns, key)
    BY <2>1
  <2>6. \A c \in cells : IsCell(c, CUBE_MEASURES[cube])
    <3> DEFINE T == OnDay(S, d)
    <3>1. T \in SUBSET DOMAIN Orders
      BY <1>2 DEF OnDay
    <3> HIDE DEF T
    <3>2. \A c \in FoldDay(FactsOf(T), firsts[d])[cube] : IsCell(c, CUBE_MEASURES[cube])
      BY <1>3, <3>1, CellsOfCube
    <3> QED
      BY <3>2 DEF T
  <2>7. Countable(chosen, x)
    BY <2>4 DEF SameFigures
  <2> HIDE DEF cells, x
  <2>8. Countable(made, x) /\ Tot(made, x) = Tot(chosen, x)
    BY <2>6, <2>7, RowsFromCells
  <2> QED
    BY <2>4, <2>5, <2>8 DEF SameFigures
<1>8. SharedOut(D, at, own, x)
  <2>1. \A d \in D : Countable(at[d], x)
    BY <1>7
  <2> HIDE DEF x
  <2> QED
    BY <1>3, <2>1, OwnIsShared
<1>9. SharedOut(D, of, dues, m)
  <2>1. \A d \in D : Countable(DueOn(q, S, d, columns, key), m)
    BY <1>7
  <2> QED
    BY <2>1, DueIsShared
<1>10. Countable(own, x) /\ Countable(dues, m) /\ Tot(dues, m) = Tot(own, x)
  <2>1. \A d \in D : Tot(of[d], m) = Tot(at[d], x)
    BY <1>7
  <2> HIDE DEF D, at, of, own, dues, x
  <2> QED
    BY <1>8, <1>9, <2>1, PartsAreSame
<1> QED
  BY <1>4, <1>6, <1>10 DEF SameFigures

(* Summing by more columns keeps what each key of fewer of them has.       *)
LEMMA SumsKeepKeys ==
  ASSUME NEW rows, Numeric(rows), NEW columns, NEW measure,
         NEW m \in DOMAIN measure, NEW fewer \in SUBSET columns, NEW key
  PROVE  SameFigures(AtKey(SumRows(rows, columns, measure), fewer, key), m,
                     AtKey(rows, fewer, key), measure[m])
<1> DEFINE x == measure[m]
           sums == SumRows(rows, columns, measure)
           out == AtKey(sums, fewer, key)
           from == AtKey(rows, fewer, key)
           group == [t \in out |-> AtKey(rows, columns, t.k)]
           Sum(c) == SumRow(rows, columns, measure, c)
<1>1. Numeric(sums)
  BY SumsAreReported
<1>2. Countable(out, m) /\ Countable(from, x)
  <2>1. out \in SUBSET sums /\ from \in SUBSET rows
    BY DEF AtKey
  <2> HIDE DEF out, sums, from
  <2> QED
    BY <1>1, <2>1, FewerAreNumeric, NumericIsCountable
<1>3. \A t : t \in sums <=> \E r \in rows : t = Sum(KeyFor(r.k, columns))
  BY DEF SumRows
<1>4. \A c : Sum(c).k = c /\ Figure(Sum(c), m) = SumOf(AtKey(rows, columns, c), x)
  <2> TAKE c
  <2> DEFINE figures == [n \in DOMAIN measure |->
                           SumOf(AtKey(rows, columns, c), measure[n])]
  <2>1. DOMAIN figures = DOMAIN measure
        /\ figures[m] = SumOf(AtKey(rows, columns, c), x)
    OBVIOUS
  <2>2. Sum(c) = Row(c, c, figures)
    BY DEF SumRow
  <2> HIDE DEF figures, Sum
  <2>3. Sum(c).k = c /\ Sum(c).m = figures
    BY <2>2 DEF Row
  <2> QED
    BY <2>1, <2>3 DEF Figure
<1>5. \A k : KeyFor(KeyFor(k, columns), fewer) = KeyFor(k, fewer)
  BY DEF KeyFor, Value
<1> HIDE DEF Sum
<1>6. \A t : t \in out <=> t \in sums /\ KeyFor(t.k, fewer) = key
  BY DEF AtKey
<1>7. \A r : r \in from <=> r \in rows /\ KeyFor(r.k, fewer) = key
  BY DEF AtKey
<1>8. \A t \in out : \A r :
        r \in group[t] <=> r \in rows /\ KeyFor(r.k, columns) = t.k
  BY DEF AtKey
<1>9. \A t \in out : FigureOr0(t, m) = Figures(group[t], x)
  <2> TAKE t \in out
  <2>1. PICK r \in rows : t = Sum(KeyFor(r.k, columns))
    BY <1>3, <1>6
  <2>2. t.k = KeyFor(r.k, columns)
    BY <1>4, <2>1
  <2>3. Figure(t, m) = SumOf(AtKey(rows, columns, t.k), x)
    BY <1>4, <2>1, <2>2
  <2>4. group[t] = AtKey(rows, columns, t.k)
    OBVIOUS
  <2> HIDE DEF group, x
  <2> QED
    BY <2>3, <2>4 DEF FigureOr0, Figures
<1> HIDE DEF out, from, sums, group, x
<1>10. \A t \in out : group[t] \subseteq from
  <2> SUFFICES ASSUME NEW t \in out, NEW r \in group[t] PROVE r \in from
    OBVIOUS
  <2>1. r \in rows /\ KeyFor(r.k, columns) = t.k
    BY <1>8
  <2>2. KeyFor(t.k, fewer) = key
    BY <1>6
  <2> QED
    BY <1>5, <1>7, <2>1, <2>2
<1>11. \A r \in from : \E t \in out : r \in group[t]
  <2> SUFFICES ASSUME NEW r \in from PROVE \E t \in out : r \in group[t]
    OBVIOUS
  <2>1. r \in rows /\ KeyFor(r.k, fewer) = key
    BY <1>7
  <2> DEFINE t == Sum(KeyFor(r.k, columns))
  <2>2. t \in sums /\ t.k = KeyFor(r.k, columns)
    BY <1>3, <1>4, <2>1
  <2> HIDE DEF t
  <2>3. t \in out
    BY <1>5, <1>6, <2>1, <2>2
  <2> QED
    BY <1>8, <2>1, <2>2, <2>3
<1>12. \A t, u \in out : \A r \in from : r \in group[t] /\ r \in group[u] => t = u
  <2> SUFFICES ASSUME NEW t \in out, NEW u \in out, NEW r \in from,
                      r \in group[t], r \in group[u]
               PROVE  t = u
    OBVIOUS
  <2>1. t.k = u.k
    BY <1>8
  <2>2. \A v \in out : v = Sum(v.k)
    BY <1>3, <1>4, <1>6
  <2> QED
    BY <2>1, <2>2
<1>13. Tot(out, m) = Tot(from, x)
  BY <1>2, <1>9, <1>10, <1>11, <1>12, Regrouped DEF Countable
<1> QED
  BY <1>2, <1>13 DEF SameFigures, out, from, sums, x

(* What is read of days that hold their orders, at any key, is what is due *)
(* of these.                                                               *)
LEMMA ReadingIsExact ==
  ASSUME NEW stored, NEW S, NEW firsts, HoldsDays(stored, S, firsts), NEW q,
         NEW m, NEW columns, AsksExactly(q, m, columns), NEW key,
         FirstsAgree(stored, S, firsts, q, columns, MEASURE_BY_METRIC[m])
  PROVE  SameFigures(AtKey(CellRows(ReadDays(q, stored, CubesOf(q)), q), columns, key),
                     m, AtKey(DueRows(q, S), columns, key), m)
<1> DEFINE cells == ReadDays(q, stored, CubesOf(q))
           x == MEASURE_BY_METRIC[m]
           wide == GroupDims(q) \cup WithDate(q)
           sums == SumRows(cells, wide, Measured(q))
           dues == AtKey(DueRows(q, S), columns, key)
<1>1. CellRows(cells, q) = sums
  BY CellsAreSums
<1>2. Numeric(cells)
  BY StoredAreNumeric
<1>3. m \in DOMAIN Measured(q) /\ Measured(q)[m] = x
  BY DEF Measured, AsksExactly
<1>4. columns \in SUBSET wide
  BY DEF AsksExactly
<1>5. SameFigures(AtKey(cells, columns, key), x, dues, m)
  BY DaysAreExact
<1> HIDE DEF cells, x, wide, dues
<1>6. SameFigures(AtKey(sums, columns, key), m, AtKey(cells, columns, key), x)
  BY <1>2, <1>3, <1>4, SumsKeepKeys
<1> HIDE DEF sums
<1>7. SameFigures(AtKey(sums, columns, key), m, dues, m)
  BY <1>5, <1>6 DEF SameFigures
<1> QED
  BY <1>1, <1>7 DEF cells, dues

(* The partitions hold the orders they were folded from.                   *)
LEMMA PartitionsHold ==
  ASSUME IInv, JobInv
  PROVE  /\ HoldsDays(Partitions, InCubes, FirstsOfCubes)
         /\ InCubes \in SUBSET orders
         /\ \A o : Folded(o) => o \in InCubes
<1>1. \A o : o \in InCubes <=> \E d \in DOMAIN cubes : o \in cubes[d].orders
  BY DEF InCubes
<1>2. orders \in SUBSET DOMAIN Orders /\ IsFiniteSet(DOMAIN cubes)
  BY DEF JobInv
<1>3. \A d \in DOMAIN cubes : \A o \in cubes[d].orders :
        o \in orders /\ Fact[o].businessDate = d
  BY DEF IInv, OnDay
<1>4. InCubes \in SUBSET orders
  BY <1>1, <1>3
<1>5. \A d \in DOMAIN cubes : OnDay(InCubes, d) = cubes[d].orders
  BY <1>1, <1>3 DEF OnDay
<1>6. \A d \in DOMAIN cubes :
        FirstsOfCubes[d] = FirstOf(cubes[d].known) /\ FirstsOfCubes[d] # Null
  <2> TAKE d \in DOMAIN cubes
  <2>1. cubes[d].known \in SUBSET DOMAIN Orders
    BY <1>2 DEF JobInv
  <2> QED
    BY <2>1, FirstAssumption DEF FirstsOfCubes
<1>7. DOMAIN Partitions = DOMAIN cubes
  BY DEF Partitions
<1>8. \A d \in DOMAIN cubes :
        Partitions[d] = FoldDay(FactsOf(OnDay(InCubes, d)), FirstsOfCubes[d])
  BY <1>5, <1>6 DEF Partitions
<1>9. \A o \in InCubes : Fact[o].businessDate \in DOMAIN Partitions
  BY <1>1, <1>3, <1>7
<1>10. \A o : Folded(o) => o \in InCubes
  BY <1>1 DEF Folded
<1> QED
  BY <1>2, <1>4, <1>6, <1>7, <1>8, <1>9, <1>10 DEF HoldsDays

(* Once all that is there was folded, the cubes hold all of it, and say    *)
(* who is new as all of it does, unless some order came late.              *)
LEMMA ScannedIsHeld ==
  ASSUME IInv, JobInv, AllFolded
  PROVE  /\ InCubes = orders
         /\ ~BackDated => \A q, columns, x :
              FirstsAgree(Partitions, orders, FirstsOfCubes, q, columns, x)
<1>1. InCubes = orders
  BY PartitionsHold DEF AllFolded
<1>2. orders \in SUBSET DOMAIN Orders /\ DOMAIN Partitions = DOMAIN cubes
  BY DEF JobInv, Partitions
<1>3. ASSUME ~BackDated, NEW d \in DOMAIN cubes, NEW o \in OnDay(orders, d)
      PROVE  IsFirst(Fact[o], FirstsOfCubes[d]) <=> IsFirst(Fact[o], FirstOf(orders))
  <2> DEFINE c == Fact[o].customer
             customers == CustomersOf(FactsOf(orders))
             first == FirstOf(orders)
  <2>1. o \in orders /\ Fact[o].businessDate = d /\ Fact[o].orderId = o
    BY <1>2, FactOfOrder DEF OnDay
  <2>2. o \in cubes[d].orders
    BY <2>1 DEF AllFolded, Folded
  <2>3. IsFirst(Fact[o], FirstsOfCubes[d]) <=> o \in CountedAsNew
    BY <2>1, <2>2 DEF FirstsOfCubes, CountedAsNew, NewOn, NewOf
  <2>4. /\ \A e \in customers : FirstIds(orders)[e] \in CountedAsNew
        /\ o \in CountedAsNew => c \in customers /\ o = FirstIds(orders)[c]
    BY <1>3, FirstAreCounted
  <2>5. \A e \in customers : e # Null /\ first[e] = FirstIds(orders)[e]
    BY <1>2, FirstOfOrders
  <2>6. DOMAIN first = customers /\ first # Null
    BY <1>2, FirstAssumption DEF FirstOf, FirstOrderIds
  <2> HIDE DEF first, customers
  <2>7. IsFirst(Fact[o], first) <=> c \in customers /\ first[c] = o
    BY <2>1, <2>5, <2>6 DEF IsFirst
  <2> QED
    BY <2>3, <2>4, <2>5, <2>7 DEF first
<1> QED
  BY <1>1, <1>2, <1>3 DEF FirstsAgree, AgreeOnFirst

(* What ct-native answers from the cubes a carried query reads.            *)
LEMMA AnswerIsRead ==
  ASSUME NEW q, Carried(q), NEW stored, NEW cohort, NEW watermark
  PROVE  CtNativeAnswer(q, stored, cohort, watermark).rows
           = CellRows(ReadDays(q, stored, CubesOf(q)), q)
<1>1. CubesOf(q) = CubesFor(q.metrics, GroupDims(q))
  BY DEF CubesOf
<1>2. CubesOf(q) # {"customers-daily"}
  BY DEF Carried, DAILY_CUBES
<1>3. \A c, ms, rows, p, g : Answered(c, ms, rows, p, g).rows = rows
  BY DEF Answered, ResultSet
<1> DEFINE names == CubesOf(q)
           rows == CellRows(ReadDays(q, stored, names), q)
<1>4. names # {"customers-daily"} /\ names = CubesFor(q.metrics, GroupDims(q))
  BY <1>1, <1>2
<1>5. \E p, g : CtNativeAnswer(q, stored, cohort, watermark)
                  = Answered(GroupDims(q) \cup WithDate(q), q.metrics, rows, p, g)
  <2> HIDE DEF names
  <2> QED
    BY <1>4 DEF CtNativeAnswer
<1> HIDE DEF rows
<1> QED
  BY <1>3, <1>5 DEF rows

(* What is due grows with the orders.                                      *)
LEMMA MoreIsMore ==
  ASSUME NEW rows, NEW more, NEW m, Countable(rows, m), Countable(more, m),
         \A u \in more : Figure(u, m) \in Nat \cup {Null},
         \A t \in rows : \E u \in more : u.id = t.id /\ Figure(u, m) = Figure(t, m),
         \A t, u \in rows : t.id = u.id => t = u
  PROVE  Tot(rows, m) <= Tot(more, m)
<1> DEFINE Like(t) == {u \in more : u.id = t.id /\ Figure(u, m) = Figure(t, m)}
           f == [t \in rows |-> CHOOSE u \in Like(t) : TRUE]
           some == {f[t] : t \in rows}
           rest == more \ some
           figure == [r \in rest |-> FigureOr0(r, m)]
           zero == [r \in rest |-> 0]
<1>1. \A t \in rows : f[t] \in more /\ f[t].id = t.id /\ Figure(f[t], m) = Figure(t, m)
  OBVIOUS
<1>2. f \in [rows -> some] /\ \A u \in some : \E t \in rows : f[t] = u
  OBVIOUS
<1>3. some \in SUBSET more
  BY <1>1, <1>2
<1> HIDE DEF f, some
<1>4. \A t, u \in rows : f[t] = f[u] => t = u
  BY <1>1
<1>5. Tot(some, m) = Tot(rows, m)
  BY <1>1, <1>2, <1>4, TotIsSame
<1>6. /\ Countable(some, m) /\ Countable(rest, m)
      /\ Tot(more, m) = Tot(some, m) + Tot(rest, m)
  BY <1>3, TotOfSome
<1>7. IsFiniteSet(rest) /\ \A r \in rest : zero[r] = 0 /\ figure[r] \in Nat
  BY <1>6, NullAssumption DEF Countable, FigureOr0, OrZero
<1>8. Tot(rest, m) = SumFunctionOnSet(figure, rest)
  BY DEF Tot
<1> HIDE DEF figure, zero, rest
<1>9. SumFunctionOnSet(zero, rest) <= SumFunctionOnSet(figure, rest)
  BY <1>7, SumIsMonotone
<1>10. SumFunctionOnSet(zero, rest) = 0
  BY <1>7, SumOfZeroes
<1>11. /\ Tot(some, m) \in Int /\ Tot(rest, m) \in Int
  BY <1>6, FiguresAdd
<1> QED
  BY <1>5, <1>6, <1>8, <1>9, <1>10, <1>11

(* The rows due of orders have figures of the orders, whichever others     *)
(* there are.                                                              *)
LEMMA DueIsAsked ==
  ASSUME NEW S \in SUBSET DOMAIN Orders, NEW q
  PROVE  \A r : r \in DueRows(q, S) <=> IsAsked(q, r) /\ IsDue(r, q, S)
<1>1. SplitsItems(q) => \A r : r \in DueRows(q, S) <=> IsAsked(q, r) /\
        \E o \in S : \E i \in Fact[o].items : r = DueItem(q, S, o, i)
  BY DueOfItems
<1>2. ~SplitsItems(q) => \A r : r \in DueRows(q, S) <=>
        IsAsked(q, r) /\ \E o \in S : r = DueOrder(q, S, o)
  BY DueOfOrders
<1> QED
  BY <1>1, <1>2 DEF IsDue

(* A row is asked for in all that is known as in what was, unless it       *)
(* matters who is new.                                                     *)
LEMMA StillAsked ==
  ASSUME NEW q, NEW r, NEW t, NEW m, StaysDue(r, t, m),
         "customerType" \notin FilterDims(q)
  PROVE  IsAsked(q, r) <=> IsAsked(q, t)
<1>1. Alike(r.k, t.k, FilterDims(q))
  BY DEF Alike, Value, StaysDue
<1>2. Passes(r.k, Allowed(q)) <=> Passes(t.k, Allowed(q))
  BY <1>1, AlikePass
<1> QED
  BY <1>2 DEF IsAsked, StaysDue

LEMMA CostIsPositive ==
  ASSUME NEW o \in DOMAIN Orders
  PROVE  Total(Fact[o].items, LAMBDA i : i.cost) \in Nat
<1> DEFINE items == Fact[o].items
           of == [i \in items |-> i.cost]
<1>1. IsFiniteSet(items) /\ \A i \in items : i.cost \in Nat
  BY FactIsPositive DEF ItemMeasures, FactIn
<1>2. DOMAIN of = items /\ \A i \in items : of[i] \in Nat
  BY <1>1
<1>3. Total(Fact[o].items, LAMBDA i : i.cost) = SumFunction(of)
  BY DEF Total
<1> HIDE DEF of, items
<1> QED
  BY <1>1, <1>2, <1>3, TotalIsNat

LEMMA OrdersStayDue ==
  ASSUME NEW B \in SUBSET DOMAIN Orders, NEW A \in SUBSET B, NEW q,
         NEW m \in q.metrics, ~CountsFirst(m), NEW o \in A
  PROVE  /\ StaysDue(DueOrder(q, A, o), DueOrder(q, B, o), m)
         /\ DueOrder(q, A, o).id = o
<1> DEFINE x == MEASURE_BY_METRIC[m]
           f == Fact[o]
           r == DueOrder(q, A, o)
           t == DueOrder(q, B, o)
           Of(S) == DueOfOrder(f, FirstOf(S), x)
           cost == Total(f.items, LAMBDA i : i.cost)
<1>1. /\ r.id = o /\ t.id = o
      /\ r.k = OrderKey(f, FirstOf(A)) /\ t.k = OrderKey(f, FirstOf(B))
  BY DEF DueOrder, Row
<1>2. Figure(r, m) = Of(A) /\ Figure(t, m) = Of(B)
  BY DEF DueOrder, Row, Figure
<1>3. \A S : Of(S) = CASE x = "cost" -> cost
                       [] x = "customersNew" -> Truth(IsFirst(f, FirstOf(S)))
                       [] x \in ORDER_MEASURES -> f.measures[x]
                       [] OTHER -> Null
  BY DEF DueOfOrder
<1>4. x # "customersNew" /\ "cost" \notin ORDER_MEASURES
  BY DEF CountsFirst, ORDER_MEASURES
<1>5. cost \in Nat /\ \A y \in ORDER_MEASURES : f.measures[y] \in Nat
  BY FactIsPositive, CostIsPositive DEF FactIn
<1>6. \A S : Of(S) = IF x = "cost" THEN cost
                     ELSE IF x \in ORDER_MEASURES THEN f.measures[x] ELSE Null
  <2> HIDE DEF cost, Of, x, f
  <2> QED
    BY <1>3, <1>4
<1> DEFINE K(S) == OrderKey(f, FirstOf(S))
<1>7. \A S : /\ DOMAIN K(S) = DOMAIN f.dims \cup {"date", "customerType"}
             /\ K(S)["date"] = f.businessDate
             /\ \A y \in DOMAIN K(S) \ {"date", "customerType"} :
                  K(S)[y] = f.dims[y]
  BY DEF OrderKey
<1> HIDE DEF Of, cost, x, f, r, t, K
<1>8. r.k = K(A) /\ t.k = K(B)
  BY <1>1 DEF K
<1>9. /\ r.k["date"] = t.k["date"] /\ DOMAIN r.k = DOMAIN t.k
      /\ \A y \in DOMAIN r.k \ {"customerType"} : r.k[y] = t.k[y]
  BY <1>7, <1>8
<1>10. Figure(r, m) = Figure(t, m) /\ Figure(r, m) \in Nat \cup {Null}
  BY <1>2, <1>5, <1>6
<1> QED
  BY <1>1, <1>9, <1>10 DEF r, t, StaysDue

LEMMA ItemsStayDue ==
  ASSUME NEW B \in SUBSET DOMAIN Orders, NEW A \in SUBSET B, NEW q,
         NEW m \in q.metrics, MEASURE_BY_METRIC[m] \in ItemMeasures,
         NEW o \in A, NEW i \in Fact[o].items
  PROVE  /\ StaysDue(DueItem(q, A, o, i), DueItem(q, B, o, i), m)
         /\ DueItem(q, A, o, i).id = <<o, i.line>>
<1> DEFINE f == Fact[o]
           r == DueItem(q, A, o, i)
           t == DueItem(q, B, o, i)
<1>1. /\ r.id = <<o, i.line>> /\ t.id = <<o, i.line>>
      /\ r.k = ItemKey(f, i, FirstOf(A)) /\ t.k = ItemKey(f, i, FirstOf(B))
  BY DEF DueItem, Row
<1>2. Figure(r, m) = i[MEASURE_BY_METRIC[m]] /\ Figure(t, m) = i[MEASURE_BY_METRIC[m]]
  BY DEF DueItem, Row, Figure
<1>3. i[MEASURE_BY_METRIC[m]] \in Nat
  BY FactIsPositive DEF FactIn
<1> DEFINE L(S) == OrderKey(f, FirstOf(S))
           K(S) == ItemKey(f, i, FirstOf(S))
<1>4. \A S : /\ DOMAIN L(S) = DOMAIN f.dims \cup {"date", "customerType"}
             /\ L(S)["date"] = f.businessDate
             /\ \A y \in DOMAIN L(S) \ {"date", "customerType"} :
                  L(S)[y] = f.dims[y]
  BY DEF OrderKey
<1> HIDE DEF L
<1>5. \A S : /\ DOMAIN K(S) = DOMAIN L(S) \cup {"product", "category"}
             /\ \A y \in DOMAIN K(S) :
                  K(S)[y] = CASE y = "product" -> i.sku
                              [] y = "category" -> i.category
                              [] OTHER -> L(S)[y]
  BY DEF ItemKey, L
<1> HIDE DEF f, r, t, K
<1>6. r.k = K(A) /\ t.k = K(B)
  BY <1>1 DEF K
<1>7. \A y \in DOMAIN L(A) \ {"customerType"} : L(A)[y] = L(B)[y]
  BY <1>4
<1>8. DOMAIN K(A) = DOMAIN K(B) /\ DOMAIN L(A) = DOMAIN L(B)
  BY <1>4, <1>5
<1>9. ASSUME NEW y \in DOMAIN K(A) \ {"customerType"} PROVE K(A)[y] = K(B)[y]
  <2>1. CASE y = "product"
    BY <1>5, <1>8, <2>1
  <2>2. CASE y = "category"
    BY <1>5, <1>8, <2>2
  <2>3. CASE y \notin {"product", "category"}
    <3>1. K(A)[y] = L(A)[y] /\ K(B)[y] = L(B)[y] /\ y \in DOMAIN L(A)
      BY <1>5, <1>8, <2>3
    <3> QED
      BY <1>7, <3>1
  <2> QED
    BY <2>1, <2>2, <2>3
<1>10. "date" \in DOMAIN K(A)
  BY <1>4, <1>5
<1> QED
  BY <1>1, <1>2, <1>3, <1>6, <1>8, <1>9, <1>10 DEF r, t, StaysDue

LEMMA DueIsCountable ==
  ASSUME NEW S \in SUBSET DOMAIN Orders, NEW q, NEW m, Grows(q, m)
  PROVE  /\ Countable(DueRows(q, S), m)
         /\ \A r \in DueRows(q, S) : Figure(r, m) \in Nat \cup {Null}
         /\ \A r, t \in DueRows(q, S) : r.id = t.id => r = t
<1> DEFINE rows == DueRows(q, S)
<1>1. \A r : r \in rows <=> IsAsked(q, r) /\ IsDue(r, q, S)
  BY DueIsAsked
<1>2. m \in q.metrics /\ ~CountsFirst(m)
  BY DEF Grows
<1>3. IsFiniteSet(S)
  BY FactsAreFinite
<1> HIDE DEF rows
<1>4. CASE SplitsItems(q)
  <2>1. \A r \in rows : \E o \in S : \E i \in Fact[o].items : r = DueItem(q, S, o, i)
    BY <1>1, <1>4 DEF IsDue
  <2>2. \A o \in S : \A i \in Fact[o].items :
          /\ DueItem(q, S, o, i).id = <<o, i.line>>
          /\ Figure(DueItem(q, S, o, i), m) \in Nat \cup {Null}
    <3> TAKE o \in S
    <3> TAKE i \in Fact[o].items
    <3>1. MEASURE_BY_METRIC[m] \in ItemMeasures /\ S \in SUBSET S
      BY <1>4 DEF Grows
    <3> QED
      BY <1>2, <3>1, ItemsStayDue DEF StaysDue
  <2>3. \A o \in S : /\ IsFiniteSet(Fact[o].items)
                     /\ \A i, j \in Fact[o].items : i.line = j.line => i = j
    BY FactIsNumeric, LinesAreItems DEF FactIn
  <2> DEFINE part == [o \in S |-> {DueItem(q, S, o, i) : i \in Fact[o].items}]
  <2>4. ASSUME NEW o \in S PROVE IsFiniteSet(part[o])
    <3> DEFINE items == Fact[o].items
               due == [i \in items |-> DueItem(q, S, o, i)]
    <3>1. IsFiniteSet(items)
      BY <2>3
    <3>2. \A r \in part[o] : \E i \in items : r = due[i]
      OBVIOUS
    <3> HIDE DEF items, due, part
    <3> QED
      BY <3>1, <3>2, MadeOfFew
  <2>5. \A r \in rows : \E o \in S : r \in part[o]
    BY <2>1
  <2> HIDE DEF part
  <2>6. IsFiniteSet(rows)
    BY <1>3, <2>4, <2>5, UnitedFew
  <2>7. \A r \in rows : Figure(r, m) \in Nat \cup {Null}
    BY <2>1, <2>2
  <2>8. ASSUME NEW r \in rows, NEW t \in rows, r.id = t.id PROVE r = t
    <3>a. PICK o \in S : \E i \in Fact[o].items : r = DueItem(q, S, o, i)
      BY <2>1
    <3>1. PICK i \in Fact[o].items : r = DueItem(q, S, o, i)
      BY <3>a
    <3>b. PICK p \in S : \E j \in Fact[p].items : t = DueItem(q, S, p, j)
      BY <2>1
    <3>2. PICK j \in Fact[p].items : t = DueItem(q, S, p, j)
      BY <3>b
    <3>3. r.id = <<o, i.line>> /\ t.id = <<p, j.line>>
      BY <2>2, <3>1, <3>2
    <3>c. <<o, i.line>> = <<p, j.line>>
      BY <2>8, <3>3
    <3>4. o = p /\ i.line = j.line
      BY <3>c
    <3>5. i = j
      BY <2>3, <3>4
    <3> QED
      BY <3>1, <3>2, <3>4, <3>5
  <2> QED
    BY <2>6, <2>7, <2>8 DEF Countable, rows
<1>5. CASE ~SplitsItems(q)
  <2>1. \A r \in rows : \E o \in S : r = DueOrder(q, S, o)
    BY <1>1, <1>5 DEF IsDue
  <2>2. \A o \in S : /\ DueOrder(q, S, o).id = o
                     /\ Figure(DueOrder(q, S, o), m) \in Nat \cup {Null}
    <3> TAKE o \in S
    <3>1. PICK T \in SUBSET S : T = S
      OBVIOUS
    <3>2. o \in T
      BY <3>1
    <3>3. /\ StaysDue(DueOrder(q, T, o), DueOrder(q, S, o), m)
          /\ DueOrder(q, T, o).id = o
      BY <1>2, <3>2, OrdersStayDue
    <3> QED
      BY <3>1, <3>3 DEF StaysDue
  <2> DEFINE due == [o \in S |-> DueOrder(q, S, o)]
  <2>3. \A r \in rows : \E o \in S : r = due[o]
    BY <2>1
  <2> HIDE DEF due
  <2>4. IsFiniteSet(rows)
    BY <1>3, <2>3, MadeOfFew
  <2>5. \A r \in rows : Figure(r, m) \in Nat \cup {Null}
    BY <2>1, <2>2
  <2>6. \A r, t \in rows : r.id = t.id => r = t
    BY <2>1, <2>2
  <2> QED
    BY <2>4, <2>5, <2>6 DEF Countable, rows
<1> QED
  BY <1>4, <1>5

LEMMA DueGrows ==
  ASSUME NEW B \in SUBSET DOMAIN Orders, NEW A \in SUBSET B, NEW q, NEW m, Grows(q, m)
  PROVE  Figures(DueRows(q, A), m) <= Figures(DueRows(q, B), m)
<1> DEFINE rows == DueRows(q, A)
           more == DueRows(q, B)
<1>1. A \in SUBSET DOMAIN Orders
  OBVIOUS
<1>2. /\ \A r : r \in rows <=> IsAsked(q, r) /\ IsDue(r, q, A)
      /\ \A r : r \in more <=> IsAsked(q, r) /\ IsDue(r, q, B)
  BY <1>1, DueIsAsked
<1>3. /\ Countable(rows, m) /\ Countable(more, m)
      /\ \A r \in more : Figure(r, m) \in Nat \cup {Null}
      /\ \A r, t \in rows : r.id = t.id => r = t
  BY <1>1, DueIsCountable
<1>4. m \in q.metrics /\ ~CountsFirst(m) /\ "customerType" \notin FilterDims(q)
  BY DEF Grows
<1> HIDE DEF rows, more
<1>5. ASSUME NEW r \in rows
      PROVE  \E t \in more : t.id = r.id /\ Figure(t, m) = Figure(r, m)
  <2>1. IsAsked(q, r) /\ IsDue(r, q, A)
    BY <1>2
  <2>2. SUFFICES \E t : IsDue(t, q, B) /\ StaysDue(r, t, m)
    <3>1. PICK t : IsDue(t, q, B) /\ StaysDue(r, t, m)
      BY <2>2
    <3>2. IsAsked(q, t)
      BY <1>4, <2>1, <3>1, StillAsked
    <3> QED
      BY <1>2, <3>1, <3>2 DEF StaysDue
  <2>3. CASE SplitsItems(q)
    <3>a. PICK o \in A : \E i \in Fact[o].items : r = DueItem(q, A, o, i)
      BY <2>1, <2>3 DEF IsDue
    <3>1. PICK i \in Fact[o].items : r = DueItem(q, A, o, i)
      BY <3>a
    <3> DEFINE t == DueItem(q, B, o, i)
    <3>2. IsDue(t, q, B)
      BY <2>3 DEF IsDue
    <3>3. MEASURE_BY_METRIC[m] \in ItemMeasures
      BY <2>3 DEF Grows
    <3>4. StaysDue(r, t, m)
      BY <1>4, <3>1, <3>3, ItemsStayDue
    <3> QED
      BY <3>2, <3>4
  <2>4. CASE ~SplitsItems(q)
    <3>1. PICK o \in A : r = DueOrder(q, A, o)
      BY <2>1, <2>4 DEF IsDue
    <3> DEFINE t == DueOrder(q, B, o)
    <3>2. IsDue(t, q, B)
      BY <2>4 DEF IsDue
    <3>3. StaysDue(r, t, m)
      BY <1>4, <3>1, OrdersStayDue
    <3> QED
      BY <3>2, <3>3
  <2> QED
    BY <2>3, <2>4
<1>6. Tot(rows, m) <= Tot(more, m)
  BY <1>3, <1>5, MoreIsMore
<1> QED
  BY <1>3, <1>6, FiguresAdd DEF rows, more

-----------------------------------------------------------------------------
(* The answers read from the cubes                                         *)

LEMMA CubesHaveIt ==
  ASSUME NEW q, FromCubes(q), NEW m \in q.metrics
  PROVE  m \in DOMAIN CUBE_BY_METRIC
<1>1. /\ q.metrics \cap DOMAIN LiveMetrics = {}
      /\ q.metrics \subseteq DOMAIN Descriptors["ct-native"].metrics
  BY ValidIsServed DEF FromCubes, IsForCubes
<1> QED
  BY <1>1, CubeAssumption

(* An answer read when all is covered is exact.                            *)
LEMMA ReadIsExact ==
  ASSUME WatermarkSeen, NEW a, NEW q, IsRead(a, q) PROVE ExactOf(a)
<1> USE DEF WatermarkSeen, IsRead
<1> SUFFICES ASSUME NEW m \in q.metrics, NEW columns,
                    columns = (GroupDims(q) \cup WithDate(q)) \ Mixed(m, q)
             PROVE  ExactFor(a, q, m, columns)
  BY DEF ExactOf
<1> SUFFICES ASSUME Vouched(seen) = orders, ReadOnce(m, q),
                    FilterDims(q) \cap Mixed(m, q) = {},
                    BackDated => /\ ~CountsFirst(m)
                                 /\ "customerType" \notin columns \cup FilterDims(q),
                    NEW k
             PROVE  Figures(AtKey(a.answer.rows, columns, k), m)
                      = Figures(AtKey(DueRows(q, orders), columns, k), m)
  BY DEF ExactFor
<1>1. AllFolded
  BY DEF IInv, JobInv, AllFolded
<1>2. HoldsDays(Partitions, orders, FirstsOfCubes)
  BY <1>1, PartitionsHold, ScannedIsHeld
<1>3. AsksExactly(q, m, columns)
  BY CubesHaveIt DEF AsksExactly
<1>4. FirstsAgree(Partitions, orders, FirstsOfCubes, q, columns, MEASURE_BY_METRIC[m])
  <2>1. CASE BackDated
    BY <2>1 DEF FirstsAgree, AgreeOnFirst, CountsFirst
  <2>2. CASE ~BackDated
    BY <1>1, <2>2, ScannedIsHeld
  <2> QED
    BY <2>1, <2>2
<1>5. SameFigures(AtKey(a.answer.rows, columns, k), m,
                  AtKey(DueRows(q, orders), columns, k), m)
  BY <1>2, <1>3, <1>4, ReadingIsExact
<1> QED
  BY <1>5, FiguresAdd DEF SameFigures

(* An answer has the figures of what was in the cubes, all that is covered *)
(* among it.                                                               *)
LEMMA ReadCovers ==
  ASSUME WatermarkSeen, NEW a, NEW q, IsRead(a, q) PROVE CoversOf(a)
<1> USE DEF WatermarkSeen, IsRead
<1> SUFFICES ASSUME NEW m \in q.metrics, ReadOnce(m, q),
                    FilterDims(q) \cap Mixed(m, q) = {}, ~CountsFirst(m),
                    "customerType" \notin FilterDims(q)
             PROVE  /\ Figures(DueRows(q, Vouched(seen)), m) <= Figures(a.answer.rows, m)
                    /\ Figures(a.answer.rows, m) <= Figures(DueRows(q, orders), m)
  BY DEF CoversOf
<1>1. /\ HoldsDays(Partitions, InCubes, FirstsOfCubes)
      /\ InCubes \in SUBSET orders /\ Vouched(seen) \in SUBSET InCubes
  BY PartitionsHold DEF IInv
<1>2. orders \in SUBSET DOMAIN Orders
  BY DEF JobInv
<1>3. AsksExactly(q, m, {})
  BY CubesHaveIt DEF AsksExactly
<1>4. FirstsAgree(Partitions, InCubes, FirstsOfCubes, q, {}, MEASURE_BY_METRIC[m])
  BY DEF FirstsAgree, AgreeOnFirst, CountsFirst
<1> DEFINE key == KeyFor(<<>>, {})
<1>5. \A rows : AtKey(rows, {}, key) = rows
  BY DEF AtKey, KeyFor
<1>6. SameFigures(AtKey(a.answer.rows, {}, key), m,
                  AtKey(DueRows(q, InCubes), {}, key), m)
  BY <1>1, <1>3, <1>4, ReadingIsExact
<1> HIDE DEF key
<1>7. Figures(a.answer.rows, m) = Figures(DueRows(q, InCubes), m)
  BY <1>5, <1>6, FiguresAdd DEF SameFigures
<1>8. Grows(q, m)
  <2>1. SplitsItems(q) => MEASURE_BY_METRIC[m] \in ItemMeasures
    <3> DEFINE cube == CubeOf(m, q)
               x == MEASURE_BY_METRIC[m]
    <3>1. ReadFor(m, q, cube, x)
      BY CubesHaveIt, CubeIsRead
    <3> HIDE DEF cube, x
    <3>2. SplitsItems(q) => x \in ItemMeasures
      BY <3>1 DEF ReadFor, AsksItems
    <3> QED
      BY <3>2 DEF x
  <2> QED
    BY <2>1 DEF Grows
<1>9. Figures(DueRows(q, Vouched(seen)), m) <= Figures(DueRows(q, InCubes), m)
  <2>1. InCubes \in SUBSET DOMAIN Orders
    BY <1>1, <1>2
  <2> QED
    BY <1>1, <1>8, <2>1, DueGrows
<1>10. Figures(DueRows(q, InCubes), m) <= Figures(DueRows(q, orders), m)
  BY <1>1, <1>2, <1>8, DueGrows
<1> QED
  BY <1>7, <1>9, <1>10

LEMMA ExactIsEnough ==
  ASSUME ExactInv PROVE FiguresAreExact /\ ReadsCoverPublished
<1>1. \A a \in CubeAnswers : ExactOf(a) /\ CoversOf(a)
  BY DEF ExactInv, SaysEnough, CubeAnswers
<1>2. (\A a \in CubeAnswers : ExactOf(a)) => FiguresAreExact
  BY Zenon DEF FiguresAreExact, ExactOf, ExactFor, AtKey
<1>3. (\A a \in CubeAnswers : CoversOf(a)) => ReadsCoverPublished
  BY Zenon DEF ReadsCoverPublished, CoversOf
<1> QED
  BY <1>1, <1>2, <1>3

LEMMA InitExactInv == Init => ExactInv
<1> SUFFICES ASSUME Init PROVE ExactInv
  OBVIOUS
<1>1. IInv /\ JobInv
  BY InitIInv, InitJobInv
<1>2. answers = {} /\ seen = Null
  BY DEF Init
<1> QED
  BY <1>1, <1>2 DEF ExactInv

LEMMA StepExactInv == ExactInv /\ [Next]_vars => ExactInv'
<1> SUFFICES ASSUME ExactInv, [Next]_vars PROVE ExactInv'
  OBVIOUS
<1>1. IInv' /\ JobInv'
  BY StepIInv, StepJobInv DEF ExactInv
<1>2. (\A a \in answers' : SaysEnough(a)) <=> (\A a \in answers : SaysEnough(a))'
  OBVIOUS
<1> SUFFICES \A a \in answers' : SaysEnough(a)
  BY <1>1, <1>2 DEF ExactInv
<1>3. ASSUME answers' \subseteq answers PROVE \A a \in answers' : SaysEnough(a)
  BY <1>3 DEF ExactInv
<1>4. CASE Job \/ Receive \/ Finish \/ UNCHANGED vars
  <2>1. UNCHANGED answers
    BY <1>4 DEF Job, PlaceOrder, StartPass, RebuildDay, Publish, EndPass,
                runVars, Receive, Finish, vars
  <2> QED
    BY <1>3, <2>1
<1>5. CASE BeginTile \/ Conclude
  <2>1. answers' = {} \/ answers' = answers
    BY <1>5 DEF BeginTile, Conclude, Settle
  <2> QED
    BY <1>3, <2>1
<1>6. ASSUME NEW q \in pending, ReadWatermark(q) \/ LoseQuery(q)
      PROVE  \A a \in answers' : SaysEnough(a)
  BY <1>3, <1>6 DEF ReadWatermark, LoseQuery
<1>7. ASSUME NEW q \in pending, AnswerQuery(q)
      PROVE  \A a \in answers' : SaysEnough(a)
  <2> DEFINE a == [query |-> q, answer |-> SourceAnswer(q.sourceId, q),
                   covers |-> {}, reads |-> orders, behind |-> BackDated]
  <2>1. /\ ~FromCubes(q)
        /\ answers' = answers \/ answers' = answers \cup {a}
    BY <1>7 DEF AnswerQuery, Receives
  <2>2. a.query = q
    OBVIOUS
  <2> HIDE DEF a
  <2>3. SaysEnough(a)
    BY <2>1, <2>2 DEF SaysEnough
  <2> QED
    BY <2>1, <2>3 DEF ExactInv
<1>8. ASSUME NEW q \in pending, ReadCubes(q)
      PROVE  \A a \in answers' : SaysEnough(a)
  <2> DEFINE answer == CtNativeAnswer(q, Partitions, Cohort, seen.watermark)
             a == [query |-> q, answer |-> answer, covers |-> Vouched(seen),
                   reads |-> orders, behind |-> BackDated]
  <2>1. /\ seen # Null /\ FromCubes(q)
        /\ answers' = answers \/ answers' = answers \cup {a}
    BY <1>8 DEF ReadCubes, Receives
  <2>2. /\ a.query = q /\ a.answer = answer /\ a.covers = Vouched(seen)
        /\ a.reads = orders /\ (a.behind <=> BackDated)
    OBVIOUS
  <2> HIDE DEF a
  <2>3. ASSUME Carried(q) PROVE ExactOf(a) /\ CoversOf(a)
    <3>1. a.answer.rows = CellRows(ReadDays(q, Partitions, CubesOf(q)), q)
      BY <2>2, <2>3, AnswerIsRead
    <3>2. WatermarkSeen
      BY <2>1 DEF ExactInv, WatermarkSeen
    <3>3. IsRead(a, q)
      BY <2>1, <2>2, <2>3, <3>1 DEF IsRead
    <3> QED
      BY <3>2, <3>3, ReadIsExact, ReadCovers
  <2>4. SaysEnough(a)
    BY <2>2, <2>3 DEF SaysEnough
  <2> QED
    BY <2>1, <2>4 DEF ExactInv
<1> QED
  BY <1>4, <1>5, <1>6, <1>7, <1>8 DEF Next, Run

LEMMA ExactHolds == Spec => []ExactInv
  BY InitExactInv, StepExactInv, PTL DEF Spec

(* Whatever is ordered, whatever is asked of the cubes and whenever the    *)
(* job and the query take their steps: when the answer covers all that had *)
(* arrived, each of its figures is the sum over exactly the orders, or     *)
(* order lines, of its key, range, filters and scope                       *)
(* (rollup-reader.ts:227).                                                 *)
THEOREM FiguresOfCubesAreExact == Spec => []FiguresAreExact
<1>1. ExactInv => FiguresAreExact
  BY ExactIsEnough
<1> QED
  BY <1>1, ExactHolds, PTL

(* And always an answer shows every order that the watermark it read       *)
(* vouched for, and nothing that has not arrived (handler.ts:160 of        *)
(* ct-native): orders of days that a pass out of budget left unfolded are  *)
(* not vouched for, though the watermark is past them.                     *)
THEOREM CubesCoverPublished == Spec => []ReadsCoverPublished
<1>1. ExactInv => ReadsCoverPublished
  BY ExactIsEnough
<1> QED
  BY <1>1, ExactHolds, PTL
=============================================================================
