--------------------------------- MODULE Merge ---------------------------------
(***************************************************************************)
(* Merging the answers of a tile (shared/src/planner/merge.ts): collapse   *)
(* to the join key, full outer join, roll-up over time, derived metrics,   *)
(* top N and limit, totals.  The having clause is left out, since no built- *)
(* in report has one, and so are the notices.                                *)
(*                                                                         *)
(* The reports keep 10 to 200 rows; TopRows scales that down.  Where the   *)
(* order of rows with equal figures decides which are kept, any may be.    *)
(***************************************************************************)
EXTENDS Rows, Calendar

CONSTANT TopRows  \* the most rows a top N or a limit keeps

Aggregation(m) == METRICS[m].aggregation
AddsUp(m) == IsBase(m) /\ METRICS[m].overDimensions
AddsUpOverTime(m) == IsBase(m) /\ METRICS[m].overTime

(* No average adds up.                                                     *)
ASSUME MergeAssumption ==
  \A m \in DOMAIN METRICS : AddsUp(m) => Aggregation(m) # "avg"

-----------------------------------------------------------------------------
(* The join                                                                *)

(* Several rows with one key: a metric that does not add up is refused.    *)
Collapsed(group, m) ==
  LET values == {r.m[m] : r \in Having(group, m)}
      total == SumOf(group, m)
  IN  IF \/ values = {}
         \/ ~AddsUp(m) /\ Aggregation(m) # "avg"
        THEN Null
      ELSE CASE Aggregation(m) = "avg" ->
                  total \div Cardinality(Having(group, m))
             [] OTHER -> total
CollapseToJoinKey(rows, joinKey, metrics) ==
  {LET k == KeyFor((CHOOSE r \in group : TRUE).k, joinKey)
   IN  IF Cardinality(group) = 1
         THEN Row(k, k, (CHOOSE r \in group : TRUE).m)
         ELSE Row(k, k, [m \in metrics |-> Collapsed(group, m)]) :
     group \in GroupsBy(rows, LAMBDA r : KeyFor(r.k, joinKey))}

InnerJoin(answers, joinKey) ==
  LET Keys(a) == {KeyFor(r.k, joinKey) : r \in a.rows}
      Part(a) == {r \in CollapseToJoinKey(a.rows, joinKey, a.metrics) :
                    \A b \in answers : r.k \in Keys(b)}
      parts == UNION {Part(a) : a \in answers}
      Joined(group) ==
        [m \in UNION {DOMAIN r.m : r \in group} |->
           (CHOOSE r \in group : m \in DOMAIN r.m).m[m]]
  IN  {LET k == (CHOOSE r \in group : TRUE).k IN Row("joined", k, Joined(group)) :
         group \in GroupsBy(parts, LAMBDA r : r.k)}

(* Every key of every source lives; each metric comes from one source.     *)
(* A key has one row, so the rows need no other identity.                  *)
FullOuterJoin(answers, joinKey) ==
  LET parts == UNION {CollapseToJoinKey(a.rows, joinKey, a.metrics) :
                        a \in answers}
      Joined(group) ==
        [m \in UNION {DOMAIN r.m : r \in group} |->
           (CHOOSE r \in group : m \in DOMAIN r.m).m[m]]
  IN  {LET k == (CHOOSE r \in group : TRUE).k IN Row("joined", k, Joined(group)) :
         group \in GroupsBy(parts, LAMBDA r : r.k)}

-----------------------------------------------------------------------------
(* The roll-up                                                             *)

(* Rows without a day are dropped.                                         *)
RollUp(rows, grain, weekStart, baseMetrics) ==
  LET Bucketed(k) == [k EXCEPT !["date"] = BucketDay(@, grain, weekStart)]
      bucketed == {Row(r.k, Bucketed(r.k), r.m) :
                     r \in {s \in rows : s.k["date"] # Null}}
  IN  {LET k == (CHOOSE r \in group : TRUE).k
       IN  Row("joined", k, [m \in baseMetrics |->
                        IF AddsUpOverTime(m) THEN SumOf(group, m) ELSE Null]) :
         group \in GroupsBy(bucketed, LAMBDA r : r.k)}
NeedsRollUp(grain, joinKey) ==
  grain \notin {Null, "hour", "day"} /\ "date" \in joinKey

-----------------------------------------------------------------------------
(* Derived metrics, the residual and the totals                            *)

ApplyDerived(figures, derived) ==
  [m \in derived \cup DOMAIN figures |->
     IF m \in derived THEN EvaluateFormula(METRICS[m].formula, figures)
     ELSE figures[m]]
WithDerived(row, derived) == [row EXCEPT !.m = ApplyDerived(@, derived)]

Totals(rows, baseMetrics) ==
  [m \in baseMetrics |-> IF AddsUp(m) THEN SumOf(rows, m) ELSE Null]

(* The rest of the rows; a row of the head may have the same key.          *)
OtherRow(tail, joinKey, baseMetrics) ==
  LET k == [d \in joinKey |-> IF d = "date" THEN Null ELSE "__other__"]
      OrZero(total) == IF total = Null THEN 0 ELSE total
  IN  Row("rest", k, [m \in baseMetrics |->
                   IF AddsUp(m) THEN OrZero(SumOf(tail, m)) ELSE Null])

Kept(n) == IF n > TopRows THEN TopRows ELSE n
TopN(rows, top, joinKey, baseMetrics, derived) ==
  LET head == Largest(rows, top.by, Kept(top.n))
      tail == rows \ head
  IN  IF tail = {} \/ ~top.otherBucket \/ ~AddsUp(top.by) THEN head
      ELSE head \cup
             {WithDerived(OtherRow(tail, joinKey, baseMetrics), derived)}

(* plan is the plan of the tile and answers those that arrived.            *)
MergeResults(answers, plan, tile, weekStart) ==
  LET joined == FullOuterJoin(answers, plan.joinKey)
      rolled == IF NeedsRollUp(plan.effectiveGrain, plan.joinKey)
                  THEN RollUp(joined, plan.effectiveGrain, weekStart,
                              plan.baseMetrics)
                  ELSE joined
      rows == {WithDerived(r, plan.derived) : r \in rolled}
      topped == IF tile.topN = Null THEN rows
                ELSE TopN(rows, tile.topN, plan.joinKey, plan.baseMetrics,
                          plan.derived)
      kept == IF tile.limit = Null THEN topped
              ELSE Largest(topped, tile.orderBy, Kept(tile.limit))
  IN  [rows |-> kept,
       totals |-> ApplyDerived(Totals(kept, plan.baseMetrics), plan.derived)]
=============================================================================
