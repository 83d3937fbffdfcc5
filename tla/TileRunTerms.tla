---------------------------- MODULE TileRunTerms ----------------------------
(***************************************************************************)
(* The terms in which TileRun_proofs speaks of a report run: the           *)
(* strengthened invariants (IInv, RunInv, ScopeInv, JobInv, FaithfulInv,   *)
(* ExactInv), and names for what its lemmas say of rows, cubes, queries    *)
(* and answers.  None of it models code.                                   *)
(***************************************************************************)
EXTENDS TileRun

-----------------------------------------------------------------------------
(* What the cubes and a pass of the job vouch for                          *)

(* A pass left the order's day unfolded, and none has come back to it.     *)
LeftOut(o) == Fact[o].businessDate \in published.left

(* What has been scanned is in the cubes, unless its day was left out;     *)
(* what a pass knows is there as well or of a day it has yet to rebuild;   *)
(* and a day's orders are never lost.                                      *)
IInv ==
  /\ scanned \subseteq orders
  /\ \A d \in DOMAIN cubes : cubes[d].orders \subseteq OnDay(orders, d)
  /\ \A o \in scanned : LeftOut(o) \/ Folded(o)
  /\ pass # Null =>
       \A o \in pass.known :
         /\ o \in orders
         /\ Fact[o].businessDate \in pass.todo \/ LeftOut(o) \/ Folded(o)
  /\ published.known \cup published.cohort \subseteq scanned
  /\ seen # Null => \A o \in Vouched(seen) : Folded(o)

-----------------------------------------------------------------------------
(* Plans and the tiles run from them                                       *)

(* The metrics no source serves.                                           *)
Unserved(assigned) == {m \in DOMAIN assigned : assigned[m] = Null}

(* What a plan has to do with what its tile asks for and the subject sees. *)
PlanOf(plan, shape, report, r) ==
  LET permitted == Permitted(shape, r.access)
  IN  \E assigned, dimensions, grain :
        /\ DOMAIN assigned = BaseMetrics(permitted)
        /\ plan.baseMetrics = DOMAIN assigned \ Unserved(assigned)
        /\ plan.derived = DerivedMetrics(permitted)
        /\ plan.unavailable =
             Unserved(assigned)
             \cup {d \in plan.derived :
                     Range(LeavesOf(d)) \cap Unserved(assigned) # {}}
        /\ plan.subQueries =
             SubQueries(assigned, dimensions, grain, shape, report, r)
        /\ plan.renderable => (report.strict => plan.unavailable = {})

(* A run is planned once, for the report and the request it began with.    *)
PlansInv == plans # Null => plans = PlanReport(TheReport, request)

(* The answers that did not fail.                                          *)
ArrivedOf(some) == {a.answer : a \in {b \in some : b.answer.error = Null}}

(* Each answer is one to a query of the plan, and no two to the same.      *)
AnswersTo(some, queries) ==
  /\ \A a \in some : a.query \in queries
  /\ \A a, b \in some : a.query = b.query => a = b

(* The tile being run is one of the plan, each of its queries is pending   *)
(* or has at most one answer, and there are none between two tiles.        *)
TileInv ==
  /\ begun \in BOOLEAN
  /\ begun => /\ plans # Null /\ tile \in DOMAIN plans /\ Plan.renderable
              /\ pending \subseteq Plan.subQueries
              /\ AnswersTo(answers, Plan.subQueries \ pending)
  /\ ~begun => answers = {} /\ pending = {}
  /\ statuses \in Seq({"unavailable", "partial", "ok"})
  /\ tile = Len(statuses) + 1

(* The tile shown is the last one done with.                               *)
ShownInv ==
  shown # Null =>
    /\ plans # Null /\ shown.tile \in DOMAIN plans
    /\ shown.tile \in DOMAIN statuses
    /\ plans[shown.tile].renderable
    /\ statuses[shown.tile] = TileStatus(ArrivedOf(shown.answers),
                                         plans[shown.tile].subQueries)
    /\ AnswersTo(shown.answers, plans[shown.tile].subQueries)
    /\ shown.merged = MergeResults(ArrivedOf(shown.answers),
                                   plans[shown.tile],
                                   TheReport.tiles[shown.tile], "monday")

RunInv == PlansInv /\ TileInv /\ ShownInv

-----------------------------------------------------------------------------
(* The scope of the subject                                                *)

(* No value of a row outside the scope; none that could restrict its day.  *)
InScope(k, scope) ==
  \A d \in DOMAIN scope :
    d # "date" /\ Value(k, d) \in scope[d] \cup {Null, OTHER_BUCKET}

(* The columns of an answer are those of its rows, and the day.            *)
Columned(answer) ==
  \A r \in answer.rows : DOMAIN r.k \subseteq answer.columns \cup {"date"}

(* A row with a key, within the scope; and rows that all are.              *)
Keyed(r, scope) == "k" \in DOMAIN r /\ InScope(r.k, scope)
AllKeyed(rows, scope) == \A r \in rows : Keyed(r, scope)

(* The answers kept are within the scope the request was resolved to.      *)
AnswersInScope(some) ==
  \A a \in some : \A r \in a.answer.rows : InScope(r.k, request.access.rowScope)

(* Whatever is kept of a run is within the scope.                          *)
ScopeInv ==
  /\ RunInv
  /\ request.sources \subseteq DOMAIN Descriptors
  /\ AnswersInScope(answers)
  /\ shown # Null => AnswersInScope(shown.answers)

-----------------------------------------------------------------------------
(* Sums                                                                    *)

(* Adding a set up, one element at a time.                                 *)
Picked(s) == CHOOSE x \in s : TRUE
Adds(f, g, s) == g[s] = IF s = {} THEN 0 ELSE f[Picked(s)] + g[s \ {Picked(s)}]

(* The function that adds up f over each subset of S.                      *)
Tally(f, S) ==
  CHOOSE iter :
    iter = [s \in SUBSET S |->
              IF s = {} THEN 0 ELSE f[Picked(s)] + iter[s \ {Picked(s)}]]

-----------------------------------------------------------------------------
(* Orders, and the figures of rows                                         *)

(* The order in which a customer's orders are looked through.              *)
Earlier(f, g) ==
  \/ f.businessDate < g.businessDate
  \/ f.businessDate = g.businessDate /\ f.orderId <= g.orderId
Dated(facts) == \A f \in facts : f.businessDate \in Int /\ f.orderId \in Int

(* A figure as it is added up, and the sum of those of some rows.          *)
FigureOr0(r, m) == OrZero(Figure(r, m))
Tot(rows, m) == SumFunctionOnSet([r \in rows |-> FigureOr0(r, m)], rows)

(* Rows that can be added up.                                              *)
Countable(rows, m) ==
  IsFiniteSet(rows) /\ \A r \in rows : Figure(r, m) \in Int \cup {Null}

(* Rows all of whose figures can be.                                       *)
Numeric(rows) ==
  IsFiniteSet(rows) /\ \A r \in rows : \A m : Figure(r, m) \in Int \cup {Null}

-----------------------------------------------------------------------------
(* Cohorts                                                                 *)

(* What foldCohort keeps: everyone is in the cohort they started in, no    *)
(* more are retained than started, and no period is skipped.               *)
FoldCohortKeeps(facts) ==
  LET customers == CustomersOf(facts)
      cohort == FoldCohort(facts)
      Starts == {c \in cohort : c.k.periodIndex = 0}
  IN  /\ Figures(Starts, "cohortSize") = Cardinality(customers)
      /\ \A c \in Starts : c.m["retained"] = c.m["cohortSize"]
      /\ \A c \in cohort :
           /\ c.m["retained"] <= c.m["cohortSize"]
           /\ c.k.periodIndex > 0 =>
                \E b \in cohort :
                  /\ b.k = [c.k EXCEPT !.periodIndex = @ - 1]
                  /\ b.m["cohortSize"] = c.m["cohortSize"]
      /\ Numeric(cohort)

-----------------------------------------------------------------------------
(* What the job has counted                                                *)

(* The cubes of the order's day were folded when it was known.             *)
KnownFolded(o) ==
  /\ Fact[o].businessDate \in DOMAIN cubes
  /\ o \in cubes[Fact[o].businessDate].known

(* The same of cubes folded when the order was known, of whatever was      *)
(* scanned, the pass knows, or a query has seen vouched for.               *)
JobInv ==
  /\ late \cup orders \subseteq DOMAIN Orders
  /\ IsFiniteSet(DOMAIN cubes)
  /\ \A d \in DOMAIN cubes : cubes[d].known \subseteq orders
  /\ \A o \in scanned : LeftOut(o) \/ KnownFolded(o)
  /\ pass # Null =>
       /\ scanned \subseteq pass.known
       /\ \A o \in pass.known :
            Fact[o].businessDate \in pass.todo \/ LeftOut(o) \/ KnownFolded(o)
  /\ seen # Null =>
       seen.known \subseteq scanned /\ \A o \in Vouched(seen) : KnownFolded(o)

(* All there is was folded, and known then.                                *)
AllFolded == \A o \in orders : Folded(o) /\ KnownFolded(o)

-----------------------------------------------------------------------------
(* New customers                                                           *)

(* The rows of one key.                                                    *)
Part(rows, k) == {r \in rows : r.k = k}

(* The orders that are the first of their customer.                        *)
NewOf(S, first) == {o \in S : IsFirst(Fact[o], first)}

(* The cells of all the days, told apart by the day.                       *)
NewCells ==
  UNION {{Row(<<d, c.k>>, c.k, c.m) : c \in Partitions[d]["orders-daily"]} :
           d \in DOMAIN cubes}

(* Who was counted as new on a day, and all who were.                      *)
NewOn(d) == NewOf(cubes[d].orders, FirstOf(cubes[d].known))
CountedAsNew == {o \in orders : /\ Fact[o].businessDate \in DOMAIN cubes
                                /\ o \in NewOn(Fact[o].businessDate)}

(* The first order of each customer.                                       *)
FirstIds(S) == [c \in CustomersOf(FactsOf(S)) |->
                  FirstOrder(OrdersOf(FactsOf(S), c)).orderId]

-----------------------------------------------------------------------------
(* Answers that can be merged                                              *)

(* The rows that have a key in some columns.                               *)
AtKey(rows, joinKey, k) == {r \in rows : KeyFor(r.k, joinKey) = k}

(* Answers that can be merged: their rows have the metrics asked for, and  *)
(* no two answers have a metric in common.                                 *)
Mergeable(some) ==
  /\ IsFiniteSet(some)
  /\ \A a \in some : IsFiniteSet(a.rows) /\ \A r \in a.rows : DOMAIN r.m = a.metrics
  /\ \A a, b \in some : \A m \in a.metrics : m \in b.metrics => a = b

(* Joined rows, one for each key; and rows that add up to a total.         *)
OnePerKey(rows) ==
  /\ IsFiniteSet(rows)
  /\ \A t \in rows : t = Row("joined", t.k, t.m)
  /\ \A t, u \in rows : t.k = u.k => t = u
AddUpTo(rows, m, total) == Countable(rows, m) /\ Tot(rows, m) = total

-----------------------------------------------------------------------------
(* The integers of an order, and the rows of its items                     *)

(* N holds the amounts of order o.                                         *)
AmountsIn(o, N) ==
  LET order == Orders[o]
  IN  /\ order.total \in N /\ order.shipping \in N /\ order.discount \in N
      /\ order.taxed # Null => /\ order.taxed.gross \in N
                               /\ order.taxed.net \in N /\ order.taxed.tax \in N
      /\ \A l \in order.lines :
           l.quantity \in N /\ l.price \in N /\ l.unitCost \in N

(* The measures an order has beside the figures of its items.              *)
COUNTED ==
  {"orders", "revenueGross", "revenueNet", "revenueNetCash", "tax", "shipping",
   "discount", "refunds", "units", "lines", "ordersPromoted"}

(* The measures of a fact, and of its items, are in N.                     *)
FactIn(o, N) ==
  /\ \A x \in ORDER_MEASURES : Fact[o].measures[x] \in N
  /\ IsFiniteSet(Fact[o].items)
  /\ \A i \in Fact[o].items : \A x \in ItemMeasures : i[x] \in N

(* A row for each of the items of some orders.                             *)
ItemRowsOf(T, row, rows) ==
  /\ \A o \in T : \A i \in Fact[o].items :
       /\ row[o][i] \in rows /\ row[o][i].id = <<o, i.line>>
       /\ row[o][i].m = Restrict(i, ItemMeasures)
  /\ \A r \in rows : \E o \in T : \E i \in Fact[o].items : r = row[o][i]

(* Rows made of the items of some orders, key by key.                      *)
RowsKeyed(T, key, rows) ==
  \A r : r \in rows <=> \E f \in FactsOf(T) : \E i \in f.items :
    r = Row(<<f.orderId, i.line>>, key[f.orderId][i], Restrict(i, ItemMeasures))
ItemRowsKeyed(T, key, rows) ==
  \E row : /\ ItemRowsOf(T, row, rows)
           /\ \A o \in T : \A i \in Fact[o].items : row[o][i].k = key[o][i]

-----------------------------------------------------------------------------
(* What the sources report                                                 *)

(* What a source makes of rows: for each key, the sums of the measures.    *)
SumRow(rows, columns, measure, c) ==
  Row(c, c, [m \in DOMAIN measure |-> SumOf(AtKey(rows, columns, c), measure[m])])
SumRows(rows, columns, measure) ==
  {SumRow(rows, columns, measure, KeyFor(r.k, columns)) : r \in rows}

(* The measure each metric is read from.                                   *)
Measured(q) == [m \in q.metrics |-> MEASURE_BY_METRIC[m]]

(* Rows with one figure for each metric, an integer where figures add up.  *)
Reported(rows, metrics) ==
  /\ IsFiniteSet(rows)
  /\ \A r \in rows :
       /\ DOMAIN r.m = metrics
       /\ \A m \in metrics : AddsUp(m) => r.m[m] \in Int \cup {Null}

(* What is due to hold of an answer that did not fail.                     *)
Sound(answer, metrics) ==
  answer.error = Null =>
    answer.metrics = metrics /\ Reported(answer.rows, metrics)

(* Rows broken down by the day have one.                                   *)
DatedRows(rows) == \A r \in rows : Value(r.k, "date") # Null

(* Each row of an answer that is broken down by days has one.              *)
WellDated(answer, q) ==
  answer.error = Null /\ q.grain # Null => DatedRows(answer.rows)

(* The row read for a cell of a day.                                       *)
CellOfDay(d, name, c) ==
  Row(<<d, name, c.k>>, [x \in DOMAIN c.k \cup {"date"} |->
                           IF x = "date" THEN d ELSE c.k[x]], c.m)

(* What is due to hold of any answer: its figures are integers, and when   *)
(* it is broken down by days its rows have one, unless its metrics do not  *)
(* add up over time.                                                       *)
Faithful(answer, q) ==
  /\ answer.error # Null => answer.rows = {}
  /\ answer.error = Null =>
       /\ answer.metrics = q.metrics /\ Reported(answer.rows, q.metrics)
       /\ q.sourceId \in DOMAIN Descriptors
       /\ q.metrics \subseteq DOMAIN Descriptors[q.sourceId].metrics
       /\ q.sourceId = "ga4" => q.timeRange # Null
       /\ q.grain # Null => \/ DatedRows(answer.rows)
                            \/ \A m \in q.metrics : ~AddsUpOverTime(m)

(* An answer that fails has no rows.                                       *)
Refusing(answer) == answer.error # Null => answer.rows = {}

-----------------------------------------------------------------------------
(* What is merged                                                          *)

(* What the plan of a tile asks for.                                       *)
Asked(plan) ==
  /\ \A q \in plan.subQueries :
       /\ q.metrics # {}
       /\ \/ q.grain = plan.effectiveGrain
          \/ /\ q.timeRange = Null
             /\ \A m \in q.metrics :
                  Descriptors[q.sourceId].metrics[m].execution = "live"
  /\ \A q, p \in plan.subQueries : \A m \in q.metrics : m \in p.metrics => q = p
  /\ IsFiniteSet(plan.subQueries)
  /\ \A m \in plan.derived : ~IsBase(m)

(* The answers kept are faithful to their queries.                         *)
AnswersFaithful(some) == \A a \in some : Faithful(a.answer, a.query)

FaithfulInv ==
  /\ ScopeInv /\ IInv /\ JobInv
  /\ AnswersFaithful(answers)
  /\ shown # Null => AnswersFaithful(shown.answers)

-----------------------------------------------------------------------------
(* What is kept of the figures of some of the rows                         *)

(* Rows chosen by their keys.                                              *)
WithKeys(rows, K) == {r \in rows : r.k \in K}

(* Rows shared out in parts.                                               *)
SharedOut(D, part, rows, m) ==
  /\ IsFiniteSet(D)
  /\ \A d \in D : Countable(part[d], m)
  /\ \A d, e \in D : \A r \in part[d] : r \in part[e] => d = e
  /\ \A d \in D : part[d] \subseteq rows
  /\ \A r \in rows : \E d \in D : r \in part[d]

(* The first items of each store, and what is left of the others.          *)
TopItems(cells, n) ==
  UNION {TopNWithResidual(store, "revenueNet", n) :
           store \in GroupsBy(cells, LAMBDA c : c.k.store)}

-----------------------------------------------------------------------------
(* What a query asks of a day, and what it is due                          *)

(* The key of a cell with its day.                                         *)
DatedKey(k, d) ==
  [x \in DOMAIN k \cup {"date"} |-> IF x = "date" THEN d ELSE k[x]]

(* The cells of a day that pass the filters and have the key in columns.   *)
Chosen(rows, q, d, columns, key) ==
  {r \in rows : /\ Passes(r.k, Allowed(q))
                /\ KeyFor(DatedKey(r.k, d), columns) = key}

(* Two keys that have the same values in some dimensions.                  *)
Alike(k, j, dimensions) == \A y \in dimensions : Value(k, y) = Value(j, y)

(* Rows made of things, one of each.                                       *)
Makes(A, row, rows, m) ==
  /\ \A o \in A : row[o] \in rows
  /\ \A r \in rows : \E o \in A : r = row[o]
  /\ \A o, p \in A : row[o] = row[p] => o = p
  /\ \A o \in A : Figure(row[o], m) \in Int \cup {Null}

(* The row a query is due of an order, or of one of its items.             *)
DueOrder(q, S, o) ==
  Row(o, OrderKey(Fact[o], FirstOf(S)),
      [m \in q.metrics |->
         DueOfOrder(Fact[o], FirstOf(S), MEASURE_BY_METRIC[m])])
DueItem(q, S, o, i) ==
  Row(<<o, i.line>>, ItemKey(Fact[o], i, FirstOf(S)),
      [m \in q.metrics |-> i[MEASURE_BY_METRIC[m]]])

(* The sum of a measure of some items.                                     *)
TotalOf(I, x) == SumFunctionOnSet([i \in I |-> i[x]], I)

(* The figure an order is due of a metric read from x.                     *)
FiguresDue(q, S, o, m, x) ==
  LET figure == Figure(DueOrder(q, S, o), m)
  IN  /\ figure = DueOfOrder(Fact[o], FirstOf(S), x)
      /\ figure \in Int \cup {Null}
      /\ x \in ORDER_MEASURES => figure = Fact[o].measures[x]
      /\ x = "customersNew" => figure = Truth(IsFirst(Fact[o], FirstOf(S)))
      /\ x = "cost" => figure = TotalOf(Fact[o].items, "cost")

(* Whether a query asks for a row.                                         *)
IsAsked(q, r) ==
  r.k["date"] \in EachDay(q.timeRange) /\ Passes(r.k, Allowed(q))

(* What is due of a day and a key, and what a query asks of its cubes.     *)
DueOn(q, S, d, columns, key) ==
  {r \in DueRows(q, S) : r.k["date"] = d /\ KeyFor(r.k, columns) = key}
AsksOf(q, columns, dimensions) ==
  /\ columns \subseteq dimensions \cup {"date"}
  /\ FilterDims(q) \subseteq dimensions /\ "date" \notin dimensions

(* The orders of a day that are asked for at a key.                        *)
AskedOn(q, S, d, columns, key) ==
  {o \in OnDay(S, d) : LET k == OrderKey(Fact[o], FirstOf(S))
                       IN  /\ Passes(k, Allowed(q))
                           /\ KeyFor(k, columns) = key}

(* Rows of the orders of a day that say of each what it is due; of those   *)
(* that have no row nothing is due.                                        *)
SaysWhatIsDue(T, row, rows, x, q, S, d, columns, m) ==
  /\ \A o \in T : row[o] \in rows /\ row[o].id = o
  /\ \A r \in rows : \E o \in T : r = row[o]
  /\ \A o \in T : Figure(row[o], x) \in Int \cup {Null}
  /\ \A o \in T : FigureOr0(row[o], x) = FigureOr0(DueOrder(q, S, o), m)
  /\ \A o \in T :
       LET k == OrderKey(Fact[o], FirstOf(S))
       IN  /\ Alike(DatedKey(row[o].k, d), k, columns)
           /\ Alike(row[o].k, k, FilterDims(q))
  /\ \A o \in OnDay(S, d) \ T : FigureOr0(DueOrder(q, S, o), m) = 0

(* The two agree on who is new, where that matters.                        *)
AgreeOnFirst(S, first, d, q, columns, x) ==
  (x = "customersNew" \/ "customerType" \in columns \cup FilterDims(q)) =>
    \A o \in OnDay(S, d) : IsFirst(Fact[o], first) <=> IsFirst(Fact[o], FirstOf(S))

(* Rows whose figures add up to those of others.                           *)
SameFigures(rows, x, due, m) ==
  Countable(rows, x) /\ Countable(due, m) /\ Tot(rows, x) = Tot(due, m)

(* The orders left out of a cube have nothing of the measure.              *)
OnlySomeHave(S, d, having, x) ==
  \A o \in OnDay(S, d) :
    ~(Fact[o].measures[having] > 0) => Fact[o].measures[x] = 0

-----------------------------------------------------------------------------
(* The items of an order                                                   *)

(* Rows made of some items of an order, with their figures.                *)
OfItems(o, I, row, made, x, m) ==
  /\ \A i \in I : /\ row[i] \in made /\ row[i].id = <<o, i.line>>
                  /\ Figure(row[i], m) = i[x]
  /\ \A r \in made : \E i \in I : r = row[i]

(* Rows made of some items of an order.                                    *)
MadeOfItems(row, o, I, made) ==
  /\ \A i \in I : row[o][i] \in made
  /\ \A r \in made : \E i \in I : r = row[o][i]

(* The items of an order that are asked for at a key.                      *)
AskedOf(q, S, o, columns, key) ==
  {i \in Fact[o].items : LET k == ItemKey(Fact[o], i, FirstOf(S))
                         IN  /\ Passes(k, Allowed(q))
                             /\ KeyFor(k, columns) = key}

(* The keys of the rows of items are those due, as far as they are asked   *)
(* about.                                                                  *)
KeysOfItems(row, q, S, d, columns) ==
  \A o \in OnDay(S, d) : \A i \in Fact[o].items :
    LET k == ItemKey(Fact[o], i, FirstOf(S))
    IN  /\ Alike(DatedKey(row[o][i].k, d), k, columns)
        /\ Alike(row[o][i].k, k, FilterDims(q))

(* The same, of a query that does not split items.                         *)
KeysOfOrders(row, q, S, d, columns) ==
  \A o \in OnDay(S, d) : \A i \in Fact[o].items :
    LET k == OrderKey(Fact[o], FirstOf(S))
    IN  /\ Alike(DatedKey(row[o][i].k, d), k, columns)
        /\ Alike(row[o][i].k, k, FilterDims(q))

(* The key of a cell of order-lines.                                       *)
KeyOfProduct == {"currency", "store", "product"}

(* What is asked of the items of a day, in all or split by what they are.  *)
AsksItems(q, x) ==
  \/ SplitsItems(q) /\ x \in ItemMeasures
  \/ ~SplitsItems(q) /\ x \in {"units", "cost"}

-----------------------------------------------------------------------------
(* The cubes of a day, and the answers read from them                      *)

(* The cells of a cube have its measures, and their key as their id.       *)
IsCell(c, measures) == c = Row(c.k, c.k, c.m) /\ DOMAIN c.m = measures

(* The cube a metric of a query is read from.                              *)
CubeOf(m, q) ==
  IF m \in ITEM_METRICS /\ "category" \in GroupDims(q)
    THEN "order-categories-daily"
  ELSE IF m \in ITEM_METRICS /\ "product" \in GroupDims(q)
    THEN "order-lines-daily"
  ELSE CUBE_BY_METRIC[m]

(* x can be read from the cube for the metric m of a query.                *)
ReadFor(m, q, cube, x) ==
  /\ cube \in CubesOf(q) /\ cube \in DAILY_CUBES
  /\ GroupDims(q) \cup FilterDims(q) \subseteq CUBE_DIMENSIONS[cube]
  /\ Mixed(m, q) = IF cube = "order-lines-daily" THEN {"product", "currency"} ELSE {}
  /\ cube = "order-categories-daily" => SplitsItems(q) /\ x \in ItemMeasures
  /\ cube = "order-lines-daily" => AsksItems(q, x)
  /\ SplitsItems(q) => cube \in {"order-categories-daily", "order-lines-daily"}
  /\ ~SplitsItems(q) => cube = CUBE_BY_METRIC[m]

(* The rows read from a cube of a day that are asked for at a key.         *)
RowsFrom(cells, q, d, name, columns, key) ==
  {CellOfDay(d, name, c) : c \in Chosen(cells, q, d, columns, key)}

(* Days as they are stored: each was folded from its orders, all orders    *)
(* are there, and firsts says who was first when the day was folded.       *)
HoldsDays(stored, S, firsts) ==
  /\ S \in SUBSET DOMAIN Orders
  /\ IsFiniteSet(DOMAIN stored)
  /\ \A d \in DOMAIN stored :
       firsts[d] # Null /\ stored[d] = FoldDay(FactsOf(OnDay(S, d)), firsts[d])
  /\ \A o \in S : Fact[o].businessDate \in DOMAIN stored

(* The days agree with what is known on who is new.                        *)
FirstsAgree(stored, S, firsts, q, columns, x) ==
  \A d \in DOMAIN stored : AgreeOnFirst(S, firsts[d], d, q, columns, x)

(* What a query asks so that the figures of the metric m are exact.        *)
AsksExactly(q, m, columns) ==
  /\ Carried(q) /\ m \in q.metrics /\ m \in DOMAIN CUBE_BY_METRIC
  /\ ReadOnce(m, q) /\ FilterDims(q) \cap Mixed(m, q) = {}
  /\ columns \subseteq (GroupDims(q) \cup WithDate(q)) \ Mixed(m, q)

(* The rows of one cube, day by day.                                       *)
OfCube(rows, cube) == {r \in rows : \E d, k : r.id = <<d, cube, k>>}

(* Who was known to be first when a day was folded.                        *)
FirstsOfCubes == [d \in DOMAIN cubes |-> FirstOf(cubes[d].known)]

(* The orders the cubes were folded from.                                  *)
InCubes == UNION {cubes[d].orders : d \in DOMAIN cubes}

(* A row due of one of the orders.                                         *)
IsDue(r, q, S) ==
  IF SplitsItems(q)
    THEN \E o \in S : \E i \in Fact[o].items : r = DueItem(q, S, o, i)
    ELSE \E o \in S : r = DueOrder(q, S, o)

(* Rows due of the same thing, which differ at most in who is new.         *)
StaysDue(r, t, m) ==
  /\ r.id = t.id /\ Figure(r, m) = Figure(t, m)
  /\ Figure(r, m) \in Nat \cup {Null}
  /\ r.k["date"] = t.k["date"] /\ DOMAIN r.k = DOMAIN t.k
  /\ \A y \in DOMAIN r.k \ {"customerType"} : r.k[y] = t.k[y]

(* The metrics whose figures can only grow.                                *)
Grows(q, m) ==
  /\ m \in q.metrics /\ ~CountsFirst(m) /\ "customerType" \notin FilterDims(q)
  /\ SplitsItems(q) => MEASURE_BY_METRIC[m] \in ItemMeasures

-----------------------------------------------------------------------------
(* What the answers kept say                                               *)

(* What FiguresAreExact and ReadsCoverPublished say of an answer.          *)
ExactFor(a, q, m, columns) ==
  (/\ a.covers = a.reads
   /\ ReadOnce(m, q) /\ FilterDims(q) \cap Mixed(m, q) = {}
   /\ a.behind => ~CountsFirst(m) /\ "customerType" \notin columns \cup FilterDims(q))
  => \A k : Figures(AtKey(a.answer.rows, columns, k), m)
              = Figures(AtKey(DueRows(q, a.reads), columns, k), m)
ExactOf(a) ==
  \A m \in a.query.metrics :
    ExactFor(a, a.query, m,
             (GroupDims(a.query) \cup WithDate(a.query)) \ Mixed(m, a.query))
CoversOf(a) ==
  \A m \in a.query.metrics :
    LET q == a.query
    IN  (/\ ReadOnce(m, q) /\ FilterDims(q) \cap Mixed(m, q) = {}
         /\ ~CountsFirst(m) /\ "customerType" \notin FilterDims(q))
        => /\ Figures(DueRows(q, a.covers), m) <= Figures(a.answer.rows, m)
           /\ Figures(a.answer.rows, m) <= Figures(DueRows(q, a.reads), m)

(* Of an answer read from the cubes; of others nothing is said.            *)
SaysEnough(a) == (FromCubes(a.query) /\ Carried(a.query)) => ExactOf(a) /\ CoversOf(a)

(* a is what ReadCubes receives for q.                                     *)
IsRead(a, q) ==
  /\ FromCubes(q) /\ Carried(q) /\ a.query = q
  /\ a.answer.rows = CellRows(ReadDays(q, Partitions, CubesOf(q)), q)
  /\ a.covers = Vouched(seen) /\ a.reads = orders /\ (a.behind <=> BackDated)

(* A query has seen a watermark.                                           *)
WatermarkSeen == IInv /\ JobInv /\ seen # Null

(* The answers of the tile being run say enough.                           *)
ExactInv ==
  /\ IInv /\ JobInv
  /\ \A a \in answers : SaysEnough(a)
=============================================================================
