-------------------------------- MODULE TileRun --------------------------------
(***************************************************************************)
(* One run of a report from end to end, beside the rollup job: the gateway *)
(* plans the report (plan.ts), sends the queries of each tile, checks the  *)
(* scope of what comes back, merges (run-report.ts), and the sources       *)
(* answer, ct-native from the cubes the job writes (rollup-reader.ts).     *)
(*                                                                         *)
(* The tiles are run one after the other: they share nothing but the       *)
(* sources, and ReportRun has their concurrency, the cache and the         *)
(* comparison.  A partition is read and written whole (Partition has the   *)
(* shards).  A pass of the job may run out of budget once it has scanned;  *)
(* cut short before that, it publishes nothing (RollupJob has that).       *)
(***************************************************************************)
EXTENDS Planner, Merge

CONSTANTS
  Orders,         \* maps ids to orders
  StoredReports,  \* maps ids to reports; Null is one that cannot be read
  Scenarios       \* records [request, down, late, settled]: what is asked,
                  \* the sources out of reach, the orders still to arrive,
                  \* and whether the job has published the others

ASSUME ScenarioAssumption ==
  \A s \in Scenarios : /\ s.request.sources \subseteq DOMAIN Descriptors
                       /\ s.late \subseteq DOMAIN Orders

(* An order has all its fields, its amounts are integers, and its day is   *)
(* in a month of the calendar.  Orders have the order of their ids.        *)
Amounts(record, fields) ==
  fields \subseteq DOMAIN record /\ \A x \in fields : record[x] \in Int
ASSUME OrderAssumption ==
  /\ IsFiniteSet(DOMAIN Orders) /\ DOMAIN Orders \subseteq Int
  /\ \A o \in DOMAIN Orders :
       LET order == Orders[o]
       IN  /\ order.id = o
           /\ Amounts(order, {"id", "createdAt", "total", "shipping", "discount"})
           /\ order.completedAt \in Int \cup {Null}
           /\ order.shippedAt \in Int \cup {Null}
           /\ {"completedAt", "shippedAt", "customer", "taxed", "codes",
               "promoCode", "paymentState", "lines"} \subseteq DOMAIN order
           /\ order.taxed # Null => Amounts(order.taxed, {"gross", "net", "tax"})
           /\ IsFiniteSet(order.lines)
           /\ \A l \in order.lines :
                /\ Amounts(l, {"quantity", "price", "unitCost"})
                /\ {"line", "sku"} \subseteq DOMAIN l /\ l.sku # OTHER_BUCKET
                /\ \A n \in order.lines : n.line = l.line => n = l
           /\ HasLatest(MonthStarts, BusinessDateOf(order))

(* No order, and no line, takes money or goods back.                       *)
ASSUME AmountAssumption ==
  \A o \in DOMAIN Orders :
    LET order == Orders[o]
    IN  /\ \A x \in {"total", "shipping", "discount"} : order[x] >= 0
        /\ order.taxed # Null =>
             \A x \in {"gross", "net", "tax"} : order.taxed[x] >= 0
        /\ \A l \in order.lines : \A x \in {"quantity", "price", "unitCost"} :
             l[x] >= 0

(* The cube a metric is read from carries its measure, except for active   *)
(* customers, whom no cube counts.  Only metrics of items are read from    *)
(* other cubes as well, and all of those have their measures.              *)
ASSUME MeasureAssumption ==
  \A m \in DOMAIN CUBE_BY_METRIC :
    LET cube == CUBE_BY_METRIC[m]
        x == MEASURE_BY_METRIC[m]
    IN  /\ cube = "orders-daily" =>
             x \in ORDER_MEASURES \cup {"customersNew", "customersActive"}
        /\ cube = "order-lines-daily" => x \in {"units", "cost"}
        /\ cube = "promotions-daily" => x = "redemptions"
        /\ cube = "fulfilment-daily" => x \in {"shipments", "shipmentsOnTime"}
        /\ cube # "order-categories-daily"
        /\ cube = "order-lines-daily" => m \in ITEM_METRICS
        /\ m \in ITEM_METRICS => x \in ItemMeasures

VARIABLES
  request,       \* [id, range, grain, filters, access, sources]
  down, late,
  orders,        \* whose facts are there
  pass,          \* a pass of the job [known, todo], or Null
  scanned,       \* the orders earlier passes have seen
  cubes,         \* what each day was folded from
  published,     \* as of the last complete scan: [watermark, known,
                 \* left: days known dirty that no pass came to fold,
                 \* cohort: the orders in the snapshot of the cohorts]
  plans,         \* the plans of the tiles, or Null before planning
  tile,          \* the tile being run
  begun,         \* whether its queries have been sent
  pending,       \* those of them not yet answered
  seen,          \* the watermark a query has read, or Null
  answers,       \* records [query, answer, covers, reads, behind]
  shown,         \* what the last tile shows, or Null
  statuses,      \* the status of each tile so far
  outcome

jobVars == <<late, orders, pass, scanned, cubes, published>>
runVars == <<request, down, plans, tile, begun, pending, seen, answers,
             shown, statuses, outcome>>
vars == <<request, down, late, orders, pass, scanned, cubes, published, plans,
          tile, begun, pending, seen, answers, shown, statuses, outcome>>

-----------------------------------------------------------------------------
(* The rollup job.  Orders are given by their ids.                         *)

Fact == [o \in DOMAIN Orders |-> ToOrderFact(ApplyLineCategories(Orders[o]))]
FactsOf(S) == {Fact[o] : o \in S}
DaysOf(S) == {Fact[o].businessDate : o \in S}
OnDay(S, d) == {o \in S : Fact[o].businessDate = d}
FirstOf(S) == FirstOrderIds(FactsOf(S))
ASSUME FirstAssumption == \A S \in SUBSET DOMAIN Orders : FirstOf(S) # Null

PartitionsAlone == [d \in DOMAIN cubes |->
                      FoldDay(FactsOf(cubes[d].orders), FirstOf(cubes[d].orders))]

(* The cubes as partitions: a day is folded from the facts it had, with    *)
(* the first orders known when the pass began.                             *)
Partitions == [d \in DOMAIN cubes |->
                 FoldDay(FactsOf(cubes[d].orders), FirstOf(cubes[d].known))]
Cohort == FoldCohort(FactsOf(published.cohort))
Watermark == published.watermark

PlaceOrder(o) ==
  /\ o \in late
  /\ late' = late \ {o} /\ orders' = orders \cup {o}
  /\ UNCHANGED <<pass, scanned, cubes, published, runVars>>

(* The scan, and then the reading of all the facts.                        *)
StartPass ==
  /\ pass = Null
  /\ orders # scanned \/ Watermark = Null \/ published.cohort # scanned
  /\ pass' = [known |-> orders, todo |-> DaysOf(orders \ scanned)]
  /\ UNCHANGED <<late, orders, scanned, cubes, published, runVars>>

RebuildDay(d) ==
  /\ pass # Null /\ d \in pass.todo
  /\ cubes' = [e \in DOMAIN cubes \cup {d} |->
                 IF e = d THEN [orders |-> OnDay(orders, d), known |-> pass.known]
                 ELSE cubes[e]]
  /\ pass' = [pass EXCEPT !.todo = @ \ {d}]
  /\ published' = [published EXCEPT !.left = @ \ {d}]
  /\ UNCHANGED <<late, orders, scanned, runVars>>

(* The watermark is published after every complete scan.  Days to do are   *)
(* those the budget did not reach, and the cursor is past their orders;    *)
(* the cohorts are taken anew only by a pass that has budget left.         *)
EndPass(vouched) ==
  /\ pass # Null
  /\ \E cohort \in {published.cohort, pass.known} :
       /\ pass.todo # {} => cohort = published.cohort
       /\ published' = [watermark |-> Today, known |-> vouched,
                        left |-> published.left \cup pass.todo,
                        cohort |-> cohort]
  /\ scanned' = pass.known
  /\ pass' = Null
  /\ UNCHANGED <<late, orders, cubes, runVars>>
PublishUpToNow == EndPass(orders)
Publish == EndPass(pass.known)
-----------------------------------------------------------------------------
(* The report run                                                          *)

(* A stored report shadows the built-in one of its id.                     *)
IsStored(id) == id \in DOMAIN StoredReports /\ StoredReports[id] # Null
Definition(id) ==
  IF IsStored(id) THEN StoredReports[id]
  ELSE IF id \in DOMAIN BUILTIN_REPORTS THEN BUILTIN_REPORTS[id] ELSE Null

TheReport == Definition(request.id)
TheTile == TheReport.tiles[tile]
Plan == plans[tile]
Running == plans # Null /\ outcome = Null
Arrived == {a.answer : a \in {b \in answers : b.answer.error = Null}}

Hidden ==
  \/ TheReport = Null
  \/ ReportAvailability(request.id, TheReport, request.access,
                        request.sources) = "hidden"
Throws ==
  \E i \in DOMAIN TheReport.tiles : PlanThrows(TheReport.tiles[i], request)

(* A report the subject may not see is unknown to it, and the run fails    *)
(* where the planner throws.                                               *)
Refuse(answer) == outcome' = answer /\ plans' = plans
Receive ==
  /\ plans = Null /\ outcome = Null
  /\ IF ~MayReport(request.access) THEN Refuse("forbidden")
     ELSE IF Hidden THEN Refuse("not_found")
     ELSE IF Throws THEN Refuse("error")
     ELSE plans' = PlanReport(TheReport, request) /\ outcome' = outcome
  /\ UNCHANGED <<request, down, tile, begun, pending, seen, answers, shown,
                 statuses, jobVars>>

(* The tile is done with: status is what it shows.                         *)
Settle(status, result) ==
  /\ statuses' = Append(statuses, status)
  /\ shown' = result
  /\ tile' = tile + 1
  /\ begun' = FALSE /\ pending' = {} /\ seen' = Null /\ answers' = {}

BeginTile ==
  /\ Running /\ tile \in DOMAIN plans /\ ~begun
  /\ IF Plan.renderable
       THEN /\ begun' = TRUE /\ pending' = Plan.subQueries
            /\ UNCHANGED <<tile, seen, answers, shown, statuses>>
       ELSE Settle("unavailable", Null)
  /\ UNCHANGED <<request, down, plans, outcome, jobVars>>

(* A query is sent to a registered source, and is lost on one out of reach *)
(* (see SourceClient for how a call fails).                                *)
Answering(q) == begun /\ q \in pending /\ q.sourceId \in request.sources \ down

Unverified(answer, scope) == TRUE

(* A row outside the scope asked for costs the source the whole answer.    *)
VerifyScope(answer, scope) ==
  \A r \in answer.rows, d \in DOMAIN scope \cap answer.columns :
    Value(r.k, d) = Null \/ r.k[d] \in scope[d]

(* An order that arrived after a later day of its customer was folded.     *)
BackDated ==
  \E d \in DOMAIN cubes : \E o \in orders \ cubes[d].known :
    \E p \in cubes[d].orders :
      /\ Fact[p].customer # Null /\ Fact[p].customer = Fact[o].customer
      /\ Fact[o].businessDate < d

(* An answer is kept with what it can be compared with: the orders its     *)
(* watermark vouched for, those there were, and whether some were          *)
(* back-dated.                                                             *)
Receives(q, answer, covers) ==
  /\ pending' = pending \ {q}
  /\ answers' = IF VerifyScope(answer, q.scope)
                  THEN answers \cup {[query |-> q, answer |-> answer,
                                      covers |-> covers, reads |-> orders,
                                      behind |-> BackDated]}
                  ELSE answers
  /\ UNCHANGED <<request, down, plans, tile, begun, shown, statuses, outcome,
                 jobVars>>

FromCubes(q) ==
  /\ q.sourceId = "ct-native" /\ IsForCubes(q)
  /\ ValidateAgainstDescriptor(q, Descriptors[q.sourceId]) = Null

AnswerQuery(q) ==
  /\ Answering(q) /\ ~FromCubes(q)
  /\ Receives(q, SourceAnswer(q.sourceId, q), {})
  /\ seen' = seen

(* What a watermark vouches for: what was scanned, but for the days left.  *)
Vouched(p) == {o \in p.known : Fact[o].businessDate \notin p.left}

(* The cubes are read after the watermark; the job may come in between.    *)
ReadWatermark(q) ==
  /\ Answering(q) /\ FromCubes(q) /\ seen = Null
  /\ seen' = published
  /\ UNCHANGED <<request, down, plans, tile, begun, pending, answers, shown,
                 statuses, outcome, jobVars>>
ReadCubes(q) ==
  /\ Answering(q) /\ FromCubes(q) /\ seen # Null
  /\ Receives(q, CtNativeAnswer(q, Partitions, Cohort, seen.watermark),
              Vouched(seen))
  /\ seen' = Null

LoseQuery(q) ==
  /\ begun /\ q \in pending /\ q.sourceId \notin request.sources \ down
  /\ pending' = pending \ {q}
  /\ UNCHANGED <<request, down, plans, tile, begun, seen, answers, shown,
                 statuses, outcome, jobVars>>

TileStatusOfAnswers(arrived, asked) ==
  IF \E a \in arrived : a.status # "ok" THEN "partial" ELSE "ok"

TileStatus(arrived, asked) ==
  IF \/ Cardinality(arrived) < Cardinality(asked)
     \/ \E a \in arrived : a.status # "ok"
    THEN "partial" ELSE "ok"
Conclude ==
  /\ Running /\ begun /\ pending = {}
  /\ IF Arrived = {} THEN Settle("unavailable", Null)
     ELSE Settle(TileStatus(Arrived, Plan.subQueries),
                 [tile |-> tile, answers |-> answers,
                  merged |-> MergeResults(Arrived, Plan, TheTile, "monday")])
  /\ UNCHANGED <<request, down, plans, outcome, jobVars>>

ReportStatus ==
  LET all == Range(statuses)
  IN  IF all = {"unavailable"} \/ (TheReport.strict /\ all # {"ok"})
        THEN "failed"
      ELSE IF all # {"ok"} THEN "partial" ELSE "ok"
Finish ==
  /\ Running /\ tile \notin DOMAIN plans
  /\ outcome' = ReportStatus
  /\ UNCHANGED <<request, down, plans, tile, begun, pending, seen, answers,
                 shown, statuses, jobVars>>

-----------------------------------------------------------------------------

(* Either everything is published already or nothing has been folded.      *)
Init ==
  /\ \E s \in Scenarios :
       LET there == DOMAIN Orders \ s.late
       IN  /\ request = s.request /\ down = s.down /\ late = s.late
           /\ orders = there
           /\ IF s.settled
                THEN /\ cubes = [d \in DaysOf(there) |->
                          [orders |-> OnDay(there, d), known |-> there]]
                     /\ scanned = there
                     /\ published = [watermark |-> Today, known |-> there,
                                     left |-> {}, cohort |-> there]
                ELSE /\ cubes = <<>> /\ scanned = {}
                     /\ published = [watermark |-> Null, known |-> {},
                                     left |-> {}, cohort |-> {}]
  /\ pass = Null
  /\ plans = Null /\ tile = 1 /\ begun = FALSE /\ pending = {} /\ seen = Null
  /\ answers = {} /\ shown = Null /\ statuses = <<>> /\ outcome = Null

Job ==
  \/ \E o \in late : PlaceOrder(o)
  \/ StartPass
  \/ pass # Null /\ \E d \in pass.todo : RebuildDay(d)
  \/ Publish
Run ==
  \/ Receive \/ BeginTile \/ Conclude \/ Finish
  \/ \E q \in pending :
       AnswerQuery(q) \/ ReadWatermark(q) \/ ReadCubes(q) \/ LoseQuery(q)
Next == Job \/ Run
Spec == Init /\ [][Next]_vars
-----------------------------------------------------------------------------
(* Properties                                                              *)

OrZero(figure) == IF figure = Null THEN 0 ELSE figure
Figures(rows, m) == OrZero(SumOf(rows, m))

(* What the cells of each cube carry besides the day.                      *)
CUBE_DIMENSIONS ==
  [cube \in DAILY_CUBES |->
     CASE cube = "orders-daily" -> OrderDims \cup {"customerType"}
       [] cube = "order-lines-daily" -> {"currency", "store", "product"}
       [] cube = "order-categories-daily" -> {"currency", "store", "category"}
       [] cube = "promotions-daily" -> {"currency", "store", "discountCode"}
       [] cube = "fulfilment-daily" -> {"store", "shippingMethod", "carrier"}]
CUBE_MEASURES ==
  [cube \in DAILY_CUBES |->
     CASE cube = "orders-daily" -> ORDER_MEASURES \cup {"customersNew"}
       [] cube = "order-lines-daily" -> ItemMeasures
       [] cube = "order-categories-daily" -> ItemMeasures
       [] cube = "promotions-daily" ->
            {"redemptions", "ordersPromoted", "discount"}
       [] cube = "fulfilment-daily" -> {"shipments", "shipmentsOnTime"}]

CubesOf(q) == CubesFor(q.metrics, GroupDims(q))
FilterDims(q) == {f.dimension : f \in Allowed(q)}
Carried(q) ==
  \A cube \in CubesOf(q) :
    /\ cube \in DAILY_CUBES
    /\ GroupDims(q) \cup FilterDims(q) \subseteq CUBE_DIMENSIONS[cube]
ReadOnce(m, q) ==
  \A cube, other \in CubesOf(q) :
    MEASURE_BY_METRIC[m] \in CUBE_MEASURES[cube] \cap CUBE_MEASURES[other]
      => cube = other
CubeAnswers == {a \in answers : FromCubes(a.query) /\ Carried(a.query)}

(* What the residual of a store mixes: its products and their currencies.  *)
Mixed(m, q) ==
  IF CubesFor({m}, GroupDims(q)) = {"order-lines-daily"}
    THEN {"product", "currency"} ELSE {}

(* Whether it matters which orders are the first of their customers.       *)
CountsFirst(m) == MEASURE_BY_METRIC[m] = "customersNew"

(* What a query is due from the orders S: each order, or each line of it   *)
(* when the query splits items, counted once.                              *)
SplitsItems(q) == GroupDims(q) \cap {"product", "category"} # {}
DueOfOrder(f, first, x) ==
  CASE x = "cost" -> Total(f.items, LAMBDA i : i.cost)
    [] x = "customersNew" -> Truth(IsFirst(f, first))
    [] x \in ORDER_MEASURES -> f.measures[x]
    [] OTHER -> Null
OrderKey(f, first) ==
  [d \in DOMAIN f.dims \cup {"date", "customerType"} |->
     CASE d = "date" -> f.businessDate
       [] d = "customerType" -> CustomerType(f, first)
       [] OTHER -> f.dims[d]]
ItemKey(f, i, first) ==
  [d \in DOMAIN OrderKey(f, first) \cup {"product", "category"} |->
     CASE d = "product" -> i.sku
       [] d = "category" -> i.category
       [] OTHER -> OrderKey(f, first)[d]]
DueRows(q, S) ==
  LET first == FirstOf(S)
      OfOrder(f) == Row(f.orderId, OrderKey(f, first),
                        [m \in q.metrics |->
                           DueOfOrder(f, first, MEASURE_BY_METRIC[m])])
      OfItem(f, i) == Row(<<f.orderId, i.line>>, ItemKey(f, i, first),
                          [m \in q.metrics |-> i[MEASURE_BY_METRIC[m]]])
      rows == IF SplitsItems(q)
                THEN UNION {{OfItem(f, i) : i \in f.items} : f \in FactsOf(S)}
                ELSE {OfOrder(f) : f \in FactsOf(S)}
  IN  {r \in rows : /\ r.k["date"] \in EachDay(q.timeRange)
                    /\ Passes(r.k, Allowed(q))}

(* Once everything that has arrived is published, and its days were        *)
(* folded, each row of an answer read from the cubes (rollup-reader.ts:227) *)
(* shows the sum over exactly the orders, or order lines, of its key,      *)
(* range, filters and scope, and no row is missing: across mapping, folds, *)
(* top N and reading.  Where the residual mixes products and currencies,   *)
(* they are compared in sum.  Left out are a measure found in two of the   *)
(* cubes read, filters by what the residual mixes and, if orders were      *)
(* back-dated, who is a new customer.                                      *)
FiguresAreExact ==
  \A a \in CubeAnswers : \A m \in a.query.metrics :
    LET q == a.query
        columns == (GroupDims(q) \cup WithDate(q)) \ Mixed(m, q)
        due == DueRows(q, a.reads)
        Keyed(rows) == {KeyFor(r.k, columns) : r \in rows}
        At(rows, k) == {r \in rows : KeyFor(r.k, columns) = k}
    IN  (/\ a.covers = a.reads
         /\ ReadOnce(m, q) /\ FilterDims(q) \cap Mixed(m, q) = {}
         /\ a.behind => ~CountsFirst(m)
                        /\ "customerType" \notin columns \cup FilterDims(q))
        => \A k \in Keyed(a.answer.rows) \cup Keyed(due) :
             Figures(At(a.answer.rows, k), m) = Figures(At(due, k), m)

(* An answer from the cubes shows at least every order that had been       *)
(* scanned when its watermark was published (handler.ts:160 of ct-native), *)
(* but for those of days that the budget of a pass did not reach, and      *)
(* nothing that has not arrived, whatever the job does between the reading *)
(* of the watermark and of the cubes.  New customers are left out: an      *)
(* order that arrives may take that from another.                          *)
ReadsCoverPublished ==
  \A a \in CubeAnswers : \A m \in a.query.metrics :
    LET q == a.query
    IN  (/\ ReadOnce(m, q) /\ FilterDims(q) \cap Mixed(m, q) = {}
         /\ ~CountsFirst(m) /\ "customerType" \notin FilterDims(q))
        => /\ Figures(DueRows(q, a.covers), m) <= Figures(a.answer.rows, m)
           /\ Figures(a.answer.rows, m) <= Figures(DueRows(q, a.reads), m)

(* Says the comment at rollup-reader.ts:68: net revenue is that of the     *)
(* orders when the query does not split by product or category.  It is     *)
(* not when another metric of the query is read from another cube that has *)
(* revenueNet too, since the reader adds the cells of all cubes it reads.  *)
NetRevenueIsOrderGrain ==
  \A a \in CubeAnswers :
    LET q == a.query
    IN  (/\ a.covers = a.reads /\ "revenue.net@orderdate" \in q.metrics
         /\ GroupDims(q) \cap {"product", "category"} = {})
        => Figures(a.answer.rows, "revenue.net@orderdate")
             = Figures(DueRows(q, a.reads), "revenue.net@orderdate")

(* What a watermark vouches for, the one published or the one a query has  *)
(* read, is in the cubes, and stays there whatever passes come after, so   *)
(* the cubes a query goes on to read hold it (handler.ts:160): every order *)
(* scanned before it was published, except on the days which a pass out of *)
(* budget left unfolded and to which no later pass has come back.          *)
Folded(o) ==
  /\ Fact[o].businessDate \in DOMAIN cubes
  /\ o \in cubes[Fact[o].businessDate].orders
WatermarkVouches ==
  /\ \A o \in Vouched(published) : Folded(o)
  /\ seen # Null => \A o \in Vouched(seen) : Folded(o)

Settled == pass = Null /\ scanned = orders /\ published.left = {}

(* When the job has caught up and left no day unfolded, every customer has *)
(* been counted as new (order-mapping.ts:359), and exactly once unless an  *)
(* order arrived after a later day of its customer had been folded.        *)
NewCountedOnce ==
  LET cells == UNION {{Row(<<d, c.k>>, c.k, c.m) :
                         c \in Partitions[d]["orders-daily"]} :
                        d \in DOMAIN cubes}
      new == Figures(cells, "customersNew")
      customers == Cardinality(CustomersOf(FactsOf(orders)))
  IN  Settled => new >= customers /\ (BackDated \/ new = customers)

(* The cohorts of the snapshot (foldCohort, order-mapping.ts:511) share    *)
(* out the customers it knew: each is in one cohort, all of a cohort are   *)
(* there in its first month and no more later, and no month is skipped.    *)
CohortsShareCustomers ==
  LET customers == CustomersOf(FactsOf(published.cohort))
      cohort == Cohort
      Starts == {c \in cohort : c.k.periodIndex = 0}
  IN  /\ Figures(Starts, "cohortSize") = Cardinality(customers)
      /\ \A c \in Starts : c.m["retained"] = c.m["cohortSize"]
      /\ \A c \in cohort :
           /\ c.m["retained"] <= c.m["cohortSize"]
           /\ c.k.periodIndex > 0 =>
                \E b \in cohort :
                  /\ b.k = [c.k EXCEPT !.periodIndex = @ - 1]
                  /\ b.m["cohortSize"] = c.m["cohortSize"]

(* Every query the planner makes is accepted by the source it picked       *)
(* (validateAgainstDescriptor in dsp/server.ts and the handlers), but for  *)
(* what the handlers refuse and the descriptors do not tell, and then it   *)
(* is refused every time:                                                  *)
(* - any query without a range, which the planner asks of what is declared *)
(*   live and for a tile of a point in time; only the live metrics of      *)
(*   ct-native, and the ERP system, answer it, GA4 among others does not;  *)
(* - one across the datasets of the warehouse or of the ERP system;        *)
(* - prices of the catalogue without one currency pinned;                  *)
(* - stock or promotions beside another live metric.                       *)
AcrossDatasets(q) ==
  LET datasets == IF q.sourceId = "warehouse" THEN {t.metrics : t \in TEMPLATES}
                  ELSE ERP_DATASETS
  IN  /\ q.sourceId \in {"warehouse", "erp-oms"}
      /\ \A d \in datasets : ~(q.metrics \subseteq d)
WithoutRange(q) ==
  /\ q.timeRange = Null /\ q.sourceId # "erp-oms"
  /\ q.sourceId = "ct-native" => ~(q.metrics \subseteq DOMAIN LiveMetrics)
UnpinnedPrices(q) == q.metrics \cap PRICE_METRICS # {} /\ ~PinnedCurrency(q)
LiveMix(q) ==
  /\ q.sourceId = "ct-native" /\ Cardinality(q.metrics) > 1
  /\ q.metrics \cap {"inventory.available", "promotions.active"} # {}
PlannedIsAccepted ==
  \A a \in answers :
    a.answer.error \in CapabilityErrors \cup {"SCOPE_UNSATISFIABLE"} <=>
      \/ WithoutRange(a.query) \/ AcrossDatasets(a.query)
      \/ UnpinnedPrices(a.query) \/ LiveMix(a.query)

(* No column of a report shows a sensitive metric to a subject who has     *)
(* neither been granted that class of metrics nor, by name, the metric or  *)
(* one whose formula needs it (access.ts:240).                             *)
GrantedByName(access, m) ==
  \E d \in access.granted["metric"] : m = d \/ m \in Range(LeavesOf(d))
SensitiveStaysHidden ==
  plans # Null =>
    \A i \in DOMAIN plans : \A m \in plans[i].baseMetrics \cup plans[i].derived :
      Sensitivity(m) # Null =>
        \/ Sensitivity(m) \in request.access.sensitivities
        \/ GrantedByName(request.access, m)

(* What a tile shows is within the scope of the subject, row by row.       *)
ShownRowsAreInScope ==
  shown # Null =>
    \A r \in shown.merged.rows, d \in DOMAIN request.access.rowScope :
      Value(r.k, d) \in request.access.rowScope[d] \cup {Null, OTHER_BUCKET}

(* A tile said to be ok has an answer for every metric that was planned,   *)
(* and in a strict report every metric the subject may see was planned.    *)
OkTilesAreWhole ==
  (shown # Null /\ statuses[shown.tile] = "ok") =>
    LET plan == plans[shown.tile]
        answered == UNION {a.query.metrics : a \in shown.answers}
        displayed == Permitted(TheReport.tiles[shown.tile], request.access)
    IN  /\ \A m \in displayed \ plan.unavailable :
             Range(LeavesOf(m)) \subseteq answered
        /\ TheReport.strict => plan.unavailable = {}

(* Merging loses and invents nothing: a figure that adds up has the same   *)
(* sum over the rows shown and over the answers, unless rows are cut.      *)
MergeConserves ==
  shown # Null =>
    LET plan == plans[shown.tile]
        shape == TheReport.tiles[shown.tile]
        whole == /\ shape.limit = Null
                 /\ shape.topN # Null =>
                      shape.topN.otherBucket /\ AddsUp(shape.topN.by)
        rolledUp == NeedsRollUp(plan.effectiveGrain, plan.joinKey)
    IN  \A m \in plan.baseMetrics :
          (whole /\ AddsUp(m) /\ (rolledUp => AddsUpOverTime(m))) =>
            Figures(shown.merged.rows, m)
              = SumFunction([a \in shown.answers |-> Figures(a.answer.rows, m)])
=============================================================================
