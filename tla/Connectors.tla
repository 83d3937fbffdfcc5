------------------------------ MODULE Connectors ------------------------------
(***************************************************************************)
(* The data sources: what each connector declares (descriptor.ts of each), *)
(* the validation of a query (shared/src/dsp/server.ts), and how each      *)
(* connector answers (handler.ts, the readers under ct-native's src/ct/,   *)
(* the warehouse's compile-query.ts and sql/manifest.ts).                  *)
(*                                                                         *)
(* The data other systems hold is the constant Holdings.  The GA4 source's *)
(* cache and quota are the matter of Ga4Source; here it answers from the   *)
(* property.  A third-party connector, Web, speaks the same protocol: it   *)
(* serves web metrics materialised, for the last 30 days.                  *)
(*                                                                         *)
(* A query is a record [metrics, dimensions, grain, timeRange, filters,    *)
(* scope] and a filter keeps the rows with one of its values.  Limits of   *)
(* rows and the tokens of connectors are left out, and so is the sample    *)
(* connector, whose metrics are not in the registry.                       *)
(***************************************************************************)
EXTENDS OrderCubes

CONSTANTS
  Holdings,     \* the data outside the cubes
  Today,
  WebTimezone   \* of the web analytics property

DateGrains == {"day", "week", "month", "quarter", "year"}

-----------------------------------------------------------------------------
(* Descriptors                                                             *)

Capability(execution, grains, dimensions, costClass, exactness) ==
  [execution |-> execution, grains |-> grains, dimensions |-> dimensions,
   costClass |-> costClass, exactness |-> exactness,
   maxLag |-> Null, typicalLag |-> Null]
Materialized(dimensions) ==
  Capability("materialized", DateGrains, dimensions, "cheap", "exact")
Live(dimensions) ==
  [Capability("live", {}, dimensions, "cheap", "exact")
     EXCEPT !.maxLag = 60, !.typicalLag = 0]

(* The dimensions declared: with the canonical key those that have one.    *)
Keys(keyed, others) == Restrict(CanonicalKey, keyed) @@ Each(others, Null)
Lag(typical, max) == [typical |-> typical, max |-> max]
Descriptor(alphabetical, metrics, keys, lag, rowLevel, provenance) ==
  [alphabetical |-> alphabetical, metrics |-> metrics, keys |-> keys,
   grains |-> DateGrains, timezone |-> "UTC", lag |-> lag,
   rowLevelDimensions |-> rowLevel, systemOfRecord |-> provenance[1],
   authority |-> provenance[2], dateFloor |-> Null, dateCeiling |-> Null]

ORDER_DIMENSIONS ==
  {"date", "currency", "store", "distributionChannel", "country",
   "orderState", "paymentState", "customerGroup", "customerType"}
ITEM_DIMENSIONS == {"date", "currency", "store", "product", "category"}
SHIPMENT_DIMENSIONS == {"date", "store", "shippingMethod", "carrier"}
COHORT_DIMENSIONS == {"cohortMonth", "periodIndex", "store"}
FACETS == {"category", "productType", "brand", "currency"}

OrderMetrics ==
  Each({"orders.count@orderdate", "revenue.gross@orderdate",
        "revenue.net@cashdate", "discount.value@orderdate",
        "shipping.revenue@orderdate", "tax.collected@orderdate",
        "lines.count@orderdate", "refunds.value@cashdate",
        "customers.new@orderdate", "customers.active@orderdate"},
       Materialized(ORDER_DIMENSIONS))
  @@ Each({"revenue.net@orderdate", "units.sold@orderdate"},
          Materialized(ORDER_DIMENSIONS \cup {"product", "category"}))
  @@ "cost.goods@orderdate" :> Materialized(ITEM_DIMENSIONS)
  @@ "returns.units@orderdate" :>
       Materialized(ITEM_DIMENSIONS \cup {"returnReason"})
  @@ "orders.promoted@orderdate" :>
       Materialized(ORDER_DIMENSIONS \cup {"discountCode"})
  @@ "discount.redemptions" :>
       Materialized({"date", "discountCode", "store", "currency"})
  @@ Each({"customers.cohortSize", "customers.retained"},
          Materialized(COHORT_DIMENSIONS))
  @@ Each({"shipments.count", "shipments.onTime"},
          Materialized(SHIPMENT_DIMENSIONS))
LiveMetrics ==
  "inventory.available" :> Live({"category", "product", "supplyChannel"})
  @@ "promotions.active" :> Live({"discountCode", "store", "currency"})
  @@ "products.count" :> Live(FACETS \cup {"priceBand"})
  @@ Each({"variants.count", "price.min", "price.max", "price.mean"},
          Live(FACETS))

CtNative ==
  Descriptor(1, OrderMetrics @@ LiveMetrics,
    Keys(Conformed \ {"device"},
         {"distributionChannel", "supplyChannel", "orderState",
          "paymentState", "customerGroup", "customerType", "productType",
          "brand", "priceBand", "discountCode", "returnReason",
          "shippingMethod", "carrier", "cohortMonth", "periodIndex"}),
    Lag(600, 3600), {"store", "distributionChannel", "country"},
    <<TRUE, 100>>)

WebMetrics ==
  {"sessions.count", "users.active", "pageviews.count", "productviews.count",
   "addtocart.count", "checkoutstart.count", "searches.count",
   "searches.zeroResult"}
WebKeys == Keys({"date", "country", "device"},
                {"trafficChannel", "sourceMedium", "campaign", "landingPage",
                 "searchTerm"})
Hours(n) == n * 3600

Ga4 ==
  [Descriptor(3,
     Each(WebMetrics, Capability("live", DateGrains, DOMAIN WebKeys,
                                 "expensive", "sampled")),
     WebKeys, Lag(Hours(6), Hours(48)), {}, <<FALSE, 20>>)
     EXCEPT !.timezone = WebTimezone]

WebAnalytics ==
  [Ga4 EXCEPT !.alphabetical = 5, !.dateFloor = 30, !.dateCeiling = 0,
     !.metrics = Each(WebMetrics,
       Capability("materialized", DateGrains, DOMAIN WebKeys,
                  "moderate", "sampled"))]

Warehouse ==
  LET Metric(dimensions) ==
        Capability("materialized", DateGrains, dimensions, "moderate",
                   "exact")
  IN  Descriptor(4,
        Each({"cost.goods@orderdate", "revenue.net@orderdate",
              "units.sold@orderdate"},
             Metric({"currency", "store", "category", "product"}))
        @@ "marketing.spend" :> Metric({"currency", "campaign", "channel"}),
        Keys({"date", "currency", "store", "category", "product"},
             {"campaign", "channel"}),
        Lag(Hours(24), Hours(48)), {"store"}, <<FALSE, 40>>)

ErpOms ==
  LET Metric(dimensions, grains) ==
        Capability("materialized", grains, dimensions, "moderate", "exact")
  IN  Descriptor(2,
        "inventory.available" :> Metric({"warehouse", "product"}, {})
        @@ Each({"shipments.count", "shipments.onTime"},
                Metric({"warehouse", "carrier"}, DateGrains))
        @@ "fulfilment.pickToShipSeconds" :> Metric({"warehouse"}, DateGrains)
        @@ "returns.units@orderdate" :> Metric({"returnReason"}, DateGrains),
        Keys({"date", "product"}, {"warehouse", "carrier", "returnReason"}),
        Lag(Hours(24), Hours(48)), {"warehouse"}, <<TRUE, 60>>)

Descriptors ==
  "ct-native" :> CtNative @@ "erp-oms" :> ErpOms @@ "ga4" :> Ga4
  @@ "warehouse" :> Warehouse @@ "web" :> WebAnalytics

(* No source can restrict rows by their day, and the grains are those of   *)
(* days.  But for GA4, which answers nothing without a range, what is live *)
(* is a level and not a flow: it does not add up over time.                *)
ASSUME DescriptorAssumption ==
  \A s \in DOMAIN Descriptors :
    /\ "date" \notin Descriptors[s].rowLevelDimensions
    /\ \A m \in DOMAIN Descriptors[s].metrics :
         LET capability == Descriptors[s].metrics[m]
         IN  /\ capability.grains \subseteq DateGrains
             /\ (capability.execution = "live" /\ s # "ga4")
                  => ~METRICS[m].overTime

(* What is held is finite: rows of integers, and most of them have a day   *)
(* that is in a period of the calendar.                                    *)
Counted(rows) ==
  /\ IsFiniteSet(rows)
  /\ \A r \in rows : /\ r = Row(r.id, r.k, r.m)
                     /\ \A m \in DOMAIN r.m : r.m[m] \in Int \cup {Null}
Daily(rows) ==
  /\ Counted(rows)
  /\ \A r \in rows :
       /\ "date" \in DOMAIN r.k /\ r.k["date"] \in Int
       /\ \A starts \in {MonthStarts, QuarterStarts, YearStarts} :
            HasLatest(starts, r.k["date"])
ASSUME HoldingsAssumption ==
  /\ Daily(Holdings.visits) /\ Daily(Holdings.orderLines)
  /\ Daily(Holdings.spend) /\ Daily(Holdings.erp)
  /\ Counted(Holdings.stock)
  /\ \A s \in Holdings.stock : /\ "inventory.available" \in DOMAIN s.m
                              /\ s.m["inventory.available"] \in Int
  /\ IsFiniteSet(Holdings.products) /\ IsFiniteSet(Holdings.priceBands)
  /\ \A p \in Holdings.products : IsFiniteSet(p.variants)
  /\ IsFiniteSet(Holdings.codes)

-----------------------------------------------------------------------------
(* Answers                                                                 *)

ResultSet(columns, metrics, rows, status) ==
  [error |-> Null, columns |-> columns, metrics |-> metrics, rows |-> rows,
   status |-> status]

(* buildResultSet: an answer without rows is empty, whatever else it is.   *)
Answered(columns, metrics, rows, partial, degraded) ==
  ResultSet(columns, metrics, rows,
            IF rows = {} THEN "empty"
            ELSE IF degraded THEN "degraded"
            ELSE IF partial THEN "partial" ELSE "ok")
Failed(code) ==
  [error |-> code, columns |-> {}, metrics |-> {}, rows |-> {},
   status |-> "failed"]

CapabilityErrors ==
  {"UNSUPPORTED_METRIC", "UNSUPPORTED_DIMENSION", "UNSUPPORTED_GRAIN",
   "RANGE_BELOW_FLOOR", "RANGE_ABOVE_CEILING", "FILTER_REQUIRED"}

DSP_ERROR_CODES ==
  CapabilityErrors \cup
  {"SCOPE_UNSATISFIABLE", "QUOTA_EXCEEDED", "BUDGET_EXCEEDED",
   "TOO_MANY_ROWS", "UPSTREAM_TIMEOUT", "UPSTREAM_UNAVAILABLE",
   "UPSTREAM_AUTH", "PROTOCOL_VERSION_UNSUPPORTED",
   "CAPABILITY_NOT_IMPLEMENTED", "INTERNAL"}

ASSUME ErrorAssumption == Null \notin DSP_ERROR_CODES

ValidateAgainstDescriptor(query, descriptor) ==
  LET served == query.metrics \subseteq DOMAIN descriptor.metrics
      capabilities == {descriptor.metrics[m] : m \in query.metrics}
  IN  IF ~served THEN "UNSUPPORTED_METRIC"
      ELSE IF \/ ~(query.dimensions \subseteq DOMAIN descriptor.keys)
              \/ \E c \in capabilities : ~(query.dimensions \subseteq c.dimensions)
        THEN "UNSUPPORTED_DIMENSION"
      ELSE IF query.grain # Null /\ \E c \in capabilities :
                                      query.grain \notin c.grains
        THEN "UNSUPPORTED_GRAIN"
      ELSE IF ~(DOMAIN query.scope \subseteq descriptor.rowLevelDimensions)
        THEN "SCOPE_UNSATISFIABLE"
      ELSE Null

Passes(k, filters) == \A f \in filters : Value(k, f.dimension) \in f.values
WantsDate(query) == "date" \in query.dimensions \/ query.grain # Null
GroupDims(query) == query.dimensions \ {"date"}
WithDate(query) == IF WantsDate(query) THEN {"date"} ELSE {}
InRange(rows, range) ==
  {r \in rows : range.from <= r.k.date /\ r.k.date < range.to}

-----------------------------------------------------------------------------
(* ct-native: the catalogue, the stock and the promotions, live            *)

PRICE_METRICS == {"price.min", "price.max", "price.mean"}
FACET_FIELD == {"category", "productType", "brand"}

PinnedCurrency(query) ==
  \E f \in query.filters :
    f.dimension = "currency" /\ Cardinality(f.values) = 1

(* The products found, by the filters on fields there are.                 *)
LiveProducts(query) ==
  {p \in Holdings.products :
     Passes(p, {f \in query.filters :
                  f.dimension \in FACET_FIELD \cup {"currency"}})}

(* The stats of the prices cover the whole result, not each bucket of it.  *)
MetricValue(m, count, query) ==
  LET prices == UNION {p.variants : p \in LiveProducts(query)}
      wantsPrice == query.metrics \cap PRICE_METRICS # {}
      Amount(v) == v.price
  IN  IF m = "products.count" THEN count
      ELSE IF m = "variants.count"
        THEN IF wantsPrice THEN Cardinality(prices) ELSE count
      ELSE IF prices = {} THEN Null
      ELSE CASE m = "price.min" -> Min({v.price : v \in prices})
             [] m = "price.max" -> Max({v.price : v \in prices})
             [] m = "price.mean" ->
                  Total(prices, Amount) \div Cardinality(prices)
Bucket(k, count, query) ==
  Row(k, k, [m \in query.metrics |-> MetricValue(m, count, query)])

(* The field broken down by is counted in products, price bands in         *)
(* variants; a band that is asked for beside a field is left blank.        *)
LiveRows(query) ==
  LET found == LiveProducts(query)
      breakdown == query.dimensions \ {"currency", "priceBand"}
      Key(p) == [d \in query.dimensions \ {"currency"} |->
                   IF d \in breakdown THEN Value(p, d) ELSE Null]
      Like(p) == {o \in found : KeyFor(o, breakdown) = KeyFor(p, breakdown)}
      InBand(b) == {v \in UNION {p.variants : p \in found} : v.band = b}
  IN  IF breakdown # {}
        THEN {Bucket(Key(p), Cardinality(Like(p)), query) : p \in found}
      ELSE IF "priceBand" \in query.dimensions
        THEN {Bucket([priceBand |-> b], Cardinality(InBand(b)), query) :
                b \in Holdings.priceBands}
      ELSE {Bucket(NoKey, Cardinality(found), query)}
ReadLiveFacets(query) ==
  IF query.metrics \cap PRICE_METRICS # {} /\ ~PinnedCurrency(query)
    THEN Failed("FILTER_REQUIRED")
  ELSE IF ~(query.dimensions \subseteq
              FACET_FIELD \cup {"currency", "priceBand"})
    THEN Failed("UNSUPPORTED_DIMENSION")
  ELSE Answered(query.dimensions \ {"currency"}, query.metrics,
                LiveRows(query), FALSE, FALSE)

(* An entry of stock knows its SKU, and its category by way of it.         *)
Stock ==
  {[s EXCEPT !.k = "category" :> CategoryOfSku(s.k.product) @@ @] :
     s \in Holdings.stock}

(* Stock that is in no channel passes the scope of every subject.          *)
ReadInventory(query) ==
  LET breakdown == query.dimensions \ {"currency"}
      scoped == IF "distributionChannel" \in DOMAIN query.scope
                  THEN query.scope["distributionChannel"] \cup {NONE}
                  ELSE {s.k.supplyChannel : s \in Holdings.stock}
      found == {s \in Stock :
                  /\ Passes(s.k, {f \in query.filters :
                                    f.dimension \in DOMAIN s.k})
                  /\ s.k.supplyChannel \in scoped}
  IN  Answered(breakdown, query.metrics,
        IF breakdown = {}
          THEN {Row(NoKey, NoKey,
                    [m \in query.metrics |-> Total(found, LAMBDA s : s.m[m])])}
          ELSE Grouped(found, breakdown, query.metrics), FALSE, FALSE)

ReadLivePromotions(query) ==
  LET Promotion(k, count) == Row(k, k, [m \in query.metrics |-> count])
      None == Each(query.dimensions, NONE)
  IN  Answered(query.dimensions, query.metrics,
        IF "discountCode" \in query.dimensions
          THEN {Promotion([None EXCEPT !["discountCode"] = c], 1) :
                  c \in Holdings.codes}
          ELSE {Promotion(None, Cardinality(Holdings.codes))}, FALSE, FALSE)

-----------------------------------------------------------------------------
(* ct-native: the cubes                                                    *)

CUBE_BY_METRIC ==
  Each({"orders.count@orderdate", "revenue.gross@orderdate",
        "revenue.net@orderdate", "revenue.net@cashdate",
        "discount.value@orderdate", "shipping.revenue@orderdate",
        "tax.collected@orderdate", "lines.count@orderdate",
        "refunds.value@cashdate", "customers.new@orderdate",
        "customers.active@orderdate", "orders.promoted@orderdate"},
       "orders-daily")
  @@ Each({"units.sold@orderdate", "cost.goods@orderdate"},
          "order-lines-daily")
  @@ "returns.units@orderdate" :> "returns-daily"
  @@ "discount.redemptions" :> "promotions-daily"
  @@ Each({"customers.cohortSize", "customers.retained"}, "customers-daily")
  @@ Each({"shipments.count", "shipments.onTime"}, "fulfilment-daily")

MEASURE_BY_METRIC ==
  "orders.count@orderdate" :> "orders"
  @@ "revenue.gross@orderdate" :> "revenueGross"
  @@ "revenue.net@orderdate" :> "revenueNet"
  @@ "revenue.net@cashdate" :> "revenueNetCash"
  @@ "discount.value@orderdate" :> "discount"
  @@ "shipping.revenue@orderdate" :> "shipping"
  @@ "tax.collected@orderdate" :> "tax"
  @@ "lines.count@orderdate" :> "lines"
  @@ "refunds.value@cashdate" :> "refunds"
  @@ "customers.new@orderdate" :> "customersNew"
  @@ "customers.active@orderdate" :> "customersActive"
  @@ "orders.promoted@orderdate" :> "ordersPromoted"
  @@ "units.sold@orderdate" :> "units"
  @@ "cost.goods@orderdate" :> "cost"
  @@ "returns.units@orderdate" :> "returnsUnits"
  @@ "discount.redemptions" :> "redemptions"
  @@ "customers.cohortSize" :> "cohortSize"
  @@ "customers.retained" :> "retained"
  @@ "shipments.count" :> "shipments"
  @@ "shipments.onTime" :> "shipmentsOnTime"

ITEM_METRICS ==
  {"revenue.net@orderdate", "units.sold@orderdate", "cost.goods@orderdate"}

(* The metrics of ct-native that are not live are in the cubes, and the    *)
(* live ones that add up are counts of things, never prices.               *)
ASSUME CubeAssumption ==
  /\ \A m \in DOMAIN Descriptors["ct-native"].metrics \ DOMAIN LiveMetrics :
       /\ m \in DOMAIN CUBE_BY_METRIC /\ m \in DOMAIN MEASURE_BY_METRIC
       /\ CUBE_BY_METRIC[m] = "customers-daily" => ~METRICS[m].overTime
  /\ "inventory.available" \in DOMAIN LiveMetrics
  /\ \A m \in DOMAIN LiveMetrics :
       /\ METRICS[m].overDimensions =>
            m \in {"products.count", "variants.count", "inventory.available",
                   "promotions.active"}
       /\ ~METRICS[m].overTime

CubesFor(metrics, groupBy) ==
  {IF m \in ITEM_METRICS /\ "category" \in groupBy
     THEN "order-categories-daily"
   ELSE IF m \in ITEM_METRICS /\ "product" \in groupBy
     THEN "order-lines-daily"
   ELSE CUBE_BY_METRIC[m] : m \in metrics}

(* The cells are added up by measure: a measure that two of the cubes have *)
(* is added up over both.                                                  *)
CellRows(cells, query) ==
  {Row(g.k, g.k, [m \in query.metrics |->
                    SumOf(g.cells, MEASURE_BY_METRIC[m])]) :
     g \in {[k |-> KeyFor((CHOOSE c \in group : TRUE).k,
                          GroupDims(query) \cup WithDate(query)),
             cells |-> group] :
              group \in GroupsBy(cells, LAMBDA c :
                KeyFor(c.k, GroupDims(query) \cup WithDate(query)))}}

Allowed(query) ==
  query.filters \cup {[dimension |-> d, values |-> query.scope[d]] :
                        d \in DOMAIN query.scope}

(* The days read: cubes maps a day to its cubes, and a day may lack one.   *)
ReadDays(query, cubes, names) ==
  UNION {UNION {{Row(<<d, name, c.k>>,
                     [x \in DOMAIN c.k \cup {"date"} |->
                        IF x = "date" THEN d ELSE c.k[x]], c.m) :
                   c \in {b \in cubes[d][name] : Passes(b.k, Allowed(query))}} :
                  name \in names \cap DOMAIN cubes[d]} :
           d \in DOMAIN cubes \cap EachDay(query.timeRange)}
MissingDays(query, cubes, names) ==
  {d \in EachDay(query.timeRange) :
     d \notin DOMAIN cubes \/ names \cap DOMAIN cubes[d] = {}}

(* The cohorts are one snapshot of all history: no day, and no range.      *)
SnapshotAnswer(query, cohort) ==
  Answered(GroupDims(query), query.metrics,
    CellRows({c \in cohort : Passes(c.k, Allowed(query))},
             [query EXCEPT !.grain = Null, !.dimensions = GroupDims(query)]),
    FALSE, FALSE)

(* A day without a partition up to the watermark had no trade.             *)
CtNativeAnswer(query, cubes, cohort, watermark) ==
  LET names == CubesFor(query.metrics, GroupDims(query))
      notYetRolledUp ==
        {d \in MissingDays(query, cubes, names) :
           watermark = Null \/ d > watermark}
      partial == notYetRolledUp # {}
  IN  IF names = {"customers-daily"} THEN SnapshotAnswer(query, cohort)
      ELSE Answered(GroupDims(query) \cup WithDate(query), query.metrics,
             CellRows(ReadDays(query, cubes, names), query),
             partial, partial)

CtNativeLive(query) ==
  IF query.metrics = {"inventory.available"} THEN ReadInventory(query)
  ELSE IF query.metrics = {"promotions.active"} THEN ReadLivePromotions(query)
  ELSE IF query.metrics \cap {"inventory.available", "promotions.active"} # {}
    THEN Failed("UNSUPPORTED_METRIC")
  ELSE ReadLiveFacets(query)

(* Whether a query is for the cubes, and is answered in two steps.         *)
IsForCubes(query) ==
  /\ query.metrics \cap DOMAIN LiveMetrics = {}
  /\ query.timeRange # Null
CtNativeRefusal(query) ==
  IF query.metrics \subseteq DOMAIN LiveMetrics
    THEN CtNativeLive(query)
  ELSE IF query.metrics \cap DOMAIN LiveMetrics # {}
    THEN Failed("UNSUPPORTED_METRIC")
  ELSE Failed("UNSUPPORTED_GRAIN")

-----------------------------------------------------------------------------
(* The other connectors                                                    *)

(* GA4 groups and filters, and so does the third party.                    *)
WebAnswer(query) ==
  IF query.timeRange = Null THEN Failed("UNSUPPORTED_GRAIN")
  ELSE LET columns == GroupDims(query) \cup WithDate(query)
           found == {v \in InRange(Holdings.visits, query.timeRange) :
                       Passes(v.k, query.filters)}
       IN  Answered(columns, query.metrics,
                    Grouped(found, columns, query.metrics), FALSE, FALSE)

TEMPLATES ==
  {[metrics |-> ITEM_METRICS,
    dimensions |-> {"currency", "store", "category", "product"},
    rows |-> Holdings.orderLines],
   [metrics |-> {"marketing.spend"},
    dimensions |-> {"currency", "campaign", "channel"},
    rows |-> Holdings.spend]}

(* The statement groups by the day whether or not the day is a column, and *)
(* restricts nothing but the days.                                         *)
WarehouseAnswer(query) ==
  LET covering == {t \in TEMPLATES :
                     /\ query.metrics \subseteq t.metrics
                     /\ GroupDims(query) \subseteq t.dimensions}
      template == CHOOSE t \in covering : TRUE
      columns == GroupDims(query) \cup WithDate(query)
      selected == Grouped(InRange(template.rows, query.timeRange),
                          GroupDims(query) \cup {"date"}, query.metrics)
  IN  IF query.timeRange = Null THEN Failed("UNSUPPORTED_GRAIN")
      ELSE IF covering = {} THEN Failed("UNSUPPORTED_METRIC")
      ELSE Answered(columns, query.metrics,
             {Row(r.k, KeyFor(r.k, columns), r.m) : r \in selected},
             FALSE, FALSE)

ERP_DATASETS ==
  {{"inventory.available"}, {"returns.units@orderdate"},
   {"shipments.count", "shipments.onTime", "fulfilment.pickToShipSeconds"}}

(* The demonstration mode, the only one that answers.                      *)
ErpAnswer(query) ==
  LET stock == query.metrics = {"inventory.available"}
      range == IF query.timeRange = Null THEN DateRange(Today, Today)
               ELSE query.timeRange
      read == IF stock THEN DateRange(range.to - 1, range.to) ELSE range
      columns == GroupDims(query)
                 \cup (IF stock THEN {} ELSE WithDate(query))
      Bucketed(r) == IF "date" \in columns /\ query.grain # Null
                       THEN Row(r.id, [r.k EXCEPT !["date"] =
                                         BucketDay(@, query.grain, "monday")],
                                r.m)
                       ELSE r
      found == {Bucketed(r) : r \in InRange(Holdings.erp, read)}
      dataset == {r \in found : DOMAIN r.m \cap query.metrics # {}}
  IN  IF \A d \in ERP_DATASETS : ~(query.metrics \subseteq d)
        THEN Failed("UNSUPPORTED_METRIC")
      ELSE Answered(columns, query.metrics,
                    Grouped(dataset, columns, query.metrics), FALSE, TRUE)

(* What a source answers to a query that is not for the cubes.             *)
SourceAnswer(sourceId, query) ==
  LET refusal == ValidateAgainstDescriptor(query, Descriptors[sourceId])
  IN  IF refusal # Null THEN Failed(refusal)
      ELSE CASE sourceId = "ct-native" -> CtNativeRefusal(query)
             [] sourceId = "warehouse" -> WarehouseAnswer(query)
             [] sourceId = "erp-oms" -> ErpAnswer(query)
             [] OTHER -> WebAnswer(query)
=============================================================================
