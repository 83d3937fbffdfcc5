------------------------------ MODULE Semantics ------------------------------
(***************************************************************************)
(* The semantic model of the reports: the metric registry                  *)
(* (shared/src/semantic/metrics.ts), the dimension registry                *)
(* (dimensions.ts), formulas (formula.ts) and their resolution             *)
(* (resolve.ts).  Labels, formats and descriptions are left out.           *)
(*                                                                         *)
(* Every formula of the registry is a difference over a denominator, so a  *)
(* formula is written [add, less, over]: (add - less) / over, where an     *)
(* absent less is 0 and an absent over is 1.  No formula refers to a       *)
(* derived metric.  A value is an integer, a fraction <<num, den>> for a   *)
(* derived metric, or Null.                                                *)
(***************************************************************************)
EXTENDS Integers, Sequences, FiniteSets, SequencesExt, TLC

CONSTANT Null  \* null or undefined: no value

ASSUME NullAssumption == Null \notin Int

Grains == <<"hour", "day", "week", "month", "quarter", "year">>
GrainRank(g) == CHOOSE i \in DOMAIN Grains : Grains[i] = g
CoarsestGrain(S) ==
  CHOOSE g \in S : \A h \in S : GrainRank(h) <= GrainRank(g)

-----------------------------------------------------------------------------
(* Base metrics                                                            *)

Measure(money, aggregation, overTime, overDimensions) ==
  [kind |-> "base", money |-> money, aggregation |-> aggregation,
   overTime |-> overTime, overDimensions |-> overDimensions,
   sensitivity |-> Null]
Additive(money) == Measure(money, "sum", TRUE, TRUE)
Position == Measure(FALSE, "sum", FALSE, TRUE)  \* adds up, but not over time
DistinctCount == Measure(FALSE, "countDistinct", FALSE, FALSE)
Each(ids, def) == [id \in ids |-> def]

Commerce ==
  Each({"revenue.gross@orderdate", "revenue.net@orderdate",
        "revenue.net@cashdate", "discount.value@orderdate",
        "shipping.revenue@orderdate", "tax.collected@orderdate"},
       Additive(TRUE))
  @@ Each({"orders.count@orderdate", "units.sold@orderdate",
           "lines.count@orderdate"}, Additive(FALSE))

Returns ==
  "refunds.value@cashdate" :> Additive(TRUE)
  @@ "returns.units@orderdate" :> Additive(FALSE)

Customers ==
  "customers.new@orderdate" :> Additive(FALSE)
  @@ "customers.active@orderdate" :> DistinctCount
  @@ Each({"customers.cohortSize", "customers.retained"}, Position)

LiveCatalogue ==
  Each({"products.count", "variants.count", "inventory.available"}, Position)
  @@ "price.min" :> Measure(TRUE, "min", FALSE, FALSE)
  @@ "price.max" :> Measure(TRUE, "max", FALSE, FALSE)
  @@ "price.mean" :> Measure(TRUE, "avg", FALSE, FALSE)

Web ==
  Each({"sessions.count", "pageviews.count", "productviews.count",
        "addtocart.count", "checkoutstart.count", "searches.count",
        "searches.zeroResult"}, Additive(FALSE))
  @@ "users.active" :> DistinctCount

Cost ==
  Each({"cost.goods@orderdate", "marketing.spend"},
       [Additive(TRUE) EXCEPT !.sensitivity = "financials"])

Fulfilment ==
  Each({"shipments.count", "shipments.onTime"}, Additive(FALSE))
  @@ Each({"fulfilment.pickToShipSeconds", "supplier.fillRate"},
          Measure(FALSE, "avg", FALSE, FALSE))

Promotions ==
  "promotions.active" :> Position
  @@ Each({"discount.redemptions", "orders.promoted@orderdate"},
          Additive(FALSE))

-----------------------------------------------------------------------------
(* Derived metrics                                                         *)

SafeRatio(num, den) == [add |-> num, less |-> Null, over |-> den]
Sub(left, right) == [add |-> left, less |-> right, over |-> Null]
OverFormula(sub, den) == [sub EXCEPT !.over = den]

DerivedDef(money, sensitivity, formula) ==
  [kind |-> "derived", money |-> money, sensitivity |-> sensitivity,
   formula |-> formula]
Rate(num, den) == DerivedDef(FALSE, Null, SafeRatio(num, den))

Margin == Sub("revenue.net@orderdate", "cost.goods@orderdate")

Derived ==
  "aov@orderdate" :> DerivedDef(TRUE, Null,
     SafeRatio("revenue.net@orderdate", "orders.count@orderdate"))
  @@ "upt@orderdate" :> Rate("units.sold@orderdate", "orders.count@orderdate")
  @@ "discount.rate@orderdate" :>
       Rate("discount.value@orderdate", "revenue.gross@orderdate")
  @@ "refund.rate" :> Rate("refunds.value@cashdate", "revenue.net@orderdate")
  @@ "return.rate" :> Rate("returns.units@orderdate", "units.sold@orderdate")
  @@ "margin.gross@orderdate" :> DerivedDef(TRUE, "financials", Margin)
  @@ "margin.rate@orderdate" :> DerivedDef(FALSE, "financials",
       OverFormula(Margin, "revenue.net@orderdate"))
  @@ "conversion.rate" :> Rate("orders.count@orderdate", "sessions.count")
  @@ "revenue.perSession" :> DerivedDef(TRUE, Null,
       SafeRatio("revenue.net@orderdate", "sessions.count"))
  @@ "addtocart.rate" :> Rate("addtocart.count", "productviews.count")
  @@ "checkout.completionRate" :>
       Rate("orders.count@orderdate", "checkoutstart.count")
  @@ "searches.zeroResultRate" :> Rate("searches.zeroResult", "searches.count")
  @@ "retention.rate" :> Rate("customers.retained", "customers.cohortSize")
  @@ "roas" :> DerivedDef(FALSE, "financials",
       SafeRatio("revenue.net@orderdate", "marketing.spend"))
  @@ "cac" :> DerivedDef(TRUE, "financials",
       SafeRatio("marketing.spend", "customers.new@orderdate"))
  @@ "dispatch.onTimeRate" :> Rate("shipments.onTime", "shipments.count")
  @@ "promotion.penetration" :>
       Rate("orders.promoted@orderdate", "orders.count@orderdate")

METRICS == Commerce @@ Returns @@ Customers @@ LiveCatalogue @@ Web @@ Cost
           @@ Fulfilment @@ Promotions @@ Derived

(* The kinds of source that may serve a base metric.                       *)
SOURCE_DOMAINS == {"commerce", "web-analytics", "erp", "oms", "warehouse"}
Domains(id) ==
  CASE id \in DOMAIN Web -> {"web-analytics"}
    [] id \in {"returns.units@orderdate", "shipments.count",
               "shipments.onTime"} -> {"commerce", "oms"}
    [] id = "inventory.available" -> {"commerce", "erp"}
    [] id = "cost.goods@orderdate" -> {"erp", "warehouse"}
    [] id = "marketing.spend" -> {"warehouse"}
    [] id = "fulfilment.pickToShipSeconds" -> {"oms"}
    [] id = "supplier.fillRate" -> {"erp"}
    [] OTHER -> {"commerce"}

Known(id) == id \in DOMAIN METRICS
IsBase(id) == Known(id) /\ METRICS[id].kind = "base"
IsMoneyMetric(id) == Known(id) /\ METRICS[id].money
Sensitivity(id) == IF Known(id) THEN METRICS[id].sensitivity ELSE Null

-----------------------------------------------------------------------------
(* Formulas                                                                *)

(* The metrics a formula needs, in the order it names them.                *)
FormulaLeaves(f) ==
  LET named == SelectSeq(<<f.add, f.less, f.over>>, LAMBDA m : m # Null)
  IN  IF Len(named) = 3 /\ named[1] = named[3] THEN SubSeq(named, 1, 2)
      ELSE named

(* Null when an input is missing or the denominator is 0.                  *)
EvaluateFormula(f, inputs) ==
  LET leaves == Range(FormulaLeaves(f))
      missing == {l \in leaves : l \notin DOMAIN inputs \/ inputs[l] = Null}
      over == IF f.over = Null THEN 1 ELSE inputs[f.over]
  IN  IF missing # {} THEN Null
      ELSE IF over = 0 THEN Null
      ELSE <<inputs[f.add] - (IF f.less = Null THEN 0 ELSE inputs[f.less]),
             over>>

-----------------------------------------------------------------------------
(* Resolution of the requested metrics, a set                              *)

LeavesOf(id) ==
  IF ~Known(id) THEN <<>>
  ELSE IF IsBase(id) THEN <<id>> ELSE FormulaLeaves(METRICS[id].formula)
BaseMetrics(requested) == UNION {Range(LeavesOf(id)) : id \in requested}
DerivedMetrics(requested) == {id \in requested : Known(id) /\ ~IsBase(id)}
UnknownMetrics(requested) == {id \in requested : ~Known(id)}

(* The registry is sound (validateRegistry): formulas name base metrics it *)
(* has.  What a sensitive base metric goes into is as sensitive itself.    *)
ASSUME RegistryAssumption ==
  /\ IsFiniteSet(DOMAIN METRICS)
  /\ \A id \in DOMAIN METRICS : \A leaf \in Range(LeavesOf(id)) :
       /\ IsBase(leaf)
       /\ Sensitivity(leaf) \in {Null, Sensitivity(id)}

-----------------------------------------------------------------------------
(* Dimensions                                                              *)

(* The conformed ones, with the canonical key the registry expects.        *)
CanonicalKey ==
  "date" :> "iso-8601-date" @@ "currency" :> "iso-4217"
  @@ "country" :> "iso-3166-1-alpha2" @@ "store" :> "commercetools:store.key"
  @@ "product" :> "commercetools:variant.sku"
  @@ "category" :> "commercetools:category.key"
  @@ "device" :> "device-category:desktop|mobile|tablet"
Conformed == DOMAIN CanonicalKey

CommerceDimensions ==
  {"distributionChannel", "supplyChannel", "customerGroup", "businessUnit",
   "orderState", "paymentState", "shipmentState", "paymentMethod",
   "shippingMethod", "discountCode", "cartDiscount", "customerType",
   "cohortMonth", "periodIndex", "rfmSegment", "returnReason", "brand",
   "productType", "priceBand", "ageBucket"}
WebDimensions ==
  {"trafficChannel", "sourceMedium", "campaign", "landingPage", "searchTerm",
   "funnelStep"}
ErpDimensions == {"warehouse", "supplier", "carrier"}

DIMENSIONS ==
  Conformed \cup CommerceDimensions \cup WebDimensions \cup ErpDimensions
=============================================================================
