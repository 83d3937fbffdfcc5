------------------------------ MODULE Catalogue ------------------------------
(***************************************************************************)
(* The built-in reports (shared/src/catalogue/).  Titles, layouts and the  *)
(* looks of a chart are left out.  All of them start weeks on Monday, keep *)
(* currencies apart (fx mode none), are by day unless asked otherwise, and *)
(* ask for no permission.  What they compare with is the matter of         *)
(* ReportRun.                                                              *)
(***************************************************************************)
EXTENDS Semantics

-----------------------------------------------------------------------------
(* Charts.  An encoding maps channels to the fields they show; cut is the  *)
(* option that says how many rows, slices or boxes are drawn at most.      *)

Chart(type, encoding) == [type |-> type, encoding |-> encoding, cut |-> Null]
Fields(chart, channel) ==
  IF channel \in DOMAIN chart.encoding THEN chart.encoding[channel] ELSE <<>>

(* The fields named as such; the steps of a funnel are not.                *)
EncodedFields(chart) ==
  UNION {Range(chart.encoding[c]) : c \in DOMAIN chart.encoding \ {"steps"}}

-----------------------------------------------------------------------------
(* Tiles                                                                   *)

Tile(metrics, dimensions) ==
  [metrics |-> metrics, dimensions |-> dimensions, grain |-> "inherit",
   pointInTime |-> FALSE, filters |-> {}, preferred |-> Null,
   topN |-> Null, orderBy |-> Null, limit |-> Null, chart |-> Null]
Now(tile) == [tile EXCEPT !.pointInTime = TRUE]
Desc(tile, metric) == [tile EXCEPT !.orderBy = metric]  \* the largest first
Top(tile, metric, n, otherBucket) ==
  [Desc(tile, metric)
     EXCEPT !.topN = [by |-> metric, n |-> n, otherBucket |-> otherBucket]]
First(tile, n) == [tile EXCEPT !.limit = n]

Draw(tile, type, encoding) == [tile EXCEPT !.chart = Chart(type, encoding)]
Cut(tile, n) == [tile EXCEPT !.chart.cut = n]
Kpi(metric) == Draw(Tile(<<metric>>, {}), "kpi", [value |-> <<metric>>])
Trend(metrics) ==
  Draw(Tile(metrics, {}), "timeseries", [x |-> <<"date">>, y |-> metrics])
Bars(metrics, dimension, y) ==
  Draw(Tile(metrics, {dimension}), "breakdown",
       [category |-> <<dimension>>, y |-> y])
Histogram(metric, dimension) ==
  Draw(Tile(<<metric>>, {dimension}), "histogram",
       [category |-> <<dimension>>, value |-> <<metric>>])
(* The range of a sequence, in a form TLC evaluates once.                  *)
Elements(fields) == FoldLeft(LAMBDA some, f : some \cup {f}, {}, fields)
Table(metrics, dimensions) ==
  Cut(Draw(Tile(metrics, Elements(dimensions)), "table",
           [columns |-> dimensions \o metrics]), 25)

-----------------------------------------------------------------------------
(* Reports.  allowed maps the dimensions the filter bar offers to what     *)
(* their values are taken from.                                            *)

Report(required, preset, allowed, tiles) ==
  [required |-> required, preset |-> preset, allowed |-> allowed,
   tiles |-> tiles, strict |-> FALSE, filters |-> {},
   maxAcceptableLag |-> Null]
Strict(report) == [report EXCEPT !.strict = TRUE]
Within(report, seconds) == [report EXCEPT !.maxAcceptableLag = seconds]
InEuro(report) ==
  [report EXCEPT !.filters = {[dimension |-> "currency", values |-> {"EUR"}]}]

Dsp(dimensions) == [d \in dimensions |-> "dsp"]
Categories == "category" :> "ct-categories"
Stores == "store" :> "ct-stores"
Channels == "distributionChannel" :> "ct-channels"

Net == "revenue.net@orderdate"
Count == "orders.count@orderdate"
Units == "units.sold@orderdate"
PriceStats == <<"price.min", "price.mean", "price.max", "products.count">>

-----------------------------------------------------------------------------
(* Catalogue                                                               *)

CatalogueKpis == <<Now(Kpi("products.count")), Now(Kpi("variants.count"))>>
CatalogueByCategory ==
  Now(Top(Bars(<<"products.count">>, "category", <<"products.count">>),
          "products.count", 15, TRUE))
CataloguePrices ==
  <<Now(Histogram("products.count", "priceBand")),
    Now(First(Desc(Table(PriceStats, <<"category">>), "products.count"), 50))>>
CatalogueHealth ==
  Within(InEuro(Strict(Report({"products.count"}, "today",
    Dsp({"currency", "productType"}) @@ Categories,
    Append(CatalogueKpis, CatalogueByCategory) \o CataloguePrices))), 300)

PriceArchitecture ==
  InEuro(Strict(Report({"products.count"}, "today",
    Dsp({"currency"}) @@ Categories,
    <<Now(Histogram("products.count", "priceBand")),
      Now(First(Desc(Table(PriceStats, <<"category">>), "products.count"), 50))
      >>)))

StockCover ==
  Strict(Report({"inventory.available"}, "today", Categories,
    <<Now(Kpi("inventory.available")),
      Now(First(Desc(Table(<<"inventory.available">>,
                           <<"supplyChannel", "product">>),
                     "inventory.available"), 100))>>))

-----------------------------------------------------------------------------
(* Customers and visits                                                    *)

CohortRetention ==
  Report({"customers.cohortSize", "customers.retained"}, "last90d", <<>>,
    <<[Draw(Tile(<<"retention.rate">>, {"cohortMonth", "periodIndex"}),
            "heatmap", [row |-> <<"cohortMonth">>,
                        column |-> <<"periodIndex">>,
                        value |-> <<"retention.rate">>])
         EXCEPT !.grain = "month"]>>)

ConversionFunnel ==
  LET steps == <<"sessions.count", "productviews.count", "addtocart.count",
                 "checkoutstart.count", Count>>
  IN  Report({"sessions.count", Count}, "last28d", Dsp({"device", "country"}),
        <<Kpi("conversion.rate"),
          Draw(Tile(steps, {}), "funnel", [steps |-> steps])>>)

SessionsByDevice ==
  Desc(Bars(<<"sessions.count">>, "device", <<"sessions.count">>),
       "sessions.count")
SessionsByCountry ==
  Draw(Tile(<<"sessions.count">>, {"country"}), "geo",
       [region |-> <<"country">>, value |-> <<"sessions.count">>])
DeviceGeography ==
  Report({"sessions.count"}, "last28d", Dsp({"device", "country"}),
         <<SessionsByDevice, SessionsByCountry>>)

NewVsReturningTiles ==
  <<Kpi("customers.new@orderdate"), Kpi(Count),
    Desc(Bars(<<Net, Count>>, "customerType", <<Net>>), Net)>>
NewVsReturning ==
  Report({Count, "customers.new@orderdate"}, "last90d",
         Dsp({"customerType", "currency"}), NewVsReturningTiles)

-----------------------------------------------------------------------------
(* Operations                                                              *)

FulfilmentTiles ==
  LET shipments == <<"shipments.count", "shipments.onTime">>
  IN  <<Kpi("dispatch.onTimeRate"), Trend(shipments),
        Desc(Table(shipments, <<"carrier">>), "shipments.count")>>
FulfilmentSla ==
  Report({"shipments.count", "shipments.onTime"}, "last28d",
         Dsp({"shippingMethod", "carrier"}), FulfilmentTiles)

MarginKpis ==
  <<Kpi("discount.rate@orderdate"), Kpi("margin.rate@orderdate")>>
MarginTrend == Trend(<<"discount.rate@orderdate", "margin.rate@orderdate">>)
MarginByCategory ==
  Desc(Table(<<Net, "margin.rate@orderdate">>, <<"category">>), Net)
MarginErosion ==
  Report({Net, "discount.value@orderdate"}, "last28d",
         Dsp({"currency"}) @@ Categories,
         MarginKpis \o <<MarginTrend, MarginByCategory>>)

PromotionTiles ==
  <<Kpi("promotion.penetration"),
    Desc(Table(<<"promotions.active", "discount.redemptions">>,
               <<"discountCode">>), "discount.redemptions")>>
PromotionEffectiveness ==
  Report({"orders.promoted@orderdate", "discount.redemptions",
          "promotions.active"}, "last28d", Dsp({"discountCode", "currency"}),
         PromotionTiles)

ReturnsAnalysis ==
  LET units == "returns.units@orderdate"
  IN  Report({units}, "last28d", Dsp({"returnReason"}),
             <<Desc(Bars(<<units>>, "returnReason", <<units>>), units)>>)

-----------------------------------------------------------------------------
(* Trade                                                                   *)

ProductQuadrant ==
  LET metrics == <<Units, "margin.gross@orderdate", Net>>
  IN  First(Draw(Tile(metrics, {"product"}), "scatter",
                 [x |-> <<Units>>, y |-> <<"margin.gross@orderdate">>,
                  size |-> <<Net>>, point |-> <<"product">>]), 200)
ProductTable ==
  Top(Table(<<Units, Net, "return.rate">>, <<"product">>), Net, 50, FALSE)
ProductPerformance ==
  Report({Units, Net}, "last28d",
         Dsp({"currency"}) @@ Categories @@ "product" :> "ct-products",
         <<ProductQuadrant, ProductTable>>)

CategoryTiles ==
  <<Kpi(Net), Kpi(Units),
    Cut(Desc(Draw(Tile(<<Net>>, {"category"}), "treemap",
                  [category |-> <<"category">>, value |-> <<Net>>]), Net), 20),
    Desc(Table(<<Net, Units>>, <<"category">>), Net)>>
SalesByCategory ==
  Report({Net, Units}, "last28d", Dsp({"currency"}) @@ Categories,
         CategoryTiles)

ChannelKpis == <<Kpi(Net), Kpi(Count), Kpi("aov@orderdate")>>
ChannelTrend == Trend(<<Net, Count>>)
ChannelTables ==
  <<Top(Bars(<<Net>>, "distributionChannel", <<Net>>), Net, 10, TRUE),
    Desc(Table(<<Net, Count>>, <<"store">>), Net)>>
SalesByChannel ==
  Report({Count, Net}, "last28d", Dsp({"currency"}) @@ Channels @@ Stores,
         Append(ChannelKpis, ChannelTrend) \o ChannelTables)

TradingKpis ==
  <<Kpi(Net), Kpi(Count), Kpi("aov@orderdate"), Kpi("conversion.rate")>>
TradingTrend == Trend(<<Net, Count>>)
TradingBreakdowns ==
  <<Top(Bars(<<Net, Count>>, "distributionChannel", <<Net>>), Net, 10, TRUE),
    Cut(Top(Table(<<Units, Net, "return.rate">>, <<"product">>),
            Net, 20, FALSE), 20)>>
TradingDashboard ==
  Within(Report({Count, Net}, "last28d",
                Dsp({"country", "currency"}) @@ Channels @@ Stores,
                Append(TradingKpis, TradingTrend) \o TradingBreakdowns),
         172800)

BUILTIN_REPORTS ==
  [catalogueHealth |-> CatalogueHealth, cohortRetention |-> CohortRetention,
   conversionFunnel |-> ConversionFunnel, deviceGeography |-> DeviceGeography,
   fulfilmentSla |-> FulfilmentSla, marginErosion |-> MarginErosion,
   newVsReturning |-> NewVsReturning,
   priceArchitecture |-> PriceArchitecture,
   productPerformance |-> ProductPerformance,
   promotionEffectiveness |-> PromotionEffectiveness,
   returnsAnalysis |-> ReturnsAnalysis, salesByCategory |-> SalesByCategory,
   salesByChannel |-> SalesByChannel, stockCover |-> StockCover,
   tradingDashboard |-> TradingDashboard]

-----------------------------------------------------------------------------
(* The check of the catalogue (shared/scripts/validate-catalogue.ts),      *)
(* which a build must pass; layouts and optional metrics are left out.     *)

Selectable(tile) == Range(tile.metrics) \cup tile.dimensions \cup {"date"}

(* No kind of source has all the base metrics: they come from several.     *)
NeedsJoin(tile) ==
  LET base == BaseMetrics(Range(tile.metrics))
  IN  /\ Cardinality(base) > 1
      /\ {d \in SOURCE_DOMAINS : \A m \in base : d \in Domains(m)} = {}
IsValidTile(tile) ==
  /\ UnknownMetrics(Range(tile.metrics)) = {}
  /\ tile.dimensions \subseteq DIMENSIONS
  /\ NeedsJoin(tile) => tile.dimensions \subseteq Conformed
  /\ {tile.orderBy} \subseteq Selectable(tile) \cup {Null}
  /\ tile.topN # Null => tile.topN.by \in Selectable(tile)
  /\ EncodedFields(tile.chart) \subseteq Selectable(tile)
IsValidReport(report) ==
  /\ UnknownMetrics(report.required) = {}
  /\ DOMAIN report.allowed \subseteq DIMENSIONS
  /\ \A i \in DOMAIN report.tiles : IsValidTile(report.tiles[i])

ASSUME CatalogueAssumption ==
  \A id \in DOMAIN BUILTIN_REPORTS : IsValidReport(BUILTIN_REPORTS[id])
=============================================================================
