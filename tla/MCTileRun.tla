------------------------------- MODULE MCTileRun -------------------------------
(* A small shop: seven orders, of which some come late, and every report.  *)
(* Days count from 1 January 1970; today is 11 March 2025.                 *)
EXTENDS Screen, Drafts

Months == {20058, 20089, 20120, 20148}  \* December 2024 to March 2025
Quarters == {20089}
Years == {20089}
March(d) == 20147 + d
February(d) == 20119 + d
MCToday == March(11)

Line(n, sku, productId, price, unitCost) ==
  [line |-> n, sku |-> sku, productId |-> productId, channel |-> "web",
   quantity |-> n, price |-> price, unitCost |-> unitCost]
Order(id, day, customer, store, currency, net) ==
  [id |-> id, completedAt |-> day, createdAt |-> day - 1,
   customer |-> customer, currency |-> currency,
   taxed |-> [gross |-> net + 2, net |-> net, tax |-> 2],
   total |-> net + 2, shipping |-> 1, discount |-> 0, codes |-> {},
   promoCode |-> Null, paymentState |-> "Paid", orderState |-> "Complete",
   store |-> store, country |-> "DE", shippingMethod |-> "post",
   carrier |-> Null, shippedAt |-> Null,
   lines |-> {Line(1, "shirt", "p-shirt", net - 3, 2),
              Line(2, "sock", "p-sock", 3, 1)}]

MCOrders ==
  <<Order(1, February(20), "ann", "berlin", "EUR", 20),
    [Order(2, March(3), "ann", "berlin", "EUR", 30) EXCEPT
       !.codes = {"spring"}, !.promoCode = "spring", !.discount = 5,
       !.carrier = "dhl", !.shippedAt = March(5)],
    [Order(3, March(3), "bob", "texas", "USD", 50) EXCEPT
       !.country = "US", !.shippedAt = March(9),
       !.paymentState = "CreditOwed"],
    [Order(4, March(3), Null, Null, "EUR", 7) EXCEPT
       !.taxed = Null,
       !.lines = {[Line(1, "coat", "p-coat", 9, 4) EXCEPT !.channel = "shop"]}],
    [Order(5, March(5), "cat", "berlin", "EUR", 9) EXCEPT !.completedAt = Null],
    Order(6, March(10), "cat", "berlin", "EUR", 11),  \* recent
    Order(7, February(25), "bob", "berlin", "EUR", 13)>>  \* back-dated

(* The category of socks has no key, and coats are in no category.         *)
MCCategoryKeys == [topsId |-> "tops", legs |-> Null, sale |-> "sale"]
MCProducts ==
  "p-shirt" :> [categories |-> <<"topsId", "sale">>, skus |-> {"shirt", "other"}]
  @@ "p-sock" :> [categories |-> <<"legs">>, skus |-> {"sock"}]
  @@ "p-coat" :> [categories |-> <<>>, skus |-> {"coat"}]

Visit(day, device, country, sessions) ==
  Row(<<day, device>>,
      [date |-> day, device |-> device, country |-> country,
       trafficChannel |-> "Direct", sourceMedium |-> "direct",
       campaign |-> NONE, landingPage |-> "home", searchTerm |-> NONE],
      Each(WebMetrics, sessions))
Product(id, category, currency, price) ==
  [id |-> id, category |-> category, productType |-> "clothes",
   brand |-> "own", currency |-> currency,
   variants |-> {[sku |-> id, price |-> price, band |-> "low"],
                 [sku |-> "other", price |-> price + 4, band |-> "high"]}]
MCHoldings ==
  [products |-> {Product("shirt", "tops", "EUR", 12),
                 Product("coat", "tops", "EUR", 80),
                 Product("sock", "legs", "EUR", 2)},
   priceBands |-> {"low", "high"},
   stock |-> {Row(i, [supplyChannel |-> IF i = 3 THEN NONE ELSE "depot",
                      product |-> IF i = 1 THEN "shirt" ELSE "sock"],
                  "inventory.available" :> i) : i \in 1..3},
   codes |-> {"spring", "fall"},
   visits |-> {Visit(March(3), "mobile", "DE", 5),
               Visit(March(4), "desktop", "US", 8)},
   orderLines |->
     {Row(i, [date |-> March(i), currency |-> "EUR",
              store |-> IF i = 3 THEN "berlin" ELSE "paris",
              category |-> "tops", product |-> "shirt"],
          Each(ITEM_METRICS, i)) : i \in 3..4},
   spend |-> {Row(1, [date |-> March(3), currency |-> "EUR",
                      campaign |-> "easter", channel |-> "Direct"],
                  "marketing.spend" :> 4)},
   erp |->
     {Row(1, [date |-> March(3), warehouse |-> "north", carrier |-> "dhl"],
          "shipments.count" :> 3 @@ "shipments.onTime" :> 2
          @@ "fulfilment.pickToShipSeconds" :> 60),
      Row(2, [date |-> March(3), returnReason |-> "size"],
          "returns.units@orderdate" :> 1),
      Row(3, [date |-> MCToday - 1, warehouse |-> "north",
              product |-> "shirt"], "inventory.available" :> 9)}]

-----------------------------------------------------------------------------

(* What commercetools knows of.  The channels have one name between them;  *)
(* a user reads German.                                                    *)
Named(source, key, locale, value) ==
  [source |-> source, id |-> key \o "-id", key |-> key, skus |-> {},
   names |-> <<[locale |-> "en-GB", language |-> "en", value |-> key],
               [locale |-> locale, language |-> "de", value |-> value]>>]
MCEntities ==
  {Named("ct-categories", "tops", "de-DE", "Oberteile"),
   Named("ct-categories", "legs", "de-AT", "Hosen"),
   Named("ct-channels", "web", "de-DE", "Verkauf"),
   Named("ct-channels", "shop", "de-DE", "Verkauf"),
   Named("ct-stores", "berlin", "de-DE", "Berlin Mitte")}
MCOnMap == {"US", "CA", "GB", "FR", "DE", "NL", "ES", "DK", "IT"}

(* Reports made with the builder: across sources, across ways of           *)
(* execution, with parts that cannot be joined.                            *)
Only(d, v) == {[dimension |-> d, values |-> {v}]}
Lenient(tiles) == Report({}, "last28d", <<>>, tiles)
(* A tile of each kind of chart: with as few metrics and dimensions as the *)
(* form lets through, and with two of each; then a series of what is only  *)
(* live, and pivots of a rate and of a ratio of money.                     *)
ByCountry == <<"country", "customerType">>
Kinds == <<"heatmap", "pivot", "kpi", "sparkline", "timeseries", "breakdown",
           "donut", "treemap", "funnel", "histogram", "scatter", "geo", "table">>
Leanest(type) ==
  DraftTile(type, SubSeq(<<Net, Count>>, 1, Needs(type).metrics),
            SubSeq(ByCountry, 1, Needs(type).dimensions))
Fullest(type) == DraftTile(type, <<Net, Count>>, ByCountry)
TheDraft ==
  Draft("drafted", "last28d",
        [i \in DOMAIN Kinds |-> Leanest(Kinds[i])]
        \o [i \in DOMAIN Kinds |-> Fullest(Kinds[i])]
        \o <<DraftTile("timeseries", <<"products.count">>, <<>>),
             DraftTile("pivot", <<"upt@orderdate">>, ByCountry),
             DraftTile("pivot", <<"aov@orderdate">>, ByCountry)>>)
ASSUME Savable == DescribeProblems(TheDraft) = {}
Drafted == ToDefinition(TheDraft)

AcrossSources ==
  Lenient(<<Trend(<<"roas">>), Table(<<Count, "sessions.count">>, <<"country">>),
            Table(<<Net, "returns.units@orderdate">>, <<"store">>),
            [Table(<<Net, Units>>, <<"category">>) EXCEPT
               !.preferred = "warehouse"],
            [Table(<<Count, "shipments.count">>, <<>>) EXCEPT
               !.preferred = "erp-oms", !.filters = Only("country", "DE")]>>)
Alignment ==
  Lenient(<<Trend(<<"conversion.rate">>),
            Trend(<<Net, "customers.active@orderdate">>),
            Table(<<Count, "sessions.count">>, <<"trafficChannel">>)>>)
StockAndSales ==
  Lenient(<<Top(Table(<<Units, "inventory.available">>, <<"product">>),
                Units, 1, TRUE),
            Table(<<"products.count", Net>>, <<"category">>),
            Trend(<<Units, "inventory.available">>)>>)
CostOfVisits ==
  Strict(Lenient(<<Table(<<"sessions.count", "cost.goods@orderdate">>, <<>>)>>))

(* What the sources refuse although their descriptors allow it.            *)
Refused ==
  Lenient(<<Table(<<"price.min">>, <<"category">>),
            Table(<<"products.count", "inventory.available">>, <<"category">>),
            Now(Table(<<Net>>, <<>>)),
            [Table(<<"cost.goods@orderdate", "marketing.spend">>,
                   <<"currency">>) EXCEPT !.preferred = "warehouse"],
            [Table(<<"shipments.count", "returns.units@orderdate">>, <<>>)
               EXCEPT !.preferred = "erp-oms"]>>)

(* Charts with gaps in a further series and in the size of the bubbles     *)
(* when the web metrics do not come.                                       *)
Gappy ==
  Lenient(<<Bars(<<Count, "sessions.count">>, "country",
                 <<Count, "sessions.count">>),
            Draw(Tile(<<Count, "lines.count@orderdate", "sessions.count">>,
                      {"country"}),
                 "scatter",
                 [x |-> <<Count>>, y |-> <<"lines.count@orderdate">>,
                  size |-> <<"sessions.count">>, point |-> <<"country">>])>>)

(* Read while the job is at its first passes.                              *)
Newcomers ==
  Lenient(<<Table(<<"customers.new@orderdate", Net>>, <<"customerType">>)>>)

Stored == {"acrossSources", "alignment", "stockAndSales", "costOfVisits"}
MCStoredReports ==
  [acrossSources |-> AcrossSources, alignment |-> Alignment,
   stockAndSales |-> StockAndSales, costOfVisits |-> CostOfVisits,
   drafted |-> Drafted, refused |-> Refused, gappy |-> Gappy,
   newcomers |-> Newcomers, broken |-> Null]
ReportIds == Stored \cup DOMAIN BUILTIN_REPORTS

Assignment(scope) == [tags |-> {}, scope |-> scope]
Viewer == AccessFrame({"canViewReporting"}, {}, Assignment(NoRestriction))
Analyst == AccessFrame({"canViewReporting", "canViewReportingFinancials"}, {},
                       Assignment(NoRestriction))
Stranger == AccessFrame({}, {}, Assignment(NoRestriction))
ManagerPolicies ==
  DEFAULT_POLICIES \cup
    {[anyPermission |-> {}, allPermissions |-> {"canViewReporting"},
      anyTag |-> {}, grant |-> {}, deny |-> {<<"report", "stockCover">>},
      rowScope |-> {[dimension |-> "store", from |-> "assignment",
                     values |-> {}]}]}
Manager(scope) ==
  AccessFrame({"canViewReporting", "canManageReporting"}, ManagerPolicies,
              Assignment(scope))
OfBerlin == Manager("store" :> {"berlin"})

-----------------------------------------------------------------------------
(* What is asked                                                           *)

Scenario(id, range, grain, filters, access, sources, out) ==
  [request |-> [id |-> id, range |-> range, grain |-> grain,
                filters |-> filters, access |-> access, sources |-> sources],
   down |-> out, late |-> {}, settled |-> TRUE]
All == DOMAIN Descriptors
Preset(id) ==
  ResolvePreset(Definition(id).preset, MCToday, "monday")

(* Every report over every set of sources; for a manager of one store over  *)
(* one of them, all of them, and all but one.                              *)
InstalledFor(id, range) ==
  {Scenario(id, range, "day", {}, Viewer, sources, {}) : sources \in SUBSET All}
  \cup {Scenario(id, range, "day", {}, OfBerlin, sources, {}) :
          sources \in {s \in SUBSET All : Cardinality(s) \in {1, 4, 5}}}
  \cup {Scenario(id, range, "day", {}, access, All, {}) :
          access \in {Analyst, Manager(NoRestriction)}}
Drawings ==
  {Scenario("drafted", Preset("drafted"), "day", {}, access, All, {}) :
     access \in {Analyst, Manager(NoRestriction)}}
Gaps ==
  {Scenario("gappy", Preset("gappy"), "day", {}, Analyst, All, out) :
     out \in {{}, {"ga4", "web"}}}
(* Refused by one source and by all; with the currency pinned, answered.   *)
Disagreements ==
  {Scenario("refused", Preset("refused"), "day", filters, Analyst, sources, {}) :
     filters \in {{}, Only("currency", "EUR")}, sources \in {{"ct-native"}, All}}
Refusals ==
  {Scenario(id, DateRange(MCToday - 1, MCToday), "day", {}, access, All, {}) :
     id \in {"nowhere", "broken", "stockCover"}, access \in {Stranger, OfBerlin}}

(* Other ranges, grains and filters, and a source out of reach.            *)
VariedFor(id, range) ==
  {Scenario(id, ResolvePreset(preset, MCToday, "monday"), grain, filters,
            access, All \ {"ga4"}, {}) :
     preset \in {"last90d", "mtd"}, grain \in {"day", "week", "month"},
     filters \in {{}, Only("store", "berlin")}, access \in {Analyst, OfBerlin}}
  \cup {Scenario(id, range, "day", {}, Analyst, All \ {"ga4"}, {s}) : s \in All}

(* The job at work while a report is run: orders arrive after everything   *)
(* has been published, or during the first passes.                         *)
AtWork(id, arriving, settled) ==
  [Scenario(id, ResolvePreset("last28d", MCToday, "monday"), "day", {},
            Analyst, {"ct-native"}, {})
     EXCEPT !.late = arriving, !.settled = settled]
Concurrent ==
  {AtWork(id, arriving, TRUE) :
     id \in {"newVsReturning", "cohortRetention"}, arriving \in {{6}, {7}}}
  \cup {AtWork("newcomers", {6, 7}, TRUE), AtWork("newcomers", {7}, FALSE)}

MCScenarios ==
  UNION {InstalledFor(id, Preset(id)) \cup VariedFor(id, Preset(id)) :
           id \in ReportIds}
    \cup Drawings \cup Gaps \cup Disagreements \cup Refusals \cup Concurrent

(* A day's trade: net revenue and the cost of the goods, by day.           *)
MarginScenarios ==
  {Scenario("marginErosion", Preset("marginErosion"), "day", {}, Analyst,
            {"ct-native"}, {})}
=============================================================================
