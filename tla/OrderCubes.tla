------------------------------ MODULE OrderCubes ------------------------------
(***************************************************************************)
(* From orders to cubes: the fact of an order and the folds                *)
(* (shared/src/rollup/order-mapping.ts), the category of a product         *)
(* (shared-node/src/category-resolver.ts), the cubes of a day              *)
(* (reporting-rollup-job/src/fold.ts) and the top N of items (keying.ts).  *)
(*                                                                         *)
(* An order is a record: its day (completedAt, or else createdAt), its     *)
(* customer, amounts, attributes and lines; an attribute it lacks is Null. *)
(* How cells are packed into shards is the matter of Partition.  The       *)
(* hashing of customers, the digits of a currency and the order's version  *)
(* are left out.                                                           *)
(***************************************************************************)
EXTENDS Rows, Calendar

CONSTANTS
  ItemTopN,      \* products kept for each store and day
  Products,      \* maps products to their [categories, skus], in order
  CategoryKeys   \* maps categories to their keys; Null is none

NONE == "_none"
OTHER_BUCKET == "__other__"
DISPATCH_SLA_DAYS == 2

OrNone(value) == IF value = Null THEN NONE ELSE value
Truth(condition) == IF condition THEN 1 ELSE 0
Total(S, amount(_)) == SumFunction([x \in S |-> amount(x)])

-----------------------------------------------------------------------------
(* The category of a product: the key of the first it is in, or the id of  *)
(* one without a key.                                                      *)

KeyOfCategory(id) ==
  IF id \in DOMAIN CategoryKeys /\ CategoryKeys[id] # Null
    THEN CategoryKeys[id] ELSE id
CategoryOf(product) ==
  IF product \notin DOMAIN Products \/ Products[product].categories = <<>>
    THEN NONE ELSE KeyOfCategory(Head(Products[product].categories))
CategoryOfSku(sku) ==
  LET products == {p \in DOMAIN Products :
                     sku \in Products[p].skus /\ CategoryOf(p) # NONE}
  IN  IF products = {} THEN NONE
      ELSE CategoryOf(CHOOSE p \in products : TRUE)

-----------------------------------------------------------------------------
(* Facts                                                                   *)

(* A line knows its product; its category is looked up.                    *)
ApplyLineCategories(order) ==
  [order EXCEPT !.lines =
     {[x \in DOMAIN l \cup {"category"} |->
         IF x = "category" THEN CategoryOf(l.productId) ELSE l[x]] : l \in @}]

(* The channel the lines agree on.                                         *)
ChannelOf(order) ==
  LET channels == {l.channel : l \in order.lines} \ {Null}
  IN  IF Cardinality(channels) = 1 THEN CHOOSE c \in channels : TRUE ELSE NONE

OrderMeasures(order) ==
  LET taxed == order.taxed
      net == IF taxed = Null THEN order.total ELSE taxed.net
  IN  [orders |-> 1,
       revenueGross |-> IF taxed = Null THEN order.total ELSE taxed.gross,
       revenueNet |-> net, revenueNetCash |-> net,
       tax |-> IF taxed = Null THEN 0 ELSE taxed.tax,
       shipping |-> order.shipping, discount |-> order.discount,
       refunds |-> IF order.paymentState = "CreditOwed" THEN net ELSE 0,
       units |-> Total(order.lines, LAMBDA l : l.quantity),
       lines |-> Cardinality(order.lines),
       ordersPromoted |-> Truth(order.codes # {} \/ order.discount > 0)]

ORDER_MEASURES ==
  {"orders", "revenueGross", "revenueNet", "revenueNetCash", "tax", "shipping",
   "discount", "refunds", "units", "lines", "ordersPromoted", "redemptions",
   "shipments", "shipmentsOnTime"}

BusinessDateOf(order) ==
  IF order.completedAt = Null THEN order.createdAt ELSE order.completedAt

ToOrderFact(order) ==
  LET measures == OrderMeasures(order)
      day == BusinessDateOf(order)
      redemptions == Truth(order.promoCode # Null)
      shipped == order.shippedAt # Null
  IN  [orderId |-> order.id, businessDate |-> day, customer |-> order.customer,
       dims |-> [currency |-> order.currency, store |-> OrNone(order.store),
                 distributionChannel |-> ChannelOf(order),
                 country |-> OrNone(order.country),
                 orderState |-> OrNone(order.orderState),
                 paymentState |-> OrNone(order.paymentState),
                 discountCode |-> OrNone(order.promoCode),
                 shippingMethod |-> OrNone(order.shippingMethod),
                 carrier |-> OrNone(order.carrier)],
       measures |->
         [x \in ORDER_MEASURES |->
            CASE x = "redemptions" -> redemptions
              [] x = "shipments" -> Truth(shipped)
              [] x = "shipmentsOnTime" ->
                   Truth(shipped /\ order.shippedAt - day <= DISPATCH_SLA_DAYS)
              [] x = "ordersPromoted" ->
                   IF measures[x] > 0 THEN measures[x] ELSE redemptions
              [] OTHER -> measures[x]],
       items |-> {[line |-> l.line, sku |-> l.sku, category |-> l.category,
                   units |-> l.quantity, revenueNet |-> l.price,
                   cost |-> l.unitCost * l.quantity] : l \in order.lines}]

-----------------------------------------------------------------------------
(* Folds                                                                   *)

Attributed(facts) == {f \in facts : f.customer # Null}
CustomersOf(facts) == {f.customer : f \in Attributed(facts)}
OrdersOf(facts, customer) == {f \in facts : f.customer = customer}

(* The first order of each customer: the earliest day, then the least id.  *)
FirstOrder(orders) ==
  CHOOSE f \in orders : \A g \in orders :
    \/ f.businessDate < g.businessDate
    \/ f.businessDate = g.businessDate /\ f.orderId <= g.orderId
FirstOrderIds(facts) ==
  [c \in CustomersOf(facts) |-> FirstOrder(OrdersOf(facts, c)).orderId]

(* first is Null on a pass that has not seen every order.                  *)
IsFirst(fact, first) ==
  /\ first # Null /\ fact.customer # Null
  /\ fact.customer \in DOMAIN first
  /\ first[fact.customer] = fact.orderId
CustomerType(fact, first) ==
  IF first = Null \/ fact.customer = Null THEN NONE
  ELSE IF IsFirst(fact, first) THEN "new" ELSE "returning"

(* One cell per key, each measure added up.                                *)
Fold(rows, measures) ==
  {Row(c.k, c.k, c.m) :
     c \in {LET k == (CHOOSE r \in g : TRUE).k
            IN  [k |-> k, m |-> [x \in measures |-> SumOf(g, x)]] :
              g \in GroupsBy(rows, LAMBDA r : r.k)}}

OrderDims ==
  {"currency", "store", "distributionChannel", "country", "orderState",
   "paymentState"}
OrderRow(f, first) ==
  Row(f.orderId,
      [d \in OrderDims \cup {"customerType"} |->
         IF d = "customerType" THEN CustomerType(f, first) ELSE f.dims[d]],
      [x \in ORDER_MEASURES \cup {"customersNew"} |->
         IF x # "customersNew" THEN f.measures[x]
         ELSE IF IsFirst(f, first) THEN 1 ELSE Null])
FoldOrdersDaily(facts, first) ==
  Fold({OrderRow(f, first) : f \in facts}, ORDER_MEASURES \cup {"customersNew"})

ItemMeasures == {"units", "revenueNet", "cost"}
ItemRows(facts, KeyOf(_, _)) ==
  UNION {{Row(<<f.orderId, i.line>>, KeyOf(f.dims, i), Restrict(i, ItemMeasures)) :
            i \in f.items} : f \in facts}
FoldOrderLinesDaily(facts) ==
  Fold(ItemRows(facts, LAMBDA d, i :
         [currency |-> d.currency, store |-> d.store, product |-> i.sku]),
       ItemMeasures)
FoldOrderCategoriesDaily(facts) ==
  Fold(ItemRows(facts, LAMBDA d, i :
         [currency |-> d.currency, store |-> d.store, category |-> i.category]),
       ItemMeasures)

FoldSome(facts, having, dims, measures) ==
  Fold({Row(f.orderId, Restrict(f.dims, dims), f.measures) :
          f \in {g \in facts : g.measures[having] > 0}}, measures)
FoldPromotionsDaily(facts) ==
  FoldSome(facts, "redemptions", {"currency", "store", "discountCode"},
           {"redemptions", "ordersPromoted", "discount"})
FoldFulfilmentDaily(facts) ==
  FoldSome(facts, "shipments", {"store", "shippingMethod", "carrier"},
           {"shipments", "shipmentsOnTime"})

(* The whole history: of each cohort (the month and store of its           *)
(* customers' first orders), who ordered again, and when.  Of two first    *)
(* orders on one day the code takes the store of the one it scans first.   *)
MonthOf(fact) == LatestOf(MonthStarts, fact.businessDate)
RetainedOrders(members, facts, month) ==
  Cardinality({f \in facts : f.customer \in members /\ MonthOf(f) = month})

Retained(members, facts, month) ==
  Cardinality({c \in members :
                 \E f \in OrdersOf(facts, c) : MonthOf(f) = month})
FoldCohort(facts) ==
  LET first == [c \in CustomersOf(facts) |-> FirstOrder(OrdersOf(facts, c))]
      months == {MonthOf(f) : f \in Attributed(facts)}
      Members(month, store) ==
        {c \in DOMAIN first :
           MonthOf(first[c]) = month /\ first[c].dims.store = store}
      cohorts == {<<MonthOf(first[c]), first[c].dims.store>> :
                    c \in DOMAIN first}
      latest == CHOOSE m \in months : \A n \in months : n <= m
      Elapsed(month) == {m \in MonthStarts : month <= m /\ m <= latest}
      Cell(month, store, m) ==
        LET members == Members(month, store)
            k == [cohortMonth |-> month, store |-> store,
                  periodIndex |-> Cardinality({n \in Elapsed(month) : n < m})]
        IN  Row(k, k, [cohortSize |-> Cardinality(members),
                       retained |-> Retained(members, facts, m)])
  IN  UNION {{Cell(c[1], c[2], m) : m \in Elapsed(c[1])} : c \in cohorts}

-----------------------------------------------------------------------------
(* The cubes of a day                                                      *)

TopNDropped(cells, measure, n) == Largest(cells, measure, n)

(* The residual takes its currency from the first cell of the store.       *)
TopNWithResidual(cells, measure, n) ==
  LET head == Largest(cells, measure, n)
      first == (CHOOSE c \in cells : TRUE).k
      k == [currency |-> first.currency, store |-> first.store,
            product |-> OTHER_BUCKET]
  IN  IF Cardinality(cells) <= n THEN cells
      ELSE head \cup
             {Row(k, k, [x \in ItemMeasures |-> SumOf(cells \ head, x)])}

DAILY_CUBES ==
  {"orders-daily", "order-lines-daily", "order-categories-daily",
   "promotions-daily", "fulfilment-daily"}
FoldDay(facts, first) ==
  [cube \in DAILY_CUBES |->
     CASE cube = "orders-daily" -> FoldOrdersDaily(facts, first)
       [] cube = "order-lines-daily" ->
            UNION {TopNWithResidual(store, "revenueNet", ItemTopN) :
                     store \in GroupsBy(FoldOrderLinesDaily(facts),
                                        LAMBDA c : c.k.store)}
       [] cube = "order-categories-daily" -> FoldOrderCategoriesDaily(facts)
       [] cube = "promotions-daily" -> FoldPromotionsDaily(facts)
       [] cube = "fulfilment-daily" -> FoldFulfilmentDaily(facts)]
=============================================================================
