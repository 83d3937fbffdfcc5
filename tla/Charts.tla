-------------------------------- MODULE Charts --------------------------------
(***************************************************************************)
(* What the charts of the app draw                                         *)
(* (reporting-app/src/components/charts/): a result [columns, rows,        *)
(* totals] becomes a set of marks, each the figure of a field at some      *)
(* labels.  A gap is no mark.                                              *)
(*                                                                         *)
(* Colours, axes, legends and formats are left out, and so are stacked     *)
(* bars, which no report asks for, and the ghost of the comparison.  Where *)
(* the order of the rows decides which is drawn, any of them may be.       *)
(***************************************************************************)
EXTENDS Merge, Catalogue

CONSTANT OnMap  \* the regions the map knows

Mark(at, field, figure) ==
  [at |-> at, field |-> field, figure |-> AsFraction(field, figure)]
MarkOf(row, dimensions, field) ==
  Mark(KeyFor(row.k, dimensions), field, Figure(row, field))
ZeroOf(field) == IF IsBase(field) THEN 0 ELSE <<0, 1>>
TotalOf(result, field) ==
  IF field \in DOMAIN result.totals THEN result.totals[field] ELSE Null

(* The field of a channel, or else of the other channel, or none.          *)
FieldOf(chart, channel, other) ==
  LET named == Fields(chart, channel) \o Fields(chart, other)
  IN  IF named = <<>> THEN Null ELSE named[1]
DistinctValues(rows, field) == {Value(r.k, field) : r \in rows} \ {Null}

(* Pairs of a name and a value, one per row: a name may come twice.        *)
ToCategorical(rows, category, metric, most) ==
  LET named == {r \in Having(rows, metric) : Value(r.k, category) # Null}
  IN  IF most = Null THEN named ELSE Largest(named, metric, Kept(most))

-----------------------------------------------------------------------------
(* One figure, or one figure per step                                      *)

KpiStat(chart, result) ==
  LET field == Fields(chart, "value")[1]
  IN  IF field \in result.columns /\ TotalOf(result, field) # Null
        THEN {Mark(NoKey, field, TotalOf(result, field))} ELSE {}

Funnel(chart, result) ==
  {Mark(NoKey, f, TotalOf(result, f)) :
     f \in {s \in Range(Fields(chart, "steps")) : TotalOf(result, s) # Null}}

-----------------------------------------------------------------------------
(* Over time                                                               *)

(* A line through the figures, whatever their labels.                      *)
Sparkline(chart, rows) ==
  LET field == FieldOf(chart, "trend", "value")
      values == Having(rows, field)
  IN  IF Cardinality(values) < 2 THEN {}
      ELSE {MarkOf(r, {}, field) : r \in values}

(* The rows with a time and a figure: the others are dropped, and not      *)
(* taken as 0.                                                             *)
ToTimeSeries(rows, time, metric) ==
  {r \in Having(rows, metric) : Value(r.k, time) # Null}

(* One point for each x of each series; an x without one stays a gap.      *)
TimeSeriesFilled(chart, rows) ==
  LET x == Fields(chart, "x")[1]
      Points(at, field) ==
        {r \in ToTimeSeries(rows, x, field) : r.k[x] = at}
      Point(at, field) ==
        IF Points(at, field) = {} THEN Mark(x :> at, field, ZeroOf(field))
        ELSE MarkOf(CHOOSE r \in Points(at, field) : TRUE, {x}, field)
  IN  {Point(p[1], p[2]) :
         p \in DistinctValues(rows, x) \X Range(Fields(chart, "y"))}
TimeSeries(chart, rows) ==
  LET x == IF Fields(chart, "x") = <<>> THEN "date" ELSE Fields(chart, "x")[1]
      Points(at, field) == {r \in ToTimeSeries(rows, x, field) : r.k[x] = at}
      drawn == {p \in DistinctValues(rows, x) \X Range(Fields(chart, "y")) :
                  Points(p[1], p[2]) # {}}
  IN  {MarkOf(CHOOSE r \in Points(p[1], p[2]) : TRUE, {x}, p[2]) : p \in drawn}

-----------------------------------------------------------------------------
(* By category                                                             *)

(* The categories of the first series; of several figures of a category    *)
(* the last one stays, which is the smallest, and none is drawn as 0.      *)
Breakdown(chart, rows) ==
  LET category == Fields(chart, "category")[1]
      series == IF Fields(chart, "y") # <<>> THEN Fields(chart, "y")
                ELSE Fields(chart, "value")
      names == {r.k[category] :
                  r \in ToCategorical(rows, category, series[1], chart.cut)}
      Pairs(name, field) ==
        {r \in ToCategorical(rows, category, field, Null) :
           r.k[category] = name}
      Bar(name, field) ==
        LET pairs == Pairs(name, field)
        IN  IF pairs = {} THEN Mark(category :> name, field, ZeroOf(field))
            ELSE MarkOf(CHOOSE r \in pairs : \A s \in pairs :
                          AtLeast(field, s.m[field], r.m[field]),
                        {category}, field)
  IN  {Bar(p[1], p[2]) : p \in names \X Range(series)}

(* Slices and boxes, the largest of them.                                  *)
Shares(chart, rows, most) ==
  LET category == Fields(chart, "category")[1]
      field == FieldOf(chart, "y", "value")
  IN  {MarkOf(r, {category}, field) :
         r \in ToCategorical(rows, category, field, most)}
Donut(chart, rows) ==
  Shares(chart, rows, IF chart.cut = Null THEN 7 ELSE chart.cut)
Treemap(chart, rows) == Shares(chart, rows, chart.cut)

(* A bar per row with a bucket, as high as the largest of the bucket.      *)
Bins(chart, rows) ==
  LET bucket == FieldOf(chart, "category", "x")
      field == FieldOf(chart, "value", "y")
      pairs == ToCategorical(rows, bucket, field, Null)
  IN  {MarkOf(r, {bucket}, field) :
         r \in {p \in pairs : \A q \in pairs :
                  q.k[bucket] = p.k[bucket] =>
                    AtLeast(field, p.m[field], q.m[field])}}

(* Regions that are not on the map are not drawn.                          *)
ToRegions(chart, rows) ==
  ToCategorical(rows, Fields(chart, "region")[1],
                FieldOf(chart, "value", "y"), Null)
Choropleth(chart, rows) ==
  LET region == Fields(chart, "region")[1]
  IN  {MarkOf(r, {region}, FieldOf(chart, "value", "y")) :
         r \in {q \in ToRegions(chart, rows) : q.k[region] \in OnMap}}

-----------------------------------------------------------------------------
(* By two fields                                                           *)

InGrid(rows, row, column) ==
  {r \in rows : Value(r.k, row) # Null /\ Value(r.k, column) # Null}

(* A cell without a figure stays blank: a period to come has none.         *)
ToMatrix(rows, row, column, metric) ==
  Having(InGrid(rows, row, column), metric)
Heatmap(chart, rows) ==
  LET row == Fields(chart, "row")[1]
      column == Fields(chart, "column")[1]
      field == FieldOf(chart, "value", "y")
  IN  {MarkOf(r, {row, column}, field) :
         r \in ToMatrix(rows, row, column, field)}

(* The figures of a cell are added up, whatever they are, and the cells    *)
(* too when the type of the column says count or money.                    *)
IsAdditiveColumn(metric) ==
  \/ METRICS[metric].money
  \/ IsBase(metric) /\ Aggregation(metric) # "avg"
PlusFraction(u, v) == <<u[1] * v[2] + v[1] * u[2], u[2] * v[2]>>
Added(rows, metric) ==
  IF IsBase(metric) THEN SumOf(rows, metric)
  ELSE FoldSet(LAMBDA r, sum : PlusFraction(sum, r.m[metric]), <<0, 1>>, rows)

Pivot(chart, rows) ==
  LET row == Fields(chart, "row")[1]
      column == Fields(chart, "column")[1]
      field == FieldOf(chart, "values", "value")
      cells == Having(InGrid(rows, row, column), field)
      ways == IF IsAdditiveColumn(field)
                THEN {{row, column}, {row}, {column}, {}} ELSE {{row, column}}
      Sums(dimensions) ==
        {Mark(KeyFor((CHOOSE r \in g : TRUE).k, dimensions), field,
              Added(g, field)) :
           g \in GroupsBy(cells, LAMBDA r : KeyFor(r.k, dimensions))}
  IN  UNION {Sums(dimensions) : dimensions \in ways}

(* A point needs both coordinates; a bubble without a size is the smallest. *)
Scatter(chart, rows) ==
  LET x == Fields(chart, "x")[1]
      y == Fields(chart, "y")[1]
      at == Range(Fields(chart, "point"))
      Bubble(r, size) ==
        Mark(KeyFor(r.k, at), size,
             IF Figure(r, size) = Null THEN ZeroOf(size) ELSE Figure(r, size))
      Point(r) == {MarkOf(r, at, x), MarkOf(r, at, y)}
                    \cup {Bubble(r, s) : s \in Range(Fields(chart, "size"))}
  IN  UNION {Point(r) : r \in Having(Having(rows, x), y)}

-----------------------------------------------------------------------------
(* Tables                                                                  *)

(* The first rows, in the order of the query.                              *)
FirstRows(rows, tile, most) == Largest(rows, tile.orderBy, Kept(most))
ResultSetTable(tile, columns, rows, most) ==
  LET dimensions == columns \ DOMAIN METRICS
      figures == {p \in FirstRows(rows, tile, most) \X (columns \ dimensions) :
                    Figure(p[1], p[2]) # Null}
  IN  {MarkOf(p[1], dimensions, p[2]) : p \in figures}

(* The columns asked for, or else all of them.                             *)
DataTable(tile, result) ==
  LET asked == Range(Fields(tile.chart, "columns"))
  IN  ResultSetTable(tile,
        IF asked = {} THEN result.columns ELSE result.columns \cap asked,
        result.rows, IF tile.chart.cut = Null THEN 50 ELSE tile.chart.cut)

-----------------------------------------------------------------------------
(* The frame of a tile                                                     *)

(* What a chart cannot do without: one channel of each set.                *)
KpiNeeds == {{"value"}}
TimeSeriesNeeds == {{"y"}}
BreakdownNeeds == {{"category"}, {"y", "value"}}
FunnelNeeds == {{"steps"}}
ScatterNeeds == {{"x"}, {"y"}}
HeatmapNeeds == {{"row"}, {"column"}, {"value", "y"}}
GeoNeeds == {{"region"}, {"value", "y"}}
PivotNeeds == {{"row"}, {"column"}, {"values", "value"}}
NoNeeds == {}

Requires ==
  [kpi |-> KpiNeeds, timeseries |-> TimeSeriesNeeds,
   breakdown |-> BreakdownNeeds, donut |-> BreakdownNeeds,
   treemap |-> BreakdownNeeds, funnel |-> FunnelNeeds,
   scatter |-> ScatterNeeds, heatmap |-> HeatmapNeeds, geo |-> GeoNeeds,
   pivot |-> PivotNeeds,
   table |-> NoNeeds, sparkline |-> NoNeeds, histogram |-> NoNeeds]
CHART_RENDERERS == DOMAIN Requires

MissesEncoding(chart) ==
  \/ \E channels \in Requires[chart.type] :
       \A c \in channels : Fields(chart, c) = <<>>
  \/ chart.type = "funnel" /\ Len(Fields(chart, "steps")) < 2
MissesTime(chart, columns) ==
  chart.type = "timeseries" /\ "date" \notin columns /\ Fields(chart, "x") = <<>>
MissingFields(chart, columns) == EncodedFields(chart) \ columns
CanDraw(chart, columns) ==
  /\ MissingFields(chart, columns) = {}
  /\ ~MissesEncoding(chart) /\ ~MissesTime(chart, columns)

Component(tile, result, raw) ==
  LET chart == tile.chart
      rows == result.rows
  IN  CASE chart.type = "kpi" -> KpiStat(chart, result)
        [] chart.type = "sparkline" -> Sparkline(chart, rows)
        [] chart.type = "timeseries" -> TimeSeries(chart, rows)
        [] chart.type = "breakdown" -> Breakdown(chart, rows)
        [] chart.type = "donut" -> Donut(chart, rows)
        [] chart.type = "treemap" -> Treemap(chart, rows)
        [] chart.type = "funnel" -> Funnel(chart, result)
        [] chart.type = "heatmap" -> Heatmap(chart, rows)
        [] chart.type = "histogram" -> Bins(chart, rows)
        [] chart.type = "scatter" -> Scatter(chart, rows)
        [] chart.type = "geo" -> Choropleth(chart, rows)
        [] chart.type = "pivot" -> Pivot(chart, rows)
        [] chart.type = "table" -> DataTable(tile, raw)

(* A chart that cannot be drawn falls back on a table of the whole result. *)
(* Charts show the labelled result, tables the raw one.                    *)
TileBody(tile, result, raw) ==
  IF result.rows = {} THEN {}
  ELSE IF tile.chart.type \in CHART_RENDERERS
            /\ CanDraw(tile.chart, result.columns)
    THEN Component(tile, result, raw)
  ELSE ResultSetTable(tile, raw.columns, raw.rows, 200)
=============================================================================
