-------------------------------- MODULE Drafts --------------------------------
(***************************************************************************)
(* Reports made in the builder                                             *)
(* (reporting-app/src/components/report-builder/draft-model.ts): the flat  *)
(* draft the form edits, the definition made of it, and what the form      *)
(* complains about.  A draft can be saved when there is no complaint.      *)
(***************************************************************************)
EXTENDS Catalogue

DraftTile(chartType, metrics, dimensions) ==
  [chartType |-> chartType, metrics |-> metrics, dimensions |-> dimensions]
Draft(id, datePreset, tiles) ==
  [id |-> id, datePreset |-> datePreset, tiles |-> tiles]

(* The nth of the chosen fields, if there are as many.                     *)
Nth(fields, n) == SubSeq(fields, n, n)
Chosen(fields, n) == IF n \in DOMAIN fields THEN Nth(fields, n) ELSE <<>>
EncodingFor(tile) ==
  LET metric == Chosen(tile.metrics, 1)
      dimension == Chosen(tile.dimensions, 1)
      second == Chosen(tile.dimensions, 2)
      type == tile.chartType
  IN  CASE type \in {"kpi", "sparkline"} -> [value |-> metric]
        [] type = "timeseries" -> [x |-> <<"date">>, y |-> tile.metrics]
        [] type \in {"breakdown", "donut", "treemap"} ->
             [category |-> dimension, y |-> tile.metrics, value |-> metric]
        [] type = "funnel" -> [steps |-> tile.metrics]
        [] type = "heatmap" ->
             [row |-> dimension, column |-> second, value |-> metric]
        [] type = "histogram" -> [category |-> dimension, value |-> metric]
        [] type = "scatter" ->
             [x |-> metric, y |-> Chosen(tile.metrics, 2), point |-> dimension]
        [] type = "geo" -> [region |-> dimension, value |-> metric]
        [] type = "pivot" ->
             [row |-> dimension, column |-> second, values |-> metric]
        [] type = "table" -> [columns |-> tile.dimensions \o tile.metrics]

(* The defaults do the rest; all its metrics are required of the sources.  *)
ToTile(tile) ==
  Draw(Tile(tile.metrics, Elements(tile.dimensions)), tile.chartType,
       EncodingFor(tile))
ToDefinition(draft) ==
  Report(FoldLeft(LAMBDA some, t : some \cup Elements(t.metrics), {}, draft.tiles),
         draft.datePreset, <<>>,
         FoldLeft(LAMBDA some, t : Append(some, ToTile(t)), <<>>, draft.tiles))

NeedsOneDimension(chartType) ==
  [metrics |-> IF chartType \in {"scatter", "funnel"} THEN 2 ELSE 1,
   dimensions |->
     IF chartType \in {"heatmap", "pivot", "breakdown", "donut", "treemap",
                       "histogram", "geo"} THEN 1 ELSE 0]

(* How many metrics and dimensions a chart cannot do without.              *)
Needs(chartType) ==
  [metrics |-> IF chartType \in {"scatter", "funnel"} THEN 2 ELSE 1,
   dimensions |->
     CASE chartType \in {"heatmap", "pivot"} -> 2
       [] chartType \in {"breakdown", "donut", "treemap", "histogram", "geo"} -> 1
       [] OTHER -> 0]
TileHasProblem(tile) ==
  \/ Len(tile.metrics) < Needs(tile.chartType).metrics
  \/ Len(tile.dimensions) < Needs(tile.chartType).dimensions
  \/ \E m \in Range(tile.metrics) : ~Known(m)
  \/ ~(Range(tile.dimensions) \subseteq DIMENSIONS)
DescribeProblems(draft) ==
  {i \in DOMAIN draft.tiles : TileHasProblem(draft.tiles[i])}
    \cup (IF draft.id = Null \/ draft.tiles = <<>> THEN {0} ELSE {})
=============================================================================
