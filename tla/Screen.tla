-------------------------------- MODULE Screen --------------------------------
(***************************************************************************)
(* What the user sees of a run: the result of a tile (TileRun) with its    *)
(* keys replaced by names (Labels) and drawn (Charts), as report-viewer    *)
(* and tile-frame do it.  loaded are the kinds of entities whose names     *)
(* have arrived when the tile is drawn.                                    *)
(***************************************************************************)
EXTENDS TileRun, Charts, Labels

ShownTile == TheReport.tiles[shown.tile]
ShownPlan == plans[shown.tile]
Sources == CtValueSourcesFromReport(TheReport)

(* The columns of a merged result (mergeResults).                          *)
ResultColumns(plan) == plan.joinKey \cup plan.baseMetrics \cup plan.derived
RawResult(merged, plan) ==
  [columns |-> ResultColumns(plan), rows |-> merged.rows,
   totals |-> merged.totals]
LabelizeResult(sources, loaded, result) ==
  [result EXCEPT !.rows = {ResolveRow(sources, loaded, r) : r \in @}]

-----------------------------------------------------------------------------
(* What is due at a key of the tile, from the answers themselves           *)

DisplayDay(plan, day) ==
  IF day # Null /\ NeedsRollUp(plan.effectiveGrain, plan.joinKey)
    THEN BucketDay(day, plan.effectiveGrain, "monday") ELSE day
AnsweredAt(m, k, plan) ==
  {r \in UNION {a.answer.rows : a \in {b \in shown.answers : m \in b.query.metrics}} :
     \A d \in DOMAIN k :
       k[d] = IF d = "date" THEN DisplayDay(plan, Value(r.k, d)) ELSE Value(r.k, d)}

(* A figure that does not add up is due only where one row has it.         *)
DueBase(m, k, plan) ==
  LET rows == AnsweredAt(m, k, plan)
      rolledUp == NeedsRollUp(plan.effectiveGrain, plan.joinKey)
  IN  IF rolledUp /\ ~AddsUpOverTime(m) THEN Null
      ELSE IF AddsUp(m) \/ Cardinality(rows) = 1 THEN SumOf(rows, m)
      ELSE Null
Due(m, k, plan) ==
  IF IsBase(m) THEN DueBase(m, k, plan)
  ELSE LET formula == METRICS[m].formula
           leaves == Range(FormulaLeaves(formula))
       IN  EvaluateFormula(formula, [l \in leaves |-> DueBase(l, k, plan)])

(* The bucket of all others, and an average, is as good as merged.         *)
IsOther(r, shape) ==
  shape.topN # Null /\ \A d \in DOMAIN r.k \ {"date"} : r.k[d] = OTHER_BUCKET
Averages(m) == ~AddsUp(m) /\ IsBase(m)
FigureDue(r, m, shape, plan) ==
  IF IsOther(r, shape) \/ Averages(m) THEN Figure(r, m) ELSE Due(m, r.k, plan)

TotalDue(rows, m, shape, plan) ==
  LET Sum(b) ==
        IF AddsUp(b)
          THEN SumOf({Row(r.k, r.k, b :> FigureDue(r, b, shape, plan)) : r \in rows}, b)
          ELSE Null
  IN  IF IsBase(m) THEN Sum(m)
      ELSE LET leaves == Range(FormulaLeaves(METRICS[m].formula))
           IN  EvaluateFormula(METRICS[m].formula, [l \in leaves |-> Sum(l)])

-----------------------------------------------------------------------------
(* The marks of a tile                                                     *)

(* A chart that cannot be drawn is a table, and a table shows the keys.    *)
DrawnAs(chart, raw) == IF CanDraw(chart, raw.columns) THEN chart.type ELSE "table"
Labelled(type, sources, loaded, rows) ==
  [r \in rows |-> IF type = "table" THEN r.k ELSE ResolveRow(sources, loaded, r).k]

(* The rows that carry the labels of a mark.                               *)
RowsAt(mark, labels) ==
  {r \in DOMAIN labels :
     \A d \in DOMAIN mark.at : Value(labels[r], d) = mark.at[d]}
Bears(mark, figure) == mark.figure = AsFraction(mark.field, figure)

(* A bar of a further series, and the size of a bubble, may stand at 0 for *)
(* a figure that is not there: breakdown.tsx:110 and scatter.tsx:55 put it *)
(* there.                                                                  *)
MayStandAtZero(chart, field) ==
  \/ chart.type = "breakdown" /\ field # FieldOf(chart, "y", "value")
  \/ chart.type = "scatter" /\ field \in Range(Fields(chart, "size"))

(* The figures due at the rows, added up whatever they are.                *)
SumOfDue(rows, m, shape, plan) ==
  LET due == [r \in rows |-> FigureDue(r, m, shape, plan)]
  IN  FoldSet(LAMBDA r, sum : PlusFraction(sum, AsFraction(m, due[r])),
              <<0, 1>>, {r \in rows : due[r] # Null})
(* The totals of a pivot leave a rate blank; a ratio of money is added up. *)
MayBeTotalled(m) == IsBase(m) \/ IsMoneyMetric(m)
IsSubtotal(mark, chart) ==
  ~({Fields(chart, "row")[1], Fields(chart, "column")[1]} \subseteq DOMAIN mark.at)

MarkIsDue(mark, rows, there, type, shape, plan) ==
  CASE type \in {"kpi", "funnel"} ->
         Bears(mark, TotalDue(rows, mark.field, shape, plan))
    [] type = "pivot" ->
         /\ mark.figure = SumOfDue(there, mark.field, shape, plan)
         /\ IsSubtotal(mark, shape.chart) => MayBeTotalled(mark.field)
    [] OTHER ->
         \E r \in there :
           \/ Bears(mark, FigureDue(r, mark.field, shape, plan))
           \/ /\ MayStandAtZero(shape.chart, mark.field)
              /\ Bears(mark, ZeroOf(mark.field))
              /\ FigureDue(r, mark.field, shape, plan) = Null
MarksAreDue(marks, labels, type, shape, plan) ==
  \A mark \in marks :
    MarkIsDue(mark, DOMAIN labels, RowsAt(mark, labels), type, shape, plan)

(* A user may look at a tile before any name has arrived, or after all of  *)
(* them.                                                                   *)
TileIsDue(raw, sources, shape, plan) ==
  LET type == DrawnAs(shape.chart, raw)
  IN  \A loaded \in {{}, Range(sources)} :
        MarksAreDue(TileBody(shape, LabelizeResult(sources, loaded, raw), raw),
                    Labelled(type, sources, loaded, raw.rows), type, shape, plan)

-----------------------------------------------------------------------------
(* Properties, of a tile that has just been run                            *)

Seen == shown # Null /\ ~begun
TheRaw == RawResult(shown.merged, ShownPlan)

(* What a chart shows is what the sources answered (shape.ts and the       *)
(* renderers, through merge.ts): each mark stands for a key with its       *)
(* labels, whose figure it is, added up from the answers; a headline       *)
(* figure or a step is the total; a cell or a total of a pivot is the sum  *)
(* of the figures due in it.  Excepted are the places where the code does  *)
(* otherwise: a gap is not drawn as 0, but for a bar of a further series   *)
(* and the size of a bubble (MayStandAtZero); a rate has no totals in a    *)
(* pivot, but a ratio of money has, although pivot-table.tsx:25-26 leaves  *)
(* a ratio blank (MayBeTotalled).  Averages, and the bucket of all others, *)
(* are taken as merged.                                                    *)
MarksShowAnswers == Seen => TileIsDue(TheRaw, Sources, ShownTile, ShownPlan)

(* A field a tile may lack: hidden from the subject, or served by no source. *)
Explained(f, plan, access) ==
  \/ f \in DOMAIN METRICS /\ (~CanSeeMetric(access, f) \/ f \in plan.unavailable)
  \/ f \in DIMENSIONS /\ ~CanSeeDimension(access, f)
FieldsAreFound(chart, columns, plan, access) ==
  /\ ~MissesEncoding(chart)
  /\ \A f \in MissingFields(chart, columns) : Explained(f, plan, access)

(* A time series has a point for each figure: each has its day.            *)
SeriesAreDated(chart, rows) ==
  chart.type = "timeseries" =>
    \A r \in rows, m \in Range(Fields(chart, "y")) :
      Figure(r, m) # Null => Value(r.k, "date") # Null

(* A tile that is run, of a report built in or made with the builder, can  *)
(* be drawn as what it is (validateEncodedFields, and the builder's        *)
(* describeProblems, without which a chart needs a channel the draft has   *)
(* nothing for): each field the chart names is a column of what comes      *)
(* back, unless the subject may not see it or no source serves it, and a   *)
(* time series finds a day for each figure.                                *)
(*                                                                         *)
(* Nothing is claimed of a tile that no source serves: it is not run, and  *)
(* draws nothing.  The form lets such tiles through, among them every time *)
(* series of live metrics only, since what is live has no grain (the       *)
(* drafts have one), although report-builder.tsx:83-84 and types.ts:14-15  *)
(* say that the builder cannot author a chart that will not draw.          *)
ChartsFindTheirFields ==
  Seen => /\ FieldsAreFound(ShownTile.chart, TheRaw.columns, ShownPlan, request.access)
          /\ SeriesAreDated(ShownTile.chart, TheRaw.rows)
=============================================================================
