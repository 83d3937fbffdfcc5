-------------------------------- MODULE Planner --------------------------------
(***************************************************************************)
(* The planner: which source serves which metric                           *)
(* (shared/src/planner/select-source.ts), what may be joined               *)
(* (conformance.ts), the plan of a tile and the availability of a report   *)
(* (plan.ts), and the queries sent (toSourceQuery of the gateway's         *)
(* run-report.ts).                                                         *)
(*                                                                         *)
(* What no caller passes is left out: priorities per metric and quota      *)
(* headroom.  Notices are kept as far as they decide something.  Sources   *)
(* are given by their ids.                                                 *)
(***************************************************************************)
EXTENDS Access, Catalogue, Connectors

-----------------------------------------------------------------------------
(* Candidates.  What is wanted is a record [metrics, leading, dimensions,  *)
(* grain, range, maxLag, preferred, scope]: leading is the first of the    *)
(* metrics, preferred the pinned source, scope the dimensions that must be *)
(* enforced.                                                               *)

Finer(grains, grain) == {g \in grains : GrainRank(g) < GrainRank(grain)}
OrElse(value, default) == IF value = Null THEN default ELSE value

CoversFrom(source, range) ==
  source.dateFloor = Null \/ range.from >= Today - source.dateFloor
CoversTo(source, range) ==
  source.dateCeiling = Null \/ range.to <= Today - source.dateCeiling
PredatesFloor(source, range) ==
  ~CoversFrom(source, range) /\ range.to <= Today - source.dateFloor

CanServeUnscoped(source, metric, wanted) ==
  /\ metric \in DOMAIN source.metrics
  /\ wanted.dimensions \ {"date"} \subseteq source.metrics[metric].dimensions
  /\ ~PredatesFloor(source, wanted.range)

CanServe(source, metric, wanted) ==
  /\ metric \in DOMAIN source.metrics
  /\ wanted.scope \subseteq source.rowLevelDimensions
  /\ LET capability == source.metrics[metric]
     IN  /\ wanted.dimensions \ {"date"} \subseteq capability.dimensions
         /\ \/ wanted.grain = Null
            \/ wanted.grain \in capability.grains
            \/ Finer(capability.grains, wanted.grain) # {}
         /\ ~PredatesFloor(source, wanted.range)
         /\ \/ wanted.maxLag = Null
            \/ OrElse(capability.maxLag, source.lag.max) <= wanted.maxLag

CandidatesFor(metric, sources, wanted) ==
  {s \in sources : CanServe(Descriptors[s], metric, wanted)}

(* The comparator: the smaller tuple wins.                                 *)
COST_RANK == [cheap |-> 0, moderate |-> 1, expensive |-> 2]
EXACTNESS_RANK == [exact |-> 0, sampled |-> 1, estimated |-> 2]
Standing(s, metric, wanted) ==
  LET source == Descriptors[s]
      capability == source.metrics[metric]
      covers == CoversFrom(source, wanted.range) /\ CoversTo(source, wanted.range)
      needsRollUp == wanted.grain # Null /\ wanted.grain \notin capability.grains
  IN  <<Truth(s # wanted.preferred), Truth(~covers),
        EXACTNESS_RANK[capability.exactness],
        Truth(~source.systemOfRecord), Truth(needsRollUp),
        OrElse(capability.typicalLag, source.lag.typical),
        COST_RANK[capability.costClass], -source.authority,
        source.alphabetical>>
Precedes(a, b) ==
  \E i \in DOMAIN a : a[i] < b[i] /\ \A j \in 1..(i - 1) : a[j] = b[j]
Best(sources, metric, wanted) ==
  LET standing == [s \in sources |-> Standing(s, metric, wanted)]
  IN  CHOOSE s \in sources :
        \A t \in sources \ {s} : Precedes(standing[s], standing[t])

(* A source that serves every metric wins, judged by the first of them;    *)
(* otherwise each metric has a source of its own, or none.                 *)
Covering(candidates, sources) ==
  {s \in sources : \A m \in DOMAIN candidates : s \in candidates[m]}
Assign(candidates, covering, wanted) ==
  [m \in DOMAIN candidates |->
     IF covering # {} THEN Best(covering, wanted.leading, wanted)
     ELSE IF candidates[m] = {} THEN Null
     ELSE Best(candidates[m], m, wanted)]
SelectSources(sources, wanted) ==
  LET candidates ==
        [m \in wanted.metrics |-> CandidatesFor(m, sources, wanted)]
  IN  Assign(candidates, Covering(candidates, sources), wanted)

(* Sorting the covering sources, but for the pinned one, reads the first   *)
(* metric, and the run fails when there is none.                           *)
SelectionThrows(sources, metrics, preferred) ==
  metrics = {} /\ Cardinality(sources \ {preferred}) > 1

-----------------------------------------------------------------------------
(* Joins                                                                   *)

TimezonesClash(grain, sources) ==
  /\ Cardinality(sources) > 1 /\ grain # Null /\ grain # "hour"
  /\ Cardinality({Descriptors[s].timezone : s \in sources}) > 1
  /\ \E s \in sources : "hour" \notin Descriptors[s].grains

EffectiveGrain(grain, sources) ==
  LET Servable(grains) ==
        IF grain \in grains \/ Finer(grains, grain) # {} THEN grain
        ELSE CoarsestGrain(grains)
  IN  IF grain = Null \/ sources = {} THEN Null
      ELSE CoarsestGrain({Servable(Descriptors[s].grains) : s \in sources})

(* Across sources, those whose key is the registry's in all of them.       *)
Joinable(dimensions, sources) ==
  IF Cardinality(sources) <= 1 THEN dimensions
  ELSE {d \in dimensions \cap Conformed :
          \A s \in sources : /\ d \in DOMAIN Descriptors[s].keys
                             /\ Descriptors[s].keys[d] = CanonicalKey[d]}

PlanJoin(dimensions, grain, sources) ==
  LET effective == EffectiveGrain(grain, sources)
      others == dimensions \ {"date"}
      joinable == Joinable(others, sources)
  IN  [joinKey |-> joinable \cup (IF effective = Null THEN {} ELSE {"date"}),
       effectiveGrain |-> effective, unjoinable |-> others \ joinable,
       blocked |-> TimezonesClash(grain, sources)]

-----------------------------------------------------------------------------
(* Plans.  A request is a record [range, grain, filters, access, sources]. *)

InjectCurrency(metrics, dimensions) ==
  dimensions \cup (IF \E m \in metrics : IsMoneyMetric(m)
                     THEN {"currency"} ELSE {})

Permitted(tile, access) ==
  {m \in Range(tile.metrics) : CanSeeMetric(access, m)}
LeadingMetric(tile, permitted) ==
  LET places == {i \in DOMAIN tile.metrics :
                   tile.metrics[i] \in permitted /\ Known(tile.metrics[i])}
      first == CHOOSE i \in places : \A j \in places : i <= j
  IN  IF places = {} THEN Null ELSE LeavesOf(tile.metrics[first])[1]
UsableSources(request) ==
  {s \in request.sources : CanUseSource(request.access, s)}
PlanThrows(tile, request) ==
  SelectionThrows(UsableSources(request),
                  BaseMetrics(Permitted(tile, request.access)),
                  tile.preferred)

SourceQuery(mode, metrics, dimensions, grain, range, filters, scope) ==
  [sourceId |-> mode[1], metrics |-> metrics, dimensions |-> dimensions,
   grain |-> grain, timeRange |-> range, filters |-> filters,
   scope |-> scope]

(* One sub-query for each source and each of its modes of execution.       *)
SubQueries(assigned, dimensions, grain, tile, report, request) ==
  LET Mode(m) == <<assigned[m], Descriptors[assigned[m]].metrics[m].execution>>
      served == {m \in DOMAIN assigned : assigned[m] # Null}
      PointInTime(mode) == mode[2] = "live" \/ tile.pointInTime
      filters == report.filters \cup request.filters \cup tile.filters
  IN  {SourceQuery(mode, {m \in served : Mode(m) = mode}, dimensions,
                   IF PointInTime(mode) THEN Null ELSE grain,
                   IF PointInTime(mode) THEN Null ELSE request.range,
                   filters, request.access.rowScope) :
         mode \in {Mode(m) : m \in served}}

(* The plan of a tile once each of its base metrics has a source, or none. *)
PlanAssigned(tile, report, request, wanted, assigned) ==
  LET permitted == Permitted(tile, request.access)
      unserved == {m \in DOMAIN assigned : assigned[m] = Null}
      derived == DerivedMetrics(permitted)
      unavailable == unserved \cup
        {d \in derived : Range(LeavesOf(d)) \cap unserved # {}}
      join == PlanJoin(wanted.dimensions, wanted.grain,
                       Range(assigned) \ {Null})
      grain == OrElse(join.effectiveGrain, wanted.grain)
      subQueries == SubQueries(assigned, wanted.dimensions, grain,
                               tile, report, request)
      errors == \/ UnknownMetrics(permitted) # {}
                \/ ~(tile.dimensions \subseteq DIMENSIONS)
                \/ join.blocked \/ join.unjoinable # {}
  IN  [subQueries |-> subQueries, joinKey |-> join.joinKey,
       effectiveGrain |-> grain,
       baseMetrics |-> DOMAIN assigned \ unserved, derived |-> derived,
       unavailable |-> unavailable, assigned |-> assigned,
       renderable |-> /\ subQueries # {} /\ ~errors
                      /\ permitted \ unavailable # {}
                      /\ report.strict => unavailable = {}]

PlanWanted(tile, report, request, wanted) ==
  PlanAssigned(tile, report, request, wanted,
               SelectSources(UsableSources(request), wanted))

(* What the tile wants of the sources; no grain unless it shows the days.  *)
Wanted(tile, report, request) ==
  LET permitted == Permitted(tile, request.access)
      requestedGrain ==
        IF tile.grain = "inherit" THEN request.grain ELSE tile.grain
      temporal == "date" \in tile.dimensions \cup EncodedFields(tile.chart)
      split == InjectCurrency(permitted, tile.dimensions)
  IN  [metrics |-> BaseMetrics(permitted),
       leading |-> LeadingMetric(tile, permitted),
       dimensions |-> {d \in split \cap DIMENSIONS :
                         CanSeeDimension(request.access, d)},
       grain |-> IF tile.pointInTime \/ ~temporal THEN Null
                 ELSE requestedGrain,
       range |-> request.range,
       maxLag |-> report.maxAcceptableLag, preferred |-> tile.preferred,
       scope |-> ActiveScopeDimensions(request.access.rowScope)]
PlanTile(tile, report, request) ==
  PlanWanted(tile, report, request, Wanted(tile, report, request))

(* Planning is a pass over every tile, before any query is sent.           *)
PlanReport(report, request) ==
  [i \in DOMAIN report.tiles |-> PlanTile(report.tiles[i], report, request)]

ReportAvailability(id, report, access, sources) ==
  LET served == UNION {DOMAIN Descriptors[s].metrics :
                         s \in {t \in sources : CanUseSource(access, t)}}
  IN  IF ~CanSeeReport(access, id) THEN "hidden"
      ELSE IF \A m \in report.required : Range(LeavesOf(m)) \subseteq served
        THEN "available" ELSE "unavailable"
=============================================================================
