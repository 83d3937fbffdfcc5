----------------------------- MODULE ReportViewer -----------------------------
(***************************************************************************)
(* The catalogue and the report viewer: the definition they load           *)
(* (use-gateway-fetch.ts), the filters in the URL (use-report-filters.ts,  *)
(* filters-codec.ts), the run of the report (use-report-query.ts) and the  *)
(* cache of the tab (query-cache.ts).                                      *)
(*                                                                         *)
(* A request is its key, <<report, filters>>.  Calls are answered by the   *)
(* gateway at one moment and reach the hook at a later one, in any order.  *)
(* React runs the effects of a render after it and before the next event   *)
(* and render; a run may come back in between.  The lifetime of a cached   *)
(* answer is left open: an entry may have expired at any look-up.          *)
(***************************************************************************)
EXTENDS AppShell

CONSTANTS
  Filters,       \* the states of the filter bar
  DefaultOf,     \* DefaultOf[id]: the filters a report declares as defaults
  HookDefault,   \* the filters assumed before the definition is there
  Watched,       \* the request the history is kept of
  MaxEntries,    \* MAX_ENTRIES of the tab's cache
  Runs           \* slots: the runs in flight at one time

ASSUME FilterAssumption ==
  HookDefault \in Filters /\ DefaultOf \in [Ids -> Filters] /\ Watched \in Ids \X Filters
ASSUME EntriesAssumption == MaxEntries \in Nat \ {0}

VARIABLES
  search,  \* the filters in the URL, or None
  fetch,   \* useGatewayFetch: its state, latest path and effect's inputs
  gets,    \* the paths of its calls in flight
  query,   \* useReportQuery: its state, latest key and effect's inputs
  posts,   \* the runs in flight [slot, mine, key, answer]; mine: asked by
           \* the mounted viewer
  cache,   \* the tab's cache, oldest first
  seen,    \* history: when the newest answer shown to Watched was computed
  twice    \* history: Watched was asked for while a run of it was out

hookVars == <<fetch, gets, query, posts, cache, seen, twice>>
viewerVars == <<search, hookVars>>

Keys == Ids \X Filters

Unknown == [error |-> "NOT_FOUND"]

FreshFetch == [loading |-> TRUE, data |-> None, latest |-> None, deps |-> None]
FreshQuery == [loading |-> FALSE, data |-> None, latest |-> None, deps |-> None]

ViewerInit ==
  /\ search = None
  /\ fetch = FreshFetch /\ gets = <<>>
  /\ query = FreshQuery /\ posts = {}
  /\ cache = <<>>
  /\ seen = 0 /\ twice = FALSE

-----------------------------------------------------------------------------
(* query-cache.ts                                                          *)
Holds(key) == \E i \in DOMAIN cache : cache[i].key = key

Place(key) == CHOOSE i \in DOMAIN cache : cache[i].key = key

Cached(key) == cache[Place(key)]

Without(key) == IF Holds(key) THEN RemoveAt(cache, Place(key)) ELSE cache

Touched(key) == Append(Without(key), Cached(key))

(* As if an entry that is there were kept.                                 *)
SetCachedOnce(answer) ==
  IF Holds(answer.key) THEN cache
  ELSE Append(IF Len(cache) >= MaxEntries THEN Tail(cache) ELSE cache, answer)

(* Room is made whenever the cache is full, for a key it holds too; the    *)
(* entry of a known key keeps its place.                                   *)
SetCached(answer) ==
  LET room == IF Len(cache) >= MaxEntries THEN Tail(cache) ELSE cache
      known == \E i \in DOMAIN room : room[i].key = answer.key
  IN IF known
       THEN [i \in DOMAIN room |->
               IF room[i].key = answer.key THEN answer ELSE room[i]]
       ELSE Append(room, answer)

-----------------------------------------------------------------------------
(* The definition the page renders from, kept while another is loading.    *)
Loaded == fetch.data # None /\ page \in Ids

DecodeFilters(defaults) == IF search # None THEN search ELSE defaults

Wanted == IF Loaded THEN DecodeFilters(DefaultOf[fetch.data.of]) ELSE HookDefault

Key == <<page, Wanted>>

(* The report is on the screen, not a spinner or an error.                 *)
OnScreen == Loaded /\ ~fetch.loading

SeenNow(answer) ==
  IF answer.key = Watched /\ answer.at > seen THEN answer.at ELSE seen

(* As if the run that is out were still waited for.                        *)
ShowCachedLoading(deps) ==
  LET answer == Cached(Key)
  IN /\ query' = [query EXCEPT !.data = answer, !.latest = Key, !.deps = deps]
     /\ cache' = Touched(Key)
     /\ seen' = SeenNow(answer)
     /\ UNCHANGED <<posts, twice>>

(* run of use-report-query.ts: a cached answer is shown at once ...        *)
ShowCached(deps) ==
  LET answer == Cached(Key)
  IN /\ query' = [loading |-> FALSE, data |-> answer, latest |-> Key, deps |-> deps]
     /\ cache' = Touched(Key)
     /\ seen' = SeenNow(answer)
     /\ UNCHANGED <<posts, twice>>

(* ... and otherwise the gateway is asked, the old answer staying shown.   *)
Post(deps) ==
  /\ query' = [query EXCEPT !.loading = TRUE, !.latest = Key, !.deps = deps]
  /\ \E r \in Runs :
       /\ \A p \in posts : p.slot # r
       /\ posts' = posts \cup {[slot |-> r, mine |-> TRUE, key |-> Key, answer |-> None]}
  /\ twice' = (twice \/ (Key = Watched /\ \E p \in posts : p.key = Key))
  /\ UNCHANGED seen

Run(deps) ==
  \/ Holds(Key) /\ ShowCached(deps)
  \/ Post(deps) /\ cache' = Without(Key)

-----------------------------------------------------------------------------
(* The effects of the last render: each runs when its inputs have changed. *)
LoadInputs == <<page, url>>
RunInputs == <<page, Wanted>>

LoadDue == page # Builder /\ fetch.deps # LoadInputs
RunDue == page \in Ids /\ IsConfigured /\ query.deps # RunInputs

EffectsDue == LoadDue \/ RunDue

(* load of use-gateway-fetch.ts                                            *)
Load ==
  CASE url = "discovering" ->
         fetch' = [fetch EXCEPT !.deps = LoadInputs] /\ UNCHANGED gets
    [] IsConfigured ->
         /\ fetch' = [fetch EXCEPT !.loading = TRUE, !.latest = page, !.deps = LoadInputs]
         /\ gets' = Append(gets, page)
    [] OTHER ->
         /\ fetch' = [fetch EXCEPT !.loading = FALSE, !.data = None, !.deps = LoadInputs]
         /\ UNCHANGED gets

Effects ==
  /\ EffectsDue
  /\ IF LoadDue THEN Load ELSE UNCHANGED <<fetch, gets>>
  /\ IF RunDue THEN Run(RunInputs)
               ELSE UNCHANGED <<query, posts, cache, seen, twice>>
  /\ UNCHANGED <<shellVars, search>>

(* The refresh button: refetch, around the cache of the tab                *)
Refresh ==
  /\ ~EffectsDue
  /\ Click
  /\ OnScreen /\ IsConfigured
  /\ Post(query.deps)
  /\ UNCHANGED <<platformVars, url, page, search, fetch, gets, cache>>

-----------------------------------------------------------------------------
(* As if no answer were superseded.                                        *)
ReturnAny(i, data) ==
  /\ ~EffectsDue
  /\ fetch' = [fetch EXCEPT !.loading = FALSE, !.data = data]
  /\ gets' = RemoveAt(gets, i)
  /\ UNCHANGED <<platformVars, tabVars, search, query, posts, cache, seen, twice>>

AcceptedAll(post) == TRUE

(* The calls.  A call fails on the way, when the gateway fails, and for a  *)
(* report it does not know; a superseded answer, or failure, is dropped.   *)
(* The answer of a read is that of the moment it comes back.               *)
Return(i, data) ==
  /\ ~EffectsDue
  /\ fetch' = IF gets[i] # fetch.latest THEN fetch
              ELSE [fetch EXCEPT !.loading = FALSE, !.data = data]
  /\ gets' = RemoveAt(gets, i)
  /\ UNCHANGED <<platformVars, tabVars, search, query, posts, cache, seen, twice>>

AnswerGet(i) ==
  \E readable \in BOOLEAN :
    /\ Fault(readable)
    /\ IF gets[i] = Catalogue THEN Return(i, ListAnswer(readable))
       ELSE IF Known(gets[i], readable)
         THEN Return(i, DefinitionAnswer(gets[i], readable))
         ELSE Return(i, None)

FailGet(i) == Fault(FALSE) /\ Return(i, None)

ServePost(p) ==
  /\ p.answer = None
  /\ \E readable \in BOOLEAN :
       /\ Fault(readable)
       /\ posts' = (posts \ {p}) \cup
                     {[p EXCEPT !.answer = IF Known(p.key[1], readable)
                                             THEN RunAnswer(p.key, readable)
                                             ELSE Unknown]}
  /\ UNCHANGED <<platformVars, tabVars, search, fetch, gets, query, cache, seen, twice>>

(* A viewer that was left has kept its own latest key; its state is gone,  *)
(* but it still writes the cache.                                          *)
Accepted(post) == post.mine => post.key = query.latest

AnswerPost(p) ==
  /\ p.answer \notin {None, Unknown}
  /\ cache' = IF Accepted(p) THEN SetCached(p.answer) ELSE cache
  /\ IF p.mine /\ Accepted(p)
       THEN /\ query' = [query EXCEPT !.loading = FALSE, !.data = p.answer]
            /\ seen' = SeenNow(p.answer)
       ELSE UNCHANGED <<query, seen>>
  /\ posts' = posts \ {p}
  /\ UNCHANGED <<shellVars, search, fetch, gets, twice>>

FailPost(p) ==
  /\ Fault(p.answer = Unknown)
  /\ query' = IF p.mine /\ Accepted(p)
               THEN [query EXCEPT !.loading = FALSE, !.data = None] ELSE query
  /\ posts' = posts \ {p}
  /\ UNCHANGED <<platformVars, tabVars, search, fetch, gets, cache, seen, twice>>

-----------------------------------------------------------------------------
(* The filter bar replaces the filters in the URL.                         *)
PatchFilters(filters) ==
  /\ ~EffectsDue
  /\ OnScreen
  /\ Click
  /\ filters # Wanted
  /\ search' = filters
  /\ UNCHANGED <<platformVars, url, page, hookVars>>

(* A viewer that is left behind keeps only the runs it would still accept. *)
Left == {p \in posts : Accepted(p)}
Orphans == {[p EXCEPT !.mine = FALSE] : p \in Left}

(* Another page, by a link, a bookmark or the browser's history.  From one *)
(* report to another the viewer stays mounted.                             *)
Navigate(to, filters) ==
  /\ ~EffectsDue
  /\ Click
  /\ to # page
  /\ page' = to
  /\ search' = filters
  /\ IF {page, to} \subseteq Ids
       THEN UNCHANGED <<url, fetch, gets, query, posts>>
       ELSE /\ url' = IF url = "failed" THEN "discovering" ELSE url
            /\ fetch' = FreshFetch /\ gets' = <<>>
            /\ query' = FreshQuery /\ posts' = Orphans
  /\ UNCHANGED <<platformVars, cache, seen, twice>>

(* The browser reloads the page: the tab forgets everything but the URL.   *)
Reload ==
  /\ Click
  /\ url' = "discovering"
  /\ fetch' = FreshFetch /\ gets' = <<>>
  /\ query' = FreshQuery /\ posts' = {}
  /\ cache' = <<>>
  /\ seen' = 0 /\ twice' = FALSE
  /\ UNCHANGED <<platformVars, page, search>>
=============================================================================
