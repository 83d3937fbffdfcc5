------------------------------ MODULE ReportRun ------------------------------
(***************************************************************************)
(* The gateway running reports: the registry of data sources               *)
(* (registry/registry.ts), the run of a report (routes/index.ts,           *)
(* run-report.ts) and the cache of tile results (cache/memory.ts).         *)
(*                                                                         *)
(* The registry's container is reduced to a version that grows when a      *)
(* connector registers or leaves; the sources of a snapshot are the        *)
(* version it read.  Requests run concurrently and interleave at every     *)
(* await.  A request is followed for one tile.  Which source serves which  *)
(* metric is a function of the snapshot; what the sources answer is left   *)
(* open.                                                                   *)
(*                                                                         *)
(* The millisecond loadedAt of a snapshot has two uses, kept apart here:   *)
(* its age in ticks is compared, and as part of a cache key it tells loads *)
(* apart (stamp).                                                          *)
(***************************************************************************)
EXTENDS Integers, Sequences, FiniteSets, SequencesExt

CONSTANTS
  Runs,       \* slots: requests handled at one time
  Tiles,      \* the tiles asked for, with everything else in the request
  Sealed,     \* the tiles whose range ends before the sealed boundary
  Compared,   \* the tiles shown with a comparison range
  Selection,  \* Selection[v]: the assignment of metrics to sources under
              \* snapshot v; 0 when the tile cannot be rendered
  Refresh,    \* REFRESH_MS
  SealedTTL, HotTTL, PartialTTL,
  StaleFor,   \* staleWhileRevalidateSeconds
  MaxEntries, \* of the cache
  MaxTime,    \* bound: ticks
  MaxVersion, \* bound: versions of the container
  MaxRequests,\* bound: requests
  MaxFaults   \* bound: registry reads that fail, and capability errors

ASSUME TimeAssumption ==
  /\ {SealedTTL, HotTTL, PartialTTL, StaleFor} \subseteq Nat
  /\ Refresh \in Nat \ {0} /\ MaxTime \in Nat \ {0}
ASSUME BoundAssumption ==
  /\ MaxEntries \in Nat \ {0} /\ MaxVersion \in Nat \ {0}
  /\ MaxRequests \in Nat /\ MaxFaults \in Nat
ASSUME TileAssumption ==
  Tiles # {} /\ Sealed \subseteq Tiles /\ Compared \subseteq Tiles

ASSUME SelectionAssumption == Selection \in [0..MaxVersion -> Nat]

VARIABLES
  now,
  container, \* the version of the stored descriptors
  until,     \* history: until[v], when version v was replaced
  current,   \* RegistryCache.current
  load,      \* RegistryCache.inFlight
  stamps,    \* the number of loads begun
  run,       \* run[r]: the request in slot r
  cache,     \* MemoryCache: its entries, the least recently used first
  requests, faults

registryVars == <<current, load, stamps>>
worldVars == <<now, container, until, faults>>
vars == <<registryVars, worldVars, run, cache, requests>>

Time == 1..MaxTime
Never == 0  \* loadedAt of a registry that was never loaded, or invalidated
Versions == 0..MaxVersion  \* 0: no sources known

Snapshot == [sources : Versions, loadedAt : Time \cup {Never}, stamp : Nat]

(* What a request takes from a snapshot.                                   *)
Answer == [sources : Versions, stamp : Nat]
NoAnswer == [sources |-> 0, stamp |-> -1]
AnswerOf(snapshot) == [sources |-> snapshot.sources, stamp |-> snapshot.stamp]

(* read: what the pages held, -1 before they were read                     *)
NoLoad == [since |-> Never, stamp |-> 0, read |-> -1]
Load == [since : Time \cup {Never}, stamp : Nat, read : Versions \cup {-1}]

Loading == load.since # Never

Tile ==
  [sources : Versions,  \* of the snapshot the tile was planned on
   straddled : BOOLEAN] \* history: the key names another snapshot

Key == [tile : Tiles, selection : Nat, registryVersion : Nat]

Entry == [key : Key, value : Tile, expiresAt : Nat, staleUntil : Nat]

(* Where a request is: at its first registry.get, at the epoch, at its     *)
(* second registry.get, at the sources, at the reload after a capability   *)
(* error, at the sources for the comparison.                               *)
Phases ==
  {"idle", "snapshot", "epoch", "version", "primary", "reload", "compare"}

Run ==
  [pc : Phases,
   tile : Tiles,
   awaited : Answer \cup {NoAnswer}, \* the answer of registry.get
   plan : Answer \cup {NoAnswer},    \* the sources planned on
   version : Nat,                    \* deps.registryVersion
   outcome : {"ok", "gap", "none"},  \* of the sources
   comparing : BOOLEAN,              \* the reload belongs to the comparison
   wanted : Versions,  \* history: the container when the reload was asked for
   excused : BOOLEAN]  \* history: the reload joined a load, or failed

Idle ==
  [pc |-> "idle", tile |-> CHOOSE t \in Tiles : TRUE, awaited |-> NoAnswer,
   plan |-> NoAnswer, version |-> 0, outcome |-> "ok", comparing |-> FALSE,
   wanted |-> 0, excused |-> FALSE]

TypeOK ==
  /\ now \in Time
  /\ container \in 1..MaxVersion
  /\ until \in [1..MaxVersion -> Time]
  /\ current \in Snapshot
  /\ load \in Load
  /\ stamps \in Nat
  /\ run \in [Runs -> Run]
  /\ cache \in Seq(Entry) /\ Len(cache) <= MaxEntries
  /\ requests \in 0..MaxRequests
  /\ faults \in 0..MaxFaults

Init ==
  /\ now = 1
  /\ container = 1
  /\ until = [v \in 1..MaxVersion |-> 1]
  /\ current = [sources |-> 0, loadedAt |-> Never, stamp |-> 0]
  /\ load = NoLoad
  /\ stamps = 0
  /\ run = [r \in Runs |-> Idle]
  /\ cache = <<>>
  /\ requests = 0
  /\ faults = 0

-----------------------------------------------------------------------------
(* RegistryCache                                                           *)

Fresh(snapshot) ==
  snapshot.loadedAt # Never /\ now - snapshot.loadedAt < Refresh

BeginLoad ==
  /\ load' = [since |-> now, stamp |-> stamps + 1, read |-> -1]
  /\ stamps' = stamps + 1

(* get(), called by run r, which goes on as rec: the current snapshot      *)
(* while it is fresh, else the answer of the load in flight, else of a new *)
(* one.                                                                    *)
Get(r, rec) ==
  \/ /\ Fresh(current)
     /\ run' = [run EXCEPT ![r] = [rec EXCEPT !.awaited = AnswerOf(current)]]
     /\ UNCHANGED registryVars
  \/ /\ ~Fresh(current)
     /\ run' = [run EXCEPT ![r] = [rec EXCEPT !.awaited = NoAnswer]]
     /\ IF Loading THEN UNCHANGED <<load, stamps>> ELSE BeginLoad
     /\ UNCHANGED current

(* invalidate(): the current snapshot is no longer fresh; get() is called  *)
(* in the same step.                                                       *)
InvalidateNothing(r, rec) ==
  Get(r, [rec EXCEPT !.wanted = container, !.excused = Loading])

InvalidateAndForget(r, rec) ==
  /\ current' = [sources |-> 0, loadedAt |-> Never, stamp |-> 0]
  /\ run' = [run EXCEPT ![r] =
               [rec EXCEPT !.awaited = NoAnswer, !.wanted = container,
                           !.excused = Loading]]
  /\ IF Loading THEN UNCHANGED <<load, stamps>> ELSE BeginLoad

Invalidate(r, rec) ==
  /\ current' = [current EXCEPT !.loadedAt = Never, !.stamp = 0]
  /\ run' = [run EXCEPT ![r] =
               [rec EXCEPT !.awaited = NoAnswer, !.wanted = container,
                           !.excused = Loading]]
  /\ IF Loading THEN UNCHANGED <<load, stamps>> ELSE BeginLoad

Waiting(r) ==
  run[r].pc \in {"snapshot", "version", "reload"} /\ run[r].awaited = NoAnswer

AnswerNobody(snapshot, failed) == UNCHANGED run

AnswerWaiting(snapshot, failed) ==
  run' = [r \in Runs |->
            IF Waiting(r)
              THEN [run[r] EXCEPT !.awaited = AnswerOf(snapshot),
                                  !.excused = @ \/ failed]
              ELSE run[r]]

LoadReads ==
  /\ Loading /\ load.read = -1
  /\ load' = [load EXCEPT !.read = container]
  /\ UNCHANGED <<current, stamps, worldVars, run, cache, requests>>

LoadedAtEnd == [sources |-> load.read, loadedAt |-> now, stamp |-> load.stamp]

Loaded == [sources |-> load.read, loadedAt |-> load.since, stamp |-> load.stamp]

LoadEnds ==
  /\ Loading /\ load.read # -1
  /\ current' = Loaded
  /\ load' = NoLoad
  /\ AnswerWaiting(Loaded, FALSE)
  /\ UNCHANGED <<stamps, worldVars, cache, requests>>

(* A failing read serves the previous snapshot, however old.               *)
LoadFails ==
  /\ Loading
  /\ faults < MaxFaults
  /\ faults' = faults + 1
  /\ load' = NoLoad
  /\ AnswerWaiting(current, TRUE)
  /\ UNCHANGED <<current, stamps, now, container, until, cache, requests>>

-----------------------------------------------------------------------------
(* MemoryCache                                                             *)

Position(k) ==
  IF \E i \in DOMAIN cache : cache[i].key = k
    THEN CHOOSE i \in DOMAIN cache : cache[i].key = k
    ELSE 0

Expired(e) == now >= e.expiresAt

Forgotten(e) == now >= e.staleUntil

Without(k) ==
  IF Position(k) = 0 THEN cache ELSE RemoveAt(cache, Position(k))

(* get: an entry past its stale period goes, any other becomes the most    *)
(* recently used.                                                          *)
AfterGet(k) ==
  LET i == Position(k)
  IN  IF i = 0 THEN cache
      ELSE IF Forgotten(cache[i]) THEN Without(k)
      ELSE Append(Without(k), cache[i])

Hit(k) == Position(k) # 0 /\ ~Expired(cache[Position(k)])

(* set: at the limit the least recently used entry makes room.             *)
AfterSet(e) ==
  IF Position(e.key) = 0 /\ Len(cache) >= MaxEntries
    THEN Append(Tail(cache), e)
    ELSE Append(Without(e.key), e)

-----------------------------------------------------------------------------
(* A request                                                               *)

Request(r) ==
  /\ run[r].pc = "idle"
  /\ requests < MaxRequests
  /\ requests' = requests + 1
  /\ \E t \in Tiles : Get(r, [Idle EXCEPT !.pc = "snapshot", !.tile = t])
  /\ UNCHANGED <<worldVars, cache>>

Awaited(r, phase) == run[r].pc = phase /\ run[r].awaited # NoAnswer

(* The sources to plan on are known; the epoch is read next.               *)
HaveSources(r) ==
  /\ Awaited(r, "snapshot")
  /\ run' = [run EXCEPT ![r].pc = "epoch", ![r].plan = run[r].awaited,
                        ![r].awaited = NoAnswer]
  /\ UNCHANGED <<registryVars, worldVars, cache, requests>>

(* registryVersion is taken from a second get, after the epoch.            *)
HaveEpoch(r) ==
  /\ run[r].pc = "epoch"
  /\ Get(r, [run[r] EXCEPT !.pc = "version"])
  /\ UNCHANGED <<worldVars, cache, requests>>

KeyWithoutRegistry(r, version) ==
  [tile |-> run[r].tile, selection |-> Selection[run[r].plan.sources],
   registryVersion |-> 1]

CacheKey(r, version) ==
  [tile |-> run[r].tile, selection |-> Selection[run[r].plan.sources],
   registryVersion |-> version]

Renderable(r) == Selection[run[r].plan.sources] # 0

(* A tile that is cached, or cannot be rendered, asks no source.           *)
StartTile(r) ==
  LET key == CacheKey(r, run[r].awaited.stamp)
  IN  /\ Awaited(r, "version")
      /\ cache' = AfterGet(key)
      /\ run' = [run EXCEPT ![r] =
                   IF Hit(key) \/ ~Renderable(r) THEN Idle
                   ELSE [@ EXCEPT !.pc = "primary", !.version = run[r].awaited.stamp,
                                  !.awaited = NoAnswer]]
      /\ UNCHANGED <<registryVars, worldVars, requests>>

Ttl(rec) ==
  LET ttl == IF rec.tile \in Sealed THEN SealedTTL ELSE HotTTL
  IN  IF rec.outcome = "gap" /\ PartialTTL < ttl THEN PartialTTL ELSE ttl

Result(r, rec) ==
  [key |-> CacheKey(r, rec.version),
   value |-> [sources |-> rec.plan.sources,
              straddled |-> rec.plan.stamp # rec.version],
   expiresAt |-> now + Ttl(rec),
   staleUntil |-> now + Ttl(rec) + StaleFor]

(* What follows a fetch: nothing when no source answered for the tile's    *)
(* own range; else the comparison, whose gaps nothing records; else the    *)
(* result is cached and answered.                                          *)
Proceed(r, rec) ==
  \/ /\ rec.outcome = "none"
     /\ run' = [run EXCEPT ![r] = Idle]
     /\ UNCHANGED cache
  \/ /\ rec.outcome # "none" /\ ~rec.comparing /\ rec.tile \in Compared
     /\ run' = [run EXCEPT ![r] = [rec EXCEPT !.pc = "compare",
                                              !.comparing = TRUE]]
     /\ UNCHANGED cache
  \/ /\ rec.outcome # "none" /\ (rec.comparing \/ rec.tile \notin Compared)
     /\ run' = [run EXCEPT ![r] = Idle]
     /\ cache' = AfterSet(Result(r, rec))

(* The sources answered, each in full, in part, or not at all.             *)
PrimaryAnswered(r) ==
  /\ run[r].pc = "primary"
  /\ \E o \in {"ok", "gap", "none"} : Proceed(r, [run[r] EXCEPT !.outcome = o])
  /\ UNCHANGED <<registryVars, worldVars, requests>>

ComparisonAnswered(r) ==
  /\ run[r].pc = "compare"
  /\ Proceed(r, run[r])
  /\ UNCHANGED <<registryVars, worldVars, requests>>

(* A source answered with a capability error: the planner acted on a stale *)
(* descriptor, and the request waits for the registry to be reloaded.      *)
CapabilityError(r) ==
  /\ faults < MaxFaults
  /\ faults' = faults + 1
  /\ \/ /\ run[r].pc = "primary"
        /\ \E o \in {"gap", "none"} :
             Invalidate(r, [run[r] EXCEPT !.outcome = o, !.pc = "reload"])
     \/ /\ run[r].pc = "compare"
        /\ Invalidate(r, [run[r] EXCEPT !.pc = "reload"])
  /\ UNCHANGED <<now, container, until, cache, requests>>

Reloaded(r) ==
  /\ Awaited(r, "reload")
  /\ Proceed(r, [run[r] EXCEPT !.awaited = NoAnswer, !.wanted = 0,
                               !.excused = FALSE])
  /\ UNCHANGED <<registryVars, worldVars, requests>>

-----------------------------------------------------------------------------
(* A connector registers, changes its descriptor, or is removed.           *)
Register ==
  /\ container < MaxVersion
  /\ container' = container + 1
  /\ until' = [until EXCEPT ![container] = now]
  /\ UNCHANGED <<registryVars, now, faults, run, cache, requests>>

Tick ==
  /\ now < MaxTime
  /\ now' = now + 1
  /\ UNCHANGED <<registryVars, container, until, faults, run, cache, requests>>

Advance(r) ==
  \/ HaveSources(r)
  \/ HaveEpoch(r)
  \/ StartTile(r)
  \/ PrimaryAnswered(r)
  \/ ComparisonAnswered(r)
  \/ CapabilityError(r)
  \/ Reloaded(r)

LoadAdvances == LoadReads \/ LoadEnds \/ LoadFails

Next ==
  \/ LoadAdvances
  \/ \E r \in Runs : Request(r) \/ Advance(r)
  \/ Register
  \/ Tick

Spec == Init /\ [][Next]_vars

(* Every await is answered: sources within the abort timer, the object     *)
(* store with a page or an error.                                          *)
Fairness == WF_vars(LoadAdvances) /\ \A r \in Runs : WF_vars(Advance(r))

FairSpec == Spec /\ Fairness

-----------------------------------------------------------------------------
(* Properties.                                                             *)

(* A snapshot that get() answers without a load was what the container     *)
(* held less than Refresh ago, although its pages were read some time      *)
(* after loadedAt and arrived some time after that.                        *)
SnapshotIsRecent ==
  Fresh(current) =>
    \/ current.sources = container
    \/ until[current.sources] > now - Refresh

(* A cached tile is served to a request that planned on the same           *)
(* descriptors.  The exceptions are the two ways the code has to file a    *)
(* tile under a snapshot it was not planned on: a reload between the two   *)
(* calls of registry.get, and an invalidated snapshot that a failing       *)
(* reload serves on, whose version is "0" whatever it holds.               *)
HitPlannedAlike ==
  \A r \in Runs :
    LET version == run[r].awaited.stamp
        key == CacheKey(r, version)
    IN  Awaited(r, "version") /\ Hit(key) =>
          \/ cache[Position(key)].value.sources = run[r].plan.sources
          \/ cache[Position(key)].value.straddled
          \/ run[r].plan.stamp # version
          \/ version = 0

(* After a capability error the registry is at least as new as when the    *)
(* error arrived, unless a load was already in flight, which is joined, or *)
(* the reload failed.                                                      *)
ReloadIsCurrent ==
  \A r \in Runs :
    Awaited(r, "reload") /\ ~run[r].excused =>
      run[r].awaited.sources >= run[r].wanted

(* What a request learns of the sources later on, from its second          *)
(* registry.get or from a reload, is never older than what it planned on:  *)
(* also when the reload joins a load begun before the capability error,    *)
(* and when it fails and the previous snapshot is served, which another    *)
(* request may have invalidated meanwhile.                                 *)
RegistryNeverGoesBack ==
  \A r \in Runs :
    run[r].awaited # NoAnswer =>
      run[r].awaited.sources >= run[r].plan.sources

(* A request waits for the registry only while a load is in flight that    *)
(* will answer it.                                                         *)
WaitersHaveALoad == \A r \in Runs : Waiting(r) => Loading

(* Every request is answered, whatever it waits for, and although requests *)
(* wait for each other's loads.                                            *)
RequestsAreAnswered ==
  \A r \in Runs : (run[r].pc # "idle") ~> (run[r].pc = "idle")
=============================================================================
