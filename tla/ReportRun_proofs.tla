--------------------------- MODULE ReportRun_proofs ---------------------------
(***************************************************************************)
(* The registry and the tile cache, for any number of concurrent requests, *)
(* any TTLs and cache size, and every interleaving of loads, invalidations *)
(* and failing reads with them.                                            *)
(***************************************************************************)
EXTENDS ReportRun, TLAPS

USE DEF Never, Loading

-----------------------------------------------------------------------------
(* The cache as a sequence: what get and set leave in it.                  *)

LEMMA PositionHolds ==
  ASSUME NEW k
  PROVE  /\ Position(k) # 0 => /\ Position(k) \in DOMAIN cache
                               /\ cache[Position(k)].key = k
BY DEF Position

LEMMA RemoveAtIsPart ==
  ASSUME NEW S, NEW s \in Seq(S), NEW i \in 1..Len(s)
  PROVE  /\ RemoveAt(s, i) \in Seq(S)
         /\ Len(RemoveAt(s, i)) = Len(s) - 1
         /\ \A j \in 1..(Len(s) - 1) :
              \E m \in 1..Len(s) : RemoveAt(s, i)[j] = s[m]
<1> DEFINE n == Len(s)
           a == SubSeq(s, 1, i - 1)
           b == SubSeq(s, i + 1, n)
           r == a \o b
<1>1. n \in Nat /\ i \in Int /\ 1 <= i /\ i <= n
  OBVIOUS
<1>2. a \in Seq(S) /\ Len(a) = i - 1
  BY <1>1
<1>3. b \in Seq(S) /\ Len(b) = n - i
  BY <1>1
<1>4. \A j \in 1..(i - 1) : a[j] = s[j]
  BY <1>1
<1>5. \A j \in 1..(n - i) : b[j] = s[j + i]
  BY <1>1
<1> HIDE DEF a, b, n
<1>6. r \in Seq(S) /\ Len(r) = n - 1
  BY <1>1, <1>2, <1>3
<1>7. \A j \in 1..(i - 1) : r[j] = a[j]
  BY <1>1, <1>2, <1>3
<1>8. \A j \in i..(n - 1) : r[j] = b[j - (i - 1)]
  BY <1>1, <1>2, <1>3
<1> HIDE DEF r
<1>9. ASSUME NEW j \in 1..(n - 1)
      PROVE  \E m \in 1..n : r[j] = s[m]
  <2>1. CASE j <= i - 1
    <3>1. j \in 1..(i - 1) /\ j \in 1..n
      BY <1>1, <2>1
    <3>2. r[j] = s[j]
      BY <3>1, <1>4, <1>7
    <3> QED
      BY <3>1, <3>2
  <2>2. CASE i <= j
    <3>1. /\ j \in i..(n - 1)
          /\ j - (i - 1) \in 1..(n - i)
          /\ j - (i - 1) + i = j + 1
          /\ j + 1 \in 1..n
      BY <1>1, <2>2
    <3>2. r[j] = s[j + 1]
      BY <3>1, <1>5, <1>8
    <3> QED
      BY <3>1, <3>2
  <2> QED
    BY <1>1, <2>1, <2>2
<1>10. RemoveAt(s, i) = r
  BY DEF RemoveAt, r, a, b, n
<1> QED
  BY <1>6, <1>9, <1>10 DEF n

(* Everything in the sequence was in the cache before, or is e.            *)
OnlyAdds(seq, e) ==
  \A i \in 1..Len(seq) :
    seq[i] = e \/ \E j \in 1..Len(cache) : seq[i] = cache[j]

LEMMA WithoutIsPart ==
  ASSUME cache \in Seq(Entry), NEW k, NEW e
  PROVE  /\ Without(k) \in Seq(Entry)
         /\ Len(Without(k)) = IF Position(k) = 0 THEN Len(cache) ELSE Len(cache) - 1
         /\ OnlyAdds(Without(k), e)
<1>1. CASE Position(k) = 0
  BY <1>1 DEF Without, OnlyAdds
<1>2. CASE Position(k) # 0
  <2> DEFINE i == Position(k)
             s == RemoveAt(cache, i)
  <2>1. i \in 1..Len(cache)
    BY <1>2, PositionHolds
  <2>2. /\ s \in Seq(Entry)
        /\ Len(s) = Len(cache) - 1
        /\ \A j \in 1..(Len(cache) - 1) :
             \E m \in 1..Len(cache) : s[j] = cache[m]
    <3> HIDE DEF i
    <3> QED
      BY <2>1, RemoveAtIsPart
  <2>3. Without(k) = s
    BY <1>2 DEF Without
  <2> HIDE DEF s, i
  <2>4. OnlyAdds(s, e)
    BY <2>2 DEF OnlyAdds
  <2> QED
    BY <1>2, <2>2, <2>3, <2>4
<1> QED
  BY <1>1, <1>2

LEMMA AppendAdds ==
  ASSUME NEW seq \in Seq(Entry), NEW e \in Entry, OnlyAdds(seq, e)
  PROVE  /\ Append(seq, e) \in Seq(Entry)
         /\ Len(Append(seq, e)) = Len(seq) + 1
         /\ OnlyAdds(Append(seq, e), e)
BY DEF OnlyAdds

LEMMA AfterGetIsPart ==
  ASSUME TypeOK, NEW k, NEW e
  PROVE  /\ AfterGet(k) \in Seq(Entry)
         /\ Len(AfterGet(k)) <= MaxEntries
         /\ \A i \in 1..Len(AfterGet(k)) :
              \E j \in 1..Len(cache) : AfterGet(k)[i] = cache[j]
<1>1. cache \in Seq(Entry) /\ Len(cache) <= MaxEntries
  BY DEF TypeOK
<1> DEFINE p == Position(k)
<1>2. CASE p = 0
  BY <1>1, <1>2 DEF AfterGet
<1>3. CASE p # 0
  <2>1. p \in 1..Len(cache)
    BY <1>3, PositionHolds
  <2>2. cache[p] \in Entry
    BY <1>1, <2>1
  <2>3. /\ Without(k) \in Seq(Entry)
        /\ Len(Without(k)) = Len(cache) - 1
        /\ OnlyAdds(Without(k), cache[p])
    BY <1>1, <1>3, WithoutIsPart
  <2>4. AfterGet(k) = Without(k) \/ AfterGet(k) = Append(Without(k), cache[p])
    BY <1>3 DEF AfterGet
  <2>5. /\ Append(Without(k), cache[p]) \in Seq(Entry)
        /\ Len(Append(Without(k), cache[p])) = Len(cache)
        /\ OnlyAdds(Append(Without(k), cache[p]), cache[p])
    BY <1>1, <2>2, <2>3, AppendAdds
  <2>6. MaxEntries \in Nat
    BY BoundAssumption
  <2>7. CASE AfterGet(k) = Without(k)
    BY <1>1, <2>1, <2>3, <2>6, <2>7 DEF OnlyAdds
  <2>8. CASE AfterGet(k) = Append(Without(k), cache[p])
    BY <1>1, <2>1, <2>5, <2>6, <2>8 DEF OnlyAdds
  <2> QED
    BY <2>4, <2>7, <2>8
<1> QED
  BY <1>2, <1>3

LEMMA AfterSetAdds ==
  ASSUME TypeOK, NEW e \in Entry
  PROVE  /\ AfterSet(e) \in Seq(Entry)
         /\ Len(AfterSet(e)) <= MaxEntries
         /\ OnlyAdds(AfterSet(e), e)
<1>1. /\ cache \in Seq(Entry) /\ Len(cache) <= MaxEntries
      /\ MaxEntries \in Nat \ {0}
  BY BoundAssumption DEF TypeOK
<1>2. CASE Position(e.key) = 0 /\ Len(cache) >= MaxEntries
  <2>1. /\ Tail(cache) \in Seq(Entry)
        /\ Len(Tail(cache)) = Len(cache) - 1
        /\ OnlyAdds(Tail(cache), e)
    BY <1>1, <1>2 DEF OnlyAdds
  <2>2. AfterSet(e) = Append(Tail(cache), e)
    BY <1>2 DEF AfterSet
  <2>3. /\ Append(Tail(cache), e) \in Seq(Entry)
        /\ Len(Append(Tail(cache), e)) = Len(Tail(cache)) + 1
        /\ OnlyAdds(Append(Tail(cache), e), e)
    BY <2>1, AppendAdds
  <2> QED
    BY <1>1, <2>1, <2>2, <2>3
<1>3. CASE ~(Position(e.key) = 0 /\ Len(cache) >= MaxEntries)
  <2>1. /\ Without(e.key) \in Seq(Entry)
        /\ Len(Without(e.key)) < MaxEntries
        /\ OnlyAdds(Without(e.key), e)
    BY <1>1, <1>3, WithoutIsPart
  <2>2. AfterSet(e) = Append(Without(e.key), e)
    BY <1>3 DEF AfterSet
  <2>3. /\ Append(Without(e.key), e) \in Seq(Entry)
        /\ Len(Append(Without(e.key), e)) = Len(Without(e.key)) + 1
        /\ OnlyAdds(Append(Without(e.key), e), e)
    BY <2>1, AppendAdds
  <2> QED
    BY <1>1, <2>1, <2>2, <2>3
<1> QED
  BY <1>2, <1>3

-----------------------------------------------------------------------------
(* Types.                                                                  *)

LEMMA Numbers ==
  /\ \A t \in Time : t \in Nat /\ t # Never
  /\ \A v \in Versions : v \in Nat
  /\ {SealedTTL, HotTTL, PartialTTL, StaleFor, MaxVersion, MaxTime} \subseteq Nat
BY TimeAssumption, BoundAssumption DEF Time, Versions

LEMMA IdleIsRun == Idle \in Run
<1>1. Idle.tile \in Tiles
  BY TileAssumption DEF Idle
<1>2. NoAnswer \in Answer \cup {NoAnswer} /\ 0 \in Nat /\ 0 \in Versions
  BY BoundAssumption DEF Versions
<1> QED
  BY <1>1, <1>2 DEF Idle, Run, Phases

LEMMA AnswerTyped ==
  ASSUME NEW s \in Snapshot
  PROVE  AnswerOf(s) \in Answer /\ AnswerOf(s) # NoAnswer
BY DEF Snapshot, AnswerOf, Answer, NoAnswer

LEMMA LoadedTyped ==
  ASSUME load \in Load, Loading, load.read # -1
  PROVE  Loaded \in Snapshot
BY DEF Load, Loaded, Snapshot

LEMMA BeginLoadTyped ==
  ASSUME TypeOK, BeginLoad
  PROVE  /\ load' \in Load /\ stamps' \in Nat
         /\ load'.since = now /\ load'.read = -1 /\ load'.stamp = stamps'
         /\ stamps' = stamps + 1 /\ now # Never
BY Numbers DEF TypeOK, BeginLoad, Load

(* Both ways to ask for the registry leave a typed run of the caller,      *)
(* which waits exactly when a load is in flight for it.                    *)
LEMMA GetTyped ==
  ASSUME TypeOK, NEW r \in Runs, NEW rec \in Run, Get(r, rec)
  PROVE  \E a \in Answer \cup {NoAnswer} :
           LET next == [rec EXCEPT !.awaited = a]
           IN  /\ run' = [run EXCEPT ![r] = next]
               /\ next \in Run /\ current' = current
               /\ \/ a = AnswerOf(current) /\ a # NoAnswer /\ UNCHANGED <<load, stamps>>
                  \/ a = NoAnswer /\ Loading /\ UNCHANGED <<load, stamps>>
                  \/ a = NoAnswer /\ ~Loading /\ BeginLoad
<1> DEFINE Next1(a) == [rec EXCEPT !.awaited = a]
<1>1. \A a \in Answer \cup {NoAnswer} : Next1(a) \in Run
  BY DEF Run
<1>2. AnswerOf(current) \in Answer /\ AnswerOf(current) # NoAnswer
  BY AnswerTyped DEF TypeOK
<1>3. CASE Fresh(current)
  BY <1>1, <1>2, <1>3 DEF Get, registryVars
<1>4. CASE ~Fresh(current)
  BY <1>1, <1>4 DEF Get, registryVars
<1> QED
  BY <1>3, <1>4

LEMMA InvalidateTyped ==
  ASSUME TypeOK, NEW r \in Runs, NEW rec \in Run, Invalidate(r, rec)
  PROVE  \E next \in Run :
           /\ run' = [run EXCEPT ![r] = next]
           /\ next.pc = rec.pc /\ next.plan = rec.plan /\ next.version = rec.version
           /\ next.awaited = NoAnswer /\ next.wanted = container
           /\ next.excused = Loading
           /\ current' \in Snapshot /\ current'.loadedAt = Never
           /\ current'.stamp = 0 /\ current'.sources = current.sources
           /\ \/ Loading /\ UNCHANGED <<load, stamps>>
              \/ ~Loading /\ BeginLoad
<1> DEFINE next == [rec EXCEPT !.awaited = NoAnswer, !.wanted = container,
                               !.excused = Loading]
<1>1. container \in Versions /\ Loading \in BOOLEAN
  BY BoundAssumption DEF TypeOK, Versions
<1>2. next \in Run
  BY <1>1 DEF Run
<1>3. /\ next.pc = rec.pc /\ next.plan = rec.plan /\ next.version = rec.version
      /\ next.awaited = NoAnswer /\ next.wanted = container
  BY DEF Run
<1>4. next.excused = Loading
  BY DEF Run
<1>5. /\ current' \in Snapshot /\ current'.loadedAt = Never
      /\ current'.stamp = 0 /\ current'.sources = current.sources
  BY DEF TypeOK, Invalidate, Snapshot
<1>6. run' = [run EXCEPT ![r] = next]
  BY DEF Invalidate
<1>7. \/ Loading /\ UNCHANGED <<load, stamps>>
      \/ ~Loading /\ BeginLoad
  BY DEF Invalidate
<1> HIDE DEF next
<1> QED
  BY <1>2, <1>3, <1>4, <1>5, <1>6, <1>7

Updates(r, next) ==
  /\ next \in Run
  /\ run' = [run EXCEPT ![r] = next]

LEMMA UpdateTyped ==
  ASSUME TypeOK, NEW r \in Runs, NEW next, Updates(r, next)
  PROVE  /\ run' \in [Runs -> Run]
         /\ run'[r] = next
         /\ \A x \in Runs \ {r} : run'[x] = run[x]
BY DEF Updates, TypeOK

(* What the end of a fetch leaves: a run that waits for no registry, and   *)
(* at most one new entry.                                                  *)
LEMMA ResultTyped ==
  ASSUME TypeOK, NEW r \in Runs, NEW rec \in Run, rec.tile = run[r].tile,
         rec.plan = run[r].plan
  PROVE  /\ Result(r, rec) \in Entry
         /\ Result(r, rec).key.registryVersion = rec.version
         /\ Result(r, rec).value.sources = rec.plan.sources
         /\ ~Result(r, rec).value.straddled => rec.plan.stamp = rec.version
<1>1. /\ rec.plan \in Answer \cup {NoAnswer} /\ rec.tile \in Tiles
      /\ rec.version \in Nat /\ run[r] \in Run
  BY DEF Run, TypeOK
<1>2. rec.plan.sources \in Versions
  BY <1>1, BoundAssumption DEF Answer, NoAnswer, Versions
<1>3. Selection[run[r].plan.sources] \in Nat
  BY <1>2, SelectionAssumption DEF Versions
<1>4. CacheKey(r, rec.version) \in Key
  BY <1>1, <1>3 DEF CacheKey, Key
<1> DEFINE tile == [sources |-> rec.plan.sources,
                    straddled |-> rec.plan.stamp # rec.version]
<1>5. tile \in Tile
  BY <1>2 DEF Tile, TypeOK
<1>6. Ttl(rec) \in Nat
  BY Numbers DEF Ttl
<1>7. now \in Nat
  BY Numbers DEF TypeOK
<1>8. now + Ttl(rec) \in Nat /\ now + Ttl(rec) + StaleFor \in Nat
  BY <1>6, <1>7, Numbers
<1>9. Result(r, rec) = [key |-> CacheKey(r, rec.version), value |-> tile,
                        expiresAt |-> now + Ttl(rec),
                        staleUntil |-> now + Ttl(rec) + StaleFor]
  BY DEF Result
<1>10. Result(r, rec) \in Entry
  <2> HIDE DEF tile
  <2> QED
    BY <1>4, <1>5, <1>8, <1>9 DEF Entry
<1>11. tile.sources = rec.plan.sources
  OBVIOUS
<1>12. ~tile.straddled => rec.plan.stamp = rec.version
  OBVIOUS
<1>13. Result(r, rec).value = tile
  BY <1>9
<1>14. Result(r, rec).key.registryVersion = rec.version
  BY <1>9 DEF CacheKey
<1> HIDE DEF tile
<1> QED
  BY <1>10, <1>11, <1>12, <1>13, <1>14

LEMMA ProceedTyped ==
  ASSUME TypeOK, NEW r \in Runs, NEW rec \in Run, rec.tile = run[r].tile,
         rec.plan = run[r].plan, Proceed(r, rec)
  PROVE  /\ \E next \in Run : /\ Updates(r, next)
                              /\ next.pc \in {"idle", "compare"}
                              /\ \/ next = Idle
                                 \/ next.plan = rec.plan /\ next.awaited = rec.awaited
         /\ \/ cache' = cache
            \/ cache' = AfterSet(Result(r, rec))
<1>1. CASE rec.outcome = "none"
  BY <1>1, IdleIsRun DEF Proceed, Updates, Idle
<1>2. CASE rec.outcome # "none" /\ ~rec.comparing /\ rec.tile \in Compared
  <2> DEFINE next == [rec EXCEPT !.pc = "compare", !.comparing = TRUE]
  <2>1. /\ next \in Run /\ next.pc = "compare" /\ next.plan = rec.plan
        /\ next.awaited = rec.awaited
    BY DEF Run, Phases
  <2>2. run' = [run EXCEPT ![r] = next] /\ cache' = cache
    BY <1>2 DEF Proceed
  <2> HIDE DEF next
  <2> QED
    BY <2>1, <2>2 DEF Updates
<1>3. CASE rec.outcome # "none" /\ (rec.comparing \/ rec.tile \notin Compared)
  BY <1>3, IdleIsRun DEF Proceed, Updates, Idle
<1> QED
  BY <1>1, <1>2, <1>3 DEF Proceed

-----------------------------------------------------------------------------
(* What a step of a request does, by what it asks of the registry.         *)

Asking == {"snapshot", "version"}

Quiet(r, next) ==
  /\ next.pc \notin Asking \cup {"reload"}
  /\ next.awaited \in {NoAnswer, run[r].awaited}
  /\ next.plan \in {NoAnswer, run[r].plan, run[r].awaited}
  /\ UNCHANGED <<current, load, stamps>>

Asks(r, next) ==
  /\ next.pc \in Asking
  /\ next.plan \in {NoAnswer, run[r].plan}
  /\ UNCHANGED current
  /\ \/ next.awaited = AnswerOf(current) /\ next.awaited # NoAnswer /\ UNCHANGED <<load, stamps>>
     \/ next.awaited = NoAnswer /\ Loading /\ UNCHANGED <<load, stamps>>
     \/ next.awaited = NoAnswer /\ ~Loading /\ BeginLoad

Reloads(r, next) ==
  /\ next.pc = "reload"
  /\ next.awaited = NoAnswer /\ next.wanted = container
  /\ next.excused = Loading
  /\ next.plan = run[r].plan
  /\ current' \in Snapshot /\ current'.loadedAt = Never
  /\ current'.stamp = 0 /\ current'.sources = current.sources
  /\ \/ Loading /\ UNCHANGED <<load, stamps>>
     \/ ~Loading /\ BeginLoad

Files(r, e) ==
  /\ e \in Entry
  /\ ~e.value.straddled => /\ e.key.registryVersion = run[r].plan.stamp
                           /\ e.value.sources = run[r].plan.sources

CacheStep(r) ==
  \/ cache' = cache
  \/ \E k : cache' = AfterGet(k)
  \/ \E e : Files(r, e) /\ cache' = AfterSet(e)

RequestStep(r, next) ==
  /\ Updates(r, next)
  /\ Quiet(r, next) \/ Asks(r, next) \/ Reloads(r, next)
  /\ CacheStep(r)
  /\ requests' \in 0..MaxRequests /\ faults' \in 0..MaxFaults
  /\ UNCHANGED <<now, container, until>>

LEMMA ProceedSteps ==
  ASSUME TypeOK, NEW r \in Runs, NEW rec \in Run, rec.tile = run[r].tile,
         rec.plan = run[r].plan, rec.awaited \in {NoAnswer, run[r].awaited},
         Proceed(r, rec), UNCHANGED <<registryVars, worldVars, requests>>
  PROVE  \E next : RequestStep(r, next)
<1>1. PICK next \in Run : /\ Updates(r, next)
                          /\ next.pc \in {"idle", "compare"}
                          /\ \/ next = Idle
                             \/ next.plan = rec.plan /\ next.awaited = rec.awaited
  BY ProceedTyped
<1>2. Quiet(r, next)
  BY <1>1 DEF Quiet, Asking, Idle, registryVars
<1>3. cache' = cache \/ cache' = AfterSet(Result(r, rec))
  BY ProceedTyped
<1>4. Files(r, Result(r, rec))
  BY ResultTyped DEF Files
<1>5. CacheStep(r)
  BY <1>3, <1>4 DEF CacheStep
<1> QED
  BY <1>1, <1>2, <1>5 DEF RequestStep, worldVars, TypeOK

LEMMA RequestSteps ==
  ASSUME TypeOK, NEW r \in Runs, Request(r) \/ Advance(r)
  PROVE  \E next : RequestStep(r, next)
<1>0. run[r] \in Run
  BY DEF TypeOK
<1>1. CASE Request(r)
  <2>1. PICK t \in Tiles : Get(r, [Idle EXCEPT !.pc = "snapshot", !.tile = t])
    BY <1>1 DEF Request
  <2> DEFINE rec == [Idle EXCEPT !.pc = "snapshot", !.tile = t]
  <2>2. rec \in Run /\ rec.pc = "snapshot" /\ rec.plan = NoAnswer
    BY IdleIsRun DEF Run, Phases, Idle
  <2> HIDE DEF rec
  <2>3. Get(r, rec)
    BY <2>1 DEF rec
  <2>4. PICK a \in Answer \cup {NoAnswer} :
          LET next == [rec EXCEPT !.awaited = a]
          IN  /\ run' = [run EXCEPT ![r] = next]
              /\ next \in Run /\ current' = current
              /\ \/ a = AnswerOf(current) /\ a # NoAnswer /\ UNCHANGED <<load, stamps>>
                 \/ a = NoAnswer /\ Loading /\ UNCHANGED <<load, stamps>>
                 \/ a = NoAnswer /\ ~Loading /\ BeginLoad
    BY <2>2, <2>3, GetTyped
  <2> DEFINE next == [rec EXCEPT !.awaited = a]
  <2>5. next.pc = "snapshot" /\ next.plan = NoAnswer /\ next.awaited = a
    BY <2>2 DEF Run
  <2>6. Updates(r, next)
    BY <2>4 DEF Updates
  <2> HIDE DEF next
  <2>7. Asks(r, next)
    BY <2>4, <2>5 DEF Asks, Asking
  <2>8. requests' \in 0..MaxRequests
    <3>1. requests < MaxRequests /\ requests' = requests + 1
      BY <1>1 DEF Request
    <3>2. requests \in 0..MaxRequests
      BY DEF TypeOK
    <3> QED
      BY <3>1, <3>2, BoundAssumption
  <2>9. cache' = cache /\ UNCHANGED worldVars
    BY <1>1 DEF Request
  <2> QED
    BY <2>6, <2>7, <2>8, <2>9 DEF RequestStep, CacheStep, worldVars, TypeOK
<1>2. CASE HaveSources(r)
  <2> DEFINE next == [run[r] EXCEPT !.pc = "epoch", !.plan = run[r].awaited,
                                    !.awaited = NoAnswer]
  <2>1. run' = [run EXCEPT ![r] = next]
    BY <1>0, <1>2 DEF HaveSources, TypeOK, Run
  <2>2. /\ next \in Run /\ next.pc = "epoch" /\ next.awaited = NoAnswer
        /\ next.plan = run[r].awaited
    BY <1>0 DEF Run, Phases
  <2> HIDE DEF next
  <2>3. Quiet(r, next)
    BY <1>2, <2>2 DEF Quiet, Asking, HaveSources, registryVars
  <2> QED
    BY <1>2, <2>1, <2>2, <2>3 DEF RequestStep, Updates, CacheStep, HaveSources, worldVars, TypeOK
<1>3. CASE HaveEpoch(r)
  <2> DEFINE rec == [run[r] EXCEPT !.pc = "version"]
  <2>2. rec \in Run /\ rec.pc = "version" /\ rec.plan = run[r].plan
    BY <1>0 DEF Run, Phases
  <2> HIDE DEF rec
  <2>3. Get(r, rec)
    BY <1>3 DEF rec, HaveEpoch
  <2>4. PICK a \in Answer \cup {NoAnswer} :
          LET next == [rec EXCEPT !.awaited = a]
          IN  /\ run' = [run EXCEPT ![r] = next]
              /\ next \in Run /\ current' = current
              /\ \/ a = AnswerOf(current) /\ a # NoAnswer /\ UNCHANGED <<load, stamps>>
                 \/ a = NoAnswer /\ Loading /\ UNCHANGED <<load, stamps>>
                 \/ a = NoAnswer /\ ~Loading /\ BeginLoad
    BY <2>2, <2>3, GetTyped
  <2> DEFINE next == [rec EXCEPT !.awaited = a]
  <2>5. next.pc = "version" /\ next.plan = run[r].plan /\ next.awaited = a
    BY <2>2 DEF Run
  <2>6. Updates(r, next)
    BY <2>4 DEF Updates
  <2> HIDE DEF next
  <2>7. Asks(r, next)
    BY <2>4, <2>5 DEF Asks, Asking
  <2> QED
    BY <1>3, <2>6, <2>7 DEF RequestStep, CacheStep, HaveEpoch, worldVars, TypeOK
<1>4. CASE StartTile(r)
  <2> DEFINE start == [run[r] EXCEPT !.pc = "primary", !.version = run[r].awaited.stamp,
                                     !.awaited = NoAnswer]
  <2>1. run[r].awaited.stamp \in Nat
    BY <1>0, <1>4 DEF StartTile, Awaited, Run, Answer
  <2>2. /\ start \in Run /\ start.pc = "primary" /\ start.plan = run[r].plan
        /\ start.awaited = NoAnswer
    BY <1>0, <2>1 DEF Run, Phases
  <2>3. run' = [run EXCEPT ![r] = Idle] \/ run' = [run EXCEPT ![r] = start]
    BY <1>4 DEF StartTile, TypeOK
  <2> HIDE DEF start
  <2>4. /\ UNCHANGED <<current, load, stamps, now, container, until, requests, faults>>
        /\ CacheStep(r)
    BY <1>4 DEF StartTile, CacheStep, registryVars, worldVars
  <2>5. Quiet(r, start) /\ Quiet(r, Idle)
    BY <2>2, <2>4 DEF Quiet, Asking, Idle
  <2> QED
    BY <2>2, <2>3, <2>4, <2>5, IdleIsRun DEF RequestStep, Updates, TypeOK
<1>5. CASE PrimaryAnswered(r)
  <2>1. PICK o \in {"ok", "gap", "none"} : Proceed(r, [run[r] EXCEPT !.outcome = o])
    BY <1>5 DEF PrimaryAnswered
  <2> DEFINE rec == [run[r] EXCEPT !.outcome = o]
  <2>2. /\ rec \in Run /\ rec.tile = run[r].tile /\ rec.plan = run[r].plan
        /\ rec.awaited = run[r].awaited
    BY <1>0 DEF Run
  <2> HIDE DEF rec
  <2>3. Proceed(r, rec)
    BY <2>1 DEF rec
  <2> QED
    BY <1>5, <2>2, <2>3, ProceedSteps DEF PrimaryAnswered
<1>6. CASE ComparisonAnswered(r)
  BY <1>0, <1>6, ProceedSteps DEF ComparisonAnswered
<1>7. CASE CapabilityError(r)
  <2>1. PICK rec \in Run : Invalidate(r, rec) /\ rec.pc = "reload" /\ rec.plan = run[r].plan
    <3>1. CASE run[r].pc = "primary"
      <4>1. PICK o \in {"gap", "none"} :
              Invalidate(r, [run[r] EXCEPT !.outcome = o, !.pc = "reload"])
        BY <1>7, <3>1 DEF CapabilityError
      <4>2. LET rec == [run[r] EXCEPT !.outcome = o, !.pc = "reload"]
            IN  rec \in Run /\ rec.pc = "reload" /\ rec.plan = run[r].plan
        BY <1>0 DEF Run, Phases
      <4> QED
        BY <4>1, <4>2
    <3>2. CASE run[r].pc = "compare"
      <4>1. Invalidate(r, [run[r] EXCEPT !.pc = "reload"])
        BY <1>7, <3>2 DEF CapabilityError
      <4>2. LET rec == [run[r] EXCEPT !.pc = "reload"]
            IN  rec \in Run /\ rec.pc = "reload" /\ rec.plan = run[r].plan
        BY <1>0 DEF Run, Phases
      <4> QED
        BY <4>1, <4>2
    <3> QED
      BY <1>7, <3>1, <3>2 DEF CapabilityError
  <2>2. PICK next \in Run :
           /\ run' = [run EXCEPT ![r] = next]
           /\ next.pc = rec.pc /\ next.plan = rec.plan /\ next.version = rec.version
           /\ next.awaited = NoAnswer /\ next.wanted = container
           /\ next.excused = Loading
           /\ current' \in Snapshot /\ current'.loadedAt = Never
           /\ current'.stamp = 0 /\ current'.sources = current.sources
           /\ \/ Loading /\ UNCHANGED <<load, stamps>>
              \/ ~Loading /\ BeginLoad
    BY <2>1, InvalidateTyped
  <2>3. Reloads(r, next)
    BY <2>1, <2>2 DEF Reloads
  <2>4. faults' \in 0..MaxFaults
    <3>1. faults < MaxFaults /\ faults' = faults + 1
      BY <1>7 DEF CapabilityError
    <3>2. faults \in 0..MaxFaults
      BY DEF TypeOK
    <3> QED
      BY <3>1, <3>2, BoundAssumption
  <2>5. UNCHANGED <<now, container, until, cache, requests>>
    BY <1>7 DEF CapabilityError
  <2> QED
    <3>1. Updates(r, next)
      BY <2>2 DEF Updates
    <3>2. CacheStep(r)
      BY <2>5 DEF CacheStep
    <3>3. requests' \in 0..MaxRequests
      BY <2>5 DEF TypeOK
    <3> QED
      BY <2>3, <2>4, <2>5, <3>1, <3>2, <3>3 DEF RequestStep
<1>8. CASE Reloaded(r)
  <2> DEFINE rec == [run[r] EXCEPT !.awaited = NoAnswer, !.wanted = 0, !.excused = FALSE]
  <2>0. 0 \in Versions /\ NoAnswer \in Answer \cup {NoAnswer}
    BY BoundAssumption DEF Versions
  <2>1. /\ rec \in Run /\ rec.tile = run[r].tile /\ rec.plan = run[r].plan
        /\ rec.awaited = NoAnswer
    BY <1>0, <2>0 DEF Run
  <2> HIDE DEF rec
  <2>2. Proceed(r, rec)
    BY <1>8 DEF rec, Reloaded
  <2> QED
    BY <1>8, <2>1, <2>2, ProceedSteps DEF Reloaded
<1> QED
  BY <1>1, <1>2, <1>3, <1>4, <1>5, <1>6, <1>7, <1>8 DEF Advance

-----------------------------------------------------------------------------
(* The steps of the load and of the world.                                 *)

LEMMA AnsweringTyped ==
  ASSUME TypeOK, NEW s \in Snapshot, NEW failed \in BOOLEAN,
         AnswerWaiting(s, failed)
  PROVE  /\ run' \in [Runs -> Run]
         /\ \A r \in Runs :
              /\ run'[r].pc = run[r].pc /\ run'[r].plan = run[r].plan
              /\ run'[r].wanted = run[r].wanted
              /\ ~Waiting(r) => run'[r] = run[r]
              /\ Waiting(r) => /\ run'[r].awaited = AnswerOf(s)
                               /\ run'[r].excused = (run[r].excused \/ failed)
<1> DEFINE next(r) == [run[r] EXCEPT !.awaited = AnswerOf(s),
                                     !.excused = @ \/ failed]
<1>1. ASSUME NEW r \in Runs
      PROVE  /\ next(r) \in Run
             /\ next(r).pc = run[r].pc /\ next(r).plan = run[r].plan
             /\ next(r).wanted = run[r].wanted
             /\ next(r).awaited = AnswerOf(s)
             /\ next(r).excused = (run[r].excused \/ failed)
  <2>1. run[r] \in Run /\ AnswerOf(s) \in Answer
    BY AnswerTyped DEF TypeOK
  <2>2. (run[r].excused \/ failed) \in BOOLEAN
    OBVIOUS
  <2> QED
    BY <2>1, <2>2 DEF Run
<1>2. run' = [r \in Runs |-> IF Waiting(r) THEN next(r) ELSE run[r]]
  BY DEF AnswerWaiting
<1> HIDE DEF next
<1> QED
  BY <1>1, <1>2 DEF TypeOK

LEMMA TypeStep == ASSUME TypeOK, [Next]_vars PROVE TypeOK'
<1>1. CASE UNCHANGED vars
  BY <1>1 DEF vars, registryVars, worldVars, TypeOK
<1>2. ASSUME NEW r \in Runs, Request(r) \/ Advance(r) PROVE TypeOK'
  <2>1. PICK next : RequestStep(r, next)
    BY <1>2, RequestSteps
  <2>2. run' \in [Runs -> Run]
    BY <2>1, UpdateTyped DEF RequestStep
  <2>3. current' \in Snapshot
    BY <2>1 DEF RequestStep, Quiet, Asks, Reloads, TypeOK
  <2>4. load' \in Load /\ stamps' \in Nat
    <3>1. CASE UNCHANGED <<load, stamps>>
      BY <3>1 DEF TypeOK
    <3>2. CASE BeginLoad
      BY <3>2, BeginLoadTyped
    <3> QED
      BY <2>1, <3>1, <3>2 DEF RequestStep, Quiet, Asks, Reloads
  <2>5. cache' \in Seq(Entry) /\ Len(cache') <= MaxEntries
    <3>1. CASE cache' = cache
      BY <3>1 DEF TypeOK
    <3>2. CASE \E k : cache' = AfterGet(k)
      BY <3>2, AfterGetIsPart
    <3>3. CASE \E e : Files(r, e) /\ cache' = AfterSet(e)
      BY <3>3, AfterSetAdds DEF Files
    <3> QED
      BY <2>1, <3>1, <3>2, <3>3 DEF RequestStep, CacheStep
  <2> QED
    BY <2>1, <2>2, <2>3, <2>4, <2>5 DEF RequestStep, TypeOK
<1>3. CASE LoadReads
  BY <1>3 DEF LoadReads, TypeOK, Load, worldVars, Versions
<1>4. CASE LoadEnds
  <2>1. Loaded \in Snapshot
    BY <1>4, LoadedTyped DEF LoadEnds, TypeOK
  <2>2. run' \in [Runs -> Run]
    BY <1>4, <2>1, AnsweringTyped DEF LoadEnds
  <2>3. NoLoad \in Load
    BY DEF NoLoad, Load
  <2> QED
    BY <1>4, <2>1, <2>2, <2>3 DEF LoadEnds, TypeOK, worldVars
<1>5. CASE LoadFails
  <2>2. run' \in [Runs -> Run]
    BY <1>5, AnsweringTyped DEF LoadFails, TypeOK
  <2>3. NoLoad \in Load
    BY DEF NoLoad, Load
  <2>4. faults' \in 0..MaxFaults
    <3>1. faults < MaxFaults /\ faults' = faults + 1
      BY <1>5 DEF LoadFails
    <3>2. faults \in 0..MaxFaults
      BY DEF TypeOK
    <3> QED
      BY <3>1, <3>2, BoundAssumption
  <2> QED
    BY <1>5, <2>2, <2>3, <2>4 DEF LoadFails, TypeOK
<1>6. CASE Register
  <2>1. /\ container' \in 1..MaxVersion
        /\ until' \in [1..MaxVersion -> Time]
    BY <1>6, BoundAssumption DEF Register, TypeOK
  <2> QED
    BY <1>6, <2>1 DEF Register, TypeOK, registryVars
<1>7. CASE Tick
  <2>1. now' \in Time
    BY <1>7, TimeAssumption DEF Tick, TypeOK, Time
  <2> QED
    BY <1>7, <2>1 DEF Tick, TypeOK, registryVars
<1> QED
  BY <1>1, <1>2, <1>3, <1>4, <1>5, <1>6, <1>7 DEF Next, LoadAdvances

LEMMA TypeInit == Init => TypeOK
<1> SUFFICES ASSUME Init PROVE TypeOK
  OBVIOUS
<1>1. now \in Time /\ requests \in 0..MaxRequests /\ faults \in 0..MaxFaults
  BY TimeAssumption, BoundAssumption DEF Init, Time
<1>2. /\ container \in 1..MaxVersion
      /\ until \in [1..MaxVersion -> Time]
  BY TimeAssumption, BoundAssumption DEF Init, Time
<1>3. current \in Snapshot /\ load \in Load /\ stamps \in Nat
  BY BoundAssumption DEF Init, Snapshot, Load, NoLoad, Versions
<1>4. run \in [Runs -> Run]
  BY IdleIsRun DEF Init
<1>5. cache \in Seq(Entry) /\ Len(cache) <= MaxEntries
  BY BoundAssumption DEF Init
<1> QED
  BY <1>1, <1>2, <1>3, <1>4, <1>5 DEF TypeOK

(* The state stays well-typed, the cache within its limit included.        *)
THEOREM TypeIsKept == Spec => []TypeOK
BY TypeInit, TypeStep, PTL DEF Spec

-----------------------------------------------------------------------------
(* The loads.                                                              *)

(* A reload that joined no load and did not fail: while it waits, what the *)
(* load has read, or will read, is at least as new as the capability error *)
(* that asked for it.                                                      *)
Reloading(r) == run[r].pc = "reload" /\ ~run[r].excused

ReloadInv ==
  \A r \in Runs :
    Reloading(r) =>
      /\ run[r].wanted <= container
      /\ run[r].awaited = NoAnswer => load.read = -1 \/ load.read >= run[r].wanted
      /\ run[r].awaited # NoAnswer => run[r].awaited.sources >= run[r].wanted

WaitInv == WaitersHaveALoad /\ ReloadInv

LEMMA WaitStep ==
  ASSUME TypeOK, WaitInv, [Next]_vars PROVE WaitInv'
<1> USE DEF WaitInv
<1>0. \A r \in Runs : run[r] \in Run /\ run[r].wanted \in Int
  BY BoundAssumption DEF TypeOK, Run, Versions
<1>1. CASE UNCHANGED vars
  BY <1>1 DEF vars, registryVars, worldVars, WaitersHaveALoad, Waiting, ReloadInv, Reloading
<1>2. ASSUME NEW r \in Runs, Request(r) \/ Advance(r) PROVE WaitInv'
  <2>1. PICK next : RequestStep(r, next)
    BY <1>2, RequestSteps
  <2>2. run'[r] = next /\ \A x \in Runs \ {r} : run'[x] = run[x]
    BY <2>1, UpdateTyped DEF RequestStep
  <2>3. CASE UNCHANGED <<load, stamps>>
    <3>0. BeginLoad => load'.since # Never
      BY BeginLoadTyped
    <3>1. Waiting(r)' => Loading'
      <4>1. CASE Quiet(r, next)
        BY <2>2, <4>1 DEF Waiting, Quiet, Asking
      <4>2. CASE Asks(r, next)
        BY <2>2, <2>3, <3>0, <4>2 DEF Waiting, Asks
      <4>3. CASE Reloads(r, next)
        BY <2>2, <2>3, <3>0, <4>3 DEF Waiting, Reloads
      <4> QED
        BY <2>1, <4>1, <4>2, <4>3 DEF RequestStep
    <3>2. WaitersHaveALoad'
      BY <2>2, <2>3, <3>1 DEF WaitersHaveALoad, Waiting
    <3>3. ASSUME NEW x \in Runs, Reloading(x)'
          PROVE  /\ run'[x].wanted <= container
                 /\ run'[x].awaited = NoAnswer => load.read = -1 \/ load.read >= run'[x].wanted
                 /\ run'[x].awaited # NoAnswer => run'[x].awaited.sources >= run'[x].wanted
      <4>1. CASE x = r
        <5>1. Reloads(r, next)
          BY <2>1, <2>2, <3>3, <4>1 DEF RequestStep, Quiet, Asks, Asking, Reloading
        <5>2. ~next.excused /\ next.excused = Loading
          BY <2>2, <3>3, <4>1, <5>1 DEF Reloading, Reloads
        <5>3. ~Loading
          BY <5>2
        <5>4. BeginLoad
          BY <5>1, <5>3 DEF Reloads
        <5>5. load' = load /\ load'.since = now /\ now # Never
          BY <2>3, <5>4, BeginLoadTyped
        <5> QED
          BY <5>3, <5>5
      <4>2. CASE x # r
        BY <2>2, <3>3, <4>2 DEF ReloadInv, Reloading
      <4> QED
        BY <4>1, <4>2
    <3>4. container' = container /\ load' = load
      BY <2>1, <2>3 DEF RequestStep
    <3>5. ReloadInv'
      BY <3>3, <3>4 DEF ReloadInv
    <3> QED
      BY <3>2, <3>5
  <2>4. CASE ~Loading /\ BeginLoad
    <3>1. load'.since # Never /\ load'.read = -1
      BY <2>4, BeginLoadTyped
    <3>2. WaitersHaveALoad'
      BY <3>1 DEF WaitersHaveALoad
    <3>3. ASSUME NEW x \in Runs, Reloading(x)'
          PROVE  /\ run'[x].wanted <= container
                 /\ run'[x].awaited # NoAnswer => run'[x].awaited.sources >= run'[x].wanted
      <4>1. CASE x = r
        <5>1. Reloads(r, next)
          BY <2>1, <2>2, <3>3, <4>1 DEF RequestStep, Quiet, Asks, Asking, Reloading
        <5> QED
          BY <2>2, <4>1, <5>1, BoundAssumption DEF Reloads, TypeOK
      <4>2. CASE x # r
        BY <2>2, <3>3, <4>2 DEF ReloadInv, Reloading
      <4> QED
        BY <4>1, <4>2
    <3>4. container' = container
      BY <2>1 DEF RequestStep
    <3>5. ReloadInv'
      BY <3>1, <3>3, <3>4 DEF ReloadInv
    <3> QED
      BY <3>2, <3>5
  <2> QED
    BY <2>1, <2>3, <2>4 DEF RequestStep, Quiet, Asks, Reloads
<1>3. CASE LoadReads
  <2>1. /\ load'.since = load.since /\ load'.read = container
        /\ UNCHANGED <<run, container>>
    BY <1>3 DEF LoadReads, TypeOK, Load, worldVars
  <2>2. WaitersHaveALoad'
    BY <2>1 DEF WaitersHaveALoad, Waiting
  <2>3. ReloadInv'
    BY <2>1, <1>0, BoundAssumption DEF ReloadInv, Reloading, TypeOK
  <2> QED
    BY <2>2, <2>3
<1>4. CASE LoadEnds
  <2>1. Loaded \in Snapshot /\ AnswerOf(Loaded).sources = load.read
    BY <1>4, LoadedTyped DEF LoadEnds, TypeOK, AnswerOf, Loaded
  <2>2. AnswerOf(Loaded) # NoAnswer
    BY <2>1, AnswerTyped
  <2>3. \A r \in Runs :
          /\ run'[r].pc = run[r].pc /\ run'[r].wanted = run[r].wanted
          /\ ~Waiting(r) => run'[r] = run[r]
          /\ Waiting(r) => /\ run'[r].awaited = AnswerOf(Loaded)
                           /\ run'[r].excused = (run[r].excused \/ FALSE)
    BY <1>4, <2>1, AnsweringTyped DEF LoadEnds
  <2>4. WaitersHaveALoad'
    BY <2>2, <2>3 DEF WaitersHaveALoad, Waiting
  <2>5. load.read # -1 /\ container' = container
    BY <1>4 DEF LoadEnds, worldVars
  <2>6. ASSUME NEW r \in Runs, Reloading(r)'
        PROVE  /\ run'[r].wanted <= container
               /\ run'[r].awaited # NoAnswer
               /\ run'[r].awaited.sources >= run'[r].wanted
    <3>1. Reloading(r)
      BY <2>3, <2>6 DEF Reloading
    <3>2. CASE Waiting(r)
      BY <2>1, <2>2, <2>3, <2>5, <3>1, <3>2 DEF ReloadInv, Waiting
    <3>3. CASE ~Waiting(r)
      BY <2>3, <3>1, <3>3 DEF ReloadInv, Waiting, Reloading
    <3> QED
      BY <3>2, <3>3
  <2>7. ReloadInv'
    BY <2>5, <2>6 DEF ReloadInv
  <2> QED
    BY <2>4, <2>7
<1>5. CASE LoadFails
  <2>2. AnswerOf(current) # NoAnswer
    BY AnswerTyped DEF TypeOK
  <2>3. \A r \in Runs :
          /\ run'[r].pc = run[r].pc /\ run'[r].wanted = run[r].wanted
          /\ ~Waiting(r) => run'[r] = run[r]
          /\ Waiting(r) => /\ run'[r].awaited = AnswerOf(current)
                           /\ run'[r].excused = (run[r].excused \/ TRUE)
    BY <1>5, AnsweringTyped DEF LoadFails, TypeOK
  <2>4. WaitersHaveALoad'
    BY <2>2, <2>3 DEF WaitersHaveALoad, Waiting
  <2>5. container' = container
    BY <1>5 DEF LoadFails
  <2>6. ASSUME NEW r \in Runs, Reloading(r)'
        PROVE  ~Waiting(r) /\ run'[r] = run[r] /\ Reloading(r)
    BY <2>3, <2>6 DEF Reloading
  <2>7. ReloadInv'
    BY <2>5, <2>6 DEF ReloadInv, Waiting, Reloading
  <2> QED
    BY <2>4, <2>7
<1>6. CASE Register
  <2>1. UNCHANGED <<run, load>> /\ container' = container + 1
    BY <1>6 DEF Register, registryVars
  <2>2. ReloadInv'
    BY <1>0, <2>1, BoundAssumption DEF ReloadInv, Reloading, TypeOK
  <2> QED
    BY <2>1, <2>2 DEF WaitersHaveALoad, Waiting
<1>7. CASE Tick
  BY <1>7 DEF Tick, registryVars, WaitersHaveALoad, Waiting, ReloadInv, Reloading
<1> QED
  BY <1>1, <1>2, <1>3, <1>4, <1>5, <1>6, <1>7 DEF Next, LoadAdvances

LEMMA WaitInit == Init => WaitInv
BY DEF Init, Idle, WaitInv, WaitersHaveALoad, Waiting, ReloadInv, Reloading

(* Nobody waits for a load that is not in flight.                          *)
THEOREM WaitersAlwaysHaveALoad == Spec => []WaitersHaveALoad
<1>1. Init => TypeOK /\ WaitInv
  BY TypeInit, WaitInit
<1>2. TypeOK /\ WaitInv /\ [Next]_vars => (TypeOK /\ WaitInv)'
  BY TypeStep, WaitStep
<1>3. WaitInv => WaitersHaveALoad
  BY DEF WaitInv
<1> QED
  BY <1>1, <1>2, <1>3, PTL DEF Spec

(* A reload that joined no load and did not fail is as new as the          *)
(* capability error that asked for it.                                     *)
THEOREM ReloadsAreCurrent == Spec => []ReloadIsCurrent
<1>1. Init => TypeOK /\ WaitInv
  BY TypeInit, WaitInit
<1>2. TypeOK /\ WaitInv /\ [Next]_vars => (TypeOK /\ WaitInv)'
  BY TypeStep, WaitStep
<1>3. WaitInv => ReloadIsCurrent
  BY DEF WaitInv, ReloadInv, Reloading, ReloadIsCurrent, Awaited
<1> QED
  BY <1>1, <1>2, <1>3, PTL DEF Spec

-----------------------------------------------------------------------------
(* A snapshot, and what a load has read, was the container's at the time   *)
(* it is dated, or later.                                                  *)
CurrentSince(v, t) ==
  /\ v \in 1..container /\ t <= now
  /\ v = container \/ until[v] >= t

RecentInv ==
  /\ current.loadedAt # Never => CurrentSince(current.sources, current.loadedAt)
  /\ Loading => load.since <= now
  /\ Loading /\ load.read # -1 => CurrentSince(load.read, load.since)

LEMMA RecentStep ==
  ASSUME TypeOK, RecentInv, [Next]_vars PROVE RecentInv'
<1>0. /\ now \in Nat /\ container \in Nat /\ container >= 1
      /\ \A v \in 1..container : until[v] \in Nat
  BY Numbers, BoundAssumption DEF TypeOK
<1>1. CASE UNCHANGED vars
  BY <1>1 DEF vars, registryVars, worldVars, RecentInv, CurrentSince
<1>2. ASSUME NEW r \in Runs, Request(r) \/ Advance(r) PROVE RecentInv'
  <2>1. PICK next : RequestStep(r, next)
    BY <1>2, RequestSteps
  <2>2. UNCHANGED <<now, container, until>>
    BY <2>1 DEF RequestStep
  <2>3. current' = current \/ current'.loadedAt = Never
    BY <2>1 DEF RequestStep, Quiet, Asks, Reloads
  <2>4. load' = load \/ (load'.since = now /\ load'.read = -1)
    BY <2>1, BeginLoadTyped DEF RequestStep, Quiet, Asks, Reloads
  <2> QED
    BY <1>0, <2>2, <2>3, <2>4 DEF RecentInv, CurrentSince
<1>3. CASE LoadReads
  <2>1. /\ load'.since = load.since /\ load'.read = container
        /\ UNCHANGED <<current, now, container, until>> /\ Loading
    BY <1>3 DEF LoadReads, TypeOK, Load, worldVars
  <2> QED
    BY <1>0, <2>1 DEF RecentInv, CurrentSince
<1>4. CASE LoadEnds
  <2>1. /\ current'.sources = load.read /\ current'.loadedAt = load.since
        /\ load'.since = Never /\ Loading /\ load.read # -1
        /\ UNCHANGED <<now, container, until>>
    BY <1>4 DEF LoadEnds, Loaded, NoLoad, worldVars
  <2> QED
    BY <2>1 DEF RecentInv, CurrentSince
<1>5. CASE LoadFails
  BY <1>5 DEF LoadFails, NoLoad, RecentInv, CurrentSince
<1>6. CASE Register
  <2>1. /\ container' = container + 1 /\ until' = [until EXCEPT ![container] = now]
        /\ UNCHANGED <<current, load, now>>
    BY <1>6 DEF Register, registryVars
  <2>2. ASSUME NEW v, NEW t \in Nat, CurrentSince(v, t)
        PROVE  CurrentSince(v, t)'
    <3>1. v \in 1..container' /\ t <= now'
      BY <1>0, <2>1, <2>2 DEF CurrentSince
    <3>2. CASE v = container
      <4>1. until'[v] = now
        BY <2>1, <3>2 DEF TypeOK
      <4> QED
        BY <1>0, <2>1, <2>2, <3>1, <4>1 DEF CurrentSince
    <3>3. CASE v # container
      <4>1. until'[v] = until[v]
        BY <2>1, <3>3 DEF TypeOK
      <4> QED
        BY <1>0, <2>1, <2>2, <3>1, <3>3, <4>1 DEF CurrentSince
    <3> QED
      BY <3>2, <3>3
  <2>3. load.since \in Nat /\ current.loadedAt \in Nat
    BY Numbers DEF TypeOK, Load, Snapshot
  <2> QED
    BY <2>1, <2>2, <2>3 DEF RecentInv
<1>7. CASE Tick
  <2>1. now' = now + 1 /\ UNCHANGED <<current, load, container, until>>
    BY <1>7 DEF Tick, registryVars
  <2>2. load.since \in Nat /\ current.loadedAt \in Nat
    BY Numbers DEF TypeOK, Load, Snapshot
  <2> QED
    BY <1>0, <2>1, <2>2 DEF RecentInv, CurrentSince
<1> QED
  BY <1>1, <1>2, <1>3, <1>4, <1>5, <1>6, <1>7 DEF Next, LoadAdvances

LEMMA RecentIsEnough == TypeOK /\ RecentInv => SnapshotIsRecent
<1> SUFFICES ASSUME TypeOK, RecentInv, Fresh(current)
             PROVE  \/ current.sources = container
                    \/ until[current.sources] > now - Refresh
  BY DEF SnapshotIsRecent
<1>1. CurrentSince(current.sources, current.loadedAt) /\ now - current.loadedAt < Refresh
  BY DEF RecentInv, Fresh
<1>2. now \in Nat /\ current.loadedAt \in Nat /\ Refresh \in Nat
  BY Numbers, TimeAssumption DEF TypeOK, Snapshot
<1>3. current.sources \in 1..MaxVersion
  BY <1>1, BoundAssumption DEF CurrentSince, TypeOK
<1>4. until[current.sources] \in Nat
  BY <1>3, Numbers DEF TypeOK
<1> QED
  BY <1>1, <1>2, <1>4 DEF CurrentSince

(* A snapshot served without a load was current less than Refresh ago.     *)
THEOREM SnapshotsAreRecent == Spec => []SnapshotIsRecent
<1>1. Init => TypeOK /\ RecentInv
  BY TypeInit DEF Init, RecentInv, NoLoad
<1>2. TypeOK /\ RecentInv /\ [Next]_vars => (TypeOK /\ RecentInv)'
  BY TypeStep, RecentStep
<1> QED
  BY <1>1, <1>2, RecentIsEnough, PTL DEF Spec

-----------------------------------------------------------------------------
(* What the registry tells never gets older: a load begins after the one   *)
(* before has ended, and a failing one leaves what was current.            *)
ForwardInv ==
  /\ current.sources <= container
  /\ Loading /\ load.read # -1 =>
       current.sources <= load.read /\ load.read <= container
  /\ \A r \in Runs : /\ run[r].plan.sources <= current.sources
                     /\ run[r].awaited.sources <= current.sources
  /\ RegistryNeverGoesBack

LEMMA ForwardStep ==
  ASSUME TypeOK, ForwardInv, [Next]_vars PROVE ForwardInv'
<1>0. /\ container \in Int /\ current.sources \in Int /\ load.read \in Int
      /\ current.sources >= 0 /\ NoAnswer.sources = 0
      /\ \A r \in Runs : /\ run[r].plan.sources \in Int
                         /\ run[r].awaited.sources \in Int
                         /\ run[r].awaited.sources >= 0
  BY BoundAssumption DEF TypeOK, Snapshot, Load, Run, Answer, NoAnswer, Versions
<1>1. CASE UNCHANGED <<current, load, container, run>>
  BY <1>1 DEF ForwardInv, RegistryNeverGoesBack
<1>2. ASSUME NEW r \in Runs, Request(r) \/ Advance(r) PROVE ForwardInv'
  <2>1. PICK next : RequestStep(r, next)
    BY <1>2, RequestSteps
  <2>2. run'[r] = next /\ \A x \in Runs \ {r} : run'[x] = run[x]
    BY <2>1, UpdateTyped DEF RequestStep
  <2>3. container' = container /\ current'.sources = current.sources
    BY <2>1 DEF RequestStep, Quiet, Asks, Reloads
  <2>4. load' = load \/ load'.read = -1
    BY <2>1, BeginLoadTyped DEF RequestStep, Quiet, Asks, Reloads
  <2>5. /\ next.plan.sources <= current.sources
        /\ next.awaited.sources <= current.sources
        /\ next.awaited # NoAnswer => next.awaited.sources >= next.plan.sources
    <3>1. CASE Quiet(r, next)
      BY <1>0, <3>1 DEF Quiet, ForwardInv, RegistryNeverGoesBack
    <3>2. CASE Asks(r, next)
      BY <1>0, <3>2 DEF Asks, AnswerOf, ForwardInv
    <3>3. CASE Reloads(r, next)
      BY <1>0, <3>3 DEF Reloads, ForwardInv
    <3> QED
      BY <2>1, <3>1, <3>2, <3>3 DEF RequestStep
  <2> QED
    BY <2>2, <2>3, <2>4, <2>5 DEF ForwardInv, RegistryNeverGoesBack
<1>3. CASE LoadReads
  <2>1. load'.read = container /\ UNCHANGED <<current, container, run>>
    BY <1>3 DEF LoadReads, TypeOK, Load, worldVars
  <2> QED
    BY <1>0, <2>1 DEF ForwardInv, RegistryNeverGoesBack
<1>4. CASE LoadEnds
  <2>1. /\ Loaded \in Snapshot /\ current' = Loaded /\ load'.read = -1
        /\ Loaded.sources = load.read /\ Loading /\ load.read # -1
        /\ container' = container
    BY <1>4, LoadedTyped DEF LoadEnds, TypeOK, Loaded, NoLoad, worldVars
  <2>2. \A r \in Runs :
          /\ run'[r].plan = run[r].plan
          /\ ~Waiting(r) => run'[r] = run[r]
          /\ Waiting(r) => run'[r].awaited = AnswerOf(Loaded)
    BY <1>4, <2>1, AnsweringTyped DEF LoadEnds
  <2>3. current.sources <= load.read /\ load.read <= container
    BY <2>1 DEF ForwardInv
  <2>4. ASSUME NEW r \in Runs
        PROVE  /\ run'[r].plan.sources <= load.read
               /\ run'[r].awaited.sources <= load.read
               /\ run'[r].awaited # NoAnswer =>
                    run'[r].awaited.sources >= run'[r].plan.sources
    BY <1>0, <2>1, <2>2, <2>3 DEF AnswerOf, ForwardInv, RegistryNeverGoesBack
  <2> QED
    BY <2>1, <2>3, <2>4 DEF ForwardInv, RegistryNeverGoesBack
<1>5. CASE LoadFails
  <2>1. UNCHANGED <<current, container>> /\ load'.read = -1
    BY <1>5 DEF LoadFails, NoLoad
  <2>2. \A r \in Runs :
          /\ run'[r].plan = run[r].plan
          /\ ~Waiting(r) => run'[r] = run[r]
          /\ Waiting(r) => run'[r].awaited = AnswerOf(current)
    BY <1>5, AnsweringTyped DEF LoadFails, TypeOK
  <2>3. ASSUME NEW r \in Runs
        PROVE  /\ run'[r].plan.sources <= current.sources
               /\ run'[r].awaited.sources <= current.sources
               /\ run'[r].awaited # NoAnswer =>
                    run'[r].awaited.sources >= run'[r].plan.sources
    BY <1>0, <2>2 DEF AnswerOf, ForwardInv, RegistryNeverGoesBack
  <2> QED
    BY <2>1, <2>3 DEF ForwardInv, RegistryNeverGoesBack
<1>6. CASE Register
  <2>1. container' = container + 1 /\ UNCHANGED <<current, load, run>>
    BY <1>6 DEF Register, registryVars
  <2> QED
    BY <1>0, <2>1 DEF ForwardInv, RegistryNeverGoesBack
<1>7. CASE Tick
  BY <1>1, <1>7 DEF Tick, registryVars
<1>8. CASE UNCHANGED vars
  BY <1>1, <1>8 DEF vars, registryVars, worldVars
<1> QED
  BY <1>2, <1>3, <1>4, <1>5, <1>6, <1>7, <1>8 DEF Next, LoadAdvances

(* What a request learns of the sources is never older than what it        *)
(* planned on, whether a reload is its own, joined, or failing.            *)
THEOREM RegistryGoesForward == Spec => []RegistryNeverGoesBack
<1>1. Init => TypeOK /\ ForwardInv
  BY TypeInit DEF Init, ForwardInv, RegistryNeverGoesBack, NoLoad, Idle, NoAnswer
<1>2. TypeOK /\ ForwardInv /\ [Next]_vars => (TypeOK /\ ForwardInv)'
  BY TypeStep, ForwardStep
<1>3. ForwardInv => RegistryNeverGoesBack
  BY DEF ForwardInv
<1> QED
  BY <1>1, <1>2, <1>3, PTL DEF Spec

-----------------------------------------------------------------------------
(* The tile cache: names.  A registryVersion other than "0" names one      *)
(* snapshot: whoever holds it, holds the sources that snapshot had.        *)
Named(n, v) ==
  \/ current.stamp = n /\ current.sources = v
  \/ \E r \in Runs : run[r].awaited.stamp = n /\ run[r].awaited.sources = v
  \/ \E r \in Runs : run[r].plan.stamp = n /\ run[r].plan.sources = v
  \/ \E i \in 1..Len(cache) :
       /\ ~cache[i].value.straddled
       /\ cache[i].key.registryVersion = n /\ cache[i].value.sources = v

NamedInv ==
  /\ Loading => load.stamp = stamps
  /\ \A n \in Nat \ {0} : \A v :
       Named(n, v) => n <= stamps /\ (Loading => n < stamps)
  /\ \A n \in Nat \ {0} : \A v, w : Named(n, v) /\ Named(n, w) => v = w

LEMMA NoNewNames ==
  ASSUME TypeOK, NEW r \in Runs, NEW next, RequestStep(r, next),
         NEW n \in Nat \ {0}, NEW v, Named(n, v)'
  PROVE  Named(n, v)
<1>1. run'[r] = next /\ \A x \in Runs \ {r} : run'[x] = run[x]
  BY UpdateTyped DEF RequestStep
<1>2. NoAnswer.stamp # n
  BY DEF NoAnswer
<1>3. CASE current'.stamp = n /\ current'.sources = v
  <2>1. current' = current
    BY <1>3 DEF RequestStep, Quiet, Asks, Reloads
  <2> QED
    BY <1>3, <2>1 DEF Named
<1>4. ASSUME NEW x \in Runs, run'[x].awaited.stamp = n, run'[x].awaited.sources = v
      PROVE  Named(n, v)
  <2>1. CASE x # r
    BY <1>1, <1>4, <2>1 DEF Named
  <2>2. CASE x = r
    <3>1. next.awaited \in {NoAnswer, run[r].awaited, AnswerOf(current)}
      BY DEF RequestStep, Quiet, Asks, Reloads
    <3>2. next.awaited \in {run[r].awaited, AnswerOf(current)}
      BY <1>1, <1>2, <1>4, <2>2, <3>1
    <3>3. CASE next.awaited = run[r].awaited
      BY <1>1, <1>4, <2>2, <3>3 DEF Named
    <3>4. CASE next.awaited = AnswerOf(current)
      BY <1>1, <1>4, <2>2, <3>4 DEF Named, AnswerOf
    <3> QED
      BY <3>2, <3>3, <3>4
  <2> QED
    BY <2>1, <2>2
<1>5. ASSUME NEW x \in Runs, run'[x].plan.stamp = n, run'[x].plan.sources = v
      PROVE  Named(n, v)
  <2>1. CASE x # r
    BY <1>1, <1>5, <2>1 DEF Named
  <2>2. CASE x = r
    <3>1. next.plan \in {NoAnswer, run[r].plan, run[r].awaited}
      BY DEF RequestStep, Quiet, Asks, Reloads
    <3>2. next.plan \in {run[r].plan, run[r].awaited}
      BY <1>1, <1>2, <1>5, <2>2, <3>1
    <3> QED
      BY <1>1, <1>5, <2>2, <3>2 DEF Named
  <2> QED
    BY <2>1, <2>2
<1>6. ASSUME NEW i \in 1..Len(cache'), ~cache'[i].value.straddled,
             cache'[i].key.registryVersion = n, cache'[i].value.sources = v
      PROVE  Named(n, v)
  <2>1. ASSUME NEW j \in 1..Len(cache), cache'[i] = cache[j]
        PROVE  Named(n, v)
    BY <1>6, <2>1 DEF Named
  <2>2. CASE cache' = cache
    BY <1>6, <2>1, <2>2
  <2>3. CASE \E k : cache' = AfterGet(k)
    BY <1>6, <2>1, <2>3, AfterGetIsPart
  <2>4. ASSUME NEW e, Files(r, e), cache' = AfterSet(e)
        PROVE  Named(n, v)
    <3>1. cache'[i] = e \/ \E j \in 1..Len(cache) : cache'[i] = cache[j]
      BY <1>6, <2>4, AfterSetAdds DEF Files, OnlyAdds
    <3>2. CASE cache'[i] = e
      BY <1>6, <2>4, <3>2 DEF Files, Named
    <3> QED
      BY <2>1, <3>1, <3>2
  <2> QED
    BY <2>2, <2>3, <2>4 DEF RequestStep, CacheStep
<1> QED
  BY <1>3, <1>4, <1>5, <1>6 DEF Named

LEMMA NamedStep ==
  ASSUME TypeOK, NamedInv, [Next]_vars PROVE NamedInv'
<1>0. stamps \in Nat /\ load.stamp \in Nat
  BY DEF TypeOK, Load
<1>1. CASE UNCHANGED <<current, stamps, run, cache, load>>
  <2>1. ASSUME NEW n, NEW v PROVE Named(n, v)' <=> Named(n, v)
    BY <1>1 DEF Named
  <2> QED
    BY <1>1, <2>1 DEF NamedInv
<1>2. ASSUME NEW r \in Runs, Request(r) \/ Advance(r) PROVE NamedInv'
  <2>1. PICK next : RequestStep(r, next)
    BY <1>2, RequestSteps
  <2>2. \A n \in Nat \ {0} : \A v : Named(n, v)' => Named(n, v)
    BY <2>1, NoNewNames
  <2>3. \/ UNCHANGED <<load, stamps>>
        \/ ~Loading /\ BeginLoad
    BY <2>1 DEF RequestStep, Quiet, Asks, Reloads
  <2>4. CASE UNCHANGED <<load, stamps>>
    BY <2>2, <2>4 DEF NamedInv
  <2>5. CASE ~Loading /\ BeginLoad
    <3>1. stamps' = stamps + 1 /\ load'.stamp = stamps'
      BY <2>5, BeginLoadTyped
    <3> QED
      BY <1>0, <2>2, <3>1 DEF NamedInv
  <2> QED
    BY <2>3, <2>4, <2>5
<1>3. CASE LoadReads
  <2>1. /\ load'.since = load.since /\ load'.stamp = load.stamp
        /\ UNCHANGED <<current, stamps, run, cache>>
    BY <1>3 DEF LoadReads, TypeOK, Load
  <2>2. \A n, v : Named(n, v)' <=> Named(n, v)
    BY <2>1 DEF Named
  <2>3. Loading' <=> Loading
    BY <2>1
  <2> QED
    BY <2>1, <2>2, <2>3 DEF NamedInv
<1>4. CASE LoadEnds
  <2>1. /\ Loaded \in Snapshot /\ current' = Loaded /\ load'.since = Never
        /\ Loaded.stamp = load.stamp /\ Loaded.sources = load.read
        /\ UNCHANGED <<stamps, cache>> /\ Loading
    BY <1>4, LoadedTyped DEF LoadEnds, TypeOK, Loaded, NoLoad
  <2>2. \A r \in Runs :
          /\ run'[r].plan = run[r].plan
          /\ ~Waiting(r) => run'[r] = run[r]
          /\ Waiting(r) => run'[r].awaited = AnswerOf(Loaded)
    BY <1>4, <2>1, AnsweringTyped DEF LoadEnds
  <2>3. ASSUME NEW n \in Nat \ {0}, NEW v, Named(n, v)'
        PROVE  Named(n, v) \/ (n = load.stamp /\ v = load.read)
    <3>1. CASE current'.stamp = n /\ current'.sources = v
      BY <2>1, <3>1
    <3>2. ASSUME NEW x \in Runs, run'[x].awaited.stamp = n, run'[x].awaited.sources = v
          PROVE  Named(n, v) \/ (n = load.stamp /\ v = load.read)
      <4>1. CASE Waiting(x)
        BY <2>1, <2>2, <3>2, <4>1 DEF AnswerOf
      <4>2. CASE ~Waiting(x)
        BY <2>2, <3>2, <4>2 DEF Named
      <4> QED
        BY <4>1, <4>2
    <3> QED
      BY <2>1, <2>2, <2>3, <3>1, <3>2 DEF Named
  <2>4. load.stamp = stamps
    BY <2>1 DEF NamedInv
  <2>5. \A n \in Nat \ {0} : \A v : Named(n, v) => n < stamps
    BY <2>1 DEF NamedInv
  <2>6. \A n \in Nat \ {0} : \A v : Named(n, v)' => n <= stamps
    BY <1>0, <2>3, <2>4, <2>5
  <2>7. \A n \in Nat \ {0} : \A v, w : Named(n, v)' /\ Named(n, w)' => v = w
    BY <1>0, <2>3, <2>4, <2>5 DEF NamedInv
  <2> QED
    BY <2>1, <2>6, <2>7 DEF NamedInv
<1>5. CASE LoadFails
  <2>1. UNCHANGED <<current, stamps, cache>> /\ load'.since = Never
    BY <1>5 DEF LoadFails, NoLoad
  <2>2. \A r \in Runs :
          /\ run'[r].plan = run[r].plan
          /\ ~Waiting(r) => run'[r] = run[r]
          /\ Waiting(r) => run'[r].awaited = AnswerOf(current)
    BY <1>5, AnsweringTyped DEF LoadFails, TypeOK
  <2>3. ASSUME NEW n \in Nat \ {0}, NEW v, Named(n, v)'
        PROVE  Named(n, v)
    <3>1. ASSUME NEW x \in Runs, run'[x].awaited.stamp = n, run'[x].awaited.sources = v
          PROVE  Named(n, v)
      <4>1. CASE Waiting(x)
        BY <2>2, <3>1, <4>1 DEF AnswerOf, Named
      <4>2. CASE ~Waiting(x)
        BY <2>2, <3>1, <4>2 DEF Named
      <4> QED
        BY <4>1, <4>2
    <3> QED
      BY <2>1, <2>2, <2>3, <3>1 DEF Named
  <2> QED
    BY <2>1, <2>3 DEF NamedInv
<1>6. CASE Register
  BY <1>1, <1>6 DEF Register, registryVars
<1>7. CASE Tick
  BY <1>1, <1>7 DEF Tick, registryVars
<1>8. CASE UNCHANGED vars
  BY <1>1, <1>8 DEF vars, registryVars
<1> QED
  BY <1>2, <1>3, <1>4, <1>5, <1>6, <1>7, <1>8 DEF Next, LoadAdvances

LEMMA NamedInit == Init => NamedInv
<1> SUFFICES ASSUME Init PROVE NamedInv
  OBVIOUS
<1>1. ~Loading
  BY DEF Init, NoLoad
<1>2. ASSUME NEW n \in Nat \ {0}, NEW v PROVE ~Named(n, v)
  <2>1. current.stamp = 0 /\ Len(cache) = 0
    BY DEF Init
  <2>2. \A r \in Runs : run[r].awaited.stamp = -1 /\ run[r].plan.stamp = -1
    BY DEF Init, Idle, NoAnswer
  <2>3. \A i \in 1..Len(cache) : FALSE
    BY <2>1
  <2> QED
    BY <2>1, <2>2, <2>3 DEF Named
<1> QED
  BY <1>1, <1>2 DEF NamedInv

LEMMA NamedIsEnough == TypeOK /\ NamedInv => HitPlannedAlike
<1> SUFFICES ASSUME TypeOK, NamedInv, NEW r \in Runs,
                    NEW version, version = run[r].awaited.stamp,
                    Awaited(r, "version"), Hit(CacheKey(r, version)),
                    NEW i, i = Position(CacheKey(r, version)),
                    ~cache[i].value.straddled,
                    run[r].plan.stamp = version, version # 0
             PROVE  cache[i].value.sources = run[r].plan.sources
  BY DEF HitPlannedAlike
<1>1. i \in 1..Len(cache) /\ cache[i].key = CacheKey(r, version)
  BY PositionHolds DEF Hit, TypeOK
<1>2. version \in Nat \ {0}
  <2>1. run[r] \in Run /\ run[r].awaited # NoAnswer
    BY DEF Awaited, TypeOK
  <2>2. run[r].awaited \in Answer
    BY <2>1 DEF Run
  <2> QED
    BY <2>2 DEF Answer
<1>3. Named(version, cache[i].value.sources)
  <2>1. CacheKey(r, version).registryVersion = version
    BY DEF CacheKey
  <2>2. cache[i].key.registryVersion = version
    BY <1>1, <2>1
  <2> QED
    BY <1>1, <2>2 DEF Named
<1>4. Named(version, run[r].plan.sources)
  BY DEF Named
<1> QED
  BY <1>2, <1>3, <1>4 DEF NamedInv

(* A cached tile is served to a request that planned on the same           *)
(* descriptors, but for the two ways the code has to file it elsewhere.    *)
THEOREM HitsArePlannedAlike == Spec => []HitPlannedAlike
<1>1. Init => TypeOK /\ NamedInv
  BY TypeInit, NamedInit
<1>2. TypeOK /\ NamedInv /\ [Next]_vars => (TypeOK /\ NamedInv)'
  BY TypeStep, NamedStep
<1> QED
  BY <1>1, <1>2, NamedIsEnough, PTL DEF Spec

=============================================================================
