---------------------------- MODULE AppSession_proofs ----------------------------
(***************************************************************************)
(* One tab of the app, for any number of reports, filters, runs and        *)
(* changes under way, clicks, faults and writes by others: what it shows   *)
(* is what it asks for, never older than before, and each tile in its own  *)
(* frame; and a spinner has a call to wait for.                            *)
(*                                                                         *)
(* The reasons, one invariant each, rest on the types of the values:       *)
(* RunsInv on what useReportQuery keeps, FetchInv on what useGatewayFetch  *)
(* keeps, AgesInv on when answers were computed, VersionsInv on which      *)
(* tiles a version of a report has, DraftInv on what previews and saves    *)
(* may be under way together.                                              *)
(***************************************************************************)
EXTENDS AppSession, SequenceTheorems, TLAPS

-----------------------------------------------------------------------------
(* Sequences.                                                              *)
LEMMA RemovedAt ==
  ASSUME NEW S, NEW s \in Seq(S), NEW i \in 1..Len(s)
  PROVE  /\ RemoveAt(s, i) \in Seq(S)
         /\ Len(RemoveAt(s, i)) = Len(s) - 1
         /\ \A j \in 1..(Len(s) - 1) :
              RemoveAt(s, i)[j] = s[IF j < i THEN j ELSE j + 1]
<1> DEFINE l == SubSeq(s, 1, i - 1)
           r == SubSeq(s, i + 1, Len(s))
<1>1. Len(s) \in Nat /\ \A j \in 1..Len(s) : s[j] \in S
  OBVIOUS
<1>2. l \in Seq(S) /\ Len(l) = i - 1 /\ \A j \in 1..(i - 1) : l[j] = s[j]
  <2>1. \A j \in 1..(i - 1) : j \in 1..Len(s)
    BY <1>1
  <2>2. \A j \in 1..(i - 1) : s[j] \in S
    BY <1>1, <2>1
  <2>3. \A j \in 1..(i - 1) : l[j] = s[1 + j - 1]
    BY <1>1, <2>2, SubSeqProperties
  <2>4. l \in Seq(S) /\ Len(l) = IF 1 <= i - 1 THEN i - 1 - 1 + 1 ELSE 0
    BY <1>1, <2>2, SubSeqProperties
  <2> QED
    BY <1>1, <2>3, <2>4
<1>3. /\ r \in Seq(S) /\ Len(r) = Len(s) - i
      /\ \A j \in 1..(Len(s) - i) : r[j] = s[i + j]
  <2>1. \A j \in (i + 1)..Len(s) : s[j] \in S
    BY <1>1
  <2>2. \A j \in 1..(Len(s) - (i + 1) + 1) : r[j] = s[i + 1 + j - 1]
    BY <1>1, <2>1, SubSeqProperties
  <2>3. r \in Seq(S) /\ Len(r) = IF i + 1 <= Len(s) THEN Len(s) - (i + 1) + 1 ELSE 0
    BY <1>1, <2>1, SubSeqProperties
  <2> QED
    BY <1>1, <2>2, <2>3
<1> HIDE DEF l, r
<1>4. /\ l \o r \in Seq(S) /\ Len(l \o r) = Len(l) + Len(r)
      /\ \A j \in 1..(Len(l) + Len(r)) :
           (l \o r)[j] = IF j <= Len(l) THEN l[j] ELSE r[j - Len(l)]
  <2>1. Len(l) \in Nat /\ Len(r) \in Nat
    BY <1>1, <1>2, <1>3
  <2> QED
    BY <1>2, <1>3, <2>1, ConcatProperties
<1>5. RemoveAt(s, i) = l \o r
  BY DEF RemoveAt, l, r
<1>6. Len(l) + Len(r) = Len(s) - 1
  BY <1>1, <1>2, <1>3
<1>7. ASSUME NEW j \in 1..(Len(s) - 1)
      PROVE  (l \o r)[j] = s[IF j < i THEN j ELSE j + 1]
  <2>1. CASE j < i
    BY <1>1, <1>2, <1>4, <1>6, <2>1
  <2>2. CASE ~(j < i)
    <3>1. j - (i - 1) \in 1..(Len(s) - i) /\ i + (j - (i - 1)) = j + 1
      BY <1>1, <2>2
    <3>2. (l \o r)[j] = r[j - (i - 1)]
      BY <1>1, <1>2, <1>4, <1>6, <2>2
    <3> QED
      BY <1>3, <2>2, <3>1, <3>2
  <2> QED
    BY <2>1, <2>2
<1> QED
  BY <1>4, <1>5, <1>6, <1>7

(* What is left has been there, at two places if it is at two places.      *)
LEMMA LeftHasBeenThere ==
  ASSUME NEW S, NEW s \in Seq(S), NEW i \in 1..Len(s)
  PROVE  /\ \A j \in 1..Len(RemoveAt(s, i)) :
              \E k \in 1..Len(s) : k # i /\ RemoveAt(s, i)[j] = s[k]
         /\ \A k \in 1..Len(s) :
              k # i => \E j \in 1..Len(RemoveAt(s, i)) : RemoveAt(s, i)[j] = s[k]
         /\ \A j, k \in 1..Len(RemoveAt(s, i)) : j # k =>
              \E m, n \in 1..Len(s) :
                m # n /\ RemoveAt(s, i)[j] = s[m] /\ RemoveAt(s, i)[k] = s[n]
<1> DEFINE t == RemoveAt(s, i)
           at(j) == IF j < i THEN j ELSE j + 1
<1>1. /\ Len(t) = Len(s) - 1 /\ Len(s) \in Nat
      /\ \A j \in 1..Len(t) : t[j] = s[at(j)]
  <2>1. /\ Len(t) = Len(s) - 1
        /\ \A j \in 1..(Len(s) - 1) : t[j] = s[at(j)]
    BY RemovedAt
  <2> QED
    BY <2>1
<1> HIDE DEF t
<1>2. \A j \in 1..Len(t) : at(j) \in 1..Len(s) /\ at(j) # i
  BY <1>1
<1>3. \A j, k \in 1..Len(t) : j # k => at(j) # at(k)
  BY <1>1
<1>4. \A k \in 1..Len(s) : k # i => \E j \in 1..Len(t) : at(j) = k
  <2> TAKE k \in 1..Len(s)
  <2> HAVE k # i
  <2>1. CASE k < i
    <3> k \in 1..Len(t) /\ at(k) = k
      BY <1>1, <2>1
    <3> QED
      OBVIOUS
  <2>2. CASE k > i
    <3> k - 1 \in 1..Len(t) /\ at(k - 1) = k
      BY <1>1, <2>2
    <3> QED
      OBVIOUS
  <2> QED
    BY <2>1, <2>2
<1>5. /\ \A j \in 1..Len(t) : \E k \in 1..Len(s) : k # i /\ t[j] = s[k]
      /\ \A j, k \in 1..Len(t) : j # k =>
           \E m, n \in 1..Len(s) : m # n /\ t[j] = s[m] /\ t[k] = s[n]
  <2> HIDE DEF at
  <2> QED
    BY <1>1, <1>2, <1>3
<1>6. \A k \in 1..Len(s) : k # i => \E j \in 1..Len(t) : t[j] = s[k]
  <2> HIDE DEF at
  <2> QED
    BY <1>1, <1>4
<1> QED
  BY <1>5, <1>6 DEF t

-----------------------------------------------------------------------------
(* Types.                                                                  *)
Versions == [tiles : Seq(Tile), since : Nat]
Answers == [key : Keys, report : Versions, at : Nat]
Definitions == [of : Ids, report : Versions]
Listings == [of : {Catalogue}, listed : SUBSET Ids]
Fetches ==
  [loading : BOOLEAN, data : Definitions \cup Listings \cup {None},
   latest : Pages \cup {None}, deps : (Pages \X Urls) \cup {None}]
Hooks ==
  [loading : BOOLEAN, data : Answers \cup {None}, latest : Keys \cup {None},
   deps : Keys \cup {None}]
Posts ==
  [slot : Runs, mine : BOOLEAN, key : Keys, answer : Answers \cup {None, Unknown}]
Changes ==
  [slot : Edits, kind : {"save", "delete"}, id : Ids, tiles : Seq(Tile),
   done : BOOLEAN, by : {"mounted", "left", "gone"}]
Drafts == [id : Customs \cup {None}, tiles : Seq(Tile)]

ShellTypeOK ==
  /\ world \in Nat
  /\ stored \in [Ids -> Versions \cup {None}]
  /\ url \in Urls
  /\ page \in Pages

ViewerTypeOK ==
  /\ search \in Filters \cup {None}
  /\ fetch \in Fetches
  /\ gets \in Seq(Pages)
  /\ query \in Hooks
  /\ posts \in SUBSET Posts
  /\ cache \in Seq(Answers)
  /\ seen \in Nat
  /\ twice \in BOOLEAN

BuilderTypeOK ==
  /\ draft \in Drafts
  /\ preview \in Seq(Tile) \cup {None}
  /\ previews \in SUBSET Seq(Tile)
  /\ busy \in BOOLEAN
  /\ list \in SUBSET Ids
  /\ changes \in SUBSET Changes
  /\ previewed \in Seq(Tile) \cup {None}

(* A viewer has asked for reports only.                                    *)
MountedOK ==
  page \in Ids => /\ fetch.data # None => fetch.data.of \in Ids
                  /\ \A i \in 1..Len(gets) : gets[i] \in Ids

TabTypeOK == ShellTypeOK /\ ViewerTypeOK /\ MountedOK /\ BuilderTypeOK

LEMMA PagesDiffer ==
  /\ Catalogue \notin Ids /\ Builder \notin Ids /\ Catalogue # Builder
  /\ Ids \subseteq Pages /\ Catalogue \in Pages /\ Builder \in Pages
  /\ None \notin Pages /\ None \notin Pages \X Urls
BY PageAssumption DEF Pages

-----------------------------------------------------------------------------
(* The cache of the tab, by the set of its entries.                        *)
Entries(c) == {c[i] : i \in 1..Len(c)}

DistinctKeys(c) == \A i, j \in 1..Len(c) : c[i].key = c[j].key => i = j

LEMMA HeldIsCached ==
  ASSUME ViewerTypeOK, NEW key, Holds(key)
  PROVE  /\ Place(key) \in 1..Len(cache)
         /\ Cached(key) = cache[Place(key)]
         /\ Cached(key) \in Entries(cache) /\ Cached(key) \in Answers
         /\ Cached(key).key = key
<1>1. cache \in Seq(Answers) /\ DOMAIN cache = 1..Len(cache)
  BY DEF ViewerTypeOK
<1>2. Place(key) \in DOMAIN cache /\ cache[Place(key)].key = key
  BY DEF Holds, Place
<1> QED
  BY <1>1, <1>2 DEF Cached, Entries

LEMMA ForgottenEntries ==
  ASSUME ViewerTypeOK, DistinctKeys(cache), NEW key
  PROVE  /\ Without(key) \in Seq(Answers)
         /\ Entries(Without(key)) \subseteq {e \in Entries(cache) : e.key # key}
         /\ DistinctKeys(Without(key))
<1>1. cache \in Seq(Answers) /\ DOMAIN cache = 1..Len(cache)
  BY DEF ViewerTypeOK
<1>2. CASE ~Holds(key)
  BY <1>1, <1>2 DEF Holds, Without, Entries
<1>3. CASE Holds(key)
  <2> DEFINE t == RemoveAt(cache, Place(key))
  <2>1. Place(key) \in 1..Len(cache) /\ cache[Place(key)].key = key
    BY <1>3, HeldIsCached
  <2>2. t \in Seq(Answers)
    BY <1>1, <2>1, RemovedAt
  <2>3. /\ \A j \in 1..Len(t) :
             \E k \in 1..Len(cache) : k # Place(key) /\ t[j] = cache[k]
        /\ \A j, k \in 1..Len(t) : j # k =>
             \E m, n \in 1..Len(cache) : m # n /\ t[j] = cache[m] /\ t[k] = cache[n]
    BY <1>1, <2>1, LeftHasBeenThere
  <2>4. Without(key) = t
    BY <1>3 DEF Without
  <2> HIDE DEF t
  <2>5. Entries(t) \subseteq {e \in Entries(cache) : e.key # key}
    BY <2>1, <2>3 DEF Entries, DistinctKeys
  <2>6. DistinctKeys(t)
    <3> SUFFICES ASSUME NEW j \in 1..Len(t), NEW k \in 1..Len(t), j # k,
                        t[j].key = t[k].key
                 PROVE  FALSE
      BY DEF DistinctKeys
    <3>1. PICK m \in 1..Len(cache), n \in 1..Len(cache) :
            m # n /\ t[j] = cache[m] /\ t[k] = cache[n]
      BY <2>3
    <3> QED
      BY <3>1 DEF DistinctKeys
  <2> QED
    BY <2>2, <2>4, <2>5, <2>6
<1> QED
  BY <1>2, <1>3

LEMMA AppendedEntry ==
  ASSUME NEW c \in Seq(Answers), NEW a \in Answers, DistinctKeys(c),
         \A e \in Entries(c) : e.key # a.key
  PROVE  /\ Append(c, a) \in Seq(Answers)
         /\ Entries(Append(c, a)) = Entries(c) \cup {a}
         /\ DistinctKeys(Append(c, a))
<1> DEFINE d == Append(c, a)
<1>1. /\ d \in Seq(Answers) /\ Len(d) = Len(c) + 1 /\ Len(c) \in Nat
      /\ \A i \in 1..Len(c) : d[i] = c[i]
      /\ d[Len(c) + 1] = a
  BY AppendProperties
<1> HIDE DEF d
<1>2. Entries(d) \subseteq Entries(c) \cup {a}
  <2> SUFFICES ASSUME NEW i \in 1..Len(d) PROVE d[i] \in Entries(c) \cup {a}
    BY DEF Entries
  <2>1. i \in 1..Len(c) \/ i = Len(c) + 1
    BY <1>1
  <2> QED
    BY <1>1, <2>1 DEF Entries
<1>3. Entries(c) \cup {a} \subseteq Entries(d)
  <2>1. \A i \in 1..Len(c) : i \in 1..Len(d)
    BY <1>1
  <2>2. Len(c) + 1 \in 1..Len(d)
    BY <1>1
  <2> QED
    BY <1>1, <2>1, <2>2 DEF Entries
<1>4. DistinctKeys(d)
  <2> SUFFICES ASSUME NEW i \in 1..Len(d), NEW j \in 1..Len(d),
                      d[i].key = d[j].key
               PROVE  i = j
    BY DEF DistinctKeys
  <2>1. /\ i \in 1..Len(c) \/ i = Len(c) + 1
        /\ j \in 1..Len(c) \/ j = Len(c) + 1
    BY <1>1
  <2>2. \A k \in 1..Len(c) : d[k].key # a.key
    BY <1>1 DEF Entries
  <2> QED
    BY <1>1, <2>1, <2>2 DEF DistinctKeys
<1> QED
  BY <1>1, <1>2, <1>3, <1>4 DEF d

LEMMA TouchedEntries ==
  ASSUME ViewerTypeOK, DistinctKeys(cache), NEW key, Holds(key)
  PROVE  /\ Touched(key) \in Seq(Answers)
         /\ Entries(Touched(key)) \subseteq Entries(cache)
         /\ DistinctKeys(Touched(key))
<1>1. Cached(key) \in Answers /\ Cached(key).key = key
      /\ Cached(key) \in Entries(cache)
  BY HeldIsCached
<1>2. /\ Without(key) \in Seq(Answers)
      /\ Entries(Without(key)) \subseteq {e \in Entries(cache) : e.key # key}
      /\ DistinctKeys(Without(key))
  BY ForgottenEntries
<1> QED
  BY <1>1, <1>2, AppendedEntry DEF Touched

LEMMA SetEntries ==
  ASSUME ViewerTypeOK, DistinctKeys(cache), NEW a \in Answers
  PROVE  /\ SetCached(a) \in Seq(Answers)
         /\ \A e \in Entries(SetCached(a)) :
              e = a \/ (e \in Entries(cache) /\ e.key # a.key)
         /\ DistinctKeys(SetCached(a))
<1> DEFINE room == IF Len(cache) >= MaxEntries THEN Tail(cache) ELSE cache
<1>1. cache \in Seq(Answers) /\ Len(cache) \in Nat
  BY DEF ViewerTypeOK
<1>2. room \in Seq(Answers) /\ Entries(room) \subseteq Entries(cache)
      /\ DistinctKeys(room)
  <2>1. CASE Len(cache) >= MaxEntries
    <3>1. cache # <<>>
      BY <2>1, EntriesAssumption
    <3>2. /\ Tail(cache) \in Seq(Answers) /\ Len(Tail(cache)) = Len(cache) - 1
          /\ \A i \in 1..Len(Tail(cache)) : Tail(cache)[i] = cache[i + 1]
      BY <1>1, <3>1, HeadTailProperties
    <3>3. \A i \in 1..Len(Tail(cache)) : i + 1 \in 1..Len(cache)
      BY <1>1, <3>2
    <3>4. Entries(Tail(cache)) \subseteq Entries(cache)
      BY <3>2, <3>3 DEF Entries
    <3>5. DistinctKeys(Tail(cache))
      BY <3>2, <3>3 DEF DistinctKeys
    <3> QED
      BY <2>1, <3>2, <3>4, <3>5
  <2>2. CASE ~(Len(cache) >= MaxEntries)
    BY <1>1, <2>2
  <2> QED
    BY <2>1, <2>2
<1> DEFINE known == \E i \in DOMAIN room : room[i].key = a.key
           set == [i \in DOMAIN room |-> IF room[i].key = a.key THEN a ELSE room[i]]
<1>3. SetCached(a) = IF known THEN set ELSE Append(room, a)
  BY DEF SetCached
<1> HIDE DEF room
<1>4. DOMAIN room = 1..Len(room) /\ Len(room) \in Nat
      /\ \A i \in 1..Len(room) : room[i] \in Answers
  BY <1>2
<1>5. CASE known
  <2>1. set \in Seq(Answers) /\ Len(set) = Len(room)
    BY <1>4, IsASeq
  <2>2. \A i \in 1..Len(set) :
          /\ set[i] = IF room[i].key = a.key THEN a ELSE room[i]
          /\ set[i].key = room[i].key
    BY <1>4, <2>1
  <2> HIDE DEF set
  <2>3. \A e \in Entries(set) : e = a \/ (e \in Entries(room) /\ e.key # a.key)
    BY <2>1, <2>2 DEF Entries
  <2>4. DistinctKeys(set)
    BY <1>2, <2>1, <2>2 DEF DistinctKeys
  <2> QED
    BY <1>2, <1>3, <1>5, <2>1, <2>3, <2>4
<1>6. CASE ~known
  <2>1. \A e \in Entries(room) : e.key # a.key
    BY <1>4, <1>6 DEF Entries
  <2>2. /\ Append(room, a) \in Seq(Answers)
        /\ Entries(Append(room, a)) = Entries(room) \cup {a}
        /\ DistinctKeys(Append(room, a))
    BY <1>2, <2>1, AppendedEntry
  <2> QED
    BY <1>2, <1>3, <1>6, <2>1, <2>2
<1> QED
  BY <1>5, <1>6

-----------------------------------------------------------------------------
(* Steps, by what they do to the viewer.                                   *)
Elsewhere ==
  /\ UNCHANGED <<url, page, viewerVars>>
  /\ \/ UNCHANGED <<world, stored>>
     \/ /\ world' = world + 1
        /\ \/ stored' = stored
           \/ \E id \in Ids, v \in {None} \cup {Report(t, world + 1) : t \in Seq(Tile)} :
                stored' = [stored EXCEPT ![id] = v]

(* What a read of a report or of the list may come back with.              *)
ReadAnswer(path) ==
  {None} \cup {d \in Definitions :
                 /\ d.of = path
                 /\ \/ stored[path] # None /\ d.report = stored[path]
                    \/ path \in DOMAIN BuiltIns /\ d.report = Report(BuiltIns[path], 0)}
         \cup {l \in Listings : l.of = path}

Reads ==
  /\ UNCHANGED <<world, stored, url, page>>
  /\ \E i \in 1..Len(gets) : \E data \in ReadAnswer(gets[i]) : Return(i, data)

LEMMA Resolved ==
  ASSUME ShellTypeOK, NEW readable \in BOOLEAN, NEW id \in Ids, Known(id, readable)
  PROVE  /\ ResolveReports(readable)[id] \in Versions
         /\ \/ stored[id] # None /\ ResolveReports(readable)[id] = stored[id]
            \/ /\ id \in DOMAIN BuiltIns
               /\ ResolveReports(readable)[id] = Report(BuiltIns[id], 0)
<1> DEFINE usable == IF readable THEN Stored ELSE {}
<1>1. /\ id \in DOMAIN BuiltIns \cup usable
      /\ ResolveReports(readable)[id] =
           IF id \in usable THEN stored[id] ELSE Report(BuiltIns[id], 0)
  BY DEF Known, ResolveReports
<1>2. id \in usable => stored[id] # None
  BY DEF Stored
<1> HIDE DEF usable
<1>3. stored[id] \in Versions \cup {None}
  BY DEF ShellTypeOK
<1>4. id \in DOMAIN BuiltIns => Report(BuiltIns[id], 0) \in Versions
  BY TileAssumption DEF Report, Versions
<1> QED
  BY <1>1, <1>2, <1>3, <1>4

LEMMA GetsAreRead ==
  ASSUME TabTypeOK, NEW i \in DOMAIN gets, AnswerGet(i) \/ FailGet(i)
  PROVE  Reads
<1>1. /\ i \in 1..Len(gets) /\ gets[i] \in Pages
  BY DEF TabTypeOK, ViewerTypeOK
<1>2. \A data : Return(i, data) => UNCHANGED <<world, stored, url, page>>
  BY DEF Return, platformVars, tabVars
<1>3. CASE FailGet(i)
  BY <1>1, <1>2, <1>3 DEF FailGet, Reads, ReadAnswer
<1>4. CASE AnswerGet(i)
  <2>1. PICK readable \in BOOLEAN :
          IF gets[i] = Catalogue THEN Return(i, ListAnswer(readable))
          ELSE IF Known(gets[i], readable)
            THEN Return(i, DefinitionAnswer(gets[i], readable))
            ELSE Return(i, None)
    BY <1>4 DEF AnswerGet
  <2>2. DOMAIN ResolveReports(readable) \in SUBSET Ids
    BY DEF ResolveReports, Stored, Ids
  <2>3. CASE gets[i] = Catalogue
    <3>1. ListAnswer(readable) \in ReadAnswer(gets[i])
      BY <2>2, <2>3 DEF ListAnswer, ReadAnswer, Listings
    <3> QED
      BY <1>1, <1>2, <2>1, <2>3, <3>1 DEF Reads
  <2>4. CASE gets[i] # Catalogue /\ Known(gets[i], readable)
    <3>1. gets[i] \in Ids
      BY <2>2, <2>4 DEF Known
    <3>2. DefinitionAnswer(gets[i], readable) \in ReadAnswer(gets[i])
      BY <2>4, <3>1, Resolved DEF DefinitionAnswer, ReadAnswer, Definitions, TabTypeOK
    <3> QED
      BY <1>1, <1>2, <2>1, <2>4, <3>2 DEF Reads
  <2>5. CASE gets[i] # Catalogue /\ ~Known(gets[i], readable)
    BY <1>1, <1>2, <2>1, <2>5 DEF Reads, ReadAnswer
  <2> QED
    BY <2>3, <2>4, <2>5
<1> QED
  BY <1>3, <1>4

ViewerStep ==
  \/ Elsewhere
  \/ DiscoverUrl /\ UNCHANGED viewerVars
  \/ Reads
  \/ \E p \in posts : ServePost(p) \/ AnswerPost(p) \/ FailPost(p)
  \/ Effects
  \/ Refresh
  \/ \E filters \in Filters : PatchFilters(filters)
  \/ \E to \in Pages, filters \in Filters \cup {None} : Navigate(to, filters)
  \/ Reload

LEMMA StepsOfViewer ==
  ASSUME TabTypeOK, [Next]_vars
  PROVE  ViewerStep
<1>1. CASE UNCHANGED vars
  BY <1>1 DEF vars, shellVars, platformVars, tabVars, viewerVars, ViewerStep, Elsewhere
<1>2. CASE Outside
  <2>1. ASSUME NEW id \in Ids, NEW tiles \in Written, AnotherAuthor(id, tiles),
               UNCHANGED viewerVars
        PROVE  Elsewhere
    BY <2>1, WrittenAssumption DEF AnotherAuthor, Write, tabVars, Elsewhere
  <2>2. ASSUME OrdersArrive \/ PostDeploy, UNCHANGED viewerVars
        PROVE  Elsewhere
    BY <2>2 DEF OrdersArrive, PostDeploy, tabVars, Elsewhere
  <2> QED
    BY <1>2, <2>1, <2>2 DEF Outside, ViewerStep
<1>3. CASE Calls
  BY <1>3, GetsAreRead DEF Calls, ViewerStep
<1>4. CASE Viewing
  BY <1>4 DEF Viewing, ViewerStep
<1>5. CASE Moving
  BY <1>5, WrittenAssumption DEF Moving, ViewerStep
<1>6. CASE Drafting
  <2>1. ASSUME NEW c \in changes, Mutate(c), UNCHANGED viewerVars
        PROVE  Elsewhere
    <3>1. c.id \in Ids /\ c.tiles \in Seq(Tile)
      BY DEF TabTypeOK, BuilderTypeOK, Changes
    <3> QED
      BY <2>1, <3>1 DEF Mutate, Write, Erase, tabVars, Elsewhere
  <2>2. ASSUME NEW c \in changes, Refetch(c) \/ ChangeFails(c), UNCHANGED viewerVars
        PROVE  Elsewhere
    BY <2>2 DEF Refetch, ChangeFails, shellVars, platformVars, tabVars, Elsewhere
  <2>3. ASSUME Edit \/ Press, UNCHANGED viewerVars
        PROVE  Elsewhere
    BY <2>3 DEF Edit, Press, platformVars, Elsewhere
  <2>4. ASSUME NEW tiles \in previews, EndPreview(tiles), UNCHANGED viewerVars
        PROVE  Elsewhere
    BY <2>4 DEF EndPreview, platformVars, tabVars, Elsewhere
  <2>5. ASSUME ReadList, UNCHANGED viewerVars
        PROVE  Elsewhere
    BY <2>5 DEF ReadList, shellVars, platformVars, tabVars, Elsewhere
  <2> QED
    BY <1>6, <2>1, <2>2, <2>3, <2>4, <2>5
       DEF Drafting, ViewerStep, SetId, AddTile, RemoveTile, PatchTile,
           StartPreview, StartSave, StartRemove
<1> QED
  BY <1>1, <1>2, <1>3, <1>4, <1>5, <1>6 DEF Next

-----------------------------------------------------------------------------
(* The types are kept.                                                     *)
CacheOK == DistinctKeys(cache)

LEMMA KeyTyped ==
  ASSUME TabTypeOK, page \in Ids
  PROVE  Wanted \in Filters /\ Key \in Keys /\ RunInputs = Key
<1>1. Loaded => DefaultOf[fetch.data.of] \in Filters
  BY FilterAssumption DEF Loaded, TabTypeOK, MountedOK
<1>2. search \in Filters \cup {None} /\ HookDefault \in Filters
  BY FilterAssumption DEF TabTypeOK, ViewerTypeOK
<1>3. Wanted \in Filters
  BY <1>1, <1>2 DEF Wanted, DecodeFilters
<1> QED
  BY <1>3 DEF Key, Keys, RunInputs

LEMMA SeenTyped ==
  ASSUME TabTypeOK, NEW a \in Answers
  PROVE  SeenNow(a) \in Nat /\ SeenNow(a) >= seen
         /\ (a.key = Watched => SeenNow(a) >= a.at)
         /\ (a.key # Watched => SeenNow(a) = seen)
         /\ (SeenNow(a) = seen \/ SeenNow(a) = a.at)
BY DEF SeenNow, Answers, TabTypeOK, ViewerTypeOK

(* What the viewer keeps when it asks, or shows what it has.               *)
ShowsCached ==
  /\ Holds(Key)
  /\ query' = [loading |-> FALSE, data |-> Cached(Key), latest |-> Key, deps |-> Key]
  /\ cache' = Touched(Key)
  /\ seen' = SeenNow(Cached(Key))
  /\ UNCHANGED <<posts, twice>>

Asks ==
  /\ query'.loading /\ query'.data = query.data
  /\ query'.latest = Key /\ query'.deps = Key /\ query' \in Hooks
  /\ \E r \in Runs :
       posts' = posts \cup {[slot |-> r, mine |-> TRUE, key |-> Key, answer |-> None]}
  /\ twice' = (twice \/ (Key = Watched /\ \E p \in posts : p.key = Key))
  /\ UNCHANGED seen

LEMMA PostAsks ==
  ASSUME TabTypeOK, page \in Ids, Post(Key)
  PROVE  Asks
<1>1. query \in Hooks /\ Key \in Keys
  BY KeyTyped DEF TabTypeOK, ViewerTypeOK
<1>2. query' = [query EXCEPT !.loading = TRUE, !.latest = Key, !.deps = Key]
  BY DEF Post
<1>3. /\ query' \in Hooks /\ query'.loading = TRUE /\ query'.data = query.data
      /\ query'.latest = Key /\ query'.deps = Key
  BY <1>1, <1>2 DEF Hooks
<1> QED
  BY <1>3 DEF Post, Asks

LEMMA EffectsDo ==
  ASSUME TabTypeOK, Effects
  PROVE  /\ EffectsDue
         /\ UNCHANGED <<world, stored, url, page, search>>
         /\ IF LoadDue THEN Load ELSE UNCHANGED <<fetch, gets>>
         /\ IF RunDue THEN ShowsCached \/ (Asks /\ cache' = Without(Key))
                      ELSE UNCHANGED <<query, posts, cache, seen, twice>>
<1>1. CASE RunDue
  <2>1. page \in Ids
    BY <1>1 DEF RunDue
  <2>2. RunInputs = Key
    BY <2>1, KeyTyped
  <2>3. Run(Key)
    BY <1>1, <2>2 DEF Effects
  <2>4. ShowsCached \/ (Post(Key) /\ cache' = Without(Key))
    BY <2>3 DEF Run, ShowCached, ShowsCached
  <2> QED
    BY <1>1, <2>1, <2>4, PostAsks DEF Effects, shellVars, platformVars, tabVars
<1>2. CASE ~RunDue
  BY <1>2 DEF Effects, shellVars, platformVars, tabVars
<1> QED
  BY <1>1, <1>2

LEMMA RefreshDoes ==
  ASSUME TabTypeOK, Refresh
  PROVE  /\ ~EffectsDue /\ OnScreen /\ IsConfigured
         /\ page \in Ids /\ query.deps = Key
         /\ Asks
         /\ UNCHANGED <<world, stored, url, page, search, fetch, gets, cache>>
<1>1. page \in Ids
  BY DEF Refresh, OnScreen, Loaded
<1>2. query.deps = Key
  BY <1>1, KeyTyped DEF Refresh, EffectsDue, RunDue
<1>3. Post(Key)
  BY <1>2 DEF Refresh
<1> QED
  BY <1>1, <1>2, <1>3, PostAsks DEF Refresh, platformVars

(* The load of useGatewayFetch.                                            *)
LEMMA LoadDoes ==
  ASSUME TabTypeOK, Load, LoadDue
  PROVE  /\ fetch' \in Fetches
         /\ fetch'.deps = <<page, url>>
         /\ \/ url = "discovering" /\ gets' = gets
               /\ (fetch'.loading <=> fetch.loading) /\ fetch'.data = fetch.data
               /\ fetch'.latest = fetch.latest
            \/ url = "known" /\ gets' = Append(gets, page)
               /\ fetch'.loading = TRUE /\ fetch'.data = fetch.data
               /\ fetch'.latest = page
            \/ url \in {"failed", "absent"} /\ gets' = gets
               /\ fetch'.loading = FALSE /\ fetch'.data = None
               /\ fetch'.latest = fetch.latest
<1>1. /\ fetch \in Fetches /\ page \in Pages /\ url \in Urls
      /\ <<page, url>> \in Pages \X Urls /\ LoadInputs = <<page, url>>
  BY DEF TabTypeOK, ViewerTypeOK, ShellTypeOK, LoadInputs
<1>2. CASE url = "discovering"
  <2>1. fetch' = [fetch EXCEPT !.deps = <<page, url>>] /\ gets' = gets
    BY <1>1, <1>2 DEF Load, IsConfigured
  <2>2. /\ fetch' \in Fetches /\ fetch'.deps = <<page, url>>
        /\ fetch'.data = fetch.data /\ fetch'.latest = fetch.latest
    BY <1>1, <2>1 DEF Fetches
  <2>3. fetch'.loading <=> fetch.loading
    BY <1>1, <2>1 DEF Fetches
  <2> QED
    BY <1>2, <2>1, <2>2, <2>3
<1>3. CASE url = "known"
  BY <1>1, <1>3 DEF Load, Fetches, IsConfigured
<1>4. CASE url \notin {"discovering", "known"}
  BY <1>1, <1>4 DEF Load, Fetches, IsConfigured, Urls
<1> QED
  BY <1>2, <1>3, <1>4

(* A read that comes back.                                                 *)
LEMMA ReadDoes ==
  ASSUME TabTypeOK, NEW i \in 1..Len(gets), NEW data \in ReadAnswer(gets[i]),
         Return(i, data)
  PROVE  /\ fetch' \in Fetches
         /\ gets' = RemoveAt(gets, i) /\ gets' \in Seq(Pages)
         /\ \A j \in 1..Len(gets') : \E k \in 1..Len(gets) : gets'[j] = gets[k]
         /\ IF gets[i] # fetch.latest THEN fetch' = fetch
            ELSE /\ fetch'.loading = FALSE /\ fetch'.data = data
                 /\ fetch'.latest = fetch.latest /\ fetch'.deps = fetch.deps
         /\ data # None => data.of = gets[i]
         /\ UNCHANGED <<world, stored, url, page, search, query, posts, cache, seen, twice>>
<1>1. fetch \in Fetches /\ gets \in Seq(Pages)
  BY DEF TabTypeOK, ViewerTypeOK
<1>2. /\ data \in Definitions \cup Listings \cup {None}
      /\ data # None => data.of = gets[i]
  BY DEF ReadAnswer
<1>3. gets' = RemoveAt(gets, i)
  BY DEF Return
<1>4. gets' \in Seq(Pages)
      /\ \A j \in 1..Len(gets') : \E k \in 1..Len(gets) : gets'[j] = gets[k]
  BY <1>1, <1>3, RemovedAt, LeftHasBeenThere
<1>5. fetch' = IF gets[i] # fetch.latest THEN fetch
               ELSE [fetch EXCEPT !.loading = FALSE, !.data = data]
  BY DEF Return
<1>6. fetch' \in Fetches
  BY <1>1, <1>2, <1>5 DEF Fetches
<1> QED
  BY <1>1, <1>2, <1>3, <1>4, <1>5, <1>6 DEF Return, platformVars, tabVars, Fetches

(* A run that is served, answered or fails.                                *)
LEMMA ServedTyped ==
  ASSUME TabTypeOK, NEW p \in posts, ServePost(p)
  PROVE  \E a \in Answers \cup {Unknown} :
           /\ p.answer = None
           /\ posts' = (posts \ {p}) \cup {[p EXCEPT !.answer = a]}
           /\ [p EXCEPT !.answer = a] \in Posts
           /\ a # Unknown =>
                /\ a.key = p.key /\ a.at = world
                /\ \/ stored[p.key[1]] # None /\ a.report = stored[p.key[1]]
                   \/ /\ p.key[1] \in DOMAIN BuiltIns
                      /\ a.report = Report(BuiltIns[p.key[1]], 0)
           /\ UNCHANGED <<world, stored, url, page, search, fetch, gets, query, cache,
                          seen, twice>>
<1>1. p \in Posts /\ p.key \in Keys /\ p.key[1] \in Ids
  BY DEF TabTypeOK, ViewerTypeOK, Posts, Keys
<1>2. PICK readable \in BOOLEAN :
        posts' = (posts \ {p}) \cup
                     {[p EXCEPT !.answer = IF Known(p.key[1], readable)
                                             THEN RunAnswer(p.key, readable)
                                             ELSE Unknown]}
  BY DEF ServePost
<1>3. /\ p.answer = None
      /\ UNCHANGED <<world, stored, url, page, search, fetch, gets, query, cache,
                     seen, twice>>
  BY DEF ServePost, platformVars, tabVars
<1>4. CASE Known(p.key[1], readable)
  <2> DEFINE a == RunAnswer(p.key, readable)
  <2>1. /\ a \in Answers /\ a.key = p.key /\ a.at = world
        /\ a.report = ResolveReports(readable)[p.key[1]]
    BY <1>1, <1>4, Resolved DEF RunAnswer, Answers, TabTypeOK, ShellTypeOK
  <2>2. posts' = (posts \ {p}) \cup {[p EXCEPT !.answer = a]}
    BY <1>2, <1>4
  <2> HIDE DEF a
  <2>3. [p EXCEPT !.answer = a] \in Posts
    BY <1>1, <2>1 DEF Posts
  <2> QED
    BY <1>1, <1>3, <1>4, <2>1, <2>2, <2>3, Resolved DEF TabTypeOK
<1>5. CASE ~Known(p.key[1], readable)
  <2>1. posts' = (posts \ {p}) \cup {[p EXCEPT !.answer = Unknown]}
    BY <1>2, <1>5
  <2>2. [p EXCEPT !.answer = Unknown] \in Posts
    BY <1>1 DEF Posts
  <2> QED
    BY <1>3, <2>1, <2>2
<1> QED
  BY <1>4, <1>5

LEMMA AnswersTyped ==
  ASSUME TabTypeOK, NEW p \in posts, AnswerPost(p)
  PROVE  /\ p \in Posts /\ p.answer \in Answers /\ p.answer \notin {None, Unknown}
         /\ posts' = posts \ {p}
         /\ cache' = IF Accepted(p) THEN SetCached(p.answer) ELSE cache
         /\ query' \in Hooks
         /\ IF p.mine /\ Accepted(p)
              THEN /\ query'.loading = FALSE /\ query'.data = p.answer
                   /\ query'.latest = query.latest /\ query'.deps = query.deps
                   /\ seen' = SeenNow(p.answer)
              ELSE UNCHANGED <<query, seen>>
         /\ UNCHANGED <<world, stored, url, page, search, fetch, gets, twice>>
<1>1. p \in Posts /\ p.answer \in Answers /\ query \in Hooks
  BY DEF TabTypeOK, ViewerTypeOK, Posts, AnswerPost
<1>2. CASE p.mine /\ Accepted(p)
  <2>1. query' = [query EXCEPT !.loading = FALSE, !.data = p.answer]
    BY <1>2 DEF AnswerPost
  <2>2. /\ query' \in Hooks /\ query'.loading = FALSE /\ query'.data = p.answer
        /\ query'.latest = query.latest /\ query'.deps = query.deps
    BY <1>1, <2>1 DEF Hooks
  <2> QED
    BY <1>1, <1>2, <2>2 DEF AnswerPost, shellVars, platformVars, tabVars
<1>3. CASE ~(p.mine /\ Accepted(p))
  BY <1>1, <1>3 DEF AnswerPost, shellVars, platformVars, tabVars
<1> QED
  BY <1>2, <1>3

LEMMA FailsTyped ==
  ASSUME TabTypeOK, NEW p \in posts, FailPost(p)
  PROVE  /\ p \in Posts
         /\ posts' = posts \ {p}
         /\ query' \in Hooks
         /\ IF p.mine /\ Accepted(p)
              THEN /\ query'.loading = FALSE /\ query'.data = None
                   /\ query'.latest = query.latest /\ query'.deps = query.deps
              ELSE query' = query
         /\ UNCHANGED <<world, stored, url, page, search, fetch, gets, cache, seen, twice>>
<1>1. p \in Posts /\ query \in Hooks
  BY DEF TabTypeOK, ViewerTypeOK
<1>2. CASE p.mine /\ Accepted(p)
  <2>1. query' = [query EXCEPT !.loading = FALSE, !.data = None]
    BY <1>2 DEF FailPost
  <2>2. /\ query' \in Hooks /\ query'.loading = FALSE /\ query'.data = None
        /\ query'.latest = query.latest /\ query'.deps = query.deps
    BY <1>1, <2>1 DEF Hooks
  <2> QED
    BY <1>1, <1>2, <2>2 DEF FailPost, platformVars, tabVars
<1>3. CASE ~(p.mine /\ Accepted(p))
  BY <1>1, <1>3 DEF FailPost, platformVars, tabVars
<1> QED
  BY <1>2, <1>3

LEMMA ElsewhereTyped ==
  ASSUME ShellTypeOK, Elsewhere
  PROVE  ShellTypeOK'
<1>1. ASSUME NEW id \in Ids, NEW t \in Seq(Tile), world' = world + 1,
             stored' = [stored EXCEPT ![id] = Report(t, world + 1)]
      PROVE  stored' \in [Ids -> Versions \cup {None}]
  <2>1. Report(t, world + 1) \in Versions
    BY DEF Report, Versions, ShellTypeOK
  <2> QED
    BY <1>1, <2>1 DEF ShellTypeOK
<1>2. ASSUME NEW id \in Ids, stored' = [stored EXCEPT ![id] = None]
      PROVE  stored' \in [Ids -> Versions \cup {None}]
  BY <1>2 DEF ShellTypeOK
<1>3. stored' \in [Ids -> Versions \cup {None}]
  BY <1>1, <1>2 DEF Elsewhere, ShellTypeOK
<1> QED
  BY <1>3 DEF Elsewhere, ShellTypeOK

LEMMA FreshTyped ==
  /\ FreshFetch \in Fetches /\ FreshQuery \in Hooks
  /\ FreshFetch.data = None /\ FreshFetch.latest = None /\ FreshFetch.deps = None
  /\ FreshFetch.loading = TRUE
  /\ FreshQuery.data = None /\ FreshQuery.latest = None /\ FreshQuery.deps = None
  /\ FreshQuery.loading = FALSE
BY DEF FreshFetch, FreshQuery, Fetches, Hooks

LEMMA OrphansTyped ==
  ASSUME TabTypeOK
  PROVE  /\ Orphans \in SUBSET Posts
         /\ \A o \in Orphans : ~o.mine
         /\ \A o \in Orphans : \E p \in posts :
              /\ Accepted(p) /\ o = [p EXCEPT !.mine = FALSE]
              /\ o.key = p.key /\ o.answer = p.answer
<1>1. \A p \in posts : p \in Posts
  BY DEF TabTypeOK, ViewerTypeOK
<1>2. \A p \in Posts : LET o == [p EXCEPT !.mine = FALSE]
                       IN  /\ o \in Posts /\ ~o.mine
                           /\ o.key = p.key /\ o.answer = p.answer
  BY DEF Posts
<1> QED
  BY <1>1, <1>2 DEF Orphans, Left

LEMMA ViewerTypesKept ==
  ASSUME TabTypeOK, CacheOK, ViewerStep
  PROVE  ShellTypeOK' /\ ViewerTypeOK' /\ MountedOK' /\ CacheOK'
<1>1. ShellTypeOK /\ ViewerTypeOK /\ MountedOK
  BY DEF TabTypeOK
<1>2. CASE Elsewhere
  BY <1>1, <1>2, ElsewhereTyped
     DEF Elsewhere, viewerVars, hookVars, ViewerTypeOK, MountedOK, CacheOK
<1>3. CASE DiscoverUrl /\ UNCHANGED viewerVars
  <2>1. UNCHANGED <<world, stored, page, viewerVars>> /\ url' \in Urls
    BY <1>3 DEF DiscoverUrl, platformVars, Urls
  <2> QED
    BY <1>1, <2>1
       DEF viewerVars, hookVars, ShellTypeOK, ViewerTypeOK, MountedOK, CacheOK
<1>4. CASE Reads
  <2>1. PICK i \in 1..Len(gets) : \E data \in ReadAnswer(gets[i]) : Return(i, data)
    BY <1>4 DEF Reads
  <2>2. PICK data \in ReadAnswer(gets[i]) : Return(i, data)
    BY <2>1
  <2>3. /\ fetch' \in Fetches /\ gets' \in Seq(Pages)
        /\ \A j \in 1..Len(gets') : \E k \in 1..Len(gets) : gets'[j] = gets[k]
        /\ fetch'.data = fetch.data \/ fetch'.data = data
        /\ data # None => data.of = gets[i]
        /\ UNCHANGED <<world, stored, url, page, search, query, posts, cache, seen, twice>>
    BY <2>2, ReadDoes
  <2> QED
    BY <1>1, <2>3 DEF ShellTypeOK, ViewerTypeOK, MountedOK, CacheOK
<1>5. ASSUME NEW p \in posts, ServePost(p)
      PROVE  ShellTypeOK' /\ ViewerTypeOK' /\ MountedOK' /\ CacheOK'
  BY <1>1, <1>5, ServedTyped DEF ShellTypeOK, ViewerTypeOK, MountedOK, CacheOK
<1>6. ASSUME NEW p \in posts, AnswerPost(p)
      PROVE  ShellTypeOK' /\ ViewerTypeOK' /\ MountedOK' /\ CacheOK'
  <2>1. /\ query' \in Hooks /\ posts' \in SUBSET Posts
        /\ UNCHANGED <<world, stored, url, page, search, fetch, gets, twice>>
    BY <1>1, <1>6, AnswersTyped DEF ViewerTypeOK
  <2>2. cache' \in Seq(Answers) /\ DistinctKeys(cache')
    BY <1>1, <1>6, AnswersTyped, SetEntries DEF CacheOK, ViewerTypeOK
  <2>3. seen' \in Nat
    BY <1>1, <1>6, AnswersTyped, SeenTyped DEF ViewerTypeOK
  <2> QED
    BY <1>1, <2>1, <2>2, <2>3 DEF ShellTypeOK, ViewerTypeOK, MountedOK, CacheOK
<1>7. ASSUME NEW p \in posts, FailPost(p)
      PROVE  ShellTypeOK' /\ ViewerTypeOK' /\ MountedOK' /\ CacheOK'
  BY <1>1, <1>7, FailsTyped DEF ShellTypeOK, ViewerTypeOK, MountedOK, CacheOK
<1>a. ASSUME Asks, page \in Ids PROVE posts' \in SUBSET Posts /\ twice' \in BOOLEAN
                                      /\ query' \in Hooks /\ seen' \in Nat
  <2>1. Key \in Keys
    BY <1>a, KeyTyped
  <2>2. \A r \in Runs :
          [slot |-> r, mine |-> TRUE, key |-> Key, answer |-> None] \in Posts
    BY <2>1 DEF Posts
  <2>3. twice' \in BOOLEAN
    BY <1>a, Zenon DEF Asks
  <2> QED
    BY <1>1, <1>a, <2>2, <2>3 DEF Asks, ViewerTypeOK
<1>8. CASE Effects
  <2>1. /\ UNCHANGED <<world, stored, url, page, search>>
        /\ IF LoadDue THEN Load ELSE UNCHANGED <<fetch, gets>>
        /\ IF RunDue THEN ShowsCached \/ (Asks /\ cache' = Without(Key))
                     ELSE UNCHANGED <<query, posts, cache, seen, twice>>
    BY <1>8, EffectsDo
  <2>2. /\ fetch' \in Fetches /\ gets' \in Seq(Pages) /\ MountedOK'
    <3>1. CASE LoadDue
      <4>1. /\ fetch' \in Fetches
            /\ fetch'.data = fetch.data \/ fetch'.data = None
            /\ gets' = gets \/ gets' = Append(gets, page)
        BY <2>1, <3>1, LoadDoes
      <4>2. /\ gets' \in Seq(Pages)
            /\ \A j \in 1..Len(gets') :
                 gets'[j] = page \/ \E k \in 1..Len(gets) : gets'[j] = gets[k]
        <5>1. gets \in Seq(Pages) /\ page \in Pages
          BY <1>1 DEF ViewerTypeOK, ShellTypeOK
        <5>2. CASE gets' = gets
          BY <5>1, <5>2
        <5>3. CASE gets' = Append(gets, page)
          <6>1. /\ gets' \in Seq(Pages) /\ Len(gets') = Len(gets) + 1
                /\ Len(gets) \in Nat
                /\ \A k \in 1..Len(gets) : gets'[k] = gets[k]
                /\ gets'[Len(gets) + 1] = page
            BY <5>1, <5>3, AppendProperties
          <6>2. \A j \in 1..Len(gets') : j \in 1..Len(gets) \/ j = Len(gets) + 1
            BY <6>1
          <6> QED
            BY <6>1, <6>2
        <5> QED
          BY <4>1, <5>2, <5>3
      <4> QED
        BY <1>1, <2>1, <4>1, <4>2 DEF MountedOK
    <3>2. CASE ~LoadDue
      BY <1>1, <2>1, <3>2 DEF ViewerTypeOK, MountedOK
    <3> QED
      BY <3>1, <3>2
  <2>3. /\ query' \in Hooks /\ posts' \in SUBSET Posts /\ cache' \in Seq(Answers)
        /\ DistinctKeys(cache') /\ seen' \in Nat /\ twice' \in BOOLEAN
    <3>1. CASE RunDue /\ ShowsCached
      <4>1. Key \in Keys /\ Cached(Key) \in Answers
        BY <1>1, <3>1, KeyTyped, HeldIsCached DEF RunDue, ShowsCached
      <4>2. query' \in Hooks
        BY <3>1, <4>1 DEF ShowsCached, Hooks
      <4>3. seen' \in Nat
        BY <3>1, <4>1, SeenTyped DEF ShowsCached
      <4> QED
        BY <1>1, <3>1, <4>2, <4>3, TouchedEntries DEF ShowsCached, CacheOK, ViewerTypeOK
    <3>2. CASE RunDue /\ Asks /\ cache' = Without(Key)
      BY <1>1, <1>a, <3>2, ForgottenEntries DEF RunDue, CacheOK
    <3>3. CASE UNCHANGED <<query, posts, cache, seen, twice>>
      BY <1>1, <3>3 DEF ViewerTypeOK, CacheOK
    <3> QED
      BY <2>1, <3>1, <3>2, <3>3
  <2> QED
    BY <1>1, <2>1, <2>2, <2>3 DEF ShellTypeOK, ViewerTypeOK, CacheOK
<1>9. CASE Refresh
  BY <1>1, <1>9, <1>a, RefreshDoes DEF ShellTypeOK, ViewerTypeOK, MountedOK, CacheOK
<1>10. ASSUME NEW filters \in Filters, PatchFilters(filters)
       PROVE  ShellTypeOK' /\ ViewerTypeOK' /\ MountedOK' /\ CacheOK'
  BY <1>1, <1>10
     DEF PatchFilters, platformVars, hookVars, ShellTypeOK, ViewerTypeOK, MountedOK,
         CacheOK
<1>11. ASSUME NEW to \in Pages, NEW filters \in Filters \cup {None},
              Navigate(to, filters)
       PROVE  ShellTypeOK' /\ ViewerTypeOK' /\ MountedOK' /\ CacheOK'
  <2>1. page' = to /\ search' = filters
        /\ UNCHANGED <<world, stored, cache, seen, twice>>
    BY <1>11 DEF Navigate, platformVars
  <2>2. CASE {page, to} \subseteq Ids
    BY <1>1, <1>11, <2>1, <2>2
       DEF Navigate, ShellTypeOK, ViewerTypeOK, MountedOK, CacheOK
  <2>3. CASE ~({page, to} \subseteq Ids)
    <3>1. /\ url' \in Urls /\ fetch' = FreshFetch /\ gets' = <<>>
          /\ query' = FreshQuery /\ posts' = Orphans
      BY <1>1, <1>11, <2>3 DEF Navigate, ShellTypeOK, Urls
    <3>2. gets' \in Seq(Pages) /\ Len(gets') = 0
      BY <3>1
    <3> QED
      BY <1>1, <2>1, <3>1, <3>2, FreshTyped, OrphansTyped
         DEF ShellTypeOK, ViewerTypeOK, MountedOK, CacheOK
  <2> QED
    BY <2>2, <2>3
<1>12. CASE Reload
  <2>1. /\ url' \in Urls /\ fetch' = FreshFetch /\ gets' = <<>>
        /\ query' = FreshQuery /\ posts' = {} /\ cache' = <<>>
        /\ seen' = 0 /\ twice' = FALSE
        /\ UNCHANGED <<world, stored, page, search>>
    BY <1>12 DEF Reload, platformVars, Urls
  <2>2. /\ gets' \in Seq(Pages) /\ Len(gets') = 0
        /\ cache' \in Seq(Answers) /\ DistinctKeys(cache')
    BY <2>1 DEF DistinctKeys
  <2>3. ShellTypeOK'
    BY <1>1, <2>1 DEF ShellTypeOK
  <2>4. /\ search' \in Filters \cup {None} /\ fetch' \in Fetches
        /\ query' \in Hooks /\ posts' \in SUBSET Posts /\ seen' \in Nat
        /\ fetch'.data = None
    BY <1>1, <2>1, FreshTyped DEF ViewerTypeOK
  <2>5. twice' \in BOOLEAN
    BY <2>1
  <2> QED
    BY <2>2, <2>3, <2>4, <2>5 DEF ViewerTypeOK, MountedOK, CacheOK
<1> QED
  BY <1>2, <1>3, <1>4, <1>5, <1>6, <1>7, <1>8, <1>9, <1>10, <1>11, <1>12
     DEF ViewerStep

-----------------------------------------------------------------------------
(* What useReportQuery keeps: its latest key is that of its effect's last  *)
(* inputs, what it shows without loading is the answer to it, and while it *)
(* loads a run of that key is under way.                                   *)
RunsInv ==
  /\ ~query.loading /\ query.data # None => query.data.key = query.latest
  /\ query.latest = query.deps
  /\ url # "known" => /\ ~query.loading /\ query.data = None
                      /\ \A p \in posts : ~p.mine
  /\ \A p \in posts : p.answer \notin {None, Unknown} => p.answer.key = p.key
  /\ query.loading => \E p \in posts : p.mine /\ p.key = query.latest

LEMMA AskedRuns ==
  ASSUME TabTypeOK, RunsInv, page \in Ids, url = "known", Asks, url' = url
  PROVE  RunsInv'
<1>1. Key \in Keys
  BY KeyTyped
<1>2. PICK r \in Runs :
        posts' = posts \cup {[slot |-> r, mine |-> TRUE, key |-> Key, answer |-> None]}
  BY DEF Asks
<1> DEFINE new == [slot |-> r, mine |-> TRUE, key |-> Key, answer |-> None]
<1>3. new.mine /\ new.key = Key /\ new.answer = None
  OBVIOUS
<1> HIDE DEF new
<1>4. posts' = posts \cup {new}
  BY <1>2 DEF new
<1> QED
  BY <1>3, <1>4 DEF Asks, RunsInv

LEMMA ShownRuns ==
  ASSUME TabTypeOK, RunsInv, url = "known", ShowsCached, url' = url
  PROVE  RunsInv'
<1>1. Cached(Key).key = Key
  BY HeldIsCached DEF ShowsCached, TabTypeOK
<1>2. /\ query'.loading = FALSE /\ query'.data = Cached(Key)
      /\ query'.latest = Key /\ query'.deps = Key
      /\ posts' = posts
  BY DEF ShowsCached
<1> QED
  BY <1>1, <1>2 DEF RunsInv

LEMMA RunsKept ==
  ASSUME TabTypeOK, RunsInv, ViewerStep
  PROVE  RunsInv'
<1>1. CASE Elsewhere
  BY <1>1 DEF Elsewhere, viewerVars, hookVars, RunsInv
<1>2. CASE DiscoverUrl /\ UNCHANGED viewerVars
  BY <1>2 DEF DiscoverUrl, viewerVars, hookVars, RunsInv
<1>3. CASE Reads
  <2>1. UNCHANGED <<url, query, posts>>
    BY <1>3, ReadDoes DEF Reads
  <2> QED
    BY <2>1 DEF RunsInv
<1>4. ASSUME NEW p \in posts, ServePost(p) PROVE RunsInv'
  <2>1. PICK a \in Answers \cup {Unknown} :
          /\ posts' = (posts \ {p}) \cup {[p EXCEPT !.answer = a]}
          /\ [p EXCEPT !.answer = a] \in Posts
          /\ a # Unknown => a.key = p.key
          /\ UNCHANGED <<url, query>>
    BY <1>4, ServedTyped
  <2> DEFINE r == [p EXCEPT !.answer = a]
  <2>2. p \in Posts
    BY DEF TabTypeOK, ViewerTypeOK
  <2>3. (r.mine <=> p.mine) /\ r.key = p.key /\ r.answer = a
    BY <2>2 DEF Posts
  <2>4. posts' = (posts \ {p}) \cup {r}
    BY <2>1
  <2> HIDE DEF r
  <2> QED
    BY <2>1, <2>3, <2>4 DEF RunsInv
<1>5. ASSUME NEW p \in posts, AnswerPost(p) \/ FailPost(p) PROVE RunsInv'
  <2>1. /\ posts' = posts \ {p} /\ UNCHANGED url
        /\ IF p.mine /\ Accepted(p)
             THEN /\ query'.loading = FALSE
                  /\ \/ query'.data = None
                     \/ query'.data = p.answer /\ p.answer \notin {None, Unknown}
                  /\ query'.latest = query.latest /\ query'.deps = query.deps
             ELSE query' = query
    BY <1>5, AnswersTyped, FailsTyped
  <2>2. CASE p.mine /\ Accepted(p)
    BY <2>1, <2>2 DEF RunsInv, Accepted
  <2>3. CASE ~(p.mine /\ Accepted(p))
    BY <2>1, <2>3 DEF RunsInv, Accepted
  <2> QED
    BY <2>2, <2>3
<1>6. CASE Effects
  <2>1. CASE RunDue
    BY <1>6, <2>1, EffectsDo, AskedRuns, ShownRuns DEF RunDue, IsConfigured
  <2>2. CASE ~RunDue
    BY <1>6, <2>2, EffectsDo DEF RunsInv
  <2> QED
    BY <2>1, <2>2
<1>7. CASE Refresh
  BY <1>7, RefreshDoes, AskedRuns DEF IsConfigured
<1>8. ASSUME NEW filters \in Filters, PatchFilters(filters) PROVE RunsInv'
  BY <1>8 DEF PatchFilters, hookVars, RunsInv
<1>9. ASSUME NEW to \in Pages, NEW filters \in Filters \cup {None},
             Navigate(to, filters)
      PROVE  RunsInv'
  <2>1. CASE {page, to} \subseteq Ids
    BY <1>9, <2>1 DEF Navigate, RunsInv
  <2>2. CASE ~({page, to} \subseteq Ids)
    <3>1. query' = FreshQuery /\ posts' = Orphans
      BY <1>9, <2>2 DEF Navigate
    <3> QED
      BY <3>1, FreshTyped, OrphansTyped DEF RunsInv
  <2> QED
    BY <2>1, <2>2
<1>10. CASE Reload
  BY <1>10, FreshTyped DEF Reload, RunsInv
<1> QED
  BY <1>1, <1>2, <1>3, <1>4, <1>5, <1>6, <1>7, <1>8, <1>9, <1>10 DEF ViewerStep

-----------------------------------------------------------------------------
(* What useGatewayFetch keeps: what it shows without loading is the answer *)
(* to its latest path, that of its effect's last inputs, and while it      *)
(* loads a read of that path is under way.                                 *)
FetchInv ==
  /\ ~fetch.loading /\ fetch.data # None => fetch.data.of = fetch.latest
  /\ fetch.deps # None =>
       /\ fetch.deps[2] = "known" => fetch.latest = fetch.deps[1]
       /\ fetch.deps[2] = "known" /\ fetch.loading =>
            \E i \in 1..Len(gets) : gets[i] = fetch.latest
       /\ fetch.deps[2] \in {"failed", "absent"} => ~fetch.loading
  /\ url # "known" => fetch.data = None /\ Len(gets) = 0

LEMMA FetchKept ==
  ASSUME TabTypeOK, FetchInv, ViewerStep
  PROVE  FetchInv'
<1>a. fetch \in Fetches /\ gets \in Seq(Pages) /\ page \in Pages /\ url \in Urls
  BY DEF TabTypeOK, ViewerTypeOK, ShellTypeOK
<1>1. CASE UNCHANGED <<fetch, gets, url>>
  BY <1>1 DEF FetchInv
<1>2. CASE DiscoverUrl /\ UNCHANGED viewerVars
  BY <1>2 DEF DiscoverUrl, viewerVars, hookVars, FetchInv
<1>3. CASE Reads
  <2>1. PICK i \in 1..Len(gets) : \E data \in ReadAnswer(gets[i]) : Return(i, data)
    BY <1>3 DEF Reads
  <2>2. PICK data \in ReadAnswer(gets[i]) : Return(i, data)
    BY <2>1
  <2>3. /\ gets' = RemoveAt(gets, i)
        /\ IF gets[i] # fetch.latest THEN fetch' = fetch
           ELSE /\ fetch'.loading = FALSE /\ fetch'.data = data
                /\ fetch'.latest = fetch.latest /\ fetch'.deps = fetch.deps
        /\ data # None => data.of = gets[i]
        /\ url' = url
    BY <2>2, ReadDoes
  <2>4. \A k \in 1..Len(gets) :
          k # i => \E j \in 1..Len(gets') : gets'[j] = gets[k]
    BY <1>a, <2>3, LeftHasBeenThere
  <2>5. Len(gets) # 0
    BY <1>a
  <2>6. url = "known"
    BY <2>5 DEF FetchInv
  <2>7. CASE gets[i] # fetch.latest
    BY <2>3, <2>4, <2>6, <2>7 DEF FetchInv
  <2>8. CASE gets[i] = fetch.latest
    BY <2>3, <2>6, <2>8 DEF FetchInv
  <2> QED
    BY <2>7, <2>8
<1>4. CASE Effects
  <2>1. CASE ~LoadDue
    BY <1>1, <1>4, <2>1, EffectsDo
  <2>2. CASE LoadDue
    <3>1. /\ url' = url
          /\ fetch'.deps = <<page, url>>
          /\ \/ url = "discovering" /\ gets' = gets
                /\ (fetch'.loading <=> fetch.loading) /\ fetch'.data = fetch.data
                /\ fetch'.latest = fetch.latest
             \/ url = "known" /\ gets' = Append(gets, page)
                /\ fetch'.loading = TRUE /\ fetch'.data = fetch.data
                /\ fetch'.latest = page
             \/ url \in {"failed", "absent"} /\ gets' = gets
                /\ fetch'.loading = FALSE /\ fetch'.data = None
                /\ fetch'.latest = fetch.latest
      BY <1>4, <2>2, EffectsDo, LoadDoes
    <3>2. fetch'.deps[1] = page /\ fetch'.deps[2] = url
      BY <3>1
    <3>3. gets' = Append(gets, page) =>
            \E i \in 1..Len(gets') : gets'[i] = page
      <4>1. ASSUME gets' = Append(gets, page)
            PROVE  /\ Len(gets') = Len(gets) + 1 /\ Len(gets) \in Nat
                   /\ gets'[Len(gets) + 1] = page
        BY <1>a, <4>1, AppendProperties
      <4>2. ASSUME gets' = Append(gets, page)
            PROVE  Len(gets) + 1 \in 1..Len(gets')
        BY <4>1, <4>2
      <4> QED
        BY <4>1, <4>2
    <3>4. CASE url = "known"
      BY <3>1, <3>2, <3>3, <3>4 DEF FetchInv
    <3>5. CASE url # "known"
      BY <3>1, <3>2, <3>5 DEF FetchInv
    <3> QED
      BY <3>4, <3>5
  <2> QED
    BY <2>1, <2>2
<1>5. ASSUME NEW p \in posts, ServePost(p) \/ AnswerPost(p) \/ FailPost(p)
      PROVE  FetchInv'
  BY <1>1, <1>5, ServedTyped, AnswersTyped, FailsTyped
<1>6. ASSUME NEW to \in Pages, NEW filters \in Filters \cup {None},
             Navigate(to, filters)
      PROVE  FetchInv'
  <2>1. CASE {page, to} \subseteq Ids
    BY <1>1, <1>6, <2>1 DEF Navigate
  <2>2. CASE ~({page, to} \subseteq Ids)
    <3>1. fetch' = FreshFetch /\ gets' = <<>>
      BY <1>6, <2>2 DEF Navigate
    <3> QED
      BY <3>1, FreshTyped DEF FetchInv
  <2> QED
    BY <2>1, <2>2
<1>7. CASE Reload
  BY <1>7, FreshTyped DEF Reload, FetchInv
<1>8. CASE Refresh
  BY <1>1, <1>8, RefreshDoes
<1>9. ASSUME NEW filters \in Filters, PatchFilters(filters) PROVE FetchInv'
  BY <1>1, <1>9 DEF PatchFilters, hookVars
<1>10. CASE Elsewhere
  BY <1>1, <1>10 DEF Elsewhere, viewerVars, hookVars
<1> QED
  BY <1>2, <1>3, <1>4, <1>5, <1>6, <1>7, <1>8, <1>9, <1>10 DEF ViewerStep

-----------------------------------------------------------------------------
(* When the answers of the tab were computed: never later than now; and    *)
(* unless two runs of Watched were out together, nothing kept for it, or   *)
(* on its way, is older than what was shown.  The run that is out is newer *)
(* than the entry of the cache it may find there.                          *)
Answered(p) == p.answer \notin {None, Unknown}

ComputedBy(t) ==
  /\ seen <= t
  /\ \A e \in Entries(cache) : e.at <= t
  /\ query.data # None => query.data.at <= t
  /\ \A p \in posts : Answered(p) => p.answer.at <= t

WatchedIsNew ==
  /\ \A p, q \in posts : p.key = Watched /\ q.key = Watched => p = q
  /\ \A e \in Entries(cache) : e.key = Watched => e.at >= seen
  /\ query.data # None /\ query.data.key = Watched => query.data.at >= seen
  /\ \A p \in posts : p.key = Watched /\ Answered(p) =>
       /\ p.answer.at >= seen
       /\ \A e \in Entries(cache) : e.key = Watched => p.answer.at >= e.at

AgesInv == ComputedBy(world) /\ (~twice => WatchedIsNew)

LEMMA EntriesTyped ==
  ASSUME TabTypeOK
  PROVE  /\ \A e \in Entries(cache) : e \in Answers /\ e.at \in Nat /\ e.key \in Keys
         /\ \A p \in posts : Answered(p) => p.answer \in Answers /\ p.answer.at \in Nat
         /\ query.data # None => query.data \in Answers /\ query.data.at \in Nat
         /\ seen \in Nat /\ world \in Nat
<1>1. /\ cache \in Seq(Answers) /\ posts \in SUBSET Posts /\ query \in Hooks
      /\ seen \in Nat /\ world \in Nat
  BY DEF TabTypeOK, ShellTypeOK, ViewerTypeOK
<1>2. \A a \in Answers : a.at \in Nat /\ a.key \in Keys
  BY DEF Answers
<1>3. \A i \in 1..Len(cache) : cache[i] \in Answers
  BY <1>1
<1> QED
  BY <1>1, <1>2, <1>3 DEF Entries, Answered, Posts, Hooks

LEMMA AskedAges ==
  ASSUME TabTypeOK, AgesInv, page \in Ids, Asks, world' = world,
         Entries(cache)' \subseteq Entries(cache)
  PROVE  AgesInv'
<1>1. PICK r \in Runs :
        posts' = posts \cup {[slot |-> r, mine |-> TRUE, key |-> Key, answer |-> None]}
  BY DEF Asks
<1> DEFINE new == [slot |-> r, mine |-> TRUE, key |-> Key, answer |-> None]
<1>2. new.key = Key /\ new.answer = None /\ posts' = posts \cup {new}
  BY <1>1
<1> HIDE DEF new
<1>3. /\ query'.data = query.data /\ seen' = seen
      /\ twice' = (twice \/ (Key = Watched /\ \E p \in posts : p.key = Key))
  BY DEF Asks
<1>4. ComputedBy(world)'
  BY <1>2, <1>3 DEF AgesInv, ComputedBy, Answered
<1>5. ASSUME ~twice' PROVE WatchedIsNew'
  <2>1. ~twice /\ (Key = Watched => \A p \in posts : p.key # Watched)
    BY <1>3, <1>5, Zenon
  <2> QED
    BY <1>2, <1>3, <2>1 DEF AgesInv, WatchedIsNew, Answered
<1> QED
  BY <1>4, <1>5 DEF AgesInv

LEMMA ShownAges ==
  ASSUME TabTypeOK, CacheOK, AgesInv, ShowsCached, world' = world
  PROVE  AgesInv'
<1> DEFINE a == Cached(Key)
<1>1. a \in Entries(cache) /\ a \in Answers /\ a.key = Key
  BY HeldIsCached DEF ShowsCached, TabTypeOK
<1>2. Entries(cache)' \subseteq Entries(cache)
  BY TouchedEntries DEF ShowsCached, TabTypeOK, CacheOK
<1>3. /\ query'.data = a /\ posts' = posts /\ (twice' <=> twice)
      /\ seen' = SeenNow(a)
  BY DEF ShowsCached
<1> HIDE DEF a
<1>4. /\ seen' >= seen /\ (seen' = seen \/ seen' = a.at) /\ seen' \in Nat
      /\ (Key # Watched => seen' = seen) /\ (Key = Watched => seen' >= a.at)
  BY <1>1, <1>3, SeenTyped
<1>5. \A e \in Entries(cache) : e.key = Key => e = a
  BY <1>1 DEF Entries, DistinctKeys, CacheOK
<1>6. ComputedBy(world)'
  BY <1>1, <1>2, <1>3, <1>4 DEF AgesInv, ComputedBy, Answered
<1>7. ASSUME ~twice, Key = Watched PROVE WatchedIsNew'
  <2>1. seen' = a.at
    BY <1>1, <1>4, <1>7, EntriesTyped DEF AgesInv, WatchedIsNew
  <2> QED
    BY <1>1, <1>2, <1>3, <1>5, <1>7, <2>1, EntriesTyped
       DEF AgesInv, WatchedIsNew, Answered
<1>8. ASSUME ~twice, Key # Watched PROVE WatchedIsNew'
  BY <1>1, <1>2, <1>3, <1>4, <1>8 DEF AgesInv, WatchedIsNew, Answered
<1> QED
  BY <1>3, <1>6, <1>7, <1>8 DEF AgesInv

LEMMA ServedAges ==
  ASSUME TabTypeOK, AgesInv, NEW p \in posts, ServePost(p)
  PROVE  AgesInv'
<1>1. PICK a \in Answers \cup {Unknown} :
        /\ posts' = (posts \ {p}) \cup {[p EXCEPT !.answer = a]}
        /\ a # Unknown => a.key = p.key /\ a.at = world
        /\ UNCHANGED <<world, query, cache, seen, twice>>
  BY ServedTyped
<1> DEFINE r == [p EXCEPT !.answer = a]
<1>2. r.key = p.key /\ r.answer = a
  BY DEF TabTypeOK, ViewerTypeOK, Posts
<1>3. posts' = (posts \ {p}) \cup {r}
  BY <1>1
<1> HIDE DEF r
<1>4. Entries(cache)' = Entries(cache)
  BY <1>1
<1>5. ComputedBy(world)'
  BY <1>1, <1>2, <1>3, <1>4, EntriesTyped DEF AgesInv, ComputedBy, Answered
<1>6. ASSUME ~twice PROVE WatchedIsNew'
  BY <1>1, <1>2, <1>3, <1>4, <1>6, EntriesTyped
     DEF AgesInv, ComputedBy, WatchedIsNew, Answered
<1> QED
  BY <1>1, <1>5, <1>6 DEF AgesInv

LEMMA AnsweredAges ==
  ASSUME TabTypeOK, CacheOK, RunsInv, AgesInv, NEW p \in posts, AnswerPost(p)
  PROVE  AgesInv'
<1> DEFINE a == p.answer
<1>1. /\ a \in Answers /\ Answered(p) /\ a.key = p.key /\ a.at \in Nat
      /\ posts' = posts \ {p}
      /\ UNCHANGED <<world, twice>>
  BY AnswersTyped, EntriesTyped DEF RunsInv, Answered
<1>2. \A e \in Entries(cache)' :
        \/ e = a
        \/ e \in Entries(cache) /\ (e.key = a.key => a \notin Entries(cache)')
  <2>1. CASE Accepted(p)
    <3>1. cache' = SetCached(a)
      BY <2>1, AnswersTyped
    <3>2. \A e \in Entries(SetCached(a)) :
            e = a \/ (e \in Entries(cache) /\ e.key # a.key)
      BY <1>1, SetEntries DEF TabTypeOK, CacheOK
    <3> QED
      BY <3>1, <3>2
  <2>2. CASE ~Accepted(p)
    <3>1. cache' = cache
      BY <2>2, AnswersTyped
    <3>2. \A e \in Entries(cache) : e = a \/ (e.key = a.key => a \notin Entries(cache))
      BY DEF Entries, DistinctKeys, CacheOK
    <3> QED
      BY <3>1, <3>2
  <2> QED
    BY <2>1, <2>2
<1>3. \/ query'.data = a /\ seen' = SeenNow(a)
         /\ \A e \in Entries(cache)' : e.key = a.key => e = a
      \/ query'.data = query.data /\ seen' = seen
  <2>1. CASE p.mine /\ Accepted(p)
    <3>1. cache' = SetCached(a) /\ query'.data = a /\ seen' = SeenNow(a)
      BY <2>1, AnswersTyped
    <3>2. \A e \in Entries(SetCached(a)) :
            e = a \/ (e \in Entries(cache) /\ e.key # a.key)
      BY <1>1, SetEntries DEF TabTypeOK, CacheOK
    <3> QED
      BY <3>1, <3>2
  <2>2. CASE ~(p.mine /\ Accepted(p))
    BY <2>2, AnswersTyped
  <2> QED
    BY <2>1, <2>2
<1> HIDE DEF a
<1>4. /\ SeenNow(a) >= seen /\ SeenNow(a) \in Nat
      /\ SeenNow(a) = seen \/ SeenNow(a) = a.at
      /\ a.key = Watched => SeenNow(a) >= a.at
      /\ a.key # Watched => SeenNow(a) = seen
  BY <1>1, SeenTyped
<1>5. a.at <= world
  BY <1>1 DEF AgesInv, ComputedBy, a
<1>6. ComputedBy(world)'
  <2>1. seen' <= world' /\ (query'.data # None => query'.data.at <= world')
    BY <1>1, <1>3, <1>4, <1>5 DEF AgesInv, ComputedBy
  <2>2. \A e \in Entries(cache)' : e.at <= world'
    BY <1>1, <1>2, <1>5 DEF AgesInv, ComputedBy
  <2> QED
    BY <1>1, <2>1, <2>2 DEF AgesInv, ComputedBy, Answered
<1>7. ASSUME ~twice, a.key = Watched PROVE WatchedIsNew'
  <2>1. \A q \in posts' : q.key # Watched
    BY <1>1, <1>7 DEF AgesInv, WatchedIsNew
  <2>2. a.at >= seen
    BY <1>1, <1>7 DEF AgesInv, WatchedIsNew, a
  <2>3. \A e \in Entries(cache)' : e.key = Watched => e.at >= seen'
    BY <1>1, <1>2, <1>3, <1>4, <1>7, <2>2, EntriesTyped DEF AgesInv, WatchedIsNew
  <2>4. query'.data # None /\ query'.data.key = Watched => query'.data.at >= seen'
    BY <1>1, <1>3, <1>4, <1>7, <2>2, EntriesTyped DEF AgesInv, WatchedIsNew
  <2> QED
    BY <2>1, <2>3, <2>4 DEF WatchedIsNew
<1>8. ASSUME ~twice, a.key # Watched PROVE WatchedIsNew'
  <2>1. seen' = seen
    BY <1>3, <1>4, <1>8
  <2>2. \A e \in Entries(cache)' : e.key = Watched => e \in Entries(cache)
    BY <1>2, <1>8
  <2>3. query'.data # None /\ query'.data.key = Watched => query'.data = query.data
    BY <1>3, <1>8
  <2> QED
    BY <1>1, <1>8, <2>1, <2>2, <2>3 DEF AgesInv, WatchedIsNew, Answered
<1> QED
  BY <1>1, <1>6, <1>7, <1>8 DEF AgesInv

LEMMA AgesKept ==
  ASSUME TabTypeOK, CacheOK, RunsInv, AgesInv, ViewerStep
  PROVE  AgesInv'
<1>1. CASE Elsewhere
  <2>1. /\ UNCHANGED <<query, posts, cache, seen, twice>>
        /\ world \in Nat /\ world' \in Nat /\ world' >= world
    BY <1>1, EntriesTyped DEF Elsewhere, viewerVars, hookVars
  <2>2. ComputedBy(world)'
    <3>1. Entries(cache)' = Entries(cache)
      BY <2>1
    <3> QED
      BY <2>1, <3>1, EntriesTyped DEF AgesInv, ComputedBy, Answered
  <2>3. ~twice => WatchedIsNew'
    BY <2>1 DEF AgesInv, WatchedIsNew, Answered
  <2> QED
    BY <2>1, <2>2, <2>3 DEF AgesInv
<1>2. CASE UNCHANGED <<world, query, posts, cache, seen, twice>>
  BY <1>2 DEF AgesInv, ComputedBy, WatchedIsNew, Answered
<1>3. CASE (DiscoverUrl /\ UNCHANGED viewerVars) \/ Reads
           \/ \E filters \in Filters : PatchFilters(filters)
  BY <1>2, <1>3, ReadDoes
     DEF DiscoverUrl, platformVars, viewerVars, hookVars, Reads, PatchFilters
<1>4. ASSUME NEW p \in posts, ServePost(p) \/ AnswerPost(p) PROVE AgesInv'
  BY <1>4, ServedAges, AnsweredAges
<1>5. ASSUME NEW p \in posts, FailPost(p) PROVE AgesInv'
  <2>1. /\ posts' = posts \ {p} /\ UNCHANGED <<world, cache, seen, twice>>
        /\ query'.data = None \/ query'.data = query.data
    BY <1>5, FailsTyped
  <2> QED
    BY <2>1 DEF AgesInv, ComputedBy, WatchedIsNew, Answered
<1>6. CASE Effects
  <2>1. CASE RunDue
    <3>1. Entries(Without(Key)) \subseteq Entries(cache)
      BY ForgottenEntries DEF TabTypeOK, CacheOK
    <3>2. page \in Ids
      BY <2>1 DEF RunDue
    <3>3. CASE ShowsCached
      BY <1>6, <3>3, EffectsDo, ShownAges
    <3>4. CASE Asks /\ cache' = Without(Key)
      BY <1>6, <3>1, <3>2, <3>4, EffectsDo, AskedAges
    <3> QED
      BY <1>6, <2>1, <3>3, <3>4, EffectsDo
  <2>2. CASE ~RunDue
    BY <1>2, <1>6, <2>2, EffectsDo
  <2> QED
    BY <2>1, <2>2
<1>7. CASE Refresh
  BY <1>7, RefreshDoes, AskedAges
<1>8. ASSUME NEW to \in Pages, NEW filters \in Filters \cup {None},
             Navigate(to, filters)
      PROVE  AgesInv'
  <2>1. UNCHANGED <<world, cache, seen, twice>>
    BY <1>8 DEF Navigate, platformVars
  <2>2. CASE {page, to} \subseteq Ids
    BY <1>2, <1>8, <2>1, <2>2 DEF Navigate
  <2>3. CASE ~({page, to} \subseteq Ids)
    <3>1. query'.data = None /\ posts' = Orphans
      BY <1>8, <2>3, FreshTyped DEF Navigate
    <3>2. ComputedBy(world)'
      BY <2>1, <3>1, OrphansTyped DEF AgesInv, ComputedBy, Answered
    <3>3. ASSUME ~twice PROVE WatchedIsNew'
      <4>1. ASSUME NEW o \in posts', NEW q \in posts', o.key = Watched, q.key = Watched
            PROVE  o = q
        <5>1. PICK m \in posts : o = [m EXCEPT !.mine = FALSE] /\ o.key = m.key
          BY <3>1, OrphansTyped
        <5>2. PICK n \in posts : q = [n EXCEPT !.mine = FALSE] /\ q.key = n.key
          BY <3>1, OrphansTyped
        <5>3. m = n
          BY <3>3, <4>1, <5>1, <5>2 DEF AgesInv, WatchedIsNew
        <5> QED
          BY <5>1, <5>2, <5>3
      <4> QED
        BY <2>1, <3>1, <3>3, <4>1, OrphansTyped DEF AgesInv, WatchedIsNew, Answered
    <3> QED
      BY <2>1, <3>2, <3>3 DEF AgesInv
  <2> QED
    BY <2>2, <2>3
<1>9. CASE Reload
  <2>1. /\ query'.data = None /\ posts' = {} /\ cache' = <<>> /\ seen' = 0
        /\ world' = world
    BY <1>9, FreshTyped DEF Reload, platformVars
  <2>2. Entries(cache)' = {}
    BY <2>1 DEF Entries
  <2> QED
    BY <2>1, <2>2, EntriesTyped DEF AgesInv, ComputedBy, WatchedIsNew, Answered
<1> QED
  BY <1>1, <1>3, <1>4, <1>5, <1>6, <1>7, <1>8, <1>9 DEF ViewerStep

-----------------------------------------------------------------------------
(* The versions of a report that the tab, the gateway or a call holds: of  *)
(* those written at one time there is one, none is of the future, and      *)
(* those never written are the built-in one.                               *)
VersionsOf(id) ==
  {v \in Versions :
     \/ stored[id] # None /\ v = stored[id]
     \/ fetch.data # None /\ fetch.data.of = id /\ v = fetch.data.report
     \/ query.data # None /\ query.data.key[1] = id /\ v = query.data.report
     \/ \E e \in Entries(cache) : e.key[1] = id /\ v = e.report
     \/ \E p \in posts : Answered(p) /\ p.key[1] = id /\ v = p.answer.report}

BuiltInVersions(id) ==
  {v \in Versions : id \in DOMAIN BuiltIns /\ v = Report(BuiltIns[id], 0)}

VersionsInv ==
  \A id \in Ids :
    /\ \A v \in VersionsOf(id) : /\ v.since <= world
                                 /\ v.since = 0 => v \in BuiltInVersions(id)
    /\ \A v, w \in VersionsOf(id) : v.since = w.since => v = w

LEMMA BuiltInIsOne ==
  ASSUME NEW id, NEW v \in BuiltInVersions(id), NEW w \in BuiltInVersions(id)
  PROVE  v = w /\ v.since = 0
BY DEF BuiltInVersions, Report

LEMMA VersionsTyped ==
  ASSUME TabTypeOK
  PROVE  /\ world \in Nat
         /\ \A v \in Versions : v.since \in Nat
         /\ \A id : VersionsOf(id) \subseteq Versions
BY DEF TabTypeOK, ShellTypeOK, Versions, VersionsOf

(* A step that writes nothing new.                                         *)
LEMMA NothingNew ==
  ASSUME TabTypeOK, VersionsInv, world' >= world, world' \in Nat,
         \A id \in Ids : VersionsOf(id)' \subseteq VersionsOf(id) \cup BuiltInVersions(id)
  PROVE  VersionsInv'
<1> SUFFICES ASSUME NEW id \in Ids
             PROVE  /\ \A v \in VersionsOf(id)' :
                         /\ v.since <= world'
                         /\ v.since = 0 => v \in BuiltInVersions(id)
                    /\ \A v, w \in VersionsOf(id)' : v.since = w.since => v = w
  BY DEF VersionsInv, BuiltInVersions
<1>1. \A v \in VersionsOf(id) : v.since \in Nat
  BY VersionsTyped
<1>2. \A v \in VersionsOf(id)' : v \in VersionsOf(id) \/ v \in BuiltInVersions(id)
  OBVIOUS
<1>3. \A v \in BuiltInVersions(id) : v.since = 0
  BY BuiltInIsOne
<1> QED
  BY <1>1, <1>2, <1>3, BuiltInIsOne, VersionsTyped DEF VersionsInv

(* A step that writes one.                                                 *)
LEMMA OneNew ==
  ASSUME TabTypeOK, VersionsInv, world' = world + 1,
         NEW new, new.since = world + 1,
         \A id \in Ids : VersionsOf(id)' \subseteq VersionsOf(id) \cup {new}
  PROVE  VersionsInv'
<1> SUFFICES ASSUME NEW id \in Ids
             PROVE  /\ \A v \in VersionsOf(id)' :
                         /\ v.since <= world'
                         /\ v.since = 0 => v \in BuiltInVersions(id)
                    /\ \A v, w \in VersionsOf(id)' : v.since = w.since => v = w
  BY DEF VersionsInv, BuiltInVersions
<1>1. world \in Nat /\ \A v \in VersionsOf(id) : v.since \in Nat
  BY VersionsTyped
<1>2. \A v \in VersionsOf(id)' : v \in VersionsOf(id) \/ v = new
  OBVIOUS
<1>3. \A v \in VersionsOf(id) : v.since <= world
  BY DEF VersionsInv
<1> QED
  BY <1>1, <1>2, <1>3 DEF VersionsInv

LEMMA VersionsKept ==
  ASSUME TabTypeOK, CacheOK, RunsInv, VersionsInv, ViewerStep
  PROVE  VersionsInv'
<1>a. world \in Nat
  BY VersionsTyped
<1>1. CASE Elsewhere
  <2>1. /\ UNCHANGED <<fetch, query, posts, cache>>
        /\ Entries(cache)' = Entries(cache)
    BY <1>1 DEF Elsewhere, viewerVars, hookVars
  <2>2. CASE UNCHANGED <<world, stored>>
    <3>1. \A id \in Ids : VersionsOf(id)' \subseteq VersionsOf(id)
      BY <2>1, <2>2 DEF VersionsOf, Answered
    <3> QED
      BY <1>a, <2>2, <3>1, NothingNew
  <2>3. CASE world' = world + 1 /\ stored' = stored
    <3>1. \A id \in Ids : VersionsOf(id)' \subseteq VersionsOf(id)
      BY <2>1, <2>3 DEF VersionsOf, Answered
    <3> QED
      BY <1>a, <2>3, <3>1, NothingNew
  <2>4. ASSUME world' = world + 1, NEW i \in Ids,
               NEW v \in {None} \cup {Report(t, world + 1) : t \in Seq(Tile)},
               stored' = [stored EXCEPT ![i] = v]
        PROVE  VersionsInv'
    <3>1. \A id \in Ids : stored'[id] = stored[id] \/ stored'[id] = v
      BY <2>4 DEF TabTypeOK, ShellTypeOK
    <3>2. \A id \in Ids :
            VersionsOf(id)' \subseteq VersionsOf(id) \cup {u \in {v} : v # None}
      BY <2>1, <3>1 DEF VersionsOf, Answered
    <3>3. CASE v = None
      BY <1>a, <2>4, <3>2, <3>3, NothingNew
    <3>4. CASE v # None
      <4>1. v.since = world + 1
        BY <3>4 DEF Report
      <4> QED
        BY <2>4, <3>2, <4>1, OneNew
    <3> QED
      BY <3>3, <3>4
  <2> QED
    BY <1>1, <2>2, <2>3, <2>4 DEF Elsewhere
<1>2. CASE UNCHANGED <<world, stored, fetch, query, posts, cache>>
  <2>1. Entries(cache)' = Entries(cache)
    BY <1>2
  <2>2. \A id \in Ids : VersionsOf(id)' \subseteq VersionsOf(id)
    BY <1>2, <2>1 DEF VersionsOf, Answered
  <2> QED
    BY <1>2, <1>a, <2>2, NothingNew
<1>3. CASE (DiscoverUrl /\ UNCHANGED viewerVars)
           \/ \E filters \in Filters : PatchFilters(filters)
  BY <1>2, <1>3 DEF DiscoverUrl, platformVars, viewerVars, hookVars, PatchFilters
<1>4. CASE Reads
  <2>1. PICK i \in 1..Len(gets) : \E data \in ReadAnswer(gets[i]) : Return(i, data)
    BY <1>4 DEF Reads
  <2>2. PICK data \in ReadAnswer(gets[i]) : Return(i, data)
    BY <2>1
  <2>3. /\ fetch'.data = fetch.data \/ fetch'.data = data
        /\ UNCHANGED <<world, stored, query, posts, cache>>
        /\ Entries(cache)' = Entries(cache)
    BY <2>2, ReadDoes
  <2>4. ASSUME NEW id \in Ids, data # None, data.of = id
        PROVE  \/ stored[id] # None /\ data.report = stored[id]
               \/ data.report = Report(BuiltIns[id], 0) /\ id \in DOMAIN BuiltIns
    BY <2>4, PagesDiffer DEF ReadAnswer, Listings
  <2>5. \A id \in Ids :
          VersionsOf(id)' \subseteq VersionsOf(id) \cup BuiltInVersions(id)
    BY <2>3, <2>4 DEF VersionsOf, BuiltInVersions, Answered
  <2> QED
    BY <1>a, <2>3, <2>5, NothingNew
<1>5. ASSUME NEW p \in posts, ServePost(p) PROVE VersionsInv'
  <2>1. PICK a \in Answers \cup {Unknown} :
          /\ posts' = (posts \ {p}) \cup {[p EXCEPT !.answer = a]}
          /\ a # Unknown =>
                \/ stored[p.key[1]] # None /\ a.report = stored[p.key[1]]
                \/ /\ p.key[1] \in DOMAIN BuiltIns
                   /\ a.report = Report(BuiltIns[p.key[1]], 0)
          /\ UNCHANGED <<world, stored, fetch, query, cache>>
    BY <1>5, ServedTyped
  <2> DEFINE r == [p EXCEPT !.answer = a]
  <2>2. r.key = p.key /\ r.answer = a
    BY DEF TabTypeOK, ViewerTypeOK, Posts
  <2>3. posts' = (posts \ {p}) \cup {r}
    BY <2>1
  <2> HIDE DEF r
  <2>4. Entries(cache)' = Entries(cache)
    BY <2>1
  <2>5. \A id \in Ids :
          VersionsOf(id)' \subseteq VersionsOf(id) \cup BuiltInVersions(id)
    BY <2>1, <2>2, <2>3, <2>4 DEF VersionsOf, BuiltInVersions, Answered
  <2> QED
    BY <1>a, <2>1, <2>5, NothingNew
<1>6. ASSUME NEW p \in posts, AnswerPost(p) \/ FailPost(p) PROVE VersionsInv'
  <2>1. /\ posts' = posts \ {p}
        /\ UNCHANGED <<world, stored, fetch>>
        /\ \/ query'.data = query.data \/ query'.data = None
           \/ query'.data = p.answer /\ Answered(p)
    BY <1>6, AnswersTyped, FailsTyped DEF Answered
  <2>2. Answered(p) => p.answer.key = p.key
    BY DEF RunsInv, Answered
  <2>3. \A e \in Entries(cache)' : e \in Entries(cache) \/ (e = p.answer /\ Answered(p))
    <3>1. CASE UNCHANGED cache
      BY <3>1
    <3>2. CASE AnswerPost(p) /\ cache' = SetCached(p.answer)
      BY <3>2, AnswersTyped, SetEntries DEF TabTypeOK, CacheOK, Answered
    <3> QED
      BY <1>6, <3>1, <3>2, AnswersTyped, FailsTyped
  <2>4. \A id \in Ids : VersionsOf(id)' \subseteq VersionsOf(id)
    BY <2>1, <2>2, <2>3 DEF VersionsOf, Answered
  <2> QED
    BY <1>a, <2>1, <2>4, NothingNew
<1>7. CASE Effects \/ Refresh
  <2>1. UNCHANGED <<world, stored>> /\ (fetch'.data = fetch.data \/ fetch'.data = None)
    BY <1>7, EffectsDo, LoadDoes, RefreshDoes
  <2>2. /\ Entries(cache)' \subseteq Entries(cache)
        /\ \/ query'.data = query.data
           \/ query'.data \in Entries(cache)
        /\ \A p \in posts' : p \in posts \/ p.answer = None
    <3>1. CASE ShowsCached
      BY <3>1, TouchedEntries, HeldIsCached DEF ShowsCached, TabTypeOK, CacheOK
    <3>2. CASE Asks /\ (cache' = Without(Key) \/ cache' = cache)
      <4>1. Entries(Without(Key)) \subseteq Entries(cache)
        BY ForgottenEntries DEF TabTypeOK, CacheOK
      <4>2. Entries(cache)' \subseteq Entries(cache)
        BY <3>2, <4>1
      <4> QED
        BY <3>2, <4>2 DEF Asks
    <3>3. CASE UNCHANGED <<query, posts, cache>>
      BY <3>3
    <3> QED
      BY <1>7, <3>1, <3>2, <3>3, EffectsDo, RefreshDoes
  <2>3. \A id \in Ids : VersionsOf(id)' \subseteq VersionsOf(id)
    BY <2>1, <2>2 DEF VersionsOf, Answered
  <2> QED
    BY <1>a, <2>1, <2>3, NothingNew
<1>8. ASSUME NEW to \in Pages, NEW filters \in Filters \cup {None},
             Navigate(to, filters)
      PROVE  VersionsInv'
  <2>1. UNCHANGED <<world, stored, cache>>
    BY <1>8 DEF Navigate, platformVars
  <2>2. CASE {page, to} \subseteq Ids
    BY <1>2, <1>8, <2>1, <2>2 DEF Navigate
  <2>3. CASE ~({page, to} \subseteq Ids)
    <3>1. query'.data = None /\ posts' = Orphans /\ fetch'.data = None
      BY <1>8, <2>3, FreshTyped DEF Navigate
    <3>2. Entries(cache)' = Entries(cache)
      BY <2>1
    <3>3. \A id \in Ids : VersionsOf(id)' \subseteq VersionsOf(id)
      BY <2>1, <3>1, <3>2, OrphansTyped DEF VersionsOf, Answered
    <3> QED
      BY <1>a, <2>1, <3>3, NothingNew
  <2> QED
    BY <2>2, <2>3
<1>9. CASE Reload
  <2>1. /\ query'.data = None /\ posts' = {} /\ cache' = <<>> /\ fetch'.data = None
        /\ UNCHANGED <<world, stored>>
    BY <1>9, FreshTyped DEF Reload, platformVars
  <2>2. Entries(cache)' = {}
    BY <2>1 DEF Entries
  <2>3. \A id \in Ids : VersionsOf(id)' \subseteq VersionsOf(id)
    BY <2>1, <2>2 DEF VersionsOf
  <2> QED
    BY <1>a, <2>1, <2>3, NothingNew
<1> QED
  BY <1>1, <1>3, <1>4, <1>5, <1>6, <1>7, <1>8, <1>9 DEF ViewerStep

-----------------------------------------------------------------------------
(* What the builder keeps: it is busy with one preview, that of the tiles  *)
(* last sent, or with one save, and with neither the preview on the page   *)
(* is that of the tiles last sent, unless that one failed.                 *)
Saving(c) == c.by = "mounted" /\ c.kind = "save"

DraftInv ==
  /\ \A t \in previews : t = previewed
  /\ previews # {} => busy /\ \A c \in changes : ~Saving(c)
  /\ \A c \in changes : Saving(c) => busy
  /\ \A c, d \in changes : Saving(c) /\ Saving(d) => c = d
  /\ previews = {} /\ previewed # None => preview = previewed

BuilderKeeps == BuilderTypeOK' /\ DraftInv'

LEMMA EmptyTyped ==
  /\ \A n \in Nat : EmptyTile(n) \in Tile
  /\ EmptyDraft \in Drafts
<1>1. \A n \in Nat : EmptyTile(n) \in Tile
  BY DEF EmptyTile, Tile
<1>2. <<EmptyTile(1)>> \in Seq(Tile)
  BY <1>1
<1> QED
  BY <1>1, <1>2 DEF EmptyDraft, Drafts

LEMMA EditKeeps ==
  ASSUME BuilderTypeOK, DraftInv, draft' \in Drafts,
         UNCHANGED <<preview, previews, busy, list, listing, changes, previewed>>
  PROVE  BuilderKeeps
BY DEF BuilderTypeOK, DraftInv, Saving, BuilderKeeps

LEMMA EditsTyped ==
  ASSUME BuilderTypeOK,
         \/ \E id \in Customs : SetId(id)
         \/ AddTile
         \/ \E i \in DOMAIN draft.tiles : RemoveTile(i)
         \/ \E i \in DOMAIN draft.tiles, body \in Bodies : PatchTile(i, body)
  PROVE  /\ draft' \in Drafts
         /\ UNCHANGED <<preview, previews, busy, list, listing, changes, previewed>>
<1>1. /\ draft \in Drafts /\ draft.tiles \in Seq(Tile)
      /\ draft = [id |-> draft.id, tiles |-> draft.tiles]
      /\ draft.id \in Customs \cup {None}
      /\ DOMAIN draft.tiles = 1..Len(draft.tiles) /\ Len(draft.tiles) \in Nat
  BY DEF BuilderTypeOK, Drafts
<1>2. ASSUME NEW id \in Customs, SetId(id) PROVE draft' \in Drafts
  BY <1>1, <1>2 DEF SetId, Drafts
<1>3. ASSUME NEW t \in Seq(Tile), draft' = [draft EXCEPT !.tiles = t]
      PROVE  draft' \in Drafts
  BY <1>1, <1>3 DEF Drafts
<1>4. ASSUME AddTile PROVE draft' \in Drafts
  <2>1. EmptyTile(Len(draft.tiles) + 1) \in Tile
    BY <1>1, EmptyTyped
  <2> DEFINE t == Append(draft.tiles, EmptyTile(Len(draft.tiles) + 1))
  <2>2. t \in Seq(Tile)
    BY <1>1, <2>1, AppendProperties
  <2>3. draft' = [draft EXCEPT !.tiles = t]
    BY <1>4 DEF AddTile
  <2> HIDE DEF t
  <2> QED
    BY <1>3, <2>2, <2>3
<1>5. ASSUME NEW i \in DOMAIN draft.tiles, RemoveTile(i) PROVE draft' \in Drafts
  <2>1. RemoveAt(draft.tiles, i) \in Seq(Tile)
    BY <1>1, RemovedAt
  <2> QED
    BY <1>3, <1>5, <2>1 DEF RemoveTile
<1>6. ASSUME NEW i \in DOMAIN draft.tiles, NEW body \in Bodies, PatchTile(i, body)
      PROVE  draft' \in Drafts
  <2>1. draft.tiles[i] \in Tile
    BY <1>1
  <2>2. [draft.tiles[i] EXCEPT !.body = body] \in Tile
    BY <2>1 DEF Tile
  <2>3. [draft.tiles EXCEPT ![i] = [draft.tiles[i] EXCEPT !.body = body]] \in Seq(Tile)
    BY <1>1, <2>2, ExceptSeq
  <2>4. draft' = [draft EXCEPT !.tiles =
                    [draft.tiles EXCEPT ![i] = [draft.tiles[i] EXCEPT !.body = body]]]
    BY <1>6 DEF PatchTile
  <2> QED
    BY <1>3, <2>3, <2>4
<1> QED
  BY <1>2, <1>4, <1>5, <1>6 DEF SetId, AddTile, RemoveTile, PatchTile, Edit

LEMMA PreviewKeeps ==
  ASSUME BuilderTypeOK, DraftInv, StartPreview \/ \E t \in previews : EndPreview(t)
  PROVE  BuilderKeeps
<1>1. CASE StartPreview
  <2>1. /\ ~busy /\ busy' = TRUE /\ previewed' = draft.tiles
        /\ previews' = previews \cup {draft.tiles}
        /\ UNCHANGED <<draft, preview, list, changes>>
    BY <1>1 DEF StartPreview
  <2>2. previews = {} /\ \A c \in changes : ~Saving(c)
    BY <2>1 DEF DraftInv
  <2>3. draft.tiles \in Seq(Tile)
    BY DEF BuilderTypeOK, Drafts
  <2>4. BuilderTypeOK'
    BY <2>1, <2>3 DEF BuilderTypeOK
  <2>5. DraftInv'
    BY <2>1, <2>2 DEF DraftInv, Saving
  <2> QED
    BY <2>4, <2>5 DEF BuilderKeeps
<1>2. ASSUME NEW t \in previews, EndPreview(t) PROVE BuilderKeeps
  <2>1. PICK ok \in BOOLEAN :
          /\ preview' = IF ok THEN t ELSE preview
          /\ previewed' = IF ok THEN previewed ELSE None
    BY <1>2 DEF EndPreview
  <2>2. /\ previews' = previews \ {t} /\ busy' = FALSE
        /\ UNCHANGED <<draft, list, changes>>
    BY <1>2 DEF EndPreview
  <2>3. BuilderTypeOK'
    BY <2>1, <2>2 DEF BuilderTypeOK
  <2>4. t = previewed /\ previews' = {} /\ \A c \in changes : ~Saving(c)
    BY <2>2 DEF DraftInv
  <2>5. DraftInv'
    BY <2>1, <2>2, <2>4 DEF DraftInv, Saving
  <2> QED
    BY <2>3, <2>5 DEF BuilderKeeps
<1> QED
  BY <1>1, <1>2

LEMMA StartKeeps ==
  ASSUME BuilderTypeOK, DraftInv, ~busy,
         NEW kind \in {"save", "delete"}, NEW id \in Ids, NEW tiles \in Seq(Tile),
         Start(kind, id, tiles),
         busy' = TRUE \/ (kind = "delete" /\ busy' = busy),
         UNCHANGED <<draft, preview, previews, list, previewed>>
  PROVE  BuilderKeeps
<1>1. PICK e \in Edits :
        changes' = changes \cup
          {[slot |-> e, kind |-> kind, id |-> id, tiles |-> tiles,
            done |-> FALSE, by |-> "mounted"]}
  BY DEF Start
<1> DEFINE new == [slot |-> e, kind |-> kind, id |-> id, tiles |-> tiles,
                   done |-> FALSE, by |-> "mounted"]
<1>2. new \in Changes /\ new.kind = kind
  BY DEF Changes
<1>3. changes' = changes \cup {new}
  BY <1>1
<1> HIDE DEF new
<1>4. previews = {} /\ \A c \in changes : ~Saving(c)
  BY DEF DraftInv
<1>5. BuilderTypeOK'
  BY <1>2, <1>3 DEF BuilderTypeOK
<1>6. DraftInv'
  BY <1>2, <1>3, <1>4 DEF DraftInv, Saving
<1> QED
  BY <1>5, <1>6 DEF BuilderKeeps

LEMMA ChangeKeeps ==
  ASSUME BuilderTypeOK, DraftInv, NEW c \in changes,
         Mutate(c) \/ Refetch(c) \/ ChangeFails(c)
  PROVE  BuilderKeeps
<1>a. c \in Changes
  BY DEF BuilderTypeOK
<1>1. CASE Mutate(c)
  <2> DEFINE d == [c EXCEPT !.done = TRUE]
  <2>1. d \in Changes /\ d.by = c.by /\ d.kind = c.kind
    BY <1>a DEF Changes
  <2>2. /\ changes' = (changes \ {c}) \cup IF c.by = "gone" THEN {} ELSE {d}
        /\ UNCHANGED <<draft, preview, previews, busy, list, previewed>>
    BY <1>1 DEF Mutate
  <2> HIDE DEF d
  <2>3. BuilderTypeOK'
    BY <2>1, <2>2 DEF BuilderTypeOK
  <2>4. \A e \in changes' : e = d \/ (e \in changes /\ e # c)
    BY <2>2
  <2>5. DraftInv'
    BY <2>1, <2>2, <2>4 DEF DraftInv, Saving
  <2> QED
    BY <2>3, <2>5 DEF BuilderKeeps
<1>2. CASE Refetch(c) \/ ChangeFails(c)
  <2>1. /\ changes' = changes \ {c} /\ Settled(c)
        /\ UNCHANGED <<draft, preview, previews, previewed>>
        /\ list' = list \/ list' = Stored
    BY <1>2 DEF Refetch, ChangeFails
  <2>2. busy' = (busy /\ ~Saving(c))
    BY <2>1 DEF Settled, Saving
  <2>3. busy' \in BOOLEAN
    BY <2>2
  <2>4. BuilderTypeOK'
    BY <2>1, <2>3 DEF BuilderTypeOK, Stored
  <2>5. busy' <=> busy /\ ~Saving(c)
    BY <2>2
  <2>6. DraftInv'
    BY <2>1, <2>5 DEF DraftInv, Saving
  <2> QED
    BY <2>4, <2>6 DEF BuilderKeeps
<1> QED
  BY <1>1, <1>2

LEMMA LeavingKeeps ==
  ASSUME BuilderTypeOK, LeaveBuilder \/ ReloadBuilder
  PROVE  BuilderKeeps
<1>1. /\ draft' = EmptyDraft /\ preview' = None /\ previews' = {}
      /\ busy' = FALSE /\ previewed' = None
      /\ list' = list \/ list' = {}
  BY DEF LeaveBuilder, ReloadBuilder, FreshPage
<1>2. ASSUME NEW by \in {"left", "gone"}, NEW c \in changes
      PROVE  [c EXCEPT !.by = by] \in Changes /\ [c EXCEPT !.by = by].by = by
  BY DEF BuilderTypeOK, Changes
<1>3. \A d \in changes' : d \in Changes /\ d.by # "mounted"
  <2> TAKE d \in changes'
  <2>1. PICK c \in changes, by \in {"left", "gone"} : d = [c EXCEPT !.by = by]
    BY DEF LeaveBuilder, ReloadBuilder
  <2> QED
    BY <1>2, <2>1
<1>4. BuilderTypeOK'
  BY <1>1, <1>3, EmptyTyped DEF BuilderTypeOK
<1>5. DraftInv'
  BY <1>1, <1>3 DEF DraftInv, Saving
<1> QED
  BY <1>4, <1>5 DEF BuilderKeeps

LEMMA DraftKept ==
  ASSUME TabTypeOK, DraftInv, [Next]_vars
  PROVE  BuilderKeeps
<1>a. BuilderTypeOK
  BY DEF TabTypeOK
<1>1. CASE UNCHANGED builderVars
  BY <1>1, EditKeeps, <1>a DEF builderVars, BuilderTypeOK
<1>2. CASE UNCHANGED vars \/ Outside \/ Calls \/ Viewing
  BY <1>1, <1>2 DEF vars, Outside, Calls, Viewing
<1>3. CASE Moving
  <2>1. CASE OpenBuilder
    BY <1>a, <2>1 DEF OpenBuilder, BuilderTypeOK, DraftInv, Saving, BuilderKeeps
  <2>2. CASE LeaveBuilder \/ ReloadBuilder
    BY <1>a, <2>2, LeavingKeeps
  <2> QED
    BY <1>1, <1>3, <2>1, <2>2 DEF Moving
<1>4. CASE Drafting
  <2>1. CASE \/ \E id \in Customs : SetId(id)
             \/ AddTile
             \/ \E i \in DOMAIN draft.tiles : RemoveTile(i)
             \/ \E i \in DOMAIN draft.tiles, body \in Bodies : PatchTile(i, body)
    BY <1>a, <2>1, EditsTyped, EditKeeps
  <2>2. CASE StartPreview \/ \E t \in previews : EndPreview(t)
    BY <1>a, <2>2, PreviewKeeps
  <2>3. CASE StartSave
    <3>1. draft.id \in Ids /\ draft.tiles \in Seq(Tile)
      BY <1>a, <2>3 DEF StartSave, CanSave, BuilderTypeOK, Drafts, Ids
    <3> QED
      BY <1>a, <2>3, <3>1, StartKeeps DEF StartSave
  <2>4. ASSUME NEW id \in list, StartRemove(id) PROVE BuilderKeeps
    <3>1. id \in Ids /\ <<>> \in Seq(Tile)
      BY <1>a DEF BuilderTypeOK
    <3> QED
      BY <1>a, <2>4, <3>1, StartKeeps DEF StartRemove
  <2>5. ASSUME NEW c \in changes, Mutate(c) \/ Refetch(c) \/ ChangeFails(c)
        PROVE  BuilderKeeps
    BY <1>a, <2>5, ChangeKeeps
  <2>6. CASE ReadList
    BY <1>a, <2>6
       DEF ReadList, Stored, BuilderTypeOK, DraftInv, Saving, BuilderKeeps
  <2> QED
    BY <1>4, <2>1, <2>2, <2>3, <2>4, <2>5, <2>6 DEF Drafting
<1> QED
  BY <1>2, <1>3, <1>4 DEF Next

-----------------------------------------------------------------------------
(* Together they are inductive.                                            *)
TabInv ==
  TabTypeOK /\ CacheOK /\ RunsInv /\ FetchInv /\ AgesInv /\ VersionsInv /\ DraftInv

LEMMA TabInvInit ==
  ASSUME Init
  PROVE  TabInv
<1>1. /\ world = 0 /\ stored = [id \in Ids |-> None] /\ url = "discovering"
      /\ page = Catalogue
      /\ search = None /\ fetch = FreshFetch /\ gets = <<>> /\ query = FreshQuery
      /\ posts = {} /\ cache = <<>> /\ seen = 0 /\ twice = FALSE
  BY DEF Init, ShellInit, ViewerInit
<1>2. /\ draft = EmptyDraft /\ preview = None /\ previews = {} /\ busy = FALSE
      /\ list = {} /\ changes = {} /\ previewed = None
  BY DEF Init, BuilderInit
<1>3. Len(gets) = 0 /\ gets \in Seq(Pages) /\ Len(cache) = 0 /\ cache \in Seq(Answers)
  BY <1>1
<1>4. ShellTypeOK
  BY <1>1, PagesDiffer DEF ShellTypeOK, Urls
<1>5. ViewerTypeOK
  <2>1. twice \in BOOLEAN
    BY <1>1
  <2> QED
    BY <1>1, <1>3, <2>1, FreshTyped DEF ViewerTypeOK
<1>6. MountedOK
  BY <1>1, PagesDiffer DEF MountedOK
<1>7. BuilderTypeOK /\ DraftInv
  BY <1>2, EmptyTyped DEF BuilderTypeOK, DraftInv
<1>8. Entries(cache) = {} /\ CacheOK
  BY <1>3 DEF Entries, CacheOK, DistinctKeys
<1>9. RunsInv /\ FetchInv
  BY <1>1, <1>3, FreshTyped DEF RunsInv, FetchInv
<1>10. AgesInv
  BY <1>1, <1>8, FreshTyped DEF AgesInv, ComputedBy, WatchedIsNew
<1>11. VersionsInv
  BY <1>1, <1>8, FreshTyped DEF VersionsInv, VersionsOf
<1> QED
  BY <1>4, <1>5, <1>6, <1>7, <1>8, <1>9, <1>10, <1>11 DEF TabInv, TabTypeOK

LEMMA TabInvKept ==
  ASSUME TabInv, [Next]_vars
  PROVE  TabInv'
<1>1. ViewerStep
  BY StepsOfViewer DEF TabInv
<1>2. ShellTypeOK' /\ ViewerTypeOK' /\ MountedOK' /\ CacheOK'
  BY <1>1, ViewerTypesKept DEF TabInv
<1>3. BuilderTypeOK' /\ DraftInv'
  BY DraftKept DEF TabInv, BuilderKeeps
<1>4. RunsInv' /\ FetchInv' /\ AgesInv' /\ VersionsInv'
  BY <1>1, RunsKept, FetchKept, AgesKept, VersionsKept DEF TabInv
<1> QED
  BY <1>2, <1>3, <1>4 DEF TabInv, TabTypeOK

LEMMA TabKeepsItsInv == Spec => []TabInv
<1>1. Init => TabInv
  BY TabInvInit
<1>2. TabInv /\ [Next]_vars => TabInv'
  BY TabInvKept
<1> QED
  BY <1>1, <1>2, PTL DEF Spec

-----------------------------------------------------------------------------
LEMMA AskedIsShown ==
  ASSUME TabInv, OnScreen, ~EffectsDue, ~query.loading, query.data # None
  PROVE  query.data.key = Key /\ page \in Ids
<1>1. page \in Ids
  BY DEF OnScreen, Loaded
<1>2. url = "known"
  BY DEF TabInv, RunsInv
<1>3. query.deps = Key
  BY <1>1, <1>2, KeyTyped DEF TabInv, EffectsDue, RunDue, IsConfigured
<1> QED
  BY <1>1, <1>3 DEF TabInv, RunsInv

(* A report on the screen that is not loading shows the answer to what the *)
(* page asks for, however many runs of whatever filters, reports and       *)
(* viewers are answered in whatever order.                                 *)
THEOREM PageShowsWhatItAsks == Spec => []ShownIsAsked
<1>1. TabInv => ShownIsAsked
  BY AskedIsShown DEF ShownIsAsked
<1> QED
  BY <1>1, TabKeepsItsInv, PTL

(* The figures of a request are never older than some shown before for it, *)
(* unless two runs of it were out together; whatever the cache of the tab  *)
(* evicts, expires or keeps.                                               *)
THEOREM FiguresNeverAge == Spec => []NeverOlder
<1>1. TabInv => NeverOlder
  BY DEF TabInv, AgesInv, WatchedIsNew, NeverOlder
<1> QED
  BY <1>1, TabKeepsItsInv, PTL

(* A tile of an id of its own is found by its id.                          *)
LEMMA FoundById ==
  ASSUME NEW tiles \in Seq(Tile), Distinct(tiles), NEW i \in DOMAIN tiles
  PROVE  /\ ResultByTile(tiles, tiles[i].id) = tiles[i]
         /\ PreviewTile(tiles, tiles[i].id) = tiles[i]
<1>1. Places(tiles, tiles[i].id) = {i}
  BY DEF Places, Distinct
<1>2. i <= i
  OBVIOUS
<1> QED
  BY <1>1, <1>2 DEF ResultByTile, PreviewTile

LEMMA ViewerFrames ==
  ASSUME TabInv
  PROVE  FramedInViewer
<1> SUFFICES ASSUME OnScreen, ~EffectsDue, ~query.loading, query.data # None
             PROVE  /\ fetch.data.of = page
                    /\ fetch.data.report.since = query.data.report.since
                         /\ Distinct(fetch.data.report.tiles) =>
                         \A i \in DOMAIN fetch.data.report.tiles :
                           ResultByTile(query.data.report.tiles,
                                        fetch.data.report.tiles[i].id)
                             = fetch.data.report.tiles[i]
  BY DEF FramedInViewer
<1>1. /\ page \in Ids /\ fetch.data # None /\ ~fetch.loading
      /\ query.data.key = Key
  BY AskedIsShown DEF OnScreen, Loaded
<1>2. url = "known" /\ fetch.deps = <<page, url>>
  BY <1>1, PagesDiffer DEF TabInv, FetchInv, EffectsDue, LoadDue, LoadInputs
<1>3. fetch.data.of = page
  <2>1. fetch.deps # None /\ fetch.deps[1] = page /\ fetch.deps[2] = "known"
    BY <1>1, <1>2, PagesDiffer DEF Urls
  <2> QED
    BY <1>1, <2>1 DEF TabInv, FetchInv
<1>4. fetch.data \in Definitions
  BY <1>1, <1>3, PagesDiffer
     DEF TabInv, TabTypeOK, ViewerTypeOK, Fetches, Listings
<1>5. query.data \in Answers /\ query.data.key[1] = page
  BY <1>1, EntriesTyped DEF TabInv, Key
<1>6. /\ fetch.data.report \in VersionsOf(page)
      /\ query.data.report \in VersionsOf(page)
  BY <1>1, <1>3, <1>4, <1>5 DEF VersionsOf, Definitions, Answers
<1>7. fetch.data.report.since = query.data.report.since =>
        query.data.report = fetch.data.report
  BY <1>1, <1>6 DEF TabInv, VersionsInv
<1>8. fetch.data.report.tiles \in Seq(Tile)
  BY <1>4 DEF Definitions, Versions
<1> QED
  BY <1>3, <1>7, <1>8, FoundById

LEMMA PreviewFrames ==
  ASSUME TabInv
  PROVE  FramedInPreview
<1> SUFFICES ASSUME ~busy, previewed # None, Distinct(previewed),
                    NEW i \in DOMAIN previewed
             PROVE  PreviewTile(preview, previewed[i].id) = previewed[i]
  BY DEF FramedInPreview
<1>1. preview = previewed
  BY DEF TabInv, DraftInv
<1>2. previewed \in Seq(Tile)
  BY DEF TabInv, TabTypeOK, BuilderTypeOK
<1> QED
  BY <1>1, <1>2, FoundById

(* What is drawn in the frame of a tile is the result of that tile: the    *)
(* definition on the screen and the answer beside it, fetched by two calls *)
(* of their own, have the same tiles when they are of the same version,    *)
(* and the preview beside a draft that was not edited is of that draft.    *)
THEOREM FramesAreKept == Spec => []FramesAreTheirOwn
<1>1. TabInv => FramesAreTheirOwn
  BY ViewerFrames, PreviewFrames DEF FramesAreTheirOwn
<1> QED
  BY <1>1, TabKeepsItsInv, PTL

(* A spinner always has a call, or the discovery, to wait for.             *)
THEOREM SpinnersHaveACall == Spec => []SpinnersEnd
<1>1. ASSUME TabInv PROVE SpinnersEnd
  <2>1. query.loading => \E p \in posts : p.mine /\ p.key = query.latest
    BY <1>1 DEF TabInv, RunsInv
  <2>2. ASSUME page # Builder, fetch.loading, ~EffectsDue, url # "discovering"
        PROVE  fetch.latest \in ToSet(gets)
    <3>1. fetch.deps = <<page, url>> /\ fetch.deps # None
      <4>1. fetch.deps = <<page, url>>
        BY <2>2 DEF EffectsDue, LoadDue, LoadInputs
      <4>2. page \in Pages /\ url \in Urls
        BY <1>1 DEF TabInv, TabTypeOK, ShellTypeOK
      <4> QED
        BY <4>1, <4>2, PagesDiffer
    <3> QED
      BY <1>1, <2>2, <3>1
         DEF TabInv, FetchInv, TabTypeOK, ShellTypeOK, ViewerTypeOK, Urls, ToSet
  <2> QED
    BY <2>1, <2>2 DEF SpinnersEnd
<1> QED
  BY <1>1, TabKeepsItsInv, PTL

=============================================================================
