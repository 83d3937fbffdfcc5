--------------------------- MODULE Partition_proofs ---------------------------
(***************************************************************************)
(* A fold that completes leaves exactly its own shards, whatever earlier   *)
(* folds were interrupted and wherever, and until one is interrupted the   *)
(* hash on shard 0 speaks for the whole partition: for any contents, any   *)
(* number of shards and any number of crashes.                             *)
(*                                                                         *)
(* Nothing is assumed of the stored partition when a fold begins.  What is *)
(* inductive is how far the fold has come (FoldInv): the shards below `at` *)
(* are the content's own, up to its last one, and absent above it.  Before *)
(* the first write of a fold an undamaged partition is whole (Whole), and  *)
(* while no fold runs what a reader has got is what is stored (ReadInv).   *)
(***************************************************************************)
EXTENDS Partition, FiniteSetTheorems, TLAPS

Written ==
  \A i \in Keys :
    /\ pc = "put" /\ i < at => shards[i] = Shard(content, i)
    /\ pc = "surplus" /\ i < NShards[content] => shards[i] = Shard(content, i)
    /\ pc = "surplus" /\ NShards[content] <= i /\ i < at => ~Stored(i)

Progress ==
  /\ pc \in {"idle", "hash", "put", "surplus"}
  /\ at \in Nat
  /\ pc # "idle" => content \in Contents
  /\ pc \in {"idle", "hash"} => at = 0
  /\ pc = "put" => at < NShards[content]
  /\ pc = "surplus" => NShards[content] <= at /\ at <= MaxShards
  /\ shards \in [Keys -> Shards \cup {NoShard}]
  /\ ~Stored(MaxShards)

FoldInv == Progress /\ Written

LEMMA ShardCount ==
  ASSUME NEW c \in Contents PROVE NShards[c] \in 1..MaxShards
BY ShardsAssumption

LEMMA FoldInit == Init => FoldInv
BY ShardsAssumption
   DEF Init, FoldInv, Progress, Written, Stored, Shards, NoShard, Keys, Shard

LEMMA FoldStep == FoldInv /\ [Next]_vars => FoldInv'
<1> SUFFICES ASSUME FoldInv, [Next]_vars PROVE FoldInv'
  OBVIOUS
<1> USE DEF FoldInv
<1>0. MaxShards \in Nat /\ MaxShards \in Keys
  BY ShardsAssumption DEF Keys
<1>1. ASSUME NEW c \in Contents, Begin(c) PROVE FoldInv'
  BY <1>1 DEF Begin, Progress, Written, Stored
<1>2. CASE Leave /\ UNCHANGED shards
  BY <1>2 DEF Leave, Progress, Written, Stored
<1>3. CASE Changed
  BY <1>3, ShardCount DEF Changed, Progress, Written, Stored, Keys
<1>4. CASE PutShard
  <2>1. NShards[content] \in 1..MaxShards /\ at \in Keys /\ at # MaxShards
    BY <1>0, <1>4, ShardCount DEF PutShard, Progress, Keys
  <2>2. shards' \in [Keys -> Shards \cup {NoShard}]
    BY <1>4, <2>1 DEF PutShard, Progress, Shards
  <2>3. \A i \in Keys :
          shards'[i] = IF i = at THEN Shard(content, at) ELSE shards[i]
    BY <1>4, <2>1 DEF PutShard, Progress
  <2>4. Progress'
    BY <1>0, <1>4, <2>1, <2>2, <2>3 DEF PutShard, Progress, Stored
  <2>5. Written'
    BY <1>4, <2>1, <2>3 DEF PutShard, Progress, Written, Stored, Keys
  <2> QED
    BY <2>4, <2>5
<1>5. CASE DeleteSurplus
  <2>1. /\ NShards[content] \in 1..MaxShards
        /\ NShards[content] <= at
        /\ at \in Keys
        /\ at # MaxShards
    BY <1>0, <1>5, ShardCount DEF DeleteSurplus, AtEnd, Progress, Keys
  <2>2. shards' \in [Keys -> Shards \cup {NoShard}]
    BY <1>5, <2>1 DEF DeleteSurplus, Progress
  <2>3. \A i \in Keys : shards'[i] = IF i = at THEN NoShard ELSE shards[i]
    BY <1>5, <2>1 DEF DeleteSurplus, Progress
  <2>4. Progress'
    BY <1>0, <1>5, <2>1, <2>2, <2>3 DEF DeleteSurplus, Progress, Stored, Keys
  <2>5. Written'
    BY <1>5, <2>1, <2>3 DEF DeleteSurplus, Progress, Written, Stored, Keys
  <2> QED
    BY <2>4, <2>5
<1>6. CASE UNCHANGED <<shards, pc, content, at>>
  BY <1>6 DEF Progress, Written, Stored
<1> QED
  BY <1>1, <1>2, <1>3, <1>4, <1>5, <1>6
     DEF Next, Unchanged, Complete, Crash, StartRead, ReadShard, EndRead,
         foldVars, vars

(* writePartition's last step finds exactly its own shards stored.         *)
LEMMA CompleteHolds ==
  ASSUME FoldInv, Complete
  PROVE  content \in Contents /\ Holds(content)
<1>1. Holds(content)
  <2> USE DEF FoldInv
  <2>1. NShards[content] \in 1..MaxShards
    BY ShardCount DEF Complete, Progress
  <2>2. ASSUME NEW i \in 0..(NShards[content] - 1)
        PROVE  shards[i] = Shard(content, i)
    BY <2>1, <2>2, ShardsAssumption DEF Complete, Written, Keys
  <2>3. ~Stored(NShards[content])
    <3>1. CASE at = NShards[content]
      BY <3>1 DEF Complete, AtEnd
    <3>2. CASE at # NShards[content]
      BY <2>1, <3>2, ShardsAssumption
         DEF Complete, Progress, Written, Keys
    <3> QED
      BY <3>1, <3>2
  <2> QED
    BY <2>2, <2>3 DEF Holds
<1> QED
  BY <1>1 DEF FoldInv, Progress, Complete

(* A fold that runs to its end leaves exactly its own shards: proved of    *)
(* writePartition for every number of shards and of interruptions.         *)
THEOREM CompletedFoldsAreExact == Spec => CompleteFoldIsExact
<1>1. FoldInv => [Complete => Holds(content)]_vars
  BY CompleteHolds
<1> QED
  BY <1>1, FoldInit, FoldStep, PTL DEF Spec, CompleteFoldIsExact

-----------------------------------------------------------------------------
(* Nothing is stored, or one whole fold.                                   *)
IsWhole == (\A i \in Keys : ~Stored(i)) \/ (\E c \in Contents : Holds(c))

Whole == damaged \in BOOLEAN /\ (~damaged /\ at = 0 => IsWhole)

LEMMA WholeInit == Init => Whole
BY DEF Init, Whole, IsWhole, Stored

LEMMA WholeStep == FoldInv /\ Whole /\ [Next]_vars => Whole'
<1> SUFFICES ASSUME FoldInv, Whole, [Next]_vars PROVE Whole'
  OBVIOUS
<1>1. CASE UNCHANGED <<shards, at, damaged>>
  BY <1>1 DEF Whole, IsWhole, Holds, Stored
<1>2. CASE Unchanged
  BY <1>2 DEF Unchanged, Leave, FoldInv, Progress, Whole, IsWhole, Holds, Stored
<1>3. CASE PutShard \/ DeleteSurplus
  <2>1. at' # 0
    BY <1>3 DEF PutShard, DeleteSurplus, FoldInv, Progress
  <2>2. damaged' \in BOOLEAN
    BY <1>3 DEF PutShard, DeleteSurplus, Whole
  <2> QED
    BY <2>1, <2>2 DEF Whole
<1>4. CASE Complete
  <2>1. content \in Contents /\ Holds(content)
    BY <1>4, CompleteHolds
  <2>2. UNCHANGED shards
    BY <1>4 DEF Complete
  <2>3. IsWhole'
    BY <2>1, <2>2 DEF IsWhole, Holds, Stored
  <2> QED
    BY <1>4, <2>3 DEF Complete, Whole
<1>5. CASE Crash
  <2>1. damaged' \in BOOLEAN /\ (~damaged' => ~damaged /\ at = 0)
    <3>1. damaged' = (damaged \/ at > 0) /\ damaged \in BOOLEAN
      BY <1>5 DEF Crash, Whole
    <3>2. at > 0 \/ at = 0
      BY DEF FoldInv, Progress
    <3> QED
      BY <3>1, <3>2, Zenon
  <2>2. UNCHANGED shards
    BY <1>5 DEF Crash
  <2> QED
    BY <2>1, <2>2 DEF Whole, IsWhole, Holds, Stored
<1> QED
  BY <1>1, <1>2, <1>3, <1>4, <1>5
     DEF Next, Begin, Changed, StartRead, ReadShard, EndRead, foldVars, vars

(* The skip on an equal hash is right for any partition that no fold left  *)
(* half written: the shards stored are then exactly those of the fold that *)
(* is skipped.                                                             *)
THEOREM SkippedFoldsAreStored == Spec => UnchangedIfUndamaged
<1>1. ASSUME FoldInv, Whole, Unchanged, ~damaged PROVE Holds(content)
  <2>1. content \in Contents /\ at = 0 /\ shards[0].content = content
    BY <1>1 DEF Unchanged, SameHash, FoldInv, Progress
  <2>2. Stored(0) /\ 0 \in Keys
    BY <2>1, NoValueAssumption, ShardsAssumption
       DEF Stored, NoShard, Shard, Keys
  <2>3. PICK c \in Contents : Holds(c)
    BY <1>1, <2>1, <2>2 DEF Whole, IsWhole
  <2>4. shards[0] = Shard(c, 0)
    BY <2>3, ShardCount, ShardsAssumption DEF Holds
  <2>5. c = content
    BY <2>1, <2>4 DEF Shard
  <2> QED
    BY <2>3, <2>5
<1>2. FoldInv /\ Whole => [Unchanged /\ ~damaged => Holds(content)]_vars
  BY <1>1
<1> QED
  BY <1>2, FoldInit, FoldStep, WholeInit, WholeStep, PTL
     DEF Spec, UnchangedIfUndamaged

-----------------------------------------------------------------------------
(* What a reader has got while no fold ran is what is stored.              *)
GotStored(r) ==
  \A i \in Keys :
    i < Len(got[r]) => Stored(i) /\ got[r][i + 1] = shards[i]

ReadInv ==
  /\ reading \in [Readers -> BOOLEAN]
  /\ disturbed \in [Readers -> BOOLEAN]
  /\ got \in [Readers -> Seq(Shards)]
  /\ \A r \in Readers : Len(got[r]) \in Keys
  /\ \A r \in Readers :
       reading[r] /\ ~disturbed[r] => pc = "idle" /\ GotStored(r)

LEMMA ReadInit == Init => ReadInv
BY ShardsAssumption DEF Init, ReadInv, Keys

LEMMA ReadStep == FoldInv /\ ReadInv /\ [Next]_vars => ReadInv'
<1> SUFFICES ASSUME FoldInv, ReadInv, [Next]_vars PROVE ReadInv'
  OBVIOUS
<1>0. MaxShards \in Nat /\ Progress
  BY ShardsAssumption DEF FoldInv
<1>1. ASSUME NEW c \in Contents, Begin(c) PROVE ReadInv'
  BY <1>1 DEF Begin, ReadInv
<1>2. CASE /\ pc # "idle"
           /\ UNCHANGED readVars
  BY <1>2 DEF ReadInv, readVars
<1>3. ASSUME NEW r \in Readers, StartRead(r) PROVE ReadInv'
  <2>1. ASSUME NEW q \in Readers, reading'[q], ~disturbed'[q]
        PROVE  pc' = "idle" /\ GotStored(q)'
    <3>1. CASE q = r
      <4>1. got'[q] = <<>> /\ disturbed'[q] = (pc # "idle")
        BY <1>3, <3>1 DEF StartRead, ReadInv
      <4>2. pc = "idle"
        BY <2>1, <4>1, Zenon
      <4> QED
        BY <1>0, <1>3, <4>1, <4>2 DEF StartRead, foldVars, GotStored, Keys
    <3>2. CASE q # r
      BY <1>3, <2>1, <3>2
         DEF StartRead, ReadInv, foldVars, GotStored, Stored
    <3> QED
      BY <3>1, <3>2
  <2>2. /\ reading' \in [Readers -> BOOLEAN]
        /\ got' \in [Readers -> Seq(Shards)]
        /\ \A q \in Readers : Len(got'[q]) \in Keys
    BY <1>0, <1>3 DEF StartRead, ReadInv, Keys
  <2>3. disturbed' \in [Readers -> BOOLEAN]
    BY <1>3, Zenon DEF StartRead, ReadInv
  <2> QED
    BY <2>1, <2>2, <2>3 DEF ReadInv
<1>4. ASSUME NEW r \in Readers, ReadShard(r) PROVE ReadInv'
  <2> DEFINE n == Len(got[r])
  <2>1. n \in Keys /\ Stored(n) /\ n # MaxShards
    BY <1>0, <1>4 DEF ReadShard, ReadInv, Progress
  <2>2. shards[n] \in Shards
    BY <1>0, <2>1 DEF Progress, Stored
  <2>3. got'[r] = Append(got[r], shards[n]) /\ got[r] \in Seq(Shards)
    BY <1>4 DEF ReadShard, ReadInv
  <2>4. /\ got'[r] \in Seq(Shards) /\ Len(got'[r]) = n + 1
        /\ \A i \in 1..n : got'[r][i] = got[r][i]
        /\ got'[r][n + 1] = shards[n]
    BY <2>2, <2>3
  <2>5. n + 1 \in Keys
    BY <1>0, <2>1 DEF Keys
  <2>6. ASSUME NEW q \in Readers, reading'[q], ~disturbed'[q]
        PROVE  pc' = "idle" /\ GotStored(q)'
    <3>1. pc = "idle" /\ GotStored(q)
      BY <1>4, <2>6 DEF ReadShard, ReadInv
    <3>2. CASE q = r
      BY <1>0, <1>4, <2>1, <2>4, <3>1, <3>2
         DEF ReadShard, foldVars, GotStored, Stored, Keys
    <3>3. CASE q # r
      BY <1>4, <3>1, <3>3
         DEF ReadShard, ReadInv, foldVars, GotStored, Stored
    <3> QED
      BY <3>2, <3>3
  <2>7. \A q \in Readers : q # r => got'[q] = got[q]
    BY <1>4 DEF ReadShard, ReadInv
  <2>8. got' \in [Readers -> Seq(Shards)]
    BY <1>4, <2>4, <2>7 DEF ReadShard, ReadInv
  <2> QED
    BY <1>4, <2>4, <2>5, <2>6, <2>7, <2>8 DEF ReadShard, ReadInv
<1>5. ASSUME NEW r \in Readers, EndRead(r) PROVE ReadInv'
  BY <1>5 DEF EndRead, ReadInv, foldVars, GotStored, Stored
<1>6. CASE UNCHANGED vars
  BY <1>6 DEF vars, foldVars, readVars, ReadInv, GotStored, Stored
<1> QED
  BY <1>1, <1>2, <1>3, <1>4, <1>5, <1>6
     DEF Next, Unchanged, Changed, PutShard, DeleteSurplus, Complete, Crash

(* A read that met no fold, of a partition no fold left half written, is   *)
(* exactly the shards of one fold, in order, or finds nothing stored.      *)
THEOREM QuietReadsAreOneFold == Spec => UndisturbedReadIsOneFold
<1> DEFINE Step ==
      \A r \in Readers :
        EndRead(r) /\ ~disturbed[r] /\ ~damaged => got[r] \in WholeFolds
<1>1. FoldInv /\ Whole /\ ReadInv => [Step]_vars
  <2> SUFFICES ASSUME FoldInv, Whole, ReadInv,
                      NEW r \in Readers, EndRead(r), ~disturbed[r], ~damaged
               PROVE  got[r] \in WholeFolds
    OBVIOUS
  <2> DEFINE n == Len(got[r])
  <2>1. /\ pc = "idle" /\ at = 0 /\ GotStored(r)
        /\ got[r] \in Seq(Shards) /\ n \in Keys /\ ~Stored(n)
    BY DEF EndRead, ReadInv, FoldInv, Progress
  <2>2. IsWhole
    BY <2>1 DEF Whole
  <2>3. CASE \A i \in Keys : ~Stored(i)
    <3>1. n = 0
      BY <2>1, <2>3, ShardsAssumption DEF GotStored, Keys
    <3>2. got[r] = <<>>
      BY <2>1, <3>1
    <3> QED
      BY <3>2 DEF WholeFolds
  <2>4. ASSUME NEW c \in Contents, Holds(c) PROVE got[r] \in WholeFolds
    <3>1. NShards[c] \in 1..MaxShards /\ NShards[c] \in Keys
      BY ShardCount, ShardsAssumption DEF Keys
    <3>2. \A i \in 0..(NShards[c] - 1) : shards[i] = Shard(c, i) /\ Stored(i)
      BY <2>4, NoValueAssumption DEF Holds, Stored, NoShard, Shard
    <3>3. n = NShards[c]
      <4>1. ~(n < NShards[c])
        BY <2>1, <3>1, <3>2, ShardsAssumption DEF Keys
      <4>2. ~(NShards[c] < n)
        BY <2>1, <2>4, <3>1 DEF GotStored, Holds
      <4> QED
        BY <2>1, <3>1, <4>1, <4>2, ShardsAssumption DEF Keys
    <3>4. \A j \in 1..n : got[r][j] = Shard(c, j - 1)
      <4>1. ASSUME NEW j \in 1..n PROVE got[r][j] = Shard(c, j - 1)
        <5>1. /\ j - 1 \in Keys /\ j - 1 < n /\ (j - 1) + 1 = j
              /\ j - 1 \in 0..(NShards[c] - 1)
          BY <3>1, <3>3, ShardsAssumption DEF Keys
        <5>2. got[r][(j - 1) + 1] = shards[j - 1]
          BY <2>1, <5>1 DEF GotStored
        <5> QED
          BY <3>2, <5>1, <5>2
      <4> QED
        BY <4>1
    <3>5. got[r] = Fold(c)
      BY <2>1, <3>3, <3>4 DEF Fold
    <3> QED
      BY <3>5 DEF WholeFolds
  <2> QED
    BY <2>2, <2>3, <2>4 DEF IsWhole
<1>2. Spec => [](FoldInv /\ Whole /\ ReadInv)
  BY FoldInit, FoldStep, WholeInit, WholeStep, ReadInit, ReadStep, PTL DEF Spec
<1>3. Spec => [][Step]_vars
  BY <1>1, <1>2, PTL
<1> QED
  BY <1>3 DEF UndisturbedReadIsOneFold

-----------------------------------------------------------------------------
(* A reader never gets further than the largest fold, and the counters     *)
(* stay in their bounds.                                                   *)
Counted ==
  /\ content \in Contents \cup {NoValue}
  /\ damaged \in BOOLEAN
  /\ folds \in 0..MaxFolds /\ crashes \in 0..MaxCrashes

LEMMA CountedInit == Init => Counted
<1> SUFFICES ASSUME Init PROVE Counted
  OBVIOUS
<1>1. damaged \in BOOLEAN
  BY Zenon DEF Init
<1> QED
  BY <1>1, BoundsAssumption DEF Init, Counted

LEMMA CountedStep == FoldInv /\ Counted /\ [Next]_vars => Counted'
<1> SUFFICES ASSUME FoldInv, Counted, [Next]_vars PROVE Counted'
  OBVIOUS
<1> USE BoundsAssumption DEF Counted
<1>1. ASSUME NEW c \in Contents, Begin(c) PROVE Counted'
  BY <1>1 DEF Begin
<1>2. CASE Unchanged \/ Changed \/ PutShard \/ DeleteSurplus
  BY <1>2 DEF Unchanged, Changed, PutShard, DeleteSurplus, Leave
<1>3. CASE Complete
  BY <1>3 DEF Complete, Leave
<1>4. CASE Crash
  <2>1. damaged' \in BOOLEAN
    BY <1>4, Zenon DEF Crash
  <2> QED
    BY <1>4, <2>1 DEF Crash, Leave
<1>5. CASE UNCHANGED foldVars
  BY <1>5 DEF foldVars
<1> QED
  BY <1>1, <1>2, <1>3, <1>4, <1>5
     DEF Next, StartRead, ReadShard, EndRead, vars

(* Type correctness: shards are where their keys say, and no fold or read  *)
(* leaves the keys.                                                        *)
THEOREM TypeCorrect == Spec => []TypeOK
<1>1. FoldInv /\ ReadInv /\ Counted => TypeOK
  <2> SUFFICES ASSUME FoldInv, ReadInv, Counted PROVE TypeOK
    OBVIOUS
  <2>1. at \in Keys
    BY ShardsAssumption, ShardCount DEF FoldInv, Progress, Keys
  <2>2. \A r \in Readers : got[r] \in Seq(Shards) /\ Len(got[r]) <= MaxShards
    BY ShardsAssumption DEF ReadInv, Keys
  <2> QED
    BY <2>1, <2>2 DEF FoldInv, Progress, ReadInv, Counted, TypeOK
<1> QED
  BY <1>1, FoldInit, FoldStep, ReadInit, ReadStep, CountedInit, CountedStep, PTL
     DEF Spec

-----------------------------------------------------------------------------
(* Sizes.  The shards are cut at every CELLS_PER_OBJECT cells, and the     *)
(* estimate divides and rounds up: for any number of cells both come to    *)
(* the same, also for none and for a last shard that is full.              *)

LEMMA ShardsAreCut ==
  ASSUME NEW cells \in Nat \ {0}
  PROVE  ShardCells(cells)
           = (cells + CELLS_PER_OBJECT - 1) \div CELLS_PER_OBJECT
<1> DEFINE filled == (cells + CELLS_PER_OBJECT - 1) \div CELLS_PER_OBJECT
<1>1. filled \in Nat /\ 1 <= filled /\ filled <= cells
  BY DEF CELLS_PER_OBJECT
<1>2. \A i \in Nat : i * CELLS_PER_OBJECT < cells <=> i <= filled - 1
  BY DEF CELLS_PER_OBJECT
<1> HIDE DEF filled
<1>3. {i \in 0..cells : i * CELLS_PER_OBJECT < cells} = 0..(filled - 1)
  BY <1>1, <1>2
<1>4. Cardinality(0..(filled - 1)) = filled
  BY <1>1, FS_Interval
<1> QED
  BY <1>3, <1>4 DEF ShardCells, filled

(* What estimateCardinality promises of a cube before it is built is what  *)
(* shardCells then stores: as many objects each day, and no more than five *)
(* of them, nor than the budget over all the days kept, when it admits it. *)
THEOREM EstimateIsWhatIsStored ==
  ASSUME NEW cells \in Nat, NEW days \in Nat
  PROVE  LET estimate == EstimateCardinality(cells, days)
         IN  /\ estimate.shardsPerDay = ShardCells(cells)
             /\ estimate.withinBudget =>
                  /\ ShardCells(cells) <= 5
                  /\ ShardCells(cells) * days <= TENANT_OBJECT_BUDGET
<1> DEFINE filled == (cells + CELLS_PER_OBJECT - 1) \div CELLS_PER_OBJECT
           shardsPerDay == IF filled > 1 THEN filled ELSE 1
           estimate == EstimateCardinality(cells, days)
<1>1. shardsPerDay = ShardCells(cells)
  <2>1. CASE cells = 0
    BY <2>1 DEF ShardCells, CELLS_PER_OBJECT
  <2>2. CASE cells # 0
    <3>1. filled \in Nat /\ 1 <= filled
      BY <2>2 DEF CELLS_PER_OBJECT
    <3> QED
      BY <2>2, <3>1, ShardsAreCut
  <2> QED
    BY <2>1, <2>2
<1>2. cells <= ROWS_PER_DAY => shardsPerDay <= 5
  BY DEF ROWS_PER_DAY, CELLS_PER_OBJECT
<1>3. /\ estimate.shardsPerDay = shardsPerDay
      /\ estimate.withinBudget =>
           /\ cells <= ROWS_PER_DAY
           /\ shardsPerDay * days <= TENANT_OBJECT_BUDGET
  BY DEF EstimateCardinality
<1> QED
  BY <1>1, <1>2, <1>3
=============================================================================
