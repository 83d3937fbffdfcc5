------------------------------ MODULE Partition ------------------------------
(***************************************************************************)
(* One day partition of one cube: writePartition rebuilds it shard by      *)
(* shard (reporting-rollup-job/src/fold.ts) while readRollup of the source *)
(* connector reads it shard by shard (ct-native-source, rollup-reader.ts). *)
(*                                                                         *)
(* What a fold computed is a content; its cells only matter through how    *)
(* many shards they fill.  A stored shard carries the content's hash and   *)
(* its own slice, so it is written [content, shard].                       *)
(*                                                                         *)
(* Only the run that holds the job lock writes, so that the get before a   *)
(* put and before a delete reads what the put or delete then finds, and    *)
(* each pair is one step here.  Two runs that overlap in spite of the lock *)
(* are JobLock's subject.                                                  *)
(***************************************************************************)
EXTENDS Naturals, Sequences, FiniteSets

CONSTANTS
  Readers,     \* queries reading the partition
  Contents,    \* the cells a fold may come to
  NShards,     \* NShards[c]: shardCells(c).length, at least one
  MaxShards,
  NoValue,     \* the content of a shard that is not stored
  MaxFolds,    \* bound: folds begun
  MaxCrashes   \* bound: folds interrupted

ASSUME ShardsAssumption ==
  /\ MaxShards \in Nat
  /\ NShards \in [Contents -> 1..MaxShards]
ASSUME BoundsAssumption == MaxFolds \in Nat /\ MaxCrashes \in Nat
ASSUME NoValueAssumption == NoValue \notin Contents

VARIABLES
  shards,    \* shards[i]: the object with key (day, i), [content, shard]
  pc,        \* where the rollup run is in writePartition
  content,   \* what it is writing
  at,        \* the shard it is at
  reading,   \* reading[r]: whether reader r is in its loop
  got,       \* got[r]: the shards reader r has read, in order
  disturbed, \* disturbed[r]: a fold was under way during the read (history)
  damaged,   \* a fold that had begun to write was interrupted, and none has
             \* been completed since (history)
  folds, crashes

foldVars == <<shards, pc, content, at, damaged, folds, crashes>>
readVars == <<reading, got, disturbed>>
vars == <<foldVars, readVars>>

Keys == 0..MaxShards  \* one more than any fold uses, so that reads end
Shard(c, i) == [content |-> c, shard |-> i]
NoShard == Shard(NoValue, 0)
Shards == {Shard(c, i) : c \in Contents, i \in Keys}

TypeOK ==
  /\ shards \in [Keys -> Shards \cup {NoShard}]
  /\ pc \in {"idle", "hash", "put", "surplus"}
  /\ content \in Contents \cup {NoValue}
  /\ pc # "idle" => content \in Contents
  /\ at \in Keys
  /\ reading \in [Readers -> BOOLEAN]
  /\ \A r \in Readers : got[r] \in Seq(Shards) /\ Len(got[r]) <= MaxShards
  /\ disturbed \in [Readers -> BOOLEAN]
  /\ damaged \in BOOLEAN
  /\ folds \in 0..MaxFolds /\ crashes \in 0..MaxCrashes

Init ==
  /\ shards = [i \in Keys |-> NoShard]
  /\ pc = "idle"
  /\ content = NoValue
  /\ at = 0
  /\ reading = [r \in Readers |-> FALSE]
  /\ got = [r \in Readers |-> <<>>]
  /\ disturbed = [r \in Readers |-> FALSE]
  /\ damaged = FALSE
  /\ folds = 0
  /\ crashes = 0

Stored(i) == shards[i] # NoShard

-----------------------------------------------------------------------------
(* Sizes (shared/src/rollup/keying.ts).  The shards that so many cells     *)
(* fill, and the estimate made beforehand of a cube with so many cells a   *)
(* day (the product of its dimensions' cardinalities), kept for so many    *)
(* days.                                                                   *)

CELLS_PER_OBJECT == 1000
TENANT_OBJECT_BUDGET == 2000000
ROWS_PER_DAY == 5000

ShardCells(cells) ==
  IF cells = 0 THEN 1
  ELSE Cardinality({i \in 0..cells : i * CELLS_PER_OBJECT < cells})
EstimateCardinality(rowsPerDay, retentionDays) ==
  LET filled == (rowsPerDay + CELLS_PER_OBJECT - 1) \div CELLS_PER_OBJECT
      shardsPerDay == IF filled > 1 THEN filled ELSE 1
      objectsForRetention == shardsPerDay * retentionDays
  IN  [shardsPerDay |-> shardsPerDay, objectsPerYear |-> shardsPerDay * 365,
       objectsForRetention |-> objectsForRetention,
       withinBudget |-> /\ rowsPerDay <= ROWS_PER_DAY
                        /\ objectsForRetention <= TENANT_OBJECT_BUDGET]

-----------------------------------------------------------------------------
(* writePartition *)
Leave ==
  /\ pc' = "idle"
  /\ content' = NoValue
  /\ at' = 0

(* foldDay hands over what the day's facts come to.                        *)
Begin(c) ==
  /\ pc = "idle"
  /\ folds < MaxFolds
  /\ folds' = folds + 1
  /\ pc' = "hash"
  /\ content' = c
  /\ disturbed' = reading
  /\ UNCHANGED <<shards, at, damaged, crashes, reading, got>>

AnyHash == Stored(0)
SameHash == shards[0].content = content

(* Skip a rebuild that would change nothing.                               *)
Unchanged ==
  /\ pc = "hash"
  /\ SameHash
  /\ Leave
  /\ UNCHANGED <<shards, damaged, folds, crashes, readVars>>

Changed ==
  /\ pc = "hash"
  /\ ~SameHash
  /\ pc' = "put"
  /\ UNCHANGED <<shards, content, at, damaged, folds, crashes, readVars>>

PutShard ==
  /\ pc = "put"
  /\ shards' = [shards EXCEPT ![at] = Shard(content, at)]
  /\ at' = at + 1
  /\ pc' = IF at + 1 < NShards[content] THEN "put" ELSE "surplus"
  /\ UNCHANGED <<content, damaged, folds, crashes, readVars>>

NoSurplus == TRUE
AtEnd == ~Stored(at)

(* Now-surplus shards of a larger rebuild are removed until one is absent. *)
DeleteSurplus ==
  /\ pc = "surplus"
  /\ ~AtEnd
  /\ shards' = [shards EXCEPT ![at] = NoShard]
  /\ at' = at + 1
  /\ UNCHANGED <<pc, content, damaged, folds, crashes, readVars>>

Complete ==
  /\ pc = "surplus"
  /\ AtEnd
  /\ Leave
  /\ damaged' = FALSE
  /\ UNCHANGED <<shards, folds, crashes, readVars>>

(* A crash, a kill at the timeout, or a store error: the fold stops here.  *)
Crash ==
  /\ pc # "idle"
  /\ crashes < MaxCrashes
  /\ crashes' = crashes + 1
  /\ damaged' = (damaged \/ at > 0)
  /\ Leave
  /\ UNCHANGED <<shards, folds, readVars>>

-----------------------------------------------------------------------------
(* readRollup, for one (cube, day): shards are read until one is absent.   *)
StartRead(r) ==
  /\ ~reading[r]
  /\ reading' = [reading EXCEPT ![r] = TRUE]
  /\ got' = [got EXCEPT ![r] = <<>>]
  /\ disturbed' = [disturbed EXCEPT ![r] = pc # "idle"]
  /\ UNCHANGED foldVars

ReadShard(r) ==
  /\ reading[r]
  /\ Stored(Len(got[r]))
  /\ got' = [got EXCEPT ![r] = Append(@, shards[Len(@)])]
  /\ UNCHANGED <<foldVars, reading, disturbed>>

EndRead(r) ==
  /\ reading[r]
  /\ ~Stored(Len(got[r]))
  /\ reading' = [reading EXCEPT ![r] = FALSE]
  /\ UNCHANGED <<foldVars, got, disturbed>>

-----------------------------------------------------------------------------
Next ==
  \/ \E c \in Contents : Begin(c)
  \/ Unchanged \/ Changed
  \/ PutShard \/ DeleteSurplus \/ Complete
  \/ Crash
  \/ \E r \in Readers : StartRead(r) \/ ReadShard(r) \/ EndRead(r)

Spec == Init /\ [][Next]_vars

-----------------------------------------------------------------------------
(* The shards of c, in order, as a reader would get them                   *)
Fold(c) == [i \in 1..NShards[c] |-> Shard(c, i - 1)]

WholeFolds == {<<>>} \cup {Fold(c) : c \in Contents}

(* c is stored, and nothing a reader would take to belong to it            *)
Holds(c) ==
  /\ \A i \in 0..(NShards[c] - 1) : shards[i] = Shard(c, i)
  /\ ~Stored(NShards[c])

(* Whatever an earlier fold left behind when it was interrupted - mixed    *)
(* shards, surplus shards, a gap - a fold that runs to its end leaves the  *)
(* partition with its own content.                                         *)
CompleteFoldIsExact == [][Complete => Holds(content)]_vars

(* "True when the rebuilt partition was byte-identical to what was already *)
(* stored": a fold that is skipped because the hash on shard 0 matches has *)
(* all of its content stored.  Not so after an interrupted fold.           *)
UnchangedMeansIdentical == [][Unchanged => Holds(content)]_vars

(* What is left of it: the hash on shard 0 speaks for the whole partition  *)
(* unless a fold was interrupted while writing, and the next fold that is  *)
(* completed makes good whatever interrupted ones left behind.             *)
UnchangedIfUndamaged == [][Unchanged /\ ~damaged => Holds(content)]_vars

(* A read that no fold overlapped returns one fold, whole, or nothing if   *)
(* there has been none: neither shards of two rebuilds nor a part of one.  *)
(* An interrupted fold breaks this too, until one is completed.            *)
UndisturbedReadIsOneFold ==
  [][\A r \in Readers :
       EndRead(r) /\ ~disturbed[r] /\ ~damaged => got[r] \in WholeFolds]_vars

(* "Shards are read until one is absent; sharding is deterministic and     *)
(* contiguous": the absent shard a reader stops at ends the partition, so  *)
(* every read is of one whole fold.                                        *)
ReadIsOneFold ==
  [][\A r \in Readers : EndRead(r) => got[r] \in WholeFolds]_vars
=============================================================================
