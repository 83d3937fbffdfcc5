------------------------------ MODULE Ga4Source ------------------------------
(***************************************************************************)
(* The GA4 source's query handler in live mode                             *)
(* (connectors/ga4/ga4-source/src/handler.ts, cache.ts, quota.ts): a       *)
(* persistent cache in custom objects, a token bucket in memory, and the   *)
(* GA4 Data API behind them.  Queries run concurrently and interleave at   *)
(* every await; the process may be restarted, which fills the bucket.      *)
(*                                                                         *)
(* A cached result is reduced to the time of its figures and its expiry.   *)
(***************************************************************************)
EXTENDS CustomObjects, Integers

CONSTANTS
  Keys,      \* cache keys: the distinct requests asked of the source
  Queries,   \* slots: the queries handled at one time
  Capacity,  \* of the token bucket
  Refill,    \* tokens per tick
  TTL,       \* of a cache entry, in ticks
  MaxTime,   \* bound: ticks
  MaxRestarts \* bound: restarts of the process

ASSUME QuotaAssumption ==
  /\ Capacity \in Nat
  /\ Refill \in Nat
  /\ TTL \in Nat \ {0}
  /\ MaxTime \in Nat
  /\ MaxRestarts \in Nat
ASSUME KeysAssumption == Keys # {}

VARIABLES
  now,
  tokens, refilledAt,  \* TokenBucket
  entry,     \* entry[k]: the cached object of request k
  job,       \* job[q]: the query handled in slot q
  spent,     \* history: calls of the GA4 Data API allowed by the bucket
  restarts

bucket == <<tokens, refilledAt>>
ga4Vars == <<now, tokens, refilledAt, entry, job, spent, restarts>>

Time == 0..MaxTime

Cached == [asOf : Time, expiresAt : Nat]

NoFigures == -1

(* The answers: a result marked as the caller sees it, or an error.  A     *)
(* "cached" answer carries no degradedReason, a "degraded" one does.       *)
Results == {"live", "cached", "degraded"}
Errors == {"quota", "unavailable", "unsupported", "failed"}

Job ==
  [state : {"free", "reading", "asking", "storing", "writing", "answered"},
   key : Keys,
   askedAt : Time,      \* now() when the cache was asked
   read : Time \cup {NoFigures}, \* the time of the figures in the cache
   version : Nat,       \* the version writeCache saw
   asOf : Time,         \* the time of the figures answered, or to be stored
   answer : Results \cup Errors,
   tried : BOOLEAN]     \* history: a token was spent on this query

Ga4TypeOK ==
  /\ now \in Time
  /\ tokens \in 0..Capacity
  /\ refilledAt \in 0..now
  /\ entry \in [Keys -> Object(Cached)]
  /\ job \in [Queries -> Job]
  /\ spent \in Nat
  /\ restarts \in 0..MaxRestarts

NoJob(k) ==
  [state |-> "free", key |-> k, askedAt |-> 0, read |-> NoFigures,
   version |-> Unversioned, asOf |-> 0, answer |-> "failed", tried |-> FALSE]

SomeKey == CHOOSE k \in Keys : TRUE

Ga4Init ==
  /\ now = 0
  /\ tokens = Capacity
  /\ refilledAt = 0
  /\ entry = [k \in Keys |-> Absent]
  /\ job = [q \in Queries |-> NoJob(SomeKey)]
  /\ spent = 0
  /\ restarts = 0

-----------------------------------------------------------------------------
(* TokenBucket: every attempt refills first, whether it gets a token or    *)
(* not.                                                                    *)
RefilledUncapped == tokens + (now - refilledAt) * Refill

Refilled ==
  LET grown == tokens + (now - refilledAt) * Refill
  IN  IF grown < Capacity THEN grown ELSE Capacity

TakeTokenUnstamped ==
  /\ Refilled >= 1
  /\ tokens' = Refilled - 1
  /\ UNCHANGED refilledAt
  /\ spent' = spent + 1

TakeToken ==
  /\ Refilled >= 1
  /\ tokens' = Refilled - 1
  /\ refilledAt' = now
  /\ spent' = spent + 1

NoToken ==
  /\ Refilled < 1
  /\ tokens' = Refilled
  /\ refilledAt' = now
  /\ UNCHANGED spent

-----------------------------------------------------------------------------
Update(q, j) == job' = [job EXCEPT ![q] = j]

Answered(j, a, t) ==
  [NoJob(j.key) EXCEPT !.state = "answered", !.answer = a, !.asOf = t,
                       !.askedAt = IF a \in {"live", "cached"} THEN j.askedAt ELSE 0,
                       !.tried = j.tried]

Figures(k) == IF Present(entry[k]) THEN entry[k].value.asOf ELSE NoFigures

Receive(q, k) ==
  /\ job[q].state = "free"
  /\ Update(q, [NoJob(k) EXCEPT !.state = "reading", !.askedAt = now])
  /\ UNCHANGED <<now, bucket, entry, spent, restarts>>

AnyEntry(j) == Present(entry[j.key])

IsFresh(j) ==
  Present(entry[j.key]) /\ j.askedAt < entry[j.key].value.expiresAt

(* readCache, and the decision on its answer                               *)
ReadFresh(q) ==
  /\ job[q].state = "reading"
  /\ IsFresh(job[q])
  /\ Update(q, Answered(job[q], "cached", Figures(job[q].key)))
  /\ UNCHANGED <<now, bucket, entry, spent, restarts>>

ReadAndAsk(q) ==
  /\ job[q].state = "reading"
  /\ ~IsFresh(job[q])
  /\ TakeToken
  /\ Update(q, [job[q] EXCEPT !.state = "asking", !.tried = TRUE,
                              !.read = Figures(job[q].key)])
  /\ UNCHANGED <<now, entry, restarts>>

ReadWithoutQuota(q) ==
  LET figures == Figures(job[q].key)
  IN  /\ job[q].state = "reading"
      /\ ~IsFresh(job[q])
      /\ NoToken
      /\ Update(q, IF figures = NoFigures
                     THEN Answered(job[q], "quota", 0)
                     ELSE Answered(job[q], "degraded", figures))
      /\ UNCHANGED <<now, entry, restarts>>

(* A cache read that throws is outside the handler's try.                  *)
ReadFails(q) ==
  /\ job[q].state = "reading"
  /\ Update(q, Answered(job[q], "failed", 0))
  /\ UNCHANGED <<now, bucket, entry, spent, restarts>>

(* runGa4Report answered; writeCache then reads the entry's version ...    *)
Ga4Answers(q) ==
  /\ job[q].state = "asking"
  /\ Update(q, [job[q] EXCEPT !.state = "storing", !.asOf = now])
  /\ UNCHANGED <<now, bucket, entry, spent, restarts>>

StoreReads(q) ==
  /\ job[q].state = "storing"
  /\ Update(q, [job[q] EXCEPT !.state = "writing",
                              !.version = entry[job[q].key].version])
  /\ UNCHANGED <<now, bucket, entry, spent, restarts>>

(* ... and puts with it.                                                   *)
StoreWrites(q) ==
  LET j == job[q]
  IN  /\ j.state = "writing"
      /\ PutAccepted(entry[j.key], j.version)
      /\ entry' = [entry EXCEPT ![j.key] =
                     AfterPut(@, [asOf |-> j.asOf, expiresAt |-> j.asOf + TTL])]
      /\ Update(q, Answered(j, "live", j.asOf))
      /\ UNCHANGED <<now, bucket, spent, restarts>>

(* catch: whatever failed inside the try, what was read from the cache is  *)
(* served, with nothing to tell it from a fresh answer.                    *)
FallbackLive(j) == Answered(j, "live", j.asOf)
NoFallback(j) == Answered(j, "unavailable", 0)

Fallback(j) ==
  IF j.read = NoFigures
    THEN Answered(j, "unavailable", 0)
    ELSE Answered(j, "cached", j.read)

LoseStore(q) ==
  /\ job[q].state = "writing"
  /\ ~PutAccepted(entry[job[q].key], job[q].version)
  /\ Update(q, Fallback(job[q]))
  /\ UNCHANGED <<now, bucket, entry, spent, restarts>>

(* GA4, its token exchange, or the custom object API fails                 *)
LiveFails(q) ==
  /\ job[q].state \in {"asking", "storing", "writing"}
  /\ Update(q, Fallback(job[q]))
  /\ UNCHANGED <<now, bucket, entry, spent, restarts>>

(* A metric or dimension GA4 has no name for: a DspFailure is rethrown.    *)
Unsupported(q) ==
  /\ job[q].state = "asking"
  /\ Update(q, Answered(job[q], "unsupported", 0))
  /\ UNCHANGED <<now, bucket, entry, spent, restarts>>

Ga4Step(q) ==
  \/ ReadFresh(q)
  \/ ReadAndAsk(q)
  \/ ReadWithoutQuota(q)
  \/ ReadFails(q)
  \/ Ga4Answers(q)
  \/ StoreReads(q)
  \/ StoreWrites(q)
  \/ LoseStore(q)
  \/ LiveFails(q)
  \/ Unsupported(q)

Leave(q) ==
  /\ job[q].state = "answered"
  /\ Update(q, NoJob(SomeKey))
  /\ UNCHANGED <<now, bucket, entry, spent, restarts>>

Restart ==
  /\ restarts < MaxRestarts
  /\ restarts' = restarts + 1
  /\ tokens' = Capacity
  /\ refilledAt' = now
  /\ job' = [q \in Queries |-> NoJob(SomeKey)]
  /\ UNCHANGED <<now, entry, spent>>

Ga4Tick ==
  /\ now < MaxTime
  /\ now' = now + 1
  /\ UNCHANGED <<bucket, entry, job, spent, restarts>>

Ga4Next ==
  \/ \E q \in Queries :
       \/ \E k \in Keys : Receive(q, k)
       \/ Ga4Step(q)
       \/ Leave(q)
  \/ Restart
  \/ Ga4Tick

Ga4Spec == Ga4Init /\ [][Ga4Next]_ga4Vars

-----------------------------------------------------------------------------
(* Properties.                                                             *)

(* The property's quota is shared with every other consumer: however the   *)
(* queries interleave, the calls made since the start stay within one full *)
(* bucket per start of the process and what time has refilled.             *)
QuotaBound == spent <= Capacity * (1 + restarts) + Refill * now

(* A result without a degradedReason holds figures younger than the TTL,   *)
(* unless a token was spent on asking GA4 and that attempt failed.         *)
UnflaggedIsFresh ==
  \A q \in Queries :
    /\ job[q].state = "answered"
    /\ job[q].answer \in {"live", "cached"}
    => \/ job[q].asOf + TTL > job[q].askedAt
       \/ job[q].answer = "cached" /\ job[q].tried
=============================================================================
