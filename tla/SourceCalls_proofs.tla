-------------------------- MODULE SourceCalls_proofs --------------------------
(***************************************************************************)
(* The gateway's calls and the GA4 source, for any number of sources,      *)
(* requests, calls in flight and restarts, any threshold, cool-down,       *)
(* quota and TTL.  First the breaker alone, then the source alone, then    *)
(* the two together: every step of the composition is a step of each of    *)
(* them or leaves it as it is, so what holds of the parts holds of the     *)
(* whole.                                                                  *)
(***************************************************************************)
EXTENDS SourceCalls, FiniteSetTheorems, TLAPS

BreakerInv == ClientTypeOK /\ OpenAtThreshold

LEMMA BreakerInit == ClientInit => BreakerInv
BY BreakerAssumption
   DEF ClientInit, BreakerInv, ClientTypeOK, OpenAtThreshold, NotOpen

LEMMA QueryKeeps ==
  ASSUME BreakerInv, NEW c \in Calls, NEW s \in Sources, Query(c, s)
  PROVE  BreakerInv'
<1> USE BreakerAssumption DEF NotOpen
<1>1. CASE CooledDown(s)
  BY <1>1 DEF BreakerInv, ClientTypeOK, OpenAtThreshold, Query, CooledDown
<1>2. CASE ~CooledDown(s)
  BY <1>2 DEF BreakerInv, ClientTypeOK, OpenAtThreshold, Query, breakerVars
<1> QED
  BY <1>1, <1>2

LEMMA FailKeeps ==
  ASSUME BreakerInv, NEW c \in Calls, Fail(c)
  PROVE  BreakerInv'
<1> USE BreakerAssumption DEF NotOpen
<1> DEFINE s == target[c]
<1>1. s \in Sources
  BY DEF BreakerInv, ClientTypeOK
<1>2. /\ failures' = [failures EXCEPT ![s] = @ + 1]
      /\ openFor' = [openFor EXCEPT ![s] = IF Opens(s) THEN 0 ELSE @]
  BY DEF Fail, RecordFailure
<1>3. ClientTypeOK'
  BY <1>1, <1>2 DEF BreakerInv, ClientTypeOK, Fail, Done
<1>4. OpenAtThreshold'
  BY <1>1, <1>2 DEF BreakerInv, ClientTypeOK, OpenAtThreshold, Opens
<1> QED
  BY <1>3, <1>4 DEF BreakerInv

LEMMA AnswerKeeps ==
  ASSUME BreakerInv, NEW c \in Calls,
         Incapable(c) \/ Succeed(c) \/ InScope(c) \/ OutOfScope(c)
  PROVE  BreakerInv'
<1> USE BreakerAssumption DEF NotOpen, BreakerInv, ClientTypeOK, OpenAtThreshold
<1>1. CASE Incapable(c)
  BY <1>1 DEF Incapable, Done, breakerVars
<1>2. CASE Succeed(c)
  BY <1>2 DEF Succeed, RecordSuccess
<1>3. CASE InScope(c)
  BY <1>3 DEF InScope, Done
<1>4. CASE OutOfScope(c)
  BY <1>4 DEF OutOfScope, Trip, Done
<1> QED
  BY <1>1, <1>2, <1>3, <1>4

LEMMA TickKeeps ==
  ASSUME BreakerInv, ClientTick
  PROVE  BreakerInv'
BY BreakerAssumption
   DEF BreakerInv, ClientTypeOK, OpenAtThreshold, ClientTick, IsOpen, NotOpen

LEMMA BreakerStep == BreakerInv /\ [ClientNext]_clientVars => BreakerInv'
<1> SUFFICES ASSUME BreakerInv, [ClientNext]_clientVars
             PROVE  BreakerInv'
  OBVIOUS
<1>1. CASE UNCHANGED clientVars
  BY <1>1 DEF BreakerInv, ClientTypeOK, OpenAtThreshold, clientVars
<1>2. CASE ClientNext
  BY <1>2, QueryKeeps, FailKeeps, AnswerKeeps, TickKeeps DEF ClientNext
<1> QED
  BY <1>1, <1>2

(* The count and the opening of a breaker never come apart.                *)
THEOREM BreakerIsConsistent == ClientSpec => []OpenAtThreshold
<1>1. ClientSpec => []BreakerInv
  BY BreakerInit, BreakerStep, PTL DEF ClientSpec
<1>2. BreakerInv => OpenAtThreshold
  BY DEF BreakerInv
<1> QED
  BY <1>1, <1>2, PTL

-----------------------------------------------------------------------------
(* What one step may do to the cool-down of an open breaker.               *)
CoolDownStep ==
  \A s \in Sources :
    IsOpen(s) => \/ openFor'[s] \in {openFor[s], openFor[s] + 1}
                 \/ \E c \in Calls :
                      /\ target[c] = s
                      /\ \/ pc[c] = "sent" /\ pc'[c] = "received"
                         \/ pc[c] = "received" /\ pc'[c] = "idle"

LEMMA FailKeepsCoolDown ==
  ASSUME BreakerInv, NEW c \in Calls, Fail(c), NEW s \in Sources, IsOpen(s)
  PROVE  openFor'[s] = openFor[s]
<1>1. target[c] \in Sources
  BY DEF BreakerInv, ClientTypeOK
<1>2. openFor[s] # NotOpen
  BY BreakerAssumption DEF IsOpen, NotOpen
<1>3. CASE s = target[c]
  BY <1>1, <1>2, <1>3
     DEF Fail, RecordFailure, Opens, BreakerInv, ClientTypeOK
<1>4. CASE s # target[c]
  BY <1>1, <1>4 DEF Fail, RecordFailure, BreakerInv, ClientTypeOK
<1> QED
  BY <1>3, <1>4

LEMMA CoolDownHolds ==
  ASSUME BreakerInv, [ClientNext]_clientVars
  PROVE  CoolDownStep
<1> SUFFICES ASSUME NEW s \in Sources, IsOpen(s)
             PROVE  \/ openFor'[s] \in {openFor[s], openFor[s] + 1}
                    \/ \E c \in Calls :
                         /\ target[c] = s
                         /\ \/ pc[c] = "sent" /\ pc'[c] = "received"
                            \/ pc[c] = "received" /\ pc'[c] = "idle"
  BY DEF CoolDownStep
<1>1. CASE UNCHANGED clientVars
  BY <1>1 DEF clientVars
<1>2. ASSUME NEW c \in Calls, NEW t \in Sources, Query(c, t)
      PROVE  openFor'[s] = openFor[s]
  <2>1. s # t
    BY <1>2 DEF Query
  <2> QED
    BY <1>2, <2>1 DEF Query, breakerVars, BreakerInv, ClientTypeOK
<1>3. ASSUME NEW c \in Calls, Fail(c)
      PROVE  openFor'[s] = openFor[s]
  BY <1>3, FailKeepsCoolDown
<1>4. ASSUME NEW c \in Calls, Incapable(c) \/ InScope(c)
      PROVE  openFor'[s] = openFor[s]
  BY <1>4 DEF Incapable, InScope, breakerVars
<1>5. ASSUME NEW c \in Calls, Succeed(c)
      PROVE  \/ openFor'[s] = openFor[s]
             \/ target[c] = s /\ pc[c] = "sent" /\ pc'[c] = "received"
  BY <1>5 DEF Succeed, RecordSuccess, BreakerInv, ClientTypeOK
<1>6. ASSUME NEW c \in Calls, OutOfScope(c)
      PROVE  \/ openFor'[s] = openFor[s]
             \/ target[c] = s /\ pc[c] = "received" /\ pc'[c] = "idle"
  BY <1>6 DEF OutOfScope, Trip, Done, BreakerInv, ClientTypeOK
<1>7. CASE ClientTick
  BY <1>7 DEF ClientTick
<1> QED
  BY <1>1, <1>2, <1>3, <1>4, <1>5, <1>6, <1>7 DEF ClientNext

(* Late answers do not move the cool-down of an open breaker, except a     *)
(* success and a result outside the scope.                                 *)
THEOREM CoolDownIsKept == ClientSpec => CoolDownKept
<1>1. ClientSpec => []BreakerInv
  BY BreakerInit, BreakerStep, PTL DEF ClientSpec
<1>2. BreakerInv /\ [ClientNext]_clientVars => [CoolDownStep]_clientVars
  BY CoolDownHolds
<1>3. ClientSpec => [][CoolDownStep]_clientVars
  BY <1>1, <1>2, PTL DEF ClientSpec
<1> QED
  BY <1>3 DEF CoolDownKept, CoolDownStep

-----------------------------------------------------------------------------
(* The load on a failing source.  While a breaker is closed, each call     *)
(* counted in its load has failed or is still on its way.                  *)
OnTheWay(s) == {c \in Calls : pc[c] = "sent" /\ target[c] = s}
LoadIsAccounted ==
  \A s \in Sources :
    openFor[s] = NotOpen => load[s] <= failures[s] + Cardinality(OnTheWay(s))
LoadInv == BreakerInv /\ LoadIsAccounted /\ LoadBound

LEMMA SomeCalls ==
  ASSUME NEW S \in SUBSET Calls
  PROVE  /\ IsFiniteSet(S) /\ Cardinality(S) \in Nat
         /\ Cardinality(S) <= Cardinality(Calls)
         /\ Cardinality(Calls) \in Nat
BY CallsAssumption, FS_Subset, FS_CardinalityType

(* Of the calls on their way one more, or one less.                        *)
LEMMA OneMore ==
  ASSUME NEW S \in SUBSET Calls, NEW c \in Calls \ S
  PROVE  Cardinality(S \cup {c}) = Cardinality(S) + 1
BY SomeCalls, FS_AddElement

LEMMA OneLess ==
  ASSUME NEW S \in SUBSET Calls, NEW c \in S
  PROVE  Cardinality(S \ {c}) = Cardinality(S) - 1
BY SomeCalls, FS_RemoveElement

LEMMA LoadInit == ClientInit => LoadInv
<1> SUFFICES ASSUME ClientInit PROVE LoadInv
  OBVIOUS
<1>1. BreakerInv
  BY BreakerInit
<1>2. \A s \in Sources : load[s] = 0 /\ failures[s] = 0
  BY DEF ClientInit
<1>3. \A s \in Sources : Cardinality(OnTheWay(s)) \in Nat
  BY SomeCalls DEF OnTheWay
<1>4. Cardinality(Calls) \in Nat
  BY SomeCalls
<1> QED
  BY <1>1, <1>2, <1>3, <1>4, BreakerAssumption
     DEF LoadInv, LoadIsAccounted, LoadBound

(* What a step must do to the load of each source, to keep it accounted    *)
(* for: leave it, or send while closed, or forget all but a call sent now, *)
(* or take a call off the way that has failed or is no longer counted.     *)
LEMMA QueryLoad ==
  ASSUME LoadInv, NEW c \in Calls, NEW s \in Sources, Query(c, s)
  PROVE  LoadInv'
<1>1. BreakerInv /\ BreakerInv'
  BY QueryKeeps DEF LoadInv
<1>2. /\ c \notin OnTheWay(s)
      /\ OnTheWay(s)' = OnTheWay(s) \cup {c}
      /\ \A t \in Sources \ {s} : OnTheWay(t)' = OnTheWay(t)
  BY <1>1 DEF Query, OnTheWay, BreakerInv, ClientTypeOK
<1>3. /\ \A t \in Sources : Cardinality(OnTheWay(t)) \in Nat
      /\ Cardinality(OnTheWay(s) \cup {c}) = Cardinality(OnTheWay(s)) + 1
      /\ Cardinality(OnTheWay(s) \cup {c}) <= Cardinality(Calls)
      /\ Cardinality(Calls) \in Nat
  BY <1>2, OneMore, SomeCalls DEF OnTheWay
<1>4. \A t \in Sources \ {s} : /\ load'[t] = load[t]
                               /\ openFor'[t] = openFor[t]
                               /\ failures'[t] = failures[t]
  BY <1>1 DEF Query, breakerVars, BreakerInv, ClientTypeOK
<1>5. CASE CooledDown(s)
  <2>1. load'[s] = 1 /\ failures'[s] = 0
    BY <1>1, <1>5 DEF Query, CooledDown, BreakerInv, ClientTypeOK
  <2>2. Cardinality(OnTheWay(s)) \in Nat
    BY <1>3
  <2>3. /\ load'[s] <= failures'[s] + Cardinality(OnTheWay(s)')
        /\ load'[s] <= Threshold - 1 + Cardinality(Calls)
    BY <1>2, <1>3, <2>1, <2>2, BreakerAssumption
  <2>4. LoadIsAccounted'
    BY <1>2, <1>4, <2>3 DEF LoadInv, LoadIsAccounted
  <2>5. LoadBound'
    BY <1>4, <2>3 DEF LoadInv, LoadBound
  <2> QED
    BY <1>1, <2>4, <2>5 DEF LoadInv
<1>6. CASE ~CooledDown(s)
  <2>1. /\ load'[s] = load[s] + 1 /\ failures'[s] = failures[s]
        /\ openFor'[s] = openFor[s] /\ openFor[s] = NotOpen
    BY <1>1, <1>6, BreakerAssumption
       DEF Query, IsOpen, CooledDown, breakerVars, BreakerInv, ClientTypeOK,
           NotOpen
  <2>2. /\ failures[s] < Threshold /\ failures[s] \in Nat /\ load[s] \in Nat
        /\ load[s] <= failures[s] + Cardinality(OnTheWay(s))
    BY <1>1, <2>1, BreakerAssumption
       DEF LoadInv, LoadIsAccounted, BreakerInv, OpenAtThreshold, ClientTypeOK
  <2>3. /\ load'[s] <= failures'[s] + Cardinality(OnTheWay(s)')
        /\ load'[s] <= Threshold - 1 + Cardinality(Calls)
    BY <1>2, <1>3, <2>1, <2>2, BreakerAssumption
  <2> QED
    BY <1>1, <1>2, <1>4, <2>3 DEF LoadInv, LoadIsAccounted, LoadBound
<1> QED
  BY <1>5, <1>6

LEMMA LeaveLoad ==
  ASSUME LoadInv, BreakerInv', NEW c \in Calls, pc[c] = "sent",
         pc' = [pc EXCEPT ![c] = "idle"] \/ pc' = [pc EXCEPT ![c] = "received"],
         UNCHANGED target,
         \A t \in Sources \ {target[c]} :
           load'[t] = load[t] /\ openFor'[t] = openFor[t]
                              /\ failures'[t] = failures[t],
         LET s == target[c]
         IN  \/ /\ failures'[s] = failures[s] + 1 /\ load'[s] = load[s]
                /\ openFor'[s] # NotOpen \/ openFor[s] = NotOpen
             \/ /\ failures'[s] = failures[s] /\ openFor'[s] = openFor[s]
                /\ load'[s] = IF load[s] > 0 THEN load[s] - 1 ELSE 0
             \/ load'[s] = 0
  PROVE  LoadInv'
<1> DEFINE s == target[c]
<1>1. BreakerInv /\ s \in Sources
  BY DEF LoadInv, BreakerInv, ClientTypeOK
<1>2. /\ c \in OnTheWay(s)
      /\ OnTheWay(s)' = OnTheWay(s) \ {c}
      /\ \A t \in Sources \ {s} : OnTheWay(t)' = OnTheWay(t)
  BY <1>1 DEF OnTheWay, BreakerInv, ClientTypeOK
<1>3. /\ \A t \in Sources : Cardinality(OnTheWay(t)) \in Nat
      /\ Cardinality(OnTheWay(s) \ {c}) = Cardinality(OnTheWay(s)) - 1
      /\ Cardinality(OnTheWay(s) \ {c}) \in Nat
      /\ Cardinality(Calls) \in Nat
  BY <1>1, <1>2, OneLess, SomeCalls DEF OnTheWay
<1>4. \A t \in Sources : /\ failures[t] \in Nat /\ load[t] \in Nat
                         /\ failures'[t] \in Nat /\ load'[t] \in Nat
  BY <1>1 DEF BreakerInv, ClientTypeOK
<1>5. load'[s] <= load[s]
  BY <1>1, <1>4
<1>6. LoadBound'
  BY <1>1, <1>3, <1>4, <1>5, BreakerAssumption DEF LoadInv, LoadBound
<1>7. openFor'[s] = NotOpen => load'[s] <= failures'[s] + Cardinality(OnTheWay(s)')
  BY <1>1, <1>2, <1>3, <1>4 DEF LoadInv, LoadIsAccounted
<1>8. LoadIsAccounted'
  BY <1>1, <1>2, <1>7 DEF LoadInv, LoadIsAccounted
<1> QED
  BY <1>6, <1>8 DEF LoadInv

LEMMA AnswerLoad ==
  ASSUME LoadInv, NEW c \in Calls, Fail(c) \/ Incapable(c) \/ Succeed(c)
  PROVE  LoadInv'
<1>1. BreakerInv /\ BreakerInv' /\ target[c] \in Sources
  BY FailKeeps, AnswerKeeps DEF LoadInv, BreakerInv, ClientTypeOK
<1>2. CASE Fail(c)
  <2>1. \A t \in Sources \ {target[c]} :
          load'[t] = load[t] /\ openFor'[t] = openFor[t]
                             /\ failures'[t] = failures[t]
    BY <1>1, <1>2 DEF Fail, RecordFailure, BreakerInv, ClientTypeOK
  <2>2. /\ failures'[target[c]] = failures[target[c]] + 1
        /\ load'[target[c]] = load[target[c]]
        /\ openFor'[target[c]] # NotOpen \/ openFor[target[c]] = NotOpen
    BY <1>1, <1>2 DEF Fail, RecordFailure, BreakerInv, ClientTypeOK, NotOpen
  <2>3. /\ pc[c] = "sent" /\ pc' = [pc EXCEPT ![c] = "idle"]
        /\ UNCHANGED target
    BY <1>2 DEF Fail, Done
  <2> QED
    BY <1>1, <2>1, <2>2, <2>3, LeaveLoad
<1>3. CASE Incapable(c)
  <2>1. \A t \in Sources \ {target[c]} :
          load'[t] = load[t] /\ openFor'[t] = openFor[t]
                             /\ failures'[t] = failures[t]
    BY <1>1, <1>3 DEF Incapable, breakerVars, BreakerInv, ClientTypeOK
  <2>2. /\ failures'[target[c]] = failures[target[c]]
        /\ openFor'[target[c]] = openFor[target[c]]
        /\ load'[target[c]] = IF load[target[c]] > 0
                                THEN load[target[c]] - 1 ELSE 0
    BY <1>1, <1>3 DEF Incapable, breakerVars, BreakerInv, ClientTypeOK
  <2>3. /\ pc[c] = "sent" /\ pc' = [pc EXCEPT ![c] = "idle"]
        /\ UNCHANGED target
    BY <1>3 DEF Incapable, Done
  <2> QED
    BY <1>1, <2>1, <2>2, <2>3, LeaveLoad
<1>4. CASE Succeed(c)
  <2>1. \A t \in Sources \ {target[c]} :
          load'[t] = load[t] /\ openFor'[t] = openFor[t]
                             /\ failures'[t] = failures[t]
    BY <1>1, <1>4 DEF Succeed, RecordSuccess, BreakerInv, ClientTypeOK
  <2>2. load'[target[c]] = 0
    BY <1>1, <1>4 DEF Succeed, BreakerInv, ClientTypeOK
  <2>3. /\ pc[c] = "sent" /\ pc' = [pc EXCEPT ![c] = "received"]
        /\ UNCHANGED target
    BY <1>4 DEF Succeed
  <2> QED
    BY <1>1, <2>1, <2>2, <2>3, LeaveLoad
<1> QED
  BY <1>2, <1>3, <1>4

(* A step that leaves the load and what is on its way, and opens breakers  *)
(* at most                                                                 *)
LEMMA OtherLoad ==
  ASSUME LoadInv, BreakerInv', UNCHANGED <<load, target>>,
         \A c \in Calls : pc'[c] = "sent" <=> pc[c] = "sent",
         \A s \in Sources : openFor'[s] = NotOpen =>
                              openFor[s] = NotOpen /\ failures'[s] = failures[s]
  PROVE  LoadInv'
<1>1. \A s \in Sources : OnTheWay(s)' = OnTheWay(s)
  BY DEF OnTheWay
<1> QED
  BY <1>1 DEF LoadInv, LoadIsAccounted, LoadBound

LEMMA LoadStep == LoadInv /\ [ClientNext]_clientVars => LoadInv'
<1> SUFFICES ASSUME LoadInv, [ClientNext]_clientVars PROVE LoadInv'
  OBVIOUS
<1>1. BreakerInv /\ BreakerInv'
  BY BreakerStep DEF LoadInv
<1>2. CASE UNCHANGED clientVars
  BY <1>1, <1>2, OtherLoad DEF clientVars
<1>3. ASSUME NEW c \in Calls, InScope(c) PROVE LoadInv'
  BY <1>1, <1>3, OtherLoad DEF InScope, Done, BreakerInv, ClientTypeOK
<1>4. ASSUME NEW c \in Calls, OutOfScope(c) PROVE LoadInv'
  <2>1. \A s \in Sources : openFor'[s] = NotOpen =>
          openFor[s] = NotOpen /\ failures'[s] = failures[s]
    BY <1>1, <1>4 DEF OutOfScope, Trip, NotOpen, BreakerInv, ClientTypeOK
  <2> QED
    BY <1>1, <1>4, <2>1, OtherLoad
       DEF OutOfScope, Done, BreakerInv, ClientTypeOK
<1>5. CASE ClientTick
  <2>1. \A s \in Sources : openFor'[s] = NotOpen =>
          openFor[s] = NotOpen /\ failures'[s] = failures[s]
    BY <1>1, <1>5 DEF ClientTick, IsOpen, NotOpen, BreakerInv, ClientTypeOK
  <2> QED
    BY <1>1, <1>5, <2>1, OtherLoad DEF ClientTick
<1> QED
  BY <1>2, <1>3, <1>4, <1>5, QueryLoad, AnswerLoad DEF ClientNext

(* A failing source is not called without end.                             *)
THEOREM LoadIsBounded == ClientSpec => []LoadBound
<1>1. ClientSpec => []LoadInv
  BY LoadInit, LoadStep, PTL DEF ClientSpec
<1>2. LoadInv => LoadBound
  BY DEF LoadInv
<1> QED
  BY <1>1, <1>2, PTL

(* What was spent and what is left in the bucket never exceed the buckets  *)
(* given out and what had been refilled at the last refill.                *)
Credit == spent + tokens <= Capacity * (1 + restarts) + Refill * refilledAt

BucketInv ==
  /\ now \in Nat
  /\ tokens \in Nat
  /\ refilledAt \in Nat /\ refilledAt <= now
  /\ spent \in Nat
  /\ restarts \in Nat
  /\ Credit

LEMMA BucketInit == Ga4Init => BucketInv
<1> SUFFICES ASSUME Ga4Init PROVE BucketInv
  OBVIOUS
<1>1. Capacity * (1 + 0) = Capacity /\ Refill * 0 = 0
  BY QuotaAssumption
<1> QED
  BY <1>1, QuotaAssumption DEF Ga4Init, BucketInv, Credit

LEMMA RefilledIsCovered ==
  ASSUME BucketInv
  PROVE  /\ Refilled \in Nat
         /\ spent + Refilled <= Capacity * (1 + restarts) + Refill * now
<1> DEFINE grown == tokens + (now - refilledAt) * Refill
<1> USE QuotaAssumption DEF BucketInv
<1>1. (now - refilledAt) * Refill = Refill * now - Refill * refilledAt
  OBVIOUS
<1>2. (now - refilledAt) * Refill \in Nat
  OBVIOUS
<1>3. Refilled \in Nat /\ Refilled <= grown
  BY <1>2 DEF Refilled
<1>4. Refill * now \in Nat /\ Refill * refilledAt \in Nat
  OBVIOUS
<1>5. Capacity * (1 + restarts) \in Nat
  OBVIOUS
<1> HIDE DEF BucketInv
<1>6. spent + tokens <= Capacity * (1 + restarts) + Refill * refilledAt
  BY DEF BucketInv, Credit
<1>7. tokens \in Nat /\ spent \in Nat
  BY DEF BucketInv
<1> QED
  BY <1>1, <1>3, <1>4, <1>5, <1>6, <1>7

LEMMA BucketStep == BucketInv /\ [Ga4Next]_ga4Vars => BucketInv'
<1> SUFFICES ASSUME BucketInv, [Ga4Next]_ga4Vars PROVE BucketInv'
  OBVIOUS
<1>1. ASSUME UNCHANGED <<now, bucket, spent, restarts>>
      PROVE  BucketInv'
  BY <1>1 DEF BucketInv, Credit, bucket
<1>2. ASSUME TakeToken \/ NoToken, UNCHANGED <<now, restarts>>
      PROVE  BucketInv'
  <2>1. /\ Refilled \in Nat
        /\ spent + Refilled <= Capacity * (1 + restarts) + Refill * now
    BY RefilledIsCovered
  <2>2. /\ now \in Nat /\ spent \in Nat /\ restarts \in Nat
    BY DEF BucketInv
  <2>3. refilledAt' = now /\ tokens' \in Nat /\ spent' \in Nat
        /\ spent' + tokens' = spent + Refilled
    BY <1>2, <2>1, <2>2 DEF TakeToken, NoToken
  <2>4. Credit'
    <3>1. spent' + tokens' <= Capacity * (1 + restarts) + Refill * now
      BY <2>1, <2>3
    <3>2. restarts' = restarts /\ refilledAt' = now
      BY <1>2, <2>3
    <3> QED
      BY <3>1, <3>2 DEF Credit
  <2>5. /\ now' = now /\ restarts' = restarts
        /\ spent' \in Nat
    BY <1>2, <2>2 DEF TakeToken, NoToken
  <2> QED
    BY <2>2, <2>3, <2>4, <2>5 DEF BucketInv
<1>3. ASSUME Restart PROVE BucketInv'
  <2>1. /\ tokens' = Capacity /\ refilledAt' = now /\ restarts' = restarts + 1
        /\ spent' = spent /\ now' = now
    BY <1>3 DEF Restart
  <2>2. /\ now \in Nat /\ spent \in Nat /\ restarts \in Nat /\ tokens \in Nat
        /\ refilledAt \in Nat /\ refilledAt <= now
        /\ spent + tokens <= Capacity * (1 + restarts) + Refill * refilledAt
    BY DEF BucketInv, Credit
  <2>3. Capacity * (1 + (restarts + 1)) = Capacity * (1 + restarts) + Capacity
    BY <2>2, QuotaAssumption
  <2>4. Refill * refilledAt <= Refill * now
    BY <2>2, QuotaAssumption
  <2>5. /\ Refill * refilledAt \in Nat /\ Refill * now \in Nat
        /\ Capacity * (1 + restarts) \in Nat /\ Capacity \in Nat
    BY <2>2, QuotaAssumption
  <2>6. spent + Capacity <= Capacity * (1 + (restarts + 1)) + Refill * now
    BY <2>2, <2>3, <2>4, <2>5
  <2>7. Credit'
    BY <2>1, <2>6 DEF Credit
  <2> QED
    BY <2>1, <2>2, <2>5, <2>7 DEF BucketInv
<1>4. ASSUME Ga4Tick PROVE BucketInv'
  BY <1>4 DEF Ga4Tick, BucketInv, Credit, bucket
<1>5. CASE UNCHANGED ga4Vars
  BY <1>1, <1>5 DEF ga4Vars, bucket
<1>6. ASSUME NEW q \in Queries, Ga4Step(q) PROVE BucketInv'
  BY <1>1, <1>2, <1>6
     DEF Ga4Step, ReadFresh, ReadAndAsk, ReadWithoutQuota, ReadFails,
         Ga4Answers, StoreReads, StoreWrites, LoseStore, LiveFails, Unsupported
<1>7. ASSUME NEW q \in Queries, Leave(q) \/ \E k \in Keys : Receive(q, k)
      PROVE  BucketInv'
  BY <1>1, <1>7 DEF Leave, Receive
<1> QED
  BY <1>3, <1>4, <1>5, <1>6, <1>7 DEF Ga4Next

(* The calls of the GA4 Data API stay within one full bucket per start of  *)
(* the process and what time has refilled.                                 *)
THEOREM QuotaIsKept == Ga4Spec => []QuotaBound
<1>1. Ga4Spec => []BucketInv
  BY BucketInit, BucketStep, PTL DEF Ga4Spec
<1>2. BucketInv => QuotaBound
  <2> SUFFICES ASSUME BucketInv PROVE QuotaBound
    OBVIOUS
  <2>1. /\ now \in Nat /\ spent \in Nat /\ restarts \in Nat /\ tokens \in Nat
        /\ refilledAt \in Nat /\ refilledAt <= now
        /\ spent + tokens <= Capacity * (1 + restarts) + Refill * refilledAt
    BY DEF BucketInv, Credit
  <2>2. Refill * refilledAt <= Refill * now
    BY <2>1, QuotaAssumption
  <2>3. /\ Refill * refilledAt \in Nat /\ Refill * now \in Nat
        /\ Capacity * (1 + restarts) \in Nat
    BY <2>1, QuotaAssumption
  <2> QED
    BY <2>1, <2>2, <2>3 DEF QuotaBound
<1> QED
  BY <1>1, <1>2, PTL

-----------------------------------------------------------------------------
(* What a query knows, and why its figures may be served.  A token has     *)
(* been spent once it asks GA4; figures it was answered are no older than  *)
(* its question; figures it read, or serves, are those of an entry, and an *)
(* entry is never removed.                                                 *)
Sound(j, e, t) ==
  /\ j.askedAt <= t
  /\ j.state \in {"asking", "storing", "writing"} => j.tried
  /\ j.state \in {"storing", "writing"} => j.askedAt <= j.asOf
  /\ j.read # NoFigures => Present(e[j.key])
  /\ j.state = "answered" =>
       /\ j.answer = "live" => j.askedAt <= j.asOf
       /\ j.answer = "cached" => j.tried \/ j.askedAt < j.asOf + TTL
       /\ j.answer \in Results => Present(e[j.key])

EntriesExpire ==
  \A k \in Keys : Present(entry[k]) =>
    entry[k].value.expiresAt = entry[k].value.asOf + TTL

Ga4Inv ==
  /\ Ga4TypeOK
  /\ EntriesExpire
  /\ \A q \in Queries : Sound(job[q], entry, now)

LEMMA SomeKeyIsKey == SomeKey \in Keys
BY KeysAssumption DEF SomeKey

LEMMA NoJobIsSound ==
  ASSUME NEW k \in Keys, NEW e, NEW t \in Time
  PROVE  NoJob(k) \in Job /\ Sound(NoJob(k), e, t)
BY QuotaAssumption
   DEF NoJob, Job, Sound, Time, NoFigures, Errors, Results, Unversioned

LEMMA AnsweredIsJob ==
  ASSUME NEW j \in Job, NEW a \in Results \cup Errors, NEW t \in Time
  PROVE  /\ Answered(j, a, t) \in Job
         /\ Answered(j, a, t).state = "answered"
         /\ Answered(j, a, t).key = j.key
         /\ Answered(j, a, t).read = NoFigures
         /\ Answered(j, a, t).answer = a
         /\ Answered(j, a, t).asOf = t
         /\ Answered(j, a, t).tried = j.tried
         /\ a \in {"live", "cached"} => Answered(j, a, t).askedAt = j.askedAt
         /\ a \notin {"live", "cached"} => Answered(j, a, t).askedAt = 0
<1>1. j.key \in Keys /\ j.askedAt \in Time /\ j.tried \in BOOLEAN /\ 0 \in Time
  BY QuotaAssumption DEF Job, Time
<1> DEFINE r == NoJob(j.key)
<1>2. /\ r \in Job
      /\ r.key = j.key /\ r.read = NoFigures
  BY <1>1, NoJobIsSound, QuotaAssumption DEF NoJob, Time
<1>3. Answered(j, a, t) =
        [r EXCEPT !.state = "answered", !.answer = a, !.asOf = t,
                  !.askedAt = IF a \in {"live", "cached"} THEN j.askedAt ELSE 0,
                  !.tried = j.tried]
  BY DEF Answered
<1> HIDE DEF r
<1> QED
  BY <1>1, <1>2, <1>3 DEF Job

LEMMA AnsweredIsSound ==
  ASSUME NEW j \in Job, NEW a \in Results \cup Errors, NEW t \in Time,
         NEW e, NEW u \in Time,
         j.askedAt <= u,
         a = "live" => j.askedAt <= t,
         a = "cached" => j.tried \/ j.askedAt < t + TTL,
         a \in Results => Present(e[j.key])
  PROVE  Sound(Answered(j, a, t), e, u)
<1> DEFINE r == Answered(j, a, t)
<1> SUFFICES Sound(r, e, u)
  OBVIOUS
<1>1. /\ r.state = "answered" /\ r.key = j.key /\ r.read = NoFigures
      /\ r.answer = a /\ r.asOf = t /\ r.tried = j.tried
      /\ a \in {"live", "cached"} => r.askedAt = j.askedAt
      /\ a \notin {"live", "cached"} => r.askedAt = 0
  BY AnsweredIsJob
<1> HIDE DEF r
<1>2. 0 <= u
  BY DEF Time
<1> QED
  BY <1>1, <1>2, QuotaAssumption DEF Sound, Time

LEMMA SoundStays ==
  ASSUME NEW j \in Job, NEW e, NEW f, NEW t \in Nat, NEW u \in Nat,
         Sound(j, e, t), t <= u,
         \A k \in Keys : Present(e[k]) => Present(f[k])
  PROVE  Sound(j, f, u)
<1>1. j.key \in Keys /\ j.askedAt \in Nat
  BY QuotaAssumption DEF Job, Time
<1> QED
  BY <1>1 DEF Sound

LEMMA EntryHasFigures ==
  ASSUME Ga4Inv, NEW k \in Keys, Present(entry[k])
  PROVE  /\ entry[k] \in [version : Nat \ {0}, value : Cached]
         /\ Figures(k) = entry[k].value.asOf
         /\ Figures(k) \in Time
         /\ entry[k].value.expiresAt = Figures(k) + TTL
<1>1. entry[k] \in Object(Cached)
  BY DEF Ga4Inv, Ga4TypeOK
<1>2. entry[k] \in [version : Nat \ {0}, value : Cached]
  BY <1>1 DEF Object, Absent, Present
<1> QED
  BY <1>2 DEF Figures, Cached, Ga4Inv, EntriesExpire

LEMMA FiguresAreTimes ==
  ASSUME Ga4Inv, NEW k \in Keys
  PROVE  /\ Figures(k) \in Time \cup {NoFigures}
         /\ Figures(k) # NoFigures <=> Present(entry[k])
BY EntryHasFigures, QuotaAssumption DEF Figures, NoFigures, Time

LEMMA Ga4InvInit == Ga4Init => Ga4Inv
<1> SUFFICES ASSUME Ga4Init PROVE Ga4Inv
  OBVIOUS
<1>1. 0 \in Time /\ now = 0
  BY QuotaAssumption DEF Time, Ga4Init
<1>2. \A q \in Queries : job[q] \in Job /\ Sound(job[q], entry, now)
  BY <1>1, SomeKeyIsKey, NoJobIsSound DEF Ga4Init
<1>3. job \in [Queries -> Job]
  BY <1>2 DEF Ga4Init
<1>4. \A k \in Keys : entry[k] \in Object(Cached) /\ ~Present(entry[k])
  BY DEF Ga4Init, Object, Absent, Present
<1>5. entry \in [Keys -> Object(Cached)]
  BY <1>4 DEF Ga4Init
<1>6. Ga4TypeOK
  BY <1>1, <1>3, <1>5, QuotaAssumption DEF Ga4Init, Ga4TypeOK
<1> QED
  BY <1>2, <1>4, <1>6 DEF Ga4Inv, EntriesExpire

(* A step of one query that gives it a sound state, and may put an entry.  *)
LEMMA UpdateKeeps ==
  ASSUME Ga4Inv, NEW q \in Queries, NEW j \in Job, Update(q, j),
         UNCHANGED <<now, restarts>>,
         tokens' \in 0..Capacity, refilledAt' \in 0..now, spent' \in Nat,
         \/ UNCHANGED entry
         \/ \E k \in Keys, t \in Time :
              entry' = [entry EXCEPT ![k] =
                          AfterPut(@, [asOf |-> t, expiresAt |-> t + TTL])],
         Sound(j, entry', now)
  PROVE  Ga4Inv'
<1>1. /\ entry \in [Keys -> Object(Cached)] /\ job \in [Queries -> Job]
      /\ now \in Nat /\ now \in Time /\ restarts \in 0..MaxRestarts
  BY QuotaAssumption DEF Ga4Inv, Ga4TypeOK, Time
<1>2. /\ entry' \in [Keys -> Object(Cached)]
      /\ EntriesExpire'
      /\ \A k \in Keys : Present(entry[k]) => Present(entry'[k])
  <2>1. CASE UNCHANGED entry
    BY <1>1, <2>1 DEF Ga4Inv, EntriesExpire
  <2>2. ASSUME NEW k \in Keys, NEW t \in Time,
               entry' = [entry EXCEPT ![k] =
                           AfterPut(@, [asOf |-> t, expiresAt |-> t + TTL])]
        PROVE  <1>2!1 /\ <1>2!2 /\ <1>2!3
    <3> DEFINE o == AfterPut(entry[k], [asOf |-> t, expiresAt |-> t + TTL])
    <3>1. entry[k].version \in Nat
      BY <1>1 DEF Object, Absent
    <3>2. t + TTL \in Nat
      BY QuotaAssumption DEF Time
    <3>3. /\ o.version \in Nat \ {0}
          /\ o.value = [asOf |-> t, expiresAt |-> t + TTL]
          /\ o = [version |-> o.version, value |-> o.value]
      BY <3>1 DEF AfterPut
    <3> HIDE DEF o
    <3>4. o \in Object(Cached) /\ Present(o)
          /\ o.value.expiresAt = o.value.asOf + TTL
      BY <3>2, <3>3 DEF Object, Cached, Present
    <3>5. /\ entry' \in [Keys -> Object(Cached)]
          /\ entry'[k] = o
          /\ \A l \in Keys \ {k} : entry'[l] = entry[l]
      BY <1>1, <2>2, <3>4 DEF o
    <3> QED
      BY <3>4, <3>5 DEF Ga4Inv, EntriesExpire
  <2> QED
    BY <2>1, <2>2
<1>3. /\ job' \in [Queries -> Job]
      /\ job'[q] = j
      /\ \A p \in Queries \ {q} : job'[p] = job[p]
  BY <1>1 DEF Update
<1>4. \A p \in Queries : Sound(job'[p], entry', now')
  <2> TAKE p \in Queries
  <2>1. CASE p = q
    BY <1>3, <2>1
  <2>2. CASE p # q
    <3>1. job[p] \in Job /\ Sound(job[p], entry, now) /\ now <= now
      BY <1>1 DEF Ga4Inv
    <3>2. Sound(job[p], entry', now)
      BY <1>1, <1>2, <3>1, SoundStays
    <3> QED
      BY <1>3, <2>2, <3>2
  <2> QED
    BY <2>1, <2>2
<1>5. Ga4TypeOK'
  BY <1>1, <1>2, <1>3 DEF Ga4TypeOK
<1> QED
  BY <1>2, <1>4, <1>5 DEF Ga4Inv

LEMMA BucketTyped ==
  ASSUME Ga4Inv
  PROVE  /\ tokens \in 0..Capacity /\ refilledAt \in 0..now /\ spent \in Nat
         /\ TakeToken \/ NoToken =>
              tokens' \in 0..Capacity /\ refilledAt' \in 0..now /\ spent' \in Nat
<1>1. /\ tokens \in 0..Capacity /\ refilledAt \in 0..now /\ spent \in Nat
      /\ now \in Nat
  BY QuotaAssumption DEF Ga4Inv, Ga4TypeOK, Time
<1>2. (now - refilledAt) * Refill \in Nat
  BY <1>1, QuotaAssumption
<1>3. Refilled \in 0..Capacity
  BY <1>1, <1>2, QuotaAssumption DEF Refilled
<1>4. Capacity \in Nat
  BY QuotaAssumption
<1>5. ASSUME TakeToken
      PROVE  tokens' \in 0..Capacity /\ refilledAt' \in 0..now /\ spent' \in Nat
  BY <1>1, <1>3, <1>4, <1>5 DEF TakeToken
<1>6. ASSUME NoToken
      PROVE  tokens' \in 0..Capacity /\ refilledAt' \in 0..now /\ spent' \in Nat
  BY <1>1, <1>3, <1>4, <1>6 DEF NoToken
<1> QED
  BY <1>1, <1>5, <1>6

LEMMA ReadKeeps ==
  ASSUME Ga4Inv, NEW q \in Queries,
         ReadFresh(q) \/ ReadAndAsk(q) \/ ReadWithoutQuota(q) \/ ReadFails(q)
  PROVE  Ga4Inv'
<1> DEFINE j == job[q]
           k == job[q].key
<1>1. /\ j \in Job /\ k \in Keys /\ Sound(j, entry, now) /\ now \in Time
      /\ j.askedAt <= now /\ 0 \in Time
      /\ j.askedAt \in Time /\ j.tried \in BOOLEAN /\ j.state = "reading"
  BY QuotaAssumption
     DEF Ga4Inv, Ga4TypeOK, Job, Sound, Time, ReadFresh, ReadAndAsk,
         ReadWithoutQuota, ReadFails
<1>2. /\ Figures(k) \in Time \cup {NoFigures}
      /\ Figures(k) # NoFigures <=> Present(entry[k])
  BY <1>1, FiguresAreTimes
<1>3. CASE ReadFresh(q)
  <2>1. Present(entry[k]) /\ j.askedAt < Figures(k) + TTL /\ Figures(k) \in Time
    BY <1>1, <1>3, EntryHasFigures DEF ReadFresh, IsFresh
  <2>2. LET a == Answered(j, "cached", Figures(k))
        IN  a \in Job /\ Sound(a, entry, now)
    BY <1>1, <2>1, AnsweredIsJob, AnsweredIsSound DEF Results
  <2> QED
    BY <1>3, <2>2, BucketTyped, UpdateKeeps DEF ReadFresh, bucket
<1>4. CASE ReadAndAsk(q)
  <2> DEFINE a == [j EXCEPT !.state = "asking", !.tried = TRUE,
                            !.read = Figures(k)]
  <2>1. /\ a \in Job
        /\ a.state = "asking" /\ a.tried = TRUE /\ a.read = Figures(k)
        /\ a.key = k /\ a.askedAt = j.askedAt
    BY <1>1, <1>2 DEF Job
  <2>2. Update(q, a) /\ UNCHANGED <<now, entry, restarts>> /\ TakeToken
    BY <1>4 DEF ReadAndAsk
  <2> HIDE DEF a
  <2>3. Sound(a, entry, now)
    BY <1>1, <1>2, <2>1 DEF Sound
  <2> QED
    BY <2>1, <2>2, <2>3, BucketTyped, UpdateKeeps
<1>5. CASE ReadWithoutQuota(q)
  <2> DEFINE a == IF Figures(k) = NoFigures
                    THEN Answered(j, "quota", 0)
                    ELSE Answered(j, "degraded", Figures(k))
  <2>1. Update(q, a) /\ UNCHANGED <<now, entry, restarts>> /\ NoToken
    BY <1>5 DEF ReadWithoutQuota
  <2>2. a \in Job /\ Sound(a, entry, now)
    <3>1. CASE Figures(k) = NoFigures
      BY <1>1, <3>1, AnsweredIsJob, AnsweredIsSound DEF Results, Errors
    <3>2. CASE Figures(k) # NoFigures
      BY <1>1, <1>2, <3>2, AnsweredIsJob, AnsweredIsSound DEF Results, Errors
    <3> QED
      BY <3>1, <3>2
  <2> HIDE DEF a
  <2> QED
    BY <2>1, <2>2, BucketTyped, UpdateKeeps
<1>6. CASE ReadFails(q)
  <2>1. LET a == Answered(j, "failed", 0)
        IN  a \in Job /\ Sound(a, entry, now)
    BY <1>1, AnsweredIsJob, AnsweredIsSound DEF Results, Errors
  <2> QED
    BY <1>6, <2>1, BucketTyped, UpdateKeeps DEF ReadFails, bucket
<1> QED
  BY <1>3, <1>4, <1>5, <1>6

LEMMA FallbackIsSound ==
  ASSUME Ga4Inv, NEW q \in Queries,
         job[q].state \in {"asking", "storing", "writing"}
  PROVE  Fallback(job[q]) \in Job /\ Sound(Fallback(job[q]), entry, now)
<1> DEFINE j == job[q]
<1>1. /\ j \in Job /\ Sound(j, entry, now) /\ now \in Time /\ j.askedAt <= now
      /\ j.tried /\ 0 \in Time
      /\ j.read # NoFigures => j.read \in Time /\ Present(entry[j.key])
  BY QuotaAssumption DEF Ga4Inv, Ga4TypeOK, Job, Sound, Time
<1>2. CASE j.read = NoFigures
  BY <1>1, <1>2, AnsweredIsJob, AnsweredIsSound DEF Fallback, Results, Errors
<1>3. CASE j.read # NoFigures
  BY <1>1, <1>3, AnsweredIsJob, AnsweredIsSound DEF Fallback, Results, Errors
<1> QED
  BY <1>2, <1>3

LEMMA LiveKeeps ==
  ASSUME Ga4Inv, NEW q \in Queries,
         \/ Ga4Answers(q) \/ StoreReads(q) \/ StoreWrites(q)
         \/ LoseStore(q) \/ LiveFails(q) \/ Unsupported(q)
  PROVE  Ga4Inv'
<1> DEFINE j == job[q]
           k == job[q].key
<1>1. /\ j \in Job /\ k \in Keys /\ Sound(j, entry, now) /\ now \in Time
      /\ now \in Nat /\ j.askedAt <= now /\ 0 \in Time /\ j.asOf \in Time
      /\ entry[k] \in Object(Cached) /\ entry \in [Keys -> Object(Cached)]
  BY QuotaAssumption DEF Ga4Inv, Ga4TypeOK, Job, Sound, Time
<1>2. /\ tokens \in 0..Capacity /\ refilledAt \in 0..now /\ spent \in Nat
      /\ UNCHANGED bucket /\ UNCHANGED spent =>
           tokens' \in 0..Capacity /\ refilledAt' \in 0..now /\ spent' \in Nat
  BY BucketTyped DEF bucket
<1>3. CASE Ga4Answers(q)
  <2> DEFINE a == [j EXCEPT !.state = "storing", !.asOf = now]
  <2>1. /\ a \in Job
        /\ a.state = "storing" /\ a.asOf = now /\ a.tried = j.tried
        /\ a.read = j.read /\ a.key = k /\ a.askedAt = j.askedAt
        /\ j.state = "asking"
    BY <1>1, <1>3 DEF Job, Ga4Answers
  <2>2. Update(q, a) /\ UNCHANGED <<now, entry, restarts, bucket, spent>>
    BY <1>3 DEF Ga4Answers
  <2> HIDE DEF a
  <2>3. Sound(a, entry, now)
    BY <1>1, <2>1 DEF Sound
  <2> QED
    BY <1>2, <2>1, <2>2, <2>3, UpdateKeeps
<1>4. CASE StoreReads(q)
  <2> DEFINE a == [j EXCEPT !.state = "writing", !.version = entry[k].version]
  <2>1. entry[k].version \in Nat
    BY <1>1 DEF Object, Absent
  <2>2. /\ a \in Job
        /\ a.state = "writing" /\ a.asOf = j.asOf /\ a.tried = j.tried
        /\ a.read = j.read /\ a.key = k /\ a.askedAt = j.askedAt
        /\ j.state = "storing"
    BY <1>1, <1>4, <2>1 DEF Job, StoreReads
  <2>3. Update(q, a) /\ UNCHANGED <<now, entry, restarts, bucket, spent>>
    BY <1>4 DEF StoreReads
  <2> HIDE DEF a
  <2>4. Sound(a, entry, now)
    BY <1>1, <2>2 DEF Sound
  <2> QED
    BY <1>2, <2>2, <2>3, <2>4, UpdateKeeps
<1>5. CASE StoreWrites(q)
  <2> DEFINE o == AfterPut(entry[k], [asOf |-> j.asOf, expiresAt |-> j.asOf + TTL])
  <2>1. /\ j.state = "writing" /\ j.askedAt <= j.asOf
        /\ Update(q, Answered(j, "live", j.asOf))
        /\ UNCHANGED <<now, restarts, bucket, spent>>
        /\ entry' = [entry EXCEPT ![k] =
             AfterPut(@, [asOf |-> j.asOf, expiresAt |-> j.asOf + TTL])]
    BY <1>1, <1>5 DEF StoreWrites, Sound
  <2>2. Present(entry'[k])
    <3>1. entry[k].version \in Nat
      BY <1>1 DEF Object, Absent
    <3>2. entry'[k] = o
      BY <1>1, <2>1
    <3> QED
      BY <3>1, <3>2 DEF AfterPut, Present
  <2>3. LET a == Answered(j, "live", j.asOf)
        IN  a \in Job /\ Sound(a, entry', now)
    BY <1>1, <2>1, <2>2, AnsweredIsJob, AnsweredIsSound DEF Results
  <2> QED
    BY <1>1, <1>2, <2>1, <2>3, UpdateKeeps
<1>6. CASE LoseStore(q) \/ LiveFails(q)
  <2>1. /\ Fallback(j) \in Job /\ Sound(Fallback(j), entry, now)
        /\ Update(q, Fallback(j))
        /\ UNCHANGED <<now, entry, restarts, bucket, spent>>
    BY <1>6, FallbackIsSound DEF LoseStore, LiveFails
  <2>2. Sound(Fallback(j), entry', now)
    BY <2>1
  <2> QED
    BY <1>2, <2>1, <2>2, UpdateKeeps
<1>7. CASE Unsupported(q)
  <2>1. LET a == Answered(j, "unsupported", 0)
        IN  a \in Job /\ Sound(a, entry, now)
    BY <1>1, AnsweredIsJob, AnsweredIsSound DEF Results, Errors
  <2> QED
    BY <1>2, <1>7, <2>1, UpdateKeeps DEF Unsupported
<1> QED
  BY <1>3, <1>4, <1>5, <1>6, <1>7

LEMMA Ga4InvStep == Ga4Inv /\ [Ga4Next]_ga4Vars => Ga4Inv'
<1> SUFFICES ASSUME Ga4Inv, [Ga4Next]_ga4Vars PROVE Ga4Inv'
  OBVIOUS
<1>1. /\ now \in Time /\ now \in Nat /\ restarts \in 0..MaxRestarts
      /\ tokens \in 0..Capacity /\ refilledAt \in 0..now /\ spent \in Nat
      /\ \A q \in Queries : job[q] \in Job /\ Sound(job[q], entry, now)
  BY QuotaAssumption DEF Ga4Inv, Ga4TypeOK, Time
<1>2. CASE UNCHANGED ga4Vars
  BY <1>2 DEF Ga4Inv, Ga4TypeOK, EntriesExpire, ga4Vars
<1>3. ASSUME NEW q \in Queries, Ga4Step(q) PROVE Ga4Inv'
  BY <1>3, ReadKeeps, LiveKeeps DEF Ga4Step
<1>4. ASSUME NEW q \in Queries, NEW k \in Keys, Receive(q, k) PROVE Ga4Inv'
  <2> DEFINE r == NoJob(k)
             a == [r EXCEPT !.state = "reading", !.askedAt = now]
  <2>1. /\ r \in Job /\ r.read = NoFigures
        /\ Update(q, a) /\ UNCHANGED <<now, bucket, entry, spent, restarts>>
    BY <1>1, <1>4, NoJobIsSound DEF NoJob, Receive
  <2> HIDE DEF r
  <2>2. /\ a \in Job /\ a.state = "reading" /\ a.read = NoFigures
        /\ a.askedAt = now
    BY <1>1, <2>1 DEF Job
  <2> HIDE DEF a
  <2>3. Sound(a, entry, now)
    BY <1>1, <2>2 DEF Sound
  <2> QED
    BY <1>1, <2>1, <2>2, <2>3, UpdateKeeps DEF bucket
<1>5. ASSUME NEW q \in Queries, Leave(q) PROVE Ga4Inv'
  <2>1. NoJob(SomeKey) \in Job /\ Sound(NoJob(SomeKey), entry, now)
    BY <1>1, SomeKeyIsKey, NoJobIsSound
  <2> QED
    BY <1>1, <1>5, <2>1, UpdateKeeps DEF Leave, bucket
<1>6. CASE Restart
  <2>1. \A q \in Queries : job'[q] \in Job /\ Sound(job'[q], entry', now')
    BY <1>1, <1>6, SomeKeyIsKey, NoJobIsSound DEF Restart
  <2>2. job' \in [Queries -> Job]
    BY <1>6, <2>1 DEF Restart
  <2>3. Ga4TypeOK'
    BY <1>1, <1>6, <2>2, QuotaAssumption DEF Restart, Ga4Inv, Ga4TypeOK
  <2> QED
    BY <1>6, <2>1, <2>3 DEF Restart, Ga4Inv, EntriesExpire
<1>7. CASE Ga4Tick
  <2>1. /\ now' = now + 1 /\ now' \in Time /\ now' \in Nat
        /\ UNCHANGED <<bucket, entry, job, spent, restarts>>
    BY <1>1, <1>7, QuotaAssumption DEF Ga4Tick, Time
  <2>2. \A q \in Queries : Sound(job'[q], entry', now')
    <3> TAKE q \in Queries
    <3>1. job[q] \in Job /\ Sound(job[q], entry, now)
      BY <1>1
    <3>2. Sound(job[q], entry, now')
      BY <1>1, <2>1, <3>1, SoundStays
    <3> QED
      BY <2>1, <3>2
  <2>3. Ga4TypeOK'
    BY <1>1, <2>1 DEF Ga4Inv, Ga4TypeOK, bucket
  <2> QED
    BY <2>1, <2>2, <2>3 DEF Ga4Inv, EntriesExpire
<1> QED
  BY <1>2, <1>3, <1>4, <1>5, <1>6, <1>7 DEF Ga4Next

LEMMA SoundIsFresh == Ga4Inv => UnflaggedIsFresh
<1> SUFFICES ASSUME Ga4Inv, NEW q \in Queries, job[q].state = "answered",
                    job[q].answer \in {"live", "cached"}
             PROVE  \/ job[q].asOf + TTL > job[q].askedAt
                    \/ job[q].answer = "cached" /\ job[q].tried
  BY DEF UnflaggedIsFresh
<1>1. /\ job[q] \in Job /\ Sound(job[q], entry, now)
      /\ job[q].asOf \in Nat /\ job[q].askedAt \in Nat
  BY QuotaAssumption DEF Ga4Inv, Ga4TypeOK, Job, Time
<1> QED
  BY <1>1, QuotaAssumption DEF Sound

(* However the queries, restarts and the clock interleave, a result that   *)
(* does not say it is degraded is younger than the TTL, or was served      *)
(* after an attempt to ask GA4 had failed.                                 *)
THEOREM UnflaggedAnswersAreFresh == Ga4Spec => []UnflaggedIsFresh
<1>1. Ga4Spec => []Ga4Inv
  BY Ga4InvInit, Ga4InvStep, PTL DEF Ga4Spec
<1> QED
  BY <1>1, SoundIsFresh, PTL

-----------------------------------------------------------------------------
(* The composition.                                                        *)
PassTypeOK ==
  /\ todo \in SUBSET Keys
  /\ warming \in Calls \cup {NoSlot}
  /\ warmed \in SUBSET Keys
  /\ masked \in [Calls -> BOOLEAN]

(* A call whose request was cached when it was asked will not be refused   *)
(* for want of figures.                                                    *)
Masked(c) ==
  masked[c] /\ pc[c] = "sent" /\ job[c].state # "free" =>
    /\ Present(entry[job[c].key])
    /\ job[c].state \in {"asking", "storing", "writing"} =>
         job[c].read # NoFigures
    /\ job[c].state = "answered" =>
         job[c].answer \notin {"quota", "unavailable"}

CallsInv ==
  /\ LoadInv
  /\ Ga4Inv
  /\ BucketInv
  /\ PassTypeOK
  /\ WarmedMeansCached
  /\ \A c \in Calls : Masked(c)

(* Every step is one of the client's and one of the source's, or leaves    *)
(* them as they are.                                                       *)
LEMMA StepsOfParts ==
  ASSUME PassTypeOK, [Next]_vars
  PROVE  [ClientNext]_clientVars /\ [Ga4Next]_ga4Vars
<1> USE SlotAssumption
<1>1. CASE UNCHANGED vars
  BY <1>1 DEF vars
<1>2. ASSUME NEW c \in Calls,
             Ask(c) \/ AskInVain(c) \/ GiveUp(c) \/ Unheard(c) \/ CheckScope(c)
      PROVE  [ClientNext]_clientVars /\ [Ga4Next]_ga4Vars
  BY <1>2 DEF Ask, AskInVain, GiveUp, Unheard, CheckScope, ClientNext, Ga4Next
<1>3. ASSUME NEW c \in Calls, Answer(c)
      PROVE  [ClientNext]_clientVars /\ [Ga4Next]_ga4Vars
  BY <1>3 DEF Answer, ClientNext, Ga4Next
<1>4. ASSUME NEW q \in Queries, Serve(q)
      PROVE  [ClientNext]_clientVars /\ [Ga4Next]_ga4Vars
  BY <1>4 DEF Serve, Ga4Next
<1>5. CASE WarmNext \/ WarmAnswered \/ WarmBroken
  BY <1>5 DEF WarmNext, WarmAnswered, WarmBroken, Ga4Next, PassTypeOK
<1>6. CASE RestartSource \/ Tick
  BY <1>6 DEF RestartSource, Tick, ClientNext, Ga4Next
<1> QED
  BY <1>1, <1>2, <1>3, <1>4, <1>5, <1>6 DEF Next

LEMMA PassTyped ==
  ASSUME CallsInv, [Next]_vars
  PROVE  PassTypeOK'
<1>a. PassTypeOK
  BY DEF CallsInv
<1> USE <1>a DEF PassTypeOK
<1>1. CASE UNCHANGED vars
  BY <1>1 DEF vars, passVars
<1>2. ASSUME NEW c \in Calls, Ask(c) \/ AskInVain(c) \/ GiveUp(c)
      PROVE  PassTypeOK'
  <2>1. \E b \in BOOLEAN : masked' = [masked EXCEPT ![c] = b]
    <3>1. \A k \in Keys : Present(entry[k]) \in BOOLEAN
      BY DEF Present
    <3>2. ASSUME Ask(c) PROVE \E b \in BOOLEAN : masked' = [masked EXCEPT ![c] = b]
      BY <3>1, <3>2, Zenon DEF Ask
    <3>3. ASSUME AskInVain(c) \/ GiveUp(c)
          PROVE  \E b \in BOOLEAN : masked' = [masked EXCEPT ![c] = b]
      BY <3>3, Zenon DEF AskInVain, GiveUp
    <3> QED
      BY <1>2, <3>2, <3>3
  <2>2. UNCHANGED passVars
    BY <1>2 DEF Ask, AskInVain, GiveUp
  <2> QED
    BY <2>1, <2>2 DEF passVars
<1>3. ASSUME NEW c \in Calls, Answer(c) \/ Unheard(c) \/ CheckScope(c) \/ Serve(c)
      PROVE  PassTypeOK'
  BY <1>3 DEF Answer, Unheard, CheckScope, Serve, passVars
<1>4. CASE WarmNext \/ WarmBroken \/ RestartSource \/ Tick
  BY <1>4, SlotAssumption DEF WarmNext, WarmBroken, RestartSource, Tick, passVars
<1>5. CASE WarmAnswered
  BY <1>5, SlotAssumption
     DEF WarmAnswered, CallsInv, Ga4Inv, Ga4TypeOK, Job
<1> QED
  BY <1>1, <1>2, <1>3, <1>4, <1>5, SlotAssumption DEF Next

(* Entries are replaced and never removed.                                 *)
LEMMA EntriesStay ==
  ASSUME Ga4Inv, [Ga4Next]_ga4Vars, NEW k \in Keys, Present(entry[k])
  PROVE  Present(entry'[k])
<1>1. entry \in [Keys -> Object(Cached)]
  BY DEF Ga4Inv, Ga4TypeOK
<1>2. ASSUME NEW q \in Queries, StoreWrites(q) PROVE Present(entry'[k])
  <2>1. entry[k].version \in Nat
    BY <1>1 DEF Object, Absent
  <2>2. job[q].key \in Keys
    BY DEF Ga4Inv, Ga4TypeOK, Job
  <2> QED
    BY <1>1, <1>2, <2>1, <2>2 DEF StoreWrites, AfterPut, Present
<1>3. ASSUME entry' = entry PROVE Present(entry'[k])
  BY <1>3
<1> QED
  BY <1>2, <1>3
     DEF Ga4Next, ga4Vars, Ga4Step, ReadFresh, ReadAndAsk, ReadWithoutQuota,
         ReadFails, Ga4Answers, StoreReads, LoseStore, LiveFails, Unsupported,
         Leave, Receive, Restart, Ga4Tick

LEMMA WarmedStays ==
  ASSUME CallsInv, [Next]_vars
  PROVE  WarmedMeansCached'
<1>1. \A k \in Keys : Present(entry[k]) => Present(entry'[k])
  BY StepsOfParts, EntriesStay DEF CallsInv
<1>2. warmed \in SUBSET Keys /\ \A k \in warmed : Present(entry[k])
  BY DEF CallsInv, PassTypeOK, WarmedMeansCached
<1>3. CASE warmed' = warmed
  BY <1>1, <1>2, <1>3 DEF WarmedMeansCached
<1>4. CASE WarmAnswered
  <2>1. /\ warming \in Queries
        /\ job[warming].state = "answered"
        /\ warmed' = IF job[warming].answer \in Results
                       THEN warmed \cup {job[warming].key} ELSE warmed
    BY <1>4, SlotAssumption DEF WarmAnswered, Leave, CallsInv, PassTypeOK
  <2>2. Sound(job[warming], entry, now) /\ job[warming] \in Job
    BY <2>1 DEF CallsInv, Ga4Inv, Ga4TypeOK
  <2>3. job[warming].answer \in Results => Present(entry[job[warming].key])
    BY <2>1, <2>2 DEF Sound
  <2>4. job[warming].key \in Keys
    BY <2>2 DEF Job
  <2>5. \A k \in warmed' : k \in Keys /\ Present(entry[k])
    BY <1>2, <2>1, <2>3, <2>4
  <2> QED
    BY <1>1, <2>5 DEF WarmedMeansCached
<1> QED
  BY <1>3, <1>4
     DEF Next, vars, Ask, AskInVain, Answer, GiveUp, Unheard, CheckScope, Serve,
         WarmNext, WarmBroken, RestartSource, Tick, passVars

(* A call that stays masked while its query makes no step, or none at all. *)
LEMMA MaskedRests ==
  ASSUME CallsInv, [Next]_vars, NEW c \in Calls, job'[c] = job[c],
         masked'[c] /\ pc'[c] = "sent" => masked[c] /\ pc[c] = "sent"
  PROVE  Masked(c)'
<1>1. \A k \in Keys : Present(entry[k]) => Present(entry'[k])
  BY StepsOfParts, EntriesStay DEF CallsInv
<1>2. job[c].key \in Keys
  BY SlotAssumption DEF CallsInv, Ga4Inv, Ga4TypeOK, Job
<1> SUFFICES ASSUME masked'[c], pc'[c] = "sent", job'[c].state # "free"
             PROVE  /\ Present(entry'[job'[c].key])
                    /\ job'[c].state \in {"asking", "storing", "writing"} =>
                         job'[c].read # NoFigures
                    /\ job'[c].state = "answered" =>
                         job'[c].answer \notin {"quota", "unavailable"}
  BY Zenon DEF Masked
<1>3. /\ Present(entry[job[c].key])
      /\ job[c].state \in {"asking", "storing", "writing"} =>
           job[c].read # NoFigures
      /\ job[c].state = "answered" =>
           job[c].answer \notin {"quota", "unavailable"}
  BY Zenon DEF CallsInv, Masked
<1> QED
  BY <1>1, <1>2, <1>3

LEMMA FreeIsMasked ==
  ASSUME NEW c \in Calls, job'[c].state = "free"
  PROVE  Masked(c)'
BY DEF Masked

(* The step of a query in the slot of a masked call.                       *)
LEMMA MaskedServed ==
  ASSUME CallsInv, [Next]_vars, NEW c \in Calls, Serve(c)
  PROVE  Masked(c)'
<1> DEFINE j == job[c]
<1>1. /\ c \in Queries /\ j \in Job /\ j.key \in Keys
      /\ job \in [Queries -> Job] /\ Sound(j, entry, now)
  BY SlotAssumption DEF CallsInv, Ga4Inv, Ga4TypeOK, Job
<1>2. Present(entry[j.key]) => Present(entry'[j.key])
  BY <1>1, StepsOfParts, EntriesStay DEF CallsInv
<1>3. Ga4Step(c) /\ masked' = masked /\ pc' = pc
  BY DEF Serve, clientVars
<1> SUFFICES ASSUME masked[c], pc[c] = "sent"
             PROVE  /\ Present(entry'[job'[c].key])
                    /\ job'[c].state \in {"asking", "storing", "writing"} =>
                         job'[c].read # NoFigures
                    /\ job'[c].state = "answered" =>
                         job'[c].answer \notin {"quota", "unavailable"}
  BY <1>3, Zenon DEF Masked
<1>4. /\ j.state # "free" => Present(entry[j.key])
      /\ j.state \in {"asking", "storing", "writing"} => j.read # NoFigures
  BY DEF CallsInv, Masked
<1>5. Figures(j.key) # NoFigures <=> Present(entry[j.key])
  BY <1>1, FiguresAreTimes DEF CallsInv
<1>6. ASSUME NEW r, Update(c, r) PROVE job'[c] = r
  BY <1>1, <1>6 DEF Update
<1>7. \A a, t : /\ Answered(j, a, t).key = j.key
                /\ Answered(j, a, t).state = "answered"
                /\ Answered(j, a, t).answer = a
  BY DEF Answered, NoJob
<1>8. CASE ReadFresh(c)
  BY <1>2, <1>4, <1>6, <1>7, <1>8 DEF ReadFresh
<1>9. CASE ReadAndAsk(c)
  BY <1>1, <1>2, <1>4, <1>5, <1>6, <1>9 DEF ReadAndAsk, Job
<1>10. CASE ReadWithoutQuota(c)
  BY <1>2, <1>4, <1>5, <1>6, <1>7, <1>10 DEF ReadWithoutQuota
<1>11. CASE ReadFails(c)
  BY <1>2, <1>4, <1>6, <1>7, <1>11 DEF ReadFails
<1>12. CASE Ga4Answers(c) \/ StoreReads(c)
  BY <1>1, <1>2, <1>4, <1>6, <1>12 DEF Ga4Answers, StoreReads, Job
<1>13. CASE StoreWrites(c) \/ Unsupported(c)
  BY <1>2, <1>4, <1>6, <1>7, <1>13 DEF StoreWrites, Unsupported
<1>14. CASE LoseStore(c) \/ LiveFails(c)
  BY <1>2, <1>4, <1>6, <1>7, <1>14 DEF LoseStore, LiveFails, Fallback
<1> QED
  BY <1>3, <1>8, <1>9, <1>10, <1>11, <1>12, <1>13, <1>14 DEF Ga4Step

LEMMA MaskedAsked ==
  ASSUME CallsInv, NEW c \in Calls, Ask(c)
  PROVE  Masked(c)'
<1>1. PICK s \in Sources, k \in Keys :
        /\ Receive(c, k)
        /\ masked' = [masked EXCEPT ![c] = Present(entry[k])]
  BY DEF Ask
<1>2. masked'[c] = Present(entry[k])
  BY <1>1, Zenon DEF CallsInv, PassTypeOK
<1>3. job'[c].state = "reading" /\ job'[c].key = k /\ entry' = entry
  BY <1>1, SlotAssumption
     DEF Receive, Update, NoJob, CallsInv, Ga4Inv, Ga4TypeOK
<1>4. masked'[c] => Present(entry'[k])
  BY <1>2, <1>3
<1> QED
  BY <1>3, <1>4 DEF Masked

LEMMA MaskedStays ==
  ASSUME CallsInv, [Next]_vars, NEW c \in Calls
  PROVE  Masked(c)'
<1>1. /\ job \in [Queries -> Job] /\ pc \in [Calls -> {"idle", "sent", "received"}]
      /\ masked \in [Calls -> BOOLEAN] /\ warming \in Calls \cup {NoSlot}
      /\ target \in [Calls -> Sources]
  BY DEF CallsInv, Ga4Inv, Ga4TypeOK, LoadInv, BreakerInv, ClientTypeOK,
         PassTypeOK
<1>2. CASE UNCHANGED vars
  BY <1>2, MaskedRests DEF vars, clientVars, ga4Vars
<1>3. ASSUME NEW d \in Calls, Ask(d) PROVE Masked(c)'
  <2>1. CASE c = d
    BY <1>3, <2>1, MaskedAsked
  <2>2. CASE c # d
    <3>1. PICK s \in Sources, k \in Keys :
            /\ Query(d, s) /\ Receive(d, k)
            /\ masked' = [masked EXCEPT ![d] = Present(entry[k])]
      BY <1>3 DEF Ask
    <3>2. masked'[c] = masked[c]
      BY <1>1, <2>2, <3>1, Zenon
    <3>3. pc'[c] = pc[c] /\ job'[c] = job[c]
      BY <1>1, <2>2, <3>1, SlotAssumption DEF Query, Receive, Update
    <3> QED
      BY <3>2, <3>3, MaskedRests
  <2> QED
    BY <2>1, <2>2
<1>4. ASSUME NEW d \in Calls, AskInVain(d) \/ GiveUp(d) PROVE Masked(c)'
  <2>1. /\ masked' = [masked EXCEPT ![d] = FALSE]
        /\ job' = job
        /\ \A b \in Calls \ {d} : pc'[b] = pc[b]
    BY <1>1, <1>4 DEF AskInVain, GiveUp, Query, Fail, Done, ga4Vars
  <2>2. IF c = d THEN ~masked'[c] ELSE masked'[c] = masked[c]
    BY <1>1, <2>1, Zenon
  <2>3. CASE c = d
    BY <2>2, <2>3 DEF Masked
  <2>4. CASE c # d
    BY <2>1, <2>2, <2>4, MaskedRests
  <2> QED
    BY <2>3, <2>4
<1>5. ASSUME NEW d \in Calls, Answer(d) PROVE Masked(c)'
  <2>1. /\ job' = [job EXCEPT ![d] = NoJob(SomeKey)]
        /\ masked' = masked
        /\ \A b \in Calls \ {d} : pc'[b] = pc[b]
    BY <1>1, <1>5
       DEF Answer, Leave, Update, Succeed, Incapable, Fail, Done
  <2>2. CASE c = d
    BY <1>1, <2>1, <2>2, SlotAssumption, FreeIsMasked DEF NoJob
  <2>3. CASE c # d
    BY <1>1, <2>1, <2>3, SlotAssumption, MaskedRests
  <2> QED
    BY <2>2, <2>3
<1>6. ASSUME NEW d \in Calls, Unheard(d) \/ (WarmAnswered /\ d = warming)
      PROVE  Masked(c)'
  <2>1. /\ job' = [job EXCEPT ![d] = NoJob(SomeKey)]
        /\ masked' = masked /\ pc' = pc
    BY <1>6 DEF Unheard, WarmAnswered, Leave, Update, clientVars
  <2>2. CASE c = d
    BY <1>1, <2>1, <2>2, SlotAssumption, FreeIsMasked DEF NoJob
  <2>3. CASE c # d
    BY <1>1, <2>1, <2>3, SlotAssumption, MaskedRests
  <2> QED
    BY <2>2, <2>3
<1>7. ASSUME NEW d \in Calls, CheckScope(d) PROVE Masked(c)'
  <2>1. /\ job' = job /\ masked' = masked
        /\ pc'[c] = "sent" => pc[c] = "sent"
    BY <1>1, <1>7 DEF CheckScope, InScope, OutOfScope, Done, ga4Vars
  <2> QED
    BY <2>1, MaskedRests
<1>8. ASSUME NEW q \in Queries, Serve(q) PROVE Masked(c)'
  <2>1. CASE c = q
    BY <1>8, <2>1, MaskedServed
  <2>2. CASE c # q
    <3>1. \E r : Update(q, r)
      BY <1>8 DEF Serve, Ga4Step, ReadFresh, ReadAndAsk, ReadWithoutQuota,
         ReadFails, Ga4Answers, StoreReads, StoreWrites, LoseStore, LiveFails,
         Unsupported
    <3>2. job'[c] = job[c] /\ masked' = masked /\ pc' = pc
      BY <1>1, <1>8, <2>2, <3>1, SlotAssumption DEF Update, Serve, clientVars
    <3> QED
      BY <3>2, MaskedRests
  <2> QED
    BY <2>1, <2>2
<1>9. CASE WarmNext
  <2>1. PICK q \in Calls, k \in todo : pc[q] = "idle" /\ Receive(q, k)
    BY <1>9 DEF WarmNext
  <2>2. masked' = masked /\ pc' = pc
    BY <1>9 DEF WarmNext, clientVars
  <2>3. CASE c = q
    BY <2>1, <2>2, <2>3 DEF Masked
  <2>4. CASE c # q
    <3>1. job'[c] = job[c]
      BY <1>1, <2>1, <2>4, SlotAssumption DEF Receive, Update
    <3> QED
      BY <2>2, <3>1, MaskedRests
  <2> QED
    BY <2>3, <2>4
<1>10. CASE WarmBroken \/ Tick
  <2>1. job' = job /\ masked' = masked /\ pc' = pc
    BY <1>10 DEF WarmBroken, Tick, ClientTick, Ga4Tick, clientVars, ga4Vars
  <2> QED
    BY <2>1, MaskedRests
<1>11. CASE RestartSource
  BY <1>11, SlotAssumption, FreeIsMasked DEF RestartSource, Restart, NoJob
<1>12. CASE WarmAnswered
  <2>1. warming \in Calls
    BY <1>1, <1>12 DEF WarmAnswered
  <2> QED
    BY <1>6, <1>12, <2>1
<1> QED
  BY <1>2, <1>3, <1>4, <1>5, <1>6, <1>7, <1>8, <1>9, <1>10, <1>11, <1>12
     DEF Next

LEMMA CallsInit == Init => CallsInv
<1> SUFFICES ASSUME Init PROVE CallsInv
  OBVIOUS
<1>1. LoadInv /\ Ga4Inv /\ BucketInv
  BY LoadInit, Ga4InvInit, BucketInit DEF Init
<1>2. PassTypeOK /\ WarmedMeansCached
  BY DEF Init, PassTypeOK, WarmedMeansCached
<1>3. \A c \in Calls : Masked(c)
  BY DEF Init, ClientInit, Masked
<1> QED
  BY <1>1, <1>2, <1>3 DEF CallsInv

LEMMA CallsStep == CallsInv /\ [Next]_vars => CallsInv'
<1> SUFFICES ASSUME CallsInv, [Next]_vars PROVE CallsInv'
  OBVIOUS
<1>1. [ClientNext]_clientVars /\ [Ga4Next]_ga4Vars
  BY StepsOfParts DEF CallsInv
<1>2. LoadInv' /\ Ga4Inv' /\ BucketInv'
  BY <1>1, LoadStep, Ga4InvStep, BucketStep DEF CallsInv
<1> QED
  BY <1>2, PassTyped, WarmedStays, MaskedStays DEF CallsInv

LEMMA CallsAlways == Spec => []CallsInv
BY CallsInit, CallsStep, PTL DEF Spec

(* The composition runs the client and the source as they were specified   *)
(* alone.                                                                  *)
THEOREM PartsRun == Spec => ClientSpec /\ Ga4Spec
<1>1. Init => ClientInit /\ Ga4Init
  BY DEF Init
<1>2. CallsInv /\ [Next]_vars => [ClientNext]_clientVars /\ [Ga4Next]_ga4Vars
  BY StepsOfParts DEF CallsInv
<1> QED
  BY <1>1, <1>2, CallsAlways, PTL DEF Spec, ClientSpec, Ga4Spec

(* The values of every variable of the composition.                        *)
THEOREM CallsAreTyped == Spec => []TypeOK
<1>1. CallsInv => TypeOK
  BY DEF CallsInv, LoadInv, BreakerInv, Ga4Inv, PassTypeOK, TypeOK
<1> QED
  BY <1>1, CallsAlways, PTL

(* What each part promises alone it also keeps in the composition.         *)
THEOREM PartsKeepTheirPromises ==
  Spec => /\ CoolDownKept
          /\ [](OpenAtThreshold /\ LoadBound /\ QuotaBound /\ UnflaggedIsFresh)
<1>1. Spec => CoolDownKept
  BY PartsRun, CoolDownIsKept
<1>2. Spec => [](OpenAtThreshold /\ LoadBound /\ QuotaBound /\ UnflaggedIsFresh)
  BY PartsRun, BreakerIsConsistent, LoadIsBounded, QuotaIsKept,
     UnflaggedAnswersAreFresh, PTL
<1> QED
  BY <1>1, <1>2

(* What the pre-warm pass reports as warmed is in the cache.               *)
THEOREM WarmedIsCached == Spec => []WarmedMeansCached
<1>1. CallsInv => WarmedMeansCached
  BY DEF CallsInv
<1> QED
  BY <1>1, CallsAlways, PTL

-----------------------------------------------------------------------------
MaskStep ==
  \A c \in Calls :
    /\ masked[c]
    /\ pc[c] = "sent" /\ pc'[c] = "idle"
    /\ failures'[target[c]] > failures[target[c]]
    => \/ job[c].state = "answered" /\ job[c].answer = "failed"
       \/ job'[c] = job[c]

(* A call under way ends with its answer or is given up on.                *)
LEMMA EndOfCall ==
  ASSUME CallsInv, [Next]_vars, NEW c \in Calls,
         pc[c] = "sent", pc'[c] = "idle"
  PROVE  Answer(c) \/ GiveUp(c)
<1>1. pc \in [Calls -> {"idle", "sent", "received"}]
  BY DEF CallsInv, LoadInv, BreakerInv, ClientTypeOK
<1>2. ~(pc' = pc)
  OBVIOUS
<1>3. ~UNCHANGED clientVars
  BY <1>2 DEF clientVars
<1>4. ASSUME NEW d \in Calls, Ask(d) \/ AskInVain(d) PROVE FALSE
  BY <1>1, <1>4 DEF Ask, AskInVain, Query
<1>5. ASSUME NEW d \in Calls, CheckScope(d) PROVE FALSE
  BY <1>1, <1>5 DEF CheckScope, InScope, OutOfScope, Done
<1>6. ASSUME NEW d \in Calls, Answer(d) \/ GiveUp(d) PROVE c = d
  BY <1>1, <1>6 DEF Answer, GiveUp, Succeed, Incapable, Fail, Done
<1>7. ~Tick
  BY <1>2 DEF Tick, ClientTick
<1> QED
  BY <1>3, <1>4, <1>5, <1>6, <1>7
     DEF Next, vars, Unheard, Serve, WarmNext, WarmAnswered, WarmBroken,
         RestartSource

LEMMA MaskHolds ==
  ASSUME CallsInv, [Next]_vars
  PROVE  MaskStep
<1> SUFFICES ASSUME NEW c \in Calls, masked[c],
                    pc[c] = "sent", pc'[c] = "idle",
                    failures'[target[c]] > failures[target[c]],
                    ~(job'[c] = job[c])
             PROVE  job[c].state = "answered" /\ job[c].answer = "failed"
  BY DEF MaskStep
<1>1. Answer(c)
  BY EndOfCall DEF GiveUp, ga4Vars
<1>2. /\ job[c] \in Job /\ target[c] \in Sources
      /\ failures \in [Sources -> Nat]
  BY SlotAssumption
     DEF CallsInv, Ga4Inv, Ga4TypeOK, LoadInv, BreakerInv, ClientTypeOK
<1>3. ~Succeed(c) /\ ~Incapable(c)
  BY <1>2 DEF Succeed, RecordSuccess, Incapable, breakerVars
<1>4. Outcome(c) = "failure" /\ job[c].state = "answered"
  BY <1>1, <1>3 DEF Answer, Leave
<1>5. job[c].answer \notin {"quota", "unavailable"}
  BY <1>4 DEF CallsInv, Masked
<1>6. job[c].answer \notin Results /\ job[c].answer # "unsupported"
  BY <1>4 DEF Outcome
<1>7. job[c].answer \in Results \cup Errors
  BY <1>2 DEF Job
<1> QED
  BY <1>4, <1>5, <1>6, <1>7 DEF Errors

(* For any number of calls, sources and requests: whatever the source      *)
(* answers while the figures asked for are cached, be GA4 failing or its   *)
(* quota used up, does not count against it unless the cache could not be  *)
(* read; what the gateway gave up on first does.                           *)
THEOREM CacheHidesOutages == Spec => CacheMasksOutage
<1>1. CallsInv /\ [Next]_vars => [MaskStep]_vars
  BY MaskHolds
<1>2. Spec => [][MaskStep]_vars
  BY <1>1, CallsAlways, PTL DEF Spec
<1> QED
  BY <1>2 DEF CacheMasksOutage, MaskStep
=============================================================================
