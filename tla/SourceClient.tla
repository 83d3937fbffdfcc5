----------------------------- MODULE SourceClient -----------------------------
(***************************************************************************)
(* The gateway's HTTP client for data sources                              *)
(* (reporting-gateway/src/sources/source-client.ts): a circuit breaker per *)
(* source around calls that are in flight at the same time.                *)
(*                                                                         *)
(* A breaker is a count of consecutive failures and the time since it      *)
(* opened.  The code compares clock readings; here ages are counted in     *)
(* ticks and stop at the largest value anything is compared with.          *)
(*                                                                         *)
(* What a source answers is left open: any call may end in any outcome,    *)
(* and a result may turn out to be outside the scope asked for.            *)
(***************************************************************************)
EXTENDS Integers, FiniteSets

CONSTANTS
  Sources,
  Calls,      \* slots: the calls in flight at one time
  Threshold,  \* BREAKER_THRESHOLD
  Cooldown,   \* BREAKER_COOLDOWN_MS, in ticks
  Budget      \* budgetMs: how long a call may take, in ticks

ASSUME CallsAssumption == IsFiniteSet(Calls)
ASSUME BreakerAssumption ==
  /\ Threshold \in Nat \ {0}
  /\ Cooldown \in Nat \ {0}
  /\ Budget \in Nat

NotOpen == -1  \* openedAt: null

VARIABLES
  failures,  \* failures[s]: consecutiveFailures
  openFor,   \* openFor[s]: ticks since openedAt, or NotOpen
  pc,        \* pc[c]: "idle", "sent", or "received" with the scope unchecked
  target,    \* target[c]: the source of call c
  age,       \* age[c]: ticks since call c was sent
  load       \* history: load[s], calls sent since the source last answered or
             \* the breaker last reset, less those it answered with a
             \* capability error

breakerVars == <<failures, openFor>>
clientVars == <<failures, openFor, pc, target, age, load>>

ClientTypeOK ==
  /\ failures \in [Sources -> Nat]
  /\ openFor \in [Sources -> NotOpen..Cooldown]
  /\ pc \in [Calls -> {"idle", "sent", "received"}]
  /\ target \in [Calls -> Sources]
  /\ age \in [Calls -> 0..Budget]
  /\ load \in [Sources -> Nat]

ClientInit ==
  /\ failures = [s \in Sources |-> 0]
  /\ openFor = [s \in Sources |-> NotOpen]
  /\ pc = [c \in Calls |-> "idle"]
  /\ target \in [Calls -> Sources]
  /\ age = [c \in Calls |-> 0]
  /\ load = [s \in Sources |-> 0]

-----------------------------------------------------------------------------
IsOpen(s) == openFor[s] \in 0..(Cooldown - 1)

CooledDown(s) == openFor[s] = Cooldown

(* An open breaker refuses the call and nothing changes.  The first call   *)
(* after the cool-down resets the breaker and goes through.                *)
Query(c, s) ==
  /\ pc[c] = "idle"
  /\ ~IsOpen(s)
  /\ pc' = [pc EXCEPT ![c] = "sent"]
  /\ target' = [target EXCEPT ![c] = s]
  /\ age' = [age EXCEPT ![c] = 0]
  /\ \/ /\ CooledDown(s)
        /\ failures' = [failures EXCEPT ![s] = 0]
        /\ openFor' = [openFor EXCEPT ![s] = NotOpen]
        /\ load' = [load EXCEPT ![s] = 1]
     \/ /\ ~CooledDown(s)
        /\ load' = [load EXCEPT ![s] = @ + 1]
        /\ UNCHANGED breakerVars

Done(c) ==
  /\ pc' = [pc EXCEPT ![c] = "idle"]
  /\ age' = [age EXCEPT ![c] = 0]
  /\ UNCHANGED target

OpensAgain(s) == failures[s] + 1 >= Threshold
Opens(s) == failures[s] + 1 >= Threshold /\ openFor[s] = NotOpen

RecordNothing(s) == UNCHANGED breakerVars

RecordFailure(s) ==
  /\ failures' = [failures EXCEPT ![s] = @ + 1]
  /\ openFor' = [openFor EXCEPT ![s] = IF Opens(s) THEN 0 ELSE @]

(* An error answer other than a capability error, a body that is not the   *)
(* protocol's, the abort of the timer, an unreachable source: all count.   *)
Fail(c) ==
  /\ pc[c] = "sent"
  /\ RecordFailure(target[c])
  /\ Done(c)
  /\ UNCHANGED load

(* A capability error says the descriptor was stale, not that the source   *)
(* is down.                                                                *)
Incapable(c) ==
  /\ pc[c] = "sent"
  /\ load' = [load EXCEPT ![target[c]] = IF @ > 0 THEN @ - 1 ELSE 0]
  /\ Done(c)
  /\ UNCHANGED breakerVars

RecordSuccess(s) ==
  /\ failures' = [failures EXCEPT ![s] = 0]
  /\ openFor' = [openFor EXCEPT ![s] = NotOpen]

Succeed(c) ==
  /\ pc[c] = "sent"
  /\ RecordSuccess(target[c])
  /\ pc' = [pc EXCEPT ![c] = "received"]
  /\ load' = [load EXCEPT ![target[c]] = 0]
  /\ UNCHANGED <<target, age>>

(* verifyScope, which the caller runs on the result it awaited             *)
InScope(c) ==
  /\ pc[c] = "received"
  /\ Done(c)
  /\ UNCHANGED <<failures, openFor, load>>

Trip(s) ==
  /\ failures' = [failures EXCEPT ![s] = Threshold]
  /\ openFor' = [openFor EXCEPT ![s] = 0]

OutOfScope(c) ==
  /\ pc[c] = "received"
  /\ Trip(target[c])
  /\ Done(c)
  /\ UNCHANGED load

(* Time.  The abort timer of a call fires before its budget is exceeded.   *)
ClientTick ==
  /\ \A c \in Calls : pc[c] = "sent" => age[c] < Budget
  /\ openFor' = [s \in Sources |->
                   IF IsOpen(s) THEN openFor[s] + 1 ELSE openFor[s]]
  /\ age' = [c \in Calls |-> IF pc[c] = "sent" THEN age[c] + 1 ELSE age[c]]
  /\ UNCHANGED <<failures, pc, target, load>>

ClientNext ==
  \/ \E c \in Calls :
       \/ \E s \in Sources : Query(c, s)
       \/ Fail(c)
       \/ Incapable(c)
       \/ Succeed(c)
       \/ InScope(c)
       \/ OutOfScope(c)
  \/ ClientTick

ClientSpec == ClientInit /\ [][ClientNext]_clientVars

-----------------------------------------------------------------------------
(* Properties.                                                             *)

(* A breaker is open exactly while its count is at the threshold: closing  *)
(* it always forgets the failures that opened it, and reaching the         *)
(* threshold always opens it, whatever late answers come in between.  (The *)
(* two are kept by four methods of the class.)                             *)
OpenAtThreshold ==
  \A s \in Sources : openFor[s] # NotOpen <=> failures[s] >= Threshold

(* The cool-down of an open breaker is neither cut short nor extended by   *)
(* the answers still outstanding when it opened, except by a success,      *)
(* which closes it, and by a result outside the scope, which starts it     *)
(* again.                                                                  *)
CoolDownKept ==
  [][\A s \in Sources :
       IsOpen(s) => \/ openFor'[s] \in {openFor[s], openFor[s] + 1}
                    \/ \E c \in Calls :
                         /\ target[c] = s
                         /\ \/ pc[c] = "sent" /\ pc'[c] = "received"
                            \/ pc[c] = "received" /\ pc'[c] = "idle"
    ]_clientVars

(* A source that only fails is not called without end: since it last       *)
(* answered, or the breaker last let calls through, it was sent at most    *)
(* the calls that open the breaker and those that were in flight           *)
(* meanwhile.                                                              *)
LoadBound ==
  \A s \in Sources : load[s] <= Threshold - 1 + Cardinality(Calls)
=============================================================================
