----------------------------- MODULE SourceCalls -----------------------------
(***************************************************************************)
(* The gateway and the nightly pre-warm job calling the GA4 source: the    *)
(* calls of SourceClient are the queries of Ga4Source.  A call the gateway *)
(* has given up on is still handled by the source.  The pre-warm job       *)
(* (ga4-prewarm-job/src/job.ts) asks for its targets one after the other   *)
(* and has no breaker.                                                     *)
(***************************************************************************)
EXTENDS SourceClient, Ga4Source

CONSTANT NoSlot  \* the pre-warm pass is not waiting for an answer

ASSUME SlotAssumption == Queries = Calls /\ NoSlot \notin Calls

VARIABLES
  todo,    \* the targets the pre-warm pass has not asked for yet
  warming, \* the slot of the query the pass waits for, or NoSlot
  warmed,  \* the targets answered ok, of which the pass reports the number
  masked   \* history: masked[c], the request of call c was cached when asked

vars == <<clientVars, ga4Vars, todo, warming, warmed, masked>>

passVars == <<todo, warming, warmed>>

TypeOK ==
  /\ ClientTypeOK
  /\ Ga4TypeOK
  /\ todo \in SUBSET Keys
  /\ warming \in Calls \cup {NoSlot}
  /\ warmed \in SUBSET Keys
  /\ masked \in [Calls -> BOOLEAN]

Init ==
  /\ ClientInit
  /\ Ga4Init
  /\ todo = Keys
  /\ warming = NoSlot
  /\ warmed = {}
  /\ masked = [c \in Calls |-> FALSE]

-----------------------------------------------------------------------------
Free(q) == job[q].state = "free" /\ warming # q

(* The request reaches the source ...                                      *)
Ask(c) ==
  /\ Free(c)
  /\ \E s \in Sources, k \in Keys :
       /\ Query(c, s)
       /\ Receive(c, k)
       /\ masked' = [masked EXCEPT ![c] = Present(entry[k])]
  /\ UNCHANGED passVars

(* ... or is lost on the way.                                              *)
AskInVain(c) ==
  /\ Free(c)
  /\ \E s \in Sources : Query(c, s)
  /\ masked' = [masked EXCEPT ![c] = FALSE]
  /\ UNCHANGED <<ga4Vars, passVars>>

Serve(q) ==
  /\ Ga4Step(q)
  /\ UNCHANGED <<clientVars, passVars, masked>>

Outcome(c) ==
  CASE job[c].answer \in Results -> "result"
    [] job[c].answer = "unsupported" -> "capability"
    [] OTHER -> "failure"

(* The answer reaches the gateway in time.                                 *)
Answer(c) ==
  /\ Leave(c)
  /\ \/ Outcome(c) = "result" /\ Succeed(c)
     \/ Outcome(c) = "capability" /\ Incapable(c)
     \/ Outcome(c) = "failure" /\ Fail(c)
  /\ UNCHANGED <<passVars, masked>>

(* The abort timer fires, the connection breaks, or the body is not the    *)
(* protocol's; the source does not notice.                                 *)
GiveUp(c) ==
  /\ Fail(c)
  /\ masked' = [masked EXCEPT ![c] = FALSE]
  /\ UNCHANGED <<ga4Vars, passVars>>

Unheard(c) ==
  /\ pc[c] # "sent" /\ warming # c
  /\ Leave(c)
  /\ UNCHANGED <<clientVars, passVars, masked>>

CheckScope(c) ==
  /\ InScope(c) \/ OutOfScope(c)
  /\ UNCHANGED <<ga4Vars, passVars, masked>>

(* One pre-warm pass; a connection that breaks is a failed target.         *)
WarmNext ==
  /\ warming = NoSlot
  /\ \E q \in Calls, k \in todo :
       /\ Free(q) /\ pc[q] = "idle"
       /\ Receive(q, k)
       /\ todo' = todo \ {k}
       /\ warming' = q
  /\ UNCHANGED <<clientVars, warmed, masked>>

WarmAnswered ==
  /\ warming # NoSlot
  /\ Leave(warming)
  /\ warmed' = IF job[warming].answer \in Results
                 THEN warmed \cup {job[warming].key} ELSE warmed
  /\ warming' = NoSlot
  /\ UNCHANGED <<clientVars, todo, masked>>

WarmBroken ==
  /\ warming # NoSlot
  /\ warming' = NoSlot
  /\ UNCHANGED <<clientVars, ga4Vars, todo, warmed, masked>>

RestartSource ==
  /\ Restart
  /\ masked' = [c \in Calls |-> FALSE]
  /\ UNCHANGED <<clientVars, passVars>>

(* Beyond the bound on its clock the source only serves what it knows.     *)
Tick ==
  /\ ClientTick
  /\ Ga4Tick \/ (now = MaxTime /\ UNCHANGED ga4Vars)
  /\ UNCHANGED <<passVars, masked>>

Next ==
  \/ \E c \in Calls : Ask(c) \/ AskInVain(c) \/ Answer(c) \/ GiveUp(c)
                      \/ Unheard(c) \/ CheckScope(c)
  \/ \E q \in Queries : Serve(q)
  \/ WarmNext
  \/ WarmAnswered
  \/ WarmBroken
  \/ RestartSource
  \/ Tick

Spec == Init /\ [][Next]_vars

-----------------------------------------------------------------------------
(* Properties of the composition.                                          *)

(* What the source answers to a call whose figures were cached when it was *)
(* asked does not count as a failure, be GA4 failing or the quota used up: *)
(* a failure of such a call is a cache that could not be read, or is no    *)
(* answer of the source's at all.  The latter is left to happen: a GA4     *)
(* that is slow to fail outlasts the abort timer of the gateway, and then  *)
(* it does open the breaker in front of the cached figures.                *)
CacheMasksOutage ==
  [][\A c \in Calls :
       /\ masked[c]
       /\ pc[c] = "sent" /\ pc'[c] = "idle"
       /\ failures'[target[c]] > failures[target[c]]
       => \/ job[c].state = "answered" /\ job[c].answer = "failed"
          \/ job'[c] = job[c]  \* given up on, the source not having noticed
    ]_vars

(* A target the pre-warm pass counts as warmed has an entry in the cache.  *)
WarmedMeansCached == \A k \in warmed : Present(entry[k])
=============================================================================
