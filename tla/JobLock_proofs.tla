---------------------------- MODULE JobLock_proofs ----------------------------
(***************************************************************************)
(* What the lock promises, for any number of runs and crashes, any TTL     *)
(* above the timeout, and every interleaving of clock readings, reads and  *)
(* writes against a store whose unversioned put is an upsert.              *)
(*                                                                         *)
(* The invariant: a lock that names a run is held by it, and its lease is  *)
(* the TTL counted from that run's own clock reading, so that it outlives  *)
(* the run; therefore a claimant whose reading still stands found the lock *)
(* of no live run, and a holder that nobody overran still owns the lock.   *)
(***************************************************************************)
EXTENDS JobLock, TLAPS

Holding(r) == pc[r] \in {"working", "checking", "deleting"}

OwnedIsHeld ==
  \A r \in Runs : Owns(r) => Holding(r) /\ lock.value.left = TTL - age[r]

LeaseInv == TypeOK /\ OwnedIsHeld

LEMMA LeaseInit == Init => LeaseInv
BY CrashAssumption, TimeAssumption
   DEF Init, LeaseInv, TypeOK, OwnedIsHeld, Owns, Object, Absent, Present,
       Unversioned, Phases

LEMMA LeaseStep == LeaseInv /\ [Next]_vars => LeaseInv'
<1> SUFFICES ASSUME LeaseInv, [Next]_vars PROVE LeaseInv'
  OBVIOUS
<1> USE DEF LeaseInv, TypeOK
<1>1. CASE Tick
  <2>1. age' \in [Runs -> 0..Timeout]
    BY <1>1, TimeAssumption DEF Tick
  <2>2. lock' \in Object(Lock)
    BY <1>1, TimeAssumption DEF Tick, Object, Lock, Present, Absent
  <2>3. ASSUME NEW r \in Runs, Owns(r)'
        PROVE  (Holding(r) /\ lock.value.left = TTL - age[r])'
    <3>1. Present(lock) /\ lock \in [version : Nat \ {0}, value : Lock]
      BY <1>1, <2>3 DEF Tick, Owns, Present, Object, Absent
    <3>2. lock'.value.owner = lock.value.owner
      BY <1>1, <3>1 DEF Tick, Lock
    <3>3. Holding(r) /\ lock.value.left = TTL - age[r]
      BY <2>3, <3>1, <3>2 DEF Owns, OwnedIsHeld
    <3>4. age[r] < Timeout /\ age'[r] = age[r] + 1 /\ age[r] \in Nat
      BY <1>1, <3>3, TimeAssumption DEF Tick, Holding
    <3>5. lock' = [lock EXCEPT !.value.left = @ - 1]
      BY <1>1, <3>1, <3>3, <3>4, TimeAssumption DEF Tick
    <3>6. lock'.value.left = lock.value.left - 1
      BY <3>1, <3>5 DEF Lock
    <3> QED
      BY <1>1, <3>3, <3>4, <3>6, TimeAssumption DEF Tick, Holding
  <2> QED
    BY <1>1, <2>1, <2>2, <2>3 DEF Tick, OwnedIsHeld
<1>2. ASSUME NEW r \in Runs, Start(r) \/ Finish(r) \/ CheckOwner(r)
      PROVE  LeaseInv'
  BY <1>2 DEF Start, Finish, CheckOwner, OwnedIsHeld, Holding, Owns, Phases
<1>3. ASSUME NEW r \in Runs, Observe(r) PROVE LeaseInv'
  BY <1>3 DEF Observe, OwnedIsHeld, Holding, Owns, Phases, Object, Absent
<1>4. ASSUME NEW r \in Runs, ~Owns(r), End(r), UNCHANGED <<lock, crashes>>
      PROVE  LeaseInv'
  BY <1>4, TimeAssumption
     DEF End, OwnedIsHeld, Holding, Owns, Phases, Unversioned
<1>5. ASSUME NEW r \in Runs, Decline(r) \/ LoseClaim(r) \/ LeaveToOwner(r)
      PROVE  LeaseInv'
  <2>1. ~Owns(r)
    BY <1>5 DEF Decline, LoseClaim, LeaveToOwner, OwnedIsHeld, Holding
  <2> QED
    BY <1>4, <1>5, <2>1 DEF Decline, LoseClaim, LeaveToOwner
<1>6. ASSUME NEW r \in Runs, Claim(r) PROVE LeaseInv'
  <2>1. /\ lock'.version = lock.version + 1
        /\ lock'.value = [owner |-> r, left |-> TTL - age[r]]
        /\ lock' = [version |-> lock'.version, value |-> lock'.value]
    BY <1>6 DEF Claim, AfterPut, LeaseFrom
  <2>2. lock.version \in Nat
    BY DEF Object, Absent
  <2>3. lock' \in Object(Lock)
    BY <2>1, <2>2, TimeAssumption DEF Object, Lock
  <2>4. \A s \in Runs : Owns(s)' => s = r
    BY <2>1 DEF Owns
  <2> QED
    BY <1>6, <2>1, <2>3, <2>4 DEF Claim, OwnedIsHeld, Holding, Phases, Owners
<1>7. ASSUME NEW r \in Runs, Delete(r) PROVE LeaseInv'
  BY <1>7, TimeAssumption
     DEF Delete, OwnedIsHeld, Owns, Owners, Present, Absent, Object, Phases,
         Unversioned
<1>8. ASSUME NEW r \in Runs, Crash(r) PROVE LeaseInv'
  <2>1. /\ pc' \in [Runs -> Phases] /\ age' \in [Runs -> 0..Timeout]
        /\ seen' \in [Runs -> Nat] /\ crashes' \in 0..MaxCrashes
        /\ fresh' \subseteq Runs /\ overrun' \subseteq Runs
    BY <1>8, TimeAssumption, CrashAssumption
       DEF Crash, End, Phases, Unversioned
  <2>2. CASE Owns(r)
    <3>1. lock \in [version : Nat \ {0}, value : Lock]
      BY <2>2 DEF Owns, Present, Object, Absent
    <3>2. /\ lock' \in [version : Nat \ {0}, value : Lock]
          /\ lock'.value.owner = Dead
      BY <1>8, <2>2, <3>1 DEF Crash, Lock
    <3> QED
      BY <2>1, <3>2, DeadAssumption DEF OwnedIsHeld, Owns, Object
  <2>3. CASE ~Owns(r)
    BY <1>8, <2>1, <2>3 DEF Crash, End, OwnedIsHeld, Holding, Owns
  <2> QED
    BY <2>2, <2>3
<1>9. CASE UNCHANGED vars
  BY <1>9 DEF vars, OwnedIsHeld, Holding, Owns
<1> QED
  BY <1>1, <1>2, <1>3, <1>5, <1>6, <1>7, <1>8, <1>9 DEF Next, RunStep

(* The types of the lock and its runs, however many runs crash.            *)
THEOREM TypeCorrect == Spec => []TypeOK
<1>1. LeaseInv => TypeOK
  BY DEF LeaseInv
<1> QED
  BY <1>1, LeaseInit, LeaseStep, PTL DEF Spec

-----------------------------------------------------------------------------
(* A claimant whose reading still stands faces the lock of no live run.    *)
FreshClaimsFaceNoOwner ==
  \A r \in Runs : pc[r] = "claiming" /\ r \in fresh => Owners = {}

(* Nothing but an overrun parts a holder from its lock.                    *)
HoldersOwn == \A r \in Runs : Holding(r) /\ r \notin overrun => Owns(r)

(* A release that has checked, with nothing written since, owns the lock.  *)
FreshReleaseOwns ==
  \A r \in Runs :
    pc[r] = "deleting" /\ r \in fresh /\ Present(lock) => Owns(r)

LockInv == LeaseInv /\ FreshClaimsFaceNoOwner /\ HoldersOwn /\ FreshReleaseOwns

LEMMA LockInit == Init => LockInv
BY LeaseInit
   DEF Init, LockInv, FreshClaimsFaceNoOwner, HoldersOwn, FreshReleaseOwns,
       Holding

LEMMA OneOwner ==
  ASSUME NEW r \in Runs, NEW s \in Runs, Owns(r), Owns(s)
  PROVE  r = s
BY DEF Owns

(* A lock that names a run is live to every other run that reads it.       *)
LEMMA OwnedIsLive ==
  ASSUME LeaseInv, NEW r \in Runs, NEW s \in Runs, Owns(s)
  PROVE  Live(r)
<1>1. lock.value.left = TTL - age[s]
  BY DEF LeaseInv, OwnedIsHeld
<1>2. age[s] \in 0..Timeout /\ age[r] \in 0..Timeout
  BY DEF LeaseInv, TypeOK
<1> QED
  BY <1>1, <1>2, TimeAssumption DEF Live, Owns

LEMMA LockStep == LockInv /\ [Next]_vars => LockInv'
<1> SUFFICES ASSUME LockInv, [Next]_vars PROVE LockInv'
  OBVIOUS
<1>0. LeaseInv'
  BY LeaseStep DEF LockInv
<1> USE DEF LockInv
<1>1. CASE Tick
  <2>1. ASSUME NEW r \in Runs PROVE Owns(r)' <=> Owns(r)
    <3>1. lock = Absent \/ lock \in [version : Nat \ {0}, value : Lock]
      BY DEF LeaseInv, TypeOK, Object
    <3> QED
      BY <1>1, <3>1 DEF Tick, Owns, Present, Lock
  <2>2. Owners' = Owners /\ (Present(lock)' => Present(lock))
    BY <1>1, <2>1 DEF Owners, Tick, Present
  <2> QED
    BY <1>0, <1>1, <2>1, <2>2
       DEF Tick, FreshClaimsFaceNoOwner, HoldersOwn, FreshReleaseOwns, Holding
<1>2. ASSUME NEW r \in Runs, Start(r) \/ Finish(r) PROVE LockInv'
  BY <1>0, <1>2
     DEF Start, Finish, LeaseInv, TypeOK, FreshClaimsFaceNoOwner, HoldersOwn,
         FreshReleaseOwns, Holding, Owners, Owns
<1>3. ASSUME NEW r \in Runs, Observe(r) PROVE LockInv'
  <2>1. Owners = {}
    BY <1>3, OwnedIsLive DEF Observe, Owners
  <2> QED
    BY <1>0, <1>3, <2>1
       DEF Observe, LeaseInv, TypeOK, FreshClaimsFaceNoOwner, HoldersOwn,
           FreshReleaseOwns, Holding, Owners, Owns
<1>4. ASSUME NEW r \in Runs, Decline(r) \/ LoseClaim(r) \/ LeaveToOwner(r)
      PROVE  LockInv'
  <2>1. /\ pc' = [pc EXCEPT ![r] = "idle"] /\ lock' = lock
        /\ fresh' = fresh \ {r} /\ overrun' = overrun \ {r}
    BY <1>4 DEF Decline, LoseClaim, LeaveToOwner, End
  <2> QED
    BY <1>0, <2>1
       DEF LeaseInv, TypeOK, FreshClaimsFaceNoOwner, HoldersOwn,
           FreshReleaseOwns, Holding, Owners, Owns
<1>5. ASSUME NEW r \in Runs, Claim(r) PROVE LockInv'
  <2>1. Owns(r)' /\ fresh' = {}
    BY <1>5 DEF Claim, AfterPut, LeaseFrom, Owns, Present, LeaseInv, TypeOK,
                Object, Absent
  <2>2. ASSUME NEW s \in Runs, s # r, Holding(s)', s \notin overrun'
        PROVE  FALSE
    <3>1. Holding(s) /\ s \notin overrun
      BY <1>5, <2>2 DEF Claim, Holding, LeaseInv, TypeOK
    <3>2. s \in Owners
      BY <3>1 DEF HoldersOwn, Owners
    <3> QED
      BY <1>5, <2>2, <3>2 DEF Claim, FreshClaimsFaceNoOwner
  <2> QED
    BY <1>0, <2>1, <2>2
       DEF FreshClaimsFaceNoOwner, HoldersOwn, FreshReleaseOwns
<1>6. ASSUME NEW r \in Runs, CheckOwner(r) PROVE LockInv'
  BY <1>0, <1>6
     DEF CheckOwner, LeaseInv, TypeOK, FreshClaimsFaceNoOwner, HoldersOwn,
         FreshReleaseOwns, Holding, Owners, Owns
<1>7. ASSUME NEW r \in Runs, Delete(r) PROVE LockInv'
  <2>1. /\ pc' = [pc EXCEPT ![r] = "idle"] /\ fresh' = {}
    BY <1>7 DEF Delete
  <2>2. ASSUME NEW s \in Runs, Holding(s)', s \notin overrun' PROVE FALSE
    <3>1. s # r /\ Holding(s)
      BY <2>1, <2>2 DEF Holding, LeaseInv, TypeOK
    <3>2. s \notin overrun
      BY <1>7, <2>2, <3>1 DEF Delete
    <3>3. s \in Owners
      BY <3>1, <3>2 DEF HoldersOwn, Owners
    <3>4. r \in overrun
      BY <1>7, <3>1, <3>3, OneOwner DEF Delete, HoldersOwn, Holding, Owners
    <3> QED
      BY <1>7, <2>2, <3>1, <3>3, <3>4 DEF Delete
  <2> QED
    BY <1>0, <2>1, <2>2
       DEF FreshClaimsFaceNoOwner, HoldersOwn, FreshReleaseOwns
<1>8. ASSUME NEW r \in Runs, Crash(r) PROVE LockInv'
  <2>1. /\ pc' = [pc EXCEPT ![r] = "idle"]
        /\ fresh' = fresh \ {r} /\ overrun' = overrun \ {r}
    BY <1>8 DEF Crash, End
  <2>2. ASSUME NEW s \in Runs, s # r PROVE Owns(s)' <=> Owns(s)
    <3>1. CASE Owns(r)
      <4>1. lock \in [version : Nat \ {0}, value : Lock]
        BY <3>1 DEF LeaseInv, TypeOK, Object, Owns, Present, Absent
      <4>2. lock'.value.owner = Dead
        BY <1>8, <3>1, <4>1 DEF Crash, Lock
      <4> QED
        BY <2>2, <3>1, <4>2, OneOwner, DeadAssumption DEF Owns
    <3>2. CASE ~Owns(r)
      BY <1>8, <3>2 DEF Crash, Owns
    <3> QED
      BY <3>1, <3>2
  <2>3. ~Owns(r)'
    <3>1. CASE Owns(r)
      <4>1. lock \in [version : Nat \ {0}, value : Lock]
        BY <3>1 DEF LeaseInv, TypeOK, Object, Owns, Present, Absent
      <4> QED
        BY <1>8, <3>1, <4>1, DeadAssumption DEF Crash, Lock, Owns
    <3>2. CASE ~Owns(r)
      BY <1>8, <3>2 DEF Crash, Owns
    <3> QED
      BY <3>1, <3>2
  <2>4. Present(lock)' => Present(lock)
    BY <1>8 DEF Crash, Present, LeaseInv, TypeOK, Object, Absent
  <2>5. Owners' \subseteq Owners
    BY <2>2, <2>3 DEF Owners
  <2> QED
    BY <1>0, <2>1, <2>2, <2>4, <2>5
       DEF LeaseInv, TypeOK, FreshClaimsFaceNoOwner, HoldersOwn,
           FreshReleaseOwns, Holding
<1>9. CASE UNCHANGED vars
  BY <1>0, <1>9
     DEF vars, FreshClaimsFaceNoOwner, HoldersOwn, FreshReleaseOwns, Holding,
         Owners, Owns
<1> QED
  BY <1>1, <1>2, <1>3, <1>4, <1>5, <1>6, <1>7, <1>8, <1>9 DEF Next, RunStep

(* acquireLock excludes: of the runs under the lock, all but one were      *)
(* overrun by a put that had not read the lock it replaced, through any    *)
(* number of crashes, expiries and takeovers.                              *)
THEOREM LockExcludes == Spec => []ExclusiveUnlessOverrun
<1>1. LockInv => ExclusiveUnlessOverrun
  BY OneOwner DEF LockInv, HoldersOwn, ExclusiveUnlessOverrun, Holding
<1> QED
  BY <1>1, LockInit, LockStep, PTL DEF Spec

(* releaseLock deletes the lock of another run only when that run's put    *)
(* overran it, after the release had checked.                              *)
THEOREM ReleaseDeletesOwnLock == Spec => DeletesSuccessorOnlyIfOverrun
<1> DEFINE Step ==
      \A r \in Runs :
        Delete(r) /\ Present(lock) /\ lock.value.owner # r =>
          r \in overrun /\ r \notin fresh
<1>1. LockInv => [Step]_vars
  BY DEF LockInv, HoldersOwn, FreshReleaseOwns, Holding, Owns, Delete
<1>2. Spec => [][Step]_vars
  BY <1>1, LockInit, LockStep, PTL DEF Spec
<1> QED
  BY <1>2 DEF DeletesSuccessorOnlyIfOverrun

(* A run that works under its own lock never sees it expire: the timeout   *)
(* of the platform ends it first.                                          *)
THEOREM LeasesOutliveWork == Spec => []LeaseOutlivesWork
<1>1. LeaseInv => LeaseOutlivesWork
  <2> SUFFICES ASSUME LeaseInv, NEW r \in Runs, Owns(r)
               PROVE  lock.value.left > 0
    BY DEF LeaseOutlivesWork
  <2>1. lock.value.left = TTL - age[r] /\ age[r] \in 0..Timeout
    BY DEF LeaseInv, OwnedIsHeld, TypeOK
  <2> QED
    BY <2>1, TimeAssumption
<1> QED
  BY <1>1, LeaseInit, LeaseStep, PTL DEF Spec
=============================================================================
