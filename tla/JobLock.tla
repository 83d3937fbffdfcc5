------------------------------- MODULE JobLock -------------------------------
(***************************************************************************)
(* The durable job lock (shared/src/ct/lock.ts): one custom object per job *)
(* with an owner and an expiry.  Connect starts runs on a schedule and     *)
(* overlaps them freely; each run reads the lock, claims it with the       *)
(* version it read, works, and releases it after reading it again.         *)
(*                                                                         *)
(* Runs are slots: a run that ended may be followed by a new run in its    *)
(* slot, with a new run id.  The run id of a crashed run belongs to no     *)
(* live run; it is written Dead.                                           *)
(*                                                                         *)
(* Time is a tick count.  Instead of absolute instants the lock keeps how  *)
(* long it is still valid and every run how long ago it read the clock,    *)
(* which is all the code ever compares.                                    *)
(*                                                                         *)
(* Two history variables serve the properties: fresh, the runs whose last  *)
(* reading of the lock still stands because nobody wrote it since, and     *)
(* overrun, the runs that lost their lock to a put that had not read it.   *)
(***************************************************************************)
EXTENDS CustomObjects, Integers

CONSTANTS
  Runs,       \* concurrent runs of one job
  Dead,       \* the owner of a lock left behind by a crashed run
  TTL,        \* ROLLUP_LOCK_TTL_MS
  Timeout,    \* the platform kills a run that is this old
  MaxCrashes  \* bound: crashes and kills

ASSUME TimeAssumption ==
  /\ TTL \in Nat /\ Timeout \in Nat
  /\ Timeout < TTL  \* "MUST exceed the 30-min timeout"
ASSUME CrashAssumption == MaxCrashes \in Nat
ASSUME DeadAssumption == Dead \notin Runs

VARIABLES
  lock,    \* the stored object: its value is [owner, left]
  pc,      \* pc[r]: where run r is
  age,     \* age[r]: ticks since run r called now()
  seen,    \* seen[r]: the object version run r read before claiming
  crashes,
  fresh,   \* the runs since whose last reading the lock was not written
  overrun  \* the runs whose lock a put replaced that had not read it, or
           \* a delete removed that followed from such a put

vars == <<lock, pc, age, seen, crashes, fresh, overrun>>

Lock == [owner : Runs \cup {Dead}, left : Int]

(* asking, claiming: in acquireLock; checking, deleting: in releaseLock    *)
Phases == {"idle", "asking", "claiming", "working", "checking", "deleting"}

TypeOK ==
  /\ lock \in Object(Lock)
  /\ pc \in [Runs -> Phases]
  /\ age \in [Runs -> 0..Timeout]
  /\ seen \in [Runs -> Nat]
  /\ crashes \in 0..MaxCrashes
  /\ fresh \subseteq Runs
  /\ overrun \subseteq Runs

Init ==
  /\ lock = Absent
  /\ pc = [r \in Runs |-> "idle"]
  /\ age = [r \in Runs |-> 0]
  /\ seen = [r \in Runs |-> Unversioned]
  /\ crashes = 0
  /\ fresh = {}
  /\ overrun = {}

-----------------------------------------------------------------------------
(* acquireLock: the clock is read first, the lock after it.                *)
Start(r) ==
  /\ pc[r] = "idle"
  /\ pc' = [pc EXCEPT ![r] = "asking"]
  /\ UNCHANGED <<lock, age, seen, crashes, fresh, overrun>>

End(r) ==
  /\ pc' = [pc EXCEPT ![r] = "idle"]
  /\ age' = [age EXCEPT ![r] = 0]
  /\ seen' = [seen EXCEPT ![r] = Unversioned]
  /\ fresh' = fresh \ {r}
  /\ overrun' = overrun \ {r}

(* expiresAt > current, where current is age[r] ticks old                  *)
NeverLive(r) == FALSE
AlwaysLive(r) == Present(lock)
Live(r) == Present(lock) /\ lock.value.left + age[r] > 0

(* A tick that finds a live lock is skipped ...                            *)
Decline(r) ==
  /\ pc[r] = "asking"
  /\ Live(r)
  /\ End(r)
  /\ UNCHANGED <<lock, crashes>>

(* ... otherwise the run will put with the version it has seen, none when  *)
(* there is no lock.                                                       *)
Observe(r) ==
  /\ pc[r] = "asking"
  /\ ~Live(r)
  /\ pc' = [pc EXCEPT ![r] = "claiming"]
  /\ seen' = [seen EXCEPT ![r] = lock.version]
  /\ fresh' = fresh \cup {r}
  /\ UNCHANGED <<lock, age, crashes, overrun>>

ShortLease(r) == [owner |-> r, left |-> Timeout - age[r]]
LeaseFrom(r) == [owner |-> r, left |-> TTL - age[r]]

Owns(r) == Present(lock) /\ lock.value.owner = r

Owners == {r \in Runs : Owns(r)}

Claim(r) ==
  /\ pc[r] = "claiming"
  /\ PutAccepted(lock, seen[r])
  /\ lock' = AfterPut(lock, LeaseFrom(r))
  /\ pc' = [pc EXCEPT ![r] = "working"]
  /\ overrun' = IF r \in fresh THEN overrun ELSE overrun \cup Owners
  /\ fresh' = {}
  /\ UNCHANGED <<age, seen, crashes>>

(* ConcurrentModificationError: another run took the lock                  *)
LoseClaim(r) ==
  /\ pc[r] = "claiming"
  /\ ~PutAccepted(lock, seen[r])
  /\ End(r)
  /\ UNCHANGED <<lock, crashes>>

(* The work is done, or threw: finally releaseLock.                        *)
Finish(r) ==
  /\ pc[r] = "working"
  /\ pc' = [pc EXCEPT ![r] = "checking"]
  /\ UNCHANGED <<lock, age, seen, crashes, fresh, overrun>>

AnyOwnerWillDo(r) ==
  /\ pc[r] = "checking"
  /\ pc' = [pc EXCEPT ![r] = "deleting"]
  /\ fresh' = fresh \cup {r}
  /\ UNCHANGED <<lock, age, seen, crashes, overrun>>

CheckOwner(r) ==
  /\ pc[r] = "checking"
  /\ Owns(r)
  /\ pc' = [pc EXCEPT ![r] = "deleting"]
  /\ fresh' = fresh \cup {r}
  /\ UNCHANGED <<lock, age, seen, crashes, overrun>>

LeaveToOwner(r) ==
  /\ pc[r] = "checking"
  /\ ~Owns(r)
  /\ End(r)
  /\ UNCHANGED <<lock, crashes>>

(* The delete passes no version.                                           *)
Delete(r) ==
  /\ pc[r] = "deleting"
  /\ lock' = Absent
  /\ pc' = [pc EXCEPT ![r] = "idle"]
  /\ age' = [age EXCEPT ![r] = 0]
  /\ seen' = [seen EXCEPT ![r] = Unversioned]
  /\ overrun' = (IF r \in overrun THEN overrun \cup Owners ELSE overrun) \ {r}
  /\ fresh' = {}
  /\ UNCHANGED crashes

-----------------------------------------------------------------------------
(* A crash, the platform's kill, or a store error that leaves the release  *)
(* undone: the run is gone, its lock stays.                                *)
Crash(r) ==
  /\ pc[r] # "idle"
  /\ crashes < MaxCrashes
  /\ crashes' = crashes + 1
  /\ lock' = IF Owns(r) THEN [lock EXCEPT !.value.owner = Dead] ELSE lock
  /\ End(r)

(* No run gets older than Timeout.                                         *)
Tick ==
  /\ \A r \in Runs : pc[r] # "idle" => age[r] < Timeout
  /\ age' = [r \in Runs |-> IF pc[r] = "idle" THEN 0 ELSE age[r] + 1]
  /\ lock' = IF Present(lock) /\ lock.value.left > -Timeout
               THEN [lock EXCEPT !.value.left = @ - 1]
               ELSE lock
  /\ UNCHANGED <<pc, seen, crashes, fresh, overrun>>

RunStep(r) ==
  \/ Decline(r)
  \/ Observe(r)
  \/ Claim(r)
  \/ LoseClaim(r)
  \/ Finish(r)
  \/ CheckOwner(r)
  \/ LeaveToOwner(r)
  \/ Delete(r)

Next ==
  \/ Tick
  \/ \E r \in Runs : Start(r) \/ RunStep(r) \/ Crash(r)

Spec == Init /\ [][Next]_vars

(* Time passes, the schedule keeps starting runs, and a run that does not  *)
(* crash gets on with its work: each is a promise of the platform.         *)
Fairness == WF_vars(Tick) /\ \A r \in Runs : WF_vars(Start(r)) /\ WF_vars(RunStep(r))

FairSpec == Spec /\ Fairness

-----------------------------------------------------------------------------
(* "The only thing standing between that and double-processing": never two *)
(* runs in the work of withJobLock.                                        *)
MutualExclusion ==
  \A r, s \in Runs : pc[r] = "working" /\ pc[s] = "working" => r = s

(* What the lock does give, through every crash, expiry and takeover: two  *)
(* runs are under it together only if the lock of one was replaced by a    *)
(* put that had not read it.  (Two claimants that both found no lock put   *)
(* without a version, and a version can match again once a lock was        *)
(* deleted and created anew.)  A claimant that read the lock the moment    *)
(* before never takes it from a run that is still alive.                   *)
ExclusiveUnlessOverrun ==
  \A r, s \in Runs :
    /\ pc[r] \in {"working", "checking", "deleting"} /\ r \notin overrun
    /\ pc[s] \in {"working", "checking", "deleting"} /\ s \notin overrun
    => r = s

(* "Releases only if we still own it, so we never delete a successor's     *)
(* lock" (lock.ts:88): a release removes the lock of another run only if   *)
(* that run claimed between the release's read and its delete, which pass  *)
(* no version, and only over a lock it had not read.                       *)
DeletesSuccessorOnlyIfOverrun ==
  [][\A r \in Runs :
       Delete(r) /\ Present(lock) /\ lock.value.owner # r =>
         r \in overrun /\ r \notin fresh]_vars

(* A run that works under its own lock has not outlived it, so no tick can *)
(* reap it: the lease runs from the clock reading before the claim, the    *)
(* platform's timeout from the start.                                      *)
LeaseOutlivesWork ==
  \A r \in Runs :
    pc[r] \in {"working", "checking", "deleting"} /\ Owns(r) =>
      lock.value.left > 0

(* "A crashed run's lock expires on its own rather than wedging the job    *)
(* forever": after a crash some run gets to work again.                    *)
CrashedLockExpires ==
  Present(lock) /\ lock.value.owner = Dead ~> \E r \in Runs : pc[r] = "working"
=============================================================================
