---------------------------- MODULE CustomObjects ----------------------------
(***************************************************************************)
(* The versioned key/value store behind CustomObjectPort, reduced to what  *)
(* its callers can tell apart: one object is its version and its value,    *)
(* and a write is accepted or answered 409, which the adapter turns into   *)
(* ConcurrentModificationError.                                            *)
(*                                                                         *)
(* The store itself is an external service, reached through ct-adapter.ts. *)
(* A put without a version over an existing object is an upsert: the       *)
(* adapter then sends no version at all and the service replaces whatever  *)
(* is there.  (The in-memory port of the job's tests answers a conflict    *)
(* instead; nothing here relies on that.)                                  *)
(***************************************************************************)
EXTENDS Naturals

CONSTANT NoValue  \* the value of an object that does not exist

(* An object starts at version 1; version 0 is "there is no such object",  *)
(* and, as an expected version, "the caller passed none".                  *)
Absent == [version |-> 0, value |-> NoValue]

Present(obj) == obj.version > 0

Unversioned == 0

Object(V) == {Absent} \cup [version : Nat \ {0}, value : V]

PutAcceptedAlways(obj, expected) == TRUE

PutAccepted(obj, expected) ==
  \/ ~Present(obj)
  \/ expected = obj.version
  \/ expected = Unversioned

(* A deleted object leaves no trace: the next put starts at version 1.     *)
AfterPut(obj, v) == [version |-> obj.version + 1, value |-> v]
=============================================================================
