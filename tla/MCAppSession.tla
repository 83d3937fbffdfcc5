---------------------------- MODULE MCAppSession ----------------------------
EXTENDS AppSession, TLC

CONSTANTS built, custom, f1, f2, x, y, r1, r2, e1, e2

BuiltInsDef == built :> <<[id |-> 1, body |-> x]>>

(* The built-in declares other defaults than the hook assumes.             *)
DefaultOfDef == built :> f2 @@ custom :> f1

WatchedDef == <<built, f1>>

WrittenDef == {<<[id |-> 1, body |-> y]>>}

Symmetry == Permutations({r1, r2}) \cup Permutations({e1, e2})
=============================================================================
