-------------------------------- MODULE Access --------------------------------
(***************************************************************************)
(* What a subject may see (shared/src/framing/access.ts): the policies     *)
(* that match the subject grant and deny capabilities and restrict rows.   *)
(*                                                                         *)
(* A capability is a pair <<kind, id>>.  A row scope maps each restricted  *)
(* dimension to the values allowed, and is the empty function when nothing *)
(* is restricted.  Grants, denials and restrictions accumulate, so the     *)
(* order of priority does not matter.  Redactions and minimum aggregations *)
(* are resolved by the code and read nowhere; they are left out.           *)
(***************************************************************************)
EXTENDS Semantics

NoRestriction == <<>>

Matches(policy, permissions, tags) ==
  /\ policy.anyPermission # {} => policy.anyPermission \cap permissions # {}
  /\ policy.allPermissions \subseteq permissions
  /\ policy.anyTag # {} => policy.anyTag \cap tags # {}

(* The values one policy leaves: an assignment that does not name the      *)
(* dimension leaves nothing (fail closed).                                 *)
ScopeValues(restriction, assignment) ==
  IF restriction.from = "literal" THEN restriction.values
  ELSE IF restriction.dimension \in DOMAIN assignment.scope
    THEN assignment.scope[restriction.dimension] ELSE {}

(* Every restriction of a dimension applies.                               *)
IntersectScope(restrictions, assignment) ==
  [d \in {r.dimension : r \in restrictions} |->
     LET left == {ScopeValues(r, assignment) :
                    r \in {s \in restrictions : s.dimension = d}}
     IN  {v \in UNION left : \A values \in left : v \in values}]

ResolveAccess(permissions, policies, assignment) ==
  LET applicable ==
        {p \in policies : Matches(p, permissions, assignment.tags)}
      Ids(capabilities, kind) == {c[2] : c \in {b \in capabilities : b[1] = kind}}
      grants == UNION {p.grant : p \in applicable}
      denies == UNION {p.deny : p \in applicable}
  IN  [permissions |-> permissions,
       granted |-> [kind \in {"report", "metric", "dim", "source"} |->
                      Ids(grants, kind)
                      \ (IF kind = "source" THEN {} ELSE Ids(denies, kind))],
       wildcard |-> {c[1] : c \in {b \in grants : b[2] = "*"}},
       denied |-> [kind \in {"report", "metric", "dim"} |-> Ids(denies, kind)],
       sensitivities |-> Ids(grants, "sensitivity"),
       rowScope |-> IntersectScope(UNION {p.rowScope : p \in applicable},
                                   assignment)]

Covers(access, kind, id) ==
  kind \in access.wildcard \/ id \in access.granted[kind]

CanSeeMetricByWildcard(access, id) ==
  id \notin access.denied["metric"] /\ Covers(access, "metric", id)

(* A sensitive metric is never covered by a wildcard.                      *)
CanSeeMetric(access, id) ==
  /\ id \notin access.denied["metric"]
  /\ IF Sensitivity(id) # Null
       THEN \/ Sensitivity(id) \in access.sensitivities
            \/ id \in access.granted["metric"]
       ELSE Covers(access, "metric", id)
CanSeeDimension(access, id) ==
  id \notin access.denied["dim"] /\ Covers(access, "dim", id)
CanUseSource(access, id) == Covers(access, "source", id)
CanSeeReport(access, id) ==
  id \notin access.denied["report"] /\ Covers(access, "report", id)

ActiveScopeDimensions(rowScope) == DOMAIN rowScope

DEFAULT_POLICIES ==
  LET Policy(permissions, capabilities) ==
        [anyPermission |-> permissions, allPermissions |-> {}, anyTag |-> {},
         grant |-> capabilities, deny |-> {}, rowScope |-> {}]
  IN  {Policy({"canViewReporting"},
              {"report", "metric", "dim", "source"} \X {"*"}),
       Policy({"canViewReportingFinancials", "canManageReporting"},
              {<<"sensitivity", "financials">>})}

(* The frame of a session: stored policies replace the default ones.       *)
AccessFrame(permissions, stored, assignment) ==
  ResolveAccess(permissions, IF stored = {} THEN DEFAULT_POLICIES ELSE stored,
                assignment)
MayReport(access) == "canViewReporting" \in access.permissions
=============================================================================
