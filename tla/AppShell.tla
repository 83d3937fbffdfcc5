------------------------------ MODULE AppShell ------------------------------
(***************************************************************************)
(* What the pages of the Merchant Center app share: the page the operator  *)
(* is on (routes.tsx), the discovery of the gateway (use-gateway-url.ts,   *)
(* connector/post-deploy.ts), the container of stored reports and the      *)
(* gateway's resolution of it (reports/resolve.ts, routes/index.ts).       *)
(*                                                                         *)
(* A report is the sequence of its tiles [id, body]: body stands for the   *)
(* query and the chart of a tile.  Framing by access and by the installed  *)
(* sources, and what a tile's figures are, belong to Planner and TileRun;  *)
(* here an answer carries the tiles it was computed for and the state of   *)
(* the world it was computed in.                                           *)
(***************************************************************************)
EXTENDS Naturals, Sequences, FiniteSets, SequencesExt

CONSTANTS
  BuiltIns,  \* BuiltIns[id]: the tiles of a report shipped with the gateway
  Customs,   \* the ids authors save under
  Catalogue, Builder,  \* the pages that are not a report
  Bodies,    \* what a tile can be filled in with
  Blank,     \* a tile without metrics
  None,
  MaxWorld,  \* bound: changes to orders and to stored reports
  MaxClicks, \* bound: what the operator of the tab does
  MaxFaults  \* bound: calls that fail

Ids == DOMAIN BuiltIns \cup Customs
Pages == Ids \cup {Catalogue, Builder}

(* What a tab may know of the gateway's URL                                *)
Urls == {"discovering", "known", "failed", "absent"}

Tile == [id : Nat, body : Bodies \cup {Blank}]

ASSUME TileAssumption ==
  Blank \notin Bodies /\ BuiltIns \in [DOMAIN BuiltIns -> Seq(Tile)]
ASSUME PageAssumption ==
  /\ {Catalogue, Builder} \cap Ids = {} /\ Catalogue # Builder
  /\ None \notin Pages \cup (Pages \X Urls)
  /\ DOMAIN BuiltIns \cap Customs = {}
ASSUME BoundAssumption == MaxWorld \in Nat /\ MaxClicks \in Nat /\ MaxFaults \in Nat

VARIABLES
  world,     \* the changes so far
  stored,    \* stored[id]: the stored report, or None
  published, \* post-deploy has written reporting.config/gateway
  url,       \* what this tab knows of the gateway's URL
  page,
  clicks, faults

platformVars == <<world, stored, published>>
tabVars == <<url, page, clicks>>
shellVars == <<platformVars, tabVars, faults>>

(* since: the change that wrote the report, 0 for a built-in               *)
Report(tiles, since) == [tiles |-> tiles, since |-> since]

IsConfigured == url = "known"

-----------------------------------------------------------------------------
Stored == {id \in Ids : stored[id] # None}

(* The reports by id; reading the container may fail as a whole.  A stored *)
(* value that does not parse is passed over: it counts as None.            *)
ResolveReports(readable) ==
  LET usable == IF readable THEN Stored ELSE {}
  IN [id \in DOMAIN BuiltIns \cup usable |->
        IF id \in usable THEN stored[id] ELSE Report(BuiltIns[id], 0)]

(* GET /reports, GET /reports/:reportId and POST /reports/:reportId/run    *)
ListAnswer(readable) ==
  [of |-> Catalogue, listed |-> DOMAIN ResolveReports(readable)]

DefinitionAnswer(id, readable) ==
  [of |-> id, report |-> ResolveReports(readable)[id]]

RunAnswer(key, readable) ==
  [key |-> key, report |-> ResolveReports(readable)[key[1]], at |-> world]

Known(id, readable) == id \in DOMAIN ResolveReports(readable)

-----------------------------------------------------------------------------
ShellInit ==
  /\ world = 0
  /\ stored = [id \in Ids |-> None]
  /\ published \in BOOLEAN
  /\ url = "discovering"
  /\ page = Catalogue
  /\ clicks = 0 /\ faults = 0

Click == clicks < MaxClicks /\ clicks' = clicks + 1 /\ UNCHANGED faults

Fault(ok) == IF ok THEN UNCHANGED faults ELSE faults < MaxFaults /\ faults' = faults + 1

(* A write to the container gives the report its tiles; no version is      *)
(* checked.                                                                *)
Write(id, tiles) ==
  /\ world < MaxWorld
  /\ world' = world + 1
  /\ stored' = [stored EXCEPT ![id] = Report(tiles, world + 1)]

Erase(id) ==
  /\ world < MaxWorld
  /\ world' = world + 1
  /\ stored' = [stored EXCEPT ![id] = None]

(* Writers outside this tab: another author, or a deployment.              *)
AnotherAuthor(id, tiles) ==
  /\ Write(id, tiles)
  /\ UNCHANGED <<published, tabVars, faults>>

OrdersArrive ==
  /\ world < MaxWorld
  /\ world' = world + 1
  /\ UNCHANGED <<stored, published, tabVars, faults>>

PostDeploy ==
  /\ ~published
  /\ published' = TRUE
  /\ UNCHANGED <<world, stored, tabVars, faults>>

(* The discovery query, asked once in the life of a tab (cache-first)      *)
DiscoverUrl ==
  /\ url = "discovering"
  /\ \E ok \in BOOLEAN :
       /\ Fault(ok)
       /\ url' = IF ~ok THEN "failed" ELSE IF published THEN "known" ELSE "absent"
  /\ UNCHANGED <<platformVars, page, clicks>>
=============================================================================
