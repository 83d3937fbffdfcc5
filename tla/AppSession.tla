------------------------------ MODULE AppSession ------------------------------
(***************************************************************************)
(* One browser tab of the Merchant Center app: the catalogue and viewer of *)
(* ReportViewer and the builder of ReportBuilder, one page at a time, over *)
(* the stored reports that other authors change too.                       *)
(***************************************************************************)
EXTENDS ReportViewer, ReportBuilder

CONSTANTS
  Written,   \* the tiles other authors write
  Bookmarks  \* the filters in the links, bookmarks and history entries
             \* that lead to a report, None without any

ASSUME WrittenAssumption ==
  Written \subseteq Seq(Tile) /\ Bookmarks \subseteq Filters \cup {None}

vars == <<shellVars, search, hookVars, builderVars>>

Init == ShellInit /\ ViewerInit /\ BuilderInit

Outside ==
  /\ \/ \E id \in Ids, tiles \in Written : AnotherAuthor(id, tiles)
     \/ OrdersArrive
     \/ PostDeploy
     \/ DiscoverUrl /\ ~EffectsDue
  /\ UNCHANGED <<viewerVars, builderVars>>

Calls ==
  /\ \/ \E i \in DOMAIN gets : AnswerGet(i) \/ FailGet(i)
     \/ \E p \in posts : ServePost(p) \/ AnswerPost(p) \/ FailPost(p)
  /\ UNCHANGED builderVars

Viewing ==
  /\ \/ Effects
     \/ Refresh
     \/ \E filters \in Filters : PatchFilters(filters)
  /\ UNCHANGED builderVars

Moving ==
  \/ \E to \in Pages, filters \in Bookmarks :
       /\ Navigate(to, IF to \in Ids THEN filters ELSE None)
       /\ CASE page = Builder -> LeaveBuilder
            [] to = Builder -> OpenBuilder
            [] OTHER -> UNCHANGED builderVars
  \/ Reload /\ ReloadBuilder

Drafting ==
  /\ \/ \E id \in Customs : SetId(id)
     \/ AddTile
     \/ \E i \in DOMAIN draft.tiles : RemoveTile(i)
     \/ \E i \in DOMAIN draft.tiles, body \in Bodies : PatchTile(i, body)
     \/ StartPreview
     \/ \E tiles \in previews : EndPreview(tiles)
     \/ StartSave
     \/ \E id \in list : StartRemove(id)
     \/ \E c \in changes : Mutate(c) \/ Refetch(c) \/ ChangeFails(c)
     \/ ReadList
  /\ UNCHANGED viewerVars

Next == Outside \/ Calls \/ Viewing \/ Moving \/ Drafting

Spec == Init /\ [][Next]_vars

-----------------------------------------------------------------------------
(* A report on the screen that is not loading shows the answer to what the *)
(* page asks for: this report, under the filters in the URL; however runs  *)
(* of other filters, of other reports and of viewers left behind come in.  *)
(* (use-report-query.ts, the latest ref)                                   *)
ShownIsAsked ==
  OnScreen /\ ~EffectsDue /\ ~query.loading /\ query.data # None
    => query.data.key = Key

(* Going back and forth between filters and reports never brings back      *)
(* figures older than some shown before for the same request, unless two   *)
(* runs of it were out together.  (use-report-query.ts, query-cache.ts)    *)
NeverOlder ==
  query.data # None /\ query.data.key = Watched => query.data.at >= seen \/ twice

(* The result drawn in the frame of a tile is found by the tile's id: the  *)
(* viewer takes the last of that id, the builder's preview the first.      *)
Places(tiles, id) == {i \in DOMAIN tiles : tiles[i].id = id}
ResultByTile(tiles, id) ==
  tiles[CHOOSE i \in Places(tiles, id) : \A j \in Places(tiles, id) : j <= i]
PreviewTile(tiles, id) ==
  tiles[CHOOSE i \in Places(tiles, id) : \A j \in Places(tiles, id) : i <= j]

Distinct(tiles) == \A i, j \in DOMAIN tiles : tiles[i].id = tiles[j].id => i = j

FramedInViewer ==
  OnScreen /\ ~EffectsDue /\ ~query.loading /\ query.data # None =>
    LET shown == fetch.data.report  answered == query.data.report
    IN /\ fetch.data.of = page
       /\ shown.since = answered.since /\ Distinct(shown.tiles) =>
            \A i \in DOMAIN shown.tiles :
              ResultByTile(answered.tiles, shown.tiles[i].id) = shown.tiles[i]

FramedInPreview ==
  page = Builder /\ preview # None /\ ~busy
      /\ previewed # None /\ draft.tiles = previewed /\ Distinct(previewed) =>
    \A i \in DOMAIN previewed :
      PreviewTile(preview, previewed[i].id) = previewed[i]

(* What is drawn in the frame of a tile is that tile's own result: in the  *)
(* viewer, unless the stored report was written between the read of its    *)
(* definition and its run, or one of the two could not read it and fell    *)
(* back on the built-in one; in the preview, of the draft last sent for,   *)
(* while it is not edited and unless that preview failed; in both, unless  *)
(* two tiles have one id.                                                  *)
(* (report-viewer.tsx, report-builder.tsx)                                 *)
FramesAreTheirOwn == FramedInViewer /\ FramedInPreview

(* A spinner always has a call to wait for: a viewer that is loading has   *)
(* the run of its latest key under way, and a page without its definition  *)
(* waits for discovery or for its read.  (use-report-query.ts,             *)
(* use-gateway-fetch.ts)                                                   *)
SpinnersEnd ==
  /\ query.loading =>
       \E p \in posts : p.mine /\ p.key = query.latest
  /\ page # Builder /\ fetch.loading /\ ~EffectsDue =>
       url = "discovering" \/ fetch.latest \in ToSet(gets)
=============================================================================
