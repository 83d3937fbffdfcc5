---------------------------- MODULE ReportBuilder ----------------------------
(***************************************************************************)
(* The report builder: the draft (report-builder.tsx, draft-model.ts), its *)
(* preview, and the stored reports it lists, writes and deletes            *)
(* (use-report-definitions.ts).                                            *)
(*                                                                         *)
(* A save is the write and then the read of the list; each may fail, and   *)
(* both go on when the page is left.  What makes a tile incomplete, and    *)
(* the definition made of a draft, are those of Drafts: here a tile is     *)
(* Blank until it is filled in.                                            *)
(***************************************************************************)
EXTENDS AppShell

CONSTANTS
  Edits,     \* slots: the saves and deletions under way at one time
  MaxTiles   \* bound: the tiles of a draft

VARIABLES
  draft,    \* [id, tiles]
  preview,  \* the tiles the preview shown was computed for, or None
  previews, \* the previews asked for and not answered
  busy,
  list,     \* the ids listed as existing reports
  listing,  \* the list is being read since the page was opened
  changes,  \* the saves and deletions under way
  previewed \* history: the tiles last sent for a preview, None if it failed

builderVars ==
  <<draft, preview, previews, busy, list, listing, changes, previewed>>

EmptyTile(n) == [id |-> n, body |-> Blank]

EmptyDraft == [id |-> None, tiles |-> <<EmptyTile(1)>>]

BuilderInit ==
  /\ draft = EmptyDraft
  /\ preview = None /\ previews = {}
  /\ busy = FALSE
  /\ list = {} /\ listing = FALSE /\ changes = {}
  /\ previewed = None

-----------------------------------------------------------------------------
CanSave ==
  /\ draft.id # None
  /\ draft.tiles # <<>>
  /\ \A i \in DOMAIN draft.tiles : draft.tiles[i].body # Blank

Press ==
  /\ page = Builder
  /\ Click
  /\ UNCHANGED <<platformVars, url, page>>

Edit ==
  /\ Press
  /\ UNCHANGED << preview, previews, busy, list, listing, changes, previewed>>

SetId(id) ==
  /\ Edit
  /\ id # draft.id
  /\ draft' = [draft EXCEPT !.id = id]

(* The new tile is named after the number of tiles.                        *)
AddTile ==
  /\ Edit
  /\ Len(draft.tiles) < MaxTiles
  /\ draft' = [draft EXCEPT !.tiles = Append(@, EmptyTile(Len(@) + 1))]

RemoveTile(i) ==
  /\ Edit
  /\ i \in DOMAIN draft.tiles
  /\ draft' = [draft EXCEPT !.tiles = RemoveAt(@, i)]

PatchTile(i, body) ==
  /\ Edit
  /\ i \in DOMAIN draft.tiles /\ draft.tiles[i].body # body
  /\ draft' = [draft EXCEPT !.tiles[i].body = body]

-----------------------------------------------------------------------------
StartPreview ==
  /\ Press
  /\ CanSave /\ ~busy /\ IsConfigured
  /\ busy' = TRUE
  /\ previews' = previews \cup {draft.tiles}
  /\ previewed' = draft.tiles
  /\ UNCHANGED <<draft, preview, list, listing, changes>>

(* A failed preview leaves the one before it on the page.                  *)
EndPreview(tiles) ==
  /\ \E ok \in BOOLEAN :
       /\ Fault(ok)
       /\ preview' = IF ok THEN tiles ELSE preview
       /\ previewed' = IF ok THEN previewed ELSE None
  /\ previews' = previews \ {tiles}
  /\ busy' = FALSE
  /\ UNCHANGED <<platformVars, tabVars, draft, list, listing, changes>>

-----------------------------------------------------------------------------
(* by: whether the builder that started the change is still mounted, was   *)
(* left, or is gone with its tab                                           *)
Start(kind, id, tiles) ==
  \E e \in Edits :
    /\ \A c \in changes : c.slot # e
    /\ changes' = changes \cup
         {[slot |-> e, kind |-> kind, id |-> id, tiles |-> tiles,
           done |-> FALSE, by |-> "mounted"]}

StartSave ==
  /\ Press
  /\ CanSave /\ ~busy
  /\ busy' = TRUE
  /\ Start("save", draft.id, draft.tiles)
  /\ UNCHANGED <<draft, preview, previews, list, listing, previewed>>

(* The delete button does not make the page busy.                          *)
StartRemove(id) ==
  /\ Press
  /\ id \in list /\ ~busy
  /\ Start("delete", id, <<>>)
  /\ UNCHANGED <<draft, preview, previews, busy, list, listing, previewed>>

Settled(c) ==
  busy' = (busy /\ ~(c.by = "mounted" /\ c.kind = "save"))

(* A report that was deleted meanwhile cannot be deleted again.            *)
InVain(c) ==
  c.kind = "delete" /\ ~c.done /\ stored[c.id] = None

Mutate(c) ==
  /\ ~c.done /\ ~InVain(c)
  /\ IF c.kind = "save" THEN Write(c.id, c.tiles) ELSE Erase(c.id)
  /\ changes' = (changes \ {c}) \cup
                  IF c.by = "gone" THEN {} ELSE {[c EXCEPT !.done = TRUE]}
  /\ UNCHANGED <<published, tabVars, faults, draft, preview, previews, busy,
                 list, listing, previewed>>

(* The list is read again after the change.                                *)
Refetch(c) ==
  /\ c.done
  /\ list' = Stored
  /\ Settled(c)
  /\ changes' = changes \ {c}
  /\ UNCHANGED <<shellVars, draft, preview, previews, listing, previewed>>

(* The change, or the read after it, fails; nothing is undone.             *)
ChangeFails(c) ==
  /\ Fault(InVain(c))
  /\ Settled(c)
  /\ changes' = changes \ {c}
  /\ UNCHANGED <<platformVars, tabVars, draft, preview, previews, list, listing, previewed>>

ReadList ==
  /\ listing
  /\ listing' = FALSE
  /\ list' = Stored
  /\ UNCHANGED <<shellVars, draft, preview, previews, busy, changes,
                 previewed>>

-----------------------------------------------------------------------------
(* The page is opened: the list shows what was read before until it is     *)
(* read again (cache-and-network).                                         *)
OpenBuilder ==
  /\ listing' = TRUE
  /\ UNCHANGED <<draft, preview, previews, busy, list, changes, previewed>>

(* The page is left, or its tab is loaded anew: the draft is gone, and the *)
(* calls sent go on.                                                       *)
FreshPage ==
  /\ draft' = EmptyDraft
  /\ preview' = None /\ previews' = {}
  /\ busy' = FALSE
  /\ previewed' = None

LeaveBuilder ==
  /\ FreshPage
  /\ changes' = {[c EXCEPT !.by = "left"] : c \in changes}
  /\ listing' = FALSE
  /\ UNCHANGED list

ReloadBuilder ==
  /\ FreshPage
  /\ changes' = {[c EXCEPT !.by = "gone"] : c \in {d \in changes : ~d.done}}
  /\ list' = {}
  /\ listing' = (page = Builder)
=============================================================================
