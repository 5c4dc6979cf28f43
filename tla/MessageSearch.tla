---------------------------- MODULE MessageSearch ----------------------------
(***************************************************************************)
(* The Messages page of the console, src/frontend/src/pages/Search.tsx: a  *)
(* rail of saved views, a filter editor that works on the filters of the   *)
(* active view, and a search that follows the editor after a pause.        *)
(*                                                                         *)
(* Every handler that awaits the server continues with the values of the   *)
(* render it was created in: a call in flight carries the rail, the active *)
(* view and the filters it captured, and writes the rail back from them.   *)
(* A view's name, owner and visibility are left out; a view is its id and  *)
(* its filters.  The page reads the saved views once, so of the server     *)
(* nothing is kept but its answers: any call may succeed or fail, in any   *)
(* order.  The results are a panel of their own (SearchResults of          *)
(* PagePanels).                                                            *)
(***************************************************************************)
EXTENDS Naturals, Sequences, FiniteSets

CONSTANTS
  Filters,     \* the filter sets the editor can hold
  NoFilters,   \* the empty filter set
  SavedIds,    \* ids of the views that are saved when the page opens
  SavedFilter, \* their filters
  NewIds,      \* ids the server can still issue
  DraftIds,    \* ids of in-memory drafts
  NoId,        \* no view
  LinkView,    \* the view ?view= asks for, or NoId
  LinkFilters, \* the filters ?q / ?s ask for, or NoFilters
  MaxCalls,    \* bound: changes of saved views in flight
  MaxRail      \* bound: views of the rail

ASSUME SearchAssumption ==
  /\ NoFilters \in Filters
  /\ LinkFilters \in Filters
  /\ SavedFilter \in Filters
  /\ NoId \notin SavedIds \cup NewIds \cup DraftIds
  /\ SavedIds \cap NewIds = {} /\ DraftIds \cap (SavedIds \cup NewIds) = {}
  /\ IsFiniteSet(SavedIds)
  /\ MaxCalls \in Nat /\ MaxRail \in Nat

VARIABLES
  views,    \* the rail
  activeId, \* the active view's id, or NoId
  draft,    \* the filters in the editor
  edited,   \* userEditedFilters, forgotten when it is read no more
  seeding,  \* the saved views are being read
  saving,   \* a save is under way
  changes,  \* changes of saved views in flight, with what they captured
  search    \* the newest debounce timer: the filters it captured, and
            \* whether it has ended and sent the search

searchVars == <<views, activeId, draft, edited, seeding, saving, changes, search>>
editor == <<draft, search>>

Ids == SavedIds \cup NewIds \cup DraftIds

Views == [id : Ids, filters : Filters]

Changes == [call : 1..MaxCalls,
            op : {"create", "createNew", "update", "rename", "delete"},
            id : Ids \cup {NoId}, filters : Filters,
            rail : Seq(Views), active : Ids \cup {NoId}]

InRail(rail, id) == \E i \in 1..Len(rail) : rail[i].id = id

Distinct(rail) ==
  \A i, j \in 1..Len(rail) : rail[i].id = rail[j].id => i = j

ViewOf(rail, id) == rail[CHOOSE i \in 1..Len(rail) : rail[i].id = id]

Replace(rail, id, v) ==
  [i \in 1..Len(rail) |-> IF rail[i].id = id THEN v ELSE rail[i]]

(* An id is in a rail once (SearchTypeOK).                                 *)
Without(rail, id) ==
  LET k == CHOOSE i \in 1..Len(rail) : rail[i].id = id
  IN  [i \in 1..(Len(rail) - 1) |-> IF i < k THEN rail[i] ELSE rail[i + 1]]

BlankView(id) == [id |-> id, filters |-> NoFilters]

(* The active view, when the rail still has it.                            *)
HasActive == activeId # NoId /\ InRail(views, activeId)

isDirty == HasActive /\ draft # ViewOf(views, activeId).filters

(* Types; and no view is twice in the rail, whose entries are keyed by id.  *)
SearchTypeOK ==
  /\ views \in Seq(Views)
  /\ Distinct(views)
  /\ activeId \in Ids \cup {NoId}
  /\ draft \in Filters
  /\ edited \in BOOLEAN /\ seeding \in BOOLEAN /\ saving \in BOOLEAN
  /\ changes \in SUBSET Changes
  /\ search \in [filters : Filters, sent : BOOLEAN]

(* The page is mounted: its effects ask for the saved views and start the  *)
(* timer of the first search.                                              *)
SearchInit ==
  /\ views = <<>>
  /\ activeId = NoId
  /\ draft = NoFilters
  /\ edited = FALSE
  /\ seeding = TRUE
  /\ saving = FALSE
  /\ changes = {}
  /\ search = [filters |-> NoFilters, sent |-> FALSE]

(* A new id is one that occurs nowhere.                                    *)
Fresh(set) ==
  {id \in set :
     /\ id # activeId /\ ~InRail(views, id)
     /\ \A c \in changes : c.id # id /\ c.active # id /\ ~InRail(c.rail, id)}

UnusedDraft == Fresh(DraftIds)

(* The editor is given other filters: run is a new callback, so the effect *)
(* clears the 350 ms timer and starts one that captures them.  Mutant: the *)
(* timer is not started again.                                             *)
SetDraftMutant(f) == draft' = f /\ UNCHANGED search

SetDraft(f) == draft' = f /\ search' = [filters |-> f, sent |-> FALSE]

-----------------------------------------------------------------------------
(* The answer of listMessageViews: the saved views, in some order, without *)
(* those that somebody has deleted meanwhile and with those this page has  *)
(* created.                                                                *)
Listed ==
  [id : SavedIds, filters : {SavedFilter}]
    \cup {views[i] : i \in {j \in 1..Len(views) : views[j].id \in NewIds}}

Listings ==
  UNION {{s \in [1..Cardinality(set) -> set] :
            \A i, j \in 1..Cardinality(set) : s[i] = s[j] => i = j}
         : set \in SUBSET Listed}

(* The editor was touched first: the rail gets the views and a draft, and  *)
(* the editor keeps what it holds.                                         *)
SeedBesideEdits(mapped) ==
  /\ edited
  /\ \E d \in UnusedDraft :
       /\ views' = Append(mapped, BlankView(d))
       /\ activeId' = IF activeId = NoId THEN d ELSE activeId
  /\ UNCHANGED editor

(* ?view=, then ?q / ?s, then the first saved view, then a fresh draft.    *)
SeedFromLink(mapped) ==
  /\ ~edited
  /\ IF InRail(mapped, LinkView)
     THEN /\ views' = mapped
          /\ activeId' = LinkView
          /\ SetDraft(ViewOf(mapped, LinkView).filters)
     ELSE IF LinkFilters # NoFilters \/ mapped = <<>>
     THEN /\ \E d \in UnusedDraft :
               /\ views' = Append(mapped, BlankView(d))
               /\ activeId' = d
          /\ SetDraft(LinkFilters)
     ELSE /\ views' = mapped
          /\ activeId' = mapped[1].id
          /\ SetDraft(mapped[1].filters)

SeedArrives ==
  /\ seeding
  /\ seeding' = FALSE
  /\ \E mapped \in Listings : SeedBesideEdits(mapped) \/ SeedFromLink(mapped)
  /\ edited' = FALSE
  /\ UNCHANGED <<saving, changes>>

(* The views cannot be read: the page falls back to a draft.               *)
SeedFails ==
  /\ seeding
  /\ seeding' = FALSE
  /\ \E d \in UnusedDraft : views' = <<BlankView(d)>> /\ activeId' = d
  /\ SetDraft(NoFilters)
  /\ edited' = FALSE
  /\ UNCHANGED <<saving, changes>>

-----------------------------------------------------------------------------
(* The editor and the rail.                                                *)

EditFilters(f) ==
  /\ f # draft
  /\ SetDraft(f)
  /\ edited' = seeding
  /\ UNCHANGED <<views, activeId, seeding, saving, changes>>

SelectView(id) ==
  /\ InRail(views, id)
  /\ activeId' = id
  /\ SetDraft(ViewOf(views, id).filters)
  /\ UNCHANGED <<views, edited, seeding, saving, changes>>

CreateView ==
  /\ Len(views) < MaxRail
  /\ \E d \in UnusedDraft :
       /\ views' = Append(views, BlankView(d))
       /\ activeId' = d
  /\ SetDraft(NoFilters)
  /\ UNCHANGED <<edited, seeding, saving, changes>>

ResetFilters ==
  /\ isDirty
  /\ SetDraft(ViewOf(views, activeId).filters)
  /\ UNCHANGED <<views, activeId, edited, seeding, saving, changes>>

-----------------------------------------------------------------------------
(* Changes of saved views.  A call captures what it goes on with of the    *)
(* render it was made in.                                                  *)

Send(op, id, filters, rail, active) ==
  \E k \in 1..MaxCalls :
    /\ \A c \in changes : c.call # k
    /\ \A j \in 1..(k - 1) : \E c \in changes : c.call = j
    /\ changes' = changes \cup {[call |-> k, op |-> op, id |-> id,
                                 filters |-> filters, rail |-> rail,
                                 active |-> active]}

Save ==
  /\ isDirty
  /\ ~saving
  /\ saving' = TRUE
  /\ Send(IF activeId \in DraftIds THEN "create" ELSE "update", activeId, draft,
          views, NoId)
  /\ UNCHANGED <<views, activeId, editor, edited, seeding>>

(* The dialog has a flag of its own, which opening it anew lowers: a save, *)
(* and an earlier one of the dialog, may be under way.                     *)
SaveAsNew ==
  /\ Len(views) < MaxRail
  /\ saving' = TRUE
  /\ Send("createNew", NoId, draft, views, NoId)
  /\ UNCHANGED <<views, activeId, editor, edited, seeding>>

(* Renaming writes the rail at once and, for a saved view, the server; it  *)
(* goes on with nothing.                                                   *)
Rename ==
  /\ HasActive
  /\ activeId \notin DraftIds
  /\ Send("rename", NoId, NoFilters, <<>>, NoId)
  /\ UNCHANGED <<views, activeId, editor, edited, seeding, saving>>

(* What a deletion does to the rail, from a rail and an active view.       *)
(* Mutant: the rail that is left may be empty.                             *)
DropFromRailMutant(rail, active, id) ==
  /\ views' = Without(rail, id)
  /\ IF active = id
     THEN activeId' = NoId /\ SetDraft(NoFilters)
     ELSE UNCHANGED <<activeId, editor>>

DropFromRail(rail, active, id) ==
  LET remaining == Without(rail, id) IN
  IF remaining = <<>>
  THEN /\ \E d \in UnusedDraft : views' = <<BlankView(d)>> /\ activeId' = d
       /\ SetDraft(NoFilters)
  ELSE /\ views' = remaining
       /\ IF active = id
          THEN activeId' = remaining[1].id /\ SetDraft(remaining[1].filters)
          ELSE UNCHANGED <<activeId, editor>>

(* A draft is dropped at once, a saved view after the server dropped it.   *)
DeleteDraft(id) ==
  /\ InRail(views, id)
  /\ id \in DraftIds
  /\ DropFromRail(views, activeId, id)
  /\ UNCHANGED <<edited, seeding, saving, changes>>

DeleteView(id) ==
  /\ InRail(views, id)
  /\ id \notin DraftIds
  /\ Send("delete", id, NoFilters, views, activeId)
  /\ UNCHANGED <<views, activeId, editor, edited, seeding, saving>>

DeleteDone(c) ==
  /\ c.op = "delete"
  /\ DropFromRail(c.rail, c.active, c.id)
  /\ changes' = changes \ {c}
  /\ UNCHANGED <<edited, seeding, saving>>

CreateDone(c) ==
  /\ c.op \in {"create", "createNew"}
  /\ \E id \in Fresh(NewIds) :
       LET v == [id |-> id, filters |-> c.filters] IN
       /\ views' = IF c.op = "create" THEN Replace(c.rail, c.id, v)
                                      ELSE Append(c.rail, v)
       /\ activeId' = id
  /\ saving' = FALSE
  /\ changes' = changes \ {c}
  /\ UNCHANGED <<editor, edited, seeding>>

(* Mutant: the view is added to the rail instead of replaced.              *)
UpdateDoneMutant(c) ==
  /\ c.op = "update"
  /\ views' = Append(c.rail, [id |-> c.id, filters |-> c.filters])
  /\ saving' = FALSE
  /\ changes' = changes \ {c}
  /\ UNCHANGED <<activeId, editor, edited, seeding>>

UpdateDone(c) ==
  /\ c.op = "update"
  /\ views' = Replace(c.rail, c.id, [id |-> c.id, filters |-> c.filters])
  /\ saving' = FALSE
  /\ changes' = changes \ {c}
  /\ UNCHANGED <<activeId, editor, edited, seeding>>

RenameDone(c) ==
  /\ c.op = "rename"
  /\ changes' = changes \ {c}
  /\ UNCHANGED <<views, activeId, editor, edited, seeding, saving>>

(* A failed change shows its error; a failed save ends saving.  Mutant: it *)
(* does not.                                                               *)
ChangeFailsMutant(c) ==
  /\ changes' = changes \ {c}
  /\ UNCHANGED <<views, activeId, editor, edited, seeding, saving>>

ChangeFails(c) ==
  /\ changes' = changes \ {c}
  /\ saving' = (saving /\ c.op \in {"rename", "delete"})
  /\ UNCHANGED <<views, activeId, editor, edited, seeding>>

-----------------------------------------------------------------------------
(* The timer ends: the search is sent with the filters it captured.        *)
Run ==
  /\ ~search.sent
  /\ search' = [search EXCEPT !.sent = TRUE]
  /\ UNCHANGED <<views, activeId, draft, edited, seeding, saving, changes>>

ChangeEnds(c) ==
  DeleteDone(c) \/ CreateDone(c) \/ UpdateDone(c) \/ RenameDone(c) \/ ChangeFails(c)

SearchNext ==
  \/ SeedArrives
  \/ SeedFails
  \/ \E f \in Filters : EditFilters(f)
  \/ \E id \in Ids : SelectView(id)
  \/ CreateView
  \/ ResetFilters
  \/ Save
  \/ SaveAsNew
  \/ Rename
  \/ \E id \in Ids : DeleteDraft(id) \/ DeleteView(id)
  \/ \E c \in changes : ChangeEnds(c)
  \/ Run

AnswerChange(k) == \E c \in changes : c.call = k /\ ChangeEnds(c)

SearchSpec == SearchInit /\ [][SearchNext]_searchVars

-----------------------------------------------------------------------------
(* Once the saved views were read, or could not be, the rail always offers *)
(* a view: no order of deletions, saves and new drafts whose answers       *)
(* overtake each other and put back the rails they captured leaves it      *)
(* empty.                                                                  *)
RailNeverEmpty == ~seeding => views # <<>>

=============================================================================
