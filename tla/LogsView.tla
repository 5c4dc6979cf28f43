------------------------------ MODULE LogsView ------------------------------
(***************************************************************************)
(* The log list of the console, src/frontend/src/components/logs/          *)
(* LogsView.tsx: a debounced text filter, filters that apply at once, the  *)
(* first page that every filter change asks for, the keyset pages that     *)
(* scrolling appends, and the drawer that shows one log.                   *)
(*                                                                         *)
(* A read is a member of calls from the moment it is sent until its answer *)
(* is handled; answers are handled in any order.  What a page contains is  *)
(* left out: a page is the filters it was asked for, the filters of the    *)
(* cursor it continues, and its place in that cursor's chain.  A page may  *)
(* hold no row at all.                                                     *)
(***************************************************************************)
EXTENDS Naturals, Sequences

CONSTANTS
  Texts,      \* what can be typed into the text filter (trimmed)
  Facets,     \* the filters that apply at once: window, severity, chips
  Text0,      \* the text filter the page opens with (?logq)
  Facet0,     \* the other filters the page opens with
  DeepLink,   \* TRUE iff the page is opened with ?log=<id>
  LastPage    \* the longest chain of pages the server holds

ASSUME LogsAssumption ==
  /\ Text0 \in Texts
  /\ Facet0 \in Facets
  /\ DeepLink \in BOOLEAN
  /\ LastPage \in Nat \ {0}

VARIABLES
  qInput,     \* the text in the search box
  timer,      \* the text captured by the debounce timer that runs, if any
  appliedQ,   \* the text the queries carry
  facet,      \* the other filters
  grouped,    \* the rollup is shown instead of the list
  logs,       \* the pages the list shows, in order
  cursor,     \* where the next page starts, or NoCursor
  loading,    \* a first page is being loaded
  loadingRef, \* a further page is being loaded
  failed,     \* an error is shown
  selected,   \* what the drawer shows
  calls       \* reads in flight that will still be handled

logVars == <<qInput, timer, appliedQ, facet, grouped, logs, cursor, loading,
             loadingRef, failed, selected, calls>>
input == <<qInput, timer>>

Queries == [text : Texts, facet : Facets]

NoCursor == [of |-> [text |-> Text0, facet |-> Facet0], pos |-> 0]

Cursors == [of : Queries, pos : 2..LastPage] \cup {NoCursor}

Pages == [q : Queries, of : Queries, pos : 1..LastPage]

Calls == [kind : {"first", "more", "deep"}, page : Pages]

query == [text |-> appliedQ, facet |-> facet]

FirstPage(q) == [q |-> q, of |-> q, pos |-> 1]

(* Types; and the list says that it loads, and holds further loads back,    *)
(* exactly while such a read is under way.                                  *)
LogsTypeOK ==
  /\ qInput \in Texts
  /\ timer \in SUBSET Texts
  /\ appliedQ \in Texts
  /\ facet \in Facets
  /\ grouped \in BOOLEAN
  /\ loading \in BOOLEAN
  /\ loadingRef \in BOOLEAN
  /\ failed \in BOOLEAN
  /\ logs \in Seq(Pages)
  /\ cursor \in Cursors
  /\ selected \in {"none", "row", "linked"}
  /\ calls \in SUBSET Calls
  /\ loading <=> \E c \in calls : c.kind = "first"
  /\ loadingRef <=> \E c \in calls : c.kind = "more"

-----------------------------------------------------------------------------
(* The cleanup of the first-page effect sets `cancelled`: the answer of the *)
(* first page it asked for is dropped when it arrives, so the read is not   *)
(* kept.  Reads of further pages and of a linked log are not cancelled.     *)
CancelFirstMutant(cs) == cs

CancelFirst(cs) == {c \in cs : c.kind # "first"}

(* The effect that runs when a filter or the reload key changed.            *)
FetchFirst(q) ==
  /\ loading' = TRUE
  /\ failed' = FALSE
  /\ selected' = "none"
  /\ calls' = CancelFirst(calls) \cup {[kind |-> "first", page |-> FirstPage(q)]}

(* Mounting the page: the timer of the text it opens with starts, the first *)
(* page is asked for and, for a deep link, the linked log by its id.        *)
LogsMount ==
  /\ qInput = Text0
  /\ timer = {Text0}
  /\ appliedQ = Text0
  /\ facet = Facet0
  /\ grouped = FALSE
  /\ logs = <<>>
  /\ cursor = NoCursor
  /\ loading = TRUE
  /\ loadingRef = FALSE
  /\ failed = FALSE
  /\ selected = "none"
  /\ LET first == FirstPage([text |-> Text0, facet |-> Facet0]) IN
     calls = {[kind |-> "first", page |-> first]} \cup
             (IF DeepLink THEN {[kind |-> "deep", page |-> first]} ELSE {})

-----------------------------------------------------------------------------
(* Every text the box holds starts a 250 ms timer that captured it, and     *)
(* clears the timer of the text before.  Mutant: the timer captured the     *)
(* text of the render before.                                               *)
TypeTextMutant(t) ==
  /\ t # qInput
  /\ qInput' = t
  /\ timer' = {qInput}
  /\ UNCHANGED <<appliedQ, facet, grouped, logs, cursor, loading, loadingRef,
                 failed, selected, calls>>

TypeText(t) ==
  /\ t # qInput
  /\ qInput' = t
  /\ timer' = {t}
  /\ UNCHANGED <<appliedQ, facet, grouped, logs, cursor, loading, loadingRef,
                 failed, selected, calls>>

(* The timer ends: its text is applied, which asks for a first page unless  *)
(* it is the one already applied.                                           *)
ApplyText ==
  /\ timer # {}
  /\ timer' = {}
  /\ \E t \in timer :
       IF t = appliedQ
       THEN UNCHANGED <<appliedQ, loading, failed, selected, calls>>
       ELSE appliedQ' = t /\ FetchFirst([text |-> t, facet |-> facet])
  /\ UNCHANGED <<qInput, facet, grouped, logs, cursor, loadingRef>>

(* The time window, the severity floor and the attribute chips.             *)
SetFacet(f) ==
  /\ f # facet
  /\ facet' = f
  /\ FetchFirst([text |-> appliedQ, facet |-> f])
  /\ UNCHANGED <<input, appliedQ, grouped, logs, cursor, loadingRef>>

(* Refresh counts up reloadKey; the button is disabled while loading.       *)
RefreshLogs ==
  /\ ~loading
  /\ FetchFirst(query)
  /\ UNCHANGED <<input, appliedQ, facet, grouped, logs, cursor,
                 loadingRef>>

(* Grouping swaps the list for the rollup and does not reload the list.     *)
SetGroup ==
  /\ grouped' = ~grouped
  /\ UNCHANGED <<input, appliedQ, facet, logs, cursor, loading,
                 loadingRef, failed, selected, calls>>

(* Where the server says the next page of a chain starts.                   *)
NextCursor(page, c) ==
  \/ c = NoCursor
  \/ page.pos < LastPage /\ c = [of |-> page.of, pos |-> page.pos + 1]

FirstPageArrives ==
  \E c \in calls :
    /\ c.kind = "first"
    /\ logs' = <<c.page>>
    /\ cursor' \in Cursors
    /\ NextCursor(c.page, cursor')
    /\ loading' = FALSE
    /\ calls' = calls \ {c}
    /\ UNCHANGED <<input, appliedQ, facet, grouped, loadingRef,
                   failed, selected>>

FirstPageFailsMutant ==
  \E c \in calls :
    /\ c.kind = "first"
    /\ failed' = TRUE
    /\ calls' = calls \ {c}
    /\ UNCHANGED <<input, appliedQ, facet, grouped, logs, cursor, loading,
                   loadingRef, selected>>

FirstPageFails ==
  \E c \in calls :
    /\ c.kind = "first"
    /\ failed' = TRUE
    /\ loading' = FALSE
    /\ calls' = calls \ {c}
    /\ UNCHANGED <<input, appliedQ, facet, grouped, logs, cursor,
                   loadingRef, selected>>

(* The virtualized list asks for more whenever its last rows are rendered.  *)
(* The page is asked for with the filters of this moment and the cursor of  *)
(* the page that was loaded last, whatever filters that one had.            *)
LoadMore ==
  /\ ~grouped
  /\ logs # <<>>
  /\ cursor # NoCursor
  /\ ~loadingRef
  /\ loadingRef' = TRUE
  /\ calls' = calls \cup {[kind |-> "more",
                           page |-> [q |-> query, of |-> cursor.of,
                                     pos |-> cursor.pos]]}
  /\ UNCHANGED <<input, appliedQ, facet, grouped, logs, cursor,
                 loading, failed, selected>>

MorePageArrivesMutant ==
  \E c \in calls :
    /\ c.kind = "more"
    /\ logs' = Append(logs, c.page)
    /\ loadingRef' = FALSE
    /\ calls' = calls \ {c}
    /\ UNCHANGED <<input, appliedQ, facet, grouped, cursor, loading, failed,
                   selected>>

MorePageArrives ==
  \E c \in calls :
    /\ c.kind = "more"
    /\ logs' = Append(logs, c.page)
    /\ cursor' \in Cursors
    /\ NextCursor(c.page, cursor')
    /\ loadingRef' = FALSE
    /\ calls' = calls \ {c}
    /\ UNCHANGED <<input, appliedQ, facet, grouped, loading, failed,
                   selected>>

MorePageFailsMutant ==
  \E c \in calls :
    /\ c.kind = "more"
    /\ failed' = TRUE
    /\ calls' = calls \ {c}
    /\ UNCHANGED <<input, appliedQ, facet, grouped, logs, cursor, loading,
                   loadingRef, selected>>

MorePageFails ==
  \E c \in calls :
    /\ c.kind = "more"
    /\ failed' = TRUE
    /\ loadingRef' = FALSE
    /\ calls' = calls \ {c}
    /\ UNCHANGED <<input, appliedQ, facet, grouped, logs, cursor,
                   loading, selected>>

(* The linked log: opened when it arrives, ignored when it cannot be read.  *)
LinkedLogAnswered ==
  \E c \in calls :
    /\ c.kind = "deep"
    /\ selected' \in {"linked", selected}
    /\ calls' = calls \ {c}
    /\ UNCHANGED <<input, appliedQ, facet, grouped, logs, cursor,
                   loading, loadingRef, failed>>

(* A click on a row opens it in the drawer, the drawer's button closes it.  *)
ToggleDrawer ==
  /\ \/ (logs # <<>> \/ grouped) /\ selected' = "row"
     \/ selected # "none" /\ selected' = "none"
  /\ UNCHANGED <<input, appliedQ, facet, grouped, logs, cursor,
                 loading, loadingRef, failed, calls>>

LogsNext ==
  \/ \E t \in Texts : TypeText(t)
  \/ ApplyText
  \/ \E f \in Facets : SetFacet(f)
  \/ RefreshLogs
  \/ SetGroup
  \/ FirstPageArrives
  \/ FirstPageFails
  \/ LoadMore
  \/ MorePageArrives
  \/ MorePageFails
  \/ LinkedLogAnswered
  \/ ToggleDrawer

LogsInit == LogsMount

LogsSpec == LogsInit /\ [][LogsNext]_logVars

-----------------------------------------------------------------------------
(* Once the load that the filters on screen caused has ended without an     *)
(* error, the list starts with the first page of exactly these filters,     *)
(* whatever answers of earlier filters arrived in between: the cancelled    *)
(* flag of the first-page effect.                                           *)
FirstPageIsCurrent ==
  ~loading /\ ~failed => logs # <<>> /\ logs[1] = FirstPage(query)

(* No page of a chain is shown twice, although the virtualized list asks    *)
(* for more on every render near its end and reloads and further pages      *)
(* overtake each other: the loadingRef guard.                               *)
NoPageTwice ==
  \A i, j \in 1..Len(logs) : logs[i] = logs[j] => i = j

=============================================================================
