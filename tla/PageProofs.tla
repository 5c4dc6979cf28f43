------------------------------ MODULE PageProofs ------------------------------
(***************************************************************************)
(* Theorems about the log list and the Messages page, for any sets of      *)
(* texts, filters and views and any number of pages.                       *)
(***************************************************************************)
EXTENDS LogsView, MessageSearch, FiniteSetTheorems, TLAPS

-----------------------------------------------------------------------------
(* The log list.                                                           *)

(* One first page, one further page and one linked log are asked for at a   *)
(* time.                                                                    *)
SingleCalls == \A c, d \in calls : c.kind = d.kind => c = d

(* The first page that is still wanted is that of the filters on screen.    *)
FirstIsCurrent ==
  \A c \in calls : c.kind = "first" => c.page = FirstPage(query)

(* The pages of the list ascend: a page that arrives late may belong to     *)
(* another chain, but the list goes on from there.                          *)
Ascending ==
  \A i, j \in 1..Len(logs) : i < j => logs[i].pos < logs[j].pos

(* Whatever can still be appended lies beyond what is listed.               *)
CursorAhead ==
  cursor # NoCursor => \A i \in 1..Len(logs) : logs[i].pos < cursor.pos

MoreAhead ==
  \A c \in calls : c.kind = "more" =>
    /\ c.page.pos > 1
    /\ \A i \in 1..Len(logs) : logs[i].pos < c.page.pos

LogsInv ==
  /\ LogsTypeOK
  /\ SingleCalls
  /\ FirstIsCurrent
  /\ FirstPageIsCurrent
  /\ Ascending
  /\ CursorAhead
  /\ MoreAhead

LEMMA CursorType ==
  ASSUME NEW c \in Cursors, c # NoCursor
  PROVE  c.of \in Queries /\ c.pos \in 2..LastPage
BY DEF Cursors

LEMMA FirstPageType ==
  ASSUME NEW q \in Queries
  PROVE  FirstPage(q) \in Pages /\ FirstPage(q).pos = 1
BY LogsAssumption DEF FirstPage, Pages

LEMMA NoCursorType == NoCursor \in Cursors
BY LogsAssumption DEF Cursors

(* A filter change or a refresh keeps the invariant, whatever query it      *)
(* leads to.                                                                *)
LEMMA FetchFirstKeeps ==
  ASSUME LogsInv, NEW t \in Texts, NEW f \in Facets, qInput' \in Texts,
         timer' \in SUBSET Texts, grouped' \in BOOLEAN, appliedQ' = t, facet' = f,
         FetchFirst([text |-> t, facet |-> f]),
         UNCHANGED <<logs, cursor, loadingRef>>
  PROVE  LogsInv'
<1> DEFINE q == [text |-> t, facet |-> f]
<1> DEFINE new == [kind |-> "first", page |-> FirstPage(q)]
<1>1. q \in Queries /\ query' = q
  BY DEF Queries, query
<1>2. new \in Calls /\ new.kind = "first" /\ new.page = FirstPage(query')
  BY <1>1, FirstPageType DEF Calls
<1>3. calls' = {c \in calls : c.kind # "first"} \cup {new} /\ loading'
  BY DEF FetchFirst, CancelFirst
<1>. HIDE DEF q, new
<1>4. LogsTypeOK'
  <2>1. calls' \in SUBSET Calls
    BY <1>2, <1>3 DEF LogsInv, LogsTypeOK
  <2>2. loading' <=> \E c \in calls' : c.kind = "first"
    BY <1>2, <1>3
  <2>3. loadingRef' <=> \E c \in calls' : c.kind = "more"
    BY <1>2, <1>3 DEF LogsInv, LogsTypeOK
  <2> QED BY <2>1, <2>2, <2>3 DEF LogsInv, LogsTypeOK, FetchFirst
<1>5. SingleCalls'
  BY <1>2, <1>3 DEF LogsInv, SingleCalls
<1>6. FirstIsCurrent'
  BY <1>2, <1>3 DEF FirstIsCurrent
<1>7. FirstPageIsCurrent'
  BY <1>3 DEF FirstPageIsCurrent
<1>8. Ascending' /\ CursorAhead'
  BY DEF LogsInv, Ascending, CursorAhead, NoCursor
<1>9. MoreAhead'
  BY <1>2, <1>3 DEF LogsInv, MoreAhead
<1> QED BY <1>4, <1>5, <1>6, <1>7, <1>8, <1>9 DEF LogsInv

LEMMA FirstPageArrivesKeeps ==
  ASSUME LogsInv, FirstPageArrives
  PROVE  LogsInv'
<1>1. PICK c \in calls :
        /\ c.kind = "first"
        /\ logs' = <<c.page>>
        /\ cursor' \in Cursors
        /\ NextCursor(c.page, cursor')
        /\ loading' = FALSE
        /\ calls' = calls \ {c}
        /\ UNCHANGED <<qInput, timer, appliedQ, facet, grouped, loadingRef, failed,
                       selected>>
  BY DEF FirstPageArrives, input
<1>2. c.page = FirstPage(query) /\ query' = query /\ query \in Queries
  BY <1>1 DEF LogsInv, LogsTypeOK, FirstIsCurrent, query, Queries
<1>3. c.page \in Pages /\ c.page.pos = 1
  BY <1>2, FirstPageType
<1>4. logs' \in Seq(Pages) /\ Len(logs') = 1 /\ logs'[1] = c.page
  BY <1>1, <1>3
<1>5. LogsTypeOK'
  <2>1. ~ \E d \in calls' : d.kind = "first"
    BY <1>1 DEF LogsInv, SingleCalls
  <2>2. loadingRef' <=> \E d \in calls' : d.kind = "more"
    BY <1>1 DEF LogsInv, LogsTypeOK
  <2> QED BY <1>1, <1>4, <2>1, <2>2 DEF LogsInv, LogsTypeOK
<1>6. SingleCalls' /\ FirstIsCurrent'
  BY <1>1, <1>2 DEF LogsInv, SingleCalls, FirstIsCurrent
<1>7. FirstPageIsCurrent'
  BY <1>2, <1>4 DEF FirstPageIsCurrent, FirstPage
<1>8. Ascending'
  BY <1>4 DEF Ascending
<1>9. CursorAhead'
  <2>1. cursor' # NoCursor => cursor'.pos \in 2..LastPage
    BY <1>1, CursorType
  <2> QED BY <1>3, <1>4, <2>1, LogsAssumption DEF CursorAhead, NoCursor
<1>10. MoreAhead'
  BY <1>1, <1>3, <1>4 DEF LogsInv, MoreAhead
<1> QED BY <1>5, <1>6, <1>7, <1>8, <1>9, <1>10 DEF LogsInv

LEMMA LoadMoreKeeps ==
  ASSUME LogsInv, LoadMore
  PROVE  LogsInv'
<1> DEFINE new == [kind |-> "more", page |-> [q |-> query, of |-> cursor.of,
                                              pos |-> cursor.pos]]
<1>1. query \in Queries /\ query' = query
  BY DEF LogsInv, LogsTypeOK, LoadMore, input, query, Queries
<1>2. cursor.of \in Queries /\ cursor.pos \in 2..LastPage /\ cursor # NoCursor
  BY CursorType DEF LogsInv, LogsTypeOK, LoadMore
<1>3. /\ new \in Calls /\ new.kind = "more" /\ new.page.pos = cursor.pos
      /\ calls' = calls \cup {new}
  BY <1>1, <1>2, LogsAssumption DEF Calls, Pages, LoadMore
<1>. HIDE DEF new
<1>4. \A c \in calls : c.kind # "more"
  BY DEF LogsInv, LogsTypeOK, LoadMore
<1>5. LogsTypeOK'
  <2>1. loading' <=> \E c \in calls' : c.kind = "first"
    BY <1>3 DEF LogsInv, LogsTypeOK, LoadMore
  <2> QED BY <1>3, <2>1 DEF LogsInv, LogsTypeOK, LoadMore, input
<1>6. SingleCalls' /\ FirstIsCurrent'
  BY <1>1, <1>3, <1>4 DEF LogsInv, SingleCalls, FirstIsCurrent
<1>7. FirstPageIsCurrent' /\ Ascending' /\ CursorAhead'
  BY <1>1 DEF LogsInv, LoadMore, FirstPageIsCurrent, Ascending, CursorAhead,
              NoCursor
<1>8. MoreAhead'
  BY <1>2, <1>3 DEF LogsInv, LoadMore, MoreAhead, CursorAhead
<1> QED BY <1>5, <1>6, <1>7, <1>8 DEF LogsInv

LEMMA MorePageArrivesKeeps ==
  ASSUME LogsInv, MorePageArrives
  PROVE  LogsInv'
<1>1. PICK c \in calls :
        /\ c.kind = "more"
        /\ logs' = Append(logs, c.page)
        /\ cursor' \in Cursors
        /\ NextCursor(c.page, cursor')
        /\ loadingRef' = FALSE
        /\ calls' = calls \ {c}
        /\ UNCHANGED <<qInput, timer, appliedQ, facet, grouped, loading, failed,
                       selected>>
  BY DEF MorePageArrives, input
<1>2. /\ c.page \in Pages /\ c.page.pos \in 1..LastPage
      /\ \A i \in 1..Len(logs) : logs[i].pos < c.page.pos
  BY <1>1 DEF LogsInv, LogsTypeOK, MoreAhead, Calls, Pages
<1>3. /\ logs \in Seq(Pages) /\ logs' \in Seq(Pages)
      /\ Len(logs') = Len(logs) + 1
      /\ logs'[Len(logs) + 1] = c.page
      /\ \A i \in 1..Len(logs) : logs'[i] = logs[i]
  BY <1>1, <1>2 DEF LogsInv, LogsTypeOK
<1>4. \A d \in calls' : d.kind # "more"
  BY <1>1 DEF LogsInv, SingleCalls
<1>5. query' = query
  BY <1>1 DEF query
<1>6. LogsTypeOK'
  <2>1. loading' <=> \E d \in calls' : d.kind = "first"
    BY <1>1 DEF LogsInv, LogsTypeOK
  <2> QED BY <1>1, <1>3, <1>4, <2>1 DEF LogsInv, LogsTypeOK
<1>7. SingleCalls' /\ FirstIsCurrent' /\ MoreAhead'
  BY <1>1, <1>4, <1>5 DEF LogsInv, SingleCalls, FirstIsCurrent, MoreAhead
<1>8. FirstPageIsCurrent'
  <2>1. logs # <<>> => logs' # <<>> /\ logs'[1] = logs[1]
    BY <1>3
  <2> QED BY <1>1, <1>5, <2>1 DEF LogsInv, FirstPageIsCurrent
<1>9. Ascending'
  BY <1>2, <1>3 DEF LogsInv, Ascending
<1>10. CursorAhead'
  <2>1. cursor' # NoCursor => cursor'.pos = c.page.pos + 1
    BY <1>1 DEF NextCursor
  <2>2. \A i \in 1..Len(logs) : logs[i].pos \in Nat
    <3>1. \A i \in 1..Len(logs) : logs[i] \in Pages
      BY <1>3
    <3> QED BY <3>1, LogsAssumption DEF Pages
  <2> QED BY <1>2, <1>3, <2>1, <2>2, LogsAssumption DEF CursorAhead, NoCursor
<1> QED BY <1>6, <1>7, <1>8, <1>9, <1>10 DEF LogsInv

(* A read that fails leaves the list; the linked log only opens a drawer.   *)
LEMMA OtherAnswersKeep ==
  ASSUME LogsInv, FirstPageFails \/ MorePageFails \/ LinkedLogAnswered
  PROVE  LogsInv'
<1>1. PICK c \in calls :
        /\ calls' = calls \ {c}
        /\ c.kind = "first" => loading' = FALSE /\ failed' /\ UNCHANGED loadingRef
        /\ c.kind = "more" => loadingRef' = FALSE /\ failed' /\ UNCHANGED loading
        /\ c.kind = "deep" => UNCHANGED <<loading, loadingRef, failed>>
        /\ c.kind \in {"first", "more", "deep"}
        /\ failed' \in BOOLEAN /\ selected' \in {"none", "row", "linked"}
        /\ UNCHANGED <<qInput, timer, appliedQ, facet, grouped, logs, cursor>>
  <2>1. CASE FirstPageFails
    BY <2>1 DEF FirstPageFails, input, LogsInv, LogsTypeOK
  <2>2. CASE MorePageFails
    BY <2>2 DEF MorePageFails, input, LogsInv, LogsTypeOK
  <2>3. CASE LinkedLogAnswered
    BY <2>3 DEF LinkedLogAnswered, input, LogsInv, LogsTypeOK
  <2> QED BY <2>1, <2>2, <2>3
<1>2. query' = query
  BY <1>1 DEF query
<1>3. LogsTypeOK'
  <2>1. loading' <=> \E d \in calls' : d.kind = "first"
    BY <1>1 DEF LogsInv, LogsTypeOK, SingleCalls
  <2>2. loadingRef' <=> \E d \in calls' : d.kind = "more"
    BY <1>1 DEF LogsInv, LogsTypeOK, SingleCalls
  <2> QED BY <1>1, <2>1, <2>2 DEF LogsInv, LogsTypeOK
<1>4. SingleCalls' /\ FirstIsCurrent' /\ Ascending' /\ CursorAhead' /\ MoreAhead'
  BY <1>1, <1>2 DEF LogsInv, SingleCalls, FirstIsCurrent, Ascending, CursorAhead,
                    MoreAhead, NoCursor
<1>5. FirstPageIsCurrent'
  BY <1>1, <1>2 DEF LogsInv, FirstPageIsCurrent
<1> QED BY <1>3, <1>4, <1>5 DEF LogsInv

(* Typing, grouping and the drawer touch neither filters nor pages.         *)
LEMMA OtherStepsKeep ==
  ASSUME LogsInv, qInput' \in Texts, timer' \in SUBSET Texts,
         grouped' \in BOOLEAN, selected' \in {"none", "row", "linked"},
         UNCHANGED <<appliedQ, facet, logs, cursor, loading, loadingRef, failed,
                     calls>>
  PROVE  LogsInv'
BY DEF LogsInv, LogsTypeOK, SingleCalls, FirstIsCurrent, FirstPageIsCurrent,
       Ascending, CursorAhead, MoreAhead, query, NoCursor, FirstPage

LEMMA LogsInitInv == LogsInit => LogsInv
<1> SUFFICES ASSUME LogsInit PROVE LogsInv
  OBVIOUS
<1> DEFINE first == FirstPage([text |-> Text0, facet |-> Facet0])
<1>1. /\ [kind |-> "first", page |-> first] \in Calls
      /\ [kind |-> "deep", page |-> first] \in Calls
      /\ first = FirstPage(query)
  BY LogsAssumption, FirstPageType
  DEF Calls, Queries, LogsInit, LogsMount, query, FirstPage
<1>2. calls \subseteq {[kind |-> "first", page |-> first],
                       [kind |-> "deep", page |-> first]}
  BY DEF LogsInit, LogsMount
<1>3. [kind |-> "first", page |-> first] \in calls
  BY DEF LogsInit, LogsMount
<1>. HIDE DEF first
<1>4. /\ \A c \in calls : c.page = first /\ c.kind \in {"first", "deep"}
      /\ \A c, d \in calls : c.kind = d.kind => c = d
      /\ \E c \in calls : c.kind = "first"
  BY <1>2, <1>3
<1>5. logs = <<>> /\ logs \in Seq(Pages) /\ Len(logs) = 0
  BY DEF LogsInit, LogsMount
<1>6. LogsTypeOK
  BY <1>1, <1>2, <1>4, <1>5, NoCursorType, LogsAssumption
  DEF LogsTypeOK, LogsInit, LogsMount
<1> QED
  BY <1>1, <1>4, <1>5, <1>6
  DEF LogsInv, SingleCalls, FirstIsCurrent, FirstPageIsCurrent, Ascending,
      CursorAhead, MoreAhead, LogsInit, LogsMount

LEMMA LogsStepInv == LogsInv /\ [LogsNext]_logVars => LogsInv'
<1> SUFFICES ASSUME LogsInv, [LogsNext]_logVars PROVE LogsInv'
  OBVIOUS
<1>0. LogsTypeOK
  BY DEF LogsInv
<1>1. CASE \E t \in Texts : TypeText(t)
  BY <1>0, <1>1, OtherStepsKeep DEF TypeText, LogsTypeOK
<1>2. CASE ApplyText
  <2>1. PICK t \in timer :
          /\ timer' = {} /\ UNCHANGED <<qInput, facet, grouped, logs, cursor, loadingRef>>
          /\ IF t = appliedQ
             THEN UNCHANGED <<appliedQ, loading, failed, selected, calls>>
             ELSE appliedQ' = t /\ FetchFirst([text |-> t, facet |-> facet])
    BY <1>2 DEF ApplyText
  <2>2. t \in Texts /\ timer' \in SUBSET Texts
    BY <1>0, <2>1 DEF LogsTypeOK
  <2>3. CASE t = appliedQ
    BY <1>0, <2>1, <2>2, <2>3, OtherStepsKeep DEF LogsTypeOK
  <2>4. CASE t # appliedQ
    BY <1>0, <2>1, <2>2, <2>4, FetchFirstKeeps DEF LogsTypeOK
  <2> QED BY <2>3, <2>4
<1>3. CASE \E f \in Facets : SetFacet(f)
  BY <1>0, <1>3, FetchFirstKeeps DEF SetFacet, LogsTypeOK, input
<1>4. CASE RefreshLogs
  BY <1>0, <1>4, FetchFirstKeeps DEF RefreshLogs, LogsTypeOK, query, input
<1>5. CASE SetGroup
  BY <1>0, <1>5, OtherStepsKeep DEF SetGroup, LogsTypeOK, input
<1>6. CASE FirstPageArrives
  BY <1>6, FirstPageArrivesKeeps
<1>7. CASE FirstPageFails \/ MorePageFails \/ LinkedLogAnswered
  BY <1>7, OtherAnswersKeep
<1>8. CASE LoadMore
  BY <1>8, LoadMoreKeeps
<1>9. CASE MorePageArrives
  BY <1>9, MorePageArrivesKeeps
<1>10. CASE ToggleDrawer
  BY <1>0, <1>10, OtherStepsKeep DEF ToggleDrawer, LogsTypeOK, input
<1>11. CASE UNCHANGED logVars
  BY <1>0, <1>11, OtherStepsKeep DEF logVars, LogsTypeOK
<1> QED
  BY <1>1, <1>2, <1>3, <1>4, <1>5, <1>6, <1>7, <1>8, <1>9, <1>10, <1>11
  DEF LogsNext

LEMMA LogsInvariant == LogsSpec => []LogsInv
<1> QED BY LogsInitInv, LogsStepInv, PTL DEF LogsSpec

(* The log list says that it loads exactly while a read of that kind is    *)
(* under way, for every set of filters and every number of pages.          *)
THEOREM LogsTypeCorrect == LogsSpec => []LogsTypeOK
<1>1. LogsInv => LogsTypeOK
  BY DEF LogsInv
<1> QED BY <1>1, LogsInvariant, PTL

(* Whatever the order in which the answers of superseded filters arrive,   *)
(* a log list that has loaded starts with the first page of the filters on *)
(* screen.                                                                 *)
THEOREM LogsFirstPageIsCurrent == LogsSpec => []FirstPageIsCurrent
<1>1. LogsInv => FirstPageIsCurrent
  BY DEF LogsInv
<1> QED BY <1>1, LogsInvariant, PTL

(* No page of a chain is listed twice, however often the list is reloaded  *)
(* while a further page is under way.                                      *)
THEOREM LogsNoPageTwice == LogsSpec => []NoPageTwice
<1>1. LogsInv => NoPageTwice
  <2> SUFFICES ASSUME LogsInv, NEW i \in 1..Len(logs), NEW j \in 1..Len(logs),
                      logs[i] = logs[j]
               PROVE  i = j
    BY DEF NoPageTwice
  <2>1. logs[i] \in Pages
    BY DEF LogsInv, LogsTypeOK
  <2>2. logs[i].pos \in Nat
    BY <2>1, LogsAssumption DEF Pages
  <2>3. Len(logs) \in Nat
    BY DEF LogsInv, LogsTypeOK
  <2> QED BY <2>2, <2>3 DEF LogsInv, Ascending
<1> QED BY <1>1, LogsInvariant, PTL

-----------------------------------------------------------------------------
(* The Messages page.                                                      *)

(* A change in flight carries a rail without repetitions that has the view *)
(* it is about.                                                            *)
ChangesInv ==
  \A c \in changes :
    /\ Distinct(c.rail)
    /\ c.op \in {"create", "update", "delete"} => InRail(c.rail, c.id)

SearchInv ==
  /\ SearchTypeOK
  /\ RailNeverEmpty
  /\ ChangesInv

(* What the operations on rails return.                                    *)
LEMMA ViewOfType ==
  ASSUME NEW rail \in Seq(Views), NEW id, InRail(rail, id)
  PROVE  ViewOf(rail, id) \in Views /\ id \in Ids
<1>1. PICK i \in 1..Len(rail) : rail[i].id = id
  BY DEF InRail
<1>2. \A j \in 1..Len(rail) : rail[j] \in Views
  OBVIOUS
<1>3. id \in Ids
  BY <1>1, <1>2 DEF Views
<1> QED BY <1>1, <1>2, <1>3 DEF ViewOf

LEMMA AppendRail ==
  ASSUME NEW rail \in Seq(Views), Distinct(rail), NEW v \in Views,
         ~InRail(rail, v.id)
  PROVE  /\ Append(rail, v) \in Seq(Views)
         /\ Distinct(Append(rail, v))
         /\ Append(rail, v) # <<>>
<1> DEFINE r == Append(rail, v)
<1>1. /\ r \in Seq(Views) /\ Len(r) = Len(rail) + 1 /\ Len(rail) \in Nat
      /\ r[Len(rail) + 1] = v
      /\ \A i \in 1..Len(rail) : r[i] = rail[i]
  OBVIOUS
<1>. HIDE DEF r
<1>2. Distinct(r)
  <2> SUFFICES ASSUME NEW i \in 1..Len(r), NEW j \in 1..Len(r), r[i].id = r[j].id
               PROVE  i = j
    BY DEF Distinct
  <2>1. i \in 1..Len(rail) \/ i = Len(rail) + 1
    BY <1>1
  <2>2. j \in 1..Len(rail) \/ j = Len(rail) + 1
    BY <1>1
  <2> QED BY <1>1, <2>1, <2>2 DEF Distinct, InRail
<1>3. r # <<>>
  BY <1>1
<1> QED BY <1>1, <1>2, <1>3 DEF r

LEMMA BlankViewType ==
  ASSUME NEW d \in Ids
  PROVE  BlankView(d) \in Views /\ BlankView(d).id = d
BY SearchAssumption DEF BlankView, Views

LEMMA ReplaceRail ==
  ASSUME NEW rail \in Seq(Views), Distinct(rail), NEW id, InRail(rail, id),
         NEW v \in Views, v.id = id \/ ~InRail(rail, v.id)
  PROVE  /\ Replace(rail, id, v) \in Seq(Views)
         /\ Distinct(Replace(rail, id, v))
         /\ Replace(rail, id, v) # <<>>
<1> DEFINE r == Replace(rail, id, v)
<1>1. Len(rail) \in Nat /\ \A i \in 1..Len(rail) : rail[i] \in Views
  OBVIOUS
<1>2. r \in [1..Len(rail) -> Views]
  BY <1>1 DEF Replace
<1>3. r \in Seq(Views) /\ Len(r) = Len(rail)
  BY <1>1, <1>2
<1>4. Len(rail) # 0
  BY <1>1 DEF InRail
<1>5. Distinct(r)
  BY <1>3 DEF Distinct, Replace, InRail
<1> QED BY <1>3, <1>4, <1>5

LEMMA WithoutRail ==
  ASSUME NEW rail \in Seq(Views), Distinct(rail), NEW id, InRail(rail, id)
  PROVE  /\ Without(rail, id) \in Seq(Views)
         /\ Distinct(Without(rail, id))
<1> DEFINE k == CHOOSE i \in 1..Len(rail) : rail[i].id = id
<1> DEFINE r == [i \in 1..(Len(rail) - 1) |->
                   IF i < k THEN rail[i] ELSE rail[i + 1]]
<1>1. Len(rail) \in Nat /\ \A i \in 1..Len(rail) : rail[i] \in Views
  OBVIOUS
<1>2. k \in 1..Len(rail)
  BY DEF InRail
<1>. HIDE DEF k
<1>3. Len(rail) - 1 \in Nat
  BY <1>1, <1>2
<1>4. r \in [1..(Len(rail) - 1) -> Views]
  BY <1>1, <1>2
<1>5. r \in Seq(Views) /\ Len(r) = Len(rail) - 1
  BY <1>3, <1>4
<1>6. Distinct(r)
  BY <1>1, <1>2, <1>5 DEF Distinct
<1>7. Without(rail, id) = r
  BY DEF Without, k
<1> QED BY <1>5, <1>6, <1>7

(* The saved views as the server lists them: an id once, and no draft.     *)
LEMMA ListingRail ==
  ASSUME views \in Seq(Views), Distinct(views), NEW s \in Listings
  PROVE  /\ s \in Seq(Views)
         /\ Distinct(s)
         /\ \A d \in DraftIds : ~InRail(s, d)
<1> DEFINE Saved == [id : SavedIds, filters : {SavedFilter}]
<1> DEFINE new == {j \in 1..Len(views) : views[j].id \in NewIds}
<1> DEFINE Created == {views[i] : i \in new}
<1>1. IsFiniteSet(Saved)
  <2> DEFINE f == [i \in SavedIds |-> [id |-> i, filters |-> SavedFilter]]
  <2>1. f \in Surjection(SavedIds, Saved)
    BY DEF Surjection
  <2> QED BY <2>1, FS_Surjection, SearchAssumption
<1>2. IsFiniteSet(Created)
  <2> DEFINE g == [i \in new |-> views[i]]
  <2>1. g \in Surjection(new, Created)
    BY DEF Surjection
  <2>2. Len(views) \in Int
    OBVIOUS
  <2>3. IsFiniteSet(1..Len(views))
    BY <2>2, FS_Interval
  <2>4. IsFiniteSet(new)
    BY <2>3, FS_Subset
  <2> QED BY <2>1, <2>4, FS_Surjection
<1>3. Listed = Saved \cup Created
  BY DEF Listed
<1>4. IsFiniteSet(Listed)
  BY <1>1, <1>2, <1>3, FS_Union
<1>5. /\ \A v \in Saved : v \in Views /\ v.id \in SavedIds
      /\ \A v, w \in Saved : v.id = w.id => v = w
  BY SearchAssumption DEF Views, Ids
<1>6. \A v \in Created : v \in Views /\ v.id \in NewIds
  OBVIOUS
<1>7. \A v, w \in Created : v.id = w.id => v = w
  BY DEF Distinct
<1>. HIDE DEF Saved, Created
<1>8. /\ \A v \in Listed : v \in Views /\ v.id \notin DraftIds
      /\ \A v, w \in Listed : v.id = w.id => v = w
  BY <1>3, <1>5, <1>6, <1>7, SearchAssumption
<1>9. PICK set \in SUBSET Listed :
        /\ s \in [1..Cardinality(set) -> set]
        /\ \A i, j \in 1..Cardinality(set) : s[i] = s[j] => i = j
  BY DEF Listings
<1>10. Cardinality(set) \in Nat
  BY <1>4, FS_Subset, FS_CardinalityType
<1>11. s \in Seq(Views) /\ Len(s) = Cardinality(set)
  BY <1>8, <1>9, <1>10
<1> QED BY <1>8, <1>9, <1>11 DEF Distinct, InRail

(* The editor is given filters, and the timer captures them.               *)
LEMMA SetDraftType ==
  ASSUME NEW f \in Filters, SetDraft(f)
  PROVE  draft' \in Filters /\ search' \in [filters : Filters, sent : BOOLEAN]
BY DEF SetDraft

(* What an action may leave in the editor and the rail.                    *)
Shown ==
  /\ views' \in Seq(Views) /\ Distinct(views')
  /\ activeId' \in Ids \cup {NoId}
  /\ draft' \in Filters /\ search' \in [filters : Filters, sent : BOOLEAN]

(* Deleting from a rail leaves one that is in order and not empty.         *)
LEMMA DropFromRailKeeps ==
  ASSUME SearchTypeOK, NEW rail \in Seq(Views), Distinct(rail), NEW id,
         InRail(rail, id), NEW active, DropFromRail(rail, active, id)
  PROVE  Shown /\ views' # <<>>
<1> DEFINE r == Without(rail, id)
<1>1. r \in Seq(Views) /\ Distinct(r)
  BY WithoutRail
<1>. HIDE DEF r
<1>2. CASE r = <<>>
  <2>1. PICK d \in UnusedDraft : views' = <<BlankView(d)>> /\ activeId' = d
    BY <1>2 DEF DropFromRail, r
  <2>2. SetDraft(NoFilters)
    BY <1>2 DEF DropFromRail, r
  <2>3. d \in Ids
    BY DEF UnusedDraft, Fresh, Ids
  <2> QED BY <2>1, <2>2, <2>3, BlankViewType, SetDraftType, SearchAssumption
          DEF Distinct, Shown
<1>3. CASE r # <<>>
  <2>1. /\ views' = r
        /\ \/ activeId' = r[1].id /\ SetDraft(r[1].filters)
           \/ UNCHANGED <<activeId, draft, search>>
    BY <1>3 DEF DropFromRail, r, editor
  <2>2. r[1] \in Views
    BY <1>1, <1>3
  <2>3. r[1].id \in Ids /\ r[1].filters \in Filters
    BY <2>2 DEF Views
  <2> QED BY <1>1, <1>3, <2>1, <2>3, SetDraftType DEF SearchTypeOK, Shown
<1> QED BY <1>2, <1>3

LEMMA SeedKeeps ==
  ASSUME SearchInv, SeedArrives \/ SeedFails
  PROVE  SearchInv'
<1>0. /\ views \in Seq(Views) /\ Distinct(views)
      /\ activeId \in Ids \cup {NoId} /\ draft \in Filters
      /\ search \in [filters : Filters, sent : BOOLEAN]
      /\ \A d \in UnusedDraft : d \in DraftIds /\ d \in Ids
  BY DEF SearchInv, SearchTypeOK, Ids, UnusedDraft, Fresh
<1>1. Shown /\ views' # <<>>
  <2>1. CASE SeedFails
    <3>1. PICK d \in UnusedDraft : views' = <<BlankView(d)>> /\ activeId' = d
      BY <2>1 DEF SeedFails
    <3>2. SetDraft(NoFilters)
      BY <2>1 DEF SeedFails
    <3> QED BY <1>0, <3>1, <3>2, BlankViewType, SetDraftType, SearchAssumption
            DEF Distinct, Shown
  <2>2. CASE SeedArrives
    <3>1. PICK mapped \in Listings : SeedBesideEdits(mapped) \/ SeedFromLink(mapped)
      BY <2>2 DEF SeedArrives
    <3>2. /\ mapped \in Seq(Views) /\ Distinct(mapped)
          /\ \A d \in DraftIds : ~InRail(mapped, d)
      BY <1>0, ListingRail
    <3>3. \A d \in UnusedDraft :
            /\ Append(mapped, BlankView(d)) \in Seq(Views)
            /\ Distinct(Append(mapped, BlankView(d)))
            /\ Append(mapped, BlankView(d)) # <<>>
      BY <1>0, <3>2, BlankViewType, AppendRail
    <3>4. CASE SeedBesideEdits(mapped)
      <4>1. PICK d \in UnusedDraft :
              /\ views' = Append(mapped, BlankView(d))
              /\ activeId' = IF activeId = NoId THEN d ELSE activeId
        BY <3>4 DEF SeedBesideEdits
      <4>2. UNCHANGED <<draft, search>>
        BY <3>4 DEF SeedBesideEdits, editor
      <4> QED BY <1>0, <3>3, <4>1, <4>2 DEF Shown
    <3>5. CASE SeedFromLink(mapped)
      <4>1. CASE InRail(mapped, LinkView)
        <5>1. ViewOf(mapped, LinkView) \in Views /\ LinkView \in Ids
          BY <3>2, <4>1, ViewOfType
        <5>2. mapped # <<>> /\ ViewOf(mapped, LinkView).filters \in Filters
          BY <4>1, <5>1 DEF InRail, Views
        <5>3. /\ views' = mapped /\ activeId' = LinkView
              /\ SetDraft(ViewOf(mapped, LinkView).filters)
          BY <3>5, <4>1 DEF SeedFromLink
        <5> QED BY <3>2, <5>1, <5>2, <5>3, SetDraftType DEF Shown
      <4>2. CASE /\ ~InRail(mapped, LinkView)
                 /\ LinkFilters # NoFilters \/ mapped = <<>>
        <5>1. PICK d \in UnusedDraft :
                views' = Append(mapped, BlankView(d)) /\ activeId' = d
          BY <3>5, <4>2 DEF SeedFromLink
        <5>2. SetDraft(LinkFilters)
          BY <3>5, <4>2 DEF SeedFromLink
        <5> QED BY <1>0, <3>3, <5>1, <5>2, SetDraftType, SearchAssumption DEF Shown
      <4>3. CASE /\ ~InRail(mapped, LinkView)
                 /\ ~(LinkFilters # NoFilters \/ mapped = <<>>)
        <5>1. /\ views' = mapped /\ activeId' = mapped[1].id
              /\ SetDraft(mapped[1].filters)
          BY <3>5, <4>3 DEF SeedFromLink
        <5>2. mapped[1] \in Views
          BY <3>2, <4>3
        <5>3. mapped[1].id \in Ids /\ mapped[1].filters \in Filters
          BY <5>2 DEF Views
        <5> QED BY <3>2, <4>3, <5>1, <5>3, SetDraftType DEF Shown
      <4> QED BY <4>1, <4>2, <4>3
    <3> QED BY <3>1, <3>4, <3>5
  <2> QED BY <2>1, <2>2
<1>2. seeding' = FALSE /\ edited' = FALSE /\ UNCHANGED <<saving, changes>>
  BY DEF SeedArrives, SeedFails
<1> QED
  BY <1>1, <1>2
  DEF SearchInv, SearchTypeOK, RailNeverEmpty, ChangesInv, Shown

(* Editing, selecting, drafting, resetting and searching.                  *)
LEMMA EditorKeeps ==
  ASSUME SearchInv, Shown, views # <<>> => views' # <<>>, edited' \in BOOLEAN,
         UNCHANGED <<seeding, saving, changes>>
  PROVE  SearchInv'
BY DEF SearchInv, SearchTypeOK, RailNeverEmpty, ChangesInv, Shown

(* Sending a change.                                                       *)
LEMMA SendKeeps ==
  ASSUME SearchInv, NEW op \in {"create", "createNew", "update", "rename", "delete"},
         NEW id \in Ids \cup {NoId}, NEW f \in Filters, NEW rail \in Seq(Views),
         NEW active \in Ids \cup {NoId}, Distinct(rail),
         op \in {"create", "update", "delete"} => InRail(rail, id),
         Send(op, id, f, rail, active), saving' \in BOOLEAN,
         UNCHANGED <<views, activeId, editor, edited, seeding>>
  PROVE  SearchInv'
<1>1. PICK k \in 1..MaxCalls :
        changes' = changes \cup {[call |-> k, op |-> op, id |-> id, filters |-> f,
                                  rail |-> rail, active |-> active]}
  BY DEF Send
<1> DEFINE c == [call |-> k, op |-> op, id |-> id, filters |-> f, rail |-> rail,
                 active |-> active]
<1>2. c \in Changes /\ c.op = op /\ c.id = id /\ c.rail = rail
  BY DEF Changes
<1>3. changes' = changes \cup {c}
  BY <1>1
<1>. HIDE DEF c
<1>4. SearchTypeOK'
  BY <1>2, <1>3 DEF SearchInv, SearchTypeOK, editor
<1>5. ChangesInv'
  BY <1>2, <1>3 DEF SearchInv, ChangesInv
<1> QED BY <1>4, <1>5 DEF SearchInv, RailNeverEmpty

(* A change ends: what it makes of the rail is in order and not empty.     *)
LEMMA ChangeEndKeeps ==
  ASSUME SearchInv, NEW c \in changes, changes' = changes \ {c}, Shown,
         views # <<>> => views' # <<>>, saving' \in BOOLEAN,
         UNCHANGED <<edited, seeding>>
  PROVE  SearchInv'
BY DEF SearchInv, SearchTypeOK, RailNeverEmpty, ChangesInv, Shown

LEMMA DeleteDraftKeeps ==
  ASSUME SearchInv, NEW id \in Ids, DeleteDraft(id)
  PROVE  SearchInv'
<1>1. Shown /\ views' # <<>>
  BY DropFromRailKeeps DEF DeleteDraft, SearchInv, SearchTypeOK
<1>2. edited' \in BOOLEAN
  BY DEF DeleteDraft, SearchInv, SearchTypeOK
<1> QED BY <1>1, <1>2, EditorKeeps DEF DeleteDraft

LEMMA DeleteDoneKeeps ==
  ASSUME SearchInv, NEW c \in changes, DeleteDone(c)
  PROVE  SearchInv'
<1>1. c.rail \in Seq(Views) /\ Distinct(c.rail) /\ InRail(c.rail, c.id)
  BY DEF SearchInv, SearchTypeOK, ChangesInv, Changes, DeleteDone
<1>2. Shown /\ views' # <<>>
  BY <1>1, DropFromRailKeeps DEF DeleteDone, SearchInv
<1>3. saving' \in BOOLEAN
  BY DEF DeleteDone, SearchInv, SearchTypeOK
<1> QED BY <1>2, <1>3, ChangeEndKeeps DEF DeleteDone

LEMMA CreateDoneKeeps ==
  ASSUME SearchInv, NEW c \in changes, CreateDone(c)
  PROVE  SearchInv'
<1>0. SearchTypeOK /\ ChangesInv
  BY DEF SearchInv
<1>1. PICK id \in Fresh(NewIds) :
        /\ views' = IF c.op = "create"
                    THEN Replace(c.rail, c.id, [id |-> id, filters |-> c.filters])
                    ELSE Append(c.rail, [id |-> id, filters |-> c.filters])
        /\ activeId' = id
  BY DEF CreateDone
<1> DEFINE v == [id |-> id, filters |-> c.filters]
<1>2. id \in Ids /\ ~InRail(c.rail, id)
  BY DEF Fresh, Ids
<1>3. /\ c.rail \in Seq(Views) /\ Distinct(c.rail) /\ c.filters \in Filters
      /\ c.op = "create" => InRail(c.rail, c.id)
  BY <1>0 DEF SearchTypeOK, ChangesInv, Changes
<1>4. v \in Views /\ v.id = id
  BY <1>2, <1>3 DEF Views
<1>5. views' = IF c.op = "create" THEN Replace(c.rail, c.id, v)
                                  ELSE Append(c.rail, v)
  BY <1>1
<1>. HIDE DEF v
<1>6. views' \in Seq(Views) /\ Distinct(views') /\ views' # <<>>
  BY <1>2, <1>3, <1>4, <1>5, ReplaceRail, AppendRail
<1>7. Shown /\ saving' \in BOOLEAN
  BY <1>0, <1>1, <1>2, <1>6 DEF CreateDone, editor, SearchTypeOK, Shown
<1> QED BY <1>6, <1>7, ChangeEndKeeps DEF CreateDone

LEMMA UpdateDoneKeeps ==
  ASSUME SearchInv, NEW c \in changes, UpdateDone(c)
  PROVE  SearchInv'
<1>0. SearchTypeOK /\ ChangesInv
  BY DEF SearchInv
<1> DEFINE v == [id |-> c.id, filters |-> c.filters]
<1>1. /\ c.rail \in Seq(Views) /\ Distinct(c.rail) /\ c.filters \in Filters
      /\ InRail(c.rail, c.id)
  BY <1>0 DEF SearchTypeOK, ChangesInv, Changes, UpdateDone
<1>2. c.id \in Ids
  BY <1>1, ViewOfType
<1>3. v \in Views /\ v.id = c.id /\ views' = Replace(c.rail, c.id, v)
  BY <1>1, <1>2 DEF Views, UpdateDone
<1>. HIDE DEF v
<1>4. views' \in Seq(Views) /\ Distinct(views') /\ views' # <<>>
  BY <1>1, <1>3, ReplaceRail
<1>5. Shown /\ saving' \in BOOLEAN
  BY <1>0, <1>4 DEF UpdateDone, editor, SearchTypeOK, Shown
<1> QED BY <1>4, <1>5, ChangeEndKeeps DEF UpdateDone

(* A renaming, or a change that failed, leaves the rail as it is.          *)
LEMMA OtherEndsKeep ==
  ASSUME SearchInv, NEW c \in changes, RenameDone(c) \/ ChangeFails(c)
  PROVE  SearchInv'
<1>1. Shown /\ views' = views /\ saving' \in BOOLEAN /\ changes' = changes \ {c}
      /\ UNCHANGED <<edited, seeding>>
  BY DEF RenameDone, ChangeFails, editor, SearchInv, SearchTypeOK, Shown
<1> QED BY <1>1, ChangeEndKeeps

LEMMA SearchInitInv == SearchInit => SearchInv
<1> SUFFICES ASSUME SearchInit PROVE SearchInv
  OBVIOUS
<1>1. views = <<>> /\ views \in Seq(Views) /\ Distinct(views)
  BY DEF SearchInit, Distinct
<1> QED
  BY <1>1, SearchAssumption
  DEF SearchInit, SearchInv, SearchTypeOK, ChangesInv, RailNeverEmpty

LEMMA SearchStepInv == SearchInv /\ [SearchNext]_searchVars => SearchInv'
<1> SUFFICES ASSUME SearchInv, [SearchNext]_searchVars PROVE SearchInv'
  OBVIOUS
<1>0. /\ views \in Seq(Views) /\ Distinct(views) /\ draft \in Filters
      /\ activeId \in Ids \cup {NoId} /\ edited \in BOOLEAN
      /\ seeding \in BOOLEAN /\ saving \in BOOLEAN
      /\ search \in [filters : Filters, sent : BOOLEAN]
  BY DEF SearchInv, SearchTypeOK
<1>1. HasActive => /\ InRail(views, activeId)
                   /\ ViewOf(views, activeId).filters \in Filters
  BY <1>0, ViewOfType DEF HasActive, Views
<1>2. CASE SeedArrives \/ SeedFails
  BY <1>2, SeedKeeps
<1>3. CASE \E f \in Filters : EditFilters(f)
  <2>1. Shown
    BY <1>0, <1>3, SetDraftType DEF EditFilters, Shown
  <2> QED BY <1>0, <1>3, <2>1, EditorKeeps DEF EditFilters
<1>4. CASE \E id \in Ids : SelectView(id)
  <2>1. PICK id \in Ids : SelectView(id)
    BY <1>4
  <2>2. ViewOf(views, id).filters \in Filters
    BY <1>0, <2>1, ViewOfType DEF SelectView, Views
  <2>3. Shown
    BY <1>0, <2>1, <2>2, SetDraftType DEF SelectView, Shown
  <2> QED BY <1>0, <2>1, <2>3, EditorKeeps DEF SelectView
<1>5. CASE CreateView
  <2>1. PICK d \in UnusedDraft :
          views' = Append(views, BlankView(d)) /\ activeId' = d
    BY <1>5 DEF CreateView
  <2>2. d \in Ids /\ ~InRail(views, d)
    BY DEF UnusedDraft, Fresh, Ids
  <2>3. views' \in Seq(Views) /\ Distinct(views') /\ views' # <<>>
    BY <1>0, <2>1, <2>2, BlankViewType, AppendRail
  <2>4. Shown
    BY <1>0, <1>5, <2>1, <2>2, <2>3, SetDraftType, SearchAssumption
    DEF CreateView, Shown
  <2> QED BY <1>0, <1>5, <2>3, <2>4, EditorKeeps DEF CreateView
<1>6. CASE ResetFilters
  <2>1. Shown
    BY <1>0, <1>1, <1>6, SetDraftType DEF ResetFilters, isDirty, Shown
  <2> QED BY <1>0, <1>6, <2>1, EditorKeeps DEF ResetFilters
<1>7. CASE Save
  BY <1>0, <1>1, <1>7, SendKeeps, SearchAssumption DEF Save, isDirty
<1>8. CASE SaveAsNew
  BY <1>0, <1>8, SendKeeps DEF SaveAsNew
<1>9. CASE Rename
  <2>1. <<>> \in Seq(Views) /\ Distinct(<<>>)
    BY DEF Distinct
  <2> QED BY <1>0, <1>1, <1>9, <2>1, SendKeeps, SearchAssumption DEF Rename
<1>10. CASE \E id \in Ids : DeleteDraft(id) \/ DeleteView(id)
  <2>1. PICK id \in Ids : DeleteDraft(id) \/ DeleteView(id)
    BY <1>10
  <2>2. CASE DeleteDraft(id)
    BY <2>2, DeleteDraftKeeps
  <2>3. CASE DeleteView(id)
    BY <1>0, <2>3, SendKeeps, SearchAssumption DEF DeleteView
  <2> QED BY <2>1, <2>2, <2>3
<1>11. CASE \E c \in changes : ChangeEnds(c)
  BY <1>11, DeleteDoneKeeps, CreateDoneKeeps, UpdateDoneKeeps, OtherEndsKeep
  DEF ChangeEnds
<1>12. CASE Run
  <2>1. Shown
    BY <1>0, <1>12 DEF Run, Shown
  <2> QED BY <1>0, <1>12, <2>1, EditorKeeps DEF Run
<1>13. CASE UNCHANGED searchVars
  <2>1. Shown
    BY <1>0, <1>13 DEF searchVars, Shown
  <2> QED BY <1>0, <1>13, <2>1, EditorKeeps DEF searchVars
<1> QED
  BY <1>2, <1>3, <1>4, <1>5, <1>6, <1>7, <1>8, <1>9, <1>10, <1>11, <1>12, <1>13
  DEF SearchNext

LEMMA SearchInvariant == SearchSpec => []SearchInv
<1> QED BY SearchInitInv, SearchStepInv, PTL DEF SearchSpec

(* Whatever rails the calls in flight write back, no view is twice in the  *)
(* rail, for any number of calls, views and drafts.                        *)
THEOREM SearchTypeCorrect == SearchSpec => []SearchTypeOK
<1>1. SearchInv => SearchTypeOK
  BY DEF SearchInv
<1> QED BY <1>1, SearchInvariant, PTL

(* Once the saved views were read, or could not be, the rail is never      *)
(* empty, for any number of calls in flight that write the rail back from  *)
(* what they captured.                                                     *)
THEOREM SearchRailNeverEmpty == SearchSpec => []RailNeverEmpty
<1>1. SearchInv => RailNeverEmpty
  BY DEF SearchInv
<1> QED BY <1>1, SearchInvariant, PTL

=============================================================================
