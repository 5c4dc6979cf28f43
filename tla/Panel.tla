-------------------------------- MODULE Panel --------------------------------
(***************************************************************************)
(* The life of one panel of the console: a React component that reads      *)
(* something from the server when it is mounted or when what it is about   *)
(* changes, shows it, and offers changes to it.  The components differ in  *)
(* few respects, and those are the fields of a panel:                      *)
(*                                                                         *)
(*   load   "none"   it reads nothing                                      *)
(*          "mount"  it reads when it is mounted                           *)
(*          "keyed"  and again when its key changes: the id, the window or *)
(*                   the filters it is about                               *)
(*   drop   "never"  the answer of every read is put on screen             *)
(*          "key"    a change of the key drops the reads under way, except *)
(*                   the ones a change of the user's has started           *)
(*          "always" it drops all of them, and so does every further read  *)
(*   wipe   a change of the key empties the screen until the answer        *)
(*   empty  a read that fails empties the screen                           *)
(*   brittle  an error is rendered in place of the panel, for good         *)
(*   poll   "timer" when a timer or an event makes it read again, "button" *)
(*          when the user does and the button is disabled while it reads,  *)
(*          "no" otherwise                                                 *)
(*   ops    the changes it offers                                          *)
(*                                                                         *)
(* An op is one way of changing something:                                 *)
(*                                                                         *)
(*   flag   the state that disables it while a change is under way: "busy" *)
(*          or "busy2"; "row" when only the changed row is disabled,       *)
(*          "none" when nothing is                                         *)
(*   needs  "data" when it is offered only once something was read, "idle" *)
(*          when the panel does not say it is loading, "nothing" otherwise *)
(*   eager  the screen is changed before the server has answered           *)
(*   then   what the answer does: "await" reads again before the flag is   *)
(*          lowered, "reload" lowers it and reads, "apply" shows what the  *)
(*          answer contains, "patch" changes what is on screen, "redo"     *)
(*          changes what was on screen when the change was sent and reads, *)
(*          "hand" leaves it to the parent, "leave" closes the panel,      *)
(*          "none" does nothing                                            *)
(*   fail   what a failure does: "report" shows it, "reload" reads again,  *)
(*          "keep" says so outside the panel, or not at all                *)
(*                                                                         *)
(* What is read is abstracted to the changes it reflects.  A read reflects *)
(* the changes the server has made at some moment between its sending and  *)
(* its answer; a change or its answer may be lost.                         *)
(***************************************************************************)
EXTENDS Naturals, Sequences, FiniteSets

CONSTANTS
  Panels,     \* the panels
  Keys,       \* what a keyed panel can be about
  Key0,       \* what it is about when it is mounted
  MaxWrites,  \* bound on the changes of a panel that reads once
  MaxKeyedWrites, \* bound on the changes of a keyed panel
  MaxReads    \* bound on the reads under way

Flags == {"busy", "busy2"}

Ops == [flag : Flags \cup {"row", "none"}, needs : {"nothing", "data", "idle"},
        eager : BOOLEAN,
        then : {"await", "reload", "apply", "patch", "redo", "hand", "leave",
                "none"},
        fail : {"report", "reload", "keep"}]

ASSUME PanelAssumption ==
  /\ \A c \in Panels :
       /\ DOMAIN c = {"load", "drop", "wipe", "empty", "brittle", "poll", "ops"}
       /\ c.load \in {"none", "mount", "keyed"}
       /\ c.drop \in {"never", "key", "always"}
       /\ {c.wipe, c.empty, c.brittle} \subseteq BOOLEAN
       /\ c.poll \in {"no", "timer", "button"}
       /\ c.ops \subseteq Ops
  /\ Key0 \in Keys
  /\ MaxKeyedWrites \in Nat /\ MaxWrites \in Nat /\ MaxKeyedWrites <= MaxWrites
  /\ MaxReads \in Nat \ {0}

VARIABLES
  comp,    \* the panel that is mounted
  open,    \* it is still mounted
  key,     \* what it is about
  shown,   \* what is on screen
  isLoading, \* the panel says that it is loading
  missed,  \* the read that was handled last has failed
  flags,   \* the flags that are raised
  reads,   \* reads whose answer is still to come
  writes,  \* changes whose answer is still to come
  sent,    \* how many changes were sent
  applied, \* the changes the server made, in order
  acked    \* the changes whose success was reported

panelVars == <<comp, open, key, shown, isLoading, missed, flags, reads, writes,
               sent, applied, acked>>

WriteIds == 1..MaxWrites

ChangesMade == [id : WriteIds, key : Keys]

Nothing == [some |-> FALSE, key |-> Key0, has |-> {}]

Screen(k, ids) == [some |-> TRUE, key |-> k, has |-> ids]

Screens == {Nothing} \cup [some : {TRUE}, key : Keys, has : SUBSET WriteIds]

(* live is FALSE when the answer is dropped; for is the flag that is        *)
(* lowered when the read ends, or "change" when a change has started it and *)
(* no flag waits for it, or "none" when the effect, the timer or the button *)
(* has.                                                                     *)
Reads == [slot : 1..MaxReads, key : Keys, from : Nat,
          live : BOOLEAN, for : Flags \cup {"change", "none"}]

(* pos is the place in applied, 0 until the server has made the change; saw *)
(* is what a closure keeps of the screen it was sent from.                  *)
Writes == [id : WriteIds, op : Ops, key : Keys, pos : Nat,
           saw : SUBSET WriteIds]

(* Types; and the flag of a change is raised as long as it is under way.   *)
PanelTypeOK ==
  /\ comp \in Panels
  /\ open \in BOOLEAN
  /\ key \in Keys
  /\ shown \in Screens
  /\ isLoading \in BOOLEAN /\ missed \in BOOLEAN
  /\ flags \in SUBSET Flags
  /\ reads \in SUBSET Reads
  /\ writes \in SUBSET Writes
  /\ \A w \in writes : w.op.flag \in Flags => w.op.flag \in flags
  /\ sent \in 0..MaxWrites
  /\ applied \in Seq(ChangesMade)
  /\ acked \in SUBSET ChangesMade

(* The changes of key k among the first n the server made.                 *)
Reflected(n, k) == {applied[i].id : i \in {j \in 1..n : applied[j].key = k}}

-----------------------------------------------------------------------------
(* Reads.                                                                  *)

Free(rs) == {s \in 1..MaxReads : \A r \in rs : r.slot # s}

(* What is left of the reads under way when their answers are no longer    *)
(* wanted: the ones a change waits for, without their effect.              *)
Dropped(rs) == {[r EXCEPT !.live = FALSE] : r \in {q \in rs : q.for \in Flags}}

(* What a further read leaves of them.                                     *)
KeptMutant == reads

Kept == IF comp.drop = "always" THEN Dropped(reads) ELSE reads

(* What the cleanup of the effect leaves of them when the key changes: the  *)
(* cancelled flag is the effect's own, and only a panel that reads by       *)
(* running its effect again ("always") has no other reads.                  *)
CleanedMutant == reads

Cleaned ==
  CASE comp.drop = "always" -> Dropped(reads)
    [] comp.drop = "key" -> {r \in reads : r.for # "none"}
    [] OTHER -> reads

(* The panel reads k, beside the reads rs; the flag f waits for it.        *)
StartRead(rs, k, f) ==
  \E s \in Free(rs) :
    /\ \A t \in Free(rs) : s <= t
    /\ reads' = rs \cup {[slot |-> s, key |-> k, from |-> Len(applied),
                          live |-> TRUE, for |-> f]}
    /\ isLoading' = TRUE

PanelMount(c) ==
  /\ comp = c
  /\ open = TRUE
  /\ key = Key0
  /\ shown = Nothing
  /\ isLoading = (c.load # "none") /\ missed = FALSE
  /\ flags = {}
  /\ reads = IF c.load = "none" THEN {}
             ELSE {[slot |-> 1, key |-> Key0, from |-> 0, live |-> TRUE,
                    for |-> "none"]}
  /\ writes = {}
  /\ sent = 0
  /\ applied = <<>>
  /\ acked = {}

(* The id in the route, the time window or a filter changes: the effect is *)
(* cleaned up and runs again.                                              *)
ChangeKey(k) ==
  /\ open /\ comp.load = "keyed" /\ k # key
  /\ key' = k
  /\ shown' = IF comp.wipe THEN Nothing ELSE shown
  /\ missed' = FALSE
  /\ StartRead(Cleaned, k, "none")
  /\ UNCHANGED <<comp, open, flags, writes, sent, applied, acked>>

(* The timer, the event or the Refresh button.                             *)
Poll ==
  /\ open
  /\ comp.poll = "timer" \/ (comp.poll = "button" /\ ~isLoading)
  /\ StartRead(Kept, key, "none")
  /\ UNCHANGED <<comp, open, key, shown, missed, flags, writes, sent, applied,
                 acked>>

ReadArrives(s) ==
  \E r \in reads : \E n \in r.from..Len(applied) :
    /\ r.slot = s
    /\ IF r.live
       THEN /\ shown' = Screen(r.key, Reflected(n, r.key))
            /\ missed' = FALSE /\ isLoading' = FALSE
       ELSE UNCHANGED <<shown, missed, isLoading>>
    /\ reads' = reads \ {r}
    /\ flags' = flags \ {r.for}
    /\ UNCHANGED <<comp, open, key, writes, sent, applied, acked>>

(* The finally block of the change that waits for a read.                  *)
LoweredMutant(r) == flags

Lowered(r) == flags \ {r.for}

ReadFails(s) ==
  \E r \in reads :
    /\ r.slot = s
    /\ IF r.live
       THEN /\ shown' = IF comp.empty THEN Screen(r.key, {}) ELSE shown
            /\ open' = (open /\ ~comp.brittle)
            /\ missed' = TRUE /\ isLoading' = FALSE
       ELSE UNCHANGED <<shown, open, missed, isLoading>>
    /\ reads' = reads \ {r}
    /\ flags' = Lowered(r)
    /\ UNCHANGED <<comp, key, writes, sent, applied, acked>>

-----------------------------------------------------------------------------
(* Changes.                                                                *)

Budget == IF comp.load = "keyed" THEN MaxKeyedWrites ELSE MaxWrites

OfferedMutant(o) ==
  /\ o.needs = "data" => shown.some
  /\ o.needs = "idle" => ~isLoading

Offered(o) ==
  /\ o.flag \notin flags
  /\ o.needs = "data" => shown.some
  /\ o.needs = "idle" => ~isLoading

SendWrite(o) ==
  /\ open /\ o \in comp.ops /\ sent < Budget
  /\ Offered(o)
  /\ sent' = sent + 1
  /\ writes' = writes \cup {[id |-> sent', op |-> o, key |-> key, pos |-> 0,
                             saw |-> IF o.then = "redo" THEN shown.has
                                                             ELSE {}]}
  /\ flags' = flags \cup ({o.flag} \cap Flags)
  /\ shown' = IF o.eager /\ shown.some
              THEN [shown EXCEPT !.has = @ \cup {sent'}] ELSE shown
  /\ UNCHANGED <<comp, open, key, isLoading, missed, reads, applied, acked>>

(* The server makes the change.                                            *)
ApplyWrite(i) ==
  \E w \in writes :
    /\ w.id = i
    /\ w.pos = 0
    /\ applied' = Append(applied, [id |-> w.id, key |-> w.key])
    /\ writes' = (writes \ {w}) \cup {[w EXCEPT !.pos = Len(applied')]}
    /\ UNCHANGED <<comp, open, key, shown, isLoading, missed, flags, reads, sent,
                   acked>>

(* What a panel reads after a change: the function that reads was captured *)
(* when the change was sent; an effect that runs again sees the present    *)
(* key.                                                                    *)
KeyAfter(w) == IF comp.drop = "always" THEN key ELSE w.key

(* What the success of w puts on screen.                                   *)
Put(w) ==
  CASE w.op.then = "apply" -> Screen(w.key, Reflected(w.pos, w.key))
    [] w.op.then = "patch" /\ shown.some /\ shown.key = w.key ->
         [shown EXCEPT !.has = @ \cup {w.id}]
    [] w.op.then = "redo" -> Screen(w.key, w.saw \cup {w.id})
    [] OTHER -> shown

(* The reads and the flags after it.                                       *)
Follow(w) ==
  \/ /\ w.op.then = "await"
     /\ StartRead(Kept, KeyAfter(w), IF w.op.flag \in Flags THEN w.op.flag
                                     ELSE "change")
     /\ UNCHANGED flags
  \/ /\ w.op.then \in {"reload", "redo"}
     /\ StartRead(Kept, KeyAfter(w), "change")
     /\ flags' = flags \ {w.op.flag}
  \/ /\ w.op.then \in {"apply", "patch", "hand", "none"}
     /\ flags' = flags \ {w.op.flag}
     /\ UNCHANGED <<reads, isLoading>>

(* A panel vouches for the changes it shows itself.                        *)
Vouched(w) ==
  IF w.op.then \in {"hand", "none"} THEN {} ELSE {[id |-> w.id, key |-> w.key]}

WriteSucceeds(i) ==
  \E w \in writes :
    /\ w.id = i
    /\ w.pos # 0 /\ w.op.then # "leave"
    /\ acked' = acked \cup Vouched(w)
    /\ writes' = writes \ {w}
    /\ shown' = Put(w)
    /\ Follow(w)
    /\ UNCHANGED <<comp, open, key, missed, sent, applied>>

(* A saved form closes; so does a panel that navigates away.  No answer    *)
(* reaches it any more.                                                    *)
WriteCloses(i) ==
  \E w \in writes :
    /\ w.id = i
    /\ w.pos # 0 /\ w.op.then = "leave"
    /\ open' = FALSE
    /\ writes' = {} /\ reads' = {} /\ flags' = {}
    /\ UNCHANGED <<comp, key, shown, isLoading, missed, sent, applied, acked>>

(* The catch blocks that read again.                                       *)
RefetchesMutant(w) == FALSE

Refetches(w) == w.op.fail = "reload"

(* A change fails, or the server has made it and its answer is lost.       *)
WriteFails(i) ==
  \E w \in writes :
    /\ w.id = i
    /\ writes' = writes \ {w}
    /\ IF Refetches(w) THEN StartRead(Kept, KeyAfter(w), "change")
       ELSE UNCHANGED <<reads, isLoading>>
    /\ flags' = flags \ {w.op.flag}
    /\ open' = (open /\ ~(comp.brittle /\ w.op.fail = "report"))
    /\ UNCHANGED <<comp, key, shown, missed, sent, applied, acked>>

PanelNext ==
  \/ \E k \in Keys : ChangeKey(k)
  \/ Poll
  \/ \E s \in 1..MaxReads : ReadArrives(s) \/ ReadFails(s)
  \/ \E o \in Ops : SendWrite(o)
  \/ \E i \in WriteIds : \/ ApplyWrite(i)
                         \/ WriteSucceeds(i)
                         \/ WriteCloses(i)
                         \/ WriteFails(i)

PanelInit == \E c \in Panels : PanelMount(c)

ReadEnds(s) == ReadArrives(s) \/ ReadFails(s)
WriteEnds(i) == WriteSucceeds(i) \/ WriteCloses(i) \/ WriteFails(i)

PanelSpec == PanelInit /\ [][PanelNext]_panelVars

-----------------------------------------------------------------------------
(* Panels whose screen cannot stay on what the panel was about before.     *)
KeepsToKey(c) ==
  \/ c.load = "mount"
  \/ /\ c.drop = "key" /\ c.load = "keyed"
     /\ \A o \in c.ops : o.then \in {"patch", "hand", "leave", "none"}
                         /\ o.fail # "reload"
  \/ /\ c.drop = "always" /\ c.load = "keyed"
     /\ \A o \in c.ops : o.then \notin {"apply", "redo"}

(* When nothing is under way and the last read did not fail, the screen    *)
(* shows what the panel is about now, in whatever order the answers of     *)
(* earlier keys came: the cancelled flag of the effects.                   *)
SettledOnKey ==
  open /\ reads = {} /\ ~missed /\ KeepsToKey(comp)
    => shown.some /\ shown.key = key

(* Changes that leave no trace on this screen.                             *)
Elsewhere(o) == o.then \in {"hand", "none", "leave"} /\ o.fail # "reload"

(* Panels that read only when mounted and offer changes to what they show. *)
Calm(c) ==
  /\ c.load = "mount" /\ c.poll = "no"
  /\ \A o \in c.ops : Elsewhere(o) \/ o.needs = "data"

(* Panels that show every change they have reported as made.               *)
ReadsOwnWrites(c) ==
  \/ /\ c.load # "none" /\ c.drop = "always"
     /\ \A o \in c.ops : o.then \in {"reload", "await"} \/ Elsewhere(o)
  \/ /\ Calm(c)
     /\ \A o \in c.ops : Elsewhere(o) \/ (o.then = "patch" /\ o.fail # "reload")
  \/ /\ Calm(c)
     /\ \A o \in c.ops :
          \/ Elsewhere(o)
          \/ /\ o.flag = "busy" /\ o.fail # "reload"
             /\ o.then \in {"await", "apply", "patch"}

(* Nothing is under way, and the last read did not fail.                   *)
AtRest == open /\ reads = {} /\ writes = {} /\ ~missed

Promise == INSTANCE FreshView WITH
  made <- acked,
  onView <- {a \in ChangesMade : a.key = key => a.id \in shown.has},
  quiet <- AtRest /\ ReadsOwnWrites(comp)

(* The panels that read their own writes keep the promise of FreshView:    *)
(* when they come to rest, every change they reported as made is on        *)
(* screen, and no answer that was overtaken by a change puts the screen    *)
(* back to what was before it.                                             *)
ImplementsFreshView == Promise!ViewSpec

(* Nothing stays on screen that the server never made: an eager change     *)
(* that failed is taken back by a read.                                    *)
Truthful(c) ==
  \A o \in c.ops : o.eager => o.fail = "reload"

NoGhosts ==
  AtRest /\ Truthful(comp)
    => \A i \in shown.has : \E n \in 1..Len(applied) : applied[n].id = i

=============================================================================
