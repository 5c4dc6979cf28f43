----------------------------- MODULE AlertEngine -----------------------------
(***************************************************************************)
(* The alert state machine (cell-api, internal/alerting: engine.go and the *)
(* statements of engine_store.go): evaluator loops open, refresh and       *)
(* resolve alert instances; the renotify loop pages what is still firing;  *)
(* operators acknowledge and close instances; maintenance windows mute.    *)
(*                                                                         *)
(* Nothing here holds a lock: a loop reads rows, decides, and writes by    *)
(* id, one statement at a time, while the other loops and the operators    *)
(* do the same.  Each statement is one step; what a loop has read and not  *)
(* yet used is its variable ev[c] or rn.                                   *)
(*                                                                         *)
(* A check is one evaluation stream, a rule in one environment (its        *)
(* fingerprint).  Instances are numbered in the order they open, which is  *)
(* the order of started_at.  What EnqueueJobs writes is summarised as the  *)
(* set of states an instance was announced with (NotificationQueue models  *)
(* what becomes of the jobs), "nobody" standing for a call with an empty   *)
(* list of channels, which inserts no job and reports success.             *)
(***************************************************************************)
EXTENDS Naturals, FiniteSets

CONSTANTS
  Checks,     \* rules, one per environment they are evaluated in
  LoopOf,     \* the evaluator loop of each check: one per signal
  Folded,     \* checks of one integration whose profile groups per_integration
  Manual,     \* checks with resolve mode manual
  Recurring,  \* checks whose profile has a re-notify interval
  Explicit,   \* checks whose rule names channels of its own
  Profiled,   \* checks whose profile has channels (a new default has none)
  Editable,   \* checks whose rule operators edit
  Scopes,     \* the sets of checks maintenance can cover
  Cancels,    \* whether operators postpone a running window and cancel it
  NumInst,    \* bound: instances ever opened
  MaxFaults   \* bound: crashes, failed statements, failed profile lookups

ASSUME ConfigAssumption ==
  /\ Checks # {}
  /\ Folded \subseteq Checks /\ Manual \subseteq Checks /\ Recurring \subseteq Checks
  /\ Editable \subseteq Checks /\ Explicit \subseteq Checks /\ Profiled \subseteq Checks
  /\ Scopes \subseteq SUBSET Checks /\ {} \in Scopes
  /\ Cancels \in BOOLEAN

ASSUME BoundsAssumption == NumInst \in Nat \ {0} /\ MaxFaults \in Nat

VARIABLES
  rule,    \* each check's rule: enabled, disabled or deleted
  breach,  \* what the telemetry would say of each check if asked now
  window,  \* the checks an active maintenance window covers
  inst,    \* alert_instances
  cache,   \* the engine's copy of the active windows (mwCache, mwFetched)
  ev,      \* each check's evaluator: where it stands and what it has read
  rn,      \* the renotify loop: the same
  sent,    \* the states each instance was announced with, or nobody
  faults   \* faults still allowed

vars == <<rule, breach, window, inst, cache, ev, rn, sent, faults>>
world == <<rule, breach, window>>

Insts    == 1 .. NumInst
Ids      == 0 .. NumInst
Says     == {"firing", "resolved", "nobody"}
Notified == {"never", "recent", "due"}  \* last_notified_at against the interval

Instance == [state: {"none", "firing", "resolved", "gone"}, check: Checks,
             handled: BOOLEAN, supp: BOOLEAN, notified: Notified]

Evaluation == [pc: {"idle", "listed", "open", "fire", "enqueue", "mark",
                    "resolve", "announce"},
               n: Ids, handled: BOOLEAN, supp: BOOLEAN]

\* FiringUnackedInstance, and whether behavior() put it on the integration's
\* stream.
Item == [n: Insts, notified: Notified, supp: BOOLEAN, grouped: BOOLEAN]

Round == [pc: {"idle", "scan", "enqueue", "mark"}, items: SUBSET Item,
          stamp: SUBSET Insts, n: Ids]

NoRow     == [state |-> "none", check |-> CHOOSE c \in Checks : TRUE,
              handled |-> FALSE, supp |-> FALSE, notified |-> "never"]
Idle      == [pc |-> "idle", n |-> 0, handled |-> FALSE, supp |-> FALSE]
NoCache   == [fresh |-> FALSE, covered |-> {}]
IdleRound == [pc |-> "idle", items |-> {}, stamp |-> {}, n |-> 0]

Firing(n) == inst[n].state = "firing"
Open(c)   == {n \in Insts : Firing(n) /\ inst[n].check = c}
Free      == {n \in Insts : inst[n].state = "none"}
First(S)  == CHOOSE n \in S : \A m \in S : n <= m

-----------------------------------------------------------------------------
(***************************************************************************)
(* The world: telemetry, operators, maintenance and the passing of time.   *)
(***************************************************************************)
SignalChanges(c) ==
  /\ breach' = [breach EXCEPT ![c] = ~@]
  /\ UNCHANGED <<rule, window, inst, cache, ev, rn, sent, faults>>

WindowChanges ==
  /\ window' \in Scopes \ {window}
  /\ UNCHANGED <<rule, breach, inst, cache, ev, rn, sent, faults>>

\* A window that has muted instances is moved into the future (UpdateWindow,
\* part of WindowChanges) and cancelled before it starts again: EndWindow
\* deletes the row, and suppressed_by is a foreign key ON DELETE SET NULL.
CancelWindow ==
  /\ Cancels
  /\ \E S \in SUBSET {n \in Insts : inst[n].supp} :
       /\ S # {}
       /\ inst' = [n \in Insts |->
                     IF n \in S THEN [inst[n] EXCEPT !.supp = FALSE] ELSE inst[n]]
  /\ UNCHANGED <<world, cache, ev, rn, sent, faults>>

UpdateRule(c) ==
  /\ c \in Editable /\ rule[c] # "deleted"
  /\ rule' = [rule EXCEPT ![c] = IF @ = "enabled" THEN "disabled" ELSE "enabled"]
  /\ UNCHANGED <<breach, window, inst, cache, ev, rn, sent, faults>>

\* The instances of a deleted rule go with it (ON DELETE CASCADE).
DeleteRule(c) ==
  /\ c \in Editable /\ rule[c] # "deleted"
  /\ rule' = [rule EXCEPT ![c] = "deleted"]
  /\ inst' = [n \in Insts |->
                IF inst[n].check = c /\ inst[n].state # "none"
                  THEN [NoRow EXCEPT !.state = "gone", !.check = c] ELSE inst[n]]
  /\ UNCHANGED <<breach, window, cache, ev, rn, sent, faults>>

AcknowledgeInstance(n) ==
  /\ Firing(n) /\ ~inst[n].handled
  /\ inst' = [inst EXCEPT ![n].handled = TRUE]
  /\ UNCHANGED <<world, cache, ev, rn, sent, faults>>

\* Also ResolveErrorTraceInstancesForService ("Clear errors").
ResolveInstanceManual(n) ==
  /\ Firing(n)
  /\ inst' = [inst EXCEPT ![n].state = "resolved", ![n].handled = TRUE]
  /\ UNCHANGED <<world, cache, ev, rn, sent, faults>>

IntervalElapses(n) ==
  /\ Firing(n) /\ inst[n].notified = "recent" /\ inst[n].check \in Recurring
  /\ inst' = [inst EXCEPT ![n].notified = "due"]
  /\ UNCHANGED <<world, cache, ev, rn, sent, faults>>

\* mwCacheTTL passes: what was fetched counts no more.
CacheExpires ==
  /\ cache.fresh
  /\ cache' = NoCache
  /\ UNCHANGED <<world, inst, ev, rn, sent, faults>>

-----------------------------------------------------------------------------
(***************************************************************************)
(* Shared by the loops.  suppressedBy answers from the cache, refreshing   *)
(* it first when it is stale; a failed refresh mutes nothing.              *)
(***************************************************************************)
Fresh(covered) == [fresh |-> TRUE, covered |-> covered]

suppressedBy(covered) ==
  \/ /\ cache.fresh /\ covered = cache.covered
     /\ UNCHANGED <<cache, faults>>
  \/ /\ ~cache.fresh /\ covered = window
     /\ cache' = Fresh(window)
     /\ UNCHANGED faults
  \/ /\ ~cache.fresh /\ covered = {} /\ faults > 0
     /\ cache' = Fresh({})
     /\ faults' = faults - 1

\* UPDATE alert_instances SET ... WHERE id = n: no row, no effect.
Update(n, row) == inst' = IF inst[n].state = "gone" THEN inst
                                                    ELSE [inst EXCEPT ![n] = row]

\* Mutant: muting also sets the watermark.
MuteAndStamp(n) == Update(n, [inst[n] EXCEPT !.supp = TRUE, !.notified = "recent"])

\* First writer wins.
MarkInstanceSuppressed(n) == Update(n, [inst[n] EXCEPT !.supp = TRUE])

MarkInstanceNotified(n) == Update(n, [inst[n] EXCEPT !.notified = "recent"])

\* channelsFor: whether there is any channel to deliver to.  A rule's own
\* channels win and are not looked up; when the lookup of the profile fails
\* the rule's own are used, which are then none.
channelsFor(c, failed) == c \in Explicit \/ (c \in Profiled /\ ~failed)
CanFail(c, failed) == failed => c \notin Explicit

\* Faults that must still be allowed, and are used up.
Spend(k) == faults >= k /\ faults' = faults - k
Cost(failed) == IF failed THEN 1 ELSE 0

\* Mutant: every job says that the alert is firing.
EnqueueFiringJobs(n, routed) ==
  sent' = [sent EXCEPT ![n] = @ \union {IF routed THEN "firing" ELSE "nobody"}]

\* The jobs carry the state the instance has when they are inserted; a
\* deleted instance selects no row.
EnqueueJobs(n, routed) ==
  sent' = [sent EXCEPT ![n] =
             IF inst[n].state = "gone" THEN @
             ELSE @ \union {IF routed THEN inst[n].state ELSE "nobody"}]

-----------------------------------------------------------------------------
(***************************************************************************)
(* An evaluator: list the enabled rules, measure, read the active          *)
(* instance, and drive it.                                                 *)
(***************************************************************************)
\* What ActiveInstance finds.  Mutant: it overlooks acknowledged instances.
ActiveUnacked(c) == {n \in Open(c) : ~inst[n].handled}
Active(c) == Open(c)

\* resolveOrHold keeps a manual check firing until somebody has seen it.
\* Mutant: it does not.
HoldsNothing(c, n) == FALSE
Holds(c, n) == c \in Manual /\ ~inst[n].handled

\* resolveOrHold announces the end of an alert that nobody has acknowledged
\* and no window muted.  Mutant: a window also mutes the end.
LoudOutsideWindows(e) == ~e.handled /\ ~e.supp /\ cache.covered = {}
Loud(e) == ~e.handled /\ ~e.supp

Begun(c) == ev[c].pc \notin {"idle", "listed"}

GoTo(c, e) == ev' = [ev EXCEPT ![c] = e]

ListRules(c) ==
  /\ ev[c].pc = "idle"
  /\ rule[c] = "enabled"
  /\ GoTo(c, [Idle EXCEPT !.pc = "listed"])
  /\ UNCHANGED <<world, inst, cache, rn, sent, faults>>

\* The tail of every evaluate*Rule; a loop evaluates its rules in turn.  The
\* newest firing instance is the one read; a breach that is still open only
\* touches or refreshes it, and a manual check that nobody has acknowledged
\* is held.
EvaluateRule(c) ==
  /\ ev[c].pc = "listed"
  /\ \A d \in Checks : LoopOf[d] = LoopOf[c] => ~Begun(d)
  /\ IF Active(c) = {}
       THEN IF breach[c] /\ Free # {}
              THEN GoTo(c, [Idle EXCEPT !.pc = "open"])
              ELSE GoTo(c, Idle)
       ELSE \E n \in Active(c) :
              /\ \A m \in Active(c) : m <= n
              /\ IF breach[c] \/ Holds(c, n)
                   THEN GoTo(c, Idle)
                   ELSE GoTo(c, [pc |-> "resolve", n |-> n,
                                 handled |-> inst[n].handled,
                                 supp |-> inst[n].supp])
  /\ UNCHANGED <<world, inst, cache, rn, sent, faults>>

\* Mutant: the new id is not kept.
OpenUnnumbered(c) ==
  /\ ev[c].pc = "open" /\ rule[c] # "deleted" /\ Free # {}
  /\ \E n \in Free : inst' = [inst EXCEPT ![n].state = "firing", ![n].check = c]
  /\ GoTo(c, [Idle EXCEPT !.pc = "fire"])
  /\ UNCHANGED <<world, cache, rn, sent, faults>>

\* The INSERT fails when the rule is gone.
OpenInstance(c) ==
  /\ ev[c].pc = "open"
  /\ \/ /\ rule[c] = "deleted" \/ Free = {}
        /\ GoTo(c, Idle)
        /\ UNCHANGED inst
     \/ /\ rule[c] # "deleted"
        /\ \E n \in Free :
             /\ \A m \in Free : n <= m
             /\ inst' = [inst EXCEPT ![n] = [NoRow EXCEPT !.state = "firing", !.check = c]]
             /\ GoTo(c, [Idle EXCEPT !.pc = "fire", !.n = n])
  /\ UNCHANGED <<world, cache, rn, sent, faults>>

\* enqueueFiring: muted at birth, folded into the integration's stream, or
\* paged and stamped.
EnqueueFiring(c) ==
  /\ ev[c].pc = "fire"
  /\ \E covered \in Scopes :
       /\ suppressedBy(covered)
       /\ IF c \in covered
            THEN MarkInstanceSuppressed(ev[c].n) /\ GoTo(c, Idle)
            ELSE GoTo(c, [ev[c] EXCEPT !.pc = "enqueue"]) /\ UNCHANGED inst
  /\ UNCHANGED <<world, rn, sent>>

\* Mutant: every check is folded.
FoldAny(c) ==
  /\ ev[c].pc = "enqueue"
  /\ GoTo(c, Idle)
  /\ UNCHANGED <<world, inst, cache, rn, sent, faults>>

FoldFiring(c) ==
  /\ ev[c].pc = "enqueue" /\ c \in Folded
  /\ GoTo(c, Idle)
  /\ UNCHANGED <<world, inst, cache, rn, sent, faults>>

\* behavior() falls back to per_check when the profile cannot be read.
SendFiring(c) ==
  /\ ev[c].pc = "enqueue"
  /\ \E failed \in BOOLEAN :
       /\ CanFail(c, failed)
       /\ Spend(Cost(c \in Folded) + Cost(failed))
       /\ EnqueueJobs(ev[c].n, channelsFor(c, failed))
  /\ GoTo(c, [ev[c] EXCEPT !.pc = "mark"])
  /\ UNCHANGED <<world, inst, cache, rn>>

MarkFiring(c) ==
  /\ ev[c].pc = "mark"
  /\ MarkInstanceNotified(ev[c].n)
  /\ GoTo(c, Idle)
  /\ UNCHANGED <<world, cache, rn, sent, faults>>

\* resolveOrHold, once it has decided to resolve: the UPDATE tests only the
\* id, and whether to announce is decided from what was read before it.
ResolveInstance(c) ==
  LET e == ev[c] IN
  /\ e.pc = "resolve"
  /\ Update(e.n, [inst[e.n] EXCEPT !.state = "resolved"])
  /\ IF Loud(e) THEN GoTo(c, [e EXCEPT !.pc = "announce"])
                ELSE GoTo(c, Idle)
  /\ UNCHANGED <<world, cache, rn, sent, faults>>

AnnounceResolved(c) ==
  /\ ev[c].pc = "announce"
  /\ \E failed \in BOOLEAN :
       /\ CanFail(c, failed)
       /\ Spend(Cost(failed))
       /\ EnqueueJobs(ev[c].n, channelsFor(c, failed))
  /\ GoTo(c, Idle)
  /\ UNCHANGED <<world, inst, cache, rn>>

\* A statement fails: logged, and this evaluation is over.  EnqueueJobs may
\* have reached some of the channels before.
EvaluationFails(c) ==
  /\ faults > 0
  /\ ev[c].pc # "idle"
  /\ faults' = faults - 1
  /\ \/ UNCHANGED sent
     \/ /\ ev[c].pc \in {"enqueue", "announce"} /\ channelsFor(c, FALSE)
        /\ EnqueueJobs(ev[c].n, TRUE)
  /\ GoTo(c, Idle)
  /\ UNCHANGED <<world, inst, cache, rn>>

-----------------------------------------------------------------------------
(***************************************************************************)
(* The renotify loop: one read of all firing, unacknowledged instances,    *)
(* then the per-check items one by one, then the integration's stream.     *)
(***************************************************************************)
\* Mutant: acknowledged instances are read too.
CandidatesAll == {n \in Insts : Firing(n)}
Candidates == {n \in Insts : Firing(n) /\ ~inst[n].handled}

Read(n, grouped) ==
  [n |-> n, notified |-> inst[n].notified, supp |-> inst[n].supp,
   grouped |-> grouped]

FiringUnackedInstances ==
  /\ rn.pc = "idle"
  /\ Candidates # {}
  /\ rn' = [IdleRound EXCEPT !.pc = "scan",
              !.items = {Read(n, inst[n].check \in Folded) : n \in Candidates}]
  /\ UNCHANGED <<world, inst, cache, ev, sent, faults>>

\* behavior() fails for one instance of the stream, which then counts as a
\* per-check one without an interval.
ReadUnfolded ==
  /\ rn.pc = "idle"
  /\ faults > 0
  /\ \E m \in Candidates :
       /\ inst[m].check \in Folded
       /\ rn' = [IdleRound EXCEPT !.pc = "scan",
            !.items = {Read(n, inst[n].check \in Folded /\ n # m) : n \in Candidates}]
  /\ faults' = faults - 1
  /\ UNCHANGED <<world, inst, cache, ev, sent>>

\* GetRule fails for one instance, which this round then passes over.
ReadPartly ==
  /\ rn.pc = "idle"
  /\ faults > 0
  /\ \E m \in Candidates :
       rn' = [IdleRound EXCEPT !.pc = "scan",
         !.items = {Read(n, inst[n].check \in Folded) : n \in Candidates \ {m}}]
  /\ faults' = faults - 1
  /\ UNCHANGED <<world, inst, cache, ev, sent>>

PerCheck == {it \in rn.items : ~it.grouped}
Stream   == {it \in rn.items : it.grouped}
CheckOf(it) == inst[it.n].check

\* The interval of an item whose profile could be read.
Recurs(it) == CheckOf(it) \in Recurring /\ (CheckOf(it) \in Folded => it.grouped)

\* due(): the interval has passed since the last page.  Mutant: it is not
\* looked at.
DueAlways(it) == it.notified # "never" /\ Recurs(it)
Due(it) == it.notified = "due" /\ Recurs(it)

\* The first page a window held back.  Mutant: it is forgotten.
OwedNever(it) == FALSE
Owed(it) == it.notified = "never" /\ it.supp

\* A muted item is stamped unless it was paged or stamped before.
Unmarked(it) == it.notified = "never" /\ ~it.supp

RenotifyCheck(it) ==
  /\ rn.pc = "scan"
  /\ it \in PerCheck
  /\ \E covered \in Scopes :
       /\ suppressedBy(covered)
       /\ IF CheckOf(it) \in covered
            THEN /\ rn' = [rn EXCEPT !.items = @ \ {it}]
                 /\ IF Unmarked(it) THEN MarkInstanceSuppressed(it.n) ELSE UNCHANGED inst
            ELSE /\ rn' = IF Owed(it) \/ Due(it)
                            THEN [rn EXCEPT !.items = @ \ {it}, !.pc = "enqueue", !.n = it.n]
                            ELSE [rn EXCEPT !.items = @ \ {it}]
                 /\ UNCHANGED inst
  /\ UNCHANGED <<world, ev, sent>>

\* The representative is the alert that has been firing longest.  Mutant:
\* the newest.
RepresentsNewest(it) == \A o \in Stream : it.n >= o.n
Represents(it) == \A o \in Stream : it.n <= o.n

RenotifyIntegration(it) ==
  /\ rn.pc = "scan"
  /\ PerCheck = {} /\ it \in Stream /\ Represents(it)
  /\ \E covered \in Scopes :
       /\ suppressedBy(covered)
       /\ rn' = IF CheckOf(it) \in covered
                  THEN [rn EXCEPT !.items = {},
                          !.stamp = {o.n : o \in {x \in Stream : Unmarked(x)}}]
                  ELSE IF it.notified = "never" \/ Due(it)
                         THEN [rn EXCEPT !.items = {}, !.pc = "enqueue", !.n = it.n]
                         ELSE [rn EXCEPT !.items = {}]
  /\ UNCHANGED <<world, inst, ev, sent>>

\* The muted stream's instances are stamped one UPDATE at a time.
StampStream(n) ==
  /\ rn.pc = "scan" /\ n \in rn.stamp
  /\ MarkInstanceSuppressed(n)
  /\ rn' = [rn EXCEPT !.stamp = @ \ {n}]
  /\ UNCHANGED <<world, cache, ev, sent, faults>>

\* renotifyInstance.
SendAgain ==
  /\ rn.pc = "enqueue"
  /\ \E failed \in BOOLEAN :
       /\ CanFail(inst[rn.n].check, failed)
       /\ Spend(Cost(failed))
       /\ EnqueueJobs(rn.n, channelsFor(inst[rn.n].check, failed))
  /\ rn' = [rn EXCEPT !.pc = "mark"]
  /\ UNCHANGED <<world, inst, cache, ev>>

MarkAgain ==
  /\ rn.pc = "mark"
  /\ MarkInstanceNotified(rn.n)
  /\ rn' = [rn EXCEPT !.pc = "scan", !.n = 0]
  /\ UNCHANGED <<world, cache, ev, sent, faults>>

RoundEnds ==
  /\ rn.pc = "scan" /\ rn.items = {} /\ rn.stamp = {}
  /\ rn' = IdleRound
  /\ UNCHANGED <<world, inst, cache, ev, sent, faults>>

\* A statement fails: logged, and the loop goes on to the next item.
RenotifyFails ==
  /\ faults > 0
  /\ faults' = faults - 1
  /\ \/ /\ rn.pc = "enqueue"
        /\ \/ UNCHANGED sent
           \/ channelsFor(inst[rn.n].check, FALSE) /\ EnqueueJobs(rn.n, TRUE)
        /\ rn' = [rn EXCEPT !.pc = "scan", !.n = 0]
     \/ /\ rn.pc = "mark"
        /\ rn' = [rn EXCEPT !.pc = "scan", !.n = 0]
        /\ UNCHANGED sent
     \/ /\ rn.pc = "scan"
        /\ \/ \E n \in rn.stamp : rn' = [rn EXCEPT !.stamp = @ \ {n}]
           \/ \E it \in PerCheck :
                /\ CheckOf(it) \in cache.covered /\ Unmarked(it)
                /\ rn' = [rn EXCEPT !.items = @ \ {it}]
        /\ UNCHANGED sent
  /\ UNCHANGED <<world, inst, cache, ev>>

\* The process stops and starts again: every loop forgets what it had read.
Restart ==
  /\ faults > 0
  /\ faults' = faults - 1
  /\ ev' = [c \in Checks |-> Idle]
  /\ rn' = IdleRound
  /\ cache' = NoCache
  /\ UNCHANGED <<world, inst, sent>>

-----------------------------------------------------------------------------
Init ==
  /\ rule = [c \in Checks |-> "enabled"]
  /\ breach = [c \in Checks |-> FALSE]
  /\ window = {}
  /\ inst = [n \in Insts |-> NoRow]
  /\ cache = NoCache
  /\ ev = [c \in Checks |-> Idle]
  /\ rn = IdleRound
  /\ sent = [n \in Insts |-> {}]
  /\ faults = MaxFaults

Evaluate(c) ==
  \/ ListRules(c) \/ EvaluateRule(c) \/ OpenInstance(c) \/ EnqueueFiring(c)
  \/ FoldFiring(c) \/ SendFiring(c) \/ MarkFiring(c) \/ ResolveInstance(c) \/ AnnounceResolved(c)

Renotify ==
  \/ FiringUnackedInstances \/ SendAgain \/ MarkAgain \/ RoundEnds
  \/ \E it \in rn.items : RenotifyCheck(it) \/ RenotifyIntegration(it)
  \/ \E n \in rn.stamp : StampStream(n)

Next ==
  \/ \E c \in Checks : SignalChanges(c) \/ UpdateRule(c) \/ DeleteRule(c)
  \/ WindowChanges \/ CancelWindow \/ CacheExpires
  \/ \E n \in Insts : AcknowledgeInstance(n) \/ ResolveInstanceManual(n)
                      \/ IntervalElapses(n)
  \/ \E c \in Checks : Evaluate(c) \/ EvaluationFails(c)
  \/ Renotify \/ ReadUnfolded \/ ReadPartly \/ RenotifyFails
  \/ Restart

\* The tickers of Run fire for ever and the cache's TTL passes; nothing is
\* assumed of the telemetry, the operators or maintenance.
Fairness ==
  /\ WF_vars(CacheExpires)
  /\ WF_vars(Renotify)
  /\ \A c \in Checks : WF_vars(Evaluate(c))

Spec == Init /\ [][Next]_vars
FairSpec == Spec /\ Fairness
-----------------------------------------------------------------------------
(***************************************************************************)
(* Properties.                                                             *)
(***************************************************************************)

\* The shape of every variable; a loop that is about to write to a row knows
\* which one.
TypeOK ==
  /\ rule \in [Checks -> {"enabled", "disabled", "deleted"}]
  /\ breach \in [Checks -> BOOLEAN]
  /\ window \in Scopes
  /\ inst \in [Insts -> Instance]
  /\ cache \in [fresh: BOOLEAN, covered: Scopes]
  /\ ev \in [Checks -> Evaluation]
  /\ rn \in Round
  /\ sent \in [Insts -> SUBSET Says]
  /\ faults \in 0 .. MaxFaults
  /\ \A c \in Checks : ev[c].pc \notin {"idle", "listed", "open"} => ev[c].n \in Insts
  /\ rn.pc \in {"enqueue", "mark"} => rn.n \in Insts

\* A check has at most one open alert, whatever operators, restarts and
\* failed statements come between the read and the insert (ActiveInstance,
\* OpenInstance: "one open instance per rule").
OneOpenPerCheck == \A c \in Checks : Cardinality(Open(c)) <= 1

\* A manual check never clears itself: only an alert somebody acknowledged or
\* closed is resolved (resolveOrHold).
StickyHeld ==
  \A n \in Insts :
    inst[n].state = "resolved" /\ inst[n].check \in Manual => inst[n].handled

Told(n) == sent[n] \intersect {"firing", "resolved"} # {}

\* The notify watermark is never ahead of the notification: after a stamp
\* (MarkInstanceNotified) some job was enqueued, through failures and
\* restarts.  Stamped with no job at all are only alerts whose rule names no
\* channel, for want of a profile with channels or after some failure
\* (channelsFor's fallback saves no alert that is routed by a profile).
WatermarkMeansSent ==
  \A n \in Insts : inst[n].notified # "never" =>
    \/ Told(n)
    \/ /\ "nobody" \in sent[n] /\ inst[n].check \notin Explicit
       /\ inst[n].check \in Profiled => faults < MaxFaults

\* The loops that still hold a reading of instance n they may notify from.
InFlight(n) ==
  \/ \E c \in Checks :
       /\ ev[c].n = n
       /\ \/ ev[c].pc \in {"fire", "enqueue", "mark", "announce"}
          \/ ev[c].pc = "resolve" /\ ~ev[c].handled
  \/ \E it \in rn.items : it.n = n
  \/ rn.pc \in {"enqueue", "mark"} /\ rn.n = n

\* An acknowledgement silences an alert for good: once the loops that had
\* read the row before are done with it, none of them ever notifies about it
\* again, not of its end either (FiringUnackedInstances, resolveOrHold).
AckSilences ==
  [][\A n \in Insts : inst[n].handled /\ ~InFlight(n)
                        => ~InFlight(n)' /\ sent'[n] = sent[n]]_vars

\* The renotify loop never repeats a page within its interval, nor one that
\* has no interval, although it decides from an earlier reading: for alerts
\* no maintenance window has muted, and on an integration's stream as long as
\* its profile could be read (renotifyOnce, due).
RenotifyIsPaced ==
  rn.pc = "enqueue" =>
    LET i == inst[rn.n] IN
    \/ i.notified = "never"
    \/ i.notified = "due" /\ i.check \in Recurring
    \/ i.supp \/ i.state = "gone"
    \/ i.check \in Folded /\ faults < MaxFaults

Routed(n) == inst[n].check \in Explicit \union Profiled

\* Routed for certain: a lookup that failed may have lost the page, and its
\* watermark keeps anyone from sending it again.
Reachable(n) == inst[n].check \in Explicit \/ (Routed(n) /\ faults = MaxFaults)

\* Nobody was told that it fires, or the engine does not know.
Unpaged(n) == "firing" \notin sent[n] \/ inst[n].notified = "never"

Announcing(n) == \E c \in Checks : ev[c].pc = "announce" /\ ev[c].n = n

\* Resolved by its evaluator, which is done with it.
EndedByItself(n) ==
  inst[n].state = "resolved" /\ ~inst[n].handled /\ ~Announcing(n)

\* An alert that ends by itself is announced as resolved to whoever its check
\* is routed to, unless a window muted it, also in the middle of a later
\* window (resolveOrHold).
RecoveryAnnounced ==
  \A n \in {m \in Insts : EndedByItself(m)} :
    faults = MaxFaults /\ ~inst[n].supp /\ Routed(n) => "resolved" \in sent[n]

\* Whoever was told that an alert fired is told that it ended by itself: only
\* an alert nobody was told about resolves in silence (resolveOrHold).
LoopClosed ==
  \A n \in {m \in Insts : EndedByItself(m)} :
    "firing" \in sent[n] => "resolved" \in sent[n]

\* An alert without a watermark was muted at birth, unless its first page is
\* still on its way (renotifyOnce relies on it).
NilWatermarkMeansMuted ==
  \A n \in {m \in Insts : Firing(m) /\ inst[m].check \notin Folded} :
    inst[n].notified = "never" /\ (\A c \in Checks : ev[c].n # n) => inst[n].supp

Overdue(n) ==
  /\ Firing(n) /\ ~inst[n].handled
  /\ inst[n].supp /\ Unpaged(n) /\ Reachable(n)
  /\ inst[n].check \notin Folded \union window

\* An alert that is still firing when its maintenance window ends gets its
\* overdue first page, whatever was cached and whatever failed on the way,
\* if its rule names channels or no lookup of them failed (renotifyOnce).
OverdueGetsPaged == \A n \in Insts : []<>~Overdue(n)

Untold(n) ==
  /\ Firing(n) /\ ~inst[n].handled
  /\ "firing" \notin sent[n] /\ Routed(n)
  /\ inst[n].check \notin Folded \union window

\* As long as no statement fails, nobody a check is routed to is left untold
\* of an alert that is still firing when its maintenance window ends
\* (enqueueFiring leaves the watermark unset for the renotify loop to send
\* the overdue first page).
NobodyLeftUntold == \A n \in Insts : []<>~(Untold(n) /\ faults = MaxFaults)

StreamSilent ==
  LET S == {n \in Candidates : inst[n].check \in Folded} IN
  /\ S # {}
  /\ Unpaged(First(S)) /\ Reachable(First(S))
  /\ inst[First(S)].check \notin window

\* An integration whose longest-firing unacknowledged alert is outside
\* maintenance does not stay silent about it, if that alert's rule names
\* channels or no lookup of them failed (renotifyOnce: one stream per
\* integration, sent on first sight).
StreamGetsPaged == []<>~StreamSilent

-----------------------------------------------------------------------------
(***************************************************************************)
(* The engine as a board of alerts.                                        *)
(***************************************************************************)
StateOf  == [n \in Insts |-> inst[n].state]
AboutOf  == [n \in Insts |-> inst[n].check]
Handled  == {n \in Insts : inst[n].handled}
Paged    == {n \in Insts : inst[n].notified # "never"}
Attended == {n \in Insts : InFlight(n)}

Promise == INSTANCE AlertBoard WITH
  Alerts <- Insts, state <- StateOf, check <- AboutOf, handled <- Handled,
  paged <- Paged, said <- sent, attended <- Attended, Named <- Explicit

\* Loops that read rows, decide, and write by id without a lock together
\* keep a board of alerts: one open alert per check, a manual one ended only
\* after it was handled, announcements that say what the alert is when they
\* are enqueued and that nobody starts once it is over or handled, and a
\* watermark only after an announcement, which reaches nobody at most where
\* the rule names no channels (evaluate*Rule, resolveOrHold,
\* enqueueFiring, renotifyOnce).
ImplementsBoard == Promise!BoardSpec
=============================================================================
