-------------------------- MODULE AlertEnginePaging --------------------------
(***************************************************************************)
(* What is announced, and when: theorems about AlertEngine that compare a  *)
(* reading with the row it was taken from, proved from the inductive       *)
(* invariant of AlertEngineProofs.                                         *)
(***************************************************************************)
EXTENDS AlertEngineProofs

(***************************************************************************)
(* Windows are not cancelled: then a row only progresses.                  *)
(***************************************************************************)

\* What a step does to a written row: delete it, or let it progress.
Progress(n) ==
  /\ Born(n)' /\ inst'[n].check = inst[n].check
  /\ \/ Gone(n)'
     \/ /\ ~Gone(n)
        /\ inst[n].handled => inst'[n].handled
        /\ inst[n].supp => inst'[n].supp
        /\ inst[n].state = "resolved" => inst'[n].state = "resolved"

\* The ways last_notified_at changes: the interval passes, or a loop stamps.
Ages(n) ==
  /\ inst[n].notified = "recent" /\ inst'[n].notified = "due"
  /\ UNCHANGED <<ev, rn, faults>>

Stamps(n) ==
  \/ \E c \in Checks : MarkFiring(c) /\ ev[c].n = n
  \/ MarkAgain /\ rn.n = n

\* The ways an alert ends: it is closed by hand, or its evaluator resolves it.
Ends(n) == inst'[n].handled \/ \E c \in Checks : ResolveInstance(c) /\ ev[c].n = n

RowStep(n) ==
  /\ Progress(n)
  /\ Gone(n)' \/ inst'[n].notified = inst[n].notified \/ Ages(n) \/ Stamps(n)
  /\ inst'[n].state = "resolved" => inst[n].state = "resolved" \/ Ends(n)

\* Rows that are not written stay as they are.
LEMMA SameRow ==
  ASSUME NEW n \in Insts, Born(n), inst'[n] = inst[n]
  PROVE  RowStep(n)
  BY DEF RowStep, Progress, Born, Gone

\* An UPDATE by id that lets the row progress.
LEMMA UpdateStep ==
  ASSUME TypeOK, NEW m \in Insts, NEW row \in Instance, Update(m, row),
         row.check = inst[m].check, row.state \in {inst[m].state, "resolved"},
         inst[m].handled => row.handled, inst[m].supp => row.supp,
         NEW n \in Insts, Born(n)
  PROVE  /\ Progress(n)
         /\ \/ inst'[n].notified = inst[n].notified
            \/ n = m /\ inst'[n].notified = row.notified
         /\ inst'[n].state = inst[n].state \/ n = m
         /\ inst'[n].state \in {inst[n].state, row.state}
<1>0. inst \in [Insts -> Instance]
  BY DEF TypeOK
<1>1. CASE inst'[n] = inst[n]
  BY <1>1 DEF Progress, Born, Gone
<1>2. CASE ~Gone(m) /\ inst' = [inst EXCEPT ![m] = row]
  <2>1. inst'[m] = row /\ (n # m => inst'[n] = inst[n])
    BY <1>0, <1>2
  <2>2. CASE n = m
    BY <1>2, <2>1, <2>2 DEF Progress, Born, Gone
  <2>3. CASE n # m
    BY <1>1, <2>1, <2>3
  <2> QED
    BY <2>2, <2>3
<1> QED
  BY <1>1, <1>2 DEF Update, Gone

\* Muting a row, and stamping it.
LEMMA MuteStep ==
  ASSUME TypeOK, NEW m \in Insts, MarkInstanceSuppressed(m), NEW n \in Insts, Born(n)
  PROVE  RowStep(n)
<1> DEFINE row == [inst[m] EXCEPT !.supp = TRUE]
<1>1. inst[m] \in Instance
  BY DEF TypeOK
<1>2. /\ row \in Instance /\ row.check = inst[m].check /\ row.state = inst[m].state
      /\ row.handled = inst[m].handled /\ row.supp /\ row.notified = inst[m].notified
  BY <1>1 DEF Instance
<1>3. Update(m, row)
  BY DEF MarkInstanceSuppressed
<1> HIDE DEF row
<1> QED
  BY <1>2, <1>3, UpdateStep DEF RowStep

LEMMA StampStep ==
  ASSUME TypeOK, NEW m \in Insts, MarkInstanceNotified(m), NEW n \in Insts, Born(n),
         m = n => Stamps(n)
  PROVE  RowStep(n)
<1> DEFINE row == [inst[m] EXCEPT !.notified = "recent"]
<1>1. inst[m] \in Instance
  BY DEF TypeOK
<1>2. /\ row \in Instance /\ row.check = inst[m].check /\ row.state = inst[m].state
      /\ row.handled = inst[m].handled /\ row.supp = inst[m].supp
  BY <1>1 DEF Instance, Notified
<1>3. Update(m, row)
  BY DEF MarkInstanceNotified
<1> HIDE DEF row
<1> QED
  BY <1>2, <1>3, UpdateStep DEF RowStep

LEMMA ResolveStep ==
  ASSUME TypeOK, NEW m \in Insts, Update(m, [inst[m] EXCEPT !.state = "resolved"]),
         NEW n \in Insts, Born(n), m = n => Ends(n)
  PROVE  RowStep(n)
<1> DEFINE row == [inst[m] EXCEPT !.state = "resolved"]
<1>1. inst[m] \in Instance
  BY DEF TypeOK
<1>2. /\ row \in Instance /\ row.check = inst[m].check /\ row.state = "resolved"
      /\ row.handled = inst[m].handled /\ row.supp = inst[m].supp
      /\ row.notified = inst[m].notified
  BY <1>1 DEF Instance
<1>3. Update(m, row)
  OBVIOUS
<1> HIDE DEF row
<1> QED
  BY <1>2, <1>3, UpdateStep DEF RowStep

\* What operators and time do to one open row.
LEMMA OpenRowStep ==
  ASSUME TypeOK, NEW m \in Insts,
         AcknowledgeInstance(m) \/ ResolveInstanceManual(m) \/ IntervalElapses(m),
         NEW n \in Insts, Born(n)
  PROVE  RowStep(n)
<1>0. inst \in [Insts -> Instance] /\ inst[m] \in Instance /\ Firing(m)
  BY DEF TypeOK, AcknowledgeInstance, ResolveInstanceManual, IntervalElapses
<1>1. CASE n # m
  <2>1. inst'[n] = inst[n]
    BY <1>0, <1>1 DEF AcknowledgeInstance, ResolveInstanceManual, IntervalElapses
  <2> QED
    BY <2>1, SameRow
<1>2. CASE n = m
  <2>1. CASE AcknowledgeInstance(m)
    <3>1. inst'[m] = [inst[m] EXCEPT !.handled = TRUE]
      BY <1>0, <2>1 DEF AcknowledgeInstance
    <3> QED
      BY <1>0, <1>2, <3>1 DEF Instance, RowStep, Progress, Born, Gone, Firing, Ends
  <2>2. CASE ResolveInstanceManual(m)
    <3>1. inst'[m] = [inst[m] EXCEPT !.state = "resolved", !.handled = TRUE]
      BY <1>0, <2>2 DEF ResolveInstanceManual
    <3> QED
      BY <1>0, <1>2, <3>1 DEF Instance, RowStep, Progress, Born, Gone, Firing, Ends
  <2>3. CASE IntervalElapses(m)
    <3>1. inst'[m] = [inst[m] EXCEPT !.notified = "due"] /\ inst[m].notified = "recent"
          /\ UNCHANGED <<ev, rn, faults>>
      BY <1>0, <2>3 DEF IntervalElapses
    <3> QED
      BY <1>0, <1>2, <3>1 DEF Instance, RowStep, Progress, Born, Gone, Firing, Ends, Ages
  <2> QED
    BY <2>1, <2>2, <2>3
<1> QED
  BY <1>1, <1>2

\* A deleted rule takes its rows with it.
LEMMA DeleteStep ==
  ASSUME TypeOK, NEW c \in Checks, DeleteRule(c), NEW n \in Insts, Born(n)
  PROVE  RowStep(n)
<1> DEFINE blank == [NoRow EXCEPT !.state = "gone", !.check = c]
<1>1. blank.state = "gone" /\ blank.check = c
  BY NoRowType DEF Instance
<1>2. inst'[n] = IF inst[n].check = c THEN blank ELSE inst[n]
  BY DEF DeleteRule, Born
<1> HIDE DEF blank
<1>3. CASE inst'[n] = inst[n]
  BY <1>3, SameRow
<1>4. CASE inst[n].check = c /\ inst'[n] = blank
  BY <1>1, <1>4 DEF RowStep, Progress, Born, Gone
<1> QED
  BY <1>2, <1>3, <1>4

\* An evaluator's steps.
LEMMA EvaluatorRows ==
  ASSUME EngineInv, NEW c \in Checks, Evaluate(c) \/ EvaluationFails(c),
         NEW n \in Insts, Born(n)
  PROVE  RowStep(n)
<1>0. TypeOK /\ (ev[c].pc \notin {"idle", "listed", "open"} => ev[c].n \in Insts)
      /\ inst \in [Insts -> Instance]
  BY DEF EngineInv, TypeOK
<1>1. CASE UNCHANGED inst
  BY <1>1, SameRow
<1>2. CASE OpenInstance(c)
  BY <1>0, <1>2, SameRow DEF OpenInstance, Free, Born
<1>3. CASE EnqueueFiring(c)
  BY <1>0, <1>1, <1>3, MuteStep DEF EnqueueFiring
<1>4. CASE MarkFiring(c)
  BY <1>0, <1>4, StampStep DEF MarkFiring, Stamps
<1>5. CASE ResolveInstance(c)
  BY <1>0, <1>5, ResolveStep DEF ResolveInstance, Ends
<1> QED
  BY <1>1, <1>2, <1>3, <1>4, <1>5
     DEF Evaluate, EvaluationFails, ListRules, EvaluateRule, FoldFiring, SendFiring,
         AnnounceResolved

\* The renotify loop's steps.
LEMMA RenotifyRows ==
  ASSUME EngineInv, Renotify \/ ReadUnfolded \/ ReadPartly \/ RenotifyFails,
         NEW n \in Insts, Born(n)
  PROVE  RowStep(n)
<1>0. TypeOK /\ (rn.pc \in {"enqueue", "mark"} => rn.n \in Insts)
      /\ (\A it \in rn.items : it.n \in Insts) /\ rn.stamp \subseteq Insts
  BY DEF EngineInv, TypeOK, Round, Item
<1>1. CASE UNCHANGED inst
  BY <1>1, SameRow
<1>2. ASSUME NEW it \in rn.items, RenotifyCheck(it) PROVE RowStep(n)
  BY <1>0, <1>1, <1>2, MuteStep DEF RenotifyCheck
<1>3. ASSUME NEW m \in rn.stamp, StampStream(m) PROVE RowStep(n)
  BY <1>0, <1>3, MuteStep DEF StampStream
<1>4. CASE MarkAgain
  BY <1>0, <1>4, StampStep DEF MarkAgain, Stamps
<1> QED
  BY <1>1, <1>2, <1>3, <1>4
     DEF Renotify, ReadUnfolded, ReadPartly, RenotifyFails, FiringUnackedInstances, SendAgain,
         RoundEnds, RenotifyIntegration

\* Every step but the cancelling of a window.
LEMMA RowsStepOrCancel ==
  ASSUME EngineInv, [Next]_vars, NEW n \in Insts, Born(n)
  PROVE  RowStep(n) \/ CancelWindow
<1>0. TypeOK
  BY DEF EngineInv
<1>1. CASE UNCHANGED inst
  BY <1>1, SameRow
<1>2. CASE \E c \in Checks : DeleteRule(c)
  BY <1>0, <1>2, DeleteStep
<1>3. CASE \E m \in Insts : AcknowledgeInstance(m) \/ ResolveInstanceManual(m)
                            \/ IntervalElapses(m)
  BY <1>0, <1>3, OpenRowStep
<1> QED
  BY <1>1, <1>2, <1>3, EvaluatorRows, RenotifyRows
     DEF Next, vars, SignalChanges, UpdateRule, WindowChanges, CacheExpires, Restart

\* Every step, when windows are not cancelled.
LEMMA RowsStep ==
  ASSUME EngineInv, ~Cancels, [Next]_vars, NEW n \in Insts, Born(n)
  PROVE  RowStep(n)
  BY RowsStepOrCancel DEF CancelWindow

\* Every step: a written row stays written, and stays with its check.
LEMMA RowsStay ==
  ASSUME EngineInv, [Next]_vars, NEW n \in Insts, Born(n)
  PROVE  Born(n)' /\ inst'[n].check = inst[n].check
<1>1. CASE RowStep(n)
  BY <1>1 DEF RowStep, Progress
<1>2. CASE CancelWindow
  <2>1. inst[n] \in Instance
    BY DEF EngineInv, TypeOK
  <2> QED
    BY <1>2, <2>1 DEF CancelWindow, Instance, Born
<1> QED
  BY <1>1, <1>2, RowsStepOrCancel

\* A row nobody has written is written by opening an alert, and by nothing
\* else.
LEMMA UnwrittenRow ==
  ASSUME EngineInv, [Next]_vars, NEW n \in Insts, ~Born(n)
  PROVE  inst'[n].state \in {"none", "firing"}
<1>0. /\ inst \in [Insts -> Instance]
      /\ \A c \in Checks : ev[c].pc \notin {"idle", "listed", "open"} => Born(ev[c].n)
      /\ \A it \in rn.items : Born(it.n)
      /\ \A m \in rn.stamp : Born(m)
      /\ rn.pc \in {"enqueue", "mark"} => Born(rn.n)
  BY DEF EngineInv, TypeOK, EvOK, RnOK
<1>1. ASSUME NEW m, Born(m), NEW row, Update(m, row)
      PROVE  inst'[n] = inst[n]
  BY <1>0, <1>1 DEF Update
<1>2. CASE inst'[n] = inst[n]
  BY <1>2 DEF Born
<1>3. ASSUME NEW c \in Checks, OpenInstance(c)
      PROVE  inst'[n].state \in {"none", "firing"}
  <2>1. CASE UNCHANGED inst
    BY <1>2, <2>1
  <2>2. ASSUME NEW m \in Free,
               inst' = [inst EXCEPT ![m] = [NoRow EXCEPT !.state = "firing", !.check = c]]
        PROVE  inst'[n].state \in {"none", "firing"}
    <3>1. [NoRow EXCEPT !.state = "firing", !.check = c].state = "firing"
      BY NoRowType DEF Instance
    <3>2. CASE n = m
      BY <1>0, <2>2, <3>1, <3>2
    <3>3. CASE n # m
      BY <1>0, <1>2, <2>2, <3>3
    <3> QED
      BY <3>2, <3>3
  <2> QED
    BY <1>3, <2>1, <2>2 DEF OpenInstance
<1>4. ASSUME NEW c \in Checks, Evaluate(c) \/ EvaluationFails(c)
      PROVE  inst'[n].state \in {"none", "firing"}
  BY <1>0, <1>1, <1>2, <1>3, <1>4
     DEF Evaluate, EvaluationFails, ListRules, EvaluateRule, EnqueueFiring, FoldFiring,
         SendFiring, MarkFiring, ResolveInstance, AnnounceResolved, MarkInstanceSuppressed,
         MarkInstanceNotified
<1>5. CASE Renotify \/ ReadUnfolded \/ ReadPartly \/ RenotifyFails
  BY <1>0, <1>1, <1>2, <1>5
     DEF Renotify, ReadUnfolded, ReadPartly, RenotifyFails, FiringUnackedInstances, SendAgain,
         MarkAgain, RoundEnds, RenotifyCheck, RenotifyIntegration, StampStream,
         MarkInstanceSuppressed, MarkInstanceNotified
<1>6. CASE CancelWindow
  <2>1. NoRow.supp = FALSE /\ inst[n] = NoRow
    BY DEF NoRow, EngineInv, RowOK
  <2> QED
    BY <1>2, <1>6, <2>1 DEF CancelWindow
<1>7. CASE \E m \in Insts : AcknowledgeInstance(m) \/ ResolveInstanceManual(m)
                            \/ IntervalElapses(m)
  BY <1>0, <1>2, <1>7
     DEF AcknowledgeInstance, ResolveInstanceManual, IntervalElapses, Firing, Born
<1>8. CASE \E c \in Checks : DeleteRule(c)
  BY <1>0, <1>2, <1>8 DEF DeleteRule, Born
<1> QED
  BY <1>2, <1>4, <1>5, <1>6, <1>7, <1>8
     DEF Next, vars, SignalChanges, UpdateRule, WindowChanges, CacheExpires, Restart

\* Faults are not given back.
LEMMA FaultsFall ==
  ASSUME EngineInv, [Next]_vars
  PROVE  faults' <= faults
<1>0. faults \in Nat
  BY BoundsAssumption DEF EngineInv, TypeOK
<1>1. ASSUME NEW k \in Nat, Spend(k) PROVE faults' <= faults
  BY <1>0, <1>1 DEF Spend
<1>2. ASSUME NEW c \in Checks, SendFiring(c) PROVE faults' <= faults
  <2>1. PICK failed \in BOOLEAN : Spend(Cost(c \in Folded) + Cost(failed))
    BY <1>2 DEF SendFiring
  <2>2. Cost(c \in Folded) + Cost(failed) \in Nat
    BY DEF Cost
  <2> QED
    BY <1>1, <2>1, <2>2
<1>3. CASE SendAgain \/ \E c \in Checks : AnnounceResolved(c)
  BY <1>1, <1>3, CostType DEF SendAgain, AnnounceResolved
<1>4. CASE faults' = faults \/ faults' = faults - 1
  BY <1>0, <1>4
<1> QED
  BY <1>2, <1>3, <1>4
     DEF Next, vars, SignalChanges, UpdateRule, DeleteRule, WindowChanges, CancelWindow,
         CacheExpires, AcknowledgeInstance, ResolveInstanceManual, IntervalElapses, Evaluate,
         ListRules, EvaluateRule, OpenInstance, EnqueueFiring, FoldFiring,
         MarkFiring, ResolveInstance, EvaluationFails, suppressedBy,
         Renotify, FiringUnackedInstances, MarkAgain, RoundEnds, RenotifyCheck,
         RenotifyIntegration, StampStream, ReadUnfolded, ReadPartly, RenotifyFails, Restart

\* Once a fault is spent, it stays spent.
LEMMA FaultsSpent ==
  ASSUME EngineInv, [Next]_vars, faults < MaxFaults
  PROVE  faults' < MaxFaults
<1>1. faults \in Nat /\ MaxFaults \in Nat /\ faults' \in Nat
  BY NextInv, BoundsAssumption DEF EngineInv, TypeOK
<1> QED
  BY <1>1, FaultsFall

\* A step of one evaluator moves no other.
LEMMA EvaluatorOnly ==
  ASSUME EngineInv, NEW c \in Checks, Evaluate(c) \/ EvaluationFails(c)
  PROVE  \A d \in Checks : d # c => ev'[d] = ev[d]
<1>1. \E e : GoTo(c, e)
  BY DEF Evaluate, EvaluationFails, ListRules, EvaluateRule, OpenInstance, EnqueueFiring,
         FoldFiring, SendFiring, MarkFiring, ResolveInstance, AnnounceResolved
<1> QED
  BY <1>1 DEF GoTo, EngineInv, TypeOK

\* At most one evaluator moves, unless the process restarts.
LEMMA OneMoves ==
  ASSUME EngineInv, [Next]_vars
  PROVE  \/ ev' = ev
         \/ Restart
         \/ \E c \in Checks : /\ Evaluate(c) \/ EvaluationFails(c)
                              /\ \A d \in Checks : d # c => ev'[d] = ev[d]
<1>1. CASE Renotify \/ ReadUnfolded \/ ReadPartly \/ RenotifyFails
  BY <1>1 DEF Renotify, ReadUnfolded, ReadPartly, RenotifyFails, FiringUnackedInstances,
              SendAgain, MarkAgain, RoundEnds, RenotifyCheck, RenotifyIntegration, StampStream
<1> QED
  BY <1>1, EvaluatorOnly
     DEF Next, vars, SignalChanges, UpdateRule, DeleteRule, WindowChanges, CancelWindow,
         CacheExpires, AcknowledgeInstance, ResolveInstanceManual, IntervalElapses

\* No announcement is taken back.
LEMMA SentGrows ==
  ASSUME EngineInv, [Next]_vars, NEW n \in Insts
  PROVE  sent[n] \subseteq sent'[n]
<1>0. sent \in [Insts -> SUBSET Says]
  BY DEF EngineInv, TypeOK
<1>1. ASSUME NEW m, NEW routed, EnqueueJobs(m, routed) PROVE sent[n] \subseteq sent'[n]
  BY <1>0, <1>1 DEF EnqueueJobs
<1>2. ASSUME NEW c \in Checks, Evaluate(c) \/ EvaluationFails(c)
      PROVE  sent[n] \subseteq sent'[n]
  BY <1>1, <1>2
     DEF Evaluate, EvaluationFails, ListRules, EvaluateRule, OpenInstance, EnqueueFiring,
         FoldFiring, SendFiring, MarkFiring, ResolveInstance, AnnounceResolved
<1>3. CASE Renotify \/ ReadUnfolded \/ ReadPartly \/ RenotifyFails
  BY <1>1, <1>3
     DEF Renotify, ReadUnfolded, ReadPartly, RenotifyFails, FiringUnackedInstances, SendAgain,
         MarkAgain, RoundEnds, RenotifyCheck, RenotifyIntegration, StampStream
<1> QED
  BY <1>2, <1>3
     DEF Next, vars, SignalChanges, UpdateRule, DeleteRule, WindowChanges, CancelWindow,
         CacheExpires, AcknowledgeInstance, ResolveInstanceManual, IntervalElapses, Restart

-----------------------------------------------------------------------------
(***************************************************************************)
(* Announcements that come to nobody.                                      *)
(***************************************************************************)

\* What can keep an alert of check c from everybody.
Unrouted(c) == c \notin Explicit /\ (c \in Profiled => faults < MaxFaults)

\* An announcement came to nobody only for lack of a channel.
NobodyOK ==
  \A n \in Insts : "nobody" \in sent[n] => Born(n) /\ Unrouted(inst[n].check)

\* What every step keeps.
Steady ==
  /\ \A n \in Insts : Born(n) => Born(n)' /\ inst'[n].check = inst[n].check
  /\ faults' <= faults

\* A step that announces nothing.
LEMMA SilentStep ==
  ASSUME TypeOK, TypeOK', NobodyOK, Steady, sent' = sent
  PROVE  NobodyOK'
  BY BoundsAssumption DEF TypeOK, NobodyOK, Steady, Unrouted

\* A step that enqueues: an empty list of channels has its reason.
LEMMA EnqueueStep ==
  ASSUME EngineInv, TypeOK', NobodyOK, Steady, NEW n \in Insts, Born(n),
         NEW routed, EnqueueJobs(n, routed),
         routed \/ Unrouted(inst[n].check)' \/ Gone(n)
  PROVE  NobodyOK'
<1>1. inst[n] \in Instance /\ sent \in [Insts -> SUBSET Says]
  BY DEF EngineInv, TypeOK
<1>2. \A m \in Insts : m # n => sent'[m] = sent[m]
  BY <1>1 DEF EnqueueJobs
<1>3. \A m \in Insts : "nobody" \in sent[m] => Born(m)' /\ Unrouted(inst[m].check)'
  BY BoundsAssumption DEF EngineInv, TypeOK, NobodyOK, Steady, Unrouted
<1>4. "nobody" \in sent'[n] => "nobody" \in sent[n] \/ Unrouted(inst[n].check)'
  <2>1. CASE Gone(n)
    BY <1>1, <2>1 DEF EnqueueJobs, Gone
  <2>2. CASE ~Gone(n) /\ routed
    BY <1>1, <2>2 DEF EnqueueJobs, Gone, Instance
  <2>3. CASE ~Gone(n) /\ ~routed
    BY <2>3
  <2> QED
    BY <2>1, <2>2, <2>3
<1>5. Born(n)' /\ inst'[n].check = inst[n].check
  BY DEF Steady
<1> QED
  BY <1>2, <1>3, <1>4, <1>5 DEF NobodyOK, Unrouted

\* Every step.
LEMMA NobodyStays ==
  ASSUME EngineInv, NobodyOK, [Next]_vars
  PROVE  NobodyOK'
<1>0. EngineInv' /\ Steady /\ TypeOK /\ TypeOK'
  BY NextInv, RowsStay, FaultsFall DEF Steady, EngineInv
<1>1. CASE UNCHANGED sent
  BY <1>0, <1>1, SilentStep
<1>2. /\ faults \in 0 .. MaxFaults /\ faults' \in 0 .. MaxFaults /\ MaxFaults \in Nat
      /\ \A c \in Checks : ev[c].pc \in {"enqueue", "announce"} =>
           ev[c].n \in Insts /\ Born(ev[c].n) /\ inst[ev[c].n].check = c
      /\ rn.pc = "enqueue" => rn.n \in Insts /\ Born(rn.n)
  BY <1>0, BoundsAssumption DEF EngineInv, TypeOK, EvOK, RnOK
<1>3. ASSUME NEW n \in Insts, Born(n), NEW failed \in BOOLEAN, NEW b \in BOOLEAN,
             CanFail(inst[n].check, failed), Spend(Cost(b) + Cost(failed)),
             EnqueueJobs(n, channelsFor(inst[n].check, failed))
      PROVE  NobodyOK'
  <2>1. failed => faults' < MaxFaults
    BY <1>2, <1>3 DEF Spend, Cost
  <2>2. channelsFor(inst[n].check, failed) \/ Unrouted(inst[n].check)'
    BY <1>0, <1>3, <2>1 DEF channelsFor, Unrouted, Steady
  <2> QED
    BY <1>0, <1>3, <2>2, EnqueueStep
<1>4. ASSUME NEW n \in Insts, Born(n), EnqueueJobs(n, TRUE) PROVE NobodyOK'
  BY <1>0, <1>4, EnqueueStep
<1>5. ASSUME NEW c \in Checks, SendFiring(c) PROVE NobodyOK'
  <2>1. (c \in Folded) \in BOOLEAN
    OBVIOUS
  <2> QED
    BY <1>2, <1>3, <1>5, <2>1 DEF SendFiring
<1>6. ASSUME NEW failed \in BOOLEAN, Spend(Cost(failed))
      PROVE  Spend(Cost(FALSE) + Cost(failed))
  BY <1>6 DEF Spend, Cost
<1>7. ASSUME NEW c \in Checks, AnnounceResolved(c) PROVE NobodyOK'
  BY <1>2, <1>3, <1>6, <1>7 DEF AnnounceResolved
<1>8. CASE SendAgain
  BY <1>2, <1>3, <1>6, <1>8 DEF SendAgain
<1>9. ASSUME NEW c \in Checks, Evaluate(c) \/ EvaluationFails(c) PROVE NobodyOK'
  BY <1>1, <1>2, <1>4, <1>5, <1>7, <1>9
     DEF Evaluate, EvaluationFails, ListRules, EvaluateRule, OpenInstance, EnqueueFiring,
         FoldFiring, MarkFiring, ResolveInstance
<1>10. CASE Renotify \/ ReadUnfolded \/ ReadPartly \/ RenotifyFails
  BY <1>1, <1>2, <1>4, <1>8, <1>10
     DEF Renotify, ReadUnfolded, ReadPartly, RenotifyFails, FiringUnackedInstances,
         MarkAgain, RoundEnds, RenotifyCheck, RenotifyIntegration, StampStream
<1> QED
  BY <1>1, <1>9, <1>10
     DEF Next, vars, SignalChanges, UpdateRule, DeleteRule, WindowChanges, CancelWindow,
         CacheExpires, AcknowledgeInstance, ResolveInstanceManual, IntervalElapses, Restart

\* The notify watermark is never ahead of the notification (MarkInstanceNotified
\* runs after EnqueueJobs, by id, in both loops), and an alert is stamped with
\* no job at all only where the list of channels was empty: never when its
\* rule names channels, and when its profile has some only after a failure
\* (channelsFor).
THEOREM WatermarkHolds == Spec => []WatermarkMeansSent
<1>1. Init => NobodyOK
  BY DEF Init, NobodyOK
<1>2. EngineInv /\ NobodyOK /\ [Next]_vars => NobodyOK'
  BY NobodyStays
<1>3. EngineInv /\ NobodyOK => WatermarkMeansSent
  <2> SUFFICES ASSUME EngineInv, NobodyOK, NEW n \in Insts, inst[n].notified # "never",
                      ~Told(n)
               PROVE  "nobody" \in sent[n] /\ Unrouted(inst[n].check)
    BY DEF WatermarkMeansSent, Unrouted
  <2>1. sent[n] # {} /\ sent[n] \subseteq Says
    BY DEF EngineInv, TypeOK, RowOK
  <2>2. "nobody" \in sent[n]
    BY <2>1 DEF Told, Says
  <2> QED
    BY <2>2 DEF NobodyOK
<1> QED
  BY <1>1, <1>2, <1>3, EngineInvHolds, PTL DEF Spec

-----------------------------------------------------------------------------
(***************************************************************************)
(* The end of an alert.                                                    *)
(***************************************************************************)

\* What resolveOrHold read before it wrote still says why it may be silent.
EvEnds(c) ==
  LET n == ev[c].n IN
  /\ ev[c].pc = "resolve" =>
       Gone(n) \/ ((ev[c].handled => inst[n].handled) /\ (ev[c].supp => inst[n].supp))
  /\ ev[c].pc = "announce" => inst[n].state \in {"resolved", "gone"}

\* An alert that ended by itself was announced or is being announced.
EndTold(n) ==
  /\ inst[n].state = "resolved" /\ ~inst[n].handled /\ ~inst[n].supp
  /\ faults = MaxFaults /\ Routed(n)
  => "resolved" \in sent[n] \/ Announcing(n)

EndInv ==
  /\ EngineInv
  /\ \A c \in Checks : EvEnds(c)
  /\ \A n \in Insts : EndTold(n)

\* An evaluator that does not move: its reading stays good.
LEMMA EndsStay ==
  ASSUME EngineInv, ~Cancels, [Next]_vars, NEW c \in Checks, EvEnds(c), ev'[c] = ev[c]
  PROVE  EvEnds(c)'
<1>1. CASE ev[c].pc \notin {"resolve", "announce"}
  BY <1>1 DEF EvEnds
<1>2. CASE ev[c].pc \in {"resolve", "announce"}
  <2>1. ev[c].n \in Insts /\ Born(ev[c].n)
    BY <1>2 DEF EngineInv, TypeOK, EvOK
  <2>2. Progress(ev[c].n)
    BY <2>1, RowsStep DEF RowStep
  <2> QED
    BY <1>2, <2>2 DEF EvEnds, Progress, Gone
<1> QED
  BY <1>1, <1>2

\* An evaluator that moves reads what the row says, and resolves the row
\* before it announces.
LEMMA EndsMove ==
  ASSUME EngineInv, NEW c \in Checks, EvEnds(c), Evaluate(c) \/ EvaluationFails(c)
  PROVE  EvEnds(c)'
<1>0. /\ ev \in [Checks -> Evaluation] /\ ev[c] \in Evaluation
      /\ inst \in [Insts -> Instance]
      /\ ev[c].pc = "resolve" => ev[c].n \in Insts
  BY DEF EngineInv, TypeOK
<1>1. ASSUME NEW e, GoTo(c, e), e.pc \notin {"resolve", "announce"}
      PROVE  EvEnds(c)'
  <2>1. ev'[c] = e
    BY <1>0, <1>1 DEF GoTo
  <2> QED
    BY <1>1, <2>1 DEF EvEnds
<1>2. Idle.pc = "idle" /\ [Idle EXCEPT !.pc = "listed"].pc = "listed"
      /\ [Idle EXCEPT !.pc = "open"].pc = "open"
      /\ \A m : [Idle EXCEPT !.pc = "fire", !.n = m].pc = "fire"
      /\ [ev[c] EXCEPT !.pc = "enqueue"].pc = "enqueue"
      /\ [ev[c] EXCEPT !.pc = "mark"].pc = "mark"
  BY <1>0 DEF Idle, Evaluation
<1>3. CASE ListRules(c) \/ OpenInstance(c) \/ EnqueueFiring(c) \/ FoldFiring(c)
           \/ SendFiring(c) \/ MarkFiring(c) \/ AnnounceResolved(c) \/ EvaluationFails(c)
  BY <1>1, <1>2, <1>3
     DEF ListRules, OpenInstance, EnqueueFiring, FoldFiring, SendFiring, MarkFiring,
         AnnounceResolved, EvaluationFails
<1>4. CASE EvaluateRule(c)
  <2>1. ASSUME NEW n, GoTo(c, [pc |-> "resolve", n |-> n,
                               handled |-> inst[n].handled, supp |-> inst[n].supp])
        PROVE  EvEnds(c)'
    <3>1. ev'[c] = [pc |-> "resolve", n |-> n,
                    handled |-> inst[n].handled, supp |-> inst[n].supp]
          /\ inst' = inst
      BY <1>0, <1>4, <2>1 DEF GoTo, EvaluateRule
    <3> QED
      BY <3>1 DEF EvEnds
  <2> QED
    BY <1>1, <1>2, <1>4, <2>1 DEF EvaluateRule
<1>5. CASE ResolveInstance(c)
  <2> DEFINE n == ev[c].n
             f == [ev[c] EXCEPT !.pc = "announce"]
  <2>1. f.pc = "announce" /\ f.n = n
    BY <1>0 DEF Evaluation
  <2>2. n \in Insts /\ Update(n, [inst[n] EXCEPT !.state = "resolved"])
    BY <1>0, <1>5 DEF ResolveInstance
  <2>3. inst'[n].state \in {"resolved", "gone"}
    BY <1>0, <2>2 DEF Update, Instance
  <2>4. CASE GoTo(c, f)
    <3>1. ev'[c] = f
      BY <1>0, <2>4 DEF GoTo
    <3> QED
      BY <2>1, <2>3, <3>1 DEF EvEnds
  <2> QED
    BY <1>1, <1>2, <1>5, <2>4 DEF ResolveInstance
<1> QED
  BY <1>3, <1>4, <1>5 DEF Evaluate

\* An alert that has ended was announced, or its evaluator is about to.
LEMMA EndStaysTold ==
  ASSUME EndInv, ~Cancels, [Next]_vars, NEW n \in Insts
  PROVE  EndTold(n)'
<1> SUFFICES ASSUME inst'[n].state = "resolved", ~inst'[n].handled, ~inst'[n].supp,
                    faults' = MaxFaults, Routed(n)'
             PROVE  ("resolved" \in sent[n])' \/ Announcing(n)'
  BY DEF EndTold
<1>0. EngineInv /\ EndTold(n) /\ \A c \in Checks : EvEnds(c)
  BY DEF EndInv
<1>1. faults = MaxFaults /\ faults \in Nat
  <2>1. faults \in 0 .. MaxFaults /\ MaxFaults \in Nat
    BY <1>0, BoundsAssumption DEF EngineInv, TypeOK
  <2> QED
    BY <1>0, <2>1, FaultsSpent
<1>2. Born(n)
  BY <1>0, UnwrittenRow
<1>3. RowStep(n) /\ ~Gone(n)'
  BY <1>0, <1>2, RowsStep DEF Gone
<1>4. ~Restart /\ \A c \in Checks : ~EvaluationFails(c)
  <2>1. /\ Restart => faults' = faults - 1
        /\ \A c \in Checks : EvaluationFails(c) => faults' = faults - 1
    BY Zenon DEF Restart, EvaluationFails
  <2> QED
    BY <1>1, <2>1
<1>5. CASE inst[n].state = "resolved"
  <2>1. "resolved" \in sent[n] \/ Announcing(n)
    <3>1. Routed(n)
      BY <1>3 DEF RowStep, Progress, Routed
    <3> QED
      BY <1>0, <1>1, <1>3, <1>5, <3>1 DEF RowStep, Progress, EndTold
  <2>2. CASE "resolved" \in sent[n]
    BY <1>0, <2>2, SentGrows
  <2>3. ASSUME NEW c \in Checks, ev[c].pc = "announce", ev[c].n = n
        PROVE  ("resolved" \in sent[n])' \/ Announcing(n)'
    <3>1. CASE ev'[c] = ev[c]
      BY <2>3, <3>1 DEF Announcing
    <3>2. CASE Evaluate(c)
      <4>1. PICK failed \in BOOLEAN :
              Spend(Cost(failed)) /\ EnqueueJobs(n, channelsFor(c, failed))
        BY <2>3, <3>2
           DEF Evaluate, ListRules, EvaluateRule, OpenInstance, EnqueueFiring, FoldFiring,
               SendFiring, MarkFiring, ResolveInstance, AnnounceResolved
      <4>2. ~failed
        BY <1>1, <4>1 DEF Spend, Cost
      <4>3. inst[n].check = c /\ inst'[n].check = inst[n].check
        BY <1>0, <1>3, <2>3 DEF EngineInv, EvOK, RowStep, Progress
      <4>4. channelsFor(c, failed)
        BY <4>2, <4>3 DEF channelsFor, Routed
      <4> QED
        BY <1>0, <1>5, <4>1, <4>4 DEF EnqueueJobs, EngineInv, TypeOK
    <3> QED
      BY <1>0, <1>4, <3>1, <3>2, OneMoves
  <2> QED
    BY <2>1, <2>2, <2>3 DEF Announcing
<1>6. CASE inst[n].state # "resolved"
  <2>1. PICK c \in Checks : ResolveInstance(c) /\ ev[c].n = n
    BY <1>3, <1>6 DEF RowStep, Ends
  <2>2. ev \in [Checks -> Evaluation] /\ ev[c] \in Evaluation /\ ev[c].pc = "resolve"
    BY <1>0, <2>1 DEF EngineInv, TypeOK, ResolveInstance
  <2>3. Loud(ev[c])
    BY <1>0, <1>3, <2>1, <2>2 DEF EvEnds, RowStep, Progress, Loud
  <2>4. ev'[c] = [ev[c] EXCEPT !.pc = "announce"]
    BY <2>1, <2>2, <2>3 DEF ResolveInstance, GoTo
  <2>5. ev'[c].pc = "announce" /\ ev'[c].n = n
    BY <2>1, <2>2, <2>4 DEF Evaluation
  <2> QED
    BY <2>5 DEF Announcing
<1> QED
  BY <1>5, <1>6

\* An alert that ends by itself is announced as resolved, unless it was muted
\* or something failed, for any checks, windows and operators: resolveOrHold
\* decides from what was read before the UPDATE, and nobody closes, mutes or
\* acknowledges in between in a way that would silence it wrongly.
THEOREM RecoveryAnnouncedHolds == ~Cancels => (Spec => []RecoveryAnnounced)
<1> SUFFICES ASSUME ~Cancels PROVE Spec => []RecoveryAnnounced
  OBVIOUS
<1>1. Init => EndInv
  <2>1. ASSUME Init, NEW n \in Insts PROVE EndTold(n)
    BY <2>1, NoRowType DEF Init, EndTold
  <2>2. ASSUME Init, NEW c \in Checks PROVE EvEnds(c)
    BY <2>2 DEF Init, Idle, EvEnds
  <2> QED
    BY <2>1, <2>2, InitInv DEF EndInv
<1>2. EndInv /\ [Next]_vars => EndInv'
  <2> SUFFICES ASSUME EndInv, [Next]_vars PROVE EndInv'
    OBVIOUS
  <2>1. EngineInv'
    BY NextInv DEF EndInv
  <2>2. ASSUME NEW c \in Checks PROVE EvEnds(c)'
    <3>1. CASE Restart
      BY <3>1 DEF Restart, Idle, EvEnds
    <3> QED
      BY <3>1, OneMoves, EndsStay, EndsMove DEF EndInv
  <2> QED
    BY <2>1, <2>2, EndStaysTold DEF EndInv
<1>3. EndInv => RecoveryAnnounced
  BY DEF EndInv, EndTold, RecoveryAnnounced, EndedByItself
<1> QED
  BY <1>1, <1>2, <1>3, PTL DEF Spec

-----------------------------------------------------------------------------
(***************************************************************************)
(* The pace of repeated pages.                                             *)
(***************************************************************************)

\* Where RenotifyIsPaced promises nothing; once so, always so.
Excused(n) ==
  inst[n].supp \/ Gone(n) \/ (inst[n].check \in Folded /\ faults < MaxFaults)

\* The renotify loop has decided to page n and is not done.
Paging(n) == rn.pc \in {"enqueue", "mark"} /\ rn.n = n

\* An evaluator is busy with the first page of an alert.
FirstPage(c) == c \notin Folded /\ ev[c].pc \in {"fire", "enqueue", "mark"}

\* As long as it is, the row has no watermark and the renotify loop has not
\* seen one.
EvPace(c) ==
  LET n == ev[c].n IN
  /\ ev[c].pc \notin {"idle", "listed", "open"} => inst[n].check = c
  /\ c \in Folded /\ ev[c].pc = "mark" => faults < MaxFaults
  /\ FirstPage(c) /\ ~Excused(n) =>
       /\ inst[n].notified = "never" /\ ~Paging(n)
       /\ \A it \in rn.items : it.n = n => it.notified = "never"

\* What the renotify loop has read of an instance, one reading per instance,
\* is still good where it would page from it.
ItemPace(it) ==
  /\ it.supp => inst[it.n].supp \/ Gone(it.n)
  /\ it.grouped => inst[it.n].check \in Folded
  /\ ~Excused(it.n) /\ it.notified = "due" => inst[it.n].notified = "due"
  /\ ~Excused(it.n) /\ it.grouped /\ it.notified = "never" => inst[it.n].notified = "never"
  /\ \A o \in rn.items : o.n = it.n => o = it
  /\ ~Paging(it.n)

PaceInv ==
  /\ EngineInv
  /\ \A c \in Checks : EvPace(c)
  /\ \A it \in rn.items : ItemPace(it)
  /\ RenotifyIsPaced

\* What most steps do to a written row.
Calm(n) ==
  /\ inst'[n].check = inst[n].check
  /\ inst[n].supp \/ Gone(n) => inst'[n].supp \/ Gone(n)'
  /\ Excused(n) => Excused(n)'
  /\ \/ Excused(n)' \/ inst'[n].notified = inst[n].notified
     \/ inst[n].notified = "recent" /\ inst'[n].notified = "due"

\* Every step is calm, but for stamps on rows that are not excused.
LEMMA RowsCalm ==
  ASSUME EngineInv, ~Cancels, [Next]_vars, NEW n \in Insts, Born(n),
         Stamps(n) => Excused(n)
  PROVE  Calm(n)
<1>1. RowStep(n)
  BY RowsStep
<1>2. faults < MaxFaults => faults' < MaxFaults
  BY FaultsSpent
<1>3. Excused(n) => Excused(n)'
  BY <1>1, <1>2 DEF RowStep, Progress, Excused, Gone
<1>4. inst[n].supp \/ Gone(n) => inst'[n].supp \/ Gone(n)'
  BY <1>1 DEF RowStep, Progress
<1>5. Gone(n)' => Excused(n)'
  BY DEF Excused
<1> QED
  BY <1>1, <1>3, <1>4, <1>5 DEF RowStep, Progress, Ages, Calm

\* An evaluator that stands still or goes on with the same instance, while
\* the renotify loop sees nothing new of it.
LEMMA EvPaceMoves ==
  ASSUME NEW c \in Checks, NEW n, EvPace(c), ev[c].n = n, ev'[c].n = n,
         ev[c].pc \notin {"idle", "listed", "open"} \/ ev'[c].pc \in {"idle", "listed", "open"},
         FirstPage(c)' => FirstPage(c),
         c \in Folded /\ ev'[c].pc = "mark" => faults' < MaxFaults,
         ev[c].pc \notin {"idle", "listed", "open"} => inst'[n].check = inst[n].check,
         FirstPage(c) => Calm(n),
         FirstPage(c) /\ Paging(n)' => Paging(n) \/ Excused(n),
         \A it \in rn'.items :
           it \in rn.items \/ (it.n = n => it.notified = inst[n].notified)
  PROVE  EvPace(c)'
<1>1. CASE ev'[c].pc \in {"idle", "listed", "open"}
  BY <1>1 DEF EvPace, FirstPage
<1>2. CASE ev[c].pc \notin {"idle", "listed", "open"}
  <2>1. inst[n].check = c /\ inst'[n].check = c
    BY <1>2 DEF EvPace
  <2>2. ASSUME FirstPage(c), ~Excused(n)'
        PROVE  /\ inst'[n].notified = "never" /\ ~Paging(n)'
               /\ \A it \in rn'.items : it.n = n => it.notified = "never"
    <3>1. ~Excused(n) /\ Calm(n)
      BY <2>2 DEF Calm
    <3>2. inst[n].notified = "never" /\ ~Paging(n)
          /\ \A it \in rn.items : it.n = n => it.notified = "never"
      BY <2>2, <3>1 DEF EvPace, Excused, Paging, Gone
    <3> QED
      BY <2>2, <3>1, <3>2 DEF Calm
  <2> QED
    BY <2>1, <2>2 DEF EvPace, Excused, Paging, Gone
<1> QED
  BY <1>1, <1>2

LEMMA EvPaceStays ==
  ASSUME NEW c \in Checks, NEW n, EvPace(c), ev[c].n = n, ev'[c] = ev[c],
         faults < MaxFaults => faults' < MaxFaults,
         ev[c].pc \notin {"idle", "listed", "open"} => inst'[n].check = inst[n].check,
         FirstPage(c) => Calm(n),
         FirstPage(c) /\ Paging(n)' => Paging(n) \/ Excused(n),
         \A it \in rn'.items :
           it \in rn.items \/ (it.n = n => it.notified = inst[n].notified)
  PROVE  EvPace(c)'
<1>1. FirstPage(c)' => FirstPage(c)
  BY DEF FirstPage
<1>2. c \in Folded /\ ev'[c].pc = "mark" => faults' < MaxFaults
  BY DEF EvPace
<1> QED
  BY <1>1, <1>2, EvPaceMoves

\* A reading that is kept, while the loop does not turn to its instance.
LEMMA ItemPaceStays ==
  ASSUME NEW it \in rn.items, ItemPace(it), Calm(it.n), rn'.items \subseteq rn.items,
         ~Paging(it.n)'
  PROVE  ItemPace(it)'
<1>1. ~Excused(it.n)' => ~Excused(it.n)
  BY DEF Calm
<1>2. ~Excused(it.n)' /\ it.notified = "due" => inst'[it.n].notified = "due"
  BY <1>1 DEF Calm, ItemPace
<1>3. ~Excused(it.n)' /\ it.grouped /\ it.notified = "never"
        => inst'[it.n].notified = "never"
  BY <1>1 DEF Calm, ItemPace
<1>4. it.supp => inst'[it.n].supp \/ Gone(it.n)'
  BY DEF Calm, ItemPace
<1>5. it.grouped => inst'[it.n].check \in Folded
  BY DEF Calm, ItemPace
<1>6. \A o \in rn'.items : o.n = it.n => o = it
  BY DEF ItemPace
<1> QED
  BY <1>2, <1>3, <1>4, <1>5, <1>6 DEF ItemPace

\* A page the renotify loop has decided on.
LEMMA PacedStays ==
  ASSUME NEW n, rn.n = n, RenotifyIsPaced,
         rn'.pc = "enqueue" => rn.pc = "enqueue" /\ rn'.n = n,
         rn.pc = "enqueue" => Calm(n)
  PROVE  RenotifyIsPaced'
<1> SUFFICES ASSUME rn'.pc = "enqueue", ~Excused(n)'
             PROVE  \/ inst'[n].notified = "never"
                    \/ inst'[n].notified = "due" /\ inst'[n].check \in Recurring
  BY DEF RenotifyIsPaced, Excused, Gone
<1>1. Calm(n) /\ ~Excused(n)
  BY DEF Calm
<1>2. \/ inst[n].notified = "never"
      \/ inst[n].notified = "due" /\ inst[n].check \in Recurring
  BY <1>1 DEF RenotifyIsPaced, Excused, Gone
<1> QED
  BY <1>1, <1>2 DEF Calm

\* A step in which the renotify loop turns to no instance.
LEMMA RoundPace ==
  ASSUME PaceInv, EngineInv', \A c \in Checks : EvPace(c)',
         \A it \in rn.items : Calm(it.n),
         \A n \in Insts : rn.pc = "enqueue" /\ rn.n = n => Calm(n),
         rn'.items \subseteq rn.items,
         rn'.pc \in {"enqueue", "mark"} => rn.pc \in {"enqueue", "mark"} /\ rn'.n = rn.n,
         rn'.pc = "enqueue" => rn.pc = "enqueue"
  PROVE  PaceInv'
<1>1. \A it \in rn'.items : ItemPace(it)'
  <2> SUFFICES ASSUME NEW it \in rn'.items PROVE ItemPace(it)'
    OBVIOUS
  <2>1. it \in rn.items /\ ItemPace(it) /\ Calm(it.n)
    BY DEF PaceInv
  <2>2. ~Paging(it.n)'
    BY <2>1 DEF ItemPace, Paging
  <2> QED
    BY <2>1, <2>2, ItemPaceStays
<1>2. RenotifyIsPaced'
  <2>1. rn.pc = "enqueue" => rn.n \in Insts
    BY DEF PaceInv, EngineInv, TypeOK
  <2> QED
    BY <2>1, PacedStays DEF PaceInv
<1> QED
  BY <1>1, <1>2 DEF PaceInv

\* The loops stand where they stood.
LEMMA WorldPace ==
  ASSUME PaceInv, ~Cancels, [Next]_vars, ev' = ev, rn' = rn
  PROVE  PaceInv'
<1>0. EngineInv /\ EngineInv' /\ (faults < MaxFaults => faults' < MaxFaults)
      /\ RnOK /\ rn \in Round
  BY NextInv, FaultsSpent DEF PaceInv, EngineInv, TypeOK
<1>1. \A n \in Insts : ~Stamps(n)
  <2>1. \A c \in Checks : ~MarkFiring(c)
    BY <1>0 DEF MarkFiring, GoTo, Idle, EngineInv, TypeOK
  <2>2. ~MarkAgain
    BY <1>0 DEF MarkAgain, Round
  <2> QED
    BY <2>1, <2>2 DEF Stamps
<1>2. \A n \in Insts : Born(n) => Calm(n)
  BY <1>0, <1>1, RowsCalm
<1>3. ASSUME NEW c \in Checks PROVE EvPace(c)'
  <2> DEFINE n == ev[c].n
  <2>1. ev[c].pc \notin {"idle", "listed", "open"} => n \in Insts /\ Born(n)
    BY <1>0 DEF EngineInv, TypeOK, EvOK
  <2>2. FirstPage(c) => n \in Insts /\ Born(n)
    BY <2>1 DEF FirstPage
  <2> QED
    BY <1>0, <1>2, <2>1, <2>2, EvPaceStays DEF Paging, PaceInv, Calm
<1>4. \A it \in rn.items : it.n \in Insts /\ Born(it.n)
  BY <1>0 DEF Round, Item, RnOK
<1>5. rn.pc = "enqueue" => rn.n \in Insts /\ Born(rn.n)
  BY <1>0 DEF EngineInv, TypeOK, RnOK
<1> QED
  BY <1>0, <1>2, <1>3, <1>4, <1>5, RoundPace

\* Where the loops stand, rows are written.
LEMMA Written ==
  ASSUME EngineInv
  PROVE  /\ \A c \in Checks : ev[c].pc \notin {"idle", "listed", "open"}
                                => ev[c].n \in Insts /\ Born(ev[c].n)
         /\ \A c \in Checks : FirstPage(c) => ev[c].n \in Insts /\ Born(ev[c].n)
         /\ \A it \in rn.items : it.n \in Insts /\ Born(it.n)
         /\ rn.pc \in {"enqueue", "mark"} => rn.n \in Insts /\ Born(rn.n)
  BY DEF EngineInv, TypeOK, EvOK, RnOK, Round, Item, FirstPage

\* One evaluator moves, and the renotify loop stands still.
LEMMA EvaluatorFrame ==
  ASSUME PaceInv, EngineInv', NEW c \in Checks, rn' = rn,
         \A d \in Checks : d # c => ev'[d] = ev[d],
         faults < MaxFaults => faults' < MaxFaults,
         \A n \in Insts : Born(n) => Calm(n),
         EvPace(c)'
  PROVE  PaceInv'
<1>0. EngineInv
  BY DEF PaceInv
<1>1. ASSUME NEW d \in Checks PROVE EvPace(d)'
  <2>1. CASE d = c
    BY <2>1
  <2>2. CASE d # c
    <3> DEFINE n == ev[d].n
    <3>1. (ev[d].pc \notin {"idle", "listed", "open"} => n \in Insts /\ Born(n))
          /\ (FirstPage(d) => n \in Insts /\ Born(n))
      BY <1>0, Written
    <3> QED
      BY <2>2, <3>1, EvPaceStays DEF Paging, PaceInv, Calm
  <2> QED
    BY <2>1, <2>2
<1> QED
  BY <1>0, <1>1, Written, RoundPace

\* The evaluators' steps, but for the stamp.
LEMMA EvaluatorPace ==
  ASSUME PaceInv, ~Cancels, [Next]_vars, NEW c \in Checks, Evaluate(c) \/ EvaluationFails(c),
         \A d \in Checks : d # c => ev'[d] = ev[d], \A n \in Insts : ~Stamps(n)
  PROVE  PaceInv'
<1>0. /\ EngineInv /\ EngineInv' /\ (faults < MaxFaults => faults' < MaxFaults)
      /\ ev \in [Checks -> Evaluation] /\ ev[c] \in Evaluation /\ EvPace(c)
      /\ inst \in [Insts -> Instance]
  BY NextInv, FaultsSpent DEF PaceInv, EngineInv, TypeOK
<1>1. rn' = rn
  BY DEF Evaluate, EvaluationFails, ListRules, EvaluateRule, OpenInstance, EnqueueFiring,
         FoldFiring, SendFiring, MarkFiring, ResolveInstance, AnnounceResolved
<1>2. \A n \in Insts : Born(n) => Calm(n)
  BY <1>0, RowsCalm
<1> SUFFICES EvPace(c)'
  BY <1>0, <1>1, <1>2, EvaluatorFrame
<1>3. ASSUME NEW e, GoTo(c, e), e.pc \in {"idle", "listed", "open"}
      PROVE  EvPace(c)'
  <2>1. ev'[c] = e
    BY <1>0, <1>3 DEF GoTo
  <2> QED
    BY <1>3, <2>1 DEF EvPace, FirstPage
<1>4. ASSUME NEW e, GoTo(c, e), e.n = ev[c].n,
             ev[c].pc \notin {"idle", "listed", "open"},
             e.pc \in {"fire", "enqueue", "mark"} => ev[c].pc \in {"fire", "enqueue", "mark"},
             c \in Folded /\ e.pc = "mark" => faults' < MaxFaults
      PROVE  EvPace(c)'
  <2> DEFINE n == ev[c].n
  <2>1. ev'[c] = e
    BY <1>0, <1>4 DEF GoTo
  <2>2. n \in Insts /\ Born(n)
    BY <1>0, <1>4, Written
  <2>3. FirstPage(c)' => FirstPage(c)
    BY <1>4, <2>1 DEF FirstPage
  <2> QED
    BY <1>0, <1>1, <1>2, <1>4, <2>1, <2>2, <2>3, EvPaceMoves DEF Calm, Paging
<1>5. Idle.pc = "idle" /\ [Idle EXCEPT !.pc = "listed"].pc = "listed"
      /\ [Idle EXCEPT !.pc = "open"].pc = "open"
  BY DEF Idle
<1>6. CASE ListRules(c) \/ FoldFiring(c) \/ MarkFiring(c) \/ AnnounceResolved(c)
           \/ EvaluationFails(c)
  BY <1>3, <1>5, <1>6
     DEF ListRules, FoldFiring, MarkFiring, AnnounceResolved, EvaluationFails
<1>7. CASE EvaluateRule(c)
  <2>1. ASSUME NEW n \in Active(c),
               GoTo(c, [pc |-> "resolve", n |-> n,
                        handled |-> inst[n].handled, supp |-> inst[n].supp])
        PROVE  EvPace(c)'
    <3>1. ev'[c].pc = "resolve" /\ ev'[c].n = n /\ inst' = inst
      BY <1>0, <1>7, <2>1 DEF GoTo, EvaluateRule
    <3>2. inst[n].check = c
      BY DEF Active, Open
    <3> QED
      BY <3>1, <3>2 DEF EvPace, FirstPage
  <2> QED
    BY <1>3, <1>5, <1>7, <2>1 DEF EvaluateRule
<1>8. CASE OpenInstance(c)
  <2>1. ASSUME NEW n \in Free,
               inst' = [inst EXCEPT ![n] = [NoRow EXCEPT !.state = "firing", !.check = c]],
               GoTo(c, [Idle EXCEPT !.pc = "fire", !.n = n])
        PROVE  EvPace(c)'
    <3> DEFINE row == [NoRow EXCEPT !.state = "firing", !.check = c]
    <3>1. n \in Insts /\ ~Born(n)
      BY DEF Free, Born
    <3>2. row.check = c /\ row.notified = "never"
      BY NoRowType DEF Instance
    <3> HIDE DEF row
    <3>3. inst'[n] = row
      BY <1>0, <2>1, <3>1 DEF row
    <3>4. ev'[c] = [Idle EXCEPT !.pc = "fire", !.n = n]
      BY <1>0, <2>1 DEF GoTo
    <3>5. ev'[c].pc = "fire" /\ ev'[c].n = n
      BY <3>4 DEF Idle
    <3>6. ~Paging(n)' /\ \A it \in rn'.items : it.n # n
      BY <1>0, <1>1, <3>1, Written DEF Paging
    <3> QED
      BY <3>2, <3>3, <3>5, <3>6 DEF EvPace, Paging
  <2> QED
    BY <1>3, <1>5, <1>8, <2>1 DEF OpenInstance
<1>9. CASE EnqueueFiring(c)
  <2>1. [ev[c] EXCEPT !.pc = "enqueue"].n = ev[c].n
        /\ [ev[c] EXCEPT !.pc = "enqueue"].pc = "enqueue"
    BY <1>0 DEF Evaluation
  <2> QED
    BY <1>3, <1>4, <1>5, <1>9, <2>1 DEF EnqueueFiring
<1>10. CASE SendFiring(c)
  <2>1. [ev[c] EXCEPT !.pc = "mark"].n = ev[c].n /\ [ev[c] EXCEPT !.pc = "mark"].pc = "mark"
    BY <1>0 DEF Evaluation
  <2>2. c \in Folded => faults' < MaxFaults
    <3>1. faults \in 0 .. MaxFaults /\ MaxFaults \in Nat
      BY <1>0, BoundsAssumption DEF EngineInv, TypeOK
    <3> QED
      BY <1>10, <3>1 DEF SendFiring, Spend, Cost
  <2> QED
    BY <1>4, <1>10, <2>1, <2>2 DEF SendFiring
<1>11. CASE ResolveInstance(c)
  <2>1. [ev[c] EXCEPT !.pc = "announce"].n = ev[c].n
        /\ [ev[c] EXCEPT !.pc = "announce"].pc = "announce"
    BY <1>0 DEF Evaluation
  <2> QED
    BY <1>3, <1>4, <1>5, <1>11, <2>1 DEF ResolveInstance
<1> QED
  BY <1>6, <1>7, <1>8, <1>9, <1>10, <1>11 DEF Evaluate

\* The first page is stamped: the renotify loop had nothing but its absence.
LEMMA MarkFiringPace ==
  ASSUME PaceInv, ~Cancels, [Next]_vars, NEW c \in Checks, MarkFiring(c)
  PROVE  PaceInv'
<1>0. /\ EngineInv /\ EngineInv' /\ (faults < MaxFaults => faults' < MaxFaults)
      /\ ev \in [Checks -> Evaluation] /\ EvPace(c) /\ inst \in [Insts -> Instance]
  BY NextInv, FaultsSpent DEF PaceInv, EngineInv, TypeOK
<1>1. PICK n \in Insts : n = ev[c].n /\ Born(n)
  BY <1>0, Written DEF MarkFiring
<1>2. rn' = rn /\ faults' = faults /\ ev[c].pc = "mark" /\ ev'[c] = Idle
      /\ \A d \in Checks : d # c => ev'[d] = ev[d]
  BY <1>0 DEF MarkFiring, GoTo
<1>3. EvPace(c)'
  BY <1>2 DEF EvPace, Idle, FirstPage
<1>4. \A m \in Insts : m # n => inst'[m] = inst[m]
  BY <1>0, <1>1 DEF MarkFiring, MarkInstanceNotified, Update
<1>5. \A m \in Insts : m # n => Calm(m)
  BY <1>2, <1>4 DEF Calm, Excused, Gone
<1>6. CASE Excused(n)
  <2>1. Calm(n)
    BY <1>0, <1>1, <1>6, RowsCalm
  <2> QED
    BY <1>0, <1>2, <1>3, <1>5, <2>1, EvaluatorFrame
<1>7. CASE ~Excused(n)
  <2>1. inst[n].check = c /\ c \notin Folded
    BY <1>0, <1>1, <1>2, <1>7 DEF EvPace, Excused
  <2>2. ~Paging(n) /\ \A it \in rn.items : it.n = n => it.notified = "never"
    BY <1>0, <1>1, <1>2, <1>7, <2>1 DEF EvPace, FirstPage
  <2>3. Progress(n)
    BY <1>0, <1>1, RowsStep DEF RowStep
  <2>4. ASSUME NEW d \in Checks, d # c PROVE EvPace(d)'
    <3>0. EvPace(d)
      BY DEF PaceInv
    <3>1. CASE ev[d].pc \in {"idle", "listed", "open"}
      BY <1>2, <2>4, <3>1 DEF EvPace, FirstPage
    <3>2. CASE ev[d].pc \notin {"idle", "listed", "open"}
      <4>1. PICK m \in Insts : m = ev[d].n /\ Born(m) /\ m # n
        BY <1>0, <1>1, <2>1, <2>4, <3>0, <3>2, Written DEF EvPace
      <4> QED
        BY <1>0, <1>2, <1>4, <1>5, <2>4, <3>0, <4>1, EvPaceStays DEF Paging
    <3> QED
      BY <3>1, <3>2
  <2>5. ASSUME NEW it \in rn.items PROVE ItemPace(it)'
    <3>0. ItemPace(it) /\ it.n \in Insts
      BY <1>0, Written DEF PaceInv
    <3>1. ~Paging(it.n)'
      BY <1>2, <3>0 DEF Paging, ItemPace
    <3>2. CASE it.n # n
      BY <1>2, <1>5, <3>0, <3>1, <3>2, ItemPaceStays
    <3>3. CASE it.n = n
      <4>1. it.notified = "never" /\ ~it.grouped
        BY <2>1, <2>2, <3>0, <3>3 DEF ItemPace
      <4>2. it.supp => inst'[n].supp \/ Gone(n)'
        BY <2>3, <3>0, <3>3 DEF ItemPace, Progress
      <4> QED
        BY <1>2, <3>0, <3>1, <3>3, <4>1, <4>2 DEF ItemPace
    <3> QED
      BY <3>2, <3>3
  <2>6. RenotifyIsPaced'
    <3>1. rn.pc = "enqueue" => rn.n \in Insts /\ rn.n # n
      BY <1>0, <2>2, Written DEF Paging
    <3> QED
      BY <1>2, <1>5, <3>1, PacedStays DEF PaceInv
  <2> QED
    BY <1>0, <1>2, <1>3, <2>4, <2>5, <2>6 DEF PaceInv
<1> QED
  BY <1>6, <1>7

\* The evaluators stand still and the renotify loop turns to no instance.
LEMMA RoundFrame ==
  ASSUME PaceInv, EngineInv', ev' = ev,
         faults < MaxFaults => faults' < MaxFaults,
         \A n \in Insts : Born(n) => Calm(n),
         rn'.items \subseteq rn.items,
         rn'.pc \in {"enqueue", "mark"} => rn.pc \in {"enqueue", "mark"} /\ rn'.n = rn.n,
         rn'.pc = "enqueue" => rn.pc = "enqueue"
  PROVE  PaceInv'
<1>0. EngineInv
  BY DEF PaceInv
<1>1. ASSUME NEW d \in Checks PROVE EvPace(d)'
  <2> DEFINE n == ev[d].n
  <2>1. (ev[d].pc \notin {"idle", "listed", "open"} => n \in Insts /\ Born(n))
        /\ (FirstPage(d) => n \in Insts /\ Born(n))
    BY <1>0, Written
  <2> QED
    BY <2>1, EvPaceStays DEF Paging, PaceInv, Calm
<1> QED
  BY <1>0, <1>1, Written, RoundPace

\* A round is read: the readings are what the rows say, one per instance.
LEMMA ReadPace ==
  ASSUME PaceInv, ~Cancels, [Next]_vars,
         FiringUnackedInstances \/ ReadUnfolded \/ ReadPartly
  PROVE  PaceInv'
<1>0. /\ EngineInv /\ EngineInv' /\ (faults < MaxFaults => faults' < MaxFaults)
      /\ UNCHANGED <<inst, ev>>
  BY NextInv, FaultsSpent DEF PaceInv, FiringUnackedInstances, ReadUnfolded, ReadPartly
<1>1. ASSUME NEW S, rn' = [IdleRound EXCEPT !.pc = "scan", !.items = S],
             \A it \in S : /\ it.notified = inst[it.n].notified
                           /\ it.supp = inst[it.n].supp
                           /\ it.grouped => inst[it.n].check \in Folded
                           /\ \A o \in S : o.n = it.n => o = it
      PROVE  PaceInv'
  <2>1. rn'.pc = "scan" /\ rn'.items = S
    BY <1>1 DEF IdleRound
  <2>2. \A n : ~Paging(n)'
    BY <2>1 DEF Paging
  <2>3. \A n \in Insts : Calm(n)
    BY <1>0 DEF Calm, Excused, Gone
  <2>4. ASSUME NEW d \in Checks PROVE EvPace(d)'
    <3> DEFINE n == ev[d].n
    <3>1. FirstPage(d) => n \in Insts
      BY <1>0, Written
    <3> QED
      BY <1>0, <1>1, <2>1, <2>2, <2>3, <3>1, EvPaceStays DEF PaceInv
  <2>5. ASSUME NEW it \in S PROVE ItemPace(it)'
    BY <1>0, <1>1, <2>1, <2>2 DEF ItemPace
  <2> QED
    BY <1>0, <2>1, <2>4, <2>5 DEF PaceInv, RenotifyIsPaced
<1>2. CASE FiringUnackedInstances
  <2> DEFINE S == {Read(n, inst[n].check \in Folded) : n \in Candidates}
  <2>1. ASSUME NEW it \in S
        PROVE  /\ it.notified = inst[it.n].notified
               /\ it.supp = inst[it.n].supp
               /\ it.grouped => inst[it.n].check \in Folded
               /\ \A o \in S : o.n = it.n => o = it
    <3>1. PICK n \in Candidates : it = Read(n, inst[n].check \in Folded)
      OBVIOUS
    <3>2. \A o \in S : \E k \in Candidates : o = Read(k, inst[k].check \in Folded) /\ o.n = k
      BY DEF Read
    <3>3. \A o \in S : o.n = n => o = it
      BY <3>1, <3>2
    <3> QED
      BY <3>1, <3>3 DEF Read
  <2> QED
    BY <1>1, <1>2, <2>1 DEF FiringUnackedInstances
<1>3. CASE ReadUnfolded
  <2>1. PICK m \in Candidates :
          rn' = [IdleRound EXCEPT !.pc = "scan",
            !.items = {Read(n, inst[n].check \in Folded /\ n # m) : n \in Candidates}]
    BY <1>3 DEF ReadUnfolded
  <2> DEFINE S == {Read(n, inst[n].check \in Folded /\ n # m) : n \in Candidates}
  <2>2. ASSUME NEW it \in S
        PROVE  /\ it.notified = inst[it.n].notified
               /\ it.supp = inst[it.n].supp
               /\ it.grouped => inst[it.n].check \in Folded
               /\ \A o \in S : o.n = it.n => o = it
    <3>1. PICK n \in Candidates : it = Read(n, inst[n].check \in Folded /\ n # m)
      OBVIOUS
    <3>2. \A o \in S : \E k \in Candidates : o = Read(k, inst[k].check \in Folded /\ k # m) /\ o.n = k
      BY DEF Read
    <3>3. \A o \in S : o.n = n => o = it
      BY <3>1, <3>2
    <3> QED
      BY <3>1, <3>3 DEF Read
  <2> QED
    BY <1>1, <2>1, <2>2
<1>4. CASE ReadPartly
  <2>1. PICK m \in Candidates :
          rn' = [IdleRound EXCEPT !.pc = "scan",
            !.items = {Read(n, inst[n].check \in Folded) : n \in Candidates \ {m}}]
    BY <1>4 DEF ReadPartly
  <2> DEFINE S == {Read(n, inst[n].check \in Folded) : n \in Candidates \ {m}}
  <2>2. ASSUME NEW it \in S
        PROVE  /\ it.notified = inst[it.n].notified
               /\ it.supp = inst[it.n].supp
               /\ it.grouped => inst[it.n].check \in Folded
               /\ \A o \in S : o.n = it.n => o = it
    <3>1. PICK n \in Candidates : it = Read(n, inst[n].check \in Folded)
      OBVIOUS
    <3>2. \A o \in S : \E k \in Candidates : o = Read(k, inst[k].check \in Folded) /\ o.n = k
      BY DEF Read
    <3>3. \A o \in S : o.n = n => o = it
      BY <3>1, <3>2
    <3> QED
      BY <3>1, <3>3 DEF Read
  <2> QED
    BY <1>1, <2>1, <2>2
<1> QED
  BY <1>2, <1>3, <1>4

\* The renotify loop turns to an instance: it has a reason that still holds.
LEMMA TurnPace ==
  ASSUME PaceInv, ~Cancels, [Next]_vars, \A n \in Insts : ~Stamps(n),
         NEW it \in rn.items, RenotifyCheck(it) \/ RenotifyIntegration(it)
  PROVE  PaceInv'
<1>0. /\ EngineInv /\ EngineInv' /\ (faults < MaxFaults => faults' < MaxFaults)
      /\ rn \in Round /\ rn.pc = "scan" /\ ev' = ev
      /\ it.n \in Insts /\ Born(it.n) /\ ItemPace(it)
  BY NextInv, FaultsSpent, Written
     DEF PaceInv, EngineInv, TypeOK, RenotifyCheck, RenotifyIntegration
<1>1. \A n \in Insts : Born(n) => Calm(n)
  BY <1>0, RowsCalm
<1>2. CASE rn'.pc = "scan" /\ rn'.items \subseteq rn.items
  BY <1>0, <1>1, <1>2, RoundFrame
<1>3. CASE /\ rn'.pc = "enqueue" /\ rn'.n = it.n /\ rn'.items \subseteq rn.items \ {it}
           /\ Owed(it) \/ Due(it) \/ (it.grouped /\ it.notified = "never")
  <2> DEFINE n == it.n
  <2>1. \A o \in rn'.items : o \in rn.items /\ o.n # n
    BY <1>0, <1>3 DEF ItemPace
  <2>2. Calm(n)
    BY <1>0, <1>1
  <2>3. Excused(n) \/ Due(it) \/ (it.grouped /\ it.notified = "never")
    BY <1>0, <1>3 DEF ItemPace, Owed, Excused
  <2>4. RenotifyIsPaced'
    <3> SUFFICES ASSUME ~Excused(n)'
                 PROVE  \/ inst'[n].notified = "never"
                        \/ inst'[n].notified = "due" /\ inst'[n].check \in Recurring
      BY <1>3 DEF RenotifyIsPaced, Excused, Gone
    <3>1. ~Excused(n)
      BY <2>2 DEF Calm
    <3>2. \/ inst[n].notified = "never"
          \/ inst[n].notified = "due" /\ inst[n].check \in Recurring
      BY <1>0, <2>3, <3>1 DEF ItemPace, Due, Recurs, CheckOf
    <3> QED
      BY <2>2, <3>2 DEF Calm
  <2>5. ASSUME NEW o \in rn'.items PROVE ItemPace(o)'
    <3>1. o \in rn.items /\ o.n # n /\ ItemPace(o) /\ o.n \in Insts /\ Born(o.n)
      BY <1>0, <2>1, Written DEF PaceInv
    <3>2. ~Paging(o.n)'
      BY <1>3, <3>1 DEF Paging
    <3> QED
      BY <1>1, <1>3, <3>1, <3>2, ItemPaceStays
  <2>6. ASSUME NEW d \in Checks PROVE EvPace(d)'
    <3> DEFINE m == ev[d].n
    <3>0. EvPace(d)
          /\ (ev[d].pc \notin {"idle", "listed", "open"} => m \in Insts /\ Born(m))
          /\ (FirstPage(d) => m \in Insts /\ Born(m))
      BY <1>0, Written DEF PaceInv
    <3>1. ASSUME FirstPage(d), m = n PROVE Excused(n)
      <4>1. CASE it.grouped
        BY <1>0, <3>0, <3>1, <4>1 DEF ItemPace, EvPace, FirstPage
      <4>2. CASE ~it.grouped /\ ~Excused(n)
        BY <2>3, <3>0, <3>1, <4>2 DEF EvPace, Due
      <4> QED
        BY <4>1, <4>2
    <3>2. \A k : k = m => (FirstPage(d) /\ Paging(k)' => Paging(k) \/ Excused(k))
      BY <1>3, <3>1 DEF Paging
    <3>3. \A o \in rn'.items : o \in rn.items
      BY <2>1
    <3> QED
      BY <1>0, <1>1, <3>0, <3>2, <3>3, EvPaceStays DEF Calm
  <2> QED
    BY <1>0, <2>4, <2>5, <2>6 DEF PaceInv
<1>4. CASE RenotifyCheck(it)
  <2>1. CASE rn' = [rn EXCEPT !.items = @ \ {it}]
    BY <1>0, <1>2, <2>1 DEF Round
  <2>2. CASE /\ Owed(it) \/ Due(it)
             /\ rn' = [rn EXCEPT !.items = @ \ {it}, !.pc = "enqueue", !.n = it.n]
    BY <1>0, <1>3, <2>2 DEF Round
  <2> QED
    BY <1>4, <2>1, <2>2 DEF RenotifyCheck
<1>5. CASE RenotifyIntegration(it)
  <2>0. it.grouped
    BY <1>5 DEF RenotifyIntegration, Stream
  <2>1. ASSUME NEW S, rn' = [rn EXCEPT !.items = {}, !.stamp = S] PROVE PaceInv'
    BY <1>0, <1>2, <2>1 DEF Round
  <2>2. CASE rn' = [rn EXCEPT !.items = {}]
    BY <1>0, <1>2, <2>2 DEF Round
  <2>3. CASE /\ it.notified = "never" \/ Due(it)
             /\ rn' = [rn EXCEPT !.items = {}, !.pc = "enqueue", !.n = it.n]
    BY <1>0, <1>3, <2>0, <2>3 DEF Round
  <2> QED
    BY <1>5, <2>1, <2>2, <2>3 DEF RenotifyIntegration
<1> QED
  BY <1>4, <1>5

\* The rest of a round, but for the stamp.
LEMMA RestPace ==
  ASSUME PaceInv, ~Cancels, [Next]_vars, \A n \in Insts : ~Stamps(n),
         \/ SendAgain \/ RoundEnds \/ RenotifyFails \/ \E n \in rn.stamp : StampStream(n)
  PROVE  PaceInv'
<1>0. /\ EngineInv /\ EngineInv' /\ (faults < MaxFaults => faults' < MaxFaults)
      /\ rn \in Round /\ ev' = ev
  BY NextInv, FaultsSpent
     DEF PaceInv, EngineInv, TypeOK, SendAgain, RoundEnds, RenotifyFails, StampStream
<1>1. \A n \in Insts : Born(n) => Calm(n)
  BY <1>0, RowsCalm
<1>2. \/ rn'.items \subseteq rn.items /\ rn'.pc \notin {"enqueue", "mark"}
      \/ rn'.items = rn.items /\ rn.pc = "enqueue" /\ rn'.pc = "mark" /\ rn'.n = rn.n
  <2>1. CASE rn.pc = "enqueue" /\ rn' = [rn EXCEPT !.pc = "mark"]
    BY <1>0, <2>1 DEF Round
  <2>2. CASE rn' = [rn EXCEPT !.pc = "scan", !.n = 0]
    BY <1>0, <2>2 DEF Round
  <2>3. CASE rn' = IdleRound
    BY <2>3 DEF IdleRound
  <2>4. ASSUME NEW m, rn.pc = "scan", rn' = [rn EXCEPT !.stamp = @ \ {m}]
        PROVE  rn'.items \subseteq rn.items /\ rn'.pc \notin {"enqueue", "mark"}
    BY <1>0, <2>4 DEF Round
  <2>5. ASSUME NEW it, rn.pc = "scan", rn' = [rn EXCEPT !.items = @ \ {it}]
        PROVE  rn'.items \subseteq rn.items /\ rn'.pc \notin {"enqueue", "mark"}
    BY <1>0, <2>5 DEF Round
  <2> QED
    BY <2>1, <2>2, <2>3, <2>4, <2>5 DEF SendAgain, RoundEnds, RenotifyFails, StampStream
<1> QED
  BY <1>0, <1>1, <1>2, RoundFrame

\* A repeated page is stamped: no reading of the instance is left, and no
\* first page of it is on its way.
LEMMA MarkAgainPace ==
  ASSUME PaceInv, ~Cancels, [Next]_vars, MarkAgain
  PROVE  PaceInv'
<1>0. /\ EngineInv /\ EngineInv' /\ (faults < MaxFaults => faults' < MaxFaults)
      /\ rn \in Round /\ ev' = ev /\ inst \in [Insts -> Instance] /\ faults' = faults
  BY NextInv, FaultsSpent DEF PaceInv, EngineInv, TypeOK, MarkAgain
<1>1. PICK n \in Insts : n = rn.n /\ Born(n) /\ Paging(n)
  BY <1>0, Written DEF MarkAgain, Paging
<1>2. rn'.items = rn.items /\ rn'.pc = "scan" /\ rn.pc = "mark"
  BY <1>0 DEF MarkAgain, Round
<1>3. \A m \in Insts : m # n => inst'[m] = inst[m]
  BY <1>0, <1>1 DEF MarkAgain, MarkInstanceNotified, Update
<1>4. \A m \in Insts : m # n => Calm(m)
  BY <1>0, <1>3 DEF Calm, Excused, Gone
<1>5. \A it \in rn.items : it.n \in Insts /\ it.n # n
  BY <1>0, <1>1, Written DEF PaceInv, ItemPace
<1>6. inst'[n].check = inst[n].check /\ (Excused(n) => Calm(n))
  BY <1>0, <1>1, RowsStep, RowsCalm DEF RowStep, Progress
<1>7. ASSUME NEW d \in Checks PROVE EvPace(d)'
  <2> DEFINE m == ev[d].n
  <2>0. EvPace(d)
        /\ (ev[d].pc \notin {"idle", "listed", "open"} => m \in Insts /\ Born(m))
        /\ (FirstPage(d) => m \in Insts /\ Born(m))
    BY <1>0, Written DEF PaceInv
  <2>1. FirstPage(d) => m # n \/ Excused(n)
    BY <1>1, <2>0 DEF EvPace
  <2>2. \A k : ~Paging(k)'
    BY <1>2 DEF Paging
  <2>3. ev[d].pc \notin {"idle", "listed", "open"} => inst'[m].check = inst[m].check
    BY <1>3, <1>6, <2>0
  <2>4. \A k \in Insts : k = m /\ FirstPage(d) => Calm(k)
    BY <1>4, <1>6, <2>1
  <2> QED
    BY <1>0, <1>2, <2>0, <2>2, <2>3, <2>4, EvPaceStays
<1> QED
  BY <1>0, <1>2, <1>4, <1>5, <1>7, RoundPace

\* Whatever fails or restarts, the renotify loop never repeats a page within
\* its interval, nor one without an interval, except for alerts that were
\* muted, deleted, or whose profile could not be read: it decides from rows
\* read at the start of the round while evaluators and operators write them
\* (renotifyOnce, due, MarkInstanceNotified).
THEOREM RenotifyIsPacedHolds == ~Cancels => (Spec => []RenotifyIsPaced)
<1> SUFFICES ASSUME ~Cancels PROVE Spec => []RenotifyIsPaced
  OBVIOUS
<1>1. Init => PaceInv
  <2> SUFFICES ASSUME Init PROVE PaceInv
    OBVIOUS
  <2>1. rn.items = {} /\ rn.pc = "idle" /\ \A c \in Checks : ev[c].pc = "idle"
    BY DEF Init, Idle, IdleRound
  <2> QED
    BY <2>1, InitInv DEF PaceInv, EvPace, FirstPage, RenotifyIsPaced
<1>2. PaceInv /\ [Next]_vars => PaceInv'
  <2> SUFFICES ASSUME PaceInv, [Next]_vars PROVE PaceInv'
    OBVIOUS
  <2>1. CASE \E n \in Insts : Stamps(n)
    BY <2>1, MarkFiringPace, MarkAgainPace DEF Stamps
  <2>2. CASE \A n \in Insts : ~Stamps(n)
    <3>1. CASE Restart
      <4>1. rn'.items = {} /\ rn'.pc = "idle" /\ \A c \in Checks : ev'[c].pc = "idle"
        BY <3>1 DEF Restart, Idle, IdleRound
      <4> QED
        BY <4>1, NextInv DEF PaceInv, EvPace, FirstPage, RenotifyIsPaced
    <3>2. CASE \E c \in Checks : Evaluate(c) \/ EvaluationFails(c)
      <4>1. PICK c \in Checks : Evaluate(c) \/ EvaluationFails(c)
        BY <3>2
      <4>2. \A d \in Checks : d # c => ev'[d] = ev[d]
        BY <4>1, EvaluatorOnly DEF PaceInv
      <4> QED
        BY <2>2, <4>1, <4>2, EvaluatorPace
    <3>3. CASE Renotify \/ ReadUnfolded \/ ReadPartly \/ RenotifyFails
      <4>1. ~MarkAgain
        BY <2>2, Written DEF Stamps, MarkAgain, PaceInv
      <4> QED
        BY <2>2, <3>3, <4>1, ReadPace, TurnPace, RestPace DEF Renotify
    <3>4. CASE ev' = ev /\ rn' = rn
      BY <3>4, WorldPace
    <3> QED
      BY <3>1, <3>2, <3>3, <3>4
         DEF Next, vars, SignalChanges, UpdateRule, DeleteRule, WindowChanges, CancelWindow,
             CacheExpires, AcknowledgeInstance, ResolveInstanceManual, IntervalElapses
  <2> QED
    BY <2>1, <2>2
<1>3. PaceInv => RenotifyIsPaced
  BY DEF PaceInv
<1> QED
  BY <1>1, <1>2, <1>3, PTL DEF Spec

-----------------------------------------------------------------------------
(***************************************************************************)
(* The silence after an acknowledgement, whether windows are cancelled or  *)
(* not.                                                                    *)
(***************************************************************************)


\* The two kinds of reading that InFlight speaks of.
EvHolds(n) ==
  \E c \in Checks :
    /\ ev[c].n = n
    /\ \/ ev[c].pc \in {"fire", "enqueue", "mark", "announce"}
       \/ ev[c].pc = "resolve" /\ ~ev[c].handled

RnHolds(n) ==
  \/ \E it \in rn.items : it.n = n
  \/ rn.pc \in {"enqueue", "mark"} /\ rn.n = n

\* What is worth a loop's attention.
Stands(n) == Firing(n) /\ ~inst[n].handled

\* What AckSilences says of one instance.
Silent(n) == ~EvHolds(n)' /\ ~RnHolds(n)' /\ sent'[n] = sent[n]

\* A row nobody has written is not acknowledged.
LEMMA HandledBorn ==
  ASSUME EngineInv, NEW n \in Insts, inst[n].handled
  PROVE  Born(n)
<1>1. NoRow.handled = FALSE
  BY NoRowType
<1> QED
  BY <1>1 DEF EngineInv, RowOK

\* Moving one evaluator on to something it may not notify from.
LEMMA EvMoves ==
  ASSUME TypeOK, NEW n \in Insts, ~EvHolds(n), NEW c \in Checks, NEW e, GoTo(c, e),
         e.n = n => /\ e.pc \notin {"fire", "enqueue", "mark", "announce"}
                    /\ e.pc = "resolve" => e.handled
  PROVE  ~EvHolds(n)'
<1>1. ev'[c] = e /\ \A d \in Checks : d # c => ev'[d] = ev[d]
  BY DEF GoTo, TypeOK
<1> QED
  BY <1>1 DEF EvHolds

\* The evaluators leave an acknowledged alert alone, and turn to none that does
\* not stand.
LEMMA EvaluatorSilent ==
  ASSUME EngineInv, NEW n \in Insts, inst[n].handled \/ ~Stands(n)',
         ~EvHolds(n), ~RnHolds(n),
         NEW c \in Checks, Evaluate(c) \/ EvaluationFails(c)
  PROVE  Silent(n)
<1>0. TypeOK /\ ev[c] \in Evaluation /\ sent \in [Insts -> SUBSET Says]
  BY DEF EngineInv, TypeOK
<1>1. ~RnHolds(n)'
  BY DEF Evaluate, EvaluationFails, ListRules, EvaluateRule, OpenInstance, EnqueueFiring,
         FoldFiring, SendFiring, MarkFiring, ResolveInstance, AnnounceResolved, RnHolds
<1>2. ASSUME GoTo(c, Idle) PROVE ~EvHolds(n)'
  BY <1>0, <1>2, EvMoves DEF Idle
<1>3. ASSUME ev[c].pc \in {"fire", "enqueue", "mark", "announce"} PROVE ev[c].n # n
  BY <1>3 DEF EvHolds
<1>4. CASE ListRules(c)
  <2>1. [Idle EXCEPT !.pc = "listed"].pc = "listed"
    BY DEF Idle
  <2> QED
    BY <1>0, <1>1, <1>4, <2>1, EvMoves DEF ListRules, Silent
<1>5. CASE EvaluateRule(c)
  <2>1. CASE GoTo(c, [Idle EXCEPT !.pc = "open"])
    <3>1. [Idle EXCEPT !.pc = "open"].pc = "open"
      BY DEF Idle
    <3> QED
      BY <1>0, <1>1, <1>5, <2>1, <3>1, EvMoves DEF EvaluateRule, Silent
  <2>2. ASSUME NEW m \in Active(c),
               GoTo(c, [pc |-> "resolve", n |-> m,
                        handled |-> inst[m].handled, supp |-> inst[m].supp])
        PROVE  ~EvHolds(n)'
    <3> DEFINE e == [pc |-> "resolve", n |-> m,
                     handled |-> inst[m].handled, supp |-> inst[m].supp]
    <3>1. m = n => inst[m].handled
      BY <1>5 DEF EvaluateRule, Active, Open, Stands, Firing
    <3>2. e.pc = "resolve" /\ e.n = m /\ (m = n => e.handled)
      BY <3>1
    <3> HIDE DEF e
    <3> QED
      BY <1>0, <2>2, <3>2, EvMoves DEF e
  <2> QED
    BY <1>1, <1>2, <1>5, <2>1, <2>2 DEF EvaluateRule, Silent
<1>6. CASE OpenInstance(c)
  <2>1. ASSUME NEW m \in Free, GoTo(c, [Idle EXCEPT !.pc = "fire", !.n = m]),
               inst' = [inst EXCEPT ![m] = [NoRow EXCEPT !.state = "firing", !.check = c]]
        PROVE  ~EvHolds(n)'
    <3>1. m # n
      <4> DEFINE row == [NoRow EXCEPT !.state = "firing", !.check = c]
      <4>1. row.state = "firing" /\ ~row.handled
        BY NoRowType DEF Instance
      <4> HIDE DEF row
      <4>2. inst' = [inst EXCEPT ![m] = row] /\ inst \in [Insts -> Instance]
        BY <1>0, <2>1 DEF row, TypeOK
      <4> QED
        BY <4>1, <4>2, HandledBorn DEF Free, Born, Stands, Firing
    <3>2. [Idle EXCEPT !.pc = "fire", !.n = m].n = m
      BY DEF Idle
    <3> QED
      BY <1>0, <2>1, <3>1, <3>2, EvMoves
  <2> QED
    BY <1>1, <1>2, <1>6, <2>1 DEF OpenInstance, Silent
<1>7. CASE EnqueueFiring(c)
  <2>1. CASE GoTo(c, [ev[c] EXCEPT !.pc = "enqueue"])
    <3> DEFINE e == [ev[c] EXCEPT !.pc = "enqueue"]
    <3>1. e.n = ev[c].n
      BY <1>0 DEF Evaluation
    <3>2. ev[c].n # n
      BY <1>3, <1>7 DEF EnqueueFiring
    <3> HIDE DEF e
    <3>3. GoTo(c, e)
      BY <2>1 DEF e
    <3>4. ~EvHolds(n)'
      BY <1>0, <3>1, <3>2, <3>3, EvMoves
    <3> QED
      BY <1>1, <1>7, <3>4 DEF EnqueueFiring, Silent
  <2> QED
    BY <1>1, <1>2, <1>7, <2>1 DEF EnqueueFiring, Silent
<1>8. CASE FoldFiring(c)
  BY <1>1, <1>2, <1>8 DEF FoldFiring, Silent
<1>9. ASSUME NEW routed, EnqueueJobs(ev[c].n, routed), ev[c].pc \in {"enqueue", "announce"}
      PROVE  sent'[n] = sent[n]
  BY <1>0, <1>3, <1>9 DEF EnqueueJobs
<1>10. CASE SendFiring(c)
  <2>1. [ev[c] EXCEPT !.pc = "mark"].n = ev[c].n
    BY <1>0 DEF Evaluation
  <2>2. ~EvHolds(n)'
    BY <1>0, <1>3, <1>10, <2>1, EvMoves DEF SendFiring
  <2> QED
    BY <1>1, <1>9, <1>10, <2>2 DEF SendFiring, Silent
<1>11. CASE MarkFiring(c)
  BY <1>1, <1>2, <1>11 DEF MarkFiring, Silent
<1>12. CASE ResolveInstance(c)
  <2>1. CASE Loud(ev[c]) /\ GoTo(c, [ev[c] EXCEPT !.pc = "announce"])
    <3> DEFINE e == [ev[c] EXCEPT !.pc = "announce"]
    <3>1. e.n = ev[c].n
      BY <1>0 DEF Evaluation
    <3>2. ev[c].n # n
      BY <1>12, <2>1 DEF ResolveInstance, Loud, EvHolds
    <3> HIDE DEF e
    <3>3. GoTo(c, e)
      BY <2>1 DEF e
    <3>4. ~EvHolds(n)'
      BY <1>0, <3>1, <3>2, <3>3, EvMoves
    <3> QED
      BY <1>1, <1>12, <3>4 DEF ResolveInstance, Silent
  <2> QED
    BY <1>1, <1>2, <1>12, <2>1 DEF ResolveInstance, Silent
<1>13. CASE AnnounceResolved(c)
  BY <1>1, <1>2, <1>9, <1>13 DEF AnnounceResolved, Silent
<1>14. CASE EvaluationFails(c)
  BY <1>1, <1>2, <1>9, <1>14 DEF EvaluationFails, Silent
<1> QED
  BY <1>4, <1>5, <1>6, <1>7, <1>8, <1>10, <1>11, <1>12, <1>13, <1>14 DEF Evaluate

\* So does the renotify loop.
LEMMA RenotifySilent ==
  ASSUME EngineInv, NEW n \in Insts, inst[n].handled \/ ~Stands(n)',
         ~EvHolds(n), ~RnHolds(n),
         Renotify \/ ReadUnfolded \/ ReadPartly \/ RenotifyFails
  PROVE  Silent(n)
<1>0. TypeOK /\ rn \in Round /\ sent \in [Insts -> SUBSET Says]
      /\ \A it \in rn.items : it.n # n
  BY DEF EngineInv, TypeOK, RnHolds
<1>1. UNCHANGED ev
  BY DEF Renotify, ReadUnfolded, ReadPartly, RenotifyFails, FiringUnackedInstances, SendAgain,
         MarkAgain, RoundEnds, RenotifyCheck, RenotifyIntegration, StampStream
<1>2. ~EvHolds(n)'
  BY <1>1 DEF EvHolds
<1>3. ASSUME NEW S, \A it \in S : it.n # n,
             rn' = [IdleRound EXCEPT !.pc = "scan", !.items = S]
      PROVE  ~RnHolds(n)'
  BY <1>3 DEF IdleRound, RnHolds
<1>4. ASSUME UNCHANGED inst
      PROVE  \A m \in Candidates : m # n /\ \A g : Read(m, g).n = m
  BY <1>4 DEF Candidates, Read, Stands, Firing
<1>5. CASE FiringUnackedInstances
  <2> DEFINE S == {Read(m, inst[m].check \in Folded) : m \in Candidates}
  <2>1. \A it \in S : it.n # n
    BY <1>4, <1>5 DEF FiringUnackedInstances
  <2> QED
    BY <1>2, <1>3, <1>5, <2>1 DEF FiringUnackedInstances, Silent
<1>6. CASE ReadUnfolded
  <2>1. PICK k \in Candidates :
          rn' = [IdleRound EXCEPT !.pc = "scan",
            !.items = {Read(m, inst[m].check \in Folded /\ m # k) : m \in Candidates}]
    BY <1>6 DEF ReadUnfolded
  <2> DEFINE S == {Read(m, inst[m].check \in Folded /\ m # k) : m \in Candidates}
  <2>2. UNCHANGED inst
    BY <1>6 DEF ReadUnfolded
  <2>3. \A it \in S : it.n # n
    BY <1>4, <2>2
  <2> QED
    BY <1>2, <1>3, <1>6, <2>1, <2>3 DEF ReadUnfolded, Silent
<1>7. CASE ReadPartly
  <2>1. PICK k \in Candidates :
          rn' = [IdleRound EXCEPT !.pc = "scan",
            !.items = {Read(m, inst[m].check \in Folded) : m \in Candidates \ {k}}]
    BY <1>7 DEF ReadPartly
  <2> DEFINE S == {Read(m, inst[m].check \in Folded) : m \in Candidates \ {k}}
  <2>2. UNCHANGED inst
    BY <1>7 DEF ReadPartly
  <2>3. \A it \in S : it.n # n
    BY <1>4, <2>2
  <2> QED
    BY <1>2, <1>3, <1>7, <2>1, <2>3 DEF ReadPartly, Silent
<1>8. ASSUME rn'.items \subseteq rn.items,
             rn'.pc \in {"enqueue", "mark"} => rn'.n # n
      PROVE  ~RnHolds(n)'
  BY <1>8 DEF RnHolds
<1>9. ASSUME NEW it \in rn.items, RenotifyCheck(it) \/ RenotifyIntegration(it)
      PROVE  Silent(n)
  <2>1. UNCHANGED sent /\ rn.pc = "scan"
    BY <1>9 DEF RenotifyCheck, RenotifyIntegration
  <2>2. /\ rn'.items \subseteq rn.items
        /\ rn'.pc \in {"enqueue", "mark"} => rn'.n = it.n
    <3> DEFINE less == rn.items \ {it}
    <3>1. \/ rn' = [rn EXCEPT !.items = less]
          \/ rn' = [rn EXCEPT !.items = less, !.pc = "enqueue", !.n = it.n]
          \/ rn' = [rn EXCEPT !.items = {}]
          \/ rn' = [rn EXCEPT !.items = {}, !.pc = "enqueue", !.n = it.n]
          \/ rn' = [rn EXCEPT !.items = {},
                      !.stamp = {o.n : o \in {x \in Stream : Unmarked(x)}}]
      BY <1>9 DEF RenotifyCheck, RenotifyIntegration
    <3>2. less \subseteq rn.items /\ {} \subseteq rn.items
      OBVIOUS
    <3> HIDE DEF less
    <3> QED
      BY <1>0, <2>1, <3>1, <3>2 DEF Round
  <2> QED
    BY <1>0, <1>2, <1>8, <2>1, <2>2 DEF Silent
<1>10. ASSUME NEW routed, EnqueueJobs(rn.n, routed), rn.pc = "enqueue"
       PROVE  sent'[n] = sent[n]
  BY <1>0, <1>10 DEF EnqueueJobs, RnHolds
<1>11. CASE SendAgain
  <2>1. rn'.items = rn.items /\ rn'.n = rn.n /\ rn.n # n
    BY <1>0, <1>11 DEF SendAgain, Round, RnHolds
  <2> QED
    BY <1>2, <1>8, <1>10, <1>11, <2>1 DEF SendAgain, Silent
<1>12. CASE \/ MarkAgain \/ RoundEnds \/ RenotifyFails
             \/ \E m \in rn.stamp : StampStream(m)
  <2>1. rn'.items \subseteq rn.items /\ rn'.pc \notin {"enqueue", "mark"}
    <3>1. CASE rn' = [rn EXCEPT !.pc = "scan", !.n = 0]
      BY <1>0, <3>1 DEF Round
    <3>2. CASE rn' = IdleRound
      BY <3>2 DEF IdleRound
    <3>3. ASSUME NEW m, rn.pc = "scan", rn' = [rn EXCEPT !.stamp = @ \ {m}]
          PROVE  rn'.items \subseteq rn.items /\ rn'.pc \notin {"enqueue", "mark"}
      BY <1>0, <3>3 DEF Round
    <3>4. ASSUME NEW it, rn.pc = "scan", rn' = [rn EXCEPT !.items = @ \ {it}]
          PROVE  rn'.items \subseteq rn.items /\ rn'.pc \notin {"enqueue", "mark"}
      BY <1>0, <3>4 DEF Round
    <3> QED
      BY <1>12, <3>1, <3>2, <3>3, <3>4 DEF MarkAgain, RoundEnds, RenotifyFails, StampStream
  <2>2. sent'[n] = sent[n]
    BY <1>10, <1>12 DEF MarkAgain, RoundEnds, RenotifyFails, StampStream
  <2> QED
    BY <1>2, <1>8, <2>1, <2>2 DEF Silent
<1> QED
  BY <1>5, <1>6, <1>7, <1>9, <1>11, <1>12 DEF Renotify

\* What is announced of an alert is announced by a loop that holds a reading
\* of it.
LEMMA SentUnattended ==
  ASSUME EngineInv, NEW n \in Insts, ~EvHolds(n), ~RnHolds(n),
         \/ \E c \in Checks : Evaluate(c) \/ EvaluationFails(c)
         \/ Renotify \/ ReadUnfolded \/ ReadPartly \/ RenotifyFails
  PROVE  sent'[n] = sent[n]
<1>0. sent \in [Insts -> SUBSET Says]
  BY DEF EngineInv, TypeOK
<1>1. ASSUME NEW m, m # n, NEW routed, EnqueueJobs(m, routed) PROVE sent'[n] = sent[n]
  BY <1>0, <1>1 DEF EnqueueJobs
<1>2. ASSUME NEW c \in Checks, Evaluate(c) \/ EvaluationFails(c)
      PROVE  sent'[n] = sent[n]
  <2>1. ev[c].pc \in {"enqueue", "announce"} => ev[c].n # n
    BY DEF EvHolds
  <2> QED
    BY <1>1, <1>2, <2>1
    DEF Evaluate, EvaluationFails, ListRules, EvaluateRule, OpenInstance, EnqueueFiring,
        FoldFiring, SendFiring, MarkFiring, ResolveInstance, AnnounceResolved
<1>3. CASE Renotify \/ ReadUnfolded \/ ReadPartly \/ RenotifyFails
  <2>1. rn.pc = "enqueue" => rn.n # n
    BY DEF RnHolds
  <2> QED
    BY <1>1, <1>3, <2>1
    DEF Renotify, ReadUnfolded, ReadPartly, RenotifyFails, FiringUnackedInstances, SendAgain,
        MarkAgain, RoundEnds, RenotifyCheck, RenotifyIntegration, StampStream
<1> QED
  BY <1>2, <1>3

\* Once an alert is acknowledged and the loops that had read it before are
\* done with it, no loop ever notifies about it again, whatever fails or
\* restarts (FiringUnackedInstances, resolveOrHold).
THEOREM AckSilencesHolds == Spec => AckSilences
<1>1. ASSUME EngineInv, Next, NEW n \in Insts, inst[n].handled, ~InFlight(n)
      PROVE  ~InFlight(n)' /\ sent'[n] = sent[n]
  <2>1. ~EvHolds(n) /\ ~RnHolds(n)
    BY <1>1 DEF InFlight, EvHolds, RnHolds
  <2>2. CASE UNCHANGED <<ev, rn, sent>>
    BY <2>1, <2>2 DEF InFlight, EvHolds, RnHolds
  <2>3. CASE Restart
    BY <2>3 DEF Restart, Idle, IdleRound, InFlight
  <2>4. ASSUME Silent(n) PROVE ~InFlight(n)' /\ sent'[n] = sent[n]
    BY <2>4 DEF Silent, InFlight, EvHolds, RnHolds
  <2>5. \/ UNCHANGED <<ev, rn, sent>> \/ Restart
        \/ \E c \in Checks : Evaluate(c) \/ EvaluationFails(c)
        \/ Renotify \/ ReadUnfolded \/ ReadPartly \/ RenotifyFails
    BY <1>1 DEF Next, SignalChanges, UpdateRule, DeleteRule, WindowChanges, CancelWindow,
                CacheExpires, AcknowledgeInstance, ResolveInstanceManual, IntervalElapses
  <2> QED
    BY <1>1, <2>1, <2>2, <2>3, <2>4, <2>5, EvaluatorSilent, RenotifySilent
<1>2. EngineInv /\ [Next]_vars
        => [\A n \in Insts : inst[n].handled /\ ~InFlight(n)
                               => ~InFlight(n)' /\ sent'[n] = sent[n]]_vars
  BY <1>1
<1> QED
  BY <1>2, EngineInvHolds, PTL DEF Spec, AckSilences

-----------------------------------------------------------------------------
(***************************************************************************)
(* The engine keeps a board of alerts: every step is a step of AlertBoard, *)
(* or none.                                                                *)
(***************************************************************************)
\* A reading is taken only of what stands, and only what is read of is
\* announced.
LEMMA AttendsToStanding ==
  ASSUME EngineInv, Next
  PROVE  /\ Promise!Attend
         /\ \A n \in Insts : sent'[n] # sent[n] => n \in Attended
<1>1. ASSUME NEW n \in Insts, ~InFlight(n)
      PROVE  /\ sent'[n] = sent[n]
             /\ InFlight(n)' => Stands(n)'
  <2>1. ~EvHolds(n) /\ ~RnHolds(n)
    BY <1>1 DEF InFlight, EvHolds, RnHolds
  <2>2. CASE UNCHANGED <<ev, rn, sent>>
    BY <2>1, <2>2 DEF InFlight, EvHolds, RnHolds
  <2>3. CASE Restart
    BY <2>3 DEF Restart, Idle, IdleRound, InFlight
  <2>4. ASSUME Silent(n) PROVE ~InFlight(n)' /\ sent'[n] = sent[n]
    BY <2>4 DEF Silent, InFlight, EvHolds, RnHolds
  <2>5. \/ UNCHANGED <<ev, rn, sent>> \/ Restart
        \/ \E c \in Checks : Evaluate(c) \/ EvaluationFails(c)
        \/ Renotify \/ ReadUnfolded \/ ReadPartly \/ RenotifyFails
    BY DEF Next, SignalChanges, UpdateRule, DeleteRule, WindowChanges, CancelWindow,
           CacheExpires, AcknowledgeInstance, ResolveInstanceManual, IntervalElapses
  <2>6. sent'[n] = sent[n]
    BY <2>1, <2>2, <2>3, <2>5, SentUnattended
  <2>7. ~Stands(n)' => ~InFlight(n)'
    BY <2>1, <2>2, <2>3, <2>4, <2>5, EvaluatorSilent, RenotifySilent
  <2> QED
    BY <2>6, <2>7
<1>2. \A n \in Insts : Stands(n)' => StateOf'[n] = "firing" /\ n \notin Handled'
  BY DEF Stands, Firing, StateOf, Handled
<1> QED
  BY <1>1, <1>2 DEF Promise!Attend, Attended

\* The board shows nothing but these four columns.
SameOnBoard(n) ==
  /\ inst'[n].state = inst[n].state
  /\ inst'[n].check = inst[n].check
  /\ inst'[n].handled = inst[n].handled
  /\ (inst'[n].notified = "never") <=> (inst[n].notified = "never")

\* Steps that show nothing on the board.
LEMMA Unseen ==
  ASSUME EngineInv, Next, UNCHANGED sent, \A n \in Insts : SameOnBoard(n)
  PROVE  Promise!BoardNext
<1>1. StateOf' = StateOf /\ AboutOf' = AboutOf
  BY DEF StateOf, AboutOf, SameOnBoard
<1>2. Handled' = Handled
  BY DEF Handled, SameOnBoard
<1>3. Paged' = Paged
  BY DEF Paged, SameOnBoard
<1> QED
  BY <1>1, <1>2, <1>3, AttendsToStanding
  DEF Promise!BoardNext, Promise!LookAround, Promise!alertVars

\* One row is written: the board shows its columns.
Shows(n, row) ==
  /\ StateOf' = [StateOf EXCEPT ![n] = row.state]
  /\ AboutOf' = [AboutOf EXCEPT ![n] = row.check]
  /\ row.handled = inst[n].handled => Handled' = Handled
  /\ row.handled => Handled' = Handled \union {n}
  /\ row.notified = inst[n].notified => Paged' = Paged
  /\ row.notified # "never" => Paged' = Paged \union {n}

LEMMA BoardUpdate ==
  ASSUME EngineInv, NEW n \in Insts, NEW row \in Instance,
         inst' = [inst EXCEPT ![n] = row]
  PROVE  Shows(n, row)
<1>1. inst'[n] = row /\ \A m \in Insts : m # n => inst'[m] = inst[m]
  BY DEF EngineInv, TypeOK
<1>2. StateOf' = [StateOf EXCEPT ![n] = row.state]
  <2>1. StateOf' = [m \in Insts |-> IF m = n THEN row.state ELSE inst[m].state]
    BY <1>1 DEF StateOf
  <2> QED
    BY <2>1 DEF StateOf
<1>3. AboutOf' = [AboutOf EXCEPT ![n] = row.check]
  <2>1. AboutOf' = [m \in Insts |-> IF m = n THEN row.check ELSE inst[m].check]
    BY <1>1 DEF AboutOf
  <2> QED
    BY <2>1 DEF AboutOf
<1>4. /\ row.handled = inst[n].handled => Handled' = Handled
      /\ row.handled => Handled' = Handled \union {n}
  BY <1>1 DEF Handled
<1>5. /\ row.notified = inst[n].notified => Paged' = Paged
      /\ row.notified # "never" => Paged' = Paged \union {n}
  BY <1>1 DEF Paged
<1> QED
  BY <1>2, <1>3, <1>4, <1>5 DEF Shows

\* A column written back as it was is not written.
LEMMA BoardKeeps ==
  ASSUME NEW n \in Insts
  PROVE  /\ [StateOf EXCEPT ![n] = inst[n].state] = StateOf
         /\ [AboutOf EXCEPT ![n] = inst[n].check] = AboutOf
         /\ StateOf[n] = inst[n].state /\ AboutOf[n] = inst[n].check
  BY DEF StateOf, AboutOf

\* Muting does not show.
LEMMA MuteUnseen ==
  ASSUME EngineInv, Next, UNCHANGED sent, NEW n \in Insts, MarkInstanceSuppressed(n)
  PROVE  Promise!BoardNext
<1>1. inst \in [Insts -> Instance]
  BY DEF EngineInv, TypeOK
<1>2. ASSUME NEW m \in Insts PROVE SameOnBoard(m)
  <2>1. inst'[m] = inst[m] \/ inst'[m] = [inst[m] EXCEPT !.supp = TRUE]
    BY <1>1 DEF MarkInstanceSuppressed, Update
  <2> QED
    BY <1>1, <2>1 DEF SameOnBoard, Instance
<1> QED
  BY <1>2, Unseen

\* A stamp follows an announcement, or meets a deleted row.
LEMMA StampSeen ==
  ASSUME EngineInv, Next, UNCHANGED sent, NEW n \in Insts, MarkInstanceNotified(n),
         Gone(n) \/ sent[n] # {}
  PROVE  Promise!BoardNext
<1>0. inst[n] \in Instance
  BY DEF EngineInv, TypeOK
<1>1. CASE Gone(n)
  BY <1>1, Unseen DEF MarkInstanceNotified, Update, Gone, SameOnBoard
<1>2. CASE ~Gone(n)
  <2> DEFINE row == [inst[n] EXCEPT !.notified = "recent"]
  <2>1. inst' = [inst EXCEPT ![n] = row]
    BY <1>2 DEF MarkInstanceNotified, Update, Gone
  <2>2. /\ row \in Instance /\ row.state = inst[n].state /\ row.check = inst[n].check
        /\ row.handled = inst[n].handled /\ row.notified # "never"
    BY <1>0 DEF Instance, Notified
  <2> HIDE DEF row
  <2>3. /\ StateOf' = StateOf /\ AboutOf' = AboutOf
        /\ Handled' = Handled /\ Paged' = Paged \union {n}
    <3>1. Shows(n, row)
      BY <2>1, <2>2, BoardUpdate
    <3> QED
      BY <2>2, <3>1, BoardKeeps DEF Shows
  <2> QED
    BY <1>2, <2>3, AttendsToStanding DEF Promise!BoardNext, Promise!CountAsPaged
<1> QED
  BY <1>1, <1>2

\* What is enqueued says what the alert is, to whoever attends to it.
LEMMA EnqueueSeen ==
  ASSUME EngineInv, Next, UNCHANGED inst, NEW n \in Insts, Born(n), InFlight(n),
         NEW routed, EnqueueJobs(n, routed), routed \/ inst[n].check \notin Explicit
  PROVE  Promise!BoardNext
<1>0. inst[n] \in Instance /\ sent \in [Insts -> SUBSET Says]
  BY DEF EngineInv, TypeOK
<1>1. CASE Gone(n)
  <2>1. sent' = sent
    BY <1>0, <1>1 DEF EnqueueJobs, Gone
  <2> QED
    BY <2>1, Unseen DEF SameOnBoard
<1>2. CASE ~Gone(n)
  <2> DEFINE what == IF routed THEN StateOf[n] ELSE "nobody"
  <2>1. /\ what \in {StateOf[n], "nobody"}
        /\ sent' = [sent EXCEPT ![n] = @ \union {what}]
    BY <1>2, BoardKeeps DEF EnqueueJobs, Gone
  <2>2. StateOf[n] \in {"firing", "resolved"}
    BY <1>0, <1>2, BoardKeeps DEF Instance, Gone, Born
  <2>3. StateOf' = StateOf /\ AboutOf' = AboutOf /\ Handled' = Handled /\ Paged' = Paged
    BY DEF StateOf, AboutOf, Handled, Paged
  <2>4. what = "nobody" => AboutOf[n] \notin Explicit
    BY <2>2, BoardKeeps
  <2> HIDE DEF what
  <2> QED
    BY <2>1, <2>2, <2>3, <2>4, AttendsToStanding
    DEF Promise!BoardNext, Promise!Announce, Promise!alertVars, Attended
<1> QED
  BY <1>1, <1>2

\* Operators, telemetry, maintenance and time.
LEMMA WorldSeen ==
  ASSUME EngineInv, Next,
         \/ \E c \in Checks : SignalChanges(c) \/ UpdateRule(c) \/ DeleteRule(c)
         \/ WindowChanges \/ CancelWindow \/ CacheExpires \/ Restart
         \/ \E n \in Insts : AcknowledgeInstance(n) \/ ResolveInstanceManual(n)
                             \/ IntervalElapses(n)
  PROVE  Promise!BoardNext
<1>0. inst \in [Insts -> Instance]
  BY DEF EngineInv, TypeOK
<1>1. CASE UNCHANGED <<inst, sent>>
  BY <1>1, Unseen DEF SameOnBoard
<1>2. CASE CancelWindow
  <2>1. PICK S : inst' = [n \in Insts |->
                   IF n \in S THEN [inst[n] EXCEPT !.supp = FALSE] ELSE inst[n]]
    BY <1>2 DEF CancelWindow
  <2>2. ASSUME NEW n \in Insts PROVE SameOnBoard(n)
    <3>1. inst'[n] = inst[n] \/ inst'[n] = [inst[n] EXCEPT !.supp = FALSE]
      BY <2>1
    <3> QED
      BY <1>0, <3>1 DEF SameOnBoard, Instance
  <2> QED
    BY <1>2, <2>2, Unseen DEF CancelWindow
<1>3. ASSUME NEW n \in Insts, IntervalElapses(n) PROVE Promise!BoardNext
  <2>1. ASSUME NEW m \in Insts PROVE SameOnBoard(m)
    <3>1. \/ inst'[m] = inst[m]
          \/ inst[m].notified # "never" /\ inst'[m] = [inst[m] EXCEPT !.notified = "due"]
      BY <1>0, <1>3 DEF IntervalElapses
    <3> QED
      BY <1>0, <3>1 DEF SameOnBoard, Instance
  <2> QED
    BY <1>3, <2>1, Unseen DEF IntervalElapses
<1>4. ASSUME NEW n \in Insts, AcknowledgeInstance(n) PROVE Promise!BoardNext
  <2> DEFINE row == [inst[n] EXCEPT !.handled = TRUE]
  <2>1. inst' = [inst EXCEPT ![n] = row]
    BY <1>4 DEF AcknowledgeInstance
  <2>2. /\ row \in Instance /\ row.state = inst[n].state /\ row.check = inst[n].check
        /\ row.handled /\ row.notified = inst[n].notified
    BY <1>0 DEF Instance
  <2> HIDE DEF row
  <2>3. /\ StateOf' = StateOf /\ AboutOf' = AboutOf
        /\ Handled' = Handled \union {n} /\ Paged' = Paged
    <3>1. Shows(n, row)
      BY <2>1, <2>2, BoardUpdate
    <3> QED
      BY <2>2, <3>1, BoardKeeps DEF Shows
  <2>4. Attended' = Attended
    BY <1>4 DEF AcknowledgeInstance, Attended, InFlight
  <2> QED
    BY <1>4, <2>3, <2>4, BoardKeeps
    DEF AcknowledgeInstance, Firing, Promise!BoardNext, Promise!Acknowledge
<1>5. ASSUME NEW n \in Insts, ResolveInstanceManual(n) PROVE Promise!BoardNext
  <2> DEFINE row == [inst[n] EXCEPT !.state = "resolved", !.handled = TRUE]
  <2>1. inst' = [inst EXCEPT ![n] = row]
    BY <1>0, <1>5 DEF ResolveInstanceManual
  <2>2. /\ row \in Instance /\ row.state = "resolved" /\ row.check = inst[n].check
        /\ row.handled /\ row.notified = inst[n].notified
    BY <1>0 DEF Instance
  <2> HIDE DEF row
  <2>3. /\ StateOf' = [StateOf EXCEPT ![n] = "resolved"] /\ AboutOf' = AboutOf
        /\ Handled' = Handled \union {n} /\ Paged' = Paged
    <3>1. Shows(n, row)
      BY <2>1, <2>2, BoardUpdate
    <3> QED
      BY <2>2, <3>1, BoardKeeps DEF Shows
  <2>4. Attended' = Attended
    BY <1>5 DEF ResolveInstanceManual, Attended, InFlight
  <2> QED
    BY <1>5, <2>3, <2>4, BoardKeeps
    DEF ResolveInstanceManual, Firing, Promise!BoardNext, Promise!Close
<1>6. ASSUME NEW c \in Checks, DeleteRule(c) PROVE Promise!BoardNext
  <2> DEFINE S == {n \in Insts : AboutOf[n] = c /\ StateOf[n] # "none"}
             row == [NoRow EXCEPT !.state = "gone", !.check = c]
  <2>1. row.state = "gone" /\ row.check = c /\ row.handled = FALSE
        /\ row.notified = "never"
    BY NoRowType DEF Instance
  <2>2. inst' = [n \in Insts |-> IF n \in S THEN row ELSE inst[n]]
        /\ \A n \in S : inst[n].check = c
    BY <1>6 DEF DeleteRule, StateOf, AboutOf
  <2>3. S \subseteq Insts
    OBVIOUS
  <2> HIDE DEF S, row
  <2>4. StateOf' = [n \in Insts |-> IF n \in S THEN "gone" ELSE StateOf[n]]
    BY <2>1, <2>2 DEF StateOf
  <2>5. AboutOf' = AboutOf
    BY <2>1, <2>2 DEF AboutOf
  <2>6. Handled' = Handled \ S
    BY <2>1, <2>2 DEF Handled
  <2>7. Paged' = Paged \ S
    BY <2>1, <2>2 DEF Paged
  <2>8. Attended' = Attended /\ sent' = sent
    BY <1>6 DEF DeleteRule, Attended, InFlight
  <2>9. Promise!Withdraw(c)
    BY <2>4, <2>5, <2>6, <2>7, <2>8 DEF Promise!Withdraw, S
  <2> QED
    BY <2>9 DEF Promise!BoardNext
<1> QED
  BY <1>1, <1>2, <1>3, <1>4, <1>5, <1>6
  DEF SignalChanges, UpdateRule, WindowChanges, CacheExpires, Restart

\* An alert opens: none of its check was open.
LEMMA OpenSeen ==
  ASSUME EngineInv, Next, NEW c \in Checks, OpenInstance(c)
  PROVE  Promise!BoardNext
<1>0. inst \in [Insts -> Instance]
  BY DEF EngineInv, TypeOK
<1>1. CASE UNCHANGED inst
  BY <1>1, Unseen DEF OpenInstance, SameOnBoard
<1>2. ASSUME NEW n \in Free,
             inst' = [inst EXCEPT ![n] = [NoRow EXCEPT !.state = "firing", !.check = c]]
      PROVE  Promise!BoardNext
  <2> DEFINE row == [NoRow EXCEPT !.state = "firing", !.check = c]
  <2>1. n \in Insts /\ inst[n] = NoRow /\ inst[n].state = "none"
    BY <1>2, NoRowType DEF Free, EngineInv, RowOK, Born
  <2>2. /\ row \in Instance /\ row.state = "firing" /\ row.check = c
        /\ row.handled = inst[n].handled /\ row.notified = inst[n].notified
    BY <2>1, NoRowType DEF Instance
  <2> HIDE DEF row
  <2>3. Shows(n, row)
    BY <1>2, <2>1, <2>2, BoardUpdate DEF row
  <2>4. /\ StateOf' = [StateOf EXCEPT ![n] = "firing"]
        /\ AboutOf' = [AboutOf EXCEPT ![n] = c]
        /\ Handled' = Handled /\ Paged' = Paged
    BY <2>2, <2>3 DEF Shows
  <2>5. \A m \in Insts : StateOf[m] = "firing" => AboutOf[m] # c
    <3>1. \A m \in Insts : Firing(m) => inst[m].check # c
      BY DEF OpenInstance, EngineInv, EvOK
    <3> QED
      BY <3>1 DEF Firing, StateOf, AboutOf
  <2>6. Promise!Raise(n, c)
    BY <2>1, <2>4, <2>5, BoardKeeps, AttendsToStanding DEF OpenInstance, Promise!Raise
  <2> QED
    BY <2>1, <2>6 DEF Promise!BoardNext
<1> QED
  BY <1>1, <1>2 DEF OpenInstance

\* An alert is resolved by its evaluator: a manual one after it was handled.
LEMMA ResolveSeen ==
  ASSUME EngineInv, Next, NEW c \in Checks, ResolveInstance(c)
  PROVE  Promise!BoardNext
<1> DEFINE n == ev[c].n
           row == [inst[n] EXCEPT !.state = "resolved"]
<1>1. /\ n \in Insts /\ Born(n)
      /\ Gone(n) \/ (inst[n].check = c /\ (c \in Manual => inst[n].handled))
  BY DEF ResolveInstance, EngineInv, TypeOK, EvOK
<1>2. inst \in [Insts -> Instance] /\ inst[n] \in Instance
  BY <1>1 DEF EngineInv, TypeOK
<1>3. /\ row \in Instance /\ row.state = "resolved" /\ row.check = inst[n].check
      /\ row.handled = inst[n].handled /\ row.notified = inst[n].notified
  BY <1>2 DEF Instance
<1>4. Update(n, row) /\ UNCHANGED sent
  BY DEF ResolveInstance
<1> HIDE DEF n, row
<1>5. CASE Gone(n)
  BY <1>4, <1>5, Unseen DEF Update, Gone, SameOnBoard
<1>6. CASE ~Gone(n)
  <2>1. inst' = [inst EXCEPT ![n] = row]
    BY <1>4, <1>6 DEF Update, Gone
  <2>2. CASE inst[n].state = "resolved"
    <3>1. ASSUME NEW m \in Insts PROVE SameOnBoard(m)
      BY <1>2, <1>3, <2>1, <2>2 DEF SameOnBoard
    <3> QED
      BY <1>4, <3>1, Unseen
  <2>3. CASE inst[n].state = "firing"
    <3>1. Shows(n, row)
      BY <1>1, <1>3, <2>1, BoardUpdate
    <3>2. /\ StateOf' = [StateOf EXCEPT ![n] = "resolved"] /\ AboutOf' = AboutOf
          /\ Handled' = Handled /\ Paged' = Paged
      BY <1>1, <1>3, <3>1, BoardKeeps DEF Shows
    <3>3. StateOf[n] = "firing" /\ (AboutOf[n] \in Manual => n \in Handled)
      BY <1>1, <1>6, <2>3, BoardKeeps DEF Handled
    <3>4. Promise!EndByItself(n)
      BY <1>4, <3>2, <3>3, AttendsToStanding DEF Promise!EndByItself
    <3> QED
      BY <1>1, <3>4 DEF Promise!BoardNext
  <2> QED
    BY <1>1, <1>2, <1>6, <2>2, <2>3 DEF Instance, Gone, Born
<1> QED
  BY <1>5, <1>6

LEMMA EvaluatorSeen ==
  ASSUME EngineInv, Next, NEW c \in Checks, Evaluate(c) \/ EvaluationFails(c)
  PROVE  Promise!BoardNext
<1>1. CASE UNCHANGED <<inst, sent>>
  BY <1>1, Unseen DEF SameOnBoard
<1>2. ev[c].pc \notin {"idle", "listed", "open"} =>
        ev[c].n \in Insts /\ Born(ev[c].n) /\ inst[ev[c].n].check = c
  BY DEF EngineInv, TypeOK, EvOK
<1>3. ASSUME ev[c].pc \in {"enqueue", "announce"}, UNCHANGED inst,
             NEW routed, EnqueueJobs(ev[c].n, routed), routed \/ c \notin Explicit
      PROVE  Promise!BoardNext
  <2>1. InFlight(ev[c].n)
    BY <1>3 DEF InFlight
  <2> QED
    BY <1>2, <1>3, <2>1, EnqueueSeen
<1>4. CASE EnqueueFiring(c)
  BY <1>1, <1>2, <1>4, MuteUnseen DEF EnqueueFiring
<1>5. CASE MarkFiring(c)
  <2>1. Gone(ev[c].n) \/ sent[ev[c].n] # {}
    BY <1>5 DEF MarkFiring, EngineInv, EvOK
  <2> QED
    BY <1>2, <1>5, <2>1, StampSeen DEF MarkFiring
<1> QED
  BY <1>1, <1>3, <1>4, <1>5, OpenSeen, ResolveSeen
  DEF Evaluate, EvaluationFails, ListRules, EvaluateRule, FoldFiring, SendFiring,
      AnnounceResolved, channelsFor

LEMMA RenotifySeen ==
  ASSUME EngineInv, Next, Renotify \/ ReadUnfolded \/ ReadPartly \/ RenotifyFails
  PROVE  Promise!BoardNext
<1>1. CASE UNCHANGED <<inst, sent>>
  BY <1>1, Unseen DEF SameOnBoard
<1>2. /\ rn.pc \in {"enqueue", "mark"} => rn.n \in Insts /\ Born(rn.n)
      /\ rn \in Round
  BY DEF EngineInv, TypeOK, RnOK
<1>3. ASSUME rn.pc = "enqueue", UNCHANGED inst, NEW routed, EnqueueJobs(rn.n, routed),
             routed \/ inst[rn.n].check \notin Explicit
      PROVE  Promise!BoardNext
  <2>1. InFlight(rn.n)
    BY <1>3 DEF InFlight
  <2> QED
    BY <1>2, <1>3, <2>1, EnqueueSeen
<1>4. CASE MarkAgain
  <2>1. Gone(rn.n) \/ sent[rn.n] # {}
    BY <1>4 DEF MarkAgain, EngineInv, RnOK
  <2> QED
    BY <1>2, <1>4, <2>1, StampSeen DEF MarkAgain
<1>5. ASSUME NEW it \in rn.items, RenotifyCheck(it) PROVE Promise!BoardNext
  <2>1. it.n \in Insts
    BY <1>2 DEF Round, Item
  <2> QED
    BY <1>1, <1>5, <2>1, MuteUnseen DEF RenotifyCheck
<1>6. ASSUME NEW n \in rn.stamp, StampStream(n) PROVE Promise!BoardNext
  <2>1. n \in Insts
    BY <1>2 DEF Round
  <2> QED
    BY <1>6, <2>1, MuteUnseen DEF StampStream
<1> QED
  BY <1>1, <1>3, <1>4, <1>5, <1>6
  DEF Renotify, ReadUnfolded, ReadPartly, RenotifyFails, FiringUnackedInstances, SendAgain,
      RoundEnds, RenotifyIntegration, channelsFor

\* The engine implements AlertBoard, for any checks, loops, scopes and
\* bounds, with windows cancelled or not: its loops, which read rows, decide
\* and write by id without a lock, never open a second alert of a check, end a
\* manual one before it was handled, announce what is not so, turn to an alert
\* that is over or handled, stamp one they have not announced, or announce to
\* nobody an alert whose rule names channels.
THEOREM EngineImplementsBoard == Spec => ImplementsBoard
<1>1. Init => Promise!BoardInit
  <2> SUFFICES ASSUME Init PROVE Promise!BoardInit
    OBVIOUS
  <2>1. StateOf = [n \in Insts |-> "none"] /\ AboutOf \in [Insts -> Checks]
    BY NoRowType DEF Init, StateOf, AboutOf, Instance
  <2>2. Handled = {} /\ Paged = {}
    BY NoRowType DEF Init, Handled, Paged
  <2>3. Attended = {}
    BY DEF Init, Attended, InFlight, Idle, IdleRound
  <2> QED
    BY <2>1, <2>2, <2>3 DEF Init, Promise!BoardInit
<1>2. EngineInv /\ [Next]_vars => [Promise!BoardNext]_(Promise!boardVars)
  <2>1. ASSUME EngineInv, Next PROVE Promise!BoardNext
    BY <2>1, WorldSeen, EvaluatorSeen, RenotifySeen DEF Next
  <2>2. ASSUME UNCHANGED vars PROVE UNCHANGED Promise!boardVars
    BY <2>2 DEF vars, Promise!boardVars, Promise!alertVars, StateOf, AboutOf, Handled,
                Paged, Attended, InFlight
  <2> QED
    BY <2>1, <2>2
<1> QED
  BY <1>1, <1>2, EngineInvHolds, PTL DEF Spec, ImplementsBoard, Promise!BoardSpec
=============================================================================
