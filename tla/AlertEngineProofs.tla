-------------------------- MODULE AlertEngineProofs --------------------------
(***************************************************************************)
(* Theorems about AlertEngine, for any checks, loops, scopes, number of    *)
(* instances and number of faults.                                         *)
(***************************************************************************)
EXTENDS AlertEngine, FiniteSetTheorems, TLAPS

Born(n) == inst[n].state # "none"
Gone(n) == inst[n].state = "gone"

\* What a row of alert_instances is at any time: unwritten, or consistent
\* with what was announced and with the check's resolve mode.
RowOK(n) ==
  /\ ~Born(n) => inst[n] = NoRow
  /\ inst[n].state = "resolved" /\ inst[n].check \in Manual => inst[n].handled
  /\ inst[n].notified # "never" => sent[n] # {}

\* No two firing rows of one check.
Single ==
  \A n, m \in Insts :
    Firing(n) /\ Firing(m) /\ inst[n].check = inst[m].check => n = m

\* What an evaluator has read still holds when it writes: the parts of the
\* reading that its write depends on.
EvOK(c) ==
  /\ ev[c].pc = "open" => \A n \in Insts : Firing(n) => inst[n].check # c
  /\ ev[c].pc \notin {"idle", "listed", "open"} =>
       Born(ev[c].n) /\ inst[ev[c].n].check = c
  /\ ev[c].pc = "mark" => Gone(ev[c].n) \/ sent[ev[c].n] # {}
  /\ ev[c].pc = "resolve" /\ c \in Manual => Gone(ev[c].n) \/ inst[ev[c].n].handled

\* The same of the renotify loop.
RnOK ==
  /\ \A it \in rn.items : Born(it.n)
  /\ \A n \in rn.stamp : Born(n)
  /\ rn.pc \in {"enqueue", "mark"} => Born(rn.n)
  /\ rn.pc = "mark" => Gone(rn.n) \/ sent[rn.n] # {}

\* The inductive invariant.
EngineInv ==
  /\ TypeOK
  /\ \A n \in Insts : RowOK(n)
  /\ Single
  /\ \A c \in Checks : EvOK(c)
  /\ RnOK

\* What no step does to a row: unwrite it, revive a deleted one, move it to
\* another check, take back an acknowledgement or an announcement.
Keeps ==
  \A n \in Insts :
    /\ Born(n) => Born(n)' /\ inst'[n].check = inst[n].check
    /\ Gone(n) => Gone(n)'
    /\ Born(n) /\ inst[n].handled => inst'[n].handled \/ Gone(n)'
    /\ sent[n] \subseteq sent'[n]

\* A step that opens no alert.
Quiet == Keeps /\ \A n \in Insts : Firing(n)' => Firing(n)

\* A blank row is a row.
LEMMA NoRowType == NoRow \in Instance /\ NoRow.state = "none" /\ NoRow.handled = FALSE
                   /\ NoRow.notified = "never"
  BY ConfigAssumption DEF NoRow, Instance, Notified

\* A step that opens no alert leaves at most one firing row per check.
LEMMA QuietSingle ==
  ASSUME Single, Quiet, \A n \in Insts : Firing(n) => Born(n)
  PROVE  Single'
  BY DEF Single, Quiet, Keeps, Firing

\* What an evaluator has read survives the steps of everybody else.
LEMMA KeepsEv ==
  ASSUME TypeOK, Keeps, NEW c \in Checks, EvOK(c), ev'[c] = ev[c],
         \A m \in Insts : Firing(m)' => Firing(m) \/ inst'[m].check # c
  PROVE  EvOK(c)'
<1> DEFINE n == ev[c].n
<1>1. ev[c].pc = "open" => \A m \in Insts : Firing(m)' => inst'[m].check # c
  BY DEF EvOK, Keeps, Firing, Born
<1>2. CASE ev[c].pc \in {"idle", "listed", "open"}
  BY <1>1, <1>2 DEF EvOK, Firing
<1>3. CASE ev[c].pc \notin {"idle", "listed", "open"}
  <2>1. n \in Insts /\ Born(n) /\ inst[n].check = c
    BY <1>3 DEF TypeOK, EvOK
  <2>2. /\ Born(n)' /\ inst'[n].check = inst[n].check
        /\ Gone(n) => Gone(n)'
        /\ inst[n].handled => inst'[n].handled \/ Gone(n)'
        /\ sent[n] \subseteq sent'[n]
    BY <2>1 DEF Keeps
  <2> QED
    BY <1>3, <2>1, <2>2 DEF EvOK, Born, Gone
<1> QED
  BY <1>2, <1>3

\* An evaluator that has read nothing depends on nothing.
LEMMA IdleEv ==
  ASSUME NEW c \in Checks, ev'[c].pc \in {"idle", "listed"}
  PROVE  EvOK(c)'
  BY DEF EvOK

\* What the renotify loop has read survives the steps of everybody else.
LEMMA KeepsRn ==
  ASSUME TypeOK, Keeps, RnOK, rn' = rn
  PROVE  RnOK'
  BY DEF RnOK, Keeps, TypeOK, Round, Item, Born, Gone

\* A renotify loop that has read nothing depends on nothing.
LEMMA IdleRn ==
  ASSUME rn' = IdleRound
  PROVE  RnOK'
  BY DEF RnOK, IdleRound

\* An UPDATE by id of a written row that keeps the row consistent.
LEMMA UpdateRow ==
  ASSUME EngineInv, NEW n \in Insts, NEW row \in Instance, Update(n, row), sent' = sent,
         Born(n), row.state \notin {"none", "gone"}, row.check = inst[n].check,
         inst[n].handled => row.handled,
         row.state = "firing" => Firing(n) \/ Gone(n),
         ~Gone(n) => /\ row.state = "resolved" /\ row.check \in Manual => row.handled
                     /\ row.notified # "never" => sent[n] # {}
  PROVE  Quiet /\ inst' \in [Insts -> Instance] /\ \A m \in Insts : RowOK(m)'
<1> USE DEF EngineInv
<1>0. inst \in [Insts -> Instance]
  BY DEF TypeOK
<1>1. CASE Gone(n)
  <2>1. inst' = inst
    BY <1>1 DEF Update, Gone
  <2> QED
    BY <1>0, <2>1 DEF Quiet, Keeps, RowOK, Born, Gone, Firing
<1>2. CASE ~Gone(n)
  <2>1. inst' = [inst EXCEPT ![n] = row]
    BY <1>2 DEF Update, Gone
  <2>2. inst' \in [Insts -> Instance] /\ inst'[n] = row
        /\ \A m \in Insts : m # n => inst'[m] = inst[m]
    BY <1>0, <2>1
  <2>3. ASSUME NEW m \in Insts
        PROVE  RowOK(m)'
    <3>1. CASE m = n
      BY <1>2, <2>2, <3>1 DEF RowOK, Born
    <3>2. CASE m # n
      BY <2>2, <3>2 DEF RowOK, Born
    <3> QED
      BY <3>1, <3>2
  <2>4. Keeps
    BY <1>2, <2>2 DEF Keeps, Born, Gone
  <2>5. \A m \in Insts : Firing(m)' => Firing(m)
    BY <1>2, <2>2 DEF Firing, Gone
  <2> QED
    BY <2>2, <2>3, <2>4, <2>5 DEF Quiet
<1> QED
  BY <1>1, <1>2

\* A step that writes no row and announces nothing.
LEMMA SameRows ==
  ASSUME EngineInv, inst' = inst, sent' = sent
  PROVE  Quiet /\ \A m \in Insts : RowOK(m)'
  BY DEF EngineInv, Quiet, Keeps, RowOK, Born, Gone, Firing

\* Announcing a written row.
LEMMA EnqueueRow ==
  ASSUME EngineInv, NEW n \in Insts, Born(n), NEW routed, EnqueueJobs(n, routed), inst' = inst
  PROVE  /\ Quiet /\ sent' \in [Insts -> SUBSET Says]
         /\ \A m \in Insts : RowOK(m)'
         /\ Gone(n) \/ sent'[n] # {}
<1>1. sent \in [Insts -> SUBSET Says] /\ inst[n] \in Instance
  BY DEF EngineInv, TypeOK
<1> DEFINE what == IF routed THEN inst[n].state ELSE "nobody"
<1>2. Gone(n) \/ what \in Says
  BY <1>1 DEF Instance, Born, Gone, Says
<1> HIDE DEF what
<1>3. sent'[n] = IF Gone(n) THEN sent[n] ELSE sent[n] \union {what}
  BY <1>1 DEF EnqueueJobs, Gone, what
<1>4. \A m \in Insts : m # n => sent'[m] = sent[m]
  BY <1>1 DEF EnqueueJobs
<1>5. sent' \in [Insts -> SUBSET Says]
  BY <1>1, <1>2, <1>3 DEF EnqueueJobs, Gone, what
<1>6. \A m \in Insts : sent[m] \subseteq sent'[m]
  BY <1>3, <1>4
<1>7. Quiet
  BY <1>6 DEF Quiet, Keeps, Born, Gone, Firing
<1>8. \A m \in Insts : RowOK(m)'
  BY <1>6 DEF EngineInv, RowOK, Born
<1> QED
  BY <1>3, <1>5, <1>7, <1>8

\* The cache answers, refreshes or fails; it stays a cache.
LEMMA CacheType ==
  ASSUME TypeOK, NEW covered \in Scopes, suppressedBy(covered)
  PROVE  cache' \in [fresh: BOOLEAN, covered: Scopes] /\ faults' \in 0 .. MaxFaults
<1>1. /\ cache \in [fresh: BOOLEAN, covered: Scopes] /\ faults \in 0 .. MaxFaults
      /\ window \in Scopes /\ {} \in Scopes
  BY ConfigAssumption DEF TypeOK
<1>2. CASE UNCHANGED <<cache, faults>>
  BY <1>1, <1>2
<1>3. CASE cache' = Fresh(window) /\ UNCHANGED faults
  BY <1>1, <1>3 DEF Fresh
<1>4. CASE cache' = Fresh({}) /\ faults > 0 /\ faults' = faults - 1
  <2>1. Fresh({}) \in [fresh: BOOLEAN, covered: Scopes]
    BY <1>1 DEF Fresh
  <2>2. faults' \in 0 .. MaxFaults
    BY <1>1, <1>4, BoundsAssumption
  <2> QED
    BY <1>4, <2>1, <2>2
<1> QED
  BY <1>2, <1>3, <1>4 DEF suppressedBy

\* A fault is spent.
LEMMA FaultType ==
  ASSUME TypeOK, faults > 0, faults' = faults - 1
  PROVE  faults' \in 0 .. MaxFaults
  BY BoundsAssumption DEF TypeOK

\* Faults are spent, as many as are allowed.
LEMMA SpendType ==
  ASSUME TypeOK, NEW k \in Nat, Spend(k)
  PROVE  faults' \in 0 .. MaxFaults
  BY BoundsAssumption DEF TypeOK, Spend

\* What a send costs.
LEMMA CostType == \A b \in BOOLEAN : Cost(b) \in Nat
  BY DEF Cost

\* A step of the world: the loops stand where they stood.
LEMMA WorldStep ==
  ASSUME EngineInv, Quiet, TypeOK', \A n \in Insts : RowOK(n)', ev' = ev, rn' = rn
  PROVE  EngineInv'
<1>1. \A n \in Insts : Firing(n) => Born(n)
  BY DEF Firing, Born
<1> QED
  BY <1>1, QuietSingle, KeepsEv, KeepsRn DEF EngineInv, Quiet

\* A step of one evaluator.
LEMMA EvaluatorStep ==
  ASSUME EngineInv, Quiet, TypeOK', \A n \in Insts : RowOK(n)', rn' = rn,
         NEW c \in Checks, \A d \in Checks : d # c => ev'[d] = ev[d], EvOK(c)'
  PROVE  EngineInv'
<1>1. \A n \in Insts : Firing(n) => Born(n)
  BY DEF Firing, Born
<1>2. \A d \in Checks : EvOK(d)'
  BY KeepsEv DEF EngineInv, Quiet
<1> QED
  BY <1>1, <1>2, QuietSingle, KeepsRn DEF EngineInv, Quiet

\* A step of the renotify loop.
LEMMA RenotifyStep ==
  ASSUME EngineInv, Quiet, TypeOK', \A n \in Insts : RowOK(n)', ev' = ev, RnOK'
  PROVE  EngineInv'
<1>1. \A n \in Insts : Firing(n) => Born(n)
  BY DEF Firing, Born
<1> QED
  BY <1>1, QuietSingle, KeepsEv DEF EngineInv, Quiet

\* The initial state satisfies the invariant.
LEMMA InitInv == Init => EngineInv
<1> SUFFICES ASSUME Init PROVE EngineInv
  OBVIOUS
<1>1. inst = [n \in Insts |-> NoRow] /\ inst \in [Insts -> Instance]
  BY NoRowType DEF Init
<1>2. TypeOK
  <2>1. cache \in [fresh: BOOLEAN, covered: Scopes]
    BY ConfigAssumption DEF Init, NoCache
  <2>2. ev \in [Checks -> Evaluation]
    BY BoundsAssumption DEF Init, Idle, Evaluation, Ids
  <2>3. rn \in Round
    BY BoundsAssumption DEF Init, IdleRound, Round, Ids
  <2>4. sent \in [Insts -> SUBSET Says] /\ faults \in 0 .. MaxFaults
        /\ rule \in [Checks -> {"enabled", "disabled", "deleted"}]
        /\ breach \in [Checks -> BOOLEAN] /\ window \in Scopes
    BY ConfigAssumption, BoundsAssumption DEF Init
  <2> QED
    BY <1>1, <2>1, <2>2, <2>3, <2>4 DEF Init, TypeOK, Idle, IdleRound
<1>3. \A n \in Insts : RowOK(n)
  BY <1>1, NoRowType DEF RowOK
<1>4. Single
  BY <1>1, NoRowType DEF Single, Firing
<1>5. \A c \in Checks : EvOK(c)
  BY DEF Init, Idle, EvOK
<1>6. RnOK
  BY DEF Init, IdleRound, RnOK
<1> QED
  BY <1>2, <1>3, <1>4, <1>5, <1>6 DEF EngineInv

\* What operators do to one open row.
LEMMA OperatorUpdate ==
  ASSUME EngineInv, NEW n \in Insts, NEW row \in Instance, Firing(n),
         inst' = [inst EXCEPT ![n] = row], UNCHANGED <<world, cache, ev, rn, sent, faults>>,
         row.state \in {"firing", "resolved"}, row.check = inst[n].check,
         inst[n].handled => row.handled, row.state = "resolved" => row.handled,
         row.notified = inst[n].notified \/ inst[n].notified # "never"
  PROVE  EngineInv'
<1>1. Update(n, row) /\ Born(n) /\ ~Gone(n)
  BY DEF Update, Firing, Born, Gone
<1>2. row.notified # "never" => sent[n] # {}
  BY DEF EngineInv, RowOK
<1>3. Quiet /\ inst' \in [Insts -> Instance] /\ \A m \in Insts : RowOK(m)'
  <2>1. row.state \notin {"none", "gone"}
    OBVIOUS
  <2> QED
    BY <1>1, <1>2, <2>1, UpdateRow
<1>4. TypeOK'
  BY <1>3 DEF EngineInv, TypeOK, world
<1> QED
  BY <1>3, <1>4, WorldStep

\* Telemetry, operators, maintenance and time keep the invariant.
LEMMA WorldInv ==
  ASSUME EngineInv,
         \/ \E c \in Checks : SignalChanges(c) \/ UpdateRule(c) \/ DeleteRule(c)
         \/ WindowChanges \/ CancelWindow \/ CacheExpires
         \/ \E n \in Insts : AcknowledgeInstance(n) \/ ResolveInstanceManual(n)
                             \/ IntervalElapses(n)
  PROVE  EngineInv'
<1>0. TypeOK /\ inst \in [Insts -> Instance]
  BY DEF EngineInv, TypeOK
<1>1. ASSUME NEW c \in Checks, SignalChanges(c) PROVE EngineInv'
  <2>1. TypeOK'
    BY <1>0, <1>1 DEF TypeOK, SignalChanges
  <2> QED
    BY <1>1, <2>1, SameRows, WorldStep DEF SignalChanges
<1>2. ASSUME NEW c \in Checks, UpdateRule(c) PROVE EngineInv'
  <2>1. TypeOK'
    BY <1>0, <1>2 DEF TypeOK, UpdateRule
  <2> QED
    BY <1>2, <2>1, SameRows, WorldStep DEF UpdateRule
<1>3. ASSUME NEW c \in Checks, DeleteRule(c) PROVE EngineInv'
  <2> DEFINE blank == [NoRow EXCEPT !.state = "gone", !.check = c]
  <2>1. /\ blank \in Instance /\ blank.state = "gone" /\ blank.check = c
        /\ blank.notified = "never"
    BY NoRowType DEF Instance
  <2> HIDE DEF blank
  <2>2. inst' = [n \in Insts |-> IF inst[n].check = c /\ Born(n) THEN blank ELSE inst[n]]
    BY <1>3 DEF DeleteRule, blank, Born
  <2>3. inst' \in [Insts -> Instance]
    BY <1>0, <2>1, <2>2
  <2>4. TypeOK'
    BY <1>0, <1>3, <2>3 DEF TypeOK, DeleteRule
  <2>5. ASSUME NEW n \in Insts
        PROVE  \/ inst'[n] = inst[n]
               \/ inst'[n] = blank /\ inst[n].check = c /\ Born(n)
    BY <2>2
  <2>6. \A n \in Insts : RowOK(n)'
    BY <1>3, <2>1, <2>5 DEF EngineInv, RowOK, Born, DeleteRule
  <2>7. Quiet
    <3>1. ASSUME NEW n \in Insts
          PROVE  /\ Born(n) => Born(n)' /\ inst'[n].check = inst[n].check
                 /\ Gone(n) => Gone(n)'
                 /\ Born(n) /\ inst[n].handled => inst'[n].handled \/ Gone(n)'
                 /\ Firing(n)' => Firing(n)
      BY <2>1, <2>5 DEF Born, Gone, Firing
    <3> QED
      BY <1>3, <3>1 DEF Quiet, Keeps, DeleteRule
  <2> QED
    BY <1>3, <2>4, <2>6, <2>7, WorldStep DEF DeleteRule
<1>4. CASE WindowChanges
  <2>1. TypeOK'
    BY <1>0, <1>4 DEF TypeOK, WindowChanges
  <2> QED
    BY <1>4, <2>1, SameRows, WorldStep DEF WindowChanges
<1>5. CASE CancelWindow
  <2>0. PICK S \in SUBSET {n \in Insts : inst[n].supp} :
          inst' = [n \in Insts |->
                     IF n \in S THEN [inst[n] EXCEPT !.supp = FALSE] ELSE inst[n]]
    BY <1>5 DEF CancelWindow
  <2>1. ASSUME NEW n \in Insts
        PROVE  inst'[n] \in Instance /\ inst'[n].state = inst[n].state
               /\ inst'[n].check = inst[n].check /\ inst'[n].handled = inst[n].handled
               /\ inst'[n].notified = inst[n].notified
               /\ (inst'[n] = inst[n] \/ inst[n].supp)
    <3>1. inst[n] \in Instance
      BY <1>0
    <3>2. CASE n \in S
      <4>1. inst'[n] = [inst[n] EXCEPT !.supp = FALSE] /\ inst[n].supp
        BY <2>0, <3>2
      <4> QED
        BY <3>1, <4>1 DEF Instance
    <3>3. CASE n \notin S
      BY <2>0, <3>1, <3>3
    <3> QED
      BY <3>2, <3>3
  <2>2. inst' \in [Insts -> Instance]
    BY <1>5, <2>1 DEF CancelWindow
  <2>3. TypeOK'
    BY <1>0, <1>5, <2>2 DEF TypeOK, CancelWindow, world
  <2>4. Quiet
    BY <1>5, <2>1 DEF Quiet, Keeps, Born, Gone, Firing, CancelWindow
  <2>5. NoRow.supp = FALSE
    BY DEF NoRow
  <2>6. \A n \in Insts : RowOK(n)'
    BY <1>5, <2>1, <2>5 DEF EngineInv, RowOK, Born, CancelWindow
  <2> QED
    BY <1>5, <2>3, <2>4, <2>6, WorldStep DEF CancelWindow
<1>6. CASE CacheExpires
  <2>1. TypeOK'
    BY <1>0, <1>6, ConfigAssumption DEF TypeOK, CacheExpires, NoCache, world
  <2> QED
    BY <1>6, <2>1, SameRows, WorldStep DEF CacheExpires
<1>7. ASSUME NEW n \in Insts, AcknowledgeInstance(n) PROVE EngineInv'
  <2> DEFINE row == [inst[n] EXCEPT !.handled = TRUE]
  <2>1. row \in Instance /\ row.state = "firing" /\ row.check = inst[n].check /\ row.handled
        /\ row.notified = inst[n].notified /\ inst' = [inst EXCEPT ![n] = row]
    BY <1>0, <1>7 DEF AcknowledgeInstance, Instance, Firing
  <2> HIDE DEF row
  <2> QED
    BY <1>7, <2>1, OperatorUpdate DEF AcknowledgeInstance
<1>8. ASSUME NEW n \in Insts, ResolveInstanceManual(n) PROVE EngineInv'
  <2> DEFINE row == [inst[n] EXCEPT !.state = "resolved", !.handled = TRUE]
  <2>1. row \in Instance /\ row.state = "resolved" /\ row.check = inst[n].check /\ row.handled
        /\ row.notified = inst[n].notified /\ inst' = [inst EXCEPT ![n] = row]
    BY <1>0, <1>8 DEF ResolveInstanceManual, Instance, Firing
  <2> HIDE DEF row
  <2> QED
    BY <1>8, <2>1, OperatorUpdate DEF ResolveInstanceManual
<1>9. ASSUME NEW n \in Insts, IntervalElapses(n) PROVE EngineInv'
  <2> DEFINE row == [inst[n] EXCEPT !.notified = "due"]
  <2>1. row \in Instance /\ row.state = "firing" /\ row.check = inst[n].check
        /\ row.handled = inst[n].handled
        /\ inst[n].notified # "never" /\ inst' = [inst EXCEPT ![n] = row]
    BY <1>0, <1>9 DEF IntervalElapses, Instance, Firing, Notified
  <2> HIDE DEF row
  <2> QED
    BY <1>9, <2>1, OperatorUpdate DEF IntervalElapses
<1> QED
  BY <1>1, <1>2, <1>3, <1>4, <1>5, <1>6, <1>7, <1>8, <1>9

\* The conjuncts of TypeOK that speak of the evaluators.
EvType ==
  /\ ev \in [Checks -> Evaluation]
  /\ \A c \in Checks : ev[c].pc \notin {"idle", "listed", "open"} => ev[c].n \in Insts

\* Moving one evaluator on.
LEMMA GoToType ==
  ASSUME TypeOK, NEW c \in Checks, NEW e \in Evaluation, GoTo(c, e),
         e.pc \notin {"idle", "listed", "open"} => e.n \in Insts
  PROVE  EvType' /\ ev'[c] = e /\ \A d \in Checks : d # c => ev'[d] = ev[d]
  BY DEF TypeOK, EvType, GoTo

\* The resting evaluator is an evaluator.
LEMMA IdleType ==
  /\ Idle \in Evaluation /\ Idle.pc = "idle"
  /\ [Idle EXCEPT !.pc = "listed"] \in Evaluation
  /\ [Idle EXCEPT !.pc = "open"] \in Evaluation
<1>1. 0 \in Ids
  BY BoundsAssumption DEF Ids
<1> QED
  BY <1>1 DEF Idle, Evaluation

\* An evaluator that stops, whatever it announced before, keeps the invariant.
LEMMA EvaluatorStops ==
  ASSUME EngineInv, Quiet, \A n \in Insts : RowOK(n)', rn' = rn, UNCHANGED world,
         inst' \in [Insts -> Instance],
         sent' \in [Insts -> SUBSET Says],
         cache' \in [fresh: BOOLEAN, covered: Scopes], faults' \in 0 .. MaxFaults,
         NEW c \in Checks, NEW e \in Evaluation, e.pc \in {"idle", "listed"}, GoTo(c, e)
  PROVE  EngineInv'
<1>1. EvType' /\ ev'[c] = e /\ \A d \in Checks : d # c => ev'[d] = ev[d]
  BY GoToType DEF EngineInv
<1>2. TypeOK'
  BY <1>1 DEF EngineInv, TypeOK, EvType, world
<1> QED
  BY <1>1, <1>2, IdleEv, EvaluatorStep

\* ListRules and EvaluateRule keep the invariant: what a check's evaluator
\* reads is true of the rows when it reads it.
LEMMA ReadingInv ==
  ASSUME EngineInv, NEW c \in Checks, ListRules(c) \/ EvaluateRule(c)
  PROVE  EngineInv'
<1>0. /\ TypeOK /\ inst \in [Insts -> Instance] /\ faults \in 0 .. MaxFaults
      /\ cache \in [fresh: BOOLEAN, covered: Scopes]
      /\ sent \in [Insts -> SUBSET Says]
  BY DEF EngineInv, TypeOK
<1>1. UNCHANGED <<world, inst, cache, rn, sent, faults>>
  BY DEF ListRules, EvaluateRule
<1>2. Quiet /\ \A m \in Insts : RowOK(m)'
  BY <1>1, SameRows
<1>3. CASE ListRules(c)
  <2>1. GoTo(c, [Idle EXCEPT !.pc = "listed"]) /\ [Idle EXCEPT !.pc = "listed"].pc = "listed"
    BY <1>3 DEF ListRules, Idle
  <2> QED
    BY <1>0, <1>1, <1>2, <2>1, IdleType, EvaluatorStops
<1>4. CASE EvaluateRule(c)
  <2>1. CASE GoTo(c, Idle)
    BY <1>0, <1>1, <1>2, <2>1, IdleType, EvaluatorStops
  <2>2. CASE Active(c) = {} /\ GoTo(c, [Idle EXCEPT !.pc = "open"])
    <3> DEFINE e == [Idle EXCEPT !.pc = "open"]
    <3>1. e \in Evaluation /\ e.pc = "open"
      BY IdleType DEF Idle
    <3> HIDE DEF e
    <3>2. EvType' /\ ev'[c] = e /\ \A d \in Checks : d # c => ev'[d] = ev[d]
      BY <1>0, <2>2, <3>1, GoToType DEF e
    <3>3. TypeOK'
      BY <1>0, <1>1, <3>2 DEF TypeOK, EvType, world
    <3>4. \A n \in Insts : Firing(n)' => inst'[n].check # c
      BY <1>1, <2>2 DEF Active, Open, Firing
    <3>5. EvOK(c)'
      BY <3>1, <3>2, <3>4 DEF EvOK, Firing
    <3> QED
      BY <1>1, <1>2, <3>2, <3>3, <3>5, EvaluatorStep
  <2>3. ASSUME NEW n \in Active(c), ~Holds(c, n),
               GoTo(c, [pc |-> "resolve", n |-> n,
                        handled |-> inst[n].handled, supp |-> inst[n].supp])
        PROVE  EngineInv'
    <3> DEFINE e == [pc |-> "resolve", n |-> n,
                     handled |-> inst[n].handled, supp |-> inst[n].supp]
    <3>1. n \in Insts /\ Firing(n) /\ inst[n].check = c /\ inst[n] \in Instance
      BY <1>0, <2>3 DEF Active, Open
    <3>2. e \in Evaluation /\ e.pc = "resolve" /\ e.n = n
      BY <3>1 DEF Evaluation, Instance, Ids, Insts
    <3> HIDE DEF e
    <3>3. EvType' /\ ev'[c] = e /\ \A d \in Checks : d # c => ev'[d] = ev[d]
      BY <1>0, <2>3, <3>1, <3>2, GoToType DEF e
    <3>4. TypeOK'
      BY <1>0, <1>1, <3>3 DEF TypeOK, EvType, world
    <3>5. EvOK(c)'
      BY <1>1, <2>3, <3>1, <3>2, <3>3 DEF EvOK, Holds, Born, Firing, Gone
    <3> QED
      BY <1>1, <1>2, <3>3, <3>4, <3>5, EvaluatorStep
  <2> QED
    BY <1>4, <2>1, <2>2, <2>3 DEF EvaluateRule
<1> QED
  BY <1>3, <1>4

\* OpenInstance keeps the invariant: the check had no open alert when it was
\* read, and nobody else opens one for it.
LEMMA OpenInv ==
  ASSUME EngineInv, NEW c \in Checks, OpenInstance(c)
  PROVE  EngineInv'
<1>0. /\ TypeOK /\ inst \in [Insts -> Instance] /\ faults \in 0 .. MaxFaults
      /\ cache \in [fresh: BOOLEAN, covered: Scopes]
      /\ sent \in [Insts -> SUBSET Says]
  BY DEF EngineInv, TypeOK
<1>1. UNCHANGED <<world, cache, rn, sent, faults>> /\ ev[c].pc = "open"
  BY DEF OpenInstance
<1>2. CASE GoTo(c, Idle) /\ UNCHANGED inst
  <2>1. Quiet /\ \A m \in Insts : RowOK(m)'
    BY <1>1, <1>2, SameRows
  <2> QED
    BY <1>0, <1>1, <1>2, <2>1, IdleType, EvaluatorStops
<1>3. ASSUME NEW n \in Free,
             inst' = [inst EXCEPT ![n] = [NoRow EXCEPT !.state = "firing", !.check = c]],
             GoTo(c, [Idle EXCEPT !.pc = "fire", !.n = n])
      PROVE  EngineInv'
  <2> DEFINE row == [NoRow EXCEPT !.state = "firing", !.check = c]
             e   == [Idle EXCEPT !.pc = "fire", !.n = n]
  <2>1. n \in Insts /\ ~Born(n)
    BY DEF Free, Born
  <2>2. row \in Instance /\ row.state = "firing" /\ row.check = c /\ row.notified = "never"
    BY NoRowType DEF Instance
  <2>3. e \in Evaluation /\ e.pc = "fire" /\ e.n = n
    <3>1. n \in Ids
      BY <2>1, BoundsAssumption DEF Insts, Ids
    <3> QED
      BY <3>1, IdleType DEF Idle, Evaluation
  <2> HIDE DEF row, e
  <2>4. EvType' /\ ev'[c] = e /\ \A d \in Checks : d # c => ev'[d] = ev[d]
    BY <1>0, <1>3, <2>1, <2>3, GoToType DEF e
  <2>5. inst' \in [Insts -> Instance] /\ inst'[n] = row
        /\ \A m \in Insts : m # n => inst'[m] = inst[m]
    BY <1>0, <1>3, <2>1, <2>2 DEF row
  <2>6. TypeOK'
    BY <1>0, <1>1, <2>4, <2>5 DEF TypeOK, EvType, world
  <2>7. Keeps
    BY <1>1, <2>1, <2>2, <2>5 DEF Keeps, Born, Gone
  <2>8. \A m \in Insts : RowOK(m)'
    BY <1>1, <2>2, <2>5 DEF EngineInv, RowOK, Born
  <2>9. \A m \in Insts : Firing(m) => inst[m].check # c
    BY <1>1 DEF EngineInv, EvOK
  <2>10. Single'
    <3>1. ASSUME NEW m \in Insts, m # n, Firing(m)'
          PROVE  Firing(m) /\ inst'[m].check = inst[m].check /\ inst'[m].check # c
      BY <2>5, <2>9, <3>1 DEF Firing
    <3>2. inst'[n].check = c
      BY <2>2, <2>5
    <3> QED
      BY <3>1, <3>2 DEF EngineInv, Single
  <2>11. \A d \in Checks : EvOK(d)'
    <3>1. EvOK(c)'
      BY <2>2, <2>3, <2>4, <2>5 DEF EvOK, Born
    <3>2. ASSUME NEW d \in Checks, d # c
          PROVE  EvOK(d)'
      <4>1. \A m \in Insts : Firing(m)' => Firing(m) \/ inst'[m].check # d
        BY <2>2, <2>5, <3>2 DEF Firing
      <4> QED
        BY <1>0, <2>4, <2>7, <3>2, <4>1, KeepsEv DEF EngineInv
    <3> QED
      BY <3>1, <3>2
  <2>12. RnOK'
    BY <1>0, <1>1, <2>7, KeepsRn DEF EngineInv
  <2> QED
    BY <2>6, <2>8, <2>10, <2>11, <2>12 DEF EngineInv
<1> QED
  BY <1>2, <1>3 DEF OpenInstance

\* Muting a written row.
LEMMA MuteRow ==
  ASSUME EngineInv, NEW n \in Insts, Born(n), MarkInstanceSuppressed(n), sent' = sent
  PROVE  Quiet /\ inst' \in [Insts -> Instance] /\ \A m \in Insts : RowOK(m)'
<1> DEFINE row == [inst[n] EXCEPT !.supp = TRUE]
<1>1. inst[n] \in Instance /\ RowOK(n)
  BY DEF EngineInv, TypeOK
<1>2. CASE Gone(n)
  <2>1. inst' = inst
    BY <1>2 DEF MarkInstanceSuppressed, Update, Gone
  <2> QED
    BY <2>1, SameRows DEF EngineInv, TypeOK
<1>3. CASE ~Gone(n)
  <2>1. /\ row \in Instance /\ row.state = inst[n].state /\ row.check = inst[n].check
        /\ row.handled = inst[n].handled /\ row.notified = inst[n].notified
    BY <1>1 DEF Instance
  <2>2. Update(n, row)
    BY DEF MarkInstanceSuppressed
  <2> HIDE DEF row
  <2>3. row.state \notin {"none", "gone"} /\ (row.state = "firing" => Firing(n) \/ Gone(n))
    BY <1>3, <2>1 DEF Born, Gone, Firing
  <2>4. /\ row.state = "resolved" /\ row.check \in Manual => row.handled
        /\ row.notified # "never" => sent[n] # {}
    BY <1>1, <2>1 DEF RowOK
  <2> QED
    BY <2>1, <2>2, <2>3, <2>4, UpdateRow
<1> QED
  BY <1>2, <1>3

\* Stamping a row that was announced.
LEMMA StampRow ==
  ASSUME EngineInv, NEW n \in Insts, Born(n), MarkInstanceNotified(n), sent' = sent,
         Gone(n) \/ sent[n] # {}
  PROVE  Quiet /\ inst' \in [Insts -> Instance] /\ \A m \in Insts : RowOK(m)'
<1> DEFINE row == [inst[n] EXCEPT !.notified = "recent"]
<1>1. inst[n] \in Instance /\ RowOK(n)
  BY DEF EngineInv, TypeOK
<1>2. CASE Gone(n)
  <2>1. inst' = inst
    BY <1>2 DEF MarkInstanceNotified, Update, Gone
  <2> QED
    BY <2>1, SameRows DEF EngineInv, TypeOK
<1>3. CASE ~Gone(n)
  <2>1. /\ row \in Instance /\ row.state = inst[n].state /\ row.check = inst[n].check
        /\ row.handled = inst[n].handled
    BY <1>1 DEF Instance, Notified
  <2>2. Update(n, row)
    BY DEF MarkInstanceNotified
  <2> HIDE DEF row
  <2>3. row.state \notin {"none", "gone"} /\ (row.state = "firing" => Firing(n) \/ Gone(n))
    BY <1>3, <2>1 DEF Born, Gone, Firing
  <2>4. row.state = "resolved" /\ row.check \in Manual => row.handled
    BY <1>1, <2>1 DEF RowOK
  <2> QED
    BY <1>3, <2>1, <2>2, <2>3, <2>4, UpdateRow
<1> QED
  BY <1>2, <1>3

\* Resolving a row that is not held.
LEMMA ResolveRow ==
  ASSUME EngineInv, NEW n \in Insts, Born(n), sent' = sent,
         Update(n, [inst[n] EXCEPT !.state = "resolved"]),
         Gone(n) \/ (inst[n].check \in Manual => inst[n].handled)
  PROVE  Quiet /\ inst' \in [Insts -> Instance] /\ \A m \in Insts : RowOK(m)'
<1> DEFINE row == [inst[n] EXCEPT !.state = "resolved"]
<1>1. inst[n] \in Instance /\ RowOK(n)
  BY DEF EngineInv, TypeOK
<1>2. CASE Gone(n)
  <2>1. inst' = inst
    BY <1>2 DEF Update, Gone
  <2> QED
    BY <2>1, SameRows DEF EngineInv, TypeOK
<1>3. CASE ~Gone(n)
  <2>1. /\ row \in Instance /\ row.state = "resolved" /\ row.check = inst[n].check
        /\ row.handled = inst[n].handled /\ row.notified = inst[n].notified
    BY <1>1 DEF Instance
  <2>2. Update(n, row)
    OBVIOUS
  <2> HIDE DEF row
  <2>3. row.notified # "never" => sent[n] # {}
    BY <1>1, <2>1 DEF RowOK
  <2>4. row.state \notin {"none", "gone"} /\ row.state # "firing"
    BY <2>1
  <2> QED
    BY <1>3, <2>1, <2>2, <2>3, <2>4, UpdateRow
<1> QED
  BY <1>2, <1>3

\* The steps of an evaluator after it has opened or decided to resolve an
\* alert keep the invariant, failures included.
LEMMA DrivingInv ==
  ASSUME EngineInv, NEW c \in Checks,
         \/ EnqueueFiring(c) \/ FoldFiring(c) \/ SendFiring(c) \/ MarkFiring(c)
         \/ ResolveInstance(c) \/ AnnounceResolved(c) \/ EvaluationFails(c)
  PROVE  EngineInv'
<1> DEFINE e == ev[c]
<1>0. /\ TypeOK /\ inst \in [Insts -> Instance] /\ faults \in 0 .. MaxFaults
      /\ cache \in [fresh: BOOLEAN, covered: Scopes]
      /\ sent \in [Insts -> SUBSET Says]
      /\ e \in Evaluation /\ EvOK(c)
  BY DEF EngineInv, TypeOK
<1>1. e.pc \notin {"idle", "listed", "open"} =>
        e.n \in Insts /\ Born(e.n) /\ inst[e.n].check = c
  BY <1>0 DEF TypeOK, EvOK
<1>2. CASE EnqueueFiring(c)
  <2>0. /\ e.n \in Insts /\ Born(e.n) /\ inst[e.n].check = c
        /\ UNCHANGED <<world, rn, sent>>
    BY <1>1, <1>2 DEF EnqueueFiring
  <2>1. cache' \in [fresh: BOOLEAN, covered: Scopes] /\ faults' \in 0 .. MaxFaults
    BY <1>0, <1>2, CacheType DEF EnqueueFiring
  <2>2. CASE MarkInstanceSuppressed(e.n) /\ GoTo(c, Idle)
    <3>1. Quiet /\ inst' \in [Insts -> Instance] /\ \A m \in Insts : RowOK(m)'
      BY <2>0, <2>2, MuteRow
    <3> QED
      BY <1>0, <2>0, <2>1, <2>2, <3>1, IdleType, EvaluatorStops
  <2>3. CASE GoTo(c, [e EXCEPT !.pc = "enqueue"]) /\ UNCHANGED inst
    <3> DEFINE f == [e EXCEPT !.pc = "enqueue"]
    <3>1. f \in Evaluation /\ f.pc = "enqueue" /\ f.n = e.n
      BY <1>0 DEF Evaluation
    <3> HIDE DEF f
    <3>2. EvType' /\ ev'[c] = f /\ \A d \in Checks : d # c => ev'[d] = ev[d]
      BY <1>0, <2>0, <2>3, <3>1, GoToType DEF f
    <3>3. TypeOK'
      BY <1>0, <2>0, <2>1, <2>3, <3>2 DEF TypeOK, EvType, world
    <3>4. Quiet /\ \A m \in Insts : RowOK(m)'
      BY <2>0, <2>3, SameRows
    <3>5. EvOK(c)'
      BY <2>0, <2>3, <3>1, <3>2 DEF EvOK, Born
    <3> QED
      BY <2>0, <3>2, <3>3, <3>4, <3>5, EvaluatorStep
  <2> QED
    BY <1>2, <2>2, <2>3 DEF EnqueueFiring
<1>3. CASE FoldFiring(c)
  <2>1. Quiet /\ \A m \in Insts : RowOK(m)'
    BY <1>3, SameRows DEF FoldFiring
  <2> QED
    BY <1>0, <1>3, <2>1, IdleType, EvaluatorStops DEF FoldFiring
<1>4. CASE SendFiring(c)
  <2>0. /\ e.n \in Insts /\ Born(e.n) /\ inst[e.n].check = c
        /\ UNCHANGED <<world, inst, cache, rn>>
    BY <1>1, <1>4 DEF SendFiring
  <2>1. faults' \in 0 .. MaxFaults
    <3>1. PICK failed \in BOOLEAN : Spend(Cost(c \in Folded) + Cost(failed))
      BY <1>4 DEF SendFiring
    <3>2. Cost(c \in Folded) + Cost(failed) \in Nat
      BY DEF Cost
    <3> QED
      BY <1>0, <3>1, <3>2, SpendType
  <2>2. /\ Quiet /\ sent' \in [Insts -> SUBSET Says]
        /\ \A m \in Insts : RowOK(m)'
        /\ Gone(e.n) \/ sent'[e.n] # {}
    BY <1>4, <2>0, EnqueueRow DEF SendFiring
  <2> DEFINE f == [e EXCEPT !.pc = "mark"]
  <2>3. f \in Evaluation /\ f.pc = "mark" /\ f.n = e.n
    BY <1>0 DEF Evaluation
  <2> HIDE DEF f
  <2>4. EvType' /\ ev'[c] = f /\ \A d \in Checks : d # c => ev'[d] = ev[d]
    BY <1>0, <1>4, <2>0, <2>3, GoToType DEF f, SendFiring
  <2>5. TypeOK'
    BY <1>0, <2>0, <2>1, <2>2, <2>4 DEF TypeOK, EvType, world
  <2>6. EvOK(c)'
    BY <2>0, <2>2, <2>3, <2>4 DEF EvOK, Born, Gone
  <2> QED
    BY <2>0, <2>2, <2>4, <2>5, <2>6, EvaluatorStep
<1>5. CASE MarkFiring(c)
  <2>1. e.n \in Insts /\ Born(e.n) /\ (Gone(e.n) \/ sent[e.n] # {})
    BY <1>0, <1>1, <1>5 DEF MarkFiring, EvOK
  <2>2. Quiet /\ inst' \in [Insts -> Instance] /\ \A m \in Insts : RowOK(m)'
    BY <1>5, <2>1, StampRow DEF MarkFiring
  <2> QED
    BY <1>0, <1>5, <2>2, IdleType, EvaluatorStops DEF MarkFiring
<1>6. CASE ResolveInstance(c)
  <2>1. /\ e.n \in Insts /\ Born(e.n) /\ inst[e.n].check = c
        /\ UNCHANGED <<world, cache, rn, sent, faults>>
        /\ Gone(e.n) \/ (inst[e.n].check \in Manual => inst[e.n].handled)
    BY <1>0, <1>1, <1>6 DEF ResolveInstance, EvOK
  <2>2. Quiet /\ inst' \in [Insts -> Instance] /\ \A m \in Insts : RowOK(m)'
    BY <1>6, <2>1, ResolveRow DEF ResolveInstance
  <2>3. CASE GoTo(c, Idle)
    BY <1>0, <2>1, <2>2, <2>3, IdleType, EvaluatorStops
  <2>4. CASE GoTo(c, [e EXCEPT !.pc = "announce"])
    <3> DEFINE f == [e EXCEPT !.pc = "announce"]
    <3>1. f \in Evaluation /\ f.pc = "announce" /\ f.n = e.n
      BY <1>0 DEF Evaluation
    <3> HIDE DEF f
    <3>2. EvType' /\ ev'[c] = f /\ \A d \in Checks : d # c => ev'[d] = ev[d]
      BY <1>0, <2>1, <2>4, <3>1, GoToType DEF f
    <3>3. TypeOK'
      BY <1>0, <2>1, <2>2, <3>2 DEF TypeOK, EvType, world
    <3>4. EvOK(c)'
      BY <2>1, <2>2, <3>1, <3>2 DEF EvOK, Born, Quiet, Keeps
    <3> QED
      BY <2>1, <2>2, <3>2, <3>3, <3>4, EvaluatorStep
  <2> QED
    BY <1>6, <2>3, <2>4 DEF ResolveInstance
<1>7. CASE AnnounceResolved(c)
  <2>0. e.n \in Insts /\ Born(e.n) /\ UNCHANGED <<world, inst, cache, rn>>
        /\ faults' \in 0 .. MaxFaults
    BY <1>0, <1>1, <1>7, CostType, SpendType DEF AnnounceResolved
  <2>1. /\ Quiet /\ sent' \in [Insts -> SUBSET Says]
        /\ \A m \in Insts : RowOK(m)'
    BY <1>7, <2>0, EnqueueRow DEF AnnounceResolved
  <2> QED
    BY <1>0, <1>7, <2>0, <2>1, IdleType, EvaluatorStops DEF AnnounceResolved
<1>8. CASE EvaluationFails(c)
  <2>0. faults' \in 0 .. MaxFaults /\ UNCHANGED <<world, inst, cache, rn>>
    BY <1>0, <1>8, FaultType DEF EvaluationFails
  <2>1. /\ Quiet /\ sent' \in [Insts -> SUBSET Says]
        /\ \A m \in Insts : RowOK(m)'
    <3>1. CASE UNCHANGED sent
      BY <1>0, <2>0, <3>1, SameRows
    <3>2. CASE e.pc \in {"enqueue", "announce"} /\ EnqueueJobs(e.n, TRUE)
      <4>1. e.n \in Insts /\ Born(e.n)
        BY <1>1, <3>2
      <4> QED
        BY <2>0, <3>2, <4>1, EnqueueRow
    <3> QED
      BY <1>8, <3>1, <3>2 DEF EvaluationFails
  <2> QED
    BY <1>0, <1>8, <2>0, <2>1, IdleType, EvaluatorStops DEF EvaluationFails
<1> QED
  BY <1>2, <1>3, <1>4, <1>5, <1>6, <1>7, <1>8

\* A reading of a candidate row is an item of a round, and of a written row.
LEMMA ReadType ==
  ASSUME EngineInv, NEW n \in Candidates, NEW g \in BOOLEAN
  PROVE  Read(n, g) \in Item /\ Read(n, g).n = n /\ n \in Insts /\ Born(n)
<1>1. n \in Insts /\ inst[n] \in Instance /\ Firing(n)
  BY DEF EngineInv, TypeOK, Candidates
<1> QED
  BY <1>1 DEF Read, Item, Instance, Firing, Born

\* The resting loop is a round.
LEMMA IdleRoundType == IdleRound \in Round /\ IdleRound.pc = "idle"
<1>1. 0 \in Ids
  BY BoundsAssumption DEF Ids
<1> QED
  BY <1>1 DEF IdleRound, Round

\* A step of the renotify loop that leaves it in a well-formed round.
LEMMA RoundInv ==
  ASSUME EngineInv, Quiet, \A n \in Insts : RowOK(n)', UNCHANGED <<world, ev>>,
         inst' \in [Insts -> Instance],
         sent' \in [Insts -> SUBSET Says],
         cache' \in [fresh: BOOLEAN, covered: Scopes], faults' \in 0 .. MaxFaults,
         NEW r \in Round, rn' = r,
         \A it \in r.items : Born(it.n), \A n \in r.stamp : Born(n),
         r.pc \in {"enqueue", "mark"} => r.n \in Insts /\ Born(r.n),
         r.pc = "mark" => Gone(r.n) \/ sent'[r.n] # {}
  PROVE  EngineInv'
<1>1. TypeOK'
  BY DEF EngineInv, TypeOK, world
<1>2. \A n \in Insts : (Born(n) => Born(n)') /\ (Gone(n) => Gone(n)')
  BY DEF Quiet, Keeps
<1>3. RnOK'
  <2>1. \A it \in r.items : it.n \in Insts
    BY DEF Round, Item
  <2>2. \A n \in r.stamp : n \in Insts
    BY DEF Round
  <2>3. \A it \in r.items : Born(it.n)'
    BY <1>2, <2>1
  <2>4. \A n \in r.stamp : Born(n)'
    BY <1>2, <2>2
  <2>5. r.pc \in {"enqueue", "mark"} => Born(r.n)'
    BY <1>2
  <2>6. r.pc = "mark" => Gone(r.n)' \/ sent'[r.n] # {}
    BY <1>2
  <2> QED
    BY <2>3, <2>4, <2>5, <2>6 DEF RnOK, Born, Gone
<1> QED
  BY <1>1, <1>3, RenotifyStep

\* The three forms of the round's read keep the invariant.
LEMMA RoundReadInv ==
  ASSUME EngineInv, FiringUnackedInstances \/ ReadUnfolded \/ ReadPartly
  PROVE  EngineInv'
<1>0. /\ TypeOK /\ inst \in [Insts -> Instance] /\ faults \in 0 .. MaxFaults
      /\ cache \in [fresh: BOOLEAN, covered: Scopes]
      /\ sent \in [Insts -> SUBSET Says]
  BY DEF EngineInv, TypeOK
<1>1. UNCHANGED <<world, inst, cache, ev, sent>> /\ faults' \in 0 .. MaxFaults
  BY <1>0, FaultType DEF FiringUnackedInstances, ReadUnfolded, ReadPartly
<1>2. Quiet /\ \A m \in Insts : RowOK(m)'
  BY <1>1, SameRows
<1>3. ASSUME NEW S, S \subseteq Item, \A it \in S : Born(it.n),
             rn' = [IdleRound EXCEPT !.pc = "scan", !.items = S]
      PROVE  EngineInv'
  <2> DEFINE r == [IdleRound EXCEPT !.pc = "scan", !.items = S]
  <2>1. r \in Round /\ r.pc = "scan" /\ r.items = S /\ r.stamp = {}
    BY <1>3, IdleRoundType DEF IdleRound, Round
  <2> HIDE DEF r
  <2>2. rn' = r
    BY <1>3 DEF r
  <2> QED
    BY <1>0, <1>1, <1>2, <1>3, <2>1, <2>2, RoundInv
<1>4. ASSUME NEW n \in Candidates
      PROVE  LET it == Read(n, inst[n].check \in Folded)
             IN  it \in Item /\ Born(it.n)
  <2>1. (inst[n].check \in Folded) \in BOOLEAN
    OBVIOUS
  <2> QED
    BY <2>1, ReadType
<1>5. CASE FiringUnackedInstances
  <2> DEFINE S == {Read(n, inst[n].check \in Folded) : n \in Candidates}
  <2>1. S \subseteq Item /\ \A it \in S : Born(it.n)
    BY <1>4
  <2> QED
    BY <1>3, <1>5, <2>1 DEF FiringUnackedInstances
<1>6. CASE ReadUnfolded
  <2>1. PICK m \in Candidates :
          rn' = [IdleRound EXCEPT !.pc = "scan",
            !.items = {Read(n, inst[n].check \in Folded /\ n # m) : n \in Candidates}]
    BY <1>6 DEF ReadUnfolded
  <2> DEFINE S == {Read(n, inst[n].check \in Folded /\ n # m) : n \in Candidates}
  <2>2. S \subseteq Item /\ \A it \in S : Born(it.n)
    BY ReadType
  <2> QED
    BY <1>3, <2>1, <2>2
<1>7. CASE ReadPartly
  <2>1. PICK m \in Candidates :
          rn' = [IdleRound EXCEPT !.pc = "scan",
            !.items = {Read(n, inst[n].check \in Folded) : n \in Candidates \ {m}}]
    BY <1>7 DEF ReadPartly
  <2> DEFINE S == {Read(n, inst[n].check \in Folded) : n \in Candidates \ {m}}
  <2>2. S \subseteq Item /\ \A it \in S : Born(it.n)
    BY <1>4
  <2> QED
    BY <1>3, <2>1, <2>2
<1> QED
  BY <1>5, <1>6, <1>7

\* The rest of a round keeps the invariant, failures included.
LEMMA RoundStepsInv ==
  ASSUME EngineInv,
         \/ \E it \in rn.items : RenotifyCheck(it) \/ RenotifyIntegration(it)
         \/ \E n \in rn.stamp : StampStream(n)
         \/ SendAgain \/ MarkAgain \/ RoundEnds \/ RenotifyFails
  PROVE  EngineInv'
<1>0. /\ TypeOK /\ inst \in [Insts -> Instance] /\ faults \in 0 .. MaxFaults
      /\ cache \in [fresh: BOOLEAN, covered: Scopes]
      /\ sent \in [Insts -> SUBSET Says]
      /\ rn \in Round /\ 0 \in Ids
  BY BoundsAssumption DEF EngineInv, TypeOK, Ids
<1>1. /\ \A it \in rn.items : it \in Item /\ it.n \in Insts /\ it.n \in Ids /\ Born(it.n)
      /\ \A n \in rn.stamp : n \in Insts /\ Born(n)
      /\ rn.pc \in {"enqueue", "mark"} => rn.n \in Insts /\ Born(rn.n)
      /\ rn.pc = "mark" => Gone(rn.n) \/ sent[rn.n] # {}
  <2>1. \A n \in Insts : n \in Ids
    BY BoundsAssumption DEF Insts, Ids
  <2> QED
    BY <1>0, <2>1 DEF EngineInv, TypeOK, RnOK, Round, Item
<1>2. ASSUME NEW it \in rn.items, RenotifyCheck(it)
      PROVE  EngineInv'
  <2>0. UNCHANGED <<world, ev, sent>>
        /\ cache' \in [fresh: BOOLEAN, covered: Scopes] /\ faults' \in 0 .. MaxFaults
    BY <1>0, <1>2, CacheType DEF RenotifyCheck
  <2>1. Quiet /\ inst' \in [Insts -> Instance] /\ \A m \in Insts : RowOK(m)'
    <3>1. CASE MarkInstanceSuppressed(it.n)
      BY <1>1, <2>0, <3>1, MuteRow
    <3>2. CASE UNCHANGED inst
      BY <1>0, <2>0, <3>2, SameRows
    <3> QED
      BY <1>2, <3>1, <3>2 DEF RenotifyCheck
  <2>2. CASE rn' = [rn EXCEPT !.items = @ \ {it}]
    <3> DEFINE r == [rn EXCEPT !.items = @ \ {it}]
    <3>1. r \in Round /\ r.items \subseteq rn.items /\ r.stamp = rn.stamp
          /\ r.pc = rn.pc /\ r.n = rn.n
      BY <1>0 DEF Round
    <3>2. r.pc = "scan"
      BY <1>2, <3>1 DEF RenotifyCheck
    <3> HIDE DEF r
    <3>3. rn' = r
      BY <2>2 DEF r
    <3> QED
      BY <1>0, <1>1, <2>0, <2>1, <3>1, <3>2, <3>3, RoundInv
  <2>3. CASE rn' = [rn EXCEPT !.items = @ \ {it}, !.pc = "enqueue", !.n = it.n]
    <3> DEFINE r == [rn EXCEPT !.items = @ \ {it}, !.pc = "enqueue", !.n = it.n]
    <3>1. r \in Round /\ r.items \subseteq rn.items /\ r.stamp = rn.stamp
          /\ r.pc = "enqueue" /\ r.n = it.n
      BY <1>0, <1>1 DEF Round
    <3> HIDE DEF r
    <3>2. rn' = r
      BY <2>3 DEF r
    <3> QED
      BY <1>0, <1>1, <2>0, <2>1, <3>1, <3>2, RoundInv
  <2> QED
    BY <1>2, <2>2, <2>3 DEF RenotifyCheck
<1>3. ASSUME NEW it \in rn.items, RenotifyIntegration(it)
      PROVE  EngineInv'
  <2>0. UNCHANGED <<world, inst, ev, sent>> /\ rn.pc = "scan"
        /\ cache' \in [fresh: BOOLEAN, covered: Scopes] /\ faults' \in 0 .. MaxFaults
    BY <1>0, <1>3, CacheType DEF RenotifyIntegration
  <2>1. Quiet /\ \A m \in Insts : RowOK(m)'
    BY <2>0, SameRows
  <2>2. ASSUME NEW S, S \subseteq Insts, \A n \in S : Born(n),
               rn' = [rn EXCEPT !.items = {}, !.stamp = S]
        PROVE  EngineInv'
    <3> DEFINE r == [rn EXCEPT !.items = {}, !.stamp = S]
    <3>1. r \in Round /\ r.items = {} /\ r.stamp = S /\ r.pc = rn.pc
      BY <1>0, <2>2 DEF Round
    <3> HIDE DEF r
    <3>2. rn' = r
      BY <2>2 DEF r
    <3> QED
      BY <1>0, <2>0, <2>1, <2>2, <3>1, <3>2, RoundInv
  <2>3. CASE rn' = [rn EXCEPT !.items = {}, !.pc = "enqueue", !.n = it.n]
    <3> DEFINE r == [rn EXCEPT !.items = {}, !.pc = "enqueue", !.n = it.n]
    <3>1. r \in Round /\ r.items = {} /\ r.stamp = rn.stamp /\ r.pc = "enqueue" /\ r.n = it.n
      BY <1>0, <1>1 DEF Round
    <3> HIDE DEF r
    <3>2. rn' = r
      BY <2>3 DEF r
    <3> QED
      BY <1>0, <1>1, <2>0, <2>1, <3>1, <3>2, RoundInv
  <2>4. CASE rn' = [rn EXCEPT !.items = {}]
    <3> DEFINE r == [rn EXCEPT !.items = {}]
    <3>1. r \in Round /\ r.items = {} /\ r.stamp = rn.stamp /\ r.pc = rn.pc
      BY <1>0 DEF Round
    <3> HIDE DEF r
    <3>2. rn' = r
      BY <2>4 DEF r
    <3> QED
      BY <1>0, <1>1, <2>0, <2>1, <3>1, <3>2, RoundInv
  <2>5. LET S == {o.n : o \in {x \in Stream : Unmarked(x)}}
        IN  S \subseteq Insts /\ \A n \in S : Born(n)
    BY <1>1 DEF Stream
  <2> QED
    BY <1>3, <2>2, <2>3, <2>4, <2>5 DEF RenotifyIntegration
<1>4. ASSUME NEW n \in rn.stamp, StampStream(n)
      PROVE  EngineInv'
  <2>0. UNCHANGED <<world, cache, ev, sent, faults>> /\ rn.pc = "scan"
    BY <1>4 DEF StampStream
  <2>1. Quiet /\ inst' \in [Insts -> Instance] /\ \A m \in Insts : RowOK(m)'
    BY <1>1, <1>4, <2>0, MuteRow DEF StampStream
  <2> DEFINE r == [rn EXCEPT !.stamp = @ \ {n}]
  <2>2. r \in Round /\ r.items = rn.items /\ r.stamp \subseteq rn.stamp /\ r.pc = rn.pc
    BY <1>0 DEF Round
  <2> HIDE DEF r
  <2>3. rn' = r
    BY <1>4 DEF r, StampStream
  <2> QED
    BY <1>0, <1>1, <2>0, <2>1, <2>2, <2>3, RoundInv
<1>5. CASE SendAgain
  <2>0. UNCHANGED <<world, inst, cache, ev>> /\ rn.n \in Insts /\ Born(rn.n)
        /\ faults' \in 0 .. MaxFaults
    BY <1>0, <1>1, <1>5, CostType, SpendType DEF SendAgain
  <2>1. /\ Quiet /\ sent' \in [Insts -> SUBSET Says]
        /\ \A m \in Insts : RowOK(m)'
        /\ Gone(rn.n) \/ sent'[rn.n] # {}
    BY <1>5, <2>0, EnqueueRow DEF SendAgain
  <2> DEFINE r == [rn EXCEPT !.pc = "mark"]
  <2>2. r \in Round /\ r.items = rn.items /\ r.stamp = rn.stamp /\ r.pc = "mark"
        /\ r.n = rn.n
    BY <1>0 DEF Round
  <2> HIDE DEF r
  <2>3. rn' = r
    BY <1>5 DEF r, SendAgain
  <2> QED
    BY <1>0, <1>1, <2>0, <2>1, <2>2, <2>3, RoundInv
<1>6. ASSUME rn' = [rn EXCEPT !.pc = "scan", !.n = 0],
             Quiet, \A m \in Insts : RowOK(m)', UNCHANGED <<world, cache, ev>>,
             inst' \in [Insts -> Instance], faults' \in 0 .. MaxFaults,
             sent' \in [Insts -> SUBSET Says]
      PROVE  EngineInv'
  <2> DEFINE r == [rn EXCEPT !.pc = "scan", !.n = 0]
  <2>1. r \in Round /\ r.items = rn.items /\ r.stamp = rn.stamp /\ r.pc = "scan"
    BY <1>0 DEF Round
  <2> HIDE DEF r
  <2>2. rn' = r
    BY <1>6 DEF r
  <2> QED
    BY <1>0, <1>1, <1>6, <2>1, <2>2, RoundInv
<1>7. CASE MarkAgain
  <2>0. UNCHANGED <<world, cache, ev, sent, faults>> /\ rn.n \in Insts /\ Born(rn.n)
        /\ (Gone(rn.n) \/ sent[rn.n] # {})
    BY <1>1, <1>7 DEF MarkAgain
  <2>1. Quiet /\ inst' \in [Insts -> Instance] /\ \A m \in Insts : RowOK(m)'
    BY <1>7, <2>0, StampRow DEF MarkAgain
  <2> QED
    BY <1>0, <1>6, <1>7, <2>0, <2>1 DEF MarkAgain
<1>8. CASE RoundEnds
  <2>0. UNCHANGED <<world, inst, cache, ev, sent, faults>> /\ rn' = IdleRound
    BY <1>8 DEF RoundEnds
  <2>1. Quiet /\ \A m \in Insts : RowOK(m)'
    BY <2>0, SameRows
  <2>2. IdleRound.items = {} /\ IdleRound.stamp = {}
    BY DEF IdleRound
  <2> QED
    BY <1>0, <2>0, <2>1, <2>2, IdleRoundType, RoundInv
<1>9. CASE RenotifyFails
  <2>0. UNCHANGED <<world, inst, cache, ev>> /\ faults' \in 0 .. MaxFaults
    BY <1>0, <1>9, FaultType DEF RenotifyFails
  <2>1. CASE rn.pc = "enqueue" /\ (UNCHANGED sent \/ EnqueueJobs(rn.n, TRUE))
             /\ rn' = [rn EXCEPT !.pc = "scan", !.n = 0]
    <3>1. /\ Quiet /\ sent' \in [Insts -> SUBSET Says]
          /\ \A m \in Insts : RowOK(m)'
      <4>1. CASE UNCHANGED sent
        BY <1>0, <2>0, <4>1, SameRows
      <4>2. CASE EnqueueJobs(rn.n, TRUE)
        BY <1>1, <2>0, <2>1, <4>2, EnqueueRow
      <4> QED
        BY <2>1, <4>1, <4>2
    <3> QED
      BY <1>0, <1>6, <2>0, <2>1, <3>1
  <2>2. ASSUME UNCHANGED sent PROVE Quiet /\ \A m \in Insts : RowOK(m)'
    BY <2>0, <2>2, SameRows
  <2>3. CASE UNCHANGED sent /\ rn' = [rn EXCEPT !.pc = "scan", !.n = 0]
    BY <1>0, <1>6, <2>0, <2>2, <2>3
  <2>4. ASSUME UNCHANGED sent, rn.pc = "scan", NEW n, rn' = [rn EXCEPT !.stamp = @ \ {n}]
        PROVE  EngineInv'
    <3> DEFINE r == [rn EXCEPT !.stamp = @ \ {n}]
    <3>1. r \in Round /\ r.items = rn.items /\ r.stamp \subseteq rn.stamp /\ r.pc = "scan"
      BY <1>0, <2>4 DEF Round
    <3> HIDE DEF r
    <3>2. rn' = r
      BY <2>4 DEF r
    <3> QED
      BY <1>0, <1>1, <2>0, <2>2, <2>4, <3>1, <3>2, RoundInv
  <2>5. ASSUME UNCHANGED sent, rn.pc = "scan", NEW it, rn' = [rn EXCEPT !.items = @ \ {it}]
        PROVE  EngineInv'
    <3> DEFINE r == [rn EXCEPT !.items = @ \ {it}]
    <3>1. r \in Round /\ r.items \subseteq rn.items /\ r.stamp = rn.stamp /\ r.pc = "scan"
      BY <1>0, <2>5 DEF Round
    <3> HIDE DEF r
    <3>2. rn' = r
      BY <2>5 DEF r
    <3> QED
      BY <1>0, <1>1, <2>0, <2>2, <2>5, <3>1, <3>2, RoundInv
  <2> QED
    BY <1>9, <2>1, <2>3, <2>4, <2>5 DEF RenotifyFails
<1> QED
  BY <1>2, <1>3, <1>4, <1>5, <1>7, <1>8, <1>9

\* A restart keeps the invariant: the loops forget, the rows stay.
LEMMA RestartInv ==
  ASSUME EngineInv, Restart
  PROVE  EngineInv'
<1>0. TypeOK /\ UNCHANGED <<world, inst, sent>> /\ ev' = [c \in Checks |-> Idle]
      /\ rn' = IdleRound /\ cache' = NoCache
  BY DEF EngineInv, Restart
<1>1. Quiet /\ \A m \in Insts : RowOK(m)'
  BY <1>0, SameRows
<1>2. faults' \in 0 .. MaxFaults
  BY <1>0, FaultType DEF Restart
<1>3. cache' \in [fresh: BOOLEAN, covered: Scopes]
  BY <1>0, ConfigAssumption DEF NoCache
<1>4. ev' \in [Checks -> Evaluation] /\ \A c \in Checks : ev'[c].pc = "idle"
  BY <1>0, IdleType
<1>5. TypeOK'
  BY <1>0, <1>2, <1>3, <1>4, IdleRoundType DEF TypeOK, world
<1>6. \A c \in Checks : EvOK(c)'
  BY <1>4, IdleEv
<1>7. RnOK'
  BY <1>0, IdleRn
<1>8. Single'
  BY <1>1, QuietSingle DEF EngineInv, Firing, Born
<1> QED
  BY <1>1, <1>5, <1>6, <1>7, <1>8 DEF EngineInv

\* Every step keeps the invariant.
LEMMA NextInv == EngineInv /\ [Next]_vars => EngineInv'
<1> SUFFICES ASSUME EngineInv, [Next]_vars PROVE EngineInv'
  OBVIOUS
<1>1. CASE UNCHANGED vars
  <2>1. Quiet /\ \A m \in Insts : RowOK(m)'
    BY <1>1, SameRows DEF vars
  <2>2. TypeOK'
    BY <1>1 DEF vars, EngineInv, TypeOK
  <2> QED
    BY <1>1, <2>1, <2>2, WorldStep DEF vars
<1>2. ASSUME NEW c \in Checks, Evaluate(c) PROVE EngineInv'
  BY <1>2, ReadingInv, OpenInv, DrivingInv DEF Evaluate
<1>3. CASE Renotify
  BY <1>3, RoundReadInv, RoundStepsInv DEF Renotify
<1> QED
  BY <1>1, <1>2, <1>3, WorldInv, DrivingInv, RoundReadInv, RoundStepsInv, RestartInv DEF Next

\* The invariant holds for ever: for any configuration, through failed
\* statements, failed lookups and restarts.
THEOREM EngineInvHolds == Spec => []EngineInv
  BY InitInv, NextInv, PTL DEF Spec

\* Every variable keeps its type, and no loop is ever about to write to a row
\* it does not know (engine.go passes instance ids from read to write).
THEOREM EngineTyped == Spec => []TypeOK
<1>1. EngineInv => TypeOK
  BY DEF EngineInv
<1> QED
  BY <1>1, EngineInvHolds, PTL

\* A check never has two open alerts, although the evaluator reads and
\* inserts in two statements with no constraint behind them (ActiveInstance,
\* OpenInstance).
THEOREM OneOpenHolds == Spec => []OneOpenPerCheck
<1>1. EngineInv => OneOpenPerCheck
  <2> SUFFICES ASSUME EngineInv, NEW c \in Checks
               PROVE  Cardinality(Open(c)) <= 1
    BY DEF OneOpenPerCheck
  <2>1. CASE Open(c) = {}
    BY <2>1, FS_EmptySet
  <2>2. ASSUME NEW n \in Open(c)
        PROVE  Cardinality(Open(c)) <= 1
    <3>1. Open(c) = {n}
      BY <2>2 DEF Open, EngineInv, Single
    <3>2. Cardinality({n}) = 1
      BY FS_Singleton
    <3> QED
      BY <3>1, <3>2
  <2> QED
    BY <2>1, <2>2
<1> QED
  BY <1>1, EngineInvHolds, PTL

\* A manual check's alert is resolved only after somebody acknowledged or
\* closed it: resolveOrHold decides from an earlier reading, and that is
\* sound because an acknowledgement is never taken back.
THEOREM StickyHeldHolds == Spec => []StickyHeld
<1>1. EngineInv => StickyHeld
  BY DEF EngineInv, RowOK, StickyHeld
<1> QED
  BY <1>1, EngineInvHolds, PTL
=============================================================================
