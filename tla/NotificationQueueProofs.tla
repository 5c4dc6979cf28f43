----------------------- MODULE NotificationQueueProofs -----------------------
(***************************************************************************)
(* Theorems about NotificationQueue, for any number of processes, jobs,    *)
(* instances and channels and any sizes.                                   *)
(***************************************************************************)
EXTENDS NotificationQueue, FiniteSetTheorems, TLAPS

\* TypeOK is not inductive alone: a claim copies the state of the job's
\* instance, which has the type of an alert state because of ForeignKeys.
Typed == TypeOK /\ ForeignKeys

\* retryPlan always waits at least one unit and never more than maxBackoff.
LEMMA BackoffType == \A a : Backoff(a) \in 1 .. MaxBackoff
  BY SizesAssumption DEF Backoff

\* The arithmetic of the timestamps and of attempts stays in range.
LEMMA Ranges ==
  /\ 0 \in Attempts /\ 0 \in Wait /\ 0 \in Age /\ 0 \in Left /\ Window \in Left
  /\ \A a \in Attempts : Bump(a) \in Attempts
  /\ \A a : Backoff(a) \in Wait
  /\ \A t \in Left : Countdown(t) \in Left
  /\ \A t \in Wait : Sooner(t) \in Wait
  /\ \A t \in Age : Older(t) \in Age
  BY SizesAssumption, BackoffType
  DEF Attempts, Wait, Age, Left, Bump, Countdown, Sooner, Older

\* A claim takes at least one job when some job is due, and never more than
\* the LIMIT of the statement.
LEMMA BatchSizeType ==
  /\ BatchSize \in 0 .. BatchLimit
  /\ Due # {} => BatchSize \in 1 .. BatchLimit
<1>1. IsFiniteSet(Jobs)
  BY FS_Interval, SizesAssumption DEF Jobs
<1>2. Due \subseteq Jobs
  BY DEF Due
<1>3. IsFiniteSet(Due)
  BY <1>1, <1>2, FS_Subset
<1>4. Cardinality(Due) \in Nat /\ (Cardinality(Due) = 0 <=> Due = {})
  BY <1>3, FS_CardinalityType, FS_EmptySet
<1> QED
  BY <1>4, SizesAssumption DEF BatchSize

\* What a claim copies out of a pending row is a claim.
LEMMA ClaimOfType ==
  ASSUME Typed, NEW j \in Jobs, Exists(j)
  PROVE  ClaimOf(j) \in Claim
  BY DEF Typed, TypeOK, ForeignKeys, ClaimOf, Claim, Row

\* Popping the head of a batch keeps the batch and the phase well formed.
LEMMA NextInBatchType ==
  ASSUME TypeOK, NEW w \in Workers, phase[w] \in Working, NextInBatch(w)
  PROVE  /\ batch' \in [Workers -> Seq(Claim)]
         /\ phase' \in [Workers -> Phase]
         /\ spent' \in [Workers -> 0 .. MaxDelivery]
         /\ \A v \in Workers :
              IF phase'[v] \in Working THEN Len(batch'[v]) \in 1 .. BatchLimit
                                       ELSE Len(batch'[v]) = 0
<1>1. batch[w] \in Seq(Claim) /\ Len(batch[w]) \in 1 .. BatchLimit
  BY DEF TypeOK
<1>2. Tail(batch[w]) \in Seq(Claim) /\ Len(Tail(batch[w])) = Len(batch[w]) - 1
  BY <1>1, SizesAssumption
<1>4. batch' \in [Workers -> Seq(Claim)]
  BY <1>2 DEF TypeOK, NextInBatch
<1>5. phase' \in [Workers -> Phase] /\ spent' \in [Workers -> 0 .. MaxDelivery]
  BY SizesAssumption DEF TypeOK, NextInBatch, Phase
<1>6. ASSUME NEW v \in Workers
      PROVE IF phase'[v] \in Working THEN Len(batch'[v]) \in 1 .. BatchLimit
                                     ELSE Len(batch'[v]) = 0
  <2>1. CASE v = w
    <3>1. batch'[v] = Tail(batch[w])
          /\ phase'[v] = IF Len(batch[w]) = 1 THEN "idle" ELSE "deliver"
      BY <2>1 DEF TypeOK, NextInBatch
    <3>2. CASE Len(batch[w]) = 1
      BY <3>1, <3>2, <1>2 DEF Working
    <3>3. CASE Len(batch[w]) # 1
      <4>1. \A n \in 1 .. BatchLimit : n # 1 => n - 1 \in 1 .. BatchLimit
        BY SizesAssumption
      <4> QED
        BY <1>1, <3>1, <3>3, <1>2, <4>1 DEF Working
    <3> QED
      BY <3>2, <3>3
  <2>2. CASE v # w
    BY <2>2 DEF TypeOK, NextInBatch
  <2> QED
    BY <2>1, <2>2
<1> QED
  BY <1>4, <1>5, <1>6

\* One UPDATE by id keeps the table typed and every job's instance alive.
LEMMA UpdateType ==
  ASSUME Typed, NEW j \in Jobs, NEW row \in Row, Update(j, row),
         row.inst = job[j].inst, UNCHANGED inst
  PROVE  job' \in [Jobs -> Row] /\ ForeignKeys'
  BY DEF Typed, TypeOK, ForeignKeys, Update, Exists

\* The head of a working process's batch is a claim on some job.
LEMMA HeadType ==
  ASSUME TypeOK, NEW w \in Workers, phase[w] \in Working
  PROVE  Head1(w) \in Claim
  BY DEF TypeOK, Head1

\* Time passes for a batch without changing how many jobs it holds.
LEMMA TickBatch ==
  ASSUME TypeOK, Tick, NEW w \in Workers
  PROVE  batch'[w] \in Seq(Claim) /\ Len(batch'[w]) = Len(batch[w])
<1>1. batch[w] \in Seq(Claim) /\ Len(batch[w]) \in Nat
  BY DEF TypeOK
<1>2. batch'[w] = [k \in 1 .. Len(batch[w]) |->
                     [batch[w][k] EXCEPT !.left = Countdown(@)]]
  BY DEF Tick
<1>3. \A k \in 1 .. Len(batch[w]) :
        [batch[w][k] EXCEPT !.left = Countdown(@)] \in Claim
  <2>1. \A k \in 1 .. Len(batch[w]) : batch[w][k] \in Claim
    BY <1>1
  <2> QED
    BY <2>1, Ranges DEF Claim
<1> QED
  BY <1>1, <1>2, <1>3

\* Every variable keeps its type for ever, and no job outlives its instance
\* (the foreign keys of migration 0001): every action of the queue, for any
\* number of processes, rows and sizes.
THEOREM TypeCorrect == Spec => []Typed
<1>1. Init => Typed
  <2> SUFFICES ASSUME Init PROVE Typed
    OBVIOUS
  <2>1. job \in [Jobs -> Row]
    BY Ranges, TablesAssumption DEF Init, NoRow, Row, RowState, Alert
  <2> QED
    BY <2>1, SizesAssumption
    DEF Init, Typed, TypeOK, ForeignKeys, InstState, Phase, Working, NoRow, Exists
<1>2. Typed /\ [Next]_vars => Typed'
  <2> SUFFICES ASSUME Typed, [Next]_vars PROVE Typed'
    OBVIOUS
  <2> USE DEF Typed
  <2>1. ASSUME NEW i \in Instances, OpenInstance(i)
        PROVE  Typed'
    BY <2>1 DEF TypeOK, ForeignKeys, OpenInstance, workerVars, InstState, Alert, Exists, Row
  <2>2. ASSUME NEW i \in Instances, ResolveInstance(i)
        PROVE  Typed'
    BY <2>2 DEF TypeOK, ForeignKeys, ResolveInstance, workerVars, InstState, Alert, Exists, Row
  <2>3. ASSUME NEW i \in Instances, DeleteRule(i)
        PROVE  Typed'
    <3>1. job' \in [Jobs -> Row]
      BY <2>3 DEF TypeOK, DeleteRule, Cascade, Row, RowState
    <3>2. ASSUME NEW k \in Jobs, Exists(k)'
          PROVE  inst'[job'[k].inst] \in Alert
      <4>1. job'[k] = job[k] /\ Exists(k) /\ job[k].inst # i
        BY <2>3, <3>2 DEF TypeOK, DeleteRule, Cascade, Exists, Row
      <4> QED
        BY <2>3, <4>1 DEF TypeOK, ForeignKeys, DeleteRule, Row
    <3> QED
      BY <2>3, <3>1, <3>2 DEF TypeOK, ForeignKeys, DeleteRule, workerVars, InstState
  <2>4. ASSUME NEW j \in Jobs, NEW i \in Instances, NEW c \in Channels,
               EnqueueJob(j, i, c)
        PROVE  Typed'
    BY <2>4, Ranges
    DEF TypeOK, ForeignKeys, EnqueueJob, workerVars, Alert, Exists, Row, RowState
  <2>5. ASSUME NEW j \in Jobs, RetryJob(j)
        PROVE  Typed'
    <3> DEFINE row == [job[j] EXCEPT !.state = "pending", !.attempts = 0,
                                     !.wait = 0, !.left = Window, !.age = 0]
    <3>1. row \in Row /\ row.inst = job[j].inst
      BY Ranges DEF TypeOK, Row, RowState
    <3>2. job' = [job EXCEPT ![j] = row] /\ Exists(j)
      BY <2>5 DEF TypeOK, RetryJob, Exists, GivenUp
    <3>3. job' \in [Jobs -> Row] /\ ForeignKeys'
      BY <2>5, <3>1, <3>2, UpdateType DEF Update, RetryJob
    <3>4. retries' \in 0 .. MaxRetries
      BY <2>5, SizesAssumption DEF TypeOK, RetryJob
    <3> QED
      BY <2>5, <3>3, <3>4 DEF TypeOK, RetryJob, workerVars
  <2>6. ASSUME NEW c \in Channels, DeleteChannel(c)
        PROVE  Typed'
    BY <2>6 DEF TypeOK, ForeignKeys, DeleteChannel, Cascade, workerVars, Exists, Row, RowState
  <2>7. ASSUME NEW w \in Workers, ClaimDueJobs(w)
        PROVE  Typed'
    <3>1. PICK s \in Picks :
            /\ batch' = [batch EXCEPT ![w] = [k \in 1 .. BatchSize |-> ClaimOf(s[k])]]
            /\ job' = [j \in Jobs |->
                         IF \E k \in 1 .. BatchSize : s[k] = j
                           THEN [job[j] EXCEPT !.state = "running", !.age = 0]
                           ELSE job[j]]
      BY <2>7 DEF ClaimDueJobs
    <3>2. BatchSize \in 1 .. BatchLimit
      BY <2>7, BatchSizeType DEF ClaimDueJobs
    <3>3. ASSUME NEW k \in 1 .. BatchSize
          PROVE  s[k] \in Jobs /\ Exists(s[k])
      BY DEF Picks, Due, Exists
    <3>4. \A k \in 1 .. BatchSize : ClaimOf(s[k]) \in Claim
      BY <3>3, ClaimOfType
    <3> DEFINE b == [k \in 1 .. BatchSize |-> ClaimOf(s[k])]
    <3>5. b \in Seq(Claim) /\ Len(b) = BatchSize
      BY <3>2, <3>4, SizesAssumption
    <3>6. job' \in [Jobs -> Row] /\ ForeignKeys'
      <4>1. ASSUME NEW j \in Jobs
            PROVE  job'[j] \in Row /\ job'[j].inst = job[j].inst
                   /\ (Exists(j)' => Exists(j))
        <5>1. CASE \E k \in 1 .. BatchSize : s[k] = j
          BY <3>1, <3>3, <5>1, Ranges DEF TypeOK, Row, RowState
        <5>2. CASE ~ \E k \in 1 .. BatchSize : s[k] = j
          BY <3>1, <5>2 DEF TypeOK, Exists
        <5> QED
          BY <5>1, <5>2
      <4>2. job' = [j \in Jobs |-> job'[j]]
        BY <3>1
      <4> QED
        BY <2>7, <4>1, <4>2 DEF ClaimDueJobs, ForeignKeys
    <3>7. batch' \in [Workers -> Seq(Claim)] /\ batch'[w] = b
          /\ \A v \in Workers : v # w => batch'[v] = batch[v]
      BY <3>1, <3>5 DEF TypeOK
    <3> HIDE DEF b
    <3>8. /\ phase' \in [Workers -> Phase] /\ phase'[w] = "deliver"
          /\ \A v \in Workers : v # w => phase'[v] = phase[v]
          /\ spent' \in [Workers -> 0 .. MaxDelivery]
      <4>1. 0 \in 0 .. MaxDelivery
        BY SizesAssumption
      <4> QED
        BY <2>7, <4>1 DEF ClaimDueJobs, TypeOK, Phase
    <3>9. ASSUME NEW v \in Workers
          PROVE  IF phase'[v] \in Working THEN Len(batch'[v]) \in 1 .. BatchLimit
                                          ELSE Len(batch'[v]) = 0
      <4>1. CASE v = w
        BY <4>1, <3>2, <3>5, <3>7, <3>8 DEF Working
      <4>2. CASE v # w
        BY <4>2, <3>7, <3>8 DEF TypeOK
      <4> QED
        BY <4>1, <4>2
    <3> QED
      BY <2>7, <3>6, <3>7, <3>8, <3>9 DEF ClaimDueJobs, TypeOK
  <2>8. ASSUME NEW w \in Workers, MarkJobDropped(w)
        PROVE  Typed'
    <3>1. phase[w] \in Working
      BY <2>8 DEF MarkJobDropped, Working
    <3>2. Head1(w) \in Claim
      BY <3>1, HeadType
    <3> DEFINE j == Head1(w).job
               row == [job[j] EXCEPT !.state = "dropped", !.age = 0]
    <3>3. j \in Jobs /\ row \in Row /\ row.inst = job[j].inst
      BY <3>2, Ranges DEF TypeOK, Claim, Row, RowState
    <3>4. job' \in [Jobs -> Row] /\ ForeignKeys'
      BY <2>8, <3>3, UpdateType DEF MarkJobDropped
    <3> QED
      BY <2>8, <3>1, <3>4, NextInBatchType DEF MarkJobDropped, TypeOK
  <2>9. ASSUME NEW w \in Workers, Deliver(w)
        PROVE  Typed'
    <3>1. Head1(w) \in Claim
      BY <2>9, HeadType DEF Deliver, Working
    <3>2. job[Head1(w).job] \in Row
      BY <3>1 DEF TypeOK, Claim
    <3>3. lastHeard' \in [Instances -> [Channels -> {"nothing"} \union Alert]]
      BY <2>9, <3>1, <3>2 DEF Deliver, TypeOK, Claim, Row
    <3> QED
      BY <2>9, <3>3 DEF Deliver, TypeOK, ForeignKeys, Exists, Phase, Working
  <2>10. ASSUME NEW w \in Workers, MarkJobSucceeded(w)
         PROVE  Typed'
    <3>1. phase[w] \in Working
      BY <2>10 DEF MarkJobSucceeded, Working
    <3>2. Head1(w) \in Claim
      BY <3>1, HeadType
    <3> DEFINE j == Head1(w).job
               row == [job[j] EXCEPT !.state = "succeeded",
                                     !.attempts = Bump(@), !.age = 0]
    <3>3. j \in Jobs /\ row \in Row /\ row.inst = job[j].inst
      BY <3>2, Ranges DEF TypeOK, Claim, Row, RowState
    <3>4. job' \in [Jobs -> Row] /\ ForeignKeys'
      BY <2>10, <3>3, UpdateType DEF MarkJobSucceeded
    <3> QED
      BY <2>10, <3>1, <3>4, NextInBatchType DEF MarkJobSucceeded, TypeOK
  <2>11. ASSUME NEW w \in Workers, MarkJobFailed(w)
         PROVE  Typed'
    <3>1. phase[w] \in Working
      BY <2>11 DEF MarkJobFailed, Working
    <3>2. Head1(w) \in Claim
      BY <3>1, HeadType
    <3> DEFINE c == Head1(w)
               row == IF GiveUp(c)
                        THEN [job[c.job] EXCEPT !.state = "failed",
                                !.attempts = Bump(c.attempts), !.age = 0]
                        ELSE [job[c.job] EXCEPT !.state = "pending",
                                !.attempts = Bump(c.attempts),
                                !.wait = Backoff(c.attempts), !.age = 0]
    <3>3. c.job \in Jobs /\ row \in Row /\ row.inst = job[c.job].inst
      BY <3>2, Ranges DEF TypeOK, Claim, Row, RowState
    <3>4. Update(c.job, row)
      BY <2>11 DEF MarkJobFailed
    <3>5. job' \in [Jobs -> Row] /\ ForeignKeys'
      BY <2>11, <3>3, <3>4, UpdateType DEF MarkJobFailed
    <3> QED
      BY <2>11, <3>1, <3>5, NextInBatchType DEF MarkJobFailed, TypeOK
  <2>12. ASSUME NEW w \in Workers, MarkFails(w)
         PROVE  Typed'
    <3>1. phase[w] \in Working
      BY <2>12 DEF MarkFails, Working
    <3>2. faults' \in 0 .. MaxFaults
      BY <2>12, SizesAssumption DEF MarkFails, TypeOK
    <3> QED
      BY <2>12, <3>1, <3>2, NextInBatchType DEF MarkFails, TypeOK, ForeignKeys, Exists
  <2>13. ASSUME NEW w \in Workers, Stop(w), UNCHANGED <<inst, job, retries, lastHeard>>,
                faults' \in 0 .. MaxFaults
         PROVE  Typed'
    BY <2>13, SizesAssumption DEF Stop, TypeOK, ForeignKeys, Exists, Phase, Working
  <2>14. ASSUME NEW w \in Workers, Crash(w)
         PROVE  Typed'
    <3>1. faults' \in 0 .. MaxFaults
      BY <2>14, SizesAssumption DEF Crash, TypeOK
    <3> QED
      BY <2>13, <2>14, <3>1 DEF Crash
  <2>15. ASSUME NEW w \in Workers, PoisonedDelivery(w)
         PROVE  Typed'
    BY <2>13, <2>15 DEF PoisonedDelivery, TypeOK
  <2>16. ASSUME job' = Swept, UNCHANGED <<inst, batch, spent, faults, retries, lastHeard>>
         PROVE  job' \in [Jobs -> Row] /\ ForeignKeys'
    BY <2>16, Ranges
    DEF Swept, Stuck, TypeOK, ForeignKeys, Exists, Row, RowState
  <2>17. CASE ReclaimStuckJobs
    BY <2>16, <2>17 DEF ReclaimStuckJobs, workerVars, TypeOK
  <2>18. ASSUME NEW w \in Workers, Restart(w)
         PROVE  Typed'
    BY <2>16, <2>18 DEF Restart, TypeOK, Phase, Working
  <2>19. CASE Tick
    <3>1. job' \in [Jobs -> Row] /\ ForeignKeys'
      BY <2>19, Ranges DEF Tick, TypeOK, ForeignKeys, Exists, Row
    <3>2. ASSUME NEW w \in Workers
          PROVE  /\ batch'[w] \in Seq(Claim)
                 /\ Len(batch'[w]) = Len(batch[w])
      BY <2>19, TickBatch
    <3>3. batch' \in [Workers -> Seq(Claim)]
      <4>1. batch' = [w \in Workers |-> batch'[w]]
        BY <2>19 DEF Tick
      <4> QED
        BY <3>2, <4>1
    <3>4. spent' \in [Workers -> 0 .. MaxDelivery]
      <4>1. ASSUME NEW w \in Workers
            PROVE  spent'[w] \in 0 .. MaxDelivery
        <5>1. \A t \in 0 .. MaxDelivery : t < MaxDelivery => t + 1 \in 0 .. MaxDelivery
          BY SizesAssumption
        <5> QED
          BY <2>19, <5>1 DEF Tick, TypeOK
      <4>2. spent' = [w \in Workers |-> spent'[w]]
        BY <2>19 DEF Tick
      <4> QED
        BY <4>1, <4>2
    <3> QED
      BY <2>19, <3>1, <3>2, <3>3, <3>4 DEF Tick, TypeOK
  <2>20. CASE UNCHANGED vars
    BY <2>20 DEF vars, TypeOK, ForeignKeys, Exists
  <2> QED
    BY <2>1, <2>2, <2>3, <2>4, <2>5, <2>6, <2>7, <2>8, <2>9, <2>10, <2>11, <2>12,
       <2>14, <2>15, <2>17, <2>18, <2>19, <2>20 DEF Next, Step
<1> QED
  BY <1>1, <1>2, PTL DEF Spec

\* The part of it that the model checker checks on its own: every variable
\* keeps its type, and a worker holds a batch exactly while it works.
THEOREM TypeOKHolds == Spec => []TypeOK
  BY TypeCorrect, PTL DEF Typed

-----------------------------------------------------------------------------
(***************************************************************************)
(* Claims.  Either a whole batch fits into stuckAfter, and then the sweep  *)
(* never takes a delivery from a process that is working on it, or there   *)
(* is one process, and then nobody else claims what the sweep put back:    *)
(* everything a worker copied at the claim, except that the alert still    *)
(* fires, is still what the row says when it writes.                       *)
(***************************************************************************)

\* A batch of the slowest deliveries is over before the sweep looks at it.
BatchFits == BatchLimit * MaxDelivery <= StuckAfter

\* One cell-api process.
OneProcess == \A v, w \in Workers : v = w

\* The two deployments in which deliverOnce may write by id alone.
Deployed == BatchFits \/ OneProcess

\* The time since the claim when n jobs of the batch are left and the first
\* of them has taken t so far.
AgeBound(n, t) == (BatchLimit - n) * MaxDelivery + t

\* The copy c agrees with its row, which is running (and then no older than
\* the batch can be), swept once, or deleted.
Current(c, n, t) ==
  LET r == job[c.job] IN
  /\ r.state \in {"running", "pending", "gone"}
  /\ r.state # "gone" =>
       /\ c.left = r.left
       /\ c.state = r.for
       /\ c.instState = "resolved" => inst[r.inst] = "resolved"
  /\ r.state = "running" => c.attempts = r.attempts /\ r.age <= AgeBound(n, t)
  /\ r.state = "pending" => OneProcess /\ r.attempts = Bump(c.attempts)

\* Every copy is current; no job is in two places of one batch, or in two
\* batches.
CopiesCurrent ==
  \A w \in Workers : \A k \in 1 .. Len(batch[w]) :
    Current(batch[w][k], Len(batch[w]), spent[w])

ClaimsDistinct ==
  \A w \in Workers : \A k, l \in 1 .. Len(batch[w]) :
    k # l => batch[w][k].job # batch[w][l].job

ClaimsExclusive ==
  \A v, w \in Workers : v # w =>
    \A k \in 1 .. Len(batch[v]), l \in 1 .. Len(batch[w]) :
      batch[v][k].job # batch[w][l].job

Claims == CopiesCurrent /\ ClaimsDistinct /\ ClaimsExclusive

ClaimInv == Typed /\ Claims

\* The bound on a batch's age stays within the whole batch's time, grows with
\* the clock, and does not shrink when the next job's turn comes.
LEMMA AgeBoundFacts ==
  ASSUME NEW n \in 1 .. BatchLimit, NEW t \in 0 .. MaxDelivery
  PROVE  /\ AgeBound(n, t) \in Int
         /\ AgeBound(n, t) <= BatchLimit * MaxDelivery
         /\ AgeBound(n, t) <= AgeBound(n - 1, 0)
         /\ 0 <= AgeBound(n, 0)
         /\ AgeBound(n, t + 1) = AgeBound(n, t) + 1
<1>1. PICK b \in Nat : BatchLimit = n + b
  <2>1. BatchLimit - n \in Nat /\ BatchLimit = n + (BatchLimit - n)
    BY SizesAssumption
  <2> QED
    BY <2>1
<1>2. n - 1 \in Nat /\ n \in Nat /\ MaxDelivery \in Nat /\ t \in Nat /\ t <= MaxDelivery
  BY SizesAssumption
<1>3. BatchLimit - n = b /\ BatchLimit - (n - 1) = b + 1
  BY <1>1, <1>2
<1>4. (b + 1) * MaxDelivery = b * MaxDelivery + MaxDelivery
      /\ b * MaxDelivery \in Nat
  BY <1>1, <1>2
<1>5. BatchLimit * MaxDelivery = (n - 1) * MaxDelivery + (b + 1) * MaxDelivery
      /\ (n - 1) * MaxDelivery \in Nat
  <2>1. \A x, y, m \in Nat : (x + y) * m = x * m + y * m /\ x * m \in Nat
    OBVIOUS
  <2>2. BatchLimit = (n - 1) + (b + 1)
    BY <1>1, <1>2
  <2> QED
    BY <1>1, <1>2, <2>1, <2>2
<1> QED
  BY <1>2, <1>3, <1>4, <1>5 DEF AgeBound

\* What a worker holds are jobs.
LEMMA HeldJobs ==
  ASSUME Typed
  PROVE  \A w \in Workers : \A k \in 1 .. Len(batch[w]) : batch[w][k].job \in Jobs
<1>1. \A w \in Workers : batch[w] \in Seq(Claim)
  BY DEF Typed, TypeOK
<1>2. \A w \in Workers : \A k \in 1 .. Len(batch[w]) : batch[w][k] \in Claim
  BY <1>1
<1> QED
  BY <1>2 DEF Claim

\* A step that touches no batch and no row some process holds, but to delete
\* it, keeps the claims.
LEMMA FrameClaims ==
  ASSUME ClaimInv, UNCHANGED <<batch, spent>>,
         \A w \in Workers : \A k \in 1 .. Len(batch[w]) :
           LET j == batch[w][k].job IN
           \/ job'[j].state = "gone"
           \/ /\ job'[j] = job[j]
              /\ inst[job[j].inst] = "resolved" => inst'[job[j].inst] = "resolved"
  PROVE  Claims'
<1>1. ClaimsDistinct' /\ ClaimsExclusive'
  BY DEF ClaimInv, Claims, ClaimsDistinct, ClaimsExclusive
<1>2. ASSUME NEW w \in Workers, NEW k \in 1 .. Len(batch[w])
      PROVE  Current(batch[w][k], Len(batch[w]), spent[w])'
  BY DEF ClaimInv, Claims, CopiesCurrent, Current
<1> QED
  BY <1>1, <1>2 DEF Claims, CopiesCurrent

\* Every place of a batch that has lost its head is a later place of the
\* batch before.
LEMMA TailPlaces ==
  ASSUME NEW S, NEW s \in Seq(S), Len(s) # 0
  PROVE  /\ Len(Tail(s)) = Len(s) - 1
         /\ 1 \in 1 .. Len(s)
         /\ \A k \in 1 .. Len(Tail(s)) :
              /\ k + 1 \in 1 .. Len(s)
              /\ k + 1 # 1
              /\ Tail(s)[k] = s[k + 1]
<1>1. \A n \in Nat \ {0} : 1 \in 1 .. n
                           /\ \A k \in 1 .. n - 1 : k + 1 \in 1 .. n /\ k + 1 # 1
  OBVIOUS
<1>2. Len(s) \in Nat \ {0}
  OBVIOUS
<1>3. Len(Tail(s)) = Len(s) - 1
  BY <1>2
<1>4. \A k \in 1 .. Len(s) - 1 : Tail(s)[k] = s[k + 1]
  BY <1>2
<1> QED
  BY <1>1, <1>2, <1>3, <1>4

\* Popping the head of a batch keeps the claims if no other row changed: the
\* head's job is in no other place.
LEMMA PopClaims ==
  ASSUME ClaimInv, NEW w \in Workers, phase[w] \in Working, NextInBatch(w),
         UNCHANGED inst, \A j \in Jobs : j # Head1(w).job => job'[j] = job[j]
  PROVE  Claims'
<1>1. batch[w] \in Seq(Claim) /\ Len(batch[w]) \in 1 .. BatchLimit
      /\ spent[w] \in 0 .. MaxDelivery
  BY DEF ClaimInv, Typed, TypeOK
<1>2. batch'[w] = Tail(batch[w]) /\ spent'[w] = 0
  BY DEF ClaimInv, Typed, TypeOK, NextInBatch
<1>3. \A v \in Workers : v # w => batch'[v] = batch[v] /\ spent'[v] = spent[v]
  BY DEF ClaimInv, Typed, TypeOK, NextInBatch
<1>4. \A v \in Workers : \A k \in 1 .. Len(batch[v]) : batch[v][k].job \in Jobs
  BY HeldJobs DEF ClaimInv
<1>5. Len(batch[w]) # 0
  BY <1>1
<1>6. /\ Len(batch'[w]) = Len(batch[w]) - 1
      /\ 1 \in 1 .. Len(batch[w])
      /\ \A k \in 1 .. Len(batch'[w]) :
           /\ k + 1 \in 1 .. Len(batch[w])
           /\ k + 1 # 1
           /\ batch'[w][k] = batch[w][k + 1]
  BY <1>1, <1>2, <1>5, TailPlaces
\* Where a claim was: nobody's claim is the head that is popped.
<1>7. ASSUME NEW v \in Workers, NEW k \in 1 .. Len(batch'[v])
      PROVE  \E m \in 1 .. Len(batch[v]) :
               /\ batch'[v][k] = batch[v][m]
               /\ m = IF v = w THEN k + 1 ELSE k
               /\ batch[v][m].job # Head1(w).job
  <2>1. CASE v = w
    BY <1>6, <2>1 DEF ClaimInv, Claims, ClaimsDistinct, Head1
  <2>2. CASE v # w
    BY <1>3, <1>6, <2>2 DEF ClaimInv, Claims, ClaimsExclusive, Head1
  <2> QED
    BY <2>1, <2>2
<1>8. AgeBound(Len(batch[w]), spent[w]) <= AgeBound(Len(batch[w]) - 1, 0)
      /\ AgeBound(Len(batch[w]), spent[w]) \in Int
  BY <1>1, AgeBoundFacts
<1>9. AgeBound(Len(batch[w]) - 1, 0) \in Int
  <2>1. \A n \in 1 .. BatchLimit : AgeBound(n - 1, 0) \in Int
    BY SizesAssumption DEF AgeBound
  <2> QED
    BY <2>1, <1>1
<1>10. ASSUME NEW v \in Workers, NEW k \in 1 .. Len(batch'[v])
       PROVE  Current(batch[v][k], Len(batch[v]), spent[v])'
  <2>1. PICK m \in 1 .. Len(batch[v]) : /\ batch'[v][k] = batch[v][m]
                                        /\ batch[v][m].job # Head1(w).job
    BY <1>7
  <2> DEFINE c == batch[v][m]
  <2>2. job'[c.job] = job[c.job] /\ c.job \in Jobs
    BY <2>1, <1>4
  <2>3. Current(c, Len(batch[v]), spent[v])
    BY DEF ClaimInv, Claims, CopiesCurrent
  <2>4. job[c.job].age \in Int
    BY <2>2, SizesAssumption DEF ClaimInv, Typed, TypeOK, Row, Age
  <2>5. CASE v = w
    <3> DEFINE a == AgeBound(Len(batch[w]), spent[w])
               b == AgeBound(Len(batch[w]) - 1, 0)
               g == job[c.job].age
    <3>1. g <= a => g <= b
      <4>1. a \in Int /\ b \in Int /\ g \in Int /\ a <= b
        BY <1>8, <1>9, <2>4
      <4> HIDE DEF a, b, g
      <4> QED
        BY <4>1
    <3>2. AgeBound(Len(batch[v]), spent[v])' = b
      BY <1>2, <1>6, <2>5 DEF AgeBound
    <3>3. AgeBound(Len(batch[v]), spent[v]) = a
      BY <2>5
    <3> HIDE DEF a, b
    <3> QED
      BY <2>1, <2>2, <2>3, <3>1, <3>2, <3>3 DEF Current
  <2>6. CASE v # w
    <3>1. AgeBound(Len(batch[v]), spent[v])' = AgeBound(Len(batch[v]), spent[v])
      BY <1>3, <2>6 DEF AgeBound
    <3> QED
      BY <2>1, <2>2, <2>3, <3>1 DEF Current
  <2> QED
    BY <2>5, <2>6
<1>11. ASSUME NEW v \in Workers, NEW k \in 1 .. Len(batch'[v]),
              NEW l \in 1 .. Len(batch'[v]), k # l
       PROVE  batch'[v][k].job # batch'[v][l].job
  <2>1. PICK m \in 1 .. Len(batch[v]) : /\ batch'[v][k] = batch[v][m]
                                        /\ m = IF v = w THEN k + 1 ELSE k
    BY <1>7
  <2>2. PICK p \in 1 .. Len(batch[v]) : /\ batch'[v][l] = batch[v][p]
                                        /\ p = IF v = w THEN l + 1 ELSE l
    BY <1>7
  <2>3. m # p
    <3>1. k \in Int /\ l \in Int
      OBVIOUS
    <3> QED
      BY <1>11, <2>1, <2>2, <3>1
  <2> QED
    BY <2>1, <2>2, <2>3 DEF ClaimInv, Claims, ClaimsDistinct
<1>12. ASSUME NEW u \in Workers, NEW v \in Workers, u # v,
              NEW k \in 1 .. Len(batch'[u]), NEW l \in 1 .. Len(batch'[v])
       PROVE  batch'[u][k].job # batch'[v][l].job
  <2>1. PICK m \in 1 .. Len(batch[u]) : batch'[u][k] = batch[u][m]
    BY <1>7
  <2>2. PICK p \in 1 .. Len(batch[v]) : batch'[v][l] = batch[v][p]
    BY <1>7
  <2> QED
    BY <1>12, <2>1, <2>2 DEF ClaimInv, Claims, ClaimsExclusive
<1> QED
  BY <1>10, <1>11, <1>12
  DEF Claims, CopiesCurrent, ClaimsDistinct, ClaimsExclusive

\* A held job is running, or swept from its only process, or deleted.
LEMMA HeldState ==
  ASSUME ClaimInv
  PROVE  \A w \in Workers : \A k \in 1 .. Len(batch[w]) :
           LET r == job[batch[w][k].job] IN
           r.state \in {"running", "pending", "gone"} /\ (r.state = "pending" => OneProcess)
  BY DEF ClaimInv, Claims, CopiesCurrent, Current

\* No held job is old enough for the sweep.
LEMMA HeldNotStuck ==
  ASSUME BatchFits, ClaimInv
  PROVE  \A w \in Workers : \A k \in 1 .. Len(batch[w]) : ~Stuck(batch[w][k].job)
<1> TAKE w \in Workers
<1> TAKE k \in 1 .. Len(batch[w])
<1> DEFINE j == batch[w][k].job
           a == AgeBound(Len(batch[w]), spent[w])
           g == job[j].age
<1>1. Len(batch[w]) \in 1 .. BatchLimit /\ spent[w] \in 0 .. MaxDelivery
  <2>1. batch[w] \in Seq(Claim)
    BY DEF ClaimInv, Typed, TypeOK
  <2>2. Len(batch[w]) # 0
    BY <2>1
  <2> QED
    BY <2>2 DEF ClaimInv, Typed, TypeOK
<1>2. a \in Int /\ a <= BatchLimit * MaxDelivery
  BY <1>1, AgeBoundFacts
<1>3. g \in Int
  BY HeldJobs, SizesAssumption DEF ClaimInv, Typed, TypeOK, Row, Age
<1>4. job[j].state = "running" => g <= a
  BY DEF ClaimInv, Claims, CopiesCurrent, Current
<1>5. BatchLimit * MaxDelivery \in Int /\ StuckAfter \in Int
  BY SizesAssumption
<1>6. g <= a => ~(g > StuckAfter)
  <2> HIDE DEF a, g
  <2> QED
    BY <1>2, <1>3, <1>5 DEF BatchFits
<1> QED
  BY <1>4, <1>6 DEF Stuck

\* The sweep, also the one at a restart, leaves every held row alone, or puts
\* it back with one more attempt while its only process still works on it.
LEMMA SweepClaims ==
  ASSUME Deployed, ClaimInv, UNCHANGED <<batch, spent, inst>>, job' = Swept
  PROVE  Claims'
<1>1. CASE BatchFits
  <2>1. \A w \in Workers : \A k \in 1 .. Len(batch[w]) :
          job'[batch[w][k].job] = job[batch[w][k].job]
    BY <1>1, HeldNotStuck, HeldJobs DEF ClaimInv, Swept
  <2> QED
    BY <2>1, FrameClaims
<1>2. CASE OneProcess
  <2>1. ClaimsDistinct' /\ ClaimsExclusive'
    BY DEF ClaimInv, Claims, ClaimsDistinct, ClaimsExclusive
  <2>2. ASSUME NEW w \in Workers, NEW k \in 1 .. Len(batch[w])
        PROVE  Current(batch[w][k], Len(batch[w]), spent[w])'
    <3> DEFINE c == batch[w][k]
               r == job[c.job]
    <3>1. c.job \in Jobs /\ r \in Row /\ Current(c, Len(batch[w]), spent[w])
      BY HeldJobs DEF ClaimInv, Typed, TypeOK, Claims, CopiesCurrent
    <3>2. CASE ~Stuck(c.job)
      <4>1. job'[c.job] = r
        BY <3>1, <3>2 DEF Swept
      <4> QED
        BY <3>1, <4>1 DEF Current, AgeBound
    <3>3. CASE Stuck(c.job)
      <4>1. job'[c.job] = [r EXCEPT !.state = "pending", !.attempts = Bump(@),
                                    !.wait = 0, !.age = 0]
        BY <3>1, <3>3 DEF Swept
      <4>2. /\ job'[c.job].state = "pending" /\ job'[c.job].attempts = Bump(r.attempts)
            /\ job'[c.job].left = r.left /\ job'[c.job].for = r.for
            /\ job'[c.job].inst = r.inst
        BY <3>1, <4>1 DEF Row
      <4> QED
        BY <1>2, <3>1, <3>3, <4>2 DEF Current, Stuck
    <3> QED
      BY <3>2, <3>3
  <2> QED
    BY <2>1, <2>2 DEF Claims, CopiesCurrent
<1> QED
  BY <1>1, <1>2 DEF Deployed

\* A cascade deletes held rows or leaves them alone.
LEMMA CascadeFrame ==
  ASSUME Typed, NEW D, Cascade(D), NEW j \in Jobs,
         job[j].state \in {"running", "pending", "gone"}
  PROVE  \/ job'[j].state = "gone"
         \/ job'[j] = job[j] /\ j \notin D
<1>1. job[j] \in Row
  BY DEF Typed, TypeOK
<1>2. CASE job[j].state = "gone"
  BY <1>2 DEF Cascade, Exists
<1>3. CASE job[j].state \in {"running", "pending"} /\ j \in D
  <2>1. job'[j] = [job[j] EXCEPT !.state = "gone"]
    BY <1>3 DEF Cascade, Exists
  <2> QED
    BY <1>1, <2>1 DEF Row
<1>4. CASE job[j].state \in {"running", "pending"} /\ j \notin D
  BY <1>4 DEF Cascade
<1> QED
  BY <1>2, <1>3, <1>4

\* A process that stops holds nothing.
LEMMA StopClaims ==
  ASSUME ClaimInv, NEW w \in Workers, Stop(w), UNCHANGED <<inst, job>>
  PROVE  Claims'
<1>1. batch'[w] = << >> /\ spent'[w] = 0
  BY DEF ClaimInv, Typed, TypeOK, Stop
<1>2. \A k \in 1 .. Len(batch'[w]) : FALSE
  BY <1>1
<1>3. \A v \in Workers : v # w => batch'[v] = batch[v] /\ spent'[v] = spent[v]
  BY DEF ClaimInv, Typed, TypeOK, Stop
<1>4. ClaimsDistinct' /\ ClaimsExclusive'
  <2>1. ClaimsDistinct'
    BY <1>2, <1>3 DEF ClaimInv, Claims, ClaimsDistinct
  <2>2. ASSUME NEW u \in Workers, NEW v \in Workers, u # v,
               NEW k \in 1 .. Len(batch'[u]), NEW l \in 1 .. Len(batch'[v])
        PROVE  batch'[u][k].job # batch'[v][l].job
    <3>1. u # w /\ v # w
      BY <1>2, <2>2
    <3>2. batch'[u] = batch[u] /\ batch'[v] = batch[v]
      BY <1>3, <3>1
    <3> QED
      BY <2>2, <3>2 DEF ClaimInv, Claims, ClaimsExclusive
  <2>3. ClaimsExclusive'
    BY <2>2 DEF ClaimsExclusive
  <2> QED
    BY <2>1, <2>3
<1>5. ASSUME NEW v \in Workers, NEW k \in 1 .. Len(batch'[v])
      PROVE  Current(batch[v][k], Len(batch[v]), spent[v])'
  <2>1. v # w
    BY <1>2, <1>5
  <2>2. AgeBound(Len(batch[v]), spent[v])' = AgeBound(Len(batch[v]), spent[v])
    BY <1>3, <2>1 DEF AgeBound
  <2>3. Current(batch[v][k], Len(batch[v]), spent[v])
    BY <1>3, <1>5, <2>1 DEF ClaimInv, Claims, CopiesCurrent
  <2> QED
    BY <1>3, <2>1, <2>2, <2>3 DEF Current
<1> QED
  BY <1>4, <1>5 DEF Claims, CopiesCurrent

\* A claim takes rows that nobody holds, each once, and copies what they say.
LEMMA ClaimClaims ==
  ASSUME ClaimInv, NEW w \in Workers, ClaimDueJobs(w)
  PROVE  Claims'
<1> DEFINE n == BatchSize
<1>1. PICK s \in Picks :
        /\ batch' = [batch EXCEPT ![w] = [k \in 1 .. n |-> ClaimOf(s[k])]]
        /\ job' = [j \in Jobs |->
                     IF \E k \in 1 .. n : s[k] = j
                       THEN [job[j] EXCEPT !.state = "running", !.age = 0]
                       ELSE job[j]]
  BY DEF ClaimDueJobs
<1>2. n \in 1 .. BatchLimit /\ n \in Nat
  <2>1. BatchSize \in 1 .. BatchLimit
    BY BatchSizeType DEF ClaimDueJobs
  <2> QED
    BY <2>1, SizesAssumption
<1>3. batch'[w] = [k \in 1 .. n |-> ClaimOf(s[k])] /\ spent'[w] = 0
  BY <1>1 DEF ClaimInv, Typed, TypeOK, ClaimDueJobs
<1>4. Len(batch'[w]) = n
  BY <1>2, <1>3
<1>5. \A v \in Workers : v # w => batch'[v] = batch[v] /\ spent'[v] = spent[v]
  BY <1>1 DEF ClaimInv, Typed, TypeOK, ClaimDueJobs
<1>6. \A k \in 1 .. n : s[k] \in Jobs /\ job[s[k]].state = "pending"
  BY DEF Picks, Due
<1>7. \A k, l \in 1 .. n : k # l => s[k] # s[l]
  <2>1. \A k, l \in 1 .. n : k < l => s[k] # s[l]
    BY DEF Picks
  <2>2. \A k, l \in 1 .. n : k # l => k < l \/ l < k
    BY <1>2
  <2> QED
    BY <2>1, <2>2
<1>8. \A k \in 1 .. n : batch'[w][k] = ClaimOf(s[k]) /\ batch'[w][k].job = s[k]
  BY <1>3 DEF ClaimOf
<1> HIDE DEF n
\* The rows other processes hold are not among those claimed.
<1>9. \A v \in Workers : v # w =>
        \A k \in 1 .. Len(batch[v]) :
          LET j == batch[v][k].job IN
          /\ j \in Jobs
          /\ job'[j] = job[j]
          /\ \A l \in 1 .. n : s[l] # j
  <2> TAKE v \in Workers
  <2> HAVE v # w
  <2> TAKE k \in 1 .. Len(batch[v])
  <2>1. batch[v][k].job \in Jobs /\ job[batch[v][k].job].state \in {"running", "gone"}
    BY HeldJobs, HeldState DEF ClaimInv, OneProcess
  <2>2. \A l \in 1 .. n : s[l] # batch[v][k].job
    BY <1>6, <2>1
  <2> QED
    BY <1>1, <2>1, <2>2
<1>10. ClaimsDistinct'
  <2>1. ASSUME NEW v \in Workers, NEW k \in 1 .. Len(batch'[v]),
               NEW l \in 1 .. Len(batch'[v]), k # l
        PROVE  batch'[v][k].job # batch'[v][l].job
    <3>1. CASE v = w
      BY <1>4, <1>7, <1>8, <2>1, <3>1
    <3>2. CASE v # w
      BY <1>5, <2>1, <3>2 DEF ClaimInv, Claims, ClaimsDistinct
    <3> QED
      BY <3>1, <3>2
  <2> QED
    BY <2>1 DEF ClaimsDistinct
<1>11. ClaimsExclusive'
  <2>1. ASSUME NEW u \in Workers, NEW v \in Workers, u # v,
               NEW k \in 1 .. Len(batch'[u]), NEW l \in 1 .. Len(batch'[v])
        PROVE  batch'[u][k].job # batch'[v][l].job
    <3>1. CASE u = w
      BY <1>4, <1>5, <1>8, <1>9, <2>1, <3>1
    <3>2. CASE v = w
      BY <1>4, <1>5, <1>8, <1>9, <2>1, <3>2
    <3>3. CASE u # w /\ v # w
      BY <1>5, <2>1, <3>3 DEF ClaimInv, Claims, ClaimsExclusive
    <3> QED
      BY <3>1, <3>2, <3>3
  <2> QED
    BY <2>1 DEF ClaimsExclusive
<1>12. ASSUME NEW v \in Workers, NEW k \in 1 .. Len(batch'[v])
       PROVE  Current(batch[v][k], Len(batch[v]), spent[v])'
  <2>1. CASE v = w
    <3>1. k \in 1 .. n /\ batch'[v][k] = ClaimOf(s[k]) /\ s[k] \in Jobs
      BY <1>4, <1>6, <1>8, <1>12, <2>1
    <3>2. job'[s[k]] = [job[s[k]] EXCEPT !.state = "running", !.age = 0]
      BY <1>1, <3>1
    <3>3. job[s[k]] \in Row
      BY <3>1 DEF ClaimInv, Typed, TypeOK
    <3>4. 0 <= AgeBound(Len(batch[v]), spent[v])'
      <4>1. 0 <= AgeBound(n, 0)
        BY <1>2, AgeBoundFacts, SizesAssumption
      <4>2. AgeBound(Len(batch[v]), spent[v])' = AgeBound(n, 0)
        BY <1>3, <1>4, <2>1 DEF AgeBound
      <4> QED
        BY <4>1, <4>2
    <3>5. /\ job'[s[k]].state = "running" /\ job'[s[k]].age = 0
          /\ job'[s[k]].attempts = job[s[k]].attempts
          /\ job'[s[k]].left = job[s[k]].left
          /\ job'[s[k]].for = job[s[k]].for
          /\ job'[s[k]].inst = job[s[k]].inst
      BY <3>2, <3>3 DEF Row
    <3>6. inst' = inst
      BY DEF ClaimDueJobs
    <3> QED
      BY <3>1, <3>4, <3>5, <3>6 DEF Current, ClaimOf
  <2>2. CASE v # w
    <3>1. AgeBound(Len(batch[v]), spent[v])' = AgeBound(Len(batch[v]), spent[v])
      BY <1>5, <2>2 DEF AgeBound
    <3>2. Current(batch[v][k], Len(batch[v]), spent[v])
      BY <1>5, <1>12, <2>2 DEF ClaimInv, Claims, CopiesCurrent
    <3>3. batch'[v][k] = batch[v][k] /\ job'[batch[v][k].job] = job[batch[v][k].job]
      BY <1>5, <1>9, <1>12, <2>2
    <3>4. inst' = inst
      BY DEF ClaimDueJobs
    <3> QED
      BY <3>1, <3>2, <3>3, <3>4 DEF Current
  <2> QED
    BY <2>1, <2>2
<1> QED
  BY <1>10, <1>11, <1>12 DEF Claims, CopiesCurrent

\* Time passes alike for a row and for the copies of it, and for a row no
\* faster than for the process that works on its batch.
LEMMA TickClaims ==
  ASSUME ClaimInv, Tick
  PROVE  Claims'
<1>1. \A w \in Workers : batch[w] \in Seq(Claim)
  BY DEF ClaimInv, Typed, TypeOK
<1>2. \A w \in Workers :
        batch'[w] = [k \in 1 .. Len(batch[w]) |->
                       [batch[w][k] EXCEPT !.left = Countdown(@)]]
  BY DEF Tick
<1>3. \A w \in Workers : Len(batch'[w]) = Len(batch[w])
  BY TickBatch DEF ClaimInv, Typed
<1>4. \A w \in Workers : \A k \in 1 .. Len(batch[w]) :
        /\ batch'[w][k].job = batch[w][k].job
        /\ batch'[w][k].attempts = batch[w][k].attempts
        /\ batch'[w][k].state = batch[w][k].state
        /\ batch'[w][k].instState = batch[w][k].instState
        /\ batch'[w][k].left = Countdown(batch[w][k].left)
  <2> TAKE w \in Workers
  <2> TAKE k \in 1 .. Len(batch[w])
  <2>1. batch[w][k] \in Claim
    BY <1>1
  <2>2. batch'[w][k] = [batch[w][k] EXCEPT !.left = Countdown(@)]
    BY <1>2
  <2> QED
    BY <2>1, <2>2 DEF Claim
<1>5. ClaimsDistinct' /\ ClaimsExclusive'
  BY <1>3, <1>4 DEF ClaimInv, Claims, ClaimsDistinct, ClaimsExclusive
<1>6. ASSUME NEW w \in Workers, NEW k \in 1 .. Len(batch'[w])
      PROVE  Current(batch[w][k], Len(batch[w]), spent[w])'
  <2> DEFINE c == batch[w][k]
             r == job[c.job]
             q == job'[c.job]
             a == AgeBound(Len(batch[w]), spent[w])
  <2>1. k \in 1 .. Len(batch[w]) /\ batch'[w][k].job = c.job
    BY <1>3, <1>4, <1>6
  <2>2. c.job \in Jobs
    BY <2>1, HeldJobs DEF ClaimInv
  <2>3. r \in Row
    BY <2>2 DEF ClaimInv, Typed, TypeOK
  <2>4. Current(c, Len(batch[w]), spent[w])
    BY <2>1 DEF ClaimInv, Claims, CopiesCurrent
  <2>5. CASE r.state = "gone"
    <3>1. q.state = "gone"
      BY <2>2, <2>5 DEF Tick, Exists
    <3> QED
      BY <2>1, <3>1 DEF Current
  <2>6. CASE r.state = "running"
    <3>1. q = [r EXCEPT !.wait = r.wait, !.left = Countdown(r.left),
                        !.age = Older(r.age)]
      BY <2>2, <2>6 DEF Tick, Exists
    <3>2. /\ q.state = "running" /\ q.attempts = r.attempts /\ q.for = r.for
          /\ q.inst = r.inst /\ q.left = Countdown(r.left) /\ q.age = Older(r.age)
      BY <2>3, <2>6, <3>1 DEF Row
    <3>3. Len(batch[w]) \in 1 .. BatchLimit /\ spent[w] \in 0 .. MaxDelivery
          /\ phase[w] \in Working
      <4>1. Len(batch[w]) # 0
        BY <1>1, <2>1
      <4> QED
        BY <4>1 DEF ClaimInv, Typed, TypeOK
    <3>4. spent'[w] = spent[w] + 1
      BY <3>3 DEF Tick
    <3>5. AgeBound(Len(batch[w]), spent[w])' = a + 1 /\ a \in Int
      <4>1. AgeBound(Len(batch[w]), spent[w] + 1) = a + 1 /\ a \in Int
        BY <3>3, AgeBoundFacts
      <4>2. AgeBound(Len(batch[w]), spent[w])' = AgeBound(Len(batch[w]), spent[w] + 1)
        BY <1>3, <3>4 DEF AgeBound
      <4> QED
        BY <4>1, <4>2
    <3>6. r.age \in Int
      BY <2>3, SizesAssumption DEF Row, Age
    <3>7. r.age <= a => Older(r.age) <= a + 1
      <4> DEFINE g == r.age
      <4> HIDE DEF a, g
      <4>1. g \in Int
        BY <3>6 DEF g
      <4>2. g <= a => Older(g) <= a + 1
        BY <3>5, <4>1, SizesAssumption DEF Older
      <4> QED
        BY <4>2 DEF g
    <3>8. inst' = inst
      BY DEF Tick
    <3> HIDE DEF a
    <3>9. r.age <= a /\ c.attempts = r.attempts /\ c.left = r.left /\ c.state = r.for
          /\ (c.instState = "resolved" => inst[r.inst] = "resolved")
      BY <2>4, <2>6 DEF Current, a
    <3> QED
      BY <1>4, <2>1, <3>2, <3>5, <3>7, <3>8, <3>9 DEF Current
  <2>7. CASE r.state = "pending"
    <3>1. q = [r EXCEPT !.wait = Sooner(r.wait), !.left = Countdown(r.left), !.age = r.age]
      BY <2>2, <2>7 DEF Tick, Exists
    <3>2. /\ q.state = "pending" /\ q.attempts = r.attempts /\ q.for = r.for
          /\ q.inst = r.inst /\ q.left = Countdown(r.left)
      BY <2>3, <2>7, <3>1 DEF Row
    <3>3. inst' = inst
      BY DEF Tick
    <3> QED
      BY <1>4, <2>1, <2>4, <2>7, <3>2, <3>3 DEF Current
  <2> QED
    BY <2>4, <2>5, <2>6, <2>7 DEF Current
<1> QED
  BY <1>5, <1>6 DEF Claims, CopiesCurrent

-----------------------------------------------------------------------------
\* With a batch that fits into stuckAfter, or with one process, what every
\* process holds stays exclusive and equal to the copies it was claimed with:
\* deliverOnce may write by id alone.
THEOREM ClaimsHold == Deployed => (Spec => []ClaimInv)
<1> SUFFICES ASSUME Deployed PROVE Spec => []ClaimInv
  OBVIOUS
<1>1. Init => Claims
  <2>1. ASSUME Init PROVE \A w \in Workers : \A k \in 1 .. Len(batch[w]) : FALSE
    BY <2>1 DEF Init
  <2> QED
    BY <2>1 DEF Claims, CopiesCurrent, ClaimsDistinct, ClaimsExclusive
<1>2. Typed /\ Claims /\ [Next]_vars => Claims'
  <2> SUFFICES ASSUME Typed, Claims, [Next]_vars PROVE Claims'
    OBVIOUS
  <2> ClaimInv
    BY DEF ClaimInv
  <2>0. \A w \in Workers : \A k \in 1 .. Len(batch[w]) :
          /\ batch[w][k].job \in Jobs
          /\ job[batch[w][k].job].state \in {"running", "pending", "gone"}
    BY HeldJobs, HeldState
  <2>1. ASSUME NEW i \in Instances, OpenInstance(i) PROVE Claims'
    BY <2>1, FrameClaims DEF OpenInstance, workerVars, Typed, TypeOK
  <2>2. ASSUME NEW i \in Instances, ResolveInstance(i) PROVE Claims'
    BY <2>2, FrameClaims DEF ResolveInstance, workerVars, Typed, TypeOK
  <2>3. ASSUME NEW i \in Instances, DeleteRule(i) PROVE Claims'
    <3>1. UNCHANGED <<batch, spent>> /\ inst' = [inst EXCEPT ![i] = "gone"]
          /\ Cascade({j \in Jobs : job[j].inst = i})
      BY <2>3 DEF DeleteRule, workerVars
    <3>2. \A j \in Jobs : job[j].state \in {"running", "pending", "gone"} =>
            \/ job'[j].state = "gone"
            \/ job'[j] = job[j] /\ job[j].inst # i
      BY <3>1, CascadeFrame
    <3>3. \A x : x # i => inst'[x] = inst[x]
      BY <3>1 DEF Typed, TypeOK
    <3> QED
      BY <2>0, <3>1, <3>2, <3>3, FrameClaims
  <2>4. ASSUME NEW j \in Jobs, NEW i \in Instances, NEW c \in Channels,
               EnqueueJob(j, i, c)
        PROVE  Claims'
    <3>1. \A x \in Jobs : job[x].state \in {"running", "pending", "gone"} => job'[x] = job[x]
      BY <2>4 DEF EnqueueJob, Typed, TypeOK
    <3> QED
      BY <2>0, <2>4, <3>1, FrameClaims DEF EnqueueJob, workerVars
  <2>5. ASSUME NEW j \in Jobs, RetryJob(j) PROVE Claims'
    <3>1. \A x \in Jobs : job[x].state \in {"running", "pending", "gone"} => job'[x] = job[x]
      BY <2>5 DEF RetryJob, GivenUp, Typed, TypeOK
    <3> QED
      BY <2>0, <2>5, <3>1, FrameClaims DEF RetryJob, workerVars
  <2>6. ASSUME NEW c \in Channels, DeleteChannel(c) PROVE Claims'
    <3>1. UNCHANGED <<batch, spent, inst>> /\ Cascade({j \in Jobs : job[j].chan = c})
      BY <2>6 DEF DeleteChannel, workerVars
    <3>2. \A j \in Jobs : job[j].state \in {"running", "pending", "gone"} =>
            job'[j].state = "gone" \/ job'[j] = job[j]
      BY <3>1, CascadeFrame
    <3> QED
      BY <2>0, <3>1, <3>2, FrameClaims
  <2>7. ASSUME NEW w \in Workers, ClaimDueJobs(w) PROVE Claims'
    BY <2>7, ClaimClaims
  <2>8. ASSUME NEW w \in Workers, Deliver(w) PROVE Claims'
    BY <2>8, FrameClaims DEF Deliver
  <2>9. ASSUME NEW w \in Workers, NEW row, phase[w] \in Working,
               Update(Head1(w).job, row), NextInBatch(w), UNCHANGED inst
        PROVE  Claims'
    <3>1. \A j \in Jobs : j # Head1(w).job => job'[j] = job[j]
      BY <2>9 DEF Update, Typed, TypeOK
    <3> QED
      BY <2>9, <3>1, PopClaims
  <2>10. ASSUME NEW w \in Workers, MarkJobDropped(w) PROVE Claims'
    BY <2>9, <2>10 DEF MarkJobDropped, Working
  <2>11. ASSUME NEW w \in Workers, MarkJobSucceeded(w) PROVE Claims'
    BY <2>9, <2>11 DEF MarkJobSucceeded, Working
  <2>12. ASSUME NEW w \in Workers, MarkJobFailed(w) PROVE Claims'
    BY <2>9, <2>12 DEF MarkJobFailed, Working
  <2>13. ASSUME NEW w \in Workers, MarkFails(w) PROVE Claims'
    BY <2>13, PopClaims DEF MarkFails, Working
  <2>14. ASSUME NEW w \in Workers, Crash(w) \/ PoisonedDelivery(w) PROVE Claims'
    BY <2>14, StopClaims DEF Crash, PoisonedDelivery
  <2>15. CASE ReclaimStuckJobs
    BY <2>15, SweepClaims DEF ReclaimStuckJobs, workerVars
  <2>16. ASSUME NEW w \in Workers, Restart(w) PROVE Claims'
    BY <2>16, SweepClaims DEF Restart
  <2>17. CASE Tick
    BY <2>17, TickClaims
  <2>18. CASE UNCHANGED vars
    BY <2>18, FrameClaims DEF vars
  <2> QED
    BY <2>1, <2>2, <2>3, <2>4, <2>5, <2>6, <2>7, <2>8, <2>10, <2>11, <2>12, <2>13,
       <2>14, <2>15, <2>16, <2>17, <2>18 DEF Next, Step
<1> QED
  BY <1>1, <1>2, TypeCorrect, PTL DEF Spec, ClaimInv

\* For any number of replicas, no two processes ever hold the same delivery
\* (ClaimDueJobs: FOR UPDATE SKIP LOCKED), provided a whole batch fits into
\* stuckAfter.
THEOREM ExclusiveDeliveryHolds == Deployed => (Spec => []ExclusiveDelivery)
<1> SUFFICES ASSUME Deployed PROVE Spec => []ExclusiveDelivery
  OBVIOUS
<1>1. ClaimInv => ExclusiveDelivery
  <2> SUFFICES ASSUME ClaimInv, NEW v \in Workers, NEW w \in Workers, v # w
               PROVE  Held(v) \cap Held(w) = {}
    BY DEF ExclusiveDelivery
  <2>1. DOMAIN batch[v] = 1 .. Len(batch[v]) /\ DOMAIN batch[w] = 1 .. Len(batch[w])
    BY DEF ClaimInv, Typed, TypeOK
  <2> QED
    BY <2>1 DEF Held, ClaimInv, Claims, ClaimsExclusive
<1> QED
  BY <1>1, ClaimsHold, PTL

\* When a batch fits, the sweep (ReclaimStuckJobs) never finds a row
\* that a process is still working on: only rows orphaned by a crash or a
\* failed write are re-queued.
THEOREM SweepSparesLiveHolds == BatchFits => (Spec => []SweepSparesLive)
<1> SUFFICES ASSUME BatchFits PROVE Spec => []SweepSparesLive
  OBVIOUS
<1>1. ClaimInv => SweepSparesLive
  <2> SUFFICES ASSUME ClaimInv, NEW w \in Workers, NEW j \in Held(w)
               PROVE  ~Stuck(j)
    BY DEF SweepSparesLive
  <2>1. DOMAIN batch[w] = 1 .. Len(batch[w])
    BY DEF ClaimInv, Typed, TypeOK
  <2> QED
    BY <2>1, HeldNotStuck DEF Held
<1> QED
  BY <1>1, ClaimsHold, PTL DEF Deployed
=============================================================================
