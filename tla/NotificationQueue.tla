-------------------------- MODULE NotificationQueue --------------------------
(***************************************************************************)
(* The durable delivery queue behind alerting: the table notification_jobs *)
(* and the loops that drain it (cell-api, internal/alerting: deliverOnce   *)
(* and reclaimOnce in engine.go, the statements they run in               *)
(* engine_store.go).                                                       *)
(*                                                                         *)
(* A worker is the delivery loop of one cell-api process.  It claims a     *)
(* batch of due rows in one transaction, sends them one after the other    *)
(* outside any lock, and writes each outcome back with an UPDATE by id     *)
(* that checks nothing else.  What it knows of a row while it works is the *)
(* copy it read at the claim.  A sweep re-queues rows that stay 'running'  *)
(* for longer than StuckAfter.                                             *)
(*                                                                         *)
(* Timestamps are kept relative to now, so that time needs no horizon:     *)
(*   wait = next_attempt_at - now  (from -MaxOverdue, where it saturates), *)
(*   left = expires_at - now       (0 once the window has closed),         *)
(*   age  = now - updated_at       (saturates just above StuckAfter).      *)
(* wait is read only of pending rows and age only of running ones, and     *)
(* both are written when a row becomes so; elsewhere they stand still.     *)
(***************************************************************************)
EXTENDS Integers, Sequences, FiniteSets

CONSTANTS
  Workers,      \* delivery loops, one per cell-api process
  Instances,    \* rows of alert_instances
  Channels,     \* rows of notification_channels
  NumJobs,      \* bound: rows ever inserted into notification_jobs
  BatchLimit,   \* the LIMIT of ClaimDueJobs (20)
  Window,       \* deliveryWindow (6h)
  MaxBackoff,   \* maxBackoff (15m); the time unit is the first backoff, 30s
  StuckAfter,   \* stuckAfter (5m)
  MaxDelivery,  \* longest time one delivery may take (transport timeouts)
  AttemptCap,   \* bound: attempts saturates here (retryPlan is constant above)
  MaxOverdue,   \* bound: how far past due two rows are still told apart
  MaxFaults,    \* bound: crashes and failed writes
  MaxRetries,   \* bound: operator retries
  Poison        \* jobs whose delivery kills the process that attempts it

Jobs == 1 .. NumJobs

ASSUME TablesAssumption == Instances # {} /\ Channels # {}

ASSUME SizesAssumption ==
  /\ NumJobs \in Nat \ {0}
  /\ BatchLimit \in Nat \ {0}
  /\ Window \in Nat \ {0}
  /\ MaxBackoff \in Nat \ {0}
  /\ StuckAfter \in Nat
  /\ MaxDelivery \in Nat \ {0}
  /\ AttemptCap \in Nat
  /\ MaxOverdue \in Nat
  /\ MaxFaults \in Nat
  /\ MaxRetries \in Nat
  /\ Poison \subseteq Jobs

VARIABLES
  inst,     \* alert_instances.state, or absent / gone
  job,      \* notification_jobs
  batch,    \* each worker's claimed jobs still to process, head first
  phase,    \* where each worker stands in deliverOnce
  spent,    \* time each worker has spent on the head of its batch
  faults,   \* faults still allowed
  retries,  \* operator retries still allowed
  lastHeard \* what a channel was last told about an instance

vars == <<inst, job, batch, phase, spent, faults, retries, lastHeard>>
workerVars == <<batch, phase, spent>>

(***************************************************************************)
(* Rows and claims.                                                        *)
(***************************************************************************)
InstState == {"absent", "firing", "resolved", "gone"}
Alert     == {"firing", "resolved"}
RowState  == {"none", "pending", "running", "succeeded", "failed", "dropped",
              "gone"}
GivenUpOrDone == {"failed", "dropped", "succeeded"}  \* mutant: retry of a delivered job
GivenUp   == {"failed", "dropped"}
Settled   == {"succeeded", "failed", "dropped", "gone"}
Phase     == {"down", "idle", "deliver", "ok", "err"}
Working   == {"deliver", "ok", "err"}

Attempts == 0 .. AttemptCap
Wait     == (0 - MaxOverdue) .. MaxBackoff
Left     == 0 .. Window
Age      == 0 .. StuckAfter + 1

Row == [state: RowState, inst: Instances, chan: Channels, for: Alert,
        attempts: Attempts, wait: Wait, left: Left, age: Age]

\* DeliveryJob: what the worker copies out of the row and its instance.
Claim == [job: Jobs, attempts: Attempts, state: Alert, instState: Alert,
          left: Left]

NoRow == [state |-> "none", inst |-> CHOOSE i \in Instances : TRUE,
          chan |-> CHOOSE c \in Channels : TRUE, for |-> "firing",
          attempts |-> 0, wait |-> 0, left |-> 0, age |-> 0]

Exists(j) == job[j].state \notin {"none", "gone"}
Bump(a)   == IF a < AttemptCap THEN a + 1 ELSE AttemptCap
Live(w)   == phase[w] # "down"
Held(w)   == {batch[w][k].job : k \in DOMAIN batch[w]}

(***************************************************************************)
(* retryPlan.  The wait doubles from the first backoff; a value outside    *)
(* 1..MaxBackoff (too long, or int64 wrapped to zero or below) becomes     *)
(* MaxBackoff.  expires_at is NOT NULL (migration 0094), so the branch for *)
(* a job without a window is not reachable.                                *)
(***************************************************************************)
Backoff(attempts) ==
  IF 2 ^ attempts \in 1 .. MaxBackoff THEN 2 ^ attempts ELSE MaxBackoff

GiveUp(c) == Backoff(c.attempts) > c.left

\* Mutants of StaleFiring: no staleness test; the all-clear dropped as well.
StaleNever(c) == FALSE
StaleAny(c)   == c.instState = "resolved"

StaleFiring(c) == c.state = "firing" /\ c.instState = "resolved"

-----------------------------------------------------------------------------
(***************************************************************************)
(* What the queue sees of the rest of the system: the engine opens and     *)
(* resolves instances and inserts jobs; operators retry and delete.        *)
(***************************************************************************)
OpenInstance(i) ==
  /\ inst[i] = "absent"
  /\ inst' = [inst EXCEPT ![i] = "firing"]
  /\ UNCHANGED <<job, workerVars, faults, retries, lastHeard>>

ResolveInstance(i) ==
  /\ inst[i] = "firing"
  /\ inst' = [inst EXCEPT ![i] = "resolved"]
  /\ UNCHANGED <<job, workerVars, faults, retries, lastHeard>>

\* One INSERT ... SELECT of EnqueueJobs: the state is the instance's state
\* when the row is inserted.
EnqueueJob(j, i, c) ==
  /\ job[j].state = "none"
  /\ \A k \in Jobs : k < j => job[k].state # "none"
  /\ inst[i] \in Alert
  /\ job' = [job EXCEPT ![j] =
       [state |-> "pending", inst |-> i, chan |-> c, for |-> inst[i],
        attempts |-> 0, wait |-> 0, left |-> Window, age |-> 0]]
  /\ UNCHANGED <<inst, workerVars, faults, retries, lastHeard>>

RetryJob(j) ==
  /\ retries > 0
  /\ job[j].state \in GivenUp
  /\ job' = [job EXCEPT ![j].state = "pending", ![j].attempts = 0,
                        ![j].wait = 0, ![j].left = Window, ![j].age = 0]
  /\ retries' = retries - 1
  /\ UNCHANGED <<inst, workerVars, faults, lastHeard>>

\* The rows a foreign key cascades to are deleted with their parent.
Cascade(doomed) ==
  job' = [j \in Jobs |->
            IF Exists(j) /\ j \in doomed THEN [job[j] EXCEPT !.state = "gone"]
                                         ELSE job[j]]

\* Deleting a channel deletes its jobs, in whatever state they are.
DeleteChannel(c) ==
  /\ \E j \in Jobs : Exists(j) /\ job[j].chan = c
  /\ Cascade({j \in Jobs : job[j].chan = c})
  /\ UNCHANGED <<inst, workerVars, faults, retries, lastHeard>>

\* Deleting a rule deletes its instances, and they their jobs.
DeleteRule(i) ==
  /\ inst[i] \in Alert
  /\ inst' = [inst EXCEPT ![i] = "gone"]
  /\ Cascade({j \in Jobs : job[j].inst = i})
  /\ UNCHANGED <<workerVars, faults, retries, lastHeard>>

-----------------------------------------------------------------------------
(***************************************************************************)
(* ClaimDueJobs: one transaction.  Up to BatchLimit due rows, the longest  *)
(* overdue first, become 'running' under one updated_at; SKIP LOCKED and   *)
(* the state test keep two claims apart.                                   *)
(***************************************************************************)
\* Mutant: the claim forgets the state test.
DueUnlocked == {j \in Jobs : job[j].state \in {"pending", "running"} /\ job[j].wait <= 0}

Due == {j \in Jobs : job[j].state = "pending" /\ job[j].wait <= 0}

BatchSize ==
  IF Cardinality(Due) < BatchLimit THEN Cardinality(Due) ELSE BatchLimit

Picks ==
  {s \in [1 .. BatchSize -> Due] :
     /\ \A k, l \in 1 .. BatchSize :
          k < l => s[k] # s[l] /\ job[s[k]].wait <= job[s[l]].wait
     /\ \A j \in Due \ {s[k] : k \in 1 .. BatchSize} :
          \A k \in 1 .. BatchSize : job[s[k]].wait <= job[j].wait}

ClaimOf(j) ==
  [job |-> j, attempts |-> job[j].attempts, state |-> job[j].for,
   instState |-> inst[job[j].inst], left |-> job[j].left]

ClaimDueJobs(w) ==
  /\ phase[w] = "idle"
  /\ Due # {}
  /\ \E s \in Picks :
       /\ batch' = [batch EXCEPT ![w] = [k \in 1 .. BatchSize |-> ClaimOf(s[k])]]
       /\ job' = [j \in Jobs |->
                    IF \E k \in 1 .. BatchSize : s[k] = j
                      THEN [job[j] EXCEPT !.state = "running", !.age = 0]
                      ELSE job[j]]
  /\ phase' = [phase EXCEPT ![w] = "deliver"]
  /\ spent' = [spent EXCEPT ![w] = 0]
  /\ UNCHANGED <<inst, faults, retries, lastHeard>>

(***************************************************************************)
(* deliverOnce: the head of the batch is dropped, or sent and marked.      *)
(***************************************************************************)
Head1(w) == batch[w][1]

\* Mutant: the loop runs off the end of its batch.
NextPastEnd(w) ==
  /\ batch' = [batch EXCEPT ![w] = Tail(@)]
  /\ phase' = [phase EXCEPT ![w] = "deliver"]
  /\ spent' = [spent EXCEPT ![w] = 0]

\* On to the next job of the batch, or back to waiting for the ticker.
NextInBatch(w) ==
  /\ batch' = [batch EXCEPT ![w] = Tail(@)]
  /\ phase' = [phase EXCEPT ![w] = IF Len(batch[w]) = 1 THEN "idle" ELSE "deliver"]
  /\ spent' = [spent EXCEPT ![w] = 0]

\* Mutant: the write brings a deleted row back.
Upsert(j, row) == job' = [job EXCEPT ![j] = row]

\* UPDATE notification_jobs SET ... WHERE id = j: nothing but the id is
\* tested, and a deleted row is not brought back.
Update(j, row) ==
  job' = IF Exists(j) THEN [job EXCEPT ![j] = row] ELSE job

MarkJobDropped(w) ==
  LET j == Head1(w).job IN
  /\ phase[w] = "deliver"
  /\ StaleFiring(Head1(w))
  /\ Update(j, [job[j] EXCEPT !.state = "dropped", !.age = 0])
  /\ NextInBatch(w)
  /\ UNCHANGED <<inst, faults, retries, lastHeard>>

\* The receiver has the message whenever deliver() returns no error, and may
\* have it when deliver() returns one (a timeout after the body was taken).
Deliver(w) ==
  LET c == Head1(w) IN
  /\ phase[w] = "deliver"
  /\ ~StaleFiring(c)
  /\ c.job \notin Poison
  /\ \E outcome \in {"ok", "err"}, received \in BOOLEAN :
       /\ outcome = "ok" => received
       /\ phase' = [phase EXCEPT ![w] = outcome]
       /\ lastHeard' =
            IF received
              THEN [lastHeard EXCEPT ![job[c.job].inst][job[c.job].chan] = c.state]
              ELSE lastHeard
  /\ UNCHANGED <<inst, job, batch, spent, faults, retries>>

MarkJobSucceeded(w) ==
  LET j == Head1(w).job IN
  /\ phase[w] = "ok"
  /\ Update(j, [job[j] EXCEPT !.state = "succeeded",
                              !.attempts = Bump(@), !.age = 0])
  /\ NextInBatch(w)
  /\ UNCHANGED <<inst, faults, retries, lastHeard>>

\* attempts is computed from the worker's copy, not from the row.
MarkJobFailed(w) ==
  LET c == Head1(w) IN
  /\ phase[w] = "err"
  /\ Update(c.job,
       IF GiveUp(c)
         THEN [job[c.job] EXCEPT !.state = "failed",
                                 !.attempts = Bump(c.attempts), !.age = 0]
         ELSE [job[c.job] EXCEPT !.state = "pending",
                                 !.attempts = Bump(c.attempts),
                                 !.wait = Backoff(c.attempts), !.age = 0])
  /\ NextInBatch(w)
  /\ UNCHANGED <<inst, faults, retries, lastHeard>>

\* The UPDATE that records the outcome fails: logged, and the loop goes on.
MarkFails(w) ==
  /\ faults > 0
  /\ \/ phase[w] \in {"ok", "err"}
     \/ phase[w] = "deliver" /\ StaleFiring(Head1(w))
  /\ NextInBatch(w)
  /\ faults' = faults - 1
  /\ UNCHANGED <<inst, job, retries, lastHeard>>

-----------------------------------------------------------------------------
(***************************************************************************)
(* The sweep, crashes and restarts, and the clock.                         *)
(***************************************************************************)
\* Mutants: the sweep's cutoff is off by one; there is no sweep.
StuckEarly(j) == job[j].state = "running" /\ job[j].age >= StuckAfter
NoSweep == job

Stuck(j) == job[j].state = "running" /\ job[j].age > StuckAfter

Swept == [j \in Jobs |->
            IF Stuck(j)
              THEN [job[j] EXCEPT !.state = "pending", !.attempts = Bump(@),
                                  !.wait = 0, !.age = 0]
              ELSE job[j]]

\* reclaimOnce of any live process: its loop runs beside the delivery loop.
ReclaimStuckJobs ==
  /\ \E w \in Workers : Live(w)
  /\ \E j \in Jobs : Stuck(j)
  /\ job' = Swept
  /\ UNCHANGED <<inst, workerVars, faults, retries, lastHeard>>

Stop(w) ==
  /\ batch' = [batch EXCEPT ![w] = << >>]
  /\ phase' = [phase EXCEPT ![w] = "down"]
  /\ spent' = [spent EXCEPT ![w] = 0]

\* A crash, an OOM kill or the container being recreated, at any point.
Crash(w) ==
  /\ faults > 0
  /\ Live(w)
  /\ Stop(w)
  /\ faults' = faults - 1
  /\ UNCHANGED <<inst, job, retries, lastHeard>>

\* A delivery that reliably kills the worker that attempts it.
PoisonedDelivery(w) ==
  /\ phase[w] = "deliver"
  /\ ~StaleFiring(Head1(w))
  /\ Head1(w).job \in Poison
  /\ Stop(w)
  /\ UNCHANGED <<inst, job, faults, retries, lastHeard>>

\* Engine.Run sweeps once before its loops start.
Restart(w) ==
  /\ phase[w] = "down"
  /\ phase' = [phase EXCEPT ![w] = "idle"]
  /\ job' = Swept
  /\ UNCHANGED <<inst, batch, spent, faults, retries, lastHeard>>

Countdown(t) == IF t > 0 THEN t - 1 ELSE 0
Sooner(t)    == IF t > 0 - MaxOverdue THEN t - 1 ELSE t
Older(t)     == IF t <= StuckAfter THEN t + 1 ELSE t

\* Time passes for a working process only while it sends, and no send takes
\* longer than the transports allow: the HTTP client times out, and so do the
\* SMTP dial and conversation.
Sending(w) == phase[w] = "deliver" /\ ~StaleFiring(Head1(w))

Tick ==
  /\ \A w \in Workers : phase[w] \in Working
                          => Sending(w) /\ spent[w] < MaxDelivery
  /\ job' = [j \in Jobs |->
       IF Exists(j)
         THEN [job[j] EXCEPT
                 !.wait = IF job[j].state = "pending" THEN Sooner(@) ELSE @,
                 !.left = Countdown(@),
                 !.age  = IF job[j].state = "running" THEN Older(@) ELSE @]
         ELSE job[j]]
  /\ batch' = [w \in Workers |->
       [k \in 1 .. Len(batch[w]) |->
          [batch[w][k] EXCEPT !.left = Countdown(@)]]]
  /\ spent' = [w \in Workers |->
       IF phase[w] \in Working THEN spent[w] + 1 ELSE spent[w]]
  /\ UNCHANGED <<inst, phase, faults, retries, lastHeard>>

-----------------------------------------------------------------------------
Init ==
  /\ inst = [i \in Instances |-> "absent"]
  /\ job = [j \in Jobs |-> NoRow]
  /\ batch = [w \in Workers |-> << >>]
  /\ phase = [w \in Workers |-> "idle"]
  /\ spent = [w \in Workers |-> 0]
  /\ faults = MaxFaults
  /\ retries = MaxRetries
  /\ lastHeard = [i \in Instances |-> [c \in Channels |-> "nothing"]]

Step(w) ==
  \/ MarkJobDropped(w)
  \/ Deliver(w)
  \/ MarkJobSucceeded(w)
  \/ MarkJobFailed(w)
  \/ PoisonedDelivery(w)

Next ==
  \/ \E i \in Instances : OpenInstance(i) \/ ResolveInstance(i) \/ DeleteRule(i)
  \/ \E j \in Jobs, i \in Instances, c \in Channels : EnqueueJob(j, i, c)
  \/ \E j \in Jobs : RetryJob(j)
  \/ \E c \in Channels : DeleteChannel(c)
  \/ \E w \in Workers : ClaimDueJobs(w) \/ Step(w) \/ MarkFails(w)
                        \/ Crash(w) \/ Restart(w)
  \/ ReclaimStuckJobs
  \/ Tick

\* The tickers of Run fire for ever and a stopped process is started again
\* (container restart policy); nothing is assumed of the engine, the
\* operators or the receivers.
Fairness ==
  /\ WF_vars(Tick)
  /\ WF_vars(ReclaimStuckJobs)
  /\ \A w \in Workers : /\ WF_vars(ClaimDueJobs(w))
                        /\ WF_vars(Step(w))
                        /\ WF_vars(Restart(w))

Spec == Init /\ [][Next]_vars
FairSpec == Spec /\ Fairness
-----------------------------------------------------------------------------
(***************************************************************************)
(* Properties.                                                             *)
(***************************************************************************)

\* The shape of every variable; a worker that is waiting or down holds no
\* batch, one that is working holds between one job and BatchLimit of them.
TypeOK ==
  /\ inst \in [Instances -> InstState]
  /\ job \in [Jobs -> Row]
  /\ batch \in [Workers -> Seq(Claim)]
  /\ phase \in [Workers -> Phase]
  /\ spent \in [Workers -> 0 .. MaxDelivery]
  /\ faults \in 0 .. MaxFaults
  /\ retries \in 0 .. MaxRetries
  /\ lastHeard \in [Instances -> [Channels -> {"nothing"} \union Alert]]
  /\ \A w \in Workers :
       IF phase[w] \in Working THEN Len(batch[w]) \in 1 .. BatchLimit
                               ELSE Len(batch[w]) = 0

\* A job that exists belongs to an instance that exists: the foreign keys
\* cascade (DeleteRule), and EnqueueJobs selects from alert_instances.
ForeignKeys ==
  \A j \in Jobs : Exists(j) => inst[job[j].inst] \in Alert

\* What the delivery history says is true: a dropped notification was a
\* firing one whose alert has resolved (staleFiring), and one given up as
\* failed had less than the longest backoff left of its window (retryPlan),
\* whatever retries, sweeps and cascades came in between.
HistoryIsHonest ==
  \A j \in Jobs :
    /\ job[j].state = "dropped" => job[j].for = "firing"
                                   /\ inst[job[j].inst] = "resolved"
    /\ job[j].state = "failed" => job[j].left < MaxBackoff

\* A channel that was told an alert is over is not told afterwards that it
\* is firing: a page overtaken by its own all-clear is dropped, through
\* backoffs, sweeps, crashes and operator retries (deliverOnce, staleFiring).
AllClearIsLast ==
  [][\A i \in Instances, c \in Channels :
       lastHeard[i][c] = "resolved" => lastHeard'[i][c] = "resolved"]_vars

\* A recorded success is never taken back: no late write and no sweep puts a
\* delivered notification back in the queue (MarkJobFailed, ReclaimStuckJobs).
SuccessIsFinal ==
  [][\A j \in Jobs : job[j].state = "succeeded"
                       => job'[j].state \in {"succeeded", "gone"}]_vars

\* attempts only grows until an operator resets it: the copy a worker writes
\* back (MarkJobFailed) never erases an attempt that was counted meanwhile.
AttemptsCounted ==
  [][\A j \in Jobs : job'[j].attempts < job[j].attempts
                       => job[j].state \in GivenUp /\ job'[j].state = "pending"]_vars

\* No two processes ever work on the same delivery (ClaimDueJobs: FOR UPDATE
\* SKIP LOCKED and the state test).
ExclusiveDelivery ==
  \A v, w \in Workers : v # w => Held(v) \cap Held(w) = {}

\* The sweep takes no delivery from a process that is still working on it
\* (stuckAfter against the timeouts of the transports).
SweepSparesLive ==
  \A w \in Workers, j \in Jobs : j \in Held(w) => ~Stuck(j)

\* Every queued notification is in the end delivered, given up, dropped or
\* deleted: a crash at any point strands none (ReclaimStuckJobs).
JobsSettle ==
  \A j \in Jobs : job[j].state = "pending" ~> job[j].state \in Settled

\* A delivery that reliably kills its worker is given up in the end: the
\* sweep counts each kill as an attempt (ReclaimStuckJobs).
PoisonIsBounded ==
  \A j \in Poison : job[j].state = "pending" ~> job[j].state \in Settled

-----------------------------------------------------------------------------
(***************************************************************************)
(* The queue as an outbox.                                                 *)
(***************************************************************************)
StatusOf(state) ==
  CASE state = "none"                   -> "absent"
    [] state \in {"pending", "running"} -> "open"
    [] state = "succeeded"              -> "delivered"
    [] state \in GivenUp                -> "abandoned"
    [] state = "gone"                   -> "removed"

Status == [j \in Jobs |-> StatusOf(job[j].state)]
To     == [j \in Jobs |-> <<job[j].inst, job[j].chan>>]
Text   == [j \in Jobs |-> job[j].for]
Heard  == [a \in Instances \X Channels |-> lastHeard[a[1]][a[2]]]

Promise == INSTANCE Outbox WITH
  Mails <- Jobs, Addresses <- Instances \X Channels, Texts <- Alert,
  status <- Status, to <- To, text <- Text, heard <- Heard

\* Claims, batches, sweeps, crashes and unguarded writes by id together are
\* an outbox: nobody is sent a notification that is recorded as delivered or
\* given up, a delivery is recorded only once its receiver heard of it and is
\* never taken back, and a deleted row is not brought back (ClaimDueJobs,
\* deliverOnce, the Mark statements and ReclaimStuckJobs).
ImplementsOutbox == Promise!OutboxSpec
=============================================================================
