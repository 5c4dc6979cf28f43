---------------------- MODULE NotificationQueueHistory ----------------------
(***************************************************************************)
(* What one step may do to one row of notification_jobs, and the three     *)
(* properties of the delivery history that follow from it, in the two      *)
(* deployments of NotificationQueueProofs: any number of replicas whose    *)
(* batches fit into stuckAfter, or one process and any timing.  Then the   *)
(* order of a page and its all-clear, and the refinement of Outbox.        *)
(***************************************************************************)
EXTENDS NotificationQueueProofs

Same(r, s) == s.attempts = r.attempts /\ s.for = r.for /\ s.inst = r.inst

\* The life of a row: untouched, created, retried, deleted, a moment older,
\* or taken a step further by the worker that holds it or by the sweep.
Kept(j)    == job'[j] = job[j]
Created(j) == job[j].state = "none" /\ job'[j].state = "pending"
Retried(j) == job[j].state \in GivenUp /\ job'[j].state = "pending"
Deleted(j) == job'[j].state = "gone" /\ job'[j].attempts = job[j].attempts
Aged(j)    == /\ job'[j].state = job[j].state
              /\ Same(job[j], job'[j])
              /\ job'[j].left <= job[j].left
Advanced(j) ==
  /\ job[j].state \in {"pending", "running"}
  /\ job'[j].attempts >= job[j].attempts
  /\ job'[j].inst = job[j].inst
  /\ \/ job'[j].state \in {"pending", "running", "succeeded"}
     \/ /\ job'[j].state = "dropped" /\ job'[j].for = "firing"
        /\ inst[job'[j].inst] = "resolved"
     \/ job'[j].state = "failed" /\ job'[j].left < MaxBackoff

Lives(j) ==
  Kept(j) \/ Created(j) \/ Retried(j) \/ Deleted(j) \/ Aged(j) \/ Advanced(j)

\* attempts never counts down.
LEMMA BumpGrows == \A a \in Attempts : Bump(a) \in Int /\ Bump(a) >= a
  BY SizesAssumption DEF Attempts, Bump

\* What the head of a batch says of its row, and that the row is a row.
LEMMA HeadCurrent ==
  ASSUME ClaimInv, NEW w \in Workers, phase[w] \in Working
  PROVE  LET c == Head1(w) r == job[c.job] IN
         /\ c \in Claim /\ r \in Row
         /\ Exists(c.job) =>
              /\ r.state \in {"running", "pending"}
              /\ c.left = r.left /\ c.state = r.for
              /\ r.attempts \in {c.attempts, Bump(c.attempts)}
              /\ c.instState = "resolved" => inst[r.inst] = "resolved"
<1>1. batch[w] \in Seq(Claim) /\ Len(batch[w]) \in 1 .. BatchLimit
  BY DEF ClaimInv, Typed, TypeOK
<1>2. 1 \in 1 .. Len(batch[w])
  BY <1>1
<1>3. Head1(w) \in Claim
  BY <1>1, <1>2 DEF Head1
<1>4. Head1(w).job \in Jobs
  BY <1>3 DEF Claim
<1>5. job[Head1(w).job] \in Row
  BY <1>4 DEF ClaimInv, Typed, TypeOK
<1>6. Current(Head1(w), Len(batch[w]), spent[w])
  BY <1>2 DEF ClaimInv, Claims, CopiesCurrent, Head1
<1> QED
  BY <1>3, <1>5, <1>6 DEF Current, Exists

\* An UPDATE of the head's row leaves the other rows alone, and that one too
\* when it was deleted.
LEMMA UpdateLives ==
  ASSUME ClaimInv, NEW w \in Workers, phase[w] \in Working, NEW j \in Jobs,
         NEW row, Update(Head1(w).job, row)
  PROVE  \/ Kept(j)
         \/ j = Head1(w).job /\ Exists(j) /\ job'[j] = row
  BY DEF Update, Kept, ClaimInv, Typed, TypeOK

\* The sweep keeps a row or advances it.
LEMMA SweptLives ==
  ASSUME ClaimInv, NEW j \in Jobs, job' = Swept
  PROVE  Lives(j)
<1>1. job[j] \in Row
  BY DEF ClaimInv, Typed, TypeOK
<1>2. CASE ~Stuck(j)
  BY <1>2 DEF Swept, Lives, Kept
<1>3. CASE Stuck(j)
  <2>1. job'[j] = [job[j] EXCEPT !.state = "pending", !.attempts = Bump(@),
                                 !.wait = 0, !.age = 0]
    BY <1>3 DEF Swept
  <2>2. job'[j].state = "pending" /\ job'[j].attempts = Bump(job[j].attempts)
        /\ job'[j].inst = job[j].inst
    BY <1>1, <2>1 DEF Row
  <2> QED
    BY <1>1, <1>3, <2>2, BumpGrows DEF Lives, Advanced, Stuck, Row
<1> QED
  BY <1>2, <1>3

\* A cascade keeps a row or deletes it.
LEMMA CascadeLives ==
  ASSUME ClaimInv, NEW j \in Jobs, NEW D, Cascade(D)
  PROVE  Kept(j) \/ Deleted(j)
<1>1. job[j] \in Row
  BY DEF ClaimInv, Typed, TypeOK
<1>2. CASE Exists(j) /\ j \in D
  <2>1. job'[j] = [job[j] EXCEPT !.state = "gone"]
    BY <1>2 DEF Cascade
  <2> QED
    BY <1>1, <2>1 DEF Deleted, Row
<1>3. CASE ~(Exists(j) /\ j \in D)
  BY <1>3 DEF Cascade, Kept
<1> QED
  BY <1>2, <1>3

\* The three writes of a worker advance the row of the head of its batch:
\* what they say of it is what its copy says.
LEMMA MarkLives ==
  ASSUME ClaimInv, NEW w \in Workers, NEW j \in Jobs,
         MarkJobDropped(w) \/ MarkJobSucceeded(w) \/ MarkJobFailed(w)
  PROVE  Lives(j)
<1> DEFINE c == Head1(w)
           r == job[c.job]
<1>1. phase[w] \in Working
  BY DEF MarkJobDropped, MarkJobSucceeded, MarkJobFailed, Working
<1>2. /\ c \in Claim /\ r \in Row
      /\ Exists(c.job) =>
           /\ r.state \in {"running", "pending"}
           /\ c.left = r.left /\ c.state = r.for
           /\ r.attempts \in {c.attempts, Bump(c.attempts)}
           /\ c.instState = "resolved" => inst[r.inst] = "resolved"
  BY <1>1, HeadCurrent
<1>3. c.attempts \in Attempts /\ r.attempts \in Attempts
  BY <1>2 DEF Claim, Row
<1>4. CASE MarkJobDropped(w)
  <2> DEFINE row == [r EXCEPT !.state = "dropped", !.age = 0]
  <2>1. StaleFiring(c) /\ Update(c.job, row)
    BY <1>4 DEF MarkJobDropped
  <2>2. row.state = "dropped" /\ row.for = r.for /\ row.inst = r.inst
        /\ row.attempts = r.attempts
    BY <1>2 DEF Row
  <2>3. r.attempts >= r.attempts
    BY <1>3, SizesAssumption DEF Attempts
  <2> HIDE DEF row
  <2>4. CASE Kept(j)
    BY <2>4 DEF Lives
  <2>5. CASE j = c.job /\ Exists(j) /\ job'[j] = row
    BY <1>2, <2>1, <2>2, <2>3, <2>5 DEF Lives, Advanced, StaleFiring
  <2> QED
    BY <1>1, <2>1, <2>4, <2>5, UpdateLives
<1>5. CASE MarkJobSucceeded(w)
  <2> DEFINE row == [r EXCEPT !.state = "succeeded", !.attempts = Bump(@), !.age = 0]
  <2>1. Update(c.job, row)
    BY <1>5 DEF MarkJobSucceeded
  <2>2. row.state = "succeeded" /\ row.attempts = Bump(r.attempts)
        /\ row.inst = r.inst
    BY <1>2 DEF Row
  <2>3. Bump(r.attempts) >= r.attempts
    BY <1>3, BumpGrows
  <2> HIDE DEF row
  <2>4. CASE Kept(j)
    BY <2>4 DEF Lives
  <2>5. CASE j = c.job /\ Exists(j) /\ job'[j] = row
    BY <1>2, <2>2, <2>3, <2>5 DEF Lives, Advanced
  <2> QED
    BY <1>1, <2>1, <2>4, <2>5, UpdateLives
<1>6. CASE MarkJobFailed(w)
  <2> DEFINE row ==
        IF GiveUp(c)
          THEN [r EXCEPT !.state = "failed", !.attempts = Bump(c.attempts), !.age = 0]
          ELSE [r EXCEPT !.state = "pending", !.attempts = Bump(c.attempts),
                         !.wait = Backoff(c.attempts), !.age = 0]
  <2>1. Update(c.job, row)
    BY <1>6 DEF MarkJobFailed
  <2>2. row.attempts = Bump(c.attempts) /\ row.inst = r.inst
        /\ (GiveUp(c) => row.state = "failed" /\ row.left = r.left)
        /\ (~GiveUp(c) => row.state = "pending")
    BY <1>2 DEF Row
  <2>3. Bump(c.attempts) >= c.attempts /\ Bump(c.attempts) >= Bump(c.attempts)
    BY <1>3, BumpGrows
  <2>4. GiveUp(c) => c.left < MaxBackoff
    <3>1. \A x \in Left, b \in 1 .. MaxBackoff : b > x => x < MaxBackoff
      BY SizesAssumption DEF Left
    <3>2. c.left \in Left /\ Backoff(c.attempts) \in 1 .. MaxBackoff
      BY <1>2, BackoffType DEF Claim
    <3> QED
      BY <3>1, <3>2 DEF GiveUp
  <2> HIDE DEF row
  <2>5. CASE Kept(j)
    BY <2>5 DEF Lives
  <2>6. CASE j = c.job /\ Exists(j) /\ job'[j] = row
    BY <1>2, <2>2, <2>3, <2>4, <2>6 DEF Lives, Advanced
  <2> QED
    BY <1>1, <2>1, <2>5, <2>6, UpdateLives
<1> QED
  BY <1>4, <1>5, <1>6

\* Every step of the system is, for every row, one of the steps of its life.
LEMMA RowLife ==
  ASSUME ClaimInv, [Next]_vars, NEW j \in Jobs
  PROVE  Lives(j)
<1>1. job[j] \in Row
  BY DEF ClaimInv, Typed, TypeOK
<1>2. CASE UNCHANGED job
  BY <1>2 DEF Lives, Kept
<1>3. ASSUME NEW i \in Instances, OpenInstance(i) \/ ResolveInstance(i) PROVE Lives(j)
  BY <1>2, <1>3 DEF OpenInstance, ResolveInstance
<1>4. ASSUME NEW i \in Instances, DeleteRule(i) PROVE Lives(j)
  BY <1>4, CascadeLives DEF DeleteRule, Lives
<1>5. ASSUME NEW c \in Channels, DeleteChannel(c) PROVE Lives(j)
  BY <1>5, CascadeLives DEF DeleteChannel, Lives
<1>6. ASSUME NEW k \in Jobs, NEW i \in Instances, NEW c \in Channels,
             EnqueueJob(k, i, c)
      PROVE  Lives(j)
  BY <1>6 DEF EnqueueJob, Lives, Kept, Created, ClaimInv, Typed, TypeOK
<1>7. ASSUME NEW k \in Jobs, RetryJob(k) PROVE Lives(j)
  <2>1. job' = [job EXCEPT ![k] = [job[k] EXCEPT !.state = "pending", !.attempts = 0,
                                     !.wait = 0, !.left = Window, !.age = 0]]
        /\ job[k].state \in GivenUp /\ job[k] \in Row
    BY <1>7 DEF RetryJob, ClaimInv, Typed, TypeOK
  <2>2. CASE j = k
    <3>1. job'[j].state = "pending"
      BY <2>1, <2>2 DEF Row, ClaimInv, Typed, TypeOK
    <3> QED
      BY <2>1, <2>2, <3>1 DEF Lives, Retried
  <2>3. CASE j # k
    BY <2>1, <2>3 DEF Lives, Kept, ClaimInv, Typed, TypeOK
  <2> QED
    BY <2>2, <2>3
<1>8. ASSUME NEW w \in Workers, ClaimDueJobs(w) PROVE Lives(j)
  <2>1. PICK s \in Picks :
          job' = [x \in Jobs |->
                    IF \E k \in 1 .. BatchSize : s[k] = x
                      THEN [job[x] EXCEPT !.state = "running", !.age = 0]
                      ELSE job[x]]
    BY <1>8 DEF ClaimDueJobs
  <2>2. CASE \E k \in 1 .. BatchSize : s[k] = j
    <3>1. job[j].state = "pending"
      BY <2>2 DEF Picks, Due
    <3>2. job'[j] = [job[j] EXCEPT !.state = "running", !.age = 0]
      BY <2>1, <2>2
    <3>3. job'[j].state = "running" /\ job'[j].attempts = job[j].attempts
          /\ job'[j].inst = job[j].inst
      BY <1>1, <3>2 DEF Row
    <3>4. job[j].attempts >= job[j].attempts
      BY <1>1, SizesAssumption DEF Row, Attempts
    <3> QED
      BY <3>1, <3>3, <3>4 DEF Lives, Advanced
  <2>3. CASE ~ \E k \in 1 .. BatchSize : s[k] = j
    BY <2>1, <2>3 DEF Lives, Kept
  <2> QED
    BY <2>2, <2>3
<1>9. ASSUME NEW w \in Workers, Deliver(w) \/ MarkFails(w) \/ Crash(w) \/ PoisonedDelivery(w)
      PROVE  Lives(j)
  BY <1>2, <1>9 DEF Deliver, MarkFails, Crash, PoisonedDelivery
<1>10. ASSUME NEW w \in Workers,
              MarkJobDropped(w) \/ MarkJobSucceeded(w) \/ MarkJobFailed(w)
       PROVE  Lives(j)
  BY <1>10, MarkLives
<1>11. CASE ReclaimStuckJobs
  BY <1>11, SweptLives DEF ReclaimStuckJobs
<1>12. ASSUME NEW w \in Workers, Restart(w) PROVE Lives(j)
  BY <1>12, SweptLives DEF Restart
<1>13. CASE Tick
  <2>1. \A t \in Left : Countdown(t) <= t
    BY SizesAssumption DEF Left, Countdown
  <2>2. CASE ~Exists(j)
    BY <1>13, <2>2 DEF Tick, Lives, Kept
  <2>3. CASE Exists(j)
    <3>1. job'[j] = [job[j] EXCEPT
                 !.wait = IF job[j].state = "pending" THEN Sooner(@) ELSE @,
                 !.left = Countdown(@),
                 !.age  = IF job[j].state = "running" THEN Older(@) ELSE @]
      BY <1>13, <2>3 DEF Tick
    <3>2. /\ job'[j].state = job[j].state /\ job'[j].attempts = job[j].attempts
          /\ job'[j].for = job[j].for /\ job'[j].inst = job[j].inst
          /\ job'[j].left = Countdown(job[j].left) /\ job[j].left \in Left
      BY <1>1, <3>1 DEF Row
    <3> QED
      BY <2>1, <3>2 DEF Lives, Aged, Same
  <2> QED
    BY <2>2, <2>3
<1>14. CASE UNCHANGED vars
  BY <1>2, <1>14 DEF vars
<1> QED
  BY <1>3, <1>4, <1>5, <1>6, <1>7, <1>8, <1>9, <1>10, <1>11, <1>12, <1>13, <1>14
  DEF Next, Step

-----------------------------------------------------------------------------
\* A resolved alert stays resolved until its rule is deleted, and then its
\* jobs are deleted with it.
LEMMA ResolvedStays ==
  ASSUME Typed, [Next]_vars, NEW i \in Instances, inst[i] = "resolved"
  PROVE  \/ inst'[i] = "resolved"
         \/ \A j \in Jobs : Exists(j) /\ job[j].inst = i => job'[j].state = "gone"
<1>1. CASE UNCHANGED inst
  BY <1>1
<1>2. ASSUME NEW k \in Instances, OpenInstance(k) \/ ResolveInstance(k)
      PROVE  inst'[i] = "resolved"
  BY <1>2 DEF OpenInstance, ResolveInstance, Typed, TypeOK
<1>3. ASSUME NEW k \in Instances, DeleteRule(k)
      PROVE  \/ inst'[i] = "resolved"
             \/ \A j \in Jobs : Exists(j) /\ job[j].inst = i => job'[j].state = "gone"
  <2>1. CASE k # i
    BY <1>3, <2>1 DEF DeleteRule, Typed, TypeOK
  <2>2. CASE k = i
    <3>1. ASSUME NEW j \in Jobs, Exists(j), job[j].inst = i
          PROVE  job'[j].state = "gone"
      <4>1. job'[j] = [job[j] EXCEPT !.state = "gone"]
        BY <1>3, <2>2, <3>1 DEF DeleteRule, Cascade
      <4> QED
        BY <4>1 DEF Typed, TypeOK, Row
    <3> QED
      BY <3>1
  <2> QED
    BY <2>1, <2>2
<1> QED
  BY <1>1, <1>2, <1>3
  DEF Next, Step, vars, EnqueueJob, RetryJob, DeleteChannel, ClaimDueJobs,
      MarkJobDropped, Deliver, MarkJobSucceeded, MarkJobFailed, MarkFails,
      ReclaimStuckJobs, Crash, PoisonedDelivery, Restart, Tick

\* A recorded success is never taken back (MarkJobFailed and
\* ReclaimStuckJobs never reach a delivered row): with any number of replicas
\* when a whole batch fits into stuckAfter, and with one process always.
THEOREM SuccessIsFinalHolds == Deployed => (Spec => SuccessIsFinal)
<1> SUFFICES ASSUME Deployed PROVE Spec => SuccessIsFinal
  OBVIOUS
<1>1. ClaimInv /\ [Next]_vars =>
        [\A j \in Jobs : job[j].state = "succeeded"
                           => job'[j].state \in {"succeeded", "gone"}]_vars
  <2> SUFFICES ASSUME ClaimInv, [Next]_vars, NEW j \in Jobs,
                      job[j].state = "succeeded"
               PROVE  job'[j].state \in {"succeeded", "gone"}
    OBVIOUS
  <2> QED
    BY RowLife DEF Lives, Kept, Created, Retried, Deleted, Aged, Advanced, GivenUp
<1> QED
  BY <1>1, ClaimsHold, PTL DEF Spec, SuccessIsFinal

\* A row that was never inserted has no attempts.
Fresh == \A j \in Jobs : job[j].state = "none" => job[j].attempts = 0

\* The copy of attempts that a worker writes back (MarkJobFailed) never
\* erases an attempt counted meanwhile: attempts drops only when an operator
\* retries a job that was given up.  With any number of replicas when a whole
\* batch fits into stuckAfter, and with one process always.
THEOREM AttemptsCountedHolds == Deployed => (Spec => AttemptsCounted)
<1> SUFFICES ASSUME Deployed PROVE Spec => AttemptsCounted
  OBVIOUS
<1>1. Init => Fresh
  BY DEF Init, Fresh, NoRow
<1>2. ClaimInv /\ Fresh /\ [Next]_vars => Fresh'
  <2> SUFFICES ASSUME ClaimInv, Fresh, [Next]_vars, NEW j \in Jobs,
                      job'[j].state = "none"
               PROVE  job'[j].attempts = 0
    BY DEF Fresh
  <2> QED
    BY RowLife DEF Fresh, Lives, Kept, Created, Retried, Deleted, Aged, Advanced, Same
<1>3. ClaimInv /\ ClaimInv' /\ Fresh /\ [Next]_vars =>
        [\A j \in Jobs : job'[j].attempts < job[j].attempts
                => job[j].state \in GivenUp /\ job'[j].state = "pending"]_vars
  <2> SUFFICES ASSUME ClaimInv, ClaimInv', Fresh, [Next]_vars, NEW j \in Jobs,
                      job'[j].attempts < job[j].attempts
               PROVE  job[j].state \in GivenUp /\ job'[j].state = "pending"
    OBVIOUS
  <2>1. job[j].attempts \in Nat /\ job'[j].attempts \in Nat
    <3>1. job[j] \in Row /\ job'[j] \in Row
      BY DEF ClaimInv, Typed, TypeOK
    <3>2. \A a \in Attempts : a \in Nat
      BY SizesAssumption DEF Attempts
    <3> QED
      BY <3>1, <3>2 DEF Row
  <2>2. CASE Created(j)
    BY <2>1, <2>2 DEF Created, Fresh
  <2>3. CASE Retried(j)
    BY <2>3 DEF Retried
  <2>4. CASE Kept(j) \/ Deleted(j) \/ Aged(j) \/ Advanced(j)
    BY <2>1, <2>4 DEF Kept, Deleted, Aged, Advanced, Same
  <2> QED
    BY <2>2, <2>3, <2>4, RowLife DEF Lives
<1> QED
  BY <1>1, <1>2, <1>3, ClaimsHold, PTL DEF Spec, AttemptsCounted

\* The delivery history is true, for any number of replicas whose batches fit
\* into stuckAfter and for one process with any timing: a job recorded as
\* dropped was a page whose alert has resolved, and one recorded as failed was
\* near the end of its window.
THEOREM HistoryIsHonestHolds == Deployed => (Spec => []HistoryIsHonest)
<1> SUFFICES ASSUME Deployed PROVE Spec => []HistoryIsHonest
  OBVIOUS
<1>1. Init => HistoryIsHonest
  BY DEF Init, HistoryIsHonest, NoRow
<1>2. ClaimInv /\ ClaimInv' /\ HistoryIsHonest /\ [Next]_vars => HistoryIsHonest'
  <2> SUFFICES ASSUME ClaimInv, ClaimInv', HistoryIsHonest, [Next]_vars,
                      NEW j \in Jobs
               PROVE  /\ job'[j].state = "dropped" => job'[j].for = "firing"
                                        /\ inst'[job'[j].inst] = "resolved"
                      /\ job'[j].state = "failed" => job'[j].left < MaxBackoff
    BY DEF HistoryIsHonest
  <2>1. job[j] \in Row /\ job'[j] \in Row
    BY DEF ClaimInv, Typed, TypeOK
  <2>2. ASSUME job'[j].state = "failed" PROVE job'[j].left < MaxBackoff
    <3>1. job[j].left \in Int /\ job'[j].left \in Int /\ MaxBackoff \in Int
      <4>1. \A t \in Left : t \in Int
        BY SizesAssumption DEF Left
      <4> QED
        BY <2>1, <4>1, SizesAssumption DEF Row
    <3>2. CASE Kept(j)
      BY <2>2, <3>2 DEF Kept, HistoryIsHonest
    <3>3. CASE Aged(j)
      BY <2>2, <3>1, <3>3 DEF Aged, HistoryIsHonest
    <3>4. CASE Created(j) \/ Retried(j) \/ Deleted(j) \/ Advanced(j)
      BY <2>2, <3>4 DEF Created, Retried, Deleted, Advanced
    <3> QED
      BY <3>2, <3>3, <3>4, RowLife DEF Lives
  <2>3. ASSUME job'[j].state = "dropped"
        PROVE  job'[j].for = "firing" /\ inst'[job'[j].inst] = "resolved"
    <3>1. job[j].inst \in Instances
      BY <2>1 DEF Row
    <3>2. /\ job'[j].for = "firing" /\ job'[j].inst = job[j].inst
          /\ inst[job[j].inst] = "resolved" /\ Exists(j)
      BY <2>3, RowLife
      DEF Lives, Kept, Created, Retried, Deleted, Aged, Advanced, Same,
          HistoryIsHonest, Exists
    <3> QED
      BY <2>3, <3>1, <3>2, ResolvedStays DEF ClaimInv
  <2> QED
    BY <2>2, <2>3
<1> QED
  BY <1>1, <1>2, ClaimsHold, PTL DEF Spec

-----------------------------------------------------------------------------
(***************************************************************************)
(* The all-clear is the last word.  With one process this needs no timing  *)
(* assumption: a batch sees each alert in one state, so the all-clear and  *)
(* a page it overtakes are never sent from one batch, and what a batch saw *)
(* as over stays over.                                                     *)
(***************************************************************************)
\* What a row is about never changes once it is inserted.
SameRow(j) ==
  /\ job'[j].state # "none"
  /\ job'[j].inst = job[j].inst
  /\ job'[j].chan = job[j].chan
  /\ job'[j].for = job[j].for

\* An UPDATE by id that rewrites other columns leaves what the rows are about.
LEMMA UpdateKeepsRow ==
  ASSUME Typed, NEW k \in Jobs, NEW row \in Row, Update(k, row),
         row.state # "none", row.inst = job[k].inst, row.chan = job[k].chan,
         row.for = job[k].for, NEW j \in Jobs, job[j].state # "none"
  PROVE  SameRow(j)
  BY DEF Update, SameRow, Typed, TypeOK

LEMMA SweepKeepsRow ==
  ASSUME Typed, job' = Swept, NEW j \in Jobs, job[j].state # "none"
  PROVE  SameRow(j)
<1>1. job[j] \in Row
  BY DEF Typed, TypeOK
<1>2. CASE ~Stuck(j)
  BY <1>2 DEF Swept, SameRow
<1>3. CASE Stuck(j)
  <2>1. job'[j] = [job[j] EXCEPT !.state = "pending", !.attempts = Bump(@),
                                 !.wait = 0, !.age = 0]
    BY <1>3 DEF Swept
  <2> QED
    BY <1>1, <2>1 DEF Row, SameRow
<1> QED
  BY <1>2, <1>3

LEMMA CascadeKeepsRow ==
  ASSUME Typed, NEW D, Cascade(D), NEW j \in Jobs, job[j].state # "none"
  PROVE  SameRow(j)
<1>1. job[j] \in Row
  BY DEF Typed, TypeOK
<1>2. CASE Exists(j) /\ j \in D
  <2>1. job'[j] = [job[j] EXCEPT !.state = "gone"]
    BY <1>2 DEF Cascade
  <2> QED
    BY <1>1, <2>1 DEF Row, SameRow
<1>3. CASE ~(Exists(j) /\ j \in D)
  BY <1>3 DEF Cascade, SameRow
<1> QED
  BY <1>2, <1>3

\* The three writes of a worker keep what the row is about.
LEMMA MarkKeepsRow ==
  ASSUME Typed, NEW w \in Workers, NEW j \in Jobs, job[j].state # "none",
         MarkJobDropped(w) \/ MarkJobSucceeded(w) \/ MarkJobFailed(w)
  PROVE  SameRow(j)
<1> DEFINE c == Head1(w)
           r == job[c.job]
<1>1. phase[w] \in Working
  BY DEF MarkJobDropped, MarkJobSucceeded, MarkJobFailed, Working
<1>2. c \in Claim /\ c.job \in Jobs /\ c.attempts \in Attempts
  BY <1>1, HeadType DEF Typed, Claim
<1>3. r \in Row /\ r.attempts \in Attempts
  BY <1>2 DEF Typed, TypeOK, Row
<1>4. /\ Bump(r.attempts) \in Attempts /\ Bump(c.attempts) \in Attempts
      /\ Backoff(c.attempts) \in Wait /\ 0 \in Age
  BY <1>2, <1>3, Ranges
<1>5. CASE MarkJobDropped(w)
  <2>1. [r EXCEPT !.state = "dropped", !.age = 0] \in Row
    BY <1>3, <1>4 DEF Row, RowState
  <2> QED
    BY <1>2, <1>3, <1>5, <2>1, UpdateKeepsRow DEF MarkJobDropped, Row
<1>6. CASE MarkJobSucceeded(w)
  <2>1. [r EXCEPT !.state = "succeeded", !.attempts = Bump(@), !.age = 0] \in Row
    BY <1>3, <1>4 DEF Row, RowState
  <2> QED
    BY <1>2, <1>3, <1>6, <2>1, UpdateKeepsRow DEF MarkJobSucceeded, Row
<1>7. CASE MarkJobFailed(w)
  <2> DEFINE row ==
        IF GiveUp(c)
          THEN [r EXCEPT !.state = "failed", !.attempts = Bump(c.attempts), !.age = 0]
          ELSE [r EXCEPT !.state = "pending", !.attempts = Bump(c.attempts),
                         !.wait = Backoff(c.attempts), !.age = 0]
  <2>1. row \in Row
    BY <1>3, <1>4 DEF Row, RowState
  <2>2. /\ row.state # "none" /\ row.inst = r.inst /\ row.chan = r.chan
        /\ row.for = r.for
    BY <1>3 DEF Row
  <2>3. Update(c.job, row)
    BY <1>7 DEF MarkJobFailed
  <2> HIDE DEF row
  <2> QED
    BY <1>2, <2>1, <2>2, <2>3, UpdateKeepsRow
<1> QED
  BY <1>5, <1>6, <1>7

LEMMA RowIdentity ==
  ASSUME Typed, [Next]_vars, NEW j \in Jobs, job[j].state # "none"
  PROVE  SameRow(j)
<1>1. job[j] \in Row
  BY DEF Typed, TypeOK
<1>2. CASE UNCHANGED job
  BY <1>2 DEF SameRow
<1>3. ASSUME NEW i \in Instances, DeleteRule(i) PROVE SameRow(j)
  BY <1>3, CascadeKeepsRow DEF DeleteRule
<1>4. ASSUME NEW c \in Channels, DeleteChannel(c) PROVE SameRow(j)
  BY <1>4, CascadeKeepsRow DEF DeleteChannel
<1>5. ASSUME NEW k \in Jobs, NEW i \in Instances, NEW c \in Channels,
             EnqueueJob(k, i, c)
      PROVE  SameRow(j)
  <2>1. j # k
    BY <1>5 DEF EnqueueJob
  <2> QED
    BY <1>5, <2>1 DEF EnqueueJob, SameRow, Typed, TypeOK
<1>6. ASSUME NEW k \in Jobs, RetryJob(k) PROVE SameRow(j)
  <2>1. job' = [job EXCEPT ![k] = [job[k] EXCEPT !.state = "pending", !.attempts = 0,
                                     !.wait = 0, !.left = Window, !.age = 0]]
    BY <1>6 DEF RetryJob, Typed, TypeOK
  <2>2. CASE j = k
    BY <1>1, <2>1, <2>2 DEF Row, SameRow, Typed, TypeOK
  <2>3. CASE j # k
    BY <2>1, <2>3 DEF SameRow, Typed, TypeOK
  <2> QED
    BY <2>2, <2>3
<1>7. ASSUME NEW w \in Workers, ClaimDueJobs(w) PROVE SameRow(j)
  <2>1. PICK s \in Picks :
          job' = [x \in Jobs |->
                    IF \E k \in 1 .. BatchSize : s[k] = x
                      THEN [job[x] EXCEPT !.state = "running", !.age = 0]
                      ELSE job[x]]
    BY <1>7 DEF ClaimDueJobs
  <2>2. job'[j] \in {job[j], [job[j] EXCEPT !.state = "running", !.age = 0]}
    BY <2>1
  <2> QED
    BY <1>1, <2>2 DEF Row, SameRow
<1>8. CASE ReclaimStuckJobs
  BY <1>8, SweepKeepsRow DEF ReclaimStuckJobs
<1>9. ASSUME NEW w \in Workers, Restart(w) PROVE SameRow(j)
  BY <1>9, SweepKeepsRow DEF Restart
<1>10. CASE Tick
  <2>1. CASE ~Exists(j)
    BY <1>10, <2>1 DEF Tick, SameRow
  <2>2. CASE Exists(j)
    <3>1. job'[j] = [job[j] EXCEPT
                 !.wait = IF job[j].state = "pending" THEN Sooner(@) ELSE @,
                 !.left = Countdown(@),
                 !.age  = IF job[j].state = "running" THEN Older(@) ELSE @]
      BY <1>10, <2>2 DEF Tick
    <3> QED
      BY <1>1, <3>1 DEF Row, SameRow
  <2> QED
    BY <2>1, <2>2
<1>11. ASSUME NEW w \in Workers, Step(w) PROVE SameRow(j)
  BY <1>2, <1>11, MarkKeepsRow DEF Step, Deliver, PoisonedDelivery
<1>12. ASSUME NEW w \in Workers, MarkFails(w) \/ Crash(w) PROVE SameRow(j)
  BY <1>2, <1>12 DEF MarkFails, Crash
<1>13. ASSUME NEW i \in Instances, OpenInstance(i) \/ ResolveInstance(i)
       PROVE  SameRow(j)
  BY <1>2, <1>13 DEF OpenInstance, ResolveInstance
<1>14. CASE UNCHANGED vars
  BY <1>2, <1>14 DEF vars
<1> QED
  BY <1>3, <1>4, <1>5, <1>6, <1>7, <1>8, <1>9, <1>10, <1>11, <1>12, <1>13, <1>14
  DEF Next

\* A row comes to be only by an INSERT.
LEMMA RowUnborn ==
  ASSUME Typed, [Next]_vars, NEW j \in Jobs, job[j].state = "none",
         ~ \E k \in Jobs, i \in Instances, c \in Channels : EnqueueJob(k, i, c)
  PROVE  job'[j] = job[j]
<1>1. CASE UNCHANGED job
  BY <1>1
<1>2. CASE job' = Swept
  BY <1>2 DEF Swept, Stuck
<1>3. ASSUME NEW D, Cascade(D) PROVE job'[j] = job[j]
  BY <1>3 DEF Cascade, Exists
<1>4. ASSUME NEW k, NEW row, Update(k, row) PROVE job'[j] = job[j]
  BY <1>4 DEF Update, Exists, Typed, TypeOK
<1>5. ASSUME NEW k \in Jobs, RetryJob(k) PROVE job'[j] = job[j]
  BY <1>5 DEF RetryJob, GivenUp, Typed, TypeOK
<1>6. ASSUME NEW w \in Workers, ClaimDueJobs(w) PROVE job'[j] = job[j]
  BY <1>6 DEF ClaimDueJobs, Picks, Due
<1>7. CASE Tick
  BY <1>7 DEF Tick, Exists
<1>8. ASSUME NEW w \in Workers, Step(w) PROVE job'[j] = job[j]
  BY <1>1, <1>4, <1>8
  DEF Step, MarkJobDropped, MarkJobSucceeded, MarkJobFailed, Deliver, PoisonedDelivery
<1>9. ASSUME NEW w \in Workers, MarkFails(w) \/ Crash(w) \/ Restart(w)
      PROVE  job'[j] = job[j]
  BY <1>1, <1>2, <1>9 DEF MarkFails, Crash, Restart
<1>10. ASSUME NEW i \in Instances, OpenInstance(i) \/ ResolveInstance(i) \/ DeleteRule(i)
       PROVE  job'[j] = job[j]
  BY <1>1, <1>3, <1>10 DEF OpenInstance, ResolveInstance, DeleteRule
<1>11. ASSUME NEW c \in Channels, DeleteChannel(c) PROVE job'[j] = job[j]
  BY <1>3, <1>11 DEF DeleteChannel
<1>12. CASE ReclaimStuckJobs
  BY <1>2, <1>12 DEF ReclaimStuckJobs
<1> QED
  BY <1>1, <1>5, <1>6, <1>7, <1>8, <1>9, <1>10, <1>11, <1>12 DEF Next, vars

\* An alert that is over stays over, deleted or not.
Over == {"resolved", "gone"}

LEMMA OverStays ==
  ASSUME Typed, [Next]_vars, NEW i \in Instances, inst[i] \in Over
  PROVE  inst'[i] \in Over
<1>1. CASE UNCHANGED inst
  BY <1>1
<1>2. ASSUME NEW k \in Instances,
             OpenInstance(k) \/ ResolveInstance(k) \/ DeleteRule(k)
      PROVE  inst'[i] \in Over
  BY <1>2 DEF OpenInstance, ResolveInstance, DeleteRule, Typed, TypeOK, Over
<1> QED
  BY <1>1, <1>2
  DEF Next, Step, vars, EnqueueJob, RetryJob, DeleteChannel, ClaimDueJobs,
      MarkJobDropped, Deliver, MarkJobSucceeded, MarkJobFailed, MarkFails,
      ReclaimStuckJobs, Crash, PoisonedDelivery, Restart, Tick

\* What a copy says besides the time left.
SameClaim(c, d) == c.job = d.job /\ c.state = d.state /\ c.instState = d.instState

\* What a worker holds after a step it held before, or has just claimed.
LEMMA BatchComesFrom ==
  ASSUME Typed, [Next]_vars, NEW w \in Workers, ~ClaimDueJobs(w),
         NEW k \in 1 .. Len(batch'[w])
  PROVE  \E l \in 1 .. Len(batch[w]) : SameClaim(batch'[w][k], batch[w][l])
<1> DEFINE Goal == \E l \in 1 .. Len(batch[w]) : SameClaim(batch'[w][k], batch[w][l])
<1>1. batch[w] \in Seq(Claim) /\ batch \in [Workers -> Seq(Claim)]
  BY DEF Typed, TypeOK
<1>2. CASE batch'[w] = batch[w]
  BY <1>2 DEF SameClaim
<1>3. ASSUME NEW v \in Workers, ClaimDueJobs(v) PROVE Goal
  <2>1. v # w
    BY <1>3
  <2>2. batch'[w] = batch[w]
    BY <1>1, <1>3, <2>1 DEF ClaimDueJobs
  <2> QED
    BY <1>2, <2>2
<1>4. ASSUME NEW v \in Workers, NextInBatch(v), phase[v] \in Working PROVE Goal
  <2>1. CASE v # w
    BY <1>1, <1>2, <1>4, <2>1 DEF NextInBatch
  <2>2. CASE v = w
    <3>1. batch'[w] = Tail(batch[w]) /\ Len(batch[w]) # 0
      BY <1>1, <1>4, <2>2 DEF NextInBatch, Typed, TypeOK
    <3>2. k + 1 \in 1 .. Len(batch[w]) /\ batch'[w][k] = batch[w][k + 1]
      BY <1>1, <3>1, TailPlaces
    <3> QED
      BY <3>2 DEF SameClaim
  <2> QED
    BY <2>1, <2>2
<1>5. ASSUME NEW v \in Workers, Stop(v) PROVE Goal
  <2>1. CASE v # w
    BY <1>1, <1>2, <1>5, <2>1 DEF Stop
  <2>2. CASE v = w
    <3>1. batch'[w] = << >>
      BY <1>1, <1>5, <2>2 DEF Stop
    <3>2. FALSE
      BY <3>1
    <3> QED
      BY <3>2
  <2> QED
    BY <2>1, <2>2
<1>6. CASE Tick
  <2>1. batch'[w] = [l \in 1 .. Len(batch[w]) |->
                       [batch[w][l] EXCEPT !.left = Countdown(@)]]
        /\ Len(batch'[w]) = Len(batch[w])
    BY <1>6, TickBatch DEF Tick, Typed
  <2>2. batch'[w][k] = [batch[w][k] EXCEPT !.left = Countdown(@)]
        /\ batch[w][k] \in Claim /\ k \in 1 .. Len(batch[w])
    BY <1>1, <2>1
  <2> QED
    BY <2>2 DEF SameClaim, Claim
<1>7. CASE UNCHANGED batch
  BY <1>2, <1>7
<1>8. ASSUME NEW v \in Workers, Step(v) \/ MarkFails(v) \/ Crash(v) PROVE Goal
  <2>1. CASE MarkJobDropped(v) \/ MarkJobSucceeded(v) \/ MarkJobFailed(v) \/ MarkFails(v)
    BY <1>4, <2>1 DEF MarkJobDropped, MarkJobSucceeded, MarkJobFailed, MarkFails, Working
  <2>2. CASE PoisonedDelivery(v) \/ Crash(v)
    BY <1>5, <2>2 DEF PoisonedDelivery, Crash
  <2>3. CASE Deliver(v)
    BY <1>7, <2>3 DEF Deliver
  <2> QED
    BY <1>8, <2>1, <2>2, <2>3 DEF Step
<1> QED
  BY <1>3, <1>6, <1>7, <1>8
  DEF Next, vars, workerVars, OpenInstance, ResolveInstance, DeleteRule,
      EnqueueJob, RetryJob, DeleteChannel, ReclaimStuckJobs, Restart

\* What a worker claims is a due row, copied with the state of its alert.
LEMMA ClaimComesFrom ==
  ASSUME Typed, NEW w \in Workers, ClaimDueJobs(w), NEW k \in 1 .. Len(batch'[w])
  PROVE  \E j \in Jobs : /\ job[j].state = "pending"
                         /\ batch'[w][k] = ClaimOf(j)
<1>1. PICK s \in Picks :
        batch' = [batch EXCEPT ![w] = [l \in 1 .. BatchSize |-> ClaimOf(s[l])]]
  BY DEF ClaimDueJobs
<1>2. BatchSize \in 1 .. BatchLimit /\ BatchSize \in Nat
  <2>1. BatchSize \in 1 .. BatchLimit
    BY BatchSizeType DEF ClaimDueJobs
  <2> QED
    BY <2>1, SizesAssumption
<1>3. batch'[w] = [l \in 1 .. BatchSize |-> ClaimOf(s[l])]
  BY <1>1 DEF Typed, TypeOK
<1>4. Len(batch'[w]) = BatchSize
  BY <1>2, <1>3
<1>5. s[k] \in Jobs /\ job[s[k]].state = "pending" /\ batch'[w][k] = ClaimOf(s[k])
  BY <1>3, <1>4 DEF Picks, Due
<1> QED
  BY <1>5

\* A row that announces the end is about an alert that is over.
RowsTrue == \A j \in Jobs : job[j].for = "resolved" => inst[job[j].inst] \in Over

\* So is a copy that saw the end, and a copy that announces it has seen it.
CopyTrue(c) ==
  LET r == job[c.job] IN
  /\ r.state # "none"
  /\ c.state = r.for
  /\ c.instState = "resolved" => inst[r.inst] \in Over
  /\ c.state = "resolved" => c.instState = "resolved"

CopiesTrue == \A w \in Workers : \A k \in 1 .. Len(batch[w]) : CopyTrue(batch[w][k])

\* The copies a batch holds of one alert's jobs agree: they were read together.
About(w, k) == job[batch[w][k].job].inst

OneView ==
  \A w \in Workers : \A k, l \in 1 .. Len(batch[w]) :
    About(w, k) = About(w, l) => batch[w][k].instState = batch[w][l].instState

\* Every page still held for a channel that heard the all-clear is known stale.
HeardTrue ==
  \A i \in Instances, c \in Channels : lastHeard[i][c] = "resolved" =>
    /\ inst[i] \in Over
    /\ \A w \in Workers : \A k \in 1 .. Len(batch[w]) :
         About(w, k) = i => batch[w][k].instState = "resolved"

AllClearInv == Typed /\ RowsTrue /\ CopiesTrue /\ OneView /\ HeardTrue

LEMMA RowsTrueStep ==
  ASSUME Typed, RowsTrue, [Next]_vars
  PROVE  RowsTrue'
<1> SUFFICES ASSUME NEW j \in Jobs, job'[j].for = "resolved"
             PROVE  inst'[job'[j].inst] \in Over
  BY DEF RowsTrue
<1>1. job[j] \in Row /\ job[j].inst \in Instances
  BY DEF Typed, TypeOK, Row
<1>2. CASE job'[j].for = job[j].for /\ job'[j].inst = job[j].inst
  BY <1>1, <1>2, OverStays DEF RowsTrue
<1>3. CASE job[j].state # "none"
  BY <1>2, <1>3, RowIdentity DEF SameRow
<1>4. CASE job[j].state = "none"
  <2>1. ASSUME NEW k \in Jobs, NEW i \in Instances, NEW c \in Channels,
               EnqueueJob(k, i, c)
        PROVE  inst'[job'[j].inst] \in Over
    <3>1. CASE j # k
      BY <1>2, <2>1, <3>1 DEF EnqueueJob, Typed, TypeOK
    <3>2. CASE j = k
      BY <2>1, <3>2 DEF EnqueueJob, Typed, TypeOK, Over
    <3> QED
      BY <3>1, <3>2
  <2>2. CASE ~ \E k \in Jobs, i \in Instances, c \in Channels : EnqueueJob(k, i, c)
    <3>1. job'[j] = job[j]
      BY <1>4, <2>2, RowUnborn
    <3> QED
      BY <1>2, <3>1
  <2> QED
    BY <2>1, <2>2
<1> QED
  BY <1>3, <1>4

\* A copy that a worker keeps stays true.
LEMMA CopiesTrueStep ==
  ASSUME Typed, Typed', RowsTrue, CopiesTrue, [Next]_vars
  PROVE  CopiesTrue'
<1> SUFFICES ASSUME NEW w \in Workers, NEW k \in 1 .. Len(batch'[w])
             PROVE  CopyTrue(batch[w][k])'
  BY DEF CopiesTrue
<1>1. CASE ClaimDueJobs(w)
  <2>1. PICK j \in Jobs : job[j].state = "pending" /\ batch'[w][k] = ClaimOf(j)
    BY <1>1, ClaimComesFrom
  <2>2. SameRow(j)
    BY <2>1, RowIdentity
  <2>3. inst' = inst /\ inst[job[j].inst] \in Alert
    BY <1>1, <2>1 DEF ClaimDueJobs, Typed, ForeignKeys, Exists
  <2>4. job[j].for = "resolved" => inst[job[j].inst] = "resolved"
    BY <2>3 DEF RowsTrue, Over, Alert
  <2> QED
    BY <2>1, <2>2, <2>3, <2>4 DEF CopyTrue, ClaimOf, SameRow, Over
<1>2. CASE ~ClaimDueJobs(w)
  <2>1. PICK l \in 1 .. Len(batch[w]) : SameClaim(batch'[w][k], batch[w][l])
    BY <1>2, BatchComesFrom
  <2> DEFINE c == batch[w][l]
  <2>2. c.job \in Jobs /\ CopyTrue(c)
    BY HeldJobs DEF CopiesTrue
  <2>3. SameRow(c.job)
    BY <2>2, RowIdentity DEF CopyTrue
  <2>4. job[c.job].inst \in Instances
    BY <2>2 DEF Typed, TypeOK, Row
  <2> QED
    BY <2>1, <2>2, <2>3, <2>4, OverStays DEF CopyTrue, SameClaim, SameRow
<1> QED
  BY <1>1, <1>2

\* A batch is claimed in one transaction, and then only shrinks.
LEMMA OneViewStep ==
  ASSUME Typed, CopiesTrue, OneView, [Next]_vars
  PROVE  OneView'
<1> SUFFICES ASSUME NEW w \in Workers, NEW k \in 1 .. Len(batch'[w]),
                    NEW l \in 1 .. Len(batch'[w]), About(w, k)' = About(w, l)'
             PROVE  batch'[w][k].instState = batch'[w][l].instState
  BY DEF OneView
<1>1. CASE ClaimDueJobs(w)
  <2>1. PICK i \in Jobs : job[i].state = "pending" /\ batch'[w][k] = ClaimOf(i)
    BY <1>1, ClaimComesFrom
  <2>2. PICK j \in Jobs : job[j].state = "pending" /\ batch'[w][l] = ClaimOf(j)
    BY <1>1, ClaimComesFrom
  <2>3. SameRow(i) /\ SameRow(j)
    BY <2>1, <2>2, RowIdentity
  <2> QED
    BY <2>1, <2>2, <2>3 DEF SameRow, ClaimOf, About
<1>2. CASE ~ClaimDueJobs(w)
  <2>1. PICK m \in 1 .. Len(batch[w]) : SameClaim(batch'[w][k], batch[w][m])
    BY <1>2, BatchComesFrom
  <2>2. PICK n \in 1 .. Len(batch[w]) : SameClaim(batch'[w][l], batch[w][n])
    BY <1>2, BatchComesFrom
  <2>3. /\ batch[w][m].job \in Jobs /\ CopyTrue(batch[w][m])
        /\ batch[w][n].job \in Jobs /\ CopyTrue(batch[w][n])
    BY HeldJobs DEF CopiesTrue
  <2>4. SameRow(batch[w][m].job) /\ SameRow(batch[w][n].job)
    BY <2>3, RowIdentity DEF CopyTrue
  <2>5. About(w, m) = About(w, n)
    BY <2>1, <2>2, <2>4 DEF About, SameRow, SameClaim
  <2> QED
    BY <2>1, <2>2, <2>5 DEF OneView, SameClaim
<1> QED
  BY <1>1, <1>2

\* Who is told what changes only at a delivery, by the head of a batch that
\* is not known stale.
LEMMA HeardChanges ==
  ASSUME Typed, [Next]_vars, NEW i \in Instances, NEW c \in Channels,
         lastHeard'[i][c] # lastHeard[i][c]
  PROVE  \E w \in Workers :
           /\ Deliver(w)
           /\ About(w, 1) = i /\ job[Head1(w).job].chan = c
           /\ lastHeard'[i][c] = Head1(w).state
<1>1. PICK w \in Workers : Deliver(w)
  BY DEF Next, Step, vars, OpenInstance, ResolveInstance, DeleteRule, EnqueueJob,
         RetryJob, DeleteChannel, ClaimDueJobs, MarkJobDropped, MarkJobSucceeded,
         MarkJobFailed, PoisonedDelivery, MarkFails, Crash, Restart,
         ReclaimStuckJobs, Tick
<1> DEFINE r == job[Head1(w).job]
<1>2. lastHeard' = [lastHeard EXCEPT ![r.inst][r.chan] = Head1(w).state]
  BY <1>1 DEF Deliver
<1>3. lastHeard \in [Instances -> [Channels -> {"nothing"} \union Alert]]
  BY DEF Typed, TypeOK
<1> HIDE DEF r
<1>4. r.inst = i /\ r.chan = c
  BY <1>2, <1>3
<1>5. lastHeard'[i][c] = Head1(w).state
  BY <1>2, <1>3, <1>4
<1> QED
  BY <1>1, <1>4, <1>5 DEF r, About, Head1

LEMMA HeardTrueStep ==
  ASSUME OneProcess, AllClearInv, [Next]_vars
  PROVE  HeardTrue'
<1> SUFFICES ASSUME NEW i \in Instances, NEW c \in Channels,
                    lastHeard'[i][c] = "resolved"
             PROVE  /\ inst'[i] \in Over
                    /\ \A w \in Workers : \A k \in 1 .. Len(batch'[w]) :
                         About(w, k)' = i => batch'[w][k].instState = "resolved"
  BY DEF HeardTrue
<1>1. /\ inst[i] \in Over
      /\ \A w \in Workers : \A k \in 1 .. Len(batch[w]) :
           About(w, k) = i => batch[w][k].instState = "resolved"
  <2>1. CASE lastHeard[i][c] = "resolved"
    BY <2>1 DEF AllClearInv, HeardTrue
  <2>2. CASE lastHeard'[i][c] # lastHeard[i][c]
    <3>1. PICK w \in Workers : /\ Deliver(w) /\ About(w, 1) = i
                               /\ lastHeard'[i][c] = Head1(w).state
      BY <2>2, HeardChanges DEF AllClearInv
    <3>2. 1 \in 1 .. Len(batch[w])
      BY <3>1 DEF Deliver, Working, AllClearInv, Typed, TypeOK
    <3>3. CopyTrue(batch[w][1]) /\ Head1(w) = batch[w][1]
      BY <3>2 DEF AllClearInv, CopiesTrue, Head1
    <3>4. batch[w][1].instState = "resolved" /\ inst[i] \in Over
      BY <3>1, <3>3 DEF CopyTrue, About
    <3>5. ASSUME NEW v \in Workers, NEW k \in 1 .. Len(batch[v]), About(v, k) = i
          PROVE  batch[v][k].instState = "resolved"
      <4>1. v = w
        BY DEF OneProcess
      <4> QED
        BY <3>1, <3>2, <3>4, <3>5, <4>1 DEF AllClearInv, OneView
    <3> QED
      BY <3>4, <3>5
  <2> QED
    BY <2>1, <2>2
<1>2. inst'[i] \in Over
  BY <1>1, OverStays DEF AllClearInv
<1>3. ASSUME NEW w \in Workers, NEW k \in 1 .. Len(batch'[w]), About(w, k)' = i
      PROVE  batch'[w][k].instState = "resolved"
  <2>1. CASE ClaimDueJobs(w)
    <3>1. PICK j \in Jobs : job[j].state = "pending" /\ batch'[w][k] = ClaimOf(j)
      BY <2>1, ClaimComesFrom DEF AllClearInv
    <3>2. SameRow(j)
      BY <3>1, RowIdentity DEF AllClearInv
    <3>3. job[j].inst = i
      BY <1>3, <3>1, <3>2 DEF About, ClaimOf, SameRow
    <3>4. inst[i] = "resolved"
      BY <1>1, <3>1, <3>3 DEF AllClearInv, Typed, ForeignKeys, Exists, Over, Alert
    <3> QED
      BY <3>1, <3>3, <3>4 DEF ClaimOf
  <2>2. CASE ~ClaimDueJobs(w)
    <3>1. PICK l \in 1 .. Len(batch[w]) : SameClaim(batch'[w][k], batch[w][l])
      BY <2>2, BatchComesFrom DEF AllClearInv
    <3>2. batch[w][l].job \in Jobs /\ CopyTrue(batch[w][l])
      BY HeldJobs DEF AllClearInv, CopiesTrue
    <3>3. SameRow(batch[w][l].job)
      BY <3>2, RowIdentity DEF AllClearInv, CopyTrue
    <3>4. About(w, l) = i
      BY <1>3, <3>1, <3>3 DEF About, SameRow, SameClaim
    <3> QED
      BY <1>1, <3>1, <3>4 DEF SameClaim
  <2> QED
    BY <2>1, <2>2
<1> QED
  BY <1>2, <1>3

\* A channel that was told an alert is over is never told afterwards that it
\* is firing (deliverOnce, staleFiring): for one process, any number of jobs,
\* alerts and channels, and whatever a delivery takes, crashes, sweeps and
\* operator retries included.  (Two processes may hold the page and its
\* all-clear at the same time, and then nothing orders them.)
THEOREM AllClearIsLastHolds == OneProcess => (Spec => AllClearIsLast)
<1> SUFFICES ASSUME OneProcess PROVE Spec => AllClearIsLast
  OBVIOUS
<1> DEFINE Rest == RowsTrue /\ CopiesTrue /\ OneView /\ HeardTrue
<1>1. Init => Rest
  <2> SUFFICES ASSUME Init PROVE Rest
    OBVIOUS
  <2>1. \A w \in Workers : \A k \in 1 .. Len(batch[w]) : FALSE
    BY DEF Init
  <2>2. RowsTrue /\ HeardTrue
    BY DEF Init, RowsTrue, HeardTrue, NoRow
  <2> QED
    BY <2>1, <2>2 DEF CopiesTrue, OneView
<1>2. Typed /\ Typed' /\ Rest /\ [Next]_vars => Rest'
  BY RowsTrueStep, CopiesTrueStep, OneViewStep, HeardTrueStep DEF AllClearInv
<1>3. Typed /\ Rest /\ [Next]_vars =>
        [\A i \in Instances, c \in Channels :
           lastHeard[i][c] = "resolved" => lastHeard'[i][c] = "resolved"]_vars
  <2> SUFFICES ASSUME Typed, Rest, [Next]_vars, NEW i \in Instances, NEW c \in Channels,
                      lastHeard[i][c] = "resolved", lastHeard'[i][c] # "resolved"
               PROVE  FALSE
    OBVIOUS
  <2>1. PICK w \in Workers : /\ Deliver(w) /\ About(w, 1) = i
                             /\ lastHeard'[i][c] = Head1(w).state
    BY HeardChanges
  <2>2. 1 \in 1 .. Len(batch[w]) /\ Head1(w) \in Claim
    BY <2>1, HeadType DEF Deliver, Working, Typed, TypeOK
  <2>3. Head1(w).instState = "resolved"
    BY <2>1, <2>2 DEF HeardTrue, Head1
  <2>4. Head1(w).state = "firing"
    BY <2>1, <2>2 DEF Claim, Alert
  <2> QED
    BY <2>1, <2>3, <2>4 DEF Deliver, StaleFiring
<1> QED
  BY <1>1, <1>2, <1>3, TypeCorrect, PTL DEF Spec, AllClearIsLast

-----------------------------------------------------------------------------
(***************************************************************************)
(* The queue is an outbox: every step is a step of Outbox, or none.        *)
(***************************************************************************)
\* A worker about to record a success has told the receiver something.
OkHeard ==
  \A w \in Workers : phase[w] = "ok" =>
    LET r == job[Head1(w).job] IN lastHeard[r.inst][r.chan] # "nothing"

\* A worker comes to "ok" by a delivery and then stays at the same job.
LEMMA HeadStays ==
  ASSUME Typed, [Next]_vars, NEW w \in Workers, phase'[w] = "ok"
  PROVE  \/ Deliver(w)
         \/ phase[w] = "ok" /\ Head1(w)'.job = Head1(w).job
<1>0. /\ phase \in [Workers -> Phase] /\ batch \in [Workers -> Seq(Claim)]
  BY DEF Typed, TypeOK
<1>1. CASE phase'[w] = phase[w] /\ batch'[w] = batch[w]
  BY <1>1 DEF Head1
<1>2. ASSUME NEW v \in Workers, NextInBatch(v) PROVE phase[w] = "ok" /\ batch'[w] = batch[w]
  BY <1>0, <1>2 DEF NextInBatch
<1>3. ASSUME NEW v \in Workers, Stop(v) PROVE phase[w] = "ok" /\ batch'[w] = batch[w]
  BY <1>0, <1>3 DEF Stop
<1>4. ASSUME NEW v \in Workers, ClaimDueJobs(v)
      PROVE  phase[w] = "ok" /\ batch'[w] = batch[w]
  <2>1. v # w
    BY <1>0, <1>4 DEF ClaimDueJobs
  <2> QED
    BY <1>0, <1>4, <2>1 DEF ClaimDueJobs
<1>5. ASSUME NEW v \in Workers, Deliver(v), v # w
      PROVE  phase[w] = "ok" /\ batch'[w] = batch[w]
  BY <1>0, <1>5 DEF Deliver
<1>6. ASSUME NEW v \in Workers, Restart(v) PROVE phase[w] = "ok" /\ batch'[w] = batch[w]
  BY <1>0, <1>6 DEF Restart
<1>7. ASSUME NEW v \in Workers, Step(v) \/ MarkFails(v) \/ Crash(v)
      PROVE  Deliver(w) \/ (phase[w] = "ok" /\ batch'[w] = batch[w])
  BY <1>2, <1>3, <1>5, <1>7
  DEF Step, MarkJobDropped, MarkJobSucceeded, MarkJobFailed, MarkFails, PoisonedDelivery,
      Crash
<1>8. CASE Tick
  <2>0. phase[w] = "ok"
    BY <1>8 DEF Tick
  <2>1. batch[w] \in Seq(Claim) /\ 1 \in 1 .. Len(batch[w])
    BY <2>0 DEF Working, Typed, TypeOK
  <2>2. batch[w][1] \in Claim
        /\ batch'[w][1] = [batch[w][1] EXCEPT !.left = Countdown(@)]
    <3>1. batch'[w] = [k \in 1 .. Len(batch[w]) |->
                         [batch[w][k] EXCEPT !.left = Countdown(@)]]
      BY <1>8 DEF Tick
    <3> QED
      BY <2>1, <3>1
  <2> QED
    BY <2>0, <2>2 DEF Head1, Claim
<1> QED
  BY <1>1, <1>4, <1>6, <1>7, <1>8
  DEF Next, vars, workerVars, Head1, OpenInstance, ResolveInstance, DeleteRule,
      EnqueueJob, RetryJob, DeleteChannel, ReclaimStuckJobs

LEMMA OkHeardStep ==
  ASSUME Typed, CopiesTrue, OkHeard, [Next]_vars
  PROVE  OkHeard'
<1> SUFFICES ASSUME NEW w \in Workers, phase'[w] = "ok"
             PROVE  LET r == job'[Head1(w)'.job] IN lastHeard'[r.inst][r.chan] # "nothing"
  BY DEF OkHeard
<1> DEFINE c == Head1(w)
           r == job[c.job]
<1>0. lastHeard \in [Instances -> [Channels -> {"nothing"} \union Alert]]
      /\ phase \in [Workers -> Phase]
  BY DEF Typed, TypeOK
<1>1. ASSUME NEW i \in Instances, NEW d \in Channels, lastHeard[i][d] # "nothing"
      PROVE  lastHeard'[i][d] # "nothing"
  <2>1. CASE lastHeard'[i][d] = lastHeard[i][d]
    BY <1>1, <2>1
  <2>2. CASE lastHeard'[i][d] # lastHeard[i][d]
    <3>1. PICK v \in Workers : Deliver(v) /\ lastHeard'[i][d] = Head1(v).state
      BY <2>2, HeardChanges
    <3>2. Head1(v) \in Claim
      BY <3>1, HeadType DEF Deliver, Working, Typed
    <3> QED
      BY <3>1, <3>2 DEF Claim, Alert
  <2> QED
    BY <2>1, <2>2
<1>2. ASSUME phase[w] \in Working
      PROVE  /\ c \in Claim /\ c.job \in Jobs /\ r \in Row
             /\ r.inst \in Instances /\ r.chan \in Channels
             /\ SameRow(c.job)
  <2>1. 1 \in 1 .. Len(batch[w]) /\ c \in Claim
    BY <1>2, HeadType DEF Typed, TypeOK
  <2>2. c.job \in Jobs /\ r.state # "none"
    BY <2>1 DEF Claim, CopiesTrue, CopyTrue, Head1
  <2> QED
    BY <2>1, <2>2, RowIdentity DEF Typed, TypeOK, Row
<1>3. CASE Deliver(w)
  <2>1. lastHeard' = [lastHeard EXCEPT ![r.inst][r.chan] = c.state]
    BY <1>0, <1>3 DEF Deliver
  <2>2. c \in Claim /\ r.inst \in Instances /\ r.chan \in Channels /\ job' = job
        /\ Head1(w)' = c
    BY <1>2, <1>3 DEF Deliver, Working, Head1
  <2>3. c.state # "nothing"
    BY <2>2 DEF Claim, Alert
  <2> HIDE DEF c
  <2>4. lastHeard'[r.inst][r.chan] = c.state
    BY <1>0, <2>1, <2>2
  <2> QED
    BY <2>2, <2>3, <2>4
<1>4. CASE phase[w] = "ok" /\ Head1(w)'.job = c.job
  <2>1. lastHeard[r.inst][r.chan] # "nothing"
    BY <1>4 DEF OkHeard
  <2>2. r.inst \in Instances /\ r.chan \in Channels /\ SameRow(c.job)
    BY <1>2, <1>4 DEF Working
  <2> QED
    BY <1>1, <1>4, <2>1, <2>2 DEF SameRow
<1> QED
  BY <1>3, <1>4, HeadStays

\* What the queue must know to be an outbox.
OutboxInv == ClaimInv /\ RowsTrue /\ CopiesTrue /\ OkHeard

\* Nothing but an INSERT writes an address or a text.
LEMMA EnvelopeStays ==
  ASSUME Typed, [Next]_vars,
         ~ \E k \in Jobs, i \in Instances, c \in Channels : EnqueueJob(k, i, c)
  PROVE  To' = To /\ Text' = Text
<1>1. ASSUME NEW j \in Jobs
      PROVE  /\ job'[j].inst = job[j].inst /\ job'[j].chan = job[j].chan
             /\ job'[j].for = job[j].for
  BY RowIdentity, RowUnborn DEF SameRow
<1> QED
  BY <1>1 DEF To, Text

\* Steps that show nothing from outside.
LEMMA NotSeen ==
  ASSUME UNCHANGED lastHeard, To' = To, Text' = Text,
         \A j \in Jobs : StatusOf(job'[j].state) = StatusOf(job[j].state)
  PROVE  Promise!OutboxNext
<1>1. Status' = Status /\ Heard' = Heard
  BY DEF Status, Heard
<1> QED
  BY <1>1 DEF Promise!OutboxNext, Promise!HandAround, Promise!outboxVars

\* One row changes: the outbox shows its new status.
LEMMA StatusUpdate ==
  ASSUME Typed, NEW j \in Jobs, NEW row, job' = [job EXCEPT ![j] = row]
  PROVE  Status' = [Status EXCEPT ![j] = StatusOf(row.state)]
<1>1. Status' = [k \in Jobs |-> IF k = j THEN StatusOf(row.state)
                                         ELSE StatusOf(job[k].state)]
  BY DEF Status, Typed, TypeOK
<1> QED
  BY <1>1 DEF Status

\* The sweep puts running rows back in the queue.
LEMMA SweepNotSeen ==
  ASSUME Typed, job' = Swept, UNCHANGED lastHeard, To' = To, Text' = Text
  PROVE  Promise!OutboxNext
<1>1. ASSUME NEW j \in Jobs
      PROVE  StatusOf(job'[j].state) = StatusOf(job[j].state)
  <2>1. job[j] \in Row
    BY DEF Typed, TypeOK
  <2>2. CASE ~Stuck(j)
    BY <2>2 DEF Swept
  <2>3. CASE Stuck(j)
    <3>1. job'[j] = [job[j] EXCEPT !.state = "pending", !.attempts = Bump(@),
                                   !.wait = 0, !.age = 0]
      BY <2>3 DEF Swept
    <3>2. job'[j].state = "pending" /\ job[j].state = "running"
      BY <2>1, <2>3, <3>1 DEF Row, Stuck
    <3> QED
      BY <3>2 DEF StatusOf
  <2> QED
    BY <2>2, <2>3
<1> QED
  BY <1>1, NotSeen

\* A foreign key removes rows, and brings none back.
LEMMA CascadeSeen ==
  ASSUME Typed, NEW D, Cascade(D), UNCHANGED lastHeard, To' = To, Text' = Text
  PROVE  Promise!OutboxNext
<1> DEFINE S == {j \in Jobs : Status'[j] = "removed"}
<1>1. ASSUME NEW j \in Jobs
      PROVE  /\ Status[j] = StatusOf(job[j].state) /\ Status'[j] = StatusOf(job'[j].state)
             /\ \/ job'[j] = job[j]
                \/ job'[j].state = "gone" /\ job[j].state # "none"
  <2>1. job[j] \in Row
    BY DEF Typed, TypeOK
  <2>2. CASE Exists(j) /\ j \in D
    <3>1. job'[j] = [job[j] EXCEPT !.state = "gone"]
      BY <2>2 DEF Cascade
    <3> QED
      BY <2>1, <2>2, <3>1 DEF Row, Exists, Status
  <2>3. CASE ~(Exists(j) /\ j \in D)
    BY <2>3 DEF Cascade, Status
  <2> QED
    BY <2>2, <2>3
<1>2. StatusOf("gone") = "removed"
  BY DEF StatusOf, GivenUp
<1>3. \A x \in RowState : (x # "none" <=> StatusOf(x) # "absent")
                          /\ (StatusOf(x) = "removed" <=> x = "gone")
  BY DEF StatusOf, GivenUp, RowState
<1>4. \A j \in Jobs : job[j].state \in RowState
  BY DEF Typed, TypeOK, Row
<1>5. \A j \in S : Status[j] # "absent"
  <2> TAKE j \in S
  <2>1. j \in Jobs /\ StatusOf(job'[j].state) = "removed"
    BY <1>1
  <2> QED
    BY <1>1, <1>3, <1>4, <2>1
<1>6. Status' = [j \in Jobs |-> IF j \in S THEN "removed" ELSE Status[j]]
  <2>1. \A j \in Jobs : Status'[j] = IF j \in S THEN "removed" ELSE Status[j]
    BY <1>1, <1>2
  <2> QED
    BY <2>1 DEF Status
<1>7. Heard' = Heard
  BY DEF Heard
<1>8. Promise!Remove
  BY <1>5, <1>6, <1>7 DEF Promise!Remove
<1> QED
  BY <1>8 DEF Promise!OutboxNext

\* An INSERT submits a notification.
LEMMA EnqueueSeen ==
  ASSUME Typed, NEW j \in Jobs, NEW i \in Instances, NEW c \in Channels,
         EnqueueJob(j, i, c)
  PROVE  Promise!OutboxNext
<1> DEFINE row == [state |-> "pending", inst |-> i, chan |-> c, for |-> inst[i],
                   attempts |-> 0, wait |-> 0, left |-> Window, age |-> 0]
<1>1. job' = [job EXCEPT ![j] = row] /\ job \in [Jobs -> Row]
  BY DEF EnqueueJob, Typed, TypeOK
<1>2. row.state = "pending" /\ row.inst = i /\ row.chan = c /\ row.for = inst[i]
  OBVIOUS
<1> HIDE DEF row
<1>3. Status' = [Status EXCEPT ![j] = "open"]
  BY <1>1, <1>2, StatusUpdate DEF StatusOf, GivenUp
<1>4. To' = [To EXCEPT ![j] = <<i, c>>]
  <2>1. To' = [k \in Jobs |-> IF k = j THEN <<i, c>> ELSE <<job[k].inst, job[k].chan>>]
    BY <1>1, <1>2 DEF To
  <2> QED
    BY <2>1 DEF To
<1>5. Text' = [Text EXCEPT ![j] = inst[i]]
  <2>1. Text' = [k \in Jobs |-> IF k = j THEN inst[i] ELSE job[k].for]
    BY <1>1, <1>2 DEF Text
  <2> QED
    BY <2>1 DEF Text
<1>6. Status[j] = "absent" /\ Heard' = Heard /\ inst[i] \in Alert
  BY DEF EnqueueJob, Status, StatusOf, GivenUp, Heard
<1>7. Promise!Submit(j, <<i, c>>, inst[i])
  BY <1>3, <1>4, <1>5, <1>6 DEF Promise!Submit
<1>8. <<i, c>> \in Instances \X Channels
  OBVIOUS
<1> QED
  BY <1>6, <1>7, <1>8 DEF Promise!OutboxNext

\* One row changes and nothing else is seen: what becomes of its status.
LEMMA OneRowSeen ==
  ASSUME Typed, NEW j \in Jobs, NEW row, job' = [job EXCEPT ![j] = row],
         UNCHANGED lastHeard, To' = To, Text' = Text,
         \/ /\ job[j].state \in {"pending", "running"}
            /\ row.state \in {"pending", "running", "failed", "dropped"}
         \/ job[j].state \in GivenUp /\ row.state = "pending"
         \/ /\ job[j].state \in {"pending", "running"} /\ row.state = "succeeded"
            /\ lastHeard[job[j].inst][job[j].chan] # "nothing"
  PROVE  Promise!OutboxNext
<1>1. Status' = [Status EXCEPT ![j] = StatusOf(row.state)]
  BY StatusUpdate
<1>2. Heard' = Heard /\ Status[j] = StatusOf(job[j].state)
      /\ Status \in [Jobs -> {Status[k] : k \in Jobs}]
  BY DEF Heard, Status
<1>3. /\ StatusOf("pending") = "open" /\ StatusOf("running") = "open"
      /\ StatusOf("succeeded") = "delivered"
      /\ StatusOf("failed") = "abandoned" /\ StatusOf("dropped") = "abandoned"
  BY DEF StatusOf, GivenUp
<1>4. CASE /\ job[j].state \in {"pending", "running"}
           /\ row.state \in {"pending", "running"}
  <2>1. Status' = [Status EXCEPT ![j] = Status[j]]
    BY <1>1, <1>2, <1>3, <1>4
  <2>2. Status' = Status
    BY <1>2, <2>1
  <2> QED
    BY <1>2, <2>2 DEF Promise!OutboxNext, Promise!HandAround, Promise!outboxVars
<1>5. CASE /\ job[j].state \in {"pending", "running"}
           /\ row.state \in {"failed", "dropped"}
  <2>1. Promise!GiveUp(j)
    BY <1>1, <1>2, <1>3, <1>5 DEF Promise!GiveUp, Promise!Become
  <2> QED
    BY <2>1 DEF Promise!OutboxNext
<1>6. CASE job[j].state \in GivenUp /\ row.state = "pending"
  <2>1. Promise!Reopen(j)
    BY <1>1, <1>2, <1>3, <1>6 DEF Promise!Reopen, Promise!Become, GivenUp
  <2> QED
    BY <2>1 DEF Promise!OutboxNext
<1>7. CASE /\ job[j].state \in {"pending", "running"} /\ row.state = "succeeded"
           /\ lastHeard[job[j].inst][job[j].chan] # "nothing"
  <2>1. job[j].inst \in Instances /\ job[j].chan \in Channels
    BY DEF Typed, TypeOK, Row
  <2>2. Heard[To[j]] = lastHeard[job[j].inst][job[j].chan]
    BY <2>1 DEF Heard, To
  <2>3. Promise!Deliver(j)
    BY <1>1, <1>2, <1>3, <1>7, <2>2 DEF Promise!Deliver, Promise!Become
  <2> QED
    BY <2>3 DEF Promise!OutboxNext
<1> QED
  BY <1>4, <1>5, <1>6, <1>7

\* The writes of a worker: its row is open, or was removed and stays so.
LEMMA MarkSeen ==
  ASSUME OutboxInv, NEW w \in Workers, To' = To, Text' = Text,
         MarkJobDropped(w) \/ MarkJobSucceeded(w) \/ MarkJobFailed(w)
  PROVE  Promise!OutboxNext
<1> DEFINE c == Head1(w)
           r == job[c.job]
<1>0. Typed /\ ClaimInv /\ OkHeard
  BY DEF OutboxInv, ClaimInv
<1>1. phase[w] \in Working /\ UNCHANGED lastHeard
  BY DEF MarkJobDropped, MarkJobSucceeded, MarkJobFailed, Working
<1>2. c \in Claim /\ r \in Row /\ (Exists(c.job) => r.state \in {"running", "pending"})
  BY <1>0, <1>1, HeadCurrent
<1>3. c.job \in Jobs
  BY <1>2 DEF Claim
<1>4. CASE job' = job
  BY <1>1, <1>4, NotSeen
<1>5. ASSUME NEW row, Update(c.job, row),
             \/ row.state \in {"pending", "failed", "dropped"}
             \/ /\ row.state = "succeeded"
                /\ lastHeard[r.inst][r.chan] # "nothing"
      PROVE  Promise!OutboxNext
  <2>1. CASE Exists(c.job)
    <3>1. job' = [job EXCEPT ![c.job] = row]
      BY <1>5, <2>1 DEF Update
    <3> HIDE DEF c
    <3> QED
      BY <1>0, <1>1, <1>2, <1>3, <1>5, <2>1, <3>1, OneRowSeen
  <2>2. CASE ~Exists(c.job)
    BY <1>4, <1>5, <2>2 DEF Update
  <2> QED
    BY <2>1, <2>2
<1>6. CASE MarkJobDropped(w)
  <2>1. [r EXCEPT !.state = "dropped", !.age = 0].state = "dropped"
    BY <1>2 DEF Row
  <2> QED
    BY <1>5, <1>6, <2>1 DEF MarkJobDropped
<1>7. CASE MarkJobSucceeded(w)
  <2>1. [r EXCEPT !.state = "succeeded", !.attempts = Bump(@), !.age = 0].state = "succeeded"
    BY <1>2 DEF Row
  <2>2. lastHeard[r.inst][r.chan] # "nothing"
    BY <1>0, <1>7 DEF MarkJobSucceeded, OkHeard
  <2> QED
    BY <1>5, <1>7, <2>1, <2>2 DEF MarkJobSucceeded
<1>8. CASE MarkJobFailed(w)
  <2> DEFINE row ==
        IF GiveUp(c)
          THEN [r EXCEPT !.state = "failed", !.attempts = Bump(c.attempts), !.age = 0]
          ELSE [r EXCEPT !.state = "pending", !.attempts = Bump(c.attempts),
                         !.wait = Backoff(c.attempts), !.age = 0]
  <2>1. row.state \in {"pending", "failed"}
    BY <1>2 DEF Row
  <2>2. Update(c.job, row)
    BY <1>8 DEF MarkJobFailed
  <2> HIDE DEF row
  <2> QED
    BY <1>5, <2>1, <2>2
<1> QED
  BY <1>6, <1>7, <1>8

\* A delivery tells an address the text of an open notification, or of one
\* removed under it, whether or not the attempt then counts as a success.
LEMMA DeliverSeen ==
  ASSUME OutboxInv, NEW w \in Workers, Deliver(w)
  PROVE  Promise!OutboxNext
<1> DEFINE c == Head1(w)
           r == job[c.job]
<1>0. Typed /\ ClaimInv /\ CopiesTrue
  BY DEF OutboxInv, ClaimInv
<1>1. phase[w] \in Working /\ job' = job
  BY DEF Deliver, Working
<1>2. c \in Claim /\ r \in Row /\ (Exists(c.job) => r.state \in {"running", "pending"})
  BY <1>0, <1>1, HeadCurrent
<1>3. 1 \in 1 .. Len(batch[w])
  BY <1>0, <1>1 DEF Typed, TypeOK
<1>4. c.job \in Jobs /\ r.state # "none" /\ c.state = r.for
  BY <1>0, <1>2, <1>3 DEF Claim, CopiesTrue, CopyTrue, Head1
<1>5. r.state \in {"running", "pending", "gone"}
  BY <1>2, <1>4 DEF Exists
<1>6. To' = To /\ Text' = Text /\ Status' = Status
  BY <1>1 DEF To, Text, Status
<1>7. CASE lastHeard' = lastHeard
  BY <1>1, <1>6, <1>7, NotSeen
<1>8. CASE lastHeard' = [lastHeard EXCEPT ![r.inst][r.chan] = c.state]
  <2>1. Status[c.job] \in {"open", "removed"}
    BY <1>4, <1>5 DEF Status, StatusOf, GivenUp
  <2>2. r.inst \in Instances /\ r.chan \in Channels
        /\ lastHeard \in [Instances -> [Channels -> {"nothing"} \union Alert]]
    BY <1>0, <1>2 DEF Row, Typed, TypeOK
  <2>3. To[c.job] = <<r.inst, r.chan>> /\ Text[c.job] = c.state
    BY <1>4 DEF To, Text
  <2> DEFINE i == r.inst
             d == r.chan
             t == c.state
  <2>4. i \in Instances /\ d \in Channels
        /\ lastHeard' = [lastHeard EXCEPT ![i][d] = t]
    BY <1>8, <2>2
  <2>5. Heard' = [Heard EXCEPT ![<<i, d>>] = t]
    <3> HIDE DEF i, d, t, c
    <3>1. ASSUME NEW x \in Instances, NEW y \in Channels
          PROVE  lastHeard'[x][y] = IF x = i /\ y = d THEN t ELSE lastHeard[x][y]
      BY <2>2, <2>4
    <3>2. ASSUME NEW a \in Instances \X Channels
          PROVE  lastHeard'[a[1]][a[2]] = IF a = <<i, d>> THEN t ELSE lastHeard[a[1]][a[2]]
      <4>1. a[1] \in Instances /\ a[2] \in Channels /\ a = <<a[1], a[2]>>
        OBVIOUS
      <4> QED
        BY <3>1, <4>1
    <3>3. Heard' = [a \in Instances \X Channels |->
                      IF a = <<i, d>> THEN t ELSE lastHeard[a[1]][a[2]]]
      BY <3>2 DEF Heard
    <3> QED
      BY <3>3 DEF Heard
  <2>6. Promise!Tell(c.job)
    BY <1>6, <2>1, <2>3, <2>5 DEF Promise!Tell
  <2> QED
    BY <1>4, <2>6 DEF Promise!OutboxNext
<1> QED
  BY <1>7, <1>8 DEF Deliver

\* Claiming a row and the passing of time are not seen from outside.
LEMMA ClaimNotSeen ==
  ASSUME Typed, NEW w \in Workers, ClaimDueJobs(w), To' = To, Text' = Text
  PROVE  Promise!OutboxNext
<1>1. ASSUME NEW j \in Jobs PROVE StatusOf(job'[j].state) = StatusOf(job[j].state)
  <2>0. job[j] \in Row
    BY DEF Typed, TypeOK
  <2>1. PICK s \in Picks :
          job' = [x \in Jobs |->
                    IF \E k \in 1 .. BatchSize : s[k] = x
                      THEN [job[x] EXCEPT !.state = "running", !.age = 0]
                      ELSE job[x]]
    BY DEF ClaimDueJobs
  <2>2. CASE \E k \in 1 .. BatchSize : s[k] = j
    <3>1. job[j].state = "pending"
      BY <2>2 DEF Picks, Due
    <3>2. job'[j].state = "running"
      BY <2>0, <2>1, <2>2 DEF Row
    <3> QED
      BY <3>1, <3>2 DEF StatusOf
  <2>3. CASE ~ \E k \in 1 .. BatchSize : s[k] = j
    BY <2>1, <2>3
  <2> QED
    BY <2>2, <2>3
<1> QED
  BY <1>1, NotSeen DEF ClaimDueJobs

LEMMA TickNotSeen ==
  ASSUME Typed, Tick, To' = To, Text' = Text
  PROVE  Promise!OutboxNext
<1>1. ASSUME NEW j \in Jobs PROVE job'[j].state = job[j].state
  <2>1. job[j] \in Row
    BY DEF Typed, TypeOK
  <2>2. CASE Exists(j)
    <3>1. job'[j] = [job[j] EXCEPT
                 !.wait = IF job[j].state = "pending" THEN Sooner(@) ELSE @,
                 !.left = Countdown(@),
                 !.age  = IF job[j].state = "running" THEN Older(@) ELSE @]
      BY <2>2 DEF Tick
    <3> QED
      BY <2>1, <3>1 DEF Row
  <2>3. CASE ~Exists(j)
    BY <2>3 DEF Tick
  <2> QED
    BY <2>2, <2>3
<1> QED
  BY <1>1, NotSeen DEF Tick

LEMMA RetrySeen ==
  ASSUME Typed, NEW j \in Jobs, RetryJob(j), To' = To, Text' = Text
  PROVE  Promise!OutboxNext
<1> DEFINE row == [job[j] EXCEPT !.state = "pending", !.attempts = 0,
                                 !.wait = 0, !.left = Window, !.age = 0]
<1>1. job' = [job EXCEPT ![j] = row] /\ job[j] \in Row
  BY DEF RetryJob, Typed, TypeOK
<1>2. row.state = "pending"
  BY <1>1 DEF Row
<1> HIDE DEF row
<1> QED
  BY <1>1, <1>2, OneRowSeen DEF RetryJob

LEMMA OutboxStep ==
  ASSUME OutboxInv, [Next]_vars
  PROVE  [Promise!OutboxNext]_Promise!outboxVars
<1>0. Typed
  BY DEF OutboxInv, ClaimInv
<1>1. ASSUME NEW j \in Jobs, NEW i \in Instances, NEW c \in Channels, EnqueueJob(j, i, c)
      PROVE  Promise!OutboxNext
  BY <1>0, <1>1, EnqueueSeen
<1>2. CASE ~ \E j \in Jobs, i \in Instances, c \in Channels : EnqueueJob(j, i, c)
  <2>0. To' = To /\ Text' = Text
    BY <1>0, <1>2, EnvelopeStays
  <2>1. ASSUME job' = job, lastHeard' = lastHeard PROVE Promise!OutboxNext
    BY <2>0, <2>1, NotSeen
  <2>2. ASSUME NEW i \in Instances, DeleteRule(i) PROVE Promise!OutboxNext
    BY <1>0, <2>0, <2>2, CascadeSeen DEF DeleteRule
  <2>3. ASSUME NEW c \in Channels, DeleteChannel(c) PROVE Promise!OutboxNext
    BY <1>0, <2>0, <2>3, CascadeSeen DEF DeleteChannel
  <2>4. ASSUME NEW w \in Workers, Step(w) PROVE Promise!OutboxNext
    <3>1. CASE MarkJobDropped(w) \/ MarkJobSucceeded(w) \/ MarkJobFailed(w)
      BY <2>0, <3>1, MarkSeen
    <3>2. CASE Deliver(w)
      BY <3>2, DeliverSeen
    <3>3. CASE PoisonedDelivery(w)
      BY <2>1, <3>3 DEF PoisonedDelivery
    <3> QED
      BY <2>4, <3>1, <3>2, <3>3 DEF Step
  <2>5. ASSUME NEW w \in Workers, Restart(w) PROVE Promise!OutboxNext
    BY <1>0, <2>0, <2>5, SweepNotSeen DEF Restart
  <2>6. CASE ReclaimStuckJobs
    BY <1>0, <2>0, <2>6, SweepNotSeen DEF ReclaimStuckJobs
  <2>7. ASSUME NEW w \in Workers, ClaimDueJobs(w) PROVE Promise!OutboxNext
    BY <1>0, <2>0, <2>7, ClaimNotSeen
  <2>8. ASSUME NEW j \in Jobs, RetryJob(j) PROVE Promise!OutboxNext
    BY <1>0, <2>0, <2>8, RetrySeen
  <2>9. CASE Tick
    BY <1>0, <2>0, <2>9, TickNotSeen
  <2>10. ASSUME NEW i \in Instances, OpenInstance(i) \/ ResolveInstance(i)
         PROVE  Promise!OutboxNext
    BY <2>1, <2>10 DEF OpenInstance, ResolveInstance
  <2>11. ASSUME NEW w \in Workers, MarkFails(w) \/ Crash(w) PROVE Promise!OutboxNext
    BY <2>1, <2>11 DEF MarkFails, Crash
  <2>12. CASE UNCHANGED vars
    BY <2>1, <2>12 DEF vars
  <2> QED
    BY <1>2, <2>2, <2>3, <2>4, <2>5, <2>6, <2>7, <2>8, <2>9, <2>10, <2>11, <2>12
    DEF Next
<1> QED
  BY <1>1, <1>2

\* The queue implements Outbox, whatever crashes, sweeps, failed writes,
\* retries and deletions happen, in both deployments: a whole batch fits into
\* stuckAfter, or one process drains the queue.  ClaimInv says that the row a
\* worker writes by id is still open, CopiesTrue that what it sends is the
\* row's own text, OkHeard that a success it records was one.
THEOREM QueueImplementsOutbox == Deployed => (Spec => ImplementsOutbox)
<1> SUFFICES ASSUME Deployed PROVE Spec => ImplementsOutbox
  OBVIOUS
<1> DEFINE Rest == RowsTrue /\ CopiesTrue /\ OkHeard
<1>1. Init => Rest /\ Promise!OutboxInit
  <2> SUFFICES ASSUME Init PROVE Rest /\ Promise!OutboxInit
    OBVIOUS
  <2>1. RowsTrue /\ CopiesTrue /\ OkHeard
    BY DEF Init, RowsTrue, CopiesTrue, OkHeard, NoRow
  <2>2. \A j \in Jobs : /\ job[j].state = "none" /\ job[j].inst \in Instances
                        /\ job[j].chan \in Channels /\ job[j].for \in Alert
    BY TablesAssumption DEF Init, NoRow, Alert
  <2>3. Status = [j \in Jobs |-> "absent"]
    BY <2>2 DEF Status, StatusOf, GivenUp
  <2>4. To \in [Jobs -> Instances \X Channels] /\ Text \in [Jobs -> Alert]
    BY <2>2 DEF To, Text
  <2>5. Heard = [a \in Instances \X Channels |-> "nothing"]
    BY DEF Init, Heard
  <2> QED
    BY <2>1, <2>3, <2>4, <2>5 DEF Promise!OutboxInit
<1>2. ClaimInv /\ ClaimInv' /\ Rest /\ [Next]_vars => Rest'
  BY RowsTrueStep, CopiesTrueStep, OkHeardStep DEF ClaimInv
<1>3. ClaimInv /\ Rest /\ [Next]_vars => [Promise!OutboxNext]_Promise!outboxVars
  BY OutboxStep DEF OutboxInv
<1> QED
  BY <1>1, <1>2, <1>3, ClaimsHold, PTL DEF Spec, ImplementsOutbox, Promise!OutboxSpec
=============================================================================
