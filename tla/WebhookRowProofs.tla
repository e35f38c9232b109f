--------------------------- MODULE WebhookRowProofs ---------------------------
(* What the row of a delivery tells of its jobs, for any number of events,   *)
(* endpoints, replays and workers.                                           *)
EXTENDS WebhookProofs

USE WebhookAssumption

-----------------------------------------------------------------------------
(* Helpers.                                                                *)

Living == {"waiting"} \cup Working
Open   == {"queue", "lost"}

\* The invariant, for one delivery.
RowInvOf(d) == ReachedOf(d) /\ RowOf(d) /\ PendingOf(d)

\* It holds at the start: no row, no job, no handler at work.
LEMMA RowInit ==
  ASSUME Init
  PROVE  RowInv
<1> SUFFICES ASSUME NEW d \in Delivery
             PROVE  RowInvOf(d)
    BY DEF RowInv, RowInvOf
<1>1. d[1] \in Event /\ d[2] \in Endpoint  BY DEF Delivery
<1>2. trigger[d[1]].step = "idle" /\ delivery[d] = NoRow  BY <1>1 DEF Init
<1>3. \A n \in JobNo : job[d][n] = NoJob  BY DEF Init
<1>4. \A r \in Replay : replay[r].step = "idle"  BY DEF Init
<1>5. ReachedOf(d)  BY <1>2, <1>3, <1>4 DEF ReachedOf, Storing
<1>6. RowOf(d)
      BY <1>2, <1>3, <1>4 DEF RowOf, RowTells, LastJob, Storing, Replaying, NoJob, Working
<1>7. PendingOf(d)  BY <1>2 DEF PendingOf, NoRow
<1> QED BY <1>5, <1>6, <1>7 DEF RowInvOf

\* A delivery keeps it when its jobs stay and its row stays or goes, when nothing
\* begins to queue it, and when what owes it a job still does.
LEMMA RowFrame ==
  ASSUME Typed, Typed', NEW d \in Delivery, RowInvOf(d),
         \A n \in JobNo : job'[d][n] = job[d][n],
         delivery'[d] = delivery[d] \/ delivery'[d] = NoRow,
         d \in overlapped => d \in overlapped',
         Storing(d)' => Storing(d),
         Reached(d) => Reached(d)',
         trigger[d[1]].step \in Open /\ trigger[d[1]].at = d[2]
           => trigger'[d[1]].step \in Open /\ trigger'[d[1]].at = d[2],
         \A r \in Replay : Replaying(r, d)' => Replaying(r, d),
         \A r \in Replay : replay[r].of = d /\ replay[r].step \in Open
           => replay'[r].of = d /\ replay'[r].step \in Open,
         \A r \in Replay : replay'[r].of = d /\ replay'[r].step # "idle" => Reached(d)'
  PROVE  RowInvOf(d)'
<1>l. \A n \in JobNo : LastJob(d, n)' <=> LastJob(d, n)  BY DEF LastJob
<1>j. JobLives(d)' <=> JobLives(d)  BY DEF JobLives
<1>1. ReachedOf(d)'  BY DEF RowInvOf, ReachedOf
<1>2. RowOf(d)'
  <2> SUFFICES ASSUME d \notin overlapped'
               PROVE  /\ \A n \in JobNo : job'[d][n].step \in Living => LastJob(d, n)'
                      /\ Storing(d)' => Fresh(d)' /\ \A n \in JobNo : job'[d][n] = NoJob
                      /\ \A r \in Replay : Replaying(r, d)' =>
                            Fresh(d)' /\ ~Storing(d)' /\ \A q \in Replay : Replaying(q, d)' => q = r
                      /\ \A n \in JobNo : RowTells(d, n)'
      BY DEF RowOf, Living
  <2>r. RowOf(d) /\ d \notin overlapped  BY DEF RowInvOf
  <2>f. Fresh(d) => Fresh(d)'  BY <1>j DEF Fresh, Stored
  <2>1. \A n \in JobNo : job'[d][n].step \in Living => LastJob(d, n)'
        BY <1>l, <2>r DEF RowOf, Living
  <2>2. Storing(d)' => Fresh(d)' /\ \A n \in JobNo : job'[d][n] = NoJob
        BY <2>r, <2>f DEF RowOf
  <2>3. \A r \in Replay : Replaying(r, d)' =>
           Fresh(d)' /\ ~Storing(d)' /\ \A q \in Replay : Replaying(q, d)' => q = r
        BY <2>r, <2>f DEF RowOf
  <2>4. ASSUME NEW n \in JobNo
        PROVE  RowTells(d, n)'
    <3>1. RowTells(d, n)  BY <2>r DEF RowOf
    <3>2. \A r \in Replay : replay[r].step \in {"idle", "reset", "done"} \cup Open
          BY DEF Typed, Replays, Open
    <3>3. (\A r \in Replay : replay'[r].of = d => replay'[r].step \in {"idle", "reset", "done"})
            => (\A r \in Replay : replay[r].of = d => replay[r].step \in {"idle", "reset", "done"})
          BY <3>2 DEF Open
    <3> QED BY <3>1, <3>3, <1>l DEF RowTells, Stored, JobAt, Attempt
  <2> QED BY <2>1, <2>2, <2>3, <2>4
<1>3. PendingOf(d)'
  <2> SUFFICES ASSUME delivery'[d].status = "PENDING", d \notin overlapped', ~JobLives(d)',
                      ~(trigger'[d[1]].step \in Open /\ trigger'[d[1]].at = d[2]),
                      ~\E r \in Replay : replay'[r].of = d /\ replay'[r].step \in Open
               PROVE  \E n \in JobNo : LastJob(d, n)' /\ job'[d][n].step \in {"skipped", "dead"}
      BY DEF PendingOf, Open
  <2>1. delivery[d].status = "PENDING"  BY DEF NoRow
  <2>2. \E n \in JobNo : LastJob(d, n) /\ job[d][n].step \in {"skipped", "dead"}
        BY <1>j, <2>1 DEF RowInvOf, PendingOf, Open
  <2> QED BY <1>l, <2>2
<1> QED BY <1>1, <1>2, <1>3 DEF RowInvOf

-----------------------------------------------------------------------------
(* Jobs: a worker moves one, or the next one is queued.                    *)

\* A job never loses count of its attempts, and only those that live move.
LEMMA WorkCounts ==
  ASSUME JobsTyped, NEW d \in Delivery, NEW n \in JobNo, Work(d, n) \/ Stall(d, n)
  PROVE  job[d][n].step \in Living /\ job'[d][n].made >= job[d][n].made
<1>1. job[d][n] \in Jobs /\ job[d][n].made \in Nat  BY DEF JobsTyped, Jobs
<1>2. job[d][n].step \in Living
      BY DEF Work, TakeJob, Post, WriteSuccess, WriteRefused, WriteFailure, Retry, Stall, JobAt, Living, Working
<1>3. \A s : JobGoto(d, n, s) => job'[d][n].made = job[d][n].made
      BY <1>1 DEF JobGoto, JobsTyped, Jobs
<1>4. CASE TakeJob(d, n) \/ Post(d, n) \/ WriteSuccess(d, n) \/ WriteRefused(d, n) \/ WriteFailure(d, n)
  <2>1. \E s : JobGoto(d, n, s)
        BY <1>4 DEF TakeJob, Post, WriteSuccess, WriteRefused, WriteFailure
  <2> QED BY <1>1, <1>2, <1>3, <2>1
<1>5. CASE Retry(d, n)
  <2>1. job'[d][n].made = job[d][n].made + 1  BY <1>1, <1>5 DEF Retry, Attempt, JobsTyped, Jobs
  <2> QED BY <1>1, <1>2, <2>1
<1>6. CASE Stall(d, n)
  <2>1. job'[d][n].made = job[d][n].made  BY <1>1, <1>6 DEF Stall, JobsTyped, Jobs
  <2> QED BY <1>1, <1>2, <2>1
<1> QED BY <1>4, <1>5, <1>6 DEF Work

\* A delivery keeps the invariant when a worker moves one of its jobs and writes no
\* more than the outcome of the attempt at hand.
LEMMA RowWork ==
  ASSUME Typed, Typed', NEW d \in Delivery, NEW n \in JobNo, RowInvOf(d),
         UNCHANGED <<trigger, replay, overlapped>>,
         job[d][n].step \in Living,
         JobMoves(d, n, Living \cup Ended),
         job'[d][n].made >= job[d][n].made,
         job'[d][n].step = "done" => delivery'[d].status = "SUCCESS",
         \/ delivery'[d] = delivery[d]
         \/ Stored(d) /\ delivery'[d].status # "PENDING" /\ delivery'[d].attempt = Attempt(d, n)
  PROVE  RowInvOf(d)'
<1>n. job[d][n] # NoJob /\ job'[d][n] # NoJob  BY DEF NoJob, Living, Working, JobMoves
<1>o. \A m \in JobNo : m # n => job'[d][m] = job[d][m]  BY DEF JobMoves
<1>j. \A m \in JobNo : job'[d][m] # NoJob <=> job[d][m] # NoJob  BY <1>n, <1>o
<1>l. \A m \in JobNo : LastJob(d, m)' <=> LastJob(d, m)  BY <1>j DEF LastJob
<1>k. JobNo \subseteq Nat  BY FirstJob
<1>t. /\ \A m \in JobNo : job[d][m].made \in Nat /\ job'[d][m].made \in Nat
      /\ delivery[d].attempt \in Nat /\ delivery'[d].attempt \in Nat
      BY DEF Typed, JobsTyped, Jobs, Rows, NoRow
<1>1. ReachedOf(d)'
      BY <1>j DEF RowInvOf, ReachedOf, Storing, Reached
<1>2. ASSUME d \notin overlapped
      PROVE  /\ LastJob(d, n) /\ \A m \in JobNo : LastJob(d, m) => m = n
             /\ ~Storing(d) /\ \A r \in Replay : ~Replaying(r, d)
             /\ RowTells(d, n)
  <2>1. RowOf(d)  BY DEF RowInvOf
  <2>2. JobLives(d)  BY DEF JobLives, Living
  <2>3. LastJob(d, n)  BY <1>2, <2>1 DEF RowOf, Living
  <2>4. \A m \in JobNo : LastJob(d, m) => m = n  BY <2>3, <1>k, <1>n DEF LastJob
  <2> QED BY <1>2, <2>1, <2>2, <2>3, <2>4 DEF RowOf, Fresh
<1>3. RowOf(d)'
  <2> SUFFICES ASSUME d \notin overlapped
               PROVE  /\ \A m \in JobNo : job'[d][m].step \in Living => LastJob(d, m)'
                      /\ ~Storing(d)' /\ \A r \in Replay : ~Replaying(r, d)'
                      /\ \A m \in JobNo : RowTells(d, m)'
      BY DEF RowOf, Living
  <2>1. ASSUME NEW m \in JobNo, job'[d][m].step \in Living
        PROVE  LastJob(d, m)'
    <3>1. CASE m = n  BY <1>2, <1>l, <3>1
    <3>2. CASE m # n
      <4>1. job[d][m].step \in Living  BY <1>o, <2>1, <3>2
      <4> QED BY <1>l, <4>1 DEF RowInvOf, RowOf, Living
    <3> QED BY <3>1, <3>2
  <2>2. ~Storing(d)' /\ \A r \in Replay : ~Replaying(r, d)'
        BY <1>2 DEF Storing, Replaying
  <2>3. ASSUME NEW m \in JobNo
        PROVE  RowTells(d, m)'
    <3> SUFFICES ASSUME Stored(d)', LastJob(d, m)',
                        \A r \in Replay : replay[r].of = d => replay[r].step \in {"idle", "reset", "done"}
                 PROVE  /\ job'[d][m].step = "done" => delivery'[d].status = "SUCCESS"
                        /\ delivery'[d].attempt <= job'[d][m].made + 1
        BY DEF RowTells, JobAt, Attempt
    <3>1. m = n  BY <1>2, <1>l
    <3>2. Stored(d)  BY DEF Stored
    <3>3. delivery[d].attempt <= Attempt(d, n)  BY <1>2, <3>2 DEF RowTells
    <3>4. delivery'[d].attempt <= job[d][n].made + 1
      <4>1. CASE delivery'[d] = delivery[d]  BY <3>3, <4>1 DEF Attempt
      <4>2. CASE delivery'[d].attempt = job[d][n].made + 1  BY <1>t, <4>2
      <4> QED BY <4>1, <4>2 DEF Attempt
    <3>5. delivery'[d].attempt <= job'[d][n].made + 1  BY <1>t, <3>4
    <3> QED BY <3>1, <3>5
  <2> QED BY <2>1, <2>2, <2>3
<1>4. PendingOf(d)'
  <2> SUFFICES ASSUME delivery'[d].status = "PENDING"
               PROVE  \/ JobLives(d)' \/ d \in overlapped
                      \/ \E m \in JobNo : LastJob(d, m)' /\ job'[d][m].step \in {"skipped", "dead"}
      BY DEF PendingOf
  <2>1. CASE job'[d][n].step \in Living  BY <2>1 DEF JobLives, Living
  <2>2. CASE job'[d][n].step \in Ended /\ d \notin overlapped
    <3>1. job'[d][n].step \in {"skipped", "dead"}  BY <2>2 DEF Ended
    <3> QED BY <1>2, <1>l, <2>2, <3>1
  <2> QED BY <2>1, <2>2 DEF JobMoves
<1> QED BY <1>1, <1>3, <1>4 DEF RowInvOf

\* A delivery keeps the invariant when its next job is queued by the only handler
\* at it, or is marked.
LEMMA RowQueue ==
  ASSUME Typed, Typed', NEW d \in Delivery, RowInvOf(d), Queue(d), delivery' = delivery,
         Reached(d), Reached(d)',
         \A r \in Replay : replay'[r].of = d /\ replay'[r].step # "idle" => Reached(d),
         d \in overlapped => d \in overlapped',
         d \notin overlapped' => /\ Fresh(d) /\ ~Storing(d)'
                                 /\ \A r \in Replay : ~Replaying(r, d)'
  PROVE  RowInvOf(d)'
<1>k. JobNo \subseteq Nat \ {0}  BY FirstJob
<1>1. PICK n \in JobNo : /\ job[d][n] = NoJob /\ \A m \in 1 .. n - 1 : job[d][m] # NoJob
                         /\ job' = [job EXCEPT ![d][n].step = "waiting"]
      BY DEF Queue
<1>2. JobMoves(d, n, {"waiting"})  BY <1>1, GotoMoves DEF JobGoto, Typed
<1>3. job'[d][n].made = 0  BY <1>1 DEF Typed, JobsTyped, Jobs, NoJob
<1>4. /\ job'[d][n].step = "waiting" /\ job'[d][n] # NoJob
      /\ \A m \in JobNo : m # n => job'[d][m] = job[d][m]
      BY <1>2 DEF JobMoves
<1>5. \A k, m \in JobNo : job[d][k] # NoJob /\ m < k => job[d][m] # NoJob
      BY DEF RowInvOf, ReachedOf
<1>6. \A m \in JobNo : m < n => job[d][m] # NoJob
  <2> SUFFICES ASSUME NEW m \in JobNo, m < n
               PROVE  m \in 1 .. n - 1
      BY <1>1
  <2> QED BY <1>k
<1>7. \A m \in JobNo : m > n => job[d][m] = NoJob
      BY <1>1, <1>5
<1>8. LastJob(d, n)' /\ \A m \in JobNo : LastJob(d, m)' => m = n
  <2>1. LastJob(d, n)'  BY <1>k, <1>4, <1>7 DEF LastJob
  <2>2. \A m \in JobNo : LastJob(d, m)' => m = n
    <3> SUFFICES ASSUME NEW m \in JobNo, job'[d][m] # NoJob,
                        \A k \in JobNo : k > m => job'[d][k] = NoJob
                 PROVE  m = n
        BY DEF LastJob
    <3>1. ~(n > m)  BY <1>4
    <3>2. ~(m > n)  BY <1>4, <1>7, <1>k
    <3>3. m \in Nat /\ n \in Nat  BY <1>k
    <3> QED BY <3>1, <3>2, <3>3
  <2> QED BY <2>1, <2>2
<1>9. ReachedOf(d)'
  <2>1. \A k \in JobNo : job'[d][k] # NoJob =>
           Reached(d)' /\ \A m \in JobNo : m < k => job'[d][m] # NoJob
    <3> SUFFICES ASSUME NEW k \in JobNo, job'[d][k] # NoJob, NEW m \in JobNo, m < k
                 PROVE  job'[d][m] # NoJob
        OBVIOUS
    <3>1. CASE m = n  BY <1>4, <3>1
    <3>2. CASE m # n /\ k = n  BY <1>4, <1>6, <3>2
    <3>3. CASE m # n /\ k # n  BY <1>4, <1>5, <3>3
    <3> QED BY <3>1, <3>2, <3>3
  <2> QED BY <2>1 DEF ReachedOf
<1>10. RowOf(d)'
  <2> SUFFICES ASSUME d \notin overlapped'
               PROVE  /\ \A m \in JobNo : job'[d][m].step \in Living => LastJob(d, m)'
                      /\ \A m \in JobNo : RowTells(d, m)'
      BY DEF RowOf, Living
  <2>1. Fresh(d)  OBVIOUS
  <2>2. \A m \in JobNo : job'[d][m].step \in Living => LastJob(d, m)'
        BY <1>4, <1>8, <2>1 DEF Fresh, JobLives, Living
  <2>3. Stored(d)' => delivery'[d].attempt = 1  BY <2>1 DEF Fresh, Stored
  <2>4. \A m \in JobNo : RowTells(d, m)'
    <3> SUFFICES ASSUME NEW m \in JobNo, Stored(d)', LastJob(d, m)'
                 PROVE  job'[d][m].step # "done" /\ delivery'[d].attempt <= job'[d][m].made + 1
        BY DEF RowTells, JobAt, Attempt
    <3>1. m = n  BY <1>8
    <3> QED BY <1>3, <1>4, <2>3, <3>1
  <2> QED BY <2>2, <2>4
<1>11. PendingOf(d)'  BY <1>4 DEF PendingOf, JobLives
<1> QED BY <1>9, <1>10, <1>11 DEF RowInvOf

-----------------------------------------------------------------------------
(* The steps.                                                              *)

\* What triggerEvent has stored it has reached.
LEMMA StoredReached ==
  ASSUME LoopInv, NEW d \in Delivery
  PROVE  /\ d[1] \in Event /\ d[2] \in Endpoint /\ d = <<d[1], d[2]>>
         /\ Stored(d) => Reached(d)
<1>1. d[1] \in Event /\ d[2] \in Endpoint /\ d = <<d[1], d[2]>>  BY DEF Delivery
<1>2. LoopOf(d[1])  BY <1>1 DEF LoopInv
<1>3. Stored(<<d[1], d[2]>>) => Reached(d)  BY <1>1, <1>2 DEF LoopOf, Reached
<1> QED BY <1>1, <1>3

\* What no handler and no job is touched by: rows at most go.
LEMMA RowIdle ==
  ASSUME Typed, Typed', RowInv, UNCHANGED <<trigger, replay, job, overlapped>>,
         \A d \in Delivery : delivery'[d] = delivery[d] \/ delivery'[d] = NoRow
  PROVE  RowInv'
<1>1. ASSUME NEW d \in Delivery
      PROVE  RowInvOf(d)'
  <2>1. RowInvOf(d)  BY DEF RowInv, RowInvOf
  <2>2. \A r \in Replay : replay'[r].of = d /\ replay'[r].step # "idle" => Reached(d)'
        BY <2>1 DEF RowInvOf, ReachedOf, Reached
  <2> QED BY <2>1, <2>2, RowFrame DEF Storing, Reached, Replaying
<1> QED BY <1>1 DEF RowInv, RowInvOf

\* triggerEvent.
LEMMA RowEvent ==
  ASSUME Typed, Typed', LoopInv, RowInv, NEW v \in Event,
         \/ FindEndpoints(v) \/ AbandonEvent(v) \/ QueueDelivery(v)
         \/ \E e \in Endpoint : StoreDelivery(v, e)
  PROVE  RowInv'
<1>t. trigger \in [Event -> Triggers] /\ delivery \in [Delivery -> Rows] /\ JobsTyped  BY DEF Typed
<1>i. \A d \in Delivery : RowInvOf(d)  BY DEF RowInv, RowInvOf
<1>l. LoopOf(v)  BY DEF LoopInv
<1>r. \A d \in Delivery, r \in Replay : replay[r].of = d /\ replay[r].step # "idle" => Reached(d)
      BY <1>i DEF RowInvOf, ReachedOf
<1>1. CASE FindEndpoints(v)
  <2>1. /\ trigger[v].step = "idle" /\ trigger'[v].step # "queue"
        /\ \A w \in Event : w # v => trigger'[w] = trigger[w]
        /\ UNCHANGED <<replay, job, delivery, overlapped>>
        BY <1>1, <1>t DEF FindEndpoints, rows, seen
  <2>2. ASSUME NEW d \in Delivery
        PROVE  RowInvOf(d)'
    <3>1. d[1] \in Event  BY StoredReached
    <3>2. /\ Storing(d)' => Storing(d)
          /\ Reached(d) => Reached(d)'
          BY <2>1, <3>1 DEF Storing, Reached
    <3>3. trigger[d[1]].step \in Open /\ trigger[d[1]].at = d[2]
            => trigger'[d[1]].step \in Open /\ trigger'[d[1]].at = d[2]
          BY <2>1, <3>1 DEF Open
    <3>4. \A r \in Replay : replay'[r].of = d /\ replay'[r].step # "idle" => Reached(d)'
          BY <1>r, <2>1, <3>2
    <3> QED BY <1>i, <2>1, <3>2, <3>3, <3>4, RowFrame DEF Replaying
  <2> QED BY <2>2 DEF RowInv, RowInvOf
<1>2. CASE AbandonEvent(v)
  <2>1. /\ trigger[v].step # "idle" /\ trigger'[v].step = "lost" /\ trigger'[v].at = trigger[v].at
        /\ trigger'[v].matched = trigger[v].matched /\ trigger'[v].todo = trigger[v].todo
        /\ \A w \in Event : w # v => trigger'[w] = trigger[w]
        /\ UNCHANGED <<replay, job, delivery, overlapped>>
        BY <1>2, <1>t DEF AbandonEvent, Triggers, rows, seen
  <2>2. ASSUME NEW d \in Delivery
        PROVE  RowInvOf(d)'
    <3>1. d[1] \in Event  BY StoredReached
    <3>2. /\ Storing(d)' => Storing(d)
          /\ Reached(d) => Reached(d)'
          BY <2>1, <3>1 DEF Storing, Reached
    <3>3. trigger[d[1]].step \in Open /\ trigger[d[1]].at = d[2]
            => trigger'[d[1]].step \in Open /\ trigger'[d[1]].at = d[2]
          BY <2>1, <3>1 DEF Open
    <3>4. \A r \in Replay : replay'[r].of = d /\ replay'[r].step # "idle" => Reached(d)'
          BY <1>r, <2>1, <3>2
    <3> QED BY <1>i, <2>1, <3>2, <3>3, <3>4, RowFrame DEF Replaying
  <2> QED BY <2>2 DEF RowInv, RowInvOf
<1>3. CASE QueueDelivery(v)
  <2> DEFINE at == trigger[v].at
  <2>1. /\ trigger[v].step = "queue" /\ at \in Endpoint
        /\ trigger'[v].step \in {"loop", "done"}
        /\ trigger'[v].matched = trigger[v].matched /\ trigger'[v].todo = trigger[v].todo
        /\ \A w \in Event : w # v => trigger'[w] = trigger[w]
        /\ UNCHANGED <<replay, delivery, overlapped>>
        BY <1>3, <1>t, <1>l DEF QueueDelivery, AfterQueue, Triggers, LoopOf, rows, seen
  <2>2. PICK d \in Delivery : d = <<v, at>>  BY <2>1 DEF Delivery
  <2>3. Queue(d)  BY <1>3, <2>2 DEF QueueDelivery
  <2>4. \A x \in Delivery : (Reached(x) => Reached(x)') /\ (Storing(x)' => Storing(x))
        BY <2>1, StoredReached DEF Reached, Storing
  <2>5. RowInvOf(d)'
    <3>1. Storing(d) /\ Reached(d) /\ ~Storing(d)'
          BY <1>i, <2>1, <2>2 DEF Storing, RowInvOf, ReachedOf
    <3>2. d \notin overlapped => Fresh(d) /\ \A r \in Replay : ~Replaying(r, d)
          BY <1>i, <3>1 DEF RowInvOf, RowOf
    <3> QED BY <1>i, <1>r, <2>1, <2>3, <2>4, <3>1, <3>2, RowQueue DEF Replaying
  <2>6. ASSUME NEW x \in Delivery, x # d
        PROVE  RowInvOf(x)'
    <3>1. \A m \in JobNo : job'[x][m] = job[x][m]
          BY <1>t, <2>3, <2>6, QueueMoves DEF JobMoves
    <3>2. x[1] = v => x[2] # at  BY <2>2, <2>6, StoredReached
    <3>3. trigger[x[1]].step \in Open /\ trigger[x[1]].at = x[2]
            => trigger'[x[1]].step \in Open /\ trigger'[x[1]].at = x[2]
          BY <2>1, <3>2, StoredReached
    <3>4. \A r \in Replay : replay'[r].of = x /\ replay'[r].step # "idle" => Reached(x)'
          BY <1>r, <2>1, <2>4
    <3> QED BY <1>i, <2>1, <2>4, <3>1, <3>3, <3>4, RowFrame DEF Replaying
  <2> QED BY <2>5, <2>6 DEF RowInv, RowInvOf
<1>4. CASE \E e \in Endpoint : StoreDelivery(v, e)
  <2>1. PICK e \in Endpoint : StoreDelivery(v, e)  BY <1>4
  <2>2. PICK d \in Delivery : d = <<v, e>>  BY DEF Delivery
  <2>c. /\ trigger[v].step = "loop" /\ e \in trigger[v].todo /\ e \in trigger[v].matched
        /\ UNCHANGED <<replay, job, overlapped>>
        BY <2>1, <1>l DEF StoreDelivery, AtLoop, LoopOf, seen
  <2>g. trigger' = [trigger EXCEPT ![v] = [trigger[v] EXCEPT !.step = "queue", !.at = e,
                                                             !.todo = trigger[v].todo \ {e}]]
        BY <2>1 DEF StoreDelivery
  <2>h. /\ trigger'[v].step = "queue" /\ trigger'[v].at = e
        /\ trigger'[v].matched = trigger[v].matched /\ trigger'[v].todo = trigger[v].todo \ {e}
        /\ \A w \in Event : w # v => trigger'[w] = trigger[w]
        BY <2>g, <1>t DEF Triggers
  <2>w. /\ delivery'[d] = [status |-> "PENDING", attempt |-> 1]
        /\ \A x \in Delivery : x # d => delivery'[x] = delivery[x]
        BY <2>1, <2>2, <1>t DEF StoreDelivery
  <2>4. \A x \in Delivery : Reached(x) => Reached(x)'
        BY <2>c, <2>h, <2>w, StoredReached DEF Reached
  <2>5. RowInvOf(d)'
    <3>1. ~Reached(d) /\ Reached(d)' /\ trigger[d[1]].step = "loop" /\ d[1] = v /\ d[2] = e
          BY <2>2, <2>c, <2>h, <2>w DEF Reached
    <3>2. /\ \A n \in JobNo : job[d][n] = NoJob
          /\ \A r \in Replay : replay[r].of = d => replay[r].step = "idle"
          BY <1>i, <3>1 DEF RowInvOf, ReachedOf
    <3>3. ReachedOf(d)'  BY <2>c, <2>h, <2>w, <3>1, <3>2 DEF ReachedOf
    <3>4. Fresh(d)'  BY <2>c, <2>h, <2>w, <3>2 DEF Fresh, JobLives, NoJob, Working
    <3>5. RowOf(d)'
          BY <2>c, <2>h, <2>w, <3>2, <3>4 DEF RowOf, RowTells, LastJob, Replaying, NoJob, Working
    <3>6. PendingOf(d)'  BY <2>c, <2>h, <2>w, <3>1 DEF PendingOf
    <3> QED BY <3>3, <3>5, <3>6 DEF RowInvOf
  <2>6. ASSUME NEW x \in Delivery, x # d
        PROVE  RowInvOf(x)'
    <3>1. x[1] = v => x[2] # e  BY <2>2, <2>6, StoredReached
    <3>2. Storing(x)' => Storing(x)  BY <2>c, <2>h, <2>w, <3>1, StoredReached DEF Storing
    <3>3. trigger[x[1]].step \in Open /\ trigger[x[1]].at = x[2]
            => trigger'[x[1]].step \in Open /\ trigger'[x[1]].at = x[2]
          BY <2>c, <2>h, <2>w, StoredReached DEF Open
    <3>4. \A r \in Replay : replay'[r].of = x /\ replay'[r].step # "idle" => Reached(x)'
          BY <1>r, <2>c, <2>h, <2>w, <2>4
    <3> QED BY <1>i, <2>c, <2>h, <2>w, <2>4, <2>6, <3>2, <3>3, <3>4, RowFrame DEF Replaying
  <2> QED BY <2>5, <2>6 DEF RowInv, RowInvOf
<1> QED BY <1>1, <1>2, <1>3, <1>4

\* replayDelivery.
LEMMA RowReplay ==
  ASSUME Typed, Typed', LoopInv, RowInv, NEW r \in Replay,
         \/ ResetDelivery(r) \/ QueueReplay(r) \/ AbandonReplay(r)
         \/ \E d \in Delivery : ReplayDelivery(r, d)
  PROVE  RowInv'
<1>t. replay \in [Replay -> Replays] /\ JobsTyped  BY DEF Typed
<1>i. \A d \in Delivery : RowInvOf(d)  BY DEF RowInv, RowInvOf
<1>r. \A d \in Delivery, q \in Replay : replay[q].of = d /\ replay[q].step # "idle" => Reached(d)
      BY <1>i DEF RowInvOf, ReachedOf
<1>1. CASE \E d \in Delivery : ReplayDelivery(r, d)
  <2>1. PICK d \in Delivery : ReplayDelivery(r, d)  BY <1>1
  <2>2. /\ replay[r].step = "idle" /\ Stored(d)
        /\ UNCHANGED <<trigger, job, delivery, overlapped>>
        BY <2>1 DEF ReplayDelivery, rows, seen
  <2>3. /\ replay'[r].step = "reset" /\ replay'[r].of = d
        /\ \A q \in Replay : q # r => replay'[q] = replay[q]
        BY <2>1, <1>t DEF ReplayDelivery
  <2>4. ASSUME NEW x \in Delivery
        PROVE  RowInvOf(x)'
    <3>1. \A q \in Replay : Replaying(q, x)' => Replaying(q, x)
          BY <2>3 DEF Replaying
    <3>2. \A q \in Replay : replay[q].of = x /\ replay[q].step \in Open
             => replay'[q].of = x /\ replay'[q].step \in Open
          BY <2>2, <2>3 DEF Open
    <3>3. Reached(d)  BY <2>2, StoredReached
    <3>4. \A q \in Replay : replay'[q].of = x /\ replay'[q].step # "idle" => Reached(x)'
          BY <1>r, <2>2, <2>3, <3>3 DEF Reached
    <3> QED BY <1>i, <2>2, <3>1, <3>2, <3>4, RowFrame DEF Storing, Reached
  <2> QED BY <2>4 DEF RowInv, RowInvOf
<1>2. CASE AbandonReplay(r)
  <2>1. /\ replay[r].step \in {"reset", "queue"} /\ UNCHANGED <<trigger, job, delivery, overlapped>>
        BY <1>2 DEF AbandonReplay, rows, seen
  <2>2. /\ replay'[r].step = "lost" /\ replay'[r].of = replay[r].of
        /\ \A q \in Replay : q # r => replay'[q] = replay[q]
        BY <1>2, <1>t DEF AbandonReplay, Replays
  <2>3. ASSUME NEW x \in Delivery
        PROVE  RowInvOf(x)'
    <3>1. \A q \in Replay : Replaying(q, x)' => Replaying(q, x)
          BY <2>2 DEF Replaying
    <3>2. \A q \in Replay : replay[q].of = x /\ replay[q].step \in Open
             => replay'[q].of = x /\ replay'[q].step \in Open
          BY <2>2 DEF Open
    <3>3. \A q \in Replay : replay'[q].of = x /\ replay'[q].step # "idle" => Reached(x)'
          BY <1>r, <2>1, <2>2 DEF Reached
    <3> QED BY <1>i, <2>1, <3>1, <3>2, <3>3, RowFrame DEF Storing, Reached
  <2> QED BY <2>3 DEF RowInv, RowInvOf
<1>3. CASE ResetDelivery(r)
  <2>1. PICK d \in Delivery : d = replay[r].of  BY <1>t DEF Replays
  <2>2. /\ replay[r].step = "reset" /\ Write(d, "PENDING", 1)
        /\ UNCHANGED <<trigger, job>>
        /\ overlapped' = IF Busy(r, d) THEN overlapped \cup {d} ELSE overlapped
        BY <1>3, <2>1 DEF ResetDelivery, Mark
  <2>3. /\ replay'[r].step = "queue" /\ replay'[r].of = d
        /\ \A q \in Replay : q # r => replay'[q] = replay[q]
        BY <1>3, <2>1, <1>t DEF ResetDelivery, Replays
  <2>4. /\ delivery'[d].status = "PENDING" /\ delivery'[d].attempt = 1
        /\ \A x \in Delivery : x # d => delivery'[x] = delivery[x]
        BY <2>2 DEF Write, Typed
  <2>5. RowInvOf(d)'
    <3>1. Reached(d) /\ Reached(d)'  BY <1>r, <2>1, <2>2 DEF Reached
    <3>2. ReachedOf(d)'  BY <1>i, <2>2, <3>1 DEF RowInvOf, ReachedOf
    <3>3. RowOf(d)'
      <4> SUFFICES ASSUME d \notin overlapped'
                   PROVE  /\ \A n \in JobNo : job[d][n].step \in Living => LastJob(d, n)'
                          /\ ~Storing(d)' /\ Fresh(d)'
                          /\ \A q, p \in Replay : Replaying(q, d)' /\ Replaying(p, d)' => q = p
                          /\ \A n \in JobNo : RowTells(d, n)'
          BY <2>2 DEF RowOf, Living
      <4>1. ~Busy(r, d) /\ d \notin overlapped  BY <2>2
      <4>2. \A n \in JobNo : job[d][n].step \in Living => LastJob(d, n)'
            BY <1>i, <2>2, <4>1 DEF RowInvOf, RowOf, LastJob, Living
      <4>3. ~Storing(d)'  BY <2>2, <4>1 DEF Busy, Storing
      <4>4. Fresh(d)'  BY <2>2, <2>4, <4>1 DEF Busy, Fresh, JobLives
      <4>5. \A q \in Replay : Replaying(q, d)' => q = r  BY <2>3, <4>1 DEF Busy, Replaying
      <4>6. \A n \in JobNo : RowTells(d, n)'  BY <2>3 DEF RowTells
      <4> QED BY <4>2, <4>3, <4>4, <4>5, <4>6
    <3>4. PendingOf(d)'  BY <2>3 DEF PendingOf
    <3> QED BY <3>2, <3>3, <3>4 DEF RowInvOf
  <2>6. ASSUME NEW x \in Delivery, x # d
        PROVE  RowInvOf(x)'
    <3>1. \A q \in Replay : Replaying(q, x)' => Replaying(q, x)
          BY <2>3, <2>6 DEF Replaying
    <3>2. \A q \in Replay : replay[q].of = x /\ replay[q].step \in Open
             => replay'[q].of = x /\ replay'[q].step \in Open
          BY <2>1, <2>3, <2>6
    <3>3. \A q \in Replay : replay'[q].of = x /\ replay'[q].step # "idle" => Reached(x)'
          BY <1>r, <2>2, <2>3, <2>6 DEF Reached
    <3>4. x \in overlapped => x \in overlapped'  BY <2>2
    <3> QED BY <1>i, <2>2, <2>4, <2>6, <3>1, <3>2, <3>3, <3>4, RowFrame DEF Storing, Reached
  <2> QED BY <2>5, <2>6 DEF RowInv, RowInvOf
<1>4. CASE QueueReplay(r)
  <2>1. PICK d \in Delivery : d = replay[r].of  BY <1>t DEF Replays
  <2>2. /\ replay[r].step = "queue" /\ Queue(d)
        /\ UNCHANGED <<trigger, delivery>>
        /\ overlapped' = IF Busy(r, d) THEN overlapped \cup {d} ELSE overlapped
        BY <1>4, <2>1 DEF QueueReplay, Mark, rows
  <2>3. /\ replay'[r].step = "done" /\ replay'[r].of = d
        /\ \A q \in Replay : q # r => replay'[q] = replay[q]
        BY <1>4, <2>1, <1>t DEF QueueReplay, Replays
  <2>5. RowInvOf(d)'
    <3>1. Reached(d) /\ Reached(d)'  BY <1>r, <2>1, <2>2 DEF Reached
    <3>2. \A q \in Replay : replay'[q].of = d /\ replay'[q].step # "idle" => Reached(d)
          BY <3>1
    <3>3. d \notin overlapped' => Fresh(d) /\ ~Storing(d)' /\ \A q \in Replay : ~Replaying(q, d)'
      <4> SUFFICES ASSUME d \notin overlapped'
                   PROVE  Fresh(d) /\ ~Storing(d)' /\ \A q \in Replay : ~Replaying(q, d)'
          OBVIOUS
      <4>1. ~Busy(r, d) /\ d \notin overlapped  BY <2>2
      <4>2. ~Storing(d)'  BY <2>2, <4>1 DEF Busy, Storing
      <4>3. \A q \in Replay : ~Replaying(q, d)'  BY <2>3, <4>1 DEF Busy, Replaying
      <4>4. Replaying(r, d)  BY <2>1, <2>2 DEF Replaying
      <4>5. Fresh(d)  BY <1>i, <4>1, <4>4 DEF RowInvOf, RowOf
      <4> QED BY <4>2, <4>3, <4>5
    <3> QED BY <1>i, <2>2, <3>1, <3>2, <3>3, RowQueue
  <2>6. ASSUME NEW x \in Delivery, x # d
        PROVE  RowInvOf(x)'
    <3>j. \A m \in JobNo : job'[x][m] = job[x][m]
          BY <1>t, <2>2, <2>6, QueueMoves DEF JobMoves
    <3>1. \A q \in Replay : Replaying(q, x)' => Replaying(q, x)
          BY <2>3, <2>6 DEF Replaying
    <3>2. \A q \in Replay : replay[q].of = x /\ replay[q].step \in Open
             => replay'[q].of = x /\ replay'[q].step \in Open
          BY <2>1, <2>3, <2>6
    <3>3. \A q \in Replay : replay'[q].of = x /\ replay'[q].step # "idle" => Reached(x)'
          BY <1>r, <2>2, <2>3, <2>6 DEF Reached
    <3>4. x \in overlapped => x \in overlapped'  BY <2>2
    <3> QED BY <1>i, <2>2, <2>6, <3>j, <3>1, <3>2, <3>3, <3>4, RowFrame DEF Storing, Reached
  <2> QED BY <2>5, <2>6 DEF RowInv, RowInvOf
<1> QED BY <1>1, <1>2, <1>3, <1>4

\* WebhookProcessor.
LEMMA RowJob ==
  ASSUME Typed, Typed', LoopInv, RowInv, NEW d \in Delivery, NEW n \in JobNo,
         Work(d, n) \/ Stall(d, n)
  PROVE  RowInv'
<1>t. JobsTyped  BY DEF Typed
<1>i. \A x \in Delivery : RowInvOf(x)  BY DEF RowInv, RowInvOf
<1>1. UNCHANGED <<trigger, replay, overlapped>>
      BY DEF Work, TakeJob, Post, WriteSuccess, WriteRefused, WriteFailure, Retry, Stall, rows, seen
<1>2. job[d][n].step \in Living /\ job'[d][n].made >= job[d][n].made  BY <1>t, WorkCounts
<1>s. \A S : S \subseteq Living \cup Ended /\ JobMoves(d, n, S) => JobMoves(d, n, Living \cup Ended)
      BY DEF JobMoves
<1>3. /\ JobMoves(d, n, Living \cup Ended)
      /\ job'[d][n].step = "done" => delivery'[d].status = "SUCCESS"
      /\ \/ delivery' = delivery
         \/ /\ Stored(d) /\ delivery'[d].status # "PENDING" /\ delivery'[d].attempt = Attempt(d, n)
            /\ \A x \in Delivery : x # d => delivery'[x] = delivery[x]
  <2>w. ASSUME NEW s \in {"SUCCESS", "FAILED"}, Write(d, s, Attempt(d, n))
        PROVE  /\ Stored(d) /\ delivery'[d].status = s /\ delivery'[d].attempt = Attempt(d, n)
               /\ \A x \in Delivery : x # d => delivery'[x] = delivery[x]
        BY <2>w DEF Write, Typed
  <2>1. CASE TakeJob(d, n)
    <3>1. JobMoves(d, n, {"throw", "post", "skipped"}) /\ delivery' = delivery
          BY <1>t, <2>1, WorkMoves DEF TakeJob, rows
    <3> QED BY <1>s, <3>1 DEF JobMoves, Living, Working, Ended
  <2>2. CASE Post(d, n)
    <3>1. delivery' = delivery  BY <2>2 DEF Post, rows
    <3>2. JobMoves(d, n, {"writeSuccess", "writeRefused", "writeFailure"})
          BY <1>t, <2>2, PostMoves DEF JobMoves
    <3> QED BY <1>s, <3>1, <3>2 DEF JobMoves, Living, Working, Ended
  <2>3. CASE WriteSuccess(d, n)
    <3>1. JobMoves(d, n, {"done", "writeFailure"})  BY <1>t, <2>3, WorkMoves
    <3>2. JobMoves(d, n, Living \cup Ended)  BY <1>s, <3>1 DEF Living, Working, Ended
    <3>3. CASE Write(d, "SUCCESS", Attempt(d, n))
      <4>1. /\ Stored(d) /\ delivery'[d].status = "SUCCESS" /\ delivery'[d].attempt = Attempt(d, n)
            /\ \A x \in Delivery : x # d => delivery'[x] = delivery[x]
            BY <2>w, <3>3
      <4> QED BY <3>2, <4>1
    <3>4. CASE UNCHANGED delivery /\ JobGoto(d, n, "writeFailure")
      <4>1. job'[d][n].step = "writeFailure"  BY <1>t, <3>4, GotoMoves DEF JobMoves, Working
      <4> QED BY <3>2, <3>4, <4>1
    <3> QED BY <2>3, <3>3, <3>4 DEF WriteSuccess
  <2>4. CASE WriteRefused(d, n) \/ WriteFailure(d, n)
    <3>1. JobMoves(d, n, {"throw", "writeFailure"})  BY <1>t, <2>4, WorkMoves DEF JobMoves
    <3>2. delivery' = delivery \/ Write(d, "FAILED", Attempt(d, n))
          BY <2>4 DEF WriteRefused, WriteFailure
    <3>3. JobMoves(d, n, Living \cup Ended) /\ job'[d][n].step # "done"
          BY <1>s, <3>1 DEF JobMoves, Living, Working, Ended
    <3>4. CASE Write(d, "FAILED", Attempt(d, n))
      <4>1. /\ Stored(d) /\ delivery'[d].status = "FAILED" /\ delivery'[d].attempt = Attempt(d, n)
            /\ \A x \in Delivery : x # d => delivery'[x] = delivery[x]
            BY <2>w, <3>4
      <4> QED BY <3>3, <4>1
    <3> QED BY <3>2, <3>3, <3>4
  <2>5. CASE Retry(d, n) \/ Stall(d, n)
    <3>1. JobMoves(d, n, {"waiting", "dead"}) /\ delivery' = delivery
          BY <1>t, <2>5, WorkMoves DEF Retry, Stall, rows
    <3> QED BY <1>s, <3>1 DEF JobMoves, Living, Working, Ended
  <2> QED BY <2>1, <2>2, <2>3, <2>4, <2>5 DEF Work
<1>4. RowInvOf(d)'  BY <1>i, <1>1, <1>2, <1>3, RowWork
<1>5. ASSUME NEW x \in Delivery, x # d
      PROVE  RowInvOf(x)'
  <2>1. \A m \in JobNo : job'[x][m] = job[x][m]  BY <1>3, <1>5 DEF JobMoves
  <2>2. delivery'[x] = delivery[x]  BY <1>3, <1>5
  <2>3. \A r \in Replay : replay'[r].of = x /\ replay'[r].step # "idle" => Reached(x)'
        BY <1>i, <1>1 DEF RowInvOf, ReachedOf, Reached
  <2> QED BY <1>i, <1>1, <2>1, <2>2, <2>3, RowFrame DEF Storing, Reached, Replaying
<1> QED BY <1>4, <1>5 DEF RowInv, RowInvOf

\* Every step keeps it.
LEMMA RowStep ==
  ASSUME Typed, LoopInv, RowInv, Step
  PROVE  RowInv'
<1>t. Typed'  BY TypeStep
<1>1. CASE \E e \in Endpoint : Create(e) \/ UpdateEndpoint(e)
  <2>1. UNCHANGED <<trigger, replay, job, delivery, overlapped>>
        BY <1>1 DEF Create, UpdateEndpoint, seen
  <2> QED BY <1>t, <2>1, RowIdle
<1>2. CASE \E e \in Endpoint : Delete(e)
  <2>1. /\ UNCHANGED <<trigger, replay, job, overlapped>>
        /\ \A d \in Delivery : delivery'[d] = delivery[d] \/ delivery'[d] = NoRow
        BY <1>2 DEF Delete, seen
  <2> QED BY <1>t, <2>1, RowIdle
<1>3. CASE \E v \in Event : \/ FindEndpoints(v) \/ AbandonEvent(v) \/ QueueDelivery(v)
                            \/ \E e \in Endpoint : StoreDelivery(v, e)
  BY <1>t, <1>3, RowEvent
<1>4. CASE \E r \in Replay : \/ ResetDelivery(r) \/ QueueReplay(r) \/ AbandonReplay(r)
                             \/ \E d \in Delivery : ReplayDelivery(r, d)
  BY <1>t, <1>4, RowReplay
<1>5. CASE \E d \in Delivery, n \in JobNo : Work(d, n) \/ Stall(d, n)
  BY <1>t, <1>5, RowJob
<1>6. CASE UNCHANGED vars
  <2>1. UNCHANGED <<trigger, replay, job, delivery, overlapped>>  BY <1>6 DEF vars
  <2> QED BY <1>t, <2>1, RowIdle
<1> QED BY <1>1, <1>2, <1>3, <1>4, <1>5, <1>6 DEF Step, Work

\* The invariant of the row holds of every behaviour.
LEMMA RowAlways == Spec => []RowInv
<1>1. Init => Typed /\ LoopInv /\ RowInv  BY TypeInit, LoopInit, RowInit
<1>2. (Typed /\ LoopInv /\ RowInv) /\ [Next]_vars => (Typed /\ LoopInv /\ RowInv)'
      BY StepOfNext, TypeStep, LoopStep, RowStep
<1> QED BY <1>1, <1>2, PTL DEF Spec

-----------------------------------------------------------------------------
\* As long as no replay met a job at work, the row tells the outcome of the last
\* job, whatever runs, failed writes, stalls and replays came before.
THEOREM RowTellsLast == Spec => []RowTellsLastJob
<1>1. RowInv => RowTellsLastJob  BY DEF RowInv, RowOf, RowTellsLastJob
<1> QED BY <1>1, RowAlways, PTL

\* A delivery stays PENDING only while someone is to write it, or for one of the
\* causes the property names.
THEOREM PendingOwned == Spec => []PendingIsOwned
<1>1. RowInv => PendingIsOwned  BY DEF RowInv, PendingOf, PendingIsOwned
<1> QED BY <1>1, RowAlways, PTL
=============================================================================
