---------------------------- MODULE WebhookProofs ----------------------------
(* What rows and jobs promise of each other, for any number of events,      *)
(* endpoints, replays and workers.                                          *)
EXTENDS Webhook, FiniteSetTheorems, TLAPS

USE WebhookAssumption

-----------------------------------------------------------------------------
(* Helpers.                                                                *)

JobsTyped == job \in [Delivery -> [JobNo -> Jobs]]

\* The first job has a number.
LEMMA FirstJob == 1 \in JobNo /\ JobNo \subseteq Nat \ {0}
<1>1. Cardinality(Replay) \in Nat  BY FS_CardinalityType
<1> QED BY <1>1 DEF JobNo

\* One job moves, to a step of S; it exists from then on.
JobMoves(d, n, S) ==
    /\ JobsTyped'
    /\ job'[d][n].step \in S
    /\ job'[d][n] # NoJob
    /\ \A x \in Delivery, m \in JobNo : x # d \/ m # n => job'[x][m] = job[x][m]

\* An assignment to one job is such a move.
LEMMA JobUpdate ==
  ASSUME JobsTyped, NEW d \in Delivery, NEW n \in JobNo, NEW new \in Jobs, new.step # "none",
         job' = [job EXCEPT ![d][n] = new]
  PROVE  JobMoves(d, n, {new.step})
<1>1. JobsTyped'  BY DEF JobsTyped
<1>2. job'[d][n] = new  BY DEF JobsTyped
<1>3. \A x \in Delivery, m \in JobNo : x # d \/ m # n => job'[x][m] = job[x][m]
      BY DEF JobsTyped
<1>4. new # NoJob  BY DEF NoJob
<1> QED BY <1>1, <1>2, <1>3, <1>4 DEF JobMoves

\* So is a step of its worker.
LEMMA GotoMoves ==
  ASSUME JobsTyped, NEW d \in Delivery, NEW n \in JobNo,
         NEW s \in {"waiting"} \cup Working \cup Ended, JobGoto(d, n, s)
  PROVE  JobMoves(d, n, {s})
<1> DEFINE new == [job[d][n] EXCEPT !.step = s]
<1>1. job[d][n] \in Jobs  BY DEF JobsTyped
<1>2. new \in Jobs /\ new.step = s  BY <1>1 DEF Jobs
<1>3. s # "none"  BY DEF Working, Ended
<1>4. job' = [job EXCEPT ![d][n] = new]  BY DEF JobGoto
<1> HIDE DEF new
<1> QED BY <1>2, <1>3, <1>4, JobUpdate

\* A delivery is queued as the next of its jobs; it has a first one then.
LEMMA QueueMoves ==
  ASSUME JobsTyped, NEW d \in Delivery, Queue(d)
  PROVE  (\E n \in JobNo : JobMoves(d, n, {"waiting"})) /\ job'[d][1] # NoJob
<1>1. PICK n \in JobNo : /\ job[d][n] = NoJob /\ \A m \in 1 .. n - 1 : job[d][m] # NoJob
                         /\ job' = [job EXCEPT ![d][n].step = "waiting"]
      BY DEF Queue
<1>2. JobGoto(d, n, "waiting")  BY <1>1 DEF JobGoto
<1>3. JobMoves(d, n, {"waiting"})  BY <1>2, GotoMoves
<1>4. n = 1 \/ (1 \in 1 .. n - 1)  BY FirstJob
<1>5. CASE n = 1  BY <1>3, <1>5 DEF JobMoves
<1>6. CASE n # 1  BY <1>1, <1>3, <1>4, <1>6, FirstJob DEF JobMoves
<1> QED BY <1>3, <1>5, <1>6

\* What each step of the processor does to its job.
LEMMA WorkMoves ==
  ASSUME JobsTyped, NEW d \in Delivery, NEW n \in JobNo
  PROVE  /\ TakeJob(d, n) => JobMoves(d, n, {"throw", "post", "skipped"})
         /\ WriteSuccess(d, n) => JobMoves(d, n, {"done", "writeFailure"})
         /\ WriteRefused(d, n) => JobMoves(d, n, {"writeFailure"})
         /\ WriteFailure(d, n) => JobMoves(d, n, {"throw"})
         /\ Retry(d, n) => JobMoves(d, n, {"waiting", "dead"})
         /\ Stall(d, n) => JobMoves(d, n, {"waiting", "dead"})
<1>g. \A s \in {"waiting"} \cup Working \cup Ended : JobGoto(d, n, s) => JobMoves(d, n, {s})
      BY GotoMoves
<1>1. TakeJob(d, n) => JobMoves(d, n, {"throw", "post", "skipped"})
      BY <1>g DEF TakeJob, JobMoves, Working, Ended
<1>2. WriteSuccess(d, n) => JobMoves(d, n, {"done", "writeFailure"})
      BY <1>g DEF WriteSuccess, JobMoves, Working, Ended
<1>3. WriteRefused(d, n) => JobMoves(d, n, {"writeFailure"})
      BY <1>g DEF WriteRefused, JobMoves, Working, Ended
<1>4. WriteFailure(d, n) => JobMoves(d, n, {"throw"})
      BY <1>g DEF WriteFailure, JobMoves, Working, Ended
<1>j. job[d][n] \in Jobs  BY DEF JobsTyped
<1>5. ASSUME Retry(d, n)
      PROVE  JobMoves(d, n, {"waiting", "dead"})
  <2> DEFINE new == [job[d][n] EXCEPT !.made = Attempt(d, n),
                                      !.step = IF Attempt(d, n) < MaxJobAttempts THEN "waiting" ELSE "dead"]
  <2>s. job[d][n].made + 1 \in Nat /\ {"waiting", "dead"} \subseteq {"none", "waiting"} \cup Working \cup Ended
        BY <1>j DEF Jobs, Ended
  <2>1. new \in Jobs /\ new.step \in {"waiting", "dead"}  BY <1>j, <2>s DEF Jobs, Attempt
  <2>2. job' = [job EXCEPT ![d][n] = new]  BY <1>5 DEF Retry
  <2> HIDE DEF new
  <2>3. JobMoves(d, n, {new.step})  BY <2>1, <2>2, JobUpdate
  <2> QED BY <2>1, <2>3 DEF JobMoves
<1>6. ASSUME Stall(d, n)
      PROVE  JobMoves(d, n, {"waiting", "dead"})
  <2> DEFINE new == [job[d][n] EXCEPT !.stalls = job[d][n].stalls + 1,
                                      !.step = IF job[d][n].stalls < MaxStalls THEN "waiting" ELSE "dead"]
  <2>s. job[d][n].stalls + 1 \in Nat /\ {"waiting", "dead"} \subseteq {"none", "waiting"} \cup Working \cup Ended
        BY <1>j DEF Jobs, Ended
  <2>1. new \in Jobs /\ new.step \in {"waiting", "dead"}  BY <1>j, <2>s DEF Jobs
  <2>2. job' = [job EXCEPT ![d][n] = new]  BY <1>6 DEF Stall
  <2> HIDE DEF new
  <2>3. JobMoves(d, n, {new.step})  BY <2>1, <2>2, JobUpdate
  <2> QED BY <2>1, <2>3 DEF JobMoves
<1> QED BY <1>1, <1>2, <1>3, <1>4, <1>5, <1>6

\* A post goes on to record a success only if it was answered with one.
LEMMA PostMoves ==
  ASSUME JobsTyped, NEW d \in Delivery, NEW n \in JobNo, Post(d, n)
  PROVE  \/ JobMoves(d, n, {"writeSuccess"}) /\ accepted' = accepted \cup {d}
         \/ JobMoves(d, n, {"writeRefused", "writeFailure"}) /\ accepted' = accepted
<1>1. PICK answer \in {"ok", "error", "late", "unreachable"} :
         /\ accepted' = IF answer = "ok" THEN accepted \cup {d} ELSE accepted
         /\ JobGoto(d, n, Outcome(answer))
      BY DEF Post
<1>2. Outcome(answer) \in {"waiting"} \cup Working \cup Ended  BY DEF Outcome, Working
<1>3. JobMoves(d, n, {Outcome(answer)})  BY <1>1, <1>2, GotoMoves
<1>4. CASE answer = "ok"  BY <1>1, <1>3, <1>4 DEF Outcome
<1>5. CASE answer # "ok"  BY <1>1, <1>3, <1>5 DEF Outcome, JobMoves
<1> QED BY <1>4, <1>5

-----------------------------------------------------------------------------
(* The steps of Next, and types.                                           *)

Step ==
    \/ \E e \in Endpoint : Create(e) \/ UpdateEndpoint(e)
    \/ \E e \in Endpoint : Delete(e)
    \/ \E v \in Event : FindEndpoints(v)
    \/ \E v \in Event : QueueDelivery(v)
    \/ \E v \in Event, e \in Endpoint : StoreDelivery(v, e)
    \/ \E v \in Event : AbandonEvent(v)
    \/ \E r \in Replay, d \in Delivery : ReplayDelivery(r, d)
    \/ \E r \in Replay : ResetDelivery(r)
    \/ \E r \in Replay : QueueReplay(r)
    \/ \E r \in Replay : AbandonReplay(r)
    \/ \E d \in Delivery, n \in JobNo : TakeJob(d, n) \/ Retry(d, n) \/ Stall(d, n)
    \/ \E d \in Delivery, n \in JobNo : Post(d, n)
    \/ \E d \in Delivery, n \in JobNo : WriteSuccess(d, n)
    \/ \E d \in Delivery, n \in JobNo : WriteRefused(d, n) \/ WriteFailure(d, n)
    \/ UNCHANGED vars

\* Next takes no other step.
LEMMA StepOfNext ==
  ASSUME [Next]_vars
  PROVE  Step
  BY DEF Next, Announce, Work, Step

Triggers == [step : {"idle", "loop", "queue", "done", "lost"},
             matched : SUBSET Endpoint, todo : SUBSET Endpoint, at : Endpoint \cup {NoEndpoint}]
Replays  == [step : {"idle", "reset", "queue", "done", "lost"}, of : Delivery]

\* The part of the types that the proofs use.
Typed ==
    /\ trigger \in [Event -> Triggers]
    /\ replay \in [Replay -> Replays]
    /\ delivery \in [Delivery -> Rows]
    /\ JobsTyped

\* The rest of them.
Plain ==
    /\ endpoint \in [Endpoint -> Present \cup {"none", "deleted"}]
    /\ changes \in 0 .. MaxChanges
    /\ posts \in [Delivery -> Nat]
    /\ accepted \subseteq Delivery
    /\ overlapped \subseteq Delivery

\* Together they are the type invariant.
LEMMA TypesTogether == Typed /\ Plain <=> TypeOK
  BY DEF Typed, Plain, TypeOK, Triggers, Replays, JobsTyped

\* The initial state has its types.
LEMMA TypeInit ==
  ASSUME Init
  PROVE  Typed /\ Plain
<1>1. NoJob \in Jobs /\ NoRow \in Rows  BY DEF NoJob, Jobs, Rows
<1>2. JobsTyped /\ delivery \in [Delivery -> Rows]  BY <1>1 DEF Init, JobsTyped
<1>3. trigger \in [Event -> Triggers]  BY DEF Init, Triggers
<1>4. replay \in [Replay -> Replays]  BY DEF Init, Replays
<1>5. Plain  BY DEF Init, Plain
<1> QED BY <1>2, <1>3, <1>4, <1>5 DEF Typed

\* What a write of the processor or of a replay makes of the rows.
LEMMA WriteType ==
  ASSUME Typed, NEW d \in Delivery, NEW s \in {"PENDING", "SUCCESS", "FAILED"}, NEW k \in Nat, Write(d, s, k)
  PROVE  /\ delivery' \in [Delivery -> Rows]
         /\ Stored(d) /\ delivery'[d].status = s
         /\ \A x \in Delivery : x # d => delivery'[x] = delivery[x]
<1>1. [status |-> s, attempt |-> k] \in Rows  BY DEF Rows
<1> QED BY <1>1 DEF Write, Typed

\* Attempts are numbered.
LEMMA AttemptType ==
  ASSUME Typed, NEW d \in Delivery, NEW n \in JobNo
  PROVE  Attempt(d, n) \in Nat
  BY DEF Typed, JobsTyped, Jobs, Attempt

\* Every step keeps the types of rows, handlers and jobs.
LEMMA TypeStep ==
  ASSUME Typed, Step
  PROVE  Typed'
<1>t. trigger \in [Event -> Triggers] /\ replay \in [Replay -> Replays] /\ delivery \in [Delivery -> Rows] /\ JobsTyped
      BY DEF Typed
<1>w. WebhookAssumption  OBVIOUS
<1>1. CASE \E e \in Endpoint : Create(e) \/ UpdateEndpoint(e)
  BY <1>1, <1>t DEF Create, UpdateEndpoint, Change, Typed, JobsTyped
<1>2. CASE \E e \in Endpoint : Delete(e)
  <2>1. delivery' \in [Delivery -> Rows]  BY <1>2, <1>t DEF Delete, Rows
  <2> QED BY <1>2, <1>t, <2>1 DEF Delete, Change, Typed, JobsTyped
<1>3. CASE \E v \in Event : FindEndpoints(v)
  <2>1. trigger' \in [Event -> Triggers]  BY <1>3, <1>t DEF FindEndpoints, Triggers
  <2> QED BY <1>3, <1>t, <2>1 DEF FindEndpoints, rows, Typed, JobsTyped
<1>4. CASE \E v \in Event : QueueDelivery(v)
  <2>1. PICK v \in Event : QueueDelivery(v)  BY <1>4
  <2>2. trigger' \in [Event -> Triggers]  BY <2>1, <1>t DEF QueueDelivery, AfterQueue, Triggers
  <2>3. JobsTyped'
    <3>1. PICK n \in JobNo : job' = [job EXCEPT ![<<v, trigger[v].at>>][n].step = "waiting"]
          BY <2>1 DEF QueueDelivery, Queue
    <3> DEFINE d == <<v, trigger[v].at>>
    <3>2. CASE d \in Delivery
      <4>1. Queue(d)  BY <2>1 DEF QueueDelivery
      <4> HIDE DEF d
      <4>2. PICK m \in JobNo : JobMoves(d, m, {"waiting"})  BY <1>t, <3>2, <4>1, QueueMoves
      <4> QED BY <4>2 DEF JobMoves
    <3>3. CASE d \notin Delivery  BY <1>t, <3>1, <3>3 DEF JobsTyped
    <3> QED BY <3>2, <3>3
  <2> QED BY <2>1, <1>t, <2>2, <2>3 DEF QueueDelivery, rows, Typed
<1>5. CASE \E v \in Event, e \in Endpoint : StoreDelivery(v, e)
  <2>1. PICK v \in Event, e \in Endpoint : StoreDelivery(v, e)  BY <1>5
  <2>2. trigger' \in [Event -> Triggers]  BY <2>1, <1>t DEF StoreDelivery, Triggers
  <2>3. [status |-> "PENDING", attempt |-> 1] \in Rows  BY DEF Rows
  <2>4. delivery' \in [Delivery -> Rows]  BY <2>1, <1>t, <2>3 DEF StoreDelivery
  <2> QED BY <2>1, <1>t, <2>2, <2>4 DEF StoreDelivery, Typed, JobsTyped
<1>6. CASE \E v \in Event : AbandonEvent(v)
  <2>1. trigger' \in [Event -> Triggers]  BY <1>6, <1>t DEF AbandonEvent, Triggers
  <2> QED BY <1>6, <1>t, <2>1 DEF AbandonEvent, rows, Typed, JobsTyped
<1>7. CASE \E r \in Replay, d \in Delivery : ReplayDelivery(r, d)
  <2>1. replay' \in [Replay -> Replays]  BY <1>7, <1>t DEF ReplayDelivery, Replays
  <2> QED BY <1>7, <1>t, <2>1 DEF ReplayDelivery, rows, Typed, JobsTyped
<1>8. CASE \E r \in Replay : ResetDelivery(r)
  <2>1. PICK r \in Replay : ResetDelivery(r)  BY <1>8
  <2>2. replay' \in [Replay -> Replays] /\ replay[r].of \in Delivery  BY <2>1, <1>t DEF ResetDelivery, Replays
  <2>3. delivery' \in [Delivery -> Rows]  BY <2>1, <2>2, WriteType DEF ResetDelivery
  <2> QED BY <2>1, <1>t, <2>2, <2>3 DEF ResetDelivery, Typed, JobsTyped
<1>9. CASE \E r \in Replay : QueueReplay(r)
  <2>1. PICK r \in Replay : QueueReplay(r)  BY <1>9
  <2>2. replay' \in [Replay -> Replays] /\ replay[r].of \in Delivery  BY <2>1, <1>t DEF QueueReplay, Replays
  <2>3. PICK n \in JobNo : JobMoves(replay[r].of, n, {"waiting"})
        BY <1>t, <2>1, <2>2, QueueMoves DEF QueueReplay
  <2> QED BY <2>1, <1>t, <2>2, <2>3 DEF QueueReplay, rows, Typed, JobMoves
<1>10. CASE \E r \in Replay : AbandonReplay(r)
  <2>1. replay' \in [Replay -> Replays]  BY <1>10, <1>t DEF AbandonReplay, Replays
  <2> QED BY <1>10, <1>t, <2>1 DEF AbandonReplay, rows, Typed, JobsTyped
<1>11. CASE \E d \in Delivery, n \in JobNo : TakeJob(d, n) \/ Retry(d, n) \/ Stall(d, n)
  <2>1. JobsTyped'  BY <1>11, <1>t, WorkMoves DEF JobMoves
  <2> QED BY <1>11, <1>t, <2>1 DEF TakeJob, Retry, Stall, rows, Typed
<1>12. CASE \E d \in Delivery, n \in JobNo : Post(d, n)
  <2>1. JobsTyped'  BY <1>12, <1>t, PostMoves DEF JobMoves
  <2> QED BY <1>12, <1>t, <2>1 DEF Post, rows, Typed
<1>13. CASE \E d \in Delivery, n \in JobNo : WriteSuccess(d, n) \/ WriteRefused(d, n) \/ WriteFailure(d, n)
  <2>1. PICK d \in Delivery, n \in JobNo : WriteSuccess(d, n) \/ WriteRefused(d, n) \/ WriteFailure(d, n)
        BY <1>13
  <2>2. JobsTyped'  BY <2>1, <1>t, WorkMoves DEF JobMoves
  <2>3. delivery' \in [Delivery -> Rows]
        BY <2>1, <1>t, WriteType, AttemptType DEF WriteSuccess, WriteRefused, WriteFailure
  <2>4. UNCHANGED <<trigger, replay>>  BY <2>1 DEF WriteSuccess, WriteRefused, WriteFailure
  <2> QED BY <1>t, <2>2, <2>3, <2>4 DEF Typed
<1>14. CASE UNCHANGED vars
  BY <1>14, <1>t DEF vars, Typed, JobsTyped
<1> QED BY <1>1, <1>2, <1>3, <1>4, <1>5, <1>6, <1>7, <1>8, <1>9, <1>10, <1>11, <1>12, <1>13, <1>14 DEF Step

\* Every step keeps the others.
LEMMA PlainStep ==
  ASSUME Typed, Plain, Step
  PROVE  Plain'
<1>t. /\ endpoint \in [Endpoint -> Present \cup {"none", "deleted"}] /\ changes \in 0 .. MaxChanges
      /\ posts \in [Delivery -> Nat] /\ accepted \subseteq Delivery /\ overlapped \subseteq Delivery
      BY DEF Plain
<1>1. CASE \E e \in Endpoint : Create(e) \/ UpdateEndpoint(e) \/ Delete(e)
  <2>1. PICK e \in Endpoint : Create(e) \/ UpdateEndpoint(e) \/ Delete(e)  BY <1>1
  <2>2. endpoint' \in [Endpoint -> Present \cup {"none", "deleted"}]
        BY <2>1, <1>t DEF Create, UpdateEndpoint, Delete, Change, Present, Enabled
  <2>3. changes' \in 0 .. MaxChanges  BY <2>1, <1>t DEF Create, UpdateEndpoint, Delete, Change
  <2> QED BY <2>1, <1>t, <2>2, <2>3 DEF Create, UpdateEndpoint, Delete, seen, Plain
<1>2. CASE \E v \in Event : FindEndpoints(v) \/ QueueDelivery(v) \/ AbandonEvent(v) \/ \E e \in Endpoint : StoreDelivery(v, e)
  BY <1>2, <1>t DEF FindEndpoints, QueueDelivery, AbandonEvent, StoreDelivery, rows, seen, Plain
<1>3. CASE \E r \in Replay : AbandonReplay(r) \/ \E d \in Delivery : ReplayDelivery(r, d)
  BY <1>3, <1>t DEF AbandonReplay, ReplayDelivery, rows, seen, Plain
<1>4. CASE \E r \in Replay : ResetDelivery(r) \/ QueueReplay(r)
  <2>1. PICK r \in Replay : ResetDelivery(r) \/ QueueReplay(r)  BY <1>4
  <2>2. replay[r].of \in Delivery  BY DEF Typed, Replays
  <2>3. overlapped' \subseteq Delivery  BY <2>1, <1>t, <2>2 DEF ResetDelivery, QueueReplay, Mark
  <2> QED BY <2>1, <1>t, <2>3 DEF ResetDelivery, QueueReplay, rows, Plain
<1>5. CASE \E d \in Delivery, n \in JobNo : Post(d, n)
  <2>1. PICK d \in Delivery, n \in JobNo : Post(d, n)  BY <1>5
  <2>2. accepted' \subseteq Delivery  BY <2>1, <1>t DEF Post
  <2>3. posts' = posts \/ posts' = [posts EXCEPT ![d] = posts[d] + 1]  BY <2>1 DEF Post
  <2>4. posts' \in [Delivery -> Nat]  BY <1>t, <2>3
  <2> QED BY <2>1, <1>t, <2>2, <2>4 DEF Post, rows, Plain
<1>6. CASE \E d \in Delivery, n \in JobNo : TakeJob(d, n) \/ Retry(d, n) \/ Stall(d, n)
  BY <1>6, <1>t DEF TakeJob, Retry, Stall, rows, seen, Plain
<1>7. CASE \E d \in Delivery, n \in JobNo : WriteSuccess(d, n) \/ WriteRefused(d, n) \/ WriteFailure(d, n)
  BY <1>7, <1>t DEF WriteSuccess, WriteRefused, WriteFailure, seen, Plain
<1>8. CASE UNCHANGED vars
  BY <1>8, <1>t DEF vars, Plain
<1> QED BY <1>1, <1>2, <1>3, <1>4, <1>5, <1>6, <1>7, <1>8 DEF Step

\* The webhooks keep their types.
THEOREM WebhookTypeCorrect == Spec => []TypeOK
<1>1. Init => Typed /\ Plain  BY TypeInit
<1>2. (Typed /\ Plain) /\ [Next]_vars => (Typed /\ Plain)'  BY StepOfNext, TypeStep, PlainStep
<1>3. Typed /\ Plain => TypeOK  BY TypesTogether
<1> QED BY <1>1, <1>2, <1>3, PTL DEF Spec

-----------------------------------------------------------------------------
(* SUCCESS means accepted.                                                 *)

\* It holds at the start.
LEMMA AcceptedInit ==
  ASSUME Init
  PROVE  AcceptedInv
  BY DEF Init, AcceptedInv, SuccessIsAccepted, NoRow, NoJob, JobAt

\* Every step keeps it.
LEMMA AcceptedStep ==
  ASSUME Typed, AcceptedInv, Step
  PROVE  AcceptedInv'
<1>t. delivery \in [Delivery -> Rows] /\ JobsTyped  BY DEF Typed
<1>f. ASSUME accepted \subseteq accepted',
             \A d \in Delivery : delivery'[d].status = "SUCCESS" => delivery[d].status = "SUCCESS" \/ d \in accepted',
             \A d \in Delivery, n \in JobNo : job'[d][n].step = "writeSuccess" =>
                job[d][n].step = "writeSuccess" \/ d \in accepted'
      PROVE  AcceptedInv'
  <2>1. SuccessIsAccepted'  BY <1>f DEF AcceptedInv, SuccessIsAccepted
  <2>2. \A d \in Delivery, n \in JobNo : job'[d][n].step = "writeSuccess" => d \in accepted'
        BY <1>f DEF AcceptedInv, JobAt
  <2> QED BY <2>1, <2>2 DEF AcceptedInv, JobAt
<1>1. CASE \E e \in Endpoint : Create(e) \/ UpdateEndpoint(e) \/ Delete(e)
  <2>1. UNCHANGED <<accepted, job>>  BY <1>1 DEF Create, UpdateEndpoint, Delete, seen
  <2>2. \A d \in Delivery : delivery'[d].status = "SUCCESS" => delivery[d].status = "SUCCESS"
        BY <1>1, <1>t DEF Create, UpdateEndpoint, Delete, NoRow
  <2> QED BY <1>f, <2>1, <2>2
<1>2. CASE \E v \in Event : FindEndpoints(v) \/ AbandonEvent(v)
  BY <1>2, <1>f DEF FindEndpoints, AbandonEvent, rows, seen
<1>3. CASE \E v \in Event, e \in Endpoint : StoreDelivery(v, e)
  <2>1. UNCHANGED <<accepted, job>>  BY <1>3 DEF StoreDelivery, seen
  <2>2. \A d \in Delivery : delivery'[d].status = "SUCCESS" => delivery[d].status = "SUCCESS"
        BY <1>3, <1>t DEF StoreDelivery
  <2> QED BY <1>f, <2>1, <2>2
<1>4. CASE \E v \in Event : QueueDelivery(v)
  <2>1. PICK v \in Event : QueueDelivery(v)  BY <1>4
  <2>2. UNCHANGED <<accepted, delivery>>  BY <2>1 DEF QueueDelivery, rows, seen
  <2>3. PICK n \in JobNo : job' = [job EXCEPT ![<<v, trigger[v].at>>][n].step = "waiting"]
        BY <2>1 DEF QueueDelivery, Queue
  <2>4. \A d \in Delivery, m \in JobNo : job'[d][m].step = "writeSuccess" => job[d][m].step = "writeSuccess"
        BY <1>t, <2>3 DEF JobsTyped, Jobs
  <2> QED BY <1>f, <2>2, <2>4
<1>5. CASE \E r \in Replay : AbandonReplay(r) \/ \E d \in Delivery : ReplayDelivery(r, d)
  BY <1>5, <1>f DEF AbandonReplay, ReplayDelivery, rows, seen
<1>6. CASE \E r \in Replay : ResetDelivery(r)
  <2>1. PICK r \in Replay : ResetDelivery(r)  BY <1>6
  <2>2. replay[r].of \in Delivery  BY DEF Typed, Replays
  <2>3. UNCHANGED <<accepted, job>>  BY <2>1 DEF ResetDelivery
  <2>4. \A d \in Delivery : delivery'[d].status = "SUCCESS" => delivery[d].status = "SUCCESS"
        BY <2>1, <2>2, WriteType DEF ResetDelivery
  <2> QED BY <1>f, <2>3, <2>4
<1>7. CASE \E r \in Replay : QueueReplay(r)
  <2>1. PICK r \in Replay : QueueReplay(r)  BY <1>7
  <2>2. replay[r].of \in Delivery  BY DEF Typed, Replays
  <2>3. UNCHANGED <<accepted, delivery>>  BY <2>1 DEF QueueReplay, rows
  <2>4. PICK n \in JobNo : JobMoves(replay[r].of, n, {"waiting"})
        BY <1>t, <2>1, <2>2, QueueMoves DEF QueueReplay
  <2> QED BY <1>f, <2>3, <2>4 DEF JobMoves
<1>8. CASE \E d \in Delivery, n \in JobNo : TakeJob(d, n) \/ Retry(d, n) \/ Stall(d, n)
  <2>1. PICK d \in Delivery, n \in JobNo : TakeJob(d, n) \/ Retry(d, n) \/ Stall(d, n)  BY <1>8
  <2>2. UNCHANGED <<accepted, delivery>>  BY <2>1 DEF TakeJob, Retry, Stall, rows, seen
  <2>3. JobMoves(d, n, {"throw", "post", "skipped", "waiting", "dead"})
        BY <1>t, <2>1, WorkMoves DEF JobMoves
  <2> QED BY <1>f, <2>2, <2>3 DEF JobMoves
<1>9. CASE \E d \in Delivery, n \in JobNo : Post(d, n)
  <2>1. PICK d \in Delivery, n \in JobNo : Post(d, n)  BY <1>9
  <2>2. delivery' = delivery  BY <2>1 DEF Post, rows
  <2>3. CASE JobMoves(d, n, {"writeSuccess"}) /\ accepted' = accepted \cup {d}
        BY <1>f, <2>2, <2>3 DEF JobMoves
  <2>4. CASE JobMoves(d, n, {"writeRefused", "writeFailure"}) /\ accepted' = accepted
        BY <1>f, <2>2, <2>4 DEF JobMoves
  <2> QED BY <1>t, <2>1, <2>3, <2>4, PostMoves
<1>10. CASE \E d \in Delivery, n \in JobNo : WriteSuccess(d, n)
  <2>1. PICK d \in Delivery, n \in JobNo : WriteSuccess(d, n)  BY <1>10
  <2>2. accepted' = accepted /\ d \in accepted  BY <2>1 DEF WriteSuccess, seen, AcceptedInv
  <2>3. JobMoves(d, n, {"done", "writeFailure"})  BY <1>t, <2>1, WorkMoves
  <2>4. \A x \in Delivery : x # d => delivery'[x] = delivery[x]
        BY <2>1, WriteType, AttemptType DEF WriteSuccess
  <2> QED BY <1>f, <2>2, <2>3, <2>4 DEF JobMoves
<1>11. CASE \E d \in Delivery, n \in JobNo : WriteRefused(d, n) \/ WriteFailure(d, n)
  <2>1. PICK d \in Delivery, n \in JobNo : WriteRefused(d, n) \/ WriteFailure(d, n)  BY <1>11
  <2>2. accepted' = accepted  BY <2>1 DEF WriteRefused, WriteFailure, seen
  <2>3. JobMoves(d, n, {"throw", "writeFailure"})  BY <1>t, <2>1, WorkMoves DEF JobMoves
  <2>4. \A x \in Delivery : delivery'[x].status = "SUCCESS" => delivery[x].status = "SUCCESS"
        BY <2>1, WriteType, AttemptType DEF WriteRefused, WriteFailure
  <2> QED BY <1>f, <2>2, <2>3, <2>4 DEF JobMoves
<1>12. CASE UNCHANGED vars
  BY <1>12, <1>f DEF vars
<1> QED BY <1>1, <1>2, <1>3, <1>4, <1>5, <1>6, <1>7, <1>8, <1>9, <1>10, <1>11, <1>12 DEF Step

\* A delivery is shown as SUCCESS only if its endpoint has answered it with a 2xx:
\* processors of overlapping jobs and replays write one row, each from what it saw.
THEOREM SuccessAccepted == Spec => []SuccessIsAccepted
<1>1. Init => Typed /\ Plain /\ AcceptedInv  BY TypeInit, AcceptedInit
<1>2. (Typed /\ Plain /\ AcceptedInv) /\ [Next]_vars => (Typed /\ Plain /\ AcceptedInv)'
      BY StepOfNext, TypeStep, PlainStep, AcceptedStep
<1>3. AcceptedInv => SuccessIsAccepted  BY DEF AcceptedInv
<1> QED BY <1>1, <1>2, <1>3, PTL DEF Spec

-----------------------------------------------------------------------------
(* triggerEvent's loop.                                                    *)

\* It holds at the start.
LEMMA LoopInit ==
  ASSUME Init
  PROVE  LoopInv
  BY DEF Init, LoopInv, LoopOf, Stored, Delivery

\* An event's part is kept by the steps that leave its handler alone, lose no job
\* and store no row.
LEMMA LoopFrame ==
  ASSUME Typed, NEW v \in Event, LoopOf(v), trigger'[v] = trigger[v],
         \A e \in Endpoint : job[<<v, e>>][1] # NoJob => job'[<<v, e>>][1] # NoJob,
         \A e \in Endpoint : Stored(<<v, e>>)' => Stored(<<v, e>>)
  PROVE  LoopOf(v)'
<1>1. trigger[v].matched \subseteq Endpoint  BY DEF Typed, Triggers
<1> QED BY <1>1 DEF LoopOf

\* Every step keeps it.
LEMMA LoopStep ==
  ASSUME Typed, LoopInv, Step
  PROVE  LoopInv'
<1>t. trigger \in [Event -> Triggers] /\ delivery \in [Delivery -> Rows] /\ JobsTyped  BY DEF Typed
<1>l. \A v \in Event : LoopOf(v)  BY DEF LoopInv
<1>d. \A v \in Event, e \in Endpoint : <<v, e>> \in Delivery  BY DEF Delivery
<1>f. ASSUME trigger' = trigger,
             \A d \in Delivery : job[d][1] # NoJob => job'[d][1] # NoJob,
             \A d \in Delivery : Stored(d)' => Stored(d)
      PROVE  LoopInv'
  <2>1. \A v \in Event : LoopOf(v)'  BY <1>f, <1>d, <1>l, LoopFrame
  <2> QED BY <2>1 DEF LoopInv
<1>m. \A S : \A d \in Delivery, n \in JobNo : JobMoves(d, n, S) =>
         \A x \in Delivery : job[x][1] # NoJob => job'[x][1] # NoJob
  BY FirstJob DEF JobMoves
<1>1. CASE \E e \in Endpoint : Create(e) \/ UpdateEndpoint(e) \/ Delete(e)
  <2>1. UNCHANGED <<trigger, job>>  BY <1>1 DEF Create, UpdateEndpoint, Delete
  <2>2. \A d \in Delivery : Stored(d)' => Stored(d)
        BY <1>1 DEF Create, UpdateEndpoint, Delete, Stored
  <2> QED BY <1>f, <2>1, <2>2
<1>2. CASE \E v \in Event : FindEndpoints(v)
  <2>1. PICK v \in Event : FindEndpoints(v)  BY <1>2
  <2> DEFINE matched == {e \in Endpoint : endpoint[e] = "on"}
  <2>2. trigger[v].step = "idle" /\ UNCHANGED <<delivery, job>>  BY <2>1 DEF FindEndpoints, rows
  <2>3. trigger'[v] = [step |-> IF matched = {} THEN "done" ELSE "loop",
                       matched |-> matched, todo |-> matched, at |-> NoEndpoint]
        BY <2>1, <1>t DEF FindEndpoints
  <2>4. \A w \in Event : w # v => trigger'[w] = trigger[w]  BY <2>1, <1>t DEF FindEndpoints
  <2>5. \A e \in Endpoint : ~Stored(<<v, e>>)  BY <2>2, <1>l DEF LoopOf
  <2>6. \A e \in Endpoint : ~Stored(<<v, e>>)'  BY <2>2, <2>5 DEF Stored
  <2>7. LoopOf(v)'  BY <2>3, <2>6 DEF LoopOf
  <2>8. \A w \in Event : w # v => LoopOf(w)'  BY <1>l, <2>2, <2>4, LoopFrame DEF Stored
  <2> QED BY <2>7, <2>8 DEF LoopInv
<1>3. CASE \E v \in Event : QueueDelivery(v)
  <2>1. PICK v \in Event : QueueDelivery(v)  BY <1>3
  <2> DEFINE at == trigger[v].at
  <2>2. trigger[v].step = "queue" /\ delivery' = delivery  BY <2>1 DEF QueueDelivery, rows
  <2>3. at \in Endpoint /\ <<v, at>> \in Delivery  BY <1>d, <1>l, <2>2 DEF LoopOf
  <2>4. (\E n \in JobNo : JobMoves(<<v, at>>, n, {"waiting"})) /\ job'[<<v, at>>][1] # NoJob
        BY <1>t, <2>1, <2>3, QueueMoves DEF QueueDelivery
  <2>5. \A x \in Delivery : job[x][1] # NoJob => job'[x][1] # NoJob  BY <1>m, <2>3, <2>4
  <2>6. /\ trigger'[v].step = AfterQueue(v) /\ trigger'[v].at = at
        /\ trigger'[v].matched = trigger[v].matched /\ trigger'[v].todo = trigger[v].todo
        /\ \A w \in Event : w # v => trigger'[w] = trigger[w]
        BY <2>1, <1>t DEF QueueDelivery, Triggers
  <2>7. trigger[v].matched \subseteq Endpoint  BY <1>t DEF Triggers
  <2>8. \A e \in trigger[v].matched \ trigger[v].todo : job'[<<v, e>>][1] # NoJob
        BY <1>d, <1>l, <2>4, <2>5, <2>7 DEF LoopOf
  <2>9. \A e \in Endpoint : Stored(<<v, e>>)' => e \in trigger[v].matched \ trigger[v].todo
        BY <1>l, <2>2 DEF LoopOf, Stored
  <2>a. /\ trigger'[v].step \in {"loop", "done"}
        /\ trigger'[v].step = "done" => trigger'[v].todo = {}
        /\ trigger'[v].todo \subseteq trigger'[v].matched
        BY <1>l, <2>6 DEF LoopOf, AfterQueue
  <2>10. LoopOf(v)'  BY <2>6, <2>8, <2>9, <2>a DEF LoopOf
  <2>11. \A w \in Event : w # v => LoopOf(w)'
         BY <1>d, <1>l, <2>2, <2>5, <2>6, LoopFrame DEF Stored
  <2> QED BY <2>10, <2>11 DEF LoopInv
<1>4. CASE \E v \in Event, e \in Endpoint : StoreDelivery(v, e)
  <2>1. PICK v \in Event, e \in Endpoint : StoreDelivery(v, e)  BY <1>4
  <2>2. /\ trigger[v].step = "loop" /\ e \in trigger[v].todo /\ job' = job
        BY <2>1 DEF StoreDelivery, AtLoop
  <2>3. /\ trigger'[v].step = "queue" /\ trigger'[v].at = e
        /\ trigger'[v].matched = trigger[v].matched /\ trigger'[v].todo = trigger[v].todo \ {e}
        /\ \A w \in Event : w # v => trigger'[w] = trigger[w]
        BY <2>1, <1>t DEF StoreDelivery, Triggers
  <2>4. \A d \in Delivery : d # <<v, e>> => delivery'[d] = delivery[d]
        BY <2>1, <1>t DEF StoreDelivery
  <2>5. \A x \in trigger[v].matched \ trigger[v].todo : job[<<v, x>>][1] # NoJob
        BY <1>l, <2>2 DEF LoopOf
  <2>6. e \in trigger[v].matched  BY <1>l, <2>2 DEF LoopOf
  <2>7. \A x \in trigger'[v].matched \ trigger'[v].todo : job'[<<v, x>>][1] # NoJob \/ x = trigger'[v].at
        BY <2>2, <2>3, <2>5
  <2>8. \A x \in Endpoint : Stored(<<v, x>>)' => x \in trigger[v].matched \ trigger[v].todo \/ x = e
        BY <1>d, <1>l, <2>4 DEF LoopOf, Stored
  <2>9. trigger'[v].todo \subseteq trigger'[v].matched  BY <1>l, <2>3 DEF LoopOf
  <2>10. LoopOf(v)'  BY <2>3, <2>6, <2>7, <2>8, <2>9 DEF LoopOf
  <2>11. ASSUME NEW w \in Event, w # v
         PROVE  LoopOf(w)'
    <3>1. \A x \in Endpoint : delivery'[<<w, x>>] = delivery[<<w, x>>]  BY <1>d, <2>4, <2>11
    <3> QED BY <1>l, <2>2, <2>3, <2>11, <3>1, LoopFrame DEF Stored
  <2> QED BY <2>10, <2>11 DEF LoopInv
<1>5. CASE \E v \in Event : AbandonEvent(v)
  <2>1. PICK v \in Event : AbandonEvent(v)  BY <1>5
  <2>2. UNCHANGED <<delivery, job>> /\ trigger[v].step \in {"loop", "queue"}  BY <2>1 DEF AbandonEvent, rows
  <2>3. /\ trigger'[v].step = "lost" /\ trigger'[v].at = trigger[v].at
        /\ trigger'[v].matched = trigger[v].matched /\ trigger'[v].todo = trigger[v].todo
        /\ \A w \in Event : w # v => trigger'[w] = trigger[w]
        BY <2>1, <1>t DEF AbandonEvent, Triggers
  <2>4. LoopOf(v)'  BY <1>l, <2>2, <2>3 DEF LoopOf, Stored
  <2>5. \A w \in Event : w # v => LoopOf(w)'  BY <1>l, <2>2, <2>3, LoopFrame DEF Stored
  <2> QED BY <2>4, <2>5 DEF LoopInv
<1>6. CASE \E r \in Replay : AbandonReplay(r) \/ \E d \in Delivery : ReplayDelivery(r, d)
  BY <1>6, <1>f DEF AbandonReplay, ReplayDelivery, rows, Stored
<1>7. CASE \E r \in Replay : ResetDelivery(r)
  <2>1. PICK r \in Replay : ResetDelivery(r)  BY <1>7
  <2>2. replay[r].of \in Delivery  BY DEF Typed, Replays
  <2>3. UNCHANGED <<trigger, job>>  BY <2>1 DEF ResetDelivery
  <2>4. \A d \in Delivery : Stored(d)' => Stored(d)
        BY <2>1, <2>2, WriteType DEF ResetDelivery, Stored
  <2> QED BY <1>f, <2>3, <2>4
<1>8. CASE \E r \in Replay : QueueReplay(r)
  <2>1. PICK r \in Replay : QueueReplay(r)  BY <1>8
  <2>2. replay[r].of \in Delivery  BY DEF Typed, Replays
  <2>3. UNCHANGED <<trigger, delivery>>  BY <2>1 DEF QueueReplay, rows
  <2>4. PICK n \in JobNo : JobMoves(replay[r].of, n, {"waiting"})
        BY <1>t, <2>1, <2>2, QueueMoves DEF QueueReplay
  <2>5. \A x \in Delivery : job[x][1] # NoJob => job'[x][1] # NoJob  BY <1>m, <2>2, <2>4
  <2> QED BY <1>f, <2>3, <2>5 DEF Stored
<1>9. CASE \E d \in Delivery, n \in JobNo : TakeJob(d, n) \/ Retry(d, n) \/ Stall(d, n)
  <2>1. PICK d \in Delivery, n \in JobNo : TakeJob(d, n) \/ Retry(d, n) \/ Stall(d, n)  BY <1>9
  <2>2. UNCHANGED <<trigger, delivery>>  BY <2>1 DEF TakeJob, Retry, Stall, rows
  <2>3. \E S : JobMoves(d, n, S)  BY <1>t, <2>1, WorkMoves
  <2>4. \A x \in Delivery : job[x][1] # NoJob => job'[x][1] # NoJob  BY <1>m, <2>3
  <2> QED BY <1>f, <2>2, <2>4 DEF Stored
<1>10. CASE \E d \in Delivery, n \in JobNo : Post(d, n)
  <2>1. PICK d \in Delivery, n \in JobNo : Post(d, n)  BY <1>10
  <2>2. UNCHANGED <<trigger, delivery>>  BY <2>1 DEF Post, rows
  <2>3. \E S : JobMoves(d, n, S)  BY <1>t, <2>1, PostMoves
  <2>4. \A x \in Delivery : job[x][1] # NoJob => job'[x][1] # NoJob  BY <1>m, <2>3
  <2> QED BY <1>f, <2>2, <2>4 DEF Stored
<1>11. CASE \E d \in Delivery, n \in JobNo : WriteSuccess(d, n) \/ WriteRefused(d, n) \/ WriteFailure(d, n)
  <2>1. PICK d \in Delivery, n \in JobNo : WriteSuccess(d, n) \/ WriteRefused(d, n) \/ WriteFailure(d, n)
        BY <1>11
  <2>2. trigger' = trigger  BY <2>1 DEF WriteSuccess, WriteRefused, WriteFailure
  <2>3. \E S : JobMoves(d, n, S)  BY <1>t, <2>1, WorkMoves
  <2>4. \A x \in Delivery : job[x][1] # NoJob => job'[x][1] # NoJob  BY <1>m, <2>3
  <2>5. delivery' = delivery \/ (Stored(d) /\ \A x \in Delivery : x # d => delivery'[x] = delivery[x])
        BY <2>1, WriteType, AttemptType DEF WriteSuccess, WriteRefused, WriteFailure
  <2>6. \A x \in Delivery : Stored(x)' => Stored(x)  BY <2>5 DEF Stored
  <2> QED BY <1>f, <2>2, <2>4, <2>6
<1>12. CASE UNCHANGED vars
  BY <1>12, <1>f DEF vars, Stored
<1> QED BY <1>1, <1>2, <1>3, <1>4, <1>5, <1>6, <1>7, <1>8, <1>9, <1>10, <1>11, <1>12 DEF Step

\* When triggerEvent ran to its end, every endpoint it matched got a job, whatever
\* happened to the endpoint meanwhile.
THEOREM MatchQueued == Spec => []EveryMatchQueued
<1>1. Init => Typed /\ LoopInv  BY TypeInit, LoopInit
<1>2. (Typed /\ LoopInv) /\ [Next]_vars => (Typed /\ LoopInv)'  BY StepOfNext, TypeStep, LoopStep
<1>3. Typed /\ LoopInv => EveryMatchQueued
  BY DEF Typed, Triggers, LoopInv, LoopOf, EveryMatchQueued
<1> QED BY <1>1, <1>2, <1>3, PTL DEF Spec

\* An event strands at most one delivery, stored and never queued: the loop stores
\* the next one after it has queued the one before, and ends where it fails.
THEOREM OneStranded == Spec => []OneStrandedPerEvent
<1>1. Init => Typed /\ LoopInv  BY TypeInit, LoopInit
<1>2. (Typed /\ LoopInv) /\ [Next]_vars => (Typed /\ LoopInv)'  BY StepOfNext, TypeStep, LoopStep
<1>3. LoopInv => OneStrandedPerEvent
  <2> SUFFICES ASSUME LoopInv, NEW v \in Event
               PROVE  Cardinality({e \in Endpoint : Stored(<<v, e>>) /\ job[<<v, e>>][1] = NoJob}) <= 1
      BY DEF OneStrandedPerEvent
  <2> DEFINE S == {e \in Endpoint : Stored(<<v, e>>) /\ job[<<v, e>>][1] = NoJob}
  <2>1. S \subseteq {trigger[v].at}  BY DEF LoopInv, LoopOf
  <2>2. CASE S = {}
    <3>1. Cardinality(S) = 0  BY <2>2, FS_EmptySet
    <3> QED BY <3>1
  <2>3. CASE S = {trigger[v].at}
    <3>1. Cardinality(S) = 1  BY <2>3, FS_Singleton
    <3> QED BY <3>1
  <2> QED BY <2>1, <2>2, <2>3
<1> QED BY <1>1, <1>2, <1>3, PTL DEF Spec

-----------------------------------------------------------------------------
(* Posts.                                                                  *)

\* How the record of a job may change in a step.
Advances(j, k) ==
    \/ k = j
    \/ /\ k.made = j.made /\ k.stalls = j.stalls
       /\ \/ j = NoJob /\ k.step = "waiting"
          \/ j.step = "waiting" /\ k.step \in {"throw", "post", "skipped"}
          \/ j.step = "post" /\ k.step \in {"writeSuccess", "writeRefused", "writeFailure"}
          \/ j.step \in {"writeSuccess", "writeRefused", "writeFailure"} /\ k.step \in {"done", "writeFailure", "throw"}
    \/ /\ j.step = "throw" /\ k.made = j.made + 1 /\ k.stalls = j.stalls
       /\ k.step = IF k.made < MaxJobAttempts THEN "waiting" ELSE "dead"
    \/ /\ j.step \in Working /\ k.made = j.made /\ k.stalls = j.stalls + 1
       /\ k.step = IF j.stalls < MaxStalls THEN "waiting" ELSE "dead"

\* A job never begins more runs than it is granted, and unbegins none.
LEMMA AdvanceKeeps ==
  ASSUME NEW j \in Jobs, NEW k \in Jobs, RunsOf(j), Advances(j, k)
  PROVE  RunsOf(k) /\ Begun(j) <= Begun(k)
<1>t. /\ j.made \in Nat /\ j.stalls \in Nat /\ k.made \in Nat /\ k.stalls \in Nat
      /\ MaxJobAttempts \in Nat /\ MaxJobAttempts > 0 /\ MaxStalls \in Nat
      BY DEF Jobs, WebhookAssumption
<1>1. CASE k = j  BY <1>1, <1>t DEF Begun
<1>2. CASE k.made = j.made /\ k.stalls = j.stalls /\ j = NoJob /\ k.step = "waiting"
      BY <1>2, <1>t DEF NoJob, RunsOf, Begun, MaxRuns, Working
<1>3. CASE k.made = j.made /\ k.stalls = j.stalls /\ j.step = "waiting" /\ k.step \in {"throw", "post", "skipped"}
      BY <1>3, <1>t DEF RunsOf, Begun, MaxRuns, Working
<1>4. CASE /\ k.made = j.made /\ k.stalls = j.stalls /\ j.step = "post"
           /\ k.step \in {"writeSuccess", "writeRefused", "writeFailure"}
      BY <1>4, <1>t DEF RunsOf, Begun, MaxRuns, Working
<1>5. CASE /\ k.made = j.made /\ k.stalls = j.stalls /\ j.step \in {"writeSuccess", "writeRefused", "writeFailure"}
           /\ k.step \in {"done", "writeFailure", "throw"}
      BY <1>5, <1>t DEF RunsOf, Begun, MaxRuns, Working
<1>6. CASE /\ j.step = "throw" /\ k.made = j.made + 1 /\ k.stalls = j.stalls
           /\ k.step = IF k.made < MaxJobAttempts THEN "waiting" ELSE "dead"
      BY <1>6, <1>t DEF RunsOf, Begun, MaxRuns, Working
<1>7. CASE /\ j.step \in Working /\ k.made = j.made /\ k.stalls = j.stalls + 1
           /\ k.step = IF j.stalls < MaxStalls THEN "waiting" ELSE "dead"
      BY <1>7, <1>t DEF RunsOf, Begun, MaxRuns, Working
<1> QED BY <1>1, <1>2, <1>3, <1>4, <1>5, <1>6, <1>7 DEF Advances

\* An assignment to one job leaves the others.
LEMMA OneAdvances ==
  ASSUME JobsTyped, NEW x \in Delivery, NEW m \in JobNo, NEW new, job' = [job EXCEPT ![x][m] = new],
         Advances(job[x][m], new), NEW d \in Delivery, NEW n \in JobNo
  PROVE  Advances(job[d][n], job'[d][n])
<1>1. job'[d][n] = IF d = x /\ n = m THEN new ELSE job[d][n]  BY DEF JobsTyped
<1> QED BY <1>1 DEF Advances

\* What a step of the worker or of BullMQ makes of a job's record.
LEMMA StepFields ==
  ASSUME JobsTyped, NEW d \in Delivery, NEW n \in JobNo, NEW s
  PROVE  /\ [job[d][n] EXCEPT !.step = s].step = s
         /\ [job[d][n] EXCEPT !.step = s].made = job[d][n].made
         /\ [job[d][n] EXCEPT !.step = s].stalls = job[d][n].stalls
<1>1. job[d][n] \in Jobs  BY DEF JobsTyped
<1> QED BY <1>1 DEF Jobs

\* Every step advances the jobs so.
LEMMA AllAdvance ==
  ASSUME Typed, Step, NEW d \in Delivery, NEW n \in JobNo
  PROVE  Advances(job[d][n], job'[d][n])
<1>t. JobsTyped /\ job \in [Delivery -> [JobNo -> Jobs]]  BY DEF Typed, JobsTyped
<1>k. CASE job' = job  BY <1>k DEF Advances
<1>q. ASSUME NEW x, Queue(x)  PROVE Advances(job[d][n], job'[d][n])
  <2>1. PICK m \in JobNo : job[x][m] = NoJob /\ job' = [job EXCEPT ![x][m].step = "waiting"]
        BY <1>q DEF Queue
  <2>2. CASE x \in Delivery
    <3> DEFINE new == [job[x][m] EXCEPT !.step = "waiting"]
    <3>1. job' = [job EXCEPT ![x][m] = new]  BY <2>1
    <3>2. new.step = "waiting" /\ new.made = job[x][m].made /\ new.stalls = job[x][m].stalls
          BY <2>2, <1>t, StepFields
    <3> HIDE DEF new
    <3>3. Advances(job[x][m], new)  BY <2>1, <3>2 DEF Advances
    <3> QED BY <1>t, <2>2, <3>1, <3>3, OneAdvances
  <2>3. CASE x \notin Delivery
    <3>1. job' = job  BY <2>1, <2>3, <1>t
    <3> QED BY <3>1, <1>k
  <2> QED BY <2>2, <2>3
<1>g. ASSUME NEW x \in Delivery, NEW m \in JobNo, NEW s, JobGoto(x, m, s),
             \/ job[x][m].step = "waiting" /\ s \in {"throw", "post", "skipped"}
             \/ job[x][m].step = "post" /\ s \in {"writeSuccess", "writeRefused", "writeFailure"}
             \/ /\ job[x][m].step \in {"writeSuccess", "writeRefused", "writeFailure"}
                /\ s \in {"done", "writeFailure", "throw"}
      PROVE  Advances(job[d][n], job'[d][n])
  <2> DEFINE new == [job[x][m] EXCEPT !.step = s]
  <2>1. job' = [job EXCEPT ![x][m] = new]  BY <1>g DEF JobGoto
  <2>2. new.step = s /\ new.made = job[x][m].made /\ new.stalls = job[x][m].stalls
        BY <1>t, StepFields
  <2> HIDE DEF new
  <2>3. Advances(job[x][m], new)  BY <1>g, <2>2 DEF Advances
  <2> QED BY <1>t, <2>1, <2>3, OneAdvances
<1>1. CASE job' # job
  <2>1. \/ \E v \in Event : QueueDelivery(v)
        \/ \E r \in Replay : QueueReplay(r)
        \/ \E x \in Delivery, m \in JobNo :
              \/ TakeJob(x, m) \/ Post(x, m) \/ WriteSuccess(x, m) \/ WriteRefused(x, m) \/ WriteFailure(x, m)
              \/ Retry(x, m) \/ Stall(x, m)
        BY <1>1 DEF Step, Create, UpdateEndpoint, Delete, FindEndpoints, StoreDelivery, AbandonEvent,
           ReplayDelivery, ResetDelivery, AbandonReplay, vars
  <2>2. CASE \E v \in Event : QueueDelivery(v)  BY <2>2, <1>q DEF QueueDelivery
  <2>3. CASE \E r \in Replay : QueueReplay(r)  BY <2>3, <1>q DEF QueueReplay
  <2>4. ASSUME NEW x \in Delivery, NEW m \in JobNo, TakeJob(x, m)  PROVE Advances(job[d][n], job'[d][n])
    <3>1. PICK s \in {"throw", "post", "skipped"} : JobGoto(x, m, s)  BY <2>4 DEF TakeJob
    <3> QED BY <2>4, <3>1, <1>g DEF TakeJob, JobAt
  <2>5. ASSUME NEW x \in Delivery, NEW m \in JobNo, Post(x, m)  PROVE Advances(job[d][n], job'[d][n])
    <3>1. PICK s \in {"writeSuccess", "writeRefused", "writeFailure"} : JobGoto(x, m, s)
          BY <2>5 DEF Post, Outcome
    <3> QED BY <2>5, <3>1, <1>g DEF Post, JobAt
  <2>6. ASSUME NEW x \in Delivery, NEW m \in JobNo, WriteSuccess(x, m) \/ WriteRefused(x, m) \/ WriteFailure(x, m)
        PROVE  Advances(job[d][n], job'[d][n])
    <3>1. PICK s \in {"done", "writeFailure", "throw"} : JobGoto(x, m, s)
          BY <2>6 DEF WriteSuccess, WriteRefused, WriteFailure
    <3>2. job[x][m].step \in {"writeSuccess", "writeRefused", "writeFailure"}
          BY <2>6 DEF WriteSuccess, WriteRefused, WriteFailure, JobAt
    <3> QED BY <3>1, <3>2, <1>g
  <2>7. ASSUME NEW x \in Delivery, NEW m \in JobNo, Retry(x, m)  PROVE Advances(job[d][n], job'[d][n])
    <3> DEFINE new == [job[x][m] EXCEPT !.made = Attempt(x, m),
                                        !.step = IF Attempt(x, m) < MaxJobAttempts THEN "waiting" ELSE "dead"]
    <3>1. job' = [job EXCEPT ![x][m] = new] /\ job[x][m].step = "throw"  BY <2>7 DEF Retry, JobAt
    <3>2. job[x][m] \in Jobs  BY <1>t
    <3>3. /\ new.made = job[x][m].made + 1 /\ new.stalls = job[x][m].stalls
          /\ new.step = IF new.made < MaxJobAttempts THEN "waiting" ELSE "dead"
          BY <3>2 DEF Jobs, Attempt
    <3> HIDE DEF new
    <3>4. Advances(job[x][m], new)  BY <3>1, <3>3 DEF Advances
    <3> QED BY <1>t, <3>1, <3>4, OneAdvances
  <2>8. ASSUME NEW x \in Delivery, NEW m \in JobNo, Stall(x, m)  PROVE Advances(job[d][n], job'[d][n])
    <3> DEFINE new == [job[x][m] EXCEPT !.stalls = job[x][m].stalls + 1,
                                        !.step = IF job[x][m].stalls < MaxStalls THEN "waiting" ELSE "dead"]
    <3>1. job' = [job EXCEPT ![x][m] = new] /\ job[x][m].step \in Working  BY <2>8 DEF Stall
    <3>2. job[x][m] \in Jobs  BY <1>t
    <3>3. /\ new.made = job[x][m].made /\ new.stalls = job[x][m].stalls + 1
          /\ new.step = IF job[x][m].stalls < MaxStalls THEN "waiting" ELSE "dead"
          BY <3>2 DEF Jobs
    <3> HIDE DEF new
    <3>4. Advances(job[x][m], new)  BY <3>1, <3>3 DEF Advances
    <3> QED BY <1>t, <3>1, <3>4, OneAdvances
  <2> QED BY <2>1, <2>2, <2>3, <2>4, <2>5, <2>6, <2>7, <2>8
<1> QED BY <1>k, <1>1

\* The runs a delivery may have are finitely many.
LEMMA RunsFinite ==
  ASSUME NEW S \in SUBSET JobNo
  PROVE  /\ MaxRuns \in Nat
         /\ IsFiniteSet(S \X (1 .. MaxRuns)) /\ Cardinality(S \X (1 .. MaxRuns)) = Cardinality(S) * MaxRuns
         /\ Cardinality(S) \in Nat
<1>1. MaxRuns \in Nat  BY DEF MaxRuns, WebhookAssumption
<1>2. Cardinality(Replay) \in Nat  BY FS_CardinalityType
<1>3. IsFiniteSet(JobNo)  BY <1>2, FS_Interval DEF JobNo
<1>4. IsFiniteSet(S) /\ Cardinality(S) \in Nat  BY <1>3, FS_Subset, FS_CardinalityType
<1>5. IsFiniteSet(1 .. MaxRuns) /\ Cardinality(1 .. MaxRuns) = MaxRuns  BY <1>1, FS_Interval
<1> QED BY <1>1, <1>4, <1>5, FS_Product

\* The set of the runs of one delivery is one of them.
LEMMA RunsSet ==
  ASSUME NEW d \in Delivery
  PROVE  /\ IsFiniteSet(Runs(d)) /\ Cardinality(Runs(d)) \in Nat
         /\ IsFiniteSet(Runs(d)') /\ Cardinality(Runs(d)') \in Nat
<1>1. IsFiniteSet(JobNo \X (1 .. MaxRuns))  BY RunsFinite
<1>2. Runs(d) \in SUBSET (JobNo \X (1 .. MaxRuns)) /\ Runs(d)' \in SUBSET (JobNo \X (1 .. MaxRuns))
      BY DEF Runs
<1> HIDE DEF Runs
<1> QED BY <1>1, <1>2, FS_Subset, FS_CardinalityType

\* A post takes a run of its job that none has taken.
LEMMA PostTakesRun ==
  ASSUME Typed, RunsInv, Step, NEW d \in Delivery, NEW n \in JobNo, Post(d, n)
  PROVE  \E k \in Runs(d)' : k \notin Runs(d)
<1>1. job[d][n] \in Jobs /\ RunsOf(job[d][n])  BY DEF Typed, JobsTyped, RunsInv
<1>2. job'[d][n] \in Jobs  BY TypeStep DEF Typed, JobsTyped
<1>3. Advances(job[d][n], job'[d][n])  BY AllAdvance
<1>4. job[d][n].step = "post"  BY DEF Post, JobAt
<1>5. job'[d][n].step \in {"writeSuccess", "writeRefused", "writeFailure"}
      BY PostMoves DEF Typed, JobMoves
<1>6. job'[d][n].made = job[d][n].made /\ job'[d][n].stalls = job[d][n].stalls
      BY <1>3, <1>4, <1>5 DEF Advances, Working
<1>7. RunsOf(job'[d][n])  BY <1>1, <1>2, <1>3, AdvanceKeeps
<1> DEFINE b == Begun(job[d][n])
           k == <<n, b + 1>>
<1>8. b \in Nat /\ Begun(job'[d][n]) = b + 1
      BY <1>1, <1>4, <1>5, <1>6 DEF Begun, Jobs
<1>9. b + 1 \in 1 .. MaxRuns  BY <1>7, <1>8, RunsFinite DEF RunsOf
<1> HIDE DEF b
<1>10. k \in JobNo \X (1 .. MaxRuns) /\ k[1] = n /\ k[2] = b + 1  BY <1>9
<1>11. k \in Runs(d)'  BY <1>8, <1>10 DEF Runs
<1>12. k \notin Runs(d)
  <2>1. ~(b + 1 <= b)  BY <1>8
  <2> QED BY <2>1, <1>10 DEF Runs, b
<1> QED BY <1>11, <1>12

\* No step lets a delivery be posted more often than its jobs have begun runs.
LEMMA RunsStep ==
  ASSUME Typed, Plain, RunsInv, Step
  PROVE  RunsInv'
<1> SUFFICES ASSUME NEW d \in Delivery
             PROVE  posts'[d] <= Cardinality(Runs(d)') /\ \A n \in JobNo : RunsOf(job'[d][n])
    BY DEF RunsInv, RunsOf, Begun
<1>1. \A n \in JobNo : RunsOf(job'[d][n]) /\ Begun(job[d][n]) <= Begun(job'[d][n])
  <2> TAKE n \in JobNo
  <2>1. job[d][n] \in Jobs /\ job'[d][n] \in Jobs /\ RunsOf(job[d][n])
        BY TypeStep DEF Typed, JobsTyped, RunsInv
  <2> QED BY <2>1, AllAdvance, AdvanceKeeps
<1>2. \A n \in JobNo : Begun(job[d][n]) \in Int /\ Begun(job'[d][n]) \in Int
      BY TypeStep DEF Typed, JobsTyped, Jobs, Begun
<1>3. Runs(d) \subseteq Runs(d)'
  <2> SUFFICES ASSUME NEW k \in JobNo \X (1 .. MaxRuns), k[2] <= Begun(job[d][k[1]])
               PROVE  k[2] <= Begun(job'[d][k[1]])
      BY DEF Runs
  <2>1. k[1] \in JobNo /\ k[2] \in Int  BY RunsFinite
  <2> QED BY <2>1, <1>1, <1>2
<1>4. Cardinality(Runs(d)) <= Cardinality(Runs(d)')  BY <1>3, RunsSet, FS_Subset
<1>t. posts \in [Delivery -> Nat] /\ posts[d] \in Nat /\ posts[d] <= Cardinality(Runs(d))  BY DEF Plain, RunsInv
<1>5. CASE posts'[d] = posts[d]  BY <1>1, <1>4, <1>5, <1>t, RunsSet
<1>6. CASE posts'[d] # posts[d]
  <2>1. PICK x \in Delivery, n \in JobNo : Post(x, n)
        BY <1>6 DEF Step, Create, UpdateEndpoint, Delete, FindEndpoints, QueueDelivery, StoreDelivery, AbandonEvent,
           ReplayDelivery, ResetDelivery, QueueReplay, AbandonReplay, TakeJob, WriteSuccess, WriteRefused,
           WriteFailure, Retry, Stall, vars, seen
  <2>2. posts' = [posts EXCEPT ![x] = @ + 1]  BY <1>6, <2>1 DEF Post
  <2>3. x = d /\ posts'[d] = posts[d] + 1  BY <1>6, <2>2, <1>t
  <2>4. PICK k : k \in Runs(d)' /\ k \notin Runs(d)  BY <2>1, <2>3, PostTakesRun
  <2>5. Runs(d) \cup {k} \subseteq Runs(d)'  BY <1>3, <2>4
  <2>6. IsFiniteSet(Runs(d) \cup {k}) /\ Cardinality(Runs(d) \cup {k}) = Cardinality(Runs(d)) + 1
        BY <2>4, RunsSet, FS_AddElement
  <2>7. Cardinality(Runs(d) \cup {k}) <= Cardinality(Runs(d)')  BY <2>5, RunsSet, FS_Subset
  <2> QED BY <1>1, <1>t, <2>3, <2>6, <2>7, RunsSet
<1> QED BY <1>5, <1>6

\* WebhookProcessor posts a delivery again after every run that failed, died or
\* was not recorded, but no more often than its jobs are granted runs.
THEOREM PostsBounded == Spec => []PostsWithinRetries
<1>1. Init => Typed /\ Plain /\ RunsInv
  <2> SUFFICES ASSUME Init, NEW d \in Delivery
               PROVE  posts[d] <= Cardinality(Runs(d)) /\ \A n \in JobNo : RunsOf(job[d][n])
      BY TypeInit DEF RunsInv
  <2>1. posts[d] = 0 /\ \A n \in JobNo : job[d][n] = NoJob  BY DEF Init
  <2>2. RunsOf(NoJob)
    <3>1. MaxRuns \in Nat  BY DEF MaxRuns, WebhookAssumption
    <3>2. Begun(NoJob) = 0 /\ NoJob.step = "none"  BY DEF NoJob, Begun
    <3> QED BY <3>1, <3>2 DEF RunsOf, Working
  <2> QED BY <2>1, <2>2, RunsSet
<1>2. (Typed /\ Plain /\ RunsInv) /\ [Next]_vars => (Typed /\ Plain /\ RunsInv)'
      BY StepOfNext, TypeStep, PlainStep, RunsStep
<1>3. Typed /\ Plain /\ RunsInv => PostsWithinRetries
  <2> SUFFICES ASSUME Typed, Plain, RunsInv, NEW d \in Delivery
               PROVE  posts[d] <= MaxRuns * Cardinality({n \in JobNo : job[d][n] # NoJob})
      BY DEF PostsWithinRetries, MaxRuns
  <2> DEFINE S == {n \in JobNo : job[d][n] # NoJob}
  <2>1. S \in SUBSET JobNo  OBVIOUS
  <2>2. Runs(d) \subseteq S \X (1 .. MaxRuns)
    <3>1. Begun(NoJob) = 0  BY DEF Begun, NoJob
    <3> SUFFICES ASSUME NEW k \in JobNo \X (1 .. MaxRuns), k[2] <= Begun(job[d][k[1]])
                 PROVE  job[d][k[1]] # NoJob
        BY DEF Runs
    <3>2. k[2] \in 1 .. MaxRuns  OBVIOUS
    <3>3. ~(k[2] <= 0)  BY <3>2, RunsFinite
    <3> QED BY <3>1, <3>3
  <2> HIDE DEF S
  <2>3. /\ MaxRuns \in Nat /\ Cardinality(S) \in Nat /\ IsFiniteSet(S \X (1 .. MaxRuns))
        /\ Cardinality(S \X (1 .. MaxRuns)) = Cardinality(S) * MaxRuns
        BY <2>1, RunsFinite
  <2>4. Cardinality(Runs(d)) <= Cardinality(S) * MaxRuns  BY <2>2, <2>3, FS_Subset
  <2>5. posts[d] \in Nat /\ posts[d] <= Cardinality(Runs(d))  BY DEF Plain, RunsInv
  <2>6. Cardinality(S) * MaxRuns = MaxRuns * Cardinality(S) /\ Cardinality(S) * MaxRuns \in Nat  BY <2>3
  <2>7. posts[d] <= MaxRuns * Cardinality(S)  BY <2>4, <2>5, <2>6, RunsSet
  <2> QED BY <2>7 DEF S
<1> QED BY <1>1, <1>2, <1>3, PTL DEF Spec
=============================================================================
