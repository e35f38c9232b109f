------------------------------ MODULE Webhook ------------------------------
(***************************************************************************)
(* The webhooks of one project: WebhookEndpointService, which turns an     *)
(* event into one delivery row and one job per subscribed endpoint, and    *)
(* WebhookProcessor, which posts it and writes the outcome on the row.     *)
(* Rows live in PostgreSQL and jobs in Redis: no transaction holds both.   *)
(***************************************************************************)
EXTENDS Integers, FiniteSets

CONSTANTS
    Event,           \* the calls of triggerEvent
    Endpoint,        \* the ids endpoints may be given
    NoEndpoint,      \* none of them
    Replay,          \* the calls of replayDelivery
    Workers,         \* the processes with a worker; each works on one job
    MaxJobAttempts,  \* "attempts" of the jobs (5)
    MaxStalls,       \* how often BullMQ runs a stalled job again
    MaxChanges       \* bound: how often users change endpoints

ASSUME WebhookAssumption ==
    /\ NoEndpoint \notin Endpoint
    /\ IsFiniteSet(Replay)
    /\ MaxJobAttempts \in Nat \ {0}
    /\ MaxStalls \in Nat
    /\ Workers \in Nat \ {0}
    /\ MaxChanges \in Nat

VARIABLES
    endpoint,    \* endpoint[e]: the row of webhook_endpoints
    changes,     \* how often endpoints were changed
    trigger,     \* trigger[v]: the handler that announces event v
    replay,      \* replay[r]: the request that replays a delivery
    delivery,    \* delivery[d]: the row of webhook_deliveries
    job,         \* job[d][n]: the n-th job of webhook_queue for d
    posts,       \* posts[d]: requests for d the endpoint has received
    accepted,    \* the deliveries an endpoint has answered with a 2xx
    overlapped   \* the deliveries reset or queued again while a job lived

rows == <<endpoint, changes, delivery>>
seen == <<posts, accepted, overlapped>>
vars == <<endpoint, changes, trigger, replay, delivery, job, posts, accepted, overlapped>>

\* A delivery belongs to an event and to an endpoint; it gets one job when
\* the event is triggered and one per replay.
Delivery == Event \X Endpoint
JobNo    == 1 .. 1 + Cardinality(Replay)

\* "on": enabled and subscribed to the event; "deaf": enabled, not subscribed.
Enabled == {"on", "deaf"}
Present == Enabled \cup {"off"}

NoRow     == [status |-> "none", attempt |-> 0]
Rows      == [status : {"PENDING", "SUCCESS", "FAILED"}, attempt : Nat] \cup {NoRow}
Stored(d) == delivery[d] # NoRow

\* update({where: {id}}) throws when the row is gone.
Write(d, status, attempt) ==
    /\ Stored(d)
    /\ delivery' = [delivery EXCEPT ![d] = [status |-> status, attempt |-> attempt]]

NoJob   == [step |-> "none", made |-> 0, stalls |-> 0]
Working == {"post", "writeSuccess", "writeRefused", "writeFailure", "throw"}
Ended   == {"done", "skipped", "dead"}
Jobs    == [step : {"none", "waiting"} \cup Working \cup Ended, made : Nat, stalls : Nat]

JobLives(d) == \E n \in JobNo : job[d][n].step \in {"waiting"} \cup Working

\* webhookQueue.add('send_webhook', {deliveryId}, {attempts: 5}).
Queue(d) ==
    \E n \in JobNo : /\ job[d][n] = NoJob /\ \A m \in 1 .. n - 1 : job[d][m] # NoJob
                     /\ job' = [job EXCEPT ![d][n].step = "waiting"]

-----------------------------------------------------------------------------
(* Endpoints: create, update and delete, one write each (the read before   *)
(* it decides nothing that the write does not).                            *)

Change(e, state) ==
    /\ changes < MaxChanges
    /\ changes' = changes + 1
    /\ endpoint' = [endpoint EXCEPT ![e] = state]

Create(e) ==
    /\ endpoint[e] = "none"
    /\ \E state \in Enabled : endpoint' = [endpoint EXCEPT ![e] = state]
    /\ UNCHANGED <<changes, trigger, replay, delivery, job, seen>>

UpdateEndpoint(e) ==
    /\ endpoint[e] \in Present
    /\ \E state \in Present \ {endpoint[e]} : Change(e, state)
    /\ UNCHANGED <<trigger, replay, delivery, job, seen>>

\* The deliveries of a deleted endpoint go with it (onDelete: Cascade).
Delete(e) ==
    /\ endpoint[e] \in Present
    /\ Change(e, "deleted")
    /\ delivery' = [d \in Delivery |-> IF d[2] = e THEN NoRow ELSE delivery[d]]
    /\ UNCHANGED <<trigger, replay, job, seen>>

-----------------------------------------------------------------------------
(* triggerEvent.                                                           *)

AtLoop(v) == trigger[v].step = "loop"

\* The endpoints that are enabled and listen to the event, in no known order.
\* Whatever throws from here on ends the handler without an error.
FindEndpoints(v) ==
    /\ trigger[v].step = "idle"
    /\ LET matched == {e \in Endpoint : endpoint[e] = "on"}
       IN  trigger' = [trigger EXCEPT ![v] =
             [step |-> IF matched = {} THEN "done" ELSE "loop",
              matched |-> matched, todo |-> matched, at |-> NoEndpoint]]
    /\ UNCHANGED <<rows, replay, job, seen>>

StoreDeliveryMutant(v, e) ==
    /\ AtLoop(v) /\ e \in trigger[v].todo
    /\ endpoint[e] # "deleted"
    /\ delivery' = [delivery EXCEPT ![<<v, e>>] = [status |-> "PENDING", attempt |-> 1]]
    /\ trigger' = [trigger EXCEPT ![v] = [trigger[v] EXCEPT !.at = e,
                                                           !.todo = trigger[v].todo \ {e}]]
    /\ UNCHANGED <<endpoint, changes, replay, job, seen>>

\* create({endpointId, status: 'PENDING'}): the endpoint must still exist.
StoreDelivery(v, e) ==
    /\ AtLoop(v) /\ e \in trigger[v].todo
    /\ endpoint[e] # "deleted"
    /\ delivery' = [delivery EXCEPT ![<<v, e>>] = [status |-> "PENDING", attempt |-> 1]]
    /\ trigger' = [trigger EXCEPT ![v] = [trigger[v] EXCEPT !.step = "queue", !.at = e,
                                                           !.todo = trigger[v].todo \ {e}]]
    /\ UNCHANGED <<endpoint, changes, replay, job, seen>>

AfterQueueMutant(v) == "done"
AfterQueue(v) == IF trigger[v].todo = {} THEN "done" ELSE "loop"

QueueDelivery(v) ==
    /\ trigger[v].step = "queue"
    /\ Queue(<<v, trigger[v].at>>)
    /\ trigger' = [trigger EXCEPT ![v].step = AfterQueue(v)]
    /\ UNCHANGED <<rows, replay, seen>>

\* A call fails, or the process dies: the catch ends the loop, and neither the
\* delivery at hand nor the endpoints that follow are served.
AbandonEvent(v) ==
    /\ trigger[v].step \in {"loop", "queue"}
    /\ trigger' = [trigger EXCEPT ![v].step = "lost"]
    /\ UNCHANGED <<rows, replay, job, seen>>

-----------------------------------------------------------------------------
(* replayDelivery: nothing asks whether a job of the delivery still lives. *)

Busy(r, d) == \/ JobLives(d)
              \/ \E q \in Replay \ {r} : replay[q].of = d /\ replay[q].step \in {"reset", "queue"}
              \/ trigger[d[1]].step = "queue" /\ trigger[d[1]].at = d[2]

Mark(r) == overlapped' = IF Busy(r, replay[r].of)
                         THEN overlapped \cup {replay[r].of} ELSE overlapped

ReplayDelivery(r, d) ==
    /\ replay[r].step = "idle" /\ Stored(d)
    /\ replay' = [replay EXCEPT ![r] = [step |-> "reset", of |-> d]]
    /\ UNCHANGED <<rows, trigger, job, seen>>

ResetDelivery(r) ==
    /\ replay[r].step = "reset"
    /\ Write(replay[r].of, "PENDING", 1)
    /\ replay' = [replay EXCEPT ![r].step = "queue"]
    /\ Mark(r)
    /\ UNCHANGED <<endpoint, changes, trigger, job, posts, accepted>>

QueueReplay(r) ==
    /\ replay[r].step = "queue"
    /\ Queue(replay[r].of)
    /\ replay' = [replay EXCEPT ![r].step = "done"]
    /\ Mark(r)
    /\ UNCHANGED <<rows, trigger, posts, accepted>>

\* A call fails, or the process dies: the row was perhaps reset, and is left
\* PENDING without a job.
AbandonReplay(r) ==
    /\ replay[r].step \in {"reset", "queue"}
    /\ replay' = [replay EXCEPT ![r].step = "lost"]
    /\ UNCHANGED <<rows, trigger, job, seen>>

-----------------------------------------------------------------------------
(* WebhookProcessor.process for the n-th job of d.  "throw": the processor *)
(* threw and BullMQ has not counted the attempt yet.                       *)

JobAt(d, n, s)   == job[d][n].step = s
JobGoto(d, n, s) == job' = [job EXCEPT ![d][n].step = s]
\* Variants for the properties' mutation checks carry the suffix Mutant.
AttemptMutant(d, n) == job[d][n].made - 1
Attempt(d, n)       == job[d][n].made + 1

TakeJobMutant(d, n) ==
    /\ JobAt(d, n, "waiting")
    /\ Cardinality({k \in Delivery \X JobNo : job[k[1]][k[2]].step \in Working}) < Workers
    /\ Stored(d) /\ endpoint[d[2]] \in Enabled
    /\ \E next \in {"throw", "post"} : JobGoto(d, n, next)
    /\ UNCHANGED <<rows, trigger, replay, seen>>

\* A worker takes the job and reads the row with its endpoint.  It returns, and
\* the job completes, when the row is gone or its endpoint is disabled; the read
\* may fail.
TakeJob(d, n) ==
    /\ JobAt(d, n, "waiting")
    /\ Cardinality({k \in Delivery \X JobNo : job[k[1]][k[2]].step \in Working}) < Workers
    /\ \E next \in {"throw", IF Stored(d) /\ endpoint[d[2]] \in Enabled
                             THEN "post" ELSE "skipped"} : JobGoto(d, n, next)
    /\ UNCHANGED <<rows, trigger, replay, seen>>

OutcomeMutant(answer) ==
    IF answer = "ok" \/ answer = "error" THEN "writeSuccess" ELSE "writeFailure"

\* response.ok, an error status, or fetch or text() threw.
Outcome(answer) == CASE answer = "ok"    -> "writeSuccess"
                     [] answer = "error" -> "writeRefused"
                     [] OTHER            -> "writeFailure"

\* fetch with a timeout.  The request may arrive although no answer does.
Post(d, n) ==
    /\ JobAt(d, n, "post")
    /\ \E answer \in {"ok", "error", "late", "unreachable"} :
          /\ posts' = IF answer = "unreachable" THEN posts ELSE [posts EXCEPT ![d] = @ + 1]
          /\ accepted' = IF answer = "ok" THEN accepted \cup {d} ELSE accepted
          /\ JobGoto(d, n, Outcome(answer))
    /\ UNCHANGED <<rows, trigger, replay, overlapped>>

\* An error of this write is caught like one of the request.
WriteSuccess(d, n) ==
    /\ JobAt(d, n, "writeSuccess")
    /\ \/ Write(d, "SUCCESS", Attempt(d, n)) /\ \E s \in {"done", "writeFailure"} : JobGoto(d, n, s)
       \/ UNCHANGED delivery /\ JobGoto(d, n, "writeFailure")
    /\ UNCHANGED <<endpoint, changes, trigger, replay, seen>>

WriteRefused(d, n) ==
    /\ JobAt(d, n, "writeRefused")
    /\ Write(d, "FAILED", Attempt(d, n)) \/ UNCHANGED delivery
    /\ JobGoto(d, n, "writeFailure")
    /\ UNCHANGED <<endpoint, changes, trigger, replay, seen>>

WriteFailureMutant(d, n) ==
    /\ JobAt(d, n, "writeFailure")
    /\ Write(d, "FAILED", Attempt(d, n)) \/ UNCHANGED delivery
    /\ JobGoto(d, n, "done")
    /\ UNCHANGED <<endpoint, changes, trigger, replay, seen>>

\* The catch: writes, or fails to, and throws either way.
WriteFailure(d, n) ==
    /\ JobAt(d, n, "writeFailure")
    /\ Write(d, "FAILED", Attempt(d, n)) \/ UNCHANGED delivery
    /\ JobGoto(d, n, "throw")
    /\ UNCHANGED <<endpoint, changes, trigger, replay, seen>>

RetryMutant(d, n) ==
    /\ JobAt(d, n, "throw")
    /\ job' = [job EXCEPT ![d][n] = [job[d][n] EXCEPT !.step = "waiting"]]
    /\ UNCHANGED <<rows, trigger, replay, seen>>

\* BullMQ counts the attempt and runs the job again, up to its attempts.
Retry(d, n) ==
    /\ JobAt(d, n, "throw")
    /\ job' = [job EXCEPT ![d][n] =
                 [job[d][n] EXCEPT !.made = Attempt(d, n),
                                   !.step = IF Attempt(d, n) < MaxJobAttempts
                                            THEN "waiting" ELSE "dead"]]
    /\ UNCHANGED <<rows, trigger, replay, seen>>

\* The worker dies; BullMQ runs the stalled job again from the start, or fails
\* it when it has stalled too often.
Stall(d, n) ==
    /\ job[d][n].step \in Working
    /\ job' = [job EXCEPT ![d][n] =
                 [job[d][n] EXCEPT !.stalls = @ + 1,
                                   !.step = IF job[d][n].stalls < MaxStalls
                                            THEN "waiting" ELSE "dead"]]
    /\ UNCHANGED <<rows, trigger, replay, seen>>

-----------------------------------------------------------------------------
Init ==
    /\ endpoint = [e \in Endpoint |-> "none"]
    /\ changes = 0
    /\ trigger = [v \in Event |-> [step |-> "idle", matched |-> {}, todo |-> {}, at |-> NoEndpoint]]
    /\ replay \in [Replay -> [step : {"idle"}, of : Delivery]]
    /\ delivery = [d \in Delivery |-> NoRow]
    /\ job = [d \in Delivery |-> [n \in JobNo |-> NoJob]]
    /\ posts = [d \in Delivery |-> 0]
    /\ accepted = {}
    /\ overlapped = {}

Announce(v) == FindEndpoints(v) \/ QueueDelivery(v) \/ \E e \in Endpoint : StoreDelivery(v, e)

Work(d, n) ==
    \/ TakeJob(d, n) \/ Post(d, n) \/ WriteSuccess(d, n)
    \/ WriteRefused(d, n) \/ WriteFailure(d, n) \/ Retry(d, n)

Next ==
    \/ \E e \in Endpoint : Create(e) \/ UpdateEndpoint(e) \/ Delete(e)
    \/ \E v \in Event : Announce(v) \/ AbandonEvent(v)
    \/ \E r \in Replay : \/ \E d \in Delivery : ReplayDelivery(r, d)
                         \/ ResetDelivery(r) \/ QueueReplay(r) \/ AbandonReplay(r)
    \/ \E d \in Delivery, n \in JobNo : Work(d, n) \/ Stall(d, n)

Spec == Init /\ [][Next]_vars

\* A live worker takes the jobs that wait and ends their steps: fetch has a
\* timeout.  Events, users and replays are not obliged to come.
FairSpec == Spec /\ \A d \in Delivery, n \in JobNo : WF_vars(Work(d, n))

-----------------------------------------------------------------------------
TypeOK ==
    /\ endpoint \in [Endpoint -> Present \cup {"none", "deleted"}]
    /\ changes \in 0 .. MaxChanges
    /\ trigger \in [Event -> [step : {"idle", "loop", "queue", "done", "lost"},
                              matched : SUBSET Endpoint, todo : SUBSET Endpoint,
                              at : Endpoint \cup {NoEndpoint}]]
    /\ replay \in [Replay -> [step : {"idle", "reset", "queue", "done", "lost"}, of : Delivery]]
    /\ delivery \in [Delivery -> Rows]
    /\ job \in [Delivery -> [JobNo -> Jobs]]
    /\ posts \in [Delivery -> Nat]
    /\ accepted \subseteq Delivery
    /\ overlapped \subseteq Delivery

\* A delivery is shown as SUCCESS only if its endpoint has answered it with a
\* 2xx, whatever runs, retries and replays write on the row.
SuccessIsAccepted ==
    \A d \in Delivery : delivery[d].status = "SUCCESS" => d \in accepted

\* Runs that fail, die, or succeed without being recorded post again, but no
\* more often than its jobs are granted runs.
PostsWithinRetries ==
    \A d \in Delivery :
        posts[d] <= (MaxJobAttempts + MaxStalls) * Cardinality({n \in JobNo : job[d][n] # NoJob})

\* When triggerEvent ran to its end, every endpoint it matched got a job, even
\* one that was disabled or deleted while the loop ran.
EveryMatchQueued ==
    \A v \in Event : trigger[v].step = "done" =>
        \A e \in trigger[v].matched : job[<<v, e>>][1] # NoJob

\* An event strands at most one delivery, stored and never queued: triggerEvent
\* stores the next one only after it has queued the one before.
OneStrandedPerEvent ==
    \A v \in Event :
        Cardinality({e \in Endpoint : Stored(<<v, e>>) /\ job[<<v, e>>][1] = NoJob}) <= 1

LastJob(d, n) == job[d][n] # NoJob /\ \A m \in JobNo : m > n => job[d][m] = NoJob

\* What the row tells of a job, when the job is the last one and no replay is
\* between its reset and its job.
RowTells(d, n) ==
    /\ Stored(d) /\ LastJob(d, n)
    /\ \A r \in Replay : replay[r].of = d => replay[r].step \in {"idle", "reset", "done"}
    => /\ JobAt(d, n, "done") => delivery[d].status = "SUCCESS"
       /\ delivery[d].attempt <= Attempt(d, n)

\* As long as no replay met a job at work, the row tells the outcome of the last
\* job: the job that completed by posting left SUCCESS, and the row shows no
\* attempt the job has not begun.
RowTellsLastJob == \A d \in Delivery \ overlapped, n \in JobNo : RowTells(d, n)

\* A delivery stays PENDING only while someone is to write it, or because the
\* event or the replay that stored it was cut short, its endpoint was disabled
\* when the job looked, the job died, or a replay met a job at work.
PendingIsOwned ==
    \A d \in Delivery :
        delivery[d].status = "PENDING" =>
            \/ JobLives(d)
            \/ d \in overlapped
            \/ trigger[d[1]].step \in {"queue", "lost"}
            \/ \E r \in Replay : replay[r].of = d /\ replay[r].step \in {"queue", "lost"}
            \/ \E n \in JobNo : LastJob(d, n) /\ job[d][n].step \in {"skipped", "dead"}

\* Every job ends, delivered, skipped or out of retries.
JobsEnd ==
    \A d \in Delivery, n \in JobNo : JobAt(d, n, "waiting") ~> job[d][n].step \in Ended

-----------------------------------------------------------------------------
(* The inductive invariants behind three of these.                         *)

\* Who is about to record a success has posted it and was answered.
AcceptedInv ==
    /\ SuccessIsAccepted
    /\ \A d \in Delivery, n \in JobNo : JobAt(d, n, "writeSuccess") => d \in accepted

\* What an event matched is to do, has a job, or is what its loop is at.
LoopOf(v) ==
    /\ trigger[v].todo \subseteq trigger[v].matched
    /\ trigger[v].step = "queue" => trigger[v].at \in Endpoint
    /\ trigger[v].step = "done" => trigger[v].todo = {}
    /\ \A e \in trigger[v].matched \ trigger[v].todo :
          \/ job[<<v, e>>][1] # NoJob
          \/ trigger[v].step \in {"queue", "lost"} /\ e = trigger[v].at
    /\ \A e \in Endpoint : Stored(<<v, e>>) =>
          trigger[v].step # "idle" /\ e \in trigger[v].matched \ trigger[v].todo

LoopInv == \A v \in Event : LoopOf(v)

\* Behind the two properties of the row.  The loop has reached what it stores,
\* what has a job and what is replayed; jobs are numbered without a gap.
Reached(d)      == trigger[d[1]].step # "idle" /\ d[2] \in trigger[d[1]].matched \ trigger[d[1]].todo
Storing(d)      == trigger[d[1]].step = "queue" /\ trigger[d[1]].at = d[2]
Replaying(r, d) == replay[r].of = d /\ replay[r].step = "queue"
Fresh(d)        == ~JobLives(d) /\ (Stored(d) => delivery[d].attempt = 1)

ReachedOf(d) ==
    /\ Storing(d) => Reached(d)
    /\ \A n \in JobNo : job[d][n] # NoJob => Reached(d) /\ \A m \in JobNo : m < n => job[d][m] # NoJob
    /\ \A r \in Replay : replay[r].of = d /\ replay[r].step # "idle" => Reached(d)

\* Unless a replay met a job at work, a job that lives is the last one; while the
\* delivery is being queued, by its event or by one replay, no job of it lives
\* and its row is fresh.
RowOf(d) ==
    d \notin overlapped =>
        /\ \A n \in JobNo : job[d][n].step \in {"waiting"} \cup Working => LastJob(d, n)
        /\ Storing(d) => Fresh(d) /\ \A n \in JobNo : job[d][n] = NoJob
        /\ \A r \in Replay : Replaying(r, d) =>
              Fresh(d) /\ ~Storing(d) /\ \A q \in Replay : Replaying(q, d) => q = r
        /\ \A n \in JobNo : RowTells(d, n)

\* PendingIsOwned, for one delivery and the loop that is at it.
PendingOf(d) ==
    delivery[d].status = "PENDING" =>
        \/ JobLives(d)
        \/ d \in overlapped
        \/ trigger[d[1]].step \in {"queue", "lost"} /\ trigger[d[1]].at = d[2]
        \/ \E r \in Replay : replay[r].of = d /\ replay[r].step \in {"queue", "lost"}
        \/ \E n \in JobNo : LastJob(d, n) /\ job[d][n].step \in {"skipped", "dead"}

RowInv == \A d \in Delivery : ReachedOf(d) /\ RowOf(d) /\ PendingOf(d)

\* Behind PostsWithinRetries.  A job has begun the runs BullMQ counted and, when
\* it is past its post or gave up on it, the one that is under way.
MaxRuns  == MaxJobAttempts + MaxStalls
Begun(j) == j.made + j.stalls
            + (IF j.step \in {"writeSuccess", "writeRefused", "writeFailure", "throw", "done"} THEN 1 ELSE 0)
Runs(d)  == {k \in JobNo \X (1 .. MaxRuns) : k[2] <= Begun(job[d][k[1]])}

RunsOf(j) ==
    /\ j.step = "none" => j = NoJob
    /\ j.step \in {"waiting"} \cup Working => j.made < MaxJobAttempts /\ j.stalls <= MaxStalls
    /\ Begun(j) <= MaxRuns

RunsInv == \A d \in Delivery : posts[d] <= Cardinality(Runs(d)) /\ \A n \in JobNo : RunsOf(job[d][n])
=============================================================================
