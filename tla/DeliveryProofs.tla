--------------------------- MODULE DeliveryProofs ---------------------------
(***************************************************************************)
(* What the delivery of a code promises: a completed job has sent its      *)
(* message, no job sends more messages than BullMQ grants it runs, and     *)
(* what is recorded as sent was sent.                                      *)
(***************************************************************************)
EXTENDS ChallengeProofs, FiniteSetTheorems

USE ConstantsAssumption

-----------------------------------------------------------------------------
(* The worker.                                                             *)

\* A stall counts itself and leaves the other jobs and the messages alone.
LEMMA StallFields ==
  ASSUME TypeOK, NEW c \in Codes, Stall(c)
  PROVE  /\ \A d \in Codes \ {c} : jobs'[d] = jobs[d]
         /\ jobs'[c].made = jobs[c].made
         /\ jobs'[c].stalls = jobs[c].stalls + 1
         /\ jobs'[c].step = IF jobs[c].stalls < MaxStalls THEN "waiting" ELSE "dead"
         /\ jobs[c].step \in Working
         /\ UNCHANGED mailed
<1>1. jobs \in [Codes -> Jobs]  BY DEF TypeOK
<1>2. UNCHANGED mailed /\ jobs[c].step \in Working  BY DEF Stall, seen
<1> QED BY <1>1, <1>2 DEF Stall, Jobs

\* A retry counts the run and leaves the other jobs and the messages alone.
LEMMA RetryFields ==
  ASSUME TypeOK, NEW c \in Codes, Retry(c)
  PROVE  /\ \A d \in Codes \ {c} : jobs'[d] = jobs[d]
         /\ jobs'[c].made = jobs[c].made + 1
         /\ jobs'[c].stalls = jobs[c].stalls
         /\ jobs'[c].step = IF jobs[c].made + 1 < MaxJobAttempts THEN "waiting" ELSE "dead"
         /\ jobs[c].step = "throw"
         /\ UNCHANGED mailed
<1>1. jobs \in [Codes -> Jobs]  BY DEF TypeOK
<1>2. UNCHANGED mailed /\ jobs[c].step = "throw"  BY DEF Retry, JobAt, seen
<1> QED BY <1>1, <1>2 DEF Retry, MayRetry, Jobs

\* A step of the processor moves its job and no other.
LEMMA GotoFields ==
  ASSUME TypeOK, NEW c \in Codes, NEW s, JobGoto(c, s)
  PROVE  /\ \A d \in Codes \ {c} : jobs'[d] = jobs[d]
         /\ jobs'[c].step = s
         /\ jobs'[c].made = jobs[c].made
         /\ jobs'[c].stalls = jobs[c].stalls
<1>1. jobs \in [Codes -> Jobs]  BY DEF TypeOK
<1> QED BY <1>1 DEF JobGoto, Jobs

\* A worker moves the job it has, and never one that was not enqueued.
LEMMA JobRuns ==
  ASSUME TypeOK, NEW c \in Codes, JobInv(c), Work(c) \/ Stall(c)
  PROVE  /\ \A d \in Codes \ {c} : jobs'[d] = jobs[d] /\ mailed'[d] = mailed[d]
         /\ jobs[c].step # "none" /\ jobs'[c].step # "none"
         /\ JobInv(c)'
<1>1. /\ jobs[c] \in Jobs /\ mailed \in [Codes -> Nat] /\ mailed[c] \in Nat
      /\ jobs[c].made \in Nat /\ jobs[c].stalls \in Nat
  BY DEF TypeOK, Jobs
<1>2. Exists' <=> Exists
  BY WorkerKeeps DEF Keeps
<1> USE DEF JobInv, JobAt, Ran
<1>3. CASE Stall(c)
  BY <1>1, <1>3, StallFields DEF Working
<1>4. CASE Retry(c)
  BY <1>1, <1>4, RetryFields
<1>5. CASE TakeJob(c)
  <2>1. jobs[c].step = "waiting" /\ JobGoto(c, "fetch") /\ UNCHANGED mailed
    BY <1>5 DEF TakeJob, seen
  <2> QED BY <1>1, <1>2, <2>1, GotoFields
<1>6. CASE FetchChallenge(c)
  <2>1. PICK s \in {"send", "recordFailure", "throw", "done"} :
          jobs[c].step = "fetch" /\ JobGoto(c, s) /\ (s = "done" => ~Exists) /\ UNCHANGED mailed
    BY <1>6 DEF FetchChallenge, seen
  <2> QED BY <1>1, <1>2, <2>1, GotoFields
<1>7. CASE SendMessage(c)
  <2>1. PICK s \in {"commit", "recordFailure"} :
          /\ jobs[c].step = "send" /\ JobGoto(c, s)
          /\ mailed' = [mailed EXCEPT ![c] = @ + 1] \/ (UNCHANGED mailed /\ s # "commit")
    BY <1>7 DEF SendMessage
  <2>2. \A d \in Codes \ {c} : mailed'[d] = mailed[d]
    BY <1>1, <2>1
  <2>3. mailed'[c] = mailed[c] + 1 \/ (mailed'[c] = mailed[c] /\ s # "commit")
    BY <1>1, <2>1
  <2> QED BY <1>1, <1>2, <2>1, <2>2, <2>3, GotoFields
<1>8. CASE RecordSent(c) \/ RecordFailure(c)
  <2>1. PICK s \in {"tellSent", "recordFailure", "tellFailed", "throw"} :
          /\ jobs[c].step \in {"commit", "recordFailure"} /\ JobGoto(c, s) /\ UNCHANGED mailed
          /\ s = "tellSent" => jobs[c].step = "commit"
    BY <1>8 DEF RecordSent, RecordFailure
  <2> QED BY <1>1, <1>2, <2>1, GotoFields
<1>9. CASE AnnounceSent(c) \/ AnnounceFailed(c)
  <2>1. PICK s \in {"done", "throw"} :
          /\ jobs[c].step \in {"tellSent", "tellFailed"} /\ JobGoto(c, s) /\ UNCHANGED mailed
          /\ s = "done" => jobs[c].step = "tellSent"
    BY <1>9 DEF AnnounceSent, AnnounceFailed
  <2> QED BY <1>1, <1>2, <2>1, GotoFields
<1> QED BY <1>3, <1>4, <1>5, <1>6, <1>7, <1>8, <1>9 DEF Work

-----------------------------------------------------------------------------
(* The handlers that enqueue.                                              *)

\* What a step for the request r does to the jobs and to the code r holds for
\* the queue: nothing, or it issues the code and holds it, or it keeps it, or
\* it enqueues it.
Issues(r) == /\ issued' = issued + 1 /\ issued + 1 \in Codes /\ UNCHANGED jobs
             /\ req'[r].code = issued + 1
Holds(r)  == /\ req[r].step \in Holding /\ req'[r].code = req[r].code
             /\ UNCHANGED <<jobs, issued>>
Drops(r)  == req'[r].step \notin Holding /\ UNCHANGED <<jobs, issued>>
Queues(r) == /\ req'[r].step \notin Holding /\ req[r].step \in Holding
             /\ Enqueue(req[r].code) /\ UNCHANGED issued

\* A handler issues a code, holds it, enqueues it, or has nothing to do with
\* the queue; it sends no message itself.
LEMMA ApiJobs ==
  ASSUME TypeOK, NEW r \in Req, Serve(r)
  PROVE  /\ UNCHANGED mailed
         /\ Issues(r) \/ Holds(r) \/ Drops(r) \/ Queues(r)
         /\ (Exists' => Exists) \/ (issued = 0 /\ issued' = 1 /\ Issues(r))
<1>1. row \in Rows /\ req \in [Req -> Requests] /\ issued \in 0 .. MaxCodes
  BY DEF TypeOK
<1> USE DEF Holding
<1>2. CASE CreateChallenge(r)
  <2>1. 1 \in Codes /\ issued = 0 /\ issued' = 1 /\ UNCHANGED <<jobs, mailed>>
    BY <1>2 DEF CreateChallenge, Codes, seen
  <2>2. req'[r].code = 1
    BY <1>1, <1>2 DEF CreateChallenge, Requests
  <2> QED BY <2>1, <2>2 DEF Issues
<1>3. CASE Reissue(r)
  <2>1. /\ Exists /\ issued' = issued + 1 /\ issued + 1 \in Codes
        /\ UNCHANGED <<jobs, mailed>>
    BY <1>1, <1>3 DEF Reissue, Update, Codes, seen
  <2>2. req'[r].code = issued + 1
    BY <1>1, <1>3 DEF Reissue, Requests
  <2> QED BY <2>1, <2>2 DEF Issues
<1>4. CASE StoreSignedUrl(r)
  <2>1. Exists /\ UNCHANGED <<jobs, issued, mailed>>
    BY <1>4, WriteKeeps DEF StoreSignedUrl, seen
  <2>2. req[r].step \in Holding /\ req'[r].code = req[r].code
    BY <1>1, <1>4 DEF StoreSignedUrl, Goto, Requests
  <2> QED BY <2>1, <2>2 DEF Holds
<1>5. CASE EnqueueFirst(r) \/ EnqueueAgain(r)
  <2>1. /\ UNCHANGED <<row, issued, mailed>> /\ Enqueue(req[r].code)
        /\ req[r].step \in Holding
    BY <1>5 DEF EnqueueFirst, EnqueueAgain, store, seen
  <2>2. req'[r].step \in {"markQueued", "done"}
    BY <1>1, <1>5 DEF EnqueueFirst, EnqueueAgain, Goto, End, AtRest, Requests
  <2> QED BY <2>1, <2>2 DEF Queues, Exists
<1>6. CASE VerifyChallenge(r) \/ ResendChallenge(r)
  <2>1. UNCHANGED <<row, issued, jobs, mailed>>
    BY <1>6 DEF VerifyChallenge, ResendChallenge, store, seen
  <2>2. req'[r].step \in {"expire", "exhaust", "countAttempt", "reissue"}
    <3>1. CASE VerifyChallenge(r)
      BY <1>1, <3>1 DEF VerifyChallenge
    <3>2. CASE ResendChallenge(r)
      BY <1>1, <3>2 DEF ResendChallenge, Requests
    <3> QED BY <1>6, <3>1, <3>2
  <2> QED BY <2>1, <2>2 DEF Drops, Exists
<1>7. CASE CancelChallenge(r) \/ VerifyLink(r) \/ ReadLink(r) \/ MarkQueued(r) \/ WriteExpired(r)
           \/ WriteExhausted(r) \/ CountAttempt(r) \/ WriteVerified(r) \/ WriteFailed(r)
           \/ WriteCancelled(r) \/ WriteVerifiedByLink(r) \/ WriteAudit(r)
           \/ Announce(r) \/ Abort(r)
  <2>1. PICK s \in {"cancel", "readLink", "acceptLink", "done", "accept", "reject", "tellVerified",
                    "tellFailed", "tellCancelled", "audit", "aborted"} : Goto(r, s) \/ End(r, s)
    BY <1>7 DEF CancelChallenge, VerifyLink, ReadLink, MarkQueued, WriteExpired, WriteExhausted,
                CountAttempt, WriteVerified, WriteFailed, WriteCancelled, WriteVerifiedByLink,
                WriteAudit, Announce, Abort
  <2>2. req'[r].step = s
    BY <1>1, <2>1 DEF Goto, End, AtRest, Requests
  <2>3. UNCHANGED <<jobs, issued, mailed>>
    BY <1>7 DEF CancelChallenge, VerifyLink, ReadLink, MarkQueued, WriteExpired, WriteExhausted,
                CountAttempt, WriteVerified, WriteFailed, WriteCancelled, WriteVerifiedByLink,
                WriteAudit, Announce, Abort, store, seen
  <2>4. Exists' => Exists
    BY <1>7 DEF CancelChallenge, VerifyLink, ReadLink, MarkQueued, WriteExpired, WriteExhausted,
                CountAttempt, WriteVerified, WriteFailed, WriteCancelled, WriteVerifiedByLink,
                WriteAudit, Announce, Abort, store, Update, Exists
  <2> QED BY <2>1, <2>2, <2>3, <2>4 DEF Drops
<1> QED BY <1>2, <1>3, <1>4, <1>5, <1>6, <1>7 DEF Serve, Continue

\* A job nobody touches keeps its promise unless a row appears, which it does
\* only before there are jobs.
LEMMA JobStays ==
  ASSUME NEW c \in Codes, JobInv(c), jobs'[c] = jobs[c], mailed'[c] = mailed[c],
         (Exists' => Exists) \/ jobs[c].step = "none"
  PROVE  JobInv(c)'
  BY DEF JobInv, NoJob

\* The handlers enqueue each code once.
LEMMA DeliveryApi ==
  ASSUME TypeOK, TypeOK', DeliveryInv, NEW r \in Req, Serve(r)
  PROVE  DeliveryInv'
<1>1. /\ jobs \in [Codes -> Jobs] /\ mailed \in [Codes -> Nat]
      /\ issued \in 0 .. MaxCodes /\ \A c \in Codes : c \in Nat
  BY DEF TypeOK, Codes
<1>2. /\ \A q \in Req \ {r} : req'[q] = req[q]
      /\ UNCHANGED mailed
      /\ (Exists' => Exists) \/ (issued = 0 /\ issued' = 1 /\ Issues(r))
  BY OneRequest, ApiJobs
<1>3. \A c \in Codes : (Exists' => Exists) \/ jobs[c].step = "none"
  BY <1>1, <1>2 DEF DeliveryInv, Codes
<1>4. ASSUME UNCHANGED jobs PROVE \A c \in Codes : JobInv(c)'
  BY <1>2, <1>3, <1>4, JobStays DEF DeliveryInv
<1>5. CASE Issues(r)
  <2>1. \A c \in Codes : c > issued' => jobs'[c].step = "none"
    BY <1>1, <1>5 DEF Issues, DeliveryInv
  <2>2. jobs'[issued'].step = "none" /\ issued' > 0 /\ issued' \in 1 .. issued'
    BY <1>1, <1>5 DEF Issues, DeliveryInv
  <2>3. \A q \in Req \ {r} : req'[q].step \in Holding =>
          /\ req'[q].code \in 1 .. issued' /\ req'[q].code # issued'
          /\ jobs'[req'[q].code].step = "none"
    BY <1>1, <1>2, <1>5 DEF Issues, DeliveryInv
  <2>4. req'[r].code = issued' /\ UNCHANGED jobs
    BY <1>5 DEF Issues
  <2>5. \A p, q \in Req : p # q /\ {req'[p].step, req'[q].step} \subseteq Holding =>
          req'[p].code # req'[q].code
    BY <1>2, <2>3, <2>4 DEF DeliveryInv
  <2>6. \A c \in Codes : JobInv(c)'
    BY <1>4, <2>4
  <2> QED BY <2>1, <2>2, <2>3, <2>4, <2>5, <2>6 DEF DeliveryInv
<1>6. CASE Holds(r) \/ Drops(r)
  <2>1. UNCHANGED <<jobs, issued>>
    BY <1>6 DEF Holds, Drops
  <2>2. req'[r].step \in Holding => req[r].step \in Holding /\ req'[r].code = req[r].code
    BY <1>6 DEF Holds, Drops
  <2>3. issued' = 0 => ~Exists'
    BY <1>2, <2>1 DEF DeliveryInv
  <2>4. \A c \in Codes : JobInv(c)'
    BY <1>4, <2>1
  <2>5. \A q \in Req : req'[q].step \in Holding =>
          req[q].step \in Holding /\ req'[q].code = req[q].code
    BY <1>2, <2>2
  <2> QED BY <2>1, <2>3, <2>4, <2>5 DEF DeliveryInv
<1>7. CASE Queues(r)
  <2>1. PICK c \in Codes : c = req[r].code /\ c \in 1 .. issued /\ jobs[c].step = "none"
    BY <1>1, <1>7 DEF Queues, DeliveryInv, Codes
  <2>2. jobs[c] = NoJob /\ mailed[c] = 0
    BY <2>1 DEF DeliveryInv, JobInv
  <2>3. /\ \A d \in Codes \ {c} : jobs'[d] = jobs[d]
        /\ jobs'[c].step = "waiting" /\ jobs'[c].made = 0 /\ jobs'[c].stalls = 0
    BY <1>1, <1>7, <2>1, <2>2 DEF Queues, Enqueue, NoJob
  <2>4. Exists' => Exists
    BY <1>2, <1>7 DEF Queues
  <2>5. JobInv(c)'
    BY <1>2, <2>1, <2>2, <2>3 DEF JobInv, Ran
  <2>6. \A d \in Codes \ {c} : JobInv(d)'
    BY <1>2, <2>3, <2>4, JobStays DEF DeliveryInv
  <2>7. \A q \in Req \ {r} : req[q].step \in Holding =>
          req[q].code \in Codes \ {c} /\ jobs'[req[q].code].step = "none"
    BY <1>1, <1>7, <2>1, <2>3 DEF Queues, DeliveryInv, Codes
  <2>8. \A d \in Codes : d > issued' => jobs'[d].step = "none"
    BY <1>1, <1>7, <2>1, <2>3 DEF Queues, DeliveryInv
  <2>9. req'[r].step \notin Holding
    BY <1>7 DEF Queues
  <2>10. \A d \in Codes : JobInv(d)'
    BY <2>5, <2>6
  <2>11. \A q \in Req : req'[q].step \in Holding =>
          q # r /\ req'[q] = req[q] /\ jobs'[req'[q].code].step = "none"
    BY <1>2, <2>7, <2>9
  <2>12. issued' = 0 => ~Exists'
    BY <1>7, <2>4 DEF Queues, DeliveryInv
  <2>13. UNCHANGED issued
    BY <1>7 DEF Queues
  <2> QED BY <2>8, <2>10, <2>11, <2>12, <2>13 DEF DeliveryInv
<1> QED BY <1>5, <1>6, <1>7, ApiJobs

\* Every step keeps the account of runs and messages.
LEMMA DeliveryStep ==
  TypeOK /\ DeliveryInv /\ [Next]_vars => DeliveryInv'
<1> SUFFICES ASSUME TypeOK, DeliveryInv, [Next]_vars PROVE DeliveryInv'
  OBVIOUS
<1>1. TypeOK'  BY TypeStep
<1>2. ASSUME NEW c \in Codes, Work(c) \/ Stall(c) PROVE DeliveryInv'
  <2>1. JobInv(c)  BY DEF DeliveryInv
  <2>2. /\ \A d \in Codes \ {c} : jobs'[d] = jobs[d] /\ mailed'[d] = mailed[d]
        /\ jobs[c].step # "none" /\ jobs'[c].step # "none" /\ JobInv(c)'
    BY <1>2, <2>1, JobRuns
  <2>3. (Exists' <=> Exists) /\ UNCHANGED <<issued, req>>
    BY <1>2, WorkerKeeps DEF Keeps
  <2>4. \A d \in Codes : JobInv(d)'
    BY <2>2, <2>3, JobStays DEF DeliveryInv
  <2>5. \A d \in Codes : jobs[d].step = "none" => jobs'[d].step = "none"
    BY <2>2
  <2>6. \A q \in Req : req[q].step \in Holding => req[q].code \in Codes
    BY DEF DeliveryInv, TypeOK, Codes
  <2> QED BY <2>3, <2>4, <2>5, <2>6 DEF DeliveryInv
<1>3. CASE Purge
  <2>1. ~Exists' /\ UNCHANGED <<issued, req, jobs, mailed>>
    BY <1>3 DEF Purge, NoRow, Exists
  <2>2. \A d \in Codes : JobInv(d)'
    BY <2>1, JobStays DEF DeliveryInv
  <2> QED BY <2>1, <2>2 DEF DeliveryInv
<1>4. CASE Tick \/ UNCHANGED vars
  <2>1. UNCHANGED <<row, issued, req, jobs, mailed>>
    BY <1>4 DEF Tick, vars, seen
  <2>2. \A d \in Codes : JobInv(d)'
    BY <2>1, JobStays DEF DeliveryInv, Exists
  <2> QED BY <2>1, <2>2 DEF DeliveryInv, Exists
<1> QED
  BY <1>1, <1>2, <1>3, <1>4, DeliveryApi DEF Next, ApiNext, WorkerNext

\* The inductive invariant of the delivery holds in every reachable state.
LEMMA DeliveryAlways == Spec => [](TypeOK /\ DeliveryInv)
<1>1. Init => DeliveryInv
  BY DEF Init, DeliveryInv, JobInv, NoRow, NoJob, Exists, AtRest, Holding
<1> QED
  BY TypeInit, TypeStep, DeliveryStep, <1>1, PTL DEF Spec

\* The account of a job bounds the messages it has sent.
LEMMA MailsFit ==
  ASSUME TypeOK, DeliveryInv, NEW c \in Codes
  PROVE  mailed[c] <= MaxJobAttempts + MaxStalls
<1>1. jobs[c] \in Jobs /\ mailed[c] \in Nat
  BY DEF TypeOK
<1>2. jobs[c].made \in Nat /\ jobs[c].stalls \in Nat
  BY <1>1 DEF Jobs
<1>3. JobInv(c)
  BY DEF DeliveryInv
<1>4. CASE jobs[c].step = "none" \/ jobs[c].step = "dead"
  BY <1>3, <1>4 DEF JobInv
<1>5. CASE jobs[c].step \notin {"none", "dead"}
  BY <1>1, <1>2, <1>3, <1>5 DEF JobInv
<1> QED BY <1>4, <1>5

\* Email or WhatsApp, retries or stalls, lost answers or failed transactions: a
\* job hands its code over at most once per run it is granted.
THEOREM MailsBounded == Spec => []MailsWithinRetries
<1>1. TypeOK /\ DeliveryInv => MailsWithinRetries
  BY MailsFit DEF MailsWithinRetries
<1> QED
  BY DeliveryAlways, <1>1, PTL

\* The queue holds a job for completed only when its code went out.
THEOREM CompletedSent == Spec => []CompletedMeansMailed
<1>1. DeliveryInv => CompletedMeansMailed
  BY DEF DeliveryInv, CompletedMeansMailed, JobInv, JobAt
<1> QED
  BY DeliveryAlways, <1>1, PTL
-----------------------------------------------------------------------------
(* What is recorded as sent was sent.                                      *)

\* Only so many messages can have left, so they can be counted.
LEMMA MessagesFinite ==
  ASSUME TypeOK, DeliveryInv
  PROVE  IsFiniteSet(Messages) /\ Mails \in Nat
<1> DEFINE Room == Codes \X (1 .. MaxJobAttempts + MaxStalls)
<1>1. IsFiniteSet(Room)
  <2>1. IsFiniteSet(Codes)
    BY FS_Interval DEF Codes
  <2>2. IsFiniteSet(1 .. MaxJobAttempts + MaxStalls)
    BY FS_Interval
  <2> QED BY <2>1, <2>2, FS_Product
<1>2. Messages \subseteq Room
  <2>1. \A c \in Codes : mailed[c] \in Nat /\ mailed[c] <= MaxJobAttempts + MaxStalls
    BY MailsFit DEF TypeOK
  <2>2. \A c \in Codes : 1 .. mailed[c] \subseteq 1 .. MaxJobAttempts + MaxStalls
    BY <2>1
  <2> QED BY <2>2 DEF Messages
<1> HIDE DEF Room
<1>3. IsFiniteSet(Messages)
  BY <1>1, <1>2, FS_Subset
<1> QED BY <1>3, FS_CardinalityType DEF Mails

\* The jobs at work can be counted.
LEMMA UnrecordedFinite == IsFiniteSet(Unrecorded) /\ Cardinality(Unrecorded) \in Nat
<1>1. IsFiniteSet(Codes)  BY FS_Interval DEF Codes
<1>2. Unrecorded \subseteq Codes  BY DEF Unrecorded
<1> QED BY <1>1, <1>2, FS_Subset, FS_CardinalityType

\* A message that left is one of them.
LEMMA MailCounts ==
  ASSUME TypeOK, DeliveryInv, NEW c \in Codes, mailed[c] > 0
  PROVE  Mails > 0
<1>1. mailed[c] \in Nat  BY DEF TypeOK
<1>2. <<c, 1>> \in Messages  BY <1>1 DEF Messages
<1> QED BY <1>2, MessagesFinite, FS_EmptySet DEF Mails

\* One more message of one code is one more in all.
LEMMA MailAdds ==
  ASSUME TypeOK, DeliveryInv, NEW c \in Codes, mailed' = [mailed EXCEPT ![c] = @ + 1]
  PROVE  Mails' = Mails + 1
<1> DEFINE m == <<c, mailed[c] + 1>>
<1>1. mailed \in [Codes -> Nat] /\ mailed[c] \in Nat  BY DEF TypeOK
<1>2. m \notin Messages  BY <1>1 DEF Messages
<1>3. Messages' = Messages \cup {m}
  <2>1. \A d \in Codes \ {c} : mailed'[d] = mailed[d]  BY <1>1
  <2>2. 1 .. mailed'[c] = (1 .. mailed[c]) \cup {mailed[c] + 1}  BY <1>1
  <2>3. \A d \in Codes : \A n : <<d, n>> \in Messages' <=> n \in 1 .. mailed'[d]
    BY DEF Messages
  <2>4. \A d \in Codes : \A n : <<d, n>> \in Messages <=> n \in 1 .. mailed[d]
    BY DEF Messages
  <2>5. \A x \in Messages' : \E d \in Codes, n \in Nat : x = <<d, n>>
    BY <1>1 DEF Messages
  <2>6. \A x \in Messages : \E d \in Codes, n \in Nat : x = <<d, n>>
    BY <1>1 DEF Messages
  <2>7. \A d \in Codes : \A n : <<d, n>> \in Messages' <=> <<d, n>> \in Messages \/ <<d, n>> = m
    BY <2>1, <2>2, <2>3, <2>4
  <2> QED BY <2>5, <2>6, <2>7
<1> HIDE DEF m
<1> QED BY <1>2, <1>3, MessagesFinite, FS_AddElement DEF Mails

\* Where nothing is sent and no job waits anew to be recorded the account holds.
LEMMA SentStays ==
  ASSUME SentInv, DeliveryInv, TypeOK, TypeOK',
         UNCHANGED mailed, Unrecorded' \subseteq Unrecorded,
         deliveries'.sent <= deliveries.sent,
         "sent" \in events' => "sent" \in events \/ Mails > 0
  PROVE  SentInv'
<1>1. Mails' = Mails /\ Mails \in Nat  BY MessagesFinite DEF Mails, Messages
<1>2. deliveries.sent \in Nat /\ deliveries'.sent \in Nat  BY DEF TypeOK
<1>3. Cardinality(Unrecorded') <= Cardinality(Unrecorded) /\ Cardinality(Unrecorded) \in Nat
      /\ Cardinality(Unrecorded') \in Nat
  BY UnrecordedFinite, FS_Subset, FS_CardinalityType
<1> QED BY <1>1, <1>2, <1>3 DEF SentInv

\* The worker records no message it has not sent.
LEMMA SentWork ==
  ASSUME TypeOK, TypeOK', DeliveryInv, SentInv, NEW c \in Codes, Work(c) \/ Stall(c)
  PROVE  SentInv'
<1>1. /\ jobs \in [Codes -> Jobs] /\ mailed \in [Codes -> Nat] /\ mailed[c] \in Nat
      /\ deliveries \in [sent : Nat, failed : Nat] /\ deliveries.sent \in Nat
  BY DEF TypeOK
<1>2. \A d \in Codes \ {c} : jobs'[d] = jobs[d]
  BY JobRuns DEF DeliveryInv
<1>3. Mails \in Nat /\ IsFiniteSet(Unrecorded) /\ Cardinality(Unrecorded) \in Nat
  BY MessagesFinite, UnrecordedFinite
<1>4. CASE SendMessage(c)
  <2>1. PICK s \in {"commit", "recordFailure"} :
          /\ jobs[c].step = "send" /\ JobGoto(c, s)
          /\ \/ mailed' = [mailed EXCEPT ![c] = @ + 1]
             \/ UNCHANGED mailed /\ s = "recordFailure"
    BY <1>4 DEF SendMessage, JobAt
  <2>2. UNCHANGED <<deliveries, events>>
    BY <1>4 DEF SendMessage
  <2>3. jobs'[c].step = s
    BY <2>1, GotoFields
  <2>4. CASE UNCHANGED mailed /\ s = "recordFailure"
    <3>1. Unrecorded' \subseteq Unrecorded
      BY <1>2, <2>3, <2>4 DEF Unrecorded, JobAt
    <3> QED BY <1>1, <2>2, <2>4, <3>1, SentStays
  <2>5. CASE mailed' = [mailed EXCEPT ![c] = @ + 1]
    <3>1. Mails' = Mails + 1
      BY <2>5, MailAdds
    <3>2. Unrecorded' \in {Unrecorded, Unrecorded \cup {c}}
      BY <1>2, <2>1, <2>3 DEF Unrecorded, JobAt
    <3>3. Cardinality(Unrecorded') <= Cardinality(Unrecorded) + 1
          /\ Cardinality(Unrecorded') \in Nat
      <4>1. Cardinality(Unrecorded \cup {c})
              \in {Cardinality(Unrecorded), Cardinality(Unrecorded) + 1}
        BY <1>3, FS_AddElement
      <4>2. CASE Unrecorded' = Unrecorded
        BY <1>3, <4>2
      <4>3. CASE Unrecorded' = Unrecorded \cup {c}
        BY <1>3, <4>1, <4>3
      <4> QED BY <3>2, <4>2, <4>3
    <3> QED BY <1>1, <1>3, <2>2, <3>1, <3>3 DEF SentInv
  <2> QED BY <2>1, <2>4, <2>5
<1>5. CASE RecordSent(c)
  <2>1. PICK s \in {"tellSent", "recordFailure"} : jobs[c].step = "commit" /\ JobGoto(c, s)
    BY <1>5 DEF RecordSent, JobAt
  <2>2. Unrecorded' = Unrecorded \ {c} /\ c \in Unrecorded
    <3>1. jobs'[c].step = s  BY <2>1, GotoFields
    <3> QED BY <1>2, <2>1, <3>1 DEF Unrecorded, JobAt
  <2>3. deliveries'.sent <= deliveries.sent + 1 /\ deliveries'.sent \in Nat
    BY <1>1, <1>5 DEF RecordSent
  <2>4. Cardinality(Unrecorded') = Cardinality(Unrecorded) - 1
    BY <1>3, <2>2, FS_RemoveElement
  <2>5. UNCHANGED events /\ Mails' = Mails
    BY <1>5 DEF RecordSent, Mails, Messages
  <2> QED BY <1>1, <1>3, <2>3, <2>4, <2>5 DEF SentInv
<1>6. CASE ~SendMessage(c) /\ ~RecordSent(c)
  <2>1. UNCHANGED <<mailed>> /\ deliveries'.sent = deliveries.sent
    BY <1>1, <1>6 DEF Work, Stall, TakeJob, FetchChallenge, AnnounceSent, RecordFailure,
                      AnnounceFailed, Retry, seen
  <2>2. jobs'[c].step # "commit"
    <3>1. CASE Stall(c)  BY <3>1, StallFields
    <3>2. CASE Retry(c)  BY <3>2, RetryFields
    <3>3. CASE ~Stall(c) /\ ~Retry(c)
      <4>1. PICK s \in {"fetch", "send", "recordFailure", "throw", "done", "tellFailed"} :
              JobGoto(c, s)
        BY <1>6, <3>3
        DEF Work, TakeJob, FetchChallenge, AnnounceSent, RecordFailure, AnnounceFailed
      <4> QED BY <4>1, GotoFields
    <3> QED BY <3>1, <3>2, <3>3
  <2>3. Unrecorded' \subseteq Unrecorded
    BY <1>2, <2>2 DEF Unrecorded, JobAt
  <2>4. "sent" \in events' => "sent" \in events \/ Mails > 0
    <3>1. CASE AnnounceSent(c)
      <4>1. jobs[c].step = "tellSent"  BY <3>1 DEF AnnounceSent, JobAt
      <4>2. mailed[c] > 0  BY <4>1 DEF DeliveryInv, JobInv
      <4> QED BY <4>2, MailCounts
    <3>2. CASE ~AnnounceSent(c)
      BY <1>6, <3>2 DEF Work, Stall, TakeJob, FetchChallenge, RecordFailure,
                        AnnounceFailed, Retry, seen, Trigger
    <3> QED BY <3>1, <3>2
  <2> QED BY <1>1, <2>1, <2>3, <2>4, SentStays
<1> QED BY <1>4, <1>5, <1>6

\* Every step keeps the account of what is recorded as sent.
LEMMA SentStep ==
  TypeOK /\ DeliveryInv /\ SentInv /\ [Next]_vars => SentInv'
<1> SUFFICES ASSUME TypeOK, DeliveryInv, SentInv, [Next]_vars PROVE SentInv'
  OBVIOUS
<1>1. TypeOK' /\ deliveries.sent \in Nat /\ jobs \in [Codes -> Jobs]
  BY TypeStep DEF TypeOK
<1>2. ASSUME NEW r \in Req, Serve(r) PROVE SentInv'
  <2>1. UNCHANGED mailed /\ (UNCHANGED jobs \/ Enqueue(req[r].code))
    BY <1>2, ApiJobs DEF Issues, Holds, Drops, Queues
  <2>2. Unrecorded' \subseteq Unrecorded
    BY <1>1, <2>1 DEF Unrecorded, JobAt, Enqueue, Jobs
  <2>3. UNCHANGED deliveries /\ ("sent" \in events' => "sent" \in events)
    BY <1>2 DEF Serve, Continue, CreateChallenge, VerifyChallenge, ResendChallenge,
                CancelChallenge, VerifyLink, ReadLink, StoreSignedUrl, EnqueueFirst, MarkQueued,
                WriteExpired, WriteExhausted, CountAttempt, WriteVerified, WriteFailed,
                Reissue, EnqueueAgain, WriteCancelled, WriteVerifiedByLink, WriteAudit,
                Announce, Abort, Trigger, seen
  <2> QED BY <1>1, <2>1, <2>2, <2>3, SentStays
<1>3. CASE Purge
  <2>1. UNCHANGED <<mailed, jobs, events>> /\ deliveries'.sent = 0
    BY <1>3 DEF Purge
  <2> QED BY <1>1, <2>1, SentStays DEF Unrecorded, JobAt
<1>4. CASE Tick \/ UNCHANGED vars
  <2>1. UNCHANGED <<mailed, jobs, events, deliveries>>
    BY <1>4 DEF Tick, vars, seen
  <2> QED BY <1>1, <2>1, SentStays DEF Unrecorded, JobAt
<1> QED
  BY <1>1, <1>2, <1>3, <1>4, SentWork DEF Next, ApiNext, WorkerNext

\* Whatever transaction fails or answer is lost, and however often a job runs
\* again, no delivery is recorded as sent without a message of its own, and
\* challenge.sent follows a message.
THEOREM SentBacked == Spec => []SentIsBacked
<1>1. TypeOK /\ DeliveryInv /\ Init => SentInv
  <2> SUFFICES ASSUME TypeOK, DeliveryInv, Init PROVE SentInv
    OBVIOUS
  <2>1. Unrecorded = {}  BY DEF Init, Unrecorded, JobAt, NoJob
  <2>2. Cardinality(Unrecorded) = 0  BY <2>1, FS_EmptySet
  <2>3. deliveries.sent = 0 /\ events = {}  BY DEF Init
  <2> QED BY <2>2, <2>3, MessagesFinite DEF SentInv
<1>2. TypeOK /\ DeliveryInv /\ SentInv => SentIsBacked
  <2> SUFFICES ASSUME TypeOK, DeliveryInv, SentInv PROVE SentIsBacked
    OBVIOUS
  <2>1. deliveries.sent \in Nat  BY DEF TypeOK
  <2> QED BY <2>1, MessagesFinite, UnrecordedFinite DEF SentInv, SentIsBacked
<1> QED
  BY DeliveryAlways, SentStep, <1>1, <1>2, PTL DEF Spec
=============================================================================
