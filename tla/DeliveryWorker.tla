--------------------------- MODULE DeliveryWorker ---------------------------
(***************************************************************************)
(* The processor of delivery_queue.  Every process of the deployment runs  *)
(* one, so the jobs of two codes may be worked on at the same time.  A job *)
(* never looks at the status of the challenge it delivers.  Mail and       *)
(* WhatsApp go through the same steps.                                     *)
(***************************************************************************)
EXTENDS ChallengeStore

JobAt(c, s)   == jobs[c].step = s
JobGoto(c, s) == jobs' = [jobs EXCEPT ![c].step = s]

TakeJob(c) ==
    /\ JobAt(c, "waiting")
    /\ JobGoto(c, "fetch")
    /\ UNCHANGED <<store, req, seen>>

\* Reads the row, and gives up without an error when it is gone.  Then reads
\* the connector: none is enabled or ready, or its session is not in this
\* process.  A read that fails, and a destination or a password that does not
\* decrypt, throw before anything is recorded.
FetchChallenge(c) ==
    /\ JobAt(c, "fetch")
    /\ \E next \in (IF Exists THEN {"send", "recordFailure"} ELSE {"done"}) \cup {"throw"} :
          JobGoto(c, next)
    /\ UNCHANGED <<store, req, seen>>

SendMessageMutant(c) ==
    /\ JobAt(c, "send")
    /\ mailed' \in {mailed, [mailed EXCEPT ![c] = @ + 1]}
    /\ JobGoto(c, "commit")
    /\ UNCHANGED <<store, req, deliveries, events, tries, proofs>>

\* The message leaves, or the server refuses it, or it leaves and the answer
\* is lost.
SendMessage(c) ==
    /\ JobAt(c, "send")
    /\ \/ mailed' = [mailed EXCEPT ![c] = @ + 1] /\ JobGoto(c, "commit")
       \/ mailed' = [mailed EXCEPT ![c] = @ + 1] /\ JobGoto(c, "recordFailure")
       \/ UNCHANGED mailed /\ JobGoto(c, "recordFailure")
    /\ UNCHANGED <<store, req, deliveries, events, tries, proofs>>

\* One transaction; when it fails, or commits and the answer is lost, the
\* attempt is recorded as failed although the message is out.
RecordSent(c) ==
    /\ JobAt(c, "commit")
    /\ \/ /\ Update([row EXCEPT !.status = "SENT", !.sentAt = now])
          /\ deliveries' = [deliveries EXCEPT !.sent = @ + 1]
          /\ \E next \in {"tellSent", "recordFailure"} : JobGoto(c, next)
       \/ /\ JobGoto(c, "recordFailure")
          /\ UNCHANGED <<row, rivals, deliveries>>
    /\ UNCHANGED <<now, issued, req, mailed, events, tries, proofs>>

AnnounceSent(c) ==
    /\ JobAt(c, "tellSent")
    /\ Trigger("sent")
    /\ JobGoto(c, "done")
    /\ UNCHANGED <<store, req, mailed, deliveries, tries, proofs>>

\* recordDeliveryFailure: one transaction, its errors swallowed.
RecordFailure(c) ==
    /\ JobAt(c, "recordFailure")
    /\ \/ /\ Update([row EXCEPT !.status = "FAILED"])
          /\ deliveries' = [deliveries EXCEPT !.failed = @ + 1]
          /\ JobGoto(c, "tellFailed")
       \/ /\ JobGoto(c, "throw")
          /\ UNCHANGED <<row, rivals, deliveries>>
    /\ UNCHANGED <<now, issued, req, mailed, events, tries, proofs>>

AnnounceFailedMutant(c) ==
    /\ JobAt(c, "tellFailed")
    /\ Trigger("failed")
    /\ JobGoto(c, "done")
    /\ UNCHANGED <<store, req, mailed, deliveries, tries, proofs>>

AnnounceFailed(c) ==
    /\ JobAt(c, "tellFailed")
    /\ Trigger("failed")
    /\ JobGoto(c, "throw")
    /\ UNCHANGED <<store, req, mailed, deliveries, tries, proofs>>

\* Whether a job that threw runs again.
MayRetryMutant(c) == jobs[c].made < MaxJobAttempts
MayRetry(c) == jobs[c].made + 1 < MaxJobAttempts

RetryMutant(c) ==
    /\ JobAt(c, "throw")
    /\ jobs' = [jobs EXCEPT ![c] = [jobs[c] EXCEPT !.made = 0, !.step = "waiting"]]
    /\ UNCHANGED <<store, req, seen>>

\* The processor threw: BullMQ counts the attempt and retries it after a
\* backoff, up to the job's "attempts".
Retry(c) ==
    /\ JobAt(c, "throw")
    /\ jobs' = [jobs EXCEPT ![c] =
                  [jobs[c] EXCEPT !.made = jobs[c].made + 1,
                                  !.step = IF MayRetry(c) THEN "waiting" ELSE "dead"]]
    /\ UNCHANGED <<store, req, seen>>

\* The worker dies in the middle of the job.  BullMQ finds the job stalled
\* and runs it again from the start; a job that stalls too often fails.
Stall(c) ==
    /\ jobs[c].step \in Working
    /\ jobs' = [jobs EXCEPT ![c] =
                  [jobs[c] EXCEPT !.stalls = @ + 1,
                                  !.step = IF jobs[c].stalls < MaxStalls
                                           THEN "waiting" ELSE "dead"]]
    /\ UNCHANGED <<store, req, seen>>

\* What a worker that stays alive does with the job of code c.
Work(c) ==
    \/ TakeJob(c) \/ FetchChallenge(c) \/ SendMessage(c) \/ RecordSent(c)
    \/ AnnounceSent(c) \/ RecordFailure(c) \/ AnnounceFailed(c) \/ Retry(c)

WorkerNext == \E c \in Codes : Work(c) \/ Stall(c)
=============================================================================
