----------------------------- MODULE Challenge -----------------------------
(***************************************************************************)
(* One challenge under everything that acts on it: the API's handlers, the *)
(* delivery worker, the daily purge and the clock.                         *)
(***************************************************************************)
EXTENDS ChallengeApi, DeliveryWorker

\* CleanupProcessor: one deleteMany.  delivery_attempts go with their row.
Purgeable ==
    \/ row.status \in {"VERIFIED", "FAILED", "CANCELLED"} /\ row.updatedAt <= now - Retention
    \/ row.status = "EXPIRED" /\ row.expiresAt <= now - Retention

Purge ==
    /\ Purgeable
    /\ row' = NoRow
    /\ rivals' = {}
    /\ deliveries' = [sent |-> 0, failed |-> 0]
    /\ UNCHANGED <<now, req, jobs, issued, mailed, events, tries, proofs>>

\* Without a row nothing depends on the time that passes.
Tick ==
    /\ Exists
    /\ now < MaxTime
    /\ now' = now + 1
    /\ UNCHANGED <<row, req, jobs, issued, rivals, seen>>

Next == ApiNext \/ WorkerNext \/ Purge \/ Tick

Spec == Init /\ [][Next]_vars

(* A handler that has begun goes on while its process lives, and a live    *)
(* worker takes the jobs that wait; a handler whose row is gone ends with  *)
(* the error the database throws.  Nothing obliges a request to arrive, a  *)
(* process to die, the purge to run or the clock to pass.                  *)
Fairness ==
    /\ \A r \in Req : WF_vars(Continue(r) \/ (~Exists /\ Abort(r)))
    /\ \A c \in Codes : WF_vars(Work(c))

FairSpec == Spec /\ Fairness

-----------------------------------------------------------------------------
(* Safety, whatever overlaps with whatever.                                *)

\* The attempts the row counts never exceed the limit, however many handlers
\* hold an old count they are about to write.
AttemptsWithinLimit == row.attempts <= MaxAttempts

\* The refusals of a verified challenge bind every request that arrives after
\* the verification, whatever it asks and whatever was under way: VERIFIED yields
\* to nothing but the outcome of a delivery and a request that had begun before
\* it was written.
VerifiedIsKept ==
    [][row.status = "VERIFIED" /\ Exists' /\ row'.status # "VERIFIED" =>
         deliveries' # deliveries \/ \E r \in rivals : req'[r] # req[r]]_vars

\* A delivery job that completed has sent its code, unless its challenge was
\* purged first.
CompletedMeansMailed ==
    \A c \in Codes : JobAt(c, "done") /\ Exists => mailed[c] > 0

\* However its runs fail or stall, a job sends its code at most once per run
\* BullMQ grants it.
MailsWithinRetries ==
    \A c \in Codes : mailed[c] <= MaxJobAttempts + MaxStalls

\* Messages sent in all, each named by its code and its number.
Messages == UNION {{c} \X (1 .. mailed[c]) : c \in Codes}
Mails == Cardinality(Messages)

\* Every delivery recorded as sent stands for a message of its own, and
\* challenge.sent is announced only after one.
SentIsBacked == deliveries.sent <= Mails /\ ("sent" \in events => Mails > 0)

-----------------------------------------------------------------------------
(* Safety when each request waits for the answer to the one before.  The   *)
(* delivery worker and the purge still run in between.                     *)

\* No code is compared with more than MaxAttempts guesses.
TriesWithinLimit ==
    ~Concurrent => \A c \in Codes : tries[c] <= MaxAttempts

\* A verdict fits the row it is written on, not only the row it was decided on:
\* EXPIRED after the deadline of the current code, VERIFIED for a match of the
\* current code or a link, CANCELLED over no VERIFIED, FAILED when the attempts
\* are used up or a delivery failure is recorded with it.
VerdictFitsRow ==
    [][ ~Concurrent /\ row'.status # row.status =>
          CASE row'.status = "EXPIRED"   -> now > row.expiresAt
            [] row'.status = "VERIFIED"  -> {row.code, Link} \cap proofs # {}
            [] row'.status = "CANCELLED" -> row.status # "VERIFIED"
            [] row'.status = "FAILED"    -> \/ row.attempts >= MaxAttempts
                                            \/ deliveries.failed' > deliveries.failed
            [] OTHER -> TRUE ]_vars

\* The challenge as a budget of guesses per code.
Budget == INSTANCE OneTimeCode WITH
    phase <- IF Exists THEN "live" ELSE IF issued = 0 THEN "none" ELSE "gone",
    code  <- row.code,
    left  <- IF Exists THEN MaxAttempts - row.attempts ELSE 0

ImplementsBudget == Budget!Spec

-----------------------------------------------------------------------------
(* Liveness.                                                               *)

Died == \E r \in Req : req[r].step = "aborted"

\* A job that waits ends: delivered, or out of retries.
DeliveryEnds ==
    \A c \in Codes : JobAt(c, "waiting") ~> jobs[c].step \in {"done", "dead"}

\* A code that was written to the row gets its delivery job, and the challenge
\* leaves PENDING, unless the process that serves the request dies.
CodeIsQueued ==
    /\ \A c \in Codes : issued >= c ~> jobs[c].step # "none" \/ Died
    /\ row.status = "PENDING" ~> row.status # "PENDING" \/ Died

-----------------------------------------------------------------------------
(* The inductive invariants behind the safety properties.                  *)

\* A handler about to write a count read one below the limit.
AttemptsInv ==
    /\ AttemptsWithinLimit
    /\ \A r \in Req : req[r].step = "countAttempt" => req[r].count < MaxAttempts

\* While the row says VERIFIED, who is about to write another status, or may yet
\* come to that, was under way when it was written.
Overwriting == {"signUrl", "enqueueFirst", "markQueued", "countAttempt", "expire", "exhaust",
                "reject", "reissue", "cancel"}

RivalsInv ==
    /\ row.status = "VERIFIED" => \A r \in Req : req[r].step \in Overwriting => r \in rivals
    /\ issued = 0 => ~Exists

\* A code goes to the queue once, from the request that generated it, and its
\* job has sent it at most once per run.
Holding == {"signUrl", "enqueueFirst", "enqueueAgain"}
Ran     == {"commit", "tellSent", "recordFailure", "tellFailed", "throw", "done"}

JobInv(c) ==
    /\ jobs[c].step = "none" => jobs[c] = NoJob /\ mailed[c] = 0
    /\ jobs[c].step \notin {"none", "dead"} => /\ jobs[c].made < MaxJobAttempts
                                               /\ jobs[c].stalls <= MaxStalls
    /\ jobs[c].step # "dead" =>
          mailed[c] <= jobs[c].made + jobs[c].stalls + (IF jobs[c].step \in Ran THEN 1 ELSE 0)
    /\ jobs[c].step = "dead" => mailed[c] <= MaxJobAttempts + MaxStalls
    /\ jobs[c].step \in {"commit", "tellSent"} => mailed[c] > 0
    /\ jobs[c].step = "done" /\ Exists => mailed[c] > 0

DeliveryInv ==
    /\ issued = 0 => ~Exists
    /\ \A c \in Codes : JobInv(c) /\ (c > issued => jobs[c].step = "none")
    /\ \A r \in Req : req[r].step \in Holding =>
          req[r].code \in 1 .. issued /\ jobs[req[r].code].step = "none"
    /\ \A r, q \in Req : r # q /\ {req[r].step, req[q].step} \subseteq Holding =>
          req[r].code # req[q].code

\* The jobs whose message is out and not yet recorded have one each, on top of
\* the messages of the deliveries recorded as sent.
Unrecorded == {c \in Codes : JobAt(c, "commit")}

SentInv ==
    /\ deliveries.sent + Cardinality(Unrecorded) <= Mails
    /\ "sent" \in events => Mails > 0

\* One request at a time: what it remembers of the row is what the row holds,
\* and the row counts every comparison with its code.
BudgetInv ==
    /\ \A r, q \in Req : InFlight(r) /\ InFlight(q) => r = q
    /\ \A r \in Req : req[r].step = "countAttempt" /\ Exists =>
          req[r].code = row.code /\ req[r].count = row.attempts
    /\ IF Exists THEN issued > 0 /\ row.code = issued ELSE row = NoRow
    /\ \A c \in Codes : tries[c] <= MaxAttempts /\ (c > issued => tries[c] = 0)
    /\ Exists => tries[row.code] <= row.attempts

\* One request at a time: the verdict it is about to write still fits the row,
\* whatever the worker, the purge and the clock did since it was decided.
VerdictInv ==
    \A r \in Req :
        /\ req[r].step = "acceptLink" => Link \in proofs
        /\ Exists => /\ req[r].step = "expire" => PastDeadline
                     /\ req[r].step \in {"exhaust", "reject"} => Exhausted
                     /\ req[r].step = "accept" => row.code \in proofs
                     /\ req[r].step = "cancel" => row.status # "VERIFIED"

-----------------------------------------------------------------------------
(* What the code's own texts say of a challenge and its handlers do not    *)
(* keep.                                                                   *)

\* README: five failed validations and the challenge is blocked.
FiveTriesPerCode == \A c \in Codes : tries[c] <= MaxAttempts

\* challenge.service.ts: a verified challenge can be neither cancelled nor
\* resent.
VerifiedIsFinal == [][row.status = "VERIFIED" /\ Exists' => row'.status = "VERIFIED"]_vars
=============================================================================
