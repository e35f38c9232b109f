--------------------------- MODULE ChallengeStore ---------------------------
(***************************************************************************)
(* The state one challenge lives in: its row of the table "challenges",    *)
(* the delivery jobs BullMQ holds for it, the requests the API has in      *)
(* flight for it, and what the outside world has seen of it.  Rows of two  *)
(* challenges share nothing once they are created, so one row stands for   *)
(* each of them.                                                           *)
(*                                                                         *)
(* ChallengeApi and DeliveryWorker add the actions of the two kinds of     *)
(* process that write this state; Challenge composes them.                 *)
(***************************************************************************)
EXTENDS Integers, FiniteSets

CONSTANTS
    Req,            \* requests the API receives for this challenge
    Concurrent,     \* TRUE: requests may overlap; FALSE: one at a time
    MaxAttempts,    \* challenges.max_attempts
    MaxJobAttempts, \* "attempts" of a delivery job
    MaxStalls,      \* times BullMQ re-runs a job whose worker died
    CodeTTL,        \* lifetime of a code
    Cooldown,       \* time between two deliveries of a challenge
    Retention,      \* age at which a closed challenge is purged
    MaxCodes,       \* bound: codes generated for the challenge
    MaxTime         \* bound: the clock stops here

ASSUME ConstantsAssumption ==
    /\ Concurrent \in BOOLEAN
    /\ MaxAttempts \in Nat \ {0}
    /\ MaxJobAttempts \in Nat \ {0}
    /\ MaxStalls \in Nat
    /\ CodeTTL \in Nat
    /\ Cooldown \in Nat
    /\ Retention \in Nat
    /\ MaxCodes \in Nat \ {0}
    /\ MaxTime \in Nat

VARIABLES
    now,        \* the clock
    row,        \* the row, [status |-> "NONE", ...] when there is none
    req,        \* per request: its next step and the snapshot it took
    jobs,       \* per code: the job that delivers it
    issued,     \* codes generated so far
    mailed,     \* per code: messages handed to the mail or WhatsApp server
    deliveries, \* rows of delivery_attempts, by status
    events,     \* names of the webhook events announced
    tries,      \* per code: comparisons made against it
    proofs,     \* codes matched by a comparison; Link for a signed link
    rivals      \* the requests under way when the row became VERIFIED

store == <<now, row, issued, rivals>>
seen  == <<mailed, deliveries, events, tries, proofs>>
vars  == <<now, row, req, jobs, issued, mailed, deliveries, events, tries, proofs, rivals>>

-----------------------------------------------------------------------------
(* Codes are named by the order in which they are generated: a code the    *)
(* generator draws twice is two codes here.  NoCode stands for a guess that *)
(* differs from the code it is compared with.                              *)

Codes  == 1 .. MaxCodes
NoCode == 0
Link   == 0
Never  == -1

\* The schema also names DELIVERED, which nothing writes.
Active == {"PENDING", "QUEUED", "SENT"}
Closed == {"FAILED", "EXPIRED", "CANCELLED"}
Status == Active \cup Closed \cup {"VERIFIED"}

NoRow == [status |-> "NONE", attempts |-> 0, code |-> NoCode, resends |-> 0,
          createdAt |-> 0, expiresAt |-> 0, sentAt |-> Never,
          consumedAt |-> Never, updatedAt |-> 0]

Rows == [status : Status \cup {"NONE"}, attempts : Nat, code : Codes \cup {NoCode},
         resends : Nat, createdAt : Nat, expiresAt : Nat, sentAt : Nat \cup {Never},
         consumedAt : Nat \cup {Never}, updatedAt : Nat]

Exists == row.status # "NONE"

InFlight(r) == req[r].step \notin {"idle", "done", "aborted"}

\* Who is under way when a row that was not VERIFIED becomes so.
NoteRivals(new) ==
    rivals' = CASE new.status # "VERIFIED" -> {}
                [] row.status = "VERIFIED" -> rivals
                [] OTHER                   -> {r \in Req : InFlight(r)}

\* prisma.challenge.update: throws when the row is gone, stamps updatedAt.
Update(new) == Exists /\ row' = [new EXCEPT !.updatedAt = now] /\ NoteRivals(new)

\* prisma.challenge.create with the defaults of the schema.
Insert(c) ==
    /\ row' = [NoRow EXCEPT !.status = "PENDING", !.code = c, !.createdAt = now,
                            !.expiresAt = now + CodeTTL, !.updatedAt = now]
    /\ rivals' = {}

-----------------------------------------------------------------------------
(* A request is at one step: "idle" before it arrives, "done" once it has  *)
(* been answered, "aborted" when its process died or the database refused  *)
(* a call.  count and code are what it remembers across its awaits.        *)

Finished  == {"done", "aborted"}
ReqSteps  == {"idle", "signUrl", "enqueueFirst", "markQueued",
              "expire", "exhaust", "countAttempt", "accept", "reject",
              "reissue", "enqueueAgain", "cancel", "readLink", "acceptLink", "audit",
              "tellVerified", "tellFailed", "tellCancelled"} \cup Finished
Requests  == [step : ReqSteps, count : Nat, code : Codes \cup {NoCode},
              guess : Codes \cup {NoCode}]
AtRest(s) == [step |-> s, count |-> 0, code |-> NoCode, guess |-> NoCode]

\* The request r goes on to step s and keeps what it remembers.
Goto(r, s) == req' = [req EXCEPT ![r].step = s]
End(r, s)  == req' = [req EXCEPT ![r] = AtRest(s)]

(* A job of delivery_queue: waiting, then the step its worker is at, then  *)
(* completed ("done") or failed for good ("dead").                         *)

Working == {"fetch", "send", "commit", "tellSent", "recordFailure",
            "tellFailed", "throw"}
Jobs == [step : {"none", "waiting", "done", "dead"} \cup Working,
         made : Nat, stalls : Nat]
NoJob == [step |-> "none", made |-> 0, stalls |-> 0]

\* deliveryQueue.add('send_otp', {challengeId, plainCode}, {attempts: 3}).
Enqueue(c) == jobs' = [jobs EXCEPT ![c].step = "waiting"]

EventNames == {"verified", "failed", "cancelled", "sent"}

\* WebhookEndpointService.triggerEvent: never throws, and an event may be
\* lost when the endpoints cannot be read or the delivery cannot be queued.
Trigger(e) == events' \in {events, events \cup {e}}

-----------------------------------------------------------------------------
Init ==
    /\ now = 0
    /\ row = NoRow
    /\ req = [r \in Req |-> AtRest("idle")]
    /\ jobs = [c \in Codes |-> NoJob]
    /\ issued = 0
    /\ mailed = [c \in Codes |-> 0]
    /\ deliveries = [sent |-> 0, failed |-> 0]
    /\ events = {}
    /\ tries = [c \in Codes |-> 0]
    /\ proofs = {}
    /\ rivals = {}

TypeOK ==
    /\ now \in Nat
    /\ row \in Rows
    /\ req \in [Req -> Requests]
    /\ jobs \in [Codes -> Jobs]
    /\ issued \in 0 .. MaxCodes
    /\ mailed \in [Codes -> Nat]
    /\ deliveries \in [sent : Nat, failed : Nat]
    /\ events \subseteq EventNames
    /\ tries \in [Codes -> Nat]
    /\ proofs \subseteq Codes \cup {Link}
    /\ rivals \subseteq Req
=============================================================================
