--------------------------- MODULE ChallengeProofs ---------------------------
(***************************************************************************)
(* The types of a challenge's state and what holds of it whatever overlaps: *)
(* the limit on the attempts, and who may take VERIFIED back.  The lemmas on *)
(* what a step changes serve DeliveryProofs and BudgetProofs as well.       *)
(***************************************************************************)
EXTENDS Challenge, TLAPS

USE ConstantsAssumption

-----------------------------------------------------------------------------
(* What the edits of the actions preserve.                                 *)

\* The edits of the row keep its type.
LEMMA RowEdit ==
  ASSUME NEW x \in Rows, NEW s \in Status, NEW n \in Nat, NEW t \in Nat
  PROVE  /\ [x EXCEPT !.updatedAt = t] \in Rows
         /\ [x EXCEPT !.status = s] \in Rows
         /\ [x EXCEPT !.attempts = n] \in Rows
         /\ [x EXCEPT !.status = s, !.consumedAt = t] \in Rows
         /\ [x EXCEPT !.status = s, !.sentAt = t] \in Rows
<1>1. [x EXCEPT !.updatedAt = t] \in Rows  BY DEF Rows
<1>2. [x EXCEPT !.status = s] \in Rows     BY DEF Rows
<1>3. [x EXCEPT !.attempts = n] \in Rows   BY DEF Rows
<1>4. [x EXCEPT !.status = s, !.consumedAt = t] \in Rows  BY DEF Rows
<1>5. [x EXCEPT !.status = s, !.sentAt = t] \in Rows      BY DEF Rows
<1> QED BY <1>1, <1>2, <1>3, <1>4, <1>5

\* The statuses, one by one; NONE is none of them.
LEMMA StatusNames ==
  /\ {"PENDING", "QUEUED", "SENT", "FAILED", "EXPIRED", "CANCELLED", "VERIFIED"} = Status
  /\ "NONE" \notin Status
  BY DEF Status, Active, Closed

\* prisma.challenge.update keeps the type of the row.
LEMMA UpdateType ==
  ASSUME TypeOK, NEW new \in Rows, Update(new)
  PROVE  row' \in Rows
<1>1. now \in Nat  BY DEF TypeOK
<1>2. row' = [new EXCEPT !.updatedAt = now]  BY DEF Update
<1> QED BY <1>1, <1>2 DEF Rows

\* It notes requests only.
LEMMA RivalsType ==
  ASSUME TypeOK, NEW new, Update(new)
  PROVE  rivals' \subseteq Req
<1>1. rivals' = {} \/ rivals' = rivals \/ rivals' = {r \in Req : InFlight(r)}
  BY DEF Update, NoteRivals
<1> QED BY <1>1 DEF TypeOK

\* A handler that moves on, or ends, keeps the type of the requests.
LEMMA ReqEdit ==
  ASSUME TypeOK, NEW r \in Req, NEW s \in ReqSteps, Goto(r, s) \/ End(r, s)
  PROVE  req' \in [Req -> Requests]
<1>1. req \in [Req -> Requests]  BY DEF TypeOK
<1>2. req[r] \in Requests  BY <1>1
<1>3. [req[r] EXCEPT !.step = s] \in Requests  BY <1>2 DEF Requests
<1>4. AtRest(s) \in Requests  BY DEF Requests, AtRest, NoCode
<1>5. CASE Goto(r, s)  BY <1>1, <1>3, <1>5 DEF Goto
<1>6. CASE End(r, s)   BY <1>1, <1>4, <1>6 DEF End
<1> QED BY <1>5, <1>6

\* A job that runs again, or dies, keeps its type.
LEMMA JobEdit ==
  ASSUME NEW j \in Jobs, NEW s \in {"waiting", "dead"}, NEW n \in Nat
  PROVE  /\ [j EXCEPT !.made = n, !.step = s] \in Jobs
         /\ [j EXCEPT !.stalls = n, !.step = s] \in Jobs
  BY DEF Jobs

-----------------------------------------------------------------------------
(* Types.                                                                  *)

\* The initial state has its types.
LEMMA TypeInit == Init => TypeOK
  BY DEF Init, TypeOK, Rows, NoRow, Requests, AtRest, ReqSteps, Finished, Jobs, NoJob,
         Codes, NoCode, Never, Link, Status, Active, Closed, EventNames

\* The handlers that write the row and nothing else.
LEMMA TypeWrite ==
  ASSUME TypeOK, NEW r \in Req,
         StoreSignedUrl(r) \/ MarkQueued(r) \/ WriteExpired(r) \/ WriteExhausted(r)
         \/ WriteFailed(r) \/ WriteCancelled(r) \/ WriteVerified(r) \/ WriteVerifiedByLink(r)
  PROVE  TypeOK'
<1>1. PICK new \in Rows : Update(new)
  <2>1. row \in Rows /\ now \in Nat  BY DEF TypeOK
  <2> QED
    BY <2>1, RowEdit, StatusNames
    DEF StoreSignedUrl, MarkQueued, WriteExpired, WriteExhausted, WriteFailed,
        WriteCancelled, WriteVerified, WriteVerifiedByLink
<1>2. row' \in Rows  BY <1>1, UpdateType
<1>3. PICK s \in ReqSteps : Goto(r, s) \/ End(r, s)
  BY DEF StoreSignedUrl, MarkQueued, WriteExpired, WriteExhausted, WriteFailed,
         WriteCancelled, WriteVerified, WriteVerifiedByLink, ReqSteps, Finished
<1>4. req' \in [Req -> Requests]  BY <1>3, ReqEdit
<1>5. UNCHANGED <<now, jobs, issued, seen>>
  BY DEF StoreSignedUrl, MarkQueued, WriteExpired, WriteExhausted, WriteFailed,
         WriteCancelled, WriteVerified, WriteVerifiedByLink
<1>6. rivals' \subseteq Req  BY <1>1, RivalsType
<1> QED BY <1>2, <1>4, <1>5, <1>6 DEF TypeOK, seen

\* The handlers of the API keep the types.
LEMMA TypeApi ==
  ASSUME TypeOK, NEW r \in Req, Serve(r)
  PROVE  TypeOK'
<1> row \in Rows /\ req \in [Req -> Requests] /\ req[r] \in Requests
  BY DEF TypeOK
<1>1. CASE CreateChallenge(r)
  <2>1. row' \in Rows
    <3>1. NoRow \in Rows  BY DEF NoRow, Rows, NoCode, Never
    <3>2. 1 \in Codes /\ now \in Nat /\ now + CodeTTL \in Nat  BY DEF Codes, TypeOK
    <3> QED BY <1>1, <3>1, <3>2, StatusNames DEF CreateChallenge, Insert, Rows
  <2>2. req' \in [Req -> Requests]
    <3>1. PICK s \in ReqSteps : req' = [req EXCEPT ![r] = [req[r] EXCEPT !.step = s, !.code = 1]]
      BY <1>1 DEF CreateChallenge, ReqSteps
    <3>2. 1 \in Codes  BY DEF Codes
    <3>3. [req[r] EXCEPT !.step = s, !.code = 1] \in Requests  BY <3>2 DEF Requests
    <3> QED BY <3>1, <3>3
  <2>3. rivals' = {}  BY <1>1 DEF CreateChallenge, Insert
  <2> QED BY <1>1, <2>1, <2>2, <2>3 DEF CreateChallenge, TypeOK, seen
<1>2. CASE VerifyChallenge(r)
  <2>1. row.attempts \in Nat /\ row.code \in Codes \cup {NoCode}  BY DEF Rows
  <2>2. PICK s \in ReqSteps, g \in Codes \cup {NoCode} :
          req' = [req EXCEPT ![r] = [step |-> s, count |-> row.attempts, code |-> row.code, guess |-> g]]
    BY <1>2, <2>1 DEF VerifyChallenge, ReqSteps
  <2>3. req' \in [Req -> Requests]  BY <2>1, <2>2 DEF Requests
  <2> QED BY <1>2, <2>3 DEF VerifyChallenge, TypeOK, store, seen
<1>3. CASE ResendChallenge(r)
  <2>1. req' \in [Req -> Requests]
    BY <1>3 DEF ResendChallenge, Requests, ReqSteps, Rows
  <2> QED BY <1>3, <2>1 DEF ResendChallenge, TypeOK, store, seen
<1>4. CASE CancelChallenge(r)
  <2>1. req' \in [Req -> Requests]
    BY <1>4, ReqEdit DEF CancelChallenge, ReqSteps
  <2> QED BY <1>4, <2>1 DEF CancelChallenge, TypeOK, store, seen
<1>5. CASE VerifyLink(r) \/ ReadLink(r)
  <2>1. req' \in [Req -> Requests]
    BY <1>5, ReqEdit DEF VerifyLink, ReadLink, ReqSteps, Finished
  <2>2. proofs' \subseteq Codes \cup {Link}  BY <1>5 DEF VerifyLink, ReadLink, TypeOK, seen
  <2> QED BY <1>5, <2>1, <2>2 DEF VerifyLink, ReadLink, TypeOK, store, seen
<1>6. CASE EnqueueFirst(r) \/ EnqueueAgain(r)
  <2>1. req' \in [Req -> Requests]
    BY <1>6, ReqEdit DEF EnqueueFirst, EnqueueAgain, ReqSteps, Finished
  <2>2. jobs' \in [Codes -> Jobs]
    BY <1>6 DEF EnqueueFirst, EnqueueAgain, Enqueue, TypeOK, Jobs
  <2> QED BY <1>6, <2>1, <2>2 DEF EnqueueFirst, EnqueueAgain, TypeOK, store, seen
<1>7. CASE CountAttempt(r)
  <2>1. Counted(r) \in Nat /\ req[r].code \in Codes \cup {NoCode}
    BY DEF Counted, Requests
  <2>2. row' \in Rows
    <3>1. [row EXCEPT !.attempts = Counted(r)] \in Rows  BY <2>1 DEF Rows
    <3> QED BY <1>7, <3>1, UpdateType DEF CountAttempt
  <2>3. req' \in [Req -> Requests]
    BY <1>7, ReqEdit DEF CountAttempt, ReqSteps, Finished
  <2>4. tries' \in [Codes -> Nat]
    <3>1. tries \in [Codes -> Nat]  BY DEF TypeOK
    <3>2. tries' = [tries EXCEPT ![req[r].code] = @ + 1]  BY <1>7 DEF CountAttempt
    <3>3. CASE req[r].code \in Codes  BY <3>1, <3>2, <3>3
    <3>4. CASE req[r].code \notin Codes  BY <3>1, <3>2, <3>4
    <3> QED BY <3>3, <3>4
  <2>5. proofs' \subseteq Codes \cup {Link}
    BY <1>7, <2>1 DEF CountAttempt, TypeOK, Link, NoCode
  <2>6. rivals' \subseteq Req  BY <1>7, RivalsType DEF CountAttempt
  <2> QED BY <1>7, <2>2, <2>3, <2>4, <2>5, <2>6 DEF CountAttempt, TypeOK
<1>8. CASE Reissue(r)
  <2>1. issued' \in 0 .. MaxCodes /\ issued + 1 \in Codes
    BY <1>8 DEF Reissue, TypeOK, Codes
  <2>2. req[r].count + 1 \in Nat /\ now + CodeTTL \in Nat
    BY DEF Requests, TypeOK
  <2>3. [row EXCEPT !.code = issued + 1, !.expiresAt = now + CodeTTL, !.status = "QUEUED",
                    !.resends = req[r].count + 1, !.attempts = 0] \in Rows
    BY <2>1, <2>2, StatusNames DEF Rows
  <2>4. row' \in Rows
    BY <1>8, <2>3, UpdateType DEF Reissue
  <2>5. req' \in [Req -> Requests]
    BY <1>8, <2>1 DEF Reissue, Requests, ReqSteps
  <2>6. rivals' \subseteq Req  BY <1>8, RivalsType DEF Reissue
  <2> QED BY <1>8, <2>1, <2>4, <2>5, <2>6 DEF Reissue, TypeOK, seen
<1>9. CASE WriteAudit(r)
  <2>1. req' \in [Req -> Requests]  BY <1>9, ReqEdit DEF WriteAudit, ReqSteps
  <2> QED BY <1>9, <2>1 DEF WriteAudit, TypeOK, store, seen
<1>10. CASE Announce(r)
  <2>1. req' \in [Req -> Requests]  BY <1>10, ReqEdit DEF Announce, ReqSteps, Finished
  <2>2. events' \subseteq EventNames  BY <1>10 DEF Announce, Trigger, EventNames, TypeOK
  <2> QED BY <1>10, <2>1, <2>2 DEF Announce, TypeOK, store
<1>11. CASE Abort(r)
  <2>1. req' \in [Req -> Requests]  BY <1>11, ReqEdit DEF Abort, ReqSteps, Finished
  <2> QED BY <1>11, <2>1 DEF Abort, TypeOK, store, seen
<1> QED
  BY TypeWrite, <1>1, <1>2, <1>3, <1>4, <1>5, <1>6, <1>7, <1>8, <1>9, <1>10, <1>11
  DEF Serve, Continue

\* The delivery worker keeps the types.
LEMMA TypeWorker ==
  ASSUME TypeOK, NEW c \in Codes, Work(c) \/ Stall(c)
  PROVE  TypeOK'
<1>1. jobs[c] \in Jobs  BY DEF TypeOK
<1>2. jobs' \in [Codes -> Jobs]
  <2>1. PICK j \in Jobs : jobs' = [jobs EXCEPT ![c] = j]
    <3>1. CASE Retry(c)
      <4> DEFINE j == [jobs[c] EXCEPT !.made = jobs[c].made + 1,
                                     !.step = IF MayRetry(c) THEN "waiting" ELSE "dead"]
      <4>1. j \in Jobs  
        <5>1. (IF MayRetry(c) THEN "waiting" ELSE "dead") \in {"waiting", "dead"}
          BY DEF MayRetry
        <5>2. jobs[c].made + 1 \in Nat  BY <1>1 DEF Jobs
        <5> QED BY <1>1, <5>1, <5>2, JobEdit
      <4> QED BY <3>1, <4>1 DEF Retry
    <3>2. CASE Stall(c)
      <4> DEFINE j == [jobs[c] EXCEPT !.stalls = jobs[c].stalls + 1,
                                     !.step = IF jobs[c].stalls < MaxStalls
                                              THEN "waiting" ELSE "dead"]
      <4>1. j \in Jobs
        <5>1. (IF jobs[c].stalls < MaxStalls THEN "waiting" ELSE "dead") \in {"waiting", "dead"}
          OBVIOUS
        <5>2. jobs[c].stalls + 1 \in Nat  BY <1>1 DEF Jobs
        <5> QED BY <1>1, <5>1, <5>2, JobEdit
      <4> QED BY <3>2, <4>1 DEF Stall
    <3>3. CASE ~Retry(c) /\ ~Stall(c)
      <4>1. PICK s \in {"done"} \cup Working : JobGoto(c, s)
        BY <3>3 DEF Work, Working, TakeJob, FetchChallenge, SendMessage, RecordSent,
                    AnnounceSent, RecordFailure, AnnounceFailed
      <4> QED BY <1>1, <4>1 DEF JobGoto, Jobs
    <3> QED BY <3>1, <3>2, <3>3
  <2> QED BY <2>1 DEF TypeOK
<1>3. row' \in Rows /\ rivals' \subseteq Req
  <2>1. row \in Rows /\ now \in Nat  BY DEF TypeOK
  <2>2. UNCHANGED <<row, rivals>> \/ \E new \in Rows : Update(new)
    BY <2>1, RowEdit, StatusNames
    DEF Work, Stall, TakeJob, FetchChallenge, SendMessage, RecordSent, AnnounceSent,
        RecordFailure, AnnounceFailed, Retry, store
  <2> QED BY <2>1, <2>2, UpdateType, RivalsType DEF TypeOK
<1>4. UNCHANGED <<now, issued, req, tries, proofs>>
  BY DEF Work, Stall, TakeJob, FetchChallenge, SendMessage, RecordSent, AnnounceSent,
         RecordFailure, AnnounceFailed, Retry, store, seen
<1>5. mailed' \in [Codes -> Nat]
  BY DEF Work, Stall, TakeJob, FetchChallenge, SendMessage, RecordSent, AnnounceSent,
         RecordFailure, AnnounceFailed, Retry, seen, TypeOK
<1>6. deliveries' \in [sent : Nat, failed : Nat]
  BY DEF Work, Stall, TakeJob, FetchChallenge, SendMessage, RecordSent, AnnounceSent,
         RecordFailure, AnnounceFailed, Retry, seen, TypeOK
<1>7. events' \subseteq EventNames
  BY DEF Work, Stall, TakeJob, FetchChallenge, SendMessage, RecordSent, AnnounceSent,
         RecordFailure, AnnounceFailed, Retry, seen, TypeOK, Trigger, EventNames
<1> QED BY <1>2, <1>3, <1>4, <1>5, <1>6, <1>7 DEF TypeOK

\* Every step keeps the types.
LEMMA TypeStep == TypeOK /\ [Next]_vars => TypeOK'
<1> SUFFICES ASSUME TypeOK, [Next]_vars PROVE TypeOK'
  OBVIOUS
<1>1. CASE Purge
  <2>1. NoRow \in Rows  BY DEF NoRow, Rows, NoCode, Never
  <2> QED BY <1>1, <2>1 DEF Purge, TypeOK
<1>2. CASE Tick
  BY <1>2 DEF Tick, TypeOK, seen
<1>3. CASE UNCHANGED vars
  BY <1>3 DEF vars, TypeOK
<1> QED
  BY TypeApi, TypeWorker, <1>1, <1>2, <1>3 DEF Next, ApiNext, WorkerNext

\* The state keeps its types, whatever the API, the worker and the purge do.
THEOREM TypeCorrect == Spec => []TypeOK
  BY TypeInit, TypeStep, PTL DEF Spec

-----------------------------------------------------------------------------
(* What a step does to the row, and to a request other than its own.       *)

\* The steps that leave alone what the properties read in the row.
Keeps ==
    /\ row'.attempts = row.attempts
    /\ row'.code = row.code
    /\ row'.consumedAt = row.consumedAt
    /\ Exists' <=> Exists
    /\ row'.status = "VERIFIED" => row.status = "VERIFIED"

\* An update writes the fields it is given.
LEMMA UpdateFields ==
  ASSUME TypeOK, NEW new \in Rows, Update(new)
  PROVE  /\ row'.attempts = new.attempts
         /\ row'.code = new.code
         /\ row'.consumedAt = new.consumedAt
         /\ row'.status = new.status
         /\ Exists
  BY DEF Update, Rows

\* A handler that writes a status only keeps the rest of the row.
LEMMA WriteKeeps ==
  ASSUME TypeOK, NEW r \in Req,
         StoreSignedUrl(r) \/ MarkQueued(r) \/ WriteExpired(r) \/ WriteExhausted(r)
         \/ WriteFailed(r) \/ WriteCancelled(r)
  PROVE  Keeps /\ Exists
<1>1. row \in Rows  BY DEF TypeOK
<1>2. CASE StoreSignedUrl(r)
  BY <1>1, <1>2 DEF StoreSignedUrl, Keeps, Update, Exists, Rows
<1>3. PICK s \in {"QUEUED", "EXPIRED", "FAILED", "CANCELLED"} :
        StoreSignedUrl(r) \/ Update([row EXCEPT !.status = s])
  BY DEF MarkQueued, WriteExpired, WriteExhausted, WriteFailed, WriteCancelled
<1>4. CASE Update([row EXCEPT !.status = s])
  BY <1>1, <1>4 DEF Update, Keeps, Exists, Rows
<1> QED BY <1>2, <1>3, <1>4

\* The worker writes the status and the time of delivery, and nothing else of
\* the row or the requests.
LEMMA WorkerKeeps ==
  ASSUME TypeOK, NEW c \in Codes, Work(c) \/ Stall(c)
  PROVE  /\ Keeps /\ (~Exists => UNCHANGED row)
         /\ UNCHANGED <<now, issued, req, tries, proofs>>
<1>1. row \in Rows  BY DEF TypeOK
<1>2. UNCHANGED <<now, issued, req, tries, proofs>>
  BY DEF Work, Stall, TakeJob, FetchChallenge, SendMessage, RecordSent, AnnounceSent,
         RecordFailure, AnnounceFailed, Retry, store, seen
<1>3. \/ UNCHANGED row
      \/ Update([row EXCEPT !.status = "SENT", !.sentAt = now])
      \/ Update([row EXCEPT !.status = "FAILED"])
  BY DEF Work, Stall, TakeJob, FetchChallenge, SendMessage, RecordSent, AnnounceSent,
         RecordFailure, AnnounceFailed, Retry, store
<1>4. CASE UNCHANGED row
  BY <1>2, <1>4 DEF Keeps, Exists
<1>5. CASE Update([row EXCEPT !.status = "SENT", !.sentAt = now])
  BY <1>1, <1>2, <1>5 DEF Keeps, Update, Exists, Rows
<1>6. CASE Update([row EXCEPT !.status = "FAILED"])
  BY <1>1, <1>2, <1>6 DEF Keeps, Update, Exists, Rows
<1> QED BY <1>2, <1>3, <1>4, <1>5, <1>6

\* A step for the request r leaves the others alone.
LEMMA OneRequest ==
  ASSUME TypeOK, NEW r \in Req, Serve(r)
  PROVE  /\ \A q \in Req \ {r} : req'[q] = req[q]
         /\ DOMAIN req' = Req
<1>1. req \in [Req -> Requests]  BY DEF TypeOK
<1> DEFINE Only == (\A q \in Req \ {r} : req'[q] = req[q]) /\ DOMAIN req' = Req
<1>2. ASSUME NEW s, Goto(r, s) PROVE Only
  BY <1>1, <1>2 DEF Goto
<1>3. ASSUME NEW s, End(r, s) PROVE Only
  BY <1>1, <1>3 DEF End
<1>4. CASE CreateChallenge(r)
  BY <1>1, <1>4 DEF CreateChallenge
<1>5. CASE VerifyChallenge(r)
  BY <1>1, <1>5 DEF VerifyChallenge
<1>6. CASE ResendChallenge(r) \/ Reissue(r)
  BY <1>1, <1>6 DEF ResendChallenge, Reissue
<1>7. CASE ~(CreateChallenge(r) \/ VerifyChallenge(r) \/ ResendChallenge(r) \/ Reissue(r))
  <2>1. \E s : Goto(r, s) \/ End(r, s)
    BY <1>7 DEF Serve, Continue, CancelChallenge, VerifyLink, ReadLink, StoreSignedUrl, EnqueueFirst,
                MarkQueued, WriteExpired, WriteExhausted, CountAttempt, WriteVerified,
                WriteFailed, EnqueueAgain, WriteCancelled, WriteVerifiedByLink, WriteAudit,
                Announce, Abort
  <2> QED BY <2>1, <1>2, <1>3
<1> QED BY <1>4, <1>5, <1>6, <1>7

-----------------------------------------------------------------------------
(* The limit on the attempts.                                              *)

\* Every step keeps the limit on the attempts.
LEMMA AttemptsStep ==
  TypeOK /\ AttemptsInv /\ [Next]_vars => AttemptsInv'
<1> SUFFICES ASSUME TypeOK, AttemptsInv, [Next]_vars PROVE AttemptsInv'
  OBVIOUS
<1> USE DEF AttemptsInv, AttemptsWithinLimit
<1>1. ASSUME NEW r \in Req, Serve(r) PROVE AttemptsInv'
  <2>1. row \in Rows /\ row' \in Rows /\ req \in [Req -> Requests]
    BY <1>1, TypeApi DEF TypeOK
  <2>2. \A q \in Req \ {r} : req'[q].step = "countAttempt" => req'[q].count < MaxAttempts
    BY <1>1, OneRequest
  <2>3. CASE CountAttempt(r)
    <3>1. req[r].step = "countAttempt" /\ row'.attempts = req[r].count + 1
      BY <2>1, <2>3 DEF CountAttempt, Counted, Update, Rows
    <3>2. req[r].count \in Nat  BY <2>1 DEF Requests
    <3>3. row'.attempts <= MaxAttempts  BY <3>1, <3>2
    <3>4. req'[r].step # "countAttempt"
      <4>1. PICK s \in {"accept", "reject", "done"} : Goto(r, s) \/ End(r, s)
        BY <2>3 DEF CountAttempt
      <4> QED BY <2>1, <4>1 DEF Goto, End, AtRest, Requests
    <3> QED BY <2>2, <3>3, <3>4
  <2>4. CASE VerifyChallenge(r)
    <3>1. UNCHANGED row  BY <2>4 DEF VerifyChallenge, store
    <3>2. req'[r].step = "countAttempt" => req'[r].count = row.attempts /\ ~Exhausted
      BY <2>1, <2>4 DEF VerifyChallenge
    <3>3. req'[r].step = "countAttempt" => req'[r].count < MaxAttempts
      BY <2>1, <3>2 DEF Exhausted, Rows
    <3> QED BY <2>2, <3>1, <3>3
  <2>5. CASE ~CountAttempt(r) /\ ~VerifyChallenge(r)
    <3>1. req'[r].step # "countAttempt"
      <4>1. CASE CreateChallenge(r) \/ ResendChallenge(r) \/ Reissue(r)
        BY <2>1, <4>1 DEF CreateChallenge, ResendChallenge, Reissue, Requests
      <4>2. CASE ~(CreateChallenge(r) \/ ResendChallenge(r) \/ Reissue(r))
        <5>1. PICK s \in ReqSteps \ {"countAttempt"} : Goto(r, s) \/ End(r, s)
          BY <1>1, <2>5, <4>2
          DEF Serve, Continue, CancelChallenge, VerifyLink, ReadLink, StoreSignedUrl, EnqueueFirst,
              MarkQueued, WriteExpired, WriteExhausted, WriteVerified, WriteFailed,
              EnqueueAgain, WriteCancelled, WriteVerifiedByLink, WriteAudit, Announce,
              Abort, ReqSteps, Finished
        <5> QED BY <2>1, <5>1 DEF Goto, End, AtRest, Requests
      <4> QED BY <4>1, <4>2
    <3>2. row'.attempts = row.attempts \/ row'.attempts = 0
      <4>1. CASE CreateChallenge(r)
        BY <4>1 DEF CreateChallenge, Insert, NoRow
      <4>2. CASE Reissue(r)
        BY <2>1, <4>2 DEF Reissue, Update, Rows
      <4>3. CASE WriteVerified(r) \/ WriteVerifiedByLink(r)
        BY <2>1, <4>3 DEF WriteVerified, WriteVerifiedByLink, Update, Rows
      <4>4. CASE UNCHANGED row
        BY <4>4
      <4> QED
        BY <1>1, <2>5, WriteKeeps, <4>1, <4>2, <4>3, <4>4
        DEF Serve, Continue, Keeps, ResendChallenge, CancelChallenge, VerifyLink, ReadLink, EnqueueFirst,
            EnqueueAgain, WriteAudit, Announce, Abort, store
    <3> QED BY <2>2, <3>1, <3>2
  <2> QED BY <2>3, <2>4, <2>5
<1>2. ASSUME NEW c \in Codes, Work(c) \/ Stall(c) PROVE AttemptsInv'
  BY <1>2, WorkerKeeps DEF Keeps
<1>3. CASE Purge
  BY <1>3 DEF Purge, NoRow
<1>4. CASE Tick
  BY <1>4 DEF Tick
<1>5. CASE UNCHANGED vars
  BY <1>5 DEF vars
<1> QED
  BY <1>1, <1>2, <1>3, <1>4, <1>5 DEF Next, ApiNext, WorkerNext

\* No interleaving of handlers that hold an old count makes the row count more
\* than MaxAttempts attempts.
THEOREM AttemptsBounded == Spec => []AttemptsWithinLimit
<1>1. Init => AttemptsInv
  BY DEF Init, AttemptsInv, AttemptsWithinLimit, NoRow, AtRest
<1>2. AttemptsInv => AttemptsWithinLimit
  BY DEF AttemptsInv
<1> QED
  BY TypeCorrect, AttemptsStep, <1>1, <1>2, PTL DEF Spec

-----------------------------------------------------------------------------
(* Who may take VERIFIED back.                                             *)

Taken == row.status = "VERIFIED" /\ row'.status # "VERIFIED"

\* The handlers that write a status other than VERIFIED over the row they find.
LEMMA RivalWrites ==
  ASSUME TypeOK, RivalsInv, NEW r \in Req,
         MarkQueued(r) \/ WriteExpired(r) \/ WriteExhausted(r) \/ WriteFailed(r)
         \/ WriteCancelled(r) \/ Reissue(r)
  PROVE  /\ RivalsInv'
         /\ Taken => r \in rivals /\ req'[r] # req[r]
<1>1. row \in Rows /\ req \in [Req -> Requests] /\ issued \in Nat  BY DEF TypeOK
<1>2. Exists /\ row'.status # "VERIFIED"
  BY <1>1 DEF MarkQueued, WriteExpired, WriteExhausted, WriteFailed, WriteCancelled, Reissue,
              Update, Rows
<1>3. issued' # 0
  BY <1>1, <1>2 DEF RivalsInv, MarkQueued, WriteExpired, WriteExhausted, WriteFailed,
                    WriteCancelled, Reissue
<1>4. req[r].step \in Overwriting
  BY DEF MarkQueued, WriteExpired, WriteExhausted, WriteFailed, WriteCancelled, Reissue, Overwriting
<1>5. req'[r].step \notin Overwriting
  <2>1. CASE Reissue(r)
    BY <1>1, <2>1 DEF Reissue, Requests, Overwriting
  <2>2. CASE ~Reissue(r)
    <3>1. PICK s \in {"done", "tellFailed", "tellCancelled"} : Goto(r, s) \/ End(r, s)
      BY <2>2 DEF MarkQueued, WriteExpired, WriteExhausted, WriteFailed, WriteCancelled
    <3> QED BY <1>1, <3>1 DEF Goto, End, AtRest, Requests, Overwriting
  <2> QED BY <2>1, <2>2
<1> QED BY <1>2, <1>3, <1>4, <1>5 DEF RivalsInv, Taken

\* The other steps for a request take nothing back.
LEMMA RivalsApi ==
  ASSUME TypeOK, RivalsInv, NEW r \in Req, Serve(r)
  PROVE  /\ RivalsInv'
         /\ Taken => r \in rivals /\ req'[r] # req[r]
<1>1. row \in Rows /\ req \in [Req -> Requests]  BY DEF TypeOK
<1>2. \A q \in Req \ {r} : req'[q] = req[q]
  BY OneRequest
<1>f. \A q \in Req : req[q].step \in Overwriting => InFlight(q)
  BY DEF Overwriting, InFlight
<1>3. CASE CreateChallenge(r)
  <2>1. row'.status = "PENDING" /\ issued = 0 /\ issued' = 1
    BY <1>3 DEF CreateChallenge, Insert, NoRow
  <2> QED BY <2>1 DEF RivalsInv, Taken, Exists
<1>4. CASE VerifyChallenge(r) \/ ResendChallenge(r) \/ CancelChallenge(r)
  <2>1. UNCHANGED <<row, issued, rivals>> /\ row.status # "VERIFIED"
    BY <1>4 DEF VerifyChallenge, ResendChallenge, CancelChallenge, store, Active
  <2> QED BY <2>1 DEF RivalsInv, Taken, Exists
<1>5. CASE VerifyLink(r) \/ ReadLink(r) \/ EnqueueFirst(r) \/ EnqueueAgain(r) \/ WriteAudit(r)
           \/ Announce(r) \/ Abort(r)
  <2>1. UNCHANGED <<row, issued, rivals>>
    BY <1>5 DEF VerifyLink, ReadLink, EnqueueFirst, EnqueueAgain, WriteAudit, Announce, Abort, store
  <2>2. \/ req'[r].step \in {"readLink", "acceptLink", "done", "aborted", "tellVerified"}
        \/ req[r].step = "enqueueFirst" /\ req'[r].step = "markQueued"
    BY <1>1, <1>5 DEF VerifyLink, ReadLink, EnqueueFirst, EnqueueAgain, WriteAudit, Announce, Abort,
                      Goto, End, AtRest, Requests
  <2>3. req'[r].step \in Overwriting => req[r].step \in Overwriting
    BY <2>2 DEF Overwriting
  <2> QED BY <1>2, <2>1, <2>3 DEF RivalsInv, Taken, Exists
<1>6. CASE StoreSignedUrl(r) \/ CountAttempt(r)
  <2>1. PICK new \in Rows : Update(new) /\ new.status = row.status
    <3>1. CASE StoreSignedUrl(r)  BY <1>1, <3>1 DEF StoreSignedUrl
    <3>2. CASE CountAttempt(r)
      <4>1. Counted(r) \in Nat  BY <1>1 DEF Counted, Requests
      <4>2. [row EXCEPT !.attempts = Counted(r)] \in Rows  BY <1>1, <4>1 DEF Rows
      <4>3. [row EXCEPT !.attempts = Counted(r)].status = row.status  BY <1>1 DEF Rows
      <4> QED BY <3>2, <4>2, <4>3 DEF CountAttempt
    <3> QED BY <1>6, <3>1, <3>2
  <2>2. row'.status = row.status /\ Exists  BY <2>1, UpdateFields
  <2>3. row.status = "VERIFIED" => rivals' = rivals  BY <2>1 DEF Update, NoteRivals
  <2>4. issued' = issued  BY <1>6 DEF StoreSignedUrl, CountAttempt
  <2>5. req[r].step \in Overwriting
    BY <1>6 DEF StoreSignedUrl, CountAttempt, Overwriting
  <2> QED BY <1>2, <2>2, <2>3, <2>4, <2>5 DEF RivalsInv, Taken, Exists
<1>7. CASE WriteVerified(r) \/ WriteVerifiedByLink(r)
  <2>1. row'.status = "VERIFIED" /\ Exists /\ issued' = issued
    BY <1>1, <1>7 DEF WriteVerified, WriteVerifiedByLink, Update, Rows
  <2>2. rivals' = (IF row.status = "VERIFIED" THEN rivals ELSE {q \in Req : InFlight(q)})
    <3>1. Update([row EXCEPT !.status = "VERIFIED", !.consumedAt = now])
      BY <1>7 DEF WriteVerified, WriteVerifiedByLink
    <3>2. [row EXCEPT !.status = "VERIFIED", !.consumedAt = now].status = "VERIFIED"
      BY <1>1 DEF Rows
    <3> QED BY <3>1, <3>2 DEF Update, NoteRivals
  <2>3. req'[r].step \in {"tellVerified", "audit"}
    BY <1>1, <1>7 DEF WriteVerified, WriteVerifiedByLink, Goto, Requests
  <2>4. req'[r].step \notin Overwriting  BY <2>3 DEF Overwriting
  <2> QED BY <1>2, <1>f, <2>1, <2>2, <2>4 DEF RivalsInv, Taken, Exists
<1> QED
  BY <1>3, <1>4, <1>5, <1>6, <1>7, RivalWrites DEF Serve, Continue

\* The worker takes VERIFIED back only with a delivery it records.
LEMMA RivalsWorker ==
  ASSUME TypeOK, RivalsInv, NEW c \in Codes, Work(c) \/ Stall(c)
  PROVE  /\ RivalsInv'
         /\ Taken => deliveries' # deliveries
<1>1. row \in Rows /\ deliveries \in [sent : Nat, failed : Nat]  BY DEF TypeOK
<1>2. UNCHANGED <<issued, req>> /\ (Exists' <=> Exists)
  BY WorkerKeeps DEF Keeps
<1>3. CASE UNCHANGED <<row, rivals>>
  BY <1>2, <1>3 DEF RivalsInv, Taken
<1>4. CASE RecordSent(c) /\ row' # row
  <2>1. row'.status = "SENT" /\ deliveries' = [deliveries EXCEPT !.sent = @ + 1]
    BY <1>1, <1>4 DEF RecordSent, Update, Rows
  <2>2. deliveries'.sent # deliveries.sent  BY <1>1, <2>1
  <2> QED BY <1>2, <2>1, <2>2 DEF RivalsInv
<1>5. CASE RecordFailure(c) /\ row' # row
  <2>1. row'.status = "FAILED" /\ deliveries' = [deliveries EXCEPT !.failed = @ + 1]
    BY <1>1, <1>5 DEF RecordFailure, Update, Rows
  <2>2. deliveries'.failed # deliveries.failed  BY <1>1, <2>1
  <2> QED BY <1>2, <2>1, <2>2 DEF RivalsInv
<1>6. CASE row' = row /\ (RecordSent(c) \/ RecordFailure(c))
  <2>1. row.status = "VERIFIED" => rivals' = rivals
    <3>1. ASSUME row.status = "VERIFIED",
                 Update([row EXCEPT !.status = "SENT", !.sentAt = now])
                 \/ Update([row EXCEPT !.status = "FAILED"])
          PROVE FALSE
      BY <1>1, <1>6, <3>1 DEF Update, Rows
    <3> QED BY <1>6, <3>1 DEF RecordSent, RecordFailure
  <2> QED BY <1>2, <1>6, <2>1 DEF RivalsInv, Taken
<1>7. RecordSent(c) \/ RecordFailure(c) \/ UNCHANGED <<row, rivals>>
  BY DEF Work, Stall, TakeJob, FetchChallenge, SendMessage, AnnounceSent, AnnounceFailed, Retry, store
<1> QED BY <1>3, <1>4, <1>5, <1>6, <1>7

\* Once a challenge is VERIFIED no request that arrives later takes it back, however
\* many handlers overlap: a delivery does, or a request that had begun before.
THEOREM VerifiedKept == Spec => VerifiedIsKept
<1> DEFINE Kept == row.status = "VERIFIED" /\ Exists' /\ row'.status # "VERIFIED" =>
                     deliveries' # deliveries \/ \E r \in rivals : req'[r] # req[r]
<1>1. Init => RivalsInv
  BY DEF Init, RivalsInv, NoRow, Exists
<1>2. ASSUME TypeOK, RivalsInv, [Next]_vars
      PROVE  RivalsInv' /\ Kept
  <2>1. ASSUME NEW r \in Req, Serve(r) PROVE RivalsInv' /\ Kept
    BY <1>2, <2>1, RivalsApi DEF Taken
  <2>2. ASSUME NEW c \in Codes, Work(c) \/ Stall(c) PROVE RivalsInv' /\ Kept
    BY <1>2, <2>2, RivalsWorker DEF Taken
  <2>3. CASE Purge
    BY <2>3 DEF Purge, NoRow, Exists, RivalsInv
  <2>4. CASE Tick
    BY <1>2, <2>4 DEF Tick, Exists, RivalsInv
  <2>5. CASE UNCHANGED vars
    BY <1>2, <2>5 DEF vars, Exists, RivalsInv
  <2> QED BY <1>2, <2>1, <2>2, <2>3, <2>4, <2>5 DEF Next, ApiNext, WorkerNext
<1> QED BY <1>1, <1>2, TypeCorrect, PTL DEF Spec, VerifiedIsKept
=============================================================================
