---------------------------- MODULE BudgetProofs ----------------------------
(***************************************************************************)
(* When requests come one at a time a challenge keeps its promise about    *)
(* guessing: it implements OneTimeCode, and no code is compared with more  *)
(* than MaxAttempts guesses.  Then its verdicts fit the row, too.          *)
(***************************************************************************)
EXTENDS ChallengeProofs

USE ConstantsAssumption

\* The handler that begins is alone, and so is the one that goes on.
LEMMA Alone ==
  ASSUME TypeOK, BudgetInv, ~Concurrent, NEW r \in Req, Serve(r)
  PROVE  /\ \A q \in Req \ {r} : ~InFlight(q) /\ req'[q] = req[q]
         /\ \A p, q \in Req : InFlight(p)' /\ InFlight(q)' => p = q
<1>1. \A q \in Req \ {r} : ~InFlight(q)
  <2>1. CASE Arrives(r)
    BY <2>1 DEF Arrives
  <2>2. CASE ~Arrives(r)
    <3>1. InFlight(r)
      BY <2>2 DEF Serve, Continue, Known, CreateChallenge, VerifyChallenge, ResendChallenge,
                  CancelChallenge, VerifyLink, ReadLink, StoreSignedUrl, EnqueueFirst, MarkQueued,
                  WriteExpired, WriteExhausted, CountAttempt, WriteVerified, WriteFailed,
                  Reissue, EnqueueAgain, WriteCancelled, WriteVerifiedByLink, WriteAudit,
                  Announce, Abort, InFlight, Finished
    <3> QED BY <3>1 DEF BudgetInv
  <2> QED BY <2>1, <2>2
<1>2. \A q \in Req \ {r} : req'[q] = req[q]
  BY OneRequest
<1> QED BY <1>1, <1>2 DEF InFlight

\* The steps that neither issue a code nor compare one.
LEMMA QuietApi ==
  ASSUME TypeOK, NEW r \in Req, Serve(r),
         ~CreateChallenge(r), ~Reissue(r), ~CountAttempt(r)
  PROVE  /\ UNCHANGED <<issued, tries>>
         /\ row'.attempts = row.attempts /\ row'.code = row.code
         /\ Exists' <=> Exists
         /\ ~Exists => UNCHANGED row
         /\ req'[r].step = "countAttempt" =>
               UNCHANGED row /\ req'[r].code = row.code /\ req'[r].count = row.attempts
<1>1. row \in Rows /\ req \in [Req -> Requests]  BY DEF TypeOK
<1>2. CASE VerifyChallenge(r)
  BY <1>1, <1>2 DEF VerifyChallenge, store, seen, Exists
<1>3. CASE ResendChallenge(r)
  <2>1. req'[r].step = "reissue"  BY <1>1, <1>3 DEF ResendChallenge, Requests
  <2> QED BY <1>3, <2>1 DEF ResendChallenge, store, seen, Exists
<1>4. CASE CancelChallenge(r) \/ VerifyLink(r) \/ ReadLink(r)
  <2>1. req'[r].step \in {"cancel", "readLink", "acceptLink", "done"}
    BY <1>1, <1>4 DEF CancelChallenge, VerifyLink, ReadLink, Goto, End, AtRest, Requests
  <2> QED BY <1>4, <2>1 DEF CancelChallenge, VerifyLink, ReadLink, store, seen, Exists
<1>5. CASE StoreSignedUrl(r) \/ MarkQueued(r) \/ WriteExpired(r) \/ WriteExhausted(r)
           \/ WriteFailed(r) \/ WriteCancelled(r)
  <2>1. PICK s \in {"enqueueFirst", "done", "tellFailed", "tellCancelled"} : Goto(r, s) \/ End(r, s)
    BY <1>5
    DEF StoreSignedUrl, MarkQueued, WriteExpired, WriteExhausted, WriteFailed, WriteCancelled
  <2>2. req'[r].step = s
    BY <1>1, <2>1 DEF Goto, End, AtRest, Requests
  <2>3. UNCHANGED <<issued, tries>>
    BY <1>5
    DEF StoreSignedUrl, MarkQueued, WriteExpired, WriteExhausted, WriteFailed, WriteCancelled, seen
  <2> QED BY <1>5, <2>2, <2>3, WriteKeeps DEF Keeps
<1>6. CASE WriteVerified(r) \/ WriteVerifiedByLink(r)
  <2>1. req'[r].step \in {"tellVerified", "audit"} /\ UNCHANGED <<issued, tries>>
    BY <1>1, <1>6 DEF WriteVerified, WriteVerifiedByLink, Goto, Requests, seen
  <2>2. row'.attempts = row.attempts /\ row'.code = row.code /\ row'.status = "VERIFIED" /\ Exists
    BY <1>1, <1>6 DEF WriteVerified, WriteVerifiedByLink, Update, Rows
  <2> QED BY <2>1, <2>2 DEF Exists
<1>7. CASE EnqueueFirst(r) \/ EnqueueAgain(r) \/ WriteAudit(r) \/ Abort(r) \/ Announce(r)
  <2>1. req'[r].step \in {"markQueued", "done", "tellVerified", "aborted"}
    BY <1>1, <1>7
    DEF EnqueueFirst, EnqueueAgain, WriteAudit, Abort, Announce, Goto, End, AtRest, Requests
  <2>2. UNCHANGED <<row, issued, tries>>
    BY <1>7 DEF EnqueueFirst, EnqueueAgain, WriteAudit, Abort, Announce, store, seen
  <2> QED BY <2>1, <2>2 DEF Exists
<1> QED BY <1>2, <1>3, <1>4, <1>5, <1>6, <1>7 DEF Serve, Continue

\* A resend replaces the code, refills the attempts and touches no comparison.
LEMMA ReissueFacts ==
  ASSUME TypeOK, BudgetInv, NEW r \in Req, Reissue(r)
  PROVE  /\ Exists /\ Exists' /\ issued' = issued + 1 /\ issued + 1 \in Codes
         /\ UNCHANGED tries /\ row.code = issued
         /\ row'.code = issued + 1 /\ row'.attempts = 0
<1>1. issued \in 0 .. MaxCodes /\ row \in Rows
  BY DEF TypeOK
<1>2. Exists /\ row.code = issued
  BY DEF Reissue, Update, BudgetInv
<1>3. issued' = issued + 1 /\ issued + 1 \in Codes /\ UNCHANGED tries
  BY <1>1 DEF Reissue, Codes, seen
<1>4. row'.status = "QUEUED" /\ row'.code = issued + 1 /\ row'.attempts = 0
  <2> DEFINE new == [row EXCEPT !.code = issued + 1, !.expiresAt = now + CodeTTL,
                                !.status = "QUEUED", !.resends = req[r].count + 1,
                                !.attempts = 0]
  <2>1. row' = [new EXCEPT !.updatedAt = now]
    BY DEF Reissue, Update
  <2>2. new.status = "QUEUED" /\ new.code = issued + 1 /\ new.attempts = 0
    BY <1>1 DEF Rows
  <2>3. DOMAIN new = DOMAIN row /\ {"status", "code", "attempts"} \subseteq DOMAIN new
    BY <1>1 DEF Rows
  <2> HIDE DEF new
  <2> QED BY <2>1, <2>2, <2>3
<1> QED BY <1>2, <1>3, <1>4 DEF Exists

\* A handler that runs alone keeps the count of comparisons.
LEMMA BudgetApi ==
  ASSUME TypeOK, TypeOK', AttemptsInv, BudgetInv, ~Concurrent, NEW r \in Req, Serve(r)
  PROVE  BudgetInv'
<1>1. /\ row \in Rows /\ row' \in Rows
      /\ req \in [Req -> Requests] /\ req' \in [Req -> Requests]
      /\ issued \in 0 .. MaxCodes /\ issued' \in 0 .. MaxCodes
      /\ tries \in [Codes -> Nat]
  BY DEF TypeOK
<1>2. /\ \A q \in Req \ {r} : ~InFlight(q) /\ req'[q] = req[q]
      /\ \A p, q \in Req : InFlight(p)' /\ InFlight(q)' => p = q
  BY Alone
<1>3. \A q \in Req \ {r} : req'[q].step # "countAttempt"
  BY <1>2 DEF InFlight, Finished
<1>4. \A c \in Codes : c \in Nat /\ c > 0
  BY DEF Codes
<1>5. CASE CreateChallenge(r)
  <2>1. /\ ~Exists /\ issued = 0 /\ issued' = 1 /\ UNCHANGED tries
        /\ row'.code = 1 /\ row'.attempts = 0 /\ row'.status = "PENDING"
    BY <1>5 DEF CreateChallenge, Insert, NoRow, seen, BudgetInv
  <2>2. req'[r].step \in {"signUrl", "enqueueFirst"}
    BY <1>1, <1>5 DEF CreateChallenge, Requests
  <2>3. 1 \in Codes /\ \A c \in Codes : tries[c] = 0
    BY <1>4, <2>1 DEF BudgetInv, Codes
  <2> QED BY <1>1, <1>2, <1>3, <1>4, <2>1, <2>2, <2>3 DEF BudgetInv, Exists
<1>6. CASE CountAttempt(r)
  <2>1. /\ Exists /\ Exists' /\ UNCHANGED issued
        /\ row'.code = row.code /\ row'.attempts = req[r].count + 1
        /\ req[r].step = "countAttempt"
        /\ tries' = [tries EXCEPT ![req[r].code] = @ + 1]
    BY <1>1, <1>6 DEF CountAttempt, Counted, Update, Rows, Exists
  <2>2. req[r].code = row.code /\ req[r].count = row.attempts /\ req[r].count < MaxAttempts
    BY <2>1 DEF BudgetInv, AttemptsInv
  <2>3. row.code \in Codes /\ row.code = issued /\ tries[row.code] <= row.attempts
    BY <1>1, <2>1 DEF BudgetInv, Codes
  <2>4. tries'[row.code] <= row'.attempts /\ row'.attempts <= MaxAttempts
    BY <1>1, <2>1, <2>2, <2>3 DEF Rows
  <2>5. \A c \in Codes : tries'[c] <= MaxAttempts /\ (c > issued' => tries'[c] = 0)
    BY <1>1, <1>4, <2>1, <2>2, <2>3, <2>4 DEF BudgetInv, Rows
  <2>6. PICK s \in {"accept", "reject", "done"} : Goto(r, s) \/ End(r, s)
    BY <1>6 DEF CountAttempt
  <2>7. req'[r].step = s
    BY <1>1, <2>6 DEF Goto, End, AtRest, Requests
  <2>8. issued' > 0 /\ row'.code = issued'
    BY <2>1, <2>3 DEF BudgetInv
  <2> QED BY <1>2, <1>3, <2>1, <2>4, <2>5, <2>7, <2>8 DEF BudgetInv
<1>7. CASE Reissue(r)
  <2>1. /\ Exists /\ Exists' /\ issued' = issued + 1 /\ issued' \in Codes /\ UNCHANGED tries
        /\ row'.code = issued + 1 /\ row'.attempts = 0
    BY <1>7, ReissueFacts
  <2>2. req'[r].step = "enqueueAgain"
    BY <1>1, <1>7 DEF Reissue, Requests
  <2>3. tries[issued + 1] = 0 /\ \A c \in Codes : c > issued + 1 => tries[c] = 0
    BY <1>1, <1>4, <2>1 DEF BudgetInv
  <2> QED BY <1>1, <1>2, <1>3, <1>4, <2>1, <2>2, <2>3 DEF BudgetInv
<1>8. CASE ~CreateChallenge(r) /\ ~CountAttempt(r) /\ ~Reissue(r)
  <2>1. /\ UNCHANGED <<issued, tries>>
        /\ row'.attempts = row.attempts /\ row'.code = row.code
        /\ Exists' <=> Exists
        /\ ~Exists => UNCHANGED row
        /\ req'[r].step = "countAttempt" =>
              UNCHANGED row /\ req'[r].code = row.code /\ req'[r].count = row.attempts
    BY <1>8, QuietApi
  <2> QED BY <1>2, <1>3, <2>1 DEF BudgetInv
<1> QED BY <1>5, <1>6, <1>7, <1>8

\* Every step keeps the count of comparisons when requests do not overlap.
LEMMA BudgetStep ==
  ASSUME ~Concurrent
  PROVE  TypeOK /\ AttemptsInv /\ BudgetInv /\ [Next]_vars => BudgetInv'
<1> SUFFICES ASSUME TypeOK, AttemptsInv, BudgetInv, [Next]_vars PROVE BudgetInv'
  OBVIOUS
<1>1. TypeOK'  BY TypeStep
<1>2. ASSUME NEW c \in Codes, Work(c) \/ Stall(c) PROVE BudgetInv'
  BY <1>2, WorkerKeeps DEF Keeps, BudgetInv, InFlight
<1>3. CASE Purge
  BY <1>3 DEF Purge, NoRow, Exists, BudgetInv, InFlight
<1>4. CASE Tick
  BY <1>4 DEF Tick, seen, Exists, BudgetInv, InFlight
<1>5. CASE UNCHANGED vars
  BY <1>5 DEF vars, Exists, BudgetInv, InFlight
<1> QED
  BY <1>1, <1>2, <1>3, <1>4, <1>5, BudgetApi DEF Next, ApiNext, WorkerNext

\* No comparison was made before the challenge exists.
LEMMA BudgetInit == Init => BudgetInv
  BY DEF Init, BudgetInv, InFlight, AtRest, NoRow, Exists

\* The inductive invariant of the budget holds in every reachable state.
LEMMA BudgetAlways ==
  ASSUME ~Concurrent
  PROVE  Spec => [](TypeOK /\ AttemptsInv /\ BudgetInv)
<1>1. Init => AttemptsInv
  BY DEF Init, AttemptsInv, AttemptsWithinLimit, NoRow, AtRest
<1>2. TypeOK /\ AttemptsInv /\ BudgetInv /\ [Next]_vars => BudgetInv'
  BY BudgetStep
<1> QED
  BY TypeInit, TypeStep, AttemptsStep, BudgetInit, <1>1, <1>2, PTL DEF Spec

\* With one request at a time no code is ever compared with more than
\* MaxAttempts guesses, whatever resends, deliveries and crashes come between.
THEOREM TriesBounded == Spec => []TriesWithinLimit
<1>1. CASE Concurrent
  <2>1. TriesWithinLimit  BY <1>1 DEF TriesWithinLimit
  <2> QED BY <2>1, PTL
<1>2. CASE ~Concurrent
  <2>1. BudgetInv => TriesWithinLimit  BY DEF BudgetInv, TriesWithinLimit
  <2> QED BY <1>2, <2>1, BudgetAlways, PTL
<1> QED BY <1>1, <1>2

-----------------------------------------------------------------------------
(* Refinement.                                                             *)

\* Every step is an issue, a try or a drop of OneTimeCode, or a stutter.
LEMMA RefineStep ==
  ASSUME ~Concurrent, TypeOK, TypeOK', AttemptsInv, BudgetInv, BudgetInv', [Next]_vars
  PROVE  [Budget!Next]_(Budget!vars)
<1> USE DEF Budget!Next, Budget!Issue, Budget!Try, Budget!Drop, Budget!vars
<1>1. row \in Rows /\ issued \in 0 .. MaxCodes /\ tries \in [Codes -> Nat]
  BY DEF TypeOK
<1>2. ASSUME NEW r \in Req, CreateChallenge(r) PROVE Budget!Issue
  <2>1. /\ ~Exists /\ issued = 0 /\ issued' = 1 /\ UNCHANGED tries /\ row.code = 0
        /\ row'.code = 1 /\ row'.attempts = 0 /\ row'.status = "PENDING"
    BY <1>2 DEF CreateChallenge, Insert, NoRow, NoCode, seen, BudgetInv
  <2> QED BY <2>1 DEF Exists, Codes
<1>3. ASSUME NEW r \in Req, Reissue(r) PROVE Budget!Issue
  <2>1. /\ Exists /\ Exists' /\ issued + 1 \in Codes /\ row.code = issued /\ UNCHANGED tries
        /\ row'.code = issued + 1 /\ row'.attempts = 0
    BY <1>3, ReissueFacts
  <2> QED BY <2>1
<1>4. ASSUME NEW r \in Req, CountAttempt(r) PROVE Budget!Try
  <2>1. /\ Exists /\ Exists' /\ UNCHANGED issued
        /\ row'.code = row.code /\ row'.attempts = req[r].count + 1
        /\ req[r].step = "countAttempt"
        /\ tries' = [tries EXCEPT ![req[r].code] = @ + 1]
    BY <1>1, <1>4 DEF CountAttempt, Counted, Update, Rows, Exists
  <2>2. req[r].code = row.code /\ req[r].count = row.attempts /\ req[r].count < MaxAttempts
    BY <2>1 DEF BudgetInv, AttemptsInv
  <2>3. row.attempts \in Nat  BY <1>1 DEF Rows
  <2> QED BY <2>1, <2>2, <2>3
<1>5. CASE Purge
  <2>1. Exists  BY <1>5 DEF Purge, Purgeable, Exists
  <2>2. row' = NoRow /\ issued > 0 /\ UNCHANGED <<issued, tries>>
    BY <1>5, <2>1 DEF Purge, BudgetInv
  <2> QED BY <2>1, <2>2 DEF NoRow, NoCode, Exists
<1>6. ASSUME NEW r \in Req, Serve(r), ~CreateChallenge(r), ~Reissue(r), ~CountAttempt(r)
      PROVE  UNCHANGED Budget!vars
  BY <1>6, QuietApi
<1>7. ASSUME NEW c \in Codes, Work(c) \/ Stall(c) PROVE UNCHANGED Budget!vars
  BY <1>7, WorkerKeeps DEF Keeps
<1>8. CASE Tick \/ UNCHANGED vars
  BY <1>8 DEF Tick, vars, Exists, seen
<1> QED
  BY <1>2, <1>3, <1>4, <1>5, <1>6, <1>7, <1>8 DEF Next, ApiNext, WorkerNext

\* With one request at a time a challenge implements the budget of guesses.
THEOREM BudgetImplemented ==
  ASSUME ~Concurrent
  PROVE  Spec => ImplementsBudget
<1>1. Init => Budget!Init
  BY DEF Init, Budget!Init, NoRow, Exists, NoCode
<1>2. /\ TypeOK /\ AttemptsInv /\ BudgetInv /\ TypeOK' /\ BudgetInv' /\ [Next]_vars
      => [Budget!Next]_(Budget!vars)
  BY RefineStep
<1> QED
  BY <1>1, <1>2, BudgetAlways, PTL DEF Spec, ImplementsBudget, Budget!Spec
-----------------------------------------------------------------------------
(* Verdicts.                                                               *)

Deciding == {"expire", "exhaust", "reject", "accept", "cancel", "acceptLink"}

\* What the worker writes of the row, and with what.
LEMMA WorkerRow ==
  ASSUME TypeOK, NEW c \in Codes, Work(c) \/ Stall(c)
  PROVE  /\ row'.expiresAt = row.expiresAt
         /\ \/ row'.status \in {row.status, "SENT"}
            \/ row'.status = "FAILED" /\ deliveries'.failed > deliveries.failed
<1>1. row \in Rows /\ deliveries \in [sent : Nat, failed : Nat]
  BY DEF TypeOK
<1>2. CASE RecordSent(c)
  <2>1. UNCHANGED row \/ Update([row EXCEPT !.status = "SENT", !.sentAt = now])
    BY <1>2 DEF RecordSent
  <2> QED BY <1>1, <2>1 DEF Update, Rows
<1>3. CASE RecordFailure(c)
  <2>1. CASE UNCHANGED row
    BY <2>1
  <2>2. CASE Update([row EXCEPT !.status = "FAILED"])
               /\ deliveries' = [deliveries EXCEPT !.failed = @ + 1]
    <3>1. row'.status = "FAILED" /\ row'.expiresAt = row.expiresAt
      BY <1>1, <2>2 DEF Update, Rows
    <3>2. deliveries'.failed = deliveries.failed + 1 /\ deliveries.failed \in Nat
      BY <1>1, <2>2
    <3> QED BY <3>1, <3>2
  <2> QED BY <1>3, <2>1, <2>2 DEF RecordFailure
<1>4. CASE ~RecordSent(c) /\ ~RecordFailure(c)
  <2>1. UNCHANGED row
    BY <1>4 DEF Work, Stall, TakeJob, FetchChallenge, SendMessage, AnnounceSent,
                AnnounceFailed, Retry, store
  <2> QED BY <2>1
<1> QED BY <1>2, <1>3, <1>4

\* A handler decides on the row it has just read, or on the comparison it has
\* just counted.
LEMMA Decides ==
  ASSUME TypeOK, TypeOK', BudgetInv, NEW r \in Req, Serve(r)
  PROVE  /\ req'[r].step = "acceptLink" => Link \in proofs'
         /\ req'[r].step = "expire" => PastDeadline'
         /\ req'[r].step \in {"exhaust", "reject"} => Exhausted'
         /\ req'[r].step = "accept" => row'.code \in proofs'
         /\ req'[r].step = "cancel" => row'.status # "VERIFIED"
<1>1. row \in Rows /\ req \in [Req -> Requests] /\ row.attempts \in Nat
  BY DEF TypeOK, Rows
<1>2. CASE VerifyChallenge(r)
  <2>1. UNCHANGED <<row, now>> /\ req'[r].step = IF PastDeadline THEN "expire"
                                 ELSE IF Exhausted THEN "exhaust" ELSE "countAttempt"
    BY <1>1, <1>2 DEF VerifyChallenge, store
  <2> QED BY <2>1 DEF PastDeadline, Exhausted
<1>3. CASE CountAttempt(r)
  <2>1. /\ Exists /\ req[r].step = "countAttempt" /\ row'.attempts = Counted(r)
        /\ row'.code = row.code
    BY <1>1, <1>3 DEF CountAttempt, Update, Rows
  <2>2. req[r].code = row.code
    BY <2>1 DEF BudgetInv
  <2>3. PICK s \in {"accept", "reject", "done"} :
          /\ Goto(r, s) \/ End(r, s)
          /\ s = "accept" => proofs' = proofs \cup {req[r].code}
          /\ s = "reject" => Counted(r) >= MaxAttempts
    BY <1>3 DEF CountAttempt
  <2>4. req'[r].step = s
    BY <1>1, <2>3 DEF Goto, End, AtRest, Requests
  <2> QED BY <2>1, <2>2, <2>3, <2>4 DEF Exhausted
<1>4. CASE CancelChallenge(r)
  <2>1. UNCHANGED row /\ row.status # "VERIFIED" /\ req'[r].step = "cancel"
    BY <1>1, <1>4 DEF CancelChallenge, Goto, Requests, store
  <2> QED BY <2>1
<1>5. CASE VerifyLink(r) \/ ReadLink(r)
  <2>1. req'[r].step \in {"readLink", "done"} \/ (req'[r].step = "acceptLink" /\ Link \in proofs')
    BY <1>1, <1>5 DEF VerifyLink, ReadLink, Goto, End, AtRest, Requests
  <2> QED BY <2>1
<1>6. CASE ~(VerifyChallenge(r) \/ CountAttempt(r) \/ CancelChallenge(r) \/ VerifyLink(r) \/ ReadLink(r))
  <2>1. CASE CreateChallenge(r) \/ ResendChallenge(r) \/ Reissue(r)
    <3>1. req'[r].step \in {"signUrl", "enqueueFirst", "reissue", "enqueueAgain"}
      <4>1. CASE CreateChallenge(r)
        BY <1>1, <4>1 DEF CreateChallenge, Requests
      <4>2. CASE ResendChallenge(r)
        BY <1>1, <4>2 DEF ResendChallenge, Requests
      <4>3. CASE Reissue(r)
        BY <1>1, <4>3 DEF Reissue, Requests
      <4> QED BY <2>1, <4>1, <4>2, <4>3
    <3> QED BY <3>1
  <2>2. CASE ~(CreateChallenge(r) \/ ResendChallenge(r) \/ Reissue(r))
    <3>1. PICK s \in ReqSteps \ Deciding : Goto(r, s) \/ End(r, s)
      BY <1>6, <2>2
      DEF Serve, Continue, StoreSignedUrl, EnqueueFirst, MarkQueued, WriteExpired,
          WriteExhausted, WriteVerified, WriteFailed, EnqueueAgain, WriteCancelled,
          WriteVerifiedByLink, WriteAudit, Announce, Abort, ReqSteps, Finished, Deciding
    <3>2. req'[r].step = s
      BY <1>1, <3>1 DEF Goto, End, AtRest, Requests
    <3> QED BY <3>1, <3>2 DEF Deciding
  <2> QED BY <2>1, <2>2 DEF Deciding
<1> QED BY <1>2, <1>3, <1>4, <1>5, <1>6

\* Nothing that happens before a verdict is written makes it wrong.
LEMMA VerdictStep ==
  ASSUME ~Concurrent
  PROVE  TypeOK /\ BudgetInv /\ VerdictInv /\ [Next]_vars => VerdictInv'
<1> SUFFICES ASSUME TypeOK, BudgetInv, VerdictInv, [Next]_vars PROVE VerdictInv'
  OBVIOUS
<1>1. TypeOK' /\ row \in Rows /\ now \in Nat /\ row.expiresAt \in Nat
  BY TypeStep DEF TypeOK, Rows
<1>2. ASSUME NEW r \in Req, Serve(r) PROVE VerdictInv'
  <2>1. \A q \in Req \ {r} : ~InFlight(q) /\ req'[q] = req[q]
    BY <1>2, Alone
  <2>2. \A q \in Req \ {r} : req'[q].step \notin Deciding
    BY <2>1 DEF InFlight, Finished, Deciding
  <2> QED BY <1>1, <1>2, <2>2, Decides DEF VerdictInv, Deciding
<1>3. ASSUME NEW c \in Codes, Work(c) \/ Stall(c) PROVE VerdictInv'
  <2>1. Keeps /\ UNCHANGED <<now, req, proofs>> /\ row'.expiresAt = row.expiresAt
    BY <1>3, WorkerKeeps, WorkerRow
  <2> QED BY <2>1 DEF Keeps, VerdictInv, PastDeadline, Exhausted
<1>4. CASE Purge
  BY <1>4 DEF Purge, NoRow, Exists, VerdictInv
<1>5. CASE Tick
  <2>1. UNCHANGED <<row, req, proofs>> /\ now' > now
    BY <1>1, <1>5 DEF Tick, seen
  <2>2. now' \in Nat
    BY <1>1 DEF TypeOK
  <2> QED BY <1>1, <2>1, <2>2 DEF VerdictInv, PastDeadline, Exhausted, Exists
<1>6. CASE UNCHANGED vars
  BY <1>6 DEF vars, VerdictInv, PastDeadline, Exhausted, Exists
<1> QED
  BY <1>2, <1>3, <1>4, <1>5, <1>6 DEF Next, ApiNext, WorkerNext

\* What VerdictFitsRow asks of one step.
Fits == row'.status # row.status =>
          CASE row'.status = "EXPIRED"   -> now > row.expiresAt
            [] row'.status = "VERIFIED"  -> {row.code, Link} \cap proofs # {}
            [] row'.status = "CANCELLED" -> row.status # "VERIFIED"
            [] row'.status = "FAILED"    -> \/ row.attempts >= MaxAttempts
                                            \/ deliveries.failed' > deliveries.failed
            [] OTHER -> TRUE

\* Each verdict is written by the handler that decided it, or by the worker.
LEMMA VerdictFits ==
  ASSUME TypeOK, VerdictInv, [Next]_vars
  PROVE  Fits
<1>1. row \in Rows  BY DEF TypeOK
<1>2. ASSUME NEW r \in Req, Serve(r) PROVE Fits
  <2>1. CASE WriteExpired(r)
    <3>1. row'.status = "EXPIRED" /\ PastDeadline
      BY <1>1, <2>1 DEF WriteExpired, Update, Rows, VerdictInv
    <3> QED BY <3>1 DEF Fits, PastDeadline
  <2>2. CASE WriteExhausted(r) \/ WriteFailed(r)
    <3>1. row'.status = "FAILED" /\ Exhausted
      BY <1>1, <2>2 DEF WriteExhausted, WriteFailed, Update, Rows, VerdictInv
    <3> QED BY <3>1 DEF Fits, Exhausted
  <2>3. CASE WriteVerified(r)
    <3>1. row'.status = "VERIFIED" /\ row.code \in proofs
      BY <1>1, <2>3 DEF WriteVerified, Update, Rows, VerdictInv
    <3> QED BY <3>1 DEF Fits
  <2>4. CASE WriteVerifiedByLink(r)
    <3>1. row'.status = "VERIFIED" /\ Link \in proofs
      BY <1>1, <2>4 DEF WriteVerifiedByLink, Update, Rows, VerdictInv
    <3> QED BY <3>1 DEF Fits
  <2>5. CASE WriteCancelled(r)
    <3>1. row'.status = "CANCELLED" /\ row.status # "VERIFIED"
      BY <1>1, <2>5 DEF WriteCancelled, Update, Rows, VerdictInv
    <3> QED BY <3>1 DEF Fits
  <2>6. CASE CreateChallenge(r) \/ MarkQueued(r) \/ Reissue(r)
    <3>1. CASE CreateChallenge(r)
      <4>1. row'.status = "PENDING"
        BY <3>1 DEF CreateChallenge, Insert, NoRow
      <4> QED BY <4>1 DEF Fits
    <3>2. CASE MarkQueued(r)
      <4>1. row'.status = "QUEUED"
        BY <1>1, <3>2 DEF MarkQueued, Update, Rows
      <4> QED BY <4>1 DEF Fits
    <3>3. CASE Reissue(r)
      <4>1. row'.status = "QUEUED"
        BY <1>1, <3>3 DEF Reissue, Update, Rows
      <4> QED BY <4>1 DEF Fits
    <3> QED BY <2>6, <3>1, <3>2, <3>3
  <2>7. CASE StoreSignedUrl(r) \/ CountAttempt(r)
    <3>1. row'.status = row.status
      BY <1>1, <2>7 DEF StoreSignedUrl, CountAttempt, Update, Rows
    <3> QED BY <3>1 DEF Fits
  <2>8. CASE UNCHANGED row
    BY <2>8 DEF Fits
  <2> QED
    BY <1>2, <2>1, <2>2, <2>3, <2>4, <2>5, <2>6, <2>7, <2>8
    DEF Serve, Continue, VerifyChallenge, ResendChallenge, CancelChallenge, VerifyLink, ReadLink,
        EnqueueFirst, EnqueueAgain, WriteAudit, Announce, Abort, store
<1>3. ASSUME NEW c \in Codes, Work(c) \/ Stall(c) PROVE Fits
  BY <1>3, WorkerRow DEF Fits
<1>4. CASE Purge
  <2>1. row'.status = "NONE"  BY <1>4 DEF Purge, NoRow
  <2> QED BY <2>1 DEF Fits
<1>5. CASE Tick \/ UNCHANGED vars
  BY <1>5 DEF Tick, vars, Fits
<1> QED
  BY <1>2, <1>3, <1>4, <1>5 DEF Next, ApiNext, WorkerNext

\* With one request at a time a verdict still fits the row when it is written:
\* the worker, the purge and the clock may come between the decision and the
\* write, and none of them makes it wrong.
THEOREM VerdictsFit == Spec => VerdictFitsRow
<1> DEFINE Fit == ~Concurrent /\ row'.status # row.status =>
          CASE row'.status = "EXPIRED"   -> now > row.expiresAt
            [] row'.status = "VERIFIED"  -> {row.code, Link} \cap proofs # {}
            [] row'.status = "CANCELLED" -> row.status # "VERIFIED"
            [] row'.status = "FAILED"    -> \/ row.attempts >= MaxAttempts
                                            \/ deliveries.failed' > deliveries.failed
            [] OTHER -> TRUE
<1>1. CASE Concurrent
  <2>1. Fit  BY <1>1
  <2> QED BY <2>1, PTL DEF VerdictFitsRow
<1>2. CASE ~Concurrent
  <2>1. Init => VerdictInv
    BY DEF Init, VerdictInv, AtRest, NoRow, Exists
  <2>2. TypeOK /\ BudgetInv /\ VerdictInv /\ [Next]_vars => VerdictInv'
    BY <1>2, VerdictStep
  <2>3. TypeOK /\ VerdictInv /\ [Next]_vars => Fit
    BY VerdictFits DEF Fits
  <2>4. Spec => [](TypeOK /\ AttemptsInv /\ BudgetInv)
    BY <1>2, BudgetAlways
  <2> QED BY <2>1, <2>2, <2>3, <2>4, PTL DEF Spec, VerdictFitsRow
<1> QED BY <1>1, <1>2
=============================================================================
