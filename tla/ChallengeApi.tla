---------------------------- MODULE ChallengeApi ----------------------------
(***************************************************************************)
(* The API's handlers of one challenge: ChallengeService and the public    *)
(* verify-link route.  A handler runs from one awaited call to the next    *)
(* without interruption, and other requests, the delivery worker and the   *)
(* purge run in between.  What it decides from the row it decides on the   *)
(* snapshot of its first read.  A request the code answers from that read  *)
(* alone (no row, already verified, closed, cooling down, a link that has  *)
(* expired) changes nothing and is no step here.                           *)
(***************************************************************************)
EXTENDS ChallengeStore

\* A handler reads the row when its request arrives.
Arrives(r) ==
    /\ req[r].step = "idle"
    /\ Concurrent \/ \A q \in Req : ~InFlight(q)

\* The creation repeated with the same idempotency key is answered with the
\* id of the existing challenge, unless it is active and new.
RepeatAnswered == row.status \notin Active \/ now - row.createdAt > Cooldown

\* The id of the challenge leaves the system in the answer to its creation, the
\* first request that can be done, in that to its repetition, and in the
\* messages, which hold its signed link.
IdKnown == \/ \E c \in Codes : mailed[c] > 0
           \/ \E r \in Req : req[r].step = "done"
           \/ RepeatAnswered

Known(r) == Arrives(r) /\ IdKnown /\ Exists

-----------------------------------------------------------------------------
(* createChallenge, from the insertion on (Admission decides whether it    *)
(* gets there).                                                            *)

CreateChallenge(r) ==
    /\ Arrives(r)
    /\ issued = 0
    /\ issued' = 1
    /\ Insert(1)
    \* metadata already complete: the signed link is not stored
    /\ \E next \in {"signUrl", "enqueueFirst"} :
          req' = [req EXCEPT ![r] = [req[r] EXCEPT !.step = next, !.code = 1]]
    /\ UNCHANGED <<now, jobs, seen>>

StoreSignedUrl(r) ==
    /\ req[r].step = "signUrl"
    /\ Update(row)
    /\ Goto(r, "enqueueFirst")
    /\ UNCHANGED <<now, jobs, issued, seen>>

EnqueueFirst(r) ==
    /\ req[r].step = "enqueueFirst"
    /\ Enqueue(req[r].code)
    /\ Goto(r, "markQueued")
    /\ UNCHANGED <<store, seen>>

MarkQueued(r) ==
    /\ req[r].step = "markQueued"
    /\ Update([row EXCEPT !.status = "QUEUED"])
    /\ End(r, "done")
    /\ UNCHANGED <<now, jobs, issued, seen>>

-----------------------------------------------------------------------------
(* verifyChallenge.                                                        *)

\* Variants for the properties' mutation checks carry the suffix Mutant.
PastDeadlineMutant == now >= row.expiresAt
ExhaustedMutant    == row.attempts > MaxAttempts

PastDeadline == now > row.expiresAt
Exhausted    == row.attempts >= MaxAttempts

VerifyChallenge(r) ==
    /\ Known(r)
    /\ row.status \in Active
    /\ \E guess \in {NoCode, row.code} :
          req' = [req EXCEPT ![r] =
                    [step  |-> IF PastDeadline THEN "expire"
                               ELSE IF Exhausted THEN "exhaust" ELSE "countAttempt",
                     count |-> row.attempts, code |-> row.code, guess |-> guess]]
    /\ UNCHANGED <<store, jobs, seen>>

WriteExpired(r) ==
    /\ req[r].step = "expire"
    /\ Update([row EXCEPT !.status = "EXPIRED"])
    /\ End(r, "done")
    /\ UNCHANGED <<now, jobs, issued, seen>>

WriteExhaustedMutant(r) ==
    /\ req[r].step = "exhaust"
    /\ Update([row EXCEPT !.status = "BLOCKED"])
    /\ End(r, "done")
    /\ UNCHANGED <<now, jobs, issued, seen>>

WriteExhausted(r) ==
    /\ req[r].step = "exhaust"
    /\ Update([row EXCEPT !.status = "FAILED"])
    /\ End(r, "done")
    /\ UNCHANGED <<now, jobs, issued, seen>>

\* The attempts that r is going to write.
CountedMutant(r) == req[r].count
Counted(r) == req[r].count + 1

\* Writes the snapshot's attempts plus one, then compares the guess with
\* the snapshot's code.
CountAttempt(r) ==
    LET c == req[r].code
    IN  /\ req[r].step = "countAttempt"
        /\ Update([row EXCEPT !.attempts = Counted(r)])
        /\ tries' = [tries EXCEPT ![c] = @ + 1]
        /\ \/ /\ req[r].guess = c
              /\ proofs' = proofs \cup {c}
              /\ Goto(r, "accept")
           \/ /\ req[r].guess # c
              /\ UNCHANGED proofs
              /\ IF Counted(r) >= MaxAttempts THEN Goto(r, "reject") ELSE End(r, "done")
        /\ UNCHANGED <<now, jobs, issued, mailed, deliveries, events>>

WriteVerified(r) ==
    /\ req[r].step = "accept"
    /\ Update([row EXCEPT !.status = "VERIFIED", !.consumedAt = now])
    /\ Goto(r, "tellVerified")
    /\ UNCHANGED <<now, jobs, issued, seen>>

WriteFailed(r) ==
    /\ req[r].step = "reject"
    /\ Update([row EXCEPT !.status = "FAILED"])
    /\ Goto(r, "tellFailed")
    /\ UNCHANGED <<now, jobs, issued, seen>>

-----------------------------------------------------------------------------
(* resendChallenge.                                                        *)

CooledDown == now - (IF row.sentAt = Never THEN row.createdAt ELSE row.sentAt) >= Cooldown

ResendChallenge(r) ==
    /\ Known(r)
    /\ row.status # "VERIFIED"
    /\ CooledDown
    /\ req' = [req EXCEPT ![r] = [req[r] EXCEPT !.step = "reissue", !.count = row.resends]]
    /\ UNCHANGED <<store, jobs, seen>>

ReissueMutant(r) ==
    /\ req[r].step = "reissue"
    /\ issued < MaxCodes
    /\ issued' = issued + 1
    /\ Update([row EXCEPT !.code = issued + 1, !.expiresAt = now + CodeTTL,
                          !.status = "QUEUED", !.resends = req[r].count + 1])
    /\ req' = [req EXCEPT ![r] = [req[r] EXCEPT !.step = "enqueueAgain", !.code = issued + 1]]
    /\ UNCHANGED <<now, jobs, seen>>

Reissue(r) ==
    /\ req[r].step = "reissue"
    /\ issued < MaxCodes
    /\ issued' = issued + 1
    /\ Update([row EXCEPT !.code = issued + 1, !.expiresAt = now + CodeTTL,
                          !.status = "QUEUED", !.resends = req[r].count + 1,
                          !.attempts = 0])
    /\ req' = [req EXCEPT ![r] = [req[r] EXCEPT !.step = "enqueueAgain", !.code = issued + 1]]
    /\ UNCHANGED <<now, jobs, seen>>

EnqueueAgainMutant(r) ==
    /\ req[r].step = "enqueueAgain"
    /\ End(r, "done")
    /\ UNCHANGED <<store, jobs, seen>>

EnqueueAgain(r) ==
    /\ req[r].step = "enqueueAgain"
    /\ Enqueue(req[r].code)
    /\ End(r, "done")
    /\ UNCHANGED <<store, seen>>

-----------------------------------------------------------------------------
(* cancelChallenge.                                                        *)

CancelChallengeMutant(r) ==
    /\ Known(r)
    /\ Goto(r, "cancel")
    /\ UNCHANGED <<store, jobs, seen>>

CancelChallenge(r) ==
    /\ Known(r)
    /\ row.status # "VERIFIED"
    /\ Goto(r, "cancel")
    /\ UNCHANGED <<store, jobs, seen>>

WriteCancelled(r) ==
    /\ req[r].step = "cancel"
    /\ Update([row EXCEPT !.status = "CANCELLED"])
    /\ Goto(r, "tellCancelled")
    /\ UNCHANGED <<now, jobs, issued, seen>>

-----------------------------------------------------------------------------
(* verifyLink.  The link carries the deadline of the creation, whatever    *)
(* code the row holds now.                                                 *)

LinkValid == now <= row.createdAt + CodeTTL

\* The deadline is checked before the row is read.
VerifyLink(r) ==
    /\ Known(r)
    /\ LinkValid
    /\ Goto(r, "readLink")
    /\ UNCHANGED <<store, jobs, seen>>

ReadLink(r) ==
    /\ req[r].step = "readLink"
    /\ \/ /\ row.status \in Active
          /\ proofs' = proofs \cup {Link}
          /\ Goto(r, "acceptLink")
       \/ /\ row.status \notin Active
          /\ UNCHANGED proofs
          /\ End(r, "done")
    /\ UNCHANGED <<store, jobs, mailed, deliveries, events, tries>>

WriteVerifiedByLink(r) ==
    /\ req[r].step = "acceptLink"
    /\ Update([row EXCEPT !.status = "VERIFIED", !.consumedAt = now])
    /\ Goto(r, "audit")
    /\ UNCHANGED <<now, jobs, issued, seen>>

WriteAudit(r) ==
    /\ req[r].step = "audit"
    /\ Goto(r, "tellVerified")
    /\ UNCHANGED <<store, jobs, seen>>

-----------------------------------------------------------------------------
\* The events that follow a write of the row.
Announce(r) ==
    /\ \/ req[r].step = "tellVerified"  /\ Trigger("verified")
       \/ req[r].step = "tellFailed"    /\ Trigger("failed")
       \/ req[r].step = "tellCancelled" /\ Trigger("cancelled")
    /\ End(r, "done")
    /\ UNCHANGED <<store, jobs, mailed, deliveries, tries, proofs>>

\* The process dies, or a call throws: to the client an error, or nothing.
Abort(r) ==
    /\ InFlight(r)
    /\ End(r, "aborted")
    /\ UNCHANGED <<store, jobs, seen>>

\* The next step of a handler that has begun.
Continue(r) ==
    \/ StoreSignedUrl(r) \/ EnqueueFirst(r) \/ MarkQueued(r)
    \/ WriteExpired(r) \/ WriteExhausted(r) \/ CountAttempt(r)
    \/ WriteVerified(r) \/ WriteFailed(r)
    \/ Reissue(r) \/ EnqueueAgain(r)
    \/ WriteCancelled(r)
    \/ ReadLink(r) \/ WriteVerifiedByLink(r) \/ WriteAudit(r)
    \/ Announce(r)

\* Whatever the API may do next for the request r.
Serve(r) ==
    \/ CreateChallenge(r) \/ VerifyChallenge(r) \/ ResendChallenge(r)
    \/ CancelChallenge(r) \/ VerifyLink(r)
    \/ Continue(r)
    \/ Abort(r)

ApiNext == \E r \in Req : Serve(r)
=============================================================================
