----------------------------- MODULE RateLimit -----------------------------
(***************************************************************************)
(* RateLimitGuard before POST /challenges: a fixed window counted in Redis *)
(* under one key per API key.  INCR and EXPIRE are two calls.  Also the    *)
(* requests themselves and the clock, which Admission goes on with.        *)
(***************************************************************************)
EXTENDS Integers, FiniteSets

CONSTANTS
    Req,        \* the requests of one API key
    Dest,       \* destinations
    Key,        \* idempotency keys
    NoKey,      \* no idempotency key
    RateLimit,  \* requests per window
    RateTtl,    \* length of a window
    MaxTime     \* bound of the clock

ASSUME RateLimitAssumption ==
    /\ IsFiniteSet(Req)
    /\ NoKey \notin Key
    /\ RateLimit \in Nat \ {0}
    /\ RateTtl \in Nat \ {0}
    /\ MaxTime \in Nat

VARIABLES
    now,      \* the clock
    req,      \* req[r]: where the handler of r is and what it remembers
    counter,  \* the Redis key: its value, and when it expires
    passed,   \* passed[r]: when the guard let r pass, or Never
    peak      \* the most handlers ever past the guard at once, or 1

Never == -1

Handling == {"flood", "hourly", "daily", "usage", "cooldown", "lookup", "insert"}
Ended    == {"throttled", "refused", "cooling", "answered", "conflict", "admitted",
             "aborted", "ttlLost"}
Requests == [step : {"idle", "incr", "expire"} \cup Handling \cup Ended,
             dest : Dest, key : Key \cup {NoKey}, at : Nat]

At(r, s)   == req[r].step = s
Goto(r, s) == req' = [req EXCEPT ![r].step = s]

\* The key is gone once its time to live is over.
Counted == IF counter.ends # Never /\ now >= counter.ends THEN 0 ELSE counter.n

Enter(r) ==
    LET inside == {q \in Req : req[q].step \in Handling} \cup {r}
    IN  peak' = IF Cardinality(inside) > peak THEN Cardinality(inside) ELSE peak

Arrive(r) ==
    /\ At(r, "idle")
    /\ Goto(r, "incr")
    /\ UNCHANGED <<now, counter, passed, peak>>

\* Variants for the properties' mutation checks carry the suffix Mutant.
OverLimitMutant(n) == n > RateLimit + 1
OverLimit(n) == n > RateLimit

\* current = INCR key; a key that did not exist is made without a time to live.
Incr(r) ==
    LET n == Counted + 1
    IN  /\ At(r, "incr")
        /\ counter' = [n |-> n, ends |-> IF n = 1 THEN Never ELSE counter.ends]
        /\ IF n = 1
           THEN Goto(r, "expire") /\ UNCHANGED <<passed, peak>>
           ELSE IF OverLimit(n)
           THEN Goto(r, "throttled") /\ UNCHANGED <<passed, peak>>
           ELSE Goto(r, "flood") /\ passed' = [passed EXCEPT ![r] = now] /\ Enter(r)
        /\ UNCHANGED now

ExpireMutant(r) ==
    /\ At(r, "expire")
    /\ Goto(r, "flood")
    /\ passed' = [passed EXCEPT ![r] = now]
    /\ Enter(r)
    /\ UNCHANGED <<now, counter>>

\* EXPIRE key ttl, by the request that made the key.
Expire(r) ==
    /\ At(r, "expire")
    /\ counter' = [counter EXCEPT !.ends = now + RateTtl]
    /\ Goto(r, "flood")
    /\ passed' = [passed EXCEPT ![r] = now]
    /\ Enter(r)
    /\ UNCHANGED now

\* The process dies, or the second call throws, and may have taken effect.
LoseTtl(r) ==
    /\ At(r, "expire")
    /\ counter' \in {counter, [counter EXCEPT !.ends = now + RateTtl]}
    /\ Goto(r, "ttlLost")
    /\ UNCHANGED <<now, passed, peak>>

Tick == /\ now < MaxTime
        /\ now' = now + 1
        /\ UNCHANGED <<req, counter, passed, peak>>

GuardInit ==
    /\ now = 0
    /\ req \in [Req -> [step : {"idle"}, dest : Dest, key : Key \cup {NoKey}, at : {0}]]
    /\ counter = [n |-> 0, ends |-> Never]
    /\ passed = [r \in Req |-> Never]
    /\ peak = 1

GuardNext == Tick \/ \E r \in Req : Arrive(r) \/ Incr(r) \/ Expire(r) \/ LoseTtl(r)

-----------------------------------------------------------------------------
GuardTypeOK ==
    /\ now \in 0 .. MaxTime
    /\ req \in [Req -> Requests]
    /\ counter \in [n : Nat, ends : Nat \cup {Never}]
    /\ passed \in [Req -> Nat \cup {Never}]
    /\ peak \in Nat

\* From the moment a window has its end until that end, no more requests get
\* past the guard than the limit, those that passed before EXPIRE included.
RateWithinWindow ==
    counter.ends # Never =>
        Cardinality({r \in Req : passed[r] \in counter.ends - RateTtl .. counter.ends - 1}) <= RateLimit

\* The counter lacks a time to live, and so would refuse its caller for ever,
\* only while the request that made it is about to set one, or if that request
\* was lost between the two calls.
StuckOnlyByCrash ==
    Counted > 0 /\ counter.ends = Never => \E r \in Req : req[r].step \in {"expire", "ttlLost"}

-----------------------------------------------------------------------------
(* What the proofs of these properties rest on.                            *)

\* A counter without an end is one whose maker has yet to set it or was lost.
StuckInv ==
    counter.n > 0 /\ counter.ends = Never => \E r \in Req : req[r].step \in {"expire", "ttlLost"}

AtMost(S, n) == Cardinality(S) <= n
PassedIn(times) == {r \in Req : passed[r] \in times}

\* The requests that pass are counted: those of the window by its counter, and
\* those that pass while its maker is about to set the end, which will count if
\* it does so within the same instant, by one less.
WindowInv ==
    /\ \A r \in Req : passed[r] <= now /\ (counter.n = 0 => passed[r] = Never)
    /\ counter.ends # Never =>
         /\ \A r \in Req : passed[r] < counter.ends /\ ~At(r, "expire")
         /\ AtMost(PassedIn(counter.ends - RateTtl .. counter.ends - 1), counter.n)
         /\ AtMost(PassedIn(counter.ends - RateTtl .. counter.ends - 1), RateLimit)
    /\ \A r \in Req : At(r, "expire") =>
         /\ \A q \in Req : At(q, "expire") => q = r
         /\ counter.n > 0 /\ counter.ends = Never
         /\ AtMost(PassedIn({now}), counter.n - 1)
         /\ AtMost(PassedIn({now}), RateLimit - 1)
=============================================================================
