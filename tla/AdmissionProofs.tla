-------------------------- MODULE AdmissionProofs --------------------------
(* What the guard and the checks of a creation promise, for any number of  *)
(* requests and any limits.                                                *)
EXTENDS Admission, FiniteSetTheorems, TLAPS

USE RateLimitAssumption, AdmissionAssumption

-----------------------------------------------------------------------------
(* Helpers.                                                                *)

Steps == {"idle", "incr", "expire"} \cup Handling \cup Ended

\* A step of request r alone, which keeps what it asked for.
Moved(r) ==
    /\ req' \in [Req -> Requests]
    /\ \A q \in Req : q # r => req'[q] = req[q]
    /\ \A q \in Req : req'[q].key = req[q].key /\ req'[q].dest = req[q].dest

\* What a request's step forward changes.
LEMMA GotoMoves ==
  ASSUME req \in [Req -> Requests], NEW r \in Req, NEW s \in Steps, Goto(r, s)
  PROVE  Moved(r) /\ req'[r].step = s /\ req'[r].at = req[r].at
<1>1. /\ [req[r] EXCEPT !.step = s] \in Requests
      /\ [req[r] EXCEPT !.step = s].step = s
      /\ [req[r] EXCEPT !.step = s].key = req[r].key
      /\ [req[r] EXCEPT !.step = s].dest = req[r].dest
      /\ [req[r] EXCEPT !.step = s].at = req[r].at
      BY DEF Requests, Steps
<1>2. req' = [req EXCEPT ![r] = [req[r] EXCEPT !.step = s]]  BY DEF Goto
<1> QED BY <1>1, <1>2 DEF Moved

\* The first check also remembers the time.
LEMMA CheckFloodMoves ==
  ASSUME TypeOK, NEW r \in Req, CheckFlood(r)
  PROVE  Moved(r) /\ req'[r].step \in {"refused", "hourly"} /\ req'[r].at = now
<1>1. req \in [Req -> Requests] /\ now \in Nat  BY DEF TypeOK, GuardTypeOK
<1>2. PICK s \in {"refused", "hourly"} : req' = [req EXCEPT ![r] = [req[r] EXCEPT !.step = s, !.at = now]]
      BY DEF CheckFlood
<1>3. /\ [req[r] EXCEPT !.step = s, !.at = now] \in Requests
      /\ [req[r] EXCEPT !.step = s, !.at = now].step = s
      /\ [req[r] EXCEPT !.step = s, !.at = now].key = req[r].key
      /\ [req[r] EXCEPT !.step = s, !.at = now].dest = req[r].dest
      /\ [req[r] EXCEPT !.step = s, !.at = now].at = now
      BY <1>1 DEF Requests, Handling, Ended
<1> QED BY <1>1, <1>2, <1>3 DEF Moved

\* The checks after the guard, and what each may lead to.
LEMMA HandleMoves ==
  ASSUME TypeOK, NEW r \in Req, Handle(r) \/ Abort(r)
  PROVE  /\ Moved(r)
         /\ req[r].step \in Handling
         /\ req'[r].step \in (Handling \cup Ended) \ {"throttled", "ttlLost", "flood"}
         /\ UNCHANGED guard
<1>1. req \in [Req -> Requests]  BY DEF TypeOK, GuardTypeOK
<1>s. \A s \in {"flood", "hourly", "daily", "usage", "cooldown", "lookup", "insert", "refused", "cooling",
                 "answered", "conflict", "admitted", "aborted"} : s \in Steps
      BY DEF Steps, Handling, Ended
<1>2. CASE CheckFlood(r)  BY <1>2, CheckFloodMoves DEF CheckFlood, At, Handling, Ended
<1>3. CASE CheckHourly(r)  BY <1>1, <1>s, <1>3, GotoMoves DEF CheckHourly, At, Handling, Ended
<1>4. CASE CheckDaily(r)  BY <1>1, <1>s, <1>4, GotoMoves DEF CheckDaily, At, Handling, Ended
<1>5. CASE CountUsage(r)  BY <1>1, <1>s, <1>5, GotoMoves DEF CountUsage, At, Handling, Ended
<1>6. CASE CheckCooldown(r)  BY <1>1, <1>s, <1>6, GotoMoves DEF CheckCooldown, At, Handling, Ended
<1>7. CASE Lookup(r)  BY <1>1, <1>s, <1>7, GotoMoves DEF Lookup, At, Handling, Ended, quota
<1>8. CASE Insert(r)  BY <1>1, <1>s, <1>8, GotoMoves DEF Insert, At, Handling, Ended
<1>9. CASE Abort(r)  BY <1>1, <1>s, <1>9, GotoMoves DEF Abort, Handling, Ended, quota
<1> QED BY <1>2, <1>3, <1>4, <1>5, <1>6, <1>7, <1>8, <1>9 DEF Handle

\* The steps of Next, one by one.
Step ==
    \/ Tick /\ UNCHANGED quota
    \/ \E r \in Req : Arrive(r) /\ UNCHANGED quota
    \/ \E r \in Req : Incr(r) /\ UNCHANGED quota
    \/ \E r \in Req : Expire(r) /\ UNCHANGED quota
    \/ \E r \in Req : LoseTtl(r) /\ UNCHANGED quota
    \/ \E r \in Req : Handle(r) \/ Abort(r)
    \/ \E r \in Req : ChangeStatus(r)
    \/ UNCHANGED vars

\* Next takes no other step.
LEMMA StepOfNext ==
  ASSUME [Next]_vars
  PROVE  Step
  BY DEF Next, GuardNext, Step

\* Sets of requests are finite.
LEMMA Finite ==
  ASSUME NEW S \in SUBSET Req
  PROVE  IsFiniteSet(S) /\ Cardinality(S) \in Nat
  BY FS_Subset, FS_CardinalityType DEF RateLimitAssumption

-----------------------------------------------------------------------------
(* Types.                                                                  *)

\* Letting a request past the guard keeps the types.
LEMMA EnterType ==
  ASSUME TypeOK, NEW r \in Req, Enter(r)
  PROVE  peak' \in Nat
<1> DEFINE inside == {q \in Req : req[q].step \in Handling} \cup {r}
<1>1. Cardinality(inside) \in Nat  BY Finite
<1>2. peak' = IF Cardinality(inside) > peak THEN Cardinality(inside) ELSE peak  BY DEF Enter
<1> QED BY <1>1, <1>2 DEF TypeOK, GuardTypeOK

\* The counter is a natural number, also when it starts again.
LEMMA CountedType ==
  ASSUME TypeOK
  PROVE  Counted \in Nat
  BY DEF TypeOK, GuardTypeOK, Counted

\* The initial state has its types.
LEMMA TypeInit ==
  ASSUME Init
  PROVE  TypeOK
<1>1. req \in [Req -> Requests]  BY DEF Init, GuardInit, Requests
<1>2. GuardTypeOK  BY <1>1 DEF Init, GuardInit, GuardTypeOK, Never
<1> QED BY <1>2 DEF Init, TypeOK, Rows, NoRow

\* Every step keeps the types.
LEMMA TypeStep ==
  ASSUME TypeOK, Step
  PROVE  TypeOK'
<1>t. /\ now \in 0 .. MaxTime /\ now \in Nat /\ req \in [Req -> Requests]
      /\ counter \in [n : Nat, ends : Nat \cup {Never}] /\ passed \in [Req -> Nat \cup {Never}] /\ peak \in Nat
      /\ row \in [Req -> Rows] /\ usage \in Nat
      /\ warned \in [{"hourly", "daily"} -> {"none", "told", "lost"}]
      BY DEF TypeOK, GuardTypeOK
<1>s. \A s \in {"incr", "expire", "throttled", "flood", "ttlLost"} : s \in Steps
      BY DEF Steps, Handling, Ended
<1>1. CASE Tick /\ UNCHANGED quota
      BY <1>1, <1>t DEF Tick, quota, TypeOK, GuardTypeOK
<1>2. ASSUME NEW r \in Req, Arrive(r), UNCHANGED quota  PROVE TypeOK'
      BY <1>2, <1>t, <1>s, GotoMoves DEF Arrive, quota, TypeOK, GuardTypeOK, Moved
<1>3. ASSUME NEW r \in Req, Incr(r), UNCHANGED quota  PROVE TypeOK'
  <2>1. Counted + 1 \in Nat  BY CountedType
  <2>2. counter' \in [n : Nat, ends : Nat \cup {Never}]  BY <1>3, <1>t, <2>1 DEF Incr
  <2>3. req' \in [Req -> Requests]  BY <1>3, <1>t, <1>s, GotoMoves DEF Incr, Moved
  <2>4. peak' \in Nat  BY <1>3, <1>t, EnterType DEF Incr
  <2>5. passed' \in [Req -> Nat \cup {Never}]  BY <1>3, <1>t DEF Incr
  <2> QED BY <1>3, <1>t, <2>2, <2>3, <2>4, <2>5 DEF Incr, quota, TypeOK, GuardTypeOK
<1>4. ASSUME NEW r \in Req, Expire(r), UNCHANGED quota  PROVE TypeOK'
  <2>1. now + RateTtl \in Nat  BY <1>t
  <2>2. counter' \in [n : Nat, ends : Nat \cup {Never}]  BY <1>4, <1>t, <2>1 DEF Expire
  <2>3. req' \in [Req -> Requests]  BY <1>4, <1>t, <1>s, GotoMoves DEF Expire, Moved
  <2>4. peak' \in Nat  BY <1>4, EnterType DEF Expire
  <2>5. passed' \in [Req -> Nat \cup {Never}]  BY <1>4, <1>t DEF Expire
  <2> QED BY <1>4, <1>t, <2>2, <2>3, <2>4, <2>5 DEF Expire, quota, TypeOK, GuardTypeOK
<1>5. ASSUME NEW r \in Req, LoseTtl(r), UNCHANGED quota  PROVE TypeOK'
  <2>1. now + RateTtl \in Nat  BY <1>t
  <2>2. counter' \in [n : Nat, ends : Nat \cup {Never}]  BY <1>5, <1>t, <2>1 DEF LoseTtl
  <2>3. req' \in [Req -> Requests]  BY <1>5, <1>t, <1>s, GotoMoves DEF LoseTtl, Moved
  <2> QED BY <1>5, <1>t, <2>2, <2>3 DEF LoseTtl, quota, TypeOK, GuardTypeOK
<1>6. ASSUME NEW r \in Req, Handle(r) \/ Abort(r)  PROVE TypeOK'
  <2>1. req' \in [Req -> Requests] /\ UNCHANGED guard  BY <1>6, HandleMoves DEF Moved
  <2>2. row' \in [Req -> Rows]
    <3>1. [status |-> "active", revived |-> FALSE, at |-> now] \in Rows  BY <1>t DEF Rows
    <3> QED BY <1>6, <1>t, <3>1 DEF Handle, Abort, CheckFlood, CheckHourly, CheckDaily, CountUsage,
            CheckCooldown, Lookup, Insert, quota
  <2>3. usage' \in Nat
        BY <1>6, <1>t DEF Handle, Abort, CheckFlood, CheckHourly, CheckDaily, CountUsage,
           CheckCooldown, Lookup, Insert, quota
  <2>4. warned' \in [{"hourly", "daily"} -> {"none", "told", "lost"}]
    <3>1. ASSUME NEW span \in {"hourly", "daily"}, NEW reached, Announce(span, reached)
          PROVE  warned' \in [{"hourly", "daily"} -> {"none", "told", "lost"}]
      <4>1. warned' = warned \/ \E outcome \in {"told", "lost"} : warned' = [warned EXCEPT ![span] = outcome]
            BY <3>1 DEF Announce, AdmissionAssumption
      <4> QED BY <4>1, <1>t
    <3>2. CASE CheckHourly(r)  BY <3>1, <3>2 DEF CheckHourly
    <3>3. CASE CheckDaily(r)  BY <3>1, <3>3 DEF CheckDaily
    <3> QED BY <1>6, <1>t, <3>2, <3>3 DEF Handle, Abort, CheckFlood, CountUsage,
            CheckCooldown, Lookup, Insert, quota
  <2> QED BY <1>t, <2>1, <2>2, <2>3, <2>4 DEF guard, TypeOK, GuardTypeOK
<1>7. ASSUME NEW r \in Req, ChangeStatus(r)  PROVE TypeOK'
  <2>1. row[r] \in Rows /\ row[r] # NoRow  BY <1>7, <1>t DEF ChangeStatus
  <2>2. \A s \in {"closed", "cancelled"} : [row[r] EXCEPT !.status = s] \in Rows
        BY <2>1 DEF Rows, NoRow
  <2>3. [row[r] EXCEPT !.status = "active", !.revived = TRUE] \in Rows
        BY <2>1 DEF Rows, NoRow
  <2>4. row' \in [Req -> Rows]  BY <1>7, <1>t, <2>2, <2>3 DEF ChangeStatus
  <2> QED BY <1>7, <1>t, <2>4 DEF ChangeStatus, guard, TypeOK, GuardTypeOK
<1>8. CASE UNCHANGED vars  BY <1>8, <1>t DEF vars, TypeOK, GuardTypeOK
<1> QED BY <1>1, <1>2, <1>3, <1>4, <1>5, <1>6, <1>7, <1>8 DEF Step

\* Every state has its types.
THEOREM AdmissionTypeCorrect == Spec => []TypeOK
<1>1. Init => TypeOK  BY TypeInit
<1>2. TypeOK /\ [Next]_vars => TypeOK'  BY TypeStep, StepOfNext
<1> QED BY <1>1, <1>2, PTL DEF Spec

-----------------------------------------------------------------------------
(* The counter's end.                                                      *)

\* A counter has no end only while its maker is about to set one, or was lost.
LEMMA StuckStep ==
  ASSUME TypeOK, StuckInv, Step
  PROVE  StuckInv'
<1>t. /\ now \in Nat /\ req \in [Req -> Requests] /\ counter \in [n : Nat, ends : Nat \cup {Never}]
      BY DEF TypeOK, GuardTypeOK
<1>s. \A s \in {"incr", "expire", "throttled", "flood", "ttlLost"} : s \in Steps
      BY DEF Steps, Handling, Ended
<1>1. CASE Tick /\ UNCHANGED quota  BY <1>1 DEF Tick, StuckInv
<1>2. ASSUME NEW r \in Req, Arrive(r)  PROVE StuckInv'
  <2>1. Moved(r) /\ At(r, "idle") /\ UNCHANGED counter  BY <1>2, <1>t, <1>s, GotoMoves DEF Arrive
  <2> QED BY <2>1 DEF StuckInv, Moved, At
<1>3. ASSUME NEW r \in Req, Incr(r)  PROVE StuckInv'
  <2>1. CASE Counted + 1 = 1
    <3>1. req'[r].step = "expire"  BY <1>3, <1>t, <1>s, <2>1, GotoMoves DEF Incr
    <3> QED BY <3>1 DEF StuckInv
  <2>2. CASE Counted + 1 # 1
    <3>1. Moved(r) /\ At(r, "incr")  BY <1>3, <1>t, <1>s, <2>2, GotoMoves DEF Incr
    <3>2. counter'.ends = counter.ends  BY <1>3, <2>2 DEF Incr
    <3>3. counter.n > 0  BY <1>t, <2>2 DEF Counted
    <3> QED BY <3>1, <3>2, <3>3 DEF StuckInv, Moved, At
  <2> QED BY <2>1, <2>2
<1>4. ASSUME NEW r \in Req, Expire(r)  PROVE StuckInv'
  <2>1. counter'.ends # Never  BY <1>4, <1>t DEF Expire, Never
  <2> QED BY <2>1 DEF StuckInv
<1>5. ASSUME NEW r \in Req, LoseTtl(r)  PROVE StuckInv'
  <2>1. req'[r].step = "ttlLost"  BY <1>5, <1>t, <1>s, GotoMoves DEF LoseTtl
  <2> QED BY <2>1 DEF StuckInv
<1>6. ASSUME NEW r \in Req, Handle(r) \/ Abort(r)  PROVE StuckInv'
  <2>1. Moved(r) /\ req[r].step \in Handling /\ UNCHANGED counter  BY <1>6, HandleMoves DEF guard
  <2> QED BY <2>1 DEF StuckInv, Moved, Handling
<1>7. ASSUME NEW r \in Req, ChangeStatus(r)  PROVE StuckInv'
      BY <1>7 DEF ChangeStatus, guard, StuckInv
<1>8. CASE UNCHANGED vars  BY <1>8 DEF vars, StuckInv
<1> QED BY <1>1, <1>2, <1>3, <1>4, <1>5, <1>6, <1>7, <1>8 DEF Step

\* RateLimitGuard refuses for ever only after a crash between its two calls.
THEOREM StuckOnlyAfterCrash == Spec => []StuckOnlyByCrash
<1>1. Init => TypeOK /\ StuckInv  BY TypeInit DEF Init, GuardInit, StuckInv
<1>2. TypeOK /\ StuckInv /\ [Next]_vars => (TypeOK /\ StuckInv)'  BY TypeStep, StuckStep, StepOfNext
<1>3. TypeOK /\ StuckInv => StuckOnlyByCrash  BY DEF TypeOK, GuardTypeOK, StuckInv, StuckOnlyByCrash, Counted
<1> QED BY <1>1, <1>2, <1>3, PTL DEF Spec

-----------------------------------------------------------------------------
(* Idempotency keys.                                                       *)

Inside == {r \in Req : req[r].step \in Handling}

\* A set with two members has at least two.
LEMMA TwoMembers ==
  ASSUME NEW S \in SUBSET Req, NEW a \in S, NEW b \in S, a # b
  PROVE  Cardinality(S) > 1
<1>1. IsFiniteSet({a}) /\ Cardinality({a}) = 1 /\ b \notin {a}  BY FS_Singleton
<1>2. Cardinality({a} \cup {b}) = 2
  <2>1. \A T, x : IsFiniteSet(T) => Cardinality(T \cup {x}) = IF x \in T THEN Cardinality(T) ELSE Cardinality(T) + 1
        BY FS_AddElement, Zenon
  <2>2. Cardinality({a} \cup {b}) = IF b \in {a} THEN Cardinality({a}) ELSE Cardinality({a}) + 1
        BY <1>1, <2>1, Zenon
  <2> QED BY <1>1, <2>2
<1>3. {a} \cup {b} \in SUBSET S  OBVIOUS
<1>4. Cardinality({a} \cup {b}) <= Cardinality(S)  BY <1>3, Finite, FS_Subset
<1>5. Cardinality(S) \in Nat  BY Finite
<1> QED BY <1>2, <1>4, <1>5

\* What is inserted under a key depends on which rows exist.
LEMMA SameUnder ==
  ASSUME \A q \in Req : req'[q].key = req[q].key, \A q \in Req : row'[q] = NoRow <=> row[q] = NoRow
  PROVE  \A k : Under(k)' = Under(k)
  BY DEF Under, Inserted

\* A step of one request, when its peak covers those inside, the rows are the
\* same, and the request itself is as the invariant says.
LEMMA OverlapMove ==
  ASSUME OverlapInv, TypeOK, NEW r \in Req, Moved(r), peak' \in Nat, peak <= peak',
         Cardinality(Inside') <= peak', \A q \in Req : row'[q] = NoRow <=> row[q] = NoRow,
         req'[r].step = "insert" => Under(req[r].key) = {} \/ req[r].key = NoKey,
         req'[r].step = "conflict" => peak > 1
  PROVE  OverlapInv'
<1>1. \A k : Under(k)' = Under(k)  BY SameUnder DEF Moved
<1>p. peak \in Nat  BY DEF TypeOK, GuardTypeOK
<1>2. 1 <= peak'  BY <1>p DEF OverlapInv
<1>3. \A q \in Req : (At(q, "insert") /\ req[q].key # NoKey /\ Under(req[q].key) # {})' => peak' > 1
  <2> TAKE q \in Req
  <2>1. CASE q = r  BY <2>1, <1>1 DEF At, Moved
  <2>2. CASE q # r
    <3>1. req'[q] = req[q]  BY <2>2 DEF Moved
    <3>2. At(q, "insert") /\ req[q].key # NoKey /\ Under(req[q].key) # {} => peak > 1  BY DEF OverlapInv
    <3> QED BY <3>1, <3>2, <1>1, <1>p DEF At
  <2> QED BY <2>1, <2>2
<1>4. \A q \in Req : At(q, "conflict")' => peak' > 1
  <2> TAKE q \in Req
  <2>1. CASE q = r  BY <2>1, <1>p DEF At
  <2>2. CASE q # r  BY <2>2, <1>p DEF At, Moved, OverlapInv
  <2> QED BY <2>1, <2>2
<1>5. Cardinality({q \in Req : req[q].step \in Handling})' <= peak'  BY DEF Inside
<1> QED BY <1>2, <1>3, <1>4, <1>5 DEF OverlapInv

\* Those past the guard are no more than the most there ever were, and one that
\* is about to insert a key which is taken by now was never alone.
LEMMA OverlapStep ==
  ASSUME TypeOK, TypeOK', OverlapInv, Step
  PROVE  OverlapInv'
<1>t. req \in [Req -> Requests] /\ peak \in Nat /\ peak' \in Nat  BY DEF TypeOK, GuardTypeOK
<1>s. \A s \in {"incr", "expire", "throttled", "flood", "ttlLost", "cooling", "lookup", "insert", "answered",
                 "conflict", "admitted"} : s \in Steps
      BY DEF Steps, Handling, Ended
<1>i. Cardinality(Inside) <= peak  BY DEF OverlapInv, Inside
<1>f. ASSUME Inside' \in SUBSET Inside  PROVE Cardinality(Inside') <= peak
  <2>1. IsFiniteSet(Inside) /\ Cardinality(Inside) \in Nat  BY Finite DEF Inside
  <2>2. IsFiniteSet(Inside') /\ Cardinality(Inside') <= Cardinality(Inside)  BY <2>1, <1>f, FS_Subset
  <2>3. Cardinality(Inside') \in Nat  BY <2>2, FS_CardinalityType
  <2> QED BY <2>1, <2>2, <2>3, <1>i, <1>t
<1>e. ASSUME NEW r \in Req, Enter(r), Moved(r), req'[r].step = "flood", UNCHANGED row  PROVE OverlapInv'
  <2> DEFINE inside == {q \in Req : req[q].step \in Handling} \cup {r}
  <2>1. Cardinality(inside) \in Nat  BY Finite
  <2>2. peak' = IF Cardinality(inside) > peak THEN Cardinality(inside) ELSE peak  BY <1>e DEF Enter
  <2>3. Inside' = inside  BY <1>e DEF Inside, Moved, Handling
  <2>4. Cardinality(Inside') <= peak' /\ peak <= peak'  BY <2>1, <2>2, <2>3, <1>t
  <2> QED BY <2>4, <1>t, <1>e, OverlapMove
<1>o. ASSUME NEW r \in Req, Moved(r), UNCHANGED <<peak, row>>,
             req'[r].step \in Handling => req[r].step \in Handling,
             req'[r].step = "insert" => Under(req[r].key) = {} \/ req[r].key = NoKey,
             req'[r].step = "conflict" => peak > 1
      PROVE  OverlapInv'
  <2>1. Inside' \in SUBSET Inside  BY <1>o DEF Inside, Moved
  <2> QED BY <2>1, <1>f, <1>o, <1>t, OverlapMove
<1>k. ASSUME UNCHANGED <<req, peak>>, \A q \in Req : row'[q] = NoRow <=> row[q] = NoRow  PROVE OverlapInv'
  <2>1. \A k : Under(k)' = Under(k)  BY <1>k, SameUnder
  <2>2. Inside' = Inside  BY <1>k DEF Inside
  <2> QED BY <1>k, <2>1, <2>2 DEF OverlapInv, At, Inside
<1>1. CASE Tick /\ UNCHANGED quota  BY <1>1, <1>k DEF Tick, quota
<1>2. ASSUME NEW r \in Req, Arrive(r), UNCHANGED quota  PROVE OverlapInv'
      BY <1>2, <1>t, <1>s, <1>o, GotoMoves DEF Arrive, quota, Handling
<1>3. ASSUME NEW r \in Req, Incr(r), UNCHANGED quota  PROVE OverlapInv'
  <2>1. Moved(r) /\ req'[r].step \in {"expire", "throttled", "flood"}
        BY <1>3, <1>t, <1>s, GotoMoves DEF Incr
  <2>2. CASE req'[r].step = "flood"
    <3>1. Enter(r)  BY <1>3, <2>2, <1>t, <1>s, GotoMoves DEF Incr
    <3> QED BY <3>1, <2>1, <2>2, <1>3, <1>e DEF quota
  <2>3. CASE req'[r].step # "flood"
    <3>1. UNCHANGED peak  BY <1>3, <2>3, <1>t, <1>s, GotoMoves DEF Incr
    <3> QED BY <3>1, <2>1, <2>3, <1>3, <1>o DEF quota, Handling
  <2> QED BY <2>2, <2>3
<1>4. ASSUME NEW r \in Req, Expire(r), UNCHANGED quota  PROVE OverlapInv'
      BY <1>4, <1>t, <1>s, <1>e, GotoMoves DEF Expire, quota
<1>5. ASSUME NEW r \in Req, LoseTtl(r), UNCHANGED quota  PROVE OverlapInv'
      BY <1>5, <1>t, <1>s, <1>o, GotoMoves DEF LoseTtl, quota, Handling
<1>6. ASSUME NEW r \in Req, Insert(r)  PROVE OverlapInv'
  <2>h. req[r].step = "insert" /\ req[r].step \in Handling  BY <1>6 DEF Insert, At, Handling
  <2>1. CASE req[r].key # NoKey /\ Under(req[r].key) # {}
    <3>1. peak > 1  BY <2>1, <2>h DEF OverlapInv, At
    <3>2. Moved(r) /\ req'[r].step = "conflict" /\ UNCHANGED <<peak, row>>
          BY <1>6, <2>1, <1>t, <1>s, GotoMoves DEF Insert, guard
    <3> QED BY <3>1, <3>2, <1>o DEF Handling
  <2>2. CASE ~(req[r].key # NoKey /\ Under(req[r].key) # {})
    <3>1. /\ Moved(r) /\ req'[r].step = "admitted" /\ UNCHANGED peak
          /\ row' = [row EXCEPT ![r] = [status |-> "active", revived |-> FALSE, at |-> now]]
          BY <1>6, <2>2, <1>t, <1>s, GotoMoves DEF Insert, guard
    <3>2. Cardinality(Inside') <= peak  BY <3>1, <2>h, <1>f DEF Inside, Moved, Handling
    <3>3. \A k : Under(k)' \subseteq Under(k) \cup (IF req[r].key = k THEN {r} ELSE {})
          BY <3>1 DEF Under, Inserted, Moved
    <3>4. \A q \in Req : (At(q, "insert") /\ req[q].key # NoKey /\ Under(req[q].key) # {})' => peak > 1
      <4> SUFFICES ASSUME NEW q \in Req, (At(q, "insert") /\ req[q].key # NoKey /\ Under(req[q].key) # {})'
                   PROVE  peak > 1
          OBVIOUS
      <4>1. q # r /\ req'[q] = req[q] /\ At(q, "insert")  BY <3>1 DEF At, Moved
      <4>2. CASE Under(req[q].key) # {}  BY <4>1, <4>2 DEF OverlapInv
      <4>3. CASE Under(req[q].key) = {}
        <5>1. Cardinality(Inside) > 1  BY <4>1, <2>h, TwoMembers DEF Inside, At, Handling
        <5>2. Cardinality(Inside) \in Nat  BY Finite DEF Inside
        <5> QED BY <5>1, <5>2, <1>i, <1>t
      <4> QED BY <4>2, <4>3
    <3>5. \A q \in Req : At(q, "conflict")' => peak > 1  BY <3>1 DEF At, Moved, OverlapInv
    <3>6. 1 <= peak  BY DEF OverlapInv
    <3> QED BY <3>1, <3>2, <3>4, <3>5, <3>6 DEF OverlapInv, Inside
  <2> QED BY <2>1, <2>2
<1>7. ASSUME NEW r \in Req, CheckCooldown(r)  PROVE OverlapInv'
  <2>1. /\ Moved(r) /\ req'[r].step \in {"cooling", "insert", "lookup"} /\ UNCHANGED <<peak, row>>
        /\ req[r].step \in Handling /\ (req'[r].step = "insert" => req[r].key = NoKey)
        BY <1>7, <1>t, <1>s, GotoMoves DEF CheckCooldown, guard, quota, At, Handling
  <2> QED BY <2>1, <1>o
<1>8. ASSUME NEW r \in Req, Lookup(r)  PROVE OverlapInv'
  <2>1. /\ Moved(r) /\ req'[r].step \in {"answered", "insert"} /\ UNCHANGED <<peak, row>>
        /\ req[r].step \in Handling /\ (req'[r].step = "insert" => Under(req[r].key) = {})
        BY <1>8, <1>t, <1>s, GotoMoves DEF Lookup, guard, quota, At, Handling
  <2> QED BY <2>1, <1>o
<1>9. ASSUME NEW r \in Req, Handle(r) \/ Abort(r), ~(Insert(r) \/ CheckCooldown(r) \/ Lookup(r))  PROVE OverlapInv'
  <2>1. Moved(r) /\ req[r].step \in Handling /\ UNCHANGED <<peak>>  BY <1>9, HandleMoves DEF guard
  <2>2. UNCHANGED row  BY <1>9 DEF Handle, Abort, CheckFlood, CheckHourly, CheckDaily, CountUsage, quota
  <2>s. \A s \in {"hourly", "daily", "usage", "refused", "cooldown", "aborted"} : s \in Steps
        BY DEF Steps, Handling, Ended
  <2>3. req'[r].step \notin {"insert", "conflict"}
    <3>1. CASE CheckFlood(r)  BY <3>1, CheckFloodMoves
    <3>2. CASE CheckHourly(r)  BY <3>2, <1>t, <2>s, GotoMoves DEF CheckHourly
    <3>3. CASE CheckDaily(r)  BY <3>3, <1>t, <2>s, GotoMoves DEF CheckDaily
    <3>4. CASE CountUsage(r)  BY <3>4, <1>t, <2>s, GotoMoves DEF CountUsage
    <3>5. CASE Abort(r)  BY <3>5, <1>t, <2>s, GotoMoves DEF Abort
    <3> QED BY <1>9, <3>1, <3>2, <3>3, <3>4, <3>5 DEF Handle
  <2> QED BY <2>1, <2>2, <2>3, <1>o
<1>10. ASSUME NEW r \in Req, ChangeStatus(r)  PROVE OverlapInv'
  <2>1. row \in [Req -> Rows] /\ row[r] # NoRow /\ UNCHANGED <<req, peak>>
        BY <1>10 DEF TypeOK, ChangeStatus, guard
  <2>2. row'[r].status \in {"active", "closed", "cancelled"} /\ \A q \in Req : q # r => row'[q] = row[q]
        BY <1>10, <2>1 DEF ChangeStatus, Rows, NoRow
  <2>3. row'[r] # NoRow  BY <2>2 DEF NoRow
  <2> QED BY <2>1, <2>2, <2>3, <1>k
<1>11. CASE UNCHANGED vars  BY <1>11, <1>k DEF vars
<1> QED BY <1>1, <1>2, <1>3, <1>4, <1>5, <1>6, <1>7, <1>8, <1>9, <1>10, <1>11 DEF Step

\* createChallenge fails on the unique index only when creations overlapped.
THEOREM ConflictOnlyByOverlap == Spec => []ConflictNeedsOverlap
<1>1. Init => TypeOK /\ OverlapInv
  <2> SUFFICES ASSUME Init PROVE OverlapInv  BY TypeInit
  <2>1. {r \in Req : req[r].step \in Handling} = {}  BY DEF Init, GuardInit, Handling
  <2>2. Cardinality({r \in Req : req[r].step \in Handling}) = 0  BY <2>1, FS_EmptySet
  <2>3. peak = 1 /\ \A r \in Req : req[r].step = "idle"  BY DEF Init, GuardInit
  <2> QED BY <2>2, <2>3 DEF OverlapInv, At
<1>2. TypeOK /\ OverlapInv /\ [Next]_vars => (TypeOK /\ OverlapInv)'
      BY TypeStep, OverlapStep, StepOfNext
<1>3. OverlapInv => ConflictNeedsOverlap  BY DEF OverlapInv, ConflictNeedsOverlap
<1> QED BY <1>1, <1>2, <1>3, PTL DEF Spec

-----------------------------------------------------------------------------
(* The rate limit.                                                         *)

\* One more member makes a set larger by one at most.
LEMMA OneMore ==
  ASSUME NEW S \in SUBSET Req, NEW T \in SUBSET Req, NEW r, S \subseteq T \cup {r}, NEW n \in Int, AtMost(T, n)
  PROVE  AtMost(S, n + 1)
<1>1. IsFiniteSet(T) /\ Cardinality(T) \in Nat  BY Finite
<1>2. IsFiniteSet(T \cup {r}) /\ Cardinality(T \cup {r}) = IF r \in T THEN Cardinality(T) ELSE Cardinality(T) + 1
      BY <1>1, FS_AddElement
<1>3. Cardinality(S) <= Cardinality(T \cup {r})  BY <1>2, FS_Subset
<1>4. Cardinality(S) \in Nat  BY Finite
<1> QED BY <1>1, <1>2, <1>3, <1>4 DEF AtMost

\* No member at all.
LEMMA NoMember ==
  ASSUME NEW n \in Nat
  PROVE  AtMost({}, n)
  BY FS_EmptySet DEF AtMost

\* The window of a counter that has its end.
Window(ends) == ends - RateTtl .. ends - 1

\* A step that leaves the counter, the clock and the passed requests alone, and
\* brings nobody to EXPIRE.
LEMMA WindowKept ==
  ASSUME WindowInv, UNCHANGED <<now, counter, passed>>, \A r \in Req : At(r, "expire")' => At(r, "expire")
  PROVE  WindowInv'
<1>1. PassedIn(Window(counter.ends))' = PassedIn(Window(counter.ends))  BY DEF PassedIn, Window
<1>2. PassedIn({now})' = PassedIn({now})  BY DEF PassedIn
<1> QED BY <1>1, <1>2 DEF WindowInv, Window, AtMost

\* A larger bound is one too.
LEMMA Weaker ==
  ASSUME NEW S \in SUBSET Req, NEW m \in Int, NEW n \in Int, AtMost(S, m), m <= n
  PROVE  AtMost(S, n)
<1>1. Cardinality(S) \in Nat  BY Finite
<1> QED BY <1>1 DEF AtMost

\* A smaller set has at most as many members.
LEMMA Fewer ==
  ASSUME NEW S \in SUBSET Req, NEW T \in SUBSET Req, S \subseteq T, NEW n \in Int, AtMost(T, n)
  PROVE  AtMost(S, n)
<1>1. IsFiniteSet(T) /\ Cardinality(T) \in Nat /\ Cardinality(S) \in Nat  BY Finite
<1>2. Cardinality(S) <= Cardinality(T)  BY <1>1, FS_Subset
<1> QED BY <1>1, <1>2 DEF AtMost

\* INCR counts whoever passes, EXPIRE takes over those who passed before it.
LEMMA WindowStep ==
  ASSUME TypeOK, WindowInv, Step
  PROVE  WindowInv'
<1>t. /\ now \in Nat /\ req \in [Req -> Requests] /\ counter \in [n : Nat, ends : Nat \cup {Never}]
      /\ passed \in [Req -> Nat \cup {Never}] /\ Never = -1
      BY DEF TypeOK, GuardTypeOK, Never
<1>s. \A s \in {"incr", "expire", "throttled", "flood", "ttlLost"} : s \in Steps
      BY DEF Steps, Handling, Ended
<1>r. RateLimit \in Nat /\ RateLimit > 0 /\ RateTtl \in Nat /\ RateTtl > 0  BY DEF RateLimitAssumption
<1>p. \A times : PassedIn(times) \in SUBSET Req  BY DEF PassedIn
<1>0. /\ \A r \in Req : passed[r] <= now /\ (counter.n = 0 => passed[r] = Never)
      /\ counter.ends # Never =>
           /\ \A r \in Req : passed[r] < counter.ends /\ ~At(r, "expire")
           /\ AtMost(PassedIn(Window(counter.ends)), counter.n)
           /\ AtMost(PassedIn(Window(counter.ends)), RateLimit)
      /\ \A r \in Req : At(r, "expire") =>
           /\ \A q \in Req : At(q, "expire") => q = r
           /\ counter.n > 0 /\ counter.ends = Never
           /\ AtMost(PassedIn({now}), counter.n - 1)
           /\ AtMost(PassedIn({now}), RateLimit - 1)
      BY DEF WindowInv, Window
<1>1. CASE Tick /\ UNCHANGED quota
  <2>1. now' = now + 1 /\ UNCHANGED <<req, counter, passed>>  BY <1>1 DEF Tick
  <2>2. PassedIn({now})' = {}
    <3>1. \A r \in Req : passed'[r] # now'  BY <2>1, <1>0, <1>t
    <3> QED BY <3>1 DEF PassedIn
  <2>3. ASSUME NEW r \in Req, At(r, "expire")
        PROVE  AtMost({}, counter.n - 1) /\ AtMost({}, RateLimit - 1)
    <3>1. counter.n - 1 \in Nat /\ RateLimit - 1 \in Nat  BY <2>3, <1>0, <1>t, <1>r
    <3> QED BY <3>1, NoMember
  <2>4. \A r \in Req : passed'[r] <= now'  BY <2>1, <1>0, <1>t
  <2>5. PassedIn(Window(counter.ends))' = PassedIn(Window(counter.ends))  BY <2>1 DEF PassedIn, Window
  <2> QED BY <2>1, <2>2, <2>3, <2>4, <2>5, <1>0 DEF WindowInv, Window, AtMost, At
<1>2. ASSUME NEW r \in Req, Arrive(r)  PROVE WindowInv'
  <2>1. Moved(r) /\ req'[r].step = "incr" /\ UNCHANGED <<now, counter, passed>>
        BY <1>2, <1>t, <1>s, GotoMoves DEF Arrive
  <2> QED BY <2>1, WindowKept DEF Moved, At
<1>3. ASSUME NEW r \in Req, Incr(r)  PROVE WindowInv'
  <2>1. Moved(r) /\ At(r, "incr") /\ now' = now  BY <1>3, <1>t, <1>s, GotoMoves DEF Incr
  <2>2. CASE Counted = 0
    <3>1. /\ counter' = [n |-> 1, ends |-> Never] /\ passed' = passed /\ req'[r].step = "expire"
          BY <1>3, <2>2, <1>t, <1>s, GotoMoves DEF Incr
    <3>2. \A q \in Req : passed[q] < now /\ ~At(q, "expire")
      <4>1. CASE counter.ends # Never /\ now >= counter.ends  BY <4>1, <1>0, <1>t
      <4>2. CASE counter.n = 0  BY <4>2, <1>0, <1>t
      <4> QED BY <4>1, <4>2, <2>2 DEF Counted
    <3>3. PassedIn({now})' = {}  BY <3>1, <3>2, <2>1, <1>t DEF PassedIn
    <3>4. AtMost({}, 0) /\ AtMost({}, RateLimit - 1)
      <4>1. RateLimit - 1 \in Nat  BY <1>r
      <4> QED BY <4>1, NoMember
    <3>5. \A q \in Req : At(q, "expire")' => q = r  BY <2>1, <3>2 DEF At, Moved
    <3>6. counter'.n > 0 /\ counter'.n # 0 /\ counter'.ends = Never /\ counter'.n - 1 = 0  BY <3>1
    <3>7. \A q \in Req : passed'[q] <= now'  BY <3>1, <2>1, <1>0
    <3>8. AtMost(PassedIn({now})', counter'.n - 1) /\ AtMost(PassedIn({now})', RateLimit - 1)
          BY <3>3, <3>4, <3>6
    <3> QED BY <3>5, <3>6, <3>7, <3>8 DEF WindowInv, AtMost
  <2>3. CASE Counted # 0
    <3>1. /\ counter.n > 0 /\ counter' = [n |-> counter.n + 1, ends |-> counter.ends]
          /\ counter.ends # Never => now < counter.ends
          BY <1>3, <2>3, <1>t DEF Incr, Counted
    <3>2. counter'.n = counter.n + 1 /\ counter'.ends = counter.ends  BY <3>1
    <3>n. counter.n \in Int /\ counter.n - 1 \in Int /\ RateLimit \in Int /\ RateLimit - 1 \in Int
          /\ counter.n + 1 \in Int
          BY <1>t, <1>r
    <3>3. \/ passed' = passed /\ req'[r].step = "throttled"
          \/ /\ passed' = [passed EXCEPT ![r] = now] /\ req'[r].step = "flood"
             /\ counter.n + 1 <= RateLimit
          BY <1>3, <2>3, <3>1, <1>t, <1>s, <1>r, GotoMoves DEF Incr, OverLimit, Counted
    <3>4. \A q \in Req : At(q, "expire")' => At(q, "expire")  BY <2>1, <3>3 DEF At, Moved
    <3>5. CASE passed' = passed
      <4>1. PassedIn(Window(counter.ends))' = PassedIn(Window(counter.ends))
            BY <3>2, <3>5 DEF PassedIn, Window
      <4>2. PassedIn({now})' = PassedIn({now})  BY <2>1, <3>5 DEF PassedIn
      <4>3. counter.ends # Never => AtMost(PassedIn(Window(counter.ends)), counter.n + 1)
            BY <1>0, <3>n, <1>p, Weaker
      <4>4. ASSUME NEW q \in Req, At(q, "expire")  PROVE AtMost(PassedIn({now}), counter.n)
        <5>1. AtMost(PassedIn({now}), counter.n - 1)  BY <4>4, <1>0
        <5>2. counter.n - 1 <= counter.n  BY <3>n
        <5> QED BY <5>1, <5>2, <3>n, <1>p, Weaker
      <4>5. counter'.n - 1 = counter.n /\ counter'.n > 0 /\ counter'.n # 0  BY <3>1, <3>2, <3>n
      <4> QED BY <1>0, <2>1, <3>2, <3>4, <3>5, <4>1, <4>2, <4>3, <4>4, <4>5 DEF WindowInv, Window
    <3>6. CASE passed' = [passed EXCEPT ![r] = now] /\ counter.n + 1 <= RateLimit
      <4>1. \A times : PassedIn(times)' \subseteq PassedIn(times') \cup {r}
            BY <3>6, <1>t DEF PassedIn
      <4>2. \A times : PassedIn(times)' \in SUBSET Req  BY DEF PassedIn
      <4>3. counter.ends # Never => AtMost(PassedIn(Window(counter.ends))', counter.n + 1)
        <5>1. Window(counter.ends)' = Window(counter.ends)  BY <3>2 DEF Window
        <5>2. PassedIn(Window(counter.ends))' \subseteq PassedIn(Window(counter.ends)) \cup {r}
              BY <5>1, <3>6, <1>t DEF PassedIn
        <5> QED BY <5>2, <1>0, <3>n, <1>p, <4>2, OneMore
      <4>4. counter.ends # Never => AtMost(PassedIn(Window(counter.ends))', RateLimit)
            BY <4>3, <3>6, <3>n, <4>2, Weaker
      <4>5. (\E q \in Req : At(q, "expire")) => AtMost(PassedIn({now})', counter.n)
        <5>1. PassedIn({now})' \subseteq PassedIn({now}) \cup {r}  BY <2>1, <3>6, <1>t DEF PassedIn
        <5>2. (\E q \in Req : At(q, "expire")) => AtMost(PassedIn({now})', counter.n - 1 + 1)
              BY <5>1, <1>0, <3>n, <1>p, <4>2, OneMore
        <5> QED BY <5>2, <3>n
      <4>6. (\E q \in Req : At(q, "expire")) => AtMost(PassedIn({now})', RateLimit - 1)
        <5>1. counter.n <= RateLimit - 1  BY <3>6, <3>n
        <5> QED BY <5>1, <4>5, <3>n, <4>2, Weaker
      <4>7. counter'.n - 1 = counter.n /\ counter'.n > 0 /\ counter'.n # 0  BY <3>1, <3>2, <3>n
      <4>8. \A q \in Req : passed'[q] <= now' /\ (counter.ends # Never => passed'[q] < counter.ends)
            BY <1>0, <1>t, <2>1, <3>1, <3>6
      <4> QED BY <1>0, <3>2, <3>4, <4>3, <4>4, <4>5, <4>6, <4>7, <4>8 DEF WindowInv, Window, AtMost
    <3> QED BY <3>3, <3>5, <3>6
  <2> QED BY <2>2, <2>3
<1>4. ASSUME NEW r \in Req, Expire(r)  PROVE WindowInv'
  <2>1. /\ Moved(r) /\ At(r, "expire") /\ req'[r].step = "flood" /\ now' = now
        /\ counter' = [counter EXCEPT !.ends = now + RateTtl] /\ passed' = [passed EXCEPT ![r] = now]
        BY <1>4, <1>t, <1>s, GotoMoves DEF Expire
  <2>2. counter'.n = counter.n /\ counter'.ends = now + RateTtl /\ now + RateTtl # Never /\ counter.n > 0
        BY <2>1, <1>0, <1>t, <1>r
  <2>n. counter.n \in Int /\ counter.n - 1 \in Int /\ RateLimit \in Int /\ RateLimit - 1 \in Int
        BY <1>t, <1>r
  <2>3. \A q \in Req : ~At(q, "expire")'  BY <2>1, <1>0 DEF At, Moved
  <2>4. \A q \in Req : passed'[q] <= now' /\ passed'[q] < now + RateTtl  BY <1>0, <1>t, <1>r, <2>1
  <2>5. PassedIn(Window(counter.ends))' \subseteq PassedIn({now}) \cup {r}
    <3>1. Window(counter.ends)' = now .. now + RateTtl - 1  BY <2>2, <1>t, <1>r DEF Window
    <3>2. \A q \in Req : q # r /\ passed'[q] \in Window(counter.ends)' => passed[q] = now
          BY <3>1, <2>1, <1>0, <1>t, <1>r
    <3> QED BY <3>2 DEF PassedIn
  <2>6. PassedIn(Window(counter.ends))' \in SUBSET Req  BY DEF PassedIn
  <2>7. AtMost(PassedIn(Window(counter.ends))', counter.n - 1 + 1)
        BY <2>1, <2>5, <2>6, <2>n, <1>0, <1>p, OneMore
  <2>8. AtMost(PassedIn(Window(counter.ends))', RateLimit - 1 + 1)
        BY <2>1, <2>5, <2>6, <2>n, <1>0, <1>p, OneMore
  <2>9. counter.n - 1 + 1 = counter.n /\ RateLimit - 1 + 1 = RateLimit  BY <2>n
  <2> QED BY <2>2, <2>3, <2>4, <2>7, <2>8, <2>9 DEF WindowInv, Window, AtMost
<1>5. ASSUME NEW r \in Req, LoseTtl(r)  PROVE WindowInv'
  <2>1. /\ Moved(r) /\ At(r, "expire") /\ req'[r].step = "ttlLost" /\ UNCHANGED <<now, passed>>
        /\ counter' \in {counter, [counter EXCEPT !.ends = now + RateTtl]}
        BY <1>5, <1>t, <1>s, GotoMoves DEF LoseTtl
  <2>2. CASE counter' = counter  BY <2>1, <2>2, WindowKept DEF Moved, At
  <2>3. CASE counter' = [counter EXCEPT !.ends = now + RateTtl]
    <3>1. counter'.n = counter.n /\ counter'.ends = now + RateTtl /\ now + RateTtl # Never /\ counter.n > 0
          BY <2>1, <2>3, <1>0, <1>t, <1>r
    <3>n. counter.n \in Int /\ counter.n - 1 \in Int /\ RateLimit \in Int /\ RateLimit - 1 \in Int
          BY <1>t, <1>r
    <3>2. \A q \in Req : ~At(q, "expire")'  BY <2>1, <1>0 DEF At, Moved
    <3>3. \A q \in Req : passed'[q] <= now' /\ passed'[q] < now + RateTtl  BY <1>0, <1>t, <1>r, <2>1
    <3>4. PassedIn(Window(counter.ends))' \subseteq PassedIn({now})
      <4>1. Window(counter.ends)' = now .. now + RateTtl - 1  BY <3>1, <1>t, <1>r DEF Window
      <4>2. \A q \in Req : passed'[q] \in Window(counter.ends)' => passed[q] = now
            BY <4>1, <2>1, <1>0, <1>t, <1>r
      <4> QED BY <4>2 DEF PassedIn
    <3>5. PassedIn(Window(counter.ends))' \in SUBSET Req  BY DEF PassedIn
    <3>a. AtMost(PassedIn({now}), counter.n - 1) /\ AtMost(PassedIn({now}), RateLimit - 1)  BY <2>1, <1>0
    <3>6. /\ AtMost(PassedIn(Window(counter.ends))', counter.n - 1)
          /\ AtMost(PassedIn(Window(counter.ends))', RateLimit - 1)
          BY <3>4, <3>5, <3>a, <3>n, <1>p, Fewer
    <3>7. AtMost(PassedIn(Window(counter.ends))', counter.n) /\ AtMost(PassedIn(Window(counter.ends))', RateLimit)
          BY <3>5, <3>6, <3>n, Weaker
    <3> QED BY <3>1, <3>2, <3>3, <3>7 DEF WindowInv, Window, AtMost
  <2> QED BY <2>1, <2>2, <2>3
<1>6. ASSUME NEW r \in Req, Handle(r) \/ Abort(r)  PROVE WindowInv'
  <2>1. /\ Moved(r) /\ UNCHANGED <<now, counter, passed>>
        /\ req'[r].step \in (Handling \cup Ended) \ {"throttled", "ttlLost", "flood"}
        BY <1>6, HandleMoves DEF guard
  <2> QED BY <2>1, WindowKept DEF Moved, At, Handling, Ended
<1>7. ASSUME NEW r \in Req, ChangeStatus(r)  PROVE WindowInv'
      BY <1>7, WindowKept DEF ChangeStatus, guard, At
<1>8. CASE UNCHANGED vars  BY <1>8, WindowKept DEF vars, At
<1> QED BY <1>1, <1>2, <1>3, <1>4, <1>5, <1>6, <1>7, <1>8 DEF Step

\* No window of RateLimitGuard lets more requests pass than the limit.
THEOREM RateLimited == Spec => []RateWithinWindow
<1>1. Init => TypeOK /\ WindowInv
  <2> SUFFICES ASSUME Init PROVE WindowInv  BY TypeInit
  <2> QED BY DEF Init, GuardInit, WindowInv, At, Never
<1>2. TypeOK /\ WindowInv /\ [Next]_vars => (TypeOK /\ WindowInv)'
      BY TypeStep, WindowStep, StepOfNext
<1>3. WindowInv => RateWithinWindow  BY DEF WindowInv, RateWithinWindow, AtMost, PassedIn
<1> QED BY <1>1, <1>2, <1>3, PTL DEF Spec
-----------------------------------------------------------------------------
(* The limits.                                                             *)

\* Where a step takes a request: nowhere, to an answer or through the guard, or
\* one check further on its way to a row.
LEMMA RequestMoves ==
  ASSUME TypeOK, Step, NEW q \in Req
  PROVE  \/ req'[q].step = req[q].step /\ req'[q].at = req[q].at
         \/ /\ req'[q].step \notin {"hourly", "admitted"} \cup AfterHourly
            /\ req[q].step # "admitted" /\ req'[q].at \in {req[q].at, now}
         \/ CheckFlood(q) /\ req'[q].step = "hourly" /\ req'[q].at = now
         \/ CheckHourly(q) /\ req'[q].step = "daily" /\ req'[q].at = req[q].at
         \/ CheckDaily(q) /\ req'[q].step = "usage" /\ req'[q].at = req[q].at
         \/ CountUsage(q) /\ req'[q].step = "cooldown" /\ req'[q].at = req[q].at
         \/ CheckCooldown(q) /\ req'[q].step \in {"insert", "lookup"} /\ req'[q].at = req[q].at
         \/ Lookup(q) /\ req'[q].step = "insert" /\ req'[q].at = req[q].at
         \/ Insert(q) /\ req'[q].step = "admitted" /\ req'[q].at = req[q].at
<1> DEFINE Passing == {"hourly", "admitted"} \cup AfterHourly
           Aside   == /\ req'[q].step \notin Passing
                      /\ req[q].step # "admitted" /\ req'[q].at \in {req[q].at, now}
<1>t. req \in [Req -> Requests]  BY DEF TypeOK, GuardTypeOK
<1>s. \A s \in {"incr", "expire", "throttled", "flood", "ttlLost", "hourly", "daily", "usage", "cooldown", "refused",
                 "cooling", "lookup", "insert", "answered", "conflict", "admitted", "aborted"} :
          s \in Steps
      BY DEF Steps, Handling, Ended
<1>p. Passing = {"hourly", "admitted", "daily", "usage", "cooldown", "lookup", "insert"}
      BY DEF AfterHourly, AfterDaily, AfterCooldown
<1>o. ASSUME NEW r \in Req, Moved(r), r # q  PROVE req'[q].step = req[q].step /\ req'[q].at = req[q].at
      BY <1>o DEF Moved
<1>1. CASE Tick /\ UNCHANGED quota  BY <1>1 DEF Tick
<1>2. ASSUME NEW r \in Req, Arrive(r) \/ Incr(r) \/ Expire(r) \/ LoseTtl(r)
      PROVE  (req'[q].step = req[q].step /\ req'[q].at = req[q].at) \/ Aside
  <2>1. /\ Moved(r) /\ req'[r].at = req[r].at /\ req[r].step # "admitted"
        /\ req'[r].step \in {"incr", "expire", "throttled", "flood", "ttlLost"}
        BY <1>2, <1>t, <1>s, GotoMoves DEF Arrive, Incr, Expire, LoseTtl, At
  <2> QED BY <2>1, <1>o, <1>p
<1>3. ASSUME NEW r \in Req, CheckFlood(r)
      PROVE  \/ req'[q].step = req[q].step /\ req'[q].at = req[q].at
             \/ Aside
             \/ CheckFlood(q) /\ req'[q].step = "hourly" /\ req'[q].at = now
  <2>1. /\ Moved(r) /\ req'[r].at = now /\ req'[r].step \in {"refused", "hourly"} /\ req[r].step = "flood"
        BY <1>3, CheckFloodMoves DEF CheckFlood, At
  <2> QED BY <1>3, <2>1, <1>o, <1>p
<1>4. ASSUME NEW r \in Req, CheckHourly(r)
      PROVE  \/ req'[q].step = req[q].step /\ req'[q].at = req[q].at
             \/ Aside
             \/ CheckHourly(q) /\ req'[q].step = "daily" /\ req'[q].at = req[q].at
  <2>1. /\ Moved(r) /\ req'[r].at = req[r].at /\ req'[r].step \in {"refused", "daily"} /\ req[r].step = "hourly"
        BY <1>4, <1>t, <1>s, GotoMoves DEF CheckHourly, At
  <2> QED BY <1>4, <2>1, <1>o, <1>p
<1>5. ASSUME NEW r \in Req, CheckDaily(r)
      PROVE  \/ req'[q].step = req[q].step /\ req'[q].at = req[q].at
             \/ Aside
             \/ CheckDaily(q) /\ req'[q].step = "usage" /\ req'[q].at = req[q].at
  <2>1. /\ Moved(r) /\ req'[r].at = req[r].at /\ req'[r].step \in {"refused", "usage"} /\ req[r].step = "daily"
        BY <1>5, <1>t, <1>s, GotoMoves DEF CheckDaily, At
  <2> QED BY <1>5, <2>1, <1>o, <1>p
<1>6. ASSUME NEW r \in Req, CountUsage(r)
      PROVE  \/ req'[q].step = req[q].step /\ req'[q].at = req[q].at
             \/ CountUsage(q) /\ req'[q].step = "cooldown" /\ req'[q].at = req[q].at
  <2>1. Moved(r) /\ req'[r].at = req[r].at /\ req'[r].step = "cooldown"
        BY <1>6, <1>t, <1>s, GotoMoves DEF CountUsage
  <2> QED BY <1>6, <2>1, <1>o
<1>7. ASSUME NEW r \in Req, CheckCooldown(r)
      PROVE  \/ req'[q].step = req[q].step /\ req'[q].at = req[q].at
             \/ Aside
             \/ CheckCooldown(q) /\ req'[q].step \in {"insert", "lookup"} /\ req'[q].at = req[q].at
  <2>1. /\ Moved(r) /\ req'[r].at = req[r].at /\ req'[r].step \in {"cooling", "insert", "lookup"}
        /\ req[r].step = "cooldown"
        BY <1>7, <1>t, <1>s, GotoMoves DEF CheckCooldown, At
  <2> QED BY <1>7, <2>1, <1>o, <1>p
<1>8. ASSUME NEW r \in Req, Lookup(r)
      PROVE  \/ req'[q].step = req[q].step /\ req'[q].at = req[q].at
             \/ Aside
             \/ Lookup(q) /\ req'[q].step = "insert" /\ req'[q].at = req[q].at
  <2>1. Moved(r) /\ req'[r].at = req[r].at /\ req'[r].step \in {"answered", "insert"} /\ req[r].step = "lookup"
        BY <1>8, <1>t, <1>s, GotoMoves DEF Lookup, At
  <2> QED BY <1>8, <2>1, <1>o, <1>p
<1>9. ASSUME NEW r \in Req, Insert(r)
      PROVE  \/ req'[q].step = req[q].step /\ req'[q].at = req[q].at
             \/ Aside
             \/ Insert(q) /\ req'[q].step = "admitted" /\ req'[q].at = req[q].at
  <2>1. Moved(r) /\ req'[r].at = req[r].at /\ req'[r].step \in {"conflict", "admitted"} /\ req[r].step = "insert"
        BY <1>9, <1>t, <1>s, GotoMoves DEF Insert, At
  <2> QED BY <1>9, <2>1, <1>o, <1>p
<1>10. ASSUME NEW r \in Req, Abort(r)
       PROVE  (req'[q].step = req[q].step /\ req'[q].at = req[q].at) \/ Aside
  <2>1. /\ Moved(r) /\ req'[r].at = req[r].at /\ req'[r].step = "aborted"
        /\ req[r].step # "admitted"
        BY <1>10, <1>t, <1>s, GotoMoves DEF Abort, Handling
  <2> QED BY <2>1, <1>o, <1>p
<1>11. ASSUME NEW r \in Req, ChangeStatus(r)  PROVE req'[q].step = req[q].step /\ req'[q].at = req[q].at
       BY <1>11 DEF ChangeStatus
<1>12. CASE UNCHANGED vars  BY <1>12 DEF vars
<1> QED BY <1>1, <1>2, <1>3, <1>4, <1>5, <1>6, <1>7, <1>8, <1>9, <1>10, <1>11, <1>12 DEF Step, Handle

\* What a step does to a row: nothing, its insertion, or a change of its status
\* that never makes a challenge anew.
LEMMA RowMoves ==
  ASSUME TypeOK, AdmittedInv, Step, NEW q \in Req
  PROVE  \/ row'[q] = row[q]
         \/ /\ At(q, "insert") /\ At(q, "admitted")' /\ now' = now
            /\ row[q] = NoRow /\ row'[q] = [status |-> "active", revived |-> FALSE, at |-> now]
         \/ /\ row[q] # NoRow /\ row'[q] # NoRow /\ row'[q].at = row[q].at
            /\ req' = req /\ now' = now
            /\ row'[q].revived \/ (~row[q].revived /\ row[q].status = "active")
<1>t. row \in [Req -> Rows] /\ req \in [Req -> Requests]  BY DEF TypeOK, GuardTypeOK
<1>s. "admitted" \in Steps  BY DEF Steps, Ended
<1>1. ASSUME NEW r \in Req, Insert(r), row' # row
      PROVE  \/ row'[q] = row[q]
             \/ /\ At(q, "insert") /\ At(q, "admitted")' /\ now' = now
                /\ row[q] = NoRow /\ row'[q] = [status |-> "active", revived |-> FALSE, at |-> now]
  <2>1. /\ At(r, "insert") /\ Goto(r, "admitted") /\ now' = now
        /\ row' = [row EXCEPT ![r] = [status |-> "active", revived |-> FALSE, at |-> now]]
        BY <1>1 DEF Insert, guard
  <2>2. At(r, "admitted")'  BY <2>1, <1>t, <1>s, GotoMoves DEF At
  <2>3. row[r] = NoRow  BY <2>1 DEF AdmittedInv, At
  <2> QED BY <2>1, <2>2, <2>3, <1>t
<1>2. ASSUME NEW r \in Req, ChangeStatus(r)
      PROVE  \/ row'[q] = row[q]
             \/ /\ row[q] # NoRow /\ row'[q] # NoRow /\ row'[q].at = row[q].at
                /\ req' = req /\ now' = now
                /\ row'[q].revived \/ (~row[q].revived /\ row[q].status = "active")
  <2>1. row[r] # NoRow /\ row[r] \in Rows /\ req' = req /\ now' = now  BY <1>2, <1>t DEF ChangeStatus, guard
  <2>2. CASE row[r].status = "active"
    <3>1. PICK s \in {"closed", "cancelled"} : row' = [row EXCEPT ![r].status = s]
          BY <1>2, <2>2 DEF ChangeStatus
    <3>2. /\ row'[r] = [row[r] EXCEPT !.status = s]
          /\ q # r => row'[q] = row[q]
          BY <3>1, <1>t
    <3>3. /\ row'[r].status = s /\ row'[r].at = row[r].at /\ row'[r].revived = row[r].revived
          /\ row[r].revived \in BOOLEAN
          BY <3>2, <2>1 DEF Rows, NoRow
    <3>4. row'[r] # NoRow  BY <3>3 DEF NoRow
    <3>5. row'[r].revived \/ (~row[r].revived /\ row[r].status = "active")  BY <3>3, <2>2, Zenon
    <3> QED BY <2>1, <3>2, <3>3, <3>4, <3>5, Zenon
  <2>3. CASE row[r].status # "active"
    <3>1. row' = [row EXCEPT ![r] = [row[r] EXCEPT !.status = "active", !.revived = TRUE]]
          BY <1>2, <2>3 DEF ChangeStatus
    <3>2. /\ row'[r] = [row[r] EXCEPT !.status = "active", !.revived = TRUE]
          /\ q # r => row'[q] = row[q]
          BY <3>1, <1>t
    <3>3. row'[r].status = "active" /\ row'[r].revived /\ row'[r].at = row[r].at
          BY <3>2, <2>1 DEF Rows, NoRow
    <3>4. row'[r] # NoRow  BY <3>3 DEF NoRow
    <3> QED BY <2>1, <3>2, <3>3, <3>4, Zenon
  <2> QED BY <2>2, <2>3
<1>3. CASE row' = row  BY <1>3
<1>4. CASE row' # row
  <2>1. \/ \E r \in Req : Insert(r)
        \/ \E r \in Req : ChangeStatus(r)
        BY <1>4 DEF Step, quota, vars, Handle, Abort, CheckFlood, CheckHourly, CheckDaily, CountUsage,
           CheckCooldown, Lookup
  <2> QED BY <2>1, <1>1, <1>2, <1>4
<1> QED BY <1>3, <1>4

\* Nobody changes whom a request is for.
LEMMA DestKept ==
  ASSUME TypeOK, Step
  PROVE  \A q \in Req : req'[q].dest = req[q].dest
<1>t. req \in [Req -> Requests]  BY DEF TypeOK, GuardTypeOK
<1>1. ASSUME NEW r \in Req, Arrive(r) \/ Incr(r) \/ Expire(r) \/ LoseTtl(r)  PROVE Moved(r)
  <2>1. \A s \in {"incr", "expire", "throttled", "flood", "ttlLost"} : s \in Steps
        BY DEF Steps, Handling, Ended
  <2> QED BY <1>1, <2>1, <1>t, GotoMoves DEF Arrive, Incr, Expire, LoseTtl
<1>2. UNCHANGED req \/ \E r \in Req : Moved(r)
      BY <1>1, HandleMoves DEF Step, Tick, ChangeStatus, vars
<1> QED BY <1>2 DEF Moved

\* The clock does not go back, and neither does the peak.
LEMMA Onward ==
  ASSUME TypeOK, Step
  PROVE  now <= now' /\ peak <= peak'
<1>t. now \in Nat /\ peak \in Nat  BY DEF TypeOK, GuardTypeOK
<1>1. ASSUME NEW r \in Req, Enter(r)  PROVE peak <= peak'
  <2> DEFINE inside == {q \in Req : req[q].step \in Handling} \cup {r}
  <2>1. Cardinality(inside) \in Nat  BY Finite
  <2>2. peak' = IF Cardinality(inside) > peak THEN Cardinality(inside) ELSE peak  BY <1>1 DEF Enter
  <2> QED BY <2>1, <2>2, <1>t
<1>2. ASSUME NEW r \in Req, Handle(r) \/ Abort(r)  PROVE now' = now /\ peak' = peak
      BY <1>2, HandleMoves DEF guard
<1>3. ASSUME NEW r \in Req, Incr(r) \/ Expire(r)  PROVE now' = now /\ (peak' = peak \/ Enter(r))
      BY <1>3 DEF Incr, Expire
<1>4. CASE Tick  BY <1>4, <1>t DEF Tick
<1>5. CASE now' = now /\ peak' = peak  BY <1>5, <1>t
<1>6. \/ Tick
      \/ now' = now /\ peak' = peak
      \/ \E r \in Req : Incr(r) \/ Expire(r) \/ Handle(r) \/ Abort(r)
      BY DEF Step, Arrive, LoseTtl, ChangeStatus, guard, vars
<1> QED BY <1>1, <1>2, <1>3, <1>4, <1>5, <1>6, <1>t

\* Only who was admitted has a row, and no check looks back from the future.
LEMMA AdmittedStep ==
  ASSUME TypeOK, TypeOK', AdmittedInv, Step
  PROVE  AdmittedInv'
<1> SUFFICES ASSUME NEW q \in Req
             PROVE  (row'[q] # NoRow => req'[q].step = "admitted") /\ req'[q].at <= now'
    BY DEF AdmittedInv, At
<1>t. /\ now \in Nat /\ now' \in Nat /\ req[q].at \in Nat /\ req[q].at <= now
      /\ (row[q] # NoRow => req[q].step = "admitted")
      BY DEF TypeOK, GuardTypeOK, Requests, AdmittedInv, At
<1>1. now <= now'  BY Onward
<1>2. req'[q].at \in {req[q].at, now} /\ (req[q].step = "admitted" => req'[q].step = "admitted")
      BY RequestMoves DEF CheckFlood, CheckHourly, CheckDaily, CountUsage, CheckCooldown, Lookup, Insert, At
<1>3. row'[q] # NoRow => row[q] # NoRow \/ req'[q].step = "admitted"  BY RowMoves DEF At
<1> QED BY <1>t, <1>1, <1>2, <1>3
\* A challenge that was never cancelled after a step was so before, or is new.
LEMMA FreshMoves ==
  ASSUME TypeOK, AdmittedInv, Step, NEW q \in Req, q \in NeverCancelled'
  PROVE  \/ q \in NeverCancelled /\ row'[q].at = row[q].at
         \/ At(q, "insert") /\ row'[q].at = now /\ now' = now
<1>1. row'[q] # NoRow /\ row'[q].status # "cancelled" /\ ~row'[q].revived
      BY DEF NeverCancelled, NotCancelled, Inserted
<1>2. CASE row'[q] = row[q]
      BY <1>1, <1>2 DEF NeverCancelled, NotCancelled, Inserted
<1>3. CASE /\ At(q, "insert") /\ now' = now
           /\ row'[q] = [status |-> "active", revived |-> FALSE, at |-> now]
      BY <1>3
<1>4. CASE /\ row[q] # NoRow /\ row'[q].at = row[q].at
           /\ ~row[q].revived /\ row[q].status = "active"
      BY <1>4 DEF NeverCancelled, NotCancelled, Inserted
<1> QED BY <1>1, <1>2, <1>3, <1>4, RowMoves

\* The load of a limit grows only by who passes its check.
LEMMA LoadKept ==
  ASSUME TypeOK, AdmittedInv, Step, NEW span \in Nat, NEW steps, "insert" \in steps,
         \A q \in Req : req'[q].step \in steps => req[q].step \in steps
  PROVE  Load(span, steps)' \subseteq Load(span, steps)
<1> SUFFICES ASSUME NEW q \in Req, q \in Load(span, steps)'  PROVE q \in Load(span, steps)
    BY DEF Load, Since, NeverCancelled, NotCancelled, Inserted, Within
<1>t. now \in Nat /\ now' \in Nat /\ now <= now' /\ row \in [Req -> Rows]
      BY Onward, TypeStep DEF TypeOK, GuardTypeOK
<1>1. CASE q \in Within(steps)'  BY <1>1 DEF Within, Load
<1>2. CASE q \in NeverCancelled' /\ row'[q].at >= now' - span
  <2>1. CASE q \in NeverCancelled /\ row'[q].at = row[q].at
    <3>1. row[q].at \in Nat  BY <1>t DEF Rows, NoRow
    <3>2. row[q].at >= now - span  BY <1>2, <1>t, <2>1, <3>1
    <3> QED BY <2>1, <3>2 DEF Load, Since
  <2>2. CASE At(q, "insert")  BY <2>2 DEF At, Load, Within
  <2> QED BY <1>2, <2>1, <2>2, FreshMoves
<1> QED BY <1>1, <1>2 DEF Load, Since

\* A set within two others is no larger than both together.
LEMMA Together ==
  ASSUME NEW S \in SUBSET Req, NEW C \in SUBSET Req, NEW I \in SUBSET Req, S \subseteq C \cup I,
         NEW m \in Int, NEW n \in Int, AtMost(C, m), AtMost(I, n)
  PROVE  AtMost(S, m + n)
<1>1. /\ IsFiniteSet(C) /\ Cardinality(C) \in Nat /\ IsFiniteSet(I) /\ Cardinality(I) \in Nat
      /\ Cardinality(C \cap I) \in Nat /\ Cardinality(S) \in Nat
      BY Finite
<1>2. IsFiniteSet(C \cup I) /\ Cardinality(C \cup I) = Cardinality(C) + Cardinality(I) - Cardinality(C \cap I)
      BY <1>1, FS_Union
<1>3. Cardinality(S) <= Cardinality(C \cup I)  BY <1>2, FS_Subset
<1> QED BY <1>1, <1>2, <1>3 DEF AtMost

\* A limit holds up to the overlap, when who passes its check was counted below
\* it while everyone else who passed is still inside.
LEMMA LimitStep ==
  ASSUME TypeOK, TypeOK', AdmittedInv, OverlapInv, Step,
         NEW span \in Nat, NEW limit \in Nat, NEW steps \in SUBSET Handling, "insert" \in steps,
         AtMost(Load(span, steps), limit + peak - 1),
         \A q \in Req : req'[q].step \in steps /\ req[q].step \notin steps =>
            /\ Cardinality(Since(NotCancelled, req[q].at - span)) < limit
            /\ UNCHANGED <<now, row, peak>> /\ Moved(q) /\ req[q].step \in Handling
  PROVE  AtMost(Load(span, steps)', limit + peak' - 1)
<1>t. /\ now \in Nat /\ peak \in Nat /\ peak' \in Nat /\ peak <= peak'
      /\ row \in [Req -> Rows] /\ req \in [Req -> Requests]
      BY Onward DEF TypeOK, GuardTypeOK
<1>s. /\ Load(span, steps) \in SUBSET Req /\ Load(span, steps)' \in SUBSET Req
      /\ Since(NotCancelled, 0) \in SUBSET Req
      BY DEF Load, Since, NeverCancelled, NotCancelled, Inserted, Within
<1>1. CASE \A q \in Req : req'[q].step \in steps => req[q].step \in steps
  <2>1. AtMost(Load(span, steps)', limit + peak - 1)  BY <1>1, <1>s, <1>t, LoadKept, Fewer
  <2>2. limit + peak - 1 \in Int /\ limit + peak' - 1 \in Int /\ limit + peak - 1 <= limit + peak' - 1  BY <1>t
  <2> QED BY <2>1, <2>2, <1>s, Weaker
<1>2. CASE \E q \in Req : req'[q].step \in steps /\ req[q].step \notin steps
  <2>1. PICK r \in Req : req'[r].step \in steps /\ req[r].step \notin steps  BY <1>2
  <2> DEFINE C == Since(NotCancelled, req[r].at - span)
  <2>2. /\ Cardinality(C) < limit /\ UNCHANGED <<now, row, peak>> /\ Moved(r) /\ req[r].step \in Handling
        BY <2>1
  <2>3. C \in SUBSET Req /\ Inside \in SUBSET Req  BY DEF Since, NotCancelled, Inserted, Inside
  <2>4. AtMost(C, limit - 1)  BY <2>2, <2>3, Finite DEF AtMost
  <2>5. AtMost(Inside, peak)  BY DEF OverlapInv, Inside, AtMost
  <2>6. Load(span, steps)' \subseteq C \cup Inside
    <3> SUFFICES ASSUME NEW q \in Req, q \in Load(span, steps)'  PROVE q \in C \cup Inside
        BY DEF Load, Since, NeverCancelled, NotCancelled, Inserted, Within
    <3>1. CASE q \in Within(steps)'  BY <3>1, <2>2 DEF Within, Inside, Moved
    <3>2. CASE q \in NeverCancelled /\ row[q].at >= now - span
      <4>1. row[q].at \in Nat /\ req[r].at \in Nat /\ req[r].at <= now
            BY <1>t DEF Rows, NoRow, Requests, AdmittedInv
      <4>2. row[q].at >= req[r].at - span  BY <3>2, <4>1, <1>t
      <4> QED BY <4>2, <3>2 DEF Since, NeverCancelled
    <3>3. NeverCancelled' = NeverCancelled  BY <2>2 DEF NeverCancelled, NotCancelled, Inserted
    <3> QED BY <3>1, <3>2, <3>3, <2>2 DEF Load, Since
  <2>i. limit - 1 \in Int /\ peak \in Int  BY <1>t
  <2> HIDE DEF C
  <2>7. AtMost(Load(span, steps)', limit - 1 + peak)  BY <2>3, <2>4, <2>5, <2>6, <2>i, <1>s, Together
  <2>8. limit - 1 + peak = limit + peak' - 1  BY <2>2, <1>t
  <2> QED BY <2>7, <2>8
<1> QED BY <1>1, <1>2

\* Who enters the load of a limit was counted below it.
LEMMA QuotaEntry ==
  ASSUME TypeOK, Step, NEW q \in Req
  PROVE  /\ req'[q].step \in AfterHourly /\ req[q].step \notin AfterHourly =>
              CheckHourly(q) /\ req'[q].step = "daily"
         /\ req'[q].step \in AfterDaily /\ req[q].step \notin AfterDaily =>
              CheckDaily(q) /\ req'[q].step = "usage"
         /\ req'[q].step \in AfterCooldown /\ req[q].step \notin AfterCooldown =>
              CheckCooldown(q)
  BY RequestMoves DEF AfterHourly, AfterDaily, AfterCooldown, CheckFlood, CheckHourly, CheckDaily, CountUsage,
     CheckCooldown, Lookup, Insert, At

\* The load of neither limit exceeds it by more than the overlap.
LEMMA QuotaStep ==
  ASSUME TypeOK, TypeOK', AdmittedInv, OverlapInv, QuotaInv, Step
  PROVE  QuotaInv'
<1>t. req \in [Req -> Requests] /\ HourlyLimit \in Nat /\ DailyLimit \in Nat /\ Hour \in Nat /\ Day \in Nat
      BY DEF TypeOK, GuardTypeOK, AdmissionAssumption
<1>s. /\ AfterHourly \in SUBSET Handling /\ "insert" \in AfterHourly
      /\ AfterDaily \in SUBSET Handling /\ "insert" \in AfterDaily
      /\ "refused" \in Steps /\ "daily" \in Steps /\ "usage" \in Steps
      BY DEF AfterHourly, AfterDaily, AfterCooldown, Steps, Handling, Ended
<1>1. ASSUME NEW q \in Req, CheckHourly(q), req'[q].step = "daily"
      PROVE  /\ Cardinality(Since(NotCancelled, req[q].at - Hour)) < HourlyLimit
             /\ UNCHANGED <<now, row, peak>> /\ Moved(q) /\ req[q].step \in Handling
  <2>1. UNCHANGED <<now, row, peak>> /\ Moved(q) /\ req[q].step \in Handling
        BY <1>1, HandleMoves DEF Handle, CheckHourly, guard
  <2>2. ~(HourlyCount(q) >= HourlyLimit)  BY <1>1, <1>t, <1>s, GotoMoves DEF CheckHourly
  <2>3. HourlyCount(q) \in Nat  BY Finite DEF HourlyCount, Since, NotCancelled, Inserted
  <2> QED BY <2>1, <2>2, <2>3, <1>t DEF HourlyCount
<1>2. ASSUME NEW q \in Req, CheckDaily(q), req'[q].step = "usage"
      PROVE  /\ Cardinality(Since(NotCancelled, req[q].at - Day)) < DailyLimit
             /\ UNCHANGED <<now, row, peak>> /\ Moved(q) /\ req[q].step \in Handling
  <2>1. UNCHANGED <<now, row, peak>> /\ Moved(q) /\ req[q].step \in Handling
        BY <1>2, HandleMoves DEF Handle, CheckDaily, guard
  <2>2. ~(DailyCount(q) >= DailyLimit)  BY <1>2, <1>t, <1>s, GotoMoves DEF CheckDaily
  <2>3. DailyCount(q) \in Nat  BY Finite DEF DailyCount, Since, NotCancelled, Inserted
  <2> QED BY <2>1, <2>2, <2>3, <1>t DEF DailyCount
<1>3. AtMost(Load(Hour, AfterHourly)', HourlyLimit + peak' - 1)
      BY <1>t, <1>s, <1>1, QuotaEntry, LimitStep DEF QuotaInv
<1>4. AtMost(Load(Day, AfterDaily)', DailyLimit + peak' - 1)
      BY <1>t, <1>s, <1>2, QuotaEntry, LimitStep DEF QuotaInv
<1> QED BY <1>3, <1>4 DEF QuotaInv, AtMost

\* In the initial state nobody has a row or has passed a check.
LEMMA EmptyInit ==
  ASSUME Init
  PROVE  /\ TypeOK /\ OverlapInv /\ AdmittedInv /\ peak = 1
         /\ \A r \in Req : row[r] = NoRow /\ req[r].step = "idle" /\ req[r].at = 0
<1>1. peak = 1 /\ now = 0 /\ \A r \in Req : row[r] = NoRow /\ req[r].step = "idle" /\ req[r].at = 0
      BY DEF Init, GuardInit
<1>2. {r \in Req : req[r].step \in Handling} = {}  BY <1>1 DEF Handling
<1>3. Cardinality({r \in Req : req[r].step \in Handling}) = 0  BY <1>2, FS_EmptySet
<1>4. OverlapInv  BY <1>1, <1>3 DEF OverlapInv, At
<1> QED BY <1>1, <1>4, TypeInit DEF AdmittedInv

\* validateQuota lets no more challenges through within an hour or a day than
\* its limits, but for the creations that overlapped.
THEOREM QuotaLimited == Spec => []QuotaWithinOverlap
<1>1. Init => TypeOK /\ OverlapInv /\ AdmittedInv /\ QuotaInv
  <2> SUFFICES ASSUME Init PROVE QuotaInv  BY EmptyInit
  <2>1. Load(Hour, AfterHourly) = {} /\ Load(Day, AfterDaily) = {}
        BY EmptyInit DEF Load, Since, NeverCancelled, NotCancelled, Inserted, Within,
           AfterHourly, AfterDaily, AfterCooldown
  <2>2. peak = 1 /\ HourlyLimit + 1 - 1 \in Nat /\ DailyLimit + 1 - 1 \in Nat
        BY EmptyInit DEF AdmissionAssumption
  <2> QED BY <2>1, <2>2, NoMember DEF QuotaInv
<1>2. TypeOK /\ OverlapInv /\ AdmittedInv /\ QuotaInv /\ [Next]_vars => (TypeOK /\ OverlapInv /\ AdmittedInv /\ QuotaInv)'
      BY TypeStep, OverlapStep, AdmittedStep, QuotaStep, StepOfNext
<1>3. TypeOK /\ QuotaInv => QuotaWithinOverlap
  <2> SUFFICES ASSUME TypeOK, QuotaInv PROVE QuotaWithinOverlap  OBVIOUS
  <2>1. peak \in Nat  BY DEF TypeOK, GuardTypeOK
  <2>2. ASSUME NEW span \in Nat, NEW steps
        PROVE  /\ Load(span, steps) \in SUBSET Req
               /\ Since(NeverCancelled, now - span) \in SUBSET Load(span, steps)
        BY DEF Load, Since, NeverCancelled, NotCancelled, Inserted, Within
  <2>3. /\ AtMost(Since(NeverCancelled, now - Hour), HourlyLimit + peak - 1)
        /\ AtMost(Since(NeverCancelled, now - Day), DailyLimit + peak - 1)
        BY <2>1, <2>2, Fewer DEF QuotaInv, AdmissionAssumption
  <2> QED BY <2>3 DEF QuotaWithinOverlap, AtMost
<1> QED BY <1>1, <1>2, <1>3, PTL DEF Spec
-----------------------------------------------------------------------------
(* The flood check.                                                        *)

\* The load of a destination grows only by who was counted below the limit while
\* everyone else who passed since is still inside.
LEMMA FloodStep ==
  ASSUME TypeOK, TypeOK', AdmittedInv, OverlapInv, FloodInv, Step
  PROVE  FloodInv'
<1> SUFFICES ASSUME NEW d \in Dest  PROVE AtMost(FloodLoad(d)', FloodLimit + peak' - 1)
    BY DEF FloodInv, AtMost
<1>t. /\ now \in Nat /\ now' \in Nat /\ now <= now' /\ peak \in Int /\ peak' \in Int /\ peak <= peak'
      /\ row \in [Req -> Rows] /\ req \in [Req -> Requests] /\ FloodPeriod \in Nat /\ FloodLimit \in Nat
      BY Onward DEF TypeOK, GuardTypeOK, AdmissionAssumption
<1>s. FloodLoad(d) \in SUBSET Req /\ FloodLoad(d)' \in SUBSET Req /\ Inside \in SUBSET Req
      BY DEF FloodLoad, Since, To, Inserted, Within, Inside
<1>d. \A q \in Req : req'[q].dest = req[q].dest  BY DestKept
<1>n. FloodLimit \in Int /\ peak \in Int /\ peak' \in Int /\ peak <= peak'  BY <1>t
<1>i. /\ FloodLimit + peak - 1 \in Int /\ FloodLimit + peak' - 1 \in Int /\ FloodLimit - 1 \in Int
      /\ FloodLimit + peak - 1 <= FloodLimit + peak' - 1
  <2>1. \A limit, m, n \in Int : m <= n => limit + m - 1 <= limit + n - 1  OBVIOUS
  <2>2. \A limit, n \in Int : limit + n - 1 \in Int /\ limit - 1 \in Int  OBVIOUS
  <2>3. FloodLimit + peak - 1 <= FloodLimit + peak' - 1  BY <1>n, <2>1
  <2>4. FloodLimit + peak - 1 \in Int /\ FloodLimit + peak' - 1 \in Int /\ FloodLimit - 1 \in Int  BY <1>n, <2>2
  <2> QED BY <2>3, <2>4
<1>1. CASE \A q \in Req : req[q].dest = d /\ req'[q].step \in AfterFlood => req[q].step \in AfterFlood
  <2>1. FloodLoad(d)' \subseteq FloodLoad(d)
    <3> SUFFICES ASSUME NEW q \in Req, q \in FloodLoad(d)'  PROVE q \in FloodLoad(d)
        BY <1>s
    <3>1. req[q].dest = d  BY <1>d DEF FloodLoad, Since, To
    <3>2. CASE q \in Within(AfterFlood)'
      <4>1. req'[q].step \in AfterFlood  BY <3>2 DEF Within, AfterFlood, AfterHourly, AfterDaily, AfterCooldown
      <4> QED BY <4>1, <3>1, <1>1 DEF FloodLoad, Within
    <3>3. CASE row'[q] # NoRow /\ row'[q].at >= now' - FloodPeriod
      <4>1. CASE At(q, "insert")
            BY <4>1, <3>1 DEF At, FloodLoad, Within, AfterFlood, AfterHourly, AfterDaily, AfterCooldown
      <4>2. CASE ~At(q, "insert")
        <5>1. row[q] # NoRow /\ row[q].at = row'[q].at  BY <3>3, <4>2, RowMoves
        <5>2. row[q].at \in Nat  BY <1>t DEF Rows, NoRow
        <5>3. row[q].at >= now - FloodPeriod  BY <3>3, <5>1, <5>2, <1>t
        <5> QED BY <5>1, <5>3, <3>1 DEF FloodLoad, Since, To, Inserted
      <4> QED BY <4>1, <4>2
    <3> QED BY <3>2, <3>3 DEF FloodLoad, Since, To, Inserted
  <2>2. AtMost(FloodLoad(d)', FloodLimit + peak - 1)  BY <2>1, <1>s, <1>i, Fewer DEF FloodInv
  <2> QED BY <2>2, <1>s, <1>i, Weaker
<1>2. CASE \E q \in Req : req[q].dest = d /\ req'[q].step \in AfterFlood /\ req[q].step \notin AfterFlood
  <2>1. PICK r \in Req : req[r].dest = d /\ req'[r].step \in AfterFlood /\ req[r].step \notin AfterFlood
        BY <1>2
  <2> DEFINE C == Since(To(d), now - FloodPeriod)
  <2>2. CheckFlood(r) /\ req'[r].step = "hourly"
        BY <2>1, RequestMoves DEF AfterFlood, AfterHourly, AfterDaily, AfterCooldown, CheckHourly, CheckDaily,
           CountUsage, CheckCooldown, Lookup, Insert, At
  <2>3. UNCHANGED <<now, row, peak>> /\ Moved(r) /\ req[r].step \in Handling
        BY <2>2, HandleMoves DEF Handle, CheckFlood, guard, quota
  <2>4. C \in SUBSET Req /\ Cardinality(C) \in Nat  BY Finite DEF Since, To, Inserted
  <2>5. Cardinality(C) < FloodLimit
    <3>1. CASE FloodCount(r) >= FloodLimit
      <4>1. req' = [req EXCEPT ![r] = [req[r] EXCEPT !.step = "refused", !.at = now]]
            BY <2>2, <3>1 DEF CheckFlood
      <4>2. req'[r].step = "refused"  BY <4>1, <1>t DEF Requests
      <4> QED BY <4>2, <2>2
    <3>2. FloodCount(r) = Cardinality(C)  BY <2>1 DEF FloodCount
    <3> HIDE DEF C
    <3> QED BY <3>1, <3>2, <2>4, <1>t
  <2>6. FloodLoad(d)' \subseteq C \cup Inside
    <3> SUFFICES ASSUME NEW q \in Req, q \in FloodLoad(d)'  PROVE q \in C \cup Inside
        BY <1>s
    <3>1. CASE q \in Within(AfterFlood)'
      <4>1. req'[q].step \in AfterFlood  BY <3>1 DEF Within, AfterFlood, AfterHourly, AfterDaily, AfterCooldown
      <4> QED BY <4>1, <2>3 DEF Inside, Moved, AfterFlood, AfterHourly, AfterDaily, AfterCooldown, Handling
    <3>2. CASE row[q] # NoRow /\ row[q].at >= now - FloodPeriod /\ req[q].dest = d
          BY <3>2 DEF Since, To, Inserted
    <3> QED BY <3>1, <3>2, <2>3, <1>d DEF FloodLoad, Since, To, Inserted
  <2>7. AtMost(Inside, peak)  BY DEF OverlapInv, Inside, AtMost
  <2> HIDE DEF C
  <2>8. AtMost(C, FloodLimit - 1)  BY <2>4, <2>5, <1>t DEF AtMost
  <2>9. AtMost(FloodLoad(d)', FloodLimit - 1 + peak)  BY <2>4, <2>6, <2>7, <2>8, <1>s, <1>t, <1>i, Together
  <2>10. FloodLimit - 1 + peak = FloodLimit + peak' - 1  BY <2>3, <1>t
  <2> QED BY <2>9, <2>10
<1> QED BY <1>1, <1>2

\* validateQuota lets no destination have more challenges within the flood's
\* period than the limit, cancelled ones included, but for those that overlapped.
THEOREM FloodLimited == Spec => []FloodWithinOverlap
<1>1. Init => TypeOK /\ OverlapInv /\ AdmittedInv /\ FloodInv
  <2> SUFFICES ASSUME Init, NEW d \in Dest PROVE AtMost(FloodLoad(d), FloodLimit + peak - 1)
      BY EmptyInit DEF FloodInv
  <2>1. FloodLoad(d) = {}
        BY EmptyInit DEF FloodLoad, Since, To, Inserted, Within, AfterFlood, AfterHourly, AfterDaily, AfterCooldown
  <2>2. peak = 1 /\ FloodLimit + 1 - 1 \in Nat  BY EmptyInit DEF AdmissionAssumption
  <2> QED BY <2>1, <2>2, NoMember
<1>2. TypeOK /\ OverlapInv /\ AdmittedInv /\ FloodInv /\ [Next]_vars
        => (TypeOK /\ OverlapInv /\ AdmittedInv /\ FloodInv)'
      BY TypeStep, OverlapStep, AdmittedStep, FloodStep, StepOfNext
<1>3. TypeOK /\ FloodInv => FloodWithinOverlap
  <2> SUFFICES ASSUME TypeOK, FloodInv, NEW d \in Dest
               PROVE  AtMost(Since(To(d), now - FloodPeriod), FloodLimit + peak - 1)
      BY DEF FloodWithinOverlap, AtMost
  <2> DEFINE recent == Since(To(d), now - FloodPeriod)
  <2>1. recent \in SUBSET FloodLoad(d) /\ FloodLoad(d) \in SUBSET Req /\ recent \in SUBSET Req
        BY DEF FloodLoad, Since, To, Inserted, Within
  <2>2. AtMost(FloodLoad(d), FloodLimit + peak - 1) /\ FloodLimit + peak - 1 \in Int
        BY DEF FloodInv, TypeOK, GuardTypeOK, AdmissionAssumption
  <2> HIDE DEF recent
  <2>3. AtMost(recent, FloodLimit + peak - 1)  BY <2>1, <2>2, Fewer
  <2> QED BY <2>3 DEF recent
<1> QED BY <1>1, <1>2, <1>3, PTL DEF Spec
-----------------------------------------------------------------------------
(* The cooldown.                                                           *)

\* The load of a destination grows only by who finds it idle, and then it is no
\* more than those inside.
LEMMA CooldownStep ==
  ASSUME TypeOK, TypeOK', AdmittedInv, OverlapInv, CooldownInv, Step
  PROVE  CooldownInv'
<1> SUFFICES ASSUME NEW d \in Dest  PROVE AtMost(CoolingLoad(d)', peak')
    BY DEF CooldownInv, AtMost
<1>t. /\ now \in Nat /\ now' \in Nat /\ now <= now' /\ peak \in Int /\ peak' \in Int /\ peak <= peak'
      /\ row \in [Req -> Rows] /\ req \in [Req -> Requests] /\ Cooldown \in Nat
      BY Onward DEF TypeOK, GuardTypeOK, AdmissionAssumption
<1>s. /\ CoolingLoad(d) \in SUBSET Req /\ CoolingLoad(d)' \in SUBSET Req /\ Inside \in SUBSET Req
      BY DEF CoolingLoad, Since, To, Inserted, Within, Inside
<1>d. \A q \in Req : req'[q].dest = req[q].dest  BY DestKept
<1>1. CASE \A q \in Req : req[q].dest = d /\ req'[q].step \in AfterCooldown => req[q].step \in AfterCooldown
  <2>1. CoolingLoad(d)' \subseteq CoolingLoad(d)
    <3> SUFFICES ASSUME NEW q \in Req, q \in CoolingLoad(d)'  PROVE q \in CoolingLoad(d)
        BY <1>s
    <3>1. req[q].dest = d  BY <1>d DEF CoolingLoad, Since, To
    <3>2. CASE q \in Within(AfterCooldown)'
      <4>1. req'[q].step \in AfterCooldown  BY <3>2 DEF Within, AfterCooldown
      <4> QED BY <4>1, <3>1, <1>1 DEF CoolingLoad, Within
    <3>3. CASE row'[q] # NoRow /\ row'[q].at >= now' - Cooldown /\ row'[q].status = "active" /\ ~row'[q].revived
      <4>1. CASE At(q, "insert")  BY <4>1, <3>1 DEF At, CoolingLoad, Within, AfterCooldown
      <4>2. CASE ~At(q, "insert")
        <5>1. row[q] # NoRow /\ row[q].at = row'[q].at /\ row[q].status = "active" /\ ~row[q].revived
              BY <3>3, <4>2, RowMoves
        <5>2. row[q].at \in Nat  BY <1>t DEF Rows, NoRow
        <5>3. row[q].at >= now - Cooldown  BY <3>3, <5>1, <5>2, <1>t
        <5> QED BY <5>1, <5>3, <3>1 DEF CoolingLoad, Since, To, Inserted
      <4> QED BY <4>1, <4>2
    <3> QED BY <3>2, <3>3 DEF CoolingLoad, Since, To, Inserted
  <2>2. AtMost(CoolingLoad(d)', peak)  BY <2>1, <1>s, <1>t, Fewer DEF CooldownInv
  <2> QED BY <2>2, <1>s, <1>t, Weaker
<1>2. CASE \E q \in Req : req[q].dest = d /\ req'[q].step \in AfterCooldown /\ req[q].step \notin AfterCooldown
  <2>1. PICK r \in Req : req[r].dest = d /\ req'[r].step \in AfterCooldown /\ req[r].step \notin AfterCooldown
        BY <1>2
  <2>2. CheckCooldown(r)  BY <2>1, QuotaEntry
  <2>3. UNCHANGED <<now, row, peak>> /\ Moved(r) /\ req[r].step \in Handling
        BY <2>2, HandleMoves DEF Handle, CheckCooldown, guard, quota
  <2>4. ~Cooling(r)
    <3>1. CASE Cooling(r)
      <4>1. req'[r].step = "cooling"  BY <2>2, <3>1, <1>t, GotoMoves DEF CheckCooldown, Steps, Ended
      <4> QED BY <4>1, <2>1 DEF AfterCooldown
    <3> QED BY <3>1
  <2>5. CoolingLoad(d)' \subseteq Inside
    <3> SUFFICES ASSUME NEW q \in Req, q \in CoolingLoad(d)'  PROVE q \in Inside
        BY <1>s
    <3>1. CASE q \in Within(AfterCooldown)'
      <4>1. req'[q].step \in AfterCooldown  BY <3>1 DEF Within, AfterCooldown
      <4> QED BY <4>1, <2>3 DEF Inside, Moved, AfterCooldown, Handling
    <3>2. CASE /\ row[q] # NoRow /\ row[q].at >= now - Cooldown /\ row[q].status = "active"
               /\ req[q].dest = d
          BY <3>2, <2>1, <2>4 DEF Cooling, To, Inserted
    <3> QED BY <3>1, <3>2, <2>3, <1>d DEF CoolingLoad, Since, To, Inserted
  <2>6. AtMost(Inside, peak)  BY DEF OverlapInv, Inside, AtMost
  <2>7. AtMost(CoolingLoad(d)', peak)  BY <2>5, <2>6, <1>s, <1>t, Fewer
  <2> QED BY <2>3, <2>7
<1> QED BY <1>1, <1>2

\* createChallenge admits no more active challenges of one destination within
\* the cooldown than creations overlapped.
THEOREM CooldownKept == Spec => []CooldownWithinOverlap
<1>1. Init => TypeOK /\ OverlapInv /\ AdmittedInv /\ CooldownInv
  <2> SUFFICES ASSUME Init, NEW d \in Dest PROVE AtMost(CoolingLoad(d), peak)  BY EmptyInit DEF CooldownInv
  <2>1. CoolingLoad(d) = {}
        BY EmptyInit DEF CoolingLoad, Since, To, Inserted, Within, AfterCooldown
  <2> QED BY <2>1, EmptyInit, NoMember
<1>2. TypeOK /\ OverlapInv /\ AdmittedInv /\ CooldownInv /\ [Next]_vars
        => (TypeOK /\ OverlapInv /\ AdmittedInv /\ CooldownInv)'
      BY TypeStep, OverlapStep, AdmittedStep, CooldownStep, StepOfNext
<1>3. TypeOK /\ CooldownInv => CooldownWithinOverlap
  <2> SUFFICES ASSUME TypeOK, CooldownInv, NEW d \in Dest
               PROVE  AtMost({r \in Since(To(d), now - Cooldown) : row[r].status = "active" /\ ~row[r].revived}, peak)
      BY DEF CooldownWithinOverlap, AtMost
  <2> DEFINE active == {r \in Since(To(d), now - Cooldown) : row[r].status = "active" /\ ~row[r].revived}
  <2>1. active \in SUBSET CoolingLoad(d) /\ CoolingLoad(d) \in SUBSET Req /\ active \in SUBSET Req
        BY DEF CoolingLoad, Since, To, Inserted, Within
  <2>2. AtMost(CoolingLoad(d), peak) /\ peak \in Int  BY DEF CooldownInv, TypeOK, GuardTypeOK
  <2> HIDE DEF active
  <2>3. AtMost(active, peak)  BY <2>1, <2>2, Fewer
  <2> QED BY <2>3 DEF active
<1> QED BY <1>1, <1>2, <1>3, PTL DEF Spec
-----------------------------------------------------------------------------
(* The soft limits.                                                        *)

\* A soft limit is a natural number.
LEMMA SoftType ==
  ASSUME NEW limit \in Nat
  PROVE  Soft(limit) \in Nat
  BY DEF Soft

\* Alone with no challenge cancelled after a step, alone with none before it.
LEMMA CalmBefore ==
  ASSUME TypeOK, TypeOK', AdmittedInv, OverlapInv, Step, peak' = 1, NeverCancelled' = Inserted'
  PROVE  peak = 1 /\ NeverCancelled = Inserted
<1>1. peak = 1
  <2>1. 1 <= peak /\ peak <= peak' /\ peak \in Nat  BY Onward DEF OverlapInv, TypeOK, GuardTypeOK
  <2> QED BY <2>1
<1>2. ASSUME NEW q \in Inserted  PROVE q \in NeverCancelled
  <2>1. q \in Req /\ row[q] # NoRow  BY DEF Inserted
  <2>2. CASE row'[q] = row[q]
    <3>1. q \in NeverCancelled'  BY <2>1, <2>2 DEF Inserted
    <3> QED BY <2>1, <2>2, <3>1 DEF NeverCancelled, NotCancelled, Inserted
  <2>3. CASE row'[q] # NoRow /\ (row'[q].revived \/ (~row[q].revived /\ row[q].status = "active"))
    <3>1. q \in NeverCancelled'  BY <2>1, <2>3 DEF Inserted
    <3>2. ~row'[q].revived  BY <3>1 DEF NeverCancelled
    <3> QED BY <2>1, <2>3, <3>2 DEF NeverCancelled, NotCancelled, Inserted
  <2> QED BY <2>1, <2>2, <2>3, RowMoves
<1> QED BY <1>1, <1>2 DEF NeverCancelled, NotCancelled

\* When no creation overlaps, two requests past the guard are one.
LEMMA Alone ==
  ASSUME TypeOK, OverlapInv, peak = 1, NEW a \in Inside, NEW b \in Inside
  PROVE  a = b
<1>1. CASE a # b
  <2>1. Inside \in SUBSET Req  BY DEF Inside
  <2>2. Cardinality(Inside) > 1 /\ Cardinality(Inside) \in Nat  BY <1>1, <2>1, TwoMembers, Finite
  <2>3. Cardinality(Inside) <= 1  BY DEF OverlapInv, Inside
  <2> QED BY <2>2, <2>3
<1> QED BY <1>1

\* Until a soft limit is noticed its load does not pass it, nor will the
\* count of a check under way: who passes without noticing it was counted
\* below it, alone.
LEMMA SoftLimitStep ==
  ASSUME TypeOK, TypeOK', AdmittedInv, OverlapInv, Step,
         peak = 1, peak' = 1, NeverCancelled = Inserted, NeverCancelled' = Inserted',
         NEW span \in Nat, NEW soft \in Nat, NEW steps \in SUBSET Handling, NEW waits \in SUBSET Handling,
         "insert" \in steps, "insert" \notin waits,
         AtMost(Load(span, steps), soft),
         \A q \in Req : req[q].step \in waits => AtMost(Since(Inserted, req[q].at - span), soft),
         \A q \in Req : req'[q].step \in steps /\ req[q].step \notin steps =>
            /\ req[q].step \in waits /\ Cardinality(Since(NotCancelled, req[q].at - span)) # soft
            /\ UNCHANGED <<now, row>> /\ Moved(q),
         \A q \in Req : req'[q].step \in waits =>
            \/ req[q].step \in waits /\ req'[q].at = req[q].at
            \/ req'[q].at = now'
  PROVE  /\ AtMost(Load(span, steps)', soft)
         /\ \A q \in Req : req'[q].step \in waits => AtMost(Since(Inserted, req[q].at - span)', soft)
<1>t. /\ now \in Nat /\ now' \in Nat /\ row \in [Req -> Rows] /\ row' \in [Req -> Rows]
      /\ req \in [Req -> Requests] /\ req' \in [Req -> Requests]
      BY DEF TypeOK, GuardTypeOK
<1>s. Load(span, steps) \in SUBSET Req /\ Load(span, steps)' \in SUBSET Req /\ soft \in Int
      BY DEF Load, Since, NeverCancelled, NotCancelled, Inserted, Within
<1>1. AtMost(Load(span, steps)', soft)
  <2>1. CASE \A q \in Req : req'[q].step \in steps => req[q].step \in steps
        BY <2>1, <1>s, LoadKept, Fewer
  <2>2. CASE \E q \in Req : req'[q].step \in steps /\ req[q].step \notin steps
    <3>1. PICK r \in Req : req'[r].step \in steps /\ req[r].step \notin steps  BY <2>2
    <3> DEFINE C == Since(NotCancelled, req[r].at - span)
    <3>2. req[r].step \in waits /\ Cardinality(C) # soft /\ UNCHANGED <<now, row>> /\ Moved(r)  BY <3>1
    <3>3. C = Since(Inserted, req[r].at - span)  BY DEF NeverCancelled, NotCancelled, Since
    <3>4. C \in SUBSET Req  BY DEF Since, NotCancelled, Inserted
    <3>5. AtMost(C, soft - 1) /\ soft - 1 \in Int
      <4>1. Cardinality(C) <= soft  BY <3>2, <3>3 DEF AtMost
      <4>2. Cardinality(C) \in Nat  BY <3>4, Finite
      <4> HIDE DEF C
      <4> QED BY <3>2, <4>1, <4>2 DEF AtMost
    <3>6. Load(span, steps)' \subseteq C \cup {r}
      <4> SUFFICES ASSUME NEW q \in Req, q \in Load(span, steps)'  PROVE q \in C \cup {r}
          BY <1>s
      <4>1. CASE q \in Within(steps)'
        <5>1. CASE q # r
          <6>1. req[q].step \in Handling /\ req[r].step \in Handling
                BY <4>1, <5>1, <3>2 DEF Within, Moved
          <6> QED BY <6>1, <5>1, Alone DEF Inside
        <5> QED BY <5>1
      <4>2. CASE q \in NeverCancelled /\ row[q].at >= now - span
        <5>1. row[q].at \in Nat /\ req[r].at \in Nat /\ req[r].at <= now
              BY <1>t DEF Rows, NoRow, Requests, AdmittedInv
        <5>2. row[q].at >= req[r].at - span  BY <4>2, <5>1, <1>t
        <5> QED BY <5>2, <4>2 DEF Since, NeverCancelled
      <4>3. NeverCancelled' = NeverCancelled  BY <3>2 DEF NeverCancelled, NotCancelled, Inserted
      <4> QED BY <4>1, <4>2, <4>3, <3>2 DEF Load, Since
    <3> HIDE DEF C
    <3>7. AtMost(Load(span, steps)', soft - 1 + 1)  BY <3>4, <3>5, <3>6, <1>s, OneMore
    <3> QED BY <3>7, <1>s
  <2> QED BY <2>1, <2>2
<1>2. ASSUME NEW q \in Req, req'[q].step \in waits  PROVE AtMost(Since(Inserted, req[q].at - span)', soft)
  <2> DEFINE S == Since(Inserted, req[q].at - span)
  <2>1. S \in SUBSET Req /\ S' \in SUBSET Req  BY DEF Since, Inserted
  <2>2. CASE req[q].step \in waits /\ req'[q].at = req[q].at
    <3>1. S' \subseteq S
      <4> SUFFICES ASSUME NEW p \in Req, p \in S'  PROVE p \in S
          BY <2>1
      <4>1. row'[p] # NoRow /\ row'[p].at >= req[q].at - span  BY <2>2 DEF Since, Inserted
      <4>2. CASE At(p, "insert")
        <5>1. p \in Inside /\ q \in Inside  BY <4>2, <2>2 DEF Inside, At, Handling
        <5>2. p = q  BY <5>1, Alone
        <5> QED BY <4>2, <5>2, <2>2 DEF At
      <4>3. CASE ~At(p, "insert")
        <5>1. row[p] # NoRow /\ row[p].at = row'[p].at  BY <4>1, <4>3, RowMoves
        <5> QED BY <4>1, <5>1 DEF Since, Inserted
      <4> QED BY <4>2, <4>3
    <3>2. AtMost(S, soft)  BY <2>2
    <3> HIDE DEF S
    <3>3. AtMost(S', soft)  BY <3>1, <3>2, <2>1, <1>s, Fewer
    <3> QED BY <3>3 DEF S
  <2>3. CASE req'[q].at = now'
    <3>1. S' \subseteq Load(span, steps)'  BY <2>3 DEF Load, Since
    <3> HIDE DEF S
    <3>2. AtMost(S', soft)  BY <3>1, <2>1, <1>1, <1>s, Fewer
    <3> QED BY <3>2 DEF S
  <2> QED BY <1>2, <2>2, <2>3
<1> QED BY <1>1, <1>2

\* Who waits for a check has waited since the clock was read for it.
LEMMA WaitEntry ==
  ASSUME TypeOK, Step, NEW q \in Req
  PROVE  /\ req'[q].step \in {"hourly"} =>
              \/ req[q].step \in {"hourly"} /\ req'[q].at = req[q].at
              \/ req'[q].at = now'
         /\ req'[q].step \in {"hourly", "daily"} =>
              \/ req[q].step \in {"hourly", "daily"} /\ req'[q].at = req[q].at
              \/ req'[q].at = now'
<1>1. CheckFlood(q) => now' = now  BY DEF CheckFlood, guard
<1> QED BY <1>1, RequestMoves DEF AfterHourly, AfterDaily, CheckHourly, At

\* A limit that was noticed stays so, and who passes a check without it was not
\* counted at the soft limit.
LEMMA NoticeMoves ==
  ASSUME TypeOK, Step
  PROVE  /\ warned'.hourly = "none" =>
              warned.hourly = "none" /\ \A q \in Req : CheckHourly(q) => HourlyCount(q) # Soft(HourlyLimit)
         /\ warned'.daily = "none" =>
              warned.daily = "none" /\ \A q \in Req : CheckDaily(q) => DailyCount(q) # Soft(DailyLimit)
<1>t. warned \in [{"hourly", "daily"} -> {"none", "told", "lost"}]  BY DEF TypeOK
<1>a. ASSUME NEW span \in {"hourly", "daily"}, NEW reached \in BOOLEAN, Announce(span, reached)
      PROVE  /\ \A other \in {"hourly", "daily"} : other # span => warned'[other] = warned[other]
             /\ warned'[span] = "none" => warned[span] = "none" /\ ~reached
  <2>1. CASE reached
    <3>1. PICK outcome \in {"told", "lost"} : warned' = [warned EXCEPT ![span] = outcome]
          BY <1>a, <2>1 DEF Announce, AdmissionAssumption
    <3> QED BY <3>1, <1>t
  <2>2. CASE ~reached  BY <1>a, <2>2 DEF Announce
  <2> QED BY <2>1, <2>2
<1>1. ASSUME NEW q \in Req, CheckHourly(q)
      PROVE  /\ warned'.hourly = "none" => warned.hourly = "none" /\ HourlyCount(q) # Soft(HourlyLimit)
             /\ warned'.daily = warned.daily
             /\ req[q].step = "hourly"
  <2>1. Announce("hourly", HourlyCount(q) = Soft(HourlyLimit)) /\ req[q].step = "hourly"
        BY <1>1 DEF CheckHourly, SoftReached, At
  <2> QED BY <2>1, <1>a
<1>2. ASSUME NEW q \in Req, CheckDaily(q)
      PROVE  /\ warned'.daily = "none" => warned.daily = "none" /\ DailyCount(q) # Soft(DailyLimit)
             /\ warned'.hourly = warned.hourly
             /\ req[q].step = "daily"
  <2>1. Announce("daily", DailyCount(q) = Soft(DailyLimit)) /\ req[q].step = "daily"
        BY <1>2 DEF CheckDaily, SoftReached, At
  <2> QED BY <2>1, <1>a
<1>3. CASE ~(\E r \in Req : CheckHourly(r) \/ CheckDaily(r))
  <2>1. warned' = warned
        BY <1>3 DEF Step, quota, vars, Handle, Abort, CheckFlood, CountUsage, CheckCooldown, Lookup, Insert, ChangeStatus
  <2> QED BY <1>3, <2>1
<1> QED BY <1>1, <1>2, <1>3, Zenon

\* Without overlap and without a cancelled challenge no load passes its soft
\* limit unnoticed.
LEMMA SoftStep ==
  ASSUME TypeOK, TypeOK', AdmittedInv, OverlapInv, SoftInv, Step
  PROVE  SoftInv'
<1> SUFFICES ASSUME peak' = 1, NeverCancelled' = Inserted'
             PROVE  /\ warned'.hourly = "none" =>
                         /\ AtMost(Load(Hour, AfterHourly)', Soft(HourlyLimit))
                         /\ \A r \in Req : req'[r].step \in {"hourly"} =>
                               AtMost(Since(Inserted, req[r].at - Hour)', Soft(HourlyLimit))
                    /\ warned'.daily = "none" =>
                         /\ AtMost(Load(Day, AfterDaily)', Soft(DailyLimit))
                         /\ \A r \in Req : req'[r].step \in {"hourly", "daily"} =>
                               AtMost(Since(Inserted, req[r].at - Day)', Soft(DailyLimit))
    BY DEF SoftInv, Within, AtMost
<1>t. /\ HourlyLimit \in Nat /\ DailyLimit \in Nat /\ Hour \in Nat /\ Day \in Nat
      /\ Soft(HourlyLimit) \in Nat /\ Soft(DailyLimit) \in Nat
      BY SoftType DEF AdmissionAssumption
<1>s. /\ AfterHourly \in SUBSET Handling /\ "insert" \in AfterHourly
      /\ AfterDaily \in SUBSET Handling /\ "insert" \in AfterDaily
      /\ {"hourly"} \in SUBSET Handling /\ "insert" \notin {"hourly"}
      /\ {"hourly", "daily"} \in SUBSET Handling /\ "insert" \notin {"hourly", "daily"}
      BY DEF AfterHourly, AfterDaily, AfterCooldown, Handling
<1>c. peak = 1 /\ NeverCancelled = Inserted  BY CalmBefore
<1>1. ASSUME warned'.hourly = "none"
      PROVE  /\ AtMost(Load(Hour, AfterHourly)', Soft(HourlyLimit))
             /\ \A r \in Req : req'[r].step \in {"hourly"} =>
                   AtMost(Since(Inserted, req[r].at - Hour)', Soft(HourlyLimit))
  <2>1. /\ warned.hourly = "none"
        /\ \A q \in Req : CheckHourly(q) => HourlyCount(q) # Soft(HourlyLimit)
        BY <1>1, NoticeMoves
  <2>2. /\ AtMost(Load(Hour, AfterHourly), Soft(HourlyLimit))
        /\ \A r \in Req : req[r].step \in {"hourly"} =>
              AtMost(Since(Inserted, req[r].at - Hour), Soft(HourlyLimit))
        BY <2>1, <1>c DEF SoftInv, Within
  <2>3. ASSUME NEW q \in Req, req'[q].step \in AfterHourly, req[q].step \notin AfterHourly
        PROVE  /\ req[q].step \in {"hourly"} /\ Cardinality(Since(NotCancelled, req[q].at - Hour)) # Soft(HourlyLimit)
               /\ UNCHANGED <<now, row>> /\ Moved(q)
    <3>1. CheckHourly(q)  BY <2>3, QuotaEntry
    <3> QED BY <3>1, <2>1, HandleMoves DEF Handle, CheckHourly, HourlyCount, At, guard
  <2>4. \A q \in Req : req'[q].step \in {"hourly"} =>
            \/ req[q].step \in {"hourly"} /\ req'[q].at = req[q].at
            \/ req'[q].at = now'
        BY WaitEntry
  <2> QED BY <1>t, <1>s, <1>c, <2>2, <2>3, <2>4, SoftLimitStep
<1>2. ASSUME warned'.daily = "none"
      PROVE  /\ AtMost(Load(Day, AfterDaily)', Soft(DailyLimit))
             /\ \A r \in Req : req'[r].step \in {"hourly", "daily"} =>
                   AtMost(Since(Inserted, req[r].at - Day)', Soft(DailyLimit))
  <2>1. /\ warned.daily = "none"
        /\ \A q \in Req : CheckDaily(q) => DailyCount(q) # Soft(DailyLimit)
        BY <1>2, NoticeMoves
  <2>2. /\ AtMost(Load(Day, AfterDaily), Soft(DailyLimit))
        /\ \A r \in Req : req[r].step \in {"hourly", "daily"} =>
              AtMost(Since(Inserted, req[r].at - Day), Soft(DailyLimit))
        BY <2>1, <1>c DEF SoftInv, Within
  <2>3. ASSUME NEW q \in Req, req'[q].step \in AfterDaily, req[q].step \notin AfterDaily
        PROVE  /\ req[q].step \in {"hourly", "daily"}
               /\ Cardinality(Since(NotCancelled, req[q].at - Day)) # Soft(DailyLimit)
               /\ UNCHANGED <<now, row>> /\ Moved(q)
    <3>1. CheckDaily(q)  BY <2>3, QuotaEntry
    <3> QED BY <3>1, <2>1, HandleMoves DEF Handle, CheckDaily, DailyCount, At, guard
  <2>4. \A q \in Req : req'[q].step \in {"hourly", "daily"} =>
            \/ req[q].step \in {"hourly", "daily"} /\ req'[q].at = req[q].at
            \/ req'[q].at = now'
        BY WaitEntry
  <2> QED BY <1>t, <1>s, <1>c, <2>2, <2>3, <2>4, SoftLimitStep
<1> QED BY <1>1, <1>2

\* validateQuota looks for one exact count, and yet, when creations do not overlap
\* and none was cancelled, no soft limit is passed before an announcement of it.
THEOREM SoftNoticed == Spec => []SoftLimitIsNoticed
<1>1. Init => TypeOK /\ OverlapInv /\ AdmittedInv /\ SoftInv
  <2> SUFFICES ASSUME Init PROVE SoftInv  BY EmptyInit
  <2>1. /\ Load(Hour, AfterHourly) = {} /\ Load(Day, AfterDaily) = {}
        /\ Within({"hourly"}) = {} /\ Within({"hourly", "daily"}) = {}
        BY EmptyInit DEF Load, Since, NeverCancelled, NotCancelled, Inserted, Within,
           AfterHourly, AfterDaily, AfterCooldown
  <2>2. Soft(HourlyLimit) \in Nat /\ Soft(DailyLimit) \in Nat  BY SoftType DEF AdmissionAssumption
  <2> QED BY <2>1, <2>2, NoMember DEF SoftInv
<1>2. TypeOK /\ OverlapInv /\ AdmittedInv /\ SoftInv /\ [Next]_vars
        => (TypeOK /\ OverlapInv /\ AdmittedInv /\ SoftInv)'
      BY TypeStep, OverlapStep, AdmittedStep, SoftStep, StepOfNext
<1>3. TypeOK /\ SoftInv => SoftLimitIsNoticed
  <2> SUFFICES ASSUME TypeOK, SoftInv, peak = 1, NeverCancelled = Inserted
               PROVE  /\ warned.hourly = "none" => AtMost(Since(Inserted, now - Hour), Soft(HourlyLimit))
                      /\ warned.daily = "none" => AtMost(Since(Inserted, now - Day), Soft(DailyLimit))
    <3>1. ASSUME NEW span, NEW limit \in Nat, AtMost(Since(Inserted, now - span), Soft(limit))
          PROVE  ~(Cardinality(Since(Inserted, now - span)) > Soft(limit))
      <4>1. Soft(limit) \in Nat /\ Cardinality(Since(Inserted, now - span)) \in Nat
            BY SoftType, Finite DEF Since, Inserted
      <4> QED BY <4>1, <3>1 DEF AtMost
    <3> QED BY <3>1 DEF SoftLimitIsNoticed, AdmissionAssumption
  <2>1. Soft(HourlyLimit) \in Int /\ Soft(DailyLimit) \in Int  BY SoftType DEF AdmissionAssumption
  <2>2. ASSUME NEW span, NEW steps
        PROVE  /\ Load(span, steps) \in SUBSET Req /\ Since(Inserted, now - span) \in SUBSET Req
               /\ Since(Inserted, now - span) \subseteq Load(span, steps)
        BY DEF Load, Since, Inserted, Within
  <2>3. /\ warned.hourly = "none" => AtMost(Load(Hour, AfterHourly), Soft(HourlyLimit))
        /\ warned.daily = "none" => AtMost(Load(Day, AfterDaily), Soft(DailyLimit))
        BY DEF SoftInv
  <2> QED BY <2>1, <2>2, <2>3, Fewer
<1> QED BY <1>1, <1>2, <1>3, PTL DEF Spec
=============================================================================
