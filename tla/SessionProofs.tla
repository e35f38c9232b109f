---------------------------- MODULE SessionProofs ----------------------------
(* The sessions of Session and the edits of TemplateVersions, in the system *)
(* the two compose.                                                        *)
EXTENDS TemplateVersions, FiniteSetTheorems, SequenceTheorems, TLAPS

USE SessionAssumption

-----------------------------------------------------------------------------
(* The steps.                                                              *)

\* The steps of the sessions, one by one; the last is that of a handler the guards
\* admitted, which ends.
Answered(r) == At(r, "admitted") /\ Answer(r) /\ UNCHANGED <<now, registered, tokens>>

\* The handlers of the templates leave the sessions alone, or answer a request.
LEMMA TemplateStep ==
  ASSUME TemplateNext
  PROVE  UNCHANGED sessionVars \/ \E r \in Req : Answered(r)
<1>1. PICK r \in Req :
        \/ Create(r) \/ CommitCreate(r) \/ Remove(r) \/ CommitRemove(r) \/ Update(r) \/ Rollback(r)
        \/ FindCurrent(r) \/ Deactivate(r) \/ Activate(r) \/ Refuse(r)
      BY DEF TemplateNext
<1>2. CASE Create(r) \/ Remove(r) \/ Update(r) \/ Rollback(r)
      BY <1>2 DEF Create, Remove, Update, Rollback, Start
<1>3. CASE FindCurrent(r) \/ Deactivate(r)  BY <1>3 DEF FindCurrent, Deactivate
<1>4. CASE CommitCreate(r)  BY <1>4 DEF CommitCreate, Finish, Answered
<1>5. CASE CommitRemove(r)  BY <1>5 DEF CommitRemove, Finish, Answered
<1>6. CASE Activate(r)      BY <1>6 DEF Activate, Finish, Answered
<1>7. CASE Refuse(r)        BY <1>7 DEF Refuse, Finish, Answered
<1> QED BY <1>1, <1>2, <1>3, <1>4, <1>5, <1>6, <1>7

\* Every step of the system is one of these for the sessions.
Step ==
    \/ \E r \in Req : Register(r) \/ CreateUser(r) \/ Login(r) \/ Sign(r) \/ Insert(r) \/ Revoke(r) \/ Fail(r)
    \/ \E r \in Req, n \in Token : Refresh(r, n) \/ Admit(r, n)
    \/ \E n \in Token : Logout(n)
    \/ PurgeTokens
    \/ Tick
    \/ \E r \in Req : Answered(r)
    \/ UNCHANGED sessionVars

\* The composition adds no other step.
LEMMA StepOfNext ==
  ASSUME [Next]_vars
  PROVE  Step
<1>1. CASE SessionNext  BY <1>1 DEF SessionNext, Step
<1>2. CASE TemplateNext  BY <1>2, TemplateStep DEF Step
<1>3. CASE UNCHANGED vars  BY <1>3 DEF vars, Step
<1> QED BY <1>1, <1>2, <1>3 DEF Next

-----------------------------------------------------------------------------
(* Types.                                                                  *)

Calls == [step : {"idle", "createUser", "sign", "insert", "revoke", "admitted"},
          old : Token \cup {None}, new : Token \cup {None}]

\* What the rows become when an insertion, a revocation or a purge sets them.
LEMMA SetRowsType ==
  ASSUME SessionTypeOK, NEW new \in [Token -> {"none", "live", "revoked", "purged"}], SetRows(new)
  PROVE  rows' \in [Token -> {"none", "live", "revoked", "purged"}] /\ idleSince' \in Token \cup {None}
  BY DEF SetRows, SessionTypeOK

\* A request that begins, moves on or is answered keeps its type.
LEMMA CallType ==
  ASSUME SessionTypeOK, NEW r \in Req, NEW old \in Token \cup {None},
         NEW s \in {"idle", "createUser", "sign", "insert", "revoke", "admitted"},
         Begin(r, s, old) \/ Goto(r, s) \/ Answer(r)
  PROVE  call' \in [Req -> Calls]
<1>1. call \in [Req -> Calls]  BY DEF SessionTypeOK, Calls
<1>2. Idle \in Calls  BY DEF Idle, Calls
<1>3. [Idle EXCEPT !.step = s, !.old = old] \in Calls  BY DEF Idle, Calls
<1>4. [call[r] EXCEPT !.step = s] \in Calls  BY <1>1 DEF Calls
<1>5. CASE Begin(r, s, old)  BY <1>1, <1>3, <1>5 DEF Begin
<1>6. CASE Goto(r, s)  BY <1>1, <1>4, <1>6 DEF Goto
<1>7. CASE Answer(r)   BY <1>1, <1>2, <1>7 DEF Answer
<1> QED BY <1>5, <1>6, <1>7

\* The initial state has its types.
LEMMA TypeInit ==
  ASSUME Init
  PROVE  SessionTypeOK
<1>1. 0 \in Token  BY DEF Token
<1>2. Idle \in Calls  BY DEF Idle, Calls
<1>3. call \in [Req -> Calls]  BY <1>2 DEF Init, SessionInit
<1>4. rows \in [Token -> {"none", "live", "revoked", "purged"}]  BY DEF Init, SessionInit
<1>5. pairs \in [Token -> Nat \cup {None}]  BY DEF Init, SessionInit
<1> QED BY <1>1, <1>3, <1>4, <1>5 DEF Init, SessionInit, SessionTypeOK, Calls

\* Every step of the sessions keeps the types.
LEMMA TypeStep ==
  ASSUME SessionTypeOK, Step
  PROVE  SessionTypeOK'
<1> USE DEF Calls
<1>t. call \in [Req -> Calls] /\ now \in Token /\ rows \in [Token -> {"none", "live", "revoked", "purged"}]
      /\ pairs \in [Token -> Nat \cup {None}]
      BY DEF SessionTypeOK
<1>1. CASE \E r \in Req : Register(r) \/ Login(r)
  <2>1. call' \in [Req -> Calls]  BY <1>1, CallType DEF Register, Login
  <2> QED BY <1>1, <2>1 DEF Register, Login, SessionTypeOK, tokens
<1>2. CASE \E r \in Req : CreateUser(r) \/ Answered(r) \/ Fail(r)
  <2>1. call' \in [Req -> Calls]  BY <1>2, CallType DEF CreateUser, Answered, Fail
  <2>2. ended' \in BOOLEAN  BY <1>2 DEF CreateUser, Answered, Fail, SessionTypeOK, tokens
  <2> QED BY <1>2, <2>1, <2>2 DEF CreateUser, Answered, Fail, SessionTypeOK, tokens
<1>3. CASE \E r \in Req : Sign(r)
  <2>1. PICK r \in Req : Sign(r)  BY <1>3
  <2>2. [call[r] EXCEPT !.step = "insert", !.new = now] \in Calls  BY <1>t
  <2>3. call' \in [Req -> Calls]  BY <1>t, <2>1, <2>2 DEF Sign
  <2> QED BY <2>1, <2>3 DEF Sign, SessionTypeOK, tokens
<1>4. CASE \E r \in Req : Insert(r)
  <2>1. PICK r \in Req : Insert(r)  BY <1>4
  <2>2. call' \in [Req -> Calls]  BY <2>1, CallType DEF Insert
  <2>3. rows' \in [Token -> {"none", "live", "revoked", "purged"}] /\ idleSince' \in Token \cup {None}
        BY <1>t, <2>1, SetRowsType DEF Insert, SessionTypeOK
  <2>4. pairs' \in [Token -> Nat \cup {None}]  BY <1>t, <2>1 DEF Insert
  <2>5. ended' \in BOOLEAN  BY <2>1 DEF Insert, SessionTypeOK
  <2> QED BY <2>1, <2>2, <2>3, <2>4, <2>5 DEF Insert, SessionTypeOK
<1>5. CASE \E r \in Req : Revoke(r)
  <2>1. PICK r \in Req : Revoke(r)  BY <1>5
  <2>2. call' \in [Req -> Calls]  BY <2>1, CallType DEF Revoke
  <2>3. rows' \in [Token -> {"none", "live", "revoked", "purged"}] /\ idleSince' \in Token \cup {None}
        BY <1>t, <2>1, SetRowsType DEF Revoke, SessionTypeOK
  <2>4. pairs' \in [Token -> Nat \cup {None}]  BY <1>t, <2>1 DEF Revoke
  <2> QED BY <2>1, <2>2, <2>3, <2>4 DEF Revoke, SessionTypeOK
<1>6. CASE \E r \in Req, n \in Token : Refresh(r, n) \/ Admit(r, n)
  <2>1. call' \in [Req -> Calls]  BY <1>6, CallType DEF Refresh, Admit
  <2> QED BY <1>6, <2>1 DEF Refresh, Admit, SessionTypeOK, tokens
<1>7. CASE (\E n \in Token : Logout(n)) \/ PurgeTokens
  <2>1. rows' \in [Token -> {"none", "live", "revoked", "purged"}] /\ idleSince' \in Token \cup {None}
        BY <1>t, <1>7, SetRowsType DEF Logout, PurgeTokens
  <2> QED BY <1>7, <2>1 DEF Logout, PurgeTokens, SessionTypeOK
<1>8. CASE Tick
  <2>1. now' \in Token  BY <1>t, <1>8 DEF Tick, Token
  <2>2. ended' \in BOOLEAN  BY <1>8 DEF Tick, SessionTypeOK
  <2> QED BY <1>8, <2>1, <2>2 DEF Tick, SessionTypeOK
<1>9. CASE UNCHANGED sessionVars  BY <1>9 DEF sessionVars, SessionTypeOK
<1> QED BY <1>1, <1>2, <1>3, <1>4, <1>5, <1>6, <1>7, <1>8, <1>9 DEF Step

\* The sessions keep their types.
THEOREM SessionTypeCorrect == Spec => []SessionTypeOK
<1>1. Init => SessionTypeOK  BY TypeInit
<1>2. SessionTypeOK /\ [Next]_vars => SessionTypeOK'  BY StepOfNext, TypeStep
<1> QED BY <1>1, <1>2, PTL DEF Spec

-----------------------------------------------------------------------------
(* A refresh token buys one pair.                                          *)

\* It holds at the start.
LEMMA SingleUseInit ==
  ASSUME Init
  PROVE  SingleUseInv
  BY DEF Init, SessionInit, SingleUseInv, RefreshIsSingleUse, Holds, InHand, At, Idle

\* The steps of a request that hold no token, or leave what it holds alone.
LEMMA SingleUseFrame ==
  ASSUME SessionTypeOK, SingleUseInv, UNCHANGED pairs,
         \A n \in Token : rows'[n] = rows[n] \/ rows'[n] \in {"revoked", "purged"},
         \A n \in Token : rows[n] \in {"revoked", "purged"} => rows'[n] \in {"revoked", "purged"},
         \A r \in Req : call'[r].step = "revoke" => call'[r].old \in Token,
         \A r \in Req, n \in Token : Holds(r, n)' => Holds(r, n)
  PROVE  SingleUseInv'
<1>1. RefreshIsSingleUse'  BY DEF SingleUseInv, RefreshIsSingleUse
<1>2. \A n \in Token : rows'[n] \in {"none", "live"} => pairs'[n] \in {0, None}
      BY DEF SingleUseInv
<1>3. \A r \in Req, n \in Token :
        Holds(r, n)' => rows'[n] \in {"revoked", "purged"} /\ pairs'[n] \in {0, None}
      BY DEF SingleUseInv
<1>4. \A r, s \in Req, n \in Token : Holds(r, n)' /\ Holds(s, n)' => r = s \/ pairs'[n] = None
      BY DEF SingleUseInv
<1> QED BY <1>1, <1>2, <1>3, <1>4 DEF SingleUseInv, At

\* Every step of the sessions keeps it.
LEMMA SingleUseStep ==
  ASSUME SessionTypeOK, SingleUseInv, Step
  PROVE  SingleUseInv'
<1> USE DEF Holds, InHand, At
<1>t. call \in [Req -> Calls] /\ rows \in [Token -> {"none", "live", "revoked", "purged"}]
      /\ pairs \in [Token -> Nat \cup {None}] /\ None \notin Token
      BY DEF SessionTypeOK, Calls
<1>r. \A r \in Req : call[r].step = "revoke" => call[r].old \in Token  BY DEF SingleUseInv
<1>1. CASE \E r \in Req : Register(r) \/ Login(r)
  <2>1. PICK r \in Req : Register(r) \/ Login(r)  BY <1>1
  <2>2. call' = [call EXCEPT ![r] = [Idle EXCEPT !.step = call'[r].step, !.old = None]]
        /\ call'[r].step \in {"createUser", "sign"} /\ UNCHANGED <<rows, pairs>>
        BY <1>t, <2>1 DEF Register, Login, Begin, Idle, tokens
  <2>3. call'[r].old = None  BY <1>t, <2>2 DEF Idle
  <2> QED BY <1>t, <1>r, <2>2, <2>3, SingleUseFrame
<1>2. CASE \E r \in Req : CreateUser(r) \/ Answered(r) \/ Fail(r)
  <2>1. PICK r \in Req : CreateUser(r) \/ Answered(r) \/ Fail(r)  BY <1>2
  <2>2. call' = [call EXCEPT ![r] = Idle] /\ UNCHANGED <<rows, pairs>>
        BY <2>1 DEF CreateUser, Answered, Fail, Answer, tokens
  <2> QED BY <1>t, <1>r, <2>2, SingleUseFrame DEF Idle
<1>3. CASE \E r \in Req : Sign(r)
  <2>1. PICK r \in Req : Sign(r)  BY <1>3
  <2>2. call'[r].old = call[r].old /\ call'[r].step = "insert" /\ call[r].step = "sign"
        /\ \A s \in Req \ {r} : call'[s] = call[s]
        BY <1>t, <2>1 DEF Sign, Calls
  <2>3. UNCHANGED <<rows, pairs>>  BY <2>1 DEF Sign, tokens
  <2> QED BY <1>t, <1>r, <2>2, <2>3, SingleUseFrame
<1>4. CASE \E r \in Req : Insert(r)
  <2>1. PICK r \in Req : Insert(r)  BY <1>4
  <2> DEFINE new == call[r].new
  <2> DEFINE old == call[r].old
  <2>2. call' = [call EXCEPT ![r] = Idle] /\ call[r].step = "insert"  BY <2>1 DEF Insert, Answer
  <2>3. \A s \in Req, n \in Token : Holds(s, n)' => Holds(s, n) /\ s # r
        BY <1>t, <2>2 DEF Idle
  <2>4. \A s \in Req : call'[s].step = "revoke" => call'[s].old \in Token
        BY <1>t, <1>r, <2>2 DEF Idle
  <2>5. CASE rows[new] # "none"
    <3>1. UNCHANGED <<rows, pairs>>  BY <2>1, <2>5 DEF Insert
    <3> QED BY <2>3, <2>4, <3>1, SingleUseFrame
  <2>6. CASE rows[new] = "none"
    <3>1. rows' = [rows EXCEPT ![new] = "live"]  BY <2>1, <2>6 DEF Insert, SetRows
    <3>2. pairs' = [m \in Token |-> IF m = old /\ pairs[m] # None THEN pairs[m] + 1 ELSE pairs[m]]
          BY <2>1, <2>6 DEF Insert
    <3>3. \A m \in Token : m # old \/ pairs[m] = None => pairs'[m] = pairs[m]
          BY <3>2
    <3>4. old \in Token => Holds(r, old) /\ rows[old] \in {"revoked", "purged"} /\ pairs[old] \in {0, None}
          BY <2>2 DEF SingleUseInv
    <3>5. old \in Token /\ pairs[old] # None => pairs'[old] = 1
          BY <3>2, <3>4
    <3>6. RefreshIsSingleUse'
          BY <1>t, <3>3, <3>5 DEF SingleUseInv, RefreshIsSingleUse
    <3>7. \A n \in Token : rows'[n] \in {"none", "live"} => pairs'[n] \in {0, None}
      <4> SUFFICES ASSUME NEW n \in Token, rows'[n] \in {"none", "live"}
                   PROVE  pairs'[n] \in {0, None}
          OBVIOUS
      <4>1. rows[n] \in {"none", "live"}  BY <1>t, <2>6, <3>1
      <4>2. n # old  BY <3>4, <4>1
      <4> QED BY <3>3, <4>1, <4>2 DEF SingleUseInv
    <3>8. \A s \in Req, n \in Token : Holds(s, n)' => rows'[n] \in {"revoked", "purged"} /\ pairs'[n] \in {0, None}
      <4> SUFFICES ASSUME NEW s \in Req, NEW n \in Token, Holds(s, n)'
                   PROVE  rows'[n] \in {"revoked", "purged"} /\ pairs'[n] \in {0, None}
          OBVIOUS
      <4>1. s # r /\ Holds(s, n) /\ rows[n] \in {"revoked", "purged"} /\ pairs[n] \in {0, None}
            BY <2>3 DEF SingleUseInv
      <4>2. rows'[n] = rows[n]  BY <1>t, <2>6, <3>1, <4>1
      <4>3. n = old => pairs[n] = None
            BY <2>2, <4>1 DEF SingleUseInv
      <4> QED BY <3>3, <4>1, <4>2, <4>3
    <3>9. \A s, t \in Req, n \in Token : Holds(s, n)' /\ Holds(t, n)' => s = t \/ pairs'[n] = None
      <4> SUFFICES ASSUME NEW s \in Req, NEW t \in Req, NEW n \in Token, Holds(s, n)', Holds(t, n)', s # t
                   PROVE  pairs'[n] = None
          OBVIOUS
      <4>1. pairs[n] = None  BY <2>3 DEF SingleUseInv
      <4> QED BY <3>3, <4>1
    <3> QED BY <2>4, <3>6, <3>7, <3>8, <3>9 DEF SingleUseInv
  <2> QED BY <2>5, <2>6
<1>5. CASE \E r \in Req : Revoke(r)
  <2>1. PICK r \in Req : Revoke(r)  BY <1>5
  <2> DEFINE n == call[r].old
  <2>2. n \in Token /\ call[r].step = "revoke"  BY <1>r, <2>1 DEF Revoke
  <2>3. CASE ~HasRow(n)
    <3>1. call' = [call EXCEPT ![r] = Idle] /\ UNCHANGED <<rows, pairs>>
          BY <2>1, <2>3 DEF Revoke, Answer
    <3> QED BY <1>t, <1>r, <3>1, SingleUseFrame DEF Idle
  <2>4. CASE HasRow(n)
    <3>1. rows' = [rows EXCEPT ![n] = "revoked"]  BY <2>1, <2>4 DEF Revoke, SetRows
    <3>2. pairs' = IF rows[n] = "revoked" THEN [pairs EXCEPT ![n] = None] ELSE pairs
          BY <2>1, <2>4 DEF Revoke
    <3>3. call' = [call EXCEPT ![r].step = "sign"]  BY <2>1, <2>4 DEF Revoke, Goto
    <3>4. call'[r].step = "sign" /\ call'[r].old = n /\ \A s \in Req \ {r} : call'[s] = call[s]
          BY <1>t, <3>3 DEF Calls
    <3>5. \A m \in Token : m # n => rows'[m] = rows[m] /\ pairs'[m] = pairs[m]
          BY <1>t, <3>1, <3>2
    <3>6. rows'[n] = "revoked" /\ pairs'[n] \in {0, None}
      <4>1. rows'[n] = "revoked"  BY <1>t, <2>2, <3>1
      <4>2. CASE rows[n] = "revoked"  BY <1>t, <2>2, <3>2, <4>1, <4>2
      <4>3. CASE rows[n] # "revoked"
        <5>1. rows[n] = "live"  BY <2>4, <4>3 DEF HasRow
        <5> QED BY <2>2, <3>2, <4>1, <4>3, <5>1 DEF SingleUseInv
      <4> QED BY <4>2, <4>3
    <3>7. \A s \in Req, m \in Token : Holds(s, m)' => (s = r /\ m = n) \/ (s # r /\ Holds(s, m))
          BY <3>4
    <3>8. RefreshIsSingleUse'
          BY <3>5, <3>6 DEF SingleUseInv, RefreshIsSingleUse
    <3>9. \A m \in Token : rows'[m] \in {"none", "live"} => pairs'[m] \in {0, None}
          BY <3>5, <3>6 DEF SingleUseInv
    <3>10. \A s \in Req : call'[s].step = "revoke" => call'[s].old \in Token
          BY <1>r, <3>4
    <3>11. \A s \in Req, m \in Token : Holds(s, m)' => rows'[m] \in {"revoked", "purged"} /\ pairs'[m] \in {0, None}
      <4> SUFFICES ASSUME NEW s \in Req, NEW m \in Token, Holds(s, m)'
                   PROVE  rows'[m] \in {"revoked", "purged"} /\ pairs'[m] \in {0, None}
          OBVIOUS
      <4>1. CASE m = n  BY <3>6, <4>1
      <4>2. CASE m # n
        <5>1. Holds(s, m)  BY <3>7, <4>2
        <5> QED BY <3>5, <4>2, <5>1 DEF SingleUseInv
      <4> QED BY <4>1, <4>2
    <3>12. \A s, t \in Req, m \in Token : Holds(s, m)' /\ Holds(t, m)' => s = t \/ pairs'[m] = None
      <4> SUFFICES ASSUME NEW s \in Req, NEW t \in Req, NEW m \in Token, Holds(s, m)', Holds(t, m)', s # t
                   PROVE  pairs'[m] = None
          OBVIOUS
      <4>1. CASE s # r /\ t # r
        <5>1. pairs[m] = None  BY <3>7, <4>1 DEF SingleUseInv
        <5> QED BY <1>t, <2>2, <3>2, <5>1
      <4>2. CASE s = r \/ t = r
        <5>1. m = n /\ \E u \in Req : Holds(u, m)  BY <3>7, <4>2
        <5>2. rows[n] \in {"revoked", "purged"}  BY <5>1 DEF SingleUseInv
        <5>3. rows[n] = "revoked"  BY <2>4, <5>2 DEF HasRow
        <5> QED BY <1>t, <2>2, <3>2, <5>1, <5>3
      <4> QED BY <4>1, <4>2
    <3> QED BY <3>8, <3>9, <3>10, <3>11, <3>12 DEF SingleUseInv
  <2> QED BY <2>3, <2>4
<1>6. CASE \E r \in Req, n \in Token : Refresh(r, n) \/ Admit(r, n)
  <2>1. PICK r \in Req, n \in Token : Refresh(r, n) \/ Admit(r, n)  BY <1>6
  <2>2. UNCHANGED <<rows, pairs>> /\ \A s \in Req \ {r} : call'[s] = call[s]
        BY <1>t, <2>1 DEF Refresh, Admit, Begin, tokens
  <2>3. call'[r].step = "admitted" \/ (call'[r].step = "revoke" /\ call'[r].old = n)
        BY <1>t, <2>1 DEF Refresh, Admit, Begin, Idle
  <2> QED BY <1>t, <1>r, <2>2, <2>3, SingleUseFrame
<1>7. CASE (\E n \in Token : Logout(n)) \/ PurgeTokens
  <2>1. UNCHANGED <<call, pairs>>
        /\ \A n \in Token : \/ rows'[n] = rows[n]
                            \/ rows'[n] \in {"revoked", "purged"} /\ HasRow(n)
        BY <1>t, <1>7 DEF Logout, PurgeTokens, SetRows
  <2> QED BY <1>t, <1>r, <2>1, SingleUseFrame DEF HasRow
<1>8. CASE Tick
  BY <1>8, <1>r, SingleUseFrame DEF Tick
<1>9. CASE UNCHANGED sessionVars
  BY <1>9, <1>r, SingleUseFrame DEF sessionVars
<1> QED BY <1>1, <1>2, <1>3, <1>4, <1>5, <1>6, <1>7, <1>8, <1>9 DEF Step

\* A refresh token buys one pair of tokens, unless refreshes of it, or a logout and
\* a refresh, overlapped: auth.service's lookup, revocation and insertion are
\* separate awaits, and it is the revocation that decides.
THEOREM RefreshSingleUse == Spec => []RefreshIsSingleUse
<1>1. Init => SingleUseInv  BY SingleUseInit
<1>2. SessionTypeOK /\ SingleUseInv /\ [Next]_vars => SingleUseInv'  BY StepOfNext, SingleUseStep
<1>3. SingleUseInv => RefreshIsSingleUse  BY DEF SingleUseInv
<1> QED BY <1>1, <1>2, <1>3, SessionTypeCorrect, PTL DEF Spec

-----------------------------------------------------------------------------
(* Who logged in keeps a session.                                          *)

\* It holds at the start.
LEMMA KeptInit ==
  ASSUME Init
  PROVE  KeptInv
  BY DEF Init, SessionInit, KeptInv, SessionIsKept, Given, At, Idle

\* The steps that leave clock and rows alone, and lose no request that will answer
\* with a token.
LEMMA KeptFrame ==
  ASSUME KeptInv, UNCHANGED <<now, rows, ended>>,
         \A r \in Req : InHand(r) => InHand(r)',
         \A r \in Req : At(r, "insert")' => At(r, "insert") /\ call'[r].new = call[r].new
  PROVE  KeptInv'
<1>1. SessionIsKept'
      BY DEF KeptInv, SessionIsKept, Given, Usable, InHand
<1>2. \A r \in Req : At(r, "insert")' => call'[r].new \in Token /\ now' < call'[r].new + RefreshTTL
      BY DEF KeptInv
<1> QED BY <1>1, <1>2 DEF KeptInv, At

\* Every step of the sessions keeps it.
LEMMA KeptStep ==
  ASSUME SessionTypeOK, KeptInv, Step
  PROVE  KeptInv'
<1> USE DEF InHand, At
<1>t. call \in [Req -> Calls] /\ rows \in [Token -> {"none", "live", "revoked", "purged"}] /\ now \in Token
      /\ Token \subseteq Nat
      BY DEF SessionTypeOK, Calls, Token
<1>k. \A r \in Req : call[r].step = "insert" => call[r].new \in Token /\ now < call[r].new + RefreshTTL
      BY DEF KeptInv
<1>1. CASE \E r \in Req : Register(r) \/ Login(r)
  BY <1>t, <1>1, KeptFrame DEF Register, Login, Begin, Idle, tokens
<1>2. CASE \E r \in Req : CreateUser(r) \/ Answered(r)
  BY <1>t, <1>2, KeptFrame DEF CreateUser, Answered, Answer, Idle, tokens
<1>3. CASE \E r \in Req : Fail(r)
  <2>1. PICK r \in Req : Fail(r)  BY <1>3
  <2>2. call' = [call EXCEPT ![r] = Idle] /\ UNCHANGED <<now, rows>>  BY <2>1 DEF Fail, Answer
  <2>3. CASE call[r].step \in {"sign", "insert"}
    <3>1. ended'  BY <2>1, <2>3 DEF Fail
    <3>2. SessionIsKept'  BY <3>1 DEF SessionIsKept
    <3> QED BY <1>t, <1>k, <2>2, <3>2 DEF KeptInv, Idle
  <2>4. CASE call[r].step \notin {"sign", "insert"}
    <3>1. ended' = ended  BY <2>1, <2>4 DEF Fail, SessionTypeOK
    <3> QED BY <1>t, <2>2, <2>4, <3>1, KeptFrame DEF Idle
  <2> QED BY <2>3, <2>4
<1>4. CASE \E r \in Req : Sign(r)
  <2>1. PICK r \in Req : Sign(r)  BY <1>4
  <2>2. call'[r].step = "insert" /\ call'[r].new = now /\ \A s \in Req \ {r} : call'[s] = call[s]
        BY <1>t, <2>1 DEF Sign, Calls
  <2>3. SessionIsKept'  BY <2>2 DEF SessionIsKept
  <2>4. now' = now /\ now < now + RefreshTTL  BY <1>t, <2>1 DEF Sign
  <2> QED BY <1>t, <1>k, <2>2, <2>3, <2>4 DEF KeptInv
<1>5. CASE \E r \in Req : Insert(r)
  <2>1. PICK r \in Req : Insert(r)  BY <1>5
  <2> DEFINE n == call[r].new
  <2>2. call' = [call EXCEPT ![r] = Idle] /\ now' = now  BY <2>1 DEF Insert, Answer
  <2>3. n \in Token /\ now < n + RefreshTTL  BY <1>k, <2>1 DEF Insert
  <2>4. ended' \/ (rows'[n] = "live" /\ rows' \in [Token -> {"none", "live", "revoked", "purged"}])
    <3>1. CASE rows[n] = "none"  BY <1>t, <2>1, <2>3, <3>1 DEF Insert, SetRows
    <3>2. CASE rows[n] # "none"  BY <1>t, <2>1, <2>3, <3>2 DEF Insert, Usable
    <3> QED BY <3>1, <3>2
  <2>5. SessionIsKept'  BY <2>2, <2>3, <2>4 DEF SessionIsKept, Given, Usable
  <2> QED BY <1>t, <1>k, <2>2, <2>5 DEF KeptInv, Idle
<1>6. CASE \E r \in Req : Revoke(r)
  <2>1. PICK r \in Req : Revoke(r)  BY <1>6
  <2>2. CASE HasRow(call[r].old)
    <3>1. call' = [call EXCEPT ![r].step = "sign"] /\ now' = now
          BY <2>1, <2>2 DEF Revoke, Goto
    <3>2. call'[r].step = "sign" /\ \A s \in Req \ {r} : call'[s] = call[s]
          BY <1>t, <3>1 DEF Calls
    <3>3. SessionIsKept'  BY <3>2 DEF SessionIsKept
    <3> QED BY <1>k, <3>1, <3>2, <3>3 DEF KeptInv
  <2>3. CASE ~HasRow(call[r].old)
    BY <1>t, <2>1, <2>3, KeptFrame DEF Revoke, Answer, Idle
  <2> QED BY <2>2, <2>3
<1>7. CASE \E r \in Req, n \in Token : Refresh(r, n) \/ Admit(r, n)
  BY <1>t, <1>7, KeptFrame DEF Refresh, Admit, Begin, Idle, tokens
<1>8. CASE \E n \in Token : Logout(n)
  BY <1>k, <1>8 DEF Logout, KeptInv, SessionIsKept
<1>9. CASE PurgeTokens
  <2>1. UNCHANGED <<now, call, ended>>  BY <1>9 DEF PurgeTokens
  <2>2. \A n \in Token : (Usable(n) => rows'[n] = rows[n]) /\ (rows'[n] # "none" => rows[n] # "none")
        BY <1>t, <1>9 DEF PurgeTokens, SetRows, Usable, HasRow
  <2>3. SessionIsKept'  BY <2>1, <2>2 DEF KeptInv, SessionIsKept, Given, Usable
  <2> QED BY <1>k, <2>1, <2>3 DEF KeptInv
<1>10. CASE Tick
  <2>1. now' = now + 1 /\ UNCHANGED <<rows, call>>  BY <1>10 DEF Tick
  <2>2. ended' \/ (~ended /\ \A n \in Token : Usable(n) => now + 1 < n + RefreshTTL)
    <3>1. ended' = (ended \/ \E n \in Live : now + 1 = n + RefreshTTL)  BY <1>10 DEF Tick
    <3>2. CASE \E n \in Live : now + 1 = n + RefreshTTL  BY <3>1, <3>2
    <3>3. CASE ~ \E n \in Live : now + 1 = n + RefreshTTL
      <4>1. \A n \in Token : Usable(n) => now + 1 < n + RefreshTTL  BY <1>t, <3>3 DEF Live, Usable
      <4> QED BY <3>1, <3>3, <4>1
    <3> QED BY <3>2, <3>3
  <2>3. SessionIsKept'  BY <2>1, <2>2 DEF KeptInv, SessionIsKept, Given, Usable
  <2> QED BY <1>k, <1>10, <2>1, <2>3 DEF KeptInv, Tick
<1>11. CASE UNCHANGED sessionVars
  BY <1>11, KeptFrame DEF sessionVars
<1> QED BY <1>1, <1>2, <1>3, <1>4, <1>5, <1>6, <1>7, <1>8, <1>9, <1>10, <1>11 DEF Step

\* Who logged in keeps a refresh token that works, or a request that will answer
\* with one, until something takes it away: refresh revokes before it inserts, and
\* the insertion may meet the row of the same second.
THEOREM SessionKept == Spec => []SessionIsKept
<1>1. Init => KeptInv  BY KeptInit
<1>2. SessionTypeOK /\ KeptInv /\ [Next]_vars => KeptInv'  BY StepOfNext, KeptStep
<1>3. KeptInv => SessionIsKept  BY DEF KeptInv
<1> QED BY <1>1, <1>2, <1>3, SessionTypeCorrect, PTL DEF Spec

-----------------------------------------------------------------------------
(* The handlers close after the last session.                              *)

\* It holds at the start.
LEMMA AccessInit ==
  ASSUME Init
  PROVE  AccessInv
<1>1. Live = {} /\ Given = {} /\ idleSince = 0  BY DEF Init, SessionInit, Live, Given
<1>2. 0 # None  BY DEF Token
<1> QED BY <1>1, <1>2 DEF Init, SessionInit, AccessInv, At, Idle

\* The steps that set rows and give out no token.
LEMMA AccessSetRows ==
  ASSUME SessionTypeOK, AccessInv, NEW new \in [Token -> {"none", "live", "revoked", "purged"}],
         SetRows(new), now' = now,
         \A n \in Token : new[n] # "none" => rows[n] # "none",
         \A r \in Req : At(r, "insert")' => At(r, "insert") /\ call'[r].new = call[r].new
  PROVE  AccessInv'
<1>t. now \in Token /\ now # None  BY DEF SessionTypeOK
<1>1. rows' = new  BY DEF SetRows
<1>2. CASE \E n \in Token : new[n] = "live"
  <2>1. idleSince' = None /\ Live' # {}  BY <1>1, <1>2 DEF SetRows, Live
  <2> QED BY <1>1, <2>1 DEF AccessInv, Given, At
<1>3. CASE ~ \E n \in Token : new[n] = "live"
  <2>1. Live' = {}  BY <1>1, <1>3 DEF Live
  <2>2. idleSince' = IF Live = {} THEN idleSince ELSE now  BY <1>3 DEF SetRows
  <2>3. idleSince' # None  BY <1>t, <2>2 DEF AccessInv
  <2>4. \A n \in Given : n <= now /\ n <= idleSince'  BY <2>2 DEF AccessInv
  <2> QED BY <1>1, <2>1, <2>3, <2>4 DEF AccessInv, Given, At
<1> QED BY <1>2, <1>3

\* The steps that set none.
LEMMA AccessFrame ==
  ASSUME AccessInv, UNCHANGED <<now, rows, idleSince>>,
         \A r \in Req : At(r, "insert")' => At(r, "insert") /\ call'[r].new = call[r].new
  PROVE  AccessInv'
  BY DEF AccessInv, Live, Given, At

\* Every step of the sessions keeps it.
LEMMA AccessStep ==
  ASSUME SessionTypeOK, AccessInv, Step
  PROVE  AccessInv'
<1> USE DEF At
<1>t. call \in [Req -> Calls] /\ rows \in [Token -> {"none", "live", "revoked", "purged"}] /\ now \in Token
      /\ Token \subseteq Nat /\ None \notin Token
      BY DEF SessionTypeOK, Calls, Token
<1>a. \A r \in Req : call[r].step = "insert" => call[r].new \in Token /\ call[r].new <= now
      BY DEF AccessInv
<1>1. CASE \E r \in Req : Register(r) \/ Login(r)
  BY <1>t, <1>1, AccessFrame DEF Register, Login, Begin, Idle, tokens
<1>2. CASE \E r \in Req : CreateUser(r) \/ Answered(r) \/ Fail(r)
  BY <1>t, <1>2, AccessFrame DEF CreateUser, Answered, Fail, Answer, Idle, tokens
<1>3. CASE \E r \in Req : Sign(r)
  <2>1. PICK r \in Req : Sign(r)  BY <1>3
  <2>2. call'[r].step = "insert" /\ call'[r].new = now /\ \A s \in Req \ {r} : call'[s] = call[s]
        BY <1>t, <2>1 DEF Sign, Calls
  <2>3. UNCHANGED <<now, rows, idleSince>>  BY <2>1 DEF Sign, tokens
  <2>4. \A s \in Req : call'[s].step = "insert" => call'[s].new \in Token /\ call'[s].new <= now
        BY <1>t, <1>a, <2>2
  <2> QED BY <2>3, <2>4 DEF AccessInv, Live, Given
<1>4. CASE \E r \in Req : Insert(r)
  <2>1. PICK r \in Req : Insert(r)  BY <1>4
  <2> DEFINE n == call[r].new
  <2>2. call' = [call EXCEPT ![r] = Idle] /\ now' = now /\ n \in Token /\ n <= now
        BY <1>a, <2>1 DEF Insert, Answer
  <2>3. CASE rows[n] # "none"
    BY <1>t, <2>1, <2>2, <2>3, AccessFrame DEF Insert, Idle
  <2>4. CASE rows[n] = "none"
    <3>1. SetRows([rows EXCEPT ![n] = "live"])  BY <2>1, <2>4 DEF Insert
    <3>2. rows' = [rows EXCEPT ![n] = "live"]  BY <3>1 DEF SetRows
    <3>3. rows'[n] = "live" /\ \A m \in Token \ {n} : rows'[m] = rows[m]  BY <1>t, <2>2, <3>2
    <3>4. idleSince' = None  BY <2>2, <3>1, <3>2, <3>3 DEF SetRows
    <3>5. Live' # {}  BY <2>2, <3>3 DEF Live
    <3>6. \A m \in Given' : m <= now  BY <2>2, <3>3 DEF Given, AccessInv
    <3>7. \A s \in Req : call'[s].step = "insert" => call[s].step = "insert" /\ call'[s].new = call[s].new
          BY <1>t, <2>2 DEF Idle
    <3> QED BY <1>a, <2>2, <3>4, <3>5, <3>6, <3>7 DEF AccessInv
  <2> QED BY <2>3, <2>4
<1>5. CASE \E r \in Req : Revoke(r)
  <2>1. PICK r \in Req : Revoke(r)  BY <1>5
  <2> DEFINE n == call[r].old
  <2>2. CASE HasRow(n)
    <3>1. SetRows([rows EXCEPT ![n] = "revoked"]) /\ now' = now  BY <2>1, <2>2 DEF Revoke
    <3>2. \A s \in Req : call'[s].step = "insert" => call[s].step = "insert" /\ call'[s].new = call[s].new
          BY <1>t, <2>1, <2>2 DEF Revoke, Goto, Calls
    <3>3. [rows EXCEPT ![n] = "revoked"] \in [Token -> {"none", "live", "revoked", "purged"}]  BY <1>t
    <3>4. \A m \in Token : [rows EXCEPT ![n] = "revoked"][m] # "none" => rows[m] # "none"
          BY <1>t, <2>2 DEF HasRow
    <3> QED BY <3>1, <3>2, <3>3, <3>4, AccessSetRows
  <2>3. CASE ~HasRow(n)
    BY <1>t, <2>1, <2>3, AccessFrame DEF Revoke, Answer, Idle
  <2> QED BY <2>2, <2>3
<1>6. CASE \E r \in Req, n \in Token : Refresh(r, n) \/ Admit(r, n)
  BY <1>t, <1>6, AccessFrame DEF Refresh, Admit, Begin, Idle, tokens
<1>7. CASE \E n \in Token : Logout(n)
  <2>1. PICK n \in Token : Logout(n)  BY <1>7
  <2>2. SetRows([rows EXCEPT ![n] = "revoked"]) /\ UNCHANGED <<now, call>> /\ HasRow(n)  BY <2>1 DEF Logout
  <2>3. [rows EXCEPT ![n] = "revoked"] \in [Token -> {"none", "live", "revoked", "purged"}]  BY <1>t
  <2>4. \A m \in Token : [rows EXCEPT ![n] = "revoked"][m] # "none" => rows[m] # "none"
        BY <1>t, <2>2 DEF HasRow
  <2> QED BY <2>2, <2>3, <2>4, AccessSetRows
<1>8. CASE PurgeTokens
  <2> DEFINE gone == {n \in Token : HasRow(n) /\ n + RefreshTTL <= now}
  <2> DEFINE new == [n \in Token |-> IF n \in gone THEN "purged" ELSE rows[n]]
  <2>1. SetRows(new) /\ UNCHANGED <<now, call>>  BY <1>8 DEF PurgeTokens
  <2>2. new \in [Token -> {"none", "live", "revoked", "purged"}]  BY <1>t
  <2>3. \A m \in Token : new[m] # "none" => rows[m] # "none"  BY DEF HasRow
  <2> HIDE DEF new
  <2> QED BY <2>1, <2>2, <2>3, AccessSetRows
<1>9. CASE Tick
  <2>1. now' = now + 1 /\ UNCHANGED <<rows, call, idleSince>>  BY <1>9 DEF Tick
  <2>2. \A n \in Token : n <= now => n <= now'  BY <1>t, <2>1
  <2>3. \A n \in Given : n <= now'  BY <2>2 DEF AccessInv, Given
  <2>4. \A r \in Req : call[r].step = "insert" => call[r].new \in Token /\ call[r].new <= now'
        BY <1>a, <2>2
  <2> QED BY <2>1, <2>3, <2>4 DEF AccessInv, Live, Given
<1>10. CASE UNCHANGED sessionVars
  BY <1>10, AccessFrame DEF sessionVars
<1> QED BY <1>1, <1>2, <1>3, <1>4, <1>5, <1>6, <1>7, <1>8, <1>9, <1>10 DEF Step

\* The guard lets a request in on an access token given while a session lived, at
\* the latest when the last one ended.
LEMMA AdmittedInTime ==
  ASSUME SessionTypeOK, AccessInv, Step, NEW r \in Req, At(r, "admitted")', ~At(r, "admitted")
  PROVE  idleSince = None \/ now < idleSince + AccessTTL
<1> USE DEF At
<1>t. call \in [Req -> Calls] /\ now \in Token /\ idleSince \in Token \cup {None} /\ Token \subseteq Nat
      BY DEF SessionTypeOK, Calls, Token
<1>1. PICK n \in Token : Admit(r, n)
  <2>1. ASSUME NEW s \in Req, Register(s) \/ Login(s)
        PROVE  FALSE
        BY <1>t, <2>1 DEF Register, Login, Begin, Idle
  <2>2. ASSUME NEW s \in Req, CreateUser(s) \/ Insert(s) \/ Fail(s) \/ Answered(s)
        PROVE  FALSE
    <3>1. call' = [call EXCEPT ![s] = Idle]  BY <2>2 DEF CreateUser, Insert, Fail, Answered, Answer
    <3> QED BY <1>t, <3>1 DEF Idle
  <2>3. ASSUME NEW s \in Req, Sign(s) \/ Revoke(s)
        PROVE  FALSE
    <3>1. CASE Sign(s)  BY <1>t, <3>1 DEF Sign, Calls
    <3>2. CASE Revoke(s)
      <4>1. CASE Answer(s)  BY <1>t, <4>1 DEF Answer, Idle
      <4>2. CASE Goto(s, "sign")  BY <1>t, <4>2 DEF Goto, Calls
      <4> QED BY <3>2, <4>1, <4>2 DEF Revoke
    <3> QED BY <2>3, <3>1, <3>2
  <2>4. call' # call  OBVIOUS
  <2>5. (\A n \in Token : ~Logout(n)) /\ ~PurgeTokens /\ ~Tick /\ ~UNCHANGED sessionVars
        BY <2>4 DEF Logout, PurgeTokens, Tick, sessionVars
  <2>6. ASSUME NEW s \in Req, NEW n \in Token, Refresh(s, n)
        PROVE  FALSE
        BY <1>t, <2>6 DEF Refresh, Begin, Idle
  <2>7. PICK s \in Req, n \in Token : Admit(s, n)
        BY <2>1, <2>2, <2>3, <2>5, <2>6 DEF Step
  <2>8. s = r  BY <1>t, <2>7 DEF Admit, Begin
  <2> QED BY <2>7, <2>8
<1>2. n \in Given /\ now < n + AccessTTL  BY <1>1 DEF Admit
<1>3. idleSince = None \/ n <= idleSince  BY <1>2 DEF AccessInv
<1> QED BY <1>t, <1>2, <1>3

\* After the last refresh token is revoked the dashboard's handlers are closed to
\* the user within the life of an access token, though JwtAuthGuard looks at no
\* session.
THEOREM AccessEnds == Spec => AccessEndsWithSession
<1>1. Init => AccessInv  BY AccessInit
<1>2. SessionTypeOK /\ AccessInv /\ [Next]_vars => AccessInv'  BY StepOfNext, AccessStep
<1> DEFINE Ends == \A r \in Req : At(r, "admitted")' /\ ~At(r, "admitted") =>
                       idleSince = None \/ now < idleSince + AccessTTL
<1>3. SessionTypeOK /\ AccessInv /\ [Next]_vars => [Ends]_sessionVars
  <2> SUFFICES ASSUME SessionTypeOK, AccessInv, [Next]_vars
               PROVE  Ends
      OBVIOUS
  <2> QED BY StepOfNext, AdmittedInTime
<1> QED BY <1>1, <1>2, <1>3, SessionTypeCorrect, PTL DEF Spec, AccessEndsWithSession

-----------------------------------------------------------------------------
(* The versions of a template.                                             *)

Versions == [number : Nat \ {0}, current : BOOLEAN]
Edits    == [step : {"none", "create", "delete", "begin", "deactivate", "activate"},
             number : Nat, target : Nat, fresh : BOOLEAN, seen : SUBSET Nat, off : SUBSET Nat]

\* What TypeOK says of the template.
TemplateType ==
    /\ template \in {"none", "exists", "deleted"}
    /\ versions \in Seq(Versions)
    /\ edit \in [Req -> Edits]
    /\ settled \in BOOLEAN
    /\ overlaps \in BOOLEAN

\* A handler that writes nothing yet keeps both invariants, if what it remembers
\* is right.
LEMMA QuietStep ==
  ASSUME TemplateType, VersionsInv, UNCHANGED <<template, versions, settled, overlaps>>,
         NEW r \in Req, NEW e \in Edits, edit' = [edit EXCEPT ![r] = e], EditInv(e)
  PROVE  TemplateType' /\ VersionsInv'
<1>1. TemplateType'  BY DEF TemplateType
<1>2. Current' = Current  BY DEF Current
<1>3. ASSUME NEW q \in Req  PROVE EditInv(edit[q])'
  <2>1. edit'[q] = IF q = r THEN e ELSE edit[q]  BY DEF TemplateType
  <2>2. EditInv(edit'[q])  BY <2>1 DEF VersionsInv
  <2> QED BY <2>2, <1>2 DEF EditInv, Exists
<1>4. OneCurrentVersion' /\ NumbersAreUnique' /\ (Exists => Numbered)'
      BY <1>2 DEF VersionsInv, OneCurrentVersion, NumbersAreUnique, Numbered, Exists
<1> QED BY <1>1, <1>3, <1>4 DEF VersionsInv

\* An edit that rests has nothing to be right about.
LEMMA RestingType == Resting \in Edits /\ EditInv(Resting)
  BY DEF Resting, Edits, EditInv

\* The first version of a new template.
LEMMA CreateStep ==
  ASSUME TemplateType, VersionsInv, NEW r \in Req, CommitCreate(r)
  PROVE  TemplateType' /\ VersionsInv'
<1>t. edit \in [Req -> Edits]  BY DEF TemplateType
<1>1. CASE template # "none"
      BY <1>1, RestingType, QuietStep DEF CommitCreate
<1>2. CASE template = "none"
  <2> DEFINE v == [number |-> 1, current |-> TRUE]
  <2>1. /\ template' = "exists" /\ versions' = <<v>> /\ UNCHANGED <<settled, overlaps>>
        /\ edit' = [edit EXCEPT ![r] = Resting]
        BY <1>2 DEF CommitCreate
  <2>2. v \in Versions  BY DEF Versions
  <2>3. /\ versions' \in Seq(Versions) /\ Len(versions') = 1 /\ DOMAIN versions' = {1} /\ versions'[1] = v
        BY <2>1, <2>2
  <2>4. TemplateType'  BY <2>1, <2>3, <1>t, RestingType DEF TemplateType
  <2>5. Current' = {1}  BY <2>3 DEF Current
  <2>6. ASSUME NEW q \in Req  PROVE EditInv(edit[q])'
    <3>1. edit'[q].step \notin {"begin", "deactivate", "activate"}
      <4>1. edit[q].step \notin {"begin", "deactivate", "activate"}  BY <1>2 DEF VersionsInv, EditInv
      <4> QED BY <4>1, <2>1, <1>t DEF Resting
    <3> QED BY <3>1 DEF EditInv
  <2>7. Numbered'  BY <2>3 DEF Numbered
  <2>8. OneCurrentVersion'  BY <2>5, FS_Singleton DEF OneCurrentVersion
  <2>9. NumbersAreUnique'  BY <2>3 DEF NumbersAreUnique
  <2> QED BY <2>4, <2>6, <2>7, <2>8, <2>9 DEF VersionsInv
<1> QED BY <1>1, <1>2

\* The template goes, and its versions with it.
LEMMA RemoveStep ==
  ASSUME TemplateType, VersionsInv, NEW r \in Req, CommitRemove(r)
  PROVE  TemplateType' /\ VersionsInv'
<1>t. edit \in [Req -> Edits]  BY DEF TemplateType
<1>1. /\ template' = "deleted" /\ versions' = <<>> /\ edit' = [edit EXCEPT ![r] = Resting]
      /\ UNCHANGED <<settled, overlaps>>
      BY DEF CommitRemove
<1>2. TemplateType'  BY <1>1, <1>t, RestingType DEF TemplateType
<1>3. ~Exists'  BY <1>1 DEF Exists
<1>4. ASSUME NEW q \in Req  PROVE EditInv(edit[q])'
  <2>1. edit'[q] = IF q = r THEN Resting ELSE edit[q]  BY <1>1, <1>t
  <2>2. EditInv(edit'[q])  BY <2>1, RestingType DEF VersionsInv
  <2> QED BY <2>2, <1>1, <1>3 DEF EditInv
<1>5. DOMAIN versions' = {}  BY <1>1
<1>6. OneCurrentVersion' /\ NumbersAreUnique'  BY <1>3, <1>5 DEF OneCurrentVersion, NumbersAreUnique
<1> QED BY <1>2, <1>3, <1>4, <1>6 DEF VersionsInv

\* An edit begins with a number above all there are, or with a version to return
\* to.
LEMMA BeginStep ==
  ASSUME TemplateType, VersionsInv, NEW r \in Req, Create(r) \/ Remove(r) \/ Update(r) \/ Rollback(r)
  PROVE  TemplateType' /\ VersionsInv'
<1>v. versions \in Seq(Versions) /\ Len(versions) \in Nat /\ DOMAIN versions = 1 .. Len(versions)
      BY DEF TemplateType
<1>1. CASE Create(r) \/ Remove(r)
  <2>1. PICK s \in {"create", "delete"} : edit' = [edit EXCEPT ![r] = [Resting EXCEPT !.step = s]]
        BY <1>1 DEF Create, Remove, Start
  <2> DEFINE e == [Resting EXCEPT !.step = s]
  <2>2. e \in Edits /\ EditInv(e)  BY DEF Resting, Edits, EditInv
  <2>3. UNCHANGED <<template, versions, settled, overlaps>>  BY <1>1 DEF Create, Remove, Start
  <2> QED BY <2>1, <2>2, <2>3, QuietStep
<1>2. CASE Update(r)
  <2> DEFINE e == [Resting EXCEPT !.step = "begin", !.number = NextNumber]
             numbers == {versions[i].number : i \in DOMAIN versions}
  <2>1. Exists /\ edit' = [edit EXCEPT ![r] = e] /\ UNCHANGED <<template, versions, settled, overlaps>>
        BY <1>2 DEF Update, Start
  <2>2. \A i \in DOMAIN versions : versions[i] \in Versions  BY <1>v
  <2>3. \A i \in DOMAIN versions : versions[i].number \in Nat  BY <2>2 DEF Versions
  <2>4. \E n \in numbers : \A m \in numbers : n >= m  BY <2>1, <2>3 DEF VersionsInv, Numbered
  <2>5. Max(numbers) \in numbers /\ \A m \in numbers : Max(numbers) >= m  BY <2>4 DEF Max
  <2>6. NextNumber \in Nat /\ NextNumber # 0 /\ \A i \in DOMAIN versions : versions[i].number < NextNumber
    <3>1. Max(numbers) \in Nat  BY <2>3, <2>5
    <3>2. \A i \in DOMAIN versions : versions[i].number <= Max(numbers)  BY <2>3, <2>5, <3>1
    <3>3. NextNumber = Max(numbers) + 1  BY DEF NextNumber
    <3> HIDE DEF numbers
    <3> QED BY <2>3, <3>1, <3>2, <3>3
  <2>7. e \in Edits  BY <2>6 DEF Edits, Resting
  <2>8. e.step = "begin" /\ e.number = NextNumber /\ e.target = 0  BY DEF Resting
  <2> HIDE DEF e, numbers
  <2>9. EditInv(e)  BY <2>1, <2>6, <2>8, <1>v DEF EditInv, Exists
  <2> QED BY <2>1, <2>7, <2>9, QuietStep
<1>3. CASE Rollback(r)
  <2>1. PICK t \in DOMAIN versions : edit' = [edit EXCEPT ![r] = [Resting EXCEPT !.step = "begin", !.target = t]]
        BY <1>3 DEF Rollback, Start
  <2>2. Exists /\ UNCHANGED <<template, versions, settled, overlaps>>  BY <1>3 DEF Rollback, Start
  <2> DEFINE e == [Resting EXCEPT !.step = "begin", !.target = t]
  <2>n. t \in Nat  BY <1>v
  <2>3. e \in Edits /\ e.step = "begin" /\ e.target = t  BY <2>n, RestingType DEF Edits
  <2>4. t \in 0 .. Len(versions) /\ t # 0  BY <1>v
  <2> HIDE DEF e
  <2>5. EditInv(e)  BY <2>2, <2>3, <2>4 DEF EditInv, Exists
  <2> QED BY <2>1, <2>2, <2>3, <2>5, QuietStep DEF e
<1> QED BY <1>1, <1>2, <1>3

\* updateMany sees, then switches off, every version that is current.
LEMMA SwitchOffStep ==
  ASSUME TemplateType, VersionsInv, NEW r \in Req, FindCurrent(r) \/ Deactivate(r)
  PROVE  TemplateType' /\ VersionsInv'
<1>t. edit[r] \in Edits /\ edit \in [Req -> Edits] /\ EditInv(edit[r]) /\ Current \in SUBSET Nat
  <2>1. DOMAIN versions \subseteq Nat  BY DEF TemplateType
  <2> QED BY <2>1 DEF TemplateType, VersionsInv, Current
<1>u. UNCHANGED <<template, versions, settled, overlaps>>  BY DEF FindCurrent, Deactivate
<1>1. CASE FindCurrent(r)
  <2> DEFINE e == [edit[r] EXCEPT !.step = "deactivate", !.seen = Current]
  <2>1. edit' = [edit EXCEPT ![r] = e] /\ edit[r].step = "begin"  BY <1>1, <1>t DEF FindCurrent, In
  <2>2. /\ e \in Edits /\ e.step = "deactivate" /\ e.seen = Current
        /\ e.number = edit[r].number /\ e.target = edit[r].target /\ e.fresh = edit[r].fresh
        BY <1>t DEF Edits
  <2> HIDE DEF e
  <2>3. EditInv(e)  BY <1>t, <2>1, <2>2 DEF EditInv
  <2> QED BY <1>u, <2>1, <2>2, <2>3, QuietStep
<1>2. CASE Deactivate(r)
  <2> DEFINE e == [edit[r] EXCEPT !.step = "activate", !.seen = {}, !.off = edit[r].seen \cap Current]
  <2>1. edit' = [edit EXCEPT ![r] = e] /\ edit[r].step = "deactivate"  BY <1>2, <1>t DEF Deactivate, In
  <2>2. /\ e \in Edits /\ e.step = "activate" /\ e.off = edit[r].seen \cap Current
        /\ e.number = edit[r].number /\ e.target = edit[r].target /\ e.fresh = edit[r].fresh
        BY <1>t DEF Edits
  <2> HIDE DEF e
  <2>3. EditInv(e)  BY <1>t, <2>1, <2>2 DEF EditInv
  <2> QED BY <1>u, <2>1, <2>2, <2>3, QuietStep
<1> QED BY <1>1, <1>2

\* What the commit of an edit leaves: its own version is current, and alone if
\* the edit overlapped with none; the numbers of the others are as they were.
LEMMA ActivateStep ==
  ASSUME TemplateType, VersionsInv, NEW r \in Req, Activate(r)
  PROVE  TemplateType' /\ VersionsInv'
<1>t. edit[r] \in Edits /\ edit \in [Req -> Edits] /\ EditInv(edit[r]) /\ template \in {"none", "exists", "deleted"}
      BY DEF TemplateType, VersionsInv
<1>v. versions \in Seq(Versions) /\ Len(versions) \in Nat /\ DOMAIN versions = 1 .. Len(versions)
      BY DEF TemplateType
<1>1. CASE ~Exists
  <2>1. edit' = [edit EXCEPT ![r] = Resting] /\ UNCHANGED <<template, versions, settled, overlaps>>
        BY <1>1 DEF Activate
  <2> QED BY <2>1, RestingType, QuietStep
<1>2. CASE Exists
  <2> DEFINE e   == edit[r]
             off == [i \in DOMAIN versions |-> [versions[i] EXCEPT !.current = @ /\ i \notin e.off]]
             n   == Len(versions)
             k   == IF e.target = 0 THEN n + 1 ELSE e.target
  <2>1. /\ versions' = IF e.target = 0 THEN Append(off, [number |-> e.number, current |-> TRUE])
                       ELSE [off EXCEPT ![e.target].current = TRUE]
        /\ settled' = e.fresh /\ overlaps' = (overlaps \/ ~e.fresh) /\ template' = template
        /\ edit' = [s \in Req |-> IF s = r \/ In(s, "none") THEN Resting ELSE [edit[s] EXCEPT !.fresh = FALSE]]
        /\ e.step = "activate"
        BY <1>2 DEF Activate, In
  <2>2. /\ e.target \in 0 .. n /\ (e.target = 0 => e.number # 0) /\ e.number \in Nat /\ e.fresh \in BOOLEAN
        /\ e.fresh => /\ e.target = 0 => \A i \in DOMAIN versions : versions[i].number < e.number
                      /\ Current \subseteq e.off
        BY <1>t, <1>2, <2>1 DEF EditInv, Edits
  <2>3. \A i \in 1 .. n : versions[i] \in Versions  BY <1>v
  <2>4. /\ DOMAIN off = 1 .. n
        /\ \A i \in 1 .. n : /\ off[i] \in Versions /\ off[i].number = versions[i].number
                             /\ off[i].current = (versions[i].current /\ i \notin e.off)
        BY <1>v, <2>3 DEF Versions
  <2>5. off \in Seq(Versions) /\ Len(off) = n
    <3>1. off \in [1 .. n -> Versions]  BY <1>v, <2>4
    <3> HIDE DEF off
    <3> QED BY <3>1, <1>v, SeqDef
  <2> HIDE DEF off
  <2>6. /\ versions' \in Seq(Versions) /\ Len(versions') = (IF e.target = 0 THEN n + 1 ELSE n)
        /\ DOMAIN versions' = 1 .. Len(versions') /\ k \in DOMAIN versions'
        /\ versions'[k].current = TRUE
        /\ versions'[k].number = (IF e.target = 0 THEN e.number ELSE versions[k].number)
        /\ \A i \in 1 .. n : i # k => versions'[i] = off[i]
    <3>1. CASE e.target = 0
      <4> DEFINE v == [number |-> e.number, current |-> TRUE]
      <4>1. v \in Versions /\ v.number = e.number /\ v.current = TRUE  BY <3>1, <2>2 DEF Versions
      <4>2. versions' = Append(off, v)  BY <3>1, <2>1
      <4> HIDE DEF v
      <4>3. /\ versions' \in Seq(Versions) /\ Len(versions') = n + 1
            /\ \A i \in 1 .. n : versions'[i] = off[i]
            /\ versions'[n + 1] = v
            BY <4>1, <4>2, <2>5, AppendProperties
      <4> QED BY <3>1, <4>1, <4>3, <1>v
    <3>2. CASE e.target # 0
      <4>1. e.target \in 1 .. n /\ k = e.target  BY <3>2, <2>2, <1>v
      <4>2. versions' = [off EXCEPT ![k] = [off[k] EXCEPT !.current = TRUE]]  BY <3>2, <2>1
      <4>3. [off[k] EXCEPT !.current = TRUE] \in Versions /\ off[k] \in Versions  BY <4>1, <2>4 DEF Versions
      <4>4. off \in [1 .. n -> Versions]  BY <2>4, <2>5
      <4>5. versions' \in [1 .. n -> Versions]  BY <4>1, <4>2, <4>3, <4>4
      <4>6. versions' \in Seq(Versions) /\ Len(versions') = n  BY <4>5, <1>v, SeqDef
      <4>7. versions'[k] = [off[k] EXCEPT !.current = TRUE]  BY <4>1, <4>2, <4>4
      <4>8. versions'[k].current = TRUE /\ versions'[k].number = off[k].number
            BY <4>3, <4>7 DEF Versions
      <4>9. \A i \in 1 .. n : i # k => versions'[i] = off[i]  BY <4>1, <4>2, <4>4
      <4> QED BY <3>2, <4>1, <4>5, <4>6, <4>8, <4>9, <2>4, <1>v
    <3> QED BY <3>1, <3>2
  <2>k. k \in Nat  BY <2>2, <1>v
  <2> HIDE DEF k
  <2>7. TemplateType'
    <3>1. \A s \in Req : edit'[s] \in Edits  BY <2>1, <1>t, RestingType DEF Edits
    <3>2. edit' \in [Req -> Edits]  BY <2>1, <3>1
    <3>3. overlaps' \in BOOLEAN /\ settled' \in BOOLEAN  BY <2>1, <2>2 DEF TemplateType
    <3> QED BY <1>t, <2>1, <2>6, <3>2, <3>3 DEF TemplateType
  <2>8. k \in Current'  BY <2>6 DEF Current
  <2>9. OneCurrentVersion'
    <3>1. ASSUME settled'  PROVE Cardinality(Current') = 1
      <4>1. e.fresh  BY <3>1, <2>1
      <4>2. ASSUME NEW i \in Current'  PROVE i = k
        <5>1. i \in DOMAIN versions' /\ versions'[i].current  BY DEF Current
        <5>2. CASE i \in 1 .. n /\ i # k
          <6>1. versions[i].current /\ i \notin e.off  BY <5>1, <5>2, <2>4, <2>6
          <6> QED BY <6>1, <5>2, <4>1, <2>2, <1>v DEF Current
        <5>3. i = k \/ i \in 1 .. n  BY <5>1, <2>6, <1>v DEF k
        <5> QED BY <5>2, <5>3
      <4>3. Current' = {k}  BY <4>2, <2>8
      <4> QED BY <4>3, FS_Singleton
    <3> QED BY <3>1, <2>8 DEF OneCurrentVersion
  <2>10. \A i \in 1 .. n : versions'[i].number = versions[i].number
    <3> SUFFICES ASSUME NEW i \in 1 .. n  PROVE versions'[i].number = versions[i].number
        OBVIOUS
    <3>1. CASE i = k
      <4>1. e.target # 0  BY <3>1, <1>v DEF k
      <4> QED BY <3>1, <4>1, <2>6
    <3>2. CASE i # k  BY <3>2, <2>4, <2>6
    <3> QED BY <3>1, <3>2
  <2>11. NumbersAreUnique'
    <3> SUFFICES ASSUME NEW i \in DOMAIN versions', NEW j \in DOMAIN versions',
                        versions'[i].number = versions'[j].number, i # j, ~overlaps'
                 PROVE  FALSE
        BY DEF NumbersAreUnique
    <3>1. ~overlaps /\ e.fresh  BY <2>1, <2>2
    <3>2. CASE i \in 1 .. n /\ j \in 1 .. n
          BY <3>1, <3>2, <2>10, <1>v DEF VersionsInv, NumbersAreUnique
    <3>3. CASE ~(i \in 1 .. n /\ j \in 1 .. n)
      <4>1. e.target = 0 /\ k = n + 1 /\ (i = k \/ j = k) /\ (i \in 1 .. n \/ j \in 1 .. n)
            BY <3>3, <2>6, <1>v DEF k
      <4>2. \A l \in 1 .. n : versions'[l].number < e.number /\ versions'[l].number \in Nat
            BY <4>1, <3>1, <2>2, <2>3, <2>10, <1>v DEF Versions
      <4>3. versions'[k].number = e.number  BY <4>1, <2>6
      <4> QED BY <4>1, <4>2, <4>3, <2>2
    <3> QED BY <3>2, <3>3
  <2>12. Numbered'
    <3>1. PICK m \in DOMAIN versions : \A i \in DOMAIN versions : versions[i].number <= versions[m].number
          BY <1>2 DEF VersionsInv, Numbered
    <3>2. \A i \in 1 .. n : versions'[i].number \in Nat /\ versions'[i].number <= versions'[m].number
          BY <3>1, <2>10, <2>3, <1>v DEF Versions
    <3>3. m \in DOMAIN versions' /\ m \in 1 .. n  BY <3>1, <2>6, <1>v
    <3>4. CASE e.target # 0
          BY <3>2, <3>3, <3>4, <2>6 DEF Numbered
    <3>5. CASE e.target = 0
      <4>1. k = n + 1 /\ versions'[k].number = e.number /\ e.number \in Nat /\ DOMAIN versions' = 1 .. n + 1
            BY <3>5, <2>2, <2>6 DEF k
      <4>2. CASE e.number <= versions'[m].number  BY <4>1, <4>2, <3>2, <3>3, <1>v DEF Numbered
      <4>3. CASE ~(e.number <= versions'[m].number)
        <5>1. \A i \in 1 .. n : versions'[i].number <= e.number  BY <4>1, <4>3, <3>2, <3>3
        <5>2. \A i \in 1 .. n + 1 : i \in 1 .. n \/ i = n + 1  BY <1>v
        <5>3. \A i \in DOMAIN versions' : versions'[i].number <= versions'[k].number
              BY <5>1, <5>2, <4>1
        <5> QED BY <5>3, <2>6 DEF Numbered
      <4> QED BY <4>2, <4>3
    <3> QED BY <3>4, <3>5
  <2>13. ASSUME NEW s \in Req  PROVE EditInv(edit[s])'
    <3>1. CASE s = r \/ In(s, "none")
      <4>1. edit'[s].step = "none"  BY <3>1, <2>1 DEF Resting
      <4> QED BY <4>1 DEF EditInv
    <3>2. CASE ~(s = r \/ In(s, "none"))
      <4>1. edit'[s] = [edit[s] EXCEPT !.fresh = FALSE] /\ edit[s] \in Edits  BY <3>2, <2>1, <1>t
      <4>2. /\ edit'[s].step = edit[s].step /\ edit'[s].number = edit[s].number
            /\ edit'[s].target = edit[s].target /\ ~edit'[s].fresh
            BY <4>1 DEF Edits
      <4>3. EditInv(edit[s])  BY DEF VersionsInv
      <4>4. Len(versions') >= n /\ Len(versions') \in Nat  BY <2>6, <1>v
      <4>5. Exists' = Exists  BY <2>1 DEF Exists
      <4> QED BY <1>2, <2>1, <4>2, <4>3, <4>4, <4>5, <1>v DEF EditInv
    <3> QED BY <3>1, <3>2
  <2> QED BY <2>7, <2>9, <2>11, <2>12, <2>13 DEF VersionsInv
<1> QED BY <1>1, <1>2

\* Every step keeps both invariants.
LEMMA VersionsStep ==
  ASSUME TemplateType, VersionsInv, [Next]_vars
  PROVE  TemplateType' /\ VersionsInv'
<1>1. CASE UNCHANGED templateVars
  <2>1. Current' = Current  BY <1>1 DEF templateVars, Current
  <2>2. TemplateType'  BY <1>1 DEF templateVars, TemplateType
  <2> QED BY <1>1, <2>1, <2>2 DEF templateVars, VersionsInv, OneCurrentVersion, NumbersAreUnique, Numbered, Exists, EditInv
<1>2. CASE TemplateNext
  <2>1. PICK r \in Req :
          \/ Create(r) \/ CommitCreate(r) \/ Remove(r) \/ CommitRemove(r) \/ Update(r) \/ Rollback(r)
          \/ FindCurrent(r) \/ Deactivate(r) \/ Activate(r) \/ Refuse(r)
        BY <1>2 DEF TemplateNext
  <2>2. CASE Refuse(r)  BY <2>2, RestingType, QuietStep DEF Refuse
  <2> QED BY <2>1, <2>2, BeginStep, CreateStep, RemoveStep, SwitchOffStep, ActivateStep
<1> QED BY <1>1, <1>2 DEF Next, vars

\* No template, and nobody edits it.
LEMMA VersionsInit ==
  ASSUME Init
  PROVE  TemplateType /\ VersionsInv
<1>1. template = "none" /\ versions = <<>> /\ edit = [r \in Req |-> Resting] /\ settled = TRUE /\ overlaps = FALSE
      BY DEF Init
<1>t. versions \in Seq(Versions) /\ edit \in [Req -> Edits]  BY <1>1, RestingType
<1>2. TemplateType  BY <1>1, <1>t DEF TemplateType
<1>3. ~Exists /\ DOMAIN versions = {}  BY <1>1 DEF Exists
<1>4. OneCurrentVersion /\ NumbersAreUnique  BY <1>3 DEF OneCurrentVersion, NumbersAreUnique
<1> QED BY <1>1, <1>2, <1>3, <1>4, RestingType DEF VersionsInv

\* Every state has its types.
THEOREM ConsoleTypeCorrect == Spec => []TypeOK
<1>1. Init => TemplateType /\ VersionsInv  BY VersionsInit
<1>2. TemplateType /\ VersionsInv /\ [Next]_vars => (TemplateType /\ VersionsInv)'  BY VersionsStep
<1>3. SessionTypeOK /\ TemplateType => TypeOK  BY DEF TemplateType, TypeOK, Versions, Edits
<1> QED BY <1>1, <1>2, <1>3, SessionTypeCorrect, PTL DEF Spec

\* TemplateService leaves a template with a version to deliver whatever edits
\* overlap, and with one alone after an edit that overlapped with none.
THEOREM OneVersionCurrent == Spec => []OneCurrentVersion
<1>1. Init => TemplateType /\ VersionsInv  BY VersionsInit
<1>2. TemplateType /\ VersionsInv /\ [Next]_vars => (TemplateType /\ VersionsInv)'  BY VersionsStep
<1>3. VersionsInv => OneCurrentVersion  BY DEF VersionsInv
<1> QED BY <1>1, <1>2, <1>3, PTL DEF Spec

\* TemplateService gives each version a number of its own unless edits overlap.
THEOREM NumbersUnique == Spec => []NumbersAreUnique
<1>1. Init => TemplateType /\ VersionsInv  BY VersionsInit
<1>2. TemplateType /\ VersionsInv /\ [Next]_vars => (TemplateType /\ VersionsInv)'  BY VersionsStep
<1>3. VersionsInv => NumbersAreUnique  BY DEF VersionsInv
<1> QED BY <1>1, <1>2, <1>3, PTL DEF Spec
=============================================================================
