------------------------------ MODULE Session ------------------------------
(***************************************************************************)
(* One dashboard user's sessions: refresh tokens, of which the database    *)
(* keeps a row each, and access tokens, of which it keeps nothing.  A      *)
(* signed token says whose it is and in which second it was issued, so the *)
(* second names it: the tokens of one second are one token.                *)
(***************************************************************************)
EXTENDS Integers, FiniteSets

CONSTANTS
    Req,         \* slots for requests under way
    None,        \* no token
    MyRole,      \* the user's role in the workspace
    AccessTTL,   \* how long an access token is valid
    RefreshTTL,  \* how long a refresh token is
    MaxTime      \* bound on the clock

Token == 0 .. MaxTime

Weight == [VIEWER |-> 1, DEVELOPER |-> 2, ADMIN |-> 3, OWNER |-> 4]

ASSUME SessionAssumption ==
    /\ AccessTTL \in Nat \ {0} /\ RefreshTTL \in Nat \ {0} /\ MaxTime \in Nat
    /\ MyRole \in DOMAIN Weight
    /\ None \notin Token

VARIABLES
    now,         \* the clock, in seconds
    registered,  \* whether the user has an account
    rows,        \* rows[n]: the row of the refresh token of second n
    call,        \* call[r]: a request
    pairs,       \* pairs[n]: how many pairs token n bought, None if in a race
    ended,       \* whether something took a session away since the last row
    idleSince    \* since when no row is live, or None

tokens      == <<rows, pairs, ended, idleSince>>
sessionVars == <<now, registered, rows, call, pairs, ended, idleSince>>

Live      == {n \in Token : rows[n] = "live"}
Usable(n) == rows[n] = "live" /\ now < n + RefreshTTL

\* The pairs an answer carried to the browser: it may present them ever after.
Given == {n \in Token : rows[n] # "none"}
HasRow(n) == rows[n] \in {"live", "revoked"}

SetRows(new) ==
    /\ rows' = new
    /\ idleSince' = IF \E n \in Token : new[n] = "live" THEN None
                    ELSE IF Live = {} THEN idleSince ELSE now

Idle == [step |-> "idle", old |-> None, new |-> None]
At(r, s)         == call[r].step = s
Answer(r)        == call' = [call EXCEPT ![r] = Idle]
Goto(r, s)       == call' = [call EXCEPT ![r].step = s]
Begin(r, s, old) == At(r, "idle") /\ call' = [call EXCEPT ![r] = [Idle EXCEPT !.step = s, !.old = old]]

-----------------------------------------------------------------------------
(* register and login.  Variants for the properties' mutation checks carry *)
(* the suffix Mutant.                                                      *)

\* The address is free, and the password is hashed, which takes a while.
Register(r) ==
    /\ ~registered
    /\ Begin(r, "createUser", None)
    /\ UNCHANGED <<now, registered, tokens>>

\* Fails when the address was taken meanwhile.
CreateUser(r) ==
    /\ At(r, "createUser")
    /\ registered' = TRUE
    /\ Answer(r)
    /\ UNCHANGED <<now, tokens>>

\* The password is the user's: another is refused, and nothing changes.
Login(r) ==
    /\ registered
    /\ Begin(r, "sign", None)
    /\ UNCHANGED <<now, registered, tokens>>

SignMutant(r) ==
    /\ At(r, "sign")
    /\ call' = [call EXCEPT ![r].step = "insert", ![r].new = now + RefreshTTL]
    /\ UNCHANGED <<now, registered, tokens>>

\* generateTokens.
Sign(r) ==
    /\ At(r, "sign")
    /\ call' = [call EXCEPT ![r].step = "insert", ![r].new = now]
    /\ UNCHANGED <<now, registered, tokens>>

\* The row and the answer.  tokenHash is unique: for the second token of a second
\* the insertion fails, and the request with it, whatever it revoked before.
Insert(r) ==
    LET n == call[r].new
    IN  /\ At(r, "insert")
        /\ Answer(r)
        /\ IF rows[n] = "none"
           THEN /\ SetRows([rows EXCEPT ![n] = "live"])
                /\ pairs' = [m \in Token |-> IF m = call[r].old /\ pairs[m] # None
                                             THEN pairs[m] + 1 ELSE pairs[m]]
                /\ ended' = FALSE
           ELSE /\ ended' = (ended \/ ~Usable(n))
                /\ UNCHANGED <<rows, pairs, idleSince>>
        /\ UNCHANGED <<now, registered>>

-----------------------------------------------------------------------------
(* refresh and logout.                                                     *)

\* The token verifies, and its row is there, neither revoked nor expired.
Refresh(r, n) ==
    /\ n \in Given
    /\ Usable(n)
    /\ Begin(r, "revoke", n)
    /\ UNCHANGED <<now, registered, tokens>>

\* Leaves the old token usable.
RevokeMutant(r) ==
    /\ At(r, "revoke")
    /\ Goto(r, "sign")
    /\ UNCHANGED <<now, registered, tokens>>

\* update by id, whatever the row says by now; it throws if the row was purged.
Revoke(r) ==
    LET n == call[r].old
    IN  /\ At(r, "revoke")
        /\ IF HasRow(n)
           THEN /\ SetRows([rows EXCEPT ![n] = "revoked"])
                /\ pairs' = IF rows[n] = "revoked" THEN [pairs EXCEPT ![n] = None] ELSE pairs
                /\ Goto(r, "sign")
           ELSE Answer(r) /\ UNCHANGED <<rows, pairs, idleSince>>
        /\ UNCHANGED <<now, registered, ended>>

\* One updateMany by hash.
Logout(n) ==
    /\ n \in Given
    /\ HasRow(n)
    /\ SetRows([rows EXCEPT ![n] = "revoked"])
    /\ ended' = TRUE
    /\ UNCHANGED <<now, registered, call, pairs>>

PurgeTokensMutant ==
    LET gone == {n \in Token : HasRow(n) /\ n < now}
    IN  /\ gone # {}
        /\ SetRows([n \in Token |-> IF n \in gone THEN "purged" ELSE rows[n]])
        /\ UNCHANGED <<now, registered, call, pairs, ended>>

\* CleanupProcessor: every row at or past its expiry.
PurgeTokens ==
    LET gone == {n \in Token : HasRow(n) /\ n + RefreshTTL <= now}
    IN  /\ gone # {}
        /\ SetRows([n \in Token |-> IF n \in gone THEN "purged" ELSE rows[n]])
        /\ UNCHANGED <<now, registered, call, pairs, ended>>

-----------------------------------------------------------------------------
(* The guards of the dashboard's other handlers.                           *)

\* The hierarchy: a role may do what some required role may.
HasRole(required) == \E role \in required : Weight[MyRole] >= Weight[role]

AdmitMutant(r, n) ==
    /\ n \in Given
    /\ now < n + RefreshTTL
    /\ Begin(r, "admitted", None)
    /\ UNCHANGED <<now, registered, tokens>>

\* JwtAuthGuard: the token verifies and its user exists; no session is looked
\* at.  The handler runs later.
Admit(r, n) ==
    /\ n \in Given
    /\ now < n + AccessTTL
    /\ Begin(r, "admitted", None)
    /\ UNCHANGED <<now, registered, tokens>>

\* A request fails where it is: its process dies, or the database throws.
Fail(r) ==
    /\ call[r].step \notin {"idle", "admitted"}
    /\ Answer(r)
    /\ ended' = (ended \/ call[r].step \in {"sign", "insert"})
    /\ UNCHANGED <<now, registered, rows, pairs, idleSince>>

\* A bound: no request is so slow that the token it signed expires before its
\* row is inserted.
Tick ==
    /\ now < MaxTime
    /\ \A r \in Req : At(r, "insert") => now + 1 < call[r].new + RefreshTTL
    /\ now' = now + 1
    /\ ended' = (ended \/ \E n \in Live : now + 1 = n + RefreshTTL)
    /\ UNCHANGED <<registered, rows, call, pairs, idleSince>>

-----------------------------------------------------------------------------
SessionInit ==
    /\ now = 0
    /\ registered = FALSE
    /\ rows = [n \in Token |-> "none"]
    /\ call = [r \in Req |-> Idle]
    /\ pairs = [n \in Token |-> 0]
    /\ ended = FALSE
    /\ idleSince = 0

SessionNext ==
    \/ \E r \in Req : Register(r) \/ CreateUser(r) \/ Login(r) \/ Sign(r) \/ Insert(r) \/ Revoke(r) \/ Fail(r)
    \/ \E r \in Req, n \in Token : Refresh(r, n) \/ Admit(r, n)
    \/ \E n \in Token : Logout(n)
    \/ PurgeTokens
    \/ Tick

-----------------------------------------------------------------------------
SessionTypeOK ==
    /\ now \in Token
    /\ registered \in BOOLEAN
    /\ rows \in [Token -> {"none", "live", "revoked", "purged"}]
    /\ call \in [Req -> [step : {"idle", "createUser", "sign", "insert", "revoke", "admitted"},
                         old : Token \cup {None}, new : Token \cup {None}]]
    /\ pairs \in [Token -> Nat \cup {None}]
    /\ ended \in BOOLEAN
    /\ idleSince \in Token \cup {None}

\* A refresh token buys one pair of tokens, unless refreshes of it, or a logout
\* and a refresh, overlapped.
RefreshIsSingleUse ==
    \A n \in Token : pairs[n] = None \/ pairs[n] <= 1

\* Who logged in keeps a refresh token that works, or a request that will answer
\* with one, until a logout, the expiry, a failure between the revocation and the
\* new row, or a token of the same second takes it away.
SessionIsKept ==
    Given # {} /\ ~ended =>
        \/ \E n \in Given : Usable(n)
        \/ \E r \in Req : call[r].step \in {"sign", "insert"}

\* After the last refresh token is revoked the dashboard's handlers are closed to
\* the user within the life of an access token, though no guard looks at it.
AccessEndsWithSession ==
    [][\A r \in Req : At(r, "admitted")' /\ ~At(r, "admitted") =>
          idleSince = None \/ now < idleSince + AccessTTL]_sessionVars

-----------------------------------------------------------------------------
(* The inductive invariants behind these.                                  *)

InHand(r)   == call[r].step \in {"sign", "insert"}
Holds(r, n) == InHand(r) /\ call[r].old = n

\* A token that was never revoked has bought nothing, and one request at most
\* holds a token that a single request revoked.
SingleUseInv ==
    /\ RefreshIsSingleUse
    /\ \A n \in Token : rows[n] \in {"none", "live"} => pairs[n] \in {0, None}
    /\ \A r \in Req : At(r, "revoke") => call[r].old \in Token
    /\ \A r \in Req, n \in Token :
          Holds(r, n) => rows[n] \in {"revoked", "purged"} /\ pairs[n] \in {0, None}
    /\ \A r, s \in Req, n \in Token : Holds(r, n) /\ Holds(s, n) => r = s \/ pairs[n] = None

\* What a request is about to insert has not expired.
KeptInv ==
    /\ SessionIsKept
    /\ \A r \in Req : At(r, "insert") => call[r].new \in Token /\ now < call[r].new + RefreshTTL

\* No token was given out after the last row was revoked.
AccessInv ==
    /\ idleSince = None <=> Live # {}
    /\ \A n \in Given : n <= now /\ (idleSince # None => n <= idleSince)
    /\ \A r \in Req : At(r, "insert") => call[r].new \in Token /\ call[r].new <= now

=============================================================================
