----------------------------- MODULE Admission -----------------------------
(***************************************************************************)
(* What a creation goes through before its challenge exists: the guard,    *)
(* PolicyService.validateQuota, the cooldown and the idempotency key of    *)
(* createChallenge.  Every check is a query of its own and the insertion   *)
(* comes last, so creations that overlap do not see each other.            *)
(***************************************************************************)
EXTENDS RateLimit

CONSTANTS
    FloodLimit, FloodPeriod,    \* challenges per destination (5 in 15 minutes)
    HourlyLimit, Hour,          \* challenges per workspace and hour
    DailyLimit, Day,            \* and per day
    Cooldown,                   \* between two creations for a destination
    Outcomes                    \* what may become of an announcement of a soft limit

ASSUME AdmissionAssumption ==
    /\ {FloodLimit, HourlyLimit, DailyLimit} \subseteq Nat
    /\ {FloodPeriod, Hour, Day, Cooldown} \subseteq Nat
    /\ Outcomes \subseteq {"told", "lost"}

VARIABLES
    row,      \* row[r]: the challenge that request r inserted
    usage,    \* usage_counters of the project and month
    warned    \* how the last announcement of each soft limit ended, if there was one

guard == <<now, counter, passed, peak>>
quota == <<row, usage, warned>>
vars  == <<now, req, counter, passed, peak, row, usage, warned>>

\* "closed": VERIFIED, FAILED or EXPIRED; revived: active once more after having
\* been closed or cancelled.
NoRow == [status |-> "none", revived |-> FALSE, at |-> 0]
Rows  == [status : {"active", "closed", "cancelled"}, revived : BOOLEAN, at : Nat] \cup {NoRow}

Inserted == {r \in Req : row[r] # NoRow}
Since(rs, t) == {r \in rs : row[r].at >= t}
NotCancelled == {r \in Inserted : row[r].status # "cancelled"}
To(dest) == {r \in Inserted : req[r].dest = dest}
Under(key) == {r \in Inserted : req[r].key = key}

-----------------------------------------------------------------------------
(* validateQuota.  Its clock is read once, before the first count.         *)

FloodCountMutant(r) == Cardinality(Since(To(req[r].dest) \cap NotCancelled, now - FloodPeriod))
FloodCount(r) == Cardinality(Since(To(req[r].dest), now - FloodPeriod))

CheckFloodMutant(r) ==
    /\ At(r, "flood")
    /\ \E step \in {"refused", IF FloodCount(r) >= FloodLimit THEN "refused" ELSE "hourly"} :
          req' = [req EXCEPT ![r] = [req[r] EXCEPT !.step = step, !.at = now - FloodPeriod]]
    /\ UNCHANGED <<guard, quota>>

\* Reads the project; the domain of a redirection must be allowed.  Then counts
\* the destination's challenges, whatever their status.
CheckFlood(r) ==
    /\ At(r, "flood")
    /\ \E step \in {"refused", IF FloodCount(r) >= FloodLimit THEN "refused" ELSE "hourly"} :
          req' = [req EXCEPT ![r] = [req[r] EXCEPT !.step = step, !.at = now]]
    /\ UNCHANGED <<guard, quota>>

DailyCountMutant(r) == Cardinality(Since({q \in Inserted : row[q].status = "active"}, req[r].at - Day))
HourlyCount(r) == Cardinality(Since(NotCancelled, req[r].at - Hour))
DailyCount(r)  == Cardinality(Since(NotCancelled, req[r].at - Day))

\* Math.floor(limit * 0.8)
Soft(limit) == (limit * 4) \div 5

SoftReachedMutant(count, limit) == count = Soft(limit) + 1
SoftReached(count, limit) == count = Soft(limit)

\* triggerEvent swallows its errors: the event may be lost, and nobody knows.
Announce(span, reached) ==
    IF reached
    THEN \E outcome \in Outcomes : warned' = [warned EXCEPT ![span] = outcome]
    ELSE UNCHANGED warned

CheckHourly(r) ==
    /\ At(r, "hourly")
    /\ Announce("hourly", SoftReached(HourlyCount(r), HourlyLimit))
    /\ Goto(r, IF HourlyCount(r) >= HourlyLimit THEN "refused" ELSE "daily")
    /\ UNCHANGED <<guard, row, usage>>

\* Then the connector's limits, positive numbers: the attempts with its id are
\* counted, but attempts by mail are stored without one, so none is ever found.
CheckDaily(r) ==
    /\ At(r, "daily")
    /\ Announce("daily", SoftReached(DailyCount(r), DailyLimit))
    /\ Goto(r, IF DailyCount(r) >= DailyLimit THEN "refused" ELSE "usage")
    /\ UNCHANGED <<guard, row, usage>>

\* Before the cooldown and the key are looked at: who is refused or answered by
\* those is counted all the same.
CountUsage(r) ==
    /\ At(r, "usage")
    /\ usage' = usage + 1
    /\ Goto(r, "cooldown")
    /\ UNCHANGED <<guard, row, warned>>

-----------------------------------------------------------------------------
(* createChallenge.                                                        *)

CoolingMutant(r) == \E q \in To(req[r].dest) : row[q].status = "active" /\ row[q].at > now - Cooldown
Cooling(r) == \E q \in To(req[r].dest) : row[q].status = "active" /\ row[q].at >= now - Cooldown

CheckCooldown(r) ==
    /\ At(r, "cooldown")
    /\ Goto(r, IF Cooling(r) THEN "cooling" ELSE IF req[r].key = NoKey THEN "insert" ELSE "lookup")
    /\ UNCHANGED <<guard, quota>>

LookupMutant(r) ==
    /\ At(r, "lookup")
    /\ Goto(r, IF Under(req[r].key) \cap To(req[r].dest) # {} THEN "answered" ELSE "insert")
    /\ UNCHANGED <<guard, quota>>

\* A challenge with the key is the answer, whatever its destination or status.
Lookup(r) ==
    /\ At(r, "lookup")
    /\ Goto(r, IF Under(req[r].key) # {} THEN "answered" ELSE "insert")
    /\ UNCHANGED <<guard, quota>>

\* The index on project and key is unique.
Insert(r) ==
    /\ At(r, "insert")
    /\ IF req[r].key # NoKey /\ Under(req[r].key) # {}
       THEN Goto(r, "conflict") /\ UNCHANGED row
       ELSE Goto(r, "admitted") /\ row' = [row EXCEPT ![r] = [status |-> "active", revived |-> FALSE, at |-> now]]
    /\ UNCHANGED <<guard, usage, warned>>

\* A call throws or the process dies.
Abort(r) ==
    /\ req[r].step \in Handling
    /\ Goto(r, "aborted")
    /\ UNCHANGED <<guard, quota>>

-----------------------------------------------------------------------------
\* What the rest of the API does with a challenge: verify, cancel, resend.
\* Resending revives what was closed or cancelled.
ChangeStatus(r) ==
    /\ row[r] # NoRow
    /\ \/ /\ row[r].status = "active"
          /\ \E s \in {"closed", "cancelled"} : row' = [row EXCEPT ![r].status = s]
       \/ /\ row[r].status # "active"
          /\ row' = [row EXCEPT ![r] = [row[r] EXCEPT !.status = "active", !.revived = TRUE]]
    /\ UNCHANGED <<guard, req, usage, warned>>

Init == /\ GuardInit
        /\ row = [r \in Req |-> NoRow]
        /\ usage = 0
        /\ warned = [hourly |-> "none", daily |-> "none"]

Handle(r) ==
    \/ CheckFlood(r) \/ CheckHourly(r) \/ CheckDaily(r) \/ CountUsage(r)
    \/ CheckCooldown(r) \/ Lookup(r) \/ Insert(r)

Next == \/ GuardNext /\ UNCHANGED quota
        \/ \E r \in Req : Handle(r) \/ Abort(r) \/ ChangeStatus(r)

Spec == Init /\ [][Next]_vars

-----------------------------------------------------------------------------
TypeOK ==
    /\ GuardTypeOK
    /\ row \in [Req -> Rows]
    /\ usage \in Nat
    /\ warned \in [{"hourly", "daily"} -> {"none", "told", "lost"}]

NeverCancelled == {r \in NotCancelled : ~row[r].revived}

\* The limits hold up to the creations that overlapped: those counted together
\* with the last one may all have missed each other, and no more than those.
\* Challenges that a resend revived are left out, because one that was cancelled
\* when it was counted escapes its limit; revived after it was closed, it is left
\* out as well.
QuotaWithinOverlap ==
    /\ Cardinality(Since(NeverCancelled, now - Hour)) <= HourlyLimit + peak - 1
    /\ Cardinality(Since(NeverCancelled, now - Day)) <= DailyLimit + peak - 1

\* No destination is sent more challenges within the flood's period than its
\* limit and those that overlapped, cancelled and revived ones included.
FloodWithinOverlap ==
    \A d \in Dest : Cardinality(Since(To(d), now - FloodPeriod)) <= FloodLimit + peak - 1

\* Active challenges of one destination within the cooldown: at most those that
\* overlapped, and a single one when none did.
CooldownWithinOverlap ==
    \A d \in Dest :
        Cardinality({r \in Since(To(d), now - Cooldown) : row[r].status = "active" /\ ~row[r].revived}) <= peak

\* An idempotency key ends in an error of the database only when creations
\* overlapped; else its repetition is answered or refused.
ConflictNeedsOverlap == (\E r \in Req : At(r, "conflict")) => peak > 1

\* The soft limit is noticed on one exact count.  Without overlap and without a
\* cancelled challenge that count is not skipped: who passes the limit has called
\* triggerEvent, and only that can have lost the announcement.
SoftLimitIsNoticed ==
    peak = 1 /\ NeverCancelled = Inserted =>
        /\ Cardinality(Since(Inserted, now - Hour)) > Soft(HourlyLimit) => warned.hourly # "none"
        /\ Cardinality(Since(Inserted, now - Day)) > Soft(DailyLimit) => warned.daily # "none"

-----------------------------------------------------------------------------
\* What the proof of ConflictNeedsOverlap rests on: those past the guard are no
\* more than the most there ever were, and a request that is about to insert a
\* key which is taken by now was never alone.
OverlapInv ==
    /\ 1 <= peak
    /\ Cardinality({r \in Req : req[r].step \in Handling}) <= peak
    /\ \A r \in Req : At(r, "insert") /\ req[r].key # NoKey /\ Under(req[r].key) # {} => peak > 1
    /\ \A r \in Req : At(r, "conflict") => peak > 1

\* What the proofs of the limits rest on.  Beside the challenges a check would
\* count stand the requests it has let through and that have yet to insert
\* theirs; those were all at work when the last of them was counted.
AfterCooldown == {"lookup", "insert"}
AfterDaily    == {"usage", "cooldown"} \cup AfterCooldown
AfterHourly   == {"daily"} \cup AfterDaily
AfterFlood    == {"hourly"} \cup AfterHourly

Within(steps)     == {r \in Req : req[r].step \in steps}
Load(span, steps) == Since(NeverCancelled, now - span) \cup Within(steps)

\* Only who was admitted has a row, and no check looks back from the future.
AdmittedInv == \A r \in Req : (row[r] # NoRow => At(r, "admitted")) /\ req[r].at <= now

QuotaInv ==
    /\ AtMost(Load(Hour, AfterHourly), HourlyLimit + peak - 1)
    /\ AtMost(Load(Day, AfterDaily), DailyLimit + peak - 1)

\* The same of the flood, for the requests and rows of one destination.
FloodLoad(d) ==
    Since(To(d), now - FloodPeriod) \cup {r \in Within(AfterFlood) : req[r].dest = d}

FloodInv == \A d \in Dest : AtMost(FloodLoad(d), FloodLimit + peak - 1)

\* A request that passed the cooldown found no active challenge of its destination.
CoolingLoad(d) ==
    {r \in Since(To(d), now - Cooldown) : row[r].status = "active" /\ ~row[r].revived}
        \cup {r \in Within(AfterCooldown) : req[r].dest = d}

CooldownInv == \A d \in Dest : AtMost(CoolingLoad(d), peak)

\* Alone and with nothing cancelled: until the soft limit is noticed the load
\* has not passed it, nor has what a check that is under way will count.
SoftInv ==
    peak = 1 /\ NeverCancelled = Inserted =>
        /\ warned.hourly = "none" =>
             /\ AtMost(Load(Hour, AfterHourly), Soft(HourlyLimit))
             /\ \A r \in Within({"hourly"}) :
                   AtMost(Since(Inserted, req[r].at - Hour), Soft(HourlyLimit))
        /\ warned.daily = "none" =>
             /\ AtMost(Load(Day, AfterDaily), Soft(DailyLimit))
             /\ \A r \in Within({"hourly", "daily"}) :
                   AtMost(Since(Inserted, req[r].at - Day), Soft(DailyLimit))
=============================================================================
