-------------------------- MODULE TemplateVersions --------------------------
(***************************************************************************)
(* One template of the workspace and its versions, edited by the requests  *)
(* the guards of Session admit.  An edit reads, then writes in a           *)
(* transaction of two statements, at READ COMMITTED: what a statement      *)
(* changes is locked until the transaction ends, and seen after it.        *)
(***************************************************************************)
EXTENDS Session, Sequences, FiniteSetsExt

CONSTANTS
    MaxVersions,  \* bound: no update begins that could exceed it
    LastStart     \* bound: no edit starts later

ASSUME VersionsAssumption == MaxVersions \in Nat \ {0} /\ LastStart \in Nat

VARIABLES
    template,  \* "none", "exists" or "deleted"
    versions,  \* its versions, in the order they were inserted
    edit,      \* edit[r]: the handler r runs, once admitted
    settled,   \* whether the last edit read what the one before it wrote
    overlaps   \* whether some edit did not

templateVars == <<template, versions, edit, settled, overlaps>>
vars == <<sessionVars, templateVars>>

Exists  == template = "exists"
Current == {i \in DOMAIN versions : versions[i].current}

Editors  == {"OWNER", "ADMIN", "DEVELOPER"}
Removers == {"OWNER", "ADMIN"}

Resting == [step |-> "none", number |-> 0, target |-> 0, seen |-> {}, off |-> {}, fresh |-> TRUE]
In(r, s) == edit[r].step = s

Start(r, required, plan) ==
    /\ At(r, "admitted") /\ In(r, "none") /\ now <= LastStart
    /\ HasRole(required)
    /\ edit' = [edit EXCEPT ![r] = plan]
    /\ UNCHANGED <<sessionVars, template, versions, settled, overlaps>>

Finish(r) == At(r, "admitted") /\ Answer(r) /\ UNCHANGED <<now, registered, tokens>>

\* The rows other transactions have changed and not committed.
Locked(r) == UNION {edit[s].off : s \in Req \ {r}}

-----------------------------------------------------------------------------
(* create and remove.                                                      *)

Create(r) ==
    /\ template = "none"
    /\ Start(r, Editors, [Resting EXCEPT !.step = "create"])

\* Template and version 1 in one transaction; the name is unique.
CommitCreate(r) ==
    /\ In(r, "create")
    /\ IF template = "none"
       THEN /\ template' = "exists"
            /\ versions' = <<[number |-> 1, current |-> TRUE]>>
       ELSE UNCHANGED <<template, versions>>
    /\ edit' = [edit EXCEPT ![r] = Resting]
    /\ Finish(r)
    /\ UNCHANGED <<settled, overlaps>>

Remove(r) ==
    /\ Exists
    /\ Start(r, Removers, [Resting EXCEPT !.step = "delete"])

\* The versions go with the template, once no transaction holds one.
CommitRemove(r) ==
    /\ In(r, "delete")
    /\ Locked(r) = {}
    /\ template' = "deleted"
    /\ versions' = <<>>
    /\ edit' = [edit EXCEPT ![r] = Resting]
    /\ Finish(r)
    /\ UNCHANGED <<settled, overlaps>>

-----------------------------------------------------------------------------
(* update and rollback.                                                    *)

\* Variants for the properties' mutation checks carry the suffix Mutant: one
\* counts from the current version.
NextNumberMutant == Max({versions[i].number : i \in Current}) + 1
NextNumber       == Max({versions[i].number : i \in DOMAIN versions}) + 1

\* Without a current version the handler throws.
Update(r) ==
    /\ Exists
    /\ Current # {}
    /\ Len(versions) + Cardinality({s \in Req : edit[s].number # 0}) < MaxVersions
    /\ Start(r, Editors, [Resting EXCEPT !.step = "begin", !.number = NextNumber])

\* To a version that exists.
Rollback(r) ==
    /\ Exists
    /\ \E i \in DOMAIN versions :
          Start(r, Editors, [Resting EXCEPT !.step = "begin", !.target = i])

\* updateMany finds the current versions that are committed ...
FindCurrent(r) ==
    /\ In(r, "begin")
    /\ edit' = [edit EXCEPT ![r].step = "deactivate", ![r].seen = Current]
    /\ UNCHANGED <<sessionVars, template, versions, settled, overlaps>>

DeactivateMutant(r) ==
    /\ In(r, "deactivate")
    /\ edit[r].seen \cap Locked(r) = {}
    /\ edit' = [edit EXCEPT ![r].step = "activate", ![r].seen = {},
                            ![r].off = {i \in edit[r].seen \cap Current : i = Max(edit[r].seen)}]
    /\ UNCHANGED <<sessionVars, template, versions, settled, overlaps>>

\* ... waits for the transactions that hold one, and leaves out those that are
\* no longer current.
Deactivate(r) ==
    /\ In(r, "deactivate")
    /\ edit[r].seen \cap Locked(r) = {}
    /\ edit' = [edit EXCEPT ![r].step = "activate", ![r].seen = {},
                            ![r].off = edit[r].seen \cap Current]
    /\ UNCHANGED <<sessionVars, template, versions, settled, overlaps>>

\* The new version is inserted, or the target made current, and the transaction
\* commits; if the template was deleted it fails.
Activate(r) ==
    LET e == edit[r]
        off == [i \in DOMAIN versions |-> [versions[i] EXCEPT !.current = @ /\ i \notin e.off]]
    IN  /\ In(r, "activate")
        /\ e.target \notin Locked(r)
        /\ IF Exists
           THEN /\ versions' = IF e.target = 0
                               THEN Append(off, [number |-> e.number, current |-> TRUE])
                               ELSE [off EXCEPT ![e.target].current = TRUE]
                /\ settled' = e.fresh
                /\ overlaps' = (overlaps \/ ~e.fresh)
                /\ edit' = [s \in Req |-> IF s = r \/ In(s, "none") THEN Resting
                                          ELSE [edit[s] EXCEPT !.fresh = FALSE]]
           ELSE /\ edit' = [edit EXCEPT ![r] = Resting]
                /\ UNCHANGED <<versions, settled, overlaps>>
        /\ Finish(r)
        /\ UNCHANGED template

\* The handler refuses or fails: a transaction is rolled back, and an edit of
\* which nothing was written ends.
Refuse(r) ==
    /\ edit' = [edit EXCEPT ![r] = Resting]
    /\ Finish(r)
    /\ UNCHANGED <<template, versions, settled, overlaps>>

-----------------------------------------------------------------------------
Init ==
    /\ SessionInit
    /\ template = "none"
    /\ versions = <<>>
    /\ edit = [r \in Req |-> Resting]
    /\ settled = TRUE
    /\ overlaps = FALSE

TemplateNext ==
    \E r \in Req :
        \/ Create(r) \/ CommitCreate(r) \/ Remove(r) \/ CommitRemove(r) \/ Update(r) \/ Rollback(r)
        \/ FindCurrent(r) \/ Deactivate(r) \/ Activate(r) \/ Refuse(r)

\* A bound: the clock stands while an edit runs, since edits do not read it.
ClockWaits == now' # now => \A r \in Req : In(r, "none")

Next ==
    \/ SessionNext /\ ClockWaits /\ UNCHANGED templateVars
    \/ TemplateNext

Spec == Init /\ [][Next]_vars

-----------------------------------------------------------------------------
TypeOK ==
    /\ SessionTypeOK
    /\ template \in {"none", "exists", "deleted"}
    /\ versions \in Seq([number : Nat \ {0}, current : BOOLEAN])
    /\ edit \in [Req -> [step : {"none", "create", "delete", "begin", "deactivate", "activate"},
                         number : Nat, target : Nat, fresh : BOOLEAN,
                         seen : SUBSET Nat, off : SUBSET Nat]]
    /\ settled \in BOOLEAN
    /\ overlaps \in BOOLEAN

\* A template always has a version to deliver, whatever edits overlap, and has
\* exactly one after an edit that overlapped with none: it repairs what they left.
OneCurrentVersion ==
    Exists => Current # {} /\ (settled => Cardinality(Current) = 1)

\* A version number names one version, unless edits of the template overlapped.
NumbersAreUnique ==
    \A i, j \in DOMAIN versions :
        versions[i].number = versions[j].number => i = j \/ overlaps

-----------------------------------------------------------------------------
(* What the proofs of these rest on.                                       *)

\* Some version has the highest number: there is a next one.
Numbered == \E k \in DOMAIN versions : \A i \in DOMAIN versions : versions[i].number <= versions[k].number

\* What an edit found has not gone, and if nobody wrote since it began it still
\* is all there is: its number is new, and it saw, then switched off, every
\* current version.
EditInv(e) ==
    e.step \in {"begin", "deactivate", "activate"} =>
        /\ template # "none"
        /\ e.target = 0 => e.number # 0
        /\ Exists =>
             /\ e.target \in 0 .. Len(versions)
             /\ e.fresh =>
                  /\ e.target = 0 => \A i \in DOMAIN versions : versions[i].number < e.number
                  /\ e.step = "deactivate" => Current \subseteq e.seen
                  /\ e.step = "activate" => Current \subseteq e.off

VersionsInv ==
    /\ OneCurrentVersion
    /\ NumbersAreUnique
    /\ Exists => Numbered
    /\ \A r \in Req : EditInv(edit[r])
=============================================================================
