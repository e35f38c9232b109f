--------------------------- MODULE WhatsappProofs ---------------------------
(* What the lock and the registry promise, for any number of processes. *)
EXTENDS WhatsappSession, FiniteSetTheorems, TLAPS

USE SessionAssumption

-----------------------------------------------------------------------------
(* Helpers.                                                                *)

ReqType == [step : Steps, op : Ops, proc : Proc \cup {None}, entry : Client \cup {None}]

\* What a request's step forward changes.
LEMMA GotoEffect ==
  ASSUME req \in [Req -> ReqType], NEW r \in Req, NEW s \in Steps, Goto(r, s)
  PROVE  /\ req' \in [Req -> ReqType]
         /\ req'[r].step = s
         /\ \A q \in Req : q # r => req'[q] = req[q]
         /\ s \notin Ended => req'[r].proc = req[r].proc /\ req'[r].entry = req[r].entry
<1>1. AtRest(s) \in ReqType /\ AtRest(s).step = s  BY DEF AtRest, ReqType, Ops
<1>2. [req[r] EXCEPT !.step = s] \in ReqType  BY DEF ReqType
<1>3. [req[r] EXCEPT !.step = s].step = s /\ [req[r] EXCEPT !.step = s].proc = req[r].proc
      /\ [req[r] EXCEPT !.step = s].entry = req[r].entry
      BY DEF ReqType
<1> QED BY <1>1, <1>2, <1>3 DEF Goto

\* What the beginning of a call changes.
LEMMA BeginsEffect ==
  ASSUME TypeOK, NEW r \in Req, NEW p \in Proc, NEW op \in Ops, NEW s \in Steps, Begins(r, p, op, s)
  PROVE  /\ req' \in [Req -> ReqType]
         /\ req[r].step = "idle" /\ req'[r].step = s /\ req'[r].proc = p /\ req'[r].entry = registry[p]
         /\ \A q \in Req : q # r => req'[q] = req[q]
  BY DEF Begins, TypeOK, ReqType, At

\* The steps of Next, one by one.
Step ==
    \/ \E r \in Req, p \in Proc : Create(r, p) \/ Restart(r, p) \/ Logout(r, p) \/ Delete(r, p)
    \/ \E r \in Req, p \in Proc : Boot(r, p)
    \/ \E r \in Req : Acquire(r)
    \/ \E r \in Req : ReadRow(r)
    \/ \E r \in Req, c \in Client : Register(r, c)
    \/ \E r \in Req : Release(r)
    \/ \E r \in Req : LogoutClient(r)
    \/ \E r \in Req : Destroy(r)
    \/ \E r \in Req : UnregisterEntry(r)
    \/ \E r \in Req : WriteStatus(r) \/ DeleteRow(r)
    \/ \E c \in Client : Started(c)
    \/ \E c \in Client : InitFails(c)
    \/ \E c \in Client : Report(c)
    \/ \E c \in Client : Disconnects(c)
    \/ \E c \in Client, t \in Tasks : RunTask(c, t)
    \/ \E p \in Proc : Crash(p)
    \/ Lapse
    \/ UNCHANGED vars

\* Next takes no other step.
LEMMA StepOfNext ==
  ASSUME [Next]_vars
  PROVE  Step
  BY DEF Next, Continue, Step

-----------------------------------------------------------------------------
(* Types, and that requests under way and clients with work have a process. *)

ClientType == [proc : Proc \cup {None}, phase : {"unused", "starting", "started", "closed"}]

\* TypeOK, in the shape the proofs use.
Typed ==
    /\ row \in Status \cup {"none", "deleted"} /\ lock \in Req \cup {None} /\ up \subseteq Proc
    /\ registry \in [Proc -> Client \cup {None}] /\ client \in [Client -> ClientType]
    /\ tasks \in [Client -> SUBSET Tasks] /\ req \in [Req -> ReqType]
    /\ crashes \in 0 .. MaxCrashes /\ lapsed \subseteq Req /\ strays \subseteq Client

\* It is the type invariant.
LEMMA TypedIsTypeOK == (TypeOK <=> Typed) /\ (TypeOK' <=> Typed')
  BY DEF TypeOK, Typed, ReqType, ClientType

\* The initial state has its types.
LEMMA TypeInit ==
  ASSUME Init
  PROVE  Typed /\ Sited
<1>1. AtRest("idle") \in ReqType /\ AtRest("idle").step = "idle"
      BY DEF AtRest, ReqType, Steps, Ended, Ops
<1>2. req \in [Req -> ReqType]  BY <1>1 DEF Init
<1>3. client \in [Client -> ClientType]  BY DEF Init, ClientType
<1>4. tasks \in [Client -> SUBSET Tasks]  BY DEF Init
<1>5. Sited  BY <1>1 DEF Init, Sited, Live
<1> QED BY <1>2, <1>3, <1>4, <1>5 DEF Init, Typed

\* Every step keeps the types.
LEMMA TypeStep ==
  ASSUME Typed, Sited, Step
  PROVE  Typed'
<1>t. /\ row \in Status \cup {"none", "deleted"} /\ lock \in Req \cup {None} /\ up \subseteq Proc
      /\ registry \in [Proc -> Client \cup {None}] /\ client \in [Client -> ClientType]
      /\ tasks \in [Client -> SUBSET Tasks] /\ req \in [Req -> ReqType]
      /\ crashes \in 0 .. MaxCrashes /\ lapsed \subseteq Req /\ strays \subseteq Client
      BY DEF Typed
<1>s. /\ "init" \in Steps /\ "readRow" \in Steps /\ "register" \in Steps /\ "release" \in Steps
      /\ "logout" \in Steps /\ "destroy" \in Steps /\ "unregister" \in Steps /\ "write" \in Steps
      /\ "deleteRow" \in Steps /\ "done" \in Steps /\ "lost" \in Steps /\ "threw" \in Steps
      BY DEF Steps, Ended
<1>x. \A st \in {"READY", "AUTHENTICATED", "QR_READY", "PENDING_QR", "DISCONNECTED", "FAILED"} : st \in Status
      BY DEF Status, Bootable
<1>u. \A st \in Status : UpdateStatus(st) => row' \in Status \cup {"none", "deleted"}
      BY <1>t DEF UpdateStatus
<1>1. CASE \E r \in Req, p \in Proc : Create(r, p) \/ Restart(r, p) \/ Logout(r, p) \/ Delete(r, p)
  <2>1. req' \in [Req -> ReqType]
        BY <1>1, <1>s, BeginsEffect, TypedIsTypeOK DEF Create, Restart, Logout, Delete, Ops
  <2>2. row' \in Status \cup {"none", "deleted"}
        BY <1>1, <1>t, <1>x DEF Create, Restart, Logout, Delete, shared
  <2> QED BY <1>1, <1>t, <2>1, <2>2 DEF Create, Restart, Logout, Delete, shared, clients, history, Typed
<1>2. CASE \E r \in Req, p \in Proc : Boot(r, p)
  <2>1. PICK r \in Req, p \in Proc : Boot(r, p)  BY <1>2
  <2>2. AtRest("done") \in ReqType /\ [step |-> "init", op |-> "boot", proc |-> p, entry |-> None] \in ReqType
        BY <1>s DEF AtRest, ReqType, Ops
  <2>3. req' \in [Req -> ReqType]  BY <1>t, <2>1, <2>2 DEF Boot
  <2>4. up' \subseteq Proc  BY <1>t, <2>1 DEF Boot
  <2> QED BY <1>t, <2>1, <2>3, <2>4 DEF Boot, shared, clients, history, Typed
<1>3. CASE \E r \in Req : Acquire(r)
  <2>1. req' \in [Req -> ReqType]  BY <1>3, <1>t, <1>s, GotoEffect DEF Acquire
  <2>2. lock' \in Req \cup {None}  BY <1>3, <1>t DEF Acquire
  <2> QED BY <1>3, <1>t, <2>1, <2>2 DEF Acquire, clients, history, Typed
<1>4. CASE \E r \in Req : ReadRow(r)
  <2>1. req' \in [Req -> ReqType]  BY <1>4, <1>t, <1>s, GotoEffect DEF ReadRow
  <2> QED BY <1>4, <1>t, <2>1 DEF ReadRow, shared, clients, history, Typed
<1>5. CASE \E r \in Req, c \in Client : Register(r, c)
  <2>1. PICK r \in Req, c \in Client : Register(r, c)  BY <1>5
  <2>2. req' \in [Req -> ReqType]  BY <2>1, <1>t, <1>s, GotoEffect DEF Register
  <2>3. [proc |-> req[r].proc, phase |-> "starting"] \in ClientType  BY <1>t DEF ReqType, ClientType
  <2>4. client' \in [Client -> ClientType]  BY <1>t, <2>1, <2>3 DEF Register
  <2>5. registry' \in [Proc -> Client \cup {None}]  BY <1>t, <2>1 DEF Register
  <2> QED BY <1>t, <2>1, <2>2, <2>4, <2>5 DEF Register, shared, history, Typed
<1>6. CASE \E r \in Req : Release(r)
  <2>1. req' \in [Req -> ReqType]  BY <1>6, <1>t, <1>s, GotoEffect DEF Release
  <2>2. lock' \in Req \cup {None}  BY <1>6, <1>t DEF Release
  <2> QED BY <1>6, <1>t, <2>1, <2>2 DEF Release, clients, history, Typed
<1>7. CASE \E r \in Req : LogoutClient(r)
  <2>1. PICK r \in Req : LogoutClient(r)  BY <1>7
  <2>2. req' \in [Req -> ReqType]  BY <2>1, <1>t, <1>s, GotoEffect DEF LogoutClient
  <2>3. PICK t \in {{}, {"DISCONNECTED"}} :
           tasks' = [tasks EXCEPT ![req[r].entry] = @ \cup (IF Live(req[r].entry) THEN t ELSE {})]
        BY <2>1 DEF LogoutClient
  <2>4. (IF Live(req[r].entry) THEN t ELSE {}) \subseteq Tasks  BY <2>3 DEF Tasks
  <2>5. tasks' \in [Client -> SUBSET Tasks]  BY <1>t, <2>3, <2>4
  <2> QED BY <1>t, <2>1, <2>2, <2>5 DEF LogoutClient, shared, history, Typed
<1>8. CASE \E r \in Req : Destroy(r)
  <2>1. PICK r \in Req : Destroy(r)  BY <1>8
  <2>2. req' \in [Req -> ReqType]  BY <2>1, <1>t, <1>s, GotoEffect DEF Destroy
  <2>3. client' = client \/ client' = [client EXCEPT ![req[r].entry].phase = "closed"]  BY <2>1 DEF Destroy
  <2>4. client' \in [Client -> ClientType]  BY <1>t, <2>3 DEF ClientType
  <2>5. tasks' = tasks \/ tasks' = [tasks EXCEPT ![req[r].entry] = @ \cup {"initFailed"}]
        BY <2>1 DEF Destroy
  <2>6. tasks' \in [Client -> SUBSET Tasks]  BY <1>t, <2>5 DEF Tasks
  <2> QED BY <1>t, <2>1, <2>2, <2>4, <2>6 DEF Destroy, shared, history, Typed
<1>9. CASE \E r \in Req : UnregisterEntry(r)
  <2>1. PICK r \in Req : UnregisterEntry(r)  BY <1>9
  <2>2. [req[r] EXCEPT !.step = "write", !.entry = None] \in ReqType  BY <1>t, <1>s DEF ReqType
  <2>3. req' \in [Req -> ReqType]  BY <1>t, <2>1, <2>2 DEF UnregisterEntry
  <2>4. registry' \in [Proc -> Client \cup {None}]  BY <1>t, <2>1 DEF UnregisterEntry, Unregister
  <2>5. req[r].proc \in Proc  BY <2>1 DEF UnregisterEntry, At, Sited, Ended
  <2>6. strays' \subseteq Client  BY <1>t, <2>1, <2>5 DEF UnregisterEntry, Unregister
  <2> QED BY <1>t, <2>1, <2>3, <2>4, <2>6 DEF UnregisterEntry, shared, Typed
<1>10. CASE \E r \in Req : WriteStatus(r) \/ DeleteRow(r)
  <2>1. PICK r \in Req : WriteStatus(r) \/ DeleteRow(r)  BY <1>10
  <2>2. req' \in [Req -> ReqType]
    <3>1. CASE DeleteRow(r)  BY <3>1, <1>t, <1>s, GotoEffect DEF DeleteRow
    <3>2. CASE WriteStatus(r)
      <4>1. Goto(r, "init") \/ Goto(r, "deleteRow") \/ Goto(r, "done")  BY <3>2 DEF WriteStatus
      <4> QED BY <4>1, <1>t, <1>s, GotoEffect
    <3> QED BY <2>1, <3>1, <3>2
  <2>3. row' \in Status \cup {"none", "deleted"}
        BY <2>1, <1>t, <1>x, <1>u DEF WriteStatus, DeleteRow
  <2> QED BY <1>t, <2>1, <2>2, <2>3 DEF WriteStatus, DeleteRow, clients, history, Typed
<1>11. CASE \E c \in Client : Started(c)
  <2>1. client' \in [Client -> ClientType]  BY <1>11, <1>t DEF Started, ClientType
  <2> QED BY <1>11, <1>t, <2>1 DEF Started, shared, history, Typed
<1>12. CASE \E c \in Client : InitFails(c)
  <2>1. client' \in [Client -> ClientType]
    <3>1. PICK c \in Client, left \in {"closed", "started"} : client' = [client EXCEPT ![c].phase = left]
          BY <1>12 DEF InitFails
    <3> QED BY <1>t, <3>1 DEF ClientType
  <2>2. tasks' \in [Client -> SUBSET Tasks]  BY <1>12, <1>t DEF InitFails, Tasks
  <2> QED BY <1>12, <1>t, <2>1, <2>2 DEF InitFails, shared, history, Typed
<1>13. CASE \E c \in Client : Report(c)
  <2>1. tasks' \in [Client -> SUBSET Tasks]  BY <1>13, <1>t DEF Report, Tasks
  <2> QED BY <1>13, <1>t, <2>1 DEF Report, shared, history, Typed
<1>14. CASE \E c \in Client : Disconnects(c)
  <2>1. client' \in [Client -> ClientType]  BY <1>14, <1>t DEF Disconnects, ClientType
  <2>2. tasks' \in [Client -> SUBSET Tasks]  BY <1>14, <1>t DEF Disconnects, Tasks
  <2> QED BY <1>14, <1>t, <2>1, <2>2 DEF Disconnects, shared, history, Typed
<1>15. CASE \E c \in Client, t \in Tasks : RunTask(c, t)
  <2>1. PICK c \in Client, t \in Tasks : RunTask(c, t)  BY <1>15
  <2>2. (IF t \in {"DISCONNECTED", "initFailed"} THEN {"unregister"} ELSE {}) \subseteq Tasks  BY DEF Tasks
  <2>3. tasks' \in [Client -> SUBSET Tasks]  BY <1>t, <2>1, <2>2 DEF RunTask
  <2>4. CASE t = "unregister"
    <3>1. client[c].proc \in Proc  BY <2>1 DEF RunTask, Sited
    <3>2. Unregister(client[c].proc) /\ row' = row  BY <2>1, <2>4 DEF RunTask
    <3>3. registry' \in [Proc -> Client \cup {None}] /\ strays' \subseteq Client
          BY <1>t, <3>1, <3>2 DEF Unregister
    <3> QED BY <1>t, <2>1, <2>3, <3>2, <3>3 DEF RunTask, Typed
  <2>5. CASE t # "unregister"
    <3>1. Reported(t) \in Status
          BY <1>x, <2>5 DEF Reported, Tasks
    <3>2. row' \in Status \cup {"none", "deleted"} /\ UNCHANGED <<registry, strays>>
          BY <1>u, <2>1, <2>5, <3>1 DEF RunTask
    <3> QED BY <1>t, <2>1, <2>3, <3>2 DEF RunTask, Typed
  <2> QED BY <2>4, <2>5
<1>16. CASE \E p \in Proc : Crash(p)
  <2>1. PICK p \in Proc : Crash(p)  BY <1>16
  <2>2. AtRest("lost") \in ReqType  BY <1>s DEF AtRest, ReqType, Ops
  <2>3. req' \in [Req -> ReqType]  BY <1>t, <2>1, <2>2 DEF Crash
  <2>4. \A c \in Client : [client[c] EXCEPT !.phase = "closed"] \in ClientType  BY <1>t DEF ClientType
  <2>5. client' \in [Client -> ClientType]  BY <1>t, <2>1, <2>4 DEF Crash
  <2>6. tasks' \in [Client -> SUBSET Tasks]  BY <1>t, <2>1 DEF Crash
  <2>7. registry' \in [Proc -> Client \cup {None}] /\ up' \subseteq Proc /\ strays' \subseteq Client
        /\ crashes' \in 0 .. MaxCrashes
        BY <1>t, <2>1 DEF Crash
  <2> QED BY <1>t, <2>1, <2>3, <2>5, <2>6, <2>7 DEF Crash, shared, Typed
<1>17. CASE Lapse
  <2>1. lapsed' \subseteq Req /\ lock' \in Req \cup {None}  BY <1>17, <1>t DEF Lapse
  <2> QED BY <1>17, <1>t, <2>1 DEF Lapse, clients, Typed
<1>18. CASE UNCHANGED vars
  BY <1>18, <1>t DEF vars, Typed
<1> QED BY <1>1, <1>2, <1>3, <1>4, <1>5, <1>6, <1>7, <1>8, <1>9, <1>10, <1>11, <1>12, <1>13, <1>14,
           <1>15, <1>16, <1>17, <1>18 DEF Step

-----------------------------------------------------------------------------
(* The requests, apart from what they do.                                  *)

Moves(r, s, t) ==
    /\ req[r].step = s /\ req'[r].step = t
    /\ \A q \in Req : q # r => req'[q] = req[q]
    /\ t \notin Ended =>
          /\ req'[r].proc = req[r].proc
          /\ s # "unregister" => req'[r].entry = req[r].entry

\* Each of a handler's steps moves one request.
LEMMA ContinueMoves ==
  ASSUME Typed, NEW r \in Req
  PROVE  /\ Acquire(r) => \/ Moves(r, "init", "readRow") \/ Moves(r, "init", "release")
                           \/ Moves(r, "init", "done") \/ Moves(r, "init", "threw")
         /\ ReadRow(r) => Moves(r, "readRow", "register") \/ Moves(r, "readRow", "release")
         /\ \A c \in Client : Register(r, c) => Moves(r, "register", "release")
         /\ Release(r) => Moves(r, "release", "done") \/ Moves(r, "release", "threw")
         /\ LogoutClient(r) => Moves(r, "logout", "destroy")
         /\ Destroy(r) => Moves(r, "destroy", "unregister")
         /\ UnregisterEntry(r) => Moves(r, "unregister", "write")
         /\ WriteStatus(r) => Moves(r, "write", "init") \/ Moves(r, "write", "deleteRow") \/ Moves(r, "write", "done")
         /\ DeleteRow(r) => Moves(r, "deleteRow", "done")
<1>t. req \in [Req -> ReqType]  BY DEF Typed
<1>g. \A s \in Steps : Goto(r, s) => Moves(r, req[r].step, s)
      BY <1>t, GotoEffect DEF Moves
<1>s. /\ "init" \in Steps /\ "readRow" \in Steps /\ "register" \in Steps /\ "release" \in Steps
      /\ "destroy" \in Steps /\ "unregister" \in Steps /\ "deleteRow" \in Steps /\ "done" \in Steps
      /\ "threw" \in Steps
      BY DEF Steps, Ended
<1>1. Acquire(r) => \/ Moves(r, "init", "readRow") \/ Moves(r, "init", "release")
                    \/ Moves(r, "init", "done") \/ Moves(r, "init", "threw")
      BY <1>g, <1>s DEF Acquire, At
<1>2. ReadRow(r) => Moves(r, "readRow", "register") \/ Moves(r, "readRow", "release")
      BY <1>g, <1>s DEF ReadRow, At
<1>3. \A c \in Client : Register(r, c) => Moves(r, "register", "release")
      BY <1>g, <1>s DEF Register, At
<1>4. /\ Release(r) => Moves(r, "release", "done") \/ Moves(r, "release", "threw")
      /\ LogoutClient(r) => Moves(r, "logout", "destroy")
      BY <1>g, <1>s DEF Release, LogoutClient, At
<1>5. (Destroy(r) => Moves(r, "destroy", "unregister")) /\ (DeleteRow(r) => Moves(r, "deleteRow", "done"))
      BY <1>g, <1>s DEF Destroy, DeleteRow, At
<1>6. UnregisterEntry(r) => Moves(r, "unregister", "write")
      BY <1>t DEF UnregisterEntry, Moves, At, ReqType
<1>7. WriteStatus(r) => Moves(r, "write", "init") \/ Moves(r, "write", "deleteRow") \/ Moves(r, "write", "done")
  <2> SUFFICES ASSUME WriteStatus(r)
               PROVE  Moves(r, "write", "init") \/ Moves(r, "write", "deleteRow") \/ Moves(r, "write", "done")
      OBVIOUS
  <2>1. Goto(r, "init") \/ Goto(r, "deleteRow") \/ Goto(r, "done")  BY DEF WriteStatus
  <2>2. req[r].step = "write"  BY DEF WriteStatus, At
  <2> QED BY <1>g, <1>s, <2>1, <2>2
<1> QED BY <1>1, <1>2, <1>3, <1>4, <1>5, <1>6, <1>7

\* So does the beginning of one.
LEMMA CallMoves ==
  ASSUME Typed, NEW r \in Req, NEW p \in Proc,
         Create(r, p) \/ Restart(r, p) \/ Logout(r, p) \/ Delete(r, p)
  PROVE  /\ req[r].step = "idle" /\ req'[r].step \in {"init", "destroy", "logout", "write", "deleteRow"}
         /\ req'[r].proc = p /\ req'[r].entry = registry[p]
         /\ req'[r].step \in {"logout", "destroy"} => registry[p] # None
         /\ \A q \in Req : q # r => req'[q] = req[q]
<1> USE TypedIsTypeOK DEF Ops
<1>s. /\ "init" \in Steps /\ "destroy" \in Steps /\ "logout" \in Steps /\ "write" \in Steps /\ "deleteRow" \in Steps
      BY DEF Steps
<1>1. CASE Create(r, p)   BY <1>1, <1>s, BeginsEffect DEF Create
<1>2. CASE Restart(r, p)  BY <1>2, <1>s, BeginsEffect DEF Restart
<1>3. CASE Logout(r, p)   BY <1>3, <1>s, BeginsEffect DEF Logout
<1>4. CASE Delete(r, p)   BY <1>4, <1>s, BeginsEffect DEF Delete
<1> QED BY <1>1, <1>2, <1>3, <1>4

\* So does a bootstrap.
LEMMA BootMoves ==
  ASSUME Typed, NEW r \in Req, NEW p \in Proc, Boot(r, p)
  PROVE  /\ req[r].step = "idle"
         /\ req'[r].step = "done" \/ (req'[r].step = "init" /\ req'[r].proc = p)
         /\ \A q \in Req : q # r => req'[q] = req[q]
<1>1. req \in [Req -> ReqType] /\ req[r].step = "idle"  BY DEF Boot, Typed, At
<1>2. AtRest("done").step = "done"  BY DEF AtRest
<1>3. \/ req' = [req EXCEPT ![r] = [step |-> "init", op |-> "boot", proc |-> p, entry |-> None]]
      \/ req' = [req EXCEPT ![r] = AtRest("done")]
      BY DEF Boot
<1> QED BY <1>1, <1>2, <1>3

\* A crash ends the requests of its process.
LEMMA CrashMoves ==
  ASSUME Typed, NEW p \in Proc, Crash(p)
  PROVE  \A r \in Req :
            \/ req'[r] = req[r] /\ (req[r].proc # p \/ req[r].step \in Ended)
            \/ req'[r].step = "lost" /\ req[r].proc = p /\ req[r].step \notin Ended
<1>1. AtRest("lost").step = "lost"  BY DEF AtRest
<1>2. req' = [r \in Req |-> IF req[r].proc = p /\ req[r].step \notin Ended THEN AtRest("lost") ELSE req[r]]
      BY DEF Crash
<1> QED BY <1>1, <1>2

\* Every step keeps requests and clients sited.
LEMMA SitedStep ==
  ASSUME Typed, Sited, Step
  PROVE  Sited'
<1>t. client \in [Client -> ClientType] /\ tasks \in [Client -> SUBSET Tasks]  BY DEF Typed
<1>m. \A r \in Req : Continue(r) => \A q \in Req : req'[q].step \notin {"idle"} \cup Ended => req'[q].proc \in Proc
  <2> SUFFICES ASSUME NEW r \in Req, Continue(r), NEW q \in Req, req'[q].step \notin {"idle"} \cup Ended
               PROVE  req'[q].proc \in Proc
      OBVIOUS
  <2> DEFINE Moved == /\ req[r].step \notin {"idle"} \cup Ended
                      /\ \A p \in Req : p # r => req'[p] = req[p]
                      /\ req'[r].step \in Ended \/ req'[r].proc = req[r].proc
  <2>1. CASE Acquire(r) \/ ReadRow(r) \/ Release(r) \/ \E c \in Client : Register(r, c)
    <3>1. Moved  BY <2>1, ContinueMoves DEF Ended, Moves
    <3> QED BY <3>1 DEF Sited
  <2>2. CASE LogoutClient(r) \/ Destroy(r) \/ UnregisterEntry(r)
    <3>1. Moved  BY <2>2, ContinueMoves DEF Ended, Moves
    <3> QED BY <3>1 DEF Sited
  <2>3. CASE WriteStatus(r) \/ DeleteRow(r)
    <3>1. Moved  BY <2>3, ContinueMoves DEF Ended, Moves
    <3> QED BY <3>1 DEF Sited
  <2> QED BY <2>1, <2>2, <2>3 DEF Continue
<1>1. CASE \E r \in Req, p \in Proc : Create(r, p) \/ Restart(r, p) \/ Logout(r, p) \/ Delete(r, p)
  <2>1. UNCHANGED <<client, tasks>>
        BY <1>1 DEF Create, Restart, Logout, Delete, clients
  <2>2. \A q \in Req : req'[q].step \notin {"idle"} \cup Ended => req'[q].proc \in Proc
        BY <1>1, CallMoves DEF Sited
  <2> QED BY <2>1, <2>2 DEF Sited, Live
<1>2. CASE \E r \in Req, p \in Proc : Boot(r, p)
  <2>1. UNCHANGED <<client, tasks>>  BY <1>2 DEF Boot, clients
  <2>2. \A q \in Req : req'[q].step \notin {"idle"} \cup Ended => req'[q].proc \in Proc
        BY <1>2, BootMoves DEF Sited, Ended
  <2> QED BY <2>1, <2>2 DEF Sited, Live
<1>3. CASE \E r \in Req : Acquire(r) \/ ReadRow(r) \/ Release(r) \/ UnregisterEntry(r) \/ WriteStatus(r) \/ DeleteRow(r)
  <2>1. UNCHANGED <<client, tasks>>
        BY <1>3 DEF Acquire, ReadRow, Release, UnregisterEntry, WriteStatus, DeleteRow, clients
  <2>2. \A q \in Req : req'[q].step \notin {"idle"} \cup Ended => req'[q].proc \in Proc
        BY <1>3, <1>m DEF Continue
  <2> QED BY <2>1, <2>2 DEF Sited, Live
<1>4. CASE \E r \in Req, c \in Client : Register(r, c)
  <2>1. PICK r \in Req, c \in Client : Register(r, c)  BY <1>4
  <2>2. \A q \in Req : req'[q].step \notin {"idle"} \cup Ended => req'[q].proc \in Proc
        BY <2>1, <1>m DEF Continue
  <2>3. req[r].proc \in Proc  BY <2>1 DEF Register, At, Sited, Ended
  <2>4. client'[c].proc = req[r].proc /\ \A d \in Client : d # c => client'[d] = client[d]
        BY <1>t, <2>1 DEF Register
  <2>5. tasks' = tasks  BY <2>1 DEF Register
  <2> QED BY <2>2, <2>3, <2>4, <2>5 DEF Sited, Live
<1>5. CASE \E r \in Req : LogoutClient(r)
  <2>1. PICK r \in Req : LogoutClient(r)  BY <1>5
  <2>2. \A q \in Req : req'[q].step \notin {"idle"} \cup Ended => req'[q].proc \in Proc
        BY <2>1, <1>m DEF Continue
  <2>3. client' = client  BY <2>1 DEF LogoutClient
  <2>4. \A c \in Client : tasks'[c] # {} => tasks[c] # {} \/ Live(c)
        BY <1>t, <2>1 DEF LogoutClient
  <2> QED BY <2>2, <2>3, <2>4 DEF Sited, Live
<1>6. CASE \E r \in Req : Destroy(r)
  <2>1. PICK r \in Req : Destroy(r)  BY <1>6
  <2>2. \A q \in Req : req'[q].step \notin {"idle"} \cup Ended => req'[q].proc \in Proc
        BY <2>1, <1>m DEF Continue
  <2>3. \A c \in Client : client'[c].proc = client[c].proc /\ (Live(c)' => Live(c))
        BY <1>t, <2>1 DEF Destroy, Live, ClientType
  <2>4. \A c \in Client : tasks'[c] # {} => tasks[c] # {} \/ Live(c)
        BY <1>t, <2>1 DEF Destroy, Live
  <2> QED BY <2>2, <2>3, <2>4 DEF Sited
<1>7. CASE \E c \in Client : Started(c) \/ InitFails(c) \/ Report(c) \/ Disconnects(c)
  <2>1. PICK c \in Client : Started(c) \/ InitFails(c) \/ Report(c) \/ Disconnects(c)  BY <1>7
  <2>2. req' = req  BY <2>1 DEF Started, InitFails, Report, Disconnects
  <2>3. Live(c)  BY <2>1 DEF Started, InitFails, Report, Disconnects, MayReport, Live
  <2>4. \A d \in Client : client'[d].proc = client[d].proc /\ (d # c => client'[d] = client[d] /\ tasks'[d] = tasks[d])
        BY <1>t, <2>1 DEF Started, InitFails, Report, Disconnects, ClientType
  <2> QED BY <2>2, <2>3, <2>4 DEF Sited, Live
<1>8. CASE \E c \in Client, t \in Tasks : RunTask(c, t)
  <2>1. PICK c \in Client, t \in Tasks : RunTask(c, t)  BY <1>8
  <2>2. UNCHANGED <<client, req>> /\ tasks[c] # {} /\ \A d \in Client : d # c => tasks'[d] = tasks[d]
        BY <1>t, <2>1 DEF RunTask
  <2> QED BY <2>2 DEF Sited, Live
<1>9. CASE \E p \in Proc : Crash(p)
  <2>1. PICK p \in Proc : Crash(p)  BY <1>9
  <2>2. \A c \in Client : client'[c].proc = client[c].proc /\ (Live(c)' => Live(c)) /\ (tasks'[c] # {} => tasks[c] # {})
        BY <1>t, <2>1 DEF Crash, Live, ClientType
  <2>3. \A q \in Req : req'[q].step \notin {"idle"} \cup Ended => req'[q].proc \in Proc
        BY <2>1, CrashMoves DEF Sited, Ended
  <2> QED BY <2>2, <2>3 DEF Sited
<1>10. CASE Lapse \/ UNCHANGED vars
  BY <1>10 DEF Lapse, clients, vars, Sited, Live
<1> QED BY <1>1, <1>2, <1>3, <1>4, <1>5, <1>6, <1>7, <1>8, <1>9, <1>10 DEF Step

\* Types, and that work under way has a process.
THEOREM TypeCorrect == Spec => [](TypeOK /\ Sited)
<1>1. Init => Typed /\ Sited  BY TypeInit
<1>2. (Typed /\ Sited) /\ [Next]_vars => (Typed /\ Sited)'  BY StepOfNext, TypeStep, SitedStep
<1>3. Typed => TypeOK  BY TypedIsTypeOK
<1> QED BY <1>1, <1>2, <1>3, PTL DEF Spec

-----------------------------------------------------------------------------
(* The lock.                                                               *)

\* It holds at the start.
LEMMA OwnInit ==
  ASSUME Init
  PROVE  OwnInv
  BY DEF Init, OwnInv, LockIsOwned, Initialising, AtRest

\* The steps that leave the lock alone, and who initialises.
LEMMA OwnFrame ==
  ASSUME Typed, OwnInv, UNCHANGED <<lock, lapsed>>,
         \A q \in Req : /\ req'[q].step \in {"readRow", "register", "release"}
                             <=> req[q].step \in {"readRow", "register", "release"}
                        /\ req[q].step \in {"lost", "threw"} => req'[q].step \in {"lost", "threw"}
                        /\ req[q].step \in Ended => req'[q].step \in Ended
  PROVE  OwnInv'
<1>1. Initialising' = Initialising  BY DEF Initialising
<1>2. lapsed \subseteq Req /\ lock \in Req \cup {None}  BY DEF Typed
<1>3. LockIsOwned'
  <2> SUFFICES ASSUME lock' # None
               PROVE  lock' \in (Initialising' \ lapsed') \/ req'[lock'].step \in {"lost", "threw"}
      BY DEF LockIsOwned, At
  <2> QED BY <1>1, <1>2 DEF OwnInv, LockIsOwned, At
<1>4. \A r \in lapsed' : r \in Initialising' \/ req'[r].step \in Ended
      BY <1>1, <1>2 DEF OwnInv
<1> QED BY <1>1, <1>3, <1>4 DEF OwnInv

\* Every step keeps it.
LEMMA OwnStep ==
  ASSUME Typed, OwnInv, Step
  PROVE  OwnInv'
<1>t. req \in [Req -> ReqType] /\ lapsed \subseteq Req /\ lock \in Req \cup {None} /\ None \notin Req
      BY DEF Typed
<1>1. CASE \E r \in Req, p \in Proc : Create(r, p) \/ Restart(r, p) \/ Logout(r, p) \/ Delete(r, p)
  <2>1. UNCHANGED <<lock, lapsed>>
        BY <1>1 DEF Create, Restart, Logout, Delete, shared, history
  <2> QED BY <1>1, <2>1, CallMoves, OwnFrame DEF Ended
<1>2. CASE \E r \in Req, p \in Proc : Boot(r, p)
  <2>1. UNCHANGED <<lock, lapsed>>  BY <1>2 DEF Boot, shared, history
  <2> QED BY <1>2, <2>1, BootMoves, OwnFrame DEF Ended
<1>3. CASE \E r \in Req : Acquire(r)
  <2>1. PICK r \in Req : Acquire(r)  BY <1>3
  <2>l. lapsed' = lapsed  BY <2>1 DEF Acquire, history
  <2>2. CASE Goto(r, "done") /\ UNCHANGED lock
    <3>1. req'[r].step = "done"  BY <1>t, <2>2, GotoEffect DEF Steps, Ended
    <3>2. Moves(r, "init", "done")  BY <2>1, <3>1, ContinueMoves DEF Moves
    <3> QED BY <2>l, <2>2, <3>2, OwnFrame DEF Moves, Ended
  <2>4. CASE lock' \in {lock, IF lock = None THEN r ELSE lock} /\ Goto(r, "threw")
    <3>1. req'[r].step = "threw"  BY <1>t, <2>4, GotoEffect DEF Steps, Ended
    <3>2. Moves(r, "init", "threw")  BY <2>1, <3>1, ContinueMoves DEF Moves
    <3>3. CASE lock' = lock  BY <2>l, <3>2, <3>3, OwnFrame DEF Moves, Ended
    <3>4. CASE lock = None /\ lock' = r
      <4>1. Initialising' = Initialising  BY <3>2 DEF Initialising, Moves
      <4>2. Initialising \ lapsed = {}  BY <1>t, <3>4 DEF OwnInv, Initialising
      <4>3. LockIsOwned'  BY <3>1, <3>4 DEF LockIsOwned
      <4>4. \A q \in lapsed : q \in Initialising' \/ req'[q].step \in Ended
            BY <1>t, <3>2, <4>1 DEF OwnInv, Moves, Ended
      <4> QED BY <2>l, <4>1, <4>2, <4>3, <4>4 DEF OwnInv
    <3> QED BY <2>4, <3>3, <3>4
  <2>3. CASE lock = None /\ lock' = r /\ Goto(r, IF Mine(r) # None THEN "release" ELSE "readRow")
    <3>1. lock' = r /\ lapsed' = lapsed  BY <2>l, <2>3
    <3>2. Moves(r, "init", "readRow") \/ Moves(r, "init", "release")
      <4>2. req'[r].step \in {"release", "readRow"}  BY <1>t, <2>3, GotoEffect DEF Steps
      <4> QED BY <2>1, <4>2, ContinueMoves DEF Moves
    <3>3. req[r].step = "init" /\ r \notin lapsed  BY <3>2 DEF Moves, OwnInv, Initialising, Ended
    <3>4. Initialising \ lapsed = {}  BY <1>t, <2>3 DEF OwnInv, Initialising
    <3>5. Initialising' = Initialising \cup {r}  BY <3>2 DEF Initialising, Moves
    <3>6. LockIsOwned'  BY <3>1, <3>3, <3>5 DEF LockIsOwned
    <3>7. \A q \in lapsed : q \in Initialising' \/ req'[q].step \in Ended
          BY <1>t, <3>2, <3>3, <3>5 DEF OwnInv, Moves
    <3> QED BY <3>1, <3>4, <3>5, <3>6, <3>7 DEF OwnInv
  <2> QED BY <2>1, <2>2, <2>3, <2>4 DEF Acquire
<1>4. CASE \E r \in Req : ReadRow(r) \/ \E c \in Client : Register(r, c)
  <2>1. PICK r \in Req : ReadRow(r) \/ \E c \in Client : Register(r, c)  BY <1>4
  <2>2. UNCHANGED <<lock, lapsed>>  BY <2>1 DEF ReadRow, Register, shared, history
  <2>3. Moves(r, "readRow", "register") \/ Moves(r, "readRow", "release") \/ Moves(r, "register", "release")
        BY <2>1, ContinueMoves
  <2> QED BY <2>2, <2>3, OwnFrame DEF Moves, Ended
<1>5. CASE \E r \in Req : Release(r)
  <2>1. PICK r \in Req : Release(r)  BY <1>5
  <2>2. Moves(r, "release", "done") \/ Moves(r, "release", "threw")  BY <2>1, ContinueMoves
  <2>7. lapsed' = lapsed /\ (lock' = lock \/ (lock = r /\ lock' = None))
        BY <2>1 DEF Release, history
  <2>8. lock' = r => req'[r].step = "threw"
    <3> SUFFICES ASSUME lock' = r, ~Goto(r, "threw") PROVE FALSE
        BY <1>t, GotoEffect DEF Steps, Ended
    <3> QED BY <1>t, <2>1 DEF Release
  <2>3. Initialising' = Initialising \ {r}  BY <2>2 DEF Initialising, Moves
  <2>4. \A q \in lapsed : q \in Initialising' \/ req'[q].step \in Ended
        BY <1>t, <2>2, <2>3 DEF OwnInv, Moves, Ended
  <2>5. \A q \in Initialising' \ lapsed : lock' = q
        BY <2>3, <2>7 DEF OwnInv
  <2>6. LockIsOwned'
    <3> SUFFICES ASSUME lock' # None, lock' # r
                 PROVE  lock' \in Initialising' \ lapsed \/ req'[lock'].step \in {"lost", "threw"}
        BY <2>7, <2>8 DEF LockIsOwned
    <3>1. lock' = lock /\ lock # r /\ lock \in Req  BY <1>t, <2>7
    <3>2. req'[lock] = req[lock]  BY <2>2, <3>1 DEF Moves
    <3> QED BY <2>3, <3>1, <3>2 DEF OwnInv, LockIsOwned
  <2> QED BY <2>4, <2>5, <2>6, <2>7 DEF OwnInv
<1>6. CASE \E r \in Req : LogoutClient(r) \/ Destroy(r) \/ UnregisterEntry(r)
  <2>1. PICK r \in Req : LogoutClient(r) \/ Destroy(r) \/ UnregisterEntry(r)  BY <1>6
  <2>2. UNCHANGED <<lock, lapsed>>  BY <2>1 DEF LogoutClient, Destroy, UnregisterEntry, shared, history
  <2>3. Moves(r, "logout", "destroy") \/ Moves(r, "destroy", "unregister") \/ Moves(r, "unregister", "write")
        BY <2>1, ContinueMoves
  <2> QED BY <2>2, <2>3, OwnFrame DEF Moves, Ended
<1>7. CASE \E r \in Req : WriteStatus(r) \/ DeleteRow(r)
  <2>1. PICK r \in Req : WriteStatus(r) \/ DeleteRow(r)  BY <1>7
  <2>2. UNCHANGED <<lock, lapsed>>  BY <2>1 DEF WriteStatus, DeleteRow, history
  <2>3. \/ Moves(r, "write", "init") \/ Moves(r, "write", "deleteRow") \/ Moves(r, "write", "done")
        \/ Moves(r, "deleteRow", "done")
        BY <2>1, ContinueMoves
  <2> QED BY <2>2, <2>3, OwnFrame DEF Moves, Ended
<1>8. CASE \E c \in Client : Started(c) \/ InitFails(c) \/ Report(c) \/ Disconnects(c) \/ \E t \in Tasks : RunTask(c, t)
  <2>1. UNCHANGED <<lock, lapsed, req>>
        BY <1>8 DEF Started, InitFails, Report, Disconnects, RunTask, shared, history
  <2> QED BY <2>1, OwnFrame
<1>9. CASE \E p \in Proc : Crash(p)
  <2>1. PICK p \in Proc : Crash(p)  BY <1>9
  <2>2. UNCHANGED <<lock, lapsed>>  BY <2>1 DEF Crash, shared
  <2>3. \A r \in Req : req'[r] = req[r] \/ req'[r].step = "lost"  BY <2>1, CrashMoves
  <2>4. \A r \in Req : r \in Initialising' => r \in Initialising
        BY <2>3 DEF Initialising
  <2>5. \A q \in lapsed : q \in Initialising' \/ req'[q].step \in Ended
        BY <1>t, <2>3 DEF OwnInv, Initialising, Ended
  <2>6. \A q \in Initialising' \ lapsed : lock' = q
        BY <2>2, <2>4 DEF OwnInv, Initialising
  <2>7. LockIsOwned'
    <3> SUFFICES ASSUME lock # None
                 PROVE  lock \in Initialising' \ lapsed \/ req'[lock].step \in {"lost", "threw"}
        BY <2>2 DEF LockIsOwned
    <3>1. lock \in Req  BY <1>t
    <3> QED BY <2>3, <3>1 DEF OwnInv, LockIsOwned, Initialising
  <2> QED BY <2>2, <2>5, <2>6, <2>7 DEF OwnInv
<1>10. CASE Lapse
  <2>1. lock # None /\ lock' = None /\ req' = req  BY <1>10 DEF Lapse
  <2>2. Initialising' = Initialising  BY <2>1 DEF Initialising
  <2>3. Initialising \ lapsed \subseteq {lock}  BY DEF OwnInv
  <2>4. LockIsOwned'  BY <2>1 DEF LockIsOwned
  <2>5. CASE req[lock].step \in Ended
    <3>1. lock \notin Initialising /\ lapsed' = lapsed  BY <1>10, <2>5 DEF Lapse, Initialising, Ended
    <3>2. Initialising' \ lapsed' = {}  BY <2>2, <2>3, <3>1
    <3> QED BY <2>1, <2>2, <2>4, <3>1, <3>2 DEF OwnInv
  <2>6. CASE req[lock].step \notin Ended
    <3>1. lapsed' = lapsed \cup {lock} /\ lock \in Initialising
          BY <1>10, <2>1, <2>6 DEF Lapse, OwnInv, LockIsOwned, Ended
    <3>2. Initialising' \ lapsed' = {}  BY <2>2, <2>3, <3>1
    <3> QED BY <2>1, <2>2, <2>4, <3>1, <3>2 DEF OwnInv
  <2> QED BY <2>5, <2>6
<1>11. CASE UNCHANGED vars
  BY <1>11, OwnFrame DEF vars
<1> QED BY <1>1, <1>2, <1>3, <1>4, <1>5, <1>6, <1>7, <1>8, <1>9, <1>10, <1>11 DEF Step

\* Under it one call initialises.
LEMMA OneOwner ==
  ASSUME Typed, OwnInv
  PROVE  InitIsExclusive
<1>1. Initialising \ lapsed \subseteq {lock}  BY DEF OwnInv
<1>2. CASE Initialising \ lapsed = {}
  <2>1. Cardinality(Initialising \ lapsed) = 0  BY <1>2, FS_EmptySet
  <2> QED BY <2>1 DEF InitIsExclusive
<1>3. CASE Initialising \ lapsed = {lock}
  <2>1. Cardinality(Initialising \ lapsed) = 1  BY <1>3, FS_Singleton
  <2> QED BY <2>1 DEF InitIsExclusive
<1> QED BY <1>1, <1>2, <1>3

\* Of the calls of initClient, in whatever process, at most one owns the Redis lock
\* it took: SET NX gives it to one, and the value keeps another from deleting it.
THEOREM InitExclusive == Spec => []InitIsExclusive
<1>1. Init => Typed /\ Sited /\ OwnInv  BY TypeInit, OwnInit
<1>2. (Typed /\ Sited /\ OwnInv) /\ [Next]_vars => (Typed /\ Sited /\ OwnInv)'
      BY StepOfNext, TypeStep, SitedStep, OwnStep
<1>3. Typed /\ OwnInv => InitIsExclusive  BY OneOwner
<1> QED BY <1>1, <1>2, <1>3, PTL DEF Spec

\* What initClient returns or throws of itself leaves no lock behind: it belongs to
\* a call that is initialising, to one whose process died, or to one that Redis
\* failed.
THEOREM LockOwned == Spec => []LockIsOwned
<1>1. Init => Typed /\ Sited /\ OwnInv  BY TypeInit, OwnInit
<1>2. (Typed /\ Sited /\ OwnInv) /\ [Next]_vars => (Typed /\ Sited /\ OwnInv)'
      BY StepOfNext, TypeStep, SitedStep, OwnStep
<1>3. OwnInv => LockIsOwned  BY DEF OwnInv
<1> QED BY <1>1, <1>2, <1>3, PTL DEF Spec

-----------------------------------------------------------------------------
(* One client per process.                                                 *)

Spawning == {"readRow", "register"}

\* It holds at the start.
LEMMA SpawnInit ==
  ASSUME Init
  PROVE  SpawnInv
  BY DEF Init, SpawnInv, AtRest, Live

\* The steps that leave the registry alone and start no client.
LEMMA SpawnFrame ==
  ASSUME Typed, SpawnInv, UNCHANGED <<registry, strays>>, lapsed \subseteq lapsed',
         \A c \in Client : client'[c].proc = client[c].proc /\ (Live(c)' => Live(c)),
         \A q \in Req : req'[q].step \in Spawning => req[q].step \in Spawning /\ req'[q].proc = req[q].proc
  PROVE  SpawnInv'
<1>1. lapsed' = {} => \A q \in Req : req'[q].step \in Spawning => registry'[req'[q].proc] = None
      BY DEF SpawnInv, Mine, Spawning
<1>2. lapsed' = {} => \A c \in Client :
          Live(c)' /\ c \notin strays' => registry'[client'[c].proc] = c
      BY DEF SpawnInv
<1> QED BY <1>1, <1>2 DEF SpawnInv, Mine, Spawning

\* A registration removed leaves no live client behind but where it is noted.
LEMMA SpawnUnregister ==
  ASSUME Typed, Sited, SpawnInv, NEW p \in Proc, Unregister(p), UNCHANGED <<client, lapsed>>,
         \A q \in Req : req'[q].step \in Spawning => req[q].step \in Spawning /\ req'[q].proc = req[q].proc
  PROVE  SpawnInv'
<1>t. registry \in [Proc -> Client \cup {None}] /\ None \notin Client  BY DEF Typed
<1>1. registry' = [registry EXCEPT ![p] = None]  BY DEF Unregister
<1>2. lapsed = {} => \A q \in Req : req'[q].step \in Spawning => registry'[req'[q].proc] = None
  <2> SUFFICES ASSUME lapsed = {}, NEW q \in Req, req'[q].step \in Spawning
               PROVE  registry'[req'[q].proc] = None
      OBVIOUS
  <2>1. req[q].proc \in Proc /\ registry[req[q].proc] = None
        BY DEF Sited, SpawnInv, Mine, Spawning, Ended
  <2> QED BY <1>t, <1>1, <2>1
<1>3. lapsed = {} => \A c \in Client :
          Live(c) /\ c \notin strays' => registry'[client[c].proc] = c
  <2> SUFFICES ASSUME lapsed = {}, NEW c \in Client, Live(c), c \notin strays'
               PROVE  registry'[client[c].proc] = c
      OBVIOUS
  <2>1. strays \subseteq strays'  BY DEF Unregister
  <2>2. registry[client[c].proc] = c /\ client[c].proc \in Proc  BY <2>1 DEF SpawnInv, Sited
  <2>3. client[c].proc # p  BY <1>t, <2>2 DEF Unregister
  <2> QED BY <1>1, <1>t, <2>2, <2>3
<1> QED BY <1>2, <1>3 DEF SpawnInv, Mine, Spawning, Live

\* Every step keeps it: without an outlived lock, who registers found nothing
\* registered, and nobody else registered since.
LEMMA SpawnStep ==
  ASSUME Typed, Sited, OwnInv, SpawnInv, Step
  PROVE  SpawnInv'
<1> USE DEF Spawning
<1>t. registry \in [Proc -> Client \cup {None}] /\ client \in [Client -> ClientType] /\ None \notin Client
      /\ req \in [Req -> ReqType]
      BY DEF Typed
<1>1. CASE \E r \in Req, p \in Proc : Create(r, p) \/ Restart(r, p) \/ Logout(r, p) \/ Delete(r, p)
  <2>1. UNCHANGED <<registry, client, lapsed, strays>>
        BY <1>1 DEF Create, Restart, Logout, Delete, clients, history
  <2> QED BY <1>1, <2>1, CallMoves, SpawnFrame DEF Live
<1>2. CASE \E r \in Req, p \in Proc : Boot(r, p)
  <2>1. UNCHANGED <<registry, client, lapsed, strays>>  BY <1>2 DEF Boot, clients, history
  <2> QED BY <1>2, <2>1, BootMoves, SpawnFrame DEF Live
<1>3. CASE \E r \in Req : Acquire(r)
  <2>1. PICK r \in Req : Acquire(r)  BY <1>3
  <2>2. UNCHANGED <<registry, client, lapsed, strays>>  BY <2>1 DEF Acquire, clients, history
  <2>3. CASE req'[r].step = "readRow"
    <3>1. Moves(r, "init", "readRow")  BY <2>1, <2>3, ContinueMoves DEF Moves
    <3>2. Goto(r, IF Mine(r) # None THEN "release" ELSE "readRow") \/ Goto(r, "done") \/ Goto(r, "threw")
          BY <2>1 DEF Acquire
    <3>3. Mine(r) = None
          BY <1>t, <2>3, <3>2, GotoEffect DEF Steps, Ended
    <3>4. \A q \in Req : req'[q].step \in Spawning => registry'[req'[q].proc] = None \/ lapsed # {}
      <4> SUFFICES ASSUME NEW q \in Req, req'[q].step \in Spawning, lapsed = {}
                   PROVE  registry[req'[q].proc] = None
          BY <2>2
      <4>1. CASE q = r  BY <3>1, <3>3, <4>1 DEF Moves, Mine, Ended
      <4>2. CASE q # r  BY <3>1, <4>2 DEF Moves, Mine, SpawnInv
      <4> QED BY <4>1, <4>2
    <3> QED BY <2>2, <3>4 DEF SpawnInv, Mine, Live
  <2>4. CASE req'[r].step # "readRow"
    <3>1. Moves(r, "init", "release") \/ Moves(r, "init", "done") \/ Moves(r, "init", "threw")
          BY <2>1, <2>4, ContinueMoves DEF Moves
    <3> QED BY <2>2, <3>1, SpawnFrame DEF Moves, Live
  <2> QED BY <2>3, <2>4
<1>4. CASE \E r \in Req : ReadRow(r) \/ Release(r)
  <2>1. PICK r \in Req : ReadRow(r) \/ Release(r)  BY <1>4
  <2>2. UNCHANGED <<registry, client, lapsed, strays>>  BY <2>1 DEF ReadRow, Release, clients, history
  <2>3. \/ Moves(r, "readRow", "register") \/ Moves(r, "readRow", "release")
        \/ Moves(r, "release", "done") \/ Moves(r, "release", "threw")
        BY <2>1, ContinueMoves
  <2> QED BY <2>2, <2>3, SpawnFrame DEF Moves, Live, Ended
<1>5. CASE \E r \in Req, c \in Client : Register(r, c)
  <2>1. PICK r \in Req, c \in Client : Register(r, c)  BY <1>5
  <2> DEFINE p == req[r].proc
  <2>2. Moves(r, "register", "release") /\ UNCHANGED <<lapsed, strays>>
        BY <2>1, ContinueMoves DEF Register, history
  <2>3. p \in Proc  BY <2>2 DEF Moves, Sited, Ended
  <2>4. registry' = [registry EXCEPT ![p] = c]
        /\ client' = [client EXCEPT ![c] = [proc |-> p, phase |-> "starting"]]
        BY <2>1 DEF Register
  <2> HIDE DEF p
  <2>5. lapsed = {} => registry[p] = None  BY <2>2 DEF SpawnInv, Mine, Moves, p
  <2>6. ASSUME lapsed = {}, NEW q \in Req, req'[q].step \in Spawning
        PROVE  FALSE
    <3>1. q # r /\ req[q].step \in Spawning  BY <2>2, <2>6 DEF Moves
    <3>2. q \in Initialising \ lapsed /\ r \in Initialising \ lapsed
          BY <2>2, <2>6, <3>1 DEF Initialising, Moves
    <3> QED BY <3>1, <3>2 DEF OwnInv
  <2>7. ASSUME lapsed = {}, NEW d \in Client, Live(d)', d \notin strays
        PROVE  registry'[client'[d].proc] = d
    <3>1. CASE d = c  BY <1>t, <2>3, <2>4, <3>1
    <3>2. CASE d # c
      <4>1. client'[d] = client[d]  BY <1>t, <2>4, <3>2
      <4>2. registry[client[d].proc] = d /\ client[d].proc \in Proc
            BY <2>7, <4>1 DEF Live, SpawnInv, Sited
      <4>3. client[d].proc # p  BY <1>t, <2>5, <2>7, <4>2
      <4> QED BY <1>t, <2>4, <4>1, <4>2, <4>3
    <3> QED BY <3>1, <3>2
  <2> QED BY <2>2, <2>6, <2>7 DEF SpawnInv
<1>6. CASE \E r \in Req : LogoutClient(r) \/ Destroy(r)
  <2>1. PICK r \in Req : LogoutClient(r) \/ Destroy(r)  BY <1>6
  <2>2. UNCHANGED <<registry, lapsed, strays>>  BY <2>1 DEF LogoutClient, Destroy, history
  <2>3. \A c \in Client : client'[c].proc = client[c].proc /\ (Live(c)' => Live(c))
        BY <1>t, <2>1 DEF LogoutClient, Destroy, Live, ClientType
  <2>4. Moves(r, "logout", "destroy") \/ Moves(r, "destroy", "unregister")  BY <2>1, ContinueMoves
  <2> QED BY <2>2, <2>3, <2>4, SpawnFrame DEF Moves
<1>7. CASE \E r \in Req : UnregisterEntry(r)
  <2>1. PICK r \in Req : UnregisterEntry(r)  BY <1>7
  <2>2. Moves(r, "unregister", "write")  BY <2>1, ContinueMoves
  <2>3. req[r].proc \in Proc  BY <2>2 DEF Moves, Sited, Ended
  <2>4. Unregister(req[r].proc) /\ UNCHANGED <<client, lapsed>>  BY <2>1 DEF UnregisterEntry
  <2>5. \A q \in Req : req'[q].step \in Spawning => req[q].step \in Spawning /\ req'[q].proc = req[q].proc
        BY <2>2 DEF Moves
  <2> QED BY <2>3, <2>4, <2>5, SpawnUnregister
<1>8. CASE \E r \in Req : WriteStatus(r) \/ DeleteRow(r)
  <2>1. PICK r \in Req : WriteStatus(r) \/ DeleteRow(r)  BY <1>8
  <2>2. UNCHANGED <<registry, client, lapsed, strays>>  BY <2>1 DEF WriteStatus, DeleteRow, clients, history
  <2>3. \/ Moves(r, "write", "init") \/ Moves(r, "write", "deleteRow") \/ Moves(r, "write", "done")
        \/ Moves(r, "deleteRow", "done")
        BY <2>1, ContinueMoves
  <2> QED BY <2>2, <2>3, SpawnFrame DEF Moves, Live
<1>9. CASE \E c \in Client : Started(c) \/ InitFails(c) \/ Report(c) \/ Disconnects(c)
  <2>1. UNCHANGED <<registry, lapsed, strays, req>>
        BY <1>9 DEF Started, InitFails, Report, Disconnects, history
  <2>2. \A c \in Client : client'[c].proc = client[c].proc /\ (Live(c)' => Live(c))
        BY <1>t, <1>9 DEF Started, InitFails, Report, Disconnects, Live, ClientType
  <2> QED BY <2>1, <2>2, SpawnFrame
<1>10. CASE \E c \in Client, t \in Tasks : RunTask(c, t)
  <2>1. PICK c \in Client, t \in Tasks : RunTask(c, t)  BY <1>10
  <2>2. UNCHANGED <<client, req, lapsed>>  BY <2>1 DEF RunTask
  <2>3. CASE t = "unregister"
    <3>1. client[c].proc \in Proc /\ Unregister(client[c].proc)  BY <2>1, <2>3 DEF RunTask, Sited
    <3> QED BY <2>2, <3>1, SpawnUnregister
  <2>4. CASE t # "unregister"
    BY <2>1, <2>2, <2>4, SpawnFrame DEF RunTask, Live
  <2> QED BY <2>3, <2>4
<1>11. CASE \E p \in Proc : Crash(p)
  <2>1. PICK p \in Proc : Crash(p)  BY <1>11
  <2>2. registry' = [registry EXCEPT ![p] = None] /\ strays' = strays /\ lapsed' = lapsed
        BY <2>1 DEF Crash
  <2>3. ASSUME lapsed = {}, NEW q \in Req, req'[q].step \in Spawning
        PROVE  registry'[req'[q].proc] = None
    <3>1. req'[q] = req[q] /\ req[q].proc # p  BY <2>1, <2>3, CrashMoves DEF Ended
    <3>2. req[q].proc \in Proc /\ registry[req[q].proc] = None
          BY <2>3, <3>1 DEF Sited, SpawnInv, Mine, Ended
    <3> QED BY <1>t, <2>2, <3>1, <3>2
  <2>4. ASSUME lapsed = {}, NEW c \in Client, Live(c)', c \notin strays'
        PROVE  registry'[client'[c].proc] = c
    <3>1. client'[c].proc = client[c].proc /\ client[c].proc # p /\ Live(c)
          BY <1>t, <2>1, <2>4 DEF Crash, Live, ClientType
    <3>2. client[c].proc \in Proc /\ registry[client[c].proc] = c
          BY <2>2, <2>4, <3>1 DEF Sited, SpawnInv
    <3> QED BY <1>t, <2>2, <2>4, <3>1, <3>2
  <2> QED BY <2>2, <2>3, <2>4 DEF SpawnInv, Mine
<1>12. CASE Lapse
  <2>1. UNCHANGED <<registry, client, strays, req>> /\ lapsed \subseteq lapsed'
        BY <1>12 DEF Lapse, clients
  <2> QED BY <2>1, SpawnFrame DEF Live
<1>13. CASE UNCHANGED vars
  BY <1>13, SpawnFrame DEF vars, Live
<1> QED BY <1>1, <1>2, <1>3, <1>4, <1>5, <1>6, <1>7, <1>8, <1>9, <1>10, <1>11, <1>12, <1>13 DEF Step

\* Only a registration puts a client in the registry, and it finds it empty.
LEMMA SpawnAlone ==
  ASSUME Typed, SpawnInv, Step, lapsed = {}, NEW p \in Proc,
         registry[p] # None, registry'[p] # None, registry'[p] # registry[p]
  PROVE  FALSE
<1>t. registry \in [Proc -> Client \cup {None}]  BY DEF Typed
<1>1. ASSUME NEW q, Unregister(q)
      PROVE  registry'[p] \in {None, registry[p]}
      BY <1>t, <1>1 DEF Unregister
<1>2. ASSUME NEW r \in Req, NEW c \in Client, Register(r, c)
      PROVE  FALSE
  <2>1. registry[req[r].proc] = None  BY <1>2 DEF Register, SpawnInv, Mine, At
  <2>2. req[r].proc # p  BY <2>1
  <2>3. registry' = [registry EXCEPT ![req[r].proc] = c]  BY <1>2 DEF Register
  <2>4. registry'[p] = registry[p]  BY <1>t, <2>2, <2>3
  <2> QED BY <2>4
<1>3. ASSUME NEW r \in Req, UnregisterEntry(r)
      PROVE  FALSE
      BY <1>1, <1>3 DEF UnregisterEntry
<1>4. ASSUME NEW c \in Client, NEW t \in Tasks, RunTask(c, t)
      PROVE  FALSE
      BY <1>1, <1>4 DEF RunTask
<1>5. ASSUME NEW q \in Proc, Crash(q)
      PROVE  FALSE
      BY <1>t, <1>5 DEF Crash
<1>6. registry' # registry  OBVIOUS
<1>7. ASSUME NEW r \in Req, NEW q \in Proc,
             Create(r, q) \/ Restart(r, q) \/ Logout(r, q) \/ Delete(r, q) \/ Boot(r, q)
      PROVE  FALSE
      BY <1>6, <1>7 DEF Create, Restart, Logout, Delete, Boot, clients
<1>8. ASSUME NEW r \in Req,
             \/ Acquire(r) \/ ReadRow(r) \/ Release(r) \/ LogoutClient(r) \/ Destroy(r)
             \/ WriteStatus(r) \/ DeleteRow(r)
      PROVE  FALSE
      BY <1>6, <1>8 DEF Acquire, ReadRow, Release, LogoutClient, Destroy, WriteStatus, DeleteRow, clients
<1>9. ASSUME NEW c \in Client, Started(c) \/ InitFails(c) \/ Report(c) \/ Disconnects(c)
      PROVE  FALSE
      BY <1>6, <1>9 DEF Started, InitFails, Report, Disconnects
<1>10. ~Lapse /\ ~UNCHANGED vars  BY <1>6 DEF Lapse, clients, vars
<1> QED BY <1>2, <1>3, <1>4, <1>5, <1>7, <1>8, <1>9, <1>10 DEF Step

\* "Register the client immediately to avoid double spawn": while no call outlived
\* its lock, a registration never replaces another client.
THEOREM NoSpawnTwice == Spec => NoDoubleSpawn
<1> DEFINE Inv == Typed /\ Sited /\ OwnInv /\ SpawnInv
<1>1. Init => Inv  BY TypeInit, OwnInit, SpawnInit
<1>2. Inv /\ [Next]_vars => Inv'
      BY StepOfNext, TypeStep, SitedStep, OwnStep, SpawnStep
<1> DEFINE Single == \A p \in Proc : registry[p] # None /\ registry'[p] # None /\ registry'[p] # registry[p]
                                       => lapsed # {}
<1>3. Inv /\ [Next]_vars => [Single]_vars  BY StepOfNext, SpawnAlone
<1> QED BY <1>1, <1>2, <1>3, PTL DEF Spec, NoDoubleSpawn

\* Beside the clients that ran on when their registration was removed, a process runs
\* one browser for the connector at most, unless a lock was outlived.
THEOREM OneClient == Spec => []OneClientPerProcess
<1> DEFINE Inv == Typed /\ Sited /\ OwnInv /\ SpawnInv
<1>1. Init => Inv  BY TypeInit, OwnInit, SpawnInit
<1>2. Inv /\ [Next]_vars => Inv'
      BY StepOfNext, TypeStep, SitedStep, OwnStep, SpawnStep
<1>3. Inv => OneClientPerProcess
  <2> SUFFICES ASSUME SpawnInv, lapsed = {}, NEW p \in Proc
               PROVE  Cardinality({c \in Client : client[c].proc = p /\ Live(c) /\ c \notin strays}) <= 1
      BY DEF OneClientPerProcess
  <2> DEFINE S == {c \in Client : client[c].proc = p /\ Live(c) /\ c \notin strays}
  <2>1. S \subseteq {registry[p]}  BY DEF SpawnInv
  <2>2. CASE S = {}
    <3>1. Cardinality(S) = 0  BY <2>2, FS_EmptySet
    <3> QED BY <3>1
  <2>3. CASE S = {registry[p]}
    <3>1. Cardinality(S) = 1  BY <2>3, FS_Singleton
    <3> QED BY <3>1
  <2> QED BY <2>1, <2>2, <2>3
<1> QED BY <1>1, <1>2, <1>3, PTL DEF Spec

-----------------------------------------------------------------------------
(* What is registered runs, or is being removed.                           *)

Removing == {"DISCONNECTED", "initFailed", "unregister"}

Removal(p) ==
    \/ \E c \in Client : client[c].proc = p /\ tasks[c] \cap Removing # {}
    \/ \E r \in Req : req[r].proc = p /\ req[r].step = "unregister"

\* It holds at the start.
LEMMA WatchInit ==
  ASSUME Init
  PROVE  WatchInv
<1>1. AtRest("idle").step = "idle"  BY DEF AtRest
<1> QED BY <1>1 DEF Init, WatchInv, RegisteredIsWatched

\* The steps that leave the registry alone, and close no client of a process where
\* nothing will remove the registration.
LEMMA WatchFrame ==
  ASSUME Typed, WatchInv, registry' = registry,
         \A c \in Client : /\ client'[c].proc = client[c].proc
                           /\ client'[c].phase = "unused" => client[c].phase = "unused"
                           /\ tasks[c] \subseteq tasks'[c],
         \A p \in Proc, c \in Client : client[c].proc = p => \/ Live(c) => Live(c)'
                                                             \/ Removal(p)',
         \A q \in Req : req[q].step = "unregister" => req'[q].step = "unregister" /\ req'[q].proc = req[q].proc,
         \A q \in Req : req'[q].step \in {"logout", "destroy"} =>
            req'[q].entry \in Client /\ client[req'[q].entry].proc = req'[q].proc
  PROVE  WatchInv'
<1>t. registry \in [Proc -> Client \cup {None}]  BY DEF Typed
<1>1. \A p \in Proc : Removal(p) => Removal(p)'  BY DEF Removal
<1>2. ASSUME NEW p \in Proc, registry[p] # None, ~Live(registry[p])'
      PROVE  Removal(p)'
  <2> DEFINE c == registry[p]
  <2>1. c \in Client /\ client[c].proc = p  BY <1>t, <1>2 DEF WatchInv
  <2>2. CASE Live(c)
    <3>1. ~Live(c)'  BY <1>2
    <3> QED BY <2>1, <2>2, <3>1
  <2>3. CASE ~Live(c)
    <3>1. Removal(p)  BY <1>2, <2>3 DEF WatchInv, RegisteredIsWatched, Removal, Removing, At
    <3> QED BY <1>1, <3>1
  <2> QED BY <2>2, <2>3
<1>3. RegisteredIsWatched'  BY <1>2 DEF RegisteredIsWatched, Removal, Removing, At
<1>4. \A p \in Proc : registry'[p] # None => client'[registry'[p]].proc = p
      BY <1>t DEF WatchInv
<1>5. \A q \in Req : req'[q].step \in {"logout", "destroy"} =>
         req'[q].entry \in Client /\ client'[req'[q].entry].proc = req'[q].proc
      OBVIOUS
<1> QED BY <1>3, <1>4, <1>5 DEF WatchInv

\* A registration removed needs no removal, and those of the other processes keep
\* theirs.
LEMMA WatchUnregister ==
  ASSUME Typed, WatchInv, NEW p \in Proc, registry' = [registry EXCEPT ![p] = None],
         \A c \in Client : /\ client'[c].proc = client[c].proc
                           /\ client'[c].phase = "unused" => client[c].phase = "unused"
                           /\ client[c].proc # p => client'[c] = client[c] /\ tasks'[c] = tasks[c],
         \A q \in Req : req[q].step = "unregister" /\ req[q].proc # p => req'[q] = req[q],
         \A q \in Req : req'[q].step \in {"logout", "destroy"} => req'[q] = req[q]
  PROVE  WatchInv'
<1>t. registry \in [Proc -> Client \cup {None}]  BY DEF Typed
<1>1. \A s \in Proc : s # p /\ Removal(s) => Removal(s)'  BY DEF Removal
<1>2. \A s \in Proc : registry'[s] # None => s # p /\ registry'[s] = registry[s] /\ registry[s] \in Client
                                          /\ client[registry[s]].proc = s
      BY <1>t DEF WatchInv
<1>3. ASSUME NEW s \in Proc, registry'[s] # None, ~Live(registry[s])'
      PROVE  Removal(s)'
  <2>1. client'[registry[s]] = client[registry[s]]  BY <1>2, <1>3
  <2>2. registry'[s] = registry[s] /\ registry[s] # None /\ s # p  BY <1>2, <1>3
  <2>3. ~(client'[registry'[s]].phase \in {"starting", "started"})  BY <1>3 DEF Live
  <2>4. ~Live(registry[s])  BY <2>1, <2>2, <2>3 DEF Live
  <2>5. Removal(s)  BY <2>2, <2>4 DEF WatchInv, RegisteredIsWatched, Removal, Removing, At
  <2> QED BY <1>1, <2>2, <2>5
<1>4. RegisteredIsWatched'
  <2> SUFFICES ASSUME NEW s \in Proc, registry'[s] # None, ~Live(registry[s])'
               PROVE  Removal(s)'
      BY DEF RegisteredIsWatched, Removal, Removing, At
  <2> QED BY <1>3
<1>5. \A s \in Proc : registry'[s] # None => client'[registry'[s]].proc = s
      BY <1>2
<1>6. \A q \in Req : req'[q].step \in {"logout", "destroy"} =>
         req'[q].entry \in Client /\ client'[req'[q].entry].proc = req'[q].proc
      BY DEF WatchInv
<1> QED BY <1>4, <1>5, <1>6 DEF WatchInv

\* Every step keeps it: who closes a client removes its registration next.
LEMMA WatchStep ==
  ASSUME Typed, Sited, WatchInv, Step
  PROVE  WatchInv'
<1>t. registry \in [Proc -> Client \cup {None}] /\ client \in [Client -> ClientType] /\ None \notin Client
      /\ None \notin Proc /\ tasks \in [Client -> SUBSET Tasks] /\ req \in [Req -> ReqType]
      BY DEF Typed
<1>e. \A q \in Req : req[q].step \in {"logout", "destroy"} =>
         req[q].entry \in Client /\ client[req[q].entry].proc = req[q].proc
      BY DEF WatchInv
<1>1. CASE \E r \in Req, p \in Proc : Create(r, p) \/ Restart(r, p) \/ Logout(r, p) \/ Delete(r, p)
  <2>1. PICK r \in Req, p \in Proc : Create(r, p) \/ Restart(r, p) \/ Logout(r, p) \/ Delete(r, p)  BY <1>1
  <2>2. UNCHANGED <<registry, client, tasks>>
        BY <2>1 DEF Create, Restart, Logout, Delete, clients
  <2>3. req'[r].step \in {"logout", "destroy"} => req'[r].entry \in Client /\ client[req'[r].entry].proc = req'[r].proc
        BY <1>t, <2>1, CallMoves DEF WatchInv
  <2>4. req[r].step = "idle" /\ \A q \in Req : q # r => req'[q] = req[q]  BY <2>1, CallMoves
  <2> QED BY <1>e, <2>2, <2>3, <2>4, WatchFrame DEF Live
<1>2. CASE \E r \in Req, p \in Proc : Boot(r, p)
  <2>1. PICK r \in Req, p \in Proc : Boot(r, p)  BY <1>2
  <2>2. UNCHANGED <<registry, client, tasks>>  BY <2>1 DEF Boot, clients
  <2> QED BY <1>e, <2>1, <2>2, BootMoves, WatchFrame DEF Live
<1>3. CASE \E r \in Req : Acquire(r) \/ ReadRow(r) \/ Release(r)
  <2>1. PICK r \in Req : Acquire(r) \/ ReadRow(r) \/ Release(r)  BY <1>3
  <2>2. UNCHANGED <<registry, client, tasks>>  BY <2>1 DEF Acquire, ReadRow, Release, clients
  <2>3. /\ req[r].step \in {"init", "readRow", "release"}
        /\ req'[r].step \in {"readRow", "register", "release", "done", "threw"}
        /\ \A q \in Req : q # r => req'[q] = req[q]
        BY <2>1, ContinueMoves DEF Moves
  <2> QED BY <1>e, <2>2, <2>3, WatchFrame DEF Live
<1>4. CASE \E r \in Req : WriteStatus(r) \/ DeleteRow(r)
  <2>1. PICK r \in Req : WriteStatus(r) \/ DeleteRow(r)  BY <1>4
  <2>2. UNCHANGED <<registry, client, tasks>>  BY <2>1 DEF WriteStatus, DeleteRow, clients
  <2>3. /\ req[r].step \in {"write", "deleteRow"}
        /\ req'[r].step \in {"init", "deleteRow", "done"}
        /\ \A q \in Req : q # r => req'[q] = req[q]
        BY <2>1, ContinueMoves DEF Moves
  <2> QED BY <1>e, <2>2, <2>3, WatchFrame DEF Live
<1>5. CASE \E r \in Req, c \in Client : Register(r, c)
  <2>1. PICK r \in Req, c \in Client : Register(r, c)  BY <1>5
  <2> DEFINE p == req[r].proc
  <2>2. Moves(r, "register", "release")  BY <2>1, ContinueMoves
  <2>3. p \in Proc  BY <2>2 DEF Moves, Sited, Ended
  <2>4. registry' = [registry EXCEPT ![p] = c] /\ tasks' = tasks /\ client[c].phase = "unused"
        /\ client' = [client EXCEPT ![c] = [proc |-> p, phase |-> "starting"]]
        BY <2>1 DEF Register
  <2> HIDE DEF p
  <2>5. client[c].proc = None  BY <2>4 DEF WatchInv
  <2>6. \A d \in Client : d # c => client'[d] = client[d]  BY <1>t, <2>4
  <2>7. client'[c].proc = p /\ client'[c].phase = "starting"  BY <1>t, <2>4
  <2>8. \A q \in Req : q # r => req'[q] = req[q]  BY <2>2 DEF Moves
  <2>9. \A s \in Proc : Removal(s) => Removal(s)'
    <3>1. \A d \in Client : client[d].proc \in Proc => client'[d] = client[d]  BY <1>t, <2>5, <2>6
    <3>2. \A q \in Req : req[q].step = "unregister" => req'[q] = req[q]  BY <2>2 DEF Moves
    <3> QED BY <2>4, <3>1, <3>2 DEF Removal
  <2>10. \A s \in Proc : registry'[s] # None =>
            \/ s = p /\ registry'[s] = c
            \/ registry'[s] = registry[s] /\ registry[s] \in Client /\ registry[s] # c /\ client[registry[s]].proc = s
         BY <1>t, <2>3, <2>4, <2>5 DEF WatchInv
  <2>11. ASSUME NEW s \in Proc, registry'[s] # None, ~(client'[registry'[s]].phase \in {"starting", "started"})
         PROVE  Removal(s)'
    <3>1. registry'[s] = registry[s] /\ registry[s] \in Client /\ registry[s] # c  BY <2>7, <2>10, <2>11
    <3>2. ~Live(registry[s]) /\ registry[s] # None  BY <2>6, <2>11, <3>1 DEF Live
    <3>3. Removal(s)  BY <3>2 DEF WatchInv, RegisteredIsWatched, Removal, Removing, At
    <3> QED BY <2>9, <3>3
  <2>12. RegisteredIsWatched'  BY <2>11 DEF RegisteredIsWatched, Removal, Removing, At, Live
  <2>13. \A d \in Client : client'[d].phase = "unused" => client'[d].proc = None
         BY <2>6, <2>7 DEF WatchInv
  <2>14. \A s \in Proc : registry'[s] # None => client'[registry'[s]].proc = s
         BY <2>6, <2>7, <2>10
  <2>15. \A q \in Req : req'[q].step \in {"logout", "destroy"} =>
            req'[q].entry \in Client /\ client'[req'[q].entry].proc = req'[q].proc
    <3> SUFFICES ASSUME NEW q \in Req, req'[q].step \in {"logout", "destroy"}
                 PROVE  req'[q].entry \in Client /\ client'[req'[q].entry].proc = req'[q].proc
        OBVIOUS
    <3>1. req'[q] = req[q]  BY <2>2 DEF Moves
    <3>2. req[q].proc \in Proc /\ req[q].entry \in Client /\ client[req[q].entry].proc = req[q].proc
          BY <1>e, <3>1 DEF Sited, Ended
    <3>3. req[q].entry # c  BY <1>t, <2>5, <3>2
    <3> QED BY <2>6, <3>1, <3>2, <3>3
  <2> QED BY <2>12, <2>13, <2>14, <2>15 DEF WatchInv
<1>6. CASE \E r \in Req : LogoutClient(r)
  <2>1. PICK r \in Req : LogoutClient(r)  BY <1>6
  <2>2. Moves(r, "logout", "destroy")  BY <2>1, ContinueMoves
  <2>3. UNCHANGED <<registry, client>> /\ \A c \in Client : tasks[c] \subseteq tasks'[c]
        BY <1>t, <2>1 DEF LogoutClient
  <2>4. req'[r].entry = req[r].entry /\ req'[r].proc = req[r].proc  BY <2>2 DEF Moves, Ended
  <2> QED BY <1>e, <2>2, <2>3, <2>4, WatchFrame DEF Moves, Live
<1>7. CASE \E r \in Req : Destroy(r)
  <2>1. PICK r \in Req : Destroy(r)  BY <1>7
  <2> DEFINE e == req[r].entry
  <2>2. Moves(r, "destroy", "unregister")  BY <2>1, ContinueMoves
  <2>3. req[r].proc = client[e].proc /\ e \in Client  BY <1>e, <2>2 DEF Moves
  <2>4. req'[r].proc = client[e].proc  BY <2>2, <2>3 DEF Moves, Ended
  <2>5. registry' = registry /\ \A c \in Client : tasks[c] \subseteq tasks'[c]
        BY <1>t, <2>1 DEF Destroy
  <2>6. \A c \in Client : /\ client'[c].proc = client[c].proc
                          /\ client'[c].phase = "unused" => client[c].phase = "unused"
                          /\ c # e => client'[c] = client[c]
        BY <1>t, <2>1 DEF Destroy, ClientType
  <2>7. \A p \in Proc, c \in Client : client[c].proc = p => (Live(c) => Live(c)') \/ Removal(p)'
        BY <2>2, <2>4, <2>6 DEF Live, Removal, Moves
  <2> QED BY <1>e, <2>2, <2>5, <2>6, <2>7, WatchFrame DEF Moves
<1>8. CASE \E r \in Req : UnregisterEntry(r)
  <2>1. PICK r \in Req : UnregisterEntry(r)  BY <1>8
  <2>2. Moves(r, "unregister", "write")  BY <2>1, ContinueMoves
  <2>3. req[r].proc \in Proc  BY <2>2 DEF Moves, Sited, Ended
  <2>4. registry' = [registry EXCEPT ![req[r].proc] = None] /\ UNCHANGED <<client, tasks>>
        BY <2>1 DEF UnregisterEntry, Unregister
  <2> QED BY <2>2, <2>3, <2>4, WatchUnregister DEF Moves
<1>9. CASE \E c \in Client : Started(c) \/ InitFails(c) \/ Report(c) \/ Disconnects(c)
  <2>1. PICK c \in Client : Started(c) \/ InitFails(c) \/ Report(c) \/ Disconnects(c)  BY <1>9
  <2>2. UNCHANGED <<registry, req>> /\ client[c].phase \in {"starting", "started"}
        BY <2>1 DEF Started, InitFails, Report, Disconnects, MayReport, Live
  <2>3. \A d \in Client : /\ client'[d].proc = client[d].proc
                          /\ d # c => client'[d] = client[d]
                          /\ tasks[d] \subseteq tasks'[d]
        BY <1>t, <2>1 DEF Started, InitFails, Report, Disconnects, ClientType
  <2>4. client'[c].phase # "unused"
        BY <1>t, <2>1, <2>2 DEF Started, InitFails, Report, Disconnects, ClientType
  <2>5. Live(c)' \/ tasks'[c] \cap Removing # {}
    <3>1. CASE Started(c)  BY <1>t, <3>1 DEF Started, ClientType, Live
    <3>2. CASE Report(c)   BY <2>2, <3>2 DEF Report, Live
    <3>3. CASE InitFails(c)
      <4>1. "initFailed" \in tasks'[c]  BY <1>t, <3>3 DEF InitFails
      <4> QED BY <4>1 DEF Removing
    <3>4. CASE Disconnects(c)
      <4>1. "DISCONNECTED" \in tasks'[c]  BY <1>t, <3>4 DEF Disconnects
      <4> QED BY <4>1 DEF Removing
    <3> QED BY <2>1, <3>1, <3>2, <3>3, <3>4
  <2>6. \A p \in Proc, d \in Client : client[d].proc = p => (Live(d) => Live(d)') \/ Removal(p)'
        BY <2>3, <2>5 DEF Removal, Live
  <2> QED BY <1>e, <2>2, <2>3, <2>4, <2>6, WatchFrame
<1>10. CASE \E c \in Client, t \in Tasks : RunTask(c, t)
  <2>1. PICK c \in Client, t \in Tasks : RunTask(c, t)  BY <1>10
  <2>2. UNCHANGED <<client, req>> /\ \A d \in Client : d # c => tasks'[d] = tasks[d]
        BY <1>t, <2>1 DEF RunTask
  <2>3. CASE t = "unregister"
    <3>1. client[c].proc \in Proc  BY <2>1, <2>3 DEF RunTask, Sited
    <3>2. registry' = [registry EXCEPT ![client[c].proc] = None]  BY <2>1, <2>3 DEF RunTask, Unregister
    <3> QED BY <2>2, <3>1, <3>2, WatchUnregister
  <2>4. CASE t # "unregister"
    <3>1. registry' = registry  BY <2>1, <2>4 DEF RunTask
    <3>2. tasks[c] \cap Removing # {} => tasks'[c] \cap Removing # {}
          BY <1>t, <2>1, <2>4 DEF RunTask, Removing
    <3>3. \A s \in Proc : Removal(s) => Removal(s)'  BY <2>2, <3>2 DEF Removal
    <3>4. RegisteredIsWatched'
          BY <2>2, <3>1, <3>3 DEF WatchInv, RegisteredIsWatched, Removal, Removing, At, Live
    <3> QED BY <2>2, <3>1, <3>4 DEF WatchInv
  <2> QED BY <2>3, <2>4
<1>11. CASE \E p \in Proc : Crash(p)
  <2>1. PICK p \in Proc : Crash(p)  BY <1>11
  <2>2. registry' = [registry EXCEPT ![p] = None]  BY <2>1 DEF Crash
  <2>3. \A c \in Client : /\ client'[c].proc = client[c].proc
                          /\ client'[c].phase = "unused" => client[c].phase = "unused"
                          /\ client[c].proc # p => client'[c] = client[c] /\ tasks'[c] = tasks[c]
        BY <1>t, <2>1 DEF Crash, ClientType
  <2>4. \A q \in Req : req'[q] = req[q] \/ (req'[q].step = "lost" /\ req[q].proc = p)
        BY <2>1, CrashMoves
  <2> QED BY <2>2, <2>3, <2>4, WatchUnregister
<1>12. CASE Lapse \/ UNCHANGED vars
  <2>1. UNCHANGED <<registry, client, tasks, req>>  BY <1>12 DEF Lapse, clients, vars
  <2> QED BY <1>e, <2>1, WatchFrame DEF Live
<1> QED BY <1>1, <1>2, <1>3, <1>4, <1>5, <1>6, <1>7, <1>8, <1>9, <1>10, <1>11, <1>12 DEF Step

\* What is registered in a process runs there, or its registration is about to be
\* removed: by a listener of a client there, or by the handler that closed it.
THEOREM RegisteredWatched == Spec => []RegisteredIsWatched
<1> DEFINE Inv == Typed /\ Sited /\ WatchInv
<1>1. Init => Inv  BY TypeInit, WatchInit
<1>2. Inv /\ [Next]_vars => Inv'  BY StepOfNext, TypeStep, SitedStep, WatchStep
<1>3. Inv => RegisteredIsWatched  BY DEF WatchInv
<1> QED BY <1>1, <1>2, <1>3, PTL DEF Spec

=============================================================================
