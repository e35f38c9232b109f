-------------------------- MODULE WhatsappSession --------------------------
(***************************************************************************)
(* One WhatsApp connector: its row, which all processes read, the Redis    *)
(* lock on its initialisation, and in each process the registry and the    *)
(* whatsapp-web.js clients (a browser each) with their listeners.          *)
(* A process runs one handler at a time from one await to the next.        *)
(***************************************************************************)
EXTENDS Integers, FiniteSets

CONSTANTS
    Proc,       \* processes
    Req,        \* calls of the connector's API, and bootstraps
    Client,     \* clients, each used once
    None,       \* no request, client or process
    Reports,    \* bound: what clients report besides a disconnection
    MaxTasks,   \* bound: reports of one client under way at once
    MaxLapses,  \* bound: how many calls outlive their lock
    MaxCrashes  \* bound: how often processes die

ASSUME SessionAssumption ==
    /\ None \notin Proc \cup Req \cup Client
    /\ Reports \subseteq {"QR_READY", "AUTHENTICATED", "READY", "FAILED"}
    /\ MaxTasks \in Nat
    /\ MaxLapses \in Nat
    /\ MaxCrashes \in Nat

VARIABLES
    row,       \* the connector's status, "none" before and "deleted" after it
    lock,      \* who holds lock:wwebjs:connector:<id>
    up,        \* the processes that run
    registry,  \* registry[p]: the client registered in p
    client,    \* client[c]: its process and its phase
    tasks,     \* tasks[c]: what its listeners have begun and not finished
    req,       \* req[r]: a handler
    crashes,
    lapsed,    \* the requests whose lock expired before they released it
    strays     \* the live clients that lost their registration

shared  == <<row, lock>>
clients == <<registry, client, tasks>>
history == <<crashes, lapsed, strays>>
vars == <<row, lock, up, registry, client, tasks, req, crashes, lapsed, strays>>

Bootable == {"READY", "AUTHENTICATED", "QR_READY", "PENDING_QR"}
Status   == Bootable \cup {"DISCONNECTED", "FAILED"}
Exists   == row \in Status

\* An event's status, written by its listener; then, for two of them, the
\* registration of the connector is removed.
Tasks   == Reports \cup {"DISCONNECTED", "initFailed", "unregister"}

Live(c) == client[c].phase \in {"starting", "started"}

Ops   == {"none", "create", "restart", "logout", "delete", "boot"}
\* "lost" with its process; "threw": Redis failed a call of initClient.
Ended == {"done", "lost", "threw"}
Steps == {"idle", "init", "readRow", "register", "release", "logout", "destroy",
          "unregister", "write", "deleteRow"} \cup Ended

At(r, s)   == req[r].step = s
AtRest(s)  == [step |-> s, op |-> "none", proc |-> None, entry |-> None]
Goto(r, s) == req' = [req EXCEPT ![r] = IF s \in Ended THEN AtRest(s) ELSE [req[r] EXCEPT !.step = s]]
Mine(r)    == registry[req[r].proc]

\* registry.unregister(connectorId), whichever client is there.
Unregister(p) ==
    /\ registry' = [registry EXCEPT ![p] = None]
    /\ strays' = strays \cup {c \in Client : c = registry[p] /\ Live(c)}

\* updateStatus swallows its errors, that of a missing row included.
UpdateStatus(status) == row' \in (IF Exists THEN {status, row} ELSE {row})

-----------------------------------------------------------------------------
(* initClient.                                                             *)

\* Variants for the properties' mutation checks carry the suffix Mutant: the
\* first forgets the registry, the second NX.
AcquireMutant(r) ==
    /\ At(r, "init")
    /\ \/ /\ lock = None
          /\ lock' = r
          /\ Goto(r, "readRow")
       \/ lock # None /\ Goto(r, "done") /\ UNCHANGED lock
       \/ lock' \in {lock, IF lock = None THEN r ELSE lock} /\ Goto(r, "threw")
    /\ UNCHANGED <<row, up, clients, history>>

AcquireNXMutant(r) ==
    /\ At(r, "init")
    /\ lock' \in {lock, r}
    /\ Goto(r, IF lock' # r THEN "threw" ELSE IF Mine(r) # None THEN "release" ELSE "readRow")
    /\ UNCHANGED <<row, up, clients, history>>

\* SET NX PX, then registry.has: without the lock the call returns, and nobody
\* tries again.  The SET is outside the try: when it throws nothing is released,
\* though it may have taken effect.
Acquire(r) ==
    /\ At(r, "init")
    /\ \/ /\ lock = None
          /\ lock' = r
          /\ Goto(r, IF Mine(r) # None THEN "release" ELSE "readRow")
       \/ lock # None /\ Goto(r, "done") /\ UNCHANGED lock
       \/ lock' \in {lock, IF lock = None THEN r ELSE lock} /\ Goto(r, "threw")
    /\ UNCHANGED <<row, up, clients, history>>

ReadRowMutant(r) ==
    /\ At(r, "readRow")
    /\ \E next \in {"done", IF Exists THEN "register" ELSE "done"} : Goto(r, next)
    /\ UNCHANGED <<shared, up, clients, history>>

ReadRow(r) ==
    /\ At(r, "readRow")
    /\ \E next \in {"release", IF Exists THEN "register" ELSE "release"} : Goto(r, next)
    /\ UNCHANGED <<shared, up, clients, history>>

\* Makes the client, registers it and starts it, without waiting for it.
Register(r, c) ==
    /\ At(r, "register")
    /\ client[c].phase = "unused"
    /\ client' = [client EXCEPT ![c] = [proc |-> req[r].proc, phase |-> "starting"]]
    /\ registry' = [registry EXCEPT ![req[r].proc] = c]
    /\ Goto(r, "release")
    /\ UNCHANGED <<shared, up, tasks, history>>

\* Deletes the lock if it still holds this call's value.  The script may fail,
\* whether it ran or not.
Release(r) ==
    LET released == IF lock = r THEN None ELSE lock
    IN  /\ At(r, "release")
        /\ \/ lock' = released /\ Goto(r, "done")
           \/ lock' \in {lock, released} /\ Goto(r, "threw")
        /\ UNCHANGED <<row, up, clients, history>>

\* The lock's thirty seconds are over.
Lapse ==
    /\ lock # None
    /\ \/ req[lock].step \in Ended /\ UNCHANGED lapsed
       \/ req[lock].step \notin Ended /\ Cardinality(lapsed) < MaxLapses /\ lapsed' = lapsed \cup {lock}
    /\ lock' = None
    /\ UNCHANGED <<row, up, clients, req, crashes, strays>>

-----------------------------------------------------------------------------
(* The calls.  stopClient and logoutClient remember the registered entry.  *)

Begins(r, p, op, step) ==
    /\ At(r, "idle") /\ p \in up
    /\ req' = [req EXCEPT ![r] = [step |-> step, op |-> op, proc |-> p, entry |-> registry[p]]]

Create(r, p) ==
    /\ row = "none"
    /\ Begins(r, p, "create", "init")
    /\ row' = "PENDING_QR"
    /\ UNCHANGED <<lock, up, clients, history>>

Restart(r, p) ==
    /\ Exists
    /\ Begins(r, p, "restart", IF registry[p] # None THEN "destroy" ELSE "init")
    /\ UNCHANGED <<shared, up, clients, history>>

Logout(r, p) ==
    /\ Exists
    /\ Begins(r, p, "logout", IF registry[p] # None THEN "logout" ELSE "write")
    /\ UNCHANGED <<shared, up, clients, history>>

Delete(r, p) ==
    /\ Exists
    /\ Begins(r, p, "delete", IF registry[p] # None THEN "destroy" ELSE "deleteRow")
    /\ UNCHANGED <<shared, up, clients, history>>

\* provider.logout: the phone is unlinked, which the client may report as a
\* disconnection.  Errors are swallowed, here and in destroy.
LogoutClient(r) ==
    /\ At(r, "logout")
    /\ \E t \in {{}, {"DISCONNECTED"}} :
          tasks' = [tasks EXCEPT ![req[r].entry] = @ \cup (IF Live(req[r].entry) THEN t ELSE {})]
    /\ Goto(r, "destroy")
    /\ UNCHANGED <<shared, up, registry, client, history>>

\* provider.destroy: closes the browser, of which an initialisation still under
\* way fails sooner or later; or an error is swallowed and the browser runs on.
Destroy(r) ==
    LET c == req[r].entry
    IN  /\ At(r, "destroy")
        /\ \/ /\ client' = [client EXCEPT ![c].phase = "closed"]
              /\ tasks' = IF client[c].phase = "starting"
                          THEN [tasks EXCEPT ![c] = @ \cup {"initFailed"}] ELSE tasks
           \/ UNCHANGED <<client, tasks>>
        /\ Goto(r, "unregister")
        /\ UNCHANGED <<shared, up, registry, history>>

UnregisterEntry(r) ==
    /\ At(r, "unregister")
    /\ Unregister(req[r].proc)
    /\ req' = [req EXCEPT ![r] = [req[r] EXCEPT !.step = "write", !.entry = None]]
    /\ UNCHANGED <<shared, up, client, tasks, crashes, lapsed>>

WriteStatus(r) ==
    /\ At(r, "write")
    /\ UpdateStatus(IF req[r].op = "logout" THEN "PENDING_QR" ELSE "DISCONNECTED")
    /\ Goto(r, CASE req[r].op = "restart" -> "init"
                 [] req[r].op = "delete"  -> "deleteRow"
                 [] OTHER                 -> "done")
    /\ UNCHANGED <<lock, up, clients, history>>

\* Fails when the row is gone.
DeleteRow(r) ==
    /\ At(r, "deleteRow")
    /\ row' \in {row, "deleted"}
    /\ Goto(r, "done")
    /\ UNCHANGED <<lock, up, clients, history>>

-----------------------------------------------------------------------------
(* The clients and their listeners.                                        *)

Started(c) ==
    /\ client[c].phase = "starting"
    /\ client' = [client EXCEPT ![c].phase = "started"]
    /\ UNCHANGED <<shared, up, registry, tasks, req, history>>

\* initialize() throws; nobody closes the browser, if one was started.
InitFails(c) ==
    /\ client[c].phase = "starting"
    /\ \E left \in {"closed", "started"} : client' = [client EXCEPT ![c].phase = left]
    /\ tasks' = [tasks EXCEPT ![c] = @ \cup {"initFailed"}]
    /\ UNCHANGED <<shared, up, registry, req, history>>

MayReport(c) == Live(c) /\ Cardinality(tasks[c]) < MaxTasks

\* qr, authenticated, auth_failure, ready.
Report(c) ==
    /\ MayReport(c)
    /\ \E t \in Reports : tasks' = [tasks EXCEPT ![c] = @ \cup {t}]
    /\ UNCHANGED <<shared, up, registry, client, req, history>>

\* disconnected: the library closes the browser, or not.
Disconnects(c) ==
    /\ MayReport(c)
    /\ tasks' = [tasks EXCEPT ![c] = @ \cup {"DISCONNECTED"}]
    /\ client' \in {client, [client EXCEPT ![c].phase = "closed"]}
    /\ UNCHANGED <<shared, up, registry, req, history>>

ReportedMutant(t) == t
Reported(t) == IF t = "initFailed" THEN "FAILED" ELSE t

RunTaskMutant(c, t) ==
    /\ t \in tasks[c] \ {"unregister"}
    /\ UpdateStatus(Reported(t))
    /\ tasks' = [tasks EXCEPT ![c] = @ \ {t}]
    /\ UNCHANGED <<lock, up, registry, client, req, history>>

\* Writes of different listeners are under way together and land in any order.
RunTask(c, t) ==
    /\ t \in tasks[c]
    /\ IF t = "unregister"
       THEN Unregister(client[c].proc) /\ UNCHANGED row
       ELSE UpdateStatus(Reported(t)) /\ UNCHANGED <<registry, strays>>
    /\ tasks' = [tasks EXCEPT ![c] = (@ \ {t}) \cup
                   (IF t \in {"DISCONNECTED", "initFailed"} THEN {"unregister"} ELSE {})]
    /\ UNCHANGED <<lock, up, client, req, crashes, lapsed>>

-----------------------------------------------------------------------------
(* Processes.                                                              *)

\* The process dies, or shuts down and destroys its clients: the row keeps its
\* status, and Redis the lock.
Crash(p) ==
    /\ p \in up /\ crashes < MaxCrashes
    /\ crashes' = crashes + 1
    /\ up' = up \ {p}
    /\ registry' = [registry EXCEPT ![p] = None]
    /\ client' = [c \in Client |-> IF client[c].proc = p
                                   THEN [client[c] EXCEPT !.phase = "closed"] ELSE client[c]]
    /\ tasks' = [c \in Client |-> IF client[c].proc = p THEN {} ELSE tasks[c]]
    /\ req' = [r \in Req |-> IF req[r].proc = p /\ req[r].step \notin Ended
                             THEN AtRest("lost") ELSE req[r]]
    /\ UNCHANGED <<shared, lapsed, strays>>

\* onApplicationBootstrap: initClient for a connector that was in use.
Boot(r, p) ==
    /\ p \notin up /\ At(r, "idle")
    /\ up' = up \cup {p}
    /\ req' = [req EXCEPT ![r] = IF row \in Bootable
                                 THEN [step |-> "init", op |-> "boot", proc |-> p, entry |-> None]
                                 ELSE AtRest("done")]
    /\ UNCHANGED <<shared, clients, history>>

-----------------------------------------------------------------------------
Init ==
    /\ row = "none"
    /\ lock = None
    /\ up = Proc
    /\ registry = [p \in Proc |-> None]
    /\ client = [c \in Client |-> [proc |-> None, phase |-> "unused"]]
    /\ tasks = [c \in Client |-> {}]
    /\ req = [r \in Req |-> AtRest("idle")]
    /\ crashes = 0
    /\ lapsed = {}
    /\ strays = {}

Continue(r) ==
    \/ Acquire(r) \/ ReadRow(r) \/ (\E c \in Client : Register(r, c)) \/ Release(r)
    \/ LogoutClient(r) \/ Destroy(r) \/ UnregisterEntry(r) \/ WriteStatus(r) \/ DeleteRow(r)

Next ==
    \/ \E r \in Req, p \in Proc : Create(r, p) \/ Restart(r, p) \/ Logout(r, p) \/ Delete(r, p) \/ Boot(r, p)
    \/ \E r \in Req : Continue(r)
    \/ \E c \in Client : Started(c) \/ InitFails(c) \/ Report(c) \/ Disconnects(c)
    \/ \E c \in Client, t \in Tasks : RunTask(c, t)
    \/ \E p \in Proc : Crash(p)
    \/ Lapse

Spec == Init /\ [][Next]_vars

-----------------------------------------------------------------------------
TypeOK ==
    /\ row \in Status \cup {"none", "deleted"}
    /\ lock \in Req \cup {None}
    /\ up \subseteq Proc
    /\ registry \in [Proc -> Client \cup {None}]
    /\ client \in [Client -> [proc : Proc \cup {None},
                              phase : {"unused", "starting", "started", "closed"}]]
    /\ tasks \in [Client -> SUBSET Tasks]
    /\ req \in [Req -> [step : Steps, op : Ops, proc : Proc \cup {None}, entry : Client \cup {None}]]
    /\ crashes \in 0 .. MaxCrashes
    /\ lapsed \subseteq Req
    /\ strays \subseteq Client

Initialising == {r \in Req : req[r].step \in {"readRow", "register", "release"}}

\* Of the calls that initialise the connector, in whatever process, at most one
\* still owns the lock it took; the others outlived theirs.
InitIsExclusive == Cardinality(Initialising \ lapsed) <= 1

\* The lock belongs to a call that is initialising the connector.  What else may
\* leave it behind, until its time limit, is the death of the process and a call
\* to Redis that throws; no return and no other error of initClient does.
LockIsOwned ==
    lock # None => lock \in Initialising \ lapsed \/ req[lock].step \in {"lost", "threw"}

\* "Register the client immediately to avoid double spawn": a registration never
\* replaces another client, unless a lock was outlived.
NoDoubleSpawn ==
    [][\A p \in Proc : registry[p] # None /\ registry'[p] # None /\ registry'[p] # registry[p]
          => lapsed # {}]_vars

\* Unless a lock was outlived a process runs at most one browser for the
\* connector, beside the strays: those that ran on when the connector's
\* registration was removed, by a handler whose destroy failed, by the listener
\* of a client that is alive, or by whoever meant another client.
OneClientPerProcess ==
    lapsed = {} => \A p \in Proc :
        Cardinality({c \in Client : client[c].proc = p /\ Live(c) /\ c \notin strays}) <= 1

\* What is registered in a process runs there, or is being removed: a listener
\* or a handler is about to do it.
RegisteredIsWatched ==
    \A p \in Proc : registry[p] # None /\ ~Live(registry[p]) =>
        \/ \E c \in Client : client[c].proc = p /\ tasks[c] \cap {"DISCONNECTED", "initFailed", "unregister"} # {}
        \/ \E r \in Req : req[r].proc = p /\ At(r, "unregister")

-----------------------------------------------------------------------------
(* What the code's own text says of a listener and it does not keep.       *)

\* "Unregister from memory since it's disconnected": a live client loses its
\* registration only by a listener of its own, or by the handler that destroyed
\* it.
UnregistersItsOwn ==
    [][\A c \in strays' \ strays :
          tasks'[c] # tasks[c] \/ \E r \in Req : At(r, "unregister") /\ req[r].entry = c]_vars

-----------------------------------------------------------------------------
(* The inductive invariants behind these.                                  *)

\* Requests under way and clients with work have a process.
Sited ==
    /\ \A r \in Req : req[r].step \notin {"idle"} \cup Ended => req[r].proc \in Proc
    /\ \A c \in Client : Live(c) \/ tasks[c] # {} => client[c].proc \in Proc

\* Who initialises and did not outlive the lock is who holds it.
OwnInv ==
    /\ LockIsOwned
    /\ \A r \in Initialising \ lapsed : lock = r
    /\ \A r \in lapsed : r \in Initialising \/ req[r].step \in Ended

\* Under the lock nothing is registered until the call does, and every live
\* client that is no stray is the registered one.
SpawnInv ==
    /\ lapsed = {} => \A r \in Req : req[r].step \in {"readRow", "register"} => Mine(r) = None
    /\ lapsed = {} => \A c \in Client :
          Live(c) /\ c \notin strays => registry[client[c].proc] = c

\* Processes register, and handlers close, clients of their own.
WatchInv ==
    /\ RegisteredIsWatched
    /\ \A c \in Client : client[c].phase = "unused" => client[c].proc = None
    /\ \A p \in Proc : registry[p] # None => client[registry[p]].proc = p
    /\ \A r \in Req : req[r].step \in {"logout", "destroy"} =>
          req[r].entry \in Client /\ client[req[r].entry].proc = req[r].proc

=============================================================================
