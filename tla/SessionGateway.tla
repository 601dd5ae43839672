--------------------------- MODULE SessionGateway ---------------------------
(***************************************************************************)
(* The worker's WhatsApp gateway for ONE session id: the in-memory map of  *)
(* runtimes, the Baileys sockets it creates, the asynchronous handlers of  *)
(* their events, the reconnect timers, the jobs that call into the gateway *)
(* and the three stores they share (the session row and the auth state in  *)
(* PostgreSQL, the status and QR keys in Redis).  Sessions share nothing   *)
(* but the cached library version, so one session id is the whole story.   *)
(*                                                                         *)
(* One action is what runs between two awaits.  A value is abstracted to   *)
(* the identity that matters: credentials and QR codes are named by the    *)
(* connection that minted them.  Phone number, push name, the connection   *)
(* log's rows and all wording are left out.                                *)
(***************************************************************************)
EXTENDS Integers, FiniteSets

CONSTANTS
    Users,          \* the job threads that only use the session (send, number check)
    Qr,             \* the QR job thread
    Attempts,       \* [Users \cup {Qr} -> attempts BullMQ gives a job]
    MaxJobs,        \* [Users \cup {Qr} -> requests of the backend]       (bound)
    MaxRuntimes,    \* runtimes ever entered in the map                  (bound)
    MaxConns,       \* sockets ever created                              (bound)
    MaxRestarts,    \* worker processes after the first                  (bound)
    MaxFaults,      \* failing database or Redis calls                   (bound)
    MayDelete,      \* whether an administrator may delete the session
    MayExpire,      \* whether Redis keys reach the end of their time to live
    Overlap         \* event handlers in progress at once               (bound)

Threads  == Users \cup {Qr}
Runtimes == 1..MaxRuntimes
Conns    == 1..MaxConns

ASSUME GatewayAssumption ==
    /\ Qr \notin Users
    /\ MaxRuntimes \in Nat /\ MaxConns \in Nat /\ MaxRestarts \in Nat /\ MaxFaults \in Nat
    /\ Attempts \in [Threads -> Nat \ {0}] /\ MaxJobs \in [Threads -> Nat]
    /\ MayDelete \in BOOLEAN /\ MayExpire \in BOOLEAN /\ Overlap \in Nat

Status == {"created", "pending_qr", "connected", "disconnected", "reconnecting",
           "logged_out", "failed"}
Ready  == {"pending_qr", "connected", "logged_out", "failed"}   \* what waitForState waits for
Events == {"connecting", "qr", "open", "close", "creds", "keys"}
Live   == {"new", "connecting", "qr", "open"}       \* sockets that still emit events
Earlier == MaxConns + 1                             \* a pairing made before the model starts
Pending == {"load", "make"}                         \* createSocket has not returned

VARIABLES
    row,        \* the session's row exists
    dbStatus,   \* whatsapp_sessions.status
    auth,       \* whatsapp_auth_state: 0 no row, else the pairing it holds
    rStatus,    \* wa:session:<id>:status, "none" when absent
    rQr,        \* wa:session:<id>:qr, 0 when absent
    current,    \* this.sessions.get(id), 0 when absent
    nRt, runtimes,   \* the runtimes entered so far
    nConn, conns,    \* the createSocket calls so far and their sockets
    timers,     \* reconnect timers the event loop will fire, by the connection that armed them
    handlers,   \* where each event handler of each socket has got to
    threads,    \* the job each worker thread is processing
    queue,      \* [thread -> [attempt -> jobs waiting for that attempt]], and at 0 the
                \* requests whose job the backend has not enqueued yet
    asked,      \* requests made so far
    boot,       \* onModuleInit: it reads the sessions, starts this one, is over
    restarts, faults

store   == <<row, dbStatus, auth, rStatus, rQr>>
memory  == <<current, nRt, runtimes, nConn, conns, timers>>
work    == <<threads, queue, asked>>
environ == <<boot, restarts, faults>>
vars    == <<store, memory, handlers, work, environ>>

FreshRuntime == [socket |-> 0, status |-> "created", qr |-> 0, promise |-> 0,
                 timer |-> 0, closed |-> FALSE, gen |-> 0]
NoConn     == [rt |-> 0, gen |-> 0, stage |-> "unused", pair |-> 0, paired |-> FALSE,
               closing |-> FALSE, cause |-> "none"]
IdleThread == [pc |-> "idle", try |-> 0, conn |-> 0, status |-> "created", qr |-> 0]

Init ==
    /\ row = TRUE /\ rStatus = "none" /\ rQr = 0
    /\ \/ dbStatus = "created"   /\ auth = 0        \* a new session
       \/ dbStatus = "connected" /\ auth = Earlier  \* one an earlier worker had connected
    /\ current = 0 /\ nRt = 0 /\ runtimes = [r \in Runtimes |-> FreshRuntime]
    /\ nConn = 0 /\ conns = [c \in Conns |-> NoConn]
    /\ timers = {}
    /\ handlers = [c \in Conns |-> [e \in Events |-> "none"]]
    /\ threads = [p \in Threads |-> IdleThread]
    /\ queue = [p \in Threads |-> [k \in 0..Attempts[p] |-> 0]]
    /\ asked = [p \in Threads |-> 0]
    /\ boot = "read" /\ restarts = 0 /\ faults = 0

-----------------------------------------------------------------------------
(* The map of runtimes and connectSession.                                 *)

\* getRuntime: the runtime in the map, or a new one entered in it.
Here == IF current # 0 THEN current ELSE nRt + 1
EnterRuntime ==
    /\ Here \in Runtimes
    /\ current' = Here
    /\ nRt' = IF current # 0 THEN nRt ELSE nRt + 1

\* What closing a socket's ws does: its close event will come.
Closing(cs, c) == IF c = 0 THEN cs ELSE [cs EXCEPT ![c].closing = TRUE]

IsConnected == /\ current # 0 /\ runtimes[current].socket # 0
               /\ runtimes[current].status = "connected"

\* Mutant: a connect under way is not joined.
NeedsSocketNoJoin(force) == force \/ ~IsConnected
\* Neither of connectSession's early returns applies.
NeedsSocket(force) == force \/ (~IsConnected /\ (current # 0 => runtimes[current].promise = 0))

\* Mutant: the generation is not increased.
NextGenKept(rt) == rt.gen
NextGen(rt) == rt.gen + 1

\* The runtime while connection c is created, and that connection.
Connecting(rt, force, c) ==
    [rt EXCEPT !.timer   = 0,
               !.closed  = IF force /\ rt.socket # 0 THEN TRUE ELSE @,
               !.socket  = IF force THEN 0 ELSE @,
               !.gen     = NextGen(rt),
               !.promise = c]
NewConn(r, rt) == [NoConn EXCEPT !.rt = r, !.gen = NextGen(rt), !.stage = "load"]

\* connectSession up to its first await, when it creates a socket; ts are the timers
\* still to fire (the one that called, if any, has gone).
StartsSocket(force, ts) ==
    LET r == Here  rt == runtimes[Here]  c == nConn + 1 IN
    /\ EnterRuntime
    /\ NeedsSocket(force)
    /\ c \in Conns
    /\ nConn' = c
    /\ runtimes' = [runtimes EXCEPT ![r] = Connecting(@, force, c)]
    /\ timers' = ts \ {rt.timer}
    /\ conns' = [Closing(conns, IF force THEN rt.socket ELSE 0) EXCEPT ![c] = NewConn(r, rt)]

\* connectSession's two early returns.
AlreadyConnected(ts) ==
    /\ IsConnected
    /\ timers' = ts
    /\ UNCHANGED <<current, nRt, runtimes, nConn, conns>>
JoinsPromise(ts) ==
    /\ ~IsConnected /\ current # 0 /\ runtimes[current].promise # 0
    /\ timers' = ts
    /\ UNCHANGED <<current, nRt, runtimes, nConn, conns>>

\* connectSession called by nobody who waits: a timer or the start-up restore.
ConnectsInBackground(ts) ==
    StartsSocket(FALSE, ts) \/ AlreadyConnected(ts) \/ JoinsPromise(ts)

\* Mutant: disposeRuntime leaves closedByService alone.
DisposedStillOpen ==
    IF current = 0 THEN runtimes ELSE [runtimes EXCEPT ![current].timer = 0]
\* disposeRuntime, as it changes the memory; its callers add the rest.
DisposedRuntimes ==
    IF current = 0 THEN runtimes
    ELSE [runtimes EXCEPT ![current] = [@ EXCEPT !.closed = TRUE, !.timer = 0]]
DisposedConns  == IF current = 0 THEN conns ELSE Closing(conns, runtimes[current].socket)
DisposedTimers == IF current = 0 THEN timers ELSE timers \ {runtimes[current].timer}

DisposeRuntime ==
    /\ runtimes' = DisposedRuntimes /\ conns' = DisposedConns /\ timers' = DisposedTimers
    /\ current' = 0
    /\ UNCHANGED <<nRt, nConn>>

-----------------------------------------------------------------------------
(* createSocket.                                                           *)

\* loadAuthState: the stored credentials, or new ones that still have to be paired.
LoadAuth(c) ==
    /\ conns[c].stage = "load"
    /\ conns' = [conns EXCEPT ![c] = [@ EXCEPT !.stage = "make",
                                               !.pair = IF auth # 0 THEN auth ELSE c,
                                               !.paired = (auth # 0)]]
    /\ UNCHANGED <<store, current, nRt, runtimes, nConn, timers, handlers, work, environ>>

\* The read or the decryption fails: the promise rejects, and finally clears it.
LoadFails(c) ==
    /\ conns[c].stage = "load" /\ faults < MaxFaults
    /\ faults' = faults + 1
    /\ conns' = [conns EXCEPT ![c].stage = "failed"]
    /\ runtimes' = [runtimes EXCEPT ![conns[c].rt].promise = 0]
    /\ UNCHANGED <<store, current, nRt, nConn, timers, handlers, work, boot, restarts>>

\* Mutant: finally is forgotten and connectPromise kept.
CreatedKeepsPromise(rt, c) == [rt EXCEPT !.socket = c, !.closed = FALSE]
Created(rt, c) == [rt EXCEPT !.socket = c, !.closed = FALSE, !.promise = 0]

\* makeWASocket and the assignments after it; finally clears connectPromise.
MakeSocket(c) ==
    /\ conns[c].stage = "make"
    /\ conns' = [conns EXCEPT ![c].stage = "new"]
    /\ runtimes' = [runtimes EXCEPT ![conns[c].rt] = Created(@, c)]
    /\ UNCHANGED <<store, current, nRt, nConn, timers, handlers, work, environ>>

-----------------------------------------------------------------------------
(* The socket's events: the library decides when, the handler's            *)
(* synchronous prefix runs at once.                                        *)

\* Mutant: events of superseded sockets are handled too.
ListeningAlways(c) == TRUE
Listening(c) == runtimes[conns[c].rt].gen = conns[c].gen
Busy == {h \in Conns \X Events : handlers[h[1]][h[2]] \notin {"none", "done"}}
MayEmit(c, e) ==
    /\ conns[c].stage \in Live
    /\ handlers[c][e] = "none"
    /\ Cardinality(Busy) < Overlap

\* The handler of event e on c starts at pc; an ignored event is done at once.
Handles(c, e, pc) ==
    handlers' = [handlers EXCEPT ![c][e] = IF Listening(c) THEN pc ELSE "done"]
SetsRuntime(c, rec) ==
    runtimes' = IF Listening(c) THEN [runtimes EXCEPT ![conns[c].rt] = rec] ELSE runtimes

EmitConnecting(c) ==
    LET rt == runtimes[conns[c].rt] IN
    /\ conns[c].stage = "new" /\ MayEmit(c, "connecting")
    /\ conns' = [conns EXCEPT ![c].stage = "connecting"]
    /\ SetsRuntime(c, [rt EXCEPT !.status = IF rt.qr # 0 THEN "pending_qr" ELSE "reconnecting"])
    /\ Handles(c, "connecting", IF rt.qr # 0 THEN "done" ELSE "row")
    /\ UNCHANGED <<store, current, nRt, nConn, timers, work, environ>>

EmitQr(c) ==
    /\ conns[c].stage = "connecting" /\ ~conns[c].paired /\ MayEmit(c, "qr")
    /\ conns' = [conns EXCEPT ![c].stage = "qr"]
    /\ SetsRuntime(c, [runtimes[conns[c].rt] EXCEPT !.qr = c, !.status = "pending_qr"])
    /\ Handles(c, "qr", "row")
    /\ UNCHANGED <<store, current, nRt, nConn, timers, work, environ>>

\* The phone scans the QR code: the credentials become those of a pairing.
EmitCreds(c) ==
    /\ conns[c].stage \in {"qr", "open"} /\ MayEmit(c, "creds")
    /\ conns' = [conns EXCEPT ![c].paired = TRUE]
    /\ Handles(c, "creds", "save")
    /\ UNCHANGED <<store, current, nRt, runtimes, nConn, timers, work, environ>>

\* keys.set saves without looking at the generation.
EmitKeys(c) ==
    /\ conns[c].stage = "open" /\ MayEmit(c, "keys")
    /\ handlers' = [handlers EXCEPT ![c]["keys"] = "save"]
    /\ UNCHANGED <<store, memory, work, environ>>

EmitOpen(c) ==
    /\ conns[c].stage = "connecting" /\ conns[c].paired /\ MayEmit(c, "open")
    /\ conns' = [conns EXCEPT ![c].stage = "open"]
    /\ SetsRuntime(c, [runtimes[conns[c].rt] EXCEPT !.status = "connected", !.qr = 0])
    /\ Handles(c, "open", "save")
    /\ UNCHANGED <<store, current, nRt, nConn, timers, work, environ>>

\* Mutant: only a logout changes the status.
ClosedKeepsStatus(rt, cause) ==
    [rt EXCEPT !.socket = 0, !.qr = 0, !.status = IF cause = "lost" THEN @ ELSE cause]
Closed(rt, cause) ==
    [rt EXCEPT !.socket = 0, !.qr = 0, !.status = IF cause = "lost" THEN "disconnected" ELSE cause]

EmitClose(c) ==
    \E cause \in {"lost", "logged_out"} :
      /\ MayEmit(c, "close")
      /\ cause = "logged_out" => conns[c].paired /\ ~conns[c].closing
      /\ conns' = [conns EXCEPT ![c] = [@ EXCEPT !.stage = "closed", !.cause = cause]]
      /\ SetsRuntime(c, Closed(runtimes[conns[c].rt], cause))
      /\ Handles(c, "close", IF cause = "lost" THEN "row" ELSE "auth")
      /\ UNCHANGED <<store, current, nRt, nConn, timers, work, environ>>

-----------------------------------------------------------------------------
(* The rest of a handler: saveAuthState, deleteMany, persistSessionState   *)
(* (one step per await) and, after a lost connection, the reconnect timer. *)

At(c, e, pc) == handlers[c][e] = pc
Goto(c, e, pc) == handlers' = [handlers EXCEPT ![c][e] = pc]

\* Mutant: a close reports its cause.
ReportedCause(c, e) == IF e = "close" THEN conns[c].cause ELSE "connected"
\* Mutant: a logout is reported like any other close.
ReportedLost(c, e) == CASE e = "connecting" -> "reconnecting"
                        [] e = "open" -> "connected"
                        [] OTHER      -> "disconnected"
Reported(c, e) == CASE e = "connecting" -> "reconnecting"
                    [] e = "qr"   -> "pending_qr"
                    [] e = "open" -> "connected"
                    [] OTHER      -> IF conns[c].cause = "lost" THEN "disconnected"
                                     ELSE "logged_out"

\* The upsert fails on its foreign key when the session is gone.
SaveAuth(c, e) ==
    /\ At(c, e, "save")
    /\ auth' = IF row THEN conns[c].pair ELSE auth
    /\ Goto(c, e, IF row /\ e = "open" THEN "row" ELSE "done")
    /\ UNCHANGED <<row, dbStatus, rStatus, rQr, memory, work, environ>>

DeleteAuth(c, e) ==
    /\ At(c, e, "auth")
    /\ auth' = 0
    /\ Goto(c, e, "row")
    /\ UNCHANGED <<row, dbStatus, rStatus, rQr, memory, work, environ>>

UpdateRow(c, e) ==
    /\ At(c, e, "row")
    /\ dbStatus' = IF row THEN Reported(c, e) ELSE dbStatus
    /\ Goto(c, e, IF row THEN "log" ELSE "delKeys")
    /\ UNCHANGED <<row, auth, rStatus, rQr, memory, work, environ>>

\* connectionLog.create: a missing session is a foreign key error, which ends the handler.
WriteLog(c, e) ==
    /\ At(c, e, "log")
    /\ Goto(c, e, IF row THEN "status" ELSE "done")
    /\ UNCHANGED <<store, memory, work, environ>>

SetStatusKey(c, e) ==
    /\ At(c, e, "status")
    /\ rStatus' = Reported(c, e)
    /\ Goto(c, e, "qrKey")
    /\ UNCHANGED <<row, dbStatus, auth, rQr, memory, work, environ>>

\* Mutant: a logout is followed by a reconnect like any other close.
LostAny(c, e) == e = "close"
Lost(c, e) == e = "close" /\ conns[c].cause = "lost"

SetQrKey(c, e) ==
    /\ At(c, e, "qrKey")
    /\ rQr' = IF e = "qr" THEN c ELSE 0
    /\ Goto(c, e, IF Lost(c, e) THEN "arm" ELSE "done")
    /\ UNCHANGED <<row, dbStatus, auth, rStatus, memory, work, environ>>

\* Mutant: the timer is armed for the sockets the service closed itself.
MayArmClosed(r) == runtimes[r].closed
MayArm(r) == ~runtimes[r].closed

\* setTimeout unless the service closed the socket; an earlier timer is not cleared.
ArmTimer(c, e) ==
    LET r == conns[c].rt IN
    /\ At(c, e, "arm")
    /\ IF MayArm(r)
         THEN /\ runtimes' = [runtimes EXCEPT ![r].timer = c]
              /\ timers' = timers \cup {c}
         ELSE UNCHANGED <<runtimes, timers>>
    /\ Goto(c, e, "done")
    /\ UNCHANGED <<store, current, nRt, nConn, conns, work, environ>>

DeleteKeys(c, e) ==
    /\ At(c, e, "delKeys")
    /\ rStatus' = "none" /\ rQr' = 0
    /\ Goto(c, e, "dispose")
    /\ UNCHANGED <<row, dbStatus, auth, memory, work, environ>>

\* The row is missing: the map's runtime is disposed, and a close handler goes on to
\* look at closedByService of its own runtime, which need not be that one.
DisposeMissing(c, e) ==
    LET r    == conns[c].rt
        arms == Lost(c, e) /\ ~DisposedRuntimes[r].closed IN
    /\ At(c, e, "dispose")
    /\ runtimes' = IF arms THEN [DisposedRuntimes EXCEPT ![r].timer = c] ELSE DisposedRuntimes
    /\ timers' = DisposedTimers \cup (IF arms THEN {c} ELSE {})
    /\ conns' = DisposedConns
    /\ current' = 0
    /\ Goto(c, e, "done")
    /\ UNCHANGED <<store, nRt, nConn, work, environ>>

\* An await of the handler rejects: the error is logged, the rest is skipped.
HandlerFails(c, e) ==
    /\ handlers[c][e] \notin {"none", "done", "arm", "dispose"} /\ faults < MaxFaults
    /\ faults' = faults + 1
    /\ Goto(c, e, "done")
    /\ UNCHANGED <<store, memory, work, boot, restarts>>

HandlerStep(c, e) ==
    \/ SaveAuth(c, e) \/ DeleteAuth(c, e) \/ UpdateRow(c, e) \/ WriteLog(c, e)
    \/ SetStatusKey(c, e) \/ SetQrKey(c, e) \/ ArmTimer(c, e)
    \/ DeleteKeys(c, e) \/ DisposeMissing(c, e)

\* The timer's connectSession; its rejection is only logged.
TimerFires(c) ==
    /\ c \in timers
    /\ ConnectsInBackground(timers \ {c})
    /\ UNCHANGED <<store, handlers, work, environ>>

-----------------------------------------------------------------------------
(* Jobs: the backend enqueues them, each worker thread runs one at a time, *)
(* a job that throws is retried while it has attempts left.                *)

\* The backend's requestQr marks the row before it enqueues; a send reads it only.
Request(p) ==
    /\ row /\ asked[p] < MaxJobs[p]
    /\ asked' = [asked EXCEPT ![p] = @ + 1]
    /\ queue' = [queue EXCEPT ![p][0] = @ + 1]
    /\ dbStatus' = IF p = Qr THEN "pending_qr" ELSE dbStatus
    /\ UNCHANGED <<row, auth, rStatus, rQr, memory, handlers, threads, environ>>

Enqueue(p) ==
    /\ queue[p][0] > 0
    /\ queue' = [queue EXCEPT ![p][0] = @ - 1, ![p][1] = @ + 1]
    /\ UNCHANGED <<store, memory, handlers, threads, asked, environ>>

\* The queue rejects: the request fails, and the row stays as it was marked.
EnqueueFails(p) ==
    /\ queue[p][0] > 0 /\ faults < MaxFaults
    /\ faults' = faults + 1
    /\ queue' = [queue EXCEPT ![p][0] = @ - 1]
    /\ UNCHANGED <<store, memory, handlers, threads, asked, boot, restarts>>

RequestStep(p) == Request(p) \/ Enqueue(p) \/ EnqueueFails(p)

Moves(p, pc) == threads' = [threads EXCEPT ![p].pc = pc]
JobDone(p) == threads' = [threads EXCEPT ![p] = IdleThread] /\ UNCHANGED queue
JobThrows(p) ==
    LET k == threads[p].try IN
    /\ threads' = [threads EXCEPT ![p] = IdleThread]
    /\ queue' = IF k < Attempts[p] THEN [queue EXCEPT ![p][k + 1] = @ + 1] ELSE queue

Takes(p, pc) ==
    /\ threads[p].pc = "idle"
    /\ \E k \in 1..Attempts[p] :
         /\ queue[p][k] > 0
         /\ queue' = [queue EXCEPT ![p][k] = @ - 1]
         /\ threads' = [threads EXCEPT ![p] = [IdleThread EXCEPT !.pc = pc, !.try = k]]

\* handleRequestQr, from its first statement: resetSessionForFreshPairing disposes.
StartQr ==
    /\ Takes(Qr, "auth")
    /\ DisposeRuntime
    /\ UNCHANGED <<store, handlers, asked, environ>>

ResetAuth ==
    /\ threads[Qr].pc = "auth"
    /\ auth' = 0
    /\ Moves(Qr, "keys")
    /\ UNCHANGED <<row, dbStatus, rStatus, rQr, memory, handlers, queue, asked, environ>>

ResetKeys ==
    /\ threads[Qr].pc = "keys"
    /\ rStatus' = "none" /\ rQr' = 0
    /\ Moves(Qr, "row")
    /\ UNCHANGED <<row, dbStatus, auth, memory, handlers, queue, asked, environ>>

ResetRow ==
    /\ threads[Qr].pc = "row"
    /\ dbStatus' = IF row THEN "created" ELSE dbStatus
    /\ Moves(Qr, "connect")
    /\ UNCHANGED <<row, auth, rStatus, rQr, memory, handlers, queue, asked, environ>>

StartUse(p) ==
    /\ p \in Users /\ Takes(p, "check")
    /\ UNCHANGED <<store, memory, handlers, asked, environ>>

\* The worker's ensureConnected trusts a row that says connected.
CheckRow(p) ==
    /\ threads[p].pc = "check"
    /\ IF row THEN /\ Moves(p, IF dbStatus = "connected" THEN "use" ELSE "ensure")
                   /\ UNCHANGED queue
              ELSE JobThrows(p)
    /\ UNCHANGED <<store, memory, handlers, asked, environ>>

\* What a thread does once connectSession and waitForState have returned.
Proceeds(p, rt) ==
    CASE threads[p].pc \in {"connect", "connectWait"} ->
            /\ threads' = [threads EXCEPT ![p] =
                             [@ EXCEPT !.pc = "snapRow", !.status = rt.status, !.qr = rt.qr]]
            /\ UNCHANGED queue
      [] rt.status # "connected" -> JobThrows(p)
      [] threads[p].pc \in {"ensure", "ensureWait"} ->
            /\ threads' = [threads EXCEPT ![p] = [@ EXCEPT !.pc = "snapRow", !.status = rt.status]]
            /\ UNCHANGED queue
      [] OTHER -> IF rt.socket = 0 THEN JobThrows(p) ELSE JobDone(p)   \* the socket is used

WaitPc(pc) == CASE pc = "connect" -> "connectWait"
                [] pc = "ensure"  -> "ensureWait"
                [] OTHER          -> "useWait"

Connect(p) ==
    /\ threads[p].pc \in {"connect", "ensure", "use"}
    /\ \/ /\ StartsSocket(p = Qr, timers)
          /\ threads' = [threads EXCEPT ![p] =
                           [@ EXCEPT !.pc = WaitPc(threads[p].pc), !.conn = nConn + 1]]
          /\ UNCHANGED queue
       \/ /\ p # Qr /\ JoinsPromise(timers)
          /\ threads' = [threads EXCEPT ![p] =
                           [@ EXCEPT !.pc = WaitPc(threads[p].pc), !.conn = runtimes[current].promise]]
          /\ UNCHANGED queue
       \/ /\ p # Qr /\ AlreadyConnected(timers)
          /\ Proceeds(p, runtimes[current])
    /\ UNCHANGED <<store, handlers, asked, environ>>

Waiting(p) == threads[p].pc \in {"connectWait", "ensureWait", "useWait"}
Resolved(p) == Waiting(p) /\ conns[threads[p].conn].stage \notin Pending \cup {"failed"}

PromiseRejects(p) ==
    /\ Waiting(p) /\ conns[threads[p].conn].stage = "failed"
    /\ JobThrows(p)
    /\ UNCHANGED <<store, memory, handlers, asked, environ>>

\* waitForState sees a status it waits for in the runtime now in the map.
WaitEnds(p) ==
    /\ Resolved(p) /\ current # 0 /\ runtimes[current].status \in Ready
    /\ Proceeds(p, runtimes[current])
    /\ UNCHANGED <<store, memory, handlers, asked, environ>>

\* Its poll enters a new runtime when the map has none.
WaitEnters(p) ==
    /\ Resolved(p) /\ current = 0
    /\ EnterRuntime
    /\ UNCHANGED <<store, runtimes, nConn, conns, timers, handlers, work, environ>>

\* Mutant: waitForState gives up only on a runtime without a socket.
GivesUpWithoutSocket == current # 0 /\ runtimes[current].socket = 0
\* The last poll, which saw a runtime whose status is none of those waited for.
GivesUp == current # 0 /\ runtimes[current].status \notin Ready

WaitTimesOut(p) ==
    /\ Resolved(p) /\ GivesUp
    /\ JobThrows(p)
    /\ UNCHANGED <<store, memory, handlers, asked, environ>>

\* handleRequestQr and ensureConnected write what they saw; a missing row throws.
WriteSnapshot(p) ==
    /\ threads[p].pc \in {"snapRow", "snapLog"}
    /\ IF row
         THEN /\ dbStatus' = IF threads[p].pc = "snapRow" THEN threads[p].status ELSE dbStatus
              /\ Moves(p, IF threads[p].pc = "snapRow" THEN "snapLog" ELSE "snapKey")
              /\ UNCHANGED queue
         ELSE JobThrows(p) /\ UNCHANGED dbStatus
    /\ UNCHANGED <<row, auth, rStatus, rQr, memory, handlers, asked, environ>>

WriteStatusKey(p) ==
    /\ threads[p].pc = "snapKey"
    /\ rStatus' = threads[p].status
    /\ Moves(p, IF p = Qr THEN "snapQr" ELSE "use")
    /\ UNCHANGED <<row, dbStatus, auth, rQr, memory, handlers, queue, asked, environ>>

WriteQrKey ==
    /\ threads[Qr].pc = "snapQr"
    /\ rQr' = threads[Qr].qr
    /\ JobDone(Qr)
    /\ UNCHANGED <<row, dbStatus, auth, rStatus, memory, handlers, asked, environ>>

\* A database or Redis call of the job rejects.
JobFails(p) ==
    /\ threads[p].pc \in {"auth", "keys", "row", "check", "snapRow", "snapLog", "snapKey", "snapQr"}
    /\ faults < MaxFaults
    /\ faults' = faults + 1
    /\ JobThrows(p)
    /\ UNCHANGED <<store, memory, handlers, asked, boot, restarts>>

JobStep(p) ==
    \/ StartUse(p) \/ CheckRow(p) \/ Connect(p) \/ PromiseRejects(p)
    \/ WaitEnds(p) \/ WaitEnters(p) \/ WaitTimesOut(p)
    \/ WriteSnapshot(p) \/ WriteStatusKey(p)
QrStep == StartQr \/ ResetAuth \/ ResetKeys \/ ResetRow \/ WriteQrKey

-----------------------------------------------------------------------------
(* The process, the administrator and Redis expiry.                        *)

\* onModuleInit: a session whose auth state is found stored is connected again, whatever
\* has become of it since.
FindSession ==
    /\ boot = "read"
    /\ boot' = IF auth # 0 THEN "start" ELSE "over"
    /\ UNCHANGED <<store, memory, handlers, work, restarts, faults>>

Restore ==
    /\ boot = "start"
    /\ boot' = "over"
    /\ ConnectsInBackground(timers)
    /\ UNCHANGED <<store, handlers, work, restarts, faults>>

\* The process ends (a crash, or onModuleDestroy and exit) and a new one starts: sockets,
\* handlers, timers and the map are gone; BullMQ runs an interrupted job again.
Restart ==
    /\ restarts < MaxRestarts
    /\ restarts' = restarts + 1 /\ boot' = "read"
    /\ current' = 0 /\ timers' = {}
    /\ runtimes' = [r \in Runtimes |-> [FreshRuntime EXCEPT !.gen = runtimes[r].gen]]
    /\ conns' = [c \in Conns |-> IF conns[c].stage = "unused" THEN NoConn
                                 ELSE [conns[c] EXCEPT !.stage = "closed", !.closing = TRUE]]
    /\ handlers' = [c \in Conns |-> [e \in Events |->
                      IF conns[c].stage = "unused" THEN "none" ELSE "done"]]
    /\ threads' = [p \in Threads |-> IdleThread]
    /\ queue' = [p \in Threads |-> [k \in 0..Attempts[p] |->
                   queue[p][k] + (IF k > 0 /\ threads[p].try = k THEN 1 ELSE 0)]]
    /\ UNCHANGED <<store, nRt, nConn, asked, faults>>

\* deleteUsersCascade: one transaction removes the auth state and the session.  The bound
\* on connections leaves the worker room for another after it.
DeleteSession ==
    /\ MayDelete /\ row /\ nConn < MaxConns
    /\ row' = FALSE /\ auth' = 0
    /\ UNCHANGED <<dbStatus, rStatus, rQr, memory, handlers, work, environ>>

ExpireStatus == /\ MayExpire /\ rStatus # "none" /\ rStatus' = "none"
                /\ UNCHANGED <<row, dbStatus, auth, rQr, memory, handlers, work, environ>>
ExpireQr     == /\ MayExpire /\ rQr # 0 /\ rQr' = 0
                /\ UNCHANGED <<row, dbStatus, auth, rStatus, memory, handlers, work, environ>>

-----------------------------------------------------------------------------
SocketStep(c) == LoadAuth(c) \/ MakeSocket(c)
Emits(c) == \/ EmitConnecting(c) \/ EmitQr(c) \/ EmitCreds(c)
            \/ EmitKeys(c) \/ EmitOpen(c) \/ EmitClose(c)

Next ==
    \/ \E c \in Conns : \/ SocketStep(c) \/ LoadFails(c) \/ Emits(c) \/ TimerFires(c)
                         \/ \E e \in Events : HandlerStep(c, e) \/ HandlerFails(c, e)
    \/ \E p \in Threads : RequestStep(p) \/ JobStep(p) \/ JobFails(p)
    \/ QrStep
    \/ FindSession \/ Restore \/ Restart \/ DeleteSession \/ ExpireStatus \/ ExpireQr

Spec == Init /\ [][Next]_vars

\* The event loop and the workers run what is ready, and a closed ws reports its close;
\* nothing is assumed of WhatsApp, the phone, the administrator or the next request.
Fairness ==
    /\ \A c \in Conns :
         /\ WF_vars(SocketStep(c)) /\ WF_vars(TimerFires(c))
         /\ WF_vars(conns[c].closing /\ EmitClose(c))
         /\ \A e \in Events : WF_vars(HandlerStep(c, e))
    /\ \A p \in Threads : WF_vars(JobStep(p))
    /\ WF_vars(QrStep) /\ WF_vars(FindSession \/ Restore)

FairSpec == Spec /\ Fairness
=============================================================================
