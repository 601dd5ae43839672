----------------------- MODULE SessionGatewayProperties -----------------------
(* What the gateway keeps true, step by step and in the long run.            *)
EXTENDS SessionGateway

Settled ==
    /\ \A c \in Conns : conns[c].stage \notin Pending
    /\ \A c \in Conns, e \in Events : handlers[c][e] \in {"none", "done"}
    /\ \A p \in Threads : threads[p].pc = "idle"

Pcs == {"idle", "auth", "keys", "row", "connect", "connectWait", "snapRow", "snapLog",
        "snapKey", "snapQr", "check", "ensure", "ensureWait", "use", "useWait"}
HandlerPcs == {"none", "save", "auth", "row", "log", "status", "qrKey", "arm",
               "delKeys", "dispose", "done"}

RuntimeRecords == [socket : 0..MaxConns, status : Status, qr : 0..MaxConns,
                   promise : 0..MaxConns, timer : 0..MaxConns, closed : BOOLEAN, gen : Nat]
ConnRecords == [rt : 0..MaxRuntimes, gen : Nat,
                stage : Live \cup Pending \cup {"unused", "failed", "closed"},
                pair : 0..Earlier, paired : BOOLEAN, closing : BOOLEAN,
                cause : {"none", "lost", "logged_out"}]
ThreadRecords == [pc : Pcs, try : Nat, conn : 0..MaxConns, status : Status, qr : 0..MaxConns]

StoreOK ==
    /\ row \in BOOLEAN /\ dbStatus \in Status /\ auth \in 0..Earlier
    /\ rStatus \in Status \cup {"none"} /\ rQr \in 0..MaxConns
MemoryOK ==
    /\ nRt \in 0..MaxRuntimes /\ current \in 0..nRt /\ nConn \in 0..MaxConns
    /\ runtimes \in [Runtimes -> RuntimeRecords]
    /\ conns \in [Conns -> ConnRecords]
    /\ timers \subseteq Conns
HandlersOK == handlers \in [Conns -> [Events -> HandlerPcs]]
WorkOK ==
    /\ threads \in [Threads -> ThreadRecords]
    /\ DOMAIN queue = Threads
    /\ \A p \in Threads : queue[p] \in [0..Attempts[p] -> Nat]
    /\ asked \in [Threads -> Nat]
EnvironOK == boot \in {"read", "start", "over"} /\ restarts \in Nat /\ faults \in Nat

\* Types of the variables.
TypeOK == StoreOK /\ MemoryOK /\ HandlersOK /\ WorkOK /\ EnvironOK

\* The generation check admits one socket per runtime: of all the sockets ever created on
\* a runtime, at most one has its events handled, however connects overlap.
OneListener ==
    \A c, d \in Conns :
        /\ conns[c].stage # "unused" /\ conns[d].stage # "unused"
        /\ conns[c].rt = conns[d].rt
        /\ Listening(c) /\ Listening(d)
        => c = d

\* Whoever joins runtime.connectPromise joins a creation of that runtime that still runs:
\* finally clears the field whichever creation it belongs to.
PromisePending ==
    \A r \in Runtimes : runtimes[r].promise # 0 =>
        /\ conns[runtimes[r].promise].rt = r
        /\ conns[runtimes[r].promise].stage \in Pending

\* Jobs, timers and the restore never open two sockets at once on one runtime (the QR
\* job, which forces a connect, is not among them).
SingleFlight ==
    \A c, d \in Conns :
        conns[c].stage \in Pending /\ conns[d].stage \in Pending /\ conns[c].rt = conns[d].rt
        => c = d

\* The socket a job sends on, once the runtime says connected, is the runtime's newest one
\* and is open: no superseded socket was put in its place.
ConnectedIsCurrent ==
    current # 0 /\ runtimes[current].status = "connected" =>
        LET s == runtimes[current].socket IN
        s # 0 /\ conns[s].rt = current /\ Listening(s) /\ conns[s].stage = "open"

\* A runtime that says connected has a socket, or its newest creation is under way or has
\* failed: nothing but a failing creation leaves the status standing over nothing, whoever
\* forces a connect over whom.
ConnectedOrConnecting ==
    current # 0 /\ runtimes[current].status = "connected" /\ runtimes[current].socket = 0 =>
        \E c \in Conns : /\ conns[c].rt = current /\ Listening(c)
                         /\ conns[c].stage \in Pending \cup {"failed"}

Down == /\ current # 0 /\ runtimes[current].status = "disconnected"
        /\ runtimes[current].socket = 0 /\ runtimes[current].promise = 0
\* The close handler of connection c is under way, or the timer it armed.
Recovers(c) == /\ conns[c].rt = current /\ conns[c].cause = "lost"
               /\ handlers[c]["close"] \notin {"none", "done"} \/ c \in timers
\* A session that lost its connection gets a new socket from the worker on its own, unless a
\* call fails on the way, the session is deleted or the process ends; other handlers and
\* jobs may come in between.  (The last disjunct: the bound leaves it no other connection.)
Reconnects ==
    \A n \in 0..MaxFaults :
        Down /\ faults = n /\ (\E c \in Conns : Recovers(c))
        ~> \/ current # 0 /\ runtimes[current].socket # 0
           \/ faults # n \/ ~row \/ current = 0
           \/ Down /\ nConn = MaxConns

\* The API's session status tells whether the session is active: once nothing is under way,
\* it says connected exactly when the worker's runtime is.
ReportedStatus == IF rStatus # "none" THEN rStatus ELSE dbStatus
Steady == /\ Settled /\ boot = "over" /\ row /\ timers = {}
          /\ \A c \in Conns : conns[c].stage \notin {"new", "connecting"}
          /\ \A p \in Threads : \A k \in 0..Attempts[p] : queue[p][k] = 0
ActiveReportIsTrue ==
    Steady => (ReportedStatus = "connected" <=>
                  current # 0 /\ runtimes[current].status = "connected")

\* No job waits for ever: the promise it joined settles and waitForState ends.
\* (OutOfBounds: the thread needs a socket or a runtime the bounds no longer give it.)
OutOfBounds(p) == \/ nConn = MaxConns /\ threads[p].pc \in {"connect", "ensure", "use"}
                  \/ nRt = MaxRuntimes /\ current = 0
JobsFinish == \A p \in Threads :
                 threads[p].pc # "idle" ~> (threads[p].pc = "idle" \/ OutOfBounds(p))

\* An earlier connection's handler is still at work when a later connection has begun.
Straggling == \E c, d \in Conns, e \in Events :
                 /\ handlers[c][e] \notin {"none", "done"}
                 /\ c < d /\ conns[d].stage # "unused"
\* A deleted session stops reconnecting: in the end no timer and no creation is left, unless
\* a handler outlives the reconnect timer: it may drop the runtime of the next connection
\* while that is created, which then reconnects once more.
DeletedStops ==
    <>~row => \/ <>(~row /\ Straggling)
              \/ <>[](timers = {} /\ \A c \in Conns : conns[c].stage \notin Pending)
=============================================================================
