------------------------- MODULE SessionGatewayStores -------------------------
(***************************************************************************)
(* What the handlers of a session's events leave in the stores.  They are  *)
(* not awaited: what one writes may come after what a later one wrote.     *)
(* The history variable upset records what disturbs the handler of the     *)
(* last event that tells of the connection, and the properties say what    *)
(* the stores hold when nothing of that kind has.                          *)
(***************************************************************************)
EXTENDS SessionGatewayProperties

\* What the handler of the last telling event met: "telling", an earlier handler that still
\* had to tell the stores; "saving", one that still had to save credentials; "failing", a
\* call of one that failed.
VARIABLE upset

\* The events whose handler tells the stores the runtime's status.
Telling == {"connecting", "qr", "open", "close"}
Working(c, e) == handlers[c][e] \notin {"none", "done"}

Met == {k \in {"telling", "saving"} :
          \E c \in Conns, e \in Events :
             Working(c, e) /\ IF k = "saving" THEN At(c, e, "save") ELSE e \in Telling}

\* A telling event comes; a handler of one fails.
Event   == \E c \in Conns, e \in Telling :
             handlers[c][e] = "none" /\ handlers'[c][e] # "none"
Failure == /\ faults' # faults
           /\ \E c \in Conns, e \in Telling : handlers'[c][e] # handlers[c][e]

Watch == upset' = CASE restarts' # restarts -> {}
                    [] restarts' = restarts /\ Event -> Met
                    [] restarts' = restarts /\ ~Event /\ Failure -> upset \cup {"failing"}
                    [] OTHER -> upset

watchedVars == <<vars, upset>>
WatchedInit == Init /\ upset = {}
WatchedNext == Next /\ Watch
WatchedSpec == WatchedInit /\ [][WatchedNext]_watchedVars
WatchedFairSpec == WatchedSpec /\ Fairness

-----------------------------------------------------------------------------

\* Once everything that was started has finished, the database and Redis tell the dashboard
\* the status the worker holds, unless the last event's handler met another that was still
\* telling them, which it may be overtaken by, or a call of a handler has failed.
StoresAgree ==
    /\ Settled /\ row /\ current # 0 /\ runtimes[current].status # "created" /\ boot = "over"
    /\ upset \subseteq {"saving"}
    => /\ dbStatus = runtimes[current].status
       /\ rStatus \in {"none", runtimes[current].status}

\* A session the phone logged out is not reconnected by the worker on its own, whatever its
\* handlers meet.  Its credentials are gone in the end, unless an earlier handler was still
\* saving them when the logout came, which may store them again, or a call has failed.
LogoutIsFinal ==
    current # 0 /\ runtimes[current].status = "logged_out" =>
        /\ timers = {} /\ runtimes[current].promise = 0
        /\ Settled /\ upset \subseteq {"telling"} => auth = 0
=============================================================================
