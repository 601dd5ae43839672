--------------------------- MODULE MCSessionGateway ---------------------------
(* Small instances of the gateway for TLC.                                    *)
EXTENDS SessionGatewayProperties, TLC

CONSTANTS QrJobs, UserJobs, QrTries, UserTries

MCAttempts == [p \in Users \cup {Qr} |-> IF p = Qr THEN QrTries ELSE UserTries]
MCMaxJobs  == [p \in Users \cup {Qr} |-> IF p = Qr THEN QrJobs ELSE UserJobs]

\* Once a socket is closed and its handlers are done, no step reads more of it than this.
Spent(c) == conns[c].stage = "closed" /\ \A e \in Events : handlers[c][e] \in {"none", "done"}
Seen(c) == IF Spent(c) THEN <<conns[c].rt, conns[c].gen>>
           ELSE <<[conns[c] EXCEPT !.pair = 0], handlers[c]>>
\* Nor of a runtime that the map has dropped and no connection will change.
Left(r) == /\ r # current
           /\ \A c \in Conns : conns[c].rt = r =>
                conns[c].stage = "failed" \/ (Spent(c) /\ c \notin timers)

\* Redis is only written by the gateway, of a status the gateway's steps ask only whether it
\* is connected, and of credentials and QR codes only whether there are any: a run that asks
\* no more of the stores need not tell their contents apart.
Known(status) == status = "connected"
\* The row's status is asked by the jobs of Users alone.
Asked == \E p \in Users : \/ asked[p] < MaxJobs[p] \/ threads[p].pc = "check"
                         \/ \E k \in 0..Attempts[p] : queue[p][k] > 0
MemoryView == <<row, Asked /\ Known(dbStatus), auth = 0, current, nRt, nConn, timers, queue, asked,
                environ,
                [r \in Runtimes |-> IF Left(r) THEN <<runtimes[r].gen, runtimes[r].promise>>
                                   ELSE <<[runtimes[r] EXCEPT !.qr = IF @ = 0 THEN 0 ELSE 1]>>],
                [p \in Threads |-> [threads[p] EXCEPT !.qr = 0, !.status = Known(@)]],
                [c \in Conns |-> Seen(c)]>>
=============================================================================
