------------------------------ MODULE Requests ------------------------------
(***************************************************************************)
(* What the pages of the frontend share: HTTP requests to the backend that *)
(* are in flight at once and answered in any order.  What a page can show  *)
(* of the backend is one number, `rev', that every change increases; a     *)
(* request that reads returns the number of the moment it is served at.    *)
(***************************************************************************)
EXTENDS Naturals

CONSTANTS
    Calls,          \* requests in flight at once                         (bound)
    MaxRev,         \* changes of the backend's data                      (bound)
    MaxLosses       \* requests that fail on the way                      (bound)

ASSUME RequestsAssumption == MaxRev \in Nat /\ MaxLosses \in Nat

VARIABLES
    rev,            \* the backend's data
    denied,         \* the account was blocked, or the portal link revoked
    losses,
    call,           \* the requests in flight: what for, served or not, what they read
    page,           \* the page the browser shows
    busy            \* its buttons that wait for an answer

net == <<rev, denied, losses>>

Idle == [what |-> "none", stage |-> "free", seen |-> 0, after |-> 0]

IsFree(c)      == call[c] = Idle
Answer(c, what) == call[c].what = what /\ call[c].stage \in {"ok", "error"}
Ok(c)          == call[c].stage = "ok"

\* fetch(): `after' is what the request is sent in answer to.
Send(c, what, after) ==
    call' = [call EXCEPT ![c] = [what |-> what, stage |-> "sent", seen |-> 0, after |-> after]]
Free(c) == call' = [call EXCEPT ![c] = Idle]

Wait(button) == busy' = busy \cup {button}
Done(button) == busy' = busy \ {button}

\* The page is left: its state is gone, and so is what it would do with the answers.  What
\* a request of it still changes is among the changes of others.
Close == call' = [c \in Calls |-> Idle] /\ page' = "login" /\ busy' = {}

RequestsInit ==
    /\ rev = 0 /\ denied = FALSE /\ losses = 0
    /\ call = [c \in Calls |-> Idle] /\ page = "login" /\ busy = {}

\* The requests that change something.
Writes == {"createUser", "deleteUser", "keyStatus", "adminStatus", "deleteAdmin", "backupAct",
           "password", "key", "qr", "userPassword", "portalQr", "portalSend", "logout"}

\* Mutant: reads may come from a cache, without `no-store'.
ServeCached(c) ==
    /\ call[c].stage = "sent"
    /\ \/ /\ ~denied \/ call[c].what = "logout"
          /\ rev' \in IF call[c].what \in Writes THEN {rev, rev + 1} \cap 0..MaxRev ELSE {rev}
          /\ \E seen \in IF call[c].what \in Writes THEN {rev'} ELSE 0..rev :
                call' = [call EXCEPT ![c].stage = "ok", ![c].seen = seen]
          /\ UNCHANGED losses
       \/ /\ denied \/ call[c].what \in Writes \/ losses < MaxLosses
          /\ losses' = IF denied \/ call[c].what \in Writes THEN losses ELSE losses + 1
          /\ call' = [call EXCEPT ![c].stage = "error"]
          /\ UNCHANGED rev
    /\ UNCHANGED <<denied, page, busy>>
\* The backend serves a request, refuses it, or it fails on the way.  A write may find
\* nothing to change.
Serve(c) ==
    /\ call[c].stage = "sent"
    /\ \/ /\ ~denied \/ call[c].what = "logout"
          /\ rev' \in IF call[c].what \in Writes THEN {rev, rev + 1} \cap 0..MaxRev ELSE {rev}
          /\ call' = [call EXCEPT ![c].stage = "ok", ![c].seen = rev']
          /\ UNCHANGED losses
       \/ /\ denied \/ call[c].what \in Writes \/ losses < MaxLosses
          /\ losses' = IF denied \/ call[c].what \in Writes THEN losses ELSE losses + 1
          /\ call' = [call EXCEPT ![c].stage = "error"]
          /\ UNCHANGED rev
    /\ UNCHANGED <<denied, page, busy>>

\* The worker, other people, and requests of pages that were left.
Change ==
    /\ \/ rev < MaxRev /\ rev' = rev + 1 /\ UNCHANGED denied
       \/ ~denied /\ denied' = TRUE /\ UNCHANGED rev
    /\ UNCHANGED <<losses, call, page, busy>>
=============================================================================
