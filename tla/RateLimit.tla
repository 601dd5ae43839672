------------------------------ MODULE RateLimit ------------------------------
(***************************************************************************)
(* RateLimitGuard: a fixed window of requests for each policy and client,  *)
(* in the memory of the backend.  Time is counted backwards: `left' is     *)
(* what remains of a window, and `passed' how many requests passed so many *)
(* ticks ago, as far back as a window is long.                             *)
(***************************************************************************)
EXTENDS Naturals, FiniteSets

CONSTANTS
    Clients,        \* API keys, or else addresses
    Policies,       \* login, qr, messages, global
    Limit,          \* [Policies -> the requests a window lets pass]
    Window,         \* the window, in ticks
    Capacity,       \* buckets from which on expired ones are removed
    MaxRestarts     \* restarts of the backend                            (bound)

ASSUME RateAssumption ==
    /\ Limit \in [Policies -> Nat \ {0}]
    /\ Window \in Nat \ {0} /\ Capacity \in Nat /\ MaxRestarts \in Nat

Buckets == Policies \X Clients
Ago     == 0..(Window - 1)

VARIABLES
    kept,           \* the buckets in the map
    left, count,    \* resetAt - now, no less than zero; requests in the window
    passed,         \* requests that passed, so many ticks ago
    restarts

rateVars == <<kept, left, count, passed, restarts>>

RateInit ==
    /\ kept = {} /\ restarts = 0
    /\ left = [b \in Buckets |-> 0] /\ count = [b \in Buckets |-> 0]
    /\ passed = [b \in Buckets |-> [t \in Ago |-> 0]]

Expired(b) == left[b] = 0
\* getPolicy's limits; the first request of a window passes whatever they are.
LimitOf(b) == Limit[b[1]]
Passes(b) == passed' = [passed EXCEPT ![b][0] = @ + 1]

\* A bucket that is new or over starts a window; a full map loses the buckets that are over.
OpenWindow(b) ==
    /\ b \notin kept \/ Expired(b)
    /\ left' = [left EXCEPT ![b] = Window] /\ count' = [count EXCEPT ![b] = 1]
    /\ kept' = IF Cardinality(kept \cup {b}) < Capacity THEN kept \cup {b}
               ELSE {k \in kept \cup {b} : k = b \/ ~Expired(k)}
    /\ Passes(b)
    /\ UNCHANGED restarts

\* Mutant: the count is compared before it is raised.
CountRequestLate(b) ==
    /\ b \in kept /\ ~Expired(b)
    /\ count' = [count EXCEPT ![b] = IF @ > LimitOf(b) THEN @ ELSE @ + 1]
    /\ IF count[b] > LimitOf(b) THEN UNCHANGED passed ELSE Passes(b)
    /\ UNCHANGED <<kept, left, restarts>>
\* Mutant: a refused request starts the window again.
CountRequestExtends(b) ==
    /\ b \in kept /\ ~Expired(b)
    /\ count' = [count EXCEPT ![b] = IF @ > LimitOf(b) THEN @ ELSE @ + 1]
    /\ IF count'[b] > LimitOf(b)
       THEN left' = [left EXCEPT ![b] = Window] /\ UNCHANGED passed
       ELSE Passes(b) /\ UNCHANGED left
    /\ UNCHANGED <<kept, restarts>>
\* Refused requests are counted too; a count past the limit is not told apart.
CountRequest(b) ==
    /\ b \in kept /\ ~Expired(b)
    /\ count' = [count EXCEPT ![b] = IF @ > LimitOf(b) THEN @ ELSE @ + 1]
    /\ IF count'[b] > LimitOf(b) THEN UNCHANGED passed ELSE Passes(b)
    /\ UNCHANGED <<kept, left, restarts>>

TickRate ==
    /\ left' = [b \in Buckets |-> IF left[b] = 0 THEN 0 ELSE left[b] - 1]
    /\ passed' = [b \in Buckets |-> [t \in Ago |-> IF t = 0 THEN 0 ELSE passed[b][t - 1]]]
    /\ UNCHANGED <<kept, count, restarts>>

\* The map is gone with the process.
RestartRate ==
    /\ restarts < MaxRestarts /\ restarts' = restarts + 1
    /\ kept' = {} /\ left' = [b \in Buckets |-> 0] /\ count' = [b \in Buckets |-> 0]
    /\ UNCHANGED passed

RateNext ==
    \/ \E b \in Buckets : OpenWindow(b) \/ CountRequest(b)
    \/ TickRate \/ RestartRate

RateSpec == RateInit /\ [][RateNext]_rateVars
=============================================================================
