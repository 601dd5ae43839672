--------------------------- MODULE MessageDelivery ---------------------------
(* What the send queue promises of each message: it is accepted once, tried   *)
(* a bounded number of times, delivered at most once per try, and nothing     *)
(* happens to it after its job has completed or failed.  Which of the two     *)
(* depends on the tries: success takes a delivery or a number that is not on  *)
(* WhatsApp, failure takes every attempt BullMQ grants or a stalled job.      *)
EXTENDS Naturals

CONSTANTS Messages,
          Unreachable,   \* messages whose number may turn out not to be on WhatsApp
          Attempts,      \* attempts of a job
          Stalls         \* times workers may die

VARIABLES phase,     \* [Messages -> {"new", "accepted", "completed", "failed"}]
          tries,     \* tries begun
          delivered  \* times WhatsApp took the message

vars == <<phase, tries, delivered>>

Init == /\ phase = [m \in Messages |-> "new"]
        /\ tries = [m \in Messages |-> 0]
        /\ delivered = [m \in Messages |-> 0]

Accept(m) == /\ phase[m] = "new"
             /\ phase' = [phase EXCEPT ![m] = "accepted"]
             /\ UNCHANGED <<tries, delivered>>

\* A stalled job is tried again once, in addition to its attempts.
Grants == Attempts + (IF Stalls > 0 THEN 1 ELSE 0)

Try(m) == /\ phase[m] = "accepted" /\ tries[m] < Grants
          /\ tries' = [tries EXCEPT ![m] = @ + 1]
          /\ UNCHANGED <<phase, delivered>>

Deliver(m) == /\ phase[m] = "accepted" /\ delivered[m] < tries[m]
              /\ delivered' = [delivered EXCEPT ![m] = @ + 1]
              /\ UNCHANGED <<phase, tries>>

Complete(m) == /\ phase[m] = "accepted" /\ tries[m] > 0
               /\ delivered[m] > 0 \/ m \in Unreachable
               /\ phase' = [phase EXCEPT ![m] = "completed"]
               /\ UNCHANGED <<tries, delivered>>

\* BullMQ gives a job up after its attempts, or when a second worker died on it.
Fail(m) == /\ phase[m] = "accepted"
           /\ tries[m] >= Attempts \/ (Stalls > 1 /\ tries[m] > 1)
           /\ phase' = [phase EXCEPT ![m] = "failed"]
           /\ UNCHANGED <<tries, delivered>>

Next == \E m \in Messages : Accept(m) \/ Try(m) \/ Deliver(m) \/ Complete(m) \/ Fail(m)

Spec == Init /\ [][Next]_vars
=============================================================================
