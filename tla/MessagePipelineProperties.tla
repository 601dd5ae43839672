---------------------- MODULE MessagePipelineProperties ----------------------
(* What the pipeline keeps true of every message.                            *)
EXTENDS MessagePipeline

Requests == {"new", "refused", "stored", "resolved", "enqueued", "logged", "answered", "error"}
Jobs     == {"none", "waiting", "active", "completed", "failed"}
Logs     == {"none", "queued", "sent", "failed"}
Pcs      == {"idle", "ensure", "check", "send", "log", "create", "bump", "mark", "note",
             "cleanup", "settle"}

Workers  == [msg : Messages \cup {"none"}, pc : Pcs, result : {"sent", "failed"},
             mode : {"runs", "threw"}]

\* Types of the variables.
TypeOK ==
    /\ request \in [Messages -> Requests] /\ upload \in [Messages -> BOOLEAN]
    /\ job \in [Messages -> Jobs] /\ made \in [Messages -> 0..Attempts]
    /\ tried \in [Messages -> Nat] /\ stalls \in [Messages -> Nat]
    /\ log \in [Messages -> Logs] /\ delivered \in [Messages -> Nat]
    /\ worker \in Workers
    /\ sent \in Nat /\ failed \in Nat
    /\ events \subseteq Messages /\ recorded \in [Messages -> Nat]
    /\ gone \in BOOLEAN /\ faults \in Nat /\ crashes \in Nat

\* A row that says sent is about a message WhatsApp took.
SentMeansDelivered == \A m \in Messages : log[m] = "sent" => delivered[m] > 0

\* A job that completed left its result in the log, although the backend writes the row
\* only after the job is in the queue: whichever came first, the result stands.
CompletedHasResult ==
    \A m \in Messages : job[m] = "completed" /\ ~gone => log[m] \in {"sent", "failed"}

\* As long as no call fails and no process dies, the day's counters are the rows' statuses
\* whenever the worker is between two jobs: a retry is never counted twice.
CountersMatch ==
    faults = 0 /\ crashes = 0 /\ ~gone /\ worker = Idle =>
        /\ sent   = Cardinality({m \in Messages : log[m] = "sent"})
        /\ failed = Cardinality({m \in Messages : log[m] = "failed"})

\* The row of a message whose result is known never goes back to queued.
ResultNotRequeued ==
    [][\A m \in Messages : log[m] \in {"sent", "failed"} => log'[m] # "queued"]_vars

\* Every message that reached the queue comes to an end, and one that failed reaches the
\* dead-letter list unless a worker died.
JobsSettle ==
    \A m \in Messages :
        job[m] = "waiting" ~>
            (job[m] = "completed" \/ (job[m] = "failed" /\ (recorded[m] > 0 \/ crashes > 0)))

\* The runbook's promise about uploads: the worker removes a file after the send attempts
\* of its message have finished, neither before nor never.
UploadKeptUntilFinished ==
    \A m \in Files :
        /\ job[m] = "waiting" => upload[m]
        /\ job[m] \in {"completed", "failed"} => ~upload[m]

\* The queue implements what it promises of each message.
PhaseOf(m) == CASE job[m] = "none" -> "new"
                [] job[m] \in {"completed", "failed"} -> job[m]
                [] OTHER -> "accepted"
Delivery == INSTANCE MessageDelivery WITH
    Unreachable <- Checked,
    Stalls <- MaxCrashes,
    phase <- [m \in Messages |-> PhaseOf(m)],
    tries <- tried
ImplementsDelivery == Delivery!Spec
=============================================================================
