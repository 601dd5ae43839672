--------------------------- MODULE MessagePipeline ---------------------------
(***************************************************************************)
(* A message's way through the system, for the messages of one session:    *)
(* the backend's request handler (the upload, the queue, the message log), *)
(* BullMQ's send queue with its attempts, the send worker with its failure *)
(* path and upload clean-up, the daily counters and the dead-letter list.  *)
(* The gateway appears only as calls that succeed, fail, or deliver and    *)
(* then fail.  One action is what runs between two awaits.                 *)
(***************************************************************************)
EXTENDS Naturals, FiniteSets

CONSTANTS
    Messages,
    Files,          \* those sent as a file, with an upload on disk
    Checked,        \* those whose number is checked first (checkAndSend)
    Attempts,       \* attempts BullMQ grants a send job (3 in the code)
    MaxFaults,      \* failing database and Redis calls                  (bound)
    MaxCrashes,     \* times the worker process dies                     (bound)
    MayDelete       \* whether the user may be deleted meanwhile

ASSUME PipelineAssumption ==
    /\ Files \subseteq Messages /\ Checked \subseteq Messages
    /\ Attempts \in Nat \ {0} /\ MaxFaults \in Nat /\ MaxCrashes \in Nat
    /\ MayDelete \in BOOLEAN

VARIABLES
    request,    \* the API request of each message
    upload,     \* its uploaded file is on disk
    job,        \* its BullMQ job
    made,       \* job.attemptsMade
    tried,      \* attempts begun, the interrupted ones included
    stalls,     \* times a worker died on it
    log,        \* its message_logs row: "none" or the row's status
    delivered,  \* times WhatsApp took it
    worker,     \* the send worker: which message, where in the handler, what it reports
    sent, failed,   \* usage_daily of the session
    events,     \* 'failed' events QueueEvents has not delivered yet
    recorded,   \* how often the dead-letter recorder counted the job
    gone,       \* the user, the session and all their rows are deleted
    faults, crashes

backend == <<request, upload>>
bull    == <<job, made, tried, stalls>>
usage   == <<sent, failed>>
alarm   == <<events, recorded>>
bounds  == <<gone, faults, crashes>>
vars    == <<backend, bull, log, delivered, worker, usage, alarm, bounds>>

Idle == [msg |-> "none", pc |-> "idle", result |-> "sent", mode |-> "runs"]

Init ==
    /\ request = [m \in Messages |-> "new"] /\ upload = [m \in Messages |-> FALSE]
    /\ job = [m \in Messages |-> "none"]
    /\ made = [m \in Messages |-> 0] /\ tried = [m \in Messages |-> 0]
    /\ stalls = [m \in Messages |-> 0]
    /\ log = [m \in Messages |-> "none"] /\ delivered = [m \in Messages |-> 0]
    /\ worker = Idle /\ sent = 0 /\ failed = 0
    /\ events = {} /\ recorded = [m \in Messages |-> 0]
    /\ gone = FALSE /\ faults = 0 /\ crashes = 0

-----------------------------------------------------------------------------
(* The backend: sendFile and sendMessage, then queueXMessage.              *)

\* Multer has stored the upload, the checks and the scan have passed.
Accept(m) ==
    /\ request[m] = "new"
    /\ request' = [request EXCEPT ![m] = "stored"]
    /\ upload' = [upload EXCEPT ![m] = m \in Files]
    /\ UNCHANGED <<bull, log, delivered, worker, usage, alarm, bounds>>

\* The name is too long or inspect refuses: the upload is discarded.
Reject(m) ==
    /\ request[m] = "new" /\ m \in Files
    /\ request' = [request EXCEPT ![m] = "refused"]
    /\ UNCHANGED <<upload, bull, log, delivered, worker, usage, alarm, bounds>>

\* resolveUserSession.
Resolve(m) ==
    /\ request[m] = "stored"
    /\ request' = [request EXCEPT ![m] = IF gone THEN "error" ELSE "resolved"]
    /\ UNCHANGED <<upload, bull, log, delivered, worker, usage, alarm, bounds>>

\* A call to the database or to the queue's Redis fails: the upload stays.
RequestFails(m) ==
    /\ request[m] \in {"stored", "resolved", "enqueued", "logged"}
    /\ faults < MaxFaults
    /\ faults' = faults + 1
    /\ request' = [request EXCEPT ![m] = "error"]
    /\ UNCHANGED <<upload, bull, log, delivered, worker, usage, alarm, gone, crashes>>

\* The job is in the queue before its log row exists.
Enqueue(m) ==
    /\ request[m] = "resolved"
    /\ request' = [request EXCEPT ![m] = "enqueued"]
    /\ job' = [job EXCEPT ![m] = "waiting"]
    /\ UNCHANGED <<upload, made, tried, stalls, log, delivered, worker, usage, alarm, bounds>>

\* Mutant: the backend's write replaces a row that exists.
CreatesAnyway(m) == ~gone
\* messageLog.create: jobId is unique and the session must exist.
CanCreate(m) == ~gone /\ log[m] = "none"

CreateLog(m) ==
    /\ request[m] = "enqueued"
    /\ request' = [request EXCEPT ![m] = IF CanCreate(m) THEN "logged" ELSE "error"]
    /\ log' = IF CanCreate(m) THEN [log EXCEPT ![m] = "queued"] ELSE log
    /\ UNCHANGED <<upload, bull, delivered, worker, usage, alarm, bounds>>

\* The audit row is written, the event emitted, the message's id returned.
Answer(m) ==
    /\ request[m] = "logged"
    /\ request' = [request EXCEPT ![m] = IF gone THEN "error" ELSE "answered"]
    /\ UNCHANGED <<upload, bull, log, delivered, worker, usage, alarm, bounds>>

-----------------------------------------------------------------------------
(* The send worker: one job at a time.                                     *)

On(m, pc) == worker.msg = m /\ worker.pc = pc
Goto(pc)  == worker' = [worker EXCEPT !.pc = pc]

\* Mutant: every failed attempt is taken for the last one.
EveryAttemptFinal(m) == TRUE
\* handleSendFailure's isFinalAttempt.
Final(m) == made[m] + 1 >= Attempts

\* The try statement is left: only the file handlers have a finally clause.
Leaves(m) == Goto(IF m \in Files THEN "cleanup" ELSE "settle")

Take(m) ==
    /\ worker = Idle /\ job[m] = "waiting"
    /\ job' = [job EXCEPT ![m] = "active"]
    /\ tried' = [tried EXCEPT ![m] = @ + 1]
    /\ worker' = [Idle EXCEPT !.msg = m, !.pc = "ensure"]
    /\ UNCHANGED <<backend, made, stalls, log, delivered, usage, alarm, bounds>>

\* Mutant: the result is written before the message is sent.
LogsFirst(m) == "log"
\* What the handler's try statement starts with.
FirstStep(m) == IF m \in Checked THEN "check" ELSE "send"

\* The worker's ensureConnected, outside the try: what it throws skips everything below.
EnsureConnected(m) ==
    /\ On(m, "ensure")
    /\ \/ ~gone /\ Goto(FirstStep(m))
       \/ worker' = [worker EXCEPT !.pc = "settle", !.mode = "threw"]
    /\ UNCHANGED <<backend, bull, log, delivered, usage, alarm, bounds>>

\* What the catch clause starts with: a note on the row, or the final result.
Catches(m) ==
    IF worker.mode = "threw" THEN Leaves(m)
    ELSE worker' = [worker EXCEPT !.pc = IF Final(m) THEN "log" ELSE "note",
                                  !.result = "failed", !.mode = "threw"]

\* checkNumber throws, finds the number or does not.
CheckNumber(m) ==
    /\ On(m, "check")
    /\ \/ Goto("send")
       \/ worker' = [worker EXCEPT !.pc = "log", !.result = "failed"]
       \/ Catches(m)
    /\ UNCHANGED <<backend, bull, log, delivered, usage, alarm, bounds>>

\* sendText or sendFile: a file is read first; a call that delivered may still throw.
Send(m) ==
    /\ On(m, "send")
    /\ \/ /\ m \in Files => upload[m]
          /\ delivered' = [delivered EXCEPT ![m] = @ + 1]
          /\ Goto("log") \/ Catches(m)
       \/ Catches(m) /\ UNCHANGED delivered
    /\ UNCHANGED <<backend, bull, log, usage, alarm, bounds>>

\* Mutant: finalizeMessageLog updates and does not create.
AfterUpdateOnly(m) == "bump"
\* finalizeMessageLog: updateMany, and create when no row was there.
AfterUpdate(m) == IF log[m] = "none" THEN "create" ELSE "bump"

UpdateLog(m) ==
    /\ On(m, "log")
    /\ log' = IF log[m] = "none" THEN log ELSE [log EXCEPT ![m] = worker.result]
    /\ Goto(AfterUpdate(m))
    /\ UNCHANGED <<backend, bull, delivered, usage, alarm, bounds>>

FinalizeByCreate(m) ==
    /\ On(m, "create")
    /\ IF CanCreate(m) THEN /\ log' = [log EXCEPT ![m] = worker.result]
                            /\ Goto("bump")
                       ELSE Catches(m) /\ UNCHANGED log
    /\ UNCHANGED <<backend, bull, delivered, usage, alarm, bounds>>

\* bumpUsage; a message that was sent sets the queue's last-run key afterwards.
BumpUsage(m) ==
    /\ On(m, "bump")
    /\ IF gone THEN Catches(m) /\ UNCHANGED usage
       ELSE IF worker.result = "sent" THEN sent' = sent + 1 /\ Goto("mark") /\ UNCHANGED failed
       ELSE failed' = failed + 1 /\ Leaves(m) /\ UNCHANGED sent
    /\ UNCHANGED <<backend, bull, log, delivered, alarm, bounds>>

\* The last-run key, or the note on a row that will be retried: neither changes a status.
MarkOrNote(m) ==
    /\ On(m, "mark") \/ On(m, "note")
    /\ Leaves(m)
    /\ UNCHANGED <<backend, bull, log, delivered, usage, alarm, bounds>>

\* finally: cleanupUpload, after every attempt that got this far; an rm that fails is caught
\* and leaves the file.
Cleanup(m) ==
    /\ On(m, "cleanup")
    /\ upload' \in {upload, [upload EXCEPT ![m] = FALSE]}
    /\ Goto("settle")
    /\ UNCHANGED <<request, bull, log, delivered, usage, alarm, bounds>>

\* Mutant: the last attempt is not the last.
GivesUpLate(m) == made[m] + 1 > Attempts
\* BullMQ moves a job that threw back to the queue while it has attempts.
GivesUp(m) == made[m] + 1 >= Attempts

Settle(m) ==
    /\ On(m, "settle")
    /\ made' = [made EXCEPT ![m] = @ + 1]
    /\ job' = [job EXCEPT ![m] = IF worker.mode = "runs" THEN "completed"
                                 ELSE IF GivesUp(m) THEN "failed" ELSE "waiting"]
    /\ events' = IF worker.mode = "threw" /\ GivesUp(m) THEN events \cup {m} ELSE events
    /\ worker' = Idle
    /\ UNCHANGED <<backend, tried, stalls, log, delivered, usage, recorded, bounds>>

\* An await of the handler rejects; in the catch clause the rest of it is skipped.
WorkerFault(m) ==
    /\ worker.msg = m /\ worker.pc \in {"log", "create", "bump", "mark", "note"}
    /\ faults < MaxFaults
    /\ faults' = faults + 1
    /\ Catches(m)
    /\ UNCHANGED <<backend, bull, log, delivered, usage, alarm, gone, crashes>>

\* QueueEvents: the recorder pushes, trims and counts in one Redis transaction.
RecordDeadLetter(m) ==
    /\ m \in events
    /\ events' = events \ {m}
    /\ recorded' = [recorded EXCEPT ![m] = @ + 1]
    /\ UNCHANGED <<backend, bull, log, delivered, worker, usage, bounds>>

\* Mutant: nobody looks for stalled jobs.
NeverFound(m) == "active"
\* BullMQ finds a job whose worker died and queues it again, once.
AfterStall(m) == IF stalls[m] > 0 THEN "failed" ELSE "waiting"

\* The worker process dies.  QueueEvents starts again at the newest event.
Crash ==
    /\ crashes < MaxCrashes
    /\ crashes' = crashes + 1
    /\ worker' = Idle
    /\ stalls' = [m \in Messages |-> IF job[m] = "active" THEN stalls[m] + 1 ELSE stalls[m]]
    /\ job' = [m \in Messages |-> IF job[m] = "active" THEN AfterStall(m) ELSE job[m]]
    /\ events' = {m \in Messages : job[m] = "active" /\ stalls[m] > 0}
    /\ UNCHANGED <<backend, made, tried, log, delivered, usage, recorded, gone, faults>>

\* deleteUsersCascade: the logs, the counters and the session go in one transaction.
DeleteUser ==
    /\ MayDelete /\ ~gone
    /\ gone' = TRUE
    /\ log' = [m \in Messages |-> "none"] /\ sent' = 0 /\ failed' = 0
    /\ UNCHANGED <<backend, bull, delivered, worker, alarm, faults, crashes>>

RequestStep(m) == \/ Accept(m) \/ Reject(m) \/ Resolve(m) \/ RequestFails(m)
                  \/ Enqueue(m) \/ CreateLog(m) \/ Answer(m)
WorkerStep(m) ==
    \/ Take(m) \/ EnsureConnected(m) \/ CheckNumber(m) \/ Send(m) \/ UpdateLog(m)
    \/ FinalizeByCreate(m) \/ BumpUsage(m) \/ MarkOrNote(m) \/ Cleanup(m) \/ Settle(m)

Next ==
    \/ \E m \in Messages : RequestStep(m) \/ WorkerStep(m) \/ WorkerFault(m) \/ RecordDeadLetter(m)
    \/ Crash \/ DeleteUser

Spec == Init /\ [][Next]_vars

\* The worker goes on with the job it has and takes the next, the events are delivered.
FairSpec == /\ Spec
            /\ WF_vars(\E m \in Messages : WorkerStep(m))
            /\ \A m \in Messages : WF_vars(RecordDeadLetter(m))
=============================================================================
