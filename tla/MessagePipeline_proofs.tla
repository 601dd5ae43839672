----------------------- MODULE MessagePipeline_proofs -----------------------
(***************************************************************************)
(* Proofs about the message pipeline, for any set of messages, any number  *)
(* of attempts, faults and crashes.  The inductive invariant Inv relates   *)
(* the worker's place in its handler to the job, the log and the number of *)
(* deliveries; from it follow the safety properties and the refinement of  *)
(* MessageDelivery.                                                        *)
(***************************************************************************)
EXTENDS MessagePipelineProperties, FiniteSetTheorems, TLAPS

\* The worker is on exactly the job that is active; a job not given up has an attempt left.
WorkerOnActive ==
    /\ worker.pc = "idle" => worker = Idle
    /\ worker.pc # "idle" => worker.msg \in Messages
    /\ \A m \in Messages : job[m] = "active" <=> worker.msg = m /\ worker.pc # "idle"
    /\ \A m \in Messages : job[m] \in {"none", "waiting", "active"} => made[m] < Attempts
    /\ \A m \in Messages : request[m] \in {"new", "stored", "resolved"} => job[m] = "none"

\* Every attempt begun ended in an attempt made, in a stall, or is under way.
TriesAccounted ==
    /\ crashes <= MaxCrashes
    /\ \A m \in Messages :
         /\ tried[m] = made[m] + stalls[m] + (IF job[m] = "active" THEN 1 ELSE 0)
         /\ stalls[m] <= crashes
         /\ job[m] \in {"none", "waiting", "active"} => stalls[m] <= 1
         /\ delivered[m] <= tried[m]
    /\ worker.pc \in {"ensure", "check", "send"} => delivered[worker.msg] < tried[worker.msg]

Writing == worker.pc \in {"log", "create", "bump", "mark"}
LeavesWell == worker.pc \in {"cleanup", "settle"} /\ worker.mode = "runs"
\* What the worker is about to write is so, and what it has written is there.
ResultJustified ==
    /\ Writing /\ worker.mode = "threw" => worker.result = "failed"
    /\ worker.pc = "check" => worker.msg \in Checked
    /\ worker.pc = "mark" => worker.result = "sent"
    /\ worker.pc = "note" => worker.mode = "threw"
    /\ worker.pc \in {"ensure", "check", "send"} => worker.mode = "runs" /\ worker.result = "sent"
    /\ Writing /\ worker.result = "sent" => delivered[worker.msg] > 0
    /\ Writing /\ worker.result = "failed" /\ worker.mode = "runs" => worker.msg \in Checked
    /\ LeavesWell => delivered[worker.msg] > 0 \/ worker.msg \in Checked
    /\ worker.pc \in {"bump", "mark"} \/ LeavesWell =>
         gone \/ log[worker.msg] \in {"sent", "failed"}

Inv == /\ TypeOK /\ WorkerOnActive /\ TriesAccounted /\ ResultJustified
       /\ SentMeansDelivered /\ CompletedHasResult

-----------------------------------------------------------------------------
(* How the worker's record changes.                                          *)

\* The worker moves to one of pcs, with that result and mode, on the same message.
Becomes(pcs, result, mode) ==
    /\ worker' \in Workers /\ worker'.msg = worker.msg /\ worker'.pc \in pcs
    /\ worker'.result = result /\ worker'.mode = mode

\* Going on changes nothing but the place.
LEMMA GotoEffect ==
  ASSUME worker \in Workers, NEW pc \in Pcs, Goto(pc)
  PROVE  Becomes({pc}, worker.result, worker.mode)
  BY DEF Workers, Goto, Becomes

\* Leaving the try statement, neither.
LEMMA LeavesEffect ==
  ASSUME worker \in Workers, NEW m, Leaves(m)
  PROVE  Becomes({"cleanup", "settle"}, worker.result, worker.mode)
<1>1. CASE m \in Files
  BY <1>1, GotoEffect DEF Leaves, Pcs, Becomes
<1>2. CASE m \notin Files
  BY <1>2, GotoEffect DEF Leaves, Pcs, Becomes
<1> QED
  BY <1>1, <1>2

\* The result that will be written when the number is not on WhatsApp.
LEMMA NotFoundEffect ==
  ASSUME worker \in Workers, worker' = [worker EXCEPT !.pc = "log", !.result = "failed"]
  PROVE  Becomes({"log"}, "failed", worker.mode)
  BY DEF Workers, Becomes, Pcs

\* A first throw enters the catch clause, a second one leaves it.
LEMMA CatchesEffect ==
  ASSUME worker \in Workers, NEW m, Catches(m)
  PROVE  \/ worker.mode = "threw" /\ Becomes({"cleanup", "settle"}, worker.result, "threw")
         \/ worker.mode = "runs" /\ Becomes({"log", "note"}, "failed", "threw")
<1>1. CASE worker.mode = "threw"
  BY <1>1, LeavesEffect DEF Catches
<1>2. CASE worker.mode # "threw"
  <2>1. PICK pc \in {"log", "note"} :
           worker' = [worker EXCEPT !.pc = pc, !.result = "failed", !.mode = "threw"]
    BY <1>2 DEF Catches
  <2>2. worker.mode = "runs"
    BY <1>2 DEF Workers
  <2> QED
    BY <2>1, <2>2 DEF Workers, Becomes, Pcs
<1> QED
  BY <1>1, <1>2

\* A step of the worker on its job keeps it on that job.
LEMMA StaysOnJob ==
  ASSUME Inv, worker.pc # "idle", NEW pcs, "idle" \notin pcs, NEW result, NEW mode,
         Becomes(pcs, result, mode), UNCHANGED <<request, job, made>>
  PROVE  WorkerOnActive'
  BY DEF Inv, WorkerOnActive, Becomes, Workers

-----------------------------------------------------------------------------
(* The invariant is inductive.                                               *)

\* It holds initially.
LEMMA InitInv == Init => Inv
<1> SUFFICES ASSUME Init PROVE Inv
  OBVIOUS
<1>1. TypeOK
  <2>1. worker \in Workers
    BY DEF Init, Idle, Workers, Pcs
  <2>2. gone \in BOOLEAN
    BY Zenon DEF Init
  <2>3. events \subseteq Messages
    BY DEF Init
  <2>4. /\ request \in [Messages -> Requests] /\ upload \in [Messages -> BOOLEAN]
        /\ job \in [Messages -> Jobs] /\ made \in [Messages -> 0..Attempts]
    BY PipelineAssumption DEF Init, Requests, Jobs
  <2>5. /\ tried \in [Messages -> Nat] /\ stalls \in [Messages -> Nat]
        /\ log \in [Messages -> Logs] /\ delivered \in [Messages -> Nat]
        /\ recorded \in [Messages -> Nat]
        /\ sent \in Nat /\ failed \in Nat /\ faults \in Nat /\ crashes \in Nat
    BY DEF Init, Logs
  <2> QED
    BY <2>1, <2>2, <2>3, <2>4, <2>5 DEF TypeOK
<1>2. WorkerOnActive /\ TriesAccounted
  BY PipelineAssumption DEF Init, Idle, WorkerOnActive, TriesAccounted
<1>3. ResultJustified
  BY DEF Init, Idle, ResultJustified, Writing, LeavesWell
<1>4. SentMeansDelivered /\ CompletedHasResult
  BY DEF Init, SentMeansDelivered, CompletedHasResult
<1> QED
  BY <1>1, <1>2, <1>3, <1>4 DEF Inv

\* ensureConnected: into the try statement, or out of the handler.
LEMMA EnsureConnectedInv == ASSUME Inv, NEW m \in Messages, EnsureConnected(m) PROVE Inv'
<1>1. worker \in Workers /\ worker.msg = m /\ worker.pc # "idle"
  BY DEF Inv, TypeOK, EnsureConnected, On
<1>2. \/ ~gone /\ Becomes({FirstStep(m)}, worker.result, worker.mode)
      \/ Becomes({"settle"}, worker.result, "threw")
  <2>1. FirstStep(m) \in Pcs
    BY DEF FirstStep, Pcs
  <2>2. CASE ~gone /\ Goto(FirstStep(m))
    BY <1>1, <2>1, <2>2, GotoEffect
  <2>3. CASE worker' = [worker EXCEPT !.pc = "settle", !.mode = "threw"]
    BY <1>1, <2>3 DEF Becomes, Workers, Pcs
  <2> QED
    BY <2>2, <2>3 DEF EnsureConnected
<1>3. TypeOK'
  BY <1>1, <1>2
     DEF Inv, TypeOK, Workers, Requests, Jobs, Logs, Becomes, EnsureConnected, FirstStep,
         backend, bull, usage, alarm, bounds
<1>4. WorkerOnActive'
  BY <1>1, <1>2, StaysOnJob DEF EnsureConnected, FirstStep, bull, backend
<1>5. TriesAccounted'
  BY <1>1, <1>2
     DEF Inv, TriesAccounted, WorkerOnActive, TypeOK, Becomes, EnsureConnected, FirstStep, On,
         backend, bull, usage, alarm, bounds
<1>6. ResultJustified'
  BY <1>1, <1>2, PipelineAssumption
     DEF Inv, ResultJustified, WorkerOnActive, TypeOK, Workers, Writing, LeavesWell, Becomes,
         EnsureConnected, FirstStep, On, backend, bull, usage, alarm, bounds
<1>7. SentMeansDelivered' /\ CompletedHasResult'
  BY <1>1, <1>2
     DEF Inv, SentMeansDelivered, CompletedHasResult, ResultJustified, WorkerOnActive, TypeOK,
         Workers, Writing, Becomes, EnsureConnected, FirstStep, On, backend, bull, usage, alarm,
         bounds
<1> QED
  BY <1>3, <1>4, <1>5, <1>6, <1>7 DEF Inv

\* The number check: found, not found (only for a checked message), or thrown.
LEMMA CheckNumberInv == ASSUME Inv, NEW m \in Messages, CheckNumber(m) PROVE Inv'
<1>1. worker \in Workers /\ worker.msg = m /\ worker.pc # "idle"
  BY DEF Inv, TypeOK, CheckNumber, On
<1>2. \/ Becomes({"send"}, worker.result, worker.mode)
      \/ Becomes({"log"}, "failed", worker.mode)
      \/ Becomes({"cleanup", "settle", "log", "note"}, "failed", "threw")
  <2>1. CASE Goto("send")
    BY <1>1, <2>1, GotoEffect DEF Pcs
  <2>2. CASE worker' = [worker EXCEPT !.pc = "log", !.result = "failed"]
    BY <1>1, <2>2, NotFoundEffect
  <2>3. CASE Catches(m)
    <3>1. worker.mode = "runs"
      BY DEF Inv, ResultJustified, CheckNumber, On
    <3> QED
      BY <1>1, <2>3, <3>1, CatchesEffect DEF Becomes
  <2> QED
    BY <2>1, <2>2, <2>3 DEF CheckNumber
<1>3. TypeOK'
  BY <1>1, <1>2
     DEF Inv, TypeOK, Workers, Requests, Jobs, Logs, Becomes, CheckNumber, backend, bull, usage,
         alarm, bounds
<1>4. WorkerOnActive'
  BY <1>1, <1>2, StaysOnJob DEF CheckNumber, bull, backend
<1>5. TriesAccounted'
  BY <1>1, <1>2
     DEF Inv, TriesAccounted, WorkerOnActive, TypeOK, Becomes, CheckNumber, On, backend, bull,
         usage, alarm, bounds
<1>6. ResultJustified'
  BY <1>1, <1>2, PipelineAssumption
     DEF Inv, ResultJustified, WorkerOnActive, TypeOK, Workers, Writing, LeavesWell, Becomes,
         CheckNumber, On, backend, bull, usage, alarm, bounds
<1>7. SentMeansDelivered' /\ CompletedHasResult'
  BY <1>1, <1>2
     DEF Inv, SentMeansDelivered, CompletedHasResult, ResultJustified, WorkerOnActive, TypeOK,
         Workers, Writing, Becomes, CheckNumber, On, backend, bull, usage, alarm, bounds
<1> QED
  BY <1>3, <1>4, <1>5, <1>6, <1>7 DEF Inv

\* The send: delivered or not, it goes on to the log or into the catch clause.
LEMMA SendInv == ASSUME Inv, NEW m \in Messages, Send(m) PROVE Inv'
<1>1. worker \in Workers /\ worker.msg = m /\ worker.pc # "idle"
  BY DEF Inv, TypeOK, Send, On
<1>2. \/ /\ delivered' = [delivered EXCEPT ![m] = @ + 1]
         /\ \/ Becomes({"log"}, worker.result, worker.mode)
            \/ Becomes({"log", "note"}, "failed", "threw")
      \/ delivered' = delivered /\ Becomes({"log", "note"}, "failed", "threw")
  <2>1. ASSUME Goto("log") PROVE Becomes({"log"}, worker.result, worker.mode)
    BY <1>1, <2>1, GotoEffect DEF Pcs
  <2>2. ASSUME Catches(m) PROVE Becomes({"log", "note"}, "failed", "threw")
    <3>1. worker.mode = "runs"
      BY DEF Inv, ResultJustified, Send, On
    <3> QED
      BY <1>1, <2>2, <3>1, CatchesEffect
  <2> QED
    BY <2>1, <2>2 DEF Send
<1>3. TypeOK'
  BY <1>1, <1>2
     DEF Inv, TypeOK, Workers, Requests, Jobs, Logs, Becomes, Send, backend, bull, usage, alarm,
         bounds
<1>4. WorkerOnActive'
  BY <1>1, <1>2, StaysOnJob DEF Send, bull, backend
<1>5. TriesAccounted'
  BY <1>1, <1>2
     DEF Inv, TriesAccounted, WorkerOnActive, TypeOK, Becomes, Send, On, backend, bull, usage,
         alarm, bounds
<1>6. ResultJustified'
  BY <1>1, <1>2, PipelineAssumption
     DEF Inv, ResultJustified, WorkerOnActive, TypeOK, Workers, Writing, LeavesWell, Becomes,
         Send, On, backend, bull, usage, alarm, bounds
<1>7. SentMeansDelivered' /\ CompletedHasResult'
  BY <1>1, <1>2
     DEF Inv, SentMeansDelivered, CompletedHasResult, ResultJustified, WorkerOnActive, TypeOK,
         Workers, Writing, Becomes, Send, On, backend, bull, usage, alarm, bounds
<1> QED
  BY <1>3, <1>4, <1>5, <1>6, <1>7 DEF Inv

\* The row is created with the result, or the create throws.
LEMMA FinalizeByCreateInv == ASSUME Inv, NEW m \in Messages, FinalizeByCreate(m) PROVE Inv'
<1>1. worker \in Workers /\ worker.msg = m /\ worker.pc # "idle"
  BY DEF Inv, TypeOK, FinalizeByCreate, On
<1>2. \/ CanCreate(m) /\ Becomes({"bump"}, worker.result, worker.mode)
      \/ /\ log' = log
         /\ \/ worker.mode = "threw" /\ Becomes({"cleanup", "settle"}, worker.result, "threw")
            \/ worker.mode = "runs" /\ Becomes({"log", "note"}, "failed", "threw")
  <2>1. CASE CanCreate(m)
    BY <1>1, <2>1, GotoEffect DEF FinalizeByCreate, Pcs
  <2>2. CASE ~CanCreate(m)
    BY <1>1, <2>2, CatchesEffect DEF FinalizeByCreate
  <2> QED
    BY <2>1, <2>2
<1>3. TypeOK'
  BY <1>1, <1>2
     DEF Inv, TypeOK, Workers, Requests, Jobs, Logs, Becomes, FinalizeByCreate, backend, bull,
         usage, alarm, bounds
<1>4. WorkerOnActive'
  BY <1>1, <1>2, StaysOnJob DEF FinalizeByCreate, bull, backend
<1>5. TriesAccounted'
  BY <1>1, <1>2
     DEF Inv, TriesAccounted, WorkerOnActive, TypeOK, Becomes, FinalizeByCreate, On, backend,
         bull, usage, alarm, bounds
<1>6. ResultJustified'
  BY <1>1, <1>2, PipelineAssumption
     DEF Inv, ResultJustified, WorkerOnActive, TypeOK, Workers, Writing, LeavesWell, Becomes,
         FinalizeByCreate, On, CanCreate, backend, bull, usage, alarm, bounds
<1>7. SentMeansDelivered' /\ CompletedHasResult'
  BY <1>1, <1>2
     DEF Inv, SentMeansDelivered, CompletedHasResult, ResultJustified, WorkerOnActive, TypeOK,
         Workers, Writing, Becomes, FinalizeByCreate, On, CanCreate, backend, bull, usage,
         alarm, bounds
<1> QED
  BY <1>3, <1>4, <1>5, <1>6, <1>7 DEF Inv

\* The counters: counted and on, or thrown because the session is gone.
LEMMA BumpUsageInv == ASSUME Inv, NEW m \in Messages, BumpUsage(m) PROVE Inv'
<1>1. worker \in Workers /\ worker.msg = m /\ worker.pc # "idle"
  BY DEF Inv, TypeOK, BumpUsage, On
<1>2. \/ Becomes({"mark"}, worker.result, worker.mode) /\ worker.result = "sent"
      \/ Becomes({"cleanup", "settle"}, worker.result, worker.mode)
      \/ worker.mode = "runs" /\ Becomes({"log", "note"}, "failed", "threw")
  <2>1. CASE gone
    BY <1>1, <2>1, CatchesEffect DEF BumpUsage
  <2>2. CASE ~gone /\ worker.result = "sent"
    BY <1>1, <2>2, GotoEffect DEF BumpUsage, Pcs
  <2>3. CASE ~gone /\ worker.result # "sent"
    BY <1>1, <2>3, LeavesEffect DEF BumpUsage
  <2> QED
    BY <2>1, <2>2, <2>3
<1>3. TypeOK'
  BY <1>1, <1>2
     DEF Inv, TypeOK, Workers, Requests, Jobs, Logs, Becomes, BumpUsage, On, backend, bull,
         usage, alarm, bounds
<1>4. WorkerOnActive'
  BY <1>1, <1>2, StaysOnJob DEF BumpUsage, bull, backend
<1>5. TriesAccounted'
  BY <1>1, <1>2
     DEF Inv, TriesAccounted, WorkerOnActive, TypeOK, Becomes, BumpUsage, On, backend, bull,
         usage, alarm, bounds
<1>6. ResultJustified'
  BY <1>1, <1>2, PipelineAssumption
     DEF Inv, ResultJustified, WorkerOnActive, TypeOK, Workers, Writing, LeavesWell, Becomes,
         BumpUsage, On, backend, bull, usage, alarm, bounds
<1>7. SentMeansDelivered' /\ CompletedHasResult'
  BY <1>1, <1>2
     DEF Inv, SentMeansDelivered, CompletedHasResult, ResultJustified, WorkerOnActive, TypeOK,
         Workers, Writing, Becomes, BumpUsage, On, backend, bull, usage, alarm, bounds
<1> QED
  BY <1>3, <1>4, <1>5, <1>6, <1>7 DEF Inv

\* An await that rejects.
LEMMA WorkerFaultInv == ASSUME Inv, NEW m \in Messages, WorkerFault(m) PROVE Inv'
<1>1. worker \in Workers /\ worker.msg = m /\ worker.pc # "idle"
  BY DEF Inv, TypeOK, WorkerFault, On
<1>2. \/ worker.mode = "threw" /\ Becomes({"cleanup", "settle"}, worker.result, "threw")
      \/ worker.mode = "runs" /\ Becomes({"log", "note"}, "failed", "threw")
  BY <1>1, CatchesEffect DEF WorkerFault
<1>3. TypeOK'
  BY <1>1, <1>2
     DEF Inv, TypeOK, Workers, Requests, Jobs, Logs, Becomes, WorkerFault, backend, bull, usage,
         alarm, bounds
<1>4. WorkerOnActive'
  BY <1>1, <1>2, StaysOnJob DEF WorkerFault, bull, backend
<1>5. TriesAccounted'
  BY <1>1, <1>2
     DEF Inv, TriesAccounted, WorkerOnActive, TypeOK, Becomes, WorkerFault, On, backend, bull,
         usage, alarm, bounds
<1>6. ResultJustified'
  BY <1>1, <1>2, PipelineAssumption
     DEF Inv, ResultJustified, WorkerOnActive, TypeOK, Workers, Writing, LeavesWell, Becomes,
         WorkerFault, On, backend, bull, usage, alarm, bounds
<1>7. SentMeansDelivered' /\ CompletedHasResult'
  BY <1>1, <1>2
     DEF Inv, SentMeansDelivered, CompletedHasResult, ResultJustified, WorkerOnActive, TypeOK,
         Workers, Writing, Becomes, WorkerFault, On, backend, bull, usage, alarm, bounds
<1> QED
  BY <1>3, <1>4, <1>5, <1>6, <1>7 DEF Inv

\* A job is taken: the worker starts at the handler's first statement.
LEMMA TakeInv == ASSUME Inv, NEW m \in Messages, Take(m) PROVE Inv'
<1>1. /\ worker' \in Workers /\ worker'.msg = m /\ worker'.pc = "ensure"
      /\ worker'.result = "sent" /\ worker'.mode = "runs"
  BY DEF Take, Idle, Workers, Pcs
<1>2. TypeOK'
  BY <1>1 DEF Inv, TypeOK, Jobs, Take, backend, usage, alarm, bounds
<1>3. WorkerOnActive'
  BY <1>1, PipelineAssumption
     DEF Inv, TypeOK, WorkerOnActive, Take, Idle, backend, usage, alarm, bounds
<1>4. TriesAccounted'
  BY <1>1 DEF Inv, TypeOK, TriesAccounted, WorkerOnActive, Take, Idle, bounds
<1>5. ResultJustified'
  BY <1>1 DEF ResultJustified, Writing, LeavesWell
<1>6. SentMeansDelivered' /\ CompletedHasResult'
  BY DEF Inv, TypeOK, SentMeansDelivered, CompletedHasResult, Take, bounds
<1> QED
  BY <1>2, <1>3, <1>4, <1>5, <1>6 DEF Inv

\* Every step preserves the invariant.
LEMMA NextInv == Inv /\ [Next]_vars => Inv'
<1> SUFFICES ASSUME Inv, [Next]_vars PROVE Inv'
  OBVIOUS
<1> USE PipelineAssumption
    DEF Inv, TypeOK, Workers, WorkerOnActive, TriesAccounted, ResultJustified, Writing, LeavesWell,
        SentMeansDelivered, CompletedHasResult, Requests, Jobs, Logs, Pcs,
        backend, bull, usage, alarm, bounds
<1>1. ASSUME NEW m \in Messages, Accept(m) PROVE Inv'
  BY <1>1 DEF Accept
<1>2. ASSUME NEW m \in Messages, Reject(m) PROVE Inv'
  BY <1>2 DEF Reject
<1>3. ASSUME NEW m \in Messages, Resolve(m) PROVE Inv'
  BY <1>3 DEF Resolve
<1>4. ASSUME NEW m \in Messages, RequestFails(m) PROVE Inv'
  BY <1>4 DEF RequestFails
<1>5. ASSUME NEW m \in Messages, Enqueue(m) PROVE Inv'
  BY <1>5 DEF Enqueue
<1>6. ASSUME NEW m \in Messages, CreateLog(m) PROVE Inv'
  BY <1>6 DEF CreateLog, CanCreate
<1>7. ASSUME NEW m \in Messages, Answer(m) PROVE Inv'
  BY <1>7 DEF Answer
<1>8. ASSUME NEW m \in Messages, UpdateLog(m) PROVE Inv'
  BY <1>8 DEF UpdateLog, On, Goto, AfterUpdate
<1>9. ASSUME NEW m \in Messages, MarkOrNote(m) PROVE Inv'
  BY <1>9 DEF MarkOrNote, On, Leaves, Goto
<1>10. ASSUME NEW m \in Messages, Cleanup(m) PROVE Inv'
  BY <1>10 DEF Cleanup, On, Goto
<1>11. ASSUME NEW m \in Messages, Settle(m) PROVE Inv'
  BY <1>11 DEF Settle, On, Idle, GivesUp
<1>12. ASSUME NEW m \in Messages, RecordDeadLetter(m) PROVE Inv'
  BY <1>12 DEF RecordDeadLetter
<1>13. CASE Crash
  BY <1>13 DEF Crash, Idle, AfterStall
<1>14. CASE DeleteUser
  BY <1>14 DEF DeleteUser
<1>15. CASE UNCHANGED vars
  BY <1>15 DEF vars
<1> QED
  BY <1>1, <1>2, <1>3, <1>4, <1>5, <1>6, <1>7, <1>8, <1>9, <1>10, <1>11, <1>12, <1>13, <1>14, <1>15,
     TakeInv, EnsureConnectedInv, CheckNumberInv, SendInv, FinalizeByCreateInv, BumpUsageInv,
     WorkerFaultInv DEF Next, RequestStep, WorkerStep

\* The invariant, for every behaviour.
THEOREM Invariance == Spec => []Inv
  BY InitInv, NextInv, PTL DEF Spec

\* Types hold: in particular no job is tried beyond its attempts.
THEOREM TypeCorrect == Spec => []TypeOK
  BY Invariance, PTL DEF Inv

\* A row says sent only of a message WhatsApp took, whatever fails, dies or is retried.
THEOREM SentIsDelivered == Spec => []SentMeansDelivered
  BY Invariance, PTL DEF Inv

\* A completed job's row holds its result, whichever of backend and worker wrote it first.
THEOREM CompletedIsLogged == Spec => []CompletedHasResult
  BY Invariance, PTL DEF Inv

\* No step puts a row with a result back to queued.
THEOREM ResultStays == Spec => ResultNotRequeued
<1>1. ASSUME Inv, [Next]_vars,
             NEW m \in Messages, log[m] \in {"sent", "failed"}, log'[m] = "queued"
      PROVE FALSE
  <2>1. CASE \E d \in Messages : CreateLog(d)
    BY <1>1, <2>1 DEF Inv, TypeOK, CreateLog, CanCreate
  <2>2. CASE \E d \in Messages : UpdateLog(d) \/ FinalizeByCreate(d)
    BY <1>1, <2>2 DEF Inv, TypeOK, Workers, UpdateLog, FinalizeByCreate
  <2>3. CASE DeleteUser
    BY <1>1, <2>3 DEF DeleteUser
  <2>4. CASE UNCHANGED log
    BY <1>1, <2>4
  <2> QED
    BY <1>1, <2>1, <2>2, <2>3, <2>4
       DEF Next, RequestStep, WorkerStep, Accept, Reject, Resolve, RequestFails, Enqueue, Answer,
           Take, EnsureConnected, CheckNumber, Send, BumpUsage, MarkOrNote, Cleanup, Settle,
           WorkerFault, RecordDeadLetter, Crash, vars
<1>2. Inv /\ [Next]_vars =>
        [\A m \in Messages : log[m] \in {"sent", "failed"} => log'[m] # "queued"]_vars
  BY <1>1
<1> QED
  BY <1>2, Invariance, PTL DEF Spec, ResultNotRequeued

-----------------------------------------------------------------------------
(* The pipeline implements MessageDelivery.                                  *)

\* What the promise does not look at may change freely.
LEMMA Stutters == ASSUME UNCHANGED <<job, tried, delivered>> PROVE UNCHANGED Delivery!vars
  BY DEF Delivery!vars, PhaseOf

\* The job is added to the queue: accepted.
LEMMA EnqueueAccepts == ASSUME Inv, NEW m \in Messages, Enqueue(m) PROVE Delivery!Accept(m)
  BY DEF Inv, TypeOK, WorkerOnActive, Enqueue, Delivery!Accept, PhaseOf

\* A worker takes it: a try, and one that the attempts and one stall allow for.
LEMMA TakeTries == ASSUME Inv, NEW m \in Messages, Take(m) PROVE Delivery!Try(m)
<1>1. tried[m] < Delivery!Grants
  BY PipelineAssumption
     DEF Inv, TypeOK, WorkerOnActive, TriesAccounted, Take, Delivery!Grants
<1>2. [d \in Messages |-> PhaseOf(d)]' = [d \in Messages |-> PhaseOf(d)]
  BY DEF Inv, TypeOK, Take, PhaseOf
<1> QED
  BY <1>1, <1>2 DEF Inv, TypeOK, Take, PhaseOf, Delivery!Try

\* WhatsApp takes the message, or the call fails before that.
LEMMA SendDelivers ==
  ASSUME Inv, NEW m \in Messages, Send(m)
  PROVE  Delivery!Deliver(m) \/ UNCHANGED Delivery!vars
<1>1. CASE delivered' = [delivered EXCEPT ![m] = @ + 1]
  BY <1>1 DEF Inv, TypeOK, WorkerOnActive, TriesAccounted, Send, On, bull,
              PhaseOf, Delivery!Deliver
<1>2. CASE UNCHANGED delivered
  BY <1>2, Stutters DEF Send, bull
<1> QED
  BY <1>1, <1>2 DEF Send

\* An attempt ends: the job completes with its reason, fails for good, or waits again.
LEMMA SettleEnds ==
  ASSUME Inv, NEW m \in Messages, Settle(m)
  PROVE  Delivery!Complete(m) \/ Delivery!Fail(m) \/ UNCHANGED Delivery!vars
<1>1. job[m] = "active" /\ worker.msg = m /\ worker.pc = "settle"
  BY DEF Inv, WorkerOnActive, Settle, On
<1>2. CASE worker.mode = "runs"
  <2>1. tried[m] > 0 /\ (delivered[m] > 0 \/ m \in Checked)
    BY <1>1, <1>2 DEF Inv, TypeOK, TriesAccounted, ResultJustified, LeavesWell
  <2>2. [d \in Messages |-> PhaseOf(d)]'
           = [[d \in Messages |-> PhaseOf(d)] EXCEPT ![m] = "completed"]
    BY <1>2 DEF Inv, TypeOK, Settle, PhaseOf
  <2> QED
    BY <1>1, <2>1, <2>2 DEF Settle, PhaseOf, Delivery!Complete
<1>3. CASE worker.mode = "threw" /\ GivesUp(m)
  <2>1. tried[m] >= Attempts
    BY <1>1, <1>3, PipelineAssumption DEF Inv, TypeOK, TriesAccounted, GivesUp
  <2>2. [d \in Messages |-> PhaseOf(d)]'
           = [[d \in Messages |-> PhaseOf(d)] EXCEPT ![m] = "failed"]
    BY <1>3 DEF Inv, TypeOK, Settle, PhaseOf
  <2> QED
    BY <1>1, <2>1, <2>2 DEF Settle, PhaseOf, Delivery!Fail
<1>4. CASE worker.mode = "threw" /\ ~GivesUp(m)
  BY <1>1, <1>4 DEF Inv, TypeOK, Settle, PhaseOf, Delivery!vars
<1> QED
  BY <1>2, <1>3, <1>4 DEF Inv, TypeOK, Workers

\* The worker dies: its job, if it stalled before, fails; otherwise it waits again.
LEMMA CrashFails ==
  ASSUME Inv, Crash
  PROVE  (\E m \in Messages : Delivery!Fail(m)) \/ UNCHANGED Delivery!vars
<1>1. CASE \E m \in Messages : job[m] = "active" /\ stalls[m] > 0
  <2>1. PICK m \in Messages : job[m] = "active" /\ stalls[m] > 0
    BY <1>1
  <2>2. \A d \in Messages \ {m} : job[d] # "active"
    BY <2>1 DEF Inv, WorkerOnActive
  <2>3. [d \in Messages |-> PhaseOf(d)]'
           = [[d \in Messages |-> PhaseOf(d)] EXCEPT ![m] = "failed"]
    BY <2>1, <2>2 DEF Inv, TypeOK, Crash, AfterStall, PhaseOf
  <2>4. MaxCrashes > 1 /\ tried[m] > 1
    BY <2>1, PipelineAssumption DEF Inv, TypeOK, TriesAccounted, Crash
  <2> QED
    BY <2>1, <2>3, <2>4 DEF Crash, PhaseOf, Delivery!Fail
<1>2. CASE ~ \E m \in Messages : job[m] = "active" /\ stalls[m] > 0
  BY <1>2 DEF Inv, TypeOK, Crash, AfterStall, PhaseOf, Delivery!vars
<1> QED
  BY <1>1, <1>2

\* Every step of the pipeline is a step of what is promised, or changes none of it.
LEMMA NextDelivers == Inv /\ [Next]_vars => [Delivery!Next]_(Delivery!vars)
<1> SUFFICES ASSUME Inv, [Next]_vars PROVE Delivery!Next \/ UNCHANGED Delivery!vars
  OBVIOUS
<1>1. ASSUME NEW m \in Messages, Enqueue(m) \/ Take(m) \/ Send(m) \/ Settle(m)
      PROVE  Delivery!Next \/ UNCHANGED Delivery!vars
  BY <1>1, EnqueueAccepts, TakeTries, SendDelivers, SettleEnds DEF Delivery!Next
<1>2. CASE Crash
  BY <1>2, CrashFails DEF Delivery!Next
<1>3. CASE UNCHANGED <<job, tried, delivered>>
  BY <1>3, Stutters
<1> QED
  BY <1>1, <1>2, <1>3
     DEF Next, RequestStep, WorkerStep, Accept, Reject, Resolve, RequestFails, CreateLog, Answer,
         EnsureConnected, CheckNumber, UpdateLog, FinalizeByCreate, BumpUsage, MarkOrNote,
         Cleanup, WorkerFault, RecordDeadLetter, DeleteUser, bull, vars

\* The pipeline implements the promise: at most one delivery per try, at most one try beyond
\* the attempts, no change after the end, and an end only for a reason.
THEOREM Refinement == Spec => ImplementsDelivery
<1>1. Init => Delivery!Init
  BY DEF Init, Delivery!Init, PhaseOf
<1> QED
  BY <1>1, NextDelivers, Invariance, PTL DEF Spec, ImplementsDelivery, Delivery!Spec

-----------------------------------------------------------------------------
(* The counters.                                                             *)

Undisturbed == faults = 0 /\ crashes = 0 /\ ~gone
Results     == {"sent", "failed"}
Rows(result) == {m \in Messages : log[m] = result}

\* A result is written by the attempt that ends the job, and by nothing else.
ResultsAreFinal ==
    /\ \A m \in Messages : job[m] \in {"none", "waiting"} => log[m] \notin Results
    /\ worker.pc \in {"ensure", "check", "send", "log", "create", "note"} =>
          log[worker.msg] \notin Results
    /\ worker.pc = "bump" => log[worker.msg] = worker.result
    /\ worker.mode = "threw" /\ worker.pc \in {"log", "create", "bump", "mark"} => Final(worker.msg)
    /\ worker.mode = "threw" /\ worker.pc \in {"cleanup", "settle"} =>
          Final(worker.msg) \/ log[worker.msg] \notin Results

\* The row written that is not counted yet.
Owed(result) == IF worker.pc = "bump" /\ worker.result = result THEN 1 ELSE 0

RowsCounted ==
    /\ IsFiniteSet(Rows("sent")) /\ sent + Owed("sent") = Cardinality(Rows("sent"))
    /\ IsFiniteSet(Rows("failed")) /\ failed + Owed("failed") = Cardinality(Rows("failed"))

CountInv == Undisturbed => ResultsAreFinal /\ RowsCounted

\* Rows that have no result do not count.
LEMMA SameRows ==
  ASSUME RowsCounted, UNCHANGED usage,
         \A m \in Messages : log'[m] = log[m] \/ (log[m] \notin Results /\ log'[m] \notin Results),
         Owed("sent")' = Owed("sent"), Owed("failed")' = Owed("failed")
  PROVE  RowsCounted'
<1>1. Rows("sent")' = Rows("sent") /\ Rows("failed")' = Rows("failed")
  BY DEF Rows, Results
<1>2. sent' = sent /\ failed' = failed
  BY DEF usage
<1> QED
  BY <1>1, <1>2 DEF RowsCounted

\* A row gets its result.
LEMMA ResultWritten ==
  ASSUME TypeOK, RowsCounted, UNCHANGED usage, NEW m \in Messages, NEW result \in Results,
         log[m] \notin Results, log' = [log EXCEPT ![m] = result],
         worker.pc # "bump", worker'.pc = "bump", worker'.result = result
  PROVE  RowsCounted'
<1>1. \A r \in Results : Owed(r) = 0 /\ Owed(r)' = IF r = result THEN 1 ELSE 0
  BY DEF Owed
<1>2. \A r \in Results : Rows(r)' = IF r = result THEN Rows(r) \cup {m} ELSE Rows(r)
  BY DEF TypeOK, Rows, Results
<1>3. m \notin Rows(result)
  BY DEF Rows
<1>4. IsFiniteSet(Rows(result))
  BY DEF RowsCounted, Results
<1>5. /\ IsFiniteSet(Rows(result) \cup {m})
      /\ Cardinality(Rows(result) \cup {m}) = Cardinality(Rows(result)) + 1
  BY <1>3, <1>4, FS_AddElement
<1>6. sent' = sent /\ failed' = failed /\ sent \in Nat /\ failed \in Nat
  BY DEF usage, TypeOK
<1>7. /\ Owed("sent") = 0 /\ Owed("failed") = 0
      /\ sent = Cardinality(Rows("sent")) /\ failed = Cardinality(Rows("failed"))
  BY <1>1, <1>6 DEF RowsCounted, Results
<1>8. CASE result = "sent"
  <2>1. /\ Rows("sent")' = Rows("sent") \cup {m} /\ Rows("failed")' = Rows("failed")
        /\ Owed("sent")' = 1 /\ Owed("failed")' = 0
    BY <1>1, <1>2, <1>8 DEF Results
  <2> QED
    BY <1>5, <1>6, <1>7, <1>8, <2>1 DEF RowsCounted
<1>9. CASE result = "failed"
  <2>1. /\ Rows("failed")' = Rows("failed") \cup {m} /\ Rows("sent")' = Rows("sent")
        /\ Owed("failed")' = 1 /\ Owed("sent")' = 0
    BY <1>1, <1>2, <1>9 DEF Results
  <2> QED
    BY <1>5, <1>6, <1>7, <1>9, <2>1 DEF RowsCounted
<1> QED
  BY <1>8, <1>9 DEF Results

\* The counters stand still while no row gets a result and nothing is owed.
LEMMA NothingOwed ==
  ASSUME RowsCounted, UNCHANGED usage, worker.pc # "bump", worker'.pc # "bump",
         \A m \in Messages : log'[m] = log[m] \/ (log[m] \notin Results /\ log'[m] \notin Results)
  PROVE  RowsCounted'
  BY SameRows DEF Owed

\* What disturbs once disturbs for good.
LEMMA StaysDisturbed ==
  ASSUME Inv, [Next]_vars, Undisturbed'
  PROVE  Undisturbed /\ UNCHANGED <<gone, faults, crashes>>
<1>1. faults \in Nat /\ crashes \in Nat /\ faults' = 0 /\ crashes' = 0 /\ ~gone'
  BY DEF Inv, TypeOK, Undisturbed
<1>2. ASSUME NEW m \in Messages, RequestStep(m)
      PROVE  UNCHANGED <<gone, crashes>> /\ (faults' = faults \/ faults' = faults + 1)
  BY <1>2 DEF RequestStep, Accept, Reject, Resolve, RequestFails, Enqueue, CreateLog, Answer, bounds
<1>3. ASSUME NEW m \in Messages, WorkerStep(m) \/ RecordDeadLetter(m)
      PROVE  UNCHANGED <<gone, faults, crashes>>
  BY <1>3 DEF WorkerStep, Take, EnsureConnected, CheckNumber, Send, UpdateLog, FinalizeByCreate,
              BumpUsage, MarkOrNote, Cleanup, Settle, RecordDeadLetter, bounds
<1>4. ~Crash /\ ~DeleteUser /\ \A m \in Messages : ~WorkerFault(m)
  BY <1>1 DEF Crash, DeleteUser, WorkerFault
<1>5. CASE UNCHANGED vars
  BY <1>1, <1>5 DEF vars, bounds, Undisturbed
<1> QED
  BY <1>1, <1>2, <1>3, <1>4, <1>5 DEF Next, Undisturbed

CountOK == ResultsAreFinal /\ RowsCounted

\* The backend's steps, and those that leave the handler where it is.
LEMMA BackendCounts ==
  ASSUME Inv, CountOK, NEW m \in Messages,
         RequestStep(m) \/ RecordDeadLetter(m)
  PROVE  CountOK'
<1>1. worker' = worker /\ made' = made /\ UNCHANGED usage
  BY DEF RequestStep, Accept, Reject, Resolve, RequestFails, Enqueue, CreateLog, Answer,
         RecordDeadLetter, bull
<1>2. \A d \in Messages : log'[d] = log[d] \/ (log[d] \notin Results /\ log'[d] \notin Results)
  BY DEF Inv, TypeOK, RequestStep, Accept, Reject, Resolve, RequestFails, Enqueue, CreateLog,
         CanCreate, Answer, RecordDeadLetter, Results
<1>3. \A d \in Messages : job'[d] \in {"none", "waiting"} => job[d] \in {"none", "waiting"}
  BY DEF Inv, TypeOK, WorkerOnActive, RequestStep, Accept, Reject, Resolve, RequestFails,
         Enqueue, CreateLog, Answer, RecordDeadLetter, bull
<1>4. worker.pc # "idle" => worker.msg \in Messages
  BY DEF Inv, WorkerOnActive
<1>5. Final(worker.msg)' = Final(worker.msg)
  BY <1>1 DEF Final
<1>6. worker.pc = "bump" => worker.result \in Results
  BY DEF Inv, TypeOK, Workers, Results
<1>7. ResultsAreFinal'
  BY <1>1, <1>2, <1>3, <1>4, <1>5, <1>6 DEF CountOK, ResultsAreFinal
<1>8. RowsCounted'
  BY <1>1, <1>2, SameRows DEF CountOK, Owed
<1> QED
  BY <1>7, <1>8 DEF CountOK

\* The worker's own steps.
LEMMA EnsureCheckSendCount ==
  ASSUME Inv, CountOK, NEW m \in Messages, EnsureConnected(m) \/ CheckNumber(m) \/ Send(m)
  PROVE  CountOK'
<1>1. /\ worker \in Workers /\ worker.msg = m /\ worker.pc \in {"ensure", "check", "send"}
      /\ worker.mode = "runs" /\ UNCHANGED <<bull, log, usage>>
  BY DEF Inv, TypeOK, ResultJustified, EnsureConnected, CheckNumber, Send, On
<1>2. CASE Catches(m)
  <2>1. /\ worker'.msg = m /\ worker'.mode = "threw"
        /\ worker'.pc = IF Final(m) THEN "log" ELSE "note"
    BY <1>1, <1>2 DEF Catches, Workers
  <2>2. Final(m)' = Final(m) /\ log[m] \notin Results
    BY <1>1 DEF Final, bull, CountOK, ResultsAreFinal
  <2>3. ResultsAreFinal'
    BY <1>1, <2>1, <2>2 DEF CountOK, ResultsAreFinal, bull
  <2> QED
    BY <1>1, <2>1, <2>3, NothingOwed DEF CountOK
<1>3. CASE ~Catches(m)
  <2>1. /\ worker'.msg = m /\ worker'.pc \in {"check", "send", "settle", "log"}
        /\ worker'.mode = "threw" => worker'.pc = "settle"
    BY <1>1, <1>3 DEF EnsureConnected, CheckNumber, Send, Goto, FirstStep, Workers
  <2>2. log[m] \notin Results
    BY <1>1 DEF CountOK, ResultsAreFinal
  <2>3. ResultsAreFinal'
    BY <1>1, <2>1, <2>2 DEF CountOK, ResultsAreFinal, bull
  <2> QED
    BY <1>1, <2>1, <2>3, NothingOwed DEF CountOK
<1> QED
  BY <1>2, <1>3

LEMMA UpdateLogCounts ==
  ASSUME Inv, CountOK, NEW m \in Messages, UpdateLog(m)
  PROVE  CountOK'
<1>1. /\ worker \in Workers /\ worker.msg = m /\ worker.pc = "log" /\ UNCHANGED <<bull, usage>>
      /\ log \in [Messages -> Logs] /\ log[m] \notin Results /\ worker.result \in Results
  BY DEF Inv, TypeOK, Workers, CountOK, ResultsAreFinal, UpdateLog, On, Results
<1>2. Final(m)' = Final(m)
  BY <1>1 DEF Final, bull
<1>3. CASE log[m] = "none"
  <2>1. log' = log /\ worker' = [worker EXCEPT !.pc = "create"]
    BY <1>3 DEF UpdateLog, AfterUpdate, Goto
  <2>2. /\ worker'.msg = m /\ worker'.pc = "create" /\ worker'.mode = worker.mode
    BY <1>1, <2>1 DEF Workers
  <2>3. ResultsAreFinal'
    BY <1>1, <1>2, <2>1, <2>2 DEF CountOK, ResultsAreFinal, bull
  <2> QED
    BY <1>1, <2>1, <2>2, <2>3, NothingOwed DEF CountOK
<1>4. CASE log[m] # "none"
  <2>1. log' = [log EXCEPT ![m] = worker.result] /\ worker' = [worker EXCEPT !.pc = "bump"]
    BY <1>4 DEF UpdateLog, AfterUpdate, Goto
  <2>2. /\ worker'.msg = m /\ worker'.pc = "bump" /\ worker'.mode = worker.mode
        /\ worker'.result = worker.result
    BY <1>1, <2>1 DEF Workers
  <2>3. job[m] = "active"
    BY <1>1 DEF Inv, WorkerOnActive
  <2>4. ResultsAreFinal'
    BY <1>1, <1>2, <2>1, <2>2, <2>3 DEF CountOK, ResultsAreFinal, bull
  <2>5. RowsCounted'
    BY <1>1, <2>1, <2>2, ResultWritten DEF CountOK, Inv
  <2> QED
    BY <2>4, <2>5 DEF CountOK
<1> QED
  BY <1>3, <1>4

LEMMA CreateCounts ==
  ASSUME Inv, CountOK, NEW m \in Messages, FinalizeByCreate(m)
  PROVE  CountOK'
<1>1. /\ worker \in Workers /\ worker.msg = m /\ worker.pc = "create" /\ UNCHANGED <<bull, usage>>
      /\ log \in [Messages -> Logs] /\ log[m] \notin Results /\ worker.result \in Results
      /\ worker.mode = "threw" => Final(m)
  BY DEF Inv, TypeOK, Workers, CountOK, ResultsAreFinal, FinalizeByCreate, On, Results
<1>2. Final(m)' = Final(m)
  BY <1>1 DEF Final, bull
<1>3. CASE CanCreate(m)
  <2>1. log' = [log EXCEPT ![m] = worker.result] /\ worker' = [worker EXCEPT !.pc = "bump"]
    BY <1>3 DEF FinalizeByCreate, Goto
  <2>2. /\ worker'.msg = m /\ worker'.pc = "bump" /\ worker'.mode = worker.mode
        /\ worker'.result = worker.result
    BY <1>1, <2>1 DEF Workers
  <2>3. job[m] = "active"
    BY <1>1 DEF Inv, WorkerOnActive
  <2>4. ResultsAreFinal'
    BY <1>1, <1>2, <2>1, <2>2, <2>3 DEF CountOK, ResultsAreFinal, bull
  <2>5. RowsCounted'
    BY <1>1, <2>1, <2>2, ResultWritten DEF CountOK, Inv
  <2> QED
    BY <2>4, <2>5 DEF CountOK
<1>4. CASE ~CanCreate(m)
  <2>1. log' = log /\ Catches(m)
    BY <1>4 DEF FinalizeByCreate
  <2>2. CASE worker.mode = "threw"
    <3>1. worker'.msg = m /\ worker'.pc \in {"cleanup", "settle"} /\ worker'.mode = "threw"
      BY <1>1, <2>1, <2>2, CatchesEffect DEF Becomes
    <3>2. ResultsAreFinal'
      BY <1>1, <1>2, <2>1, <3>1 DEF CountOK, ResultsAreFinal, bull
    <3> QED
      BY <1>1, <2>1, <3>1, <3>2, NothingOwed DEF CountOK
  <2>3. CASE worker.mode # "threw"
    <3>1. /\ worker'.msg = m /\ worker'.mode = "threw"
          /\ worker'.pc = IF Final(m) THEN "log" ELSE "note"
      BY <1>1, <2>1, <2>3 DEF Catches, Workers
    <3>2. ResultsAreFinal'
      BY <1>1, <1>2, <2>1, <3>1 DEF CountOK, ResultsAreFinal, bull
    <3> QED
      BY <1>1, <2>1, <3>1, <3>2, NothingOwed DEF CountOK
  <2> QED
    BY <2>2, <2>3
<1> QED
  BY <1>3, <1>4

LEMMA BumpCounts ==
  ASSUME Inv, CountOK, NEW m \in Messages, BumpUsage(m), ~gone
  PROVE  CountOK'
<1>1. /\ worker \in Workers /\ worker.msg = m /\ worker.pc = "bump" /\ UNCHANGED <<bull, log>>
      /\ worker.result \in Results /\ sent \in Nat /\ failed \in Nat
      /\ worker.mode = "threw" => Final(m)
  BY DEF Inv, TypeOK, Workers, CountOK, ResultsAreFinal, BumpUsage, On, Results
<1>2. Final(m)' = Final(m)
  BY <1>1 DEF Final, bull
<1>3. /\ worker'.msg = m /\ worker'.pc \in {"mark", "cleanup", "settle"} /\ worker'.mode = worker.mode
      /\ IF worker.result = "sent" THEN sent' = sent + 1 /\ failed' = failed
                                   ELSE failed' = failed + 1 /\ sent' = sent
  <2>1. CASE worker.result = "sent"
    BY <1>1, <2>1 DEF BumpUsage, Goto, Workers
  <2>2. CASE worker.result # "sent"
    BY <1>1, <2>2, LeavesEffect DEF BumpUsage, Becomes
  <2> QED
    BY <2>1, <2>2
<1>4. ResultsAreFinal'
  BY <1>1, <1>2, <1>3 DEF CountOK, ResultsAreFinal, bull
<1>5. RowsCounted'
  <2>1. \A r : Rows(r)' = Rows(r) /\ Owed(r)' = 0
    BY <1>1, <1>3 DEF Rows, Owed
  <2>2. \A r : Owed(r) = IF worker.result = r THEN 1 ELSE 0
    BY <1>1 DEF Owed
  <2> QED
    BY <1>1, <1>3, <2>1, <2>2 DEF CountOK, RowsCounted, Results
<1> QED
  BY <1>4, <1>5 DEF CountOK

LEMMA LeavingCounts ==
  ASSUME Inv, CountOK, NEW m \in Messages, MarkOrNote(m) \/ Cleanup(m)
  PROVE  CountOK'
<1>1. /\ worker \in Workers /\ worker.msg = m /\ worker.pc \in {"mark", "note", "cleanup"}
      /\ UNCHANGED <<bull, log, usage>>
  BY DEF Inv, TypeOK, MarkOrNote, Cleanup, On
<1>2. worker'.msg = m /\ worker'.pc \in {"cleanup", "settle"} /\ worker'.mode = worker.mode
  <2>1. CASE MarkOrNote(m)
    BY <1>1, <2>1, LeavesEffect DEF MarkOrNote, Becomes
  <2>2. CASE Cleanup(m)
    BY <1>1, <2>2 DEF Cleanup, Goto, Workers
  <2> QED
    BY <2>1, <2>2
<1>3. Final(m)' = Final(m)
  BY <1>1 DEF Final, bull
<1>4. ResultsAreFinal'
  BY <1>1, <1>2, <1>3 DEF CountOK, ResultsAreFinal, bull
<1> QED
  BY <1>1, <1>2, <1>4, NothingOwed DEF CountOK

LEMMA TakeSettleCount ==
  ASSUME Inv, CountOK, NEW m \in Messages, Take(m) \/ Settle(m)
  PROVE  CountOK'
<1>1. UNCHANGED <<log, usage>> /\ log \in [Messages -> Logs] /\ job \in [Messages -> Jobs]
      /\ worker \in Workers
  BY DEF Inv, TypeOK, Take, Settle
<1>2. CASE Take(m)
  <2>1. /\ worker'.msg = m /\ worker'.pc = "ensure" /\ worker'.mode = "runs" /\ worker.pc = "idle"
        /\ job[m] = "waiting" /\ job' = [job EXCEPT ![m] = "active"]
    BY <1>2 DEF Take, Idle
  <2>2. ResultsAreFinal'
    BY <1>1, <2>1 DEF CountOK, ResultsAreFinal
  <2> QED
    BY <1>1, <2>1, <2>2, NothingOwed DEF CountOK
<1>3. CASE Settle(m)
  <2>1. /\ worker.msg = m /\ worker.pc = "settle" /\ worker'.pc = "idle" /\ worker'.mode = "runs"
        /\ job' = [job EXCEPT ![m] = IF worker.mode = "runs" THEN "completed"
                                     ELSE IF GivesUp(m) THEN "failed" ELSE "waiting"]
    BY <1>3 DEF Settle, On, Idle
  <2>2. job'[m] = "waiting" => log[m] \notin Results
    BY <1>1, <2>1 DEF CountOK, ResultsAreFinal, Workers, GivesUp, Final
  <2>3. ResultsAreFinal'
    BY <1>1, <2>1, <2>2 DEF CountOK, ResultsAreFinal
  <2> QED
    BY <1>1, <2>1, <2>3, NothingOwed DEF CountOK
<1> QED
  BY <1>2, <1>3

LEMMA CountStart == Init => CountInv
<1> SUFFICES ASSUME Init PROVE CountOK
  BY DEF CountInv, CountOK
<1>1. Rows("sent") = {} /\ Rows("failed") = {}
  BY DEF Init, Rows
<1>2. RowsCounted
  BY <1>1, FS_EmptySet DEF Init, Idle, Owed, RowsCounted
<1>3. ResultsAreFinal
  BY DEF Init, Idle, ResultsAreFinal, Results
<1> QED
  BY <1>2, <1>3 DEF CountOK

LEMMA CountStep == Inv /\ CountInv /\ [Next]_vars => CountInv'
<1> SUFFICES ASSUME Inv, CountInv, [Next]_vars, Undisturbed' PROVE CountOK'
  BY DEF CountInv, CountOK
<1>1. Undisturbed /\ UNCHANGED <<gone, faults, crashes>> /\ CountOK /\ ~gone
  BY StaysDisturbed DEF CountInv, CountOK, Undisturbed
<1>2. ASSUME NEW m \in Messages, WorkerStep(m)
      PROVE  CountOK'
  BY <1>1, <1>2, EnsureCheckSendCount, UpdateLogCounts, CreateCounts, BumpCounts, LeavingCounts,
     TakeSettleCount DEF WorkerStep
<1>3. ~Crash /\ ~DeleteUser /\ \A m \in Messages : ~WorkerFault(m)
  BY <1>1 DEF Inv, TypeOK, Crash, DeleteUser, WorkerFault
<1>4. CASE UNCHANGED vars
  BY <1>1, <1>4 DEF vars, bull, usage, CountOK, ResultsAreFinal, Final, RowsCounted, Rows, Owed
<1> QED
  BY <1>1, <1>2, <1>3, <1>4, BackendCounts DEF Next

\* As long as no call fails and no process dies, the day's counters are the rows' statuses
\* whenever the worker is between two jobs, for any number of messages and attempts.
THEOREM CountersAreRows == Spec => []CountersMatch
<1>1. Inv /\ CountInv => CountersMatch
  <2> SUFFICES ASSUME Inv, CountInv, worker = Idle, Undisturbed
               PROVE  /\ sent = Cardinality(Rows("sent"))
                      /\ failed = Cardinality(Rows("failed"))
    BY DEF CountersMatch, Undisturbed, Rows
  <2>1. Owed("sent") = 0 /\ Owed("failed") = 0 /\ sent \in Nat /\ failed \in Nat
    BY DEF Owed, Idle, Inv, TypeOK
  <2> QED
    BY <2>1 DEF CountInv, RowsCounted
<1> QED
  BY <1>1, CountStart, CountStep, Invariance, PTL DEF Spec
=============================================================================
