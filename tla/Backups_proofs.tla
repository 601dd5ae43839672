--------------------------- MODULE Backups_proofs ---------------------------
(***************************************************************************)
(* The flag `running' really excludes, a restore has its safety dump, a    *)
(* created backup is complete and stays the last one kept, for any number  *)
(* of requests, files and events, but for the bad luck recorded of a file.*)
(***************************************************************************)
EXTENDS BackupProperties, FiniteSetTheorems, TLAPS

USE BackupAssumption

-----------------------------------------------------------------------------
(* Types.                                                                  *)

LEMMA NoNameApart == NoName \notin Names /\ Managed \subseteq Names /\ Listed \subseteq Managed
BY DEF NoName, Names, Managed, Listed

\* What one step does to the directory.
LEMMA RemoveType ==
  ASSUME BackupTypeOK, NEW n, Remove(n)
  PROVE  files' \in [Names -> Files] /\ own' \in [Writers -> BOOLEAN]
BY DEF BackupTypeOK, Remove, Gone, Files, Stages

LEMMA PutType ==
  ASSUME BackupTypeOK, NEW w \in Writers, NEW stage \in Stages, NEW version, NEW at \in Nat,
         out[w] \in Names => version \in Nat,
         Put(w, stage, version, at)
  PROVE  files' \in [Names -> Files]
<1>1. CASE out[w] \in Names
  <2>1. files[out[w]] \in Files
    BY <1>1 DEF BackupTypeOK
  <2>2. [files[out[w]] EXCEPT !.stage = stage, !.version = version, !.at = at] \in Files
    BY <1>1, <2>1 DEF Files
  <2> QED BY <2>2 DEF BackupTypeOK, Put
<1>2. CASE out[w] \notin Names
  <2>1. files' = files
    BY <1>2 DEF BackupTypeOK, Put
  <2> QED BY <2>1 DEF BackupTypeOK
<1> QED BY <1>1, <1>2

LEMMA OpenType ==
  ASSUME BackupTypeOK, NEW w \in Writers, NEW n \in Names, Open(w, n)
  PROVE  /\ files' \in [Names -> Files] /\ own' \in [Writers -> BOOLEAN]
         /\ out' \in [Writers -> Names \cup {NoName}]
<1>1. PICK m \in BOOLEAN : m = \E v \in Writers \ {w} : Writes(v, n)
  OBVIOUS
<1>2. [stage |-> "empty", version |-> 0, at |-> now, mixed |-> m] \in Files
  BY DEF BackupTypeOK, Files, Stages, Seconds
<1>3. files' = [files EXCEPT ![n] = [stage |-> "empty", version |-> 0, at |-> now, mixed |-> m]]
  BY <1>1 DEF Open
<1> QED BY <1>2, <1>3 DEF BackupTypeOK, Open

LEMMA GotoType ==
  ASSUME BackupTypeOK, NEW w \in Writers, NEW label \in Labels, Goto(w, label)
  PROVE  pc' \in [Writers -> Labels]
BY DEF BackupTypeOK, Goto

LEMMA AnswerType ==
  ASSUME BackupTypeOK, NEW r \in Slots, NEW result \in {"ok", "error"}, Answer(r, result)
  PROVE  pc' \in [Writers -> Labels] /\ running' \in BOOLEAN
BY GotoType DEF BackupTypeOK, Answer, Writers, Labels

LEMMA EventType ==
  ASSUME BackupTypeOK, Event
  PROVE  events' \in Nat
BY DEF BackupTypeOK, Event

-----------------------------------------------------------------------------
(* Every step keeps the types.                                             *)

LEMMA ArriveType ==
  ASSUME BackupTypeOK, NEW r \in Slots, NEW n \in Names \cup {NoName},
         NEW what \in {"list", "create", "restore", "delete"}, Arrive(r, what, n)
  PROVE  BackupTypeOK'
<1>1. events' \in Nat
  BY EventType DEF Arrive, BackupTypeOK
<1>2. /\ op' \in [Slots -> {"list", "create", "restore", "delete"}]
      /\ target' \in [Slots -> Names \cup {NoName}]
  BY DEF Arrive, BackupTypeOK
<1>3. pc' \in [Writers -> Labels] /\ running' \in BOOLEAN
  BY GotoType DEF Arrive, BackupTypeOK, Writers, Labels
<1>4. toStat' \in [Slots -> SUBSET Managed]
  BY NoNameApart DEF Arrive, BackupTypeOK
<1> QED BY <1>1, <1>2, <1>3, <1>4 DEF Arrive, BackupTypeOK, database, disk

LEMMA FindTargetType ==
  ASSUME BackupTypeOK, NEW r \in Slots, FindTarget(r)
  PROVE  BackupTypeOK'
<1>1. pc' \in [Writers -> Labels] /\ running' \in BOOLEAN
  BY GotoType, AnswerType DEF FindTarget, BackupTypeOK, Writers, Labels
<1> QED BY <1>1 DEF FindTarget, BackupTypeOK, database, disk, listing

LEMMA StartDumpType ==
  ASSUME BackupTypeOK, NEW r \in Slots, StartDump(r)
  PROVE  BackupTypeOK'
<1>1. <<IF op[r] = "create" THEN "dump" ELSE "pre-restore", now>> \in Names
  BY DEF BackupTypeOK, Names
<1>2. /\ files' \in [Names -> Files] /\ own' \in [Writers -> BOOLEAN]
      /\ out' \in [Writers -> Names \cup {NoName}]
  BY <1>1, OpenType DEF StartDump, Writers
<1>3. pc' \in [Writers -> Labels]
  BY GotoType DEF StartDump, Writers, Labels
<1> QED BY <1>2, <1>3 DEF StartDump, BackupTypeOK, database, listing

LEMMA FillDumpType ==
  ASSUME BackupTypeOK, NEW w \in Writers, FillDump(w)
  PROVE  BackupTypeOK'
<1>1. files' \in [Names -> Files]
  BY PutType DEF FillDump, BackupTypeOK, Stages, Seconds
<1>2. pc' \in [Writers -> Labels]
  BY GotoType DEF FillDump, Labels
<1> QED BY <1>1, <1>2 DEF FillDump, BackupTypeOK, database, listing

LEMMA EndDumpType ==
  ASSUME BackupTypeOK, NEW w \in Writers, EndDump(w)
  PROVE  BackupTypeOK'
<1>1. now' \in Seconds /\ now' \in Nat
  BY DEF EndDump, Seconds
<1>2. out[w] \in Names => files[out[w]].version \in Nat
  BY DEF BackupTypeOK, Files
<1>3. files' \in [Names -> Files]
  BY <1>1, <1>2, PutType DEF EndDump, Stages
<1>4. Dumped(w) \in Labels
  BY DEF Dumped, Labels
<1>5. pc' \in [Writers -> Labels]
  BY <1>4, GotoType DEF EndDump
<1> QED BY <1>1, <1>3, <1>5 DEF EndDump, BackupTypeOK, database, listing

LEMMA DumpEndsType ==
  ASSUME BackupTypeOK, NEW r \in Slots, FailDump(r) \/ UndoDump(r) \/ StatDump(r) \/ ReadDir(r)
  PROVE  BackupTypeOK'
<1>1. CASE FailDump(r)
  <2>1. pc' \in [Writers -> Labels] /\ events' \in Nat
    BY <1>1, GotoType, EventType DEF FailDump, Writers, Labels
  <2> QED BY <1>1, <2>1 DEF FailDump, BackupTypeOK, database, disk, listing
<1>2. CASE UndoDump(r)
  <2>1. pc' \in [Writers -> Labels] /\ running' \in BOOLEAN
    BY <1>2, AnswerType DEF UndoDump
  <2>2. files' \in [Names -> Files] /\ own' \in [Writers -> BOOLEAN]
    BY <1>2, RemoveType DEF UndoDump
  <2> QED BY <1>2, <2>1, <2>2 DEF UndoDump, BackupTypeOK, database, listing
<1>3. CASE StatDump(r)
  <2>1. pc' \in [Writers -> Labels] /\ running' \in BOOLEAN
    BY <1>3, AnswerType, GotoType DEF StatDump, BackupTypeOK, Writers, Labels
  <2> QED BY <1>3, <2>1 DEF StatDump, BackupTypeOK, database, disk, listing
<1>4. CASE ReadDir(r)
  <2>1. pc' \in [Writers -> Labels]
    BY <1>4, GotoType DEF ReadDir, Writers, Labels
  <2>2. toStat' \in [Slots -> SUBSET Managed]
    BY <1>4, NoNameApart DEF ReadDir, BackupTypeOK
  <2> QED BY <1>4, <2>1, <2>2 DEF ReadDir, BackupTypeOK, database, disk
<1> QED BY <1>1, <1>2, <1>3, <1>4

LEMMA StatFileType ==
  ASSUME BackupTypeOK, NEW r \in Slots, NEW n, StatFile(r, n)
  PROVE  BackupTypeOK'
<1>1. n \in Managed /\ n \in Names
  BY NoNameApart DEF StatFile, BackupTypeOK
<1>2. pc' \in [Writers -> Labels] /\ running' \in BOOLEAN
  BY AnswerType DEF StatFile, BackupTypeOK
<1>3. /\ toStat' \in [Slots -> SUBSET Managed] /\ toUnlink' \in [Slots -> SUBSET Managed]
  BY <1>1 DEF StatFile, BackupTypeOK
<1>4. <<n, files[n].at>> \in Managed \X Nat
  BY <1>1 DEF BackupTypeOK, Files
<1>5. found' \in [Slots -> SUBSET (Managed \X Nat)]
  BY <1>4 DEF StatFile, BackupTypeOK
<1> QED BY <1>2, <1>3, <1>5 DEF StatFile, BackupTypeOK, database, disk

LEMMA EndListingType ==
  ASSUME BackupTypeOK, NEW r \in Slots, EndListing(r)
  PROVE  BackupTypeOK'
<1>1. pc' \in [Writers -> Labels]
  BY GotoType DEF EndListing, Writers, Labels
<1>2. found' \in [Slots -> SUBSET (Managed \X Nat)]
  BY DEF EndListing, BackupTypeOK
<1>3. \A kept \in SUBSET found[r] : {f[1] : f \in found[r] \ kept} \in SUBSET Managed
  BY DEF BackupTypeOK
<1>4. prune' \in [Slots -> SUBSET Managed]
  BY <1>3 DEF EndListing, BackupTypeOK
<1> QED BY <1>1, <1>2, <1>4 DEF EndListing, BackupTypeOK, database, disk

LEMMA RemovalsType ==
  ASSUME BackupTypeOK, NEW r \in Slots, NEW n, UnlinkEmpty(r, n) \/ PruneFile(r, n)
  PROVE  BackupTypeOK'
<1>1. files' \in [Names -> Files] /\ own' \in [Writers -> BOOLEAN]
  BY RemoveType DEF UnlinkEmpty, PruneFile
<1>2. CASE UnlinkEmpty(r, n)
  <2>1. toUnlink' \in [Slots -> SUBSET Managed]
    BY <1>2 DEF UnlinkEmpty, BackupTypeOK
  <2> QED BY <1>1, <1>2, <2>1 DEF UnlinkEmpty, BackupTypeOK, database
<1>3. CASE PruneFile(r, n)
  <2>1. prune' \in [Slots -> SUBSET Managed]
    BY <1>3 DEF PruneFile, BackupTypeOK
  <2> QED BY <1>1, <1>3, <2>1 DEF PruneFile, BackupTypeOK, database, listing
<1> QED BY <1>2, <1>3

LEMMA RequestEndsType ==
  ASSUME BackupTypeOK, NEW r \in Slots, pc[r] = "load" => target[r] \in Names,
         EndPrune(r) \/ Load(r) \/ DeleteFile(r) \/ Delivered(r)
  PROVE  BackupTypeOK'
<1>1. CASE EndPrune(r)
  <2>1. pc' \in [Writers -> Labels] /\ running' \in BOOLEAN
    BY <1>1, AnswerType DEF EndPrune
  <2> QED BY <1>1, <2>1 DEF EndPrune, BackupTypeOK, database, disk, listing
<1>2. CASE Load(r)
  <2>1. pc' \in [Writers -> Labels] /\ running' \in BOOLEAN
    BY <1>2, AnswerType DEF Load
  <2>2. events' \in Nat
    BY <1>2, EventType DEF Load, BackupTypeOK
  <2>3. db' \in Nat
    BY <1>2 DEF Load, BackupTypeOK, Files
  <2> QED BY <1>2, <2>1, <2>2, <2>3 DEF Load, BackupTypeOK, disk, listing
<1>3. CASE DeleteFile(r)
  <2>1. pc' \in [Writers -> Labels] /\ running' \in BOOLEAN
    BY <1>3, AnswerType DEF DeleteFile
  <2>2. files' \in [Names -> Files] /\ own' \in [Writers -> BOOLEAN]
    BY <1>3, RemoveType DEF DeleteFile, BackupTypeOK, disk
  <2> QED BY <1>3, <2>1, <2>2 DEF DeleteFile, BackupTypeOK, database, listing
<1>4. CASE Delivered(r)
  <2>1. pc' \in [Writers -> Labels]
    BY <1>4, GotoType DEF Delivered, Writers, Labels
  <2>2. /\ target' \in [Slots -> Names \cup {NoName}] /\ out' \in [Writers -> Names \cup {NoName}]
        /\ own' \in [Writers -> BOOLEAN]
    BY <1>4 DEF Delivered, BackupTypeOK
  <2>3. /\ op' \in [Slots -> {"list", "create", "restore", "delete"}]
        /\ found' \in [Slots -> SUBSET (Managed \X Nat)]
    BY <1>4 DEF Delivered, BackupTypeOK
  <2> QED BY <1>4, <2>1, <2>2, <2>3 DEF Delivered, BackupTypeOK, database
<1> QED BY <1>1, <1>2, <1>3, <1>4

LEMMA OutsideType ==
  ASSUME BackupTypeOK, StartRun \/ EndRun \/ DataWrite \/ Tick \/ Crash
  PROVE  BackupTypeOK'
<1>1. CASE StartRun
  <2>1. <<"dump", now>> \in Names
    BY DEF BackupTypeOK, Names
  <2>2. /\ files' \in [Names -> Files] /\ own' \in [Writers -> BOOLEAN]
        /\ out' \in [Writers -> Names \cup {NoName}]
    BY <1>1, <2>1, OpenType DEF StartRun, Writers
  <2>3. pc' \in [Writers -> Labels] /\ events' \in Nat
    BY <1>1, GotoType, EventType DEF StartRun, Writers, Labels
  <2> QED BY <1>1, <2>2, <2>3 DEF StartRun, BackupTypeOK, database, listing
<1>2. CASE EndRun
  <2>1. pc' \in [Writers -> Labels]
    BY <1>2, GotoType DEF EndRun, Writers, Labels
  <2>2. out' \in [Writers -> Names \cup {NoName}] /\ own' \in [Writers -> BOOLEAN]
    BY <1>2 DEF EndRun, BackupTypeOK
  <2> QED BY <1>2, <2>1, <2>2 DEF EndRun, BackupTypeOK, database, listing
<1>3. CASE DataWrite
  BY <1>3, EventType DEF DataWrite, BackupTypeOK, disk, listing
<1>4. CASE Tick
  BY <1>4, EventType DEF Tick, BackupTypeOK, database, disk, listing
<1>5. CASE Crash
  <2>1. pc' \in [Writers -> Labels] /\ own' \in [Writers -> BOOLEAN]
    BY <1>5 DEF Crash, BackupTypeOK, Labels
  <2>2. /\ toStat' \in [Slots -> SUBSET Managed] /\ toUnlink' \in [Slots -> SUBSET Managed]
        /\ found' \in [Slots -> SUBSET (Managed \X Nat)] /\ prune' \in [Slots -> SUBSET Managed]
    BY <1>5 DEF Crash
  <2>3. events' \in Nat
    BY <1>5, EventType DEF Crash
  <2> QED BY <1>5, <2>1, <2>2, <2>3 DEF Crash, BackupTypeOK, database
<1> QED BY <1>1, <1>2, <1>3, <1>4, <1>5

-----------------------------------------------------------------------------
(* The inductive invariant.                                                *)

LabelsOf(what) ==
    {"ok", "error"} \cup
    CASE what = "list"    -> {"free", "stats"}
      [] what = "create"  -> {"name", "open", "fill", "undo", "stat", "readdir", "stats", "prune"}
      [] what = "restore" -> {"find", "name", "open", "fill", "undo", "load"}
      [] what = "delete"  -> {"find", "unlink"}

\* A restore between the making of its safety dump and its end.
Guards(r) == op[r] = "restore" /\ pc[r] \in {"open", "fill", "load"}

\* What a request may rely on where it is.
RequestOK(r) ==
    /\ pc[r] \in LabelsOf(op[r])
    /\ op[r] \in {"restore", "delete"} => target[r] \in Names
    /\ Guards(r) => /\ out[r] \in Names /\ out[r][1] = "pre-restore" /\ own[r]
                    /\ ~files[out[r]].mixed
    /\ Guards(r) /\ pc[r] = "load" => files[out[r]].stage = "full"

\* The workflow writes to no safety dump.
WorkflowOK == out[Workflow] = NoName \/ out[Workflow][1] = "dump"

BackupInv ==
    /\ BackupTypeOK
    /\ Exclusive
    /\ \A r \in Slots : RequestOK(r)
    /\ WorkflowOK

LEMMA SlotsApart == \A r \in Slots : r \in Writers /\ r # Workflow
BY DEF Writers

-----------------------------------------------------------------------------
(* The flag.                                                               *)

LEMMA FlagStays ==
  ASSUME Exclusive, op' = op, running' = running, \A s \in Slots : pc'[s] = pc[s]
  PROVE  Exclusive'
BY DEF Exclusive, Inside

\* A request that runs an operation goes on with it, or one that lists goes anywhere.
LEMMA FlagGoes ==
  ASSUME BackupTypeOK, Exclusive, NEW r \in Slots, NEW label, Goto(r, label),
         op' = op, running' = running,
         op[r] = "list" \/ (r \in Inside /\ label \notin {"free", "ok", "error"})
  PROVE  Exclusive'
<1>1. \A s \in Slots : pc'[s] = IF s = r THEN label ELSE pc[s]
  BY SlotsApart DEF BackupTypeOK, Goto
<1> QED BY <1>1 DEF Exclusive, Inside

\* An operation that runs ends and gives the flag back.
LEMMA FlagCleared ==
  ASSUME BackupTypeOK, Exclusive, NEW r \in Slots, NEW result \in {"ok", "error"},
         Answer(r, result), op' = op, op[r] = "list" \/ r \in Inside
  PROVE  Exclusive'
<1>1. \A s \in Slots : pc'[s] = IF s = r THEN result ELSE pc[s]
  BY SlotsApart DEF BackupTypeOK, Goto, Answer
<1>2. running' = (running /\ op[r] = "list")
  BY DEF Answer
<1>3. CASE op[r] = "list"
  BY <1>1, <1>2, <1>3 DEF Exclusive, Inside, BackupTypeOK
<1>4. CASE op[r] # "list"
  <2>1. \A s \in Slots : s \in Inside => s = r
    BY <1>4 DEF Exclusive
  <2>2. Inside' = {}
    BY <1>1, <1>4, <2>1 DEF Inside
  <2> QED BY <1>2, <1>4, <2>2 DEF Exclusive
<1> QED BY <1>3, <1>4

-----------------------------------------------------------------------------
(* The safety dump.                                                        *)

\* Others leave alone what request r is doing and the safety dump it has.
Spared(r) ==
    /\ pc'[r] = pc[r] /\ op'[r] = op[r] /\ target'[r] = target[r] /\ out'[r] = out[r]
    /\ Guards(r) => own'[r] = own[r] /\ files'[out[r]] = files[out[r]]

LEMMA SparedOK ==
  ASSUME NEW r \in Slots, RequestOK(r), Spared(r)
  PROVE  RequestOK(r)'
BY DEF RequestOK, Spared, Guards

\* Removing a file the listings manage spares every safety dump.
LEMMA RemoveSpares ==
  ASSUME BackupTypeOK, NEW r \in Slots, RequestOK(r), NEW n, Remove(n),
         n \in Managed \/ ~Guards(r)
  PROVE  Guards(r) => own'[r] = own[r] /\ files'[out[r]] = files[out[r]]
<1> SUFFICES ASSUME Guards(r) PROVE own'[r] = own[r] /\ files'[out[r]] = files[out[r]]
  OBVIOUS
<1>1. out[r] \in Names /\ out[r] # n
  BY DEF RequestOK, Managed
<1>2. own'[r] = own[r]
  BY <1>1, SlotsApart DEF Remove, BackupTypeOK
<1>3. files'[out[r]] = files[out[r]]
  BY <1>1 DEF Remove, BackupTypeOK
<1> QED BY <1>2, <1>3

\* While a restore guards its dump, another request that runs an operation does not exist.
LEMMA GuardAlone ==
  ASSUME Exclusive, NEW r \in Slots, Guards(r), NEW s \in Slots, s # r, RequestOK(s)
  PROVE  pc[s] \in {"free", "stats", "ok", "error"} /\ (pc[s] = "stats" => op[s] = "list")
<1>1. r \in Inside /\ s \notin Inside
  BY DEF Exclusive, Inside, Guards
<1> QED BY <1>1 DEF Inside, RequestOK, LabelsOf

-----------------------------------------------------------------------------
(* Every step keeps the invariant.                                         *)

LEMMA ArriveInv ==
  ASSUME BackupInv, NEW r \in Slots, NEW n, NEW what,
         \/ what \in {"list", "create"} /\ n = NoName
         \/ what \in {"restore", "delete"} /\ n \in Names,
         Arrive(r, what, n)
  PROVE  BackupInv'
<1>1. BackupTypeOK'
  BY ArriveType DEF BackupInv
<1>2. Exclusive'
  <2>1. \A s \in Slots : op'[s] = IF s = r THEN what ELSE op[s]
    BY DEF Arrive, BackupInv, BackupTypeOK
  <2>2. pc[r] = "free"
    BY DEF Arrive, CanArrive
  <2>3. CASE /\ what # "list" /\ ~running /\ running' = TRUE
             /\ Goto(r, IF what = "create" THEN "name" ELSE "find")
    <3>1. \A s \in Slots : pc'[s] = IF s = r THEN (IF what = "create" THEN "name" ELSE "find")
                                   ELSE pc[s]
      BY <2>3, SlotsApart DEF Goto, BackupInv, BackupTypeOK
    <3>2. Inside = {}
      BY <2>3 DEF BackupInv, Exclusive
    <3>3. Inside' = {r}
      BY <2>1, <2>3, <3>1, <3>2 DEF Inside
    <3> QED BY <2>3, <3>3 DEF Exclusive
  <2>4. CASE /\ running' = running
             /\ (what = "list" /\ Goto(r, "stats")) \/ Goto(r, "error")
    <3>1. \A s \in Slots : s # r => pc'[s] = pc[s]
      BY <2>4, SlotsApart DEF Goto, BackupInv, BackupTypeOK
    <3>2. (what = "list" /\ pc'[r] = "stats") \/ pc'[r] = "error"
      BY <2>4, SlotsApart DEF Goto, BackupInv, BackupTypeOK
    <3>3. Inside' = Inside
      BY <2>1, <2>2, <3>1, <3>2 DEF Inside
    <3> QED BY <2>4, <3>3 DEF BackupInv, Exclusive
  <2> QED BY <2>3, <2>4 DEF Arrive
<1>3. RequestOK(r)'
  <2>1. op'[r] = what /\ target'[r] = n /\ what \in {"list", "create", "restore", "delete"}
    BY DEF Arrive, BackupInv, BackupTypeOK
  <2>2. \/ what = "list" /\ pc'[r] = "stats"
        \/ pc'[r] = "error"
        \/ what # "list" /\ pc'[r] = IF what = "create" THEN "name" ELSE "find"
    BY SlotsApart DEF Arrive, Goto, BackupInv, BackupTypeOK
  <2> QED BY <2>1, <2>2 DEF RequestOK, LabelsOf, Guards
<1>4. ASSUME NEW s \in Slots, s # r
      PROVE  RequestOK(s)'
  <2>1. Spared(s)
    <3>1. pc'[s] = pc[s]
      BY <1>4, SlotsApart DEF Arrive, Goto, Answer, BackupInv, BackupTypeOK
    <3>2. op'[s] = op[s] /\ target'[s] = target[s] /\ out'[s] = out[s]
      BY <1>4, SlotsApart DEF Arrive, BackupInv, BackupTypeOK
    <3>3. own' = own /\ files' = files
      BY DEF Arrive, disk
    <3> QED BY <3>1, <3>2, <3>3 DEF Spared
  <2> QED BY <2>1, SparedOK DEF BackupInv
<1>5. WorkflowOK'
  BY DEF Arrive, BackupInv, WorkflowOK
<1> QED BY <1>1, <1>2, <1>3, <1>4, <1>5 DEF BackupInv

LEMMA FindTargetInv ==
  ASSUME BackupInv, NEW r \in Slots, FindTarget(r)
  PROVE  BackupInv'
<1>1. BackupTypeOK'
  BY FindTargetType DEF BackupInv
<1>2. Exclusive'
  <2>1. r \in Inside
    BY DEF FindTarget, BackupInv, RequestOK, LabelsOf, Inside, BackupTypeOK
  <2> QED BY <2>1, FlagGoes, FlagCleared DEF FindTarget, BackupInv
<1>3. RequestOK(r)'
  <2>1. op'[r] = op[r] /\ target'[r] = target[r] /\ op[r] \in {"restore", "delete"}
    BY DEF FindTarget, BackupInv, RequestOK, LabelsOf, BackupTypeOK
  <2>2. pc'[r] \in {"error", IF op[r] = "restore" THEN "name" ELSE "unlink"}
    BY SlotsApart DEF FindTarget, Goto, Answer, BackupInv, BackupTypeOK
  <2> QED BY <2>1, <2>2 DEF BackupInv, RequestOK, LabelsOf, Guards
<1>4. ASSUME NEW s \in Slots, s # r
      PROVE  RequestOK(s)'
  <2>1. Spared(s)
    <3>1. pc'[s] = pc[s]
      BY <1>4, SlotsApart DEF FindTarget, Goto, Answer, BackupInv, BackupTypeOK
    <3>2. op'[s] = op[s] /\ target'[s] = target[s] /\ out'[s] = out[s]
      BY <1>4, SlotsApart DEF FindTarget, BackupInv, BackupTypeOK
    <3>3. own' = own /\ files' = files
      BY DEF FindTarget, disk
    <3> QED BY <3>1, <3>2, <3>3 DEF Spared
  <2> QED BY <2>1, SparedOK DEF BackupInv
<1>5. WorkflowOK'
  BY DEF FindTarget, BackupInv, WorkflowOK
<1> QED BY <1>1, <1>2, <1>3, <1>4, <1>5 DEF BackupInv

LEMMA StartDumpInv ==
  ASSUME BackupInv, NEW r \in Slots, StartDump(r)
  PROVE  BackupInv'
<1>1. BackupTypeOK'
  BY StartDumpType DEF BackupInv
<1>2. Exclusive'
  <2>1. r \in Inside
    BY DEF StartDump, BackupInv, RequestOK, LabelsOf, Inside, BackupTypeOK
  <2> QED BY <2>1, FlagGoes DEF StartDump, BackupInv
<1>3. RequestOK(r)'
  <2>1. op'[r] = op[r] /\ target'[r] = target[r] /\ op[r] \in {"create", "restore"}
    BY DEF StartDump, BackupInv, RequestOK, LabelsOf, BackupTypeOK
  <2>2. pc'[r] = "open" /\ own'[r] = TRUE
    BY SlotsApart DEF StartDump, Goto, Open, BackupInv, BackupTypeOK
  <2>3. out'[r] = <<IF op[r] = "create" THEN "dump" ELSE "pre-restore", now>>
    BY SlotsApart DEF StartDump, Open, BackupInv, BackupTypeOK
  <2>4. op[r] = "restore" => out'[r] \in Names /\ out'[r][1] = "pre-restore"
    BY <2>3 DEF Names, BackupInv, BackupTypeOK
  <2>5. op[r] = "restore" => ~files'[out'[r]].mixed
    <3>1. SUFFICES ASSUME op[r] = "restore" PROVE ~files'[out'[r]].mixed
      OBVIOUS
    <3>2. out'[r] = <<"pre-restore", now>> /\ out'[r] \in Names
      BY <2>3, <2>4, <3>1
    <3>3. ASSUME NEW v \in Writers \ {r}, Writes(v, out'[r])
          PROVE  FALSE
      <4>1. CASE v = Workflow
        BY <3>2, <3>3, <4>1 DEF Writes, BackupInv, WorkflowOK, NoName
      <4>2. CASE v \in Slots
        BY <3>3, <4>2 DEF Writes, StartDump, BackupInv, BackupTypeOK, Exclusive, Inside, RequestOK,
           LabelsOf
      <4> QED BY <3>3, <4>1, <4>2 DEF Writers
    <3>4. ~\E v \in Writers \ {r} : Writes(v, out'[r])
      BY <3>3
    <3>5. Open(r, out'[r]) /\ files \in [Names -> Files]
      BY <2>1, <2>3 DEF StartDump, BackupInv, BackupTypeOK
    <3>6. files'[out'[r]].mixed = \E v \in Writers \ {r} : Writes(v, out'[r])
      BY <3>2, <3>5 DEF Open
    <3> QED BY <3>4, <3>6
  <2> QED BY <2>1, <2>2, <2>4, <2>5 DEF BackupInv, RequestOK, LabelsOf, Guards
<1>4. ASSUME NEW s \in Slots, s # r
      PROVE  RequestOK(s)'
  <2>1. pc[r] \in {"name"} /\ op[r] # "list"
    BY DEF StartDump, BackupInv, RequestOK, LabelsOf, BackupTypeOK
  <2>2. ~Guards(s)
    <3>1. Exclusive /\ RequestOK(r)
      BY DEF BackupInv
    <3> QED BY <1>4, <2>1, <3>1, GuardAlone
  <2>3. Spared(s)
    <3>1. pc'[s] = pc[s]
      BY <1>4, SlotsApart DEF StartDump, Goto, Answer, BackupInv, BackupTypeOK
    <3>2. op'[s] = op[s] /\ target'[s] = target[s] /\ out'[s] = out[s]
      BY <1>4, SlotsApart DEF StartDump, BackupInv, BackupTypeOK, Open
    <3> QED BY <2>2, <3>1, <3>2 DEF Spared
  <2> QED BY <2>3, SparedOK DEF BackupInv
<1>5. WorkflowOK'
  BY SlotsApart DEF StartDump, Open, BackupInv, WorkflowOK, BackupTypeOK
<1> QED BY <1>1, <1>2, <1>3, <1>4, <1>5 DEF BackupInv

LEMMA FillDumpInv ==
  ASSUME BackupInv, NEW r \in Slots, FillDump(r)
  PROVE  BackupInv'
<1>1. BackupTypeOK'
  BY FillDumpType DEF BackupInv, Writers
<1>2. Exclusive'
  <2>1. r \in Inside
    BY DEF FillDump, BackupInv, RequestOK, LabelsOf, Inside, BackupTypeOK
  <2> QED BY <2>1, FlagGoes DEF FillDump, BackupInv
<1>3. RequestOK(r)'
  <2>1. op'[r] = op[r] /\ target'[r] = target[r] /\ out'[r] = out[r] /\ own'[r] = own[r]
    BY DEF FillDump
  <2>2. pc[r] = "open" /\ pc'[r] = "fill"
    BY SlotsApart DEF FillDump, Goto, BackupInv, BackupTypeOK
  <2>3. op[r] \in {"create", "restore"}
    BY <2>2 DEF BackupInv, BackupTypeOK, RequestOK, LabelsOf
  <2>4. op[r] = "restore" => out[r] \in Names /\ ~files[out[r]].mixed
    BY <2>2 DEF BackupInv, RequestOK, Guards
  <2>5. op[r] = "restore" => ~files'[out[r]].mixed
    BY <2>4 DEF FillDump, Put, BackupInv, BackupTypeOK, Files
  <2> QED BY <2>1, <2>2, <2>3, <2>5 DEF BackupInv, RequestOK, LabelsOf, Guards
<1>4. ASSUME NEW s \in Slots, s # r
      PROVE  RequestOK(s)'
  <2>1. pc[r] \in {"open"} /\ op[r] # "list"
    BY DEF FillDump, BackupInv, RequestOK, LabelsOf, BackupTypeOK
  <2>2. ~Guards(s)
    <3>1. Exclusive /\ RequestOK(r)
      BY DEF BackupInv
    <3> QED BY <1>4, <2>1, <3>1, GuardAlone
  <2>3. Spared(s)
    <3>1. pc'[s] = pc[s]
      BY <1>4, SlotsApart DEF FillDump, Goto, Answer, BackupInv, BackupTypeOK
    <3>2. op'[s] = op[s] /\ target'[s] = target[s] /\ out'[s] = out[s]
      BY <1>4, SlotsApart DEF FillDump, BackupInv, BackupTypeOK
    <3> QED BY <2>2, <3>1, <3>2 DEF Spared
  <2> QED BY <2>3, SparedOK DEF BackupInv
<1>5. WorkflowOK'
  BY DEF FillDump, BackupInv, WorkflowOK
<1> QED BY <1>1, <1>2, <1>3, <1>4, <1>5 DEF BackupInv

LEMMA EndDumpInv ==
  ASSUME BackupInv, NEW r \in Slots, EndDump(r)
  PROVE  BackupInv'
<1>1. BackupTypeOK'
  BY EndDumpType DEF BackupInv, Writers
<1>2. Exclusive'
  <2>1. r \in Inside
    BY DEF EndDump, BackupInv, RequestOK, LabelsOf, Inside, BackupTypeOK
  <2>2. Dumped(r) \notin {"free", "ok", "error"}
    BY SlotsApart, BackupAssumption DEF Dumped
  <2> QED BY <2>1, <2>2, FlagGoes DEF EndDump, BackupInv
<1>3. RequestOK(r)'
  <2>1. op'[r] = op[r] /\ target'[r] = target[r] /\ out'[r] = out[r] /\ own'[r] = own[r]
    BY DEF EndDump
  <2>2. pc[r] = "fill" /\ op[r] \in {"create", "restore"}
    BY DEF EndDump, BackupInv, RequestOK, LabelsOf, BackupTypeOK
  <2>3. pc'[r] = IF op[r] = "create" THEN "stat" ELSE "load"
    BY SlotsApart DEF EndDump, Goto, Dumped, BackupInv, BackupTypeOK
  <2>4. op[r] = "restore" => out[r] \in Names /\ own[r] /\ ~files[out[r]].mixed
    BY <2>2 DEF BackupInv, RequestOK, Guards
  <2>5. op[r] = "restore" => files'[out[r]].stage = "full" /\ ~files'[out[r]].mixed
    BY <2>4 DEF EndDump, Put, BackupInv, BackupTypeOK, Files
  <2> QED BY <2>1, <2>2, <2>3, <2>5 DEF BackupInv, RequestOK, LabelsOf, Guards
<1>4. ASSUME NEW s \in Slots, s # r
      PROVE  RequestOK(s)'
  <2>1. pc[r] \in {"fill"} /\ op[r] # "list"
    BY DEF EndDump, BackupInv, RequestOK, LabelsOf, BackupTypeOK
  <2>2. ~Guards(s)
    <3>1. Exclusive /\ RequestOK(r)
      BY DEF BackupInv
    <3> QED BY <1>4, <2>1, <3>1, GuardAlone
  <2>3. Spared(s)
    <3>1. pc'[s] = pc[s]
      BY <1>4, SlotsApart DEF EndDump, Goto, Answer, BackupInv, BackupTypeOK
    <3>2. op'[s] = op[s] /\ target'[s] = target[s] /\ out'[s] = out[s]
      BY <1>4, SlotsApart DEF EndDump, BackupInv, BackupTypeOK
    <3> QED BY <2>2, <3>1, <3>2 DEF Spared
  <2> QED BY <2>3, SparedOK DEF BackupInv
<1>5. WorkflowOK'
  BY DEF EndDump, BackupInv, WorkflowOK
<1> QED BY <1>1, <1>2, <1>3, <1>4, <1>5 DEF BackupInv

LEMMA FailDumpInv ==
  ASSUME BackupInv, NEW r \in Slots, FailDump(r)
  PROVE  BackupInv'
<1>1. BackupTypeOK'
  BY DumpEndsType DEF FailDump, BackupInv, RequestOK, LabelsOf, BackupTypeOK
<1>2. Exclusive'
  <2>1. r \in Inside
    BY DEF FailDump, BackupInv, RequestOK, LabelsOf, Inside, BackupTypeOK
  <2> QED BY <2>1, FlagGoes, FlagCleared DEF FailDump, BackupInv
<1>3. RequestOK(r)'
  <2>1. op'[r] = op[r] /\ target'[r] = target[r]
    BY DEF FailDump
  <2>2. pc'[r] \in {"undo"}
    BY SlotsApart DEF FailDump, Goto, Answer, BackupInv, BackupTypeOK
  <2>3. pc[r] \in {"open", "fill"} /\ pc[r] \in LabelsOf(op[r])
    BY DEF FailDump, BackupInv, RequestOK
  <2> QED BY <2>1, <2>2, <2>3 DEF BackupInv, RequestOK, LabelsOf, Guards, BackupTypeOK
<1>4. ASSUME NEW s \in Slots, s # r
      PROVE  RequestOK(s)'
  <2>1. Spared(s)
    <3>1. pc'[s] = pc[s]
      BY <1>4, SlotsApart DEF FailDump, Goto, Answer, BackupInv, BackupTypeOK
    <3>2. op'[s] = op[s] /\ target'[s] = target[s] /\ out'[s] = out[s]
      BY <1>4, SlotsApart DEF FailDump, BackupInv, BackupTypeOK
    <3>3. own' = own /\ files' = files
      BY DEF FailDump, disk
    <3> QED BY <3>1, <3>2, <3>3 DEF Spared
  <2> QED BY <2>1, SparedOK DEF BackupInv
<1>5. WorkflowOK'
  BY DEF FailDump, BackupInv, WorkflowOK
<1> QED BY <1>1, <1>2, <1>3, <1>4, <1>5 DEF BackupInv

LEMMA UndoDumpInv ==
  ASSUME BackupInv, NEW r \in Slots, UndoDump(r)
  PROVE  BackupInv'
<1>1. BackupTypeOK'
  BY DumpEndsType DEF UndoDump, BackupInv, RequestOK, LabelsOf, BackupTypeOK
<1>2. Exclusive'
  <2>1. r \in Inside
    BY DEF UndoDump, BackupInv, RequestOK, LabelsOf, Inside, BackupTypeOK
  <2> QED BY <2>1, FlagGoes, FlagCleared DEF UndoDump, BackupInv
<1>3. RequestOK(r)'
  <2>1. op'[r] = op[r] /\ target'[r] = target[r]
    BY DEF UndoDump
  <2>2. pc'[r] \in {"error"}
    BY SlotsApart DEF UndoDump, Goto, Answer, BackupInv, BackupTypeOK
  <2>3. pc[r] \in {"undo"} /\ pc[r] \in LabelsOf(op[r])
    BY DEF UndoDump, BackupInv, RequestOK
  <2> QED BY <2>1, <2>2, <2>3 DEF BackupInv, RequestOK, LabelsOf, Guards, BackupTypeOK
<1>4. ASSUME NEW s \in Slots, s # r
      PROVE  RequestOK(s)'
  <2>1. pc[r] \in {"undo"} /\ op[r] # "list"
    BY DEF UndoDump, BackupInv, RequestOK, LabelsOf, BackupTypeOK
  <2>2. ~Guards(s)
    <3>1. Exclusive /\ RequestOK(r)
      BY DEF BackupInv
    <3> QED BY <1>4, <2>1, <3>1, GuardAlone
  <2>3. Spared(s)
    <3>1. pc'[s] = pc[s]
      BY <1>4, SlotsApart DEF UndoDump, Goto, Answer, BackupInv, BackupTypeOK
    <3>2. op'[s] = op[s] /\ target'[s] = target[s] /\ out'[s] = out[s]
      BY <1>4, SlotsApart DEF UndoDump, BackupInv, BackupTypeOK
    <3> QED BY <2>2, <3>1, <3>2 DEF Spared
  <2> QED BY <2>3, SparedOK DEF BackupInv
<1>5. WorkflowOK'
  BY DEF UndoDump, BackupInv, WorkflowOK
<1> QED BY <1>1, <1>2, <1>3, <1>4, <1>5 DEF BackupInv

LEMMA StatDumpInv ==
  ASSUME BackupInv, NEW r \in Slots, StatDump(r)
  PROVE  BackupInv'
<1>1. BackupTypeOK'
  BY DumpEndsType DEF StatDump, BackupInv, RequestOK, LabelsOf, BackupTypeOK
<1>2. Exclusive'
  <2>1. r \in Inside
    BY DEF StatDump, BackupInv, RequestOK, LabelsOf, Inside, BackupTypeOK
  <2> QED BY <2>1, FlagGoes, FlagCleared DEF StatDump, BackupInv
<1>3. RequestOK(r)'
  <2>1. op'[r] = op[r] /\ target'[r] = target[r]
    BY DEF StatDump
  <2>2. pc'[r] \in {"ok", "error", "readdir"}
    BY SlotsApart DEF StatDump, Goto, Answer, BackupInv, BackupTypeOK
  <2>3. pc[r] \in {"stat"} /\ pc[r] \in LabelsOf(op[r])
    BY DEF StatDump, BackupInv, RequestOK
  <2> QED BY <2>1, <2>2, <2>3 DEF BackupInv, RequestOK, LabelsOf, Guards, BackupTypeOK
<1>4. ASSUME NEW s \in Slots, s # r
      PROVE  RequestOK(s)'
  <2>1. Spared(s)
    <3>1. pc'[s] = pc[s]
      BY <1>4, SlotsApart DEF StatDump, Goto, Answer, BackupInv, BackupTypeOK
    <3>2. op'[s] = op[s] /\ target'[s] = target[s] /\ out'[s] = out[s]
      BY <1>4, SlotsApart DEF StatDump, BackupInv, BackupTypeOK
    <3>3. own' = own /\ files' = files
      BY DEF StatDump, disk
    <3> QED BY <3>1, <3>2, <3>3 DEF Spared
  <2> QED BY <2>1, SparedOK DEF BackupInv
<1>5. WorkflowOK'
  BY DEF StatDump, BackupInv, WorkflowOK
<1> QED BY <1>1, <1>2, <1>3, <1>4, <1>5 DEF BackupInv

LEMMA ReadDirInv ==
  ASSUME BackupInv, NEW r \in Slots, ReadDir(r)
  PROVE  BackupInv'
<1>1. BackupTypeOK'
  BY DumpEndsType DEF ReadDir, BackupInv, RequestOK, LabelsOf, BackupTypeOK
<1>2. Exclusive'
  <2>1. r \in Inside
    BY DEF ReadDir, BackupInv, RequestOK, LabelsOf, Inside, BackupTypeOK
  <2> QED BY <2>1, FlagGoes, FlagCleared DEF ReadDir, BackupInv
<1>3. RequestOK(r)'
  <2>1. op'[r] = op[r] /\ target'[r] = target[r]
    BY DEF ReadDir
  <2>2. pc'[r] \in {"stats"}
    BY SlotsApart DEF ReadDir, Goto, Answer, BackupInv, BackupTypeOK
  <2>3. pc[r] \in {"readdir"} /\ pc[r] \in LabelsOf(op[r])
    BY DEF ReadDir, BackupInv, RequestOK
  <2> QED BY <2>1, <2>2, <2>3 DEF BackupInv, RequestOK, LabelsOf, Guards, BackupTypeOK
<1>4. ASSUME NEW s \in Slots, s # r
      PROVE  RequestOK(s)'
  <2>1. Spared(s)
    <3>1. pc'[s] = pc[s]
      BY <1>4, SlotsApart DEF ReadDir, Goto, Answer, BackupInv, BackupTypeOK
    <3>2. op'[s] = op[s] /\ target'[s] = target[s] /\ out'[s] = out[s]
      BY <1>4, SlotsApart DEF ReadDir, BackupInv, BackupTypeOK
    <3>3. own' = own /\ files' = files
      BY DEF ReadDir, disk
    <3> QED BY <3>1, <3>2, <3>3 DEF Spared
  <2> QED BY <2>1, SparedOK DEF BackupInv
<1>5. WorkflowOK'
  BY DEF ReadDir, BackupInv, WorkflowOK
<1> QED BY <1>1, <1>2, <1>3, <1>4, <1>5 DEF BackupInv

LEMMA EndPruneInv ==
  ASSUME BackupInv, NEW r \in Slots, EndPrune(r)
  PROVE  BackupInv'
<1>1. BackupTypeOK'
  BY RequestEndsType DEF EndPrune, BackupInv, RequestOK, LabelsOf, BackupTypeOK
<1>2. Exclusive'
  <2>1. r \in Inside
    BY DEF EndPrune, BackupInv, RequestOK, LabelsOf, Inside, BackupTypeOK
  <2> QED BY <2>1, FlagGoes, FlagCleared DEF EndPrune, BackupInv
<1>3. RequestOK(r)'
  <2>1. op'[r] = op[r] /\ target'[r] = target[r]
    BY DEF EndPrune
  <2>2. pc'[r] \in {"ok"}
    BY SlotsApart DEF EndPrune, Goto, Answer, BackupInv, BackupTypeOK
  <2>3. pc[r] \in {"prune"} /\ pc[r] \in LabelsOf(op[r])
    BY DEF EndPrune, BackupInv, RequestOK
  <2> QED BY <2>1, <2>2, <2>3 DEF BackupInv, RequestOK, LabelsOf, Guards, BackupTypeOK
<1>4. ASSUME NEW s \in Slots, s # r
      PROVE  RequestOK(s)'
  <2>1. Spared(s)
    <3>1. pc'[s] = pc[s]
      BY <1>4, SlotsApart DEF EndPrune, Goto, Answer, BackupInv, BackupTypeOK
    <3>2. op'[s] = op[s] /\ target'[s] = target[s] /\ out'[s] = out[s]
      BY <1>4, SlotsApart DEF EndPrune, BackupInv, BackupTypeOK
    <3>3. own' = own /\ files' = files
      BY DEF EndPrune, disk
    <3> QED BY <3>1, <3>2, <3>3 DEF Spared
  <2> QED BY <2>1, SparedOK DEF BackupInv
<1>5. WorkflowOK'
  BY DEF EndPrune, BackupInv, WorkflowOK
<1> QED BY <1>1, <1>2, <1>3, <1>4, <1>5 DEF BackupInv

LEMMA LoadInv ==
  ASSUME BackupInv, NEW r \in Slots, Load(r)
  PROVE  BackupInv'
<1>1. BackupTypeOK'
  BY RequestEndsType DEF Load, BackupInv, RequestOK, LabelsOf, BackupTypeOK
<1>2. Exclusive'
  <2>1. r \in Inside
    BY DEF Load, BackupInv, RequestOK, LabelsOf, Inside, BackupTypeOK
  <2> QED BY <2>1, FlagGoes, FlagCleared DEF Load, BackupInv
<1>3. RequestOK(r)'
  <2>1. op'[r] = op[r] /\ target'[r] = target[r]
    BY DEF Load
  <2>2. pc'[r] \in {"ok", "error"}
    BY SlotsApart DEF Load, Goto, Answer, BackupInv, BackupTypeOK
  <2>3. pc[r] \in {"load"} /\ pc[r] \in LabelsOf(op[r])
    BY DEF Load, BackupInv, RequestOK
  <2> QED BY <2>1, <2>2, <2>3 DEF BackupInv, RequestOK, LabelsOf, Guards, BackupTypeOK
<1>4. ASSUME NEW s \in Slots, s # r
      PROVE  RequestOK(s)'
  <2>1. Spared(s)
    <3>1. pc'[s] = pc[s]
      BY <1>4, SlotsApart DEF Load, Goto, Answer, BackupInv, BackupTypeOK
    <3>2. op'[s] = op[s] /\ target'[s] = target[s] /\ out'[s] = out[s]
      BY <1>4, SlotsApart DEF Load, BackupInv, BackupTypeOK
    <3>3. own' = own /\ files' = files
      BY DEF Load, disk
    <3> QED BY <3>1, <3>2, <3>3 DEF Spared
  <2> QED BY <2>1, SparedOK DEF BackupInv
<1>5. WorkflowOK'
  BY DEF Load, BackupInv, WorkflowOK
<1> QED BY <1>1, <1>2, <1>3, <1>4, <1>5 DEF BackupInv

LEMMA DeleteFileInv ==
  ASSUME BackupInv, NEW r \in Slots, DeleteFile(r)
  PROVE  BackupInv'
<1>1. BackupTypeOK'
  BY RequestEndsType DEF DeleteFile, BackupInv, RequestOK, LabelsOf, BackupTypeOK
<1>2. Exclusive'
  <2>1. r \in Inside
    BY DEF DeleteFile, BackupInv, RequestOK, LabelsOf, Inside, BackupTypeOK
  <2> QED BY <2>1, FlagGoes, FlagCleared DEF DeleteFile, BackupInv
<1>3. RequestOK(r)'
  <2>1. op'[r] = op[r] /\ target'[r] = target[r]
    BY DEF DeleteFile
  <2>2. pc'[r] \in {"ok", "error"}
    BY SlotsApart DEF DeleteFile, Goto, Answer, BackupInv, BackupTypeOK
  <2>3. pc[r] \in {"unlink"} /\ pc[r] \in LabelsOf(op[r])
    BY DEF DeleteFile, BackupInv, RequestOK
  <2> QED BY <2>1, <2>2, <2>3 DEF BackupInv, RequestOK, LabelsOf, Guards, BackupTypeOK
<1>4. ASSUME NEW s \in Slots, s # r
      PROVE  RequestOK(s)'
  <2>1. pc[r] \in {"unlink"} /\ op[r] # "list"
    BY DEF DeleteFile, BackupInv, RequestOK, LabelsOf, BackupTypeOK
  <2>2. ~Guards(s)
    <3>1. Exclusive /\ RequestOK(r)
      BY DEF BackupInv
    <3> QED BY <1>4, <2>1, <3>1, GuardAlone
  <2>3. Spared(s)
    <3>1. pc'[s] = pc[s]
      BY <1>4, SlotsApart DEF DeleteFile, Goto, Answer, BackupInv, BackupTypeOK
    <3>2. op'[s] = op[s] /\ target'[s] = target[s] /\ out'[s] = out[s]
      BY <1>4, SlotsApart DEF DeleteFile, BackupInv, BackupTypeOK
    <3> QED BY <2>2, <3>1, <3>2 DEF Spared
  <2> QED BY <2>3, SparedOK DEF BackupInv
<1>5. WorkflowOK'
  BY DEF DeleteFile, BackupInv, WorkflowOK
<1> QED BY <1>1, <1>2, <1>3, <1>4, <1>5 DEF BackupInv

LEMMA StatFileInv ==
  ASSUME BackupInv, NEW r \in Slots, NEW n, StatFile(r, n)
  PROVE  BackupInv'
<1>1. BackupTypeOK'
  BY StatFileType DEF BackupInv
<1>2. Exclusive'
  <2>1. CASE pc[r] = "stats" /\ Answer(r, "error")
    <3>1. op[r] = "list" \/ r \in Inside
      BY <2>1 DEF Inside
    <3> QED BY <2>1, <3>1, FlagCleared DEF StatFile, BackupInv
  <2>2. CASE UNCHANGED <<pc, running>>
    BY <2>2, FlagStays DEF StatFile, BackupInv
  <2> QED BY <2>1, <2>2 DEF StatFile
<1>3. ASSUME NEW s \in Slots
      PROVE  RequestOK(s)'
  <2>1. CASE pc'[s] = pc[s]
    <3>1. Spared(s)
      BY <2>1 DEF StatFile, Spared, disk
    <3> QED BY <3>1, SparedOK DEF BackupInv
  <2>2. CASE pc'[s] = "error"
    BY <2>2 DEF StatFile, BackupInv, RequestOK, LabelsOf, Guards
  <2>3. pc'[s] \in {pc[s], "error"}
    BY SlotsApart DEF StatFile, Goto, Answer, BackupInv, BackupTypeOK
  <2> QED BY <2>1, <2>2, <2>3
<1>4. WorkflowOK'
  BY DEF StatFile, BackupInv, WorkflowOK
<1> QED BY <1>1, <1>2, <1>3, <1>4 DEF BackupInv

LEMMA RemovalsInv ==
  ASSUME BackupInv, NEW r \in Slots, NEW n, UnlinkEmpty(r, n) \/ PruneFile(r, n)
  PROVE  BackupInv'
<1>1. BackupTypeOK'
  BY RemovalsType DEF BackupInv
<1>2. Exclusive'
  BY FlagStays DEF UnlinkEmpty, PruneFile, BackupInv
<1>3. ASSUME NEW s \in Slots
      PROVE  RequestOK(s)'
  <2>1. n \in Managed /\ Remove(n)
    BY DEF UnlinkEmpty, PruneFile, BackupInv, BackupTypeOK
  <2>2. Guards(s) => own'[s] = own[s] /\ files'[out[s]] = files[out[s]]
    BY <1>3, <2>1, RemoveSpares DEF BackupInv
  <2>3. Spared(s)
    BY <2>2 DEF UnlinkEmpty, PruneFile, Spared
  <2> QED BY <1>3, <2>3, SparedOK DEF BackupInv
<1>4. WorkflowOK'
  BY DEF UnlinkEmpty, PruneFile, BackupInv, WorkflowOK
<1> QED BY <1>1, <1>2, <1>3, <1>4 DEF BackupInv

LEMMA EndListingInv ==
  ASSUME BackupInv, NEW r \in Slots, EndListing(r)
  PROVE  BackupInv'
<1>1. BackupTypeOK'
  BY EndListingType DEF BackupInv
<1>2. pc[r] = "stats" /\ UNCHANGED <<op, target, out, files, own, running>>
  BY DEF EndListing, disk
<1>3. Exclusive'
  <2>1. CASE op[r] = "list" /\ Goto(r, "ok")
    BY <1>2, <2>1, FlagGoes DEF BackupInv
  <2>2. CASE op[r] = "create" /\ Goto(r, "prune")
    <3>1. r \in Inside
      BY <1>2, <2>2 DEF Inside
    <3> QED BY <1>2, <2>2, <3>1, FlagGoes DEF BackupInv
  <2> QED BY <2>1, <2>2 DEF EndListing
<1>4. RequestOK(r)'
  <2>1. \/ op[r] = "list" /\ pc'[r] = "ok"
        \/ op[r] = "create" /\ pc'[r] = "prune"
    BY SlotsApart DEF EndListing, Goto, BackupInv, BackupTypeOK
  <2> QED BY <1>2, <2>1 DEF RequestOK, LabelsOf, Guards
<1>5. ASSUME NEW s \in Slots, s # r
      PROVE  RequestOK(s)'
  <2>1. pc'[s] = pc[s]
    BY <1>5, SlotsApart DEF EndListing, Goto, BackupInv, BackupTypeOK
  <2>2. Spared(s)
    BY <1>2, <2>1 DEF Spared
  <2> QED BY <2>2, SparedOK DEF BackupInv
<1>6. WorkflowOK'
  BY <1>2 DEF BackupInv, WorkflowOK
<1> QED BY <1>1, <1>3, <1>4, <1>5, <1>6 DEF BackupInv

LEMMA DeliveredInv ==
  ASSUME BackupInv, NEW r \in Slots, Delivered(r)
  PROVE  BackupInv'
<1>1. BackupTypeOK'
  BY RequestEndsType DEF Delivered, BackupInv
<1>2. \A s \in Slots : /\ pc'[s] = IF s = r THEN "free" ELSE pc[s]
                       /\ op'[s] = IF s = r THEN "list" ELSE op[s]
                       /\ s # r => target'[s] = target[s] /\ out'[s] = out[s] /\ own'[s] = own[s]
  BY SlotsApart DEF Delivered, Goto, BackupInv, BackupTypeOK
<1>3. Exclusive'
  <2>1. pc[r] \in {"ok", "error"} /\ pc'[r] = "free"
    BY <1>2 DEF Delivered
  <2>2. \A s \in Slots : s # r => pc'[s] = pc[s] /\ op'[s] = op[s]
    BY <1>2
  <2>3. Inside' = Inside
    BY <2>1, <2>2 DEF Inside
  <2> QED BY <2>3 DEF Delivered, BackupInv, Exclusive
<1>4. RequestOK(r)'
  BY <1>2 DEF RequestOK, LabelsOf, Guards
<1>5. ASSUME NEW s \in Slots, s # r
      PROVE  RequestOK(s)'
  <2>1. Spared(s)
    BY <1>2, <1>5 DEF Delivered, Spared
  <2> QED BY <2>1, SparedOK DEF BackupInv
<1>6. WorkflowOK'
  BY SlotsApart DEF Delivered, BackupInv, BackupTypeOK, WorkflowOK
<1> QED BY <1>1, <1>3, <1>4, <1>5, <1>6 DEF BackupInv

\* The workflow's dump is never the safety dump of a restore.
LEMMA WorkflowInv ==
  ASSUME BackupInv, StartRun \/ FillDump(Workflow) \/ EndDump(Workflow) \/ EndRun
  PROVE  BackupInv'
<1>1. BackupTypeOK'
  BY OutsideType, FillDumpType, EndDumpType DEF BackupInv, Writers
<1>2. \A s \in Slots : pc'[s] = pc[s] /\ out'[s] = out[s] /\ own'[s] = own[s]
  BY SlotsApart
  DEF StartRun, FillDump, EndDump, EndRun, Open, Goto, BackupInv, BackupTypeOK
<1>3. UNCHANGED <<op, target, running>>
  BY DEF StartRun, FillDump, EndDump, EndRun
<1>4. Exclusive'
  BY <1>2, <1>3, FlagStays DEF BackupInv
<1>5. ASSUME NEW s \in Slots
      PROVE  RequestOK(s)'
  <2>1. Guards(s) => files'[out[s]] = files[out[s]]
    <3>1. SUFFICES ASSUME Guards(s) PROVE files'[out[s]] = files[out[s]]
      OBVIOUS
    <3>2. out[s] \in Names /\ out[s][1] = "pre-restore" /\ out[s] # out[Workflow]
      BY <3>1, NoNameApart DEF BackupInv, RequestOK, WorkflowOK
    <3>3. CASE StartRun
      BY <3>2, <3>3 DEF StartRun, Open, BackupInv, BackupTypeOK
    <3>4. CASE FillDump(Workflow) \/ EndDump(Workflow)
      BY <3>2, <3>4 DEF FillDump, EndDump, Put, BackupInv, BackupTypeOK
    <3>5. CASE EndRun
      BY <3>5 DEF EndRun
    <3> QED BY <3>3, <3>4, <3>5
  <2>2. Spared(s)
    BY <1>2, <1>3, <1>5, <2>1 DEF Spared
  <2> QED BY <2>2, SparedOK DEF BackupInv
<1>6. WorkflowOK'
  BY DEF StartRun, FillDump, EndDump, EndRun, Open, BackupInv, BackupTypeOK, WorkflowOK, Writers
<1> QED BY <1>1, <1>4, <1>5, <1>6 DEF BackupInv

LEMMA OutsideInv ==
  ASSUME BackupInv, DataWrite \/ Tick \/ Crash
  PROVE  BackupInv'
<1>1. BackupTypeOK'
  BY OutsideType DEF BackupInv
<1>2. CASE DataWrite \/ Tick
  <2>1. UNCHANGED <<op, pc, target, out, own, files, running>>
    BY <1>2 DEF DataWrite, Tick, disk
  <2>2. Exclusive' /\ WorkflowOK'
    BY <2>1 DEF BackupInv, Exclusive, Inside, WorkflowOK
  <2>3. \A s \in Slots : RequestOK(s)'
    BY <2>1 DEF BackupInv, RequestOK, Guards
  <2> QED BY <1>1, <2>2, <2>3 DEF BackupInv
<1>3. CASE Crash
  <2>1. \A s \in Slots : pc'[s] = IF pc[s] = "free" THEN "free" ELSE "error"
    BY <1>3, SlotsApart DEF Crash, BackupInv, BackupTypeOK
  <2>2. UNCHANGED <<op, target, out>> /\ running' = FALSE
    BY <1>3 DEF Crash
  <2>3. Exclusive' /\ WorkflowOK'
    BY <2>1, <2>2 DEF BackupInv, Exclusive, Inside, WorkflowOK
  <2>4. \A s \in Slots : RequestOK(s)'
    BY <2>1, <2>2 DEF BackupInv, RequestOK, Guards, LabelsOf
  <2> QED BY <1>1, <2>3, <2>4 DEF BackupInv
<1> QED BY <1>2, <1>3

-----------------------------------------------------------------------------
(* The theorems.                                                           *)

LEMMA InvInit ==
  ASSUME BackupInit
  PROVE  BackupInv
<1>1. BackupTypeOK
  <2>1. Gone \in Files /\ 0 \in Seconds
    BY DEF Gone, Files, Stages, Seconds
  <2>2. files \in [Names -> Files] /\ pc \in [Writers -> Labels]
    BY <2>1 DEF BackupInit, Labels
  <2>3. /\ out \in [Writers -> Names \cup {NoName}] /\ own \in [Writers -> BOOLEAN]
        /\ target \in [Slots -> Names \cup {NoName}]
    BY DEF BackupInit
  <2>4. /\ toStat \in [Slots -> SUBSET Managed] /\ toUnlink \in [Slots -> SUBSET Managed]
        /\ found \in [Slots -> SUBSET (Managed \X Nat)] /\ prune \in [Slots -> SUBSET Managed]
    BY DEF BackupInit
  <2> QED BY <2>1, <2>2, <2>3, <2>4 DEF BackupInit, BackupTypeOK
<1>2. Exclusive
  BY SlotsApart DEF BackupInit, Exclusive, Inside
<1>3. \A r \in Slots : RequestOK(r)
  BY SlotsApart DEF BackupInit, RequestOK, Guards, LabelsOf
<1>4. WorkflowOK
  BY DEF BackupInit, WorkflowOK, Writers
<1> QED BY <1>1, <1>2, <1>3, <1>4 DEF BackupInv

LEMMA InvStep ==
  ASSUME BackupInv, [BackupNext]_backupVars
  PROVE  BackupInv'
<1>1. CASE UNCHANGED backupVars
  <2>1. BackupTypeOK'
    BY <1>1 DEF BackupInv, BackupTypeOK, backupVars, database, disk, listing
  <2>2. UNCHANGED <<op, pc, target, out, own, files, running>>
    BY <1>1 DEF backupVars, disk
  <2>3. Exclusive' /\ WorkflowOK'
    BY <2>2 DEF BackupInv, Exclusive, Inside, WorkflowOK
  <2>4. \A s \in Slots : RequestOK(s)'
    BY <2>2 DEF BackupInv, RequestOK, Guards
  <2> QED BY <2>1, <2>3, <2>4 DEF BackupInv
<1>2. ASSUME NEW r \in Slots, RequestStep(r) \/ FailDump(r)
      PROVE  BackupInv'
  BY <1>2, FindTargetInv, StartDumpInv, FillDumpInv, EndDumpInv, UndoDumpInv, StatDumpInv,
     ReadDirInv, EndListingInv, EndPruneInv, StatFileInv, RemovalsInv, LoadInv, DeleteFileInv,
     FailDumpInv
  DEF RequestStep, DumpStep, ListingStep
<1>3. CASE WorkflowStep \/ DataWrite \/ Tick \/ Crash
  BY <1>3, WorkflowInv, OutsideInv DEF WorkflowStep
<1>4. CASE ClientStep
  <2>1. PICK r \in Slots :
           \/ Arrive(r, "list", NoName) \/ Arrive(r, "create", NoName)
           \/ \E n \in Names : Arrive(r, "restore", n) \/ Arrive(r, "delete", n)
           \/ Delivered(r)
    BY <1>4 DEF ClientStep
  <2> QED BY <2>1, ArriveInv, DeliveredInv
<1> QED BY <1>1, <1>2, <1>3, <1>4 DEF BackupNext, ServerStep

\* The inductive invariant of the backups.
THEOREM BackupInvariance == BackupSpec => []BackupInv
<1>1. BackupInit => BackupInv
  BY InvInit
<1>2. BackupInv /\ [BackupNext]_backupVars => BackupInv'
  BY InvStep
<1> QED BY <1>1, <1>2, PTL DEF BackupSpec

\* Every reachable state of the backup service is well typed, and no safety dump is among
\* the files that are listed, removed as empty or pruned.
THEOREM BackupsTypeCorrect == BackupSpec => []BackupTypeOK
<1>1. BackupInv => BackupTypeOK
  BY DEF BackupInv
<1> QED BY <1>1, BackupInvariance, PTL

\* `running' is set just while one operation runs, for any number of requests, failures and
\* restarts.
THEOREM OperationsExclude == BackupSpec => []Exclusive
<1>1. BackupInv => Exclusive
  BY DEF BackupInv
<1> QED BY <1>1, BackupInvariance, PTL

\* A restore loads its dump only with a complete safety dump in place, whatever requests and
\* the workflow do.
THEOREM SafetyDumpHolds == BackupSpec => []SafetyHolds
<1>1. BackupInv => SafetyHolds
  <2>1. SUFFICES ASSUME BackupInv, NEW r \in Slots, pc[r] = "load"
                 PROVE  /\ out[r][1] = "pre-restore" /\ own[r]
                        /\ Complete(out[r])
    BY DEF SafetyHolds
  <2>2. op[r] = "restore"
    BY <2>1 DEF BackupInv, BackupTypeOK, RequestOK, LabelsOf
  <2> QED BY <2>1, <2>2 DEF BackupInv, RequestOK, Guards, Complete
<1> QED BY <1>1, BackupInvariance, PTL
-----------------------------------------------------------------------------
(* Dumps that were made.                                                   *)

Lucky(n) == n \notin unlucky

\* Only dumps that share a second have one file.
ApartOK ==
    \A v, w \in Writers : v # w /\ out[v] = out[w] /\ out[v] # NoName => ~Lucky(out[v])

\* One dump wrote the file, and a complete one is out of the reach of listings.
FileOK(n) == Lucky(n) =>
    /\ ~files[n].mixed
    /\ files[n].stage = "full" => \A s \in Slots : n \notin toUnlink[s]

\* A pg_dump's file is there as long as it has it, and incomplete as long as it writes it.
WritingOK(w) ==
    /\ own[w] => out[w] \in Names /\ Exists(out[w])
    /\ pc[w] \in {"open", "fill", "undo"} =>
         out[w] \in Names /\ (Lucky(out[w]) => files[out[w]].stage # "full")

Made(r)    == op[r] = "create" /\ pc[r] \in {"stat", "readdir", "stats", "prune"}
Creates(r) == (op[r] = "create" /\ pc[r] \in {"open", "fill"}) \/ Made(r)

\* From its start on, a creation's file is its own or gone.
CreatesOK(r) == Creates(r) =>
    /\ out[r] \in Names /\ out[r][1] = "dump"
    /\ Lucky(out[r]) => (Exists(out[r]) => own[r])

\* Once made, it is complete, there when it was looked for, and not to be pruned.
MadeOK(r) == Made(r) /\ Lucky(out[r]) =>
    /\ Exists(out[r]) => files[out[r]].stage = "full"
    /\ pc[r] # "stat" => Exists(out[r])
    /\ pc[r] = "prune" => out[r] \notin prune[r]

\* What the listing of a creation has found: its own file, with its time.
FoundOK(r) ==
    /\ IsFiniteSet(found[r])
    /\ pc[r] \notin {"stats", "ok"} => found[r] = {}
    /\ Made(r) /\ pc[r] = "stats" /\ Lucky(out[r]) =>
         /\ out[r] \in toStat[r] \/ <<out[r], files[out[r]].at>> \in found[r]
         /\ \A x \in found[r] : x[1] = out[r] => x[2] = files[out[r]].at

DumpsInv ==
    /\ BackupInv /\ ApartOK
    /\ \A n \in Names : FileOK(n)
    /\ \A w \in Writers : WritingOK(w)
    /\ \A r \in Slots : CreatesOK(r) /\ MadeOK(r) /\ FoundOK(r)

\* What bad luck was had stays; a dump that opens a file another has, or had, is had.
LEMMA Luck ==
  ASSUME Watch, NEW n, n \notin unlucky'
  PROVE  /\ Lucky(n)
         /\ \A w \in Writers : out'[w] = n => ~Shared(w) /\ ~Overtaken(w)
         /\ \A r \in Slots : out[r] = n => ~Crowded(r)
BY DEF Watch, Lucky

\* The steps of a request inside runExclusive, and its other steps.
InsideStep(s) ==
    \/ FindTarget(s) \/ StartDump(s) \/ FillDump(s) \/ EndDump(s) \/ FailDump(s) \/ UndoDump(s)
    \/ StatDump(s) \/ ReadDir(s) \/ EndPrune(s) \/ Load(s) \/ DeleteFile(s)
    \/ \E n \in Names : PruneFile(s, n)
Arrives(s) ==
    \/ Arrive(s, "list", NoName) \/ Arrive(s, "create", NoName)
    \/ \E n \in Names : Arrive(s, "restore", n) \/ Arrive(s, "delete", n)
LooseStep(s) ==
    \/ \E n \in Names : StatFile(s, n) \/ UnlinkEmpty(s, n)
    \/ EndListing(s) \/ Delivered(s) \/ Arrives(s)
OutsideStep ==
    \/ StartRun \/ FillDump(Workflow) \/ EndDump(Workflow) \/ EndRun \/ DataWrite \/ Tick

LEMMA Steps ==
  BackupNext =>
    \/ \E s \in Slots : InsideStep(s) \/ LooseStep(s)
    \/ OutsideStep \/ Crash
BY DEF BackupNext, ServerStep, ClientStep, RequestStep, DumpStep, ListingStep, WorkflowStep,
       InsideStep, LooseStep, OutsideStep, Arrives

LEMMA InsideStepIsInside ==
  ASSUME BackupInv, NEW s \in Slots, InsideStep(s)
  PROVE  s \in Inside
<1>1. pc[s] \in {"find", "name", "open", "fill", "undo", "stat", "readdir", "prune", "load",
                 "unlink"}
  BY DEF InsideStep, FindTarget, StartDump, FillDump, EndDump, FailDump, UndoDump, StatDump,
         ReadDir, EndPrune, Load, DeleteFile, PruneFile
<1> QED BY <1>1 DEF BackupInv, RequestOK, LabelsOf, Inside, BackupTypeOK

LEMMA CreatesIsInside ==
  ASSUME NEW r \in Slots, Creates(r)
  PROVE  r \in Inside
BY DEF Creates, Made, Inside

\* The request whose step it is is the only one that moves.
Stays(r) ==
    /\ pc'[r] = pc[r] /\ op'[r] = op[r] /\ out'[r] = out[r]
    /\ toStat'[r] = toStat[r] /\ found'[r] = found[r] /\ prune'[r] = prune[r]
Rest(r) == Stays(r) /\ toUnlink'[r] = toUnlink[r]

LEMMA InsideRests ==
  ASSUME BackupTypeOK, NEW s \in Slots, InsideStep(s), NEW r \in Slots \ {s}
  PROVE  Rest(r)
<1>1. r \in Writers /\ s \in Writers
  BY DEF Writers
<1>2. CASE FindTarget(s) \/ StartDump(s) \/ FillDump(s) \/ EndDump(s)
  BY <1>1, <1>2 DEF FindTarget, StartDump, FillDump, EndDump, Goto, Answer, Open, Rest, Stays,
                    BackupTypeOK, listing
<1>3. CASE FailDump(s) \/ UndoDump(s) \/ StatDump(s) \/ ReadDir(s)
  BY <1>1, <1>3 DEF FailDump, UndoDump, StatDump, ReadDir, Goto, Answer, Rest, Stays, BackupTypeOK,
                    listing
<1>4. CASE EndPrune(s) \/ Load(s) \/ DeleteFile(s) \/ \E n \in Names : PruneFile(s, n)
  BY <1>1, <1>4 DEF EndPrune, Load, DeleteFile, PruneFile, Goto, Answer, Rest, Stays, BackupTypeOK,
                    listing
<1> QED BY <1>2, <1>3, <1>4 DEF InsideStep

LEMMA LooseRests ==
  ASSUME BackupTypeOK, NEW s \in Slots, LooseStep(s), NEW r \in Slots \ {s}
  PROVE  Rest(r)
<1>1. r \in Writers /\ s \in Writers
  BY DEF Writers
<1>2. CASE \E n \in Names : StatFile(s, n) \/ UnlinkEmpty(s, n)
  BY <1>1, <1>2 DEF StatFile, UnlinkEmpty, Goto, Answer, Rest, Stays, BackupTypeOK
<1>3. CASE EndListing(s) \/ Delivered(s)
  BY <1>1, <1>3 DEF EndListing, Delivered, Goto, Rest, Stays, BackupTypeOK
<1>4. ASSUME NEW what, NEW n, Arrive(s, what, n)
      PROVE  Rest(r)
  BY <1>1, <1>4 DEF Arrive, Goto, Rest, Stays, BackupTypeOK
<1> QED BY <1>2, <1>3, <1>4 DEF LooseStep, Arrives

LEMMA OutsideRests ==
  ASSUME BackupTypeOK, OutsideStep, NEW r \in Slots
  PROVE  Rest(r)
<1>1. r \in Writers /\ Workflow \in Writers /\ r # Workflow
  BY DEF Writers
<1> QED BY <1>1 DEF OutsideStep, StartRun, FillDump, EndDump, EndRun, DataWrite, Tick, Goto,
                    Open, Rest, Stays, BackupTypeOK, listing, disk

\* What the steps do to the directory and the clock.
KeepsFiles ==
    /\ files' = files
    /\ \A w \in Writers : (own'[w] => own[w] /\ out'[w] = out[w])
    /\ now' = now \/ Tick
Removes(n) == Remove(n) /\ out' = out /\ now' = now

LEMMA FileSteps ==
  ASSUME BackupTypeOK, BackupNext
  PROVE  \/ KeepsFiles
         \/ \E n \in Names : Removes(n)
         \/ \E s \in Slots : StartDump(s)
         \/ StartRun
         \/ \E w \in Writers : FillDump(w) \/ EndDump(w)
<1>1. CASE \E s \in Slots : InsideStep(s)
  <2> PICK s \in Slots : InsideStep(s)
    BY <1>1
  <2>1. CASE FindTarget(s) \/ FailDump(s) \/ StatDump(s) \/ ReadDir(s) \/ EndPrune(s) \/ Load(s)
    BY <2>1 DEF FindTarget, FailDump, StatDump, ReadDir, EndPrune, Load, KeepsFiles, disk
  <2>2. CASE DeleteFile(s) \/ UndoDump(s) \/ \E n \in Names : PruneFile(s, n)
    <3>1. CASE DeleteFile(s) /\ UNCHANGED disk
      BY <2>2, <3>1 DEF DeleteFile, KeepsFiles, disk
    <3>2. (DeleteFile(s) /\ ~UNCHANGED disk) => \E n \in Names \cup {NoName} : Removes(n)
      BY DEF DeleteFile, Removes, BackupTypeOK
    <3>3. UndoDump(s) => \E n \in Names \cup {NoName} : Removes(n)
      BY DEF UndoDump, Removes, BackupTypeOK, Writers
    <3>4. (\E n \in Names : PruneFile(s, n)) => \E n \in Names : Removes(n)
      BY DEF PruneFile, Removes
    <3>5. Removes(NoName) => KeepsFiles
      BY NoNameApart DEF Removes, Remove, KeepsFiles, BackupTypeOK
    <3> QED BY <2>2, <3>1, <3>2, <3>3, <3>4, <3>5
  <2> QED BY <2>1, <2>2 DEF InsideStep, Writers
<1>2. CASE \E s \in Slots : LooseStep(s)
  <2> PICK s \in Slots : LooseStep(s)
    BY <1>2
  <2>1. CASE \E n \in Names : StatFile(s, n)
    BY <2>1 DEF StatFile, KeepsFiles, disk
  <2>2. CASE \E n \in Names : UnlinkEmpty(s, n)
    BY <2>2 DEF UnlinkEmpty, Removes
  <2>3. CASE EndListing(s) \/ Arrives(s)
    BY <2>3 DEF EndListing, Arrives, Arrive, KeepsFiles, disk
  <2>4. CASE Delivered(s)
    BY <2>4 DEF Delivered, KeepsFiles, BackupTypeOK
  <2> QED BY <2>1, <2>2, <2>3, <2>4 DEF LooseStep
<1>3. CASE OutsideStep
  <2>1. CASE EndRun
    BY <2>1 DEF EndRun, KeepsFiles, BackupTypeOK
  <2>2. CASE DataWrite \/ Tick
    BY <2>2 DEF DataWrite, Tick, KeepsFiles, disk
  <2> QED BY <1>3, <2>1, <2>2 DEF OutsideStep, Writers
<1>4. CASE Crash
  BY <1>4 DEF Crash, KeepsFiles
<1> QED BY <1>1, <1>2, <1>3, <1>4, Steps

-----------------------------------------------------------------------------
(* The directory.                                                          *)

\* Every file but those named is as before.
LEMMA RemovedFiles ==
  ASSUME BackupTypeOK, NEW n \in Names, Removes(n)
  PROVE  /\ \A m \in Names : files'[m] = IF m = n THEN Gone ELSE files[m]
         /\ \A w \in Writers : out'[w] = out[w] /\ own'[w] = (own[w] /\ out[w] # n)
         /\ \A w \in Writers : out[w] # n => own'[w] = own[w]
BY DEF Removes, Remove, BackupTypeOK

LEMMA OpenedFiles ==
  ASSUME BackupTypeOK, NEW v \in Writers, NEW n \in Names, Open(v, n)
  PROVE  /\ files'[n].stage = "empty"
         /\ files'[n].mixed = \E w \in Writers \ {v} : Writes(w, n)
         /\ \A m \in Names : m # n => files'[m] = files[m]
         /\ \A w \in Writers : out'[w] = (IF w = v THEN n ELSE out[w])
                               /\ own'[w] = (w = v \/ own[w])
         /\ \A w \in Writers \ {v} : own'[w] = own[w]
<1> DEFINE e == [stage |-> "empty", version |-> 0, at |-> now,
                 mixed |-> \E w \in Writers \ {v} : Writes(w, n)]
<1>1. e.stage = "empty" /\ e.mixed = \E w \in Writers \ {v} : Writes(w, n)
  OBVIOUS
<1>2. files' = [files EXCEPT ![n] = e]
  BY DEF Open
<1> HIDE DEF e
<1>3. files'[n] = e /\ \A m \in Names : m # n => files'[m] = files[m]
  BY <1>2 DEF BackupTypeOK
<1>4. /\ \A w \in Writers : out'[w] = (IF w = v THEN n ELSE out[w])
                            /\ own'[w] = (w = v \/ own[w])
      /\ \A w \in Writers \ {v} : own'[w] = own[w]
  BY DEF Open, BackupTypeOK
<1> QED BY <1>1, <1>3, <1>4

LEMMA PutFiles ==
  ASSUME BackupTypeOK, NEW v \in Writers, NEW stage, NEW version, NEW at,
         Put(v, stage, version, at), own[v] => out[v] \in Names
  PROVE  /\ own[v] => /\ files'[out[v]].stage = stage
                      /\ files'[out[v]].mixed = files[out[v]].mixed
         /\ \A m \in Names : (own[v] /\ m = out[v]) \/ files'[m] = files[m]
<1>1. CASE own[v]
  <2>1. files[out[v]] \in Files /\ out[v] \in Names
    BY <1>1 DEF BackupTypeOK
  <2>2. files'[out[v]] = [files[out[v]] EXCEPT !.stage = stage, !.version = version, !.at = at]
    BY <1>1, <2>1 DEF Put, BackupTypeOK
  <2>3. files'[out[v]].stage = stage /\ files'[out[v]].mixed = files[out[v]].mixed
    BY <2>1, <2>2 DEF Files
  <2>4. \A m \in Names : m = out[v] \/ files'[m] = files[m]
    BY <1>1 DEF Put, BackupTypeOK
  <2> QED BY <1>1, <2>3, <2>4
<1>2. CASE ~own[v]
  BY <1>2 DEF Put
<1> QED BY <1>1, <1>2

\* A dump that begins.
Begins(w, n) == /\ Open(w, n) /\ pc[w] # "open" /\ pc'[w] = "open"
                /\ toUnlink' = toUnlink /\ \A v \in Writers \ {w} : pc'[v] = pc[v]

LEMMA StartDumpBegins ==
  ASSUME BackupTypeOK, NEW r \in Slots, StartDump(r)
  PROVE  \E n \in Names : Begins(r, n) /\ (op[r] = "create" => n[1] = "dump")
<1> DEFINE n == <<IF op[r] = "create" THEN "dump" ELSE "pre-restore", now>>
<1>1. n \in Names
  BY DEF Names, BackupTypeOK
<1>2. Begins(r, n)
  BY SlotsApart DEF StartDump, Begins, listing, Goto, BackupTypeOK
<1>3. op[r] = "create" => n[1] = "dump"
  OBVIOUS
<1> QED BY <1>1, <1>2, <1>3

LEMMA StartRunBegins ==
  ASSUME BackupTypeOK, StartRun
  PROVE  \E n \in Names : Begins(Workflow, n)
<1> DEFINE n == <<"dump", now>>
<1>1. n \in Names
  BY DEF Names, BackupTypeOK
<1>2. Begins(Workflow, n)
  BY DEF StartRun, Begins, listing, Goto, BackupTypeOK, Writers
<1> QED BY <1>1, <1>2

\* The file of a dump that begins without bad luck is new, and no other dump has it.
LEMMA BegunFile ==
  ASSUME BackupTypeOK, Watch, NEW v \in Writers, NEW n \in Names, Begins(v, n), n \notin unlucky'
  PROVE  /\ ~Exists(n) /\ \A w \in Writers \ {v} : out[w] # n
         /\ ~files'[n].mixed
<1>1. out'[v] = n
  BY OpenedFiles DEF Begins
<1>2. ~Shared(v)
  BY <1>1, Luck
<1>3. ~Exists(n) /\ \A w \in Writers \ {v} : out[w] # n
  BY <1>1, <1>2 DEF Shared, Begins
<1>4. files'[n].mixed = \E w \in Writers \ {v} : Writes(w, n)
  BY OpenedFiles DEF Begins
<1> QED BY <1>3, <1>4 DEF Writes

LEMMA DumpSteps ==
  ASSUME BackupTypeOK, BackupNext
  PROVE  \/ KeepsFiles
         \/ \E n \in Names : Removes(n)
         \/ \E v \in Writers, n \in Names : Begins(v, n)
         \/ \E w \in Writers : FillDump(w) \/ EndDump(w)
BY FileSteps, StartDumpBegins, StartRunBegins DEF Writers

\* A pg_dump's file is there as long as it has it.
LEMMA OwnStep ==
  ASSUME DumpsInv, BackupNext, NEW w \in Writers
  PROVE  own'[w] => out'[w] \in Names /\ Exists(out[w])'
<1>1. BackupTypeOK /\ (own[w] => out[w] \in Names /\ Exists(out[w]))
  BY DEF DumpsInv, BackupInv, WritingOK
<1>2. CASE KeepsFiles
  BY <1>1, <1>2 DEF KeepsFiles, Exists
<1>3. ASSUME NEW n \in Names, Removes(n)
      PROVE  own'[w] => out'[w] \in Names /\ Exists(out[w])'
  BY <1>1, <1>3, RemovedFiles DEF Exists
<1>4. ASSUME NEW v \in Writers, NEW n \in Names, Begins(v, n)
      PROVE  own'[w] => out'[w] \in Names /\ Exists(out[w])'
  <2>1. /\ files'[n].stage = "empty"
        /\ \A m \in Names : m # n => files'[m] = files[m]
        /\ out'[w] = (IF w = v THEN n ELSE out[w]) /\ own'[w] = (w = v \/ own[w])
    BY <1>1, <1>4, OpenedFiles DEF Begins
  <2> QED BY <1>1, <2>1 DEF Exists
<1>5. ASSUME NEW v \in Writers, FillDump(v) \/ EndDump(v)
      PROVE  own'[w] => out'[w] \in Names /\ Exists(out[w])'
  <2>1. PICK stage \in {"part", "full"} : \E version, at : Put(v, stage, version, at)
    BY <1>5 DEF FillDump, EndDump
  <2>2. own' = own /\ out' = out /\ (own[v] => out[v] \in Names)
    BY <1>5 DEF FillDump, EndDump, DumpsInv, WritingOK
  <2>3. /\ own[v] => files'[out[v]].stage = stage
        /\ \A m \in Names : (own[v] /\ m = out[v]) \/ files'[m] = files[m]
    BY <1>1, <2>1, <2>2, PutFiles
  <2> QED BY <1>1, <2>2, <2>3 DEF Exists
<1> QED BY <1>1, <1>2, <1>3, <1>4, <1>5, DumpSteps

\* A listing that goes on unlinks only files it has seen empty.
LEMMA ToUnlink ==
  ASSUME BackupTypeOK, BackupNext, NEW s \in Slots, NEW n \in toUnlink'[s]
  PROVE  n \in toUnlink[s] \/ (files[n].stage = "empty" /\ files' = files)
<1>1. CASE Rest(s)
  BY <1>1 DEF Rest
<1>2. CASE InsideStep(s)
  BY <1>2 DEF InsideStep, FindTarget, StartDump, FillDump, EndDump, FailDump, UndoDump,
              StatDump, ReadDir, EndPrune, Load, DeleteFile, PruneFile, listing
<1>3. CASE LooseStep(s)
  <2>1. ASSUME NEW m \in Names, StatFile(s, m)
        PROVE  n \in toUnlink[s] \/ (files[n].stage = "empty" /\ files' = files)
    BY <2>1 DEF StatFile, BackupTypeOK, disk
  <2>2. ASSUME NEW m \in Names, UnlinkEmpty(s, m)
        PROVE  n \in toUnlink[s]
    BY <2>2 DEF UnlinkEmpty, BackupTypeOK
  <2>3. EndListing(s) \/ Delivered(s) \/ Arrives(s) => toUnlink' = toUnlink
    BY DEF EndListing, Delivered, Arrives, Arrive
  <2> QED BY <1>3, <2>1, <2>2, <2>3 DEF LooseStep
<1>4. CASE Crash
  BY <1>4 DEF Crash
<1> QED BY <1>1, <1>2, <1>3, <1>4, Steps, InsideRests, LooseRests, OutsideRests

\* What a dump that goes on does to its file.
LEMMA DumpWrites ==
  ASSUME DumpsInv, NEW v \in Writers, FillDump(v) \/ EndDump(v)
  PROVE  /\ out' = out /\ own' = own /\ out[v] \in Names /\ toUnlink' = toUnlink
         /\ \A m \in Names : (own[v] /\ m = out[v]) \/ files'[m] = files[m]
         /\ own[v] => /\ files'[out[v]].stage = IF FillDump(v) THEN "part" ELSE "full"
                      /\ files'[out[v]].mixed = files[out[v]].mixed
         /\ FillDump(v) => pc[v] = "open" /\ pc'[v] = "fill"
         /\ EndDump(v) => pc[v] = "fill" /\ pc'[v] = Dumped(v)
         /\ \A w \in Writers \ {v} : pc'[w] = pc[w]
<1>1. BackupTypeOK /\ (own[v] => out[v] \in Names)
      /\ (pc[v] \in {"open", "fill", "undo"} => out[v] \in Names)
  BY DEF DumpsInv, BackupInv, WritingOK
<1>2. PICK version, at : Put(v, IF FillDump(v) THEN "part" ELSE "full", version, at)
  BY DEF FillDump, EndDump
<1>3. /\ \A m \in Names : (own[v] /\ m = out[v]) \/ files'[m] = files[m]
      /\ own[v] => /\ files'[out[v]].stage = IF FillDump(v) THEN "part" ELSE "full"
                   /\ files'[out[v]].mixed = files[out[v]].mixed
  BY <1>1, <1>2, PutFiles
<1>4. /\ FillDump(v) => pc[v] = "open" /\ pc'[v] = "fill"
      /\ EndDump(v) => pc[v] = "fill" /\ pc'[v] = Dumped(v)
      /\ \A w \in Writers \ {v} : pc'[w] = pc[w]
  BY <1>1 DEF FillDump, EndDump, Goto, BackupTypeOK
<1>5. out' = out /\ own' = own /\ toUnlink' = toUnlink
  BY DEF FillDump, EndDump, listing
<1> QED BY <1>1, <1>3, <1>4, <1>5

LEMMA FileStep ==
  ASSUME DumpsInv, BackupNext, Watch, NEW n \in Names
  PROVE  FileOK(n)'
<1> SUFFICES ASSUME n \notin unlucky'
             PROVE  /\ ~files'[n].mixed
                    /\ files'[n].stage = "full" => \A s \in Slots : n \notin toUnlink'[s]
  BY DEF FileOK, Lucky
<1>1. /\ BackupTypeOK /\ Lucky(n) /\ ~files[n].mixed
      /\ files[n].stage = "full" => \A s \in Slots : n \notin toUnlink[s]
  BY Luck DEF DumpsInv, BackupInv, FileOK
<1>2. CASE files'[n] = files[n]
  <2>1. ASSUME files[n].stage = "full", NEW s \in Slots
        PROVE  n \notin toUnlink'[s]
    BY <1>1, <2>1, ToUnlink
  <2> QED BY <1>1, <1>2, <2>1
<1>3. CASE KeepsFiles
  BY <1>2, <1>3 DEF KeepsFiles
<1>4. ASSUME NEW m \in Names, Removes(m)
      PROVE  files'[n] = files[n] \/ (~files'[n].mixed /\ files'[n].stage # "full")
  BY <1>1, <1>4, RemovedFiles DEF Gone
<1>5. ASSUME NEW v \in Writers, NEW m \in Names, Begins(v, m)
      PROVE  files'[n] = files[n] \/ (~files'[n].mixed /\ files'[n].stage # "full")
  <2>1. files'[m].stage = "empty" /\ \A k \in Names : k # m => files'[k] = files[k]
    BY <1>1, <1>5, OpenedFiles DEF Begins
  <2>2. n = m => ~files'[n].mixed
    BY <1>1, <1>5, BegunFile
  <2> QED BY <2>1, <2>2
<1>6. ASSUME NEW v \in Writers, FillDump(v) \/ EndDump(v)
      PROVE  \/ files'[n] = files[n]
             \/ /\ ~files'[n].mixed
                /\ files'[n].stage = "full" => \A s \in Slots : n \notin toUnlink'[s]
  <2>1. /\ out' = out /\ toUnlink' = toUnlink
        /\ \A m \in Names : (own[v] /\ m = out[v]) \/ files'[m] = files[m]
        /\ own[v] => /\ files'[out[v]].stage = IF FillDump(v) THEN "part" ELSE "full"
                     /\ files'[out[v]].mixed = files[out[v]].mixed
        /\ EndDump(v) => pc[v] = "fill" /\ pc'[v] = Dumped(v)
    BY <1>6, DumpWrites
  <2>2. SUFFICES ASSUME own[v], n = out[v]
                 PROVE  files'[n].stage = "full" => \A s \in Slots : n \notin toUnlink'[s]
    BY <1>1, <2>1
  <2>3. ~Overtaken(v)
    BY <2>1, <2>2, Luck
  <2> QED BY <1>6, <2>1, <2>2, <2>3 DEF Overtaken
<1> QED BY <1>1, <1>2, <1>3, <1>4, <1>5, <1>6, DumpSteps

\* Where a step leads the file of a writer.
LEMMA OutSteps ==
  ASSUME BackupTypeOK, BackupNext, NEW w \in Writers
  PROVE  \/ out'[w] = out[w] \/ out'[w] = NoName
         \/ \E n \in Names : Begins(w, n)
<1>1. CASE \E s \in Slots : InsideStep(s)
  <2> PICK s \in Slots : InsideStep(s)
    BY <1>1
  <2>1. CASE StartDump(s)
    <3>1. PICK n \in Names : Begins(s, n)
      BY <2>1, StartDumpBegins
    <3>2. w # s => out'[w] = out[w]
      BY <3>1, SlotsApart, OpenedFiles DEF Begins
    <3> QED BY <3>1, <3>2
  <2>2. ~StartDump(s) => out' = out
    BY DEF InsideStep, FindTarget, FillDump, EndDump, FailDump, UndoDump,
           StatDump, ReadDir, EndPrune, Load, DeleteFile, PruneFile
  <2> QED BY <2>1, <2>2
<1>2. CASE \E s \in Slots : LooseStep(s)
  BY <1>2, SlotsApart DEF LooseStep, StatFile, UnlinkEmpty, EndListing, Delivered, Arrives,
     Arrive, BackupTypeOK
<1>3. CASE OutsideStep
  <2>1. CASE StartRun
    <3>1. PICK n \in Names : Begins(Workflow, n)
      BY <2>1, StartRunBegins
    <3>2. w # Workflow => out'[w] = out[w]
      BY <3>1, OpenedFiles DEF Begins, Writers
    <3> QED BY <3>1, <3>2
  <2>2. ~StartRun => out'[w] = out[w] \/ out'[w] = NoName
    BY <1>3 DEF OutsideStep, FillDump, EndDump, EndRun, DataWrite, Tick, BackupTypeOK, Writers
  <2> QED BY <2>1, <2>2
<1>4. CASE Crash
  BY <1>4 DEF Crash
<1> QED BY <1>1, <1>2, <1>3, <1>4, Steps

\* Two writers of one file: one of them began on what the other had.
LEMMA ApartStep ==
  ASSUME DumpsInv, BackupNext, Watch
  PROVE  ApartOK'
<1> SUFFICES ASSUME NEW v \in Writers, NEW w \in Writers, v # w, out'[v] = out'[w],
                    out'[v] # NoName, out'[v] \notin unlucky'
             PROVE  FALSE
  BY DEF ApartOK, Lucky
<1>1. BackupTypeOK
  BY DEF DumpsInv, BackupInv
<1>2. ASSUME NEW x \in Writers, NEW y \in Writers, x # y, out'[x] = out'[v], out'[y] = out'[v],
             NEW n \in Names, Begins(x, n)
      PROVE  FALSE
  <2>0. Open(x, n)
    BY <1>2 DEF Begins
  <2>1. out'[x] = n /\ out'[y] = out[y]
    BY <1>1, <1>2, <2>0 DEF Open, BackupTypeOK
  <2>2. n \notin unlucky'
    BY <1>2, <2>1
  <2>3. out[y] # n
    BY <1>1, <1>2, <2>2, BegunFile
  <2> QED BY <1>2, <2>1, <2>3
<1>3. out'[v] = out[v] /\ out'[w] = out[w]
  BY <1>1, <1>2, OutSteps
<1>4. Lucky(out[v])
  BY <1>3, Luck
<1> QED BY <1>3, <1>4 DEF DumpsInv, ApartOK

\* What a writer does that writes on, or has a dump to undo.
LEMMA WriterSteps ==
  ASSUME BackupInv, BackupNext, NEW w \in Writers, pc'[w] \in {"open", "fill", "undo"}
  PROVE  \/ \E n \in Names : Begins(w, n)
         \/ FillDump(w)
         \/ pc[w] \in {"open", "fill", "undo"} /\ out'[w] = out[w] /\ ~EndDump(w)
<1>1. BackupTypeOK
  BY DEF BackupInv
<1>2. CASE w \in Slots
  <2>1. Rest(w) \/ InsideStep(w) \/ LooseStep(w) \/ Crash
    <3>1. ASSUME NEW s \in Slots, InsideStep(s) \/ LooseStep(s)
          PROVE  Rest(w) \/ InsideStep(w) \/ LooseStep(w)
      BY <1>1, <1>2, <3>1, InsideRests, LooseRests
    <3> QED BY <1>1, <1>2, <3>1, Steps, OutsideRests
  <2>2. ~Crash
    BY <1>2, SlotsApart DEF Crash
  <2>3. EndDump(w) => FALSE
    BY <1>1 DEF EndDump, Goto, Dumped, BackupTypeOK
  <2>4. CASE Rest(w)
    BY <2>3, <2>4 DEF Rest, Stays
  <2>5. LooseStep(w) => pc'[w] = pc[w] /\ out' = out
    BY <1>1, <1>2, SlotsApart DEF LooseStep, StatFile, UnlinkEmpty, EndListing, Delivered,
       Arrives, Arrive, Goto, Answer, BackupTypeOK
  <2>6. InsideStep(w) /\ ~StartDump(w) /\ ~FillDump(w) =>
          pc[w] \in {"open", "fill", "undo"} /\ out' = out
    BY <1>1, <1>2, <2>3, SlotsApart DEF InsideStep, FindTarget, FailDump, UndoDump,
       StatDump, ReadDir, EndPrune, Load, DeleteFile, PruneFile, Goto, Answer, BackupTypeOK
  <2> QED BY <1>1, <1>2, <2>1, <2>2, <2>3, <2>4, <2>5, <2>6, StartDumpBegins
<1>3. CASE w = Workflow
  <2>1. \A s \in Slots : InsideStep(s) => pc'[w] = pc[w] /\ out'[w] = out[w]
    BY <1>1, <1>3, SlotsApart DEF InsideStep, FindTarget, StartDump, FillDump, EndDump,
       FailDump, UndoDump, StatDump, ReadDir, EndPrune, Load, DeleteFile, PruneFile, Goto,
       Answer, Open, BackupTypeOK
  <2>2. \A s \in Slots : LooseStep(s) => pc'[w] = pc[w] /\ out'[w] = out[w]
    BY <1>1, <1>3, SlotsApart DEF LooseStep, StatFile, UnlinkEmpty, EndListing, Delivered,
       Arrives, Arrive, Goto, Answer, BackupTypeOK
  <2>3. Crash \/ DataWrite \/ Tick => pc'[w] = pc[w] /\ out'[w] = out[w]
    BY <1>1, <1>3 DEF Crash, DataWrite, Tick, BackupTypeOK
  <2>4. ~EndRun /\ ~EndDump(w)
    BY <1>1, <1>3 DEF EndRun, EndDump, Goto, Dumped, BackupTypeOK
  <2> QED BY <1>1, <1>3, <2>1, <2>2, <2>3, <2>4, Steps, StartRunBegins DEF OutsideStep
<1> QED BY <1>2, <1>3 DEF Writers

LEMMA WritingStep ==
  ASSUME DumpsInv, BackupNext, Watch, NEW w \in Writers
  PROVE  WritingOK(w)'
<1>1. BackupTypeOK /\ BackupInv
  BY DEF DumpsInv, BackupInv
<1>2. ASSUME NEW n \in Names, Begins(w, n)
      PROVE  out'[w] \in Names /\ files'[out'[w]].stage # "full"
  BY <1>1, <1>2, OpenedFiles DEF Begins
<1>3. ASSUME pc[w] \in {"open", "fill", "undo"}, out'[w] = out[w], ~EndDump(w)
      PROVE  out'[w] \in Names /\ (Lucky(out[w])' => files'[out'[w]].stage # "full")
  <2>1. SUFFICES ASSUME out'[w] \notin unlucky' PROVE files'[out[w]].stage # "full"
    BY <1>3 DEF DumpsInv, WritingOK, Lucky
  <2>2. Lucky(out[w]) /\ out[w] \in Names /\ files[out[w]].stage # "full"
    BY <1>3, <2>1, Luck DEF DumpsInv, WritingOK
  <2>3. CASE KeepsFiles
    BY <2>2, <2>3 DEF KeepsFiles
  <2>4. ASSUME NEW n \in Names, Removes(n)
        PROVE  files'[out[w]].stage # "full"
    BY <1>1, <2>2, <2>4, RemovedFiles DEF Gone
  <2>5. ASSUME NEW v \in Writers, NEW n \in Names, Begins(v, n)
        PROVE  files'[out[w]].stage # "full"
    BY <1>1, <2>2, <2>5, OpenedFiles DEF Begins
  <2>6. ASSUME NEW v \in Writers, FillDump(v) \/ EndDump(v)
        PROVE  files'[out[w]].stage # "full"
    <3>1. /\ out[v] \in Names
          /\ \A m \in Names : (own[v] /\ m = out[v]) \/ files'[m] = files[m]
          /\ own[v] => files'[out[v]].stage = IF FillDump(v) THEN "part" ELSE "full"
      BY <2>6, DumpWrites
    <3>2. v = w => FillDump(v)
      BY <1>3, <2>6
    <3>3. v # w => out[v] # out[w]
      BY <2>2, <3>1, NoNameApart DEF DumpsInv, ApartOK
    <3> QED BY <2>2, <3>1, <3>2, <3>3
  <2> QED BY <1>1, <2>3, <2>4, <2>5, <2>6, DumpSteps
<1>4. CASE FillDump(w)
  <2>1. pc[w] = "open" /\ out' = out
    BY <1>4, DumpWrites
  <2>2. ~EndDump(w)
    BY <2>1 DEF EndDump
  <2> QED BY <1>3, <2>1, <2>2, OwnStep DEF WritingOK, Lucky
<1>5. own'[w] => out'[w] \in Names /\ Exists(out[w])'
  BY OwnStep
<1>6. pc'[w] \in {"open", "fill", "undo"} =>
        out'[w] \in Names /\ (Lucky(out[w])' => files'[out'[w]].stage # "full")
  <2>1. FillDump(w) => pc[w] = "open" /\ out'[w] = out[w] /\ ~EndDump(w)
    BY DumpWrites DEF EndDump, FillDump
  <2> QED BY <1>1, <1>2, <1>3, <2>1, WriterSteps
<1> QED BY <1>5, <1>6 DEF WritingOK

-----------------------------------------------------------------------------
(* A creation, seen from its own file.                                     *)

CreationOK(r) == CreatesOK(r) /\ MadeOK(r) /\ FoundOK(r)

\* A step leaves the file of r alone, or removes one that is not complete.
Spare(r) ==
    \/ files'[out[r]] = files[out[r]] /\ own'[r] = own[r]
    \/ files'[out[r]] = Gone /\ files[out[r]].stage # "full"

LEMMA RemovalSpares ==
  ASSUME BackupTypeOK, NEW r \in Slots, out[r] \in Names, NEW n \in Names, Removes(n),
         n = out[r] => files[n].stage # "full"
  PROVE  Spare(r)
BY RemovedFiles DEF Spare, Writers

LEMMA LooseSpares ==
  ASSUME DumpsInv, NEW s \in Slots, LooseStep(s), NEW r \in Slots, Creates(r), Lucky(out[r])
  PROVE  Spare(r)
<1>1. BackupTypeOK /\ out[r] \in Names
  BY DEF DumpsInv, BackupInv, CreatesOK
<1>2. ASSUME NEW n \in Names, StatFile(s, n)
      PROVE  Spare(r)
  BY <1>1, <1>2 DEF StatFile, disk, Spare
<1>3. ASSUME NEW n \in Names, UnlinkEmpty(s, n)
      PROVE  Spare(r)
  <2>1. Removes(n) /\ (n = out[r] => files[n].stage # "full")
    BY <1>3 DEF UnlinkEmpty, Removes, DumpsInv, FileOK
  <2> QED BY <1>1, <2>1, RemovalSpares
<1>4. CASE EndListing(s) \/ Arrives(s)
  BY <1>1, <1>4 DEF EndListing, Arrives, Arrive, disk, Spare
<1>5. CASE Delivered(s)
  <2>1. s # r
    BY <1>5 DEF Delivered, Creates, Made
  <2> QED BY <1>1, <1>5, <2>1 DEF Delivered, BackupTypeOK, Writers, Spare
<1> QED BY <1>2, <1>3, <1>4, <1>5 DEF LooseStep

LEMMA OutsideSpares ==
  ASSUME DumpsInv, OutsideStep, Watch, NEW r \in Slots, Creates(r), out[r] \notin unlucky'
  PROVE  Spare(r)
<1>1. /\ BackupTypeOK /\ out[r] \in Names /\ Lucky(out[r])
      /\ r \in Writers /\ Workflow \in Writers /\ r # Workflow
  BY Luck DEF DumpsInv, BackupInv, CreatesOK, Writers
<1>2. CASE StartRun
  <2>1. PICK m \in Names : Begins(Workflow, m)
    BY <1>1, <1>2, StartRunBegins
  <2>2. own'[r] = own[r] /\ \A n \in Names : n # m => files'[n] = files[n]
    BY <1>1, <2>1, OpenedFiles DEF Begins
  <2>3. m # out[r]
    BY <1>1, <2>1, BegunFile
  <2> QED BY <1>1, <2>2, <2>3 DEF Spare
<1>3. CASE FillDump(Workflow) \/ EndDump(Workflow)
  <2>1. /\ own' = own /\ out[Workflow] \in Names
        /\ \A m \in Names : m = out[Workflow] \/ files'[m] = files[m]
    BY <1>1, <1>3, DumpWrites
  <2>2. out[Workflow] # out[r]
    BY <1>1, <2>1, NoNameApart DEF DumpsInv, ApartOK
  <2> QED BY <1>1, <2>1, <2>2 DEF Spare
<1>4. CASE EndRun
  BY <1>1, <1>4 DEF EndRun, BackupTypeOK, Spare
<1>5. CASE DataWrite \/ Tick
  BY <1>1, <1>5 DEF DataWrite, Tick, disk, Spare
<1> QED BY <1>2, <1>3, <1>4, <1>5 DEF OutsideStep

\* A creation that stays where it is while others go on.
LEMMA CreationStays ==
  ASSUME DumpsInv, Watch, NEW r \in Slots, Stays(r),
         Creates(r) /\ out[r] \notin unlucky' => Spare(r)
  PROVE  CreationOK(r)'
<1>1. BackupTypeOK /\ CreatesOK(r) /\ MadeOK(r) /\ FoundOK(r)
  BY DEF DumpsInv, BackupInv
<1>2. /\ pc'[r] = pc[r] /\ out'[r] = out[r] /\ toStat'[r] = toStat[r] /\ found'[r] = found[r]
      /\ prune'[r] = prune[r] /\ Creates(r)' = Creates(r) /\ Made(r)' = Made(r)
  BY DEF Stays, Creates, Made
<1>3. CASE out[r] \in unlucky'
  BY <1>1, <1>2, <1>3 DEF CreationOK, CreatesOK, MadeOK, FoundOK, Lucky
<1>4. CASE ~Creates(r)
  BY <1>1, <1>2, <1>4 DEF CreationOK, CreatesOK, MadeOK, FoundOK, Creates
<1>5. CASE Creates(r) /\ out[r] \notin unlucky'
  <2>1. Spare(r) /\ Lucky(out[r])
    BY <1>5, Luck
  <2>2. CreatesOK(r)'
    BY <1>1, <1>2, <1>5, <2>1 DEF CreatesOK, Spare, Exists, Gone
  <2>3. Made(r) /\ Exists(out[r]) => files'[out[r]] = files[out[r]]
    BY <1>1, <2>1 DEF MadeOK, Spare
  <2>4. Made(r) /\ ~Exists(out[r]) => files'[out[r]].stage = "none"
    BY <2>1 DEF Spare, Exists, Gone
  <2>5. MadeOK(r)'
    BY <1>1, <1>2, <2>1, <2>3, <2>4 DEF MadeOK, Exists
  <2>6. Made(r) /\ pc[r] = "stats" => files'[out[r]] = files[out[r]]
    BY <1>1, <2>1, <2>3 DEF MadeOK
  <2>7. FoundOK(r)'
    BY <1>1, <1>2, <2>1, <2>6 DEF FoundOK
  <2> QED BY <2>2, <2>5, <2>7 DEF CreationOK
<1> QED BY <1>3, <1>4, <1>5

\* A request that is no creation any more, or not yet.
LEMMA NoCreation ==
  ASSUME NEW r \in Slots, ~Creates(r)', FoundOK(r),
         found'[r] = {} \/ (found'[r] = found[r] /\ pc'[r] \in {"stats", "ok"})
  PROVE  CreationOK(r)'
BY FS_EmptySet DEF CreationOK, Creates, CreatesOK, MadeOK, FoundOK, Made

LEMMA CreationStarts ==
  ASSUME DumpsInv, NEW r \in Slots, StartDump(r), op[r] = "create"
  PROVE  CreationOK(r)'
<1>1. /\ BackupTypeOK /\ FoundOK(r) /\ pc[r] = "name" /\ pc'[r] = "open" /\ found' = found
      /\ op' = op
  BY SlotsApart DEF DumpsInv, BackupInv, BackupTypeOK, StartDump, Goto, listing
<1>2. PICK n \in Names : Begins(r, n) /\ n[1] = "dump"
  BY <1>1, StartDumpBegins
<1>3. out'[r] = n /\ own'[r] = TRUE
  BY <1>1, <1>2, OpenedFiles DEF Writers, Begins
<1> QED BY <1>1, <1>2, <1>3 DEF CreationOK, CreatesOK, MadeOK, FoundOK, Made

LEMMA CreationWrites ==
  ASSUME DumpsInv, Watch, NEW r \in Slots, FillDump(r) \/ EndDump(r), op[r] = "create"
  PROVE  CreationOK(r)'
<1>1. /\ BackupTypeOK /\ FoundOK(r) /\ CreatesOK(r) /\ found' = found /\ op' = op
      /\ r \in Writers /\ r # Workflow /\ pc[r] \in {"open", "fill"} /\ Creates(r)
  BY SlotsApart DEF DumpsInv, BackupInv, FillDump, EndDump, listing, Creates
<1>2. /\ out' = out /\ own' = own /\ out[r] \in Names
      /\ \A m \in Names : (own[r] /\ m = out[r]) \/ files'[m] = files[m]
      /\ own[r] => files'[out[r]].stage = IF FillDump(r) THEN "part" ELSE "full"
  BY <1>1, DumpWrites
<1>3. /\ pc'[r] \in {"fill", "stat"} /\ (pc'[r] = "stat" => ~FillDump(r))
  BY <1>1, SlotsApart DEF FillDump, EndDump, Goto, Dumped, BackupTypeOK
<1>4. out[r] \notin unlucky' => (files'[out[r]].stage # "none" => own[r])
  BY <1>1, <1>2, Luck DEF CreatesOK, Exists
<1>5. CreatesOK(r)'
  BY <1>1, <1>2, <1>4 DEF CreatesOK, Exists, Lucky
<1>6. MadeOK(r)'
  BY <1>2, <1>3, <1>4 DEF MadeOK, Made, Exists, Lucky
<1> QED BY <1>1, <1>3, <1>5, <1>6 DEF FoundOK, CreationOK

\* StatDump and ReadDir find the file; PruneFile removes others.
LEMMA CreationLooks ==
  ASSUME DumpsInv, Watch, NEW r \in Slots, op[r] = "create",
         StatDump(r) \/ ReadDir(r) \/ \E n \in Names : PruneFile(r, n)
  PROVE  CreationOK(r)'
<1>1. BackupTypeOK /\ FoundOK(r) /\ CreatesOK(r) /\ MadeOK(r) /\ op' = op /\ out' = out
  BY DEF DumpsInv, BackupInv, StatDump, ReadDir, PruneFile
<1>2. Lucky(out[r])' => Lucky(out[r])
  BY <1>1, Luck DEF Lucky
<1>3. CASE StatDump(r)
  <2>1. /\ pc[r] = "stat" /\ found' = found /\ files' = files /\ own' = own
        /\ pc'[r] \in {"ok", "error", "readdir"}
        /\ pc'[r] = "readdir" => Exists(out[r])
    BY <1>1, <1>3, SlotsApart DEF StatDump, Goto, Answer, BackupTypeOK, disk, listing
  <2>2. Made(r) /\ Creates(r) /\ found[r] = {}
    BY <1>1, <2>1 DEF Made, Creates, FoundOK
  <2>3. CASE pc'[r] = "readdir"
    BY <1>1, <1>2, <2>1, <2>2, <2>3
    DEF CreationOK, CreatesOK, MadeOK, FoundOK, Made, Creates, Exists
  <2>4. CASE pc'[r] # "readdir"
    BY <1>1, <2>1, <2>2, <2>4, NoCreation DEF Creates, Made
  <2> QED BY <2>3, <2>4
<1>4. CASE ReadDir(r)
  <2>1. /\ pc[r] = "readdir" /\ found' = found /\ files' = files /\ own' = own
        /\ pc'[r] = "stats" /\ toStat'[r] = Listed
    BY <1>1, <1>4, SlotsApart DEF ReadDir, Goto, BackupTypeOK, disk
  <2>2. /\ Made(r) /\ Creates(r) /\ found[r] = {}
        /\ Lucky(out[r]) => Exists(out[r])
    BY <1>1, <2>1 DEF Made, Creates, FoundOK, MadeOK
  <2>3. Lucky(out[r]) => out[r] \in Listed
    BY <1>1, <2>2 DEF CreatesOK, Listed
  <2> QED BY <1>1, <1>2, <2>1, <2>2, <2>3
          DEF CreationOK, CreatesOK, MadeOK, FoundOK, Made, Creates, Exists
<1>5. ASSUME NEW n \in Names, PruneFile(r, n)
      PROVE  CreationOK(r)'
  <2>1. /\ pc[r] = "prune" /\ pc' = pc /\ found' = found /\ n \in prune[r] /\ Removes(n)
        /\ prune'[r] = prune[r] \ {n}
    BY <1>1, <1>5 DEF PruneFile, Removes, BackupTypeOK, listing
  <2>2. /\ Made(r) /\ Creates(r) /\ found[r] = {} /\ out[r] \in Names
        /\ Lucky(out[r]) => out[r] # n
    BY <1>1, <2>1 DEF Made, Creates, FoundOK, MadeOK, CreatesOK
  <2>3. Lucky(out[r]) => files'[out[r]] = files[out[r]] /\ own'[r] = own[r]
    BY <1>1, <2>1, <2>2, RemovedFiles, SlotsApart
  <2> QED BY <1>1, <1>2, <2>1, <2>2, <2>3
          DEF CreationOK, CreatesOK, MadeOK, FoundOK, Made, Creates, Exists
<1> QED BY <1>3, <1>4, <1>5

LEMMA CreationFinds ==
  ASSUME DumpsInv, Watch, NEW r \in Slots, NEW n \in Names, StatFile(r, n)
  PROVE  CreationOK(r)'
<1>1. /\ BackupTypeOK /\ FoundOK(r) /\ CreatesOK(r) /\ MadeOK(r) /\ op' = op /\ out' = out
      /\ files' = files /\ own' = own /\ prune' = prune
  BY DEF DumpsInv, BackupInv, StatFile, disk
<1>2. Lucky(out[r])' => Lucky(out[r])
  BY <1>1, Luck DEF Lucky
<1>3. /\ toStat'[r] = toStat[r] \ {n}
      /\ pc'[r] = IF ~Exists(n) /\ pc[r] = "stats" THEN "error" ELSE pc[r]
      /\ found'[r] = IF pc[r] # "stats" \/ ~Exists(n) THEN {}
                     ELSE IF files[n].stage = "empty" THEN found[r]
                     ELSE found[r] \cup {<<n, files[n].at>>}
  BY <1>1, SlotsApart DEF StatFile, Goto, Answer, BackupTypeOK
<1>4. IsFiniteSet(found'[r]) /\ (pc'[r] \notin {"stats", "ok"} => found'[r] = {})
  <2>1. pc'[r] \notin {"stats", "ok"} => found'[r] = {}
    BY <1>3
  <2>2. IsFiniteSet(found[r]) /\ IsFiniteSet(found[r] \cup {<<n, files[n].at>>})
    BY <1>1, FS_AddElement DEF FoundOK
  <2>3. found'[r] \in {{}, found[r], found[r] \cup {<<n, files[n].at>>}}
    BY <1>3
  <2> QED BY <2>1, <2>2, <2>3, FS_EmptySet
<1>5. CASE ~Creates(r)'
  BY <1>4, <1>5 DEF CreationOK, CreatesOK, MadeOK, FoundOK, Creates
<1>6. CASE Creates(r)'
  <2>1. pc'[r] = pc[r] /\ Creates(r) /\ (pc[r] = "stats" => Exists(n)) /\ Made(r)' = Made(r)
    BY <1>1, <1>3, <1>6 DEF Creates, Made
  <2>2. CreatesOK(r)' /\ MadeOK(r)'
    BY <1>1, <1>2, <2>1 DEF CreatesOK, MadeOK, Exists
  <2>3. ASSUME Made(r)', pc[r] = "stats", Lucky(out[r])'
        PROVE  /\ out[r] \in toStat'[r] \/ <<out[r], files[out[r]].at>> \in found'[r]
               /\ \A x \in found'[r] : x[1] = out[r] => x[2] = files[out[r]].at
    <3>1. /\ files[out[r]].stage = "full"
          /\ out[r] \in toStat[r] \/ <<out[r], files[out[r]].at>> \in found[r]
          /\ \A x \in found[r] : x[1] = out[r] => x[2] = files[out[r]].at
      BY <1>1, <1>2, <2>1, <2>3 DEF MadeOK, FoundOK
    <3> QED BY <1>3, <2>1, <2>3, <3>1
  <2>4. FoundOK(r)'
    BY <1>1, <1>4, <2>1, <2>3 DEF FoundOK
  <2> QED BY <2>2, <2>4 DEF CreationOK
<1> QED BY <1>5, <1>6

\* Pruning keeps the creation's own file, or the retention was full of others as new.
LEMMA CreationKept ==
  ASSUME DumpsInv, NEW r \in Slots, EndListing(r), op[r] = "create", Lucky(out[r]),
         out[r] \in prune'[r]
  PROVE  Crowded(r)
<1> DEFINE x == <<out[r], files[out[r]].at>>
           others == {y \in found[r] : y[1] # out[r] /\ y[2] >= files[out[r]].at}
<1>1. BackupTypeOK /\ FoundOK(r) /\ CreatesOK(r) /\ Retain \in Nat
  BY DEF DumpsInv, BackupInv
<1>2. /\ pc[r] = "stats" /\ pc'[r] = "prune" /\ toStat[r] = {} /\ Made(r) /\ Creates(r)
  BY <1>1, SlotsApart DEF EndListing, Made, Creates, Goto, BackupTypeOK
<1>3. PICK kept \in SUBSET found[r] :
        /\ Newest(kept, found[r])
        /\ prune'[r] = {f[1] : f \in found[r] \ kept}
  BY <1>1 DEF EndListing, BackupTypeOK
<1>4. /\ x \in found[r]
      /\ \A y \in found[r] : y[1] = out[r] => y[2] = files[out[r]].at
  BY <1>1, <1>2 DEF FoundOK
<1>5. \A y \in found[r] : y \in Managed \X Nat
  BY <1>1 DEF BackupTypeOK
<1>6. \A y \in found[r] : y[1] = out[r] => y = x
  BY <1>4, <1>5
<1>7. x \notin kept
  <2>1. PICK y \in found[r] \ kept : y[1] = out[r]
    BY <1>3
  <2> QED BY <1>6, <2>1
<1>8. /\ IsFiniteSet(found[r]) /\ IsFiniteSet(kept) /\ IsFiniteSet(others)
      /\ Cardinality(found[r]) \in Nat /\ Cardinality(others) \in Nat
  <2>1. IsFiniteSet(found[r]) /\ kept \subseteq found[r] /\ others \subseteq found[r]
    BY <1>1, <1>3 DEF FoundOK
  <2> QED BY <2>1, FS_Subset, FS_CardinalityType
<1>9. Cardinality(kept) = Retain
  <2>1. Cardinality(kept) # Cardinality(found[r])
    BY <1>3, <1>4, <1>7, <1>8, FS_Subset
  <2> QED BY <1>3, <2>1 DEF Newest
<1>10. kept \subseteq others
  <2> SUFFICES ASSUME NEW k \in kept PROVE k[1] # out[r] /\ k[2] >= files[out[r]].at
    BY <1>3
  <2>1. k[2] >= x[2]
    BY <1>3, <1>4, <1>7 DEF Newest
  <2>2. k[1] # out[r]
    BY <1>3, <1>6, <1>7
  <2> QED BY <2>1, <2>2
<1>11. Cardinality(kept) <= Cardinality(others)
  BY <1>8, <1>10, FS_Subset
<1>12. Cardinality(others) >= Retain
  BY <1>1, <1>8, <1>9, <1>11
<1> QED BY <1>2, <1>12 DEF Crowded

\* A creation, whatever steps come.
LEMMA CreationStep ==
  ASSUME DumpsInv, BackupNext, Watch, NEW r \in Slots
  PROVE  CreationOK(r)'
<1>1. BackupTypeOK /\ FoundOK(r) /\ CreatesOK(r) /\ MadeOK(r) /\ BackupInv /\ RequestOK(r)
  BY DEF DumpsInv, BackupInv
<1>2. CASE Crash
  <2>1. pc'[r] \in {"free", "error"} /\ found'[r] = {}
    BY <1>2, SlotsApart DEF Crash
  <2> QED BY <1>1, <2>1, NoCreation DEF Creates, Made
<1>3. CASE OutsideStep
  BY <1>1, <1>3, OutsideRests, OutsideSpares, CreationStays DEF Rest
<1>4. ASSUME NEW s \in Slots \ {r}, InsideStep(s)
      PROVE  CreationOK(r)'
  <2>1. Stays(r)
    BY <1>1, <1>4, InsideRests DEF Rest
  <2>2. ~Creates(r)
    BY <1>1, <1>4, InsideStepIsInside, CreatesIsInside DEF BackupInv, Exclusive
  <2> QED BY <2>1, <2>2, CreationStays
<1>5. ASSUME NEW s \in Slots \ {r}, LooseStep(s)
      PROVE  CreationOK(r)'
  <2>1. Stays(r)
    BY <1>1, <1>5, LooseRests DEF Rest
  <2> QED BY <1>5, <2>1, LooseSpares, CreationStays, Luck
<1>6. CASE InsideStep(r)
  <2>1. found[r] = {}
    <3>1. pc[r] \notin {"stats", "ok"}
      BY <1>6 DEF InsideStep, FindTarget, StartDump, FillDump, EndDump, FailDump, UndoDump,
                  StatDump, ReadDir, EndPrune, Load, DeleteFile, PruneFile
    <3> QED BY <1>1, <3>1 DEF FoundOK
  <2>2. op' = op /\ found' = found
    BY <1>6 DEF InsideStep, FindTarget, StartDump, FillDump, EndDump, FailDump, UndoDump,
                StatDump, ReadDir, EndPrune, Load, DeleteFile, PruneFile, listing
  <2>3. CASE op[r] # "create"
    BY <1>1, <2>1, <2>2, <2>3, NoCreation DEF Creates, Made
  <2>4. CASE op[r] = "create" /\ (FailDump(r) \/ UndoDump(r) \/ EndPrune(r))
    <3>1. pc'[r] \in {"undo", "error", "ok"}
      BY <1>1, <2>4, SlotsApart DEF FailDump, UndoDump, EndPrune, Goto, Answer, BackupTypeOK
    <3> QED BY <1>1, <2>1, <2>2, <3>1, NoCreation DEF Creates, Made
  <2>5. op[r] = "create" => ~FindTarget(r) /\ ~Load(r) /\ ~DeleteFile(r)
    BY <1>1 DEF FindTarget, Load, DeleteFile, RequestOK, LabelsOf
  <2> QED BY <1>1, <1>6, <2>3, <2>4, <2>5, CreationStarts, CreationWrites, CreationLooks
          DEF InsideStep
<1>7. CASE LooseStep(r)
  <2>1. ASSUME NEW n \in Names, StatFile(r, n)
        PROVE  CreationOK(r)'
    BY <2>1, CreationFinds
  <2>2. ASSUME NEW n \in Names, UnlinkEmpty(r, n)
        PROVE  CreationOK(r)'
    <3>1. Stays(r)
      BY <2>2 DEF UnlinkEmpty, Stays
    <3> QED BY <1>7, <3>1, LooseSpares, CreationStays, Luck
  <2>3. CASE EndListing(r)
    <3>1. pc[r] = "stats" /\ op' = op /\ out' = out /\ files' = files /\ own' = own
      BY <2>3 DEF EndListing, disk
    <3>2. CASE op[r] = "create"
      <4>1. pc'[r] = "prune" /\ found'[r] = {} /\ Made(r) /\ Creates(r)
        BY <1>1, <2>3, <3>1, <3>2, SlotsApart DEF EndListing, Goto, BackupTypeOK, Made, Creates
      <4>2. out[r] \notin unlucky' => Lucky(out[r]) /\ out[r] \notin prune'[r]
        BY <2>3, <3>2, CreationKept, Luck
      <4>3. CreatesOK(r)' /\ MadeOK(r)'
        BY <1>1, <3>1, <4>1, <4>2 DEF CreatesOK, MadeOK, Made, Exists, Lucky
      <4> QED BY <4>1, <4>3, FS_EmptySet DEF FoundOK, CreationOK
    <3>3. CASE op[r] # "create"
      <4>1. pc'[r] = "ok" /\ found' = found
        BY <1>1, <2>3, <3>3, SlotsApart DEF EndListing, Goto, BackupTypeOK
      <4> QED BY <1>1, <3>1, <3>3, <4>1, NoCreation DEF Creates, Made
    <3> QED BY <3>2, <3>3
  <2>4. CASE Delivered(r)
    <3>1. pc'[r] = "free" /\ found'[r] = {}
      BY <1>1, <2>4, SlotsApart DEF Delivered, Goto, BackupTypeOK
    <3> QED BY <1>1, <3>1, NoCreation DEF Creates, Made
  <2>5. ASSUME NEW what \in {"list", "create", "restore", "delete"}, NEW n, Arrive(r, what, n)
        PROVE  CreationOK(r)'
    <3>1. /\ pc[r] = "free" /\ found'[r] = found[r] /\ op'[r] = what
          /\ pc'[r] \in {"stats", "error", "name", "find"}
          /\ pc'[r] = "stats" => what = "list"
      BY <1>1, <2>5, SlotsApart DEF Arrive, CanArrive, Goto, BackupTypeOK
    <3>2. found[r] = {}
      BY <1>1, <3>1 DEF FoundOK
    <3> QED BY <1>1, <3>1, <3>2, NoCreation DEF Creates, Made
  <2> QED BY <1>7, <2>1, <2>2, <2>3, <2>4, <2>5 DEF LooseStep, Arrives
<1> QED BY <1>2, <1>3, <1>4, <1>5, <1>6, <1>7, Steps

-----------------------------------------------------------------------------
(* The dumps' invariant.                                                   *)

LEMMA DumpsInit ==
  ASSUME WatchedInit
  PROVE  DumpsInv
<1>1. BackupInit /\ BackupInv /\ unlucky = {}
  BY InvInit DEF WatchedInit
<1>2. ApartOK
  BY <1>1 DEF BackupInit, ApartOK
<1>3. \A n \in Names : FileOK(n)
  BY <1>1 DEF BackupInit, FileOK, Gone
<1>4. \A w \in Writers : WritingOK(w)
  BY <1>1 DEF BackupInit, WritingOK
<1>5. \A r \in Slots : CreatesOK(r) /\ MadeOK(r) /\ FoundOK(r)
  BY <1>1, SlotsApart, FS_EmptySet DEF BackupInit, CreatesOK, MadeOK, FoundOK, Creates, Made
<1> QED BY <1>1, <1>2, <1>3, <1>4, <1>5 DEF DumpsInv

LEMMA DumpsStep ==
  ASSUME DumpsInv, [WatchedNext]_watchedVars
  PROVE  DumpsInv'
<1>1. CASE WatchedNext
  <2>1. BackupNext /\ Watch
    BY <1>1 DEF WatchedNext
  <2>2. BackupInv'
    BY <2>1, InvStep DEF DumpsInv
  <2>3. ApartOK' /\ \A n \in Names : FileOK(n)'
    BY <2>1, ApartStep, FileStep
  <2>4. \A w \in Writers : WritingOK(w)'
    BY <2>1, WritingStep
  <2>5. \A r \in Slots : CreatesOK(r)' /\ MadeOK(r)' /\ FoundOK(r)'
    BY <2>1, CreationStep DEF CreationOK
  <2> QED BY <2>2, <2>3, <2>4, <2>5 DEF DumpsInv
<1>2. CASE UNCHANGED watchedVars
  <2>1. UNCHANGED backupVars /\ unlucky' = unlucky
    BY <1>2 DEF watchedVars
  <2>2. BackupInv'
    BY <2>1, InvStep DEF DumpsInv
  <2>3. UNCHANGED <<files, own, out, op, pc, toStat, toUnlink, found, prune>>
    BY <2>1 DEF backupVars, disk, listing
  <2>4. ApartOK' /\ \A n \in Names : FileOK(n)'
    BY <2>1, <2>3 DEF DumpsInv, ApartOK, FileOK, Lucky
  <2>5. \A w \in Writers : WritingOK(w)'
    BY <2>1, <2>3 DEF DumpsInv, WritingOK, Exists, Lucky
  <2>6. \A r \in Slots : CreatesOK(r)' /\ MadeOK(r)' /\ FoundOK(r)'
    BY <2>1, <2>3 DEF DumpsInv, CreatesOK, MadeOK, FoundOK, Creates, Made, Exists, Lucky
  <2> QED BY <2>2, <2>4, <2>5, <2>6 DEF DumpsInv
<1> QED BY <1>1, <1>2

\* The invariant about the dumps that are written, made and listed.
THEOREM DumpsInvariance == WatchedSpec => []DumpsInv
<1>1. WatchedInit => DumpsInv
  BY DumpsInit
<1>2. DumpsInv /\ [WatchedNext]_watchedVars => DumpsInv'
  BY DumpsStep
<1> QED BY <1>1, <1>2, PTL DEF WatchedSpec

\* A request to create a backup that answers ok leaves a complete one under the name it
\* tells, although listings unlink empty files meanwhile, the retention prunes at its end,
\* and the workflow writes to the directory without the flag; or its file had bad luck.
THEOREM CreatedBackupsAreComplete == WatchedSpec => CreatedIsComplete
<1>1. DumpsInv /\ [WatchedNext]_watchedVars =>
        [\A r \in Slots : op[r] = "create" /\ pc[r] # "ok" /\ pc'[r] = "ok" =>
           Complete(out[r])' \/ out[r] \in unlucky']_watchedVars
  <2> SUFFICES ASSUME DumpsInv, BackupNext, Watch, NEW r \in Slots,
                      op[r] = "create", pc[r] # "ok", pc'[r] = "ok", out[r] \notin unlucky'
               PROVE  Complete(out[r])'
    BY DEF WatchedNext
  <2>1. BackupTypeOK /\ RequestOK(r) /\ MadeOK(r) /\ Lucky(out[r])
    BY Luck DEF DumpsInv, BackupInv
  <2>2. StatDump(r) \/ EndPrune(r)
    <3>1. ~Crash
      BY <2>1, SlotsApart DEF Crash
    <3>2. ~Rest(r)
      BY DEF Rest, Stays
    <3>3. LooseStep(r) => FALSE
      BY <2>1, SlotsApart DEF LooseStep, StatFile, UnlinkEmpty, EndListing, Delivered, Arrives,
         Arrive, Goto, Answer, BackupTypeOK
    <3>4. InsideStep(r) => StatDump(r) \/ EndPrune(r)
      BY <2>1, SlotsApart DEF InsideStep, FindTarget, StartDump, FillDump, EndDump, FailDump,
         UndoDump, ReadDir, Load, DeleteFile, PruneFile, Goto, Answer, Dumped, RequestOK,
         LabelsOf, BackupTypeOK
    <3> QED BY <2>1, <3>1, <3>2, <3>3, <3>4, Steps, InsideRests, LooseRests, OutsideRests
  <2>3. files' = files /\ out' = out /\ Made(r) /\ Exists(out[r])
    <3>1. CASE StatDump(r)
      BY <2>1, <3>1, SlotsApart DEF StatDump, Goto, Answer, BackupTypeOK, disk, Made
    <3>2. CASE EndPrune(r)
      BY <2>1, <3>2 DEF EndPrune, disk, Made, MadeOK
    <3> QED BY <2>2, <3>1, <3>2
  <2>4. out[r] \in Names
    BY <2>3 DEF DumpsInv, CreatesOK, Creates
  <2>5. Complete(out[r])
    BY <2>1, <2>3, <2>4 DEF Complete, DumpsInv, MadeOK, FileOK
  <2> QED BY <2>3, <2>5 DEF Complete
<1> QED BY <1>1, DumpsInvariance, PTL DEF WatchedSpec, CreatedIsComplete

\* The last complete backup in the directory goes only by a request to delete it, or by the
\* bad luck that is recorded: pruning happens only under a complete backup that stays,
\* listings and undone dumps remove incomplete files, and no dump is opened over one.
THEOREM LastBackupIsKept == WatchedSpec => LastCompleteKept
<1>1. DumpsInv /\ [WatchedNext]_watchedVars =>
        [HasBackup /\ ~HasBackup' =>
           \/ \E r \in Slots : pc[r] = "unlink" /\ pc'[r] = "ok"
           \/ \E n \in unlucky' : Complete(n)
           \/ \E r \in Slots : pc[r] = "prune" /\ out[r] \in unlucky]_watchedVars
  <2> SUFFICES ASSUME DumpsInv, BackupNext, Watch, HasBackup, ~HasBackup',
                      \A n \in unlucky' : ~Complete(n),
                      \A r \in Slots : pc[r] = "prune" => Lucky(out[r])
               PROVE  \E r \in Slots : pc[r] = "unlink" /\ pc'[r] = "ok"
    BY DEF WatchedNext, Lucky
  <2>1. BackupTypeOK
    BY DEF DumpsInv, BackupInv
  <2>2. PICK b \in Listed : Complete(b)
    BY DEF HasBackup
  <2>3. /\ b \in Names /\ b \notin unlucky' /\ Lucky(b)
        /\ files[b].stage = "full" /\ ~files[b].mixed /\ \A s \in Slots : b \notin toUnlink[s]
    BY <2>2, Luck DEF Listed, DumpsInv, FileOK, Complete
  <2>4. ASSUME NEW n \in Names, n[1] # "pre-restore"
        PROVE  files'[n].stage # "full" \/ files'[n].mixed
    BY <2>4 DEF HasBackup, Listed, Exists, Complete
  <2>5. files'[b] # files[b] /\ (files'[b].stage # "full" \/ files'[b].mixed)
    BY <2>2, <2>3, <2>4 DEF Listed
  <2>6. ~KeepsFiles
    BY <2>5 DEF KeepsFiles
  <2>7. ASSUME NEW v \in Writers, NEW n \in Names, Begins(v, n)
        PROVE  FALSE
    <3>1. n # b
      BY <2>1, <2>3, <2>7, BegunFile DEF Exists
    <3>2. Open(v, n)
      BY <2>7 DEF Begins
    <3>3. files'[b] = files[b]
      BY <2>1, <2>3, <3>1, <3>2 DEF Open, BackupTypeOK
    <3> QED BY <2>5, <3>3
  <2>8. ASSUME NEW v \in Writers, FillDump(v) \/ EndDump(v)
        PROVE  FALSE
    <3>1. /\ out[v] \in Names /\ pc[v] \in {"open", "fill"}
          /\ \A m \in Names : m = out[v] \/ files'[m] = files[m]
      BY <2>8, DumpWrites
    <3>2. out[v] = b
      BY <2>3, <2>5, <3>1
    <3> QED BY <2>3, <3>1, <3>2 DEF DumpsInv, WritingOK
  <2>9. PICK m \in Names : Removes(m)
    BY <2>1, <2>6, <2>7, <2>8, DumpSteps
  <2>10. /\ m = b
         /\ \A n \in Names \ {b} : files'[n] = files[n]
    BY <2>1, <2>3, <2>5, <2>9, RemovedFiles
  <2>11. files' # files
    BY <2>5
  <2>12. ASSUME NEW s \in Slots, InsideStep(s), ~DeleteFile(s)
         PROVE  FALSE
    <3>1. CASE UndoDump(s)
      <4>1. Remove(out[s]) /\ out[s] \in Names /\ pc[s] = "undo" /\ s \in Writers
        BY <3>1 DEF UndoDump, DumpsInv, WritingOK, Writers
      <4>2. out[s] = b
        BY <2>1, <2>3, <2>5, <4>1 DEF Remove, BackupTypeOK
      <4> QED BY <2>3, <4>1, <4>2 DEF DumpsInv, WritingOK
    <3>2. ASSUME NEW n \in Names, PruneFile(s, n)
          PROVE  FALSE
      <4>1. /\ pc[s] = "prune" /\ n \in prune[s] /\ Removes(n) /\ Made(s) /\ Creates(s)
            /\ Lucky(out[s])
        BY <3>2 DEF PruneFile, Removes, DumpsInv, BackupInv, RequestOK, LabelsOf, Made, Creates,
                    BackupTypeOK
      <4>2. /\ out[s] \in Names /\ out[s][1] = "dump" /\ out[s] # n
            /\ files[out[s]].stage = "full" /\ ~files[out[s]].mixed
        BY <4>1 DEF DumpsInv, MadeOK, CreatesOK, FileOK
      <4>3. files'[out[s]] = files[out[s]]
        BY <2>1, <4>1, <4>2, RemovedFiles
      <4> QED BY <2>4, <4>2, <4>3
    <3>3. CASE StartDump(s) \/ FillDump(s) \/ EndDump(s)
      BY <2>1, <2>7, <2>8, <3>3, StartDumpBegins DEF Writers
    <3>4. CASE FindTarget(s) \/ FailDump(s) \/ StatDump(s) \/ ReadDir(s) \/ EndPrune(s) \/ Load(s)
      BY <2>11, <3>4 DEF FindTarget, FailDump, StatDump, ReadDir, EndPrune, Load, disk
    <3> QED BY <2>12, <3>1, <3>2, <3>3, <3>4 DEF InsideStep
  <2>13. ASSUME NEW s \in Slots, LooseStep(s)
         PROVE  FALSE
    <3>1. ASSUME NEW n \in Names, UnlinkEmpty(s, n)
          PROVE  FALSE
      <4>1. Remove(n) /\ n # b
        BY <2>3, <3>1 DEF UnlinkEmpty
      <4>2. files'[b] = files[b]
        BY <2>1, <2>3, <4>1 DEF Remove, BackupTypeOK
      <4> QED BY <2>5, <4>2
    <3>2. (\E n \in Names : StatFile(s, n)) \/ EndListing(s) \/ Delivered(s) \/ Arrives(s)
            => files' = files
      BY DEF StatFile, EndListing, Delivered, Arrives, Arrive, disk
    <3> QED BY <2>11, <2>13, <3>1, <3>2 DEF LooseStep
  <2>14. ~OutsideStep /\ ~Crash
    <3>1. ~StartRun /\ ~FillDump(Workflow) /\ ~EndDump(Workflow)
      BY <2>1, <2>7, <2>8, StartRunBegins DEF Writers
    <3> QED BY <2>11, <3>1 DEF OutsideStep, EndRun, DataWrite, Tick, Crash, disk
  <2>15. PICK s \in Slots : DeleteFile(s)
    BY <2>12, <2>13, <2>14, Steps
  <2>16. pc[s] = "unlink" /\ pc'[s] = "ok"
    BY <2>1, <2>11, <2>15, SlotsApart DEF DeleteFile, disk, Answer, Goto, BackupTypeOK
  <2> QED BY <2>16
<1> QED BY <1>1, DumpsInvariance, PTL DEF WatchedSpec, LastCompleteKept
=============================================================================
