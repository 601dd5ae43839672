------------------------------ MODULE Backups ------------------------------
(***************************************************************************)
(* The backend's backup service: requests that list, create, restore and   *)
(* delete PostgreSQL dumps in one directory, under the flag `running' that *)
(* every operation but the listing takes.  The GitHub workflows dump into  *)
(* the same directory without it.  A file is what its directory entry      *)
(* shows: a dump whose entry was unlinked goes on writing to nothing.      *)
(***************************************************************************)
EXTENDS Naturals, FiniteSets

CONSTANTS
    Slots,          \* requests the backend has in hand
    Workflow,       \* a run of the deploy or backup workflow
    Retain,         \* BACKUP_RETAIN_COUNT (14 in the code)
    MaxSeconds,     \* the clock's last second (bound)
    MaxEvents       \* requests other than listings, workflow runs, writes of the
                    \* application, failures, restarts and free clock steps (bound)

ASSUME BackupAssumption ==
    /\ Workflow \notin Slots /\ Retain \in Nat
    /\ MaxSeconds \in Nat /\ MaxEvents \in Nat

\* A name is its prefix and the second it was built in; the workflow builds the same names
\* as the backend.
Seconds == 0..MaxSeconds
Names   == {"dump", "pre-restore"} \X Seconds
NoName  == <<"none", 0>>
Writers == Slots \cup {Workflow}
Gone    == [stage |-> "none", version |-> 0, at |-> 0, mixed |-> FALSE]

VARIABLES
    db, writes,     \* the version of the database; versions the application wrote
    now,            \* seconds
    files,          \* the directory: stage, database version and mtime of each name, and
                    \* whether two dumps wrote to it at once
    out, own,       \* the file a pg_dump writes; whether the directory still shows it
    running,        \* BackupService.running
    op, pc, target, \* a request: what it does, where it is, the file it was given
    toStat, toUnlink, found,    \* its listing: files to look at, empty ones, the others
    prune,          \* its files to prune
    events          \* how many there were

database == <<db, writes>>
disk     == <<files, own>>
listing  == <<toStat, toUnlink, found>>
backupVars == <<database, now, disk, out, running, op, pc, target, listing, prune, events>>

BackupInit ==
    /\ db = 0 /\ writes = 0 /\ now = 0
    /\ files = [n \in Names |-> Gone]
    /\ out = [w \in Writers |-> NoName] /\ own = [w \in Writers |-> FALSE]
    /\ running = FALSE
    /\ op = [r \in Slots |-> "list"] /\ pc = [w \in Writers |-> "free"]
    /\ target = [r \in Slots |-> NoName]
    /\ toStat = [r \in Slots |-> {}] /\ toUnlink = [r \in Slots |-> {}]
    /\ found = [r \in Slots |-> {}] /\ prune = [r \in Slots |-> {}]
    /\ events = 0

-----------------------------------------------------------------------------
(* The directory.                                                          *)

Exists(n) == files[n].stage # "none"
\* Mutant: a pattern that accepts safety dumps too.
ListedAll == {n \in Names : Exists(n)}
\* What backupNamePattern accepts: safety dumps are not listed.
Listed == {n \in Names : n[1] # "pre-restore" /\ Exists(n)}

Remove(n) ==
    /\ files' = [files EXCEPT ![n] = Gone]
    /\ own' = [w \in Writers |-> own[w] /\ out[w] # n]

\* Writer w writes to its file: nothing changes if the entry was unlinked.
Put(w, stage, version, at) ==
    files' = IF own[w]
             THEN [files EXCEPT ![out[w]] =
                      [@ EXCEPT !.stage = stage, !.version = version, !.at = at]]
             ELSE files

Writes(w, n) == own[w] /\ out[w] = n /\ pc[w] \in {"open", "fill"}

\* pg_dump and the shell open, and empty, their output before they read the database.
Open(w, n) ==
    /\ files' = [files EXCEPT ![n] = [stage |-> "empty", version |-> 0, at |-> now,
                                     mixed |-> \E v \in Writers \ {w} : Writes(v, n)]]
    /\ out' = [out EXCEPT ![w] = n] /\ own' = [own EXCEPT ![w] = TRUE]

-----------------------------------------------------------------------------
(* Requests.                                                               *)

Event == events < MaxEvents /\ events' = events + 1
Goto(w, label) == pc' = [pc EXCEPT ![w] = label]
\* Mutant: whatever ends clears the flag.
AnswerClears(r, result) == Goto(r, result) /\ running' = FALSE
\* The operation ends; `finally' clears the flag its request took.
Answer(r, result) == Goto(r, result) /\ running' = (running /\ op[r] = "list")

CanArrive(r) == pc[r] = "free" /\ toStat[r] = {} /\ toUnlink[r] = {}

\* A listing reads the directory; another operation is refused while one runs, and a
\* restore without the right confirmation before that.
Arrive(r, what, n) ==
    /\ CanArrive(r)
    /\ IF what = "list" THEN UNCHANGED events ELSE Event
    /\ op' = [op EXCEPT ![r] = what] /\ target' = [target EXCEPT ![r] = n]
    /\ \/ /\ what = "list"
          /\ Goto(r, "stats") /\ toStat' = [toStat EXCEPT ![r] = Listed]
          /\ UNCHANGED running
       \/ /\ what = "restore" \/ (what # "list" /\ running)
          /\ Goto(r, "error") /\ UNCHANGED <<running, toStat>>
       \/ /\ what # "list" /\ ~running
          /\ running' = TRUE /\ Goto(r, IF what = "create" THEN "name" ELSE "find")
          /\ UNCHANGED toStat
    /\ UNCHANGED <<database, now, disk, out, toUnlink, found, prune>>

\* restoreBackup and deleteBackup: the file has to exist.
FindTarget(r) ==
    /\ pc[r] = "find"
    /\ IF Exists(target[r])
       THEN Goto(r, IF op[r] = "restore" THEN "name" ELSE "unlink") /\ UNCHANGED running
       ELSE Answer(r, "error")
    /\ UNCHANGED <<database, now, disk, out, op, target, listing, prune, events>>

\* The dump of createBackup, or the safety dump of restoreBackup, under the name of now.
StartDump(r) ==
    /\ pc[r] = "name"
    /\ Open(r, <<IF op[r] = "create" THEN "dump" ELSE "pre-restore", now>>)
    /\ Goto(r, "open")
    /\ UNCHANGED <<database, now, running, op, target, listing, prune, events>>

\* pg_dump reads the database in one snapshot.
FillDump(w) ==
    /\ pc[w] = "open"
    /\ Put(w, "part", db, now) /\ Goto(w, "fill")
    /\ UNCHANGED <<database, now, own, out, running, op, target, listing, prune, events>>

\* Where pg_dump's exit leads its caller.
Dumped(w) == IF w = Workflow THEN "test"
             ELSE IF op[w] = "create" THEN "stat" ELSE "load"

\* It may outlast the second it began in, or not.
EndDump(w) ==
    /\ pc[w] = "fill"
    /\ now' \in {now, now + 1} \cap Seconds
    /\ Put(w, "full", files[out[w]].version, now') /\ Goto(w, Dumped(w))
    /\ UNCHANGED <<database, own, out, running, op, target, listing, prune, events>>

FailDump(r) ==
    /\ pc[r] \in {"open", "fill"}
    /\ Event /\ Goto(r, "undo")
    /\ UNCHANGED <<database, now, disk, out, running, op, target, listing, prune>>

\* Mutant: the flag is cleared only after success.
UndoDumpKeepsFlag(r) ==
    /\ pc[r] = "undo"
    /\ Remove(out[r]) /\ Goto(r, "error") /\ UNCHANGED running
    /\ UNCHANGED <<database, now, out, op, target, listing, prune, events>>
\* catch: the file is removed, the error thrown on.
UndoDump(r) ==
    /\ pc[r] = "undo"
    /\ Remove(out[r]) /\ Answer(r, "error")
    /\ UNCHANGED <<database, now, out, op, target, listing, prune, events>>

\* createBackup looks at the dump it made; then pruneOldBackups, if it is to prune.
StatDump(r) ==
    /\ pc[r] = "stat"
    /\ IF ~Exists(out[r]) THEN Answer(r, "error")
       ELSE IF Retain < 1 THEN Answer(r, "ok")
       ELSE Goto(r, "readdir") /\ UNCHANGED running
    /\ UNCHANGED <<database, now, disk, out, op, target, listing, prune, events>>

ReadDir(r) ==
    /\ pc[r] = "readdir"
    /\ toStat' = [toStat EXCEPT ![r] = Listed] /\ Goto(r, "stats")
    /\ UNCHANGED <<database, now, disk, out, running, op, target, toUnlink, found, prune, events>>

\* listBackups looks at all files at once.  One that vanished makes the listing fail, and
\* the operation that lists; the other files are looked at, and unlinked, nevertheless.
StatFile(r, n) ==
    /\ n \in toStat[r]
    /\ toStat' = [toStat EXCEPT ![r] = @ \ {n}]
    /\ IF ~Exists(n) /\ pc[r] = "stats" THEN Answer(r, "error") ELSE UNCHANGED <<pc, running>>
    /\ toUnlink' = [toUnlink EXCEPT ![r] =
                       IF files[n].stage = "empty" THEN @ \cup {n} ELSE @]
    /\ found' = [found EXCEPT ![r] =
                    IF pc[r] # "stats" \/ ~Exists(n) THEN {}
                    ELSE IF files[n].stage = "empty" THEN @ ELSE @ \cup {<<n, files[n].at>>}]
    /\ UNCHANGED <<database, now, disk, out, op, target, prune, events>>

UnlinkEmpty(r, n) ==
    /\ n \in toUnlink[r]
    /\ toUnlink' = [toUnlink EXCEPT ![r] = @ \ {n}]
    /\ Remove(n)
    /\ UNCHANGED <<database, now, out, running, op, pc, target, toStat, found, prune, events>>

\* Mutant: the sort is ascending.
OldestKept(kept, all) ==
    /\ kept \subseteq all
    /\ Cardinality(kept) = IF Cardinality(all) < Retain THEN Cardinality(all) ELSE Retain
    /\ \A k \in kept, o \in all \ kept : k[2] <= o[2]
\* Mutant: the slice starts at the first file.
NoneKept(kept, all) == kept = {}
\* The newest Retain of the files found; files of one second come in any order.
Newest(kept, all) ==
    /\ kept \subseteq all
    /\ Cardinality(kept) = IF Cardinality(all) < Retain THEN Cardinality(all) ELSE Retain
    /\ \A k \in kept, o \in all \ kept : k[2] >= o[2]

EndListing(r) ==
    /\ pc[r] = "stats" /\ toStat[r] = {} /\ toUnlink[r] = {}
    /\ \/ /\ op[r] = "list" /\ Goto(r, "ok") /\ UNCHANGED <<found, prune>>
       \/ /\ op[r] = "create" /\ Goto(r, "prune")
          /\ \E kept \in SUBSET found[r] :
                /\ Newest(kept, found[r])
                /\ prune' = [prune EXCEPT ![r] = {f[1] : f \in found[r] \ kept}]
          /\ found' = [found EXCEPT ![r] = {}]
    /\ UNCHANGED <<database, now, disk, out, running, op, target, toStat, toUnlink, events>>

\* A failing unlink is only logged.
PruneFile(r, n) ==
    /\ pc[r] = "prune" /\ n \in prune[r]
    /\ Remove(n) /\ prune' = [prune EXCEPT ![r] = @ \ {n}]
    /\ UNCHANGED <<database, now, out, running, op, pc, target, listing, events>>

EndPrune(r) ==
    /\ pc[r] = "prune" /\ prune[r] = {}
    /\ Answer(r, "ok")
    /\ UNCHANGED <<database, now, disk, out, op, target, listing, prune, events>>

Complete(n) == files[n].stage = "full" /\ ~files[n].mixed

\* pg_restore in a single transaction: all of a complete dump, or nothing.
Load(r) ==
    /\ pc[r] = "load"
    /\ \/ /\ Complete(target[r])
          /\ db' = files[target[r]].version
          /\ Answer(r, "ok") /\ UNCHANGED events
       \/ /\ IF Complete(target[r]) THEN Event ELSE UNCHANGED events
          /\ Answer(r, "error") /\ UNCHANGED db
    /\ UNCHANGED <<writes, now, disk, out, op, target, listing, prune>>

DeleteFile(r) ==
    /\ pc[r] = "unlink"
    /\ IF Exists(target[r]) THEN Remove(target[r]) /\ Answer(r, "ok")
       ELSE Answer(r, "error") /\ UNCHANGED disk
    /\ UNCHANGED <<database, now, out, op, target, listing, prune, events>>

\* The client has the answer.
Delivered(r) ==
    /\ pc[r] \in {"ok", "error"}
    /\ Goto(r, "free")
    /\ target' = [target EXCEPT ![r] = NoName] /\ op' = [op EXCEPT ![r] = "list"]
    /\ out' = [out EXCEPT ![r] = NoName] /\ own' = [own EXCEPT ![r] = FALSE]
    /\ found' = [found EXCEPT ![r] = {}]
    /\ UNCHANGED <<database, now, files, running, toStat, toUnlink, prune, events>>

-----------------------------------------------------------------------------
(* The workflow, the application and the process.                          *)

StartRun ==
    /\ pc[Workflow] = "free" /\ Event
    /\ Open(Workflow, <<"dump", now>>) /\ Goto(Workflow, "open")
    /\ UNCHANGED <<database, now, running, op, target, listing, prune>>

\* `test -s', or the ssh connection is lost: the file stays as it is.
EndRun ==
    /\ pc[Workflow] \in {"open", "fill", "test"}
    /\ Goto(Workflow, "free")
    /\ out' = [out EXCEPT ![Workflow] = NoName] /\ own' = [own EXCEPT ![Workflow] = FALSE]
    /\ UNCHANGED <<database, now, files, running, op, target, listing, prune, events>>

DataWrite ==
    /\ Event /\ writes' = writes + 1 /\ db' = writes + 1
    /\ UNCHANGED <<now, disk, out, running, op, pc, target, listing, prune>>

Tick ==
    /\ Event /\ now' = now + 1 /\ now' \in Seconds
    /\ UNCHANGED <<database, disk, out, running, op, pc, target, listing, prune>>

\* The backend dies with the programs it started; clients see their requests fail.
Crash ==
    /\ Event /\ running' = FALSE
    /\ pc' = [w \in Writers |-> IF w = Workflow \/ pc[w] = "free" THEN pc[w] ELSE "error"]
    /\ own' = [w \in Writers |-> w = Workflow /\ own[w]]
    /\ toStat' = [r \in Slots |-> {}] /\ toUnlink' = [r \in Slots |-> {}]
    /\ found' = [r \in Slots |-> {}] /\ prune' = [r \in Slots |-> {}]
    /\ UNCHANGED <<database, now, files, out, op, target>>

-----------------------------------------------------------------------------
DumpStep(r)    == StartDump(r) \/ FillDump(r) \/ EndDump(r) \/ UndoDump(r) \/ StatDump(r)
ListingStep(r) == ReadDir(r) \/ EndListing(r) \/ EndPrune(r)
                  \/ (\E n \in Names : StatFile(r, n) \/ UnlinkEmpty(r, n) \/ PruneFile(r, n))
\* What a request does without its client.
RequestStep(r) == FindTarget(r) \/ DumpStep(r) \/ ListingStep(r) \/ Load(r) \/ DeleteFile(r)
WorkflowStep   == StartRun \/ FillDump(Workflow) \/ EndDump(Workflow) \/ EndRun
ServerStep     == \/ \E r \in Slots : RequestStep(r) \/ FailDump(r)
                  \/ WorkflowStep \/ DataWrite \/ Tick

\* Any client: it restores and deletes files that were there when it asked.
ClientStep ==
    \E r \in Slots :
        \/ Arrive(r, "list", NoName) \/ Arrive(r, "create", NoName)
        \/ \E n \in Names : Exists(n) /\ (Arrive(r, "restore", n) \/ Arrive(r, "delete", n))
        \/ Delivered(r)

BackupNext == ServerStep \/ Crash \/ ClientStep
BackupSpec == BackupInit /\ [][BackupNext]_backupVars
=============================================================================
