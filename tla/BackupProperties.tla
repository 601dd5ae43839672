-------------------------- MODULE BackupProperties --------------------------
(* What the backup service keeps true of the directory and the database.     *)
EXTENDS Backups

Stages == {"none", "empty", "part", "full"}
Labels == {"free", "stats", "find", "name", "open", "fill", "undo", "stat", "readdir",
           "prune", "load", "unlink", "test", "ok", "error"}
Files  == [stage : Stages, version : Nat, at : Nat, mixed : BOOLEAN]

\* The files a listing may look at, remove and prune.
Managed == {"dump"} \X Seconds

\* Types of the variables of the service; safety dumps are none of the files it manages.
BackupTypeOK ==
    /\ db \in Nat /\ writes \in Nat /\ now \in Seconds
    /\ files \in [Names -> Files]
    /\ out \in [Writers -> Names \cup {NoName}] /\ own \in [Writers -> BOOLEAN]
    /\ running \in BOOLEAN
    /\ op \in [Slots -> {"list", "create", "restore", "delete"}] /\ pc \in [Writers -> Labels]
    /\ target \in [Slots -> Names \cup {NoName}]
    /\ toStat \in [Slots -> SUBSET Managed] /\ toUnlink \in [Slots -> SUBSET Managed]
    /\ found \in [Slots -> SUBSET (Managed \X Nat)] /\ prune \in [Slots -> SUBSET Managed]
    /\ events \in Nat

\* The requests inside runExclusive.
Inside == {r \in Slots : op[r] # "list" /\ pc[r] \notin {"free", "ok", "error"}}

\* One operation at a time dumps, restores or deletes, and the flag is set just then: it
\* is neither left behind by an operation that failed nor cleared under one that runs.
Exclusive ==
    /\ running <=> Inside # {}
    /\ \A r, s \in Inside : r = s

\* While a restore loads its dump, the safety dump made for it is complete and in place,
\* whatever is listed, pruned or dumped meanwhile.
SafetyHolds ==
    \A r \in Slots : pc[r] = "load" =>
        out[r][1] = "pre-restore" /\ own[r] /\ Complete(out[r])

-----------------------------------------------------------------------------
(* What the code leaves to chance is recorded beside the state, per file:  *)
(* the properties below then tell what it does not.                        *)

VARIABLE unlucky    \* the files one of the following happened to

\* A dump opened it that another dump had opened in the same second, or had not yet let go.
Shared(w) == /\ pc'[w] = "open" /\ pc[w] # "open"
             /\ Exists(out'[w]) \/ \E v \in Writers \ {w} : out[v] = out'[w]
\* A listing that saw it empty has not unlinked it yet when its dump is complete.
Overtaken(w) == pc[w] = "fill" /\ pc'[w] = Dumped(w) /\ \E r \in Slots : out[w] \in toUnlink[r]
\* The creation that made it found the retention filled by others at least as new.
Crowded(r) == /\ pc[r] = "stats" /\ pc'[r] = "prune"
              /\ Cardinality({x \in found[r] : x[1] # out[r] /\ x[2] >= files[out[r]].at})
                   >= Retain

Watch == unlucky' = unlucky \cup {out'[w] : w \in {v \in Writers : Shared(v) \/ Overtaken(v)}}
                            \cup {out[r] : r \in {s \in Slots : Crowded(s)}}

watchedVars == <<backupVars, unlucky>>
WatchedInit == BackupInit /\ unlucky = {}
WatchedNext == BackupNext /\ Watch
WatchedSpec == WatchedInit /\ [][WatchedNext]_watchedVars

\* A backup reported as created is there and complete, although listings remove the empty
\* files they see, other dumps come and go and the same request has pruned old ones.  The
\* exceptions are its own bad luck: a dump of its second, a listing it overtook, a
\* retention filled by files as new as it.
CreatedIsComplete ==
    [][\A r \in Slots : op[r] = "create" /\ pc[r] # "ok" /\ pc'[r] = "ok" =>
           Complete(out[r])' \/ out[r] \in unlucky']_watchedVars

HasBackup == \E n \in Listed : Complete(n)
\* The last complete backup goes only by a request to delete it: no listing, no failed dump
\* and no restart takes it, and pruning does not, though it counts parts of dumps.  The
\* exceptions: a dump of its own second, which writes to its file and removes it when it
\* fails, a listing it overtook, and a pruning whose own backup had such luck.
LastCompleteKept ==
    [][HasBackup /\ ~HasBackup' =>
           \/ \E r \in Slots : pc[r] = "unlink" /\ pc'[r] = "ok"
           \/ \E n \in unlucky' : Complete(n)
           \/ \E r \in Slots : pc[r] = "prune" /\ out[r] \in unlucky]_watchedVars

\* An operation gives the flag back, however it ends.
OperationsEnd == running ~> ~running
=============================================================================
