------------------------------ MODULE Accounts ------------------------------
(***************************************************************************)
(* The accounts of the dashboard: admins, the API users they manage, and   *)
(* the users' API keys, WhatsApp sessions and portal links.  The requests  *)
(* of several dashboards run in the backend at once; each is a chain of    *)
(* database calls, and one action is one call.                             *)
(*                                                                         *)
(* A Prisma transaction runs at READ COMMITTED: its scans see the rows     *)
(* committed so far, its writes are seen by others when it commits and     *)
(* touch only rows it scanned.  So a transaction is its scans, then one    *)
(* commit.  Audit rows, passwords and names are left out; an account is    *)
(* named by its e-mail address.                                            *)
(***************************************************************************)
EXTENDS Naturals, FiniteSets

CONSTANTS
    Threads,        \* requests the backend works on at once            (bound)
    Root,           \* the superadmin
    None,           \* no account
    Admins, Users,  \* the admins and API users there may be             (bound)
    Manager,        \* [those there are at the start -> Root or their admin]
    Keys, Labels,   \* names of a user's keys and sessions              (bounds)
    MaxRequests,    \* requests in all                                  (bound)
    MaxFaults       \* failing database calls                           (bound)

Accounts == Admins \cup Users

ASSUME AccountsAssumption ==
    /\ Root \notin Accounts /\ None \notin Accounts /\ None # Root
    /\ Admins \cap Users = {}
    /\ DOMAIN Manager \subseteq Accounts
    /\ \A a \in DOMAIN Manager :
         IF a \in Admins THEN Manager[a] = Root
         ELSE Manager[a] \in {Root} \cup (Admins \cap DOMAIN Manager)
    /\ IsFiniteSet(Threads) /\ Threads # {}
    /\ Keys \subseteq Nat /\ Labels \subseteq Nat /\ 1 \in Keys /\ 1 \in Labels
    /\ MaxRequests \in Nat /\ MaxFaults \in Nat

VARIABLES
    rows,       \* the accounts in the users table
    born,       \* those ever in it: a deleted account does not come back   (bound)
    enabled,    \* users.is_active
    parent,     \* users.parent_admin_id
    version,    \* users.portal_token_version
    keys, active, revoked,   \* api_keys: the rows, is_active, revoked_at not null
    sessions,   \* whatsapp_sessions
    links,      \* portal links handed out: <<user, version>>
    threads,    \* the request each thread works on
    asked, faults

people  == <<rows, born, enabled, parent>>
apiKeys == <<keys, active, revoked>>
portal  == <<version, links>>
bounds  == <<asked, faults>>
vars    == <<people, apiKeys, sessions, portal, threads, bounds>>

Free == [pc |-> "idle", who |-> Root, op |-> "none", target |-> None, key |-> 1, ids |-> {},
         seenKeys |-> {}, seenSessions |-> {}, version |-> 0]

Init ==
    /\ rows = DOMAIN Manager /\ born = rows /\ enabled = rows
    /\ parent = [a \in Accounts |-> IF a \in rows THEN Manager[a] ELSE None]
    /\ version = [u \in Users |-> 0] /\ links = {}
    /\ keys = (Users \cap rows) \X {1} /\ active = keys /\ revoked = {}
    /\ sessions = (Users \cap rows) \X {1}
    /\ threads = [p \in Threads |-> Free]
    /\ asked = 0 /\ faults = 0

Of(S, T) == {x \in S : x[1] \in T}
Goto(p, pc) == threads' = [threads EXCEPT ![p].pc = pc]
Ends(p) == threads' = [threads EXCEPT ![p] = Free]
At(p, pc) == threads[p].pc = pc

-----------------------------------------------------------------------------
(* The requests and what each starts with.                                 *)

OnUser   == {"createKey", "createSession", "deleteUser", "revokeLinks", "share"}
OnKey    == {"revokeKey", "blockKey", "unblockKey"}
OnAdmin  == {"block", "unblock", "deleteAdmin"}

FirstPc(op) == CASE op = "create" -> "email"
                 [] op \in OnUser -> "findUser"
                 [] op \in OnKey -> "findKey"
                 [] op \in OnAdmin -> "findAdmin"

\* RolesGuard and createApiUser's checks of the roles.
Allowed(who, op, target) ==
    \/ op = "create" /\ target \notin born /\ (who # Root => target \in Users)
    \/ op \in OnUser \cup OnKey /\ target \in Users \cap born
    \/ op \in OnAdmin /\ who = Root /\ target \in Admins \cap born

\* JwtAuthGuard: the account exists and is active when the request arrives.
Arrive(p) ==
    /\ At(p, "idle") /\ asked < MaxRequests
    /\ asked' = asked + 1
    /\ \E who \in {Root} \cup (Admins \cap rows \cap enabled),
          op \in {"create"} \cup OnUser \cup OnKey \cup OnAdmin, target \in Accounts,
          key \in Keys :
         /\ Allowed(who, op, target)
         /\ IF op \in OnKey THEN <<target, key>> \in keys ELSE key = 1
         /\ threads' = [threads EXCEPT ![p] = [Free EXCEPT !.pc = FirstPc(op), !.who = who,
                                                   !.op = op, !.target = target, !.key = key]]
    /\ UNCHANGED <<people, apiKeys, sessions, portal, faults>>

\* A call to the database fails; a transaction is rolled back.
RequestFails(p) ==
    /\ ~At(p, "idle") /\ faults < MaxFaults
    /\ faults' = faults + 1
    /\ Ends(p)
    /\ UNCHANGED <<people, apiKeys, sessions, portal, asked>>

\* Mutant: any admin manages any API user.
ManagesAny(who, u) == u \in rows
\* The parent-admin check of every managed operation.
Manages(who, u) == u \in rows /\ (who = Root \/ parent[u] = who)

\* assertManagedApiUser.
FindUser(p) ==
    LET t == threads[p] IN
    /\ At(p, "findUser")
    /\ IF Manages(t.who, t.target)
         THEN threads' = [threads EXCEPT ![p] =
                [@ EXCEPT !.version = version[t.target],
                          !.ids = IF t.op = "deleteUser" THEN {t.target} ELSE {},
                          !.pc = CASE t.op = "createKey" -> "scanKeys"
                                   [] t.op = "createSession" -> "session"
                                   [] t.op = "deleteUser" -> "readSessions"
                                   [] t.op = "revokeLinks" -> "bump"
                                   [] OTHER -> "share"]]
         ELSE Ends(p)
    /\ UNCHANGED <<people, apiKeys, sessions, portal, bounds>>

-----------------------------------------------------------------------------
(* createApiUser, createApiKeyInternal and createSession.                  *)

CheckEmail(p) ==
    /\ At(p, "email")
    /\ IF threads[p].target \in rows THEN Ends(p) ELSE Goto(p, "insert")
    /\ UNCHANGED <<people, apiKeys, sessions, portal, bounds>>

\* The address is unique and the parent admin must exist.
CanInsert(t) == t.target \notin born /\ t.who \in rows \cup {Root}

InsertUser(p) ==
    LET t == threads[p] IN
    /\ At(p, "insert")
    /\ IF CanInsert(t)
         THEN /\ rows' = rows \cup {t.target} /\ born' = born \cup {t.target}
              /\ enabled' = enabled \cup {t.target}
              /\ parent' = [parent EXCEPT ![t.target] = t.who]
              /\ IF t.target \in Users THEN Goto(p, "scanKeys") ELSE Ends(p)
         ELSE Ends(p) /\ UNCHANGED people
    /\ UNCHANGED <<apiKeys, sessions, portal, bounds>>

\* The transaction's updateMany locks the rows it sees: the keys active by then.
ScanKeys(p) ==
    /\ At(p, "scanKeys")
    /\ threads' = [threads EXCEPT ![p] =
         [@ EXCEPT !.pc = "insertKey", !.seenKeys = Of(active \ revoked, {threads[p].target})]]
    /\ UNCHANGED <<people, apiKeys, sessions, portal, bounds>>

\* Mutant: the keys there were stay active.
UnblockedKeys(t) == active
\* The keys still active when a transaction has blocked those it scanned.
Blocked(t) == active \ (t.seenKeys \ revoked)

\* A new key row; it needs its user.
InsertKey(p) ==
    LET t == threads[p] IN
    /\ At(p, "insertKey")
    /\ IF t.target \in rows
         THEN \E k \in Keys :
                /\ <<t.target, k>> \notin keys /\ \A j \in Keys : j < k => <<t.target, j>> \in keys
                /\ keys' = keys \cup {<<t.target, k>>}
                /\ active' = Blocked(t) \cup {<<t.target, k>>}
                /\ IF t.op = "create" THEN Goto(p, "session") ELSE Ends(p)
         ELSE Ends(p) /\ UNCHANGED <<keys, active>>
    /\ UNCHANGED <<people, revoked, sessions, portal, bounds>>

InsertSession(p) ==
    LET t == threads[p] IN
    /\ At(p, "session")
    /\ IF t.target \in rows
         THEN \E l \in Labels :
                /\ <<t.target, l>> \notin sessions
                /\ \A j \in Labels : j < l => <<t.target, j>> \in sessions
                /\ sessions' = sessions \cup {<<t.target, l>>}
         ELSE UNCHANGED sessions
    /\ Ends(p)
    /\ UNCHANGED <<people, apiKeys, portal, bounds>>

-----------------------------------------------------------------------------
(* revokeApiKey and setApiKeyStatus.                                       *)

KeyOf(t) == <<t.target, t.key>>

\* Only setApiKeyStatus refuses a revoked key.
FindKey(p) ==
    LET t == threads[p] IN
    /\ At(p, "findKey")
    /\ IF /\ KeyOf(t) \in keys /\ Manages(t.who, t.target)
          /\ t.op # "revokeKey" => KeyOf(t) \notin revoked
         THEN Goto(p, CASE t.op = "revokeKey"  -> "revoke"
                        [] t.op = "unblockKey" -> "scanOthers"
                        [] OTHER -> "setKey")
         ELSE Ends(p)
    /\ UNCHANGED <<people, apiKeys, sessions, portal, bounds>>

\* Mutant: a row that is gone is written all the same.
UpdatesAny(k) == TRUE
\* An update throws on a row that is gone.
Updates(k) == k \in keys

RevokeKey(p) ==
    LET k == KeyOf(threads[p]) IN
    /\ At(p, "revoke")
    /\ IF Updates(k) THEN active' = active \ {k} /\ revoked' = revoked \cup {k}
                  ELSE UNCHANGED <<active, revoked>>
    /\ Ends(p)
    /\ UNCHANGED <<people, keys, sessions, portal, bounds>>

\* The user's other keys as the transaction sees them; here blocked ones are locked too.
ScanOthers(p) ==
    LET t == threads[p] IN
    /\ At(p, "scanOthers")
    /\ threads' = [threads EXCEPT ![p] =
         [@ EXCEPT !.pc = "setKey", !.seenKeys = Of(keys, {t.target}) \ {KeyOf(t)}]]
    /\ UNCHANGED <<people, apiKeys, sessions, portal, bounds>>

\* A key revoked since findKey is activated all the same, and stays revoked.
SetKey(p) ==
    LET t == threads[p]  k == KeyOf(t) IN
    /\ At(p, "setKey")
    /\ active' = IF ~Updates(k) THEN active
                 ELSE IF t.op = "unblockKey" THEN Blocked(t) \cup {k} ELSE active \ {k}
    /\ Ends(p)
    /\ UNCHANGED <<people, keys, revoked, sessions, portal, bounds>>

-----------------------------------------------------------------------------
(* Portal links.                                                           *)

\* Mutant: the version is read and written back.
NextVersionRead(t) == t.version + 1
\* { increment: 1 }.
NextVersion(t) == version[t.target] + 1

\* revokeManagedUserPortalLinks hands out the link of the version it made.
BumpVersion(p) ==
    LET t == threads[p] IN
    /\ At(p, "bump")
    /\ IF t.target \in rows
         THEN /\ version' = [version EXCEPT ![t.target] = NextVersion(t)]
              /\ links' = links \cup {<<t.target, NextVersion(t)>>}
         ELSE UNCHANGED portal
    /\ Ends(p)
    /\ UNCHANGED <<people, apiKeys, sessions, bounds>>

\* getApiUserAccessBundle hands out the link of the version it read.
Share(p) ==
    /\ At(p, "share")
    /\ links' = links \cup {<<threads[p].target, threads[p].version>>}
    /\ Ends(p)
    /\ UNCHANGED <<people, apiKeys, sessions, version, bounds>>

-----------------------------------------------------------------------------
(* superadminSetAdminStatus, superadminDeleteAdmin and deleteUsersCascade. *)

ChildrenOf(a) == {u \in Users \cap rows : parent[u] = a}

FindAdmin(p) ==
    LET t == threads[p] IN
    /\ At(p, "findAdmin")
    /\ IF t.target \in rows
         THEN Goto(p, CASE t.op = "block" -> "scanUsers"
                        [] t.op = "deleteAdmin" -> "children"
                        [] OTHER -> "setAdmin")
         ELSE Ends(p)
    /\ UNCHANGED <<people, apiKeys, sessions, portal, bounds>>

\* The transaction's two updateMany each see what is committed when they start.
ScanUsers(p) ==
    /\ At(p, "scanUsers")
    /\ threads' = [threads EXCEPT ![p] =
         [@ EXCEPT !.pc = "scanChildKeys", !.ids = ChildrenOf(threads[p].target)]]
    /\ UNCHANGED <<people, apiKeys, sessions, portal, bounds>>

ScanChildKeys(p) ==
    /\ At(p, "scanChildKeys")
    /\ threads' = [threads EXCEPT ![p] =
         [@ EXCEPT !.pc = "setAdmin", !.seenKeys = Of(keys, ChildrenOf(threads[p].target))]]
    /\ UNCHANGED <<people, apiKeys, sessions, portal, bounds>>

\* Blocking an admin blocks the children and keys scanned; unblocking brings back the admin.
SetAdmin(p) ==
    LET t == threads[p] IN
    /\ At(p, "setAdmin")
    /\ IF t.target \notin rows THEN UNCHANGED <<enabled, active>>
       ELSE IF t.op = "block"
         THEN enabled' = enabled \ (t.ids \cup {t.target}) /\ active' = Blocked(t)
         ELSE enabled' = enabled \cup {t.target} /\ UNCHANGED active
    /\ Ends(p)
    /\ UNCHANGED <<rows, born, parent, keys, revoked, sessions, portal, bounds>>

\* superadminDeleteAdmin reads the children before the transaction.
ReadChildren(p) ==
    LET a == threads[p].target IN
    /\ At(p, "children")
    /\ threads' = [threads EXCEPT ![p] =
         [@ EXCEPT !.pc = "readSessions", !.ids = ChildrenOf(a) \cup {a}]]
    /\ UNCHANGED <<people, apiKeys, sessions, portal, bounds>>

\* deleteUsersCascade reads the sessions before the transaction too.
ReadSessions(p) ==
    /\ At(p, "readSessions")
    /\ threads' = [threads EXCEPT ![p] =
         [@ EXCEPT !.pc = "deleteKeys", !.seenSessions = Of(sessions, threads[p].ids)]]
    /\ UNCHANGED <<people, apiKeys, sessions, portal, bounds>>

DeleteKeys(p) ==
    /\ At(p, "deleteKeys")
    /\ threads' = [threads EXCEPT ![p] =
         [@ EXCEPT !.pc = "deleteUsers", !.seenKeys = Of(keys, threads[p].ids)]]
    /\ UNCHANGED <<people, apiKeys, sessions, portal, bounds>>

\* Mutant: the users go whatever still refers to them.
DeletesAll(t) == TRUE
\* users.deleteMany: a session or key the transaction has not deleted restricts it.
MayDelete(t) ==
    Of(sessions, t.ids) \subseteq t.seenSessions /\ Of(keys, t.ids) \subseteq t.seenKeys

\* Mutant: the deletions are calls of their own, not one transaction.
EachCommits(t) == TRUE
\* What the transaction deleted before the users stays deleted only if they go too.
Commits(t) == MayDelete(t)

\* The transaction commits or aborts; a child that was not read loses its parent.
DeleteUsers(p) ==
    LET t    == threads[p]
        gone == IF Commits(t) THEN Of(keys, t.ids) \cap t.seenKeys ELSE {} IN
    /\ At(p, "deleteUsers")
    /\ keys' = keys \ gone /\ active' = active \ gone /\ revoked' = revoked \ gone
    /\ sessions' = IF Commits(t) THEN sessions \ t.seenSessions ELSE sessions
    /\ IF MayDelete(t)
         THEN /\ rows' = rows \ t.ids /\ enabled' = enabled \ t.ids
              /\ parent' = [a \in Accounts |->
                              IF a \in t.ids \/ parent[a] \in t.ids THEN None ELSE parent[a]]
         ELSE UNCHANGED <<rows, enabled, parent>>
    /\ Ends(p)
    /\ UNCHANGED <<born, portal, bounds>>

-----------------------------------------------------------------------------
Step(p) ==
    \/ FindUser(p) \/ CheckEmail(p) \/ InsertUser(p) \/ ScanKeys(p) \/ InsertKey(p)
    \/ InsertSession(p) \/ FindKey(p) \/ RevokeKey(p) \/ ScanOthers(p) \/ SetKey(p)
    \/ BumpVersion(p) \/ Share(p) \/ FindAdmin(p) \/ ScanUsers(p) \/ ScanChildKeys(p)
    \/ SetAdmin(p) \/ ReadChildren(p) \/ ReadSessions(p) \/ DeleteKeys(p) \/ DeleteUsers(p)

Next == \E p \in Threads : Arrive(p) \/ Step(p) \/ RequestFails(p)

Spec == Init /\ [][Next]_vars
=============================================================================
