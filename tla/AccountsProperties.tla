------------------------- MODULE AccountsProperties -------------------------
(* What overlapping dashboard requests keep true of the accounts.            *)
EXTENDS Accounts

Pcs == {"idle", "email", "findUser", "findKey", "findAdmin", "insert", "scanKeys", "insertKey",
        "session", "revoke", "scanOthers", "setKey", "bump", "share", "scanUsers",
        "scanChildKeys", "setAdmin", "children", "readSessions", "deleteKeys", "deleteUsers"}
Ops == {"none", "create"} \cup OnUser \cup OnKey \cup OnAdmin

ThreadRecords ==
    [pc : Pcs, who : {Root} \cup Admins, op : Ops, target : Accounts \cup {None}, key : Keys,
     ids : SUBSET Accounts, seenKeys : SUBSET (Users \X Keys),
     seenSessions : SUBSET (Users \X Labels), version : Nat]

DataOK ==
    /\ rows \subseteq born /\ born \subseteq Accounts /\ enabled \subseteq rows
    /\ parent \in [Accounts -> Admins \cup {Root, None}] /\ version \in [Users -> Nat]
    /\ keys \subseteq Users \X Keys /\ active \subseteq keys /\ revoked \subseteq keys
    /\ sessions \subseteq Users \X Labels /\ links \subseteq Users \X Nat

\* Types of the variables; a key is revoked or active only while it is there, and an
\* account is active only while it is.
TypeOK == DataOK /\ threads \in [Threads -> ThreadRecords] /\ asked \in Nat /\ faults \in Nat

\* A deleted user leaves no key and no session behind, whatever was being created for it
\* while it was deleted.
NoLeftovers == \A x \in keys \cup sessions : x[1] \in rows

BeingCreated(u) == \E p \in Threads : threads[p].op = "create" /\ threads[p].target = u

\* A user has a key and a session from its creation to its deletion, unless a call failed:
\* a deletion that is refused half-way takes nothing with it.
UserComplete ==
    faults = 0 =>
        \A u \in Users \cap rows : ~BeingCreated(u) =>
            Of(keys, {u}) # {} /\ Of(sessions, {u}) # {}

ActiveKeys(u) == Of(active \ revoked, {u})

\* Requests that overlap can leave a user with several active keys (each spares what was
\* not active, or not there, when it looked), but never more than there are requests at once.
KeysBounded == \A u \in Users : Cardinality(ActiveKeys(u)) <= Cardinality(Threads)

\* A user's record, keys and sessions change only by the hand of the superadmin or of the
\* admin who manages it (nobody does when the admin was deleted meanwhile).
Account(u) == <<u \in rows, u \in enabled, parent[u], version[u],
                Of(keys, {u}), Of(active, {u}), Of(revoked, {u}), Of(sessions, {u})>>
Tenancy ==
    [][\A u \in Users : Account(u)' # Account(u) =>
         \E p \in Threads : /\ threads'[p] # threads[p]
                            /\ parent[u] = None \/ threads[p].who \in {Root, parent[u]}]_vars

\* Revoking portal links closes every link handed out before, and a closed link never
\* opens again, however revocations overlap.
Closed(l) == version[l[1]] # l[2]
RevocationHolds ==
    [][/\ \A l \in links : Closed(l) => Closed(l)'
       /\ \A p \in Threads, l \in links :
            /\ threads[p].pc = "bump" /\ threads'[p] # threads[p] /\ faults' = faults
            /\ l[1] = threads[p].target /\ l[1] \in rows
            => Closed(l)']_vars

\* The dashboard's promise when a key is unblocked: the user's other keys are blocked.
OneActiveKey == \A u \in Users : Cardinality(ActiveKeys(u)) <= 1

\* The dashboard's promise when an admin is deleted: so are all API users under it, and
\* every API user there is has somebody who manages it.
NoOrphans == \A u \in Users \cap rows : parent[u] # None
=============================================================================
