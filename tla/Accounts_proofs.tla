--------------------------- MODULE Accounts_proofs ---------------------------
(***************************************************************************)
(* Proofs about the accounts, for any number of accounts, keys, threads,   *)
(* requests and failing calls.  A request's checks and its writes are      *)
(* apart, so the invariant says what a thread may still rely on at each of *)
(* its calls although the rows have changed since.                         *)
(***************************************************************************)
EXTENDS AccountsProperties, FiniteSetTheorems, TLAPS

\* The calls of a request on one user after its checks, of the superadmin's on an admin,
\* of a deletion, and of a creation once the user is inserted.
UserPcs   == {"scanKeys", "insertKey", "session", "revoke", "scanOthers", "setKey", "bump", "share"}
AdminPcs  == {"findAdmin", "scanUsers", "scanChildKeys", "setAdmin", "children"}
DeletePcs == {"readSessions", "deleteKeys", "deleteUsers"}
MakingPcs == {"scanKeys", "insertKey", "session"}

\* The target of t is a user that t's account manages, or whose manager is gone; b are the
\* accounts there ever were and m their managers.
Manageable(t, b, m) ==
    /\ t.target \in Users \cap b
    /\ t.who = Root \/ m[t.target] \in {t.who, None}

\* What thread t relies on, with b and m as above, portal versions v, rows r and keys k.
ThreadInv(t, b, m, v, r, k) ==
    /\ t.pc # "idle" => t.target \in Accounts
    /\ t.pc \in {"email", "insert"} => t.op = "create" /\ (t.who # Root => t.target \in Users)
    /\ t.pc \in {"findUser", "findKey"} => t.target \in Users
    /\ t.pc = "findKey" => t.seenKeys = {}
    /\ t.pc \in UserPcs => Manageable(t, b, m)
    /\ t.pc \in AdminPcs => t.who = Root
    /\ t.pc \in DeletePcs => t.who = Root \/ (Manageable(t, b, m) /\ t.ids = {t.target})
    /\ t.pc \in {"insertKey", "setKey"} => t.seenKeys \subseteq {t.target} \X Keys
    /\ t.pc \in {"deleteKeys", "deleteUsers"} => \A x \in t.seenSessions : x[1] \in t.ids
    /\ t.pc = "share" => t.version <= v[t.target]
    /\ t.pc = "session" /\ t.op = "create" /\ t.target \in r => \E x \in k : x[1] = t.target

ThreadsInv == \A p \in Threads : ThreadInv(threads[p], born, parent, version, rows, keys)

\* An account that is not there has no manager.
Unmanaged == \A a \in Accounts \ rows : parent[a] = None

\* No link is ahead of its user's version.
LinksBehind == \A l \in links : l[2] <= version[l[1]]

Complete(u) == (\E x \in keys : x[1] = u) /\ (\E x \in sessions : x[1] = u)
Makes(t, u) == t.op = "create" /\ t.target = u /\ t.pc \in MakingPcs

\* While no call fails, a user is complete or the request that inserted it goes on.
Whole == faults = 0 =>
    \A u \in Users \cap rows : Complete(u) \/ \E p \in Threads : Makes(threads[p], u)

AccountsInv ==
    TypeOK /\ NoLeftovers /\ Unmanaged /\ LinksBehind /\ Whole /\ ThreadsInv

-----------------------------------------------------------------------------
(* Records of threads.                                                       *)

\* What no call of a request changes.
Same(s, t) == s.who = t.who /\ s.op = t.op /\ s.target = t.target /\ s.key = t.key

LEMMA FreeRecord == Free \in ThreadRecords
  BY AccountsAssumption DEF Free, ThreadRecords, Pcs, Ops

LEMMA PcField ==
  ASSUME NEW t \in ThreadRecords, NEW pc \in Pcs
  PROVE  LET s == [t EXCEPT !.pc = pc] IN
         /\ s \in ThreadRecords /\ s.pc = pc /\ Same(s, t) /\ s.ids = t.ids
         /\ s.seenKeys = t.seenKeys /\ s.seenSessions = t.seenSessions /\ s.version = t.version
  BY DEF ThreadRecords, Same

LEMMA IdsField ==
  ASSUME NEW t \in ThreadRecords, NEW ids \in SUBSET Accounts
  PROVE  LET s == [t EXCEPT !.ids = ids] IN
         /\ s \in ThreadRecords /\ s.ids = ids /\ Same(s, t) /\ s.pc = t.pc
         /\ s.seenKeys = t.seenKeys /\ s.seenSessions = t.seenSessions /\ s.version = t.version
  BY DEF ThreadRecords, Same

LEMMA KeysField ==
  ASSUME NEW t \in ThreadRecords, NEW ks \in SUBSET (Users \X Keys)
  PROVE  LET s == [t EXCEPT !.seenKeys = ks] IN
         /\ s \in ThreadRecords /\ s.seenKeys = ks /\ Same(s, t) /\ s.pc = t.pc
         /\ s.ids = t.ids /\ s.seenSessions = t.seenSessions /\ s.version = t.version
  BY DEF ThreadRecords, Same

LEMMA SessionsField ==
  ASSUME NEW t \in ThreadRecords, NEW ss \in SUBSET (Users \X Labels)
  PROVE  LET s == [t EXCEPT !.seenSessions = ss] IN
         /\ s \in ThreadRecords /\ s.seenSessions = ss /\ Same(s, t) /\ s.pc = t.pc
         /\ s.ids = t.ids /\ s.seenKeys = t.seenKeys /\ s.version = t.version
  BY DEF ThreadRecords, Same

LEMMA VersionField ==
  ASSUME NEW t \in ThreadRecords, NEW v \in Nat
  PROVE  LET s == [t EXCEPT !.version = v] IN
         /\ s \in ThreadRecords /\ s.version = v /\ Same(s, t) /\ s.pc = t.pc
         /\ s.ids = t.ids /\ s.seenKeys = t.seenKeys /\ s.seenSessions = t.seenSessions
  BY DEF ThreadRecords, Same

\* The record of an arriving request.
Arrived(pc, who, op, target, key) ==
    [Free EXCEPT !.pc = pc, !.who = who, !.op = op, !.target = target, !.key = key]

LEMMA ArrivedFields ==
  ASSUME NEW pc \in Pcs, NEW who \in {Root} \cup Admins, NEW op \in Ops,
         NEW target \in Accounts, NEW key \in Keys
  PROVE  LET s == Arrived(pc, who, op, target, key) IN
             /\ s \in ThreadRecords /\ s.pc = pc /\ s.who = who /\ s.op = op
             /\ s.target = target /\ s.seenKeys = {}
<1> DEFINE Rec(w, o, t, k) ==
             [pc |-> pc, who |-> w, op |-> o, target |-> t, key |-> k, ids |-> {},
              seenKeys |-> {}, seenSessions |-> {}, version |-> 0]
           s1 == [Free EXCEPT !.pc = pc]
           s2 == [s1 EXCEPT !.who = who]
           s3 == [s2 EXCEPT !.op = op]
           s4 == [s3 EXCEPT !.target = target]
           s5 == [s4 EXCEPT !.key = key]
<1>1. s1 = Rec(Root, "none", None, 1)
  BY DEF Free
<1>2. s2 = Rec(who, "none", None, 1)
  <2> HIDE DEF s1
  <2> QED
    BY <1>1
<1>3. s3 = Rec(who, op, None, 1)
  <2> HIDE DEF s2
  <2> QED
    BY <1>2
<1>4. s4 = Rec(who, op, target, 1)
  <2> HIDE DEF s3
  <2> QED
    BY <1>3
<1>5. s5 = Rec(who, op, target, key)
  <2> HIDE DEF s4
  <2> QED
    BY <1>4
<1>6. LET r == Rec(who, op, target, key) IN
      /\ r \in ThreadRecords /\ r.pc = pc /\ r.who = who /\ r.op = op
      /\ r.target = target /\ r.seenKeys = {}
  BY DEF ThreadRecords
<1>7. Arrived(pc, who, op, target, key) = s5
  BY DEF Arrived
<1> QED
  BY <1>5, <1>6, <1>7

\* The records of threads that have scanned or read something.
WithKeys(t, pc, ks)     == [t EXCEPT !.pc = pc, !.seenKeys = ks]
WithIds(t, pc, ids)     == [t EXCEPT !.pc = pc, !.ids = ids]
WithSessions(t, pc, ss) == [t EXCEPT !.pc = pc, !.seenSessions = ss]
Found(t, v, ids, pc)    == [t EXCEPT !.version = v, !.ids = ids, !.pc = pc]

LEMMA WithKeysFields ==
  ASSUME NEW t \in ThreadRecords, NEW pc \in Pcs, NEW ks \in SUBSET (Users \X Keys)
  PROVE  LET s == WithKeys(t, pc, ks) IN
         /\ s \in ThreadRecords /\ s.pc = pc /\ s.seenKeys = ks /\ Same(s, t)
         /\ s.ids = t.ids /\ s.seenSessions = t.seenSessions /\ s.version = t.version
<1> DEFINE s1 == [t EXCEPT !.pc = pc]
           s2 == [s1 EXCEPT !.seenKeys = ks]
<1>1. s1 \in ThreadRecords /\ s1.pc = pc /\ Same(s1, t)
      /\ s1.ids = t.ids /\ s1.seenSessions = t.seenSessions /\ s1.version = t.version
  BY PcField
<1>2. s2 \in ThreadRecords /\ s2.seenKeys = ks /\ Same(s2, s1) /\ s2.pc = s1.pc
      /\ s2.ids = s1.ids /\ s2.seenSessions = s1.seenSessions /\ s2.version = s1.version
  <2> HIDE DEF s1
  <2> QED
    BY <1>1, KeysField
<1>3. WithKeys(t, pc, ks) = s2
  BY DEF WithKeys
<1> HIDE DEF s1, s2
<1> QED
  BY <1>1, <1>2, <1>3 DEF Same

LEMMA WithIdsFields ==
  ASSUME NEW t \in ThreadRecords, NEW pc \in Pcs, NEW ids \in SUBSET Accounts
  PROVE  LET s == WithIds(t, pc, ids) IN
         /\ s \in ThreadRecords /\ s.pc = pc /\ s.ids = ids /\ Same(s, t)
         /\ s.seenKeys = t.seenKeys
<1> DEFINE s1 == [t EXCEPT !.pc = pc]
           s2 == [s1 EXCEPT !.ids = ids]
<1>1. s1 \in ThreadRecords /\ s1.pc = pc /\ Same(s1, t) /\ s1.seenKeys = t.seenKeys
  BY PcField
<1>2. s2 \in ThreadRecords /\ s2.ids = ids /\ Same(s2, s1) /\ s2.pc = s1.pc
      /\ s2.seenKeys = s1.seenKeys
  <2> HIDE DEF s1
  <2> QED
    BY <1>1, IdsField
<1>3. WithIds(t, pc, ids) = s2
  BY DEF WithIds
<1> HIDE DEF s1, s2
<1> QED
  BY <1>1, <1>2, <1>3 DEF Same

LEMMA WithSessionsFields ==
  ASSUME NEW t \in ThreadRecords, NEW pc \in Pcs, NEW ss \in SUBSET (Users \X Labels)
  PROVE  LET s == WithSessions(t, pc, ss) IN
         /\ s \in ThreadRecords /\ s.pc = pc /\ s.seenSessions = ss /\ Same(s, t)
         /\ s.ids = t.ids
<1> DEFINE s1 == [t EXCEPT !.pc = pc]
           s2 == [s1 EXCEPT !.seenSessions = ss]
<1>1. s1 \in ThreadRecords /\ s1.pc = pc /\ Same(s1, t) /\ s1.ids = t.ids
  BY PcField
<1>2. s2 \in ThreadRecords /\ s2.seenSessions = ss /\ Same(s2, s1) /\ s2.pc = s1.pc
      /\ s2.ids = s1.ids
  <2> HIDE DEF s1
  <2> QED
    BY <1>1, SessionsField
<1>3. WithSessions(t, pc, ss) = s2
  BY DEF WithSessions
<1> HIDE DEF s1, s2
<1> QED
  BY <1>1, <1>2, <1>3 DEF Same

LEMMA FoundFields ==
  ASSUME NEW t \in ThreadRecords, NEW v \in Nat, NEW ids \in SUBSET Accounts, NEW pc \in Pcs
  PROVE  LET s == Found(t, v, ids, pc) IN
         /\ s \in ThreadRecords /\ s.version = v /\ s.ids = ids /\ s.pc = pc /\ Same(s, t)
<1> DEFINE s1 == [t EXCEPT !.version = v]
           s2 == [s1 EXCEPT !.ids = ids]
           s3 == [s2 EXCEPT !.pc = pc]
<1>1. s1 \in ThreadRecords /\ s1.version = v /\ Same(s1, t)
  BY VersionField
<1>2. s2 \in ThreadRecords /\ s2.ids = ids /\ Same(s2, s1) /\ s2.version = s1.version
  <2> HIDE DEF s1
  <2> QED
    BY <1>1, IdsField
<1>3. /\ s3 \in ThreadRecords /\ s3.pc = pc /\ Same(s3, s2)
      /\ s3.version = s2.version /\ s3.ids = s2.ids
  <2> HIDE DEF s2
  <2> QED
    BY <1>2, PcField
<1>4. Found(t, v, ids, pc) = s3
  BY DEF Found
<1> HIDE DEF s1, s2, s3
<1> QED
  BY <1>1, <1>2, <1>3, <1>4 DEF Same

-----------------------------------------------------------------------------
(* One thread's step, seen from the others.                                  *)

\* Thread p is the only one that changes.
OnlyThread(p) == threads' = [threads EXCEPT ![p] = threads'[p]]

\* How the data may change under the threads: nobody gets another manager, versions only
\* grow, and a key goes only with its user, who does not come back.
Stable ==
    /\ born \subseteq born'
    /\ \A a \in born : parent'[a] \in {parent[a], None}
    /\ \A u \in Users : version[u] <= version'[u]
    /\ rows' \cap born \subseteq rows
    /\ \A x \in keys : x \in keys' \/ x[1] \notin rows'

LEMMA GotoThread ==
  ASSUME threads \in [Threads -> ThreadRecords], NEW p \in Threads, NEW pc \in Pcs, Goto(p, pc)
  PROVE  /\ OnlyThread(p) /\ threads'[p] \in ThreadRecords /\ threads'[p].pc = pc
         /\ Same(threads'[p], threads[p]) /\ threads'[p].ids = threads[p].ids
         /\ threads'[p].seenKeys = threads[p].seenKeys
         /\ threads'[p].seenSessions = threads[p].seenSessions
         /\ threads'[p].version = threads[p].version
<1>1. /\ threads[p] \in ThreadRecords /\ OnlyThread(p)
      /\ threads'[p] = [threads[p] EXCEPT !.pc = pc]
  BY DEF Goto, OnlyThread
<1> QED
  BY <1>1, PcField

LEMMA EndsThread ==
  ASSUME threads \in [Threads -> ThreadRecords], NEW p \in Threads, Ends(p)
  PROVE  OnlyThread(p) /\ threads'[p] = Free /\ threads'[p] \in ThreadRecords
  BY FreeRecord DEF Ends, OnlyThread

\* A free thread relies on nothing.
LEMMA FreeInv == \A b, m, v, r, k : ThreadInv(Free, b, m, v, r, k)
  BY DEF ThreadInv, Free, UserPcs, AdminPcs, DeletePcs

\* What a thread relies on outlives the steps of others.
LEMMA StableThread ==
  ASSUME DataOK, DataOK', Stable
  PROVE  \A t \in ThreadRecords : ThreadInv(t, born, parent, version, rows, keys)
           => ThreadInv(t, born', parent', version', rows', keys')
<1> SUFFICES ASSUME NEW t \in ThreadRecords, ThreadInv(t, born, parent, version, rows, keys)
             PROVE  ThreadInv(t, born', parent', version', rows', keys')
  OBVIOUS
<1>1. Manageable(t, born, parent) => Manageable(t, born', parent')
  BY DEF Manageable, Stable
<1>2. t.pc = "session" => t.target \in Users \cap born
  BY DEF ThreadInv, UserPcs, Manageable
<1>3. t.pc = "session" /\ t.op = "create" /\ t.target \in rows' =>
        \E x \in keys' : x[1] = t.target
  BY <1>2 DEF ThreadInv, Stable
<1>4. t.pc = "share" => t.version <= version'[t.target]
  <2> SUFFICES ASSUME t.pc = "share" PROVE t.version <= version'[t.target]
    OBVIOUS
  <2>1. t.target \in Users
    BY DEF ThreadInv, UserPcs, Manageable
  <2>2. /\ t.version \in Nat /\ version[t.target] \in Nat /\ version'[t.target] \in Nat
        /\ t.version <= version[t.target] /\ version[t.target] <= version'[t.target]
    BY <2>1 DEF ThreadInv, Stable, DataOK, ThreadRecords
  <2> QED
    BY <2>2
<1> QED
  BY <1>1, <1>3, <1>4 DEF ThreadInv

LEMMA ThreadsStep ==
  ASSUME DataOK, DataOK', Stable, ThreadsInv, threads \in [Threads -> ThreadRecords],
         NEW p \in Threads, OnlyThread(p), threads'[p] \in ThreadRecords,
         ThreadInv(threads'[p], born', parent', version', rows', keys')
  PROVE  threads' \in [Threads -> ThreadRecords] /\ ThreadsInv'
<1>1. threads' \in [Threads -> ThreadRecords]
  BY DEF OnlyThread
<1>2. ASSUME NEW q \in Threads
      PROVE  ThreadInv(threads'[q], born', parent', version', rows', keys')
  <2>1. CASE q = p
    BY <2>1
  <2>2. CASE q # p
    <3>1. threads'[q] = threads[q]
      BY <2>2 DEF OnlyThread
    <3>2. threads[q] \in ThreadRecords /\ ThreadInv(threads[q], born, parent, version, rows, keys)
      BY DEF ThreadsInv
    <3> QED
      BY <3>1, <3>2, StableThread
  <2> QED
    BY <2>1, <2>2
<1> QED
  BY <1>1, <1>2 DEF ThreadsInv

\* A user stays complete or being made if the step of p sees to its own.
LEMMA WholeStep ==
  ASSUME Whole, NEW p \in Threads, OnlyThread(p), threads \in [Threads -> ThreadRecords],
         faults' = faults,
         \A u \in Users \cap rows' :
            /\ u \in rows /\ Complete(u) => Complete(u)'
            /\ u \notin rows => Makes(threads'[p], u) \/ Complete(u)'
            /\ u \in rows /\ Makes(threads[p], u) => Makes(threads'[p], u) \/ Complete(u)'
  PROVE  Whole'
<1> SUFFICES ASSUME faults = 0, NEW u \in Users \cap rows'
             PROVE  Complete(u)' \/ \E q \in Threads : Makes(threads'[q], u)
  BY DEF Whole, Makes
<1>1. CASE Complete(u)' \/ Makes(threads'[p], u)
  BY <1>1
<1>2. CASE u \in rows /\ ~Complete(u) /\ ~Makes(threads[p], u)
  <2>1. PICK q \in Threads : Makes(threads[q], u)
    BY <1>2 DEF Whole
  <2>2. q # p /\ threads'[q] = threads[q]
    BY <1>2, <2>1 DEF OnlyThread
  <2> QED
    BY <2>1, <2>2
<1> QED
  BY <1>1, <1>2

\* A call that changes nothing but its own thread.
LEMMA ReadStep ==
  ASSUME AccountsInv, NEW p \in Threads, UNCHANGED <<people, apiKeys, sessions, portal>>,
         asked' \in Nat, faults' \in Nat, OnlyThread(p), threads'[p] \in ThreadRecords,
         ThreadInv(threads'[p], born, parent, version, rows, keys),
         \/ faults' # 0
         \/ faults' = faults /\ (threads[p].pc \in MakingPcs =>
              Same(threads'[p], threads[p]) /\ threads'[p].pc \in MakingPcs)
  PROVE  AccountsInv'
<1>1. /\ rows' = rows /\ born' = born /\ parent' = parent /\ version' = version
      /\ keys' = keys /\ sessions' = sessions /\ links' = links
      /\ enabled' = enabled /\ active' = active /\ revoked' = revoked
  BY DEF people, apiKeys, portal
<1>2. DataOK /\ DataOK' /\ threads \in [Threads -> ThreadRecords] /\ ThreadsInv
  BY <1>1 DEF AccountsInv, TypeOK, DataOK
<1>3. Stable
  BY <1>1, <1>2 DEF Stable, DataOK
<1>4. threads' \in [Threads -> ThreadRecords] /\ ThreadsInv'
  BY <1>1, <1>2, <1>3, ThreadsStep
<1>5. Whole'
  <2>1. CASE faults' # 0
    BY <2>1 DEF Whole
  <2>2. CASE faults' = faults /\ (threads[p].pc \in MakingPcs =>
               Same(threads'[p], threads[p]) /\ threads'[p].pc \in MakingPcs)
    <3>1. \A u \in Users : Makes(threads[p], u) => Makes(threads'[p], u)
      BY <2>2 DEF Makes, Same
    <3>2. \A u : Complete(u)' <=> Complete(u)
      BY <1>1 DEF Complete
    <3> QED
      BY <1>1, <1>2, <2>2, <3>1, <3>2, WholeStep DEF AccountsInv
  <2> QED
    BY <2>1, <2>2
<1>6. NoLeftovers' /\ Unmanaged' /\ LinksBehind'
  BY <1>1 DEF AccountsInv, NoLeftovers, Unmanaged, LinksBehind
<1> QED
  BY <1>2, <1>4, <1>5, <1>6 DEF AccountsInv, TypeOK

-----------------------------------------------------------------------------
(* The calls that only read.                                                 *)

LEMMA CurrentThread ==
  ASSUME AccountsInv, NEW p \in Threads
  PROVE  /\ threads \in [Threads -> ThreadRecords] /\ threads[p] \in ThreadRecords
         /\ ThreadInv(threads[p], born, parent, version, rows, keys)
         /\ asked \in Nat /\ faults \in Nat /\ DataOK
  BY DEF AccountsInv, TypeOK, ThreadsInv

LEMMA NewThread ==
  ASSUME threads \in [Threads -> ThreadRecords], NEW p \in Threads, NEW STATE t,
         threads' = [threads EXCEPT ![p] = t]
  PROVE  OnlyThread(p) /\ threads'[p] = t
  BY DEF OnlyThread

\* What a request starts with fits what its first call relies on.
LEMMA FirstInv ==
  ASSUME NEW op \in {"create"} \cup OnUser \cup OnKey \cup OnAdmin, NEW who, NEW target \in Accounts,
         Allowed(who, op, target), NEW t, t.pc = FirstPc(op), t.op = op, t.who = who,
         t.target = target, t.seenKeys = {}
  PROVE  /\ FirstPc(op) \in Pcs /\ op \in Ops
         /\ \A b, m, v, r, k : ThreadInv(t, b, m, v, r, k)
<1>1. CASE op = "create"
  <2>1. FirstPc(op) = "email" /\ (who # Root => target \in Users)
    BY <1>1 DEF FirstPc, Allowed, OnUser, OnKey, OnAdmin
  <2> QED
    BY <1>1, <2>1 DEF ThreadInv, UserPcs, AdminPcs, DeletePcs, Pcs, Ops
<1>2. CASE op \in OnUser
  <2>1. FirstPc(op) = "findUser" /\ target \in Users
    BY <1>2 DEF FirstPc, Allowed, OnUser, OnKey, OnAdmin
  <2> QED
    BY <1>2, <2>1 DEF ThreadInv, UserPcs, AdminPcs, DeletePcs, Pcs, Ops
<1>3. CASE op \in OnKey
  <2>1. FirstPc(op) = "findKey" /\ target \in Users
    BY <1>3 DEF FirstPc, Allowed, OnUser, OnKey, OnAdmin
  <2> QED
    BY <1>3, <2>1 DEF ThreadInv, UserPcs, AdminPcs, DeletePcs, Pcs, Ops
<1>4. CASE op \in OnAdmin
  <2>1. FirstPc(op) = "findAdmin" /\ who = Root
    BY <1>4 DEF FirstPc, Allowed, OnUser, OnKey, OnAdmin
  <2> QED
    BY <1>4, <2>1 DEF ThreadInv, UserPcs, AdminPcs, DeletePcs, Pcs, Ops
<1> QED
  BY <1>1, <1>2, <1>3, <1>4

LEMMA ArriveInv == ASSUME AccountsInv, NEW p \in Threads, Arrive(p) PROVE AccountsInv'
<1>1. PICK who \in {Root} \cup (Admins \cap rows \cap enabled),
           op \in {"create"} \cup OnUser \cup OnKey \cup OnAdmin,
           target \in Accounts, key \in Keys :
        /\ Allowed(who, op, target)
        /\ threads' = [threads EXCEPT ![p] = [Free EXCEPT !.pc = FirstPc(op), !.who = who,
                                                 !.op = op, !.target = target, !.key = key]]
  BY DEF Arrive
<1>2. /\ OnlyThread(p)
      /\ threads'[p] = [Free EXCEPT !.pc = FirstPc(op), !.who = who,
                                    !.op = op, !.target = target, !.key = key]
  BY <1>1, CurrentThread DEF OnlyThread
<1>3. FirstPc(op) \in Pcs /\ op \in Ops
  <2> DEFINE t == [pc |-> FirstPc(op), op |-> op, who |-> who, target |-> target, seenKeys |-> {}]
  <2>1. t.pc = FirstPc(op) /\ t.op = op /\ t.who = who /\ t.target = target /\ t.seenKeys = {}
    OBVIOUS
  <2> HIDE DEF t
  <2> QED
    BY <1>1, <2>1, FirstInv
<1>4. /\ threads'[p] \in ThreadRecords /\ threads'[p].pc = FirstPc(op) /\ threads'[p].who = who
      /\ threads'[p].op = op /\ threads'[p].target = target /\ threads'[p].seenKeys = {}
  <2>1. who \in {Root} \cup Admins
    OBVIOUS
  <2>2. threads'[p] = Arrived(FirstPc(op), who, op, target, key)
    BY <1>2 DEF Arrived
  <2> QED
    BY <1>3, <2>1, <2>2, ArrivedFields
<1>5. ThreadInv(threads'[p], born, parent, version, rows, keys)
  BY <1>1, <1>4, FirstInv
<1>6. asked' \in Nat /\ faults' = faults /\ faults' \in Nat /\ threads[p].pc \notin MakingPcs
      /\ UNCHANGED <<people, apiKeys, sessions, portal>>
  BY CurrentThread DEF Arrive, At, MakingPcs
<1> QED
  BY <1>2, <1>4, <1>5, <1>6, ReadStep

LEMMA FailsInv == ASSUME AccountsInv, NEW p \in Threads, RequestFails(p) PROVE AccountsInv'
<1>1. /\ faults' \in Nat /\ faults' # 0 /\ asked' \in Nat /\ Ends(p)
      /\ UNCHANGED <<people, apiKeys, sessions, portal>>
  BY CurrentThread DEF RequestFails
<1>2. OnlyThread(p) /\ threads'[p] \in ThreadRecords /\ threads'[p] = Free
  BY <1>1, CurrentThread, EndsThread
<1> QED
  BY <1>1, <1>2, FreeInv, ReadStep

\* A call that only reads and ends its request, or moves it to a call it may rely on.
LEMMA ReadEnds ==
  ASSUME AccountsInv, NEW p \in Threads, Ends(p), threads[p].pc \notin MakingPcs,
         UNCHANGED <<people, apiKeys, sessions, portal, bounds>>
  PROVE  AccountsInv'
<1>1. OnlyThread(p) /\ threads'[p] \in ThreadRecords /\ threads'[p] = Free
  BY CurrentThread, EndsThread
<1>2. asked' \in Nat /\ faults' \in Nat /\ faults' = faults
  BY CurrentThread DEF bounds
<1> QED
  BY <1>1, <1>2, FreeInv, ReadStep

LEMMA ReadMoves ==
  ASSUME AccountsInv, NEW p \in Threads, NEW pc \in Pcs, Goto(p, pc),
         UNCHANGED <<people, apiKeys, sessions, portal, bounds>>,
         threads[p].pc \notin MakingPcs,
         ThreadInv(threads'[p], born, parent, version, rows, keys)
  PROVE  AccountsInv'
<1>1. OnlyThread(p) /\ threads'[p] \in ThreadRecords
  BY CurrentThread, GotoThread
<1>2. asked' \in Nat /\ faults' \in Nat /\ faults' = faults
  BY CurrentThread DEF bounds
<1> QED
  BY <1>1, <1>2, ReadStep

LEMMA CheckEmailInv == ASSUME AccountsInv, NEW p \in Threads, CheckEmail(p) PROVE AccountsInv'
<1>1. threads[p].pc = "email" /\ UNCHANGED <<people, apiKeys, sessions, portal, bounds>>
  BY DEF CheckEmail, At
<1>2. CASE Ends(p)
  BY <1>1, <1>2, ReadEnds DEF MakingPcs
<1>3. CASE Goto(p, "insert")
  <2>1. /\ threads'[p].pc = "insert" /\ Same(threads'[p], threads[p])
    BY <1>3, CurrentThread, GotoThread DEF Pcs
  <2>2. ThreadInv(threads'[p], born, parent, version, rows, keys)
    BY <1>1, <2>1, CurrentThread DEF ThreadInv, Same, UserPcs, AdminPcs, DeletePcs
  <2> QED
    BY <1>1, <1>3, <2>2, ReadMoves DEF Pcs, MakingPcs
<1> QED
  BY <1>2, <1>3 DEF CheckEmail

LEMMA ScanKeysInv == ASSUME AccountsInv, NEW p \in Threads, ScanKeys(p) PROVE AccountsInv'
<1> DEFINE ks == Of(active \ revoked, {threads[p].target})
<1>1. /\ threads[p].pc = "scanKeys" /\ UNCHANGED <<people, apiKeys, sessions, portal, bounds>>
      /\ threads' = [threads EXCEPT ![p] = WithKeys(threads[p], "insertKey", ks)]
  BY DEF ScanKeys, At, WithKeys
<1>2. OnlyThread(p) /\ threads'[p] = WithKeys(threads[p], "insertKey", ks)
  BY <1>1, CurrentThread DEF OnlyThread
<1>3. ks \in SUBSET (Users \X Keys) /\ ks \subseteq {threads[p].target} \X Keys
  BY CurrentThread DEF DataOK, Of
<1>4. /\ threads'[p] \in ThreadRecords /\ threads'[p].pc = "insertKey" /\ threads'[p].seenKeys = ks
      /\ Same(threads'[p], threads[p])
  <2> HIDE DEF ks
  <2> QED
    BY <1>2, <1>3, CurrentThread, WithKeysFields DEF Pcs
<1>5. ThreadInv(threads'[p], born, parent, version, rows, keys)
  <2> HIDE DEF ks
  <2> QED
    BY <1>1, <1>3, <1>4, CurrentThread
       DEF ThreadInv, Manageable, Same, UserPcs, AdminPcs, DeletePcs
<1>6. asked' \in Nat /\ faults' \in Nat /\ faults' = faults
  BY <1>1, CurrentThread DEF bounds
<1> QED
  BY <1>1, <1>2, <1>4, <1>5, <1>6, ReadStep DEF MakingPcs

LEMMA FindUserInv == ASSUME AccountsInv, NEW p \in Threads, FindUser(p) PROVE AccountsInv'
<1> DEFINE t == threads[p]
<1>1. t.pc = "findUser" /\ UNCHANGED <<people, apiKeys, sessions, portal, bounds>>
  BY DEF FindUser, At
<1>2. CASE Ends(p)
  BY <1>1, <1>2, ReadEnds DEF MakingPcs
<1>3. CASE ~Ends(p)
  <2> DEFINE ids == IF t.op = "deleteUser" THEN {t.target} ELSE {}
             pc  == CASE t.op = "createKey" -> "scanKeys"
                      [] t.op = "createSession" -> "session"
                      [] t.op = "deleteUser" -> "readSessions"
                      [] t.op = "revokeLinks" -> "bump"
                      [] OTHER -> "share"
             s   == Found(t, version[t.target], ids, pc)
  <2>1. Manages(t.who, t.target) /\ threads' = [threads EXCEPT ![p] = s]
    BY <1>3 DEF FindUser, Found
  <2>2. OnlyThread(p) /\ threads'[p] = s
    BY <2>1, CurrentThread DEF OnlyThread
  <2>3. /\ t \in ThreadRecords /\ t.target \in Users /\ t.target \in Accounts
        /\ version[t.target] \in Nat /\ Manageable(t, born, parent)
    BY <1>1, <2>1, CurrentThread DEF ThreadInv, DataOK, Manages, Manageable, Accounts
  <2>4. ids \in SUBSET Accounts /\ pc \in Pcs
    BY <2>3 DEF Pcs
  <2>5. /\ pc \in {"scanKeys", "session", "readSessions", "bump", "share"}
        /\ pc = "session" => t.op = "createSession"
        /\ pc = "readSessions" => ids = {t.target}
    OBVIOUS
  <2> HIDE DEF ids, pc
  <2>6. /\ s \in ThreadRecords /\ s.version = version[t.target] /\ s.ids = ids /\ s.pc = pc
        /\ Same(s, t)
    BY <2>3, <2>4, FoundFields
  <2> HIDE DEF s
  <2>7. Manageable(s, born, parent) /\ s.target \in Accounts /\ s.version <= version[s.target]
    BY <2>3, <2>6 DEF Manageable, Same
  <2>8. ThreadInv(s, born, parent, version, rows, keys)
    BY <2>5, <2>6, <2>7 DEF ThreadInv, Manageable, Same, UserPcs, AdminPcs, DeletePcs
  <2>9. asked' \in Nat /\ faults' \in Nat /\ faults' = faults
    BY <1>1, CurrentThread DEF bounds
  <2> QED
    BY <1>1, <2>2, <2>6, <2>8, <2>9, ReadStep DEF MakingPcs
<1> QED
  BY <1>2, <1>3

LEMMA FindKeyInv == ASSUME AccountsInv, NEW p \in Threads, FindKey(p) PROVE AccountsInv'
<1> DEFINE t == threads[p]
<1>1. t.pc = "findKey" /\ UNCHANGED <<people, apiKeys, sessions, portal, bounds>>
  BY DEF FindKey, At
<1>2. CASE Ends(p)
  BY <1>1, <1>2, ReadEnds DEF MakingPcs
<1>3. CASE ~Ends(p)
  <2> DEFINE pc == CASE t.op = "revokeKey"  -> "revoke"
                     [] t.op = "unblockKey" -> "scanOthers"
                     [] OTHER -> "setKey"
  <2>1. Manages(t.who, t.target) /\ Goto(p, pc)
    BY <1>3 DEF FindKey
  <2>2. pc \in {"revoke", "scanOthers", "setKey"} /\ pc \in Pcs
    BY DEF Pcs
  <2> HIDE DEF pc
  <2>3. threads'[p].pc = pc /\ Same(threads'[p], t) /\ threads'[p].seenKeys = {}
    BY <1>1, <2>1, <2>2, CurrentThread, GotoThread DEF ThreadInv
  <2>4. Manageable(threads'[p], born, parent) /\ threads'[p].target \in Accounts
    BY <1>1, <2>1, <2>3, CurrentThread DEF ThreadInv, DataOK, Manages, Manageable, Same, Accounts
  <2>5. ThreadInv(threads'[p], born, parent, version, rows, keys)
    BY <2>2, <2>3, <2>4 DEF ThreadInv, UserPcs, AdminPcs, DeletePcs
  <2> QED
    BY <1>1, <2>1, <2>2, <2>5, ReadMoves DEF MakingPcs
<1> QED
  BY <1>2, <1>3

LEMMA ScanOthersInv == ASSUME AccountsInv, NEW p \in Threads, ScanOthers(p) PROVE AccountsInv'
<1> DEFINE ks == Of(keys, {threads[p].target}) \ {KeyOf(threads[p])}
<1>1. /\ threads[p].pc = "scanOthers" /\ UNCHANGED <<people, apiKeys, sessions, portal, bounds>>
      /\ threads' = [threads EXCEPT ![p] = WithKeys(threads[p], "setKey", ks)]
  BY DEF ScanOthers, At, WithKeys
<1>2. OnlyThread(p) /\ threads'[p] = WithKeys(threads[p], "setKey", ks)
  BY <1>1, CurrentThread DEF OnlyThread
<1>3. ks \in SUBSET (Users \X Keys) /\ ks \subseteq {threads[p].target} \X Keys
  BY <1>1, CurrentThread DEF DataOK, Of
<1>4. /\ threads'[p] \in ThreadRecords /\ threads'[p].pc = "setKey"
      /\ threads'[p].seenKeys = ks /\ Same(threads'[p], threads[p])
  <2> HIDE DEF ks
  <2> QED
    BY <1>2, <1>3, CurrentThread, WithKeysFields DEF Pcs
<1>5. ThreadInv(threads'[p], born, parent, version, rows, keys)
  <2> HIDE DEF ks
  <2> QED
    BY <1>1, <1>3, <1>4, CurrentThread
       DEF ThreadInv, Manageable, Same, UserPcs, AdminPcs, DeletePcs
<1>6. asked' \in Nat /\ faults' \in Nat /\ faults' = faults
  BY <1>1, CurrentThread DEF bounds
<1> QED
  BY <1>1, <1>2, <1>4, <1>5, <1>6, ReadStep DEF MakingPcs

LEMMA FindAdminInv == ASSUME AccountsInv, NEW p \in Threads, FindAdmin(p) PROVE AccountsInv'
<1> DEFINE t == threads[p]
<1>1. t.pc = "findAdmin" /\ UNCHANGED <<people, apiKeys, sessions, portal, bounds>>
  BY DEF FindAdmin, At
<1>2. CASE Ends(p)
  BY <1>1, <1>2, ReadEnds DEF MakingPcs
<1>3. CASE ~Ends(p)
  <2> DEFINE pc == CASE t.op = "block" -> "scanUsers"
                     [] t.op = "deleteAdmin" -> "children"
                     [] OTHER -> "setAdmin"
  <2>1. Goto(p, pc)
    BY <1>3 DEF FindAdmin
  <2>2. pc \in {"scanUsers", "children", "setAdmin"} /\ pc \in Pcs
    BY DEF Pcs
  <2> HIDE DEF pc
  <2>3. threads'[p].pc = pc /\ Same(threads'[p], t)
    BY <2>1, <2>2, CurrentThread, GotoThread
  <2>4. ThreadInv(threads'[p], born, parent, version, rows, keys)
    BY <1>1, <2>2, <2>3, CurrentThread DEF ThreadInv, Same, UserPcs, AdminPcs, DeletePcs
  <2> QED
    BY <1>1, <2>1, <2>2, <2>4, ReadMoves DEF MakingPcs
<1> QED
  BY <1>2, <1>3

LEMMA ScanUsersInv == ASSUME AccountsInv, NEW p \in Threads, ScanUsers(p) PROVE AccountsInv'
<1> DEFINE ids == ChildrenOf(threads[p].target)
<1>1. /\ threads[p].pc = "scanUsers" /\ UNCHANGED <<people, apiKeys, sessions, portal, bounds>>
      /\ threads' = [threads EXCEPT ![p] = WithIds(threads[p], "scanChildKeys", ids)]
  BY DEF ScanUsers, At, WithIds
<1>2. OnlyThread(p) /\ threads'[p] = WithIds(threads[p], "scanChildKeys", ids)
  BY <1>1, CurrentThread DEF OnlyThread
<1>3. ids \in SUBSET Accounts
  BY <1>1, CurrentThread DEF ChildrenOf, Accounts
<1>4. /\ threads'[p] \in ThreadRecords /\ threads'[p].pc = "scanChildKeys"
      /\ threads'[p].ids = ids /\ Same(threads'[p], threads[p])
  <2> HIDE DEF ids
  <2> QED
    BY <1>2, <1>3, CurrentThread, WithIdsFields DEF Pcs
<1>5. ThreadInv(threads'[p], born, parent, version, rows, keys)
  <2> HIDE DEF ids
  <2> QED
    BY <1>1, <1>3, <1>4, CurrentThread
       DEF ThreadInv, Manageable, Same, UserPcs, AdminPcs, DeletePcs
<1>6. asked' \in Nat /\ faults' \in Nat /\ faults' = faults
  BY <1>1, CurrentThread DEF bounds
<1> QED
  BY <1>1, <1>2, <1>4, <1>5, <1>6, ReadStep DEF MakingPcs

LEMMA ScanChildKeysInv == ASSUME AccountsInv, NEW p \in Threads, ScanChildKeys(p) PROVE AccountsInv'
<1> DEFINE ks == Of(keys, ChildrenOf(threads[p].target))
<1>1. /\ threads[p].pc = "scanChildKeys" /\ UNCHANGED <<people, apiKeys, sessions, portal, bounds>>
      /\ threads' = [threads EXCEPT ![p] = WithKeys(threads[p], "setAdmin", ks)]
  BY DEF ScanChildKeys, At, WithKeys
<1>2. OnlyThread(p) /\ threads'[p] = WithKeys(threads[p], "setAdmin", ks)
  BY <1>1, CurrentThread DEF OnlyThread
<1>3. ks \in SUBSET (Users \X Keys)
  BY <1>1, CurrentThread DEF DataOK, Of
<1>4. /\ threads'[p] \in ThreadRecords /\ threads'[p].pc = "setAdmin"
      /\ threads'[p].seenKeys = ks /\ Same(threads'[p], threads[p])
  <2> HIDE DEF ks
  <2> QED
    BY <1>2, <1>3, CurrentThread, WithKeysFields DEF Pcs
<1>5. ThreadInv(threads'[p], born, parent, version, rows, keys)
  <2> HIDE DEF ks
  <2> QED
    BY <1>1, <1>3, <1>4, CurrentThread
       DEF ThreadInv, Manageable, Same, UserPcs, AdminPcs, DeletePcs
<1>6. asked' \in Nat /\ faults' \in Nat /\ faults' = faults
  BY <1>1, CurrentThread DEF bounds
<1> QED
  BY <1>1, <1>2, <1>4, <1>5, <1>6, ReadStep DEF MakingPcs

LEMMA ReadChildrenInv == ASSUME AccountsInv, NEW p \in Threads, ReadChildren(p) PROVE AccountsInv'
<1> DEFINE ids == ChildrenOf(threads[p].target) \cup {threads[p].target}
<1>1. /\ threads[p].pc = "children" /\ UNCHANGED <<people, apiKeys, sessions, portal, bounds>>
      /\ threads' = [threads EXCEPT ![p] = WithIds(threads[p], "readSessions", ids)]
  BY DEF ReadChildren, At, WithIds
<1>2. OnlyThread(p) /\ threads'[p] = WithIds(threads[p], "readSessions", ids)
  BY <1>1, CurrentThread DEF OnlyThread
<1>3. ids \in SUBSET Accounts
  BY <1>1, CurrentThread DEF ThreadInv, ChildrenOf, Accounts
<1>4. /\ threads'[p] \in ThreadRecords /\ threads'[p].pc = "readSessions"
      /\ threads'[p].ids = ids /\ Same(threads'[p], threads[p])
  <2> HIDE DEF ids
  <2> QED
    BY <1>2, <1>3, CurrentThread, WithIdsFields DEF Pcs
<1>5. ThreadInv(threads'[p], born, parent, version, rows, keys)
  <2> HIDE DEF ids
  <2> QED
    BY <1>1, <1>3, <1>4, CurrentThread
       DEF ThreadInv, Manageable, Same, UserPcs, AdminPcs, DeletePcs
<1>6. asked' \in Nat /\ faults' \in Nat /\ faults' = faults
  BY <1>1, CurrentThread DEF bounds
<1> QED
  BY <1>1, <1>2, <1>4, <1>5, <1>6, ReadStep DEF MakingPcs

LEMMA ReadSessionsInv == ASSUME AccountsInv, NEW p \in Threads, ReadSessions(p) PROVE AccountsInv'
<1> DEFINE ss == Of(sessions, threads[p].ids)
<1>1. /\ threads[p].pc = "readSessions" /\ UNCHANGED <<people, apiKeys, sessions, portal, bounds>>
      /\ threads' = [threads EXCEPT ![p] = WithSessions(threads[p], "deleteKeys", ss)]
  BY DEF ReadSessions, At, WithSessions
<1>2. OnlyThread(p) /\ threads'[p] = WithSessions(threads[p], "deleteKeys", ss)
  BY <1>1, CurrentThread DEF OnlyThread
<1>3. ss \in SUBSET (Users \X Labels) /\ \A x \in ss : x[1] \in threads[p].ids
  BY <1>1, CurrentThread DEF DataOK, Of
<1>4. /\ threads'[p] \in ThreadRecords /\ threads'[p].pc = "deleteKeys"
      /\ threads'[p].seenSessions = ss /\ Same(threads'[p], threads[p])
      /\ threads'[p].ids = threads[p].ids
  <2> HIDE DEF ss
  <2> QED
    BY <1>2, <1>3, CurrentThread, WithSessionsFields DEF Pcs
<1>5. ThreadInv(threads'[p], born, parent, version, rows, keys)
  <2> HIDE DEF ss
  <2> QED
    BY <1>1, <1>3, <1>4, CurrentThread
       DEF ThreadInv, Manageable, Same, UserPcs, AdminPcs, DeletePcs
<1>6. asked' \in Nat /\ faults' \in Nat /\ faults' = faults
  BY <1>1, CurrentThread DEF bounds
<1> QED
  BY <1>1, <1>2, <1>4, <1>5, <1>6, ReadStep DEF MakingPcs

LEMMA DeleteKeysInv == ASSUME AccountsInv, NEW p \in Threads, DeleteKeys(p) PROVE AccountsInv'
<1> DEFINE ks == Of(keys, threads[p].ids)
<1>1. /\ threads[p].pc = "deleteKeys" /\ UNCHANGED <<people, apiKeys, sessions, portal, bounds>>
      /\ threads' = [threads EXCEPT ![p] = WithKeys(threads[p], "deleteUsers", ks)]
  BY DEF DeleteKeys, At, WithKeys
<1>2. OnlyThread(p) /\ threads'[p] = WithKeys(threads[p], "deleteUsers", ks)
  BY <1>1, CurrentThread DEF OnlyThread
<1>3. ks \in SUBSET (Users \X Keys)
  BY <1>1, CurrentThread DEF DataOK, Of
<1>4. /\ threads'[p] \in ThreadRecords /\ threads'[p].pc = "deleteUsers"
      /\ threads'[p].seenKeys = ks /\ Same(threads'[p], threads[p])
      /\ threads'[p].ids = threads[p].ids /\ threads'[p].seenSessions = threads[p].seenSessions
  <2> HIDE DEF ks
  <2> QED
    BY <1>2, <1>3, CurrentThread, WithKeysFields DEF Pcs
<1>5. ThreadInv(threads'[p], born, parent, version, rows, keys)
  <2> HIDE DEF ks
  <2> QED
    BY <1>1, <1>3, <1>4, CurrentThread
       DEF ThreadInv, Manageable, Same, UserPcs, AdminPcs, DeletePcs
<1>6. asked' \in Nat /\ faults' \in Nat /\ faults' = faults
  BY <1>1, CurrentThread DEF bounds
<1> QED
  BY <1>1, <1>2, <1>4, <1>5, <1>6, ReadStep DEF MakingPcs

-----------------------------------------------------------------------------
(* The calls that write.                                                     *)

\* What a user has and the request making it survive the step of p.
KeepsWhole(p) ==
    \A u \in Users \cap rows' :
        /\ u \in rows /\ Complete(u) => Complete(u)'
        /\ u \notin rows => Makes(threads'[p], u) \/ Complete(u)'
        /\ u \in rows /\ Makes(threads[p], u) => Makes(threads'[p], u) \/ Complete(u)'

LEMMA WriteStep ==
  ASSUME AccountsInv, DataOK', Stable, NoLeftovers', Unmanaged', LinksBehind',
         NEW p \in Threads, OnlyThread(p), threads'[p] \in ThreadRecords,
         ThreadInv(threads'[p], born', parent', version', rows', keys'),
         UNCHANGED bounds, KeepsWhole(p)
  PROVE  AccountsInv'
<1>1. DataOK /\ ThreadsInv /\ threads \in [Threads -> ThreadRecords] /\ Whole
  BY DEF AccountsInv, TypeOK
<1>2. threads' \in [Threads -> ThreadRecords] /\ ThreadsInv'
  BY <1>1, ThreadsStep
<1>3. faults' = faults /\ asked' = asked
  BY DEF bounds
<1>4. Whole'
  BY <1>1, <1>3, WholeStep DEF KeepsWhole
<1>5. TypeOK'
  BY <1>2, <1>3 DEF AccountsInv, TypeOK
<1> QED
  BY <1>2, <1>4, <1>5 DEF AccountsInv

\* A write that ends its request.
LEMMA WriteEnds ==
  ASSUME AccountsInv, DataOK', Stable, NoLeftovers', Unmanaged', LinksBehind',
         NEW p \in Threads, Ends(p), UNCHANGED bounds, KeepsWhole(p)
  PROVE  AccountsInv'
<1>1. OnlyThread(p) /\ threads'[p] \in ThreadRecords /\ threads'[p] = Free
  BY CurrentThread, EndsThread
<1> QED
  BY <1>1, FreeInv, WriteStep

\* Keys blocked, activated or revoked are no more than flags.
LEMMA FlagsInv ==
  ASSUME AccountsInv, NEW p \in Threads, Ends(p), threads[p].pc \notin MakingPcs,
         UNCHANGED <<people, keys, sessions, portal, bounds>>,
         active' \subseteq keys, revoked' \subseteq keys
  PROVE  AccountsInv'
<1>1. /\ rows' = rows /\ born' = born /\ parent' = parent /\ enabled' = enabled
      /\ version' = version /\ links' = links /\ keys' = keys /\ sessions' = sessions
  BY DEF people, portal
<1>2. DataOK'
  BY <1>1, CurrentThread DEF DataOK
<1>3. Stable
  BY <1>1, CurrentThread DEF Stable, DataOK
<1>4. NoLeftovers' /\ Unmanaged' /\ LinksBehind'
  BY <1>1 DEF AccountsInv, NoLeftovers, Unmanaged, LinksBehind
<1>5. KeepsWhole(p)
  BY <1>1 DEF KeepsWhole, Complete, Makes
<1> QED
  BY <1>2, <1>3, <1>4, <1>5, WriteEnds

LEMMA RevokeKeyInv == ASSUME AccountsInv, NEW p \in Threads, RevokeKey(p) PROVE AccountsInv'
<1>1. threads[p].pc \notin MakingPcs /\ Ends(p)
  BY DEF RevokeKey, At, MakingPcs
<1>2. active' \subseteq keys /\ revoked' \subseteq keys
  BY CurrentThread DEF RevokeKey, Updates, DataOK
<1> QED
  BY <1>1, <1>2, FlagsInv DEF RevokeKey

LEMMA SetKeyInv == ASSUME AccountsInv, NEW p \in Threads, SetKey(p) PROVE AccountsInv'
<1>1. threads[p].pc \notin MakingPcs /\ Ends(p)
  BY DEF SetKey, At, MakingPcs
<1>2. active' \subseteq keys /\ revoked' \subseteq keys
  BY CurrentThread DEF SetKey, Updates, Blocked, DataOK
<1> QED
  BY <1>1, <1>2, FlagsInv DEF SetKey

LEMMA SetAdminInv == ASSUME AccountsInv, NEW p \in Threads, SetAdmin(p) PROVE AccountsInv'
<1>1. /\ threads[p].pc \notin MakingPcs /\ Ends(p) /\ UNCHANGED bounds
      /\ rows' = rows /\ born' = born /\ parent' = parent /\ version' = version /\ links' = links
      /\ keys' = keys /\ revoked' = revoked /\ sessions' = sessions
  BY DEF SetAdmin, At, MakingPcs, portal
<1>2. enabled' \subseteq rows /\ active' \subseteq keys
  BY CurrentThread DEF SetAdmin, Blocked, DataOK
<1>3. DataOK'
  BY <1>1, <1>2, CurrentThread DEF DataOK
<1>4. Stable
  BY <1>1, CurrentThread DEF Stable, DataOK
<1>5. NoLeftovers' /\ Unmanaged' /\ LinksBehind'
  BY <1>1 DEF AccountsInv, NoLeftovers, Unmanaged, LinksBehind
<1>6. KeepsWhole(p)
  BY <1>1 DEF KeepsWhole, Complete, Makes
<1> QED
  BY <1>1, <1>3, <1>4, <1>5, <1>6, WriteEnds

LEMMA InsertSessionInv ==
  ASSUME AccountsInv, NEW p \in Threads, InsertSession(p) PROVE AccountsInv'
<1> DEFINE t == threads[p]
<1>1. /\ t.pc = "session" /\ Ends(p) /\ UNCHANGED bounds
      /\ rows' = rows /\ born' = born /\ parent' = parent /\ enabled' = enabled
      /\ version' = version /\ links' = links
      /\ keys' = keys /\ active' = active /\ revoked' = revoked
  BY DEF InsertSession, At, people, apiKeys, portal
<1>2. t.target \in Users
  BY <1>1, CurrentThread DEF ThreadInv, UserPcs, Manageable
<1>3. \/ t.target \notin rows /\ sessions' = sessions
      \/ t.target \in rows /\ \E l \in Labels : sessions' = sessions \cup {<<t.target, l>>}
  BY DEF InsertSession
<1>4. DataOK'
  BY <1>1, <1>2, <1>3, CurrentThread DEF DataOK
<1>5. Stable
  BY <1>1, CurrentThread DEF Stable, DataOK
<1>6. NoLeftovers' /\ Unmanaged' /\ LinksBehind'
  BY <1>1, <1>3 DEF AccountsInv, NoLeftovers, Unmanaged, LinksBehind
<1>7. KeepsWhole(p)
  <2> SUFFICES ASSUME NEW u \in Users \cap rows
               PROVE  /\ Complete(u) => Complete(u)'
                      /\ Makes(t, u) => Complete(u)'
    BY <1>1 DEF KeepsWhole
  <2>1. Complete(u) => Complete(u)'
    BY <1>1, <1>3 DEF Complete
  <2>2. ASSUME Makes(t, u) PROVE Complete(u)'
    <3>1. t.target = u /\ t.op = "create"
      BY <2>2 DEF Makes
    <3>2. \E x \in keys : x[1] = u
      BY <1>1, <3>1, CurrentThread DEF ThreadInv
    <3>3. PICK l \in Labels : <<u, l>> \in sessions'
      BY <1>1, <1>3, <3>1, <2>2
    <3>4. <<u, l>>[1] = u
      OBVIOUS
    <3> QED
      BY <1>1, <3>2, <3>3, <3>4 DEF Complete
  <2> QED
    BY <2>1, <2>2
<1> QED
  BY <1>1, <1>4, <1>5, <1>6, <1>7, WriteEnds

LEMMA InsertKeyInv == ASSUME AccountsInv, NEW p \in Threads, InsertKey(p) PROVE AccountsInv'
<1> DEFINE t == threads[p]
<1>1. /\ t.pc = "insertKey" /\ UNCHANGED bounds
      /\ rows' = rows /\ born' = born /\ parent' = parent /\ enabled' = enabled
      /\ version' = version /\ links' = links /\ revoked' = revoked /\ sessions' = sessions
  BY DEF InsertKey, At, people, portal
<1>2. t.target \in Users /\ Manageable(t, born, parent) /\ t.target \in Accounts
  BY <1>1, CurrentThread DEF ThreadInv, UserPcs, Manageable
<1>3. CASE t.target \notin rows
  <2>1. keys' = keys /\ active' = active /\ Ends(p)
    BY <1>3 DEF InsertKey
  <2>2. DataOK' /\ Stable /\ NoLeftovers' /\ Unmanaged' /\ LinksBehind'
    BY <1>1, <2>1, CurrentThread
       DEF AccountsInv, DataOK, Stable, NoLeftovers, Unmanaged, LinksBehind
  <2>3. KeepsWhole(p)
    BY <1>1, <1>3, <2>1 DEF KeepsWhole, Complete, Makes
  <2> QED
    BY <1>1, <2>1, <2>2, <2>3, WriteEnds
<1>4. CASE t.target \in rows
  <2>1. PICK k \in Keys :
          /\ keys' = keys \cup {<<t.target, k>>} /\ active' = Blocked(t) \cup {<<t.target, k>>}
          /\ IF t.op = "create" THEN Goto(p, "session") ELSE Ends(p)
    BY <1>4 DEF InsertKey
  <2>2. DataOK'
    <3>1. keys' \subseteq Users \X Keys /\ active' \subseteq keys' /\ revoked' \subseteq keys'
      BY <1>1, <1>2, <2>1, CurrentThread DEF DataOK, Blocked
    <3> QED
      BY <1>1, <3>1, CurrentThread DEF DataOK
  <2>3. Stable
    BY <1>1, <2>1, CurrentThread DEF Stable, DataOK
  <2>4. NoLeftovers' /\ Unmanaged' /\ LinksBehind'
    BY <1>1, <1>4, <2>1 DEF AccountsInv, NoLeftovers, Unmanaged, LinksBehind
  <2>5. \A u : Complete(u) => Complete(u)'
    BY <1>1, <2>1 DEF Complete
  <2>6. CASE t.op = "create"
    <3>1. /\ OnlyThread(p) /\ threads'[p] \in ThreadRecords /\ threads'[p].pc = "session"
          /\ Same(threads'[p], t)
      BY <2>1, <2>6, CurrentThread, GotoThread DEF Pcs
    <3>2. <<t.target, k>> \in keys' /\ <<t.target, k>>[1] = t.target
      BY <2>1
    <3>3. ThreadInv(threads'[p], born', parent', version', rows', keys')
      BY <1>1, <1>2, <3>1, <3>2
         DEF ThreadInv, Manageable, Same, UserPcs, AdminPcs, DeletePcs
    <3>4. KeepsWhole(p)
      BY <1>1, <2>5, <3>1 DEF KeepsWhole, Makes, Same, MakingPcs
    <3> QED
      BY <1>1, <2>2, <2>3, <2>4, <3>1, <3>3, <3>4, WriteStep
  <2>7. CASE t.op # "create"
    <3>1. KeepsWhole(p)
      BY <1>1, <2>5, <2>7 DEF KeepsWhole, Makes
    <3> QED
      BY <1>1, <2>1, <2>2, <2>3, <2>4, <2>7, <3>1, WriteEnds
  <2> QED
    BY <2>6, <2>7
<1> QED
  BY <1>3, <1>4

LEMMA BumpVersionInv == ASSUME AccountsInv, NEW p \in Threads, BumpVersion(p) PROVE AccountsInv'
<1> DEFINE t == threads[p]  v == version[t.target] + 1
<1>1. /\ t.pc = "bump" /\ Ends(p) /\ UNCHANGED bounds
      /\ rows' = rows /\ born' = born /\ parent' = parent /\ enabled' = enabled
      /\ keys' = keys /\ active' = active /\ revoked' = revoked /\ sessions' = sessions
  BY DEF BumpVersion, At, people, apiKeys
<1>2. t.target \in Users
  BY <1>1, CurrentThread DEF ThreadInv, UserPcs, Manageable
<1>3. \/ version' = version /\ links' = links
      \/ version' = [version EXCEPT ![t.target] = v] /\ links' = links \cup {<<t.target, v>>}
  BY DEF BumpVersion, NextVersion, portal
<1>4. /\ version \in [Users -> Nat] /\ version' \in [Users -> Nat] /\ v \in Nat
      /\ links \subseteq Users \X Nat /\ links' \subseteq Users \X Nat
      /\ \A u \in Users : version[u] <= version'[u]
      /\ links' # links => version'[t.target] = v
  BY <1>2, <1>3, CurrentThread DEF DataOK
<1>5. DataOK'
  BY <1>1, <1>4, CurrentThread DEF DataOK
<1>6. Stable
  BY <1>1, <1>4, CurrentThread DEF Stable, DataOK
<1>7. LinksBehind'
  <2> SUFFICES ASSUME NEW l \in links' PROVE l[2] <= version'[l[1]]
    BY DEF LinksBehind
  <2>1. CASE l \in links
    <3>1. l[1] \in Users /\ l[2] \in Nat /\ l[2] <= version[l[1]]
      BY <1>4, <2>1 DEF AccountsInv, LinksBehind
    <3>2. version[l[1]] \in Nat /\ version'[l[1]] \in Nat /\ version[l[1]] <= version'[l[1]]
      BY <1>4, <3>1
    <3> QED
      BY <3>1, <3>2
  <2>2. CASE l \notin links
    <3>1. l = <<t.target, v>> /\ version'[t.target] = v
      BY <1>3, <1>4, <2>2
    <3> QED
      BY <1>4, <3>1
  <2> QED
    BY <2>1, <2>2
<1>8. NoLeftovers' /\ Unmanaged'
  BY <1>1 DEF AccountsInv, NoLeftovers, Unmanaged
<1>9. KeepsWhole(p)
  BY <1>1 DEF KeepsWhole, Complete, Makes, MakingPcs
<1> QED
  BY <1>1, <1>5, <1>6, <1>7, <1>8, <1>9, WriteEnds

LEMMA ShareInv == ASSUME AccountsInv, NEW p \in Threads, Share(p) PROVE AccountsInv'
<1> DEFINE t == threads[p]
<1>1. /\ t.pc = "share" /\ Ends(p) /\ UNCHANGED bounds
      /\ rows' = rows /\ born' = born /\ parent' = parent /\ enabled' = enabled
      /\ keys' = keys /\ active' = active /\ revoked' = revoked /\ sessions' = sessions
      /\ version' = version /\ links' = links \cup {<<t.target, t.version>>}
  BY DEF Share, At, people, apiKeys
<1>2. t.target \in Users /\ t.version \in Nat /\ t.version <= version[t.target]
  BY <1>1, CurrentThread DEF ThreadInv, UserPcs, Manageable, ThreadRecords
<1>3. DataOK'
  <2>1. links' \subseteq Users \X Nat
    BY <1>1, <1>2, CurrentThread DEF DataOK
  <2> QED
    BY <1>1, <2>1, CurrentThread DEF DataOK
<1>4. Stable
  BY <1>1, CurrentThread DEF Stable, DataOK
<1>5. LinksBehind'
  <2>1. \A l \in links : l[2] <= version[l[1]]
    BY DEF AccountsInv, LinksBehind
  <2> QED
    BY <1>1, <1>2, <2>1 DEF LinksBehind
<1>6. NoLeftovers' /\ Unmanaged'
  BY <1>1 DEF AccountsInv, NoLeftovers, Unmanaged
<1>7. KeepsWhole(p)
  BY <1>1 DEF KeepsWhole, Complete, Makes, MakingPcs
<1> QED
  BY <1>1, <1>3, <1>4, <1>5, <1>6, <1>7, WriteEnds

LEMMA InsertUserInv == ASSUME AccountsInv, NEW p \in Threads, InsertUser(p) PROVE AccountsInv'
<1> DEFINE t == threads[p]
<1>1. /\ t.pc = "insert" /\ UNCHANGED bounds
      /\ version' = version /\ links' = links /\ keys' = keys /\ active' = active
      /\ revoked' = revoked /\ sessions' = sessions
  BY DEF InsertUser, At, apiKeys, portal
<1>2. t.target \in Accounts /\ t.op = "create" /\ t.who \in {Root} \cup Admins
  BY <1>1, CurrentThread DEF ThreadInv, ThreadRecords
<1>3. CASE ~CanInsert(t)
  <2>1. /\ Ends(p) /\ rows' = rows /\ born' = born /\ parent' = parent /\ enabled' = enabled
    BY <1>3 DEF InsertUser, people
  <2>2. DataOK' /\ Stable /\ NoLeftovers' /\ Unmanaged' /\ LinksBehind'
    BY <1>1, <2>1, CurrentThread
       DEF AccountsInv, DataOK, Stable, NoLeftovers, Unmanaged, LinksBehind
  <2>3. KeepsWhole(p)
    BY <1>1, <2>1 DEF KeepsWhole, Complete, Makes, MakingPcs
  <2> QED
    BY <1>1, <2>1, <2>2, <2>3, WriteEnds
<1>4. CASE CanInsert(t)
  <2>1. /\ rows' = rows \cup {t.target} /\ born' = born \cup {t.target}
        /\ enabled' = enabled \cup {t.target}
        /\ parent' = [parent EXCEPT ![t.target] = t.who]
        /\ IF t.target \in Users THEN Goto(p, "scanKeys") ELSE Ends(p)
        /\ t.target \notin born
    BY <1>4 DEF InsertUser, CanInsert
  <2>2. DataOK'
    BY <1>1, <1>2, <2>1, CurrentThread DEF DataOK
  <2>3. parent'[t.target] = t.who /\ \A a \in Accounts \ {t.target} : parent'[a] = parent[a]
    BY <1>2, <2>1, CurrentThread DEF DataOK
  <2>4. Stable
    BY <1>1, <2>1, <2>3, CurrentThread DEF Stable, DataOK
  <2>5. NoLeftovers' /\ Unmanaged' /\ LinksBehind'
    BY <1>1, <2>1, <2>3 DEF AccountsInv, NoLeftovers, Unmanaged, LinksBehind
  <2>6. \A u : Complete(u) => Complete(u)'
    BY <1>1 DEF Complete
  <2>7. CASE t.target \in Users
    <3>1. /\ OnlyThread(p) /\ threads'[p] \in ThreadRecords /\ threads'[p].pc = "scanKeys"
          /\ Same(threads'[p], t)
      BY <2>1, <2>7, CurrentThread, GotoThread DEF Pcs
    <3>2. ThreadInv(threads'[p], born', parent', version', rows', keys')
      BY <1>2, <2>1, <2>3, <2>7, <3>1
         DEF ThreadInv, Manageable, Same, UserPcs, AdminPcs, DeletePcs
    <3>3. KeepsWhole(p)
      BY <1>1, <1>2, <2>1, <2>6, <3>1 DEF KeepsWhole, Makes, Same, MakingPcs
    <3> QED
      BY <1>1, <2>2, <2>4, <2>5, <3>1, <3>2, <3>3, WriteStep
  <2>8. CASE t.target \notin Users
    <3>1. KeepsWhole(p)
      BY <1>1, <2>1, <2>6, <2>8 DEF KeepsWhole, Makes, MakingPcs
    <3> QED
      BY <1>1, <2>1, <2>2, <2>4, <2>5, <2>8, <3>1, WriteEnds
  <2> QED
    BY <2>7, <2>8
<1> QED
  BY <1>3, <1>4

LEMMA DeleteUsersInv == ASSUME AccountsInv, NEW p \in Threads, DeleteUsers(p) PROVE AccountsInv'
<1> DEFINE t == threads[p]
<1>1. /\ t.pc = "deleteUsers" /\ Ends(p) /\ UNCHANGED bounds
      /\ born' = born /\ version' = version /\ links' = links
  BY DEF DeleteUsers, At, portal
<1>2. CASE ~MayDelete(t)
  <2>1. /\ rows' = rows /\ parent' = parent /\ enabled' = enabled
        /\ keys' = keys /\ active' = active /\ revoked' = revoked /\ sessions' = sessions
    BY <1>2 DEF DeleteUsers, Commits
  <2>2. DataOK' /\ Stable /\ NoLeftovers' /\ Unmanaged' /\ LinksBehind'
    BY <1>1, <2>1, CurrentThread
       DEF AccountsInv, DataOK, Stable, NoLeftovers, Unmanaged, LinksBehind
  <2>3. KeepsWhole(p)
    BY <1>1, <2>1 DEF KeepsWhole, Complete, Makes, MakingPcs
  <2> QED
    BY <1>1, <2>2, <2>3, WriteEnds
<1>3. CASE MayDelete(t)
  <2> DEFINE gone == Of(keys, t.ids) \cap t.seenKeys
  <2>1. /\ keys' = keys \ gone /\ active' = active \ gone /\ revoked' = revoked \ gone
        /\ sessions' = sessions \ t.seenSessions
        /\ rows' = rows \ t.ids /\ enabled' = enabled \ t.ids
        /\ parent' = [a \in Accounts |->
                        IF a \in t.ids \/ parent[a] \in t.ids THEN None ELSE parent[a]]
    BY <1>3 DEF DeleteUsers, Commits
  <2>2. \A x : x \in gone <=> x \in keys /\ x[1] \in t.ids
    BY <1>3 DEF MayDelete, Of
  <2>3. /\ \A x \in sessions : x[1] \in t.ids => x \in t.seenSessions
        /\ \A x \in t.seenSessions : x[1] \in t.ids
    BY <1>1, <1>3, CurrentThread DEF MayDelete, Of, ThreadInv
  <2> HIDE DEF gone
  <2>4. /\ parent' \in [Accounts -> Admins \cup {Root, None}]
        /\ \A a \in Accounts : parent'[a] \in {parent[a], None}
        /\ \A a \in Accounts \cap t.ids : parent'[a] = None
    BY <2>1, CurrentThread DEF DataOK
  <2>5. DataOK'
    BY <1>1, <2>1, <2>4, CurrentThread DEF DataOK
  <2>6. Stable
    BY <1>1, <2>1, <2>2, <2>4, CurrentThread DEF Stable, DataOK
  <2>7. NoLeftovers'
    BY <2>1, <2>2, <2>3 DEF AccountsInv, NoLeftovers
  <2>8. Unmanaged' /\ LinksBehind'
    BY <1>1, <2>1, <2>4 DEF AccountsInv, Unmanaged, LinksBehind
  <2>9. KeepsWhole(p)
    BY <1>1, <2>1, <2>2, <2>3 DEF KeepsWhole, Complete, Makes, MakingPcs
  <2> QED
    BY <1>1, <2>5, <2>6, <2>7, <2>8, <2>9, WriteEnds
<1> QED
  BY <1>2, <1>3

-----------------------------------------------------------------------------
(* The invariant.                                                            *)

LEMMA InitInv == Init => AccountsInv
<1> SUFFICES ASSUME Init PROVE AccountsInv
  OBVIOUS
<1>1. DataOK
  <2>1. rows \subseteq Accounts /\ born = rows /\ enabled = rows
    BY AccountsAssumption DEF Init
  <2>2. parent \in [Accounts -> Admins \cup {Root, None}]
    BY AccountsAssumption DEF Init
  <2>3. keys \subseteq Users \X Keys /\ sessions \subseteq Users \X Labels
    BY AccountsAssumption DEF Init
  <2>4. version \in [Users -> Nat] /\ links \subseteq Users \X Nat
    BY DEF Init
  <2> QED
    BY <2>1, <2>2, <2>3, <2>4 DEF Init, DataOK
<1>2. TypeOK
  BY <1>1, FreeRecord DEF Init, TypeOK
<1>3. NoLeftovers /\ Unmanaged /\ LinksBehind
  BY DEF Init, NoLeftovers, Unmanaged, LinksBehind
<1>4. Whole
  <2> SUFFICES ASSUME NEW u \in Users \cap rows PROVE Complete(u)
    BY DEF Whole
  <2>1. <<u, 1>> \in keys /\ <<u, 1>> \in sessions /\ <<u, 1>>[1] = u
    BY DEF Init
  <2> QED
    BY <2>1 DEF Complete
<1>5. ThreadsInv
  BY FreeInv DEF Init, ThreadsInv
<1> QED
  BY <1>2, <1>3, <1>4, <1>5 DEF AccountsInv

LEMMA StepInv == ASSUME AccountsInv, NEW p \in Threads, Step(p) PROVE AccountsInv'
<1>1. CASE FindUser(p) \/ CheckEmail(p) \/ InsertUser(p) \/ ScanKeys(p) \/ InsertKey(p)
  BY <1>1, FindUserInv, CheckEmailInv, InsertUserInv, ScanKeysInv, InsertKeyInv
<1>2. CASE InsertSession(p) \/ FindKey(p) \/ RevokeKey(p) \/ ScanOthers(p) \/ SetKey(p)
  BY <1>2, InsertSessionInv, FindKeyInv, RevokeKeyInv, ScanOthersInv, SetKeyInv
<1>3. CASE BumpVersion(p) \/ Share(p) \/ FindAdmin(p) \/ ScanUsers(p) \/ ScanChildKeys(p)
  BY <1>3, BumpVersionInv, ShareInv, FindAdminInv, ScanUsersInv, ScanChildKeysInv
<1>4. CASE SetAdmin(p) \/ ReadChildren(p) \/ ReadSessions(p) \/ DeleteKeys(p) \/ DeleteUsers(p)
  BY <1>4, SetAdminInv, ReadChildrenInv, ReadSessionsInv, DeleteKeysInv, DeleteUsersInv
<1> QED
  BY <1>1, <1>2, <1>3, <1>4 DEF Step

LEMMA NextInv == AccountsInv /\ [Next]_vars => AccountsInv'
<1> SUFFICES ASSUME AccountsInv, [Next]_vars PROVE AccountsInv'
  OBVIOUS
<1>1. CASE Next
  BY <1>1, ArriveInv, StepInv, FailsInv DEF Next
<1>2. CASE UNCHANGED vars
  <2>1. /\ UNCHANGED <<rows, born, enabled, parent, keys, active, revoked, sessions>>
        /\ UNCHANGED <<version, links, threads, asked, faults>>
    BY <1>2 DEF vars, people, apiKeys, portal, bounds
  <2>2. TypeOK' /\ NoLeftovers' /\ Unmanaged' /\ LinksBehind' /\ ThreadsInv'
    BY <2>1 DEF AccountsInv, TypeOK, DataOK, NoLeftovers, Unmanaged, LinksBehind, ThreadsInv
  <2>3. Whole'
    BY <2>1 DEF AccountsInv, Whole, Complete, Makes
  <2> QED
    BY <2>2, <2>3 DEF AccountsInv
<1> QED
  BY <1>1, <1>2

\* The invariant holds in every reachable state.
THEOREM AccountsInvariance == Spec => []AccountsInv
<1>1. Init => AccountsInv
  BY InitInv
<1>2. AccountsInv /\ [Next]_vars => AccountsInv'
  BY NextInv
<1> QED
  BY <1>1, <1>2, PTL DEF Spec

\* Every reachable state is well typed.
THEOREM AccountsTypeCorrect == Spec => []TypeOK
<1>1. AccountsInv => TypeOK
  BY DEF AccountsInv
<1> QED
  BY <1>1, AccountsInvariance, PTL

\* The keys and sessions of a deleted user are gone, although deleteUsersCascade reads
\* them before it deletes the user and creations overlap.
THEOREM NothingIsLeft == Spec => []NoLeftovers
<1>1. AccountsInv => NoLeftovers
  BY DEF AccountsInv
<1> QED
  BY <1>1, AccountsInvariance, PTL

\* A user who is not being created has a key and a session, unless a call failed.
THEOREM UsersAreComplete == Spec => []UserComplete
<1>1. AccountsInv => UserComplete
  <2> SUFFICES ASSUME AccountsInv, faults = 0, NEW u \in Users \cap rows, ~BeingCreated(u)
               PROVE  Of(keys, {u}) # {} /\ Of(sessions, {u}) # {}
    BY DEF UserComplete
  <2>1. Complete(u)
    BY DEF AccountsInv, Whole, BeingCreated, Makes
  <2> QED
    BY <2>1 DEF Complete, Of
<1> QED
  BY <1>1, AccountsInvariance, PTL

-----------------------------------------------------------------------------
(* Whose hand changes what.                                                  *)

\* The rows of u in S and in T are the same.
LEMMA OfSame ==
  ASSUME NEW S, NEW T, NEW u, \A x : x[1] = u => (x \in S <=> x \in T)
  PROVE  Of(S, {u}) = Of(T, {u})
  BY DEF Of

\* p may change user u.
MayChange(p, u) == parent[u] = None \/ threads[p].who \in {Root, parent[u]}

LEMMA ManageableMayChange ==
  \A p \in Threads : Manageable(threads[p], born, parent) => MayChange(p, threads[p].target)
  BY DEF Manageable, MayChange

\* A request that ends is another record than one at work.
LEMMA EndsChanges ==
  ASSUME AccountsInv, NEW p \in Threads, Ends(p), threads[p].pc # "idle"
  PROVE  threads'[p] # threads[p]
<1>1. threads'[p] = Free
  BY CurrentThread, EndsThread
<1> QED
  BY <1>1 DEF Free

\* The step changes only users that p may change.
Rightful(p) == \A u \in Users : Account(u)' # Account(u) => MayChange(p, u)

\* A step that leaves alone every user but a manageable target.
LEMMA TargetOnly ==
  ASSUME AccountsInv, NEW p \in Threads, Manageable(threads[p], born, parent),
         \A u \in Users \ {threads[p].target} : Account(u)' = Account(u)
  PROVE  Rightful(p)
  BY ManageableMayChange DEF Rightful, Manageable

LEMMA InsertUserTenancy ==
  ASSUME AccountsInv, NEW p \in Threads, InsertUser(p)
  PROVE  Rightful(p) /\ threads'[p] # threads[p]
<1> DEFINE t == threads[p]
<1>1. /\ t.pc = "insert" /\ version' = version /\ keys' = keys /\ active' = active
      /\ revoked' = revoked /\ sessions' = sessions
  BY DEF InsertUser, At, apiKeys, portal
<1>2. threads'[p] # t
  <2>1. CASE Ends(p)
    BY <1>1, <2>1, EndsChanges
  <2>2. CASE Goto(p, "scanKeys")
    <3>1. threads'[p].pc = "scanKeys"
      BY <2>2, CurrentThread, GotoThread DEF Pcs
    <3> QED
      BY <1>1, <3>1
  <2> QED
    BY <2>1, <2>2 DEF InsertUser
<1>3. ASSUME NEW u \in Users, Account(u)' # Account(u)
      PROVE  u = t.target /\ MayChange(p, u)
  <2>1. CanInsert(t)
    BY <1>1, <1>3 DEF InsertUser, people, Account
  <2>2. /\ rows' = rows \cup {t.target} /\ enabled' = enabled \cup {t.target}
        /\ parent' = [parent EXCEPT ![t.target] = t.who] /\ t.target \notin born
    BY <2>1 DEF InsertUser, CanInsert
  <2>3. u = t.target
    <3>1. ASSUME u # t.target PROVE Account(u)' = Account(u)
      <4>1. parent'[u] = parent[u] /\ u \in Accounts
        BY <2>2, <3>1, CurrentThread DEF DataOK, Accounts
      <4>2. (u \in rows') = (u \in rows) /\ (u \in enabled') = (u \in enabled)
        BY <2>2, <3>1
      <4> QED
        BY <1>1, <4>1, <4>2 DEF Account
    <3> QED
      BY <1>3, <3>1
  <2>4. parent[u] = None
    BY <2>2, <2>3, CurrentThread DEF AccountsInv, Unmanaged, DataOK, Accounts
  <2> QED
    BY <2>3, <2>4 DEF MayChange
<1> QED
  BY <1>2, <1>3 DEF Rightful

LEMMA InsertKeyTenancy ==
  ASSUME AccountsInv, NEW p \in Threads, InsertKey(p)
  PROVE  Rightful(p) /\ threads'[p] # threads[p]
<1> DEFINE t == threads[p]
<1>1. /\ t.pc = "insertKey" /\ version' = version /\ revoked' = revoked /\ sessions' = sessions
      /\ rows' = rows /\ enabled' = enabled /\ parent' = parent
  BY DEF InsertKey, At, people, portal
<1>2. Manageable(t, born, parent) /\ t.seenKeys \subseteq {t.target} \X Keys
  BY <1>1, CurrentThread DEF ThreadInv, UserPcs
<1>3. threads'[p] # t
  <2>1. CASE Ends(p)
    BY <1>1, <2>1, EndsChanges
  <2>2. CASE Goto(p, "session")
    <3>1. threads'[p].pc = "session"
      BY <2>2, CurrentThread, GotoThread DEF Pcs
    <3> QED
      BY <1>1, <3>1
  <2> QED
    BY <2>1, <2>2 DEF InsertKey
<1>4. ASSUME NEW u \in Users \ {t.target} PROVE Account(u)' = Account(u)
  <2>1. CASE keys' = keys /\ active' = active
    BY <1>1, <2>1 DEF Account
  <2>2. CASE \E k \in Keys : /\ keys' = keys \cup {<<t.target, k>>}
                             /\ active' = Blocked(t) \cup {<<t.target, k>>}
    <3>1. PICK k \in Keys : /\ keys' = keys \cup {<<t.target, k>>}
                            /\ active' = Blocked(t) \cup {<<t.target, k>>}
      BY <2>2
    <3>2. <<t.target, k>>[1] # u /\ \A x \in t.seenKeys : x[1] # u
      BY <1>2
    <3>3. Of(keys', {u}) = Of(keys, {u})
      BY <3>1, <3>2, OfSame
    <3>4. Of(active', {u}) = Of(active, {u})
      <4>1. \A x : x[1] = u => (x \in active' <=> x \in active)
        BY <3>1, <3>2 DEF Blocked
      <4> QED
        BY <4>1, OfSame
    <3> QED
      BY <1>1, <3>3, <3>4 DEF Account
  <2> QED
    BY <2>1, <2>2 DEF InsertKey
<1> QED
  BY <1>2, <1>3, <1>4, TargetOnly

LEMMA InsertSessionTenancy ==
  ASSUME AccountsInv, NEW p \in Threads, InsertSession(p)
  PROVE  Rightful(p) /\ threads'[p] # threads[p]
<1> DEFINE t == threads[p]
<1>1. /\ t.pc = "session" /\ Ends(p) /\ version' = version
      /\ keys' = keys /\ active' = active /\ revoked' = revoked
      /\ rows' = rows /\ enabled' = enabled /\ parent' = parent
  BY DEF InsertSession, At, people, portal, apiKeys
<1>2. Manageable(t, born, parent)
  BY <1>1, CurrentThread DEF ThreadInv, UserPcs
<1>3. ASSUME NEW u \in Users \ {t.target} PROVE Account(u)' = Account(u)
  <2>1. \A x : x[1] = u => (x \in sessions' <=> x \in sessions)
    <3>1. \/ sessions' = sessions
          \/ \E l \in Labels : sessions' = sessions \cup {<<t.target, l>>}
      BY DEF InsertSession
    <3> QED
      BY <3>1
  <2>2. Of(sessions', {u}) = Of(sessions, {u})
    BY <2>1, OfSame
  <2> QED
    BY <1>1, <2>2 DEF Account
<1> QED
  BY <1>1, <1>2, <1>3, TargetOnly, EndsChanges

\* RevokeKey and SetKey flag keys of the target.
LEMMA FlagsTenancy ==
  ASSUME AccountsInv, NEW p \in Threads, RevokeKey(p) \/ SetKey(p)
  PROVE  Rightful(p) /\ threads'[p] # threads[p]
<1> DEFINE t == threads[p]  k == KeyOf(t)
<1>1. /\ t.pc \in {"revoke", "setKey"} /\ Ends(p) /\ version' = version
      /\ keys' = keys /\ sessions' = sessions
      /\ rows' = rows /\ enabled' = enabled /\ parent' = parent
  BY DEF RevokeKey, SetKey, At, people, portal
<1>2. Manageable(t, born, parent)
  BY <1>1, CurrentThread DEF ThreadInv, UserPcs
<1>3. ASSUME NEW u \in Users \ {t.target} PROVE Account(u)' = Account(u)
  <2>1. k[1] # u
    BY DEF KeyOf
  <2>2. t.pc = "setKey" => \A x \in t.seenKeys : x[1] # u
    BY CurrentThread DEF ThreadInv
  <2> HIDE DEF k
  <2>3. \A x : x[1] = u => (x \in active' <=> x \in active) /\ (x \in revoked' <=> x \in revoked)
    <3>1. CASE RevokeKey(p)
      <4>1. /\ active' = active \/ active' = active \ {k}
            /\ revoked' = revoked \/ revoked' = revoked \cup {k}
        BY <3>1 DEF RevokeKey, k
      <4> QED
        BY <2>1, <4>1
    <3>2. CASE SetKey(p)
      <4>1. /\ t.pc = "setKey" /\ revoked' = revoked
            /\ \/ active' = active \/ active' = active \ {k}
               \/ active' = Blocked(t) \cup {k}
        BY <3>2 DEF SetKey, At, k
      <4> QED
        BY <2>1, <2>2, <4>1 DEF Blocked
    <3> QED
      BY <3>1, <3>2
  <2>4. Of(active', {u}) = Of(active, {u}) /\ Of(revoked', {u}) = Of(revoked, {u})
    BY <2>3, OfSame
  <2> QED
    BY <1>1, <2>4 DEF Account
<1> QED
  BY <1>1, <1>2, <1>3, TargetOnly, EndsChanges

LEMMA BumpTenancy ==
  ASSUME AccountsInv, NEW p \in Threads, BumpVersion(p)
  PROVE  Rightful(p) /\ threads'[p] # threads[p]
<1> DEFINE t == threads[p]
<1>1. /\ t.pc = "bump" /\ Ends(p) /\ keys' = keys /\ active' = active /\ revoked' = revoked
      /\ sessions' = sessions /\ rows' = rows /\ enabled' = enabled /\ parent' = parent
  BY DEF BumpVersion, At, people, apiKeys
<1>2. Manageable(t, born, parent)
  BY <1>1, CurrentThread DEF ThreadInv, UserPcs
<1>3. ASSUME NEW u \in Users \ {t.target} PROVE Account(u)' = Account(u)
  <2>1. version'[u] = version[u]
    BY CurrentThread DEF BumpVersion, portal, DataOK
  <2> QED
    BY <1>1, <2>1 DEF Account
<1> QED
  BY <1>1, <1>2, <1>3, TargetOnly, EndsChanges

LEMMA DeleteUsersTenancy ==
  ASSUME AccountsInv, NEW p \in Threads, DeleteUsers(p)
  PROVE  Rightful(p) /\ threads'[p] # threads[p]
<1> DEFINE t == threads[p]
<1>1. t.pc = "deleteUsers" /\ Ends(p) /\ version' = version
  BY DEF DeleteUsers, At, portal
<1>2. threads'[p] # t
  BY <1>1, EndsChanges
<1>3. CASE t.who = Root
  BY <1>2, <1>3 DEF Rightful, MayChange
<1>4. CASE Manageable(t, born, parent) /\ t.ids = {t.target}
  <2>1. ASSUME NEW u \in Users \ {t.target} PROVE Account(u)' = Account(u)
    <3> DEFINE gone == IF Commits(t) THEN Of(keys, t.ids) \cap t.seenKeys ELSE {}
    <3>1. /\ keys' = keys \ gone /\ active' = active \ gone /\ revoked' = revoked \ gone
          /\ \A x \in gone : x[1] # u
      BY <1>4 DEF DeleteUsers, Of
    <3>2. /\ \A x \in t.seenSessions : x[1] # u
          /\ sessions' = sessions \/ sessions' = sessions \ t.seenSessions
      BY <1>1, <1>4, CurrentThread DEF DeleteUsers, ThreadInv
    <3> HIDE DEF gone
    <3>3. \A x : x[1] = u => /\ (x \in keys' <=> x \in keys) /\ (x \in active' <=> x \in active)
                             /\ (x \in revoked' <=> x \in revoked)
                             /\ (x \in sessions' <=> x \in sessions)
      BY <3>1, <3>2
    <3>4. /\ Of(keys', {u}) = Of(keys, {u}) /\ Of(active', {u}) = Of(active, {u})
          /\ Of(revoked', {u}) = Of(revoked, {u}) /\ Of(sessions', {u}) = Of(sessions, {u})
      <4>1. Of(keys', {u}) = Of(keys, {u})
        BY <3>3, OfSame
      <4>2. Of(active', {u}) = Of(active, {u})
        BY <3>3, OfSame
      <4>3. Of(revoked', {u}) = Of(revoked, {u})
        BY <3>3, OfSame
      <4>4. Of(sessions', {u}) = Of(sessions, {u})
        BY <3>3, OfSame
      <4> QED
        BY <4>1, <4>2, <4>3, <4>4
    <3>5. (u \in rows') = (u \in rows) /\ (u \in enabled') = (u \in enabled)
      BY <1>4 DEF DeleteUsers
    <3>6. parent'[u] = parent[u]
      <4>1. u \in Accounts /\ u # t.target /\ parent[u] \notin Users /\ t.target \in Users
        BY <1>4, AccountsAssumption, CurrentThread DEF DataOK, Accounts, Manageable
      <4>2. u \notin t.ids /\ parent[u] \notin t.ids
        BY <1>4, <4>1
      <4> QED
        BY <4>1, <4>2 DEF DeleteUsers
    <3> QED
      BY <1>1, <3>4, <3>5, <3>6 DEF Account
  <2> QED
    BY <1>2, <1>4, <2>1, TargetOnly
<1> QED
  BY <1>1, <1>3, <1>4, CurrentThread DEF ThreadInv, DeletePcs

\* The steps that read, and Share, leave every user's account alone.
LEMMA ReadsTenancy ==
  ASSUME NEW u, UNCHANGED <<people, apiKeys, sessions, version>>
  PROVE  Account(u)' = Account(u)
<1>1. /\ rows' = rows /\ enabled' = enabled /\ parent' = parent /\ version' = version
      /\ keys' = keys /\ active' = active /\ revoked' = revoked /\ sessions' = sessions
  BY DEF people, apiKeys
<1> QED
  BY <1>1 DEF Account

LEMMA StepTenancy ==
  ASSUME AccountsInv, NEW p \in Threads, Arrive(p) \/ Step(p) \/ RequestFails(p),
         NEW u \in Users, Account(u)' # Account(u)
  PROVE  MayChange(p, u) /\ threads'[p] # threads[p]
<1>1. CASE InsertUser(p) \/ InsertKey(p) \/ InsertSession(p) \/ RevokeKey(p) \/ SetKey(p)
  BY <1>1, InsertUserTenancy, InsertKeyTenancy, InsertSessionTenancy, FlagsTenancy DEF Rightful
<1>2. CASE BumpVersion(p) \/ DeleteUsers(p)
  BY <1>2, BumpTenancy, DeleteUsersTenancy DEF Rightful
<1>3. CASE SetAdmin(p)
  <2>1. threads[p].pc = "setAdmin" /\ Ends(p)
    BY <1>3 DEF SetAdmin, At
  <2>2. threads[p].who = Root
    BY <2>1, CurrentThread DEF ThreadInv, AdminPcs
  <2> QED
    BY <2>1, <2>2, EndsChanges DEF MayChange
<1>4. CASE UNCHANGED <<people, apiKeys, sessions, version>>
  BY <1>4, ReadsTenancy
<1>5. \/ Arrive(p) \/ RequestFails(p) \/ FindUser(p) \/ CheckEmail(p) \/ ScanKeys(p) \/ FindKey(p)
      \/ ScanOthers(p) \/ Share(p) \/ FindAdmin(p) \/ ScanUsers(p) \/ ScanChildKeys(p)
      \/ ReadChildren(p) \/ ReadSessions(p) \/ DeleteKeys(p)
      => UNCHANGED <<people, apiKeys, sessions, version>>
  BY DEF Arrive, RequestFails, FindUser, CheckEmail, ScanKeys, FindKey, ScanOthers, Share,
         FindAdmin, ScanUsers, ScanChildKeys, ReadChildren, ReadSessions, DeleteKeys, portal
<1> QED
  BY <1>1, <1>2, <1>3, <1>4, <1>5 DEF Step

\* An account is changed only by its own admin or the superadmin, although the check of
\* the parent admin comes calls before the write.
THEOREM TenancyHolds == Spec => Tenancy
<1>1. AccountsInv /\ [Next]_vars =>
        [\A u \in Users : Account(u)' # Account(u) =>
           \E p \in Threads : /\ threads'[p] # threads[p]
                              /\ parent[u] = None \/ threads[p].who \in {Root, parent[u]}]_vars
  BY StepTenancy DEF Next, MayChange
<1> QED
  BY <1>1, AccountsInvariance, PTL DEF Spec, Tenancy

-----------------------------------------------------------------------------
(* Portal links.                                                             *)

\* A request's step is its own thread's.
LEMMA OthersStay ==
  ASSUME AccountsInv, NEW p \in Threads, Arrive(p) \/ Step(p) \/ RequestFails(p),
         NEW q \in Threads \ {p}
  PROVE  threads'[q] = threads[q]
<1>1. threads \in [Threads -> ThreadRecords]
  BY CurrentThread
<1>2. (Ends(p) \/ \E pc : Goto(p, pc)) => threads'[q] = threads[q]
  BY <1>1 DEF Ends, Goto
<1>3. CASE CheckEmail(p) \/ InsertUser(p) \/ InsertKey(p) \/ InsertSession(p) \/ FindKey(p)
           \/ RevokeKey(p) \/ SetKey(p) \/ BumpVersion(p) \/ Share(p) \/ FindAdmin(p)
           \/ SetAdmin(p) \/ DeleteUsers(p) \/ RequestFails(p)
  BY <1>2, <1>3 DEF CheckEmail, InsertUser, InsertKey, InsertSession, FindKey, RevokeKey, SetKey,
                    BumpVersion, Share, FindAdmin, SetAdmin, DeleteUsers, RequestFails
<1>4. CASE FindUser(p) \/ ScanKeys(p) \/ ScanOthers(p) \/ ScanUsers(p) \/ ScanChildKeys(p)
           \/ ReadChildren(p) \/ ReadSessions(p) \/ DeleteKeys(p)
  BY <1>1, <1>2, <1>4 DEF FindUser, ScanKeys, ScanOthers, ScanUsers, ScanChildKeys, ReadChildren,
                          ReadSessions, DeleteKeys
<1>5. CASE Arrive(p)
  BY <1>1, <1>5 DEF Arrive
<1> QED
  BY <1>3, <1>4, <1>5 DEF Step

\* Of the steps of a thread at bump, BumpVersion is the only one that does not fail.
LEMMA BumpIsTheStep ==
  ASSUME NEW p \in Threads, Arrive(p) \/ Step(p) \/ RequestFails(p),
         threads[p].pc = "bump", faults \in Nat, faults' = faults
  PROVE  BumpVersion(p)
<1>1. ~Arrive(p) /\ ~RequestFails(p)
  BY DEF Arrive, RequestFails, At
<1>2. /\ ~FindUser(p) /\ ~CheckEmail(p) /\ ~InsertUser(p) /\ ~ScanKeys(p) /\ ~InsertKey(p)
      /\ ~InsertSession(p) /\ ~FindKey(p) /\ ~RevokeKey(p) /\ ~ScanOthers(p) /\ ~SetKey(p)
  BY DEF FindUser, CheckEmail, InsertUser, ScanKeys, InsertKey, InsertSession, FindKey, RevokeKey,
         ScanOthers, SetKey, At
<1>3. /\ ~Share(p) /\ ~FindAdmin(p) /\ ~ScanUsers(p) /\ ~ScanChildKeys(p) /\ ~SetAdmin(p)
      /\ ~ReadChildren(p) /\ ~ReadSessions(p) /\ ~DeleteKeys(p) /\ ~DeleteUsers(p)
  BY DEF Share, FindAdmin, ScanUsers, ScanChildKeys, SetAdmin, ReadChildren, ReadSessions,
         DeleteKeys, DeleteUsers, At
<1> QED
  BY <1>1, <1>2, <1>3 DEF Step

LEMMA VersionsGrow ==
  ASSUME AccountsInv, NEW p \in Threads, Arrive(p) \/ Step(p) \/ RequestFails(p),
         NEW u \in Users
  PROVE  version[u] \in Nat /\ version'[u] \in Nat /\ version[u] <= version'[u]
<1>1. version \in [Users -> Nat]
  BY CurrentThread DEF DataOK
<1>2. CASE version' = version
  BY <1>1, <1>2
<1>3. CASE BumpVersion(p)
  BY <1>1, <1>3 DEF BumpVersion, NextVersion, portal
<1>4. \/ Arrive(p) \/ RequestFails(p) \/ FindUser(p) \/ CheckEmail(p) \/ InsertUser(p)
      \/ ScanKeys(p) \/ InsertKey(p) \/ InsertSession(p) \/ FindKey(p) \/ RevokeKey(p)
      \/ ScanOthers(p) \/ SetKey(p) \/ Share(p) \/ FindAdmin(p) \/ ScanUsers(p)
      \/ ScanChildKeys(p) \/ SetAdmin(p) \/ ReadChildren(p) \/ ReadSessions(p)
      \/ DeleteKeys(p) \/ DeleteUsers(p)
      => version' = version
  BY DEF Arrive, RequestFails, FindUser, CheckEmail, InsertUser, ScanKeys, InsertKey,
         InsertSession, FindKey, RevokeKey, ScanOthers, SetKey, Share, FindAdmin, ScanUsers,
         ScanChildKeys, SetAdmin, ReadChildren, ReadSessions, DeleteKeys, DeleteUsers, portal
<1> QED
  BY <1>2, <1>3, <1>4 DEF Step

LEMMA ClosedStays ==
  ASSUME AccountsInv, NEW p \in Threads, Arrive(p) \/ Step(p) \/ RequestFails(p),
         NEW l \in links, Closed(l)
  PROVE  Closed(l)'
<1>1. l[1] \in Users /\ l[2] \in Nat /\ l[2] <= version[l[1]] /\ l[2] # version[l[1]]
  BY CurrentThread DEF AccountsInv, LinksBehind, DataOK, Closed
<1>2. /\ version[l[1]] \in Nat /\ version'[l[1]] \in Nat /\ version[l[1]] <= version'[l[1]]
  BY <1>1, VersionsGrow
<1>3. version'[l[1]] # l[2]
  BY <1>1, <1>2
<1> QED
  BY <1>3 DEF Closed

LEMMA BumpCloses ==
  ASSUME AccountsInv, NEW p \in Threads, BumpVersion(p),
         NEW l \in links, l[1] = threads[p].target, l[1] \in rows
  PROVE  Closed(l)'
<1>1. l[1] \in Users /\ l[2] \in Nat /\ l[2] <= version[l[1]] /\ version \in [Users -> Nat]
  BY CurrentThread DEF AccountsInv, LinksBehind, DataOK
<1>2. version'[l[1]] = version[l[1]] + 1
  BY <1>1 DEF BumpVersion, NextVersion
<1> QED
  BY <1>1, <1>2 DEF Closed

\* Revoked portal links stay revoked, and a revocation revokes every link of the user
\* handed out before its increment.
THEOREM RevocationIsFinal == Spec => RevocationHolds
<1>1. AccountsInv /\ [Next]_vars =>
        [/\ \A l \in links : Closed(l) => Closed(l)'
         /\ \A p \in Threads, l \in links :
              /\ threads[p].pc = "bump" /\ threads'[p] # threads[p] /\ faults' = faults
              /\ l[1] = threads[p].target /\ l[1] \in rows
              => Closed(l)']_vars
  <2> SUFFICES ASSUME AccountsInv, Next
               PROVE  /\ \A l \in links : Closed(l) => Closed(l)'
                      /\ \A p \in Threads, l \in links :
                           /\ threads[p].pc = "bump" /\ threads'[p] # threads[p]
                           /\ faults' = faults /\ l[1] = threads[p].target /\ l[1] \in rows
                           => Closed(l)'
    OBVIOUS
  <2>1. PICK q \in Threads : Arrive(q) \/ Step(q) \/ RequestFails(q)
    BY DEF Next
  <2>2. \A l \in links : Closed(l) => Closed(l)'
    BY <2>1, ClosedStays
  <2>3. ASSUME NEW p \in Threads, NEW l \in links,
               threads[p].pc = "bump", threads'[p] # threads[p], faults' = faults,
               l[1] = threads[p].target, l[1] \in rows
        PROVE  Closed(l)'
    <3>1. p = q
      BY <2>1, <2>3, OthersStay
    <3>2. BumpVersion(p)
      BY <2>1, <2>3, <3>1, CurrentThread, BumpIsTheStep
    <3> QED
      BY <2>3, <3>2, BumpCloses
  <2> QED
    BY <2>2, <2>3
<1> QED
  BY <1>1, AccountsInvariance, PTL DEF Spec, RevocationHolds

-----------------------------------------------------------------------------
(* The number of active keys.                                                *)

\* Thread p is about to commit an active key of u.
Opens(p, u) ==
    /\ threads[p].target = u
    /\ \/ threads[p].pc = "insertKey"
       \/ threads[p].pc = "setKey" /\ threads[p].op = "unblockKey"

\* The commit of p leaves the keys S as they are.
Spares(p, S) ==
    /\ S \cap threads[p].seenKeys = {}
    /\ threads[p].pc = "setKey" => KeyOf(threads[p]) \notin S

\* Active keys that a group of threads will all spare, and one more for each of those
\* threads, are no more than the threads there are.
Room(u) ==
    /\ IsFiniteSet(ActiveKeys(u))
    /\ \A S \in SUBSET ActiveKeys(u), Q \in SUBSET Threads :
         (\A q \in Q : Opens(q, u) /\ Spares(q, S))
           => Cardinality(S) + Cardinality(Q) <= Cardinality(Threads)

\* Every user has room.
RoomInv == \A u \in Users : Room(u)

LEMMA ThreadsAreFinite ==
  /\ Cardinality(Threads) \in Nat
  /\ \A Q \in SUBSET Threads : IsFiniteSet(Q) /\ Cardinality(Q) \in Nat
                               /\ Cardinality(Q) <= Cardinality(Threads)
<1>1. IsFiniteSet(Threads)
  BY AccountsAssumption
<1>2. ASSUME NEW Q \in SUBSET Threads
      PROVE  IsFiniteSet(Q) /\ Cardinality(Q) <= Cardinality(Threads)
  BY <1>1, FS_Subset
<1>3. \A Q \in SUBSET Threads : Cardinality(Q) \in Nat
  BY <1>2, FS_CardinalityType
<1> QED
  BY <1>1, <1>2, <1>3, FS_CardinalityType

\* What is asked of two states between which the step of p leaves the other threads alone.
Others(p) == \A q \in Threads \ {p} : threads'[q] = threads[q]

\* A step that activates no key of u, and after which p will activate none.
LEMMA RoomCloses ==
  ASSUME NEW p \in Threads, Others(p), NEW u \in Users, Room(u),
         ActiveKeys(u)' \subseteq ActiveKeys(u), ~Opens(p, u)'
  PROVE  Room(u)'
<1>1. IsFiniteSet(ActiveKeys(u)')
  BY FS_Subset DEF Room
<1>2. ASSUME NEW S \in SUBSET ActiveKeys(u)', NEW Q \in SUBSET Threads,
             \A q \in Q : Opens(q, u)' /\ Spares(q, S)'
      PROVE  Cardinality(S) + Cardinality(Q) <= Cardinality(Threads)
  <2>1. p \notin Q
    BY <1>2
  <2>2. \A q \in Q : Opens(q, u) /\ Spares(q, S)
    BY <1>2, <2>1 DEF Others, Opens, Spares, KeyOf
  <2> QED
    BY <1>2, <2>2 DEF Room
<1> QED
  BY <1>1, <1>2 DEF Room

\* A scan: p will activate a key of u and block every key of u that is active now.
LEMMA RoomOpens ==
  ASSUME NEW p \in Threads, Others(p), NEW u \in Users, Room(u),
         ActiveKeys(u)' \subseteq ActiveKeys(u),
         \A x \in ActiveKeys(u)' : x \in threads'[p].seenKeys
                                   \/ (threads'[p].pc = "setKey" /\ x = KeyOf(threads'[p]))
  PROVE  Room(u)'
<1>1. IsFiniteSet(ActiveKeys(u)')
  BY FS_Subset DEF Room
<1>2. ASSUME NEW S \in SUBSET ActiveKeys(u)', NEW Q \in SUBSET Threads,
             \A q \in Q : Opens(q, u)' /\ Spares(q, S)'
      PROVE  Cardinality(S) + Cardinality(Q) <= Cardinality(Threads)
  <2>1. CASE p \notin Q
    <3>1. \A q \in Q : Opens(q, u) /\ Spares(q, S)
      BY <1>2, <2>1 DEF Others, Opens, Spares, KeyOf
    <3> QED
      BY <1>2, <3>1 DEF Room
  <2>2. CASE p \in Q
    <3>1. Spares(p, S)'
      BY <1>2, <2>2
    <3>2. S = {}
      BY <3>1 DEF Spares, KeyOf
    <3> QED
      BY <3>2, ThreadsAreFinite, FS_EmptySet
  <2> QED
    BY <2>1, <2>2
<1> QED
  BY <1>1, <1>2 DEF Room

\* A commit: p activates k and blocks the keys of u it scanned.
LEMMA RoomIsTaken ==
  ASSUME NEW p \in Threads, Others(p), NEW u \in Users, Room(u), NEW k,
         Opens(p, u), ~Opens(p, u)', threads[p].pc = "setKey" => KeyOf(threads[p]) = k,
         ActiveKeys(u)' \subseteq (ActiveKeys(u) \ threads[p].seenKeys) \cup {k}
  PROVE  Room(u)'
<1>1. IsFiniteSet(ActiveKeys(u)')
  <2>1. IsFiniteSet(ActiveKeys(u) \cup {k})
    BY FS_AddElement DEF Room
  <2> QED
    BY <2>1, FS_Subset
<1>2. ASSUME NEW S \in SUBSET ActiveKeys(u)', NEW Q \in SUBSET Threads,
             \A q \in Q : Opens(q, u)' /\ Spares(q, S)'
      PROVE  Cardinality(S) + Cardinality(Q) <= Cardinality(Threads)
  <2>1. p \notin Q
    BY <1>2
  <2>2. \A q \in Q : Opens(q, u) /\ Spares(q, S)
    BY <1>2, <2>1 DEF Others, Opens, Spares, KeyOf
  <2>3. CASE k \notin S
    <3>1. S \in SUBSET ActiveKeys(u)
      BY <2>3
    <3> QED
      BY <2>2, <3>1 DEF Room
  <2>4. CASE k \in S
    <3> DEFINE T == S \ {k}
               R == Q \cup {p}
    <3>1. T \in SUBSET ActiveKeys(u) /\ R \in SUBSET Threads
      OBVIOUS
    <3>2. Spares(p, T)
      BY DEF Spares
    <3>3. \A q \in R : Opens(q, u) /\ Spares(q, T)
      <4>1. \A q \in Q : Spares(q, T)
        BY <2>2 DEF Spares
      <4> QED
        BY <2>2, <3>2, <4>1
    <3>4. Cardinality(T) + Cardinality(R) <= Cardinality(Threads)
      <4> HIDE DEF T, R
      <4> QED
        BY <3>1, <3>3 DEF Room
    <3>5. IsFiniteSet(S) /\ Cardinality(S) \in Nat
      BY <1>1, FS_Subset, FS_CardinalityType
    <3>6. Cardinality(T) = Cardinality(S) - 1
      BY <2>4, <3>5, FS_RemoveElement
    <3>7. Cardinality(Q) \in Nat /\ Cardinality(R) = Cardinality(Q) + 1
      BY <2>1, ThreadsAreFinite, FS_AddElement
    <3> HIDE DEF T, R
    <3> QED
      BY <3>4, <3>5, <3>6, <3>7, ThreadsAreFinite
  <2> QED
    BY <2>3, <2>4
<1> QED
  BY <1>1, <1>2 DEF Room

\* Threads about to look something up, and those whose calls open no key.
LEMMA ClosedPcs ==
  ASSUME NEW p \in Threads, NEW u,
         threads'[p].pc # "insertKey",
         threads'[p].pc = "setKey" => threads'[p].op # "unblockKey"
  PROVE  ~Opens(p, u)'
  BY DEF Opens

LEMMA EndsCloses ==
  ASSUME AccountsInv, NEW p \in Threads, Ends(p), NEW u
  PROVE  ~Opens(p, u)'
  BY CurrentThread, EndsThread DEF Opens, Free

\* The calls that leave the keys and end the request or move it elsewhere.
LEMMA NothingOpens ==
  ASSUME AccountsInv, NEW p \in Threads, NEW u,
         \/ Arrive(p) \/ RequestFails(p) \/ FindUser(p) \/ CheckEmail(p) \/ InsertUser(p)
         \/ InsertSession(p) \/ FindKey(p) \/ BumpVersion(p) \/ Share(p) \/ FindAdmin(p)
         \/ ScanUsers(p) \/ ScanChildKeys(p) \/ ReadChildren(p) \/ ReadSessions(p)
         \/ DeleteKeys(p)
  PROVE  UNCHANGED apiKeys /\ ~Opens(p, u)'
<1>1. UNCHANGED apiKeys
  BY DEF Arrive, RequestFails, FindUser, CheckEmail, InsertUser, InsertSession, FindKey,
         BumpVersion, Share, FindAdmin, ScanUsers, ScanChildKeys, ReadChildren, ReadSessions,
         DeleteKeys
<1>2. threads \in [Threads -> ThreadRecords] /\ threads[p] \in ThreadRecords
  BY CurrentThread
<1>3. CASE Arrive(p)
  <2>1. PICK who \in {Root} \cup (Admins \cap rows \cap enabled),
             op \in {"create"} \cup OnUser \cup OnKey \cup OnAdmin, target \in Accounts,
             key \in Keys :
               /\ Allowed(who, op, target)
               /\ threads' = [threads EXCEPT ![p] = Arrived(FirstPc(op), who, op, target, key)]
    BY <1>3 DEF Arrive, Arrived
  <2>2. FirstPc(op) \in {"email", "findUser", "findKey", "findAdmin"}
    BY DEF FirstPc, OnUser, OnKey, OnAdmin
  <2>3. Arrived(FirstPc(op), who, op, target, key).pc = FirstPc(op)
    <3>1. FirstPc(op) \in Pcs /\ op \in Ops
      BY <2>2 DEF Pcs, Ops
    <3> QED
      BY <3>1, ArrivedFields
  <2>4. threads'[p].pc = FirstPc(op)
    BY <1>2, <2>1, <2>3
  <2> QED
    BY <1>1, <2>2, <2>4, ClosedPcs
<1>4. CASE Ends(p)
  BY <1>1, <1>4, EndsCloses
<1>5. ASSUME NEW pc \in Pcs \ {"insertKey"}, Goto(p, pc),
             pc = "setKey" => threads[p].op # "unblockKey"
      PROVE  ~Opens(p, u)'
  <2>1. threads'[p].pc = pc /\ threads'[p].op = threads[p].op
    BY <1>2, <1>5, GotoThread DEF Same
  <2> QED
    BY <1>5, <2>1, ClosedPcs
<1>6. CASE CheckEmail(p) \/ InsertUser(p) \/ InsertSession(p) \/ BumpVersion(p) \/ Share(p)
           \/ RequestFails(p)
  BY <1>1, <1>4, <1>5, <1>6 DEF CheckEmail, InsertUser, InsertSession, BumpVersion, Share,
                                RequestFails, Pcs
<1>7. CASE FindKey(p)
  <2>1. \/ Ends(p)
        \/ Goto(p, "revoke") \/ Goto(p, "scanOthers")
        \/ threads[p].op # "unblockKey" /\ Goto(p, "setKey")
    BY <1>7 DEF FindKey
  <2> QED
    BY <1>1, <1>4, <1>5, <2>1 DEF Pcs
<1>8. CASE FindAdmin(p)
  <2>1. Ends(p) \/ Goto(p, "scanUsers") \/ Goto(p, "children") \/ Goto(p, "setAdmin")
    BY <1>8 DEF FindAdmin
  <2> QED
    BY <1>1, <1>4, <1>5, <2>1 DEF Pcs
<1>9. CASE FindUser(p) /\ ~Ends(p)
  <2> DEFINE t   == threads[p]
             ids == IF t.op = "deleteUser" THEN {t.target} ELSE {}
             pc  == CASE t.op = "createKey" -> "scanKeys"
                      [] t.op = "createSession" -> "session"
                      [] t.op = "deleteUser" -> "readSessions"
                      [] t.op = "revokeLinks" -> "bump"
                      [] OTHER -> "share"
  <2>1. threads' = [threads EXCEPT ![p] = Found(t, version[t.target], ids, pc)]
    BY <1>9 DEF FindUser, Found
  <2>2. pc \in {"scanKeys", "session", "readSessions", "bump", "share"}
    OBVIOUS
  <2> HIDE DEF ids, pc
  <2>3. threads'[p] = Found(t, version[t.target], ids, pc)
    BY <1>2, <2>1
  <2>4. threads'[p].pc = pc
    BY <1>2, <2>3 DEF Found, ThreadRecords
  <2> QED
    BY <1>1, <2>2, <2>4, ClosedPcs
<1>10. CASE ScanUsers(p) \/ ScanChildKeys(p) \/ ReadChildren(p) \/ ReadSessions(p)
            \/ DeleteKeys(p)
  <2>1. threads'[p].pc \in {"scanChildKeys", "setAdmin", "readSessions", "deleteKeys",
                            "deleteUsers"}
    BY <1>2, <1>10 DEF ScanUsers, ScanChildKeys, ReadChildren, ReadSessions, DeleteKeys,
                       ThreadRecords
  <2> QED
    BY <1>1, <2>1, ClosedPcs
<1> QED
  BY <1>3, <1>4, <1>6, <1>7, <1>8, <1>9, <1>10

\* The calls that activate nothing and end the request.
LEMMA FlagsFall ==
  ASSUME AccountsInv, NEW p \in Threads, NEW u,
         RevokeKey(p) \/ SetAdmin(p) \/ DeleteUsers(p)
  PROVE  ActiveKeys(u)' \subseteq ActiveKeys(u) /\ ~Opens(p, u)'
<1>1. active \subseteq keys /\ revoked \subseteq keys
  BY CurrentThread DEF DataOK
<1>2. (active \ revoked)' \subseteq active \ revoked
  BY <1>1 DEF RevokeKey, SetAdmin, DeleteUsers, Blocked
<1>3. Ends(p)
  BY DEF RevokeKey, SetAdmin, DeleteUsers
<1> QED
  BY <1>2, <1>3, EndsCloses DEF ActiveKeys, Of

LEMMA InsertKeyRoom ==
  ASSUME AccountsInv, NEW p \in Threads, InsertKey(p), Others(p), NEW u \in Users, Room(u)
  PROVE  Room(u)'
<1> DEFINE t == threads[p]
<1>1. t.pc = "insertKey" /\ ~Opens(p, u)'
  <2>1. Ends(p) \/ Goto(p, "session")
    BY DEF InsertKey
  <2>2. Goto(p, "session") => threads'[p].pc = "session"
    BY CurrentThread, GotoThread DEF Pcs
  <2> QED
    BY <2>1, <2>2, EndsCloses, ClosedPcs DEF InsertKey, At
<1>2. revoked' = revoked /\ revoked \subseteq keys /\ t.seenKeys \subseteq {t.target} \X Keys
  BY <1>1, CurrentThread DEF InsertKey, DataOK, ThreadInv
<1>3. CASE active' = active
  <2>1. ActiveKeys(u)' = ActiveKeys(u)
    BY <1>2, <1>3 DEF ActiveKeys
  <2> QED
    BY <1>1, <2>1, RoomCloses
<1>4. ASSUME NEW k \in Keys, <<t.target, k>> \notin keys,
             active' = Blocked(t) \cup {<<t.target, k>>}
      PROVE  Room(u)'
  <2>1. CASE u # t.target
    <3>1. ActiveKeys(u)' \subseteq ActiveKeys(u)
      BY <1>2, <1>4, <2>1 DEF ActiveKeys, Blocked, Of
    <3> QED
      BY <1>1, <3>1, RoomCloses
  <2>2. CASE u = t.target
    <3>1. Opens(p, u)
      BY <1>1, <2>2 DEF Opens
    <3>2. ActiveKeys(u)' \subseteq (ActiveKeys(u) \ t.seenKeys) \cup {<<t.target, k>>}
      BY <1>2, <1>4 DEF ActiveKeys, Blocked, Of
    <3> QED
      BY <1>1, <3>1, <3>2, RoomIsTaken
  <2> QED
    BY <2>1, <2>2
<1> QED
  BY <1>3, <1>4 DEF InsertKey

LEMMA SetKeyRoom ==
  ASSUME AccountsInv, NEW p \in Threads, SetKey(p), Others(p), NEW u \in Users, Room(u)
  PROVE  Room(u)'
<1> DEFINE t == threads[p]
<1>1. t.pc = "setKey" /\ ~Opens(p, u)' /\ revoked' = revoked
  BY EndsCloses DEF SetKey, At
<1>2. CASE ~Updates(KeyOf(t)) \/ t.op # "unblockKey" \/ u # t.target
  <2>1. ActiveKeys(u)' \subseteq ActiveKeys(u)
    BY <1>1, <1>2 DEF SetKey, ActiveKeys, Blocked, Of, KeyOf
  <2> QED
    BY <1>1, <2>1, RoomCloses
<1>3. CASE Updates(KeyOf(t)) /\ t.op = "unblockKey" /\ u = t.target
  <2>1. Opens(p, u)
    BY <1>1, <1>3 DEF Opens
  <2>2. ActiveKeys(u)' \subseteq (ActiveKeys(u) \ t.seenKeys) \cup {KeyOf(t)}
    BY <1>1, <1>3 DEF SetKey, ActiveKeys, Blocked, Of
  <2> QED
    BY <1>1, <2>1, <2>2, RoomIsTaken
<1> QED
  BY <1>2, <1>3

\* A transaction scans every active key of its user but the one it will activate.
LEMMA ScanRoom ==
  ASSUME AccountsInv, NEW p \in Threads, ScanKeys(p) \/ ScanOthers(p), Others(p),
         NEW u \in Users, Room(u)
  PROVE  Room(u)'
<1> DEFINE t == threads[p]
<1>1. t \in ThreadRecords /\ threads \in [Threads -> ThreadRecords] /\ active \subseteq keys
      /\ keys \subseteq Users \X Keys
  BY CurrentThread DEF DataOK
<1>2. ActiveKeys(u)' = ActiveKeys(u) /\ ActiveKeys(u) \subseteq Of(keys, {u})
  BY <1>1 DEF ScanKeys, ScanOthers, apiKeys, ActiveKeys, Of
<1>3. PICK pc \in Pcs, ks \in SUBSET (Users \X Keys) :
        /\ threads' = [threads EXCEPT ![p] = WithKeys(@, pc, ks)]
        /\ \/ ks = ActiveKeys(t.target)
           \/ pc = "setKey" /\ ks = Of(keys, {t.target}) \ {KeyOf(t)}
  BY <1>1 DEF ScanKeys, ScanOthers, WithKeys, Pcs, Of, ActiveKeys
<1>4. threads'[p] = WithKeys(t, pc, ks)
  BY <1>1, <1>3
<1>5. /\ threads'[p].pc = pc /\ threads'[p].seenKeys = ks
      /\ threads'[p].target = t.target /\ KeyOf(threads'[p]) = KeyOf(t)
  BY <1>1, <1>4, WithKeysFields DEF Same, KeyOf
<1>6. CASE u # t.target
  BY <1>2, <1>5, <1>6, RoomCloses DEF Opens
<1>7. CASE u = t.target
  <2>1. \A x \in ActiveKeys(u) : x \in ks \/ (pc = "setKey" /\ x = KeyOf(t))
    BY <1>2, <1>3, <1>7
  <2> QED
    BY <1>2, <1>5, <2>1, RoomOpens
<1> QED
  BY <1>6, <1>7

LEMMA RoomStep ==
  ASSUME AccountsInv, NEW p \in Threads, Arrive(p) \/ Step(p) \/ RequestFails(p),
         NEW u \in Users, Room(u)
  PROVE  Room(u)'
<1>1. Others(p)
  BY OthersStay DEF Others
<1>2. CASE UNCHANGED apiKeys /\ ~Opens(p, u)'
  <2>1. ActiveKeys(u)' = ActiveKeys(u)
    BY <1>2 DEF apiKeys, ActiveKeys
  <2> QED
    BY <1>1, <1>2, <2>1, RoomCloses
<1>3. CASE RevokeKey(p) \/ SetAdmin(p) \/ DeleteUsers(p)
  BY <1>1, <1>3, FlagsFall, RoomCloses
<1>4. CASE InsertKey(p)
  BY <1>1, <1>4, InsertKeyRoom
<1>5. CASE SetKey(p)
  BY <1>1, <1>5, SetKeyRoom
<1>6. CASE ScanKeys(p) \/ ScanOthers(p)
  BY <1>1, <1>6, ScanRoom
<1> QED
  BY <1>2, <1>3, <1>4, <1>5, <1>6, NothingOpens DEF Step

LEMMA InitRoom == Init => RoomInv
<1> SUFFICES ASSUME Init, NEW u \in Users PROVE Room(u)
  BY DEF RoomInv
<1>1. ActiveKeys(u) \subseteq {<<u, 1>>}
  BY DEF Init, ActiveKeys, Of
<1>2. \A S \in SUBSET ActiveKeys(u) : IsFiniteSet(S) /\ Cardinality(S) \in Nat
                                      /\ Cardinality(S) <= 1
  <2>1. IsFiniteSet({<<u, 1>>}) /\ Cardinality({<<u, 1>>}) = 1
    BY FS_Singleton
  <2>2. ASSUME NEW S \in SUBSET ActiveKeys(u)
        PROVE  IsFiniteSet(S) /\ Cardinality(S) <= 1
    <3>1. S \in SUBSET {<<u, 1>>}
      BY <1>1
    <3> QED
      BY <2>1, <3>1, FS_Subset
  <2> QED
    BY <2>2, FS_CardinalityType
<1>3. Cardinality(Threads) >= 1
  <2>1. Cardinality(Threads) # 0
    BY AccountsAssumption, FS_EmptySet
  <2> QED
    BY <2>1, ThreadsAreFinite
<1>4. \A q \in Threads : ~Opens(q, u)
  BY DEF Init, Opens, Free
<1>5. ASSUME NEW S \in SUBSET ActiveKeys(u), NEW Q \in SUBSET Threads,
             \A q \in Q : Opens(q, u) /\ Spares(q, S)
      PROVE  Cardinality(S) + Cardinality(Q) <= Cardinality(Threads)
  <2>1. Cardinality(Q) = 0
    <3>1. Q = {}
      BY <1>4, <1>5
    <3> QED
      BY <3>1, FS_EmptySet
  <2> QED
    BY <1>2, <1>3, <2>1, ThreadsAreFinite
<1> QED
  BY <1>2, <1>5 DEF Room

\* The keys of a user that will still be active when some of its overlapping creations and
\* unblockings have committed leave room for one more key of each of them.
THEOREM RoomInvariance == Spec => []RoomInv
<1>1. AccountsInv /\ RoomInv /\ [Next]_vars => RoomInv'
  <2> SUFFICES ASSUME AccountsInv, RoomInv, [Next]_vars, NEW u \in Users
               PROVE  Room(u)'
    BY DEF RoomInv
  <2>1. Room(u)
    BY DEF RoomInv
  <2>2. CASE Next
    BY <2>1, <2>2, RoomStep DEF Next
  <2>3. CASE UNCHANGED vars
    BY <2>1, <2>3 DEF vars, apiKeys, Room, ActiveKeys, Opens, Spares
  <2> QED
    BY <2>2, <2>3
<1> QED
  BY <1>1, InitRoom, AccountsInvariance, PTL DEF Spec

\* Every creation blocks the keys it sees active and every unblocking all others it sees,
\* but two that overlap spare what the other activates: a user has at most one active key
\* per request there can be at once.
THEOREM ActiveKeysAreBounded == Spec => []KeysBounded
<1>1. RoomInv => KeysBounded
  <2> SUFFICES ASSUME RoomInv, NEW u \in Users
               PROVE  Cardinality(ActiveKeys(u)) <= Cardinality(Threads)
    BY DEF KeysBounded
  <2>1. Cardinality(ActiveKeys(u)) + Cardinality({}) <= Cardinality(Threads)
    BY DEF RoomInv, Room
  <2>2. Cardinality({}) = 0 /\ Cardinality(ActiveKeys(u)) \in Nat
    BY FS_EmptySet, FS_CardinalityType DEF RoomInv, Room
  <2> QED
    BY <2>1, <2>2, ThreadsAreFinite
<1> QED
  BY <1>1, RoomInvariance, PTL

===============================================================================
