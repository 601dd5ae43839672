------------------------ MODULE SessionGateway_proofs ------------------------
(***************************************************************************)
(* Proofs about the gateway, for any number of threads, jobs, runtimes,    *)
(* sockets, restarts, faults and overlapping handlers.  What keeps two     *)
(* sockets of one runtime apart is the bookkeeping of generations: no two  *)
(* creations on a runtime share one, and none is ahead of the runtime's.   *)
(***************************************************************************)
EXTENDS SessionGatewayProperties, TLAPS

\* The creations so far, the runtimes they belong to and their generations.
Bookkeeping ==
    /\ \A c \in Conns : conns[c].stage # "unused" <=> c <= nConn
    /\ \A c \in Conns : conns[c].stage # "unused" =>
         /\ conns[c].rt \in 1..nRt
         /\ conns[c].gen <= runtimes[conns[c].rt].gen
    /\ \A c, d \in Conns :
         /\ conns[c].stage # "unused" /\ conns[d].stage # "unused"
         /\ conns[c].rt = conns[d].rt /\ conns[c].gen = conns[d].gen
         => c = d

MemoryInv == MemoryOK /\ Bookkeeping /\ PromisePending

\* A step that enters no connection: it renumbers nothing, and a promise whose creation
\* ends is cleared.
Quiet ==
    /\ nConn' = nConn /\ nRt <= nRt'
    /\ \A c \in Conns : /\ conns'[c].rt = conns[c].rt /\ conns'[c].gen = conns[c].gen
                        /\ conns'[c].stage = "unused" <=> conns[c].stage = "unused"
    /\ \A r \in Runtimes : /\ runtimes'[r].gen = runtimes[r].gen
                           /\ runtimes'[r].promise \in {0, runtimes[r].promise}
    /\ \A c \in Conns : conns[c].stage \in Pending /\ conns'[c].stage \notin Pending =>
                          runtimes'[conns[c].rt].promise = 0

-----------------------------------------------------------------------------
(* Helpers.                                                                  *)

\* A quiet step keeps the books.
LEMMA QuietKeeps == ASSUME MemoryInv, MemoryOK', Quiet PROVE MemoryInv'
<1>1. \A c \in Conns : conns[c].stage # "unused" =>
        /\ conns[c].rt \in Runtimes /\ conns[c].rt \in 1..nRt
        /\ conns'[c].rt = conns[c].rt /\ conns'[c].gen = conns[c].gen
        /\ runtimes'[conns[c].rt].gen = runtimes[conns[c].rt].gen
  BY GatewayAssumption DEF MemoryInv, MemoryOK, Bookkeeping, Quiet, Runtimes
<1>2. Bookkeeping'
  <2>1. nRt \in Nat /\ nRt' \in Nat /\ nRt <= nRt'
    BY GatewayAssumption DEF MemoryInv, MemoryOK, Quiet
  <2> QED
    BY <1>1, <2>1 DEF MemoryInv, Bookkeeping, Quiet
<1>3. PromisePending'
  <2> SUFFICES ASSUME NEW r \in Runtimes, runtimes'[r].promise # 0
               PROVE  /\ conns'[runtimes'[r].promise].rt = r
                      /\ conns'[runtimes'[r].promise].stage \in Pending
    BY DEF PromisePending
  <2> DEFINE c == runtimes[r].promise
  <2>1. c = runtimes'[r].promise /\ c \in Conns
    BY GatewayAssumption DEF MemoryInv, MemoryOK, Quiet, RuntimeRecords, Conns
  <2>2. conns[c].rt = r /\ conns[c].stage \in Pending
    BY <2>1 DEF MemoryInv, PromisePending
  <2> QED
    BY <2>1, <2>2 DEF Quiet
<1> QED
  BY <1>2, <1>3 DEF MemoryInv

\* Closing a socket's ws changes no more than a flag.
LEMMA ClosingEffect ==
  ASSUME NEW cs \in [Conns -> ConnRecords], NEW s
  PROVE  /\ Closing(cs, s) \in [Conns -> ConnRecords]
         /\ \A c \in Conns : /\ Closing(cs, s)[c].rt = cs[c].rt
                             /\ Closing(cs, s)[c].gen = cs[c].gen
                             /\ Closing(cs, s)[c].stage = cs[c].stage
<1>1. CASE s = 0
  BY <1>1 DEF Closing
<1>2. CASE s # 0
  BY <1>2 DEF Closing, ConnRecords
<1> QED
  BY <1>1, <1>2

\* One listener per runtime follows from the books.
LEMMA BooksGiveOneListener == MemoryInv => OneListener
  BY GatewayAssumption
     DEF MemoryInv, MemoryOK, Bookkeeping, OneListener, Listening, Runtimes, Conns,
         RuntimeRecords, ConnRecords

\* connectSession gives the runtime the next generation and the promise.
LEMMA ConnectingEffect ==
  ASSUME NEW rt \in RuntimeRecords, NEW force \in BOOLEAN, NEW c \in 0..MaxConns
  PROVE  /\ Connecting(rt, force, c) \in RuntimeRecords
         /\ Connecting(rt, force, c).gen = rt.gen + 1
         /\ Connecting(rt, force, c).promise = c
<1> DEFINE r1 == [rt EXCEPT !.timer = 0]
           r2 == [r1 EXCEPT !.closed = IF force /\ rt.socket # 0 THEN TRUE ELSE @]
           r3 == [r2 EXCEPT !.socket = IF force THEN 0 ELSE @]
           r4 == [r3 EXCEPT !.gen = NextGen(rt)]
           r5 == [r4 EXCEPT !.promise = c]
<1>1. r1 \in RuntimeRecords
  BY GatewayAssumption DEF RuntimeRecords
<1>2. r2 \in RuntimeRecords
  <2> HIDE DEF r1
  <2>1. CASE force /\ rt.socket # 0
    BY <1>1, <2>1 DEF RuntimeRecords
  <2>2. CASE ~(force /\ rt.socket # 0)
    BY <1>1, <2>2 DEF RuntimeRecords
  <2> QED
    BY <2>1, <2>2
<1>3. r3 \in RuntimeRecords
  <2> HIDE DEF r2
  <2> QED
    BY <1>2, GatewayAssumption DEF RuntimeRecords
<1>4. r4 \in RuntimeRecords
  <2> HIDE DEF r3
  <2> QED
    BY <1>3 DEF RuntimeRecords, NextGen
<1>5. r5 \in RuntimeRecords /\ r5.gen = rt.gen + 1 /\ r5.promise = c
  <2>1. r4.gen = rt.gen + 1
    BY <1>3 DEF RuntimeRecords, NextGen
  <2> HIDE DEF r4
  <2> QED
    BY <1>4, <2>1 DEF RuntimeRecords
<1>6. Connecting(rt, force, c) = r5
  BY DEF Connecting
<1> QED
  BY <1>5, <1>6

\* The connection it enters.
LEMMA NewConnEffect ==
  ASSUME NEW r \in Runtimes, NEW rt \in RuntimeRecords
  PROVE  /\ NewConn(r, rt) \in ConnRecords
         /\ NewConn(r, rt).rt = r /\ NewConn(r, rt).gen = rt.gen + 1
         /\ NewConn(r, rt).stage = "load"
<1> DEFINE c1 == [NoConn EXCEPT !.rt = r]
           c2 == [c1 EXCEPT !.gen = NextGen(rt)]
           c3 == [c2 EXCEPT !.stage = "load"]
<1>1. NoConn \in ConnRecords
  BY GatewayAssumption DEF NoConn, ConnRecords, Earlier
<1>2. c1 \in ConnRecords /\ c1.rt = r
  BY <1>1, GatewayAssumption DEF Runtimes, ConnRecords
<1>3. c2 \in ConnRecords /\ c2.rt = r /\ c2.gen = rt.gen + 1
  <2> HIDE DEF c1
  <2> QED
    BY <1>2 DEF RuntimeRecords, ConnRecords, NextGen
<1>4. c3 \in ConnRecords /\ c3.rt = r /\ c3.gen = rt.gen + 1 /\ c3.stage = "load"
  <2> HIDE DEF c2
  <2> QED
    BY <1>3 DEF ConnRecords, Pending
<1>5. NewConn(r, rt) = c3
  BY DEF NewConn
<1> QED
  BY <1>4, <1>5

\* connectSession enters a connection with a generation of its own.
LEMMA StartsKeeps ==
  ASSUME MemoryInv, NEW force \in BOOLEAN, NEW ts \in SUBSET Conns, StartsSocket(force, ts)
  PROVE  MemoryInv'
<1> DEFINE r == Here  c == nConn + 1
<1>1. /\ r \in Runtimes /\ c \in Conns /\ nConn \in Nat /\ nConn' = c /\ current' = r
      /\ nRt \in Nat /\ nRt' \in 0..MaxRuntimes /\ nRt <= nRt' /\ r \in 1..nRt'
  BY GatewayAssumption
     DEF MemoryInv, MemoryOK, StartsSocket, EnterRuntime, Here, Runtimes
<1>2. /\ runtimes' \in [Runtimes -> RuntimeRecords]
      /\ runtimes'[r].gen = runtimes[r].gen + 1 /\ runtimes'[r].promise = c
      /\ \A q \in Runtimes \ {r} : runtimes'[q] = runtimes[q]
  <2>1. runtimes \in [Runtimes -> RuntimeRecords] /\ runtimes[r] \in RuntimeRecords
    BY <1>1 DEF MemoryInv, MemoryOK
  <2>2. runtimes' = [runtimes EXCEPT ![r] = Connecting(runtimes[r], force, c)]
    BY DEF StartsSocket
  <2>3. c \in 0..MaxConns
    BY <1>1, GatewayAssumption DEF Conns
  <2>4. /\ Connecting(runtimes[r], force, c) \in RuntimeRecords
        /\ Connecting(runtimes[r], force, c).gen = runtimes[r].gen + 1
        /\ Connecting(runtimes[r], force, c).promise = c
    BY <2>1, <2>3, ConnectingEffect
  <2> QED
    BY <1>1, <2>1, <2>2, <2>4
<1>3. /\ conns' \in [Conns -> ConnRecords]
      /\ conns'[c].rt = r /\ conns'[c].gen = runtimes[r].gen + 1 /\ conns'[c].stage = "load"
      /\ \A d \in Conns \ {c} : /\ conns'[d].rt = conns[d].rt /\ conns'[d].gen = conns[d].gen
                                /\ conns'[d].stage = conns[d].stage
  <2> DEFINE cs == Closing(conns, IF force THEN runtimes[r].socket ELSE 0)
  <2>1. conns' = [cs EXCEPT ![c] = NewConn(r, runtimes[r])]
    BY DEF StartsSocket
  <2>2. /\ cs \in [Conns -> ConnRecords]
        /\ \A d \in Conns : cs[d].rt = conns[d].rt /\ cs[d].gen = conns[d].gen
                            /\ cs[d].stage = conns[d].stage
    BY ClosingEffect DEF MemoryInv, MemoryOK
  <2>3. /\ NewConn(r, runtimes[r]) \in ConnRecords
        /\ NewConn(r, runtimes[r]).rt = r /\ NewConn(r, runtimes[r]).gen = runtimes[r].gen + 1
        /\ NewConn(r, runtimes[r]).stage = "load"
    BY <1>1, NewConnEffect DEF MemoryInv, MemoryOK
  <2> HIDE DEF cs
  <2> QED
    BY <1>1, <2>1, <2>2, <2>3
<1>4. MemoryOK'
  <2>1. timers' \subseteq Conns
    BY DEF StartsSocket
  <2> QED
    BY <1>1, <1>2, <1>3, <2>1, GatewayAssumption DEF MemoryOK, Conns
<1>5. Bookkeeping'
  <2>1. \A d \in Conns : conns'[d].stage # "unused" <=> d <= nConn'
    BY <1>1, <1>3 DEF MemoryInv, Bookkeeping, Conns
  <2>2. \A d \in Conns : conns'[d].stage # "unused" =>
          conns'[d].rt \in 1..nRt' /\ conns'[d].gen <= runtimes'[conns'[d].rt].gen
    <3> SUFFICES ASSUME NEW d \in Conns, conns'[d].stage # "unused"
                 PROVE  conns'[d].rt \in 1..nRt' /\ conns'[d].gen <= runtimes'[conns'[d].rt].gen
      OBVIOUS
    <3>1. CASE d = c
      BY <3>1, <1>1, <1>2, <1>3 DEF MemoryInv, MemoryOK, RuntimeRecords
    <3>2. CASE d # c
      <4>1. /\ conns[d].rt \in Runtimes /\ conns[d].rt \in 1..nRt
            /\ conns[d].gen \in Nat /\ runtimes[conns[d].rt].gen \in Nat
            /\ conns[d].gen <= runtimes[conns[d].rt].gen
        BY <3>2, <1>3, GatewayAssumption
           DEF MemoryInv, MemoryOK, Bookkeeping, RuntimeRecords, ConnRecords, Runtimes
      <4>2. runtimes[conns[d].rt].gen <= runtimes'[conns[d].rt].gen
        BY <4>1, <1>1, <1>2
      <4> QED
        BY <3>2, <4>1, <4>2, <1>1, <1>2, <1>3 DEF RuntimeRecords
    <3> QED
      BY <3>1, <3>2
  <2>3. \A d \in Conns \ {c} : conns[d].stage # "unused" /\ conns[d].rt = r =>
          conns[d].gen < runtimes[r].gen + 1
    BY <1>1 DEF MemoryInv, MemoryOK, Bookkeeping, RuntimeRecords, ConnRecords
  <2>4. \A d, e \in Conns :
          /\ conns'[d].stage # "unused" /\ conns'[e].stage # "unused"
          /\ conns'[d].rt = conns'[e].rt /\ conns'[d].gen = conns'[e].gen
          => d = e
    BY <1>1, <1>3, <2>3 DEF MemoryInv, MemoryOK, Bookkeeping, RuntimeRecords, ConnRecords
  <2> QED
    BY <2>1, <2>2, <2>4 DEF Bookkeeping
<1>6. PromisePending'
  <2> SUFFICES ASSUME NEW q \in Runtimes, runtimes'[q].promise # 0
               PROVE  /\ conns'[runtimes'[q].promise].rt = q
                      /\ conns'[runtimes'[q].promise].stage \in Pending
    BY DEF PromisePending
  <2>1. CASE q = r
    BY <2>1, <1>2, <1>3 DEF Pending
  <2>2. CASE q # r
    <3> DEFINE d == runtimes[q].promise
    <3>1. runtimes'[q].promise = d /\ d \in Conns
      BY <2>2, <1>2, GatewayAssumption DEF MemoryInv, MemoryOK, RuntimeRecords, Conns
    <3>2. conns[d].rt = q /\ conns[d].stage \in Pending
      BY <3>1 DEF MemoryInv, PromisePending
    <3>3. d # c
      BY <3>1, <3>2, <1>1 DEF MemoryInv, Bookkeeping, Pending
    <3> QED
      BY <3>1, <3>2, <3>3, <1>3
  <2> QED
    BY <2>1, <2>2
<1> QED
  BY <1>4, <1>5, <1>6 DEF MemoryInv

-----------------------------------------------------------------------------
(* The memory invariant is inductive.                                        *)

\* A field set to a value of its type leaves a record well typed.
LEMMA RuntimeFields ==
  \A rt \in RuntimeRecords :
    /\ \A x \in 0..MaxConns : /\ [rt EXCEPT !.socket = x] \in RuntimeRecords
                              /\ [rt EXCEPT !.qr = x] \in RuntimeRecords
                              /\ [rt EXCEPT !.promise = x] \in RuntimeRecords
                              /\ [rt EXCEPT !.timer = x] \in RuntimeRecords
    /\ \A x \in Status : [rt EXCEPT !.status = x] \in RuntimeRecords
    /\ \A x \in BOOLEAN : [rt EXCEPT !.closed = x] \in RuntimeRecords
  BY DEF RuntimeRecords

\* The same for connections.
LEMMA ConnFields ==
  \A cn \in ConnRecords :
    /\ \A x \in Live \cup Pending \cup {"failed", "closed"} :
         [cn EXCEPT !.stage = x] \in ConnRecords
    /\ \A x \in 0..Earlier : [cn EXCEPT !.pair = x] \in ConnRecords
    /\ \A x \in BOOLEAN : [cn EXCEPT !.paired = x] \in ConnRecords
    /\ \A x \in BOOLEAN : [cn EXCEPT !.closing = x] \in ConnRecords
    /\ \A x \in {"lost", "logged_out"} : [cn EXCEPT !.cause = x] \in ConnRecords
  BY DEF ConnRecords

\* A step that changes one connection's record, not its number, and perhaps its runtime's.
OneConn(c, cn) == conns' = [conns EXCEPT ![c] = cn]
SameNumber(cn, c) == cn.rt = conns[c].rt /\ cn.gen = conns[c].gen
LEMMA OneConnKeeps ==
  ASSUME MemoryInv, NEW c \in Conns, NEW cn \in ConnRecords, OneConn(c, cn), SameNumber(cn, c),
         conns[c].stage # "unused", cn.stage # "unused",
         NEW rt \in RuntimeRecords,
         \/ runtimes' = runtimes /\ rt = runtimes[conns[c].rt]
         \/ runtimes' = [runtimes EXCEPT ![conns[c].rt] = rt],
         rt.gen = runtimes[conns[c].rt].gen,
         rt.promise \in {0, runtimes[conns[c].rt].promise},
         conns[c].stage \in Pending /\ cn.stage \notin Pending => rt.promise = 0,
         UNCHANGED <<current, nRt, nConn, timers>>
  PROVE  MemoryInv'
<1>1. conns[c].rt \in Runtimes
  BY GatewayAssumption DEF MemoryInv, MemoryOK, Bookkeeping, Runtimes
<1>2. conns' \in [Conns -> ConnRecords] /\ conns'[c] = cn /\ \A d \in Conns \ {c} : conns'[d] = conns[d]
  BY DEF MemoryInv, MemoryOK, OneConn
<1>3. /\ runtimes' \in [Runtimes -> RuntimeRecords] /\ runtimes'[conns[c].rt] = rt
      /\ \A r \in Runtimes \ {conns[c].rt} : runtimes'[r] = runtimes[r]
  BY <1>1 DEF MemoryInv, MemoryOK
<1>4. MemoryOK'
  BY <1>2, <1>3 DEF MemoryInv, MemoryOK
<1>5. Quiet
  BY <1>1, <1>2, <1>3, GatewayAssumption DEF MemoryInv, MemoryOK, Quiet, SameNumber
<1> QED
  BY <1>4, <1>5, QuietKeeps

GatewayInv == TypeOK /\ Bookkeeping /\ PromisePending

LEMMA InvGivesMemory == GatewayInv => MemoryInv
  BY DEF GatewayInv, TypeOK, MemoryInv

\* What an event does to its connection and, if it is listened to, to its runtime.
LEMMA EventKeeps ==
  ASSUME MemoryInv, NEW c \in Conns, conns[c].stage \in Live,
         NEW cn \in ConnRecords, OneConn(c, cn), SameNumber(cn, c), cn.stage # "unused",
         NEW rt \in RuntimeRecords, SetsRuntime(c, rt),
         rt.gen = runtimes[conns[c].rt].gen, rt.promise = runtimes[conns[c].rt].promise,
         UNCHANGED <<current, nRt, nConn, timers>>
  PROVE  MemoryInv'
<1>1. conns[c].stage # "unused" /\ conns[c].stage \notin Pending
  BY DEF Live, Pending
<1>2. runtimes[conns[c].rt] \in RuntimeRecords
  BY <1>1, GatewayAssumption DEF MemoryInv, MemoryOK, Bookkeeping, Runtimes
<1>3. CASE Listening(c)
  BY <1>1, <1>3, OneConnKeeps DEF SetsRuntime
<1>4. CASE ~Listening(c)
  BY <1>1, <1>2, <1>4, OneConnKeeps DEF SetsRuntime
<1> QED
  BY <1>3, <1>4

\* createSocket's first await: the credentials are there.
LEMMA LoadAuthMemory == ASSUME GatewayInv, NEW c \in Conns, LoadAuth(c) PROVE MemoryInv'
<1> DEFINE pair == IF auth # 0 THEN auth ELSE c
           paired == (auth # 0)
           cn == [conns[c] EXCEPT !.stage = "make", !.pair = pair, !.paired = paired]
<1>1. conns[c] \in ConnRecords /\ MemoryInv /\ conns[c].stage = "load"
  BY InvGivesMemory DEF MemoryInv, MemoryOK, LoadAuth
<1>2. pair \in 0..Earlier /\ paired \in BOOLEAN
  BY GatewayAssumption DEF GatewayInv, TypeOK, StoreOK, Conns, Earlier
<1>3. OneConn(c, cn)
  BY DEF LoadAuth, OneConn
<1> HIDE DEF pair, paired
<1>4. cn \in ConnRecords
  BY <1>1, <1>2, ConnFields DEF Pending
<1>5. cn.stage = "make" /\ SameNumber(cn, c)
  BY <1>1 DEF SameNumber, ConnRecords
<1> HIDE DEF cn
<1>6. runtimes[conns[c].rt] \in RuntimeRecords
  BY <1>1, GatewayAssumption DEF MemoryInv, MemoryOK, Bookkeeping, Runtimes
<1> QED
  BY <1>1, <1>3, <1>4, <1>5, <1>6, OneConnKeeps DEF LoadAuth, Pending

\* The creation fails: the promise it was is cleared.
LEMMA LoadFailsMemory == ASSUME GatewayInv, NEW c \in Conns, LoadFails(c) PROVE MemoryInv'
<1> DEFINE cn == [conns[c] EXCEPT !.stage = "failed"]
           rt == [runtimes[conns[c].rt] EXCEPT !.promise = 0]
<1>1. conns[c] \in ConnRecords /\ MemoryInv /\ conns[c].stage = "load"
  BY InvGivesMemory DEF MemoryInv, MemoryOK, LoadFails
<1>2. runtimes[conns[c].rt] \in RuntimeRecords /\ 0 \in 0..MaxConns
  BY <1>1, GatewayAssumption DEF MemoryInv, MemoryOK, Bookkeeping, Runtimes
<1>3. OneConn(c, cn) /\ runtimes' = [runtimes EXCEPT ![conns[c].rt] = rt]
  BY DEF LoadFails, OneConn
<1>4. cn \in ConnRecords /\ rt \in RuntimeRecords
  BY <1>1, <1>2, ConnFields, RuntimeFields
<1>5. /\ cn.stage = "failed" /\ SameNumber(cn, c)
      /\ rt.promise = 0 /\ rt.gen = runtimes[conns[c].rt].gen
  BY <1>1, <1>2 DEF SameNumber, ConnRecords, RuntimeRecords
<1> HIDE DEF cn, rt
<1> QED
  BY <1>1, <1>3, <1>4, <1>5, OneConnKeeps DEF LoadFails

\* The socket is made: so is the promise it was.
LEMMA MakeSocketMemory == ASSUME GatewayInv, NEW c \in Conns, MakeSocket(c) PROVE MemoryInv'
<1> DEFINE cn == [conns[c] EXCEPT !.stage = "new"]
           rt == Created(runtimes[conns[c].rt], c)
<1>1. conns[c] \in ConnRecords /\ MemoryInv /\ conns[c].stage = "make"
  BY InvGivesMemory DEF MemoryInv, MemoryOK, MakeSocket
<1>2. /\ runtimes[conns[c].rt] \in RuntimeRecords
      /\ 0 \in 0..MaxConns /\ c \in 0..MaxConns
  BY <1>1, GatewayAssumption DEF MemoryInv, MemoryOK, Bookkeeping, Runtimes, Conns
<1>3. OneConn(c, cn) /\ runtimes' = [runtimes EXCEPT ![conns[c].rt] = rt]
  BY DEF MakeSocket, OneConn
<1>4. cn \in ConnRecords
  BY <1>1, ConnFields DEF Live
<1>5. rt \in RuntimeRecords
  BY <1>2, RuntimeFields DEF Created
<1>6. rt.promise = 0 /\ rt.gen = runtimes[conns[c].rt].gen
  BY <1>2 DEF Created, RuntimeRecords
<1>7. cn.stage = "new" /\ SameNumber(cn, c)
  BY <1>1 DEF SameNumber, ConnRecords
<1> HIDE DEF cn, rt
<1> QED
  BY <1>1, <1>3, <1>4, <1>5, <1>6, <1>7, OneConnKeeps DEF MakeSocket
\* What a listened-to event needs: its connection and its runtime are real ones.
LEMMA LiveConn ==
  ASSUME MemoryInv, NEW c \in Conns, conns[c].stage \in Live
  PROVE  /\ conns[c] \in ConnRecords /\ runtimes[conns[c].rt] \in RuntimeRecords
         /\ 0 \in 0..MaxConns /\ c \in 0..MaxConns
<1>1. conns[c].stage # "unused"
  BY DEF Live
<1> QED
  BY <1>1, GatewayAssumption DEF MemoryInv, MemoryOK, Bookkeeping, Runtimes, Conns

\* A connection whose stage is all that changes.
LEMMA StageChanges ==
  ASSUME NEW c, conns[c] \in ConnRecords, NEW s \in Live \cup Pending \cup {"failed", "closed"}
  PROVE  /\ [conns[c] EXCEPT !.stage = s] \in ConnRecords
         /\ SameNumber([conns[c] EXCEPT !.stage = s], c)
         /\ [conns[c] EXCEPT !.stage = s].stage # "unused"
<1>1. s # "unused"
  BY DEF Live, Pending
<1> QED
  BY <1>1, ConnFields DEF SameNumber, ConnRecords

\* The connecting event.
LEMMA ConnectingMemory == ASSUME GatewayInv, NEW c \in Conns, EmitConnecting(c) PROVE MemoryInv'
<1> DEFINE cn == [conns[c] EXCEPT !.stage = "connecting"]
           st == IF runtimes[conns[c].rt].qr # 0 THEN "pending_qr" ELSE "reconnecting"
           rt == [runtimes[conns[c].rt] EXCEPT !.status = st]
<1>1. MemoryInv /\ conns[c].stage \in Live
  BY InvGivesMemory DEF EmitConnecting, Live
<1>2. conns[c] \in ConnRecords /\ runtimes[conns[c].rt] \in RuntimeRecords
  BY <1>1, LiveConn
<1>3. OneConn(c, cn) /\ SetsRuntime(c, rt)
  BY DEF EmitConnecting, OneConn
<1>4. cn \in ConnRecords /\ SameNumber(cn, c) /\ cn.stage # "unused"
  BY <1>2, StageChanges DEF Live
<1>5. st \in Status
  BY DEF Status
<1> HIDE DEF st
<1>6. rt \in RuntimeRecords
  BY <1>2, <1>5, RuntimeFields
<1>7. rt.gen = runtimes[conns[c].rt].gen /\ rt.promise = runtimes[conns[c].rt].promise
  BY <1>2 DEF RuntimeRecords
<1> HIDE DEF cn, rt
<1> QED
  BY <1>1, <1>3, <1>4, <1>6, <1>7, EventKeeps DEF EmitConnecting

\* The QR event.
LEMMA QrMemory == ASSUME GatewayInv, NEW c \in Conns, EmitQr(c) PROVE MemoryInv'
<1> DEFINE cn == [conns[c] EXCEPT !.stage = "qr"]
           r0 == runtimes[conns[c].rt]
           r1 == [r0 EXCEPT !.qr = c]
           rt == [r1 EXCEPT !.status = "pending_qr"]
<1>1. MemoryInv /\ conns[c].stage \in Live
  BY InvGivesMemory DEF EmitQr, Live
<1>2. conns[c] \in ConnRecords /\ r0 \in RuntimeRecords /\ c \in 0..MaxConns
  BY <1>1, LiveConn
<1>3. OneConn(c, cn) /\ SetsRuntime(c, rt)
  BY DEF EmitQr, OneConn
<1>4. cn \in ConnRecords /\ SameNumber(cn, c) /\ cn.stage # "unused"
  BY <1>2, StageChanges DEF Live
<1> HIDE DEF r0
<1>5. r1 \in RuntimeRecords /\ r1.gen = r0.gen /\ r1.promise = r0.promise
  BY <1>2, RuntimeFields DEF RuntimeRecords
<1> HIDE DEF r1
<1>6. rt \in RuntimeRecords /\ rt.gen = r0.gen /\ rt.promise = r0.promise
  BY <1>5, RuntimeFields DEF RuntimeRecords, Status
<1> HIDE DEF cn, rt
<1>7. rt.gen = runtimes[conns[c].rt].gen /\ rt.promise = runtimes[conns[c].rt].promise
  BY <1>6 DEF r0
<1> QED
  BY <1>1, <1>3, <1>4, <1>6, <1>7, EventKeeps DEF EmitQr

\* The open event.
LEMMA OpenMemory == ASSUME GatewayInv, NEW c \in Conns, EmitOpen(c) PROVE MemoryInv'
<1> DEFINE cn == [conns[c] EXCEPT !.stage = "open"]
           r0 == runtimes[conns[c].rt]
           r1 == [r0 EXCEPT !.status = "connected"]
           rt == [r1 EXCEPT !.qr = 0]
<1>1. MemoryInv /\ conns[c].stage \in Live
  BY InvGivesMemory DEF EmitOpen, Live
<1>2. conns[c] \in ConnRecords /\ r0 \in RuntimeRecords /\ 0 \in 0..MaxConns
  BY <1>1, LiveConn
<1>3. OneConn(c, cn) /\ SetsRuntime(c, rt)
  BY DEF EmitOpen, OneConn
<1>4. cn \in ConnRecords /\ SameNumber(cn, c) /\ cn.stage # "unused"
  BY <1>2, StageChanges DEF Live
<1> HIDE DEF r0
<1>5. r1 \in RuntimeRecords /\ r1.gen = r0.gen /\ r1.promise = r0.promise
  BY <1>2, RuntimeFields DEF RuntimeRecords, Status
<1> HIDE DEF r1
<1>6. rt \in RuntimeRecords /\ rt.gen = r0.gen /\ rt.promise = r0.promise
  BY <1>2, <1>5, RuntimeFields DEF RuntimeRecords
<1> HIDE DEF cn, rt
<1>7. rt.gen = runtimes[conns[c].rt].gen /\ rt.promise = runtimes[conns[c].rt].promise
  BY <1>6 DEF r0
<1> QED
  BY <1>1, <1>3, <1>4, <1>6, <1>7, EventKeeps DEF EmitOpen

\* New credentials: the runtime is not touched.
LEMMA CredsMemory == ASSUME GatewayInv, NEW c \in Conns, EmitCreds(c) PROVE MemoryInv'
<1> DEFINE cn == [conns[c] EXCEPT !.paired = TRUE]
           rt == runtimes[conns[c].rt]
<1>1. MemoryInv /\ conns[c].stage \in Live
  BY InvGivesMemory DEF EmitCreds, Live
<1>2. conns[c] \in ConnRecords /\ rt \in RuntimeRecords
  BY <1>1, LiveConn
<1>3. OneConn(c, cn) /\ runtimes' = runtimes
  BY DEF EmitCreds, OneConn
<1>4. cn \in ConnRecords
  BY <1>2, ConnFields
<1>5. SameNumber(cn, c) /\ cn.stage = conns[c].stage
  BY <1>2 DEF SameNumber, ConnRecords
<1>6. conns[c].stage # "unused" /\ conns[c].stage \notin Pending
  BY <1>1 DEF Live, Pending
<1> HIDE DEF cn
<1> QED
  BY <1>1, <1>2, <1>3, <1>4, <1>5, <1>6, OneConnKeeps DEF EmitCreds

\* The close event.
LEMMA CloseMemory == ASSUME GatewayInv, NEW c \in Conns, EmitClose(c) PROVE MemoryInv'
<1> PICK cause \in {"lost", "logged_out"} :
      /\ MayEmit(c, "close")
      /\ conns' = [conns EXCEPT ![c] = [@ EXCEPT !.stage = "closed", !.cause = cause]]
      /\ SetsRuntime(c, Closed(runtimes[conns[c].rt], cause))
      /\ UNCHANGED <<current, nRt, nConn, timers>>
  BY DEF EmitClose
<1> DEFINE c1 == [conns[c] EXCEPT !.stage = "closed"]
           cn == [c1 EXCEPT !.cause = cause]
           r0 == runtimes[conns[c].rt]
           r1 == [r0 EXCEPT !.socket = 0]
           r2 == [r1 EXCEPT !.qr = 0]
           st == IF cause = "lost" THEN "disconnected" ELSE cause
           rt == [r2 EXCEPT !.status = st]
<1>1. MemoryInv /\ conns[c].stage \in Live
  BY InvGivesMemory DEF MayEmit
<1>2. conns[c] \in ConnRecords /\ r0 \in RuntimeRecords /\ 0 \in 0..MaxConns
  BY <1>1, LiveConn
<1>3. OneConn(c, cn) /\ SetsRuntime(c, rt)
  BY DEF OneConn, Closed
<1>4. c1 \in ConnRecords /\ SameNumber(c1, c) /\ c1.stage # "unused"
  BY <1>2, StageChanges DEF Live
<1> HIDE DEF c1
<1>5. cn \in ConnRecords
  BY <1>4, ConnFields
<1>6. SameNumber(cn, c) /\ cn.stage # "unused"
  BY <1>4 DEF SameNumber, ConnRecords
<1>7. st \in Status
  BY DEF Status
<1> HIDE DEF r0, st
<1>8. r1 \in RuntimeRecords /\ r1.gen = r0.gen /\ r1.promise = r0.promise
  BY <1>2, RuntimeFields DEF RuntimeRecords
<1> HIDE DEF r1
<1>9. r2 \in RuntimeRecords /\ r2.gen = r0.gen /\ r2.promise = r0.promise
  BY <1>2, <1>8, RuntimeFields DEF RuntimeRecords
<1> HIDE DEF r2
<1>10. rt \in RuntimeRecords /\ rt.gen = r0.gen /\ rt.promise = r0.promise
  BY <1>7, <1>9, RuntimeFields DEF RuntimeRecords
<1> HIDE DEF cn, rt
<1>11. rt.gen = runtimes[conns[c].rt].gen /\ rt.promise = runtimes[conns[c].rt].promise
  BY <1>10 DEF r0
<1> QED
  BY <1>1, <1>3, <1>5, <1>6, <1>10, <1>11, EventKeeps

\* A step that keeps the connections' and the runtimes' numbers, promises and stages.
LEMMA SameBooks ==
  ASSUME MemoryInv, MemoryOK', nRt <= nRt', nConn' = nConn,
         \A c \in Conns : /\ conns'[c].rt = conns[c].rt /\ conns'[c].gen = conns[c].gen
                          /\ conns'[c].stage = conns[c].stage,
         \A r \in Runtimes : /\ runtimes'[r].gen = runtimes[r].gen
                             /\ runtimes'[r].promise = runtimes[r].promise
  PROVE  MemoryInv'
<1>1. Quiet
  BY DEF Quiet
<1> QED
  BY <1>1, QuietKeeps

\* A runtime's timer is all that changes.
LEMMA TimerSet ==
  ASSUME NEW rs \in [Runtimes -> RuntimeRecords], NEW r, NEW c \in Conns
  PROVE  /\ [rs EXCEPT ![r].timer = c] \in [Runtimes -> RuntimeRecords]
         /\ \A q \in Runtimes : /\ [rs EXCEPT ![r].timer = c][q].gen = rs[q].gen
                                /\ [rs EXCEPT ![r].timer = c][q].promise = rs[q].promise
<1> DEFINE rt == [rs[r] EXCEPT !.timer = c]
<1>1. [rs EXCEPT ![r].timer = c] = [rs EXCEPT ![r] = rt]
  OBVIOUS
<1>2. CASE r \in Runtimes
  <2>1. rt \in RuntimeRecords /\ rt.gen = rs[r].gen /\ rt.promise = rs[r].promise
    BY <1>2, GatewayAssumption, RuntimeFields DEF RuntimeRecords, Conns
  <2> HIDE DEF rt
  <2> QED
    BY <1>1, <1>2, <2>1
<1>3. CASE r \notin Runtimes
  <2> HIDE DEF rt
  <2> QED
    BY <1>1, <1>3
<1> QED
  BY <1>2, <1>3

\* What disposeRuntime changes: two fields of the runtime in the map, one of its socket.
LEMMA DisposedEffect ==
  ASSUME MemoryInv
  PROVE  /\ DisposedRuntimes \in [Runtimes -> RuntimeRecords]
         /\ \A r \in Runtimes : /\ DisposedRuntimes[r].gen = runtimes[r].gen
                                /\ DisposedRuntimes[r].promise = runtimes[r].promise
         /\ DisposedConns \in [Conns -> ConnRecords]
         /\ \A c \in Conns : /\ DisposedConns[c].rt = conns[c].rt
                             /\ DisposedConns[c].gen = conns[c].gen
                             /\ DisposedConns[c].stage = conns[c].stage
         /\ DisposedTimers \subseteq Conns
<1>1. /\ runtimes \in [Runtimes -> RuntimeRecords] /\ conns \in [Conns -> ConnRecords]
      /\ timers \subseteq Conns
  BY DEF MemoryInv, MemoryOK
<1>2. CASE current = 0
  BY <1>1, <1>2 DEF DisposedRuntimes, DisposedConns, DisposedTimers
<1>3. CASE current # 0
  <2> DEFINE r0 == runtimes[current]
             r1 == [r0 EXCEPT !.closed = TRUE]
             rt == [r1 EXCEPT !.timer = 0]
  <2>1. current \in Runtimes
    BY <1>3, GatewayAssumption DEF MemoryInv, MemoryOK, Runtimes
  <2>2. r0 \in RuntimeRecords /\ 0 \in 0..MaxConns
    BY <1>1, <2>1, GatewayAssumption
  <2>3. DisposedRuntimes = [runtimes EXCEPT ![current] = rt]
    BY <1>3 DEF DisposedRuntimes
  <2> HIDE DEF r0
  <2>4. r1 \in RuntimeRecords /\ r1.gen = r0.gen /\ r1.promise = r0.promise
    BY <2>2, RuntimeFields DEF RuntimeRecords
  <2> HIDE DEF r1
  <2>5. rt \in RuntimeRecords /\ rt.gen = r0.gen /\ rt.promise = r0.promise
    BY <2>2, <2>4, RuntimeFields DEF RuntimeRecords
  <2> HIDE DEF rt
  <2>6. /\ DisposedRuntimes \in [Runtimes -> RuntimeRecords]
        /\ \A r \in Runtimes : /\ DisposedRuntimes[r].gen = runtimes[r].gen
                               /\ DisposedRuntimes[r].promise = runtimes[r].promise
    BY <1>1, <2>1, <2>3, <2>5 DEF r0
  <2>7. DisposedConns = Closing(conns, runtimes[current].socket)
    BY <1>3 DEF DisposedConns
  <2>8. DisposedTimers \subseteq Conns
    BY <1>1 DEF DisposedTimers
  <2> QED
    BY <1>1, <2>6, <2>7, <2>8, ClosingEffect
<1> QED
  BY <1>2, <1>3

\* disposeRuntime, as the QR job calls it.
LEMMA StartQrMemory == ASSUME GatewayInv, StartQr PROVE MemoryInv'
<1>1. MemoryInv
  BY InvGivesMemory
<1>2. /\ runtimes' = DisposedRuntimes /\ conns' = DisposedConns /\ timers' = DisposedTimers
      /\ current' = 0 /\ nRt' = nRt /\ nConn' = nConn
  BY DEF StartQr, DisposeRuntime
<1>3. nRt \in 0..MaxRuntimes /\ nRt <= nRt /\ 0 \in 0..nRt /\ nConn \in 0..MaxConns
  BY <1>1, GatewayAssumption DEF MemoryInv, MemoryOK
<1>4. MemoryOK'
  BY <1>1, <1>2, <1>3, DisposedEffect DEF MemoryOK
<1> QED
  BY <1>1, <1>2, <1>3, <1>4, DisposedEffect, SameBooks

\* disposeRuntime, as a handler that finds no session calls it.
LEMMA DisposeMissingMemory ==
  ASSUME GatewayInv, NEW c \in Conns, NEW e \in Events, DisposeMissing(c, e)
  PROVE  MemoryInv'
<1> DEFINE r == conns[c].rt
           arms == Lost(c, e) /\ ~DisposedRuntimes[r].closed
<1>1. MemoryInv
  BY InvGivesMemory
<1>2. /\ runtimes' = IF arms THEN [DisposedRuntimes EXCEPT ![r].timer = c] ELSE DisposedRuntimes
      /\ conns' = DisposedConns /\ timers' = DisposedTimers \cup (IF arms THEN {c} ELSE {})
      /\ current' = 0 /\ nRt' = nRt /\ nConn' = nConn
  BY DEF DisposeMissing
<1> HIDE DEF arms
<1>3. nRt \in 0..MaxRuntimes /\ nRt <= nRt /\ 0 \in 0..nRt /\ nConn \in 0..MaxConns
  BY <1>1, GatewayAssumption DEF MemoryInv, MemoryOK
<1>4. /\ runtimes' \in [Runtimes -> RuntimeRecords]
      /\ \A q \in Runtimes : /\ runtimes'[q].gen = runtimes[q].gen
                             /\ runtimes'[q].promise = runtimes[q].promise
  <2>1. CASE arms
    BY <1>1, <1>2, <2>1, DisposedEffect, TimerSet
  <2>2. CASE ~arms
    BY <1>1, <1>2, <2>2, DisposedEffect
  <2> QED
    BY <2>1, <2>2
<1>5. timers' \subseteq Conns
  BY <1>1, <1>2, DisposedEffect
<1>6. MemoryOK'
  BY <1>1, <1>2, <1>3, <1>4, <1>5, DisposedEffect DEF MemoryOK
<1> QED
  BY <1>1, <1>2, <1>3, <1>4, <1>6, DisposedEffect, SameBooks

\* The reconnect timer is set.
LEMMA ArmTimerMemory ==
  ASSUME GatewayInv, NEW c \in Conns, NEW e \in Events, ArmTimer(c, e)
  PROVE  MemoryInv'
<1> DEFINE r == conns[c].rt
<1>1. MemoryInv /\ runtimes \in [Runtimes -> RuntimeRecords] /\ timers \subseteq Conns
  BY InvGivesMemory DEF MemoryInv, MemoryOK
<1>2. nRt <= nRt /\ UNCHANGED <<current, nRt, nConn, conns>>
  BY <1>1, GatewayAssumption DEF MemoryInv, MemoryOK, ArmTimer
<1>3. /\ runtimes' \in [Runtimes -> RuntimeRecords] /\ timers' \subseteq Conns
      /\ \A q \in Runtimes : /\ runtimes'[q].gen = runtimes[q].gen
                             /\ runtimes'[q].promise = runtimes[q].promise
  <2>1. CASE MayArm(r)
    <3>1. runtimes' = [runtimes EXCEPT ![r].timer = c] /\ timers' = timers \cup {c}
      BY <2>1 DEF ArmTimer
    <3> QED
      BY <1>1, <3>1, TimerSet
  <2>2. CASE ~MayArm(r)
    BY <1>1, <2>2 DEF ArmTimer
  <2> QED
    BY <2>1, <2>2
<1>4. MemoryOK'
  BY <1>1, <1>2, <1>3 DEF MemoryInv, MemoryOK
<1> QED
  BY <1>1, <1>2, <1>3, <1>4, SameBooks

\* The poll of waitForState enters a runtime.
LEMMA EnterMemory == ASSUME GatewayInv, NEW p, WaitEnters(p) PROVE MemoryInv'
<1>1. MemoryInv
  BY InvGivesMemory
<1>2. /\ nRt \in Nat /\ nRt' \in 0..MaxRuntimes /\ nRt <= nRt' /\ current' \in 0..nRt'
      /\ UNCHANGED <<runtimes, nConn, conns, timers>>
  BY <1>1, GatewayAssumption DEF WaitEnters, EnterRuntime, Here, MemoryInv, MemoryOK, Runtimes
<1>3. MemoryOK'
  BY <1>1, <1>2 DEF MemoryInv, MemoryOK
<1> QED
  BY <1>1, <1>2, <1>3, SameBooks

\* A step that leaves the memory alone, but for timers that fire.
LEMMA MemoryKept ==
  ASSUME GatewayInv, UNCHANGED <<current, nRt, runtimes, nConn, conns>>, timers' \subseteq Conns
  PROVE  MemoryInv'
<1>1. MemoryInv
  BY InvGivesMemory
<1>2. MemoryOK' /\ nRt <= nRt'
  BY <1>1, GatewayAssumption DEF MemoryInv, MemoryOK
<1> QED
  BY <1>1, <1>2, SameBooks

\* connectSession called by a timer or by the start-up restore.
LEMMA BackgroundMemory ==
  ASSUME GatewayInv, NEW ts \in SUBSET Conns, ConnectsInBackground(ts)
  PROVE  MemoryInv'
<1>1. CASE StartsSocket(FALSE, ts)
  BY <1>1, InvGivesMemory, StartsKeeps
<1>2. CASE AlreadyConnected(ts)
  BY <1>2, MemoryKept DEF AlreadyConnected
<1>3. CASE JoinsPromise(ts)
  BY <1>3, MemoryKept DEF JoinsPromise
<1> QED
  BY <1>1, <1>2, <1>3 DEF ConnectsInBackground

\* connectSession called by a job.
LEMMA ConnectMemory == ASSUME GatewayInv, NEW p \in Threads, Connect(p) PROVE MemoryInv'
<1>1. timers \in SUBSET Conns /\ (p = Qr) \in BOOLEAN
  BY InvGivesMemory DEF MemoryInv, MemoryOK
<1>2. CASE StartsSocket(p = Qr, timers)
  BY <1>1, <1>2, InvGivesMemory, StartsKeeps
<1>3. CASE JoinsPromise(timers)
  BY <1>1, <1>3, MemoryKept DEF JoinsPromise
<1>4. CASE AlreadyConnected(timers)
  BY <1>1, <1>4, MemoryKept DEF AlreadyConnected
<1> QED
  BY <1>2, <1>3, <1>4 DEF Connect

\* A new process starts with an empty map; what is numbered stays numbered.
LEMMA RestartMemory == ASSUME GatewayInv, Restart PROVE MemoryInv'
<1>1. MemoryInv
  BY InvGivesMemory
<1>2. /\ runtimes' \in [Runtimes -> RuntimeRecords]
      /\ \A r \in Runtimes : runtimes'[r].gen = runtimes[r].gen /\ runtimes'[r].promise = 0
  <2>1. FreshRuntime \in RuntimeRecords
    BY GatewayAssumption DEF FreshRuntime, RuntimeRecords, Status
  <2>2. \A n \in Nat : /\ [FreshRuntime EXCEPT !.gen = n] \in RuntimeRecords
                       /\ [FreshRuntime EXCEPT !.gen = n].gen = n
                       /\ [FreshRuntime EXCEPT !.gen = n].promise = 0
    BY <2>1 DEF RuntimeRecords, FreshRuntime
  <2>3. \A r \in Runtimes : runtimes[r].gen \in Nat
    BY <1>1 DEF MemoryInv, MemoryOK, RuntimeRecords
  <2>4. runtimes' = [r \in Runtimes |-> [FreshRuntime EXCEPT !.gen = runtimes[r].gen]]
    BY DEF Restart
  <2> QED
    BY <2>2, <2>3, <2>4
<1>3. /\ conns' \in [Conns -> ConnRecords]
      /\ \A c \in Conns : conns'[c].stage \in {"unused", "closed"}
      /\ \A c \in Conns : conns'[c].stage = "unused" <=> conns[c].stage = "unused"
      /\ \A c \in Conns : conns[c].stage # "unused" =>
           conns'[c].rt = conns[c].rt /\ conns'[c].gen = conns[c].gen
  <2> DEFINE Dead(cn) == [cn EXCEPT !.stage = "closed", !.closing = TRUE]
  <2>1. \A c \in Conns : conns[c] \in ConnRecords
    BY <1>1 DEF MemoryInv, MemoryOK
  <2>2. \A cn \in ConnRecords :
          /\ Dead(cn) \in ConnRecords /\ Dead(cn).stage = "closed"
          /\ Dead(cn).rt = cn.rt /\ Dead(cn).gen = cn.gen
    <3> TAKE cn \in ConnRecords
    <3> DEFINE c1 == [cn EXCEPT !.stage = "closed"]
               c2 == [c1 EXCEPT !.closing = TRUE]
    <3>1. /\ c1 \in ConnRecords /\ c1.stage = "closed"
          /\ c1.rt = cn.rt /\ c1.gen = cn.gen
      BY ConnFields DEF ConnRecords
    <3>2. Dead(cn) = c2
      OBVIOUS
    <3> HIDE DEF c1, Dead
    <3>3. c2 \in ConnRecords
      BY <3>1, ConnFields, TRUE \in BOOLEAN
    <3>4. c2.stage = "closed" /\ c2.rt = cn.rt /\ c2.gen = cn.gen
      BY <3>1, SMTT(20) DEF ConnRecords
    <3> QED
      BY <3>2, <3>3, <3>4
  <2>3. NoConn \in ConnRecords /\ NoConn.stage = "unused"
    BY GatewayAssumption DEF NoConn, ConnRecords, Earlier
  <2>4. conns' = [c \in Conns |-> IF conns[c].stage = "unused" THEN NoConn ELSE Dead(conns[c])]
    BY DEF Restart
  <2> HIDE DEF Dead
  <2> QED
    BY <2>1, <2>2, <2>3, <2>4
<1>4. /\ nRt' = nRt /\ nConn' = nConn /\ current' = 0 /\ timers' = {}
      /\ nRt \in 0..MaxRuntimes /\ 0 \in 0..nRt
  <2>1. nRt' = nRt /\ nConn' = nConn /\ current' = 0 /\ timers' = {}
    BY DEF Restart
  <2>2. nRt \in 0..MaxRuntimes /\ 0 \in 0..nRt
    BY <1>1, GatewayAssumption DEF MemoryInv, MemoryOK
  <2> QED
    BY <2>1, <2>2
<1>5. MemoryOK'
  BY <1>1, <1>2, <1>3, <1>4 DEF MemoryInv, MemoryOK
<1>6. Bookkeeping'
  <2>1. \A c \in Conns : conns[c].stage # "unused" => conns[c].rt \in Runtimes
    BY <1>1, GatewayAssumption DEF MemoryInv, MemoryOK, Bookkeeping, Runtimes
  <2> QED
    BY <1>1, <1>2, <1>3, <1>4, <2>1 DEF MemoryInv, Bookkeeping
<1>7. PromisePending'
  BY <1>2 DEF PromisePending
<1> QED
  BY <1>5, <1>6, <1>7 DEF MemoryInv

-----------------------------------------------------------------------------
(* The store, the handlers, the jobs.                                        *)

\* What a step leaves alone keeps its part of the invariant.
LEMMA Frame ==
  ASSUME GatewayInv
  PROVE  /\ UNCHANGED store => StoreOK'
         /\ UNCHANGED memory => MemoryInv'
         /\ UNCHANGED handlers => HandlersOK'
         /\ UNCHANGED work => WorkOK'
         /\ UNCHANGED environ => EnvironOK'
<1>1. UNCHANGED memory => MemoryInv'
  <2>1. timers \subseteq Conns
    BY DEF GatewayInv, TypeOK, MemoryOK
  <2> QED
    BY <2>1, MemoryKept DEF memory
<1>2. UNCHANGED store => StoreOK'
  BY DEF GatewayInv, TypeOK, StoreOK, store
<1>3. UNCHANGED handlers => HandlersOK'
  BY DEF GatewayInv, TypeOK, HandlersOK
<1>4. UNCHANGED work => WorkOK'
  BY DEF GatewayInv, TypeOK, WorkOK, work
<1>5. UNCHANGED environ => EnvironOK'
  BY DEF GatewayInv, TypeOK, EnvironOK, environ
<1> QED
  BY <1>1, <1>2, <1>3, <1>4, <1>5

\* The invariant, part by part.
LEMMA Parts ==
  ASSUME StoreOK', MemoryInv', HandlersOK', WorkOK', EnvironOK'
  PROVE  GatewayInv'
  BY DEF GatewayInv, TypeOK, MemoryInv

\* A handler that moves on stays well typed.
LEMMA GotoKeeps ==
  ASSUME GatewayInv, NEW c \in Conns, NEW e \in Events, NEW pc \in HandlerPcs, Goto(c, e, pc)
  PROVE  HandlersOK'
  BY DEF GatewayInv, TypeOK, HandlersOK, Goto

\* So does one that starts.
LEMMA HandlesKeeps ==
  ASSUME GatewayInv, NEW c \in Conns, NEW e \in Events, NEW pc \in HandlerPcs, Handles(c, e, pc)
  PROVE  HandlersOK'
<1> DEFINE st == IF Listening(c) THEN pc ELSE "done"
<1>1. st \in HandlerPcs
  BY DEF HandlerPcs
<1>2. handlers' = [handlers EXCEPT ![c][e] = st]
  BY DEF Handles
<1> HIDE DEF st
<1> QED
  BY <1>1, <1>2 DEF GatewayInv, TypeOK, HandlersOK

\* A field set to a value of its type leaves a thread well typed.
LEMMA ThreadFields ==
  \A t \in ThreadRecords :
    /\ \A x \in Pcs : [t EXCEPT !.pc = x] \in ThreadRecords
    /\ \A x \in Nat : [t EXCEPT !.try = x] \in ThreadRecords
    /\ \A x \in 0..MaxConns : /\ [t EXCEPT !.conn = x] \in ThreadRecords
                              /\ [t EXCEPT !.qr = x] \in ThreadRecords
    /\ \A x \in Status : [t EXCEPT !.status = x] \in ThreadRecords
  BY DEF ThreadRecords

\* A thread that has no job.
LEMMA Idle == IdleThread \in ThreadRecords
  BY GatewayAssumption DEF IdleThread, ThreadRecords, Pcs, Status

\* A thread's record may become any other of its type.
LEMMA ThreadKeeps ==
  ASSUME GatewayInv, NEW p, NEW t \in ThreadRecords, threads' = [threads EXCEPT ![p] = t],
         UNCHANGED <<queue, asked>>
  PROVE  WorkOK'
  BY DEF GatewayInv, TypeOK, WorkOK

\* A job goes on.
LEMMA MovesKeeps ==
  ASSUME GatewayInv, NEW p \in Threads, NEW pc \in Pcs, Moves(p, pc), UNCHANGED <<queue, asked>>
  PROVE  WorkOK'
<1> DEFINE t == [threads[p] EXCEPT !.pc = pc]
<1>1. t \in ThreadRecords
  BY ThreadFields DEF GatewayInv, TypeOK, WorkOK
<1>2. threads' = [threads EXCEPT ![p] = t]
  BY DEF Moves
<1> HIDE DEF t
<1> QED
  BY <1>1, <1>2, ThreadKeeps

\* A job ends.
LEMMA DoneKeeps ==
  ASSUME GatewayInv, NEW p, JobDone(p), UNCHANGED asked PROVE WorkOK'
  BY Idle, ThreadKeeps DEF JobDone

\* One count of the queue becomes another.
LEMMA QueueKeeps ==
  ASSUME GatewayInv, NEW p \in Threads, NEW k \in 0..Attempts[p], NEW n \in Nat,
         queue' = [queue EXCEPT ![p][k] = n]
  PROVE  DOMAIN queue' = Threads /\ \A q \in Threads : queue'[q] \in [0..Attempts[q] -> Nat]
<1> DEFINE f == [queue[p] EXCEPT ![k] = n]
<1>1. DOMAIN queue = Threads /\ \A q \in Threads : queue[q] \in [0..Attempts[q] -> Nat]
  BY DEF GatewayInv, TypeOK, WorkOK
<1>2. f \in [0..Attempts[p] -> Nat]
  BY <1>1
<1>3. queue' = [queue EXCEPT ![p] = f]
  OBVIOUS
<1> HIDE DEF f
<1> QED
  BY <1>1, <1>2, <1>3

\* A job throws: it is retried or is not.
LEMMA ThrowsKeeps ==
  ASSUME GatewayInv, NEW p \in Threads, JobThrows(p), UNCHANGED asked PROVE WorkOK'
<1> DEFINE k == threads[p].try
<1>1. threads' \in [Threads -> ThreadRecords]
  BY Idle DEF JobThrows, GatewayInv, TypeOK, WorkOK
<1>2. k \in Nat /\ Attempts[p] \in Nat
  BY GatewayAssumption DEF GatewayInv, TypeOK, WorkOK, ThreadRecords
<1>3. DOMAIN queue' = Threads /\ \A q \in Threads : queue'[q] \in [0..Attempts[q] -> Nat]
  <2>1. DOMAIN queue = Threads /\ \A q \in Threads : queue[q] \in [0..Attempts[q] -> Nat]
    BY DEF GatewayInv, TypeOK, WorkOK
  <2>2. CASE k < Attempts[p]
    <3>1. k + 1 \in 0..Attempts[p]
      BY <1>2, <2>2
    <3>2. queue[p][k + 1] + 1 \in Nat
      <4>1. queue[p][k + 1] \in Nat
        BY <2>1, <3>1, Zenon
      <4> QED
        BY <4>1
    <3>3. queue' = [queue EXCEPT ![p][k + 1] = queue[p][k + 1] + 1]
      BY <2>2 DEF JobThrows
    <3> QED
      BY <3>1, <3>2, <3>3, QueueKeeps
  <2>3. CASE ~(k < Attempts[p])
    BY <2>1, <2>3 DEF JobThrows
  <2> QED
    BY <2>2, <2>3
<1> QED
  BY <1>1, <1>3 DEF GatewayInv, TypeOK, WorkOK

\* A job is taken from the queue.
LEMMA TakesKeeps ==
  ASSUME GatewayInv, NEW p \in Threads, NEW pc \in Pcs, Takes(p, pc), UNCHANGED asked
  PROVE  WorkOK'
<1> PICK k \in 1..Attempts[p] :
      /\ queue[p][k] > 0
      /\ queue' = [queue EXCEPT ![p][k] = @ - 1]
      /\ threads' = [threads EXCEPT ![p] = [IdleThread EXCEPT !.pc = pc, !.try = k]]
  BY DEF Takes
<1> DEFINE t1 == [IdleThread EXCEPT !.pc = pc]
           t  == [t1 EXCEPT !.try = k]
<1>1. k \in Nat
  BY GatewayAssumption
<1>2. t1 \in ThreadRecords
  BY Idle, ThreadFields
<1>3. threads' = [threads EXCEPT ![p] = t]
  OBVIOUS
<1> HIDE DEF t1
<1>4. t \in ThreadRecords
  BY <1>1, <1>2, ThreadFields
<1> HIDE DEF t
<1>5. threads' \in [Threads -> ThreadRecords]
  BY <1>3, <1>4 DEF GatewayInv, TypeOK, WorkOK
<1>6. DOMAIN queue' = Threads /\ \A q \in Threads : queue'[q] \in [0..Attempts[q] -> Nat]
  <2>1. queue[p][k] - 1 \in Nat
    <3>1. queue[p] \in [0..Attempts[p] -> Nat] /\ k \in 0..Attempts[p]
      BY GatewayAssumption DEF GatewayInv, TypeOK, WorkOK
    <3>2. queue[p][k] \in Nat
      BY <3>1, Zenon
    <3>3. queue[p][k] > 0
      OBVIOUS
    <3> QED
      BY <3>2, <3>3
  <2>2. queue' = [queue EXCEPT ![p][k] = queue[p][k] - 1] /\ k \in 0..Attempts[p]
    BY GatewayAssumption
  <2> QED
    BY <2>1, <2>2, QueueKeeps
<1> QED
  BY <1>5, <1>6 DEF GatewayInv, TypeOK, WorkOK

\* connectSession and waitForState have returned.
LEMMA ProceedsKeeps ==
  ASSUME GatewayInv, NEW p \in Threads, NEW rt \in RuntimeRecords, Proceeds(p, rt), UNCHANGED asked
  PROVE  WorkOK'
<1>1. threads[p] \in ThreadRecords /\ rt.status \in Status /\ rt.qr \in 0..MaxConns
  BY DEF GatewayInv, TypeOK, WorkOK, RuntimeRecords
<1> DEFINE t1 == [threads[p] EXCEPT !.pc = "snapRow"]
           t2 == [t1 EXCEPT !.status = rt.status]
           t3 == [t2 EXCEPT !.qr = rt.qr]
<1>2. t1 \in ThreadRecords
  BY <1>1, ThreadFields DEF Pcs
<1>3. /\ t2 = [threads[p] EXCEPT !.pc = "snapRow", !.status = rt.status]
      /\ t3 = [threads[p] EXCEPT !.pc = "snapRow", !.status = rt.status, !.qr = rt.qr]
  OBVIOUS
<1> HIDE DEF t1
<1>4. t2 \in ThreadRecords
  BY <1>1, <1>2, ThreadFields
<1> HIDE DEF t2
<1>5. t3 \in ThreadRecords
  BY <1>1, <1>4, ThreadFields
<1> HIDE DEF t3
<1>6. \/ threads' = [threads EXCEPT ![p] = t3] /\ UNCHANGED queue
      \/ threads' = [threads EXCEPT ![p] = t2] /\ UNCHANGED queue
      \/ JobThrows(p) \/ JobDone(p)
  BY <1>3 DEF Proceeds
<1> QED
  BY <1>4, <1>5, <1>6, ThreadKeeps, ThrowsKeeps, DoneKeeps

-----------------------------------------------------------------------------
(* Every step keeps the invariant.                                           *)

\* createSocket's steps.
LEMMA SocketSteps ==
  ASSUME GatewayInv, NEW c \in Conns, SocketStep(c) \/ LoadFails(c) PROVE GatewayInv'
<1>1. CASE LoadAuth(c)
  BY <1>1, LoadAuthMemory, Frame, Parts DEF LoadAuth
<1>2. CASE MakeSocket(c)
  BY <1>2, MakeSocketMemory, Frame, Parts DEF MakeSocket
<1>3. CASE LoadFails(c)
  <2>1. EnvironOK'
    BY <1>3 DEF GatewayInv, TypeOK, EnvironOK, LoadFails
  <2> QED
    BY <1>3, <2>1, LoadFailsMemory, Frame, Parts DEF LoadFails
<1> QED
  BY <1>1, <1>2, <1>3 DEF SocketStep

\* The socket's events and the timers.
LEMMA EventSteps ==
  ASSUME GatewayInv, NEW c \in Conns, Emits(c) \/ TimerFires(c) PROVE GatewayInv'
<1>1. CASE EmitConnecting(c)
  <2> DEFINE pc == IF runtimes[conns[c].rt].qr # 0 THEN "done" ELSE "row"
  <2>1. pc \in HandlerPcs
    BY DEF HandlerPcs
  <2>2. "connecting" \in Events /\ Handles(c, "connecting", pc)
    BY <1>1 DEF Events, EmitConnecting
  <2>3. HandlersOK'
    BY <2>1, <2>2, HandlesKeeps
  <2> QED
    BY <1>1, <2>3, ConnectingMemory, Frame, Parts DEF EmitConnecting
<1>2. CASE EmitQr(c)
  <2>1. HandlersOK'
    BY <1>2, HandlesKeeps DEF EmitQr, Events, HandlerPcs
  <2> QED
    BY <1>2, <2>1, QrMemory, Frame, Parts DEF EmitQr
<1>3. CASE EmitCreds(c)
  <2>1. HandlersOK'
    BY <1>3, HandlesKeeps DEF EmitCreds, Events, HandlerPcs
  <2> QED
    BY <1>3, <2>1, CredsMemory, Frame, Parts DEF EmitCreds
<1>4. CASE EmitKeys(c)
  <2>1. HandlersOK'
    BY <1>4 DEF EmitKeys, Events, HandlerPcs, GatewayInv, TypeOK, HandlersOK
  <2> QED
    BY <1>4, <2>1, Frame, Parts DEF EmitKeys
<1>5. CASE EmitOpen(c)
  <2>1. HandlersOK'
    BY <1>5, HandlesKeeps DEF EmitOpen, Events, HandlerPcs
  <2> QED
    BY <1>5, <2>1, OpenMemory, Frame, Parts DEF EmitOpen
<1>6. CASE EmitClose(c)
  <2> PICK cause \in {"lost", "logged_out"} :
        Handles(c, "close", IF cause = "lost" THEN "row" ELSE "auth")
    BY <1>6 DEF EmitClose
  <2> DEFINE pc == IF cause = "lost" THEN "row" ELSE "auth"
  <2>1. pc \in HandlerPcs /\ "close" \in Events /\ Handles(c, "close", pc)
    BY DEF HandlerPcs, Events
  <2>2. HandlersOK'
    BY <2>1, HandlesKeeps
  <2>3. UNCHANGED store /\ UNCHANGED work /\ UNCHANGED environ
    BY <1>6 DEF EmitClose
  <2> QED
    BY <1>6, <2>2, <2>3, CloseMemory, Frame, Parts
<1>7. CASE TimerFires(c)
  <2>1. timers \ {c} \in SUBSET Conns
    BY DEF GatewayInv, TypeOK, MemoryOK
  <2>2. MemoryInv'
    BY <1>7, <2>1, BackgroundMemory DEF TimerFires
  <2> QED
    BY <1>7, <2>2, Frame, Parts DEF TimerFires
<1> QED
  BY <1>1, <1>2, <1>3, <1>4, <1>5, <1>6, <1>7 DEF Emits

\* The steps of a handler, and its failure.
LEMMA HandlerSteps ==
  ASSUME GatewayInv, NEW c \in Conns, NEW e \in Events, HandlerStep(c, e) \/ HandlerFails(c, e)
  PROVE  GatewayInv'
<1>1. StoreOK /\ conns[c] \in ConnRecords /\ c \in 0..MaxConns /\ 0 \in 0..MaxConns
  BY GatewayAssumption DEF GatewayInv, TypeOK, MemoryOK, Conns
<1>2. Reported(c, e) \in Status
  BY DEF Reported, Status
<1>3. CASE SaveAuth(c, e)
  <2> DEFINE pc == IF row /\ e = "open" THEN "row" ELSE "done"
  <2>1. pc \in HandlerPcs /\ Goto(c, e, pc)
    BY <1>3 DEF HandlerPcs, SaveAuth
  <2>2. StoreOK'
    BY <1>1, <1>3 DEF SaveAuth, StoreOK, ConnRecords
  <2>3. HandlersOK'
    BY <2>1, GotoKeeps
  <2> QED
    BY <1>3, <2>2, <2>3, Frame, Parts DEF SaveAuth
<1>4. CASE DeleteAuth(c, e)
  <2>1. StoreOK'
    BY <1>1, <1>4, GatewayAssumption DEF DeleteAuth, StoreOK, Earlier
  <2>2. HandlersOK'
    BY <1>4, GotoKeeps DEF DeleteAuth, HandlerPcs
  <2> QED
    BY <1>4, <2>1, <2>2, Frame, Parts DEF DeleteAuth
<1>5. CASE UpdateRow(c, e)
  <2> DEFINE pc == IF row THEN "log" ELSE "delKeys"
  <2>1. pc \in HandlerPcs /\ Goto(c, e, pc)
    BY <1>5 DEF HandlerPcs, UpdateRow
  <2>2. StoreOK'
    BY <1>1, <1>2, <1>5 DEF UpdateRow, StoreOK
  <2>3. HandlersOK'
    BY <2>1, GotoKeeps
  <2> QED
    BY <1>5, <2>2, <2>3, Frame, Parts DEF UpdateRow
<1>6. CASE WriteLog(c, e)
  <2> DEFINE pc == IF row THEN "status" ELSE "done"
  <2>1. pc \in HandlerPcs /\ Goto(c, e, pc)
    BY <1>6 DEF HandlerPcs, WriteLog
  <2>2. HandlersOK'
    BY <2>1, GotoKeeps
  <2> QED
    BY <1>6, <2>2, Frame, Parts DEF WriteLog
<1>7. CASE SetStatusKey(c, e)
  <2>1. StoreOK'
    BY <1>1, <1>2, <1>7 DEF SetStatusKey, StoreOK
  <2>2. HandlersOK'
    BY <1>7, GotoKeeps DEF SetStatusKey, HandlerPcs
  <2> QED
    BY <1>7, <2>1, <2>2, Frame, Parts DEF SetStatusKey
<1>8. CASE SetQrKey(c, e)
  <2> DEFINE pc == IF Lost(c, e) THEN "arm" ELSE "done"
  <2>1. pc \in HandlerPcs /\ Goto(c, e, pc)
    BY <1>8 DEF HandlerPcs, SetQrKey
  <2>2. StoreOK'
    BY <1>1, <1>8 DEF SetQrKey, StoreOK
  <2>3. HandlersOK'
    BY <2>1, GotoKeeps
  <2> QED
    BY <1>8, <2>2, <2>3, Frame, Parts DEF SetQrKey
<1>9. CASE ArmTimer(c, e)
  <2>1. HandlersOK' /\ UNCHANGED store /\ UNCHANGED work /\ UNCHANGED environ
    BY <1>9, GotoKeeps DEF ArmTimer, HandlerPcs
  <2> QED
    BY <1>9, <2>1, ArmTimerMemory, Frame, Parts
<1>10. CASE DeleteKeys(c, e)
  <2>1. StoreOK'
    BY <1>1, <1>10 DEF DeleteKeys, StoreOK
  <2>2. HandlersOK'
    BY <1>10, GotoKeeps DEF DeleteKeys, HandlerPcs
  <2> QED
    BY <1>10, <2>1, <2>2, Frame, Parts DEF DeleteKeys
<1>11. CASE DisposeMissing(c, e)
  <2>1. HandlersOK' /\ UNCHANGED store /\ UNCHANGED work /\ UNCHANGED environ
    BY <1>11, GotoKeeps DEF DisposeMissing, HandlerPcs
  <2> QED
    BY <1>11, <2>1, DisposeMissingMemory, Frame, Parts
<1>12. CASE HandlerFails(c, e)
  <2>1. HandlersOK'
    BY <1>12, GotoKeeps DEF HandlerFails, HandlerPcs
  <2>2. EnvironOK'
    BY <1>12 DEF GatewayInv, TypeOK, EnvironOK, HandlerFails
  <2> QED
    BY <1>12, <2>1, <2>2, Frame, Parts DEF HandlerFails
<1> QED
  BY <1>3, <1>4, <1>5, <1>6, <1>7, <1>8, <1>9, <1>10, <1>11, <1>12 DEF HandlerStep

\* The runtime in the map is one of the runtimes.
LEMMA CurrentRuntime ==
  ASSUME GatewayInv, current # 0 PROVE current \in Runtimes /\ runtimes[current] \in RuntimeRecords
<1>1. current \in Runtimes
  BY GatewayAssumption DEF GatewayInv, TypeOK, MemoryOK, Runtimes
<1> QED
  BY <1>1 DEF GatewayInv, TypeOK, MemoryOK

\* connectSession, called by a job, leaves the jobs well typed.
LEMMA ConnectWork == ASSUME GatewayInv, NEW p \in Threads, Connect(p) PROVE WorkOK'
<1> DEFINE t0 == threads[p]
           t1 == [t0 EXCEPT !.pc = WaitPc(threads[p].pc)]
           After(n) == [t1 EXCEPT !.conn = n]
<1>1. t0 \in ThreadRecords /\ UNCHANGED asked
  BY DEF GatewayInv, TypeOK, WorkOK, Connect
<1>2. WaitPc(threads[p].pc) \in Pcs
  BY DEF WaitPc, Pcs
<1>3. t1 \in ThreadRecords
  BY <1>1, <1>2, ThreadFields
<1>4. \A n : After(n) = [threads[p] EXCEPT !.pc = WaitPc(threads[p].pc), !.conn = n]
  OBVIOUS
<1> HIDE DEF t1
<1>5. \A n \in 0..MaxConns : After(n) \in ThreadRecords
  BY <1>3, ThreadFields
<1> HIDE DEF After, t0
<1>6. \/ /\ StartsSocket(p = Qr, timers) /\ UNCHANGED queue
         /\ threads' = [threads EXCEPT ![p] = After(nConn + 1)]
      \/ /\ JoinsPromise(timers) /\ UNCHANGED queue
         /\ threads' = [threads EXCEPT ![p] = After(runtimes[current].promise)]
      \/ AlreadyConnected(timers) /\ Proceeds(p, runtimes[current])
  BY <1>4 DEF Connect
<1>7. CASE /\ StartsSocket(p = Qr, timers) /\ UNCHANGED queue
           /\ threads' = [threads EXCEPT ![p] = After(nConn + 1)]
  <2>1. nConn + 1 \in 0..MaxConns
    BY <1>7, GatewayAssumption DEF StartsSocket, Conns
  <2> QED
    BY <1>1, <1>5, <1>7, <2>1, ThreadKeeps
<1>8. CASE /\ JoinsPromise(timers) /\ UNCHANGED queue
           /\ threads' = [threads EXCEPT ![p] = After(runtimes[current].promise)]
  <2>1. runtimes[current].promise \in 0..MaxConns
    BY <1>8, CurrentRuntime DEF JoinsPromise, RuntimeRecords
  <2> QED
    BY <1>1, <1>5, <1>8, <2>1, ThreadKeeps
<1>9. CASE AlreadyConnected(timers) /\ Proceeds(p, runtimes[current])
  <2>1. runtimes[current] \in RuntimeRecords
    BY <1>9, CurrentRuntime DEF AlreadyConnected, IsConnected
  <2> QED
    BY <1>1, <1>9, <2>1, ProceedsKeeps
<1> QED
  BY <1>6, <1>7, <1>8, <1>9

\* The steps of a job that only uses the session, and what it shares with the QR job.
LEMMA JobSteps == ASSUME GatewayInv, NEW p \in Threads, JobStep(p) PROVE GatewayInv'
<1>1. StoreOK /\ threads[p] \in ThreadRecords
  BY DEF GatewayInv, TypeOK, WorkOK
<1>2. CASE StartUse(p)
  <2>1. WorkOK'
    BY <1>2, TakesKeeps DEF StartUse, Pcs
  <2> QED
    BY <1>2, <2>1, Frame, Parts DEF StartUse
<1>3. CASE CheckRow(p)
  <2> DEFINE pc == IF dbStatus = "connected" THEN "use" ELSE "ensure"
  <2>1. pc \in Pcs /\ (\/ Moves(p, pc) /\ UNCHANGED <<queue, asked>>
                       \/ JobThrows(p) /\ UNCHANGED asked)
    BY <1>3 DEF CheckRow, Pcs
  <2>2. WorkOK'
    BY <2>1, MovesKeeps, ThrowsKeeps
  <2> QED
    BY <1>3, <2>2, Frame, Parts DEF CheckRow
<1>4. CASE Connect(p)
  BY <1>4, ConnectMemory, ConnectWork, Frame, Parts DEF Connect
<1>5. CASE PromiseRejects(p)
  <2>1. WorkOK'
    BY <1>5, ThrowsKeeps DEF PromiseRejects
  <2> QED
    BY <1>5, <2>1, Frame, Parts DEF PromiseRejects
<1>6. CASE WaitEnds(p)
  <2>1. WorkOK'
    BY <1>6, CurrentRuntime, ProceedsKeeps DEF WaitEnds
  <2> QED
    BY <1>6, <2>1, Frame, Parts DEF WaitEnds
<1>7. CASE WaitEnters(p)
  BY <1>7, EnterMemory, Frame, Parts DEF WaitEnters
<1>8. CASE WaitTimesOut(p)
  <2>1. WorkOK'
    BY <1>8, ThrowsKeeps DEF WaitTimesOut
  <2> QED
    BY <1>8, <2>1, Frame, Parts DEF WaitTimesOut
<1>9. CASE WriteSnapshot(p)
  <2> DEFINE pc == IF threads[p].pc = "snapRow" THEN "snapLog" ELSE "snapKey"
  <2>1. pc \in Pcs /\ (\/ Moves(p, pc) /\ UNCHANGED <<queue, asked>>
                       \/ JobThrows(p) /\ UNCHANGED asked)
    BY <1>9 DEF WriteSnapshot, Pcs
  <2>2. WorkOK'
    BY <2>1, MovesKeeps, ThrowsKeeps
  <2>3. dbStatus' \in Status /\ UNCHANGED <<row, auth, rStatus, rQr>>
    BY <1>1, <1>9 DEF WriteSnapshot, StoreOK, ThreadRecords
  <2>4. StoreOK'
    BY <1>1, <2>3 DEF StoreOK
  <2> QED
    BY <1>9, <2>2, <2>4, Frame, Parts DEF WriteSnapshot
<1>10. CASE WriteStatusKey(p)
  <2> DEFINE pc == IF p = Qr THEN "snapQr" ELSE "use"
  <2>1. pc \in Pcs /\ Moves(p, pc)
    BY <1>10 DEF WriteStatusKey, Pcs
  <2>2. WorkOK'
    BY <1>10, <2>1, MovesKeeps DEF WriteStatusKey
  <2>3. StoreOK'
    BY <1>1, <1>10 DEF StoreOK, ThreadRecords, WriteStatusKey
  <2> QED
    BY <1>10, <2>2, <2>3, Frame, Parts DEF WriteStatusKey
<1> QED
  BY <1>2, <1>3, <1>4, <1>5, <1>6, <1>7, <1>8, <1>9, <1>10 DEF JobStep

\* The QR job's own steps.
LEMMA QrSteps == ASSUME GatewayInv, QrStep PROVE GatewayInv'
<1>1. StoreOK /\ Qr \in Threads /\ 0 \in 0..MaxConns /\ 0 \in 0..Earlier
  BY GatewayAssumption DEF GatewayInv, TypeOK, Threads, Earlier
<1>2. threads[Qr] \in ThreadRecords
  BY <1>1 DEF GatewayInv, TypeOK, WorkOK
<1>3. CASE StartQr
  <2>1. WorkOK'
    BY <1>1, <1>3, TakesKeeps DEF StartQr, Pcs
  <2> QED
    BY <1>3, <2>1, StartQrMemory, Frame, Parts DEF StartQr
<1>4. CASE ResetAuth
  <2>1. WorkOK'
    BY <1>1, <1>4, MovesKeeps DEF ResetAuth, Pcs
  <2>2. StoreOK'
    BY <1>1, <1>4 DEF StoreOK, ResetAuth
  <2> QED
    BY <1>4, <2>1, <2>2, Frame, Parts DEF ResetAuth
<1>5. CASE ResetKeys
  <2>1. WorkOK'
    BY <1>1, <1>5, MovesKeeps DEF ResetKeys, Pcs
  <2>2. StoreOK'
    BY <1>1, <1>5 DEF StoreOK, ResetKeys
  <2> QED
    BY <1>5, <2>1, <2>2, Frame, Parts DEF ResetKeys
<1>6. CASE ResetRow
  <2>1. WorkOK'
    BY <1>1, <1>6, MovesKeeps DEF ResetRow, Pcs
  <2>2. StoreOK'
    BY <1>1, <1>6 DEF StoreOK, ResetRow, Status
  <2> QED
    BY <1>6, <2>1, <2>2, Frame, Parts DEF ResetRow
<1>7. CASE WriteQrKey
  <2>1. WorkOK'
    BY <1>7, DoneKeeps DEF WriteQrKey
  <2>2. StoreOK'
    BY <1>1, <1>2, <1>7 DEF StoreOK, WriteQrKey, ThreadRecords
  <2> QED
    BY <1>7, <2>1, <2>2, Frame, Parts DEF WriteQrKey
<1> QED
  BY <1>3, <1>4, <1>5, <1>6, <1>7 DEF QrStep

\* The backend's requests and the failing calls of a job.
LEMMA RequestSteps ==
  ASSUME GatewayInv, NEW p \in Threads, RequestStep(p) \/ JobFails(p) PROVE GatewayInv'
<1>1. /\ queue[p] \in [0..Attempts[p] -> Nat] /\ 0 \in 0..Attempts[p] /\ 1 \in 0..Attempts[p]
      /\ DOMAIN queue = Threads /\ \A q \in Threads : queue[q] \in [0..Attempts[q] -> Nat]
      /\ asked \in [Threads -> Nat] /\ threads \in [Threads -> ThreadRecords]
  BY GatewayAssumption DEF GatewayInv, TypeOK, WorkOK
<1>2. queue[p][0] \in Nat /\ queue[p][1] \in Nat
  BY <1>1, Zenon
<1>3. CASE Request(p)
  <2>1. asked' \in [Threads -> Nat] /\ threads' = threads
    BY <1>1, <1>3 DEF Request
  <2>2. DOMAIN queue' = Threads /\ \A q \in Threads : queue'[q] \in [0..Attempts[q] -> Nat]
    <3>1. queue' = [queue EXCEPT ![p][0] = queue[p][0] + 1] /\ queue[p][0] + 1 \in Nat
      BY <1>2, <1>3 DEF Request
    <3> QED
      BY <1>1, <3>1, QueueKeeps
  <2>3. WorkOK'
    BY <1>1, <2>1, <2>2 DEF WorkOK
  <2>4. StoreOK'
    BY <1>3 DEF GatewayInv, TypeOK, StoreOK, Request, Status
  <2> QED
    BY <1>3, <2>3, <2>4, Frame, Parts DEF Request
<1>4. CASE Enqueue(p)
  <2> DEFINE f == [queue[p] EXCEPT ![0] = queue[p][0] - 1, ![1] = queue[p][1] + 1]
  <2>1. queue[p][0] - 1 \in Nat /\ queue[p][1] + 1 \in Nat
    BY <1>2, <1>4 DEF Enqueue
  <2>2. f \in [0..Attempts[p] -> Nat]
    BY <1>1, <2>1
  <2>3. queue' = [queue EXCEPT ![p] = f]
    BY <1>1, <1>4 DEF Enqueue
  <2> HIDE DEF f
  <2>4. DOMAIN queue' = Threads /\ \A q \in Threads : queue'[q] \in [0..Attempts[q] -> Nat]
    BY <1>1, <2>2, <2>3
  <2>5. WorkOK'
    BY <1>1, <1>4, <2>4 DEF WorkOK, Enqueue
  <2> QED
    BY <1>4, <2>5, Frame, Parts DEF Enqueue
<1>5. CASE EnqueueFails(p)
  <2>1. DOMAIN queue' = Threads /\ \A q \in Threads : queue'[q] \in [0..Attempts[q] -> Nat]
    <3>1. queue' = [queue EXCEPT ![p][0] = queue[p][0] - 1] /\ queue[p][0] - 1 \in Nat
      BY <1>2, <1>5 DEF EnqueueFails
    <3> QED
      BY <1>1, <3>1, QueueKeeps
  <2>2. WorkOK'
    BY <1>1, <1>5, <2>1 DEF WorkOK, EnqueueFails
  <2>3. EnvironOK'
    BY <1>5 DEF GatewayInv, TypeOK, EnvironOK, EnqueueFails
  <2> QED
    BY <1>5, <2>2, <2>3, Frame, Parts DEF EnqueueFails
<1>6. CASE JobFails(p)
  <2>1. WorkOK'
    BY <1>6, ThrowsKeeps DEF JobFails
  <2>2. EnvironOK'
    BY <1>6 DEF GatewayInv, TypeOK, EnvironOK, JobFails
  <2> QED
    BY <1>6, <2>1, <2>2, Frame, Parts DEF JobFails
<1> QED
  BY <1>3, <1>4, <1>5, <1>6 DEF RequestStep

\* The process, the administrator and Redis.
LEMMA EnvironSteps ==
  ASSUME GatewayInv, FindSession \/ Restore \/ Restart \/ DeleteSession \/ ExpireStatus \/ ExpireQr
  PROVE  GatewayInv'
<1>1. StoreOK /\ EnvironOK /\ 0 \in 0..MaxConns /\ 0 \in 0..Earlier
  BY GatewayAssumption DEF GatewayInv, TypeOK, Earlier
<1>2. CASE Restore
  <2>1. timers \in SUBSET Conns
    BY DEF GatewayInv, TypeOK, MemoryOK
  <2>2. MemoryInv'
    BY <1>2, <2>1, BackgroundMemory, Frame DEF Restore
  <2>3. EnvironOK'
    BY <1>1, <1>2 DEF EnvironOK, Restore
  <2> QED
    BY <1>2, <2>2, <2>3, Frame, Parts DEF Restore
<1>7. CASE FindSession
  <2>1. EnvironOK'
    BY <1>1, <1>7 DEF EnvironOK, FindSession
  <2> QED
    BY <1>7, <2>1, Frame, Parts DEF FindSession
<1>3. CASE Restart
  <2>1. HandlersOK'
    <3>1. handlers' = [c \in Conns |-> [e \in Events |->
                         IF conns[c].stage = "unused" THEN "none" ELSE "done"]]
      BY <1>3 DEF Restart
    <3> QED
      BY <3>1 DEF HandlersOK, HandlerPcs
  <2>2. WorkOK'
    <3>1. threads' \in [Threads -> ThreadRecords]
      BY <1>3, Idle DEF Restart
    <3>2. DOMAIN queue' = Threads /\ \A q \in Threads : queue'[q] \in [0..Attempts[q] -> Nat]
      <4>1. \A q \in Threads : \A k \in 0..Attempts[q] : queue[q][k] \in Nat
        BY DEF GatewayInv, TypeOK, WorkOK
      <4>2. queue' = [p \in Threads |-> [k \in 0..Attempts[p] |->
                        queue[p][k] + (IF k > 0 /\ threads[p].try = k THEN 1 ELSE 0)]]
        BY <1>3 DEF Restart
      <4> QED
        BY <4>1, <4>2
    <3>3. UNCHANGED asked
      BY <1>3 DEF Restart
    <3> QED
      BY <3>1, <3>2, <3>3 DEF GatewayInv, TypeOK, WorkOK
  <2>3. EnvironOK' /\ UNCHANGED store
    <3>1. restarts' = restarts + 1 /\ boot' = "read" /\ faults' = faults /\ UNCHANGED store
      BY <1>3 DEF Restart
    <3> QED
      BY <1>1, <3>1 DEF EnvironOK
  <2> QED
    BY <1>3, <2>1, <2>2, <2>3, RestartMemory, Frame, Parts
<1>4. CASE DeleteSession
  <2>1. StoreOK'
    BY <1>1, <1>4 DEF StoreOK, DeleteSession
  <2> QED
    BY <1>4, <2>1, Frame, Parts DEF DeleteSession
<1>5. CASE ExpireStatus
  <2>1. StoreOK'
    BY <1>1, <1>5 DEF StoreOK, ExpireStatus
  <2> QED
    BY <1>5, <2>1, Frame, Parts DEF ExpireStatus
<1>6. CASE ExpireQr
  <2>1. StoreOK'
    BY <1>1, <1>6 DEF StoreOK, ExpireQr
  <2> QED
    BY <1>6, <2>1, Frame, Parts DEF ExpireQr
<1> QED
  BY <1>2, <1>3, <1>4, <1>5, <1>6, <1>7

\* A new worker process, before anything happened.
LEMMA InitInv == Init => GatewayInv
<1> SUFFICES ASSUME Init PROVE GatewayInv
  OBVIOUS
<1>1. StoreOK
  BY GatewayAssumption DEF Init, StoreOK, Status, Earlier
<1>2. FreshRuntime \in RuntimeRecords /\ FreshRuntime.promise = 0
  BY GatewayAssumption DEF FreshRuntime, RuntimeRecords, Status
<1>3. NoConn \in ConnRecords /\ NoConn.stage = "unused"
  BY GatewayAssumption DEF NoConn, ConnRecords, Earlier
<1>4. /\ current = 0 /\ nRt = 0 /\ nConn = 0 /\ timers = {}
      /\ runtimes = [r \in Runtimes |-> FreshRuntime] /\ conns = [c \in Conns |-> NoConn]
  BY DEF Init
<1>5. MemoryOK
  BY <1>2, <1>3, <1>4, GatewayAssumption DEF MemoryOK
<1>6. Bookkeeping
  BY <1>3, <1>4 DEF Bookkeeping, Conns
<1>7. PromisePending
  BY <1>2, <1>4 DEF PromisePending
<1>8. HandlersOK
  BY DEF Init, HandlersOK, HandlerPcs
<1>9. WorkOK
  <2>1. /\ threads = [p \in Threads |-> IdleThread] /\ asked = [p \in Threads |-> 0]
        /\ queue = [p \in Threads |-> [k \in 0..Attempts[p] |-> 0]]
    BY DEF Init
  <2> QED
    BY <2>1, Idle DEF WorkOK
<1>10. EnvironOK
  BY DEF Init, EnvironOK
<1> QED
  BY <1>1, <1>5, <1>6, <1>7, <1>8, <1>9, <1>10 DEF GatewayInv, TypeOK

\* Every step of the gateway.
LEMMA NextInv == GatewayInv /\ [Next]_vars => GatewayInv'
<1> SUFFICES ASSUME GatewayInv, [Next]_vars PROVE GatewayInv'
  OBVIOUS
<1>1. CASE \E c \in Conns : SocketStep(c) \/ LoadFails(c)
  BY <1>1, SocketSteps
<1>2. CASE \E c \in Conns : Emits(c) \/ TimerFires(c)
  BY <1>2, EventSteps
<1>3. CASE \E c \in Conns, e \in Events : HandlerStep(c, e) \/ HandlerFails(c, e)
  BY <1>3, HandlerSteps
<1>4. CASE \E p \in Threads : RequestStep(p) \/ JobFails(p)
  BY <1>4, RequestSteps
<1>5. CASE \E p \in Threads : JobStep(p)
  BY <1>5, JobSteps
<1>6. CASE QrStep
  BY <1>6, QrSteps
<1>7. CASE FindSession \/ Restore \/ Restart \/ DeleteSession \/ ExpireStatus \/ ExpireQr
  BY <1>7, EnvironSteps
<1>8. CASE UNCHANGED vars
  BY <1>8, Frame, Parts DEF vars
<1> QED
  BY <1>1, <1>2, <1>3, <1>4, <1>5, <1>6, <1>7, <1>8 DEF Next

-----------------------------------------------------------------------------
(* The theorems.                                                             *)

\* The invariant holds in every reachable state, whatever the bounds.
THEOREM GatewayInvariance == Spec => []GatewayInv
<1> QED
  BY InitInv, NextInv, PTL DEF Spec

\* The variables keep their types: every status written anywhere is one of the enum's, every
\* runtime the map names exists, every connection a thread waits for was created.
THEOREM GatewayTypeCorrect == Spec => []TypeOK
<1>1. GatewayInv => TypeOK
  BY DEF GatewayInv
<1> QED
  BY <1>1, GatewayInvariance, PTL

\* Of all the sockets a runtime ever had, the generation check of connection.update and
\* creds.update lets at most one be heard.
THEOREM AtMostOneListener == Spec => []OneListener
<1>1. GatewayInv => OneListener
  BY InvGivesMemory, BooksGiveOneListener
<1> QED
  BY <1>1, GatewayInvariance, PTL

\* connectPromise is never left over from a creation that has ended, nor of another runtime.
THEOREM PromiseIsPending == Spec => []PromisePending
<1>1. GatewayInv => PromisePending
  BY DEF GatewayInv
<1> QED
  BY <1>1, GatewayInvariance, PTL
=============================================================================
