--------------------- MODULE SessionGatewaySockets_proofs ---------------------
(***************************************************************************)
(* Proofs about the sockets the gateway uses.                              *)
(*                                                                         *)
(* First, which one the runtime holds while it says connected.  Two        *)
(* invariants follow each step of a connection's life.  With QR jobs, a    *)
(* runtime that says connected without a socket is being given one, or the *)
(* creation of it has failed.  Until the first QR job, the only one that   *)
(* forces a connect, creations are single and the runtime's socket is the  *)
(* one that is listened to.                                                *)
(*                                                                         *)
(* Then, a session that no job uses: its connections follow one another in *)
(* one chain, which a logout ends.  Its handlers overlap and fail as they  *)
(* please; unless the last event's met an earlier one still at work, or    *)
(* failed, the database and Redis come to tell what that event showed, and *)
(* a logout to forget the credentials.                                     *)
(***************************************************************************)
EXTENDS SessionGatewayStores, SessionGateway_proofs

\* Its events are handled.
Speaking(c) == conns[c].stage \in Live /\ Listening(c)
\* Its newest creation is under way or has failed.
Tried(r) == \E c \in Conns : /\ conns[c].rt = r /\ Listening(c)
                             /\ conns[c].stage \in Pending \cup {"failed"}

\* A socket that is listened to has a runtime that holds one, this or a later made.
Held == \A c \in Conns : Speaking(c) => runtimes[conns[c].rt].socket # 0
Given == \A r \in Runtimes :
           runtimes[r].status = "connected" /\ runtimes[r].socket = 0 => Tried(r)

SocketInv == Held /\ Given

\* No QR job was asked for, so none is queued or running.
NoQr == asked[Qr] = 0
QrIdle == threads[Qr] = IdleThread /\ \A k \in 0..Attempts[Qr] : queue[Qr][k] = 0

\* Every creation is the promise of its runtime.
Single == \A c \in Conns : conns[c].stage \in Pending => runtimes[conns[c].rt].promise = c
\* The socket that is listened to is the one in use, and no other is being created.
Used == \A c \in Conns : Speaking(c) =>
          runtimes[conns[c].rt].socket = c /\ runtimes[conns[c].rt].promise = 0
OpenSocket(r) ==
    LET s == runtimes[r].socket IN
    s \in Conns /\ conns[s].rt = r /\ Listening(s) /\ conns[s].stage = "open"
\* What says connected is.
Open == \A r \in Runtimes : runtimes[r].status = "connected" => OpenSocket(r)

AloneInv == NoQr => QrIdle /\ Single /\ Used /\ Open

Lonely == Single /\ Used /\ Open

-----------------------------------------------------------------------------
(* What a step does to the sockets.                                          *)

SameRuntime(r) ==
    /\ runtimes'[r].status = runtimes[r].status /\ runtimes'[r].socket = runtimes[r].socket
    /\ runtimes'[r].gen = runtimes[r].gen /\ runtimes'[r].promise = runtimes[r].promise
SameNumbers(c) == conns'[c].rt = conns[c].rt /\ conns'[c].gen = conns[c].gen
SameConn(c) ==
    /\ SameNumbers(c)
    /\ conns'[c].stage = conns[c].stage \/ {conns'[c].stage, conns[c].stage} \subseteq Pending
OthersSame(c) == \A d \in Conns \ {c} : SameNumbers(d) /\ conns'[d].stage = conns[d].stage
RuntimesSame(r) == \A q \in Runtimes \ {r} : SameRuntime(q)

\* Nothing.
Still == (\A r \in Runtimes : SameRuntime(r)) /\ (\A c \in Conns : SameConn(c))

\* A creation c starts on runtime r.
Starts(r, c, force) ==
    /\ conns[c].stage = "unused" /\ conns'[c].stage = "load"
    /\ conns'[c].rt = r /\ conns'[c].gen = runtimes[r].gen + 1
    /\ runtimes'[r].status = runtimes[r].status
    /\ runtimes'[r].socket = IF force THEN 0 ELSE runtimes[r].socket
    /\ runtimes'[r].gen = runtimes[r].gen + 1 /\ runtimes'[r].promise = c
    /\ OthersSame(c) /\ RuntimesSame(r)

\* It ends, in vain or with a socket.
Fails(r, c) ==
    /\ conns[c].stage \in Pending /\ conns[c].rt = r
    /\ SameNumbers(c) /\ conns'[c].stage = "failed" /\ OthersSame(c)
    /\ runtimes'[r].status = runtimes[r].status /\ runtimes'[r].socket = runtimes[r].socket
    /\ runtimes'[r].gen = runtimes[r].gen /\ runtimes'[r].promise = 0
    /\ RuntimesSame(r)
Made(r, c) ==
    /\ conns[c].stage \in Pending /\ conns[c].rt = r
    /\ SameNumbers(c) /\ conns'[c].stage = "new" /\ OthersSame(c)
    /\ runtimes'[r].status = runtimes[r].status /\ runtimes'[r].socket = c
    /\ runtimes'[r].gen = runtimes[r].gen /\ runtimes'[r].promise = 0
    /\ RuntimesSame(r)

\* The socket goes on, and its runtime's status with it if it is listened to.
Advances(r, c) ==
    /\ conns[c].stage \in {"new", "connecting"} /\ conns[c].rt = r
    /\ SameNumbers(c) /\ conns'[c].stage \in Live /\ OthersSame(c)
    /\ runtimes'[r].socket = runtimes[r].socket
    /\ runtimes'[r].gen = runtimes[r].gen /\ runtimes'[r].promise = runtimes[r].promise
    /\ IF Listening(c) THEN runtimes'[r].status = "connected" => conns'[c].stage = "open"
                       ELSE runtimes'[r].status = runtimes[r].status
    /\ RuntimesSame(r)

\* It closes.
Closes(r, c) ==
    /\ conns[c].stage \in Live /\ conns[c].rt = r
    /\ SameNumbers(c) /\ conns'[c].stage = "closed" /\ OthersSame(c)
    /\ runtimes'[r].gen = runtimes[r].gen /\ runtimes'[r].promise = runtimes[r].promise
    /\ IF Listening(c) THEN runtimes'[r].socket = 0 /\ runtimes'[r].status # "connected"
                       ELSE SameRuntime(r)
    /\ RuntimesSame(r)

\* The process is a new one.
Fresh ==
    /\ \A c \in Conns : conns'[c].stage \in {"unused", "closed"}
    /\ \A r \in Runtimes : runtimes'[r].status = "created"

-----------------------------------------------------------------------------
(* The two invariants survive each of them.                                  *)

\* The runtimes and the numbers that every connection has.
LEMMA Numbered ==
  ASSUME MemoryInv
  PROVE  /\ \A c \in Conns : c \in Nat \ {0}
         /\ \A r \in Runtimes : runtimes[r].gen \in Nat
         /\ \A c \in Conns : conns[c].gen \in Nat
         /\ \A c \in Conns : conns[c].stage # "unused" =>
              /\ conns[c].rt \in Runtimes /\ conns[c].rt \in 1..nRt
              /\ conns[c].gen <= runtimes[conns[c].rt].gen
<1>1. \A c \in Conns : c \in Nat \ {0}
  BY GatewayAssumption DEF Conns
<1>2. (\A r \in Runtimes : runtimes[r].gen \in Nat) /\ (\A c \in Conns : conns[c].gen \in Nat)
  BY DEF MemoryInv, MemoryOK, RuntimeRecords, ConnRecords
<1>3. \A c \in Conns : conns[c].stage # "unused" =>
        /\ conns[c].rt \in Runtimes /\ conns[c].rt \in 1..nRt
        /\ conns[c].gen <= runtimes[conns[c].rt].gen
  BY GatewayAssumption DEF MemoryInv, MemoryOK, Bookkeeping, Runtimes
<1> QED
  BY <1>1, <1>2, <1>3

LEMMA StillKeeps ==
  ASSUME MemoryInv, Still
  PROVE  (SocketInv => SocketInv') /\ (Lonely => Lonely')
<1>1. \A c \in Conns : conns[c].stage \in Live \cup Pending \cup {"failed"} => conns[c].rt \in Runtimes
  BY Numbered DEF Live, Pending
<1>2. \A c \in Conns : /\ conns'[c].stage \in Pending <=> conns[c].stage \in Pending
                       /\ conns'[c].stage \in Live => conns'[c].stage = conns[c].stage
                       /\ conns[c].stage \in Live \cup {"failed"} => conns'[c].stage = conns[c].stage
  BY DEF Still, SameConn, Live, Pending
<1>3. \A c \in Conns : conns[c].stage \in Live \cup Pending \cup {"failed"} =>
                       (Listening(c)' <=> Listening(c))
  BY <1>1 DEF Still, SameConn, SameNumbers, SameRuntime, Listening
<1>4. \A c \in Conns : Speaking(c)' <=> Speaking(c)
  BY <1>2, <1>3 DEF Speaking
<1>5. SocketInv => SocketInv'
  <2>1. Held => Held'
    BY <1>1, <1>4 DEF Held, Speaking, Still, SameRuntime, SameConn, SameNumbers
  <2>2. \A r \in Runtimes : Tried(r) => Tried(r)'
    BY <1>2, <1>3 DEF Tried, Still, SameConn, SameNumbers
  <2>3. Given => Given'
    BY <2>2 DEF Given, Still, SameRuntime
  <2> QED
    BY <2>1, <2>3 DEF SocketInv
<1>6. Lonely => Lonely'
  <2>1. Single => Single'
    BY <1>1, <1>2 DEF Single, Still, SameRuntime, SameConn, SameNumbers
  <2>2. Used => Used'
    BY <1>1, <1>4 DEF Used, Speaking, Still, SameRuntime, SameConn, SameNumbers
  <2>3. \A r \in Runtimes : OpenSocket(r) => OpenSocket(r)'
    <3> SUFFICES ASSUME NEW r \in Runtimes, OpenSocket(r) PROVE OpenSocket(r)'
      OBVIOUS
    <3>1. runtimes'[r].socket = runtimes[r].socket
      BY DEF Still, SameRuntime
    <3> QED
      BY <1>2, <1>3, <3>1 DEF OpenSocket, Still, SameConn, SameNumbers, Live
  <2>4. Open => Open'
    BY <2>3 DEF Open, Still, SameRuntime
  <2> QED
    BY <2>1, <2>2, <2>4 DEF Lonely
<1> QED
  BY <1>5, <1>6

\* A creation starts: the new generation silences whoever spoke on the runtime.
LEMMA StartsSilences ==
  ASSUME MemoryInv, NEW r \in Runtimes, NEW c \in Conns, NEW force \in BOOLEAN,
         Starts(r, c, force)
  PROVE  /\ \A d \in Conns : Speaking(d)' => d # c /\ conns[d].rt # r /\ Speaking(d)
         /\ \A q \in Runtimes \ {r} : OpenSocket(q) => OpenSocket(q)'
         /\ Tried(r)' /\ \A q \in Runtimes \ {r} : Tried(q) => Tried(q)'
<1>1. \A d \in Conns \ {c} : conns[d].stage # "unused" =>
        /\ conns'[d].rt = conns[d].rt /\ conns'[d].gen = conns[d].gen
        /\ conns[d].rt \in Runtimes /\ conns[d].gen <= runtimes[conns[d].rt].gen
        /\ conns[d].gen \in Nat /\ runtimes[conns[d].rt].gen \in Nat
  BY Numbered DEF Starts, OthersSame, SameNumbers
<1>2. \A d \in Conns \ {c} : conns[d].stage # "unused" =>
        /\ conns[d].rt = r => ~Listening(d)'
        /\ conns[d].rt # r => (Listening(d)' <=> Listening(d))
  BY <1>1 DEF Starts, RuntimesSame, SameRuntime, Listening
<1>3. \A d \in Conns : Speaking(d)' => d # c /\ conns[d].rt # r /\ Speaking(d)
  BY <1>2 DEF Speaking, Starts, OthersSame, Live
<1>4. \A q \in Runtimes \ {r} : OpenSocket(q) => OpenSocket(q)'
  <2> SUFFICES ASSUME NEW q \in Runtimes \ {r}, OpenSocket(q) PROVE OpenSocket(q)'
    OBVIOUS
  <2>1. runtimes'[q].socket = runtimes[q].socket
    BY DEF Starts, RuntimesSame, SameRuntime
  <2> QED
    BY <1>1, <1>2, <2>1 DEF OpenSocket, Starts, OthersSame, SameNumbers, Live
<1>5. Tried(r)'
  BY DEF Tried, Listening, Starts, Pending
<1>6. \A q \in Runtimes \ {r} : Tried(q) => Tried(q)'
  BY <1>1, <1>2 DEF Tried, Starts, OthersSame, Pending
<1> QED
  BY <1>3, <1>4, <1>5, <1>6

LEMMA StartsKeepsSockets ==
  ASSUME MemoryInv, NEW r \in Runtimes, NEW c \in Conns, NEW force \in BOOLEAN,
         Starts(r, c, force)
  PROVE  /\ SocketInv => SocketInv'
         /\ Lonely /\ runtimes[r].promise = 0 /\ runtimes[r].status # "connected" => Lonely'
<1>1. \A d \in Conns : d # 0 /\ (conns[d].stage # "unused" => conns[d].rt \in Runtimes)
  BY Numbered
<1>2. SocketInv => SocketInv'
  <2>1. Held => Held'
    BY <1>1, StartsSilences
       DEF Held, Speaking, Starts, OthersSame, SameNumbers, RuntimesSame, SameRuntime, Live
  <2>2. Given => Given'
    BY StartsSilences DEF Given, Starts, RuntimesSame, SameRuntime
  <2> QED
    BY <2>1, <2>2 DEF SocketInv
<1>3. ASSUME Lonely, runtimes[r].promise = 0, runtimes[r].status # "connected" PROVE Lonely'
  <2>1. Single'
    BY <1>1, <1>3
       DEF Lonely, Single, Starts, OthersSame, SameNumbers, RuntimesSame, SameRuntime, Pending
  <2>2. Used'
    BY <1>1, <1>3, StartsSilences
       DEF Lonely, Used, Speaking, Starts, OthersSame, SameNumbers, RuntimesSame, SameRuntime, Live
  <2>3. Open'
    BY <1>3, StartsSilences DEF Lonely, Open, Starts, RuntimesSame, SameRuntime
  <2> QED
    BY <2>1, <2>2, <2>3 DEF Lonely
<1> QED
  BY <1>2, <1>3

\* A creation that ends leaves no other of its runtime, if they are single.
LEMMA SingleEnds ==
  ASSUME MemoryInv, Lonely, NEW r \in Runtimes, NEW c \in Conns,
         conns[c].stage \in Pending, conns[c].rt = r
  PROVE  /\ runtimes[r].promise = c /\ runtimes[r].status # "connected"
         /\ \A d \in Conns \ {c} : conns[d].stage \in Pending \/ Speaking(d) => conns[d].rt # r
<1>1. c # 0 /\ runtimes[r].promise = c
  BY Numbered DEF Lonely, Single
<1>2. \A d \in Conns \ {c} : conns[d].stage \in Pending \/ Speaking(d) => conns[d].rt # r
  BY <1>1 DEF Lonely, Single, Used
<1>3. ~OpenSocket(r)
  BY <1>1 DEF Lonely, Used, OpenSocket, Speaking, Live
<1> QED
  BY <1>1, <1>2, <1>3 DEF Lonely, Open

\* A creation ends: those who spoke still do, and an open socket stays what it was.
LEMMA EndsOthers ==
  ASSUME MemoryInv, NEW r \in Runtimes, NEW c \in Conns, Fails(r, c) \/ Made(r, c)
  PROVE  /\ \A d \in Conns \ {c} : Speaking(d)' <=> Speaking(d)
         /\ \A q \in Runtimes \ {r} : OpenSocket(q) => OpenSocket(q)'
         /\ \A q \in Runtimes : Fails(r, c) \/ q # r => (Tried(q) => Tried(q)')
<1>1. \A d \in Conns : conns[d].stage # "unused" => conns[d].rt \in Runtimes
  BY Numbered
<1>2. \A q \in Runtimes : runtimes'[q].gen = runtimes[q].gen
  BY DEF Fails, Made, RuntimesSame, SameRuntime
<1>3. \A d \in Conns : conns[d].stage # "unused" => (Listening(d)' <=> Listening(d))
  BY <1>1, <1>2 DEF Fails, Made, OthersSame, SameNumbers, Listening
<1>4. OthersSame(c) /\ conns[c].stage \in Pending /\ conns[c].rt = r /\ RuntimesSame(r)
  BY DEF Fails, Made
<1>5. \A d \in Conns \ {c} : Speaking(d)' <=> Speaking(d)
  BY <1>3, <1>4 DEF Speaking, OthersSame, Live
<1>6. \A q \in Runtimes \ {r} : OpenSocket(q) => OpenSocket(q)'
  <2> SUFFICES ASSUME NEW q \in Runtimes \ {r}, OpenSocket(q) PROVE OpenSocket(q)'
    OBVIOUS
  <2>1. runtimes'[q].socket = runtimes[q].socket
    BY <1>4 DEF RuntimesSame, SameRuntime
  <2> QED
    BY <1>3, <1>4, <2>1 DEF OpenSocket, OthersSame, SameNumbers, Live
<1>7. \A q \in Runtimes : Fails(r, c) \/ q # r => (Tried(q) => Tried(q)')
  <2> SUFFICES ASSUME NEW q \in Runtimes, Fails(r, c) \/ q # r, Tried(q) PROVE Tried(q)'
    OBVIOUS
  <2>1. PICK d \in Conns : conns[d].rt = q /\ Listening(d) /\ conns[d].stage \in Pending \cup {"failed"}
    BY DEF Tried
  <2>2. Listening(d)' /\ SameNumbers(d)
    BY <1>3, <2>1 DEF Fails, Made, OthersSame, Pending
  <2>3. conns'[d].stage \in Pending \cup {"failed"}
    BY <1>4, <2>1 DEF Fails, OthersSame
  <2> QED
    BY <2>1, <2>2, <2>3 DEF Tried, SameNumbers
<1> QED
  BY <1>5, <1>6, <1>7

LEMMA FailsKeepsSockets ==
  ASSUME MemoryInv, NEW r \in Runtimes, NEW c \in Conns, Fails(r, c)
  PROVE  (SocketInv => SocketInv') /\ (Lonely => Lonely')
<1>1. \A d \in Conns : conns[d].stage \in Live \cup Pending => conns[d].rt \in Runtimes
  BY Numbered DEF Live, Pending
<1>2. conns'[c].stage \notin Live \cup Pending /\ conns[c].stage \notin Live
  BY DEF Fails, Live, Pending
<1>3. SocketInv => SocketInv'
  BY <1>1, <1>2, EndsOthers
     DEF SocketInv, Given, Held, Speaking, Fails, OthersSame, SameNumbers, RuntimesSame, SameRuntime
<1>4. ASSUME Lonely PROVE Lonely'
  <2>1. /\ runtimes[r].status # "connected"
        /\ \A d \in Conns \ {c} : conns[d].stage \in Pending \/ Speaking(d) => conns[d].rt # r
    BY <1>4, SingleEnds DEF Fails
  <2>2. Single'
    BY <1>1, <1>2, <1>4, <2>1
       DEF Lonely, Single, Fails, OthersSame, SameNumbers, RuntimesSame, SameRuntime
  <2>3. Used'
    <3>1. \A d \in Conns : Speaking(d)' => d # c /\ Speaking(d)
      BY <1>2, EndsOthers DEF Speaking
    <3> QED
      BY <1>1, <1>4, <2>1, <3>1
         DEF Lonely, Used, Speaking, Fails, OthersSame, SameNumbers, RuntimesSame, SameRuntime
  <2>4. Open'
    BY <1>4, <2>1, EndsOthers DEF Lonely, Open, Fails, RuntimesSame, SameRuntime
  <2> QED
    BY <2>2, <2>3, <2>4 DEF Lonely
<1> QED
  BY <1>3, <1>4

LEMMA MadeKeepsSockets ==
  ASSUME MemoryInv, NEW r \in Runtimes, NEW c \in Conns, Made(r, c)
  PROVE  (SocketInv => SocketInv') /\ (Lonely => Lonely')
<1>1. /\ c # 0
      /\ \A d \in Conns : conns[d].stage \in Live \cup Pending => conns[d].rt \in Runtimes
  BY Numbered DEF Live, Pending
<1>2. conns'[c].rt = r /\ conns'[c].stage \notin Pending
  BY DEF Made, SameNumbers, Pending
<1>3. SocketInv => SocketInv'
  <2>1. Held => Held'
    <3> SUFFICES ASSUME Held, NEW d \in Conns, Speaking(d)'
                 PROVE  runtimes'[conns'[d].rt].socket # 0
      BY DEF Held
    <3>1. CASE d = c
      BY <1>1, <1>2, <3>1 DEF Made
    <3>2. CASE d # c
      <4>1. Speaking(d) /\ conns'[d].rt = conns[d].rt /\ conns[d].rt \in Runtimes
        BY <1>1, <3>2, EndsOthers DEF Speaking, Made, OthersSame, SameNumbers
      <4> QED
        BY <1>1, <4>1 DEF Held, Made, RuntimesSame, SameRuntime
    <3> QED
      BY <3>1, <3>2
  <2>2. Given => Given'
    BY <1>1, EndsOthers DEF Given, Made, RuntimesSame, SameRuntime
  <2> QED
    BY <2>1, <2>2 DEF SocketInv
<1>4. ASSUME Lonely PROVE Lonely'
  <2>1. /\ runtimes[r].status # "connected"
        /\ \A d \in Conns \ {c} : conns[d].stage \in Pending \/ Speaking(d) => conns[d].rt # r
    BY <1>4, SingleEnds DEF Made
  <2>2. Single'
    BY <1>1, <1>2, <1>4, <2>1
       DEF Lonely, Single, Made, OthersSame, SameNumbers, RuntimesSame, SameRuntime
  <2>3. Used'
    <3> SUFFICES ASSUME NEW d \in Conns, Speaking(d)'
                 PROVE  runtimes'[conns'[d].rt].socket = d /\ runtimes'[conns'[d].rt].promise = 0
      BY DEF Used
    <3>1. CASE d = c
      BY <1>2, <3>1 DEF Made
    <3>2. CASE d # c
      <4>1. Speaking(d) /\ conns'[d].rt = conns[d].rt /\ conns[d].rt \in Runtimes \ {r}
        BY <1>1, <2>1, <3>2, EndsOthers DEF Speaking, Made, OthersSame, SameNumbers
      <4> QED
        BY <1>4, <4>1 DEF Lonely, Used, Made, RuntimesSame, SameRuntime
    <3> QED
      BY <3>1, <3>2
  <2>4. Open'
    BY <1>4, <2>1, EndsOthers DEF Lonely, Open, Made, RuntimesSame, SameRuntime
  <2> QED
    BY <2>2, <2>3, <2>4 DEF Lonely
<1> QED
  BY <1>3, <1>4

\* An event changes no numbers: who is listened to stays listened to.
LEMMA EventOthers ==
  ASSUME MemoryInv, NEW r \in Runtimes, NEW c \in Conns, Advances(r, c) \/ Closes(r, c)
  PROVE  /\ \A d \in Conns : conns[d].stage \in Live \cup Pending => conns[d].rt \in Runtimes
         /\ \A d \in Conns : conns[d].stage \in Live => (Listening(d)' <=> Listening(d))
         /\ \A d \in Conns \ {c} : Speaking(d)' <=> Speaking(d)
         /\ \A q \in Runtimes : Tried(q) => Tried(q)'
         /\ \A d \in Conns : conns'[d].stage \in Pending => d # c /\ conns[d].stage \in Pending
         /\ \A d \in Conns : SameNumbers(d)
<1>1. \A d \in Conns : conns[d].stage \in Live \cup Pending => conns[d].rt \in Runtimes
  BY Numbered DEF Live, Pending
<1>2. \A q \in Runtimes : runtimes'[q].gen = runtimes[q].gen
  BY DEF Advances, Closes, RuntimesSame, SameRuntime
<1>3. \A d \in Conns : SameNumbers(d)
  BY DEF Advances, Closes, OthersSame
<1>4. \A d \in Conns : conns[d].stage # "unused" => (Listening(d)' <=> Listening(d))
  BY <1>2, <1>3, Numbered DEF SameNumbers, Listening
<1>5. /\ OthersSame(c) /\ conns[c].stage \notin Pending /\ conns'[c].stage \notin Pending
      /\ conns[c].stage \in Live /\ conns[c].stage # "failed"
  BY DEF Advances, Closes, Live, Pending
<1>6. \A d \in Conns \ {c} : Speaking(d)' <=> Speaking(d)
  BY <1>4, <1>5 DEF Speaking, OthersSame, Live
<1>7. \A q \in Runtimes : Tried(q) => Tried(q)'
  BY <1>3, <1>4, <1>5 DEF Tried, OthersSame, SameNumbers, Pending
<1>8. \A d \in Conns : conns'[d].stage \in Pending => d # c /\ conns[d].stage \in Pending
  BY <1>5 DEF OthersSame
<1> QED
  BY <1>1, <1>3, <1>4, <1>6, <1>7, <1>8 DEF Live

LEMMA AdvancesKeepsSockets ==
  ASSUME MemoryInv, NEW r \in Runtimes, NEW c \in Conns, Advances(r, c)
  PROVE  (SocketInv => SocketInv') /\ (Lonely => Lonely')
<1>1. \A q \in Runtimes : /\ runtimes'[q].socket = runtimes[q].socket
                          /\ runtimes'[q].promise = runtimes[q].promise
  BY DEF Advances, RuntimesSame, SameRuntime
<1>2. conns[c].stage \in Live /\ conns[c].stage # "open" /\ conns[c].rt = r
  BY DEF Advances, Live
<1>3. \A d \in Conns : Speaking(d)' => Speaking(d)
  BY <1>2, EventOthers DEF Speaking
<1>4. \A q \in Runtimes : runtimes'[q].status = runtimes[q].status \/ (q = r /\ Speaking(c))
  BY <1>2 DEF Advances, RuntimesSame, SameRuntime, Speaking
<1>5. SocketInv => SocketInv'
  <2>1. Held => Held'
    BY <1>1, <1>3, EventOthers DEF Held, Speaking, SameNumbers
  <2>2. Held /\ Given => Given'
    BY <1>1, <1>2, <1>4, EventOthers DEF Held, Given
  <2> QED
    BY <2>1, <2>2 DEF SocketInv
<1>6. ASSUME Lonely PROVE Lonely'
  <2>1. Single'
    BY <1>1, <1>6, EventOthers DEF Lonely, Single, SameNumbers
  <2>2. Used'
    BY <1>1, <1>3, <1>6, EventOthers DEF Lonely, Used, Speaking, SameNumbers
  <2>3. Open'
    <3> SUFFICES ASSUME NEW q \in Runtimes, runtimes'[q].status = "connected"
                 PROVE  OpenSocket(q)'
      BY DEF Open
    <3>1. CASE q = r /\ Speaking(c)
      <4>1. runtimes[r].socket = c /\ Listening(c) /\ conns'[c].stage = "open"
        BY <1>2, <1>6, <3>1 DEF Lonely, Used, Speaking, Advances
      <4> QED
        BY <1>1, <1>2, <3>1, <4>1, EventOthers DEF OpenSocket, SameNumbers
    <3>2. CASE ~(q = r /\ Speaking(c))
      <4>1. OpenSocket(q)
        BY <1>4, <1>6, <3>2 DEF Lonely, Open
      <4> QED
        BY <1>1, <1>2, <4>1, EventOthers DEF OpenSocket, SameNumbers, Advances, OthersSame, Live
    <3> QED
      BY <3>1, <3>2
  <2> QED
    BY <2>1, <2>2, <2>3 DEF Lonely
<1> QED
  BY <1>5, <1>6

LEMMA ClosesKeepsSockets ==
  ASSUME MemoryInv, NEW r \in Runtimes, NEW c \in Conns, Closes(r, c)
  PROVE  (SocketInv => SocketInv') /\ (Lonely => Lonely')
<1>1. conns[c].stage \in Live /\ conns[c].rt = r /\ conns[c].stage # "unused"
  BY DEF Closes, Live
<1>2. \A d \in Conns : Speaking(d)' => d # c /\ Speaking(d) /\ SameRuntime(conns[d].rt)
  <2>1. \A d \in Conns : Speaking(d)' => d # c /\ Speaking(d)
    BY EventOthers DEF Speaking, Closes, Live
  <2>2. \A d \in Conns : d # c /\ Speaking(d) /\ conns[d].rt = r => ~Listening(c)
    BY <1>1, BooksGiveOneListener DEF OneListener, Speaking, Live
  <2> QED
    BY <2>1, <2>2, EventOthers DEF Closes, RuntimesSame, Speaking
<1>3. \A q \in Runtimes : SameRuntime(q) \/ (q = r /\ Listening(c) /\ runtimes'[q].status # "connected")
  BY DEF Closes, RuntimesSame
<1>4. SocketInv => SocketInv'
  <2>1. Held => Held'
    BY <1>2, EventOthers DEF Held, SameRuntime, SameNumbers
  <2>2. Given => Given'
    BY <1>3, EventOthers DEF Given, SameRuntime
  <2> QED
    BY <2>1, <2>2 DEF SocketInv
<1>5. ASSUME Lonely PROVE Lonely'
  <2>1. \A q \in Runtimes : runtimes'[q].promise = runtimes[q].promise
    BY DEF Closes, RuntimesSame, SameRuntime
  <2>2. Single'
    BY <1>5, <2>1, EventOthers DEF Lonely, Single, SameNumbers
  <2>3. Used'
    BY <1>2, <1>5, EventOthers DEF Lonely, Used, SameRuntime, SameNumbers
  <2>4. Open'
    <3> SUFFICES ASSUME NEW q \in Runtimes, runtimes'[q].status = "connected"
                 PROVE  OpenSocket(q)'
      BY DEF Open
    <3>1. SameRuntime(q) /\ ~(q = r /\ Listening(c))
      BY <1>3 DEF Closes
    <3>2. OpenSocket(q)
      BY <1>5, <3>1 DEF Lonely, Open, SameRuntime
    <3>3. runtimes[q].socket # c
      BY <1>1, <3>1, <3>2 DEF OpenSocket
    <3> QED
      BY <3>1, <3>2, <3>3, EventOthers
         DEF OpenSocket, SameRuntime, SameNumbers, Closes, OthersSame, Live
  <2> QED
    BY <2>2, <2>3, <2>4 DEF Lonely
<1> QED
  BY <1>4, <1>5

LEMMA FreshKeepsSockets == ASSUME Fresh PROVE SocketInv' /\ Lonely'
<1>1. \A c \in Conns : conns'[c].stage \notin Live \cup Pending
  BY DEF Fresh, Live, Pending
<1>2. \A r \in Runtimes : runtimes'[r].status # "connected"
  BY DEF Fresh
<1> QED
  BY <1>1, <1>2 DEF SocketInv, Held, Given, Speaking, Lonely, Single, Used, Open

-----------------------------------------------------------------------------
(* Which of them each action is.                                             *)

\* What connectSession leaves of the runtime's socket and status.
LEMMA ConnectingSocket ==
  ASSUME NEW rt \in RuntimeRecords, NEW force \in BOOLEAN, NEW c \in 0..MaxConns
  PROVE  /\ Connecting(rt, force, c).status = rt.status
         /\ Connecting(rt, force, c).socket = IF force THEN 0 ELSE rt.socket
  BY DEF Connecting, RuntimeRecords

LEMMA StartsEffect ==
  ASSUME MemoryInv, NEW force \in BOOLEAN, NEW ts, StartsSocket(force, ts)
  PROVE  /\ Here \in Runtimes /\ nConn + 1 \in Conns
         /\ Starts(Here, nConn + 1, force)
<1> DEFINE r == Here  c == nConn + 1
           cs == Closing(conns, IF force THEN runtimes[r].socket ELSE 0)
<1>1. /\ r \in Runtimes /\ c \in Conns /\ nConn \in Nat
      /\ runtimes \in [Runtimes -> RuntimeRecords] /\ conns \in [Conns -> ConnRecords]
      /\ c \in 0..MaxConns
  BY GatewayAssumption DEF MemoryInv, MemoryOK, StartsSocket, EnterRuntime, Here, Conns
<1>2. /\ runtimes' = [runtimes EXCEPT ![r] = Connecting(runtimes[r], force, c)]
      /\ conns' = [cs EXCEPT ![c] = NewConn(r, runtimes[r])]
  BY DEF StartsSocket
<1>3. conns[c].stage = "unused"
  BY <1>1 DEF MemoryInv, Bookkeeping
<1>4. /\ cs \in [Conns -> ConnRecords]
      /\ \A d \in Conns : cs[d].rt = conns[d].rt /\ cs[d].gen = conns[d].gen
                          /\ cs[d].stage = conns[d].stage
  BY <1>1, ClosingEffect
<1> HIDE DEF r, c, cs
<1>5. /\ conns'[c].rt = r /\ conns'[c].gen = runtimes[r].gen + 1 /\ conns'[c].stage = "load"
      /\ OthersSame(c)
  BY <1>1, <1>2, <1>4, NewConnEffect DEF OthersSame, SameNumbers
<1>6. /\ runtimes'[r].status = runtimes[r].status
      /\ runtimes'[r].socket = IF force THEN 0 ELSE runtimes[r].socket
      /\ runtimes'[r].gen = runtimes[r].gen + 1 /\ runtimes'[r].promise = c
      /\ RuntimesSame(r)
  BY <1>1, <1>2, ConnectingEffect, ConnectingSocket DEF RuntimesSame, SameRuntime
<1>7. Starts(r, c, force)
  BY <1>3, <1>5, <1>6 DEF Starts
<1> QED
  BY <1>1, <1>7 DEF r, c

\* A connect that nobody forces starts on a runtime that is not connected or connecting.
LEMMA StartsUnforced ==
  ASSUME MemoryInv, Lonely, NEW ts, StartsSocket(FALSE, ts)
  PROVE  runtimes[Here].promise = 0 /\ runtimes[Here].status # "connected"
<1>1. /\ Here \in Runtimes /\ nRt \in Nat /\ ~IsConnected
      /\ current # 0 => runtimes[current].promise = 0
  <2>1. Here \in Runtimes /\ NeedsSocket(FALSE)
    BY DEF StartsSocket, EnterRuntime
  <2> QED
    BY <2>1, GatewayAssumption DEF MemoryInv, MemoryOK, NeedsSocket
<1>2. CASE current # 0
  <2>1. Here = current /\ ~IsConnected /\ runtimes[current].promise = 0
    BY <1>1, <1>2 DEF Here
  <2>2. OpenSocket(current) => runtimes[current].socket # 0
    BY Numbered DEF OpenSocket
  <2> QED
    BY <1>1, <1>2, <2>1, <2>2 DEF Lonely, Open, IsConnected
<1>3. CASE current = 0
  <2>1. Here \notin 1..nRt
    BY <1>1, <1>3 DEF Here
  <2>2. \A c \in Conns : conns[c].stage # "unused" => conns[c].rt # Here
    BY <2>1, Numbered
  <2>3. runtimes[Here].promise # 0 => runtimes[Here].promise \in Conns
    BY <1>1, GatewayAssumption DEF MemoryInv, MemoryOK, RuntimeRecords, Conns
  <2> QED
    BY <1>1, <2>2, <2>3
       DEF Lonely, Open, OpenSocket, MemoryInv, PromisePending, Pending
<1> QED
  BY <1>2, <1>3

\* The effects of a step on the connection that takes it and on its runtime.
LEMMA OneEffect ==
  ASSUME MemoryInv, NEW c \in Conns, NEW cn, conns' = [conns EXCEPT ![c] = cn]
  PROVE  /\ conns'[c] = cn /\ OthersSame(c)
         /\ runtimes' = runtimes => RuntimesSame(conns[c].rt)
         /\ \A rt : runtimes' = [runtimes EXCEPT ![conns[c].rt] = rt] => RuntimesSame(conns[c].rt)
  BY DEF MemoryInv, MemoryOK, OthersSame, SameNumbers, RuntimesSame, SameRuntime

LEMMA LoadAuthEffect == ASSUME MemoryInv, NEW c \in Conns, LoadAuth(c) PROVE Still
<1> DEFINE cn == [conns[c] EXCEPT !.stage = "make", !.pair = IF auth # 0 THEN auth ELSE c,
                                  !.paired = (auth # 0)]
<1>1. conns' = [conns EXCEPT ![c] = cn] /\ runtimes' = runtimes /\ conns[c].stage = "load"
  BY DEF LoadAuth
<1>2. conns[c] \in ConnRecords
  BY DEF MemoryInv, MemoryOK
<1>3. cn.rt = conns[c].rt /\ cn.gen = conns[c].gen /\ cn.stage = "make"
  BY <1>2 DEF ConnRecords
<1> HIDE DEF cn
<1> QED
  BY <1>1, <1>3, OneEffect DEF Still, SameRuntime, SameConn, SameNumbers, OthersSame, Pending

LEMMA LoadFailsEffect ==
  ASSUME MemoryInv, NEW c \in Conns, LoadFails(c)
  PROVE  conns[c].rt \in Runtimes /\ Fails(conns[c].rt, c)
<1> DEFINE r == conns[c].rt
           cn == [conns[c] EXCEPT !.stage = "failed"]
           rt == [runtimes[r] EXCEPT !.promise = 0]
<1>1. /\ conns' = [conns EXCEPT ![c] = cn] /\ runtimes' = [runtimes EXCEPT ![r] = rt]
      /\ conns[c].stage = "load"
  BY DEF LoadFails
<1>2. conns[c] \in ConnRecords /\ r \in Runtimes /\ runtimes[r] \in RuntimeRecords
  BY <1>1, Numbered DEF MemoryInv, MemoryOK
<1>3. cn.rt = conns[c].rt /\ cn.gen = conns[c].gen /\ cn.stage = "failed"
  BY <1>2 DEF ConnRecords
<1>4. /\ rt.status = runtimes[r].status /\ rt.socket = runtimes[r].socket
      /\ rt.gen = runtimes[r].gen /\ rt.promise = 0
  BY <1>2 DEF RuntimeRecords
<1> HIDE DEF cn, rt
<1>5. runtimes'[r] = rt
  BY <1>1, <1>2 DEF MemoryInv, MemoryOK
<1> QED
  BY <1>1, <1>2, <1>3, <1>4, <1>5, OneEffect DEF Fails, SameNumbers, Pending

LEMMA MakeSocketEffect ==
  ASSUME MemoryInv, NEW c \in Conns, MakeSocket(c)
  PROVE  conns[c].rt \in Runtimes /\ Made(conns[c].rt, c)
<1> DEFINE r == conns[c].rt
           cn == [conns[c] EXCEPT !.stage = "new"]
           rt == Created(runtimes[r], c)
<1>1. /\ conns' = [conns EXCEPT ![c] = cn] /\ runtimes' = [runtimes EXCEPT ![r] = rt]
      /\ conns[c].stage = "make"
  BY DEF MakeSocket
<1>2. conns[c] \in ConnRecords /\ r \in Runtimes /\ runtimes[r] \in RuntimeRecords
  BY <1>1, Numbered DEF MemoryInv, MemoryOK
<1>3. cn.rt = conns[c].rt /\ cn.gen = conns[c].gen /\ cn.stage = "new"
  BY <1>2 DEF ConnRecords
<1>4. /\ rt.status = runtimes[r].status /\ rt.socket = c
      /\ rt.gen = runtimes[r].gen /\ rt.promise = 0
  BY <1>2 DEF RuntimeRecords, Created
<1> HIDE DEF cn, rt
<1>5. runtimes'[r] = rt
  BY <1>1, <1>2 DEF MemoryInv, MemoryOK
<1> QED
  BY <1>1, <1>2, <1>3, <1>4, <1>5, OneEffect DEF Made, SameNumbers, Pending

\* The runtime an event of c meets: its own, or none if nobody listens.
LEMMA SetsEffect ==
  ASSUME MemoryInv, NEW c \in Conns, conns[c].stage \in Live, NEW rt, SetsRuntime(c, rt)
  PROVE  /\ conns[c].rt \in Runtimes /\ RuntimesSame(conns[c].rt)
         /\ IF Listening(c) THEN runtimes'[conns[c].rt] = rt ELSE SameRuntime(conns[c].rt)
         /\ conns[c] \in ConnRecords /\ runtimes[conns[c].rt] \in RuntimeRecords
<1>1. /\ conns[c].rt \in Runtimes /\ conns[c] \in ConnRecords
      /\ runtimes[conns[c].rt] \in RuntimeRecords
  BY Numbered DEF MemoryInv, MemoryOK, Live
<1> QED
  BY <1>1 DEF MemoryInv, MemoryOK, SetsRuntime, RuntimesSame, SameRuntime

LEMMA ConnectingAdvances ==
  ASSUME MemoryInv, NEW c \in Conns, EmitConnecting(c)
  PROVE  conns[c].rt \in Runtimes /\ Advances(conns[c].rt, c)
<1> DEFINE r == conns[c].rt
           cn == [conns[c] EXCEPT !.stage = "connecting"]
           st == IF runtimes[r].qr # 0 THEN "pending_qr" ELSE "reconnecting"
           rt == [runtimes[r] EXCEPT !.status = st]
<1>1. /\ conns' = [conns EXCEPT ![c] = cn] /\ conns[c].stage = "new" /\ SetsRuntime(c, rt)
      /\ conns[c].stage \in Live
  BY DEF EmitConnecting, Live
<1>2. cn.rt = r /\ cn.gen = conns[c].gen /\ cn.stage = "connecting"
  BY <1>1, SetsEffect DEF ConnRecords
<1>3. st # "connected"
  OBVIOUS
<1> HIDE DEF st
<1>4. /\ rt.status # "connected" /\ rt.socket = runtimes[r].socket
      /\ rt.gen = runtimes[r].gen /\ rt.promise = runtimes[r].promise
  BY <1>1, <1>3, SetsEffect DEF RuntimeRecords
<1> HIDE DEF cn, rt
<1> QED
  BY <1>1, <1>2, <1>4, OneEffect, SetsEffect DEF Advances, SameNumbers, SameRuntime, Live

LEMMA QrAdvances ==
  ASSUME MemoryInv, NEW c \in Conns, EmitQr(c)
  PROVE  conns[c].rt \in Runtimes /\ Advances(conns[c].rt, c)
<1> DEFINE r == conns[c].rt
           cn == [conns[c] EXCEPT !.stage = "qr"]
           rt == [runtimes[r] EXCEPT !.qr = c, !.status = "pending_qr"]
<1>1. /\ conns' = [conns EXCEPT ![c] = cn] /\ conns[c].stage = "connecting"
      /\ SetsRuntime(c, rt) /\ conns[c].stage \in Live
  BY DEF EmitQr, Live
<1>2. cn.rt = r /\ cn.gen = conns[c].gen /\ cn.stage = "qr"
  BY <1>1, SetsEffect DEF ConnRecords
<1>3. /\ rt.status = "pending_qr" /\ rt.socket = runtimes[r].socket
      /\ rt.gen = runtimes[r].gen /\ rt.promise = runtimes[r].promise
  BY <1>1, SetsEffect DEF RuntimeRecords
<1> HIDE DEF cn, rt
<1> QED
  BY <1>1, <1>2, <1>3, OneEffect, SetsEffect DEF Advances, SameNumbers, SameRuntime, Live

LEMMA OpenAdvances ==
  ASSUME MemoryInv, NEW c \in Conns, EmitOpen(c)
  PROVE  conns[c].rt \in Runtimes /\ Advances(conns[c].rt, c)
<1> DEFINE r == conns[c].rt
           cn == [conns[c] EXCEPT !.stage = "open"]
           rt == [runtimes[r] EXCEPT !.status = "connected", !.qr = 0]
<1>1. /\ conns' = [conns EXCEPT ![c] = cn] /\ conns[c].stage = "connecting"
      /\ SetsRuntime(c, rt) /\ conns[c].stage \in Live
  BY DEF EmitOpen, Live
<1>2. cn.rt = r /\ cn.gen = conns[c].gen /\ cn.stage = "open"
  BY <1>1, SetsEffect DEF ConnRecords
<1>3. /\ rt.status = "connected" /\ rt.socket = runtimes[r].socket
      /\ rt.gen = runtimes[r].gen /\ rt.promise = runtimes[r].promise
  BY <1>1, SetsEffect DEF RuntimeRecords
<1> HIDE DEF cn, rt
<1> QED
  BY <1>1, <1>2, <1>3, OneEffect, SetsEffect DEF Advances, SameNumbers, SameRuntime, Live

LEMMA CloseCloses ==
  ASSUME MemoryInv, NEW c \in Conns, EmitClose(c)
  PROVE  conns[c].rt \in Runtimes /\ Closes(conns[c].rt, c)
<1> PICK cause \in {"lost", "logged_out"} :
      /\ MayEmit(c, "close")
      /\ conns' = [conns EXCEPT ![c] = [@ EXCEPT !.stage = "closed", !.cause = cause]]
      /\ SetsRuntime(c, Closed(runtimes[conns[c].rt], cause))
  BY DEF EmitClose
<1> DEFINE r == conns[c].rt
           cn == [conns[c] EXCEPT !.stage = "closed", !.cause = cause]
           rt == Closed(runtimes[r], cause)
<1>1. conns' = [conns EXCEPT ![c] = cn] /\ SetsRuntime(c, rt) /\ conns[c].stage \in Live
  BY DEF MayEmit
<1>2. cn.rt = r /\ cn.gen = conns[c].gen /\ cn.stage = "closed"
  BY <1>1, SetsEffect DEF ConnRecords
<1>3. /\ rt.status # "connected" /\ rt.socket = 0
      /\ rt.gen = runtimes[r].gen /\ rt.promise = runtimes[r].promise
  BY <1>1, SetsEffect DEF RuntimeRecords, Closed
<1> HIDE DEF cn, rt
<1>4. /\ r \in Runtimes /\ RuntimesSame(r)
      /\ IF Listening(c) THEN runtimes'[r] = rt ELSE SameRuntime(r)
  BY <1>1, SetsEffect
<1>5. runtimes'[r].gen = runtimes[r].gen /\ runtimes'[r].promise = runtimes[r].promise
  BY <1>3, <1>4 DEF SameRuntime
<1>6. conns'[c] = cn /\ OthersSame(c)
  BY <1>1, OneEffect
<1> QED
  BY <1>1, <1>2, <1>3, <1>4, <1>5, <1>6 DEF Closes, SameNumbers

LEMMA SameIsStill == UNCHANGED <<runtimes, conns>> => Still
  BY DEF Still, SameRuntime, SameConn, SameNumbers

\* New credentials change two flags of the connection, and not its stage.
LEMMA CredsStill == ASSUME MemoryInv, NEW c \in Conns, EmitCreds(c) PROVE Still
<1> DEFINE cn == [conns[c] EXCEPT !.paired = TRUE]
<1>1. conns' = [conns EXCEPT ![c] = cn] /\ runtimes' = runtimes
  BY DEF EmitCreds
<1>2. conns[c] \in ConnRecords
  BY DEF MemoryInv, MemoryOK
<1>3. cn.rt = conns[c].rt /\ cn.gen = conns[c].gen /\ cn.stage = conns[c].stage
  BY <1>2 DEF ConnRecords
<1> HIDE DEF cn
<1> QED
  BY <1>1, <1>3, OneEffect DEF Still, SameRuntime, SameConn, SameNumbers, OthersSame

\* disposeRuntime leaves socket, status, generation and promise of the runtime it drops.
LEMMA DisposedStill ==
  ASSUME MemoryInv
  PROVE  /\ DisposedRuntimes \in [Runtimes -> RuntimeRecords]
         /\ \A r \in Runtimes : /\ DisposedRuntimes[r].status = runtimes[r].status
                                /\ DisposedRuntimes[r].socket = runtimes[r].socket
                                /\ DisposedRuntimes[r].gen = runtimes[r].gen
                                /\ DisposedRuntimes[r].promise = runtimes[r].promise
<1>1. runtimes \in [Runtimes -> RuntimeRecords]
  BY DEF MemoryInv, MemoryOK
<1>2. CASE current = 0
  BY <1>1, <1>2 DEF DisposedRuntimes
<1>3. CASE current # 0
  <2> DEFINE rt == [runtimes[current] EXCEPT !.closed = TRUE, !.timer = 0]
  <2>1. current \in Runtimes /\ runtimes[current] \in RuntimeRecords
    BY <1>1, <1>3, GatewayAssumption DEF MemoryInv, MemoryOK, Runtimes
  <2>2. DisposedRuntimes = [runtimes EXCEPT ![current] = rt]
    BY <1>3 DEF DisposedRuntimes
  <2>3. /\ rt.status = runtimes[current].status /\ rt.socket = runtimes[current].socket
        /\ rt.gen = runtimes[current].gen /\ rt.promise = runtimes[current].promise
    BY <2>1 DEF RuntimeRecords
  <2> HIDE DEF rt
  <2> QED
    BY <1>1, <2>1, <2>2, <2>3, DisposedEffect
<1> QED
  BY <1>2, <1>3

\* Arming a timer leaves them too.
LEMMA TimerStill ==
  ASSUME NEW rs \in [Runtimes -> RuntimeRecords], NEW r, NEW c \in Conns
  PROVE  \A q \in Runtimes : /\ [rs EXCEPT ![r].timer = c][q].status = rs[q].status
                             /\ [rs EXCEPT ![r].timer = c][q].socket = rs[q].socket
                             /\ [rs EXCEPT ![r].timer = c][q].gen = rs[q].gen
                             /\ [rs EXCEPT ![r].timer = c][q].promise = rs[q].promise
<1> DEFINE rt == [rs[r] EXCEPT !.timer = c]
<1>1. [rs EXCEPT ![r].timer = c] = [rs EXCEPT ![r] = rt]
  OBVIOUS
<1>2. r \in Runtimes => /\ rt.status = rs[r].status /\ rt.socket = rs[r].socket
                        /\ rt.gen = rs[r].gen /\ rt.promise = rs[r].promise
  BY DEF RuntimeRecords
<1> HIDE DEF rt
<1> QED
  BY <1>1, <1>2

LEMMA ConnsStill ==
  ASSUME MemoryInv, conns' = conns \/ conns' = DisposedConns,
         \A r \in Runtimes : SameRuntime(r)
  PROVE  Still
  BY DisposedEffect DEF Still, SameConn, SameNumbers

LEMMA HandlersStill ==
  ASSUME MemoryInv, NEW c \in Conns, NEW e \in Events, HandlerStep(c, e) \/ HandlerFails(c, e)
  PROVE  Still
<1>1. runtimes \in [Runtimes -> RuntimeRecords]
  BY DEF MemoryInv, MemoryOK
<1>2. CASE ArmTimer(c, e)
  <2> DEFINE armed == [runtimes EXCEPT ![conns[c].rt].timer = c]
  <2>1. runtimes' = armed \/ runtimes' = runtimes
    BY <1>2 DEF ArmTimer
  <2>2. \A r \in Runtimes : SameRuntime(r)
    <3>1. \A r \in Runtimes :
            /\ armed[r].status = runtimes[r].status /\ armed[r].socket = runtimes[r].socket
            /\ armed[r].gen = runtimes[r].gen /\ armed[r].promise = runtimes[r].promise
      BY <1>1, TimerStill
    <3> HIDE DEF armed
    <3> QED
      BY <2>1, <3>1 DEF SameRuntime
  <2> QED
    BY <1>2, <2>2, ConnsStill DEF ArmTimer
<1>3. CASE DisposeMissing(c, e)
  <2> DEFINE armed == [DisposedRuntimes EXCEPT ![conns[c].rt].timer = c]
  <2>1. (runtimes' = armed \/ runtimes' = DisposedRuntimes) /\ conns' = DisposedConns
    BY <1>3 DEF DisposeMissing
  <2>2. \A r \in Runtimes : SameRuntime(r)
    <3>1. \A r \in Runtimes :
            /\ armed[r].status = runtimes[r].status /\ armed[r].socket = runtimes[r].socket
            /\ armed[r].gen = runtimes[r].gen /\ armed[r].promise = runtimes[r].promise
      BY DisposedStill, TimerStill
    <3> HIDE DEF armed
    <3> QED
      BY <2>1, <3>1, DisposedStill DEF SameRuntime
  <2> QED
    BY <2>1, <2>2, ConnsStill
<1>4. CASE ~ArmTimer(c, e) /\ ~DisposeMissing(c, e)
  <2>1. UNCHANGED <<runtimes, conns>>
    BY <1>4 DEF HandlerStep, HandlerFails, SaveAuth, DeleteAuth, UpdateRow, WriteLog,
                SetStatusKey, SetQrKey, DeleteKeys, memory
  <2> QED
    BY <2>1, SameIsStill
<1> QED
  BY <1>2, <1>3, <1>4

\* The QR job's own steps; its connect is a job's.
LEMMA QrStill == ASSUME MemoryInv, QrStep PROVE Still
<1>1. CASE StartQr
  <2>1. runtimes' = DisposedRuntimes /\ conns' = DisposedConns
    BY <1>1 DEF StartQr, DisposeRuntime
  <2>2. \A r \in Runtimes : SameRuntime(r)
    BY <2>1, DisposedStill DEF SameRuntime
  <2> QED
    BY <2>1, <2>2, ConnsStill
<1>2. CASE ~StartQr
  <2>1. UNCHANGED <<runtimes, conns>>
    BY <1>2 DEF QrStep, ResetAuth, ResetKeys, ResetRow, WriteQrKey, memory
  <2> QED
    BY <2>1, SameIsStill
<1> QED
  BY <1>1, <1>2

\* What a job does besides connecting.
LEMMA JobStill ==
  ASSUME NEW p \in Threads, JobStep(p) \/ RequestStep(p) \/ JobFails(p), ~Connect(p)
  PROVE  Still
<1>1. UNCHANGED <<runtimes, conns>>
  BY DEF JobStep, RequestStep, Request, Enqueue, EnqueueFails, JobFails, StartUse, CheckRow, PromiseRejects, WaitEnds, WaitEnters,
         WaitTimesOut, WriteSnapshot, WriteStatusKey, memory
<1> QED
  BY <1>1, SameIsStill

LEMMA RestartFresh == ASSUME MemoryInv, Restart PROVE Fresh
<1>1. runtimes' = [r \in Runtimes |-> [FreshRuntime EXCEPT !.gen = runtimes[r].gen]]
  BY DEF Restart
<1>2. conns' = [c \in Conns |-> IF conns[c].stage = "unused" THEN NoConn
                                 ELSE [conns[c] EXCEPT !.stage = "closed", !.closing = TRUE]]
  BY DEF Restart
<1>3. \A r \in Runtimes : runtimes'[r].status = "created"
  BY <1>1 DEF FreshRuntime
<1>4. \A c \in Conns : conns'[c].stage \in {"unused", "closed"}
  <2>1. NoConn.stage = "unused" /\ \A c \in Conns : conns[c] \in ConnRecords
    BY DEF NoConn, MemoryInv, MemoryOK
  <2>2. \A c \in Conns : [conns[c] EXCEPT !.stage = "closed", !.closing = TRUE].stage = "closed"
    BY <2>1 DEF ConnRecords
  <2> QED
    BY <1>2, <2>1, <2>2
<1> QED
  BY <1>3, <1>4 DEF Fresh

-----------------------------------------------------------------------------
(* The invariants are inductive.                                             *)

\* What a step keeps: the first invariant, and the second unless it is the forced connect.
Kept == (SocketInv => SocketInv') /\ (Lonely => Lonely')

LEMMA BackgroundKeeps ==
  ASSUME GatewayInv, NEW ts, ConnectsInBackground(ts) PROVE Kept
<1>1. MemoryInv
  BY InvGivesMemory
<1>2. CASE StartsSocket(FALSE, ts)
  <2>1. /\ Here \in Runtimes /\ nConn + 1 \in Conns
        /\ Starts(Here, nConn + 1, FALSE)
    BY <1>1, <1>2, StartsEffect
  <2>2. /\ SocketInv => SocketInv'
        /\ Lonely /\ runtimes[Here].promise = 0 /\ runtimes[Here].status # "connected" => Lonely'
    BY <1>1, <2>1, StartsKeepsSockets
  <2> QED
    BY <1>1, <1>2, <2>2, StartsUnforced DEF Kept
<1>3. CASE AlreadyConnected(ts) \/ JoinsPromise(ts)
  <2>1. Still
    BY <1>3, SameIsStill DEF AlreadyConnected, JoinsPromise
  <2> QED
    BY <1>1, <2>1, StillKeeps DEF Kept
<1> QED
  BY <1>2, <1>3 DEF ConnectsInBackground

LEMMA ConnectKeeps ==
  ASSUME GatewayInv, NEW p \in Threads, Connect(p)
  PROVE  (SocketInv => SocketInv') /\ (p # Qr => Kept)
<1>1. MemoryInv
  BY InvGivesMemory
<1>2. CASE p # Qr
  <2>1. (p = Qr) = FALSE
    BY <1>2
  <2>2. ConnectsInBackground(timers)
    BY <2>1 DEF Connect, ConnectsInBackground
  <2> QED
    BY <1>1, <2>2, BackgroundKeeps DEF Kept
<1>3. CASE p = Qr
  <2>1. (p = Qr) = TRUE
    BY <1>3
  <2>2. StartsSocket(TRUE, timers)
    BY <1>3, <2>1 DEF Connect
  <2>3. /\ Here \in Runtimes /\ nConn + 1 \in Conns
        /\ Starts(Here, nConn + 1, TRUE)
    BY <1>1, <2>2, StartsEffect
  <2> QED
    BY <1>1, <1>3, <2>3, StartsKeepsSockets
<1> QED
  BY <1>2, <1>3 DEF Kept

LEMMA SocketEventsKeep ==
  ASSUME GatewayInv, NEW c \in Conns,
         SocketStep(c) \/ LoadFails(c) \/ Emits(c) \/ TimerFires(c)
  PROVE  Kept
<1>1. MemoryInv
  BY InvGivesMemory
<1>2. CASE LoadAuth(c)
  BY <1>1, <1>2, LoadAuthEffect, StillKeeps DEF Kept
<1>3. CASE MakeSocket(c)
  BY <1>1, <1>3, MakeSocketEffect, MadeKeepsSockets DEF Kept
<1>4. CASE LoadFails(c)
  BY <1>1, <1>4, LoadFailsEffect, FailsKeepsSockets DEF Kept
<1>5. CASE EmitConnecting(c) \/ EmitQr(c) \/ EmitOpen(c)
  <2>1. conns[c].rt \in Runtimes /\ Advances(conns[c].rt, c)
    BY <1>1, <1>5, ConnectingAdvances, QrAdvances, OpenAdvances
  <2> QED
    BY <1>1, <2>1, AdvancesKeepsSockets DEF Kept
<1>6. CASE EmitClose(c)
  BY <1>1, <1>6, CloseCloses, ClosesKeepsSockets DEF Kept
<1>7. CASE EmitCreds(c)
  BY <1>1, <1>7, CredsStill, StillKeeps DEF Kept
<1>8. CASE EmitKeys(c)
  <2>1. Still
    BY <1>8, SameIsStill DEF EmitKeys, memory
  <2> QED
    BY <1>1, <2>1, StillKeeps DEF Kept
<1>9. CASE TimerFires(c)
  <2>1. ConnectsInBackground(timers \ {c})
    BY <1>9 DEF TimerFires
  <2> QED
    BY <2>1, BackgroundKeeps
<1> QED
  BY <1>2, <1>3, <1>4, <1>5, <1>6, <1>7, <1>8, <1>9 DEF SocketStep, Emits

LEMMA NextKeeps ==
  ASSUME GatewayInv, [Next]_vars
  PROVE  (SocketInv => SocketInv') /\ (~Connect(Qr) => Kept)
<1>1. MemoryInv
  BY InvGivesMemory
<1>2. ASSUME NEW c \in Conns, NEW e \in Events, HandlerStep(c, e) \/ HandlerFails(c, e)
      PROVE  Kept
  BY <1>1, <1>2, HandlersStill, StillKeeps DEF Kept
<1>3. ASSUME NEW p \in Threads, RequestStep(p) \/ JobStep(p) \/ JobFails(p)
      PROVE  (SocketInv => SocketInv') /\ (~Connect(Qr) => Kept)
  <2>1. CASE Connect(p)
    BY <2>1, ConnectKeeps
  <2>2. CASE ~Connect(p)
    BY <1>1, <1>3, <2>2, JobStill, StillKeeps DEF Kept
  <2> QED
    BY <2>1, <2>2
<1>4. CASE QrStep
  BY <1>1, <1>4, QrStill, StillKeeps DEF Kept
<1>5. CASE Restore
  BY <1>5, BackgroundKeeps DEF Restore, Kept
<1>6. CASE Restart
  BY <1>1, <1>6, RestartFresh, FreshKeepsSockets DEF Kept
<1>7. CASE FindSession \/ DeleteSession \/ ExpireStatus \/ ExpireQr \/ UNCHANGED vars
  <2>1. UNCHANGED <<runtimes, conns>>
    BY <1>7 DEF FindSession, DeleteSession, ExpireStatus, ExpireQr, vars, memory
  <2> QED
    BY <1>1, <2>1, SameIsStill, StillKeeps DEF Kept
<1> QED
  BY <1>2, <1>3, <1>4, <1>5, <1>6, <1>7, SocketEventsKeep DEF Next, Kept

\* A thread with nothing to do takes no step.
LEMMA IdleRests ==
  ASSUME NEW p \in Threads, p \notin Users, threads[p].pc = "idle"
  PROVE  ~JobStep(p) /\ ~JobFails(p)
  BY DEF JobStep, JobFails, StartUse, CheckRow, Connect, PromiseRejects, WaitEnds, WaitEnters,
         WaitTimesOut, WriteSnapshot, WriteStatusKey, Resolved, Waiting

\* A job leaves the other threads' jobs and queues alone.
LEMMA OtherThreads ==
  ASSUME GatewayInv, NEW p \in Threads, NEW q \in Threads, q # p,
         RequestStep(p) \/ JobStep(p) \/ JobFails(p)
  PROVE  threads'[q] = threads[q] /\ queue'[q] = queue[q]
<1>1. JobThrows(p) \/ JobDone(p) => threads'[q] = threads[q] /\ queue'[q] = queue[q]
  <2>1. JobThrows(p) \/ JobDone(p) => threads' = [threads EXCEPT ![p] = IdleThread]
    BY DEF JobThrows, JobDone
  <2>2. \A f : queue' = [queue EXCEPT ![p] = f] => queue'[q] = queue[q]
    BY DEF GatewayInv, TypeOK, WorkOK
  <2>3. ASSUME JobThrows(p) PROVE queue'[q] = queue[q]
    <3> DEFINE k == threads[p].try + 1
               f == [queue[p] EXCEPT ![k] = @ + 1]
    <3>1. queue' = queue \/ queue' = [queue EXCEPT ![p] = f]
      BY <2>3 DEF JobThrows
    <3> HIDE DEF f
    <3> QED
      BY <2>2, <3>1
  <2>4. JobDone(p) => queue'[q] = queue[q]
    BY DEF JobDone
  <2> QED
    BY <2>1, <2>3, <2>4 DEF GatewayInv, TypeOK, WorkOK
<1>2. \A pc : Takes(p, pc) => threads'[q] = threads[q] /\ queue'[q] = queue[q]
  BY DEF Takes
<1>3. \A pc : Moves(p, pc) => threads'[q] = threads[q]
  BY DEF Moves
<1>4. \A rt : Proceeds(p, rt) => threads'[q] = threads[q] /\ queue'[q] = queue[q]
  <2> SUFFICES ASSUME NEW rt, Proceeds(p, rt), ~JobThrows(p), ~JobDone(p)
               PROVE  threads'[q] = threads[q] /\ queue'[q] = queue[q]
    BY <1>1
  <2> DEFINE t1 == [threads[p] EXCEPT !.pc = "snapRow", !.status = rt.status, !.qr = rt.qr]
             t2 == [threads[p] EXCEPT !.pc = "snapRow", !.status = rt.status]
  <2>1. (threads' = [threads EXCEPT ![p] = t1] \/ threads' = [threads EXCEPT ![p] = t2]) /\ UNCHANGED queue
    BY DEF Proceeds
  <2> HIDE DEF t1, t2
  <2> QED
    BY <2>1 DEF GatewayInv, TypeOK, WorkOK
<1>5. CASE RequestStep(p)
  <2> DEFINE f1 == [queue[p] EXCEPT ![0] = @ + 1]
             f2 == [queue[p] EXCEPT ![0] = @ - 1, ![1] = @ + 1]
             f3 == [queue[p] EXCEPT ![0] = @ - 1]
  <2>1. /\ threads' = threads
        /\ \/ queue' = [queue EXCEPT ![p] = f1] \/ queue' = [queue EXCEPT ![p] = f2]
           \/ queue' = [queue EXCEPT ![p] = f3]
    BY <1>5 DEF RequestStep, Request, Enqueue, EnqueueFails, GatewayInv, TypeOK, WorkOK
  <2> HIDE DEF f1, f2, f3
  <2> QED
    BY <2>1 DEF GatewayInv, TypeOK, WorkOK
<1>6. CASE JobFails(p)
  BY <1>1, <1>6 DEF JobFails
<1>7. CASE StartUse(p) \/ PromiseRejects(p) \/ WaitEnds(p) \/ WaitTimesOut(p)
  BY <1>1, <1>2, <1>4, <1>7 DEF StartUse, PromiseRejects, WaitEnds, WaitTimesOut
<1>8. CASE CheckRow(p) \/ WriteSnapshot(p) \/ WriteStatusKey(p)
  BY <1>1, <1>3, <1>8 DEF CheckRow, WriteSnapshot, WriteStatusKey
<1>9. CASE WaitEnters(p)
  BY <1>9 DEF WaitEnters, work
<1>10. CASE Connect(p)
  <2> DEFINE t(n) == [threads[p] EXCEPT !.pc = WaitPc(threads[p].pc), !.conn = n]
  <2>1. \/ threads' = [threads EXCEPT ![p] = t(nConn + 1)] /\ UNCHANGED queue
        \/ threads' = [threads EXCEPT ![p] = t(runtimes[current].promise)] /\ UNCHANGED queue
        \/ Proceeds(p, runtimes[current])
    BY <1>10 DEF Connect
  <2> HIDE DEF t
  <2> QED
    BY <1>4, <2>1 DEF GatewayInv, TypeOK, WorkOK
<1> QED
  BY <1>5, <1>6, <1>7, <1>8, <1>9, <1>10 DEF JobStep

\* No QR job is running until one is asked for.
LEMMA QrStaysIdle ==
  ASSUME GatewayInv, [Next]_vars, NoQr => QrIdle, NoQr'
  PROVE  NoQr /\ QrIdle' /\ ~Connect(Qr)
<1>1. /\ Qr \in Threads \ Users /\ asked \in [Threads -> Nat]
      /\ Attempts[Qr] \in Nat \ {0}
  BY GatewayAssumption DEF Threads, GatewayInv, TypeOK, WorkOK
<1>2. NoQr => /\ threads[Qr].pc = "idle" /\ threads[Qr].try = 0
              /\ \A k \in 0..Attempts[Qr] : queue[Qr][k] = 0
  BY DEF QrIdle, IdleThread
<1>3. CASE UNCHANGED work
  BY <1>1, <1>2, <1>3, IdleRests DEF work, NoQr, QrIdle, JobStep
<1>4. ASSUME NEW p \in Threads, RequestStep(p) PROVE NoQr /\ QrIdle' /\ p # Qr
  <2>1. NoQr /\ (Request(p) => p # Qr)
    BY <1>1, <1>4 DEF RequestStep, Request, Enqueue, EnqueueFails, NoQr
  <2>2. p # Qr
    <3>1. queue[Qr][0] = 0
      BY <1>1, <1>2, <2>1
    <3> QED
      BY <1>4, <2>1, <3>1 DEF RequestStep, Enqueue, EnqueueFails
  <2> QED
    BY <1>1, <1>4, <2>1, <2>2, OtherThreads DEF QrIdle
<1>5. ASSUME NEW p \in Threads, JobStep(p) \/ JobFails(p) PROVE NoQr /\ QrIdle' /\ p # Qr
  <2>1. NoQr
    BY <1>5 DEF NoQr, JobStep, JobFails, StartUse, CheckRow, Connect, PromiseRejects, WaitEnds,
       WaitEnters, WaitTimesOut, WriteSnapshot, WriteStatusKey, work
  <2>2. p # Qr
    BY <1>1, <1>2, <1>5, <2>1, IdleRests
  <2> QED
    BY <1>1, <1>5, <2>1, <2>2, OtherThreads DEF QrIdle
<1>6. CASE QrStep
  <2>1. NoQr
    BY <1>6 DEF NoQr, QrStep, StartQr, ResetAuth, ResetKeys, ResetRow, WriteQrKey
  <2>2. \A k \in 1..Attempts[Qr] : ~(queue[Qr][k] > 0)
    BY <1>2, <2>1
  <2> QED
    BY <1>2, <1>6, <2>1, <2>2
       DEF QrStep, StartQr, ResetAuth, ResetKeys, ResetRow, WriteQrKey, Takes
<1>7. CASE Restart
  <2>1. NoQr /\ threads' = [p \in Threads |-> IdleThread]
        /\ queue' = [p \in Threads |-> [k \in 0..Attempts[p] |->
                       queue[p][k] + (IF k > 0 /\ threads[p].try = k THEN 1 ELSE 0)]]
    BY <1>7 DEF Restart, NoQr
  <2>2. threads'[Qr] = IdleThread
    BY <1>1, <2>1
  <2>3. \A k \in 0..Attempts[Qr] : queue'[Qr][k] = 0
    BY <1>1, <1>2, <2>1
  <2>4. NoQr /\ QrIdle'
    BY <2>1, <2>2, <2>3 DEF QrIdle
  <2> QED
    BY <1>1, <1>2, <2>4, IdleRests DEF JobStep
<1>8. ASSUME ~UNCHANGED work, ~Restart, ~QrStep
      PROVE  \E p \in Threads : RequestStep(p) \/ JobStep(p) \/ JobFails(p)
  <2>1. \A c \in Conns : SocketStep(c) \/ LoadFails(c) \/ Emits(c) \/ TimerFires(c) => UNCHANGED work
    BY DEF SocketStep, LoadAuth, MakeSocket, LoadFails, Emits, EmitConnecting, EmitQr, EmitCreds,
           EmitKeys, EmitOpen, EmitClose, TimerFires
  <2>2. \A c \in Conns, e \in Events : HandlerStep(c, e) \/ HandlerFails(c, e) => UNCHANGED work
    BY DEF HandlerStep, HandlerFails, SaveAuth, DeleteAuth, UpdateRow, WriteLog, SetStatusKey,
           SetQrKey, ArmTimer, DeleteKeys, DisposeMissing
  <2>3. FindSession \/ Restore \/ DeleteSession \/ ExpireStatus \/ ExpireQr \/ UNCHANGED vars
        => UNCHANGED work
    BY DEF FindSession, Restore, DeleteSession, ExpireStatus, ExpireQr, vars
  <2> QED
    BY <1>8, <2>1, <2>2, <2>3 DEF Next
<1>9. ASSUME NoQr PROVE ~Connect(Qr)
  BY <1>1, <1>2, <1>9, IdleRests DEF JobStep
<1> QED
  BY <1>3, <1>4, <1>5, <1>6, <1>7, <1>8, <1>9

LEMMA SocketsStart == Init => SocketInv /\ AloneInv
<1> SUFFICES ASSUME Init PROVE SocketInv /\ AloneInv
  OBVIOUS
<1>1. (\A c \in Conns : conns[c].stage = "unused") /\ \A r \in Runtimes : runtimes[r].status = "created"
  BY DEF Init, NoConn, FreshRuntime
<1>2. SocketInv /\ Lonely
  BY <1>1 DEF SocketInv, Held, Given, Speaking, Lonely, Single, Used, Open, Live, Pending
<1>3. QrIdle
  BY GatewayAssumption DEF Init, QrIdle, Threads
<1> QED
  BY <1>2, <1>3 DEF AloneInv, Lonely

LEMMA AloneStep == GatewayInv /\ AloneInv /\ [Next]_vars => AloneInv'
<1> SUFFICES ASSUME GatewayInv, AloneInv, [Next]_vars, NoQr' PROVE QrIdle' /\ Lonely'
  BY DEF AloneInv, Lonely
<1>1. NoQr /\ QrIdle' /\ ~Connect(Qr)
  BY QrStaysIdle DEF AloneInv
<1>2. Lonely
  BY <1>1 DEF AloneInv, Lonely
<1> QED
  BY <1>1, <1>2, NextKeeps DEF Kept

LEMMA SocketStepInv == GatewayInv /\ SocketInv /\ [Next]_vars => SocketInv'
  BY NextKeeps

-----------------------------------------------------------------------------
(* The theorems about the socket in use.                                    *)

\* Both invariants hold in every reachable state, whatever the bounds.
THEOREM SocketInvariance == Spec => [](SocketInv /\ AloneInv)
<1>1. GatewayInv /\ SocketInv /\ AloneInv /\ [Next]_vars => SocketInv' /\ AloneInv'
  BY AloneStep, SocketStepInv
<1> QED
  BY <1>1, SocketsStart, GatewayInvariance, PTL DEF Spec

\* A runtime that says connected has a socket, or its newest creation is under way or has
\* failed: with QR jobs forcing connects, restarts, failing calls, and handlers overlapping as
\* they please.
THEOREM ConnectedHasSocket == Spec => []ConnectedOrConnecting
<1>1. GatewayInv /\ SocketInv => ConnectedOrConnecting
  <2> SUFFICES ASSUME GatewayInv, SocketInv, current # 0,
                      runtimes[current].status = "connected", runtimes[current].socket = 0
               PROVE  Tried(current)
    BY DEF ConnectedOrConnecting, Tried
  <2>1. current \in Runtimes
    BY InvGivesMemory, GatewayAssumption DEF MemoryInv, MemoryOK, Runtimes
  <2> QED
    BY <2>1 DEF SocketInv, Given
<1> QED
  BY <1>1, SocketInvariance, GatewayInvariance, PTL

\* Until the first QR job, jobs, timers and the restore create one socket of a runtime at a
\* time: joining connectPromise is what keeps the second away.
THEOREM CreationsAreSingle == Spec => [](NoQr => SingleFlight)
<1>1. AloneInv => (NoQr => SingleFlight)
  BY DEF AloneInv, Single, SingleFlight
<1> QED
  BY <1>1, SocketInvariance, PTL

\* Until the first QR job, what says connected is: the runtime's socket is its newest, open
\* and listened to, through restarts, failing creations and superseded sockets.
THEOREM ConnectedSocketIsOpen == Spec => [](NoQr => ConnectedIsCurrent)
<1>1. GatewayInv /\ AloneInv => (NoQr => ConnectedIsCurrent)
  <2> SUFFICES ASSUME GatewayInv, AloneInv, NoQr, current # 0,
                      runtimes[current].status = "connected"
               PROVE  LET s == runtimes[current].socket IN
                      s # 0 /\ conns[s].rt = current /\ Listening(s) /\ conns[s].stage = "open"
    BY DEF ConnectedIsCurrent
  <2>1. current \in Runtimes
    BY InvGivesMemory, GatewayAssumption DEF MemoryInv, MemoryOK, Runtimes
  <2>2. OpenSocket(current)
    BY <2>1 DEF AloneInv, Open
  <2> QED
    BY <2>2, InvGivesMemory, Numbered DEF OpenSocket
<1> QED
  BY <1>1, SocketInvariance, GatewayInvariance, PTL
-----------------------------------------------------------------------------
(* A session that no job uses: only timers and the restore connect it.       *)

NoJobs  == \A p \in Threads : asked[p] = 0
Resting == \A p \in Threads : /\ threads[p] = IdleThread
                              /\ \A k \in 0..Attempts[p] : queue[p][k] = 0

Alive(c)      == conns[c].stage \in Live \cup Pending
\* Its close will be followed by a reconnect timer.
Arming(c)     == Working(c, "close") /\ conns[c].cause = "lost"
\* There is a connection, or another will follow.
Carries(c)    == Alive(c) \/ Arming(c) \/ c \in timers

\* The newest connection alone does, and as one thing at a time; none does before the
\* restore nor after a logout.
ChainInv ==
    /\ \A c \in Conns : Carries(c) => c = nConn
    /\ timers \subseteq Conns
    /\ \A c \in Conns : Arming(c) \/ c \in timers => conns[c].stage = "closed"
    /\ \A c \in Conns : c \in timers => ~Arming(c)
    /\ \A c \in Conns, e \in Events : At(c, e, "arm") => Lost(c, e)
    /\ boot # "over" => current = 0 /\ \A c \in Conns : ~Carries(c)
    /\ \A r \in Runtimes : r > nRt => runtimes[r].status = "created" /\ runtimes[r].qr = 0
    /\ current # 0 /\ runtimes[current].status = "logged_out" => \A c \in Conns : ~Carries(c)

\* Whose events are handled, where, and when its QR code is shown.
InPlace ==
    /\ \A c \in Conns : Alive(c) => Listening(c)
    /\ \A c \in Conns : Carries(c) =>
         /\ current # 0 => conns[c].rt = current
         /\ conns[c].stage # "qr" => runtimes[conns[c].rt].qr = 0

\* Whose handlers there are, which of them save credentials, and which do nothing else.
Saves == \A c \in Conns, e \in Events :
           /\ Working(c, e) => c <= nConn
           /\ At(c, e, "save") => e \in {"open", "creds", "keys"}
           /\ Working(c, e) /\ e \notin Telling => At(c, e, "save")

\* What the one telling handler has told the stores, and what they say when there is none.
Agree == dbStatus = runtimes[current].status /\ rStatus \in {"none", runtimes[current].status}
Tells(c, e) ==
    /\ Working(c, e) /\ \A d \in Conns, f \in Telling : Working(d, f) => d = c /\ f = e
    /\ Reported(c, e) = runtimes[current].status
    /\ handlers[c][e] \in {"log", "status"} => dbStatus = runtimes[current].status
    /\ handlers[c][e] \in {"qrKey", "arm"} => Agree
Told ==
    row /\ current # 0 /\ runtimes[current].status # "created" =>
      \/ Agree /\ \A c \in Conns, e \in Telling : ~Working(c, e)
      \/ \E c \in Conns, e \in Telling : Tells(c, e)
Forgotten ==
    current # 0 /\ runtimes[current].status = "logged_out" =>
        /\ auth = 0 \/ \E c \in Conns : At(c, "close", "auth")
        /\ \A c \in Conns, e \in Events : ~At(c, e, "save")

LoneInv == NoJobs => Resting /\ ChainInv

PlaceInv  == InPlace /\ Saves
TruthInv  == /\ upset \subseteq {"saving"} => Told
             /\ upset \subseteq {"telling"} => Forgotten
StoresInv == NoJobs => PlaceInv /\ TruthInv

-----------------------------------------------------------------------------
(* Jobs rest until one is asked for.                                         *)

LoneStep ==
    \/ \E c \in Conns : \/ SocketStep(c) \/ LoadFails(c) \/ Emits(c) \/ TimerFires(c)
                         \/ \E e \in Events : HandlerStep(c, e) \/ HandlerFails(c, e)
    \/ FindSession \/ Restore \/ Restart \/ DeleteSession \/ ExpireStatus \/ ExpireQr
    \/ UNCHANGED vars

LEMMA NobodyWorks ==
  ASSUME GatewayInv, Resting, NEW p \in Threads
  PROVE  ~JobStep(p) /\ ~JobFails(p) /\ ~QrStep
<1>1. \A q \in Threads : /\ threads[q].pc = "idle"
                         /\ \A k \in 1..Attempts[q] : ~(queue[q][k] > 0)
  BY GatewayAssumption DEF Resting, IdleThread
<1>2. \A q \in Threads : \A pc : ~Takes(q, pc)
  BY <1>1 DEF Takes
<1>3. Qr \in Threads
  BY DEF Threads
<1>4. ~JobStep(p) /\ ~JobFails(p)
  BY <1>1, <1>2
     DEF JobStep, JobFails, StartUse, CheckRow, Connect, PromiseRejects, WaitEnds, WaitEnters,
         WaitTimesOut, WriteSnapshot, WriteStatusKey, Resolved, Waiting
<1>5. ~QrStep
  BY <1>1, <1>2, <1>3 DEF QrStep, StartQr, ResetAuth, ResetKeys, ResetRow, WriteQrKey
<1> QED
  BY <1>4, <1>5

LEMMA JobsRest ==
  ASSUME GatewayInv, [Next]_vars, NoJobs => Resting, NoJobs'
  PROVE  NoJobs /\ Resting' /\ LoneStep
<1>1. Resting => LoneStep \/ \E p \in Threads : RequestStep(p)
  <2>1. Resting => ~QrStep
    BY NobodyWorks DEF Threads
  <2> QED
    BY <2>1, NobodyWorks DEF Next, LoneStep
<1>2. ASSUME NEW p \in Threads, RequestStep(p) PROVE FALSE
  <2>1. ~Request(p) /\ NoJobs
    BY <1>2 DEF RequestStep, Request, Enqueue, EnqueueFails, NoJobs, GatewayInv, TypeOK, WorkOK
  <2>2. queue[p][0] = 0
    BY <2>1, GatewayAssumption DEF Resting
  <2> QED
    BY <1>2, <2>1, <2>2 DEF RequestStep, Enqueue, EnqueueFails
<1>3. UNCHANGED asked => NoJobs
  BY DEF NoJobs
<1>4. ASSUME NEW p \in Threads, JobStep(p) \/ JobFails(p) \/ QrStep PROVE UNCHANGED asked
  BY <1>4 DEF QrStep, StartQr, ResetAuth, ResetKeys, ResetRow, WriteQrKey, JobStep, JobFails,
       StartUse, CheckRow, Connect, PromiseRejects, WaitEnds, WaitEnters, WaitTimesOut,
       WriteSnapshot, WriteStatusKey, work
<1>5. LoneStep => UNCHANGED work \/ Restart
  <2>1. \A c \in Conns : SocketStep(c) \/ LoadFails(c) \/ Emits(c) \/ TimerFires(c) => UNCHANGED work
    BY DEF SocketStep, LoadAuth, MakeSocket, LoadFails, Emits, EmitConnecting, EmitQr, EmitCreds,
           EmitKeys, EmitOpen, EmitClose, TimerFires
  <2>2. \A c \in Conns, e \in Events : HandlerStep(c, e) \/ HandlerFails(c, e) => UNCHANGED work
    BY DEF HandlerStep, HandlerFails, SaveAuth, DeleteAuth, UpdateRow, WriteLog, SetStatusKey,
           SetQrKey, ArmTimer, DeleteKeys, DisposeMissing
  <2>3. FindSession \/ Restore \/ DeleteSession \/ ExpireStatus \/ ExpireQr \/ UNCHANGED vars
        => UNCHANGED work
    BY DEF FindSession, Restore, DeleteSession, ExpireStatus, ExpireQr, vars
  <2> QED
    BY <2>1, <2>2, <2>3 DEF LoneStep
<1>6. NoJobs
  <2>1. LoneStep \/ \E p \in Threads : RequestStep(p) \/ JobStep(p) \/ JobFails(p) \/ QrStep
    <3>1. Qr \in Threads
      BY DEF Threads
    <3> QED
      BY <3>1 DEF Next, LoneStep
  <2>2. Restart => UNCHANGED asked
    BY DEF Restart
  <2> QED
    BY <1>2, <1>3, <1>4, <1>5, <2>1, <2>2 DEF work
<1>7. CASE UNCHANGED work
  BY <1>1, <1>2, <1>6, <1>7 DEF work, Resting
<1>8. CASE Restart
  <2>1. Restart => LoneStep
    BY DEF LoneStep
  <2>2. threads' = [p \in Threads |-> IdleThread]
        /\ queue' = [p \in Threads |-> [k \in 0..Attempts[p] |->
                       queue[p][k] + (IF k > 0 /\ threads[p].try = k THEN 1 ELSE 0)]]
    BY <1>8 DEF Restart
  <2>3. ASSUME NEW p \in Threads PROVE threads'[p] = IdleThread
    BY <2>2
  <2>4. ASSUME NEW p \in Threads, NEW k \in 0..Attempts[p] PROVE queue'[p][k] = 0
    <3>1. queue[p][k] = 0 /\ threads[p].try = 0
      BY <1>6 DEF Resting, IdleThread
    <3>2. Attempts[p] \in Nat
      BY GatewayAssumption
    <3> QED
      BY <2>2, <3>1, <3>2
  <2> QED
    BY <1>6, <1>8, <2>1, <2>3, <2>4 DEF Resting
<1> QED
  BY <1>1, <1>2, <1>5, <1>6, <1>7, <1>8

-----------------------------------------------------------------------------
(* What a step does to connections, runtimes and handlers.                   *)

SameShown(r) == /\ runtimes'[r].status = runtimes[r].status /\ runtimes'[r].qr = runtimes[r].qr
                /\ runtimes'[r].gen = runtimes[r].gen
OthersShown(r) == \A q \in Runtimes \ {r} : SameShown(q)
OthersLast(c) == \A d \in Conns \ {c} : /\ SameNumbers(d) /\ conns'[d].stage = conns[d].stage
                                        /\ conns'[d].cause = conns[d].cause
SameWork(c, e) == handlers'[c][e] = handlers[c][e]

\* No connection starts, shows a QR code or closes.
Unchanging(c) ==
    /\ SameNumbers(c) /\ conns'[c].cause = conns[c].cause
    /\ conns'[c].stage \in Live \cup Pending => conns[c].stage \in Live \cup Pending
    /\ conns'[c].stage \in Pending => conns[c].stage \in Pending
    /\ conns[c].stage = "closed" => conns'[c].stage = "closed"
    /\ conns'[c].stage = "qr" <=> conns[c].stage = "qr"
Calm ==
    /\ \A r \in Runtimes : SameShown(r)
    /\ \A c \in Conns : Unchanging(c)
    /\ nRt' = nRt /\ nConn' = nConn /\ (boot' # "over" => boot # "over") /\ current' \in {0, current}

\* The handler of event e on c starts at pc, and the runtime shows it if c is listened to.
Starting(c, e, stage, cause, status, qr, pc) ==
    LET r == conns[c].rt IN
    /\ MayEmit(c, e) /\ r \in Runtimes
    /\ conns'[c].stage = stage /\ conns'[c].cause = cause /\ SameNumbers(c) /\ OthersLast(c)
    /\ IF Listening(c) THEN runtimes'[r].status = status /\ runtimes'[r].qr = qr
                            /\ runtimes'[r].gen = runtimes[r].gen
                       ELSE SameShown(r)
    /\ OthersShown(r)
    /\ handlers'[c][e] \in {pc, "done"} /\ (Listening(c) => handlers'[c][e] = pc)
    /\ \A d \in Conns, f \in Events : d # c \/ f # e => SameWork(d, f)
    /\ UNCHANGED <<store, current, nRt, nConn, timers, environ>>

LEMMA HandlesEffect ==
  ASSUME HandlersOK, NEW c \in Conns, NEW e \in Events, NEW pc, Handles(c, e, pc)
  PROVE  /\ handlers'[c][e] = IF Listening(c) THEN pc ELSE "done"
         /\ \A d \in Conns, f \in Events : d # c \/ f # e => SameWork(d, f)
<1> DEFINE st == IF Listening(c) THEN pc ELSE "done"
<1>1. handlers' = [handlers EXCEPT ![c][e] = st]
  BY DEF Handles
<1> HIDE DEF st
<1>2. /\ handlers'[c][e] = st
      /\ \A d \in Conns, f \in Events : d # c \/ f # e => SameWork(d, f)
  BY <1>1 DEF HandlersOK, SameWork
<1> QED
  BY <1>2 DEF st

LEMMA GotoEffect ==
  ASSUME HandlersOK, NEW c \in Conns, NEW e \in Events, NEW pc, Goto(c, e, pc)
  PROVE  /\ handlers'[c][e] = pc
         /\ \A d \in Conns, f \in Events : d # c \/ f # e => SameWork(d, f)
  BY DEF Goto, HandlersOK, SameWork

LEMMA OneLast ==
  ASSUME MemoryInv, NEW c \in Conns, NEW cn, conns' = [conns EXCEPT ![c] = cn]
  PROVE  conns'[c] = cn /\ OthersLast(c)
  BY DEF MemoryInv, MemoryOK, OthersLast, SameNumbers

\* The runtime an event of c meets.
LEMMA SetsShown ==
  ASSUME MemoryInv, NEW c \in Conns, conns[c].stage \in Live, NEW rt, SetsRuntime(c, rt)
  PROVE  /\ conns[c].rt \in Runtimes /\ OthersShown(conns[c].rt)
         /\ IF Listening(c) THEN runtimes'[conns[c].rt] = rt ELSE SameShown(conns[c].rt)
         /\ conns[c] \in ConnRecords /\ runtimes[conns[c].rt] \in RuntimeRecords
<1>1. /\ conns[c].rt \in Runtimes /\ conns[c] \in ConnRecords
      /\ runtimes[conns[c].rt] \in RuntimeRecords
  BY Numbered DEF MemoryInv, MemoryOK, Live
<1> QED
  BY <1>1 DEF MemoryInv, MemoryOK, SetsRuntime, OthersShown, SameShown

LEMMA EventNames == Events = {"connecting", "qr", "open", "close", "creds", "keys"}
  BY DEF Events

LEMMA ConnectingStarts ==
  ASSUME GatewayInv, NEW c \in Conns, EmitConnecting(c)
  PROVE  LET q == runtimes[conns[c].rt].qr IN
         Starting(c, "connecting", "connecting", conns[c].cause,
                  IF q # 0 THEN "pending_qr" ELSE "reconnecting", q, IF q # 0 THEN "done" ELSE "row")
<1> DEFINE r == conns[c].rt
           cn == [conns[c] EXCEPT !.stage = "connecting"]
           st == IF runtimes[r].qr # 0 THEN "pending_qr" ELSE "reconnecting"
           pc == IF runtimes[r].qr # 0 THEN "done" ELSE "row"
           rt == [runtimes[r] EXCEPT !.status = st]
<1>1. /\ conns' = [conns EXCEPT ![c] = cn] /\ SetsRuntime(c, rt) /\ Handles(c, "connecting", pc)
      /\ conns[c].stage \in Live /\ MayEmit(c, "connecting")
      /\ UNCHANGED <<store, current, nRt, nConn, timers, environ>>
  BY DEF EmitConnecting, MayEmit
<1>2. MemoryInv /\ HandlersOK
  BY InvGivesMemory DEF GatewayInv, TypeOK
<1>3. /\ cn.rt = r /\ cn.gen = conns[c].gen /\ cn.stage = "connecting"
      /\ cn.cause = conns[c].cause
  BY <1>1, <1>2, SetsShown DEF ConnRecords
<1> HIDE DEF st, pc
<1>4. rt.status = st /\ rt.qr = runtimes[r].qr /\ rt.gen = runtimes[r].gen
  BY <1>1, <1>2, SetsShown DEF RuntimeRecords
<1> HIDE DEF cn, rt
<1>5. conns'[c] = cn /\ OthersLast(c)
  BY <1>1, <1>2, OneLast
<1>6. Starting(c, "connecting", "connecting", conns[c].cause, st, runtimes[r].qr, pc)
  BY <1>1, <1>2, <1>3, <1>4, <1>5, SetsShown, HandlesEffect, EventNames DEF Starting, SameNumbers
<1> QED
  BY <1>6 DEF st, pc

LEMMA QrStarts ==
  ASSUME GatewayInv, NEW c \in Conns, EmitQr(c)
  PROVE  Starting(c, "qr", "qr", conns[c].cause, "pending_qr", c, "row")
<1> DEFINE r == conns[c].rt
           cn == [conns[c] EXCEPT !.stage = "qr"]
           rt == [runtimes[r] EXCEPT !.qr = c, !.status = "pending_qr"]
<1>1. /\ conns' = [conns EXCEPT ![c] = cn] /\ SetsRuntime(c, rt) /\ Handles(c, "qr", "row")
      /\ conns[c].stage \in Live /\ MayEmit(c, "qr")
      /\ UNCHANGED <<store, current, nRt, nConn, timers, environ>>
  BY DEF EmitQr, MayEmit
<1>2. MemoryInv /\ HandlersOK
  BY InvGivesMemory DEF GatewayInv, TypeOK
<1>3. cn.rt = r /\ cn.gen = conns[c].gen /\ cn.stage = "qr" /\ cn.cause = conns[c].cause
  BY <1>1, <1>2, SetsShown DEF ConnRecords
<1>4. rt.status = "pending_qr" /\ rt.qr = c /\ rt.gen = runtimes[r].gen
  BY <1>1, <1>2, SetsShown DEF RuntimeRecords
<1> HIDE DEF cn, rt
<1>5. conns'[c] = cn /\ OthersLast(c)
  BY <1>1, <1>2, OneLast
<1> QED
  BY <1>1, <1>2, <1>3, <1>4, <1>5, SetsShown, HandlesEffect, EventNames DEF Starting, SameNumbers

LEMMA OpenStarts ==
  ASSUME GatewayInv, NEW c \in Conns, EmitOpen(c)
  PROVE  Starting(c, "open", "open", conns[c].cause, "connected", 0, "save")
<1> DEFINE r == conns[c].rt
           cn == [conns[c] EXCEPT !.stage = "open"]
           rt == [runtimes[r] EXCEPT !.status = "connected", !.qr = 0]
<1>1. /\ conns' = [conns EXCEPT ![c] = cn] /\ SetsRuntime(c, rt) /\ Handles(c, "open", "save")
      /\ conns[c].stage \in Live /\ MayEmit(c, "open")
      /\ UNCHANGED <<store, current, nRt, nConn, timers, environ>>
  BY DEF EmitOpen, MayEmit
<1>2. MemoryInv /\ HandlersOK
  BY InvGivesMemory DEF GatewayInv, TypeOK
<1>3. cn.rt = r /\ cn.gen = conns[c].gen /\ cn.stage = "open" /\ cn.cause = conns[c].cause
  BY <1>1, <1>2, SetsShown DEF ConnRecords
<1>4. rt.status = "connected" /\ rt.qr = 0 /\ rt.gen = runtimes[r].gen
  BY <1>1, <1>2, SetsShown DEF RuntimeRecords
<1> HIDE DEF cn, rt
<1>5. conns'[c] = cn /\ OthersLast(c)
  BY <1>1, <1>2, OneLast
<1> QED
  BY <1>1, <1>2, <1>3, <1>4, <1>5, SetsShown, HandlesEffect, EventNames DEF Starting, SameNumbers

CloseStatus(cause) == IF cause = "lost" THEN "disconnected" ELSE cause
ClosePc(cause)     == IF cause = "lost" THEN "row" ELSE "auth"

LEMMA CloseStarts ==
  ASSUME GatewayInv, NEW c \in Conns, EmitClose(c)
  PROVE  \E cause \in {"lost", "logged_out"} :
           Starting(c, "close", "closed", cause, CloseStatus(cause), 0, ClosePc(cause))
<1> PICK cause \in {"lost", "logged_out"} :
      /\ MayEmit(c, "close")
      /\ conns' = [conns EXCEPT ![c] = [@ EXCEPT !.stage = "closed", !.cause = cause]]
      /\ SetsRuntime(c, Closed(runtimes[conns[c].rt], cause))
      /\ Handles(c, "close", IF cause = "lost" THEN "row" ELSE "auth")
      /\ UNCHANGED <<store, current, nRt, nConn, timers, environ>>
  BY DEF EmitClose
<1> DEFINE r == conns[c].rt
           cn == [conns[c] EXCEPT !.stage = "closed", !.cause = cause]
           rt == Closed(runtimes[r], cause)
<1>1. /\ conns' = [conns EXCEPT ![c] = cn] /\ SetsRuntime(c, rt)
      /\ Handles(c, "close", ClosePc(cause)) /\ conns[c].stage \in Live
  BY DEF MayEmit, ClosePc
<1>2. MemoryInv /\ HandlersOK
  BY InvGivesMemory DEF GatewayInv, TypeOK
<1>3. cn.rt = r /\ cn.gen = conns[c].gen /\ cn.stage = "closed" /\ cn.cause = cause
  BY <1>1, <1>2, SetsShown DEF ConnRecords
<1>4. rt.status = CloseStatus(cause) /\ rt.qr = 0 /\ rt.gen = runtimes[r].gen
  BY <1>1, <1>2, SetsShown DEF RuntimeRecords, Closed, CloseStatus
<1> HIDE DEF cn, rt
<1>5. conns'[c] = cn /\ OthersLast(c)
  BY <1>1, <1>2, OneLast
<1>6. Starting(c, "close", "closed", cause, CloseStatus(cause), 0, ClosePc(cause))
  BY <1>1, <1>2, <1>3, <1>4, <1>5, SetsShown, HandlesEffect, EventNames DEF Starting, SameNumbers
<1> QED
  BY <1>6

\* Credentials and keys change nothing that shows.
LEMMA SavingStarts ==
  ASSUME GatewayInv, NEW c \in Conns, EmitCreds(c) \/ EmitKeys(c)
  PROVE  \E e \in {"creds", "keys"} :
           Starting(c, e, conns[c].stage, conns[c].cause, runtimes[conns[c].rt].status,
                    runtimes[conns[c].rt].qr, "save")
<1> DEFINE r == conns[c].rt
           cn == [conns[c] EXCEPT !.paired = TRUE]
<1>1. MemoryInv /\ HandlersOK
  BY InvGivesMemory DEF GatewayInv, TypeOK
<1>2. \A q \in Runtimes : runtimes' = runtimes => SameShown(q)
  BY DEF SameShown
<1>3. conns[c].stage \in Live => r \in Runtimes /\ conns[c] \in ConnRecords
  BY <1>1, Numbered DEF MemoryInv, MemoryOK, Live
<1>4. CASE EmitCreds(c)
  <2>1. /\ conns' = [conns EXCEPT ![c] = cn] /\ runtimes' = runtimes /\ Handles(c, "creds", "save")
        /\ conns[c].stage \in Live /\ MayEmit(c, "creds")
        /\ UNCHANGED <<store, current, nRt, nConn, timers, environ>>
    BY <1>4 DEF EmitCreds, MayEmit
  <2>2. cn.rt = r /\ cn.gen = conns[c].gen /\ cn.stage = conns[c].stage /\ cn.cause = conns[c].cause
    BY <1>3, <2>1 DEF ConnRecords
  <2> HIDE DEF cn
  <2>3. conns'[c] = cn /\ OthersLast(c)
    BY <1>1, <2>1, OneLast
  <2>4. /\ handlers'[c]["creds"] \in {"save", "done"}
        /\ Listening(c) => handlers'[c]["creds"] = "save"
        /\ \A d \in Conns, f \in Events : d # c \/ f # "creds" => SameWork(d, f)
    BY <1>1, <2>1, HandlesEffect, EventNames
  <2> QED
    BY <1>2, <1>3, <2>1, <2>2, <2>3, <2>4 DEF Starting, SameNumbers, SameShown, OthersShown
<1>5. CASE EmitKeys(c)
  <2>1. /\ UNCHANGED <<conns, runtimes>> /\ Goto(c, "keys", "save")
        /\ conns[c].stage \in Live /\ MayEmit(c, "keys")
        /\ UNCHANGED <<store, current, nRt, nConn, timers, environ>>
    BY <1>5 DEF EmitKeys, MayEmit, Goto, memory
  <2>2. /\ handlers'[c]["keys"] = "save"
        /\ \A d \in Conns, f \in Events : d # c \/ f # "keys" => SameWork(d, f)
    BY <1>1, <2>1, GotoEffect, EventNames
  <2> QED
    BY <1>2, <1>3, <2>1, <2>2 DEF Starting, SameNumbers, SameShown, OthersShown, OthersLast
<1> QED
  BY <1>4, <1>5

-----------------------------------------------------------------------------
(* Steps that start nothing.                                                 *)

LEMMA SameIsCalm ==
  ASSUME UNCHANGED <<runtimes, conns, nRt, nConn, current>>, boot' # "over" => boot # "over"
  PROVE  Calm
  BY DEF Calm, SameShown, Unchanging, SameNumbers

\* One connection and fields of its runtime that do not show.
LEMMA OneIsCalm ==
  ASSUME MemoryInv, NEW c \in Conns, NEW cn, conns' = [conns EXCEPT ![c] = cn],
         cn.rt = conns[c].rt, cn.gen = conns[c].gen, cn.cause = conns[c].cause,
         conns[c].stage \in Pending, cn.stage \in Live \cup Pending \cup {"failed"},
         cn.stage # "qr",
         \A r \in Runtimes : SameShown(r), UNCHANGED <<nRt, nConn, current, boot>>
  PROVE  Calm
<1>1. conns'[c] = cn /\ OthersLast(c)
  BY OneLast
<1>2. Unchanging(c)
  BY <1>1 DEF Unchanging, SameNumbers, Pending, Live
<1>3. \A d \in Conns \ {c} : Unchanging(d)
  BY <1>1 DEF OthersLast, Unchanging
<1> QED
  BY <1>2, <1>3 DEF Calm

LEMMA SocketIsCalm ==
  ASSUME GatewayInv, NEW c \in Conns, SocketStep(c) \/ LoadFails(c)
  PROVE  Calm /\ UNCHANGED <<handlers, timers>>
<1> DEFINE r == conns[c].rt
<1>1. MemoryInv
  BY InvGivesMemory
<1>2. conns[c].stage \in Pending => /\ conns[c] \in ConnRecords /\ r \in Runtimes
                                    /\ runtimes \in [Runtimes -> RuntimeRecords]
  BY <1>1, Numbered DEF MemoryInv, MemoryOK, Pending
<1>3. CASE LoadAuth(c)
  <2> DEFINE cn == [conns[c] EXCEPT !.stage = "make", !.pair = IF auth # 0 THEN auth ELSE c,
                                    !.paired = (auth # 0)]
  <2>1. /\ conns' = [conns EXCEPT ![c] = cn] /\ conns[c].stage \in Pending
        /\ UNCHANGED <<runtimes, nRt, nConn, current, boot, handlers, timers>>
    BY <1>3 DEF LoadAuth, Pending, environ
  <2>2. cn.rt = r /\ cn.gen = conns[c].gen /\ cn.cause = conns[c].cause /\ cn.stage = "make"
    BY <1>2, <2>1 DEF ConnRecords
  <2> HIDE DEF cn
  <2> QED
    BY <1>1, <2>1, <2>2, OneIsCalm DEF SameShown, Pending
<1>4. CASE LoadFails(c)
  <2> DEFINE cn == [conns[c] EXCEPT !.stage = "failed"]
             rt == [runtimes[r] EXCEPT !.promise = 0]
  <2>1. /\ conns' = [conns EXCEPT ![c] = cn] /\ conns[c].stage \in Pending
        /\ runtimes' = [runtimes EXCEPT ![r] = rt]
        /\ UNCHANGED <<nRt, nConn, current, boot, handlers, timers>>
    BY <1>4 DEF LoadFails, Pending
  <2>2. cn.rt = r /\ cn.gen = conns[c].gen /\ cn.cause = conns[c].cause /\ cn.stage = "failed"
    BY <1>2, <2>1 DEF ConnRecords
  <2>3. rt.status = runtimes[r].status /\ rt.qr = runtimes[r].qr /\ rt.gen = runtimes[r].gen
    BY <1>2, <2>1 DEF RuntimeRecords
  <2> HIDE DEF cn, rt
  <2>4. \A q \in Runtimes : SameShown(q)
    BY <1>2, <2>1, <2>3 DEF SameShown
  <2> QED
    BY <1>1, <2>1, <2>2, <2>4, OneIsCalm
<1>5. CASE MakeSocket(c)
  <2> DEFINE cn == [conns[c] EXCEPT !.stage = "new"]
             rt == Created(runtimes[r], c)
  <2>1. /\ conns' = [conns EXCEPT ![c] = cn] /\ conns[c].stage \in Pending
        /\ runtimes' = [runtimes EXCEPT ![r] = rt]
        /\ UNCHANGED <<nRt, nConn, current, boot, handlers, timers>>
    BY <1>5 DEF MakeSocket, Pending, environ
  <2>2. cn.rt = r /\ cn.gen = conns[c].gen /\ cn.cause = conns[c].cause /\ cn.stage = "new"
    BY <1>2, <2>1 DEF ConnRecords
  <2>3. rt.status = runtimes[r].status /\ rt.qr = runtimes[r].qr /\ rt.gen = runtimes[r].gen
    BY <1>2, <2>1 DEF RuntimeRecords, Created
  <2> HIDE DEF cn, rt
  <2>4. \A q \in Runtimes : SameShown(q)
    BY <1>2, <2>1, <2>3 DEF SameShown
  <2> QED
    BY <1>1, <2>1, <2>2, <2>4, OneIsCalm DEF Live
<1> QED
  BY <1>3, <1>4, <1>5 DEF SocketStep

\* What disposeRuntime and a timer leave of QR codes, and of the causes of closes.
LEMMA DisposedShown ==
  ASSUME MemoryInv
  PROVE  /\ \A r \in Runtimes : DisposedRuntimes[r].qr = runtimes[r].qr
         /\ \A c \in Conns : DisposedConns[c].cause = conns[c].cause
<1>1. runtimes \in [Runtimes -> RuntimeRecords] /\ conns \in [Conns -> ConnRecords]
  BY DEF MemoryInv, MemoryOK
<1>2. CASE current = 0
  BY <1>2 DEF DisposedRuntimes, DisposedConns
<1>3. CASE current # 0
  <2> DEFINE rt == [runtimes[current] EXCEPT !.closed = TRUE, !.timer = 0]
             s == runtimes[current].socket
             cn == [conns[s] EXCEPT !.closing = TRUE]
  <2>1. current \in Runtimes /\ runtimes[current] \in RuntimeRecords
    BY <1>1, <1>3, GatewayAssumption DEF MemoryInv, MemoryOK, Runtimes
  <2>2. /\ DisposedRuntimes = [runtimes EXCEPT ![current] = rt]
        /\ DisposedConns = conns \/ DisposedConns = [conns EXCEPT ![s] = cn]
    BY <1>3 DEF DisposedRuntimes, DisposedConns, Closing
  <2>3. rt.qr = runtimes[current].qr
    BY <2>1 DEF RuntimeRecords
  <2>4. s \in Conns => cn.cause = conns[s].cause
    BY <1>1 DEF ConnRecords
  <2> HIDE DEF rt, cn, s
  <2> QED
    BY <1>1, <2>1, <2>2, <2>3, <2>4
<1> QED
  BY <1>2, <1>3

LEMMA TimerShown ==
  ASSUME NEW rs \in [Runtimes -> RuntimeRecords], NEW r, NEW c \in Conns
  PROVE  \A q \in Runtimes : [rs EXCEPT ![r].timer = c][q].qr = rs[q].qr
<1> DEFINE rt == [rs[r] EXCEPT !.timer = c]
<1>1. [rs EXCEPT ![r].timer = c] = [rs EXCEPT ![r] = rt]
  OBVIOUS
<1>2. r \in Runtimes => rt.qr = rs[r].qr
  BY DEF RuntimeRecords
<1> HIDE DEF rt
<1> QED
  BY <1>1, <1>2

LEMMA HandlersAreCalm ==
  ASSUME GatewayInv, NEW c \in Conns, NEW e \in Events, HandlerStep(c, e) \/ HandlerFails(c, e)
  PROVE  Calm
<1>1. MemoryInv /\ runtimes \in [Runtimes -> RuntimeRecords]
  BY InvGivesMemory DEF MemoryInv, MemoryOK
<1>2. /\ \A r \in Runtimes : runtimes'[r].qr = runtimes[r].qr
      /\ \A d \in Conns : conns'[d].cause = conns[d].cause /\ conns'[d].stage = conns[d].stage
                          /\ SameNumbers(d)
      /\ UNCHANGED <<nRt, nConn, boot>> /\ current' \in {0, current}
  <2>1. CASE ArmTimer(c, e)
    <3> DEFINE armed == [runtimes EXCEPT ![conns[c].rt].timer = c]
    <3>1. /\ runtimes' = armed \/ runtimes' = runtimes
          /\ UNCHANGED <<conns, nRt, nConn, boot, current>>
      BY <2>1 DEF ArmTimer, environ
    <3>2. \A r \in Runtimes : armed[r].qr = runtimes[r].qr
      BY <1>1, TimerShown
    <3> HIDE DEF armed
    <3> QED
      BY <3>1, <3>2 DEF SameNumbers
  <2>2. CASE DisposeMissing(c, e)
    <3> DEFINE armed == [DisposedRuntimes EXCEPT ![conns[c].rt].timer = c]
    <3>1. /\ runtimes' = armed \/ runtimes' = DisposedRuntimes
          /\ conns' = DisposedConns /\ current' = 0 /\ UNCHANGED <<nRt, nConn, boot>>
      BY <2>2 DEF DisposeMissing, environ
    <3>2. \A r \in Runtimes : armed[r].qr = DisposedRuntimes[r].qr
      BY <1>1, DisposedEffect, TimerShown
    <3> HIDE DEF armed
    <3> QED
      BY <1>1, <3>1, <3>2, DisposedShown, DisposedEffect DEF SameNumbers
  <2>3. CASE ~ArmTimer(c, e) /\ ~DisposeMissing(c, e)
    BY <2>3 DEF HandlerStep, HandlerFails, SaveAuth, DeleteAuth, UpdateRow, WriteLog,
                SetStatusKey, SetQrKey, DeleteKeys, memory, environ, SameNumbers
  <2> QED
    BY <2>1, <2>2, <2>3
<1>3. Still
  BY <1>1, HandlersStill
<1>4. \A r \in Runtimes : SameShown(r)
  BY <1>2, <1>3 DEF Still, SameRuntime, SameShown
<1>5. \A d \in Conns : Unchanging(d)
  BY <1>2 DEF Unchanging
<1> QED
  BY <1>2, <1>4, <1>5 DEF Calm

\* A connection begins: it is the newest.
Begins(ts) ==
    LET r == Here  c == nConn + 1 IN
    /\ r \in Runtimes /\ c \in Conns /\ nConn' = c /\ current' = r
    /\ nRt' = IF current # 0 THEN nRt ELSE nRt + 1
    /\ conns'[c].rt = r /\ conns'[c].gen = runtimes[r].gen + 1 /\ conns'[c].stage = "load"
    /\ conns'[c].cause = "none" /\ OthersLast(c)
    /\ runtimes'[r].status = runtimes[r].status /\ runtimes'[r].qr = runtimes[r].qr
    /\ runtimes'[r].gen = runtimes[r].gen + 1 /\ OthersShown(r)
    /\ timers' \subseteq ts

LEMMA ConnectingShows ==
  ASSUME NEW rt \in RuntimeRecords, NEW c \in 0..MaxConns
  PROVE  /\ Connecting(rt, FALSE, c).status = rt.status
         /\ Connecting(rt, FALSE, c).qr = rt.qr /\ Connecting(rt, FALSE, c).gen = rt.gen + 1
  BY DEF Connecting, RuntimeRecords, NextGen

LEMMA StartsBegins ==
  ASSUME MemoryInv, NEW ts, StartsSocket(FALSE, ts)
  PROVE  Begins(ts)
<1> DEFINE r == Here  c == nConn + 1  rt == Connecting(runtimes[r], FALSE, c)
           cn == NewConn(r, runtimes[r])
<1>1. /\ r \in Runtimes /\ c \in Conns
      /\ runtimes[r] \in RuntimeRecords /\ conns[c].stage = "unused" /\ c \in 0..MaxConns
  BY GatewayAssumption DEF MemoryInv, MemoryOK, StartsSocket, EnterRuntime, Here, Conns,
                           Bookkeeping
<1>2. /\ runtimes' = [runtimes EXCEPT ![r] = rt] /\ conns' = [conns EXCEPT ![c] = cn]
      /\ nConn' = c /\ current' = r /\ nRt' = IF current # 0 THEN nRt ELSE nRt + 1
      /\ timers' \subseteq ts
  BY DEF StartsSocket, Closing, EnterRuntime
<1>3. rt.status = runtimes[r].status /\ rt.qr = runtimes[r].qr /\ rt.gen = runtimes[r].gen + 1
  BY <1>1, ConnectingShows
<1>4. cn.rt = r /\ cn.gen = runtimes[r].gen + 1 /\ cn.stage = "load" /\ cn.cause = "none"
  BY <1>1 DEF NewConn, NoConn, NextGen
<1> HIDE DEF rt, cn
<1>5. conns'[c] = cn /\ OthersLast(c)
  BY <1>1, <1>2, OneLast
<1>6. runtimes'[r] = rt /\ OthersShown(r)
  BY <1>1, <1>2 DEF MemoryInv, MemoryOK, OthersShown, SameShown
<1> QED
  BY <1>1, <1>2, <1>3, <1>4, <1>5, <1>6 DEF Begins

LEMMA BackgroundBegins ==
  ASSUME MemoryInv, NEW ts, ConnectsInBackground(ts)
  PROVE  \/ Begins(ts)
         \/ timers' = ts /\ UNCHANGED <<current, nRt, runtimes, nConn, conns>>
  BY StartsBegins DEF ConnectsInBackground, AlreadyConnected, JoinsPromise

\* The runtime a new connection finds in the map, or enters.
LEMMA HereIsNew ==
  ASSUME MemoryInv, Here \in Runtimes
  PROVE  /\ current # 0 => Here = current /\ current \in Runtimes
         /\ current = 0 => Here = nRt + 1 /\ Here > nRt
         /\ nRt \in Nat /\ Here # 0 /\ nConn \in Nat
  BY GatewayAssumption DEF MemoryInv, MemoryOK, Here, Runtimes

-----------------------------------------------------------------------------
(* There is at most one chain of connections.                                *)

\* What nothing starts.
LEMMA CalmKeepsChain ==
  ASSUME MemoryInv, ChainInv, Calm,
         \A c \in Conns : Arming(c)' => Arming(c),
         \A c \in Conns, e \in Events : At(c, e, "arm")' => At(c, e, "arm") \/ Lost(c, e),
         timers' \subseteq Conns,
         \A c \in timers' : c \in timers \/ (Arming(c) /\ ~Arming(c)')
  PROVE  ChainInv'
<1>1. \A c \in Conns : Alive(c)' => Alive(c)
  BY DEF Calm, Unchanging, Alive
<1>2. \A c \in Conns : Carries(c)' => Carries(c)
  BY <1>1 DEF Carries
<1>3. \A c \in Conns : Arming(c)' \/ c \in timers' => conns'[c].stage = "closed"
  BY DEF ChainInv, Calm, Unchanging
<1>4. \A c \in Conns : c \in timers' => ~Arming(c)'
  BY DEF ChainInv
<1>5. boot' # "over" => current' = 0 /\ \A c \in Conns : ~Carries(c)'
  BY <1>2 DEF ChainInv, Calm
<1>6. \A r \in Runtimes : r > nRt' => runtimes'[r].status = "created" /\ runtimes'[r].qr = 0
  BY DEF ChainInv, Calm, SameShown
<1>7. current' # 0 /\ runtimes'[current'].status = "logged_out" => \A c \in Conns : ~Carries(c)'
  <2>1. current # 0 => current \in Runtimes
    BY GatewayAssumption DEF MemoryInv, MemoryOK, Runtimes
  <2> QED
    BY <1>2, <2>1 DEF ChainInv, Calm, SameShown
<1>8. \A c \in Conns, e \in Events : At(c, e, "arm")' => Lost(c, e)'
  BY DEF ChainInv, Calm, Unchanging, Lost
<1> QED
  BY <1>2, <1>3, <1>4, <1>5, <1>6, <1>7, <1>8 DEF ChainInv, Calm

\* A logout is the end of the connection that tells of it; other events come while it lives.
Loggedout == current # 0 /\ runtimes[current].status = "logged_out"
LEMMA EventKeepsChain ==
  ASSUME GatewayInv, ChainInv, NEW c \in Conns, NEW e \in Events,
         NEW stage, NEW cause, NEW status, NEW qr, NEW pc,
         Starting(c, e, stage, cause, status, qr, pc), pc # "arm",
         \/ e # "close" /\ stage \in Live /\ cause = conns[c].cause
         \/ e = "close" /\ stage = "closed",
         status = "logged_out" => \/ e = "close" /\ cause = "logged_out"
                                  \/ status = runtimes[conns[c].rt].status
  PROVE  ChainInv'
<1> DEFINE r == conns[c].rt
<1>1. MemoryInv /\ r \in 1..nRt /\ nRt \in Nat
  <2>1. conns[c].stage # "unused"
    BY DEF Starting, MayEmit, Live
  <2> QED
    BY <2>1, InvGivesMemory, Numbered, GatewayAssumption DEF MemoryInv, MemoryOK
<1>2. Alive(c) /\ Carries(c) /\ c = nConn /\ ~Loggedout /\ boot = "over"
  BY DEF Starting, MayEmit, Alive, Carries, ChainInv, Loggedout
<1>3. \A d \in Conns \ {c} : (Alive(d)' <=> Alive(d)) /\ (Arming(d)' <=> Arming(d))
  BY EventNames DEF Starting, OthersLast, Alive, Arming, Working, SameWork
<1>4. timers' = timers /\ nConn' = nConn /\ current' = current /\ nRt' = nRt /\ boot' = boot
  BY DEF Starting, environ
<1>5. \A d \in Conns \ {c} : ~Carries(d)'
  BY <1>2, <1>3, <1>4 DEF Carries, ChainInv
<1>6. c \notin timers /\ ~Arming(c)
  <2>1. conns[c].stage # "closed"
    BY DEF Starting, MayEmit, Live
  <2> QED
    BY <2>1 DEF ChainInv
<1>7. Arming(c)' => e = "close" /\ stage = "closed" /\ cause = "lost"
  <2>1. CASE e = "close"
    BY <2>1 DEF Starting, Arming
  <2>2. CASE e # "close"
    <3>1. SameWork(c, "close")
      BY <2>2, EventNames DEF Starting
    <3> QED
      BY <1>6, <2>2, <3>1 DEF Starting, Arming, Working, SameWork
  <2> QED
    BY <2>1, <2>2
<1>8. \A d \in Conns : Arming(d)' \/ d \in timers' => conns'[d].stage = "closed"
  BY <1>4, <1>5, <1>6, <1>7 DEF Carries, Starting
<1>9. \A q \in Runtimes : q > nRt' => runtimes'[q].status = "created" /\ runtimes'[q].qr = 0
  <2>1. \A q \in Runtimes : q > nRt => q # r
    BY <1>1
  <2> QED
    BY <1>4, <2>1 DEF Starting, OthersShown, SameShown, ChainInv
<1>10. ASSUME Loggedout' PROVE ~Carries(c)'
  <2>1. current \in Runtimes /\ runtimes'[current].status = "logged_out"
        /\ runtimes[current].status # "logged_out"
    BY <1>1, <1>2, <1>4, <1>10, GatewayAssumption DEF Loggedout, MemoryInv, MemoryOK, Runtimes
  <2>2. current = r /\ status = "logged_out"
    BY <2>1 DEF Starting, OthersShown, SameShown
  <2>3. e = "close" /\ cause = "logged_out" /\ stage = "closed"
    BY <2>1, <2>2
  <2>4. ~Arming(c)'
    BY <1>7, <2>3
  <2>5. ~Alive(c)'
    BY <2>3 DEF Starting, Alive, Live, Pending
  <2> QED
    BY <1>4, <1>6, <2>4, <2>5 DEF Carries
<1>11. \A d \in Conns : d \in timers' => ~Arming(d)'
  BY <1>4, <1>5, <1>6 DEF Carries
<1>12. timers' \subseteq Conns
  BY <1>4 DEF ChainInv
<1>13. \A d \in Conns, f \in Events : At(d, f, "arm")' => Lost(d, f)'
  <2>1. \A d \in Conns, f \in Events : At(d, f, "arm")' => At(d, f, "arm") /\ Lost(d, f)
    BY DEF Starting, SameWork, At, ChainInv
  <2>2. \A d \in Conns \ {c} : conns'[d].cause = conns[d].cause
    BY DEF Starting, OthersLast
  <2>3. \A f \in Events : Lost(c, f) /\ At(c, f, "arm") => Arming(c)
    BY DEF Lost, At, Arming, Working
  <2> QED
    BY <1>6, <2>1, <2>2, <2>3 DEF Lost
<1> QED
  BY <1>2, <1>4, <1>5, <1>8, <1>9, <1>10, <1>11, <1>12, <1>13 DEF ChainInv, Loggedout

\* The timer or the restore that starts a connection was the chain's end.
LEMMA BeginKeepsChain ==
  ASSUME GatewayInv, ChainInv, NEW ts, Begins(ts), ts = {},
         \A c \in Conns : ~Alive(c) /\ ~Arming(c), ~Loggedout,
         UNCHANGED handlers, boot' = "over"
  PROVE  ChainInv'
<1> PICK r, n : r = Here /\ n = nConn + 1
  OBVIOUS
<1>1. /\ MemoryInv /\ r \in Runtimes /\ n \in Conns /\ nConn' = n /\ current' = r /\ r # 0
      /\ nRt \in Nat /\ nRt' \in Nat /\ nRt <= nRt' /\ timers' = {}
  BY InvGivesMemory, HereIsNew DEF Begins
<1>2. \A d \in Conns \ {n} : ~Alive(d)' /\ ~Arming(d)'
  BY DEF Begins, OthersLast, Alive, Arming, Working
<1>3. ~Arming(n)'
  BY <1>1 DEF Begins, Arming
<1>4. \A d \in Conns : Carries(d)' => d = n
  BY <1>1, <1>2 DEF Carries
<1>5. \A q \in Runtimes : q > nRt' => runtimes'[q].status = "created" /\ runtimes'[q].qr = 0
  <2>1. \A q \in Runtimes : q > nRt' => q # r
    BY <1>1, HereIsNew, GatewayAssumption DEF Begins, MemoryInv, MemoryOK, Runtimes
  <2> QED
    BY <1>1, <2>1, GatewayAssumption DEF Begins, OthersShown, SameShown, ChainInv, Runtimes
<1>7. \A d \in Conns, e \in Events : At(d, e, "arm")' => Lost(d, e)'
  <2>1. \A d \in Conns, e \in Events : Lost(d, e) /\ At(d, e, "arm") => Arming(d)
    BY DEF Lost, At, Arming, Working
  <2> QED
    BY <2>1 DEF At, ChainInv
<1>6. runtimes'[r].status # "logged_out"
  <2>1. CASE current # 0
    BY <1>1, <2>1, HereIsNew DEF Begins, Loggedout
  <2>2. CASE current = 0
    BY <1>1, <2>2, HereIsNew DEF Begins, ChainInv
  <2> QED
    BY <2>1, <2>2
<1> QED
  BY <1>1, <1>2, <1>3, <1>4, <1>5, <1>6, <1>7 DEF ChainInv

LEMMA TimersKeepChain ==
  ASSUME GatewayInv, ChainInv, NEW c \in Conns, TimerFires(c)
  PROVE  ChainInv'
<1>1. /\ MemoryInv /\ c \in timers /\ Carries(c) /\ ConnectsInBackground(timers \ {c})
      /\ UNCHANGED <<handlers, boot>>
  BY InvGivesMemory DEF TimerFires, Carries, environ
<1>2. CASE Begins(timers \ {c})
  <2>1. timers \ {c} = {} /\ ~Loggedout /\ boot' = "over"
    BY <1>1 DEF ChainInv, Carries, Loggedout
  <2>2. \A d \in Conns : ~Alive(d) /\ ~Arming(d)
    BY <1>1 DEF ChainInv, Carries, Alive, Live, Pending
  <2> QED
    BY <1>1, <1>2, <2>1, <2>2, BeginKeepsChain
<1>3. CASE timers' = timers \ {c} /\ UNCHANGED <<current, nRt, runtimes, nConn, conns>>
  <2>1. /\ Calm /\ \A d \in Conns : Arming(d)' <=> Arming(d)
        /\ \A d \in Conns, e \in Events : At(d, e, "arm")' <=> At(d, e, "arm")
    BY <1>1, <1>3, SameIsCalm DEF Arming, Working, At
  <2>2. timers \subseteq Conns
    BY DEF ChainInv
  <2> QED
    BY <1>1, <1>3, <2>1, <2>2, CalmKeepsChain
<1> QED
  BY <1>1, <1>2, <1>3, BackgroundBegins

LEMMA RestoreKeepsChain ==
  ASSUME GatewayInv, ChainInv, Restore
  PROVE  ChainInv'
<1>1. /\ MemoryInv /\ boot = "start" /\ boot' = "over" /\ UNCHANGED handlers
      /\ ConnectsInBackground(timers)
  BY InvGivesMemory DEF Restore
<1>2. current = 0 /\ timers = {} /\ \A d \in Conns : ~Alive(d) /\ ~Arming(d)
  BY <1>1 DEF ChainInv, Carries
<1>3. CASE Begins(timers)
  BY <1>1, <1>2, <1>3, BeginKeepsChain DEF Loggedout
<1>4. CASE timers' = timers /\ UNCHANGED <<current, nRt, runtimes, nConn, conns>>
  <2>1. /\ Calm /\ \A d \in Conns : Arming(d)' <=> Arming(d)
        /\ \A d \in Conns, e \in Events : At(d, e, "arm")' <=> At(d, e, "arm")
    BY <1>1, <1>4, SameIsCalm DEF Arming, Working, At
  <2> QED
    BY <1>1, <1>2, <1>4, <2>1, CalmKeepsChain
<1> QED
  BY <1>1, <1>3, <1>4, BackgroundBegins

\* A new process has no connection.
LEMMA RestartEffect ==
  ASSUME MemoryInv, Restart
  PROVE  /\ \A c \in Conns : ~Alive(c)' /\ \A e \in Events : ~Working(c, e)'
         /\ timers' = {} /\ current' = 0
         /\ \A r \in Runtimes : runtimes'[r].status = "created" /\ runtimes'[r].qr = 0
         /\ UNCHANGED <<store, faults>>
<1>1. \A c \in Conns : ~Alive(c)'
  BY RestartFresh DEF Fresh, Alive, Live, Pending
<1>2. \A c \in Conns, e \in Events : ~Working(c, e)'
  BY DEF Restart, Working
<1>3. \A r \in Runtimes : runtimes'[r].status = "created" /\ runtimes'[r].qr = 0
  BY DEF Restart, FreshRuntime
<1> QED
  BY <1>1, <1>2, <1>3 DEF Restart

LEMMA RestartKeepsChain ==
  ASSUME GatewayInv, ChainInv, Restart
  PROVE  ChainInv'
  BY InvGivesMemory, RestartEffect, EventNames DEF ChainInv, Carries, Arming, Working, At

\* A handler that goes on arms a timer only as its last step, after a lost connection.
LEMMA HandlerEffect ==
  ASSUME GatewayInv, ChainInv, NEW c \in Conns, NEW e \in Events,
         HandlerStep(c, e) \/ HandlerFails(c, e)
  PROVE  /\ Working(c, e) /\ \A d \in Conns, f \in Events : d # c \/ f # e => SameWork(d, f)
         /\ timers' \subseteq timers \cup {c} /\ handlers'[c][e] # "save"
         /\ timers' \subseteq timers \/ (Arming(c) /\ e = "close" /\ handlers'[c][e] = "done")
         /\ handlers'[c][e] = "arm" => Lost(c, e)
<1>1. HandlersOK
  BY DEF GatewayInv, TypeOK
<1>2. \A pc : Goto(c, e, pc) =>
        /\ handlers'[c][e] = pc
        /\ \A d \in Conns, f \in Events : d # c \/ f # e => SameWork(d, f)
  BY <1>1, GotoEffect
<1>3. CASE SaveAuth(c, e) \/ DeleteAuth(c, e) \/ UpdateRow(c, e) \/ WriteLog(c, e)
  BY <1>2, <1>3 DEF SaveAuth, DeleteAuth, UpdateRow, WriteLog, At, Working, memory
<1>4. CASE SetStatusKey(c, e) \/ SetQrKey(c, e) \/ DeleteKeys(c, e) \/ HandlerFails(c, e)
  BY <1>2, <1>4 DEF SetStatusKey, SetQrKey, DeleteKeys, HandlerFails, At, Working, memory
<1>5. CASE ArmTimer(c, e)
  BY <1>2, <1>5 DEF ArmTimer, At, Working, ChainInv, Arming, Lost
<1>6. CASE DisposeMissing(c, e)
  <2>1. DisposedTimers \subseteq timers
    BY DEF DisposedTimers
  <2> QED
    BY <1>2, <1>6, <2>1 DEF DisposeMissing, At, Working, Lost, Arming
<1> QED
  BY <1>3, <1>4, <1>5, <1>6 DEF HandlerStep

LEMMA HandlersKeepChain ==
  ASSUME GatewayInv, ChainInv, NEW c \in Conns, NEW e \in Events,
         HandlerStep(c, e) \/ HandlerFails(c, e)
  PROVE  ChainInv'
<1>1. MemoryInv /\ Calm
  BY InvGivesMemory, HandlersAreCalm
<1>2. /\ Working(c, e) /\ \A d \in Conns, f \in Events : d # c \/ f # e => SameWork(d, f)
      /\ timers' \subseteq timers \cup {c}
      /\ timers' \subseteq timers \/ (Arming(c) /\ e = "close" /\ handlers'[c][e] = "done")
      /\ handlers'[c][e] = "arm" => Lost(c, e)
  BY HandlerEffect
<1>3. \A d \in Conns : Arming(d)' => Arming(d)
  BY <1>1, <1>2, EventNames DEF Calm, Unchanging, Arming, Working, SameWork
<1>4. \A d \in Conns, f \in Events : At(d, f, "arm")' => At(d, f, "arm") \/ Lost(d, f)
  BY <1>2 DEF At, SameWork
<1>5. timers' \subseteq Conns
  BY <1>2 DEF ChainInv
<1>6. \A d \in timers' : d \in timers \/ (Arming(d) /\ ~Arming(d)')
  BY <1>2 DEF Arming, Working
<1> QED
  BY <1>1, <1>3, <1>4, <1>5, <1>6, CalmKeepsChain

LEMMA EmitsKeepChain ==
  ASSUME GatewayInv, ChainInv, NEW c \in Conns, Emits(c)
  PROVE  ChainInv'
<1>1. CASE EmitConnecting(c)
  BY <1>1, ConnectingStarts, EventKeepsChain, EventNames DEF Live
<1>2. CASE EmitQr(c)
  BY <1>2, QrStarts, EventKeepsChain, EventNames DEF Live
<1>3. CASE EmitOpen(c)
  BY <1>3, OpenStarts, EventKeepsChain, EventNames DEF Live
<1>4. CASE EmitClose(c)
  <2>1. PICK cause \in {"lost", "logged_out"} :
          Starting(c, "close", "closed", cause, CloseStatus(cause), 0, ClosePc(cause))
    BY <1>4, CloseStarts
  <2>2. ClosePc(cause) # "arm" /\ (CloseStatus(cause) = "logged_out" => cause = "logged_out")
    BY DEF ClosePc, CloseStatus
  <2> QED
    BY <2>1, <2>2, EventKeepsChain, EventNames
<1>5. CASE EmitCreds(c) \/ EmitKeys(c)
  <2>1. PICK e \in {"creds", "keys"} :
          Starting(c, e, conns[c].stage, conns[c].cause, runtimes[conns[c].rt].status,
                   runtimes[conns[c].rt].qr, "save")
    BY <1>5, SavingStarts
  <2>2. conns[c].stage \in Live
    BY <2>1 DEF Starting, MayEmit
  <2> QED
    BY <2>1, <2>2, EventKeepsChain, EventNames
<1> QED
  BY <1>1, <1>2, <1>3, <1>4, <1>5 DEF Emits

\* What leaves memory and handlers alone.
LEMMA StoresAreCalm ==
  ASSUME GatewayInv, ChainInv,
         FindSession \/ DeleteSession \/ ExpireStatus \/ ExpireQr \/ UNCHANGED vars
  PROVE  Calm /\ UNCHANGED <<memory, handlers>>
<1>1. UNCHANGED <<memory, handlers>> /\ (boot' # "over" => boot # "over")
  BY DEF FindSession, DeleteSession, ExpireStatus, ExpireQr, vars, environ
<1> QED
  BY <1>1, SameIsCalm DEF memory

LEMMA ChainStep ==
  ASSUME GatewayInv, ChainInv, LoneStep
  PROVE  ChainInv'
<1>1. MemoryInv /\ timers \subseteq Conns
  BY InvGivesMemory DEF ChainInv
<1>2. ASSUME Calm, UNCHANGED <<timers, handlers>> PROVE ChainInv'
  <2>1. /\ \A d \in Conns : Arming(d)' => Arming(d)
        /\ \A d \in Conns, f \in Events : At(d, f, "arm")' => At(d, f, "arm")
    BY <1>2 DEF Calm, Unchanging, Arming, Working, At
  <2> QED
    BY <1>1, <1>2, <2>1, CalmKeepsChain
<1>3. ASSUME NEW c \in Conns, SocketStep(c) \/ LoadFails(c) PROVE ChainInv'
  BY <1>2, <1>3, SocketIsCalm
<1>4. CASE FindSession \/ DeleteSession \/ ExpireStatus \/ ExpireQr \/ UNCHANGED vars
  BY <1>2, <1>4, StoresAreCalm DEF memory
<1> QED
  BY <1>3, <1>4, EmitsKeepChain, TimersKeepChain, HandlersKeepChain, RestoreKeepsChain,
     RestartKeepsChain DEF LoneStep

LEMMA ChainStart == Init => Resting /\ ChainInv
<1> SUFFICES ASSUME Init PROVE Resting /\ ChainInv
  OBVIOUS
<1>1. Resting
  BY GatewayAssumption DEF Init, Resting, Threads
<1>2. /\ \A c \in Conns : conns[c].stage = "unused" /\ \A e \in Events : handlers[c][e] = "none"
      /\ \A r \in Runtimes : runtimes[r].status = "created" /\ runtimes[r].qr = 0
      /\ timers = {} /\ current = 0
  BY DEF Init, NoConn, FreshRuntime
<1>3. ChainInv
  BY <1>2, EventNames DEF ChainInv, Carries, Alive, Arming, Working, At, Live, Pending
<1> QED
  BY <1>1, <1>3

LEMMA LoneStart == Init => LoneInv
  BY ChainStart DEF LoneInv
LEMMA LoneNext == GatewayInv /\ LoneInv /\ [Next]_vars => LoneInv'
  BY JobsRest, ChainStep DEF LoneInv

-----------------------------------------------------------------------------
(* What the handlers tell the stores, when nothing upsets the last of them.  *)

\* What nothing starts keeps its place.
LEMMA CalmKeepsPlace ==
  ASSUME MemoryInv, ChainInv, InPlace, Calm,
         \A c \in Conns : Arming(c)' => Arming(c),
         \A c \in timers' : c \in timers \/ Arming(c)
  PROVE  InPlace'
<1>1. \A c \in Conns : /\ Alive(c)' => Alive(c)
                       /\ Carries(c)' => Carries(c)
  BY DEF Calm, Unchanging, Alive, Carries
<1>2. current' # 0 => current' = current /\ current \in Runtimes /\ SameShown(current)
  BY GatewayAssumption DEF Calm, MemoryInv, MemoryOK, Runtimes
<1>3. ASSUME NEW c \in Conns, Alive(c)' PROVE Listening(c)'
  <2>1. Alive(c) /\ Listening(c) /\ conns[c].stage # "unused"
    BY <1>1, <1>3 DEF InPlace, Alive, Live, Pending
  <2>2. conns[c].rt \in Runtimes /\ SameNumbers(c) /\ SameShown(conns[c].rt)
    BY <2>1, Numbered DEF Calm, Unchanging
  <2> QED
    BY <2>1, <2>2 DEF Listening, SameNumbers, SameShown
<1>4. ASSUME NEW c \in Conns, Carries(c)'
      PROVE  /\ current' # 0 => conns'[c].rt = current'
             /\ conns'[c].stage # "qr" => runtimes'[conns'[c].rt].qr = 0
  <2>1. /\ Carries(c)
        /\ current # 0 => conns[c].rt = current
        /\ conns[c].stage # "qr" => runtimes[conns[c].rt].qr = 0
    BY <1>1, <1>4 DEF InPlace
  <2>2. conns[c].stage # "unused"
    BY <2>1 DEF Carries, Alive, ChainInv, Live, Pending
  <2>3. conns[c].rt \in Runtimes /\ SameShown(conns[c].rt) /\ Unchanging(c)
    BY <2>2, Numbered DEF Calm
  <2> QED
    BY <1>2, <2>1, <2>3 DEF Unchanging, SameNumbers, SameShown
<1> QED
  BY <1>3, <1>4 DEF InPlace

\* An event is the newest connection's, which is listened to.
LEMMA EventKeepsPlace ==
  ASSUME GatewayInv, ChainInv, ChainInv', PlaceInv,
         NEW c \in Conns, NEW e \in Events,
         NEW stage, NEW cause, NEW status, NEW qr, NEW pc,
         Starting(c, e, stage, cause, status, qr, pc),
         stage # "qr" => qr = 0,
         pc = "save" => e \in {"open", "creds", "keys"},
         e \notin Telling => pc = "save"
  PROVE  /\ PlaceInv' /\ handlers'[c][e] = pc /\ ~Loggedout
         /\ current # 0 => /\ conns[c].rt = current /\ current \in Runtimes
                           /\ runtimes'[current].status = status
<1> PICK r : r = conns[c].rt
  OBVIOUS
<1>1. MemoryInv /\ r \in Runtimes /\ conns[c].stage \in Live
  BY InvGivesMemory DEF Starting, MayEmit
<1>2. Alive(c) /\ Carries(c) /\ c = nConn /\ ~Loggedout
  BY <1>1 DEF Alive, Carries, ChainInv, Loggedout
<1>3. Listening(c) /\ handlers'[c][e] = pc
  BY <1>2 DEF PlaceInv, InPlace, Starting
<1>4. /\ nConn' = nConn /\ current' = current
      /\ runtimes'[r].status = status /\ runtimes'[r].qr = qr /\ runtimes'[r].gen = runtimes[r].gen
      /\ conns'[c].rt = r /\ conns'[c].gen = conns[c].gen /\ conns'[c].stage = stage
  BY <1>3 DEF Starting, SameNumbers
<1>5. current # 0 => r = current /\ current \in Runtimes
  BY <1>1, <1>2 DEF PlaceInv, InPlace
<1>6. InPlace'
  <2>1. ASSUME NEW d \in Conns, Carries(d)' PROVE d = c
    BY <1>2, <1>4, <2>1 DEF ChainInv
  <2>2. Listening(c)'
    BY <1>3, <1>4 DEF Listening
  <2>3. ASSUME NEW d \in Conns, Carries(d)'
        PROVE  /\ current' # 0 => conns'[d].rt = current'
               /\ conns'[d].stage # "qr" => runtimes'[conns'[d].rt].qr = 0
    BY <1>4, <1>5, <2>1, <2>3
  <2>4. \A d \in Conns : Alive(d)' => Carries(d)'
    BY DEF Carries
  <2> QED
    BY <2>1, <2>2, <2>3, <2>4 DEF InPlace
<1>7. Saves'
  <2> SUFFICES ASSUME NEW d \in Conns, NEW f \in Events
               PROVE  /\ Working(d, f)' => d <= nConn'
                      /\ At(d, f, "save")' => f \in {"open", "creds", "keys"}
                      /\ Working(d, f)' /\ f \notin Telling => At(d, f, "save")'
    BY DEF Saves
  <2>1. CASE d = c /\ f = e
    <3>1. nConn' = c /\ c <= c
      BY <1>2, <1>4, GatewayAssumption DEF Conns
    <3> QED
      BY <1>3, <2>1, <3>1 DEF At
  <2>2. CASE d # c \/ f # e
    <3>1. handlers'[d][f] = handlers[d][f]
      BY <2>2 DEF Starting, SameWork
    <3> QED
      BY <1>4, <3>1 DEF PlaceInv, Saves, At, Working
  <2> QED
    BY <2>1, <2>2
<1> QED
  BY <1>2, <1>3, <1>4, <1>5, <1>6, <1>7 DEF PlaceInv

\* The event's handler will tell what the runtime now says, alone if no other was telling.
LEMMA EventTells ==
  ASSUME NEW c \in Conns, NEW e \in Telling,
         NEW stage, NEW cause, NEW status, NEW qr, NEW pc,
         Starting(c, e, stage, cause, status, qr, pc),
         handlers'[c][e] = pc, ~Loggedout,
         current # 0 => current \in Runtimes /\ runtimes'[current].status = status,
         pc \in {"row", "save", "auth"}, Reported(c, e)' = status,
         status = "logged_out" => e = "close" /\ pc = "auth",
         Watch
  PROVE  TruthInv'
<1>1. Telling \subseteq Events /\ current' = current
  BY DEF Telling, Events, Starting
<1>2. upset' = Met
  <2>1. Event
    BY DEF Event, Starting, MayEmit
  <2>2. restarts' = restarts
    BY DEF Starting, environ
  <2> QED
    BY <2>1, <2>2 DEF Watch
<1>3. \A d \in Conns, f \in Events : d # c \/ f # e => handlers'[d][f] = handlers[d][f]
  BY DEF Starting, SameWork
<1>4. ASSUME upset' \subseteq {"saving"} PROVE Told'
  <2>1. \A d \in Conns, f \in Telling : ~Working(d, f)
    BY <1>1, <1>2, <1>4 DEF Met
  <2>2. Working(c, e)' /\ \A d \in Conns, f \in Telling : Working(d, f)' => d = c /\ f = e
    BY <1>1, <1>3, <2>1 DEF Working
  <2>3. current # 0 => Tells(c, e)'
    BY <1>1, <2>2 DEF Tells
  <2> QED
    BY <1>1, <2>3 DEF Told
<1>5. ASSUME upset' \subseteq {"telling"}, Loggedout' PROVE Forgotten'
  <2>1. e = "close" /\ pc = "auth"
    BY <1>1, <1>5 DEF Loggedout
  <2>2. \A d \in Conns, f \in Events : ~At(d, f, "save")
    BY <1>2, <1>5 DEF Met, At, Working
  <2>3. \A d \in Conns, f \in Events : ~At(d, f, "save")'
    BY <1>3, <2>1, <2>2 DEF At
  <2>4. At(c, "close", "auth")'
    BY <2>1 DEF At
  <2> QED
    BY <2>3, <2>4 DEF Forgotten
<1> QED
  BY <1>4, <1>5 DEF TruthInv, Forgotten, Loggedout

\* Nothing but an event that tells, a failing handler or a restart changes upset.
LEMMA QuietWatch ==
  ASSUME Watch, restarts' = restarts,
         \A c \in Conns, e \in Telling : handlers[c][e] = "none" => handlers'[c][e] = "none",
         faults' = faults \/ \A c \in Conns, e \in Telling : handlers'[c][e] = handlers[c][e]
  PROVE  upset' = upset
<1>1. ~Event /\ ~Failure
  BY DEF Event, Failure
<1> QED
  BY <1>1 DEF Watch

\* Credentials and keys tell nothing.
LEMMA SavingTellsNothing ==
  ASSUME NEW c \in Conns, NEW e \in Events \ Telling,
         NEW stage, NEW cause, NEW status, NEW qr, NEW pc,
         Starting(c, e, stage, cause, status, qr, pc), cause = conns[c].cause, ~Loggedout,
         current # 0 => current \in Runtimes /\ runtimes'[current].status = runtimes[current].status,
         Watch, TruthInv
  PROVE  TruthInv'
<1>1. /\ Telling \subseteq Events /\ current' = current /\ UNCHANGED <<store, restarts, faults>>
      /\ \A d \in Conns, f \in Telling : handlers'[d][f] = handlers[d][f]
      /\ \A d \in Conns : conns'[d].cause = conns[d].cause
  BY DEF Telling, Events, Starting, SameWork, OthersLast, environ
<1>2. upset' = upset
  BY <1>1, QuietWatch
<1>3. current # 0 => (Agree => Agree')
  BY <1>1 DEF Agree, store
<1>4. \A d \in Conns, f \in Telling : /\ Working(d, f)' <=> Working(d, f)
                                      /\ Reported(d, f)' = Reported(d, f)
  BY <1>1 DEF Working, Reported
<1>5. current # 0 => \A d \in Conns, f \in Telling : Tells(d, f) => Tells(d, f)'
  BY <1>1, <1>3, <1>4 DEF Tells, store
<1>6. Told => Told'
  BY <1>1, <1>3, <1>4, <1>5 DEF Told, store
<1>7. Forgotten'
  BY <1>1 DEF Forgotten, Loggedout
<1> QED
  BY <1>2, <1>6, <1>7 DEF TruthInv

LEMMA EmitsKeepStores ==
  ASSUME GatewayInv, ChainInv, PlaceInv, TruthInv, NEW c \in Conns, Emits(c), Watch
  PROVE  PlaceInv' /\ TruthInv'
<1>1. ChainInv' /\ MemoryInv
  BY EmitsKeepChain, InvGivesMemory
<1>2. CASE EmitConnecting(c)
  <2>1. runtimes[conns[c].rt].qr = 0
    BY <1>2 DEF EmitConnecting, PlaceInv, InPlace, Carries, Alive, Live
  <2>2. Starting(c, "connecting", "connecting", conns[c].cause, "reconnecting", 0, "row")
    BY <1>2, <2>1, ConnectingStarts
  <2>3. /\ PlaceInv' /\ handlers'[c]["connecting"] = "row" /\ ~Loggedout
        /\ current # 0 => current \in Runtimes /\ runtimes'[current].status = "reconnecting"
    BY <1>1, <2>2, EventKeepsPlace, EventNames DEF Telling
  <2> QED
    BY <2>2, <2>3, EventTells DEF Telling, Reported
<1>3. CASE EmitQr(c)
  <2>1. Starting(c, "qr", "qr", conns[c].cause, "pending_qr", c, "row")
    BY <1>3, QrStarts
  <2>2. /\ PlaceInv' /\ handlers'[c]["qr"] = "row" /\ ~Loggedout
        /\ current # 0 => current \in Runtimes /\ runtimes'[current].status = "pending_qr"
    BY <1>1, <2>1, EventKeepsPlace, EventNames DEF Telling
  <2> QED
    BY <2>1, <2>2, EventTells DEF Telling, Reported
<1>4. CASE EmitOpen(c)
  <2>1. Starting(c, "open", "open", conns[c].cause, "connected", 0, "save")
    BY <1>4, OpenStarts
  <2>2. /\ PlaceInv' /\ handlers'[c]["open"] = "save" /\ ~Loggedout
        /\ current # 0 => current \in Runtimes /\ runtimes'[current].status = "connected"
    BY <1>1, <2>1, EventKeepsPlace, EventNames DEF Telling
  <2> QED
    BY <2>1, <2>2, EventTells DEF Telling, Reported
<1>5. CASE EmitClose(c)
  <2>1. PICK cause \in {"lost", "logged_out"} :
          Starting(c, "close", "closed", cause, CloseStatus(cause), 0, ClosePc(cause))
    BY <1>5, CloseStarts
  <2> PICK status, pc : status = CloseStatus(cause) /\ pc = ClosePc(cause)
    OBVIOUS
  <2>2. /\ pc \in {"row", "auth"} /\ (status = "logged_out" => pc = "auth")
        /\ status = IF cause = "lost" THEN "disconnected" ELSE "logged_out"
    BY DEF CloseStatus, ClosePc
  <2>3. /\ PlaceInv' /\ handlers'[c]["close"] = pc /\ ~Loggedout
        /\ current # 0 => current \in Runtimes /\ runtimes'[current].status = status
    BY <1>1, <2>1, <2>2, EventKeepsPlace, EventNames DEF Telling
  <2>4. Reported(c, "close")' = status
    BY <2>1, <2>2 DEF Starting, Reported
  <2> QED
    BY <2>1, <2>2, <2>3, <2>4, EventTells DEF Telling
<1>6. CASE EmitCreds(c) \/ EmitKeys(c)
  <2>1. PICK e \in {"creds", "keys"} :
          Starting(c, e, conns[c].stage, conns[c].cause, runtimes[conns[c].rt].status,
                   runtimes[conns[c].rt].qr, "save")
    BY <1>6, SavingStarts
  <2>2. e \in Events \ Telling /\ conns[c].stage \in Live
    BY <2>1, EventNames DEF Starting, MayEmit, Telling
  <2>3. conns[c].stage # "qr" => runtimes[conns[c].rt].qr = 0
    BY <2>2 DEF PlaceInv, InPlace, Carries, Alive
  <2>4. /\ PlaceInv' /\ ~Loggedout
        /\ current # 0 => /\ conns[c].rt = current /\ current \in Runtimes
                          /\ runtimes'[current].status = runtimes[conns[c].rt].status
    BY <1>1, <2>1, <2>2, <2>3, EventKeepsPlace
  <2> QED
    BY <2>1, <2>2, <2>4, SavingTellsNothing
<1> QED
  BY <1>2, <1>3, <1>4, <1>5, <1>6 DEF Emits

\* A timer or the restore starts a connection, on the runtime that said disconnected or on
\* a new one.
LEMMA BeginKeepsStores ==
  ASSUME GatewayInv, ChainInv, ChainInv', PlaceInv, TruthInv, NEW ts, Begins(ts),
         current = 0 \/ \E c \in timers : TRUE,
         UNCHANGED <<store, handlers, restarts>>, Watch
  PROVE  PlaceInv' /\ TruthInv'
<1> PICK r, n : r = Here /\ n = nConn + 1
  OBVIOUS
<1>1. /\ MemoryInv /\ r \in Runtimes /\ n \in Conns /\ nConn' = n /\ current' = r /\ r # 0
      /\ conns'[n].rt = r /\ conns'[n].gen = runtimes[r].gen + 1 /\ conns'[n].stage = "load"
      /\ runtimes'[r].status = runtimes[r].status /\ runtimes'[r].qr = runtimes[r].qr
      /\ runtimes'[r].gen = runtimes[r].gen + 1
  BY InvGivesMemory, HereIsNew DEF Begins
<1>2. current # 0 => r = current /\ runtimes[r].qr = 0 /\ ~Loggedout
  <2> SUFFICES ASSUME current # 0 PROVE r = current /\ runtimes[r].qr = 0 /\ ~Loggedout
    OBVIOUS
  <2>1. PICK c \in timers : TRUE
    OBVIOUS
  <2>2. c \in Conns /\ Carries(c) /\ conns[c].stage = "closed"
    BY DEF ChainInv, Carries
  <2>3. conns[c].rt = current /\ runtimes[current].qr = 0
    BY <2>2 DEF PlaceInv, InPlace
  <2>4. ~Loggedout
    BY <2>2 DEF ChainInv, Loggedout
  <2> QED
    BY <1>1, <2>3, <2>4, HereIsNew
<1>3. current = 0 => runtimes[r].status = "created" /\ runtimes[r].qr = 0
  BY <1>1, HereIsNew DEF ChainInv
<1>4. InPlace'
  <2>1. \A c \in Conns : Carries(c)' => c = n
    BY <1>1 DEF ChainInv
  <2>2. Listening(n)'
    BY <1>1 DEF Listening
  <2>3. \A c \in Conns : Alive(c)' => Carries(c)'
    BY DEF Carries
  <2>4. ASSUME NEW c \in Conns, Carries(c)'
        PROVE  /\ current' # 0 => conns'[c].rt = current'
               /\ conns'[c].stage # "qr" => runtimes'[conns'[c].rt].qr = 0
    BY <1>1, <1>2, <1>3, <2>1, <2>4
  <2> QED
    BY <2>1, <2>2, <2>3, <2>4 DEF InPlace
<1>5. Saves'
  BY <1>1, GatewayAssumption DEF PlaceInv, Saves, At, Working, Conns, MemoryInv, MemoryOK
<1>6. upset' = upset
  BY QuietWatch
<1>7. \A c \in Conns \ {n} : conns'[c].cause = conns[c].cause
  BY <1>1 DEF Begins, OthersLast
<1>8. ASSUME current # 0, Told PROVE Told'
  <2>1. current' = current /\ runtimes'[current].status = runtimes[current].status
    BY <1>1, <1>2, <1>8
  <2>2. Agree => Agree'
    BY <2>1 DEF Agree, store
  <2>3. \A d \in Conns, f \in Telling : Working(d, f)' <=> Working(d, f)
    BY DEF Working
  <2>4. \A d \in Conns, f \in Telling : Tells(d, f) => Tells(d, f)'
    <3> SUFFICES ASSUME NEW d \in Conns, NEW f \in Telling, Tells(d, f) PROVE Tells(d, f)'
      OBVIOUS
    <3>1. d <= nConn /\ nConn \in Nat /\ f \in Events
      BY DEF Tells, PlaceInv, Saves, Telling, Events, GatewayInv, TypeOK, MemoryOK
    <3>2. Reported(d, f)' = Reported(d, f)
      BY <1>7, <3>1 DEF Reported, Conns
    <3> QED
      BY <2>1, <2>2, <2>3, <3>2 DEF Tells, store
  <2> QED
    BY <1>8, <2>1, <2>2, <2>3, <2>4 DEF Told, store
<1>9. current = 0 => Told'
  BY <1>1, <1>3 DEF Told
<1>10. Forgotten'
  <2>1. runtimes'[current'].status # "logged_out"
    BY <1>1, <1>2, <1>3 DEF Loggedout
  <2> QED
    BY <2>1 DEF Forgotten
<1> QED
  BY <1>4, <1>5, <1>6, <1>8, <1>9, <1>10 DEF PlaceInv, TruthInv

\* What changes neither handlers nor the status the stores should tell.
LEMMA SameKeepsStores ==
  ASSUME MemoryInv, ChainInv, PlaceInv, TruthInv, Calm, UNCHANGED <<handlers, restarts>>,
         timers' \subseteq timers, Watch,
         row' => row,
         auth' \in {0, auth}, dbStatus' = dbStatus, rStatus' \in {"none", rStatus}
  PROVE  PlaceInv' /\ TruthInv'
<1>1. current' # 0 =>
        /\ current' = current /\ runtimes'[current'].status = runtimes[current].status
  BY GatewayAssumption DEF Calm, SameShown, MemoryInv, MemoryOK, Runtimes
<1>2. /\ \A c \in Conns, e \in Events : Reported(c, e)' = Reported(c, e)
      /\ \A c \in Conns, e \in Events : Working(c, e)' <=> Working(c, e)
      /\ \A c \in Conns, e \in Events : \A pc : At(c, e, pc)' <=> At(c, e, pc)
  BY DEF Calm, Unchanging, Reported, Working, At
<1>3. Telling \subseteq Events /\ nConn' = nConn
  BY DEF Telling, Events, Calm
<1>4. InPlace'
  <2>1. \A c \in Conns : Arming(c)' => Arming(c)
    BY <1>2, EventNames DEF Calm, Unchanging, Arming
  <2> QED
    BY <2>1, CalmKeepsPlace DEF PlaceInv
<1>5. Saves'
  BY <1>2, <1>3 DEF PlaceInv, Saves
<1>6. current' # 0 => (Agree => Agree')
  BY <1>1 DEF Agree
<1>7. current' # 0 => \A c \in Conns, e \in Telling : Tells(c, e) => Tells(c, e)'
  BY <1>1, <1>2, <1>3, <1>6 DEF Tells
<1>8. Told => Told'
  BY <1>1, <1>2, <1>3, <1>6, <1>7 DEF Told
<1>9. Forgotten => Forgotten'
  BY <1>1, <1>2, EventNames DEF Forgotten
<1>10. upset' = upset
  BY QuietWatch
<1> QED
  BY <1>4, <1>5, <1>8, <1>9, <1>10 DEF PlaceInv, TruthInv

LEMMA TimersKeepStores ==
  ASSUME GatewayInv, ChainInv, PlaceInv, TruthInv, NEW c \in Conns, TimerFires(c), Watch
  PROVE  PlaceInv' /\ TruthInv'
<1>1. /\ MemoryInv /\ c \in timers /\ ConnectsInBackground(timers \ {c})
      /\ UNCHANGED <<store, handlers, boot, restarts>> /\ ChainInv'
  BY InvGivesMemory, TimersKeepChain DEF TimerFires, environ
<1>2. CASE Begins(timers \ {c})
  BY <1>1, <1>2, BeginKeepsStores
<1>3. CASE timers' = timers \ {c} /\ UNCHANGED <<current, nRt, runtimes, nConn, conns>>
  <2>1. Calm
    BY <1>1, <1>3, SameIsCalm
  <2> QED
    BY <1>1, <1>3, <2>1, SameKeepsStores DEF store
<1> QED
  BY <1>1, <1>2, <1>3, BackgroundBegins

LEMMA RestoreKeepsStores ==
  ASSUME GatewayInv, ChainInv, PlaceInv, TruthInv, Restore, Watch
  PROVE  PlaceInv' /\ TruthInv'
<1>1. /\ MemoryInv /\ current = 0 /\ boot' = "over" /\ ConnectsInBackground(timers)
      /\ UNCHANGED <<store, handlers, restarts>> /\ ChainInv'
  BY InvGivesMemory, RestoreKeepsChain DEF Restore, ChainInv
<1>2. CASE Begins(timers)
  BY <1>1, <1>2, BeginKeepsStores
<1>3. CASE timers' = timers /\ UNCHANGED <<current, nRt, runtimes, nConn, conns>>
  <2>1. Calm
    BY <1>1, <1>3, SameIsCalm
  <2> QED
    BY <1>1, <1>3, <2>1, SameKeepsStores DEF store
<1> QED
  BY <1>1, <1>2, <1>3, BackgroundBegins

LEMMA RestartKeepsStores ==
  ASSUME GatewayInv, Restart
  PROVE  PlaceInv' /\ TruthInv'
<1>1. /\ \A c \in Conns : ~Alive(c)' /\ \A e \in Events : ~Working(c, e)'
      /\ timers' = {} /\ current' = 0
  BY InvGivesMemory, RestartEffect
<1>2. \A c \in Conns : ~Carries(c)'
  BY <1>1, EventNames DEF Carries, Arming
<1>3. PlaceInv'
  BY <1>1, <1>2 DEF PlaceInv, InPlace, Saves, At, Working
<1>4. TruthInv'
  BY <1>1 DEF TruthInv, Told, Forgotten
<1> QED
  BY <1>3, <1>4

\* A handler that goes on keeps its place; saving credentials or keys ends with its one await.
LEMMA HandlersKeepPlace ==
  ASSUME GatewayInv, ChainInv, PlaceInv, NEW c \in Conns, NEW e \in Events,
         HandlerStep(c, e) \/ HandlerFails(c, e)
  PROVE  /\ PlaceInv' /\ Calm /\ Working(c, e)
         /\ e \notin Telling => At(c, e, "save") /\ handlers'[c][e] = "done"
<1>1. MemoryInv /\ Calm
  BY InvGivesMemory, HandlersAreCalm
<1>2. /\ Working(c, e) /\ \A d \in Conns, f \in Events : d # c \/ f # e => SameWork(d, f)
      /\ timers' \subseteq timers \cup {c} /\ handlers'[c][e] # "save"
      /\ timers' \subseteq timers \/ (Arming(c) /\ e = "close" /\ handlers'[c][e] = "done")
  BY HandlerEffect
<1>3. e \notin Telling => At(c, e, "save")
  BY <1>2 DEF PlaceInv, Saves
<1>4. e \notin Telling => handlers'[c][e] = "done"
  <2>1. \A pc : Goto(c, e, pc) => handlers'[c][e] = pc
    BY GotoEffect DEF GatewayInv, TypeOK
  <2>2. At(c, e, "save") => SaveAuth(c, e) \/ HandlerFails(c, e)
    BY DEF HandlerStep, DeleteAuth, UpdateRow, WriteLog, SetStatusKey, SetQrKey, ArmTimer,
           DeleteKeys, DisposeMissing, At
  <2>3. e \notin Telling => e # "open"
    BY DEF Telling
  <2> QED
    BY <1>3, <2>1, <2>2, <2>3 DEF SaveAuth, HandlerFails
<1>5. InPlace'
  <2>1. \A d \in Conns : Arming(d)' => Arming(d)
    BY <1>1, <1>2, EventNames DEF Calm, Unchanging, Arming, Working, SameWork
  <2>2. \A d \in timers' : d \in timers \/ Arming(d)
    BY <1>2
  <2> QED
    BY <1>1, <2>1, <2>2, CalmKeepsPlace DEF PlaceInv
<1>6. Saves'
  <2> SUFFICES ASSUME NEW d \in Conns, NEW f \in Events
               PROVE  /\ Working(d, f)' => d <= nConn'
                      /\ At(d, f, "save")' => f \in {"open", "creds", "keys"}
                      /\ Working(d, f)' /\ f \notin Telling => At(d, f, "save")'
    BY DEF Saves
  <2>1. nConn' = nConn
    BY <1>1 DEF Calm
  <2>2. CASE d = c /\ f = e
    BY <1>2, <1>4, <2>1, <2>2 DEF PlaceInv, Saves, At, Working
  <2>3. CASE d # c \/ f # e
    <3>1. handlers'[d][f] = handlers[d][f]
      BY <1>2, <2>3 DEF SameWork
    <3> QED
      BY <2>1, <3>1 DEF PlaceInv, Saves, At, Working
  <2> QED
    BY <2>2, <2>3
<1> QED
  BY <1>1, <1>2, <1>3, <1>4, <1>5, <1>6 DEF PlaceInv

\* A handler's steps write what its event showed, the row first, then Redis.
LEMMA HandlersKeepTold ==
  ASSUME GatewayInv, ChainInv, PlaceInv, Told, NEW c \in Conns, NEW e \in Events,
         HandlerStep(c, e)
  PROVE  Told'
<1>1. /\ Calm /\ Working(c, e) /\ MemoryInv
      /\ e \notin Telling => At(c, e, "save") /\ handlers'[c][e] = "done"
      /\ \A d \in Conns, f \in Events : d # c \/ f # e => handlers'[d][f] = handlers[d][f]
  BY HandlersKeepPlace, HandlerEffect, InvGivesMemory DEF SameWork
<1>2. \A pc : Goto(c, e, pc) => handlers'[c][e] = pc
  BY GotoEffect DEF GatewayInv, TypeOK
<1>3. current' # 0 =>
        /\ current' = current /\ runtimes'[current'].status = runtimes[current].status
  BY <1>1, GatewayAssumption DEF Calm, SameShown, MemoryInv, MemoryOK, Runtimes
<1>4. \A d \in Conns, f \in Events : Reported(d, f)' = Reported(d, f)
  BY <1>1 DEF Calm, Unchanging, Reported
<1> PICK status : status = runtimes[current].status
  OBVIOUS
<1> SUFFICES ASSUME row', current' # 0, runtimes'[current'].status # "created"
             PROVE  \/ Agree' /\ \A d \in Conns, f \in Telling : ~Working(d, f)'
                    \/ \E d \in Conns, f \in Telling : Tells(d, f)'
  BY DEF Told
<1>5. /\ current' = current /\ current # 0 /\ runtimes'[current].status = status
      /\ status # "created" /\ Telling \subseteq Events
  BY <1>3 DEF Telling, Events
<1>6. row' = row
  BY DEF HandlerStep, SaveAuth, DeleteAuth, UpdateRow, WriteLog, SetStatusKey, SetQrKey,
         ArmTimer, DeleteKeys, DisposeMissing, store
<1>7. ~DisposeMissing(c, e)
  BY DEF DisposeMissing
<1>8. Agree' <=> dbStatus' = status /\ rStatus' \in {"none", status}
  BY <1>5 DEF Agree
<1>9. CASE e \notin Telling
  <2>1. UNCHANGED <<dbStatus, rStatus>>
    BY <1>1, <1>9 DEF HandlerStep, SaveAuth, DeleteAuth, UpdateRow, WriteLog, SetStatusKey,
                      SetQrKey, ArmTimer, DeleteKeys, DisposeMissing, At
  <2>2. \A d \in Conns, f \in Telling : handlers'[d][f] = handlers[d][f]
    BY <1>1, <1>5, <1>9
  <2>3. \A d \in Conns, f \in Telling : Working(d, f)' <=> Working(d, f)
    BY <2>2 DEF Working
  <2>4. Agree => Agree'
    BY <1>8, <2>1 DEF Agree
  <2>5. \A d \in Conns, f \in Telling : Tells(d, f) => Tells(d, f)'
    BY <1>4, <1>5, <2>1, <2>2, <2>3, <2>4 DEF Tells
  <2> QED
    BY <1>5, <1>6, <2>3, <2>4, <2>5 DEF Told
<1>10. CASE e \in Telling
  <2>1. /\ Reported(c, e) = status
        /\ handlers[c][e] \in {"log", "status"} => dbStatus = status
        /\ handlers[c][e] \in {"qrKey", "arm"} => dbStatus = status /\ rStatus \in {"none", status}
        /\ \A d \in Conns, f \in Telling : Working(d, f) => d = c /\ f = e
    BY <1>1, <1>5, <1>6, <1>10 DEF Told, Tells, Agree
  <2>2. At(c, e, "save") => e = "open"
    BY <1>10 DEF PlaceInv, Saves, Telling
  <2>3. \/ /\ dbStatus' = status /\ rStatus' \in {"none", status}
           /\ handlers'[c][e] = "done"
        \/ /\ handlers'[c][e] \notin {"none", "done"}
           /\ handlers'[c][e] \in {"log", "status"} => dbStatus' = status
           /\ handlers'[c][e] \in {"qrKey", "arm"} =>
                dbStatus' = status /\ rStatus' \in {"none", status}
    <3>1. CASE SaveAuth(c, e)
      BY <1>2, <1>6, <2>2, <3>1 DEF SaveAuth
    <3>2. CASE DeleteAuth(c, e)
      BY <1>2, <3>2 DEF DeleteAuth
    <3>3. CASE UpdateRow(c, e)
      BY <1>2, <1>6, <2>1, <3>3 DEF UpdateRow
    <3>4. CASE WriteLog(c, e)
      BY <1>2, <1>6, <2>1, <3>4 DEF WriteLog, At, store
    <3>5. CASE SetStatusKey(c, e)
      BY <1>2, <2>1, <3>5 DEF SetStatusKey, At
    <3>6. CASE SetQrKey(c, e)
      BY <1>2, <2>1, <3>6 DEF SetQrKey, At
    <3>7. CASE ArmTimer(c, e)
      BY <1>2, <2>1, <3>7 DEF ArmTimer, At, store
    <3>8. CASE DeleteKeys(c, e)
      BY <1>2, <3>8 DEF DeleteKeys
    <3> QED
      BY <1>7, <3>1, <3>2, <3>3, <3>4, <3>5, <3>6, <3>7, <3>8 DEF HandlerStep
  <2>4. \A d \in Conns, f \in Telling : Working(d, f)' => d = c /\ f = e
    BY <1>1, <1>5, <2>1 DEF Working
  <2>5. CASE handlers'[c][e] = "done"
    <3>1. \A d \in Conns, f \in Telling : ~Working(d, f)'
      BY <2>4, <2>5 DEF Working
    <3> QED
      BY <1>8, <2>3, <2>5, <3>1
  <2>6. CASE handlers'[c][e] # "done"
    <3>1. Working(c, e)'
      BY <2>3, <2>6 DEF Working
    <3>2. Tells(c, e)'
      BY <1>4, <1>5, <1>8, <2>1, <2>3, <2>4, <2>6, <3>1 DEF Tells
    <3> QED
      BY <1>10, <3>2
  <2> QED
    BY <2>5, <2>6
<1> QED
  BY <1>9, <1>10

\* After a logout no handler saves, and the close handler deletes.
LEMMA HandlersKeepForgotten ==
  ASSUME GatewayInv, ChainInv, PlaceInv, Forgotten, NEW c \in Conns, NEW e \in Events,
         HandlerStep(c, e)
  PROVE  Forgotten'
<1>1. /\ Calm /\ MemoryInv /\ handlers'[c][e] # "save"
      /\ \A d \in Conns, f \in Events : d # c \/ f # e => handlers'[d][f] = handlers[d][f]
  BY HandlersKeepPlace, HandlerEffect, InvGivesMemory DEF SameWork
<1>2. current' # 0 =>
        /\ current' = current /\ runtimes'[current'].status = runtimes[current].status
  BY <1>1, GatewayAssumption DEF Calm, SameShown, MemoryInv, MemoryOK, Runtimes
<1> SUFFICES ASSUME current' # 0, runtimes'[current'].status = "logged_out"
             PROVE  /\ auth' = 0 \/ \E d \in Conns : At(d, "close", "auth")'
                    /\ \A d \in Conns, f \in Events : ~At(d, f, "save")'
  BY DEF Forgotten
<1>3. /\ auth = 0 \/ \E d \in Conns : At(d, "close", "auth")
      /\ \A d \in Conns, f \in Events : ~At(d, f, "save")
  BY <1>2 DEF Forgotten
<1>4. \A d \in Conns, f \in Events : ~At(d, f, "save")'
  BY <1>1, <1>3 DEF At
<1>5. DeleteAuth(c, e) => auth' = 0
  BY DEF DeleteAuth
<1>6. ~DeleteAuth(c, e) => auth' = auth /\ ~At(c, e, "auth")
  BY <1>3 DEF HandlerStep, SaveAuth, UpdateRow, WriteLog, SetStatusKey, SetQrKey, ArmTimer,
              DeleteKeys, DisposeMissing, store, At
<1>7. ~DeleteAuth(c, e) /\ auth # 0 => \E d \in Conns : At(d, "close", "auth")'
  BY <1>1, <1>3, <1>6, EventNames DEF At
<1> QED
  BY <1>4, <1>5, <1>6, <1>7

\* A handler that fails is either noticed or had nothing to tell.
LEMMA FailuresKeepTruth ==
  ASSUME GatewayInv, ChainInv, PlaceInv, TruthInv, NEW c \in Conns, NEW e \in Events,
         HandlerFails(c, e), Watch
  PROVE  TruthInv'
<1>1. /\ Working(c, e) /\ \A d \in Conns, f \in Events : d # c \/ f # e => handlers'[d][f] = handlers[d][f]
      /\ handlers'[c][e] = "done" /\ faults' = faults + 1 /\ faults \in Nat
      /\ UNCHANGED <<store, memory, restarts>> /\ Telling \subseteq Events
      /\ e \notin Telling => At(c, e, "save")
  BY HandlersKeepPlace, HandlerEffect, GotoEffect
     DEF SameWork, HandlerFails, GatewayInv, TypeOK, EnvironOK, Telling, Events
<1>2. CASE e \in Telling
  <2>1. ~Event
    BY <1>1 DEF Event, Working
  <2>2. Failure
    BY <1>1, <1>2 DEF Failure, Working
  <2>3. "failing" \in upset'
    BY <1>1, <2>1, <2>2 DEF Watch
  <2> QED
    BY <2>3 DEF TruthInv
<1>3. CASE e \notin Telling
  <2>1. \A d \in Conns, f \in Telling : handlers'[d][f] = handlers[d][f]
    BY <1>1, <1>3
  <2>2. upset' = upset
    BY <1>1, <2>1, QuietWatch
  <2>3. /\ \A d \in Conns, f \in Telling : Working(d, f)' <=> Working(d, f)
        /\ \A d \in Conns, f \in Events : Reported(d, f)' = Reported(d, f)
        /\ Agree' <=> Agree
    BY <1>1, <2>1 DEF Working, Reported, Agree, memory, store
  <2>4. \A d \in Conns, f \in Telling : Tells(d, f) => Tells(d, f)'
    BY <1>1, <2>1, <2>3 DEF Tells, memory, store
  <2>5. Told => Told'
    BY <1>1, <2>3, <2>4 DEF Told, memory, store
  <2>6. Forgotten => Forgotten'
    BY <1>1, <1>3 DEF Forgotten, At, memory, store
  <2> QED
    BY <2>2, <2>5, <2>6 DEF TruthInv
<1> QED
  BY <1>2, <1>3

LEMMA HandlersKeepStores ==
  ASSUME GatewayInv, ChainInv, PlaceInv, TruthInv, NEW c \in Conns, NEW e \in Events,
         HandlerStep(c, e) \/ HandlerFails(c, e), Watch
  PROVE  PlaceInv' /\ TruthInv'
<1>1. CASE HandlerStep(c, e)
  <2>1. /\ Working(c, e) /\ \A d \in Conns, f \in Events : d # c \/ f # e => SameWork(d, f)
        /\ Telling \subseteq Events
    BY <1>1, HandlerEffect DEF Telling, Events
  <2>2. UNCHANGED environ
    BY <1>1 DEF HandlerStep, SaveAuth, DeleteAuth, UpdateRow, WriteLog, SetStatusKey, SetQrKey,
                ArmTimer, DeleteKeys, DisposeMissing
  <2>3. upset' = upset
    <3>1. \A d \in Conns, f \in Telling : handlers[d][f] = "none" => handlers'[d][f] = "none"
      BY <2>1 DEF Working, SameWork
    <3> QED
      BY <2>2, <3>1, QuietWatch DEF environ
  <2> QED
    BY <1>1, <2>3, HandlersKeepPlace, HandlersKeepTold, HandlersKeepForgotten DEF TruthInv
<1>2. CASE HandlerFails(c, e)
  BY <1>2, HandlersKeepPlace, FailuresKeepTruth
<1> QED
  BY <1>1, <1>2

LEMMA LoneStepKeeps ==
  ASSUME GatewayInv, ChainInv, PlaceInv, TruthInv, LoneStep, Watch
  PROVE  PlaceInv' /\ TruthInv'
<1>1. MemoryInv
  BY InvGivesMemory
<1>2. ASSUME NEW c \in Conns, SocketStep(c) \/ LoadFails(c)
      PROVE  PlaceInv' /\ TruthInv'
  <2>1. Calm /\ UNCHANGED <<handlers, timers, store, restarts>>
    BY <1>2, SocketIsCalm DEF SocketStep, LoadAuth, MakeSocket, LoadFails, environ
  <2> QED
    BY <1>1, <2>1, SameKeepsStores DEF store
<1>3. ASSUME FindSession \/ DeleteSession \/ ExpireStatus \/ ExpireQr \/ UNCHANGED vars
      PROVE  PlaceInv' /\ TruthInv'
  <2>1. Calm /\ UNCHANGED <<handlers, timers>>
    BY <1>3, StoresAreCalm DEF memory
  <2>2. /\ row' => row
        /\ auth' \in {0, auth} /\ dbStatus' = dbStatus /\ rStatus' \in {"none", rStatus}
        /\ restarts' = restarts
    BY <1>3 DEF FindSession, DeleteSession, ExpireStatus, ExpireQr, vars, store, environ
  <2> QED
    BY <1>1, <2>1, <2>2, SameKeepsStores
<1> QED
  BY <1>2, <1>3, EmitsKeepStores, TimersKeepStores, HandlersKeepStores, RestoreKeepsStores,
     RestartKeepsStores DEF LoneStep

LEMMA StoresStart == WatchedInit => StoresInv
<1> SUFFICES ASSUME WatchedInit PROVE PlaceInv /\ TruthInv
  BY DEF StoresInv
<1>1. ChainInv
  BY ChainStart DEF WatchedInit
<1>2. /\ \A c \in Conns : conns[c].stage = "unused" /\ \A e \in Events : handlers[c][e] = "none"
      /\ timers = {} /\ current = 0
  BY DEF WatchedInit, Init, NoConn
<1>3. \A c \in Conns : ~Carries(c)
  BY <1>2, EventNames DEF Carries, Alive, Arming, Working, Live, Pending
<1> QED
  BY <1>2, <1>3 DEF PlaceInv, InPlace, Saves, TruthInv, Told, Forgotten, Working, At, Carries

LEMMA StoresNext ==
  GatewayInv /\ LoneInv /\ StoresInv /\ [WatchedNext]_watchedVars => StoresInv'
<1> SUFFICES ASSUME GatewayInv, LoneInv, StoresInv, [WatchedNext]_watchedVars, NoJobs'
             PROVE  PlaceInv' /\ TruthInv'
  BY DEF StoresInv
<1>1. [Next]_vars
  BY DEF WatchedNext, watchedVars
<1>2. NoJobs /\ LoneStep
  BY <1>1, JobsRest DEF LoneInv
<1>3. ChainInv /\ PlaceInv /\ TruthInv
  BY <1>2 DEF LoneInv, StoresInv
<1>4. Watch \/ UNCHANGED watchedVars
  BY DEF WatchedNext
<1>5. CASE UNCHANGED watchedVars
  <2>1. Watch
    BY <1>5 DEF watchedVars, vars, Watch, Event, Failure, environ
  <2> QED
    BY <1>2, <1>3, <2>1, LoneStepKeeps
<1> QED
  BY <1>2, <1>3, <1>4, <1>5, LoneStepKeeps

\* The history variable takes nothing from the gateway's behaviours.
LEMMA WatchedIsGateway == WatchedSpec => Spec
<1>1. WatchedInit => Init
  BY DEF WatchedInit
<1>2. [WatchedNext]_watchedVars => [Next]_vars
  BY DEF WatchedNext, watchedVars
<1> QED
  BY <1>1, <1>2, PTL DEF WatchedSpec, Spec

-----------------------------------------------------------------------------
(* The theorems about a session that no job uses.                            *)

\* A session that only timers and the restore connect has one chain of connections, however
\* its handlers overlap and whatever fails: before the first job no other thread moves, the
\* newest connection alone is alive or brings the next, and a logout ends the chain.
THEOREM LoneInvariance == Spec => []LoneInv
  BY LoneStart, LoneNext, GatewayInvariance, PTL DEF Spec

\* The phone's logout stops it: once the runtime says logged_out no reconnect timer is armed
\* and no creation is under way, with handlers overlapping and failing as they please.
THEOREM LogoutEndsTheChain ==
  Spec => [](NoJobs /\ Loggedout => timers = {} /\ runtimes[current].promise = 0)
<1>1. GatewayInv /\ LoneInv =>
        (NoJobs /\ Loggedout => timers = {} /\ runtimes[current].promise = 0)
  <2> SUFFICES ASSUME GatewayInv, ChainInv, Loggedout
               PROVE  timers = {} /\ runtimes[current].promise = 0
    BY DEF LoneInv
  <2>1. timers \subseteq Conns /\ \A c \in Conns : ~Carries(c)
    BY DEF ChainInv, Loggedout
  <2>2. timers = {}
    BY <2>1 DEF Carries
  <2>3. ASSUME runtimes[current].promise # 0 PROVE FALSE
    <3>1. current \in Runtimes
      BY InvGivesMemory, GatewayAssumption DEF MemoryInv, MemoryOK, Runtimes, Loggedout
    <3> PICK c : c = runtimes[current].promise
      OBVIOUS
    <3>2. c \in Conns
      BY <2>3, <3>1, InvGivesMemory, GatewayAssumption DEF MemoryInv, MemoryOK, RuntimeRecords, Conns
    <3>3. conns[c].stage \in Pending
      BY <2>3, <3>1 DEF GatewayInv, PromisePending
    <3> QED
      BY <2>1, <3>2, <3>3 DEF Carries, Alive
  <2> QED
    BY <2>2, <2>3
<1> QED
  BY <1>1, LoneInvariance, GatewayInvariance, PTL

\* With the history of what upset the last event's handler, and handlers that overlap and fail
\* as they please: the newest connection alone speaks, and unless something did upset it, the
\* stores lack only what the one telling handler has still to write.
THEOREM StoresInvariance == WatchedSpec => []StoresInv
<1>1. WatchedInit => StoresInv
  BY StoresStart
<1>2. GatewayInv /\ LoneInv /\ StoresInv /\ [WatchedNext]_watchedVars => StoresInv'
  BY StoresNext
<1>3. WatchedSpec => Spec
  BY WatchedIsGateway
<1> QED
  BY <1>1, <1>2, <1>3, LoneInvariance, GatewayInvariance, PTL DEF WatchedSpec

\* A session that no job uses stays as the phone left it when it logged it out: nothing
\* reconnects it, and its credentials are gone once its handlers are done, unless an earlier
\* handler was still saving them when the logout came or a call failed.
THEOREM LogoutHolds == WatchedSpec => [](NoJobs => LogoutIsFinal)
<1>1. StoresInv /\ (NoJobs /\ Loggedout => timers = {} /\ runtimes[current].promise = 0)
        => (NoJobs => LogoutIsFinal)
  <2> SUFFICES ASSUME TruthInv, current # 0, runtimes[current].status = "logged_out",
                      timers = {}, runtimes[current].promise = 0,
                      Settled, upset \subseteq {"telling"}
               PROVE  auth = 0
    BY DEF StoresInv, Loggedout, LogoutIsFinal
  <2> QED
    BY EventNames DEF TruthInv, Forgotten, Settled, At
<1>2. WatchedSpec => Spec
  BY WatchedIsGateway
<1> QED
  BY <1>1, <1>2, StoresInvariance, LogoutEndsTheChain, PTL

\* Once the handlers of a session that no job uses are done, the database and Redis tell the
\* status the worker holds, unless the last event's handler met another that was still telling
\* them or a call of a handler failed.
THEOREM StoresTell == WatchedSpec => [](NoJobs => StoresAgree)
<1>1. StoresInv => (NoJobs => StoresAgree)
  <2> SUFFICES ASSUME Told, Settled, row, current # 0, runtimes[current].status # "created"
               PROVE  Agree
    BY DEF StoresInv, TruthInv, StoresAgree, Agree
  <2>1. \A c \in Conns, e \in Telling : ~Working(c, e)
    BY DEF Settled, Working, Telling, Events
  <2> QED
    BY <2>1 DEF Told, Tells
<1> QED
  BY <1>1, StoresInvariance, PTL
=============================================================================
