------------------------ MODULE ServerShutdownProofs -------------------------
(***************************************************************************)
(* The end of the server's threads, for any number of workers and          *)
(* sessions and any bounds: each pill ends one worker, and nothing else    *)
(* does.                                                                   *)
(***************************************************************************)
EXTENDS ServerShutdown, SequenceTheorems, FiniteSetTheorems, TLAPS

(* A packet of the port tells of a session, or of none.                    *)
PortPackets == [session : Conns \cup {NoSession}, bytes : {0, 1}]

(* A packet that tells of an operation: it is the session's operation, and *)
(* one that brought bytes was not the last.                                *)
Tells(packet) ==
  /\ packet.session \in Conns
  /\ op[packet.session] = "queued"
  /\ packet.bytes = 1 => done[packet.session] <= MaxOps

PortHolds ==
  /\ port \in Seq(PortPackets)
  /\ \A i \in DOMAIN port : IsPill(port[i]) \/ Tells(port[i])

JobsHold ==
  /\ job \in [Workers -> PortPackets]
  /\ \A w \in Workers : worker[w] = "busy" => Tells(job[w])

(* No session is told of twice.                                            *)
ToldOnce ==
  /\ \A i, j \in DOMAIN port :
       i # j /\ port[i].session \in Conns => port[i].session # port[j].session
  /\ \A i \in DOMAIN port : \A w \in Workers :
       worker[w] = "busy" => job[w].session # port[i].session
  /\ \A v, w \in Workers :
       v # w /\ worker[v] = "busy" /\ worker[w] = "busy"
         => job[v].session # job[w].session

OpsCounted ==
  \A c \in Conns : /\ op[c] = "none" => done[c] = 0
                   /\ op[c] = "posted" => done[c] <= MaxOps

KernelInv == PortHolds /\ JobsHold /\ ToldOnce /\ OpsCounted

(* OnAccept works for a client that has no session yet.                    *)
AcceptorHolds == acceptor = "onAccept" => client \in Conns /\ op[client] = "none"

(* Before Start there is nothing, and Stop leaves no pill to post.         *)
StartHolds ==
  /\ console = "start" =>
       /\ acceptor = "none" /\ stops = 0 /\ port = << >> /\ ~hasPort
       /\ \A w \in Workers : worker[w] = "none"
       /\ \A c \in Conns : op[c] = "none"
  /\ console # "pills" => left = 0

ShutdownInv ==
  /\ ShutdownTypeOK /\ KernelInv /\ AcceptorHolds /\ StartHolds
  /\ OnePillPerWorker

-----------------------------------------------------------------------------
(* Counting pills and ended workers. *)

PillsIn(q) == { i \in DOMAIN q : IsPill(q[i]) }

LEMMA PillsFinite ==
  ASSUME NEW q \in Seq(PortPackets)
  PROVE  /\ IsFiniteSet(PillsIn(q)) /\ PillsIn(q) \subseteq 1..Len(q)
         /\ Cardinality(PillsIn(q)) \in Nat
PROOF
  <1>1. Len(q) \in Nat /\ PillsIn(q) \in SUBSET (1..Len(q))
    BY DEF PillsIn
  <1>2. IsFiniteSet(1..Len(q))
    BY <1>1, FS_Interval
  <1>. QED
    BY <1>1, <1>2, FS_Subset, FS_CardinalityType

LEMMA PillsAppend ==
  ASSUME NEW q \in Seq(PortPackets), NEW p \in PortPackets
  PROVE  Cardinality(PillsIn(Append(q, p)))
           = Cardinality(PillsIn(q)) + (IF IsPill(p) THEN 1 ELSE 0)
PROOF
  <1>1. /\ Len(q) \in Nat /\ DOMAIN Append(q, p) = 1..(Len(q) + 1)
        /\ Append(q, p)[Len(q) + 1] = p
        /\ \A i \in 1..Len(q) : Append(q, p)[i] = q[i]
        /\ DOMAIN q = 1..Len(q)
    OBVIOUS
  <1>2. CASE IsPill(p)
    <2>1. PillsIn(Append(q, p)) = PillsIn(q) \cup {Len(q) + 1}
      BY <1>1, <1>2 DEF PillsIn
    <2>2. Len(q) + 1 \notin PillsIn(q)
      BY <1>1 DEF PillsIn
    <2>. QED
      BY <1>2, <2>1, <2>2, PillsFinite, FS_AddElement
  <1>3. CASE ~IsPill(p)
    <2>1. PillsIn(Append(q, p)) = PillsIn(q)
      BY <1>1, <1>3 DEF PillsIn
    <2>. QED
      BY <1>3, <2>1, PillsFinite
  <1>. QED
    BY <1>2, <1>3

LEMMA PillsTail ==
  ASSUME NEW q \in Seq(PortPackets), q # << >>
  PROVE  Cardinality(PillsIn(q))
           = Cardinality(PillsIn(Tail(q))) + (IF IsPill(Head(q)) THEN 1 ELSE 0)
PROOF
  <1>. DEFINE S == PillsIn(Tail(q))
              T == PillsIn(q) \ {1}
              f == [i \in S |-> i + 1]
  <1>1. /\ Tail(q) \in Seq(PortPackets) /\ Len(q) \in Nat /\ Len(q) > 0
        /\ DOMAIN q = 1..Len(q) /\ DOMAIN Tail(q) = 1..(Len(q) - 1)
        /\ \A i \in 1..(Len(q) - 1) : Tail(q)[i] = q[i + 1]
        /\ Head(q) = q[1]
    OBVIOUS
  <1>2. IsFiniteSet(S) /\ S \subseteq Nat /\ Cardinality(S) \in Nat
    <2>1. /\ IsFiniteSet(S) /\ S \subseteq 1..Len(Tail(q))
          /\ Cardinality(S) \in Nat
      <3>. HIDE DEF S
      <3>. QED
        BY <1>1, PillsFinite DEF S
    <2>. QED
      BY <1>1, <2>1
  <1>3. f \in Bijection(S, T)
    <2>1. ASSUME NEW i \in S PROVE i + 1 \in T
      BY <1>1 DEF PillsIn
    <2>2. ASSUME NEW j \in T PROVE \E i \in S : i + 1 = j
      <3>1. j - 1 \in 1..(Len(q) - 1) /\ (j - 1) + 1 = j /\ IsPill(q[j])
        BY <1>1 DEF PillsIn
      <3>2. j - 1 \in S
        BY <1>1, <3>1 DEF PillsIn
      <3>. QED
        BY <3>1, <3>2
    <2>3. f \in [S -> T]
      BY <2>1
    <2>4. \A a, b \in S : f[a] = f[b] => a = b
      BY <1>2
    <2>5. \A j \in T : \E i \in S : f[i] = j
      BY <2>2
    <2>. QED
      BY <2>3, <2>4, <2>5 DEF Bijection, Injection, Surjection, IsInjective
  <1>4. Cardinality(T) = Cardinality(S)
    BY <1>2, <1>3, FS_Bijection DEF ExistsBijection
  <1>5. Cardinality(T) = IF 1 \in PillsIn(q) THEN Cardinality(PillsIn(q)) - 1
                                             ELSE Cardinality(PillsIn(q))
    BY PillsFinite, FS_RemoveElement
  <1>6. 1 \in PillsIn(q) <=> IsPill(Head(q))
    BY <1>1 DEF PillsIn
  <1>7. Cardinality(PillsIn(q)) \in Nat
    BY PillsFinite
  <1>. HIDE DEF S, T
  <1>. QED
    BY <1>2, <1>4, <1>5, <1>6, <1>7 DEF S

LEMMA EndedFinite ==
  IsFiniteSet({ w \in Workers : worker[w] = "ended" }) /\ Ended \in Nat
PROOF
  <1>1. { w \in Workers : worker[w] = "ended" } \in SUBSET Workers
    OBVIOUS
  <1>. QED
    BY <1>1, ShutdownAssumption, FS_Subset, FS_CardinalityType DEF Ended

LEMMA EndedSame ==
  ASSUME \A w \in Workers : worker'[w] = "ended" <=> worker[w] = "ended"
  PROVE  Ended' = Ended
PROOF
  <1>1. { w \in Workers : worker'[w] = "ended" }
          = { w \in Workers : worker[w] = "ended" }
    OBVIOUS
  <1>. QED
    BY <1>1 DEF Ended

LEMMA OneMoreEnded ==
  ASSUME NEW w \in Workers, worker[w] # "ended", worker'[w] = "ended",
         \A v \in Workers \ {w} : worker'[v] = worker[v]
  PROVE  Ended' = Ended + 1
PROOF
  <1>1. { v \in Workers : worker'[v] = "ended" }
          = { v \in Workers : worker[v] = "ended" } \cup {w}
    OBVIOUS
  <1>2. w \notin { v \in Workers : worker[v] = "ended" }
    OBVIOUS
  <1>. QED
    BY <1>1, <1>2, EndedFinite, FS_AddElement DEF Ended

(* One more press of 's' is as many pills as there are workers.            *)
LEMMA OneMoreStop ==
  ASSUME NEW n \in Nat, NEW s \in Nat
  PROVE  (s + 1) * n = s * n + n
PROOF OBVIOUS

LEMMA WorkersCounted == Cardinality(Workers) \in Nat
PROOF BY ShutdownAssumption, FS_CardinalityType

-----------------------------------------------------------------------------
(* What the actions do to the packets and the jobs. *)

(* Nothing is told of anew: no operation, packet or job changes, and no    *)
(* worker becomes busy.                                                    *)
LEMMA KernelIdle ==
  ASSUME KernelInv, UNCHANGED << job, port, op, done >>,
         \A w \in Workers : worker'[w] = "busy" => worker[w] = "busy"
  PROVE  KernelInv'
PROOF
  <1>1. PortHolds'
    BY DEF KernelInv, PortHolds, Tells
  <1>2. JobsHold'
    BY DEF KernelInv, JobsHold, Tells
  <1>3. ToldOnce'
    BY DEF KernelInv, ToldOnce
  <1>4. OpsCounted'
    BY DEF KernelInv, OpsCounted
  <1>. QED
    BY <1>1, <1>2, <1>3, <1>4 DEF KernelInv

LEMMA PillIsPacket == Pill \in PortPackets /\ IsPill(Pill)
PROOF BY DEF Pill, Packet, PortPackets, IsPill

(* A pill in the port tells of no session.                                 *)
LEMMA KernelPill ==
  ASSUME KernelInv, UNCHANGED << worker, job, op, done >>,
         port' = Append(port, Pill)
  PROVE  KernelInv'
PROOF
  <1>1. /\ port \in Seq(PortPackets) /\ Len(port) \in Nat
        /\ DOMAIN port = 1..Len(port)
    BY DEF KernelInv, PortHolds
  <1>2. /\ port' \in Seq(PortPackets) /\ DOMAIN port' = 1..(Len(port) + 1)
        /\ port'[Len(port) + 1] = Pill
        /\ \A i \in 1..Len(port) : port'[i] = port[i]
    BY <1>1, PillIsPacket
  <1>3. Pill.session = NoSession /\ NoSession \notin Conns
    BY ShutdownAssumption DEF Pill, Packet
  <1>4. PortHolds'
    <2>1. \A i \in DOMAIN port : IsPill(port[i]) \/ Tells(port[i])
      BY DEF KernelInv, PortHolds
    <2>. QED
      BY <1>1, <1>2, <2>1, PillIsPacket DEF PortHolds, Tells
  <1>5. JobsHold'
    BY DEF KernelInv, JobsHold, Tells
  <1>6. ToldOnce'
    <2>1. \A w \in Workers : worker[w] = "busy" => job[w].session \in Conns
      BY DEF KernelInv, JobsHold, Tells
    <2>. QED
      BY <1>1, <1>2, <1>3, <2>1 DEF KernelInv, ToldOnce
  <1>7. OpsCounted'
    BY DEF KernelInv, OpsCounted
  <1>. QED
    BY <1>4, <1>5, <1>6, <1>7 DEF KernelInv

(* OnAccept changes the operation of a session nothing tells of.           *)
LEMMA KernelOnAccept ==
  ASSUME KernelInv, ShutdownTypeOK, AcceptorHolds, OnAccept
  PROVE  KernelInv'
PROOF
  <1>1. client \in Conns /\ op[client] = "none"
    BY DEF OnAccept, AcceptorHolds
  <1>2. PICK result \in {"posted", "closed"} :
               op' = [op EXCEPT ![client] = result]
    BY DEF OnAccept
  <1>3. UNCHANGED << worker, job, port, done >>
    BY DEF OnAccept, workVars
  <1>4. op \in [Conns -> {"none", "posted", "queued", "closed"}]
    BY DEF ShutdownTypeOK
  <1>5. ASSUME NEW packet, Tells(packet) PROVE Tells(packet)'
    BY <1>1, <1>2, <1>3, <1>4, <1>5 DEF Tells
  <1>6. PortHolds' /\ JobsHold'
    BY <1>3, <1>5 DEF KernelInv, PortHolds, JobsHold
  <1>7. ToldOnce'
    BY <1>3 DEF KernelInv, ToldOnce
  <1>8. OpsCounted'
    BY <1>1, <1>2, <1>3, <1>4, ShutdownAssumption DEF KernelInv, OpsCounted
  <1>. QED
    BY <1>6, <1>7, <1>8 DEF KernelInv

(* A completion is queued: its session was told of by nothing.             *)
LEMMA KernelCompletes ==
  ASSUME KernelInv, ShutdownTypeOK, hasPort, NEW c \in Conns, Completes(c)
  PROVE  KernelInv' /\ done'[c] \in 0..(MaxOps + 1)
PROOF
  <1>1. PICK bytes \in {0, 1} : /\ bytes = 1 => done[c] < MaxOps
                                /\ port' = Append(port, Packet(c, bytes))
    BY DEF Completes
  <1>. DEFINE p == Packet(c, bytes)
  <1>2. /\ p.session = c /\ p.bytes = bytes /\ p \in PortPackets
    BY DEF Packet, PortPackets
  <1>3. /\ op[c] = "posted" /\ op' = [op EXCEPT ![c] = "queued"]
        /\ done' = [done EXCEPT ![c] = @ + 1] /\ UNCHANGED << worker, job >>
    BY DEF Completes
  <1>4. /\ op \in [Conns -> {"none", "posted", "queued", "closed"}]
        /\ done \in [Conns -> 0..(MaxOps + 1)] /\ MaxOps \in Nat
    BY ShutdownAssumption DEF ShutdownTypeOK
  <1>5. /\ port \in Seq(PortPackets) /\ Len(port) \in Nat
        /\ DOMAIN port = 1..Len(port)
        /\ \A i \in DOMAIN port : IsPill(port[i]) \/ Tells(port[i])
    BY DEF KernelInv, PortHolds
  <1>. HIDE DEF p
  <1>6. /\ port' \in Seq(PortPackets) /\ DOMAIN port' = 1..(Len(port) + 1)
        /\ port'[Len(port) + 1] = p
        /\ \A i \in 1..Len(port) : port'[i] = port[i]
    BY <1>1, <1>2, <1>5 DEF p
  <1>7. done[c] <= MaxOps
    BY <1>3 DEF KernelInv, OpsCounted
  <1>8. ASSUME NEW packet, Tells(packet)
        PROVE  Tells(packet)' /\ packet.session # c
    BY <1>3, <1>4, <1>8 DEF Tells
  <1>9. Tells(p)'
    BY <1>1, <1>2, <1>3, <1>4 DEF Tells
  <1>10. PortHolds'
    BY <1>5, <1>6, <1>8, <1>9 DEF PortHolds
  <1>11. JobsHold'
    BY <1>3, <1>8 DEF KernelInv, JobsHold
  <1>12. ToldOnce'
    <2>1. \A i \in DOMAIN port : port[i].session # c
      BY <1>5, <1>8, ShutdownAssumption DEF IsPill
    <2>2. \A w \in Workers : worker[w] = "busy" => job[w].session # c
      BY <1>8 DEF KernelInv, JobsHold
    <2>3. \A i, j \in DOMAIN port' :
            i # j /\ port'[i].session \in Conns => port'[i].session # port'[j].session
      <3>1. SUFFICES ASSUME NEW i \in DOMAIN port', NEW j \in DOMAIN port', i # j,
                            port'[i].session \in Conns
                     PROVE  port'[i].session # port'[j].session
        OBVIOUS
      <3>2. CASE i \in DOMAIN port /\ j \in DOMAIN port
        BY <1>5, <1>6, <3>1, <3>2 DEF KernelInv, ToldOnce
      <3>3. CASE i = Len(port) + 1 /\ j \in DOMAIN port
        BY <1>2, <1>5, <1>6, <2>1, <3>3
      <3>4. CASE i \in DOMAIN port /\ j = Len(port) + 1
        BY <1>2, <1>5, <1>6, <2>1, <3>4
      <3>. QED
        BY <1>5, <1>6, <3>1, <3>2, <3>3, <3>4
    <2>4. ASSUME NEW i \in DOMAIN port', NEW w \in Workers, worker'[w] = "busy"
          PROVE  job'[w].session # port'[i].session
      <3>1. CASE i \in DOMAIN port
        BY <1>3, <1>5, <1>6, <2>4, <3>1 DEF KernelInv, ToldOnce
      <3>2. CASE i = Len(port) + 1
        BY <1>2, <1>3, <1>6, <2>2, <2>4, <3>2
      <3>. QED
        BY <1>5, <1>6, <2>4, <3>1, <3>2
    <2>5. \A v, w \in Workers :
            v # w /\ worker'[v] = "busy" /\ worker'[w] = "busy"
              => job'[v].session # job'[w].session
      BY <1>3 DEF KernelInv, ToldOnce
    <2>. QED
      BY <2>3, <2>4, <2>5 DEF ToldOnce
  <1>13. OpsCounted'
    BY <1>3, <1>4 DEF KernelInv, OpsCounted
  <1>14. done'[c] \in 0..(MaxOps + 1)
    BY <1>3, <1>4, <1>7
  <1>. QED
    BY <1>10, <1>11, <1>12, <1>13, <1>14 DEF KernelInv

(* A completion that goes to no port of the server: nobody is told of it.  *)
LEMMA KernelUnread ==
  ASSUME KernelInv, ShutdownTypeOK, ~hasPort, NEW c \in Conns, Completes(c)
  PROVE  KernelInv' /\ done'[c] \in 0..(MaxOps + 1)
PROOF
  <1>1. /\ op[c] = "posted" /\ op' = [op EXCEPT ![c] = "queued"]
        /\ done' = [done EXCEPT ![c] = @ + 1]
        /\ UNCHANGED << worker, job, port >>
    BY DEF Completes
  <1>2. /\ op \in [Conns -> {"none", "posted", "queued", "closed"}]
        /\ done \in [Conns -> 0..(MaxOps + 1)] /\ MaxOps \in Nat
    BY ShutdownAssumption DEF ShutdownTypeOK
  <1>3. done[c] <= MaxOps
    BY <1>1 DEF KernelInv, OpsCounted
  <1>4. ASSUME NEW packet, Tells(packet) PROVE Tells(packet)'
    BY <1>1, <1>2, <1>4 DEF Tells
  <1>5. PortHolds' /\ JobsHold'
    BY <1>1, <1>4 DEF KernelInv, PortHolds, JobsHold
  <1>6. ToldOnce'
    BY <1>1 DEF KernelInv, ToldOnce
  <1>7. OpsCounted'
    BY <1>1, <1>2 DEF KernelInv, OpsCounted
  <1>8. done'[c] \in 0..(MaxOps + 1)
    BY <1>1, <1>2, <1>3
  <1>. QED
    BY <1>5, <1>6, <1>7, <1>8 DEF KernelInv

(* A worker without a port has no packet, and wakes up to none.            *)
LEMMA KernelNoPacket ==
  ASSUME KernelInv, ShutdownTypeOK, NEW w \in Workers, NoPacket(w)
  PROVE  KernelInv'
PROOF
  <1>1. /\ UNCHANGED << job, port, op, done >>
        /\ \/ worker' = [worker EXCEPT ![w] = "ended"]
           \/ worker' = [v \in Workers |-> "ended"]
        /\ worker \in [Workers -> {"none", "wait", "busy", "ended"}]
    BY DEF NoPacket, sessionVars, ShutdownTypeOK
  <1>2. /\ \A packet : Tells(packet)' <=> Tells(packet)
        /\ \A v \in Workers : worker'[v] = "busy" => worker[v] = "busy"
    <2>1. \A packet : Tells(packet)' <=> Tells(packet)
      BY <1>1 DEF Tells
    <2>2. ASSUME NEW v \in Workers, worker'[v] = "busy" PROVE worker[v] = "busy"
      BY <1>1, <2>2
    <2>. QED
      BY <2>1, <2>2
  <1>3. PortHolds' /\ JobsHold'
    BY <1>1, <1>2 DEF KernelInv, PortHolds, JobsHold
  <1>4. ToldOnce' /\ OpsCounted'
    BY <1>1, <1>2 DEF KernelInv, ToldOnce, OpsCounted
  <1>. QED
    BY <1>3, <1>4 DEF KernelInv

(* A worker takes the first packet: what it tells of, it alone tells of.   *)
LEMMA KernelTakes ==
  ASSUME KernelInv, ShutdownTypeOK, NEW w \in Workers,
         GetQueuedCompletionStatus(w)
  PROVE  /\ KernelInv'
         /\ \A v \in Workers : worker'[v] = "busy" => job'[v].session \in Conns
PROOF
  <1>1. /\ port \in Seq(PortPackets) /\ port # << >> /\ port' = Tail(port)
        /\ \A i \in DOMAIN port : IsPill(port[i]) \/ Tells(port[i])
    BY DEF KernelInv, PortHolds, GetQueuedCompletionStatus
  <1>2. /\ Len(port) \in Nat /\ Len(port) > 0 /\ Head(port) = port[1]
        /\ DOMAIN port = 1..Len(port) /\ 1 \in DOMAIN port
        /\ DOMAIN port' = 1..(Len(port) - 1) /\ port' \in Seq(PortPackets)
        /\ \A i \in DOMAIN port' : i + 1 \in DOMAIN port /\ port'[i] = port[i + 1]
        /\ Head(port) \in PortPackets
    BY <1>1
  <1>3. UNCHANGED << op, done >>
    BY DEF GetQueuedCompletionStatus, sessionVars
  <1>4. /\ worker \in [Workers -> {"none", "wait", "busy", "ended"}]
        /\ job \in [Workers -> PortPackets]
        /\ \A v \in Workers : worker[v] = "busy" => Tells(job[v])
    BY DEF ShutdownTypeOK, KernelInv, JobsHold
  <1>5. \A packet : Tells(packet)' <=> Tells(packet)
    BY <1>3 DEF Tells
  <1>6. PortHolds'
    BY <1>1, <1>2, <1>5 DEF PortHolds
  <1>7. OpsCounted'
    BY <1>3 DEF KernelInv, OpsCounted
  <1>8. /\ \A i, j \in DOMAIN port :
            i # j /\ port[i].session \in Conns => port[i].session # port[j].session
        /\ \A i \in DOMAIN port : \A v \in Workers :
            worker[v] = "busy" => job[v].session # port[i].session
        /\ \A u, v \in Workers :
            u # v /\ worker[u] = "busy" /\ worker[v] = "busy"
              => job[u].session # job[v].session
    BY DEF KernelInv, ToldOnce
  <1>9. \A i, j \in DOMAIN port' :
          i # j /\ port'[i].session \in Conns => port'[i].session # port'[j].session
    <2>1. SUFFICES ASSUME NEW i \in DOMAIN port', NEW j \in DOMAIN port', i # j,
                          port'[i].session \in Conns
                   PROVE  port'[i].session # port'[j].session
      OBVIOUS
    <2>2. i \in Nat /\ j \in Nat /\ i + 1 # j + 1
      BY <1>2, <2>1
    <2>. QED
      BY <1>2, <1>8, <2>1, <2>2
  <1>10. CASE IsPill(Head(port))
    <2>1. job' = job /\ worker' = [worker EXCEPT ![w] = "ended"]
      BY <1>10 DEF GetQueuedCompletionStatus
    <2>2. \A v \in Workers : worker'[v] = "busy" => worker[v] = "busy"
      BY <1>4, <2>1
    <2>3. JobsHold'
      BY <1>4, <1>5, <2>1, <2>2 DEF JobsHold
    <2>4. ToldOnce'
      BY <1>2, <1>8, <1>9, <2>1, <2>2 DEF ToldOnce
    <2>5. \A v \in Workers : worker'[v] = "busy" => job'[v].session \in Conns
      BY <2>3 DEF JobsHold, Tells
    <2>. QED
      BY <1>6, <1>7, <2>3, <2>4, <2>5 DEF KernelInv
  <1>11. CASE ~IsPill(Head(port))
    <2>1. /\ job' = [job EXCEPT ![w] = Head(port)] /\ worker[w] = "wait"
          /\ worker' = [worker EXCEPT ![w] = "busy"]
      BY <1>11 DEF GetQueuedCompletionStatus
    <2>2. /\ job'[w] = port[1] /\ Tells(port[1]) /\ port[1].session \in Conns
          /\ \A v \in Workers \ {w} : job'[v] = job[v] /\ worker'[v] = worker[v]
      BY <1>1, <1>2, <1>4, <1>11, <2>1 DEF Tells
    <2>3. job' \in [Workers -> PortPackets]
      BY <1>2, <1>4, <2>1
    <2>4. JobsHold'
      BY <1>4, <1>5, <2>2, <2>3 DEF JobsHold
    <2>5. ToldOnce'
      <3>1. ASSUME NEW i \in DOMAIN port', NEW v \in Workers, worker'[v] = "busy"
            PROVE  job'[v].session # port'[i].session
        <4>1. CASE v = w
          <5>1. i + 1 \in DOMAIN port /\ i + 1 # 1 /\ port'[i] = port[i + 1]
            BY <1>2, <3>1
          <5>. QED
            BY <1>2, <1>8, <2>2, <4>1, <5>1
        <4>2. CASE v # w
          BY <1>2, <1>8, <2>2, <3>1, <4>2
        <4>. QED
          BY <4>1, <4>2
      <3>2. ASSUME NEW u \in Workers, NEW v \in Workers, u # v,
                   worker'[u] = "busy", worker'[v] = "busy"
            PROVE  job'[u].session # job'[v].session
        BY <1>2, <1>8, <2>2, <3>2
      <3>. QED
        BY <1>9, <3>1, <3>2 DEF ToldOnce
    <2>6. \A v \in Workers : worker'[v] = "busy" => job'[v].session \in Conns
      BY <2>4 DEF JobsHold, Tells
    <2>. QED
      BY <1>6, <1>7, <2>4, <2>5, <2>6 DEF KernelInv
  <1>. QED
    BY <1>10, <1>11

(* A worker has handled its packet: no other told of that session.         *)
LEMMA KernelHandle ==
  ASSUME KernelInv, ShutdownTypeOK, NEW w \in Workers, Handle(w)
  PROVE  KernelInv'
PROOF
  <1>. DEFINE c == job[w].session
              new == IF job[w].bytes = 0 THEN "closed" ELSE "posted"
  <1>1. /\ worker[w] = "busy" /\ op' = [op EXCEPT ![c] = new]
        /\ worker' = [worker EXCEPT ![w] = "wait"]
        /\ job' = [job EXCEPT ![w] = Pill] /\ UNCHANGED << port, done >>
    BY DEF Handle
  <1>2. /\ worker \in [Workers -> {"none", "wait", "busy", "ended"}]
        /\ job \in [Workers -> PortPackets]
        /\ op \in [Conns -> {"none", "posted", "queued", "closed"}]
    BY DEF ShutdownTypeOK, KernelInv, JobsHold
  <1>3. /\ c \in Conns /\ op[c] = "queued" /\ job[w].bytes \in {0, 1}
        /\ job[w].bytes = 1 => done[c] <= MaxOps
    BY <1>1, <1>2 DEF KernelInv, JobsHold, Tells, PortPackets
  <1>. HIDE DEF c
  <1>4. \A v \in Workers : worker'[v] = "busy"
                            => v # w /\ worker[v] = "busy" /\ job'[v] = job[v]
    BY <1>1, <1>2
  <1>5. ASSUME NEW packet, Tells(packet), packet.session # c PROVE Tells(packet)'
    BY <1>1, <1>2, <1>5 DEF Tells
  <1>6. PortHolds'
    <2>1. \A i \in DOMAIN port : port[i].session # c
      BY <1>1 DEF KernelInv, ToldOnce, c
    <2>. QED
      BY <1>1, <1>5, <2>1 DEF KernelInv, PortHolds
  <1>7. JobsHold'
    <2>1. job' \in [Workers -> PortPackets]
      BY <1>1, <1>2, PillIsPacket
    <2>2. \A v \in Workers : v # w /\ worker[v] = "busy" => job[v].session # c
      BY <1>1 DEF KernelInv, ToldOnce, c
    <2>. QED
      BY <1>4, <1>5, <2>1, <2>2 DEF KernelInv, JobsHold
  <1>8. ToldOnce'
    BY <1>1, <1>4 DEF KernelInv, ToldOnce
  <1>9. OpsCounted'
    BY <1>1, <1>2, <1>3 DEF KernelInv, OpsCounted
  <1>. QED
    BY <1>6, <1>7, <1>8, <1>9 DEF KernelInv

-----------------------------------------------------------------------------
(* The invariant, action by action. *)

LEMMA PillsCounted ==
  /\ Pills = Cardinality(PillsIn(port))
  /\ Pills' = Cardinality(PillsIn(port'))
PROOF BY DEF Pills, PillsIn, IsPill

LEMMA ShutdownInvInit == ShutdownInit => ShutdownInv
PROOF
  <1>. SUFFICES ASSUME ShutdownInit PROVE ShutdownInv
    OBVIOUS
  <1>. USE ShutdownAssumption, WorkersCounted DEF ShutdownInit
  <1>1. ShutdownTypeOK
    <2>1. /\ left \in 0..Cardinality(Workers) /\ stops \in 0..MaxStops
          /\ done \in [Conns -> 0..(MaxOps + 1)]
      OBVIOUS
    <2>2. /\ worker \in [Workers -> {"none", "wait", "busy", "ended"}]
          /\ \A w \in Workers : worker[w] = "busy" => job[w].session \in Conns
          /\ op \in [Conns -> {"none", "posted", "queued", "closed"}]
      OBVIOUS
    <2>. QED
      BY <2>1, <2>2 DEF ShutdownTypeOK
  <1>2. PortHolds
    BY DEF PortHolds
  <1>3. JobsHold
    BY PillIsPacket DEF JobsHold
  <1>4. ToldOnce
    BY DEF ToldOnce
  <1>5. OpsCounted /\ AcceptorHolds /\ StartHolds /\ OnePillPerWorker
    BY DEF OpsCounted, AcceptorHolds, StartHolds, OnePillPerWorker
  <1>. QED
    BY <1>1, <1>2, <1>3, <1>4, <1>5 DEF ShutdownInv, KernelInv

LEMMA StartFailsKeeps == ShutdownInv /\ StartFails => ShutdownInv'
PROOF
  <1>. SUFFICES ASSUME ShutdownInv, StartFails PROVE ShutdownInv'
    OBVIOUS
  <1>. USE DEF ShutdownInv, StartFails, workVars, sessionVars
  <1>1. ShutdownTypeOK'
    BY DEF ShutdownTypeOK
  <1>2. KernelInv'
    BY KernelIdle
  <1>3. AcceptorHolds' /\ StartHolds'
    BY DEF AcceptorHolds, StartHolds
  <1>4. OnePillPerWorker'
    BY DEF OnePillPerWorker, StartHolds
  <1>. QED
    BY <1>1, <1>2, <1>3, <1>4

(* The port is new and nobody has ended: no pill, and none owed.           *)
LEMMA StartAcceptThreadKeeps == ShutdownInv /\ StartAcceptThread => ShutdownInv'
PROOF
  <1>. SUFFICES ASSUME ShutdownInv, StartAcceptThread PROVE ShutdownInv'
    OBVIOUS
  <1>. USE DEF ShutdownInv, StartAcceptThread, workVars, sessionVars
  <1>1. ShutdownTypeOK'
    BY DEF ShutdownTypeOK
  <1>2. KernelInv'
    BY KernelIdle
  <1>3. AcceptorHolds' /\ StartHolds'
    BY DEF AcceptorHolds, StartHolds
  <1>4. OnePillPerWorker'
    <2>1. /\ port' = << >> /\ stops' = 0 /\ left' = 0
          /\ \A w \in Workers : worker'[w] = "none"
      BY DEF StartHolds
    <2>2. PillsIn(port') = {} /\ { w \in Workers : worker'[w] = "ended" } = {}
      BY <2>1 DEF PillsIn
    <2>3. Pills' = 0 /\ Ended' = 0
      BY <2>2, PillsCounted, FS_EmptySet DEF Ended
    <2>. QED
      BY <2>1, <2>3, WorkersCounted DEF OnePillPerWorker
  <1>. QED
    BY <1>1, <1>2, <1>3, <1>4

LEMMA StartWorkerThreadKeeps == ShutdownInv /\ StartWorkerThread => ShutdownInv'
PROOF
  <1>. SUFFICES ASSUME ShutdownInv, StartWorkerThread PROVE ShutdownInv'
    OBVIOUS
  <1>. USE DEF ShutdownInv
  <1>1. /\ console = "startWorkers" /\ console' \in {"startWorkers", "run"}
        /\ UNCHANGED << listen, hasPort, left, stops, acceptor, client, job,
                        port, op, done >>
    BY DEF StartWorkerThread, sessionVars
  <1>2. /\ worker' \in [Workers -> {"none", "wait", "busy", "ended"}]
        /\ \A w \in Workers : \/ worker'[w] = worker[w]
                              \/ worker[w] = "none" /\ worker'[w] = "wait"
    BY DEF StartWorkerThread, ShutdownTypeOK
  <1>3. ShutdownTypeOK'
    BY <1>1, <1>2 DEF ShutdownTypeOK
  <1>4. KernelInv'
    BY <1>1, <1>2, KernelIdle
  <1>5. AcceptorHolds' /\ StartHolds'
    BY <1>1 DEF AcceptorHolds, StartHolds
  <1>6. Ended' = Ended
    BY <1>2, EndedSame
  <1>7. OnePillPerWorker'
    BY <1>1, <1>6, PillsCounted DEF OnePillPerWorker
  <1>. QED
    BY <1>3, <1>4, <1>5, <1>7

(* Stop now owes a pill for each worker.                                   *)
LEMMA CloseAcceptThreadKeeps == ShutdownInv /\ CloseAcceptThread => ShutdownInv'
PROOF
  <1>. SUFFICES ASSUME ShutdownInv, CloseAcceptThread PROVE ShutdownInv'
    OBVIOUS
  <1>. USE DEF ShutdownInv
  <1>1. /\ console = "run" /\ console' = "pills" /\ stops < MaxStops
        /\ listen' \in {"none", "open", "closed"}
        /\ left' = Cardinality(Workers) /\ stops' = stops + 1
        /\ UNCHANGED << hasPort, acceptor, client, worker, job, port, op, done >>
    BY DEF CloseAcceptThread, NumberOfPills, ShutdownTypeOK, workVars, sessionVars
  <1>2. ShutdownTypeOK'
    BY <1>1, WorkersCounted, ShutdownAssumption DEF ShutdownTypeOK
  <1>3. KernelInv'
    BY <1>1, KernelIdle
  <1>4. AcceptorHolds' /\ StartHolds'
    BY <1>1 DEF AcceptorHolds, StartHolds
  <1>5. OnePillPerWorker'
    <2>1. left = 0 /\ stops \in Nat
      BY <1>1, ShutdownAssumption DEF StartHolds, ShutdownTypeOK
    <2>2. Pills' = Pills /\ Ended' = Ended
      BY <1>1, PillsCounted, EndedSame
    <2>3. stops' * Cardinality(Workers)
            = stops * Cardinality(Workers) + Cardinality(Workers)
      BY <1>1, <2>1, WorkersCounted, OneMoreStop
    <2>4. Pills \in Nat /\ Ended \in Nat
      BY PillsCounted, PillsFinite, EndedFinite DEF KernelInv, PortHolds
    <2>. QED
      BY <1>1, <2>1, <2>2, <2>3, <2>4, WorkersCounted DEF OnePillPerWorker
  <1>. QED
    BY <1>2, <1>3, <1>4, <1>5

(* A pill owed becomes a pill in the port.                                 *)
LEMMA CloseWorkerThreadsKeeps == ShutdownInv /\ CloseWorkerThreads => ShutdownInv'
PROOF
  <1>. SUFFICES ASSUME ShutdownInv, CloseWorkerThreads PROVE ShutdownInv'
    OBVIOUS
  <1>. USE DEF ShutdownInv
  <1>1. /\ console = "pills" /\ left > 0 /\ left' = left - 1
        /\ port' = (IF hasPort THEN Append(port, Pill) ELSE port)
        /\ UNCHANGED << console, listen, hasPort, stops, acceptor, client,
                        worker, job, op, done >>
    BY DEF CloseWorkerThreads, sessionVars
  <1>2. ShutdownTypeOK'
    BY <1>1, WorkersCounted DEF ShutdownTypeOK
  <1>3. KernelInv'
    BY <1>1, KernelIdle, KernelPill
  <1>4. AcceptorHolds' /\ StartHolds'
    BY <1>1 DEF AcceptorHolds, StartHolds
  <1>5. OnePillPerWorker'
    <2>1. SUFFICES ASSUME hasPort
                   PROVE  Pills' + Ended' + left' = stops' * Cardinality(Workers)
      BY <1>1 DEF OnePillPerWorker
    <2>2. Ended' = Ended /\ Ended \in Nat
      BY <1>1, EndedSame, EndedFinite
    <2>3. Pills' = Pills + 1 /\ Pills \in Nat
      BY <1>1, <2>1, PillsCounted, PillsFinite, PillsAppend, PillIsPacket
         DEF KernelInv, PortHolds
    <2>4. Pills + Ended + left = stops' * Cardinality(Workers) /\ left \in Nat
      BY <1>1, <2>1, WorkersCounted DEF OnePillPerWorker, ShutdownTypeOK
    <2>. QED
      BY <1>1, <2>2, <2>3, <2>4
  <1>. QED
    BY <1>2, <1>3, <1>4, <1>5

LEMMA WaitingKeeps == ShutdownInv /\ WaitingForMultiThreadEnd => ShutdownInv'
PROOF
  <1>. SUFFICES ASSUME ShutdownInv, WaitingForMultiThreadEnd PROVE ShutdownInv'
    OBVIOUS
  <1>. USE DEF ShutdownInv
  <1>1. /\ console = "pills" /\ left = 0 /\ console' = "run"
        /\ UNCHANGED << listen, hasPort, left, stops, acceptor, client, worker,
                        job, port, op, done >>
    BY DEF WaitingForMultiThreadEnd, workVars, sessionVars
  <1>2. ShutdownTypeOK'
    BY <1>1 DEF ShutdownTypeOK
  <1>3. KernelInv'
    BY <1>1, KernelIdle
  <1>4. AcceptorHolds' /\ StartHolds'
    BY <1>1 DEF AcceptorHolds, StartHolds
  <1>5. OnePillPerWorker'
    BY <1>1, PillsCounted, EndedSame DEF OnePillPerWorker
  <1>. QED
    BY <1>2, <1>3, <1>4, <1>5

LEMMA AcceptKeeps ==
  ASSUME ShutdownInv, NEW c \in Conns, Accept(c)
  PROVE  ShutdownInv'
PROOF
  <1>. USE DEF ShutdownInv
  <1>1. /\ acceptor = "accept" /\ op[c] = "none"
        /\ client' = c /\ acceptor' = "onAccept"
        /\ UNCHANGED << console, listen, hasPort, left, stops, worker, job,
                        port, op, done >>
    BY DEF Accept, consoleVars, workVars, sessionVars
  <1>2. ShutdownTypeOK'
    BY <1>1 DEF ShutdownTypeOK
  <1>3. KernelInv'
    BY <1>1, KernelIdle
  <1>4. AcceptorHolds' /\ StartHolds'
    BY <1>1 DEF AcceptorHolds, StartHolds
  <1>5. OnePillPerWorker'
    BY <1>1, PillsCounted, EndedSame DEF OnePillPerWorker
  <1>. QED
    BY <1>2, <1>3, <1>4, <1>5

LEMMA OnAcceptKeeps == ShutdownInv /\ OnAccept => ShutdownInv'
PROOF
  <1>. SUFFICES ASSUME ShutdownInv, OnAccept PROVE ShutdownInv'
    OBVIOUS
  <1>. USE DEF ShutdownInv
  <1>1. /\ acceptor = "onAccept" /\ acceptor' = "accept" /\ client' = NoSession
        /\ UNCHANGED << console, listen, hasPort, left, stops, worker, job,
                        port, done >>
        /\ op' \in [Conns -> {"none", "posted", "queued", "closed"}]
    BY DEF OnAccept, consoleVars, workVars, ShutdownTypeOK
  <1>2. ShutdownTypeOK'
    BY <1>1 DEF ShutdownTypeOK
  <1>3. KernelInv'
    BY KernelOnAccept
  <1>4. AcceptorHolds' /\ StartHolds'
    BY <1>1 DEF AcceptorHolds, StartHolds
  <1>5. OnePillPerWorker'
    BY <1>1, PillsCounted, EndedSame DEF OnePillPerWorker
  <1>. QED
    BY <1>2, <1>3, <1>4, <1>5

LEMMA AcceptEndsKeeps == ShutdownInv /\ AcceptEnds => ShutdownInv'
PROOF
  <1>. SUFFICES ASSUME ShutdownInv, AcceptEnds PROVE ShutdownInv'
    OBVIOUS
  <1>. USE DEF ShutdownInv
  <1>1. /\ acceptor = "accept" /\ acceptor' = "ended"
        /\ UNCHANGED << console, listen, hasPort, left, stops, client, worker,
                        job, port, op, done >>
    BY DEF AcceptEnds, consoleVars, workVars, sessionVars
  <1>2. ShutdownTypeOK'
    BY <1>1 DEF ShutdownTypeOK
  <1>3. KernelInv'
    BY <1>1, KernelIdle
  <1>4. AcceptorHolds' /\ StartHolds'
    BY <1>1 DEF AcceptorHolds, StartHolds
  <1>5. OnePillPerWorker'
    BY <1>1, PillsCounted, EndedSame DEF OnePillPerWorker
  <1>. QED
    BY <1>2, <1>3, <1>4, <1>5

(* A completion, with zero bytes too, is no pill.                          *)
LEMMA CompletesKeeps ==
  ASSUME ShutdownInv, NEW c \in Conns, Completes(c)
  PROVE  ShutdownInv'
PROOF
  <1>. USE DEF ShutdownInv
  <1>1. PICK bytes \in {0, 1} :
               port' = IF hasPort THEN Append(port, Packet(c, bytes)) ELSE port
    BY DEF Completes
  <1>2. /\ op[c] = "posted" /\ op' = [op EXCEPT ![c] = "queued"]
        /\ done' = [done EXCEPT ![c] = @ + 1]
        /\ UNCHANGED << console, listen, hasPort, left, stops, acceptor, client,
                        worker, job >>
    BY DEF Completes, consoleVars
  <1>3. KernelInv' /\ done'[c] \in 0..(MaxOps + 1)
    BY KernelCompletes, KernelUnread
  <1>4. ShutdownTypeOK'
    BY <1>2, <1>3 DEF ShutdownTypeOK
  <1>5. AcceptorHolds' /\ StartHolds'
    BY <1>2 DEF AcceptorHolds, StartHolds, ShutdownTypeOK
  <1>6. Pills' = Pills
    <2>1. /\ Packet(c, bytes) \in PortPackets /\ ~IsPill(Packet(c, bytes))
          /\ port \in Seq(PortPackets)
      BY ShutdownAssumption
         DEF Packet, PortPackets, IsPill, KernelInv, PortHolds
    <2>. QED
      BY <1>1, <2>1, PillsCounted, PillsFinite, PillsAppend
  <1>7. OnePillPerWorker'
    BY <1>2, <1>6, EndedSame DEF OnePillPerWorker
  <1>. QED
    BY <1>3, <1>4, <1>5, <1>7

(* The pills are those of a port: a worker that ends without one, and a     *)
(* process that dies, break no promise about them.                         *)
LEMMA NoPacketKeeps ==
  ASSUME ShutdownInv, NEW w \in Workers, NoPacket(w)
  PROVE  ShutdownInv'
PROOF
  <1>. USE DEF ShutdownInv
  <1>1. /\ worker[w] = "wait" /\ ~hasPort
        /\ UNCHANGED << listen, hasPort, stops, client, job, port, op, done >>
    BY DEF NoPacket, sessionVars
  <1>2. \/ /\ worker' = [worker EXCEPT ![w] = "ended"]
           /\ UNCHANGED << console, left, acceptor >>
        \/ /\ worker' = [v \in Workers |-> "ended"]
           /\ console' = "crashed" /\ left' = 0 /\ acceptor' = "ended"
    BY DEF NoPacket
  <1>3. /\ worker' \in [Workers -> {"none", "wait", "busy", "ended"}]
        /\ \A v \in Workers : worker'[v] = "busy" => worker[v] = "busy"
    BY <1>2 DEF ShutdownTypeOK
  <1>4. ShutdownTypeOK'
    BY <1>1, <1>2, <1>3, WorkersCounted DEF ShutdownTypeOK
  <1>5. KernelInv'
    BY KernelNoPacket
  <1>6. AcceptorHolds'
    BY <1>1, <1>2 DEF AcceptorHolds
  <1>7. StartHolds'
    <2>1. console # "start"
      BY <1>1 DEF StartHolds
    <2>. QED
      BY <1>1, <1>2, <2>1 DEF StartHolds
  <1>8. OnePillPerWorker'
    BY <1>1 DEF OnePillPerWorker
  <1>. QED
    BY <1>4, <1>5, <1>6, <1>7, <1>8

(* A pill taken is a worker ended, any other packet a worker busy.         *)
LEMMA TakesKeeps ==
  ASSUME ShutdownInv, NEW w \in Workers, GetQueuedCompletionStatus(w)
  PROVE  ShutdownInv'
PROOF
  <1>. USE DEF ShutdownInv
  <1>1. /\ worker[w] = "wait" /\ port # << >> /\ port' = Tail(port)
        /\ worker' = [worker EXCEPT ![w] = IF IsPill(Head(port)) THEN "ended"
                                                                 ELSE "busy"]
        /\ UNCHANGED << console, listen, hasPort, left, stops, acceptor, client,
                        op, done >>
    BY DEF GetQueuedCompletionStatus, consoleVars, sessionVars
  <1>2. worker \in [Workers -> {"none", "wait", "busy", "ended"}]
    BY DEF ShutdownTypeOK
  <1>3. /\ KernelInv'
        /\ \A v \in Workers : worker'[v] = "busy" => job'[v].session \in Conns
    BY KernelTakes
  <1>4. ShutdownTypeOK'
    BY <1>1, <1>2, <1>3 DEF ShutdownTypeOK
  <1>5. AcceptorHolds' /\ StartHolds'
    BY <1>1 DEF AcceptorHolds, StartHolds
  <1>6. /\ Pills = Pills' + (IF IsPill(Head(port)) THEN 1 ELSE 0)
        /\ Pills' \in Nat
    BY <1>1, <1>3, PillsCounted, PillsFinite, PillsTail DEF KernelInv, PortHolds
  <1>7. Ended' = Ended + (IF IsPill(Head(port)) THEN 1 ELSE 0) /\ Ended \in Nat
    <2>1. CASE IsPill(Head(port))
      BY <1>1, <1>2, <2>1, OneMoreEnded, EndedFinite
    <2>2. CASE ~IsPill(Head(port))
      BY <1>1, <1>2, <2>2, EndedSame, EndedFinite
    <2>. QED
      BY <2>1, <2>2
  <1>8. OnePillPerWorker'
    <2>1. left \in Nat
      BY WorkersCounted DEF ShutdownTypeOK
    <2>. QED
      BY <1>1, <1>6, <1>7, <2>1 DEF OnePillPerWorker
  <1>. QED
    BY <1>3, <1>4, <1>5, <1>8

LEMMA HandleKeeps ==
  ASSUME ShutdownInv, NEW w \in Workers, Handle(w)
  PROVE  ShutdownInv'
PROOF
  <1>. USE DEF ShutdownInv
  <1>1. /\ worker[w] = "busy" /\ worker' = [worker EXCEPT ![w] = "wait"]
        /\ job' = [job EXCEPT ![w] = Pill]
        /\ op' = [op EXCEPT ![job[w].session] =
                    IF job[w].bytes = 0 THEN "closed" ELSE "posted"]
        /\ UNCHANGED << console, listen, hasPort, left, stops, acceptor, client,
                        port, done >>
    BY DEF Handle, consoleVars
  <1>2. /\ worker \in [Workers -> {"none", "wait", "busy", "ended"}]
        /\ job[w].session \in Conns /\ op[job[w].session] = "queued"
    BY <1>1 DEF ShutdownTypeOK, KernelInv, JobsHold, Tells
  <1>3. KernelInv'
    BY KernelHandle
  <1>4. ShutdownTypeOK'
    <2>1. \A v \in Workers : worker'[v] = "busy" => job'[v].session \in Conns
      BY <1>3 DEF KernelInv, JobsHold, Tells
    <2>2. op' \in [Conns -> {"none", "posted", "queued", "closed"}]
      BY <1>1, <1>2 DEF ShutdownTypeOK
    <2>. QED
      BY <1>1, <1>2, <2>1, <2>2 DEF ShutdownTypeOK
  <1>5. AcceptorHolds' /\ StartHolds'
    BY <1>1, <1>2 DEF AcceptorHolds, StartHolds, ShutdownTypeOK
  <1>6. Ended' = Ended
    BY <1>1, <1>2, EndedSame
  <1>7. OnePillPerWorker'
    BY <1>1, <1>6, PillsCounted DEF OnePillPerWorker
  <1>. QED
    BY <1>3, <1>4, <1>5, <1>7

LEMMA ShutdownStutters ==
  ShutdownInv /\ UNCHANGED shutdownVars => ShutdownInv'
PROOF
  <1>. SUFFICES ASSUME ShutdownInv, UNCHANGED shutdownVars PROVE ShutdownInv'
    OBVIOUS
  <1>. USE DEF ShutdownInv, shutdownVars, consoleVars, workVars, sessionVars
  <1>1. ShutdownTypeOK' /\ AcceptorHolds' /\ StartHolds'
    BY DEF ShutdownTypeOK, AcceptorHolds, StartHolds
  <1>2. KernelInv'
    BY KernelIdle
  <1>3. OnePillPerWorker'
    BY PillsCounted, EndedSame DEF OnePillPerWorker
  <1>. QED
    BY <1>1, <1>2, <1>3

LEMMA ShutdownInvSteps ==
  ShutdownInv /\ [ShutdownNext]_shutdownVars => ShutdownInv'
PROOF
  <1>1. ShutdownInv /\ Console => ShutdownInv'
    BY StartFailsKeeps, StartAcceptThreadKeeps, StartWorkerThreadKeeps,
       CloseWorkerThreadsKeeps, WaitingKeeps DEF Console
  <1>2. ShutdownInv /\ Acceptor => ShutdownInv'
    BY OnAcceptKeeps, AcceptEndsKeeps DEF Acceptor
  <1>3. ASSUME ShutdownInv, NEW c \in Conns, Accept(c) \/ Completes(c)
        PROVE  ShutdownInv'
    BY <1>3, AcceptKeeps, CompletesKeeps
  <1>4. ASSUME ShutdownInv, NEW w \in Workers, Worker(w) PROVE ShutdownInv'
    BY <1>4, TakesKeeps, HandleKeeps, NoPacketKeeps DEF Worker
  <1>. QED
    BY <1>1, <1>2, <1>3, <1>4, CloseAcceptThreadKeeps, ShutdownStutters
       DEF ShutdownNext

-----------------------------------------------------------------------------
(* Theorems. *)

(* The strengthened invariant holds of every state of a server that starts *)
(* and is stopped.                                                         *)
THEOREM ShutdownInvHolds == ShutdownSpec => []ShutdownInv
PROOF BY ShutdownInvInit, ShutdownInvSteps, PTL DEF ShutdownSpec

(* Every variable of Start, Stop and their threads has its type; a busy    *)
(* worker (WorkerThread after GetQueuedCompletionStatus) has a session's   *)
(* packet, never a pill.                                                   *)
THEOREM ShutdownTypeCorrect == ShutdownSpec => []ShutdownTypeOK
PROOF
  <1>1. ShutdownInv => ShutdownTypeOK
    BY DEF ShutdownInv
  <1>. QED
    BY <1>1, ShutdownInvHolds, PTL

(* LanServer::Stop posts a pill per worker of this server, and the pills   *)
(* in the port, the workers they have ended and the ones still to post are *)
(* always as many, for any number of workers, sessions and stops: no       *)
(* completion is taken for a pill and no pill for a completion.            *)
THEOREM PillsEndWorkers == ShutdownSpec => []OnePillPerWorker
PROOF
  <1>1. ShutdownInv => OnePillPerWorker
    BY DEF ShutdownInv
  <1>. QED
    BY <1>1, ShutdownInvHolds, PTL

=============================================================================
