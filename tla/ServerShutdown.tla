--------------------------- MODULE ServerShutdown ---------------------------
(***************************************************************************)
(* NetLib/LanServer.cpp: Start, Stop and the threads in between.  The      *)
(* console thread starts the server and, at each key 's', stops it; the    *)
(* accept thread ends when its socket is closed, each worker when it takes *)
(* a packet of zeros (a pill) from the completion port.                    *)
(*                                                                         *)
(* A session is what the port sees of it: one operation at a time, whose   *)
(* completion is queued.  EchoServer has the sessions in full, without the *)
(* port's order and without Start and Stop.                                *)
(***************************************************************************)
EXTENDS Integers, Sequences, FiniteSets

CONSTANTS Workers, Conns,
          NoSession,      \* the session of a pill
          MaxOps,         \* bound: how many operations a session completes
          MaxStops        \* bound: how often 's' is pressed

ASSUME ShutdownAssumption ==
  /\ IsFiniteSet(Workers) /\ NoSession \notin Conns
  /\ MaxOps \in Nat /\ MaxStops \in Nat

VARIABLES console,    \* what the console thread does next; "crashed" when
                      \* the process has died
          listen,     \* listenSocket_: "none", "open" or "closed"
          hasPort,    \* completionPort_ is the handle of a port
          left,       \* how many pills Stop has still to post
          stops,      \* how often Stop was called
          acceptor,   \* the accept thread
          client,     \* the client OnAccept is working for
          worker,     \* the state of each worker thread
          job,        \* the packet it has taken
          port,       \* the packets in the completion port
          op,         \* each session: its operation
          done        \* how many operations it has completed

consoleVars == << console, listen, hasPort, left, stops >>
workVars == << worker, job, port >>
sessionVars == << op, done >>
shutdownVars == << consoleVars, acceptor, client, workVars, sessionVars >>

Packet(session, bytes) == [session |-> session, bytes |-> bytes]
Pill == Packet(NoSession, 0)

ShutdownInit ==
  /\ console = "start" /\ listen = "none" /\ hasPort = FALSE
  /\ left = 0 /\ stops = 0
  /\ acceptor = "none" /\ client = NoSession
  /\ worker = [w \in Workers |-> "none"]
  /\ job = [w \in Workers |-> Pill]
  /\ port = << >>
  /\ op = [c \in Conns |-> "none"]
  /\ done = [c \in Conns |-> 0]

-----------------------------------------------------------------------------
(* The console thread. *)

(* Start fails before or after it has its socket, and before it asks for   *)
(* the port; main goes on all the same.                                    *)
StartFails ==
  /\ console = "start"
  /\ listen' \in {"none", "open"}
  /\ console' = "run"
  /\ UNCHANGED << hasPort, left, stops, acceptor, client, workVars,
                  sessionVars >>

(* Start asks for the port and creates the accept thread ...  It looks for *)
(* INVALID_HANDLE_VALUE, but without a port the handle is NULL: so that    *)
(* failure goes unseen, and the threads start all the same.                *)
StartAcceptThread ==
  /\ console = "start"
  /\ listen' = "open" /\ hasPort' \in BOOLEAN
  /\ acceptor' = "accept"
  /\ console' = "startWorkers"
  /\ UNCHANGED << left, stops, client, workVars, sessionVars >>

(* ... then the workers, one by one, and returns.                          *)
StartWorkerThread ==
  /\ console = "startWorkers"
  /\ \/ \E w \in Workers :
          /\ worker[w] = "none"
          /\ worker' = [worker EXCEPT ![w] = "wait"]
          /\ UNCHANGED console
     \/ /\ \A w \in Workers : worker[w] # "none"
        /\ console' = "run"
        /\ UNCHANGED worker
  /\ UNCHANGED << listen, hasPort, left, stops, acceptor, client, job, port,
                  sessionVars >>

(* Mutants of the number of pills: one too few, one too many.              *)
NumberOfPills_OneLess == Cardinality(Workers) - 1
NumberOfPills_OneMore == Cardinality(Workers) + 1
NumberOfPills == Cardinality(Workers)

(* 's': Stop closes the listen socket.                                     *)
CloseAcceptThread ==
  /\ console = "run"
  /\ stops < MaxStops
  /\ listen' = IF listen = "open" THEN "closed" ELSE listen
  /\ left' = NumberOfPills
  /\ stops' = stops + 1
  /\ console' = "pills"
  /\ UNCHANGED << hasPort, acceptor, client, workVars, sessionVars >>

(* PostQueuedCompletionStatus.  Without a port it fails, unseen.           *)
CloseWorkerThreads ==
  /\ console = "pills"
  /\ left > 0
  /\ left' = left - 1
  /\ port' = IF hasPort THEN Append(port, Pill) ELSE port
  /\ UNCHANGED << console, listen, hasPort, stops, acceptor, client, worker,
                  job, sessionVars >>

Gone(thread) == thread \in {"none", "ended"}

(* Stop returns when every thread that was ever started has ended.         *)
WaitingForMultiThreadEnd ==
  /\ console = "pills"
  /\ left = 0
  /\ Gone(acceptor) /\ \A w \in Workers : Gone(worker[w])
  /\ console' = "run"
  /\ UNCHANGED << listen, hasPort, left, stops, acceptor, client, workVars,
                  sessionVars >>

Console == \/ StartFails \/ StartAcceptThread \/ StartWorkerThread
           \/ CloseWorkerThreads \/ WaitingForMultiThreadEnd

-----------------------------------------------------------------------------
(* The accept thread. *)

Accept(c) ==
  /\ acceptor = "accept"
  /\ listen = "open"
  /\ op[c] = "none"
  /\ client' = c
  /\ acceptor' = "onAccept"
  /\ UNCHANGED << consoleVars, workVars, sessionVars >>

(* OnAccept posts the first recv; or there is no slot, or the recv fails   *)
(* at once, and nothing is outstanding for this client.                    *)
OnAccept ==
  /\ acceptor = "onAccept"
  /\ \E result \in {"posted", "closed"} : op' = [op EXCEPT ![client] = result]
  /\ client' = NoSession
  /\ acceptor' = "accept"
  /\ UNCHANGED << consoleVars, workVars, done >>

(* accept fails: the listen socket is closed.  (After another failure the  *)
(* loop goes on.)                                                          *)
AcceptEnds ==
  /\ acceptor = "accept"
  /\ listen = "closed"
  /\ acceptor' = "ended"
  /\ UNCHANGED << consoleVars, client, workVars, sessionVars >>

Acceptor == OnAccept \/ AcceptEnds

-----------------------------------------------------------------------------
(* The kernel and the workers. *)

(* An operation completes, with zero bytes when the client is gone.  A     *)
(* socket associated with the handle NULL has got a port of its own, from  *)
(* which nobody takes its completions.                                     *)
Completes(c) ==
  /\ console # "crashed" /\ op[c] = "posted"
  /\ \E bytes \in {0, 1} :
       /\ bytes = 1 => done[c] < MaxOps
       /\ port' = IF hasPort THEN Append(port, Packet(c, bytes)) ELSE port
  /\ op' = [op EXCEPT ![c] = "queued"]
  /\ done' = [done EXCEPT ![c] = @ + 1]
  /\ UNCHANGED << consoleVars, acceptor, client, worker, job >>

(* Mutant of the test of WorkerThread: the session is not looked at.       *)
IsPill_ZeroBytes(packet) == packet.bytes = 0
IsPill(packet) == packet.bytes = 0 /\ packet.session = NoSession

GetQueuedCompletionStatus(w) ==
  /\ worker[w] = "wait"
  /\ port # << >>
  /\ port' = Tail(port)
  /\ \/ /\ IsPill(Head(port))
        /\ worker' = [worker EXCEPT ![w] = "ended"]
        /\ UNCHANGED job
     \/ /\ ~IsPill(Head(port))
        /\ worker' = [worker EXCEPT ![w] = "busy"]
        /\ job' = [job EXCEPT ![w] = Head(port)]
  /\ UNCHANGED << consoleVars, acceptor, client, sessionVars >>

(* A session that got bytes posts its next operation; one that got none is *)
(* released.                                                               *)
Handle(w) ==
  /\ worker[w] = "busy"
  /\ op' = [op EXCEPT ![job[w].session] =
              IF job[w].bytes = 0 THEN "closed" ELSE "posted"]
  /\ worker' = [worker EXCEPT ![w] = "wait"]
  /\ job' = [job EXCEPT ![w] = Pill]
  /\ UNCHANGED << consoleVars, acceptor, client, port, done >>

(* Without a port GetQueuedCompletionStatus fails at once and leaves bytes *)
(* and session, which WorkerThread does not initialise, as they are: if    *)
(* both happen to be zero the worker ends; if not it follows a pointer     *)
(* that is none, and the process dies with all of its threads.             *)
NoPacket(w) ==
  /\ worker[w] = "wait"
  /\ ~hasPort
  /\ \/ /\ worker' = [worker EXCEPT ![w] = "ended"]
        /\ UNCHANGED << console, left, acceptor >>
     \/ /\ worker' = [v \in Workers |-> "ended"]
        /\ console' = "crashed" /\ left' = 0
        /\ acceptor' = "ended"
  /\ UNCHANGED << listen, hasPort, stops, client, job, port, sessionVars >>

Worker(w) == GetQueuedCompletionStatus(w) \/ Handle(w) \/ NoPacket(w)

ShutdownNext ==
  \/ Console \/ CloseAcceptThread \/ Acceptor
  \/ \E c \in Conns : Accept(c) \/ Completes(c)
  \/ \E w \in Workers : Worker(w)

(* Every thread that can go on does.  Nothing obliges a client to connect, *)
(* an operation to complete, or anyone to press 's'.                       *)
ShutdownSpec ==
  /\ ShutdownInit
  /\ [][ShutdownNext]_shutdownVars
  /\ WF_shutdownVars(Console)
  /\ WF_shutdownVars(Acceptor)
  /\ \A w \in Workers : WF_shutdownVars(Worker(w))

-----------------------------------------------------------------------------
(* Properties. *)

ShutdownTypeOK ==
  /\ console \in {"start", "startWorkers", "run", "pills", "crashed"}
  /\ listen \in {"none", "open", "closed"} /\ hasPort \in BOOLEAN
  /\ left \in 0..Cardinality(Workers) /\ stops \in 0..MaxStops
  /\ acceptor \in {"none", "accept", "onAccept", "ended"}
  /\ client \in Conns \cup {NoSession}
  /\ worker \in [Workers -> {"none", "wait", "busy", "ended"}]
  /\ \A w \in Workers : worker[w] = "busy" => job[w].session \in Conns
  /\ op \in [Conns -> {"none", "posted", "queued", "closed"}]
  /\ done \in [Conns -> 0..(MaxOps + 1)]

Pills == Cardinality({ i \in DOMAIN port : IsPill(port[i]) })
Ended == Cardinality({ w \in Workers : worker[w] = "ended" })

(* Each pill ends one worker, whoever takes it and whatever is queued      *)
(* around it: those posted are in the port or have ended a worker.  The    *)
(* completion with zero bytes of a client that has gone ends none.         *)
OnePillPerWorker ==
  hasPort => Pills + Ended + left = stops * Cardinality(Workers)

(* Stop returns, with any number of threads started, also when 's' is      *)
(* pressed again and when there never was a port; unless the process dies  *)
(* of that (NoPacket), Stop or no Stop.                                    *)
StopReturns == console = "pills" ~> console \in {"run", "crashed"}

=============================================================================
