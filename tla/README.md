# Verification of game-server-portfolio

TLA+ models of the programs in this repository, TLC configurations that check
them on small instances, and proofs, checked by TLAPS, of what holds for every
instance.

## 1. The system

The repository holds four programs.

**iocp-chatting-server** is the server: one accept thread and a number of IOCP
worker threads (`main.cpp:14` starts one) serve at most `MaxSession` clients.

| component | state | operations | talks to |
|---|---|---|---|
| `LanServer` (`NetLib/LanServer.cpp`) | listen socket, completion port, threads | `Start`, `Stop`, `AcceptThread`/`OnAccept`, `WorkerThread` | creates sessions, dispatches completions to them |
| `Session` (`NetLib/Session.cpp`) | `state_`, `refCount`, `disconnectRequested_`, `isSending_`, `socket_`, `userId_`, `recvQ_`, `sendQ_` under `mutex_` | `Init`, `PostRecv`, `PostSend`, `OnRecv`, `OnSend`, `SendPacket`, `DecrementRefCount(AndRelease)` | the kernel (overlapped I/O), `SessionManager`, the packet dispatch |
| `SessionManager` (`NetLib/SessionManager.cpp`) | the slots, the stack of free slot ids under its own mutex | `CreateSession`, `DisconnectSession`, `GetSessionPointer` | `Session`, `Lobby` (`OnRelease`) |
| `Lobby`, packet dispatch (`Contents/`, `Packet/`) | `users_`, `userIdCount_` under its own mutex | `OnConnect`, `OnRelease`, `ChatUnicast` | `SessionManager`, `Session::SendPacket` |
| `CRingBuffer` (`Util/CRingBuffer.cpp`) | `front_`, `rear_`, the buffer, a critical section that some methods take | `Enqueue`, `Dequeue`, `Peek`, `MoveFront`, `MoveRear`, direct sizes, `...Lock` variants | used by `Session`, handed to the kernel as two parts |
| `CPacket` (`Util/CPacket.h`) | buffer, read and write position | `<<`, `>>`, `PutData`, `GetData`, `Clear`, copies | used by the dispatch and `Lobby` |
| `ConsoleHandler`, `SystemLogger`, `Profiler`, `Singleton` | console state, log file, sample tables | reads keys and stops the server; logs; measures | - |

**util** is the library these come from (`CRingBuffer`, `CPacket`,
`ObjectPool`, `CFileParser`, `Profiler`, `SystemLogger`) with its tests.
**rb-tree-binary-tree** holds a red-black tree and an unbalanced tree with
tests, GDI demos and a benchmark. **packet-code-generator** (C#) writes the
`Packet/*_Auto` files of a server from a spreadsheet.

How a message travels: a recv completes and a worker runs `OnRecv`, which takes
whole frames off `recvQ_`; each goes through the dispatch to
`ContentsProcess::OnEcho`, which reads the session's user id and asks the lobby
for the user's session; `SendPacket` queues the answer on that session's
`sendQ_` and `PostSend` posts a send unless one is on its way; its completion
runs `OnSend`, which removes the bytes sent and posts what was queued meanwhile.

A session lives as long as its reference count says: one reference for each
overlapped operation, taken before the operation is posted and given up when
its completion has been handled. Releasing a session closes its socket, tells
the lobby, marks the slot inactive and pushes the slot's id back.

### What is hard

* a session is touched by the worker that receives for it, the worker that
  completes its send, the accept thread that reuses its slot, and the kernel;
  locks are held for short sections and the system calls are made outside them;
* `OnAccept` goes on working on a session whose first recv is already posted;
* state read under a lock is used after the unlock (`PostRecv`), or read
  without one (`GetSessionPointer`, `SetUserId`);
* a system call may fail at once, or later through the completion port;
* a slot's fields survive from one client to the next unless `Init` resets them;
* the ring buffer's boundary cases, and its `...Lock` methods;
* a field with two meanings (`ObjectPool`'s `StackNext`), one pass over a text
  with one buffer for keys and values (`CFileParser`), and two functions written
  apart that must agree (the generated maker and dispatcher).

PROJECT.json lists the hazards line by line with the properties that cover them.

### What makes each component correct

* Session: the reference count is exact; nothing is released while in use; no
  client is left in a session that no completion will reach; frames come back
  in order and once; queued frames are sent.
* SessionManager: a slot id is in one place only.
* Lobby: users are those of the connected sessions.
* CRingBuffer: a bounded FIFO; the direct sizes never reach past the buffer.
* Framing (`Session::OnRecv`): every whole frame is delivered however the stream is cut.
* LanServer: `Stop` ends all threads.
* ObjectPool: an object is out once; a pool takes back what it gave, once.
* CPacket: a stream; values leave it whole and in order.
* CFileParser: a lookup answers what the chosen section holds.
* Profiler: a row says exactly what was measured for its tag.
* The generator: both sides of a message read the same sheet alike.
* The trees: a set of keys with counts, whatever their shape; `RBtree` stays
  balanced; a window that shows a tree shows the present one.

## 2. Plan

The most important behaviour comes first: sessions under several threads, then
the buffers under them, then start and stop, then the library and the trees.

| module | what | state |
|---|---|---|
| `SessionManager`, `Lobby`, `Session`, `EchoServer` | the server's threads over its sessions | done; proved for any number of workers: types, reference counts, slot ids, routing, no session forgotten; for one worker: one recv, no empty send, bytes in flight, order |
| `EchoService` | what the server promises its clients; `EchoServer` implements it | done; proved for one worker |
| `RingBuffer`, `BoundedFifo` | `CRingBuffer`, one owner; implements a bounded queue | done and proved |
| `RingBufferLocked` | `EnqueueLock`, `DequeueLock` with several threads | done; proved for one thread at each end |
| `FramedSession` | one session byte by byte, over two `RingBuffer`s | done; safety proved |
| `ServerShutdown` | `Start`, `Stop`, pills in the completion port | done; safety proved |
| `SearchTree`, `BinaryTree`, `CountedSet` | insertion and deletion of the tree without balancing, which implements a set with counts | done and proved |
| `RedBlackTree` | the red-black tree, which implements the same set | done and proved |
| `TreeDemo` | the two windows over the trees | done, by TLC |
| `ObjectPool`, `PoolStore` | the free stack of `util/Util/ObjectPool.h`; implements a store of objects | done and proved |
| `PacketBuffer`, `PacketStream` | `CPacket`: positions, copies, the error flag; implements a stream | done and proved |
| `FileParser` | `CFileParser`: comments, sections, lookups | done, by TLC |
| `PacketCode` | the generator and the two sides it generates | done and proved |
| `ProfileTable` | the tables of `Profiler` | done and proved |

The proofs stand in eight modules: `EchoServerProofs`, and upon it
`EchoServerOneWorker`; `RingBufferProofs`, and upon it `FramedSessionProofs`;
`SearchTreeProofs`, and upon it `RedBlackTreeProofs`; `ServerShutdownProofs`; and
`LibraryProofs` for the pool, the packet, the locked ring, the profiler and the
generator.

What is left to prove is the picture of `TreeDemo` and the parser. Section 8 says what
stands in the way.

## 3. The modules and the code

### SessionManager, Lobby, Session, EchoServer

The first three hold the state of the classes of the same names and operators
for their locked sections; `EchoServer` extends them with the threads, the
sockets and the clients, and its actions put the sections in the order in which
the code runs them.

* One action is one critical section, one system call, or one read of shared
  state made without a lock. `pc[t]` names what thread `t` does next: so two
  threads interleave exactly where the code holds no lock.
* `Session::mutex_` needs no variable: a section under it is one step. The
  release is the one place where two locks are held (`DisconnectSession` is
  called with the session's lock, and takes the lobby's): the socket, the lobby
  and the state change in one step, the push of the id (`FreeIdLock`), after the
  unlock, in another. A thread that looks without the session's lock at the lobby
  or the state in between sees what it would see before or after that step.
* `recvs[s]` and `sends[s]` are the overlapped operations the kernel holds;
  `RecvCompletes`, `RecvPiece`, `RecvFails`, `SendCompletes`, `SendFails` are
  what `GetQueuedCompletionStatus` may return. Any completed operation may be
  taken by any worker that waits, in any order.
* A frame is a pair of a connection and a number. A recv brings whole frames, or
  a piece of the next one, for which `OnRecv` finds nothing to do (`RecvPiece`);
  how bytes become frames is `FramedSession`'s subject. A queue's capacity is
  counted in frames.
* A completed operation transferred all it could or nothing. A failed
  operation (`GetQueuedCompletionStatus` returns FALSE) leaves
  `cbTransferred == 0`, which is what the code looks at.
* `WSARecv` and `WSASend` fail at once only when the client has closed.
* `Associate` never takes its failure branch in the model: the code compares
  the result of `CreateIoCompletionPort` with `INVALID_HANDLE_VALUE`, and the
  function returns `NULL` on failure.
* `CheckHeader` is `true` in the code.
* `OnRecv` gives up when `MoveRear` fails (`Session.cpp:127`). With one recv at a time
  it cannot: the recv had just the room that is free. `RingBuffer` has that
  refusal no more than `RecvCompletes` has (`RecvPartsAreFree`); two workers with two
  recvs on one session could meet it, and there the contents of `recvQ_` are not claimed.
* The race of `GetSessionPointer` (it reads `state_` unlocked) is an action of
  its own, as is the unlocked write of `SetUserId`.

### RingBuffer, BoundedFifo

`front`, `rear`, `buffer` are `front_`, `rear_`, `buffer_` with `size_` cells;
`moved` is what the last call returned: the bytes it took in or gave out. An
action is one call. `DirectEnqueue` and `DirectDequeue` are what `PostRecv` and
`PostSend` make of the direct sizes: two parts given to the kernel, filled or
read in order, and a move of an index on completion. `MoveRear` and `MoveFront`
refuse nothing here because their callers never ask for more than there is
(`RecvPartsAreFree` is the reason on one side, `PartsAreKept` on the other).
A new buffer holds arbitrary bytes. `BoundedFifo` is the queue a caller of the
class has in mind.

### RingBufferLocked

`EnqueueLock` and `DequeueLock`, byte by byte: the look at the size before the
lock (`LookFree`, `LookUsed`), then the copy under it. The indices are plain
`int`s read while another thread writes them. `GetFreeSize` and `GetUseSize`
name each index in a comparison and again in a difference; a build may load it
once or twice, so the difference uses the values compared (`seen`) or later
ones.

### FramedSession

One session and one worker over two instances of `RingBuffer`: `recvQ_` and
`sendQ_`. `RecvCompletes` may bring any number of bytes, up to the free space.
`OnRecv`'s loop is `TakeHeader`, `TakePayload`, `SendPacket`, `PostSend`,
`LoopEnds`. `parts` are the cells handed to `WSASend`; what the client gets is
what those cells hold when the send completes, not when it was posted. Every
frame is an echo packet, the one type the dispatch knows. When `sendQ_` is full
the packet is dropped and the disconnection requested; `LoopEnds` releases the
session when that is so and nothing is out. The client's headers tell the truth; what
others lead to is in section 6. `MsgSize` is 8 in the code; the assumption allows all
that a `CPacket` of the default size (`PacketSize`) holds beside the header.

### ServerShutdown

The console thread with `Start` and `Stop`, the accept thread, the workers and
the completion port as a FIFO queue of packets. A session is reduced to its
operation: posted, queued in the port, or closed. A pill is what
`PostQueuedCompletionStatus(completionPort_, 0, 0, 0)` queues. A failing `Start` leaves
what it had created until then. One failure `Start` does not see: without a completion
port the handle is `NULL`, and the code looks for `INVALID_HANDLE_VALUE`. `hasPort` says
whether there is one; without it pills and completions reach nobody, and `NoPacket` is
what a worker makes of a `GetQueuedCompletionStatus` that fails with its
variables not initialised.

### SearchTree, RedBlackTree, BinaryTree, CountedSet

`SearchTree` has the nodes, the links and the counts that both trees keep, the
search, and the changes of links both make; the other two extend it. A node is
named by the key in it. `Delete` of a node with two children copies the
successor's key, value and Count into it and unlinks the successor, so the node
takes the successor's name (`Renamed`) and the freed name has no links. The
code spells out left and right; here a side is a parameter (`Rotated` is
`RotateLeft` and `RotateRight`). `Nil` is `Nil_`, with the Parent that `Delete`
writes to it, or the null pointer of `BinaryTree`. A call of `BinaryTree` is one
step. In `RedBlackTree` a call places or removes the node in one step, and each
round of the loops after that (`Insert`, cases 1 to 3; `RedBlackBalancing`, cases 2
to 6) is a step of its own, so that properties see the tree between rounds.
`break` in case 3 leaves the loop whose condition is false then anyway. `count_`
changes with the node, though `Delete` writes it after the balancing, which does
not read it. `CountedSet` is what `Insert` and `Delete` promise: `Delete` takes a
key with all its insertions and says by a positive result that it was there.
The result may be another key's Count (that of the successor, `RBtree.h:237`); no
line of the repository says which.

### TreeDemo

The two windows. An action is one message: a button, the space bar, the check
box, a change of size, or a paint. `InvalidateRect` makes the screen `Erased`
and a paint message, at any later time, empties the lists `g_nodes` and `g_lines`, fills
them with the figures and lines `CalculateTree` finds in the tree and the globals, and
draws what is in them (`Paint`). Of what the lists hold between two paints it only
matters that it is old, so one old figure and one old line stand for it (`LeftOver`).
Coordinates are those of the code. A button is not handled while the tree is being balanced: one thread
does both.

### ObjectPool, PoolStore

Several pools share the heap. `stackNext[n]` is the one field `StackNext`: the
node below on the free stack, or the pool's id while the node is out, which is
what `Free` looks at. `Free` may be called with any node that was ever given out,
by any pool, again and again, as `test_ObjectPool.cpp` does. `live` are the
nodes whose `Data` is a constructed object. The memory of a node that was
deleted may be allocated again. `PoolStore` knows only who has given out what.

### PacketBuffer, PacketStream

Positions are offsets from `buffer_`; all buffers have the cells of the largest.
New memory holds arbitrary bytes. `operator<<` and `PutData` move the same bytes
and are told apart by the comparison in `PutValue`. `PacketStream` keeps for
each packet the bytes put in and not yet taken out. `request` is how many bytes the
last call was to move: so the stream allows a refusal only where they do not
fit, or are not there. Of a copy it says which bytes may differ from the original's.

### FileParser

A file is written from a sheet (sections with entries) in a layout (comments,
quotes, blanks, a comma after the last entry), so that what a lookup should find
is known without parsing. `SetSection` and `GetValueBuffer` are one pass over the
characters, here a fold over the text (`Scan` is one round of the loop with its
`switch`). `p_section_` is the rest of the text it points into: after a second
`Parse` that is still the text of the first, which the class never frees.

### PacketCode

`ProcessRow` is one round of `ProcessSheet`. The text of the generated functions
is not built; `Made` and `Handled` do what `mp_<Case>` and `Dispatch<Case>` do with
the packets read. A value that `<<` refuses is left out of the message while `Len` still
counts it (`PutInto`, `ShortOf`), so the property is about packets whose fields have
room together. A program's server sheet is the client sheet of the program
it talks to, so one sheet stands on both sides; the receiver takes the header
and `Len` bytes off its ring, as `Session::OnRecv` does. The property does not use the
packets to say where an argument belongs: it counts rows of the sheet (`PacketOf`,
`Place`).

### ProfileTable

`Profile` is the constructor, `End` and the two steps after it the destructor;
scopes of a thread nest. `Update` is three steps, so that a report may fall
between them. A row has the two smallest and the two largest times. Rows beyond
the table are not modelled: when `ProfileCount` has passed the table's end, the
search may or may not find the tag there. `samples` is a history: how many scopes of
a tag have taken how long. What a row should be is said of it without the order of the
calls: its sum, its two least and two greatest times, and what is left without them.

## 4. The runs

All constants are model values unless a number is given. Deadlock is not
checked where the program may come to rest (every client gone, everything sent,
the bounds used up; in `library`, a generator or a profiler at its bound).
`trees` never rests and is checked for it. Symmetry, over
slots, clients and workers, is used in the two safety runs of `EchoServer`
only; every order of the id stack is initial there.

| run | instance | states | what it shows |
|---|---|---|---|
| `core` | 1 worker, 2 slots, 2 clients, 3 frames each, `sendQ_` of 2 frames | 627 768 | the server as `main.cpp` starts it: reference counts exact, no release in use, ids in one place, users routed to their own session, frames echoed in order, one recv at a time, no empty send; a frame leaves through the session it came from; and the server implements `EchoService`. All of it is proved, part for any number of workers (section 7) |
| `workers` | 2 workers, 1 slot, 2 clients | 771 233 | two workers complete I/O of the same session and the slot is reused: no session stays connected that no completion will reach (`NotForgotten`). That reference counts, slot ids and routing survive two workers is proved (section 7) |
| `live` | 2 workers, 1 slot, 1 client, 3 frames | 10 695 | a client that closes is released; what is queued is sent to a client that reads |
| `locked` | 1 producer, 1 consumer, 3 bytes capacity, calls of up to 4 bytes, 9 bytes in all | 28 572 | with one thread at each end the looks without the lock do no harm |
| `framed` | 6 frames of 5 bytes, rings of 12 and 11 bytes | 6 226 | frames survive every cut of the stream and every wrap, which is proved for all sizes (section 7); each is handled and, if queued, sent (`AllServed`) |
| `shutdown` | 2 workers, 2 clients, 's' twice | 13 830 | each worker ends by one pill, which is proved for any numbers; `Stop` returns, with and without a port, or the process has died of the latter |
| `trees` | either tree, 7 keys, at most one of them with a `Count` of 2 and none above; either window, 5 keys, two widths | 445 815 | both trees implement the set, links agree and keys are sorted, and the red-black one is balanced but for one place, after every round: this is proved for any keys (section 7); the balancing ends; a painted window shows the tree that is there and nothing of an earlier one |
| `library` | ring: 4 bytes capacity, 2 byte values; pool: 2 pools, 3 nodes; packet: 2 packets of 1 or 2 bytes; parser: 7 sheets in 16 layouts; generator: 3 rows, types of 1 and 2 bytes, room for 3; profiler: 2 tags, a table of 1 row, 5 scopes, 2 nested | 556 714 | each class by itself under every sequence of its calls: the ring is a bounded queue in every position of its indices, the pool a store, the packet a stream; lookups find what is written; makers and dispatchers agree; rows and averages are exact |
| `stuck_send`, `ghost_user`, `two_recvs`, `overrun` | the smallest that show it | - | section 6 |

Why the bounds are enough. Two clients and one or two slots give the reuse of a
slot, a full server and a crossing of a release and an accept. Three frames and a
send queue of two give: nothing queued, one in flight with one queued behind it,
a full queue and its refusal. Two workers give every pair of completions of one
session; a session has at most one recv and one send outstanding, so a third
worker finds no third completion of it. With 5-byte frames and
13 and 12 cells, frames begin at every cell before the sixth ends, and headers
are cut by the end of the buffer; the send ring takes two packets and refuses
the third. For the ring, requests reach one past what fits; it is small enough to take every state. Nine bytes through
a ring of three, in calls of up to four, wrap it twice.

Seven keys give red-black trees of three black levels, in which the balancing of a
deletion goes up to the root, and every mirror image and order of its cases; every
insertion order and every deletion is tried from every tree. The nodes of `BinaryTree` have
no color, so that `RedBlack` says something of the other tree only. The windows have five
keys: from depth six on, the figures of the search tree lie closer than they
are wide (`330` halved five times is 10), so a chain of seven would overlap in
the code too.

Two pools and three nodes give foreign and second frees, a stack of three and
memory that moves from one pool to the other. Two packets of different sizes give
copies that fit and that do not. The sheets of the parser have a key twice, a
key that is a prefix or a value of another, values with blanks and values too
long, the same key in two sections, and an empty section; the buffers are
three characters, so that too long is four. Three rows give a packet after a
packet with two fields, fields before the first packet, and rows without one of
the three cells; two fields of two bytes do not fit a packet. Five scopes is the first number at which the extremes are left
out of an average; a table of one row is full with the second tag. The profiler
has one thread here: a table is written by its own thread only.

The buffers of `MCFramedSession` start as zero: no cell is read before it is
written, which the ring of `library`, where they start arbitrary, shows.

With two workers `recvQ_` is used by two threads without a lock (finding
`two_recvs`), a data race whose outcome C++ leaves undefined; so `workers`
claims only what locks protect, and nothing of the contents of `recvQ_`.

## 5. Fairness

* A thread that can go on does (weak fairness of each thread's steps).
* A completed operation is taken in the end although the workers are busy now
  and then (strong fairness of completions): the completion port is a FIFO queue.
  A recv completes when there is something to receive or the client is gone; it
  does not complete with pieces for ever, since a frame has ten bytes.
* A send completes when the client is gone. That it completes because the
  client reads is not the server's doing: it is `ClientsRead`, the premise of
  `QueuedIsSent`, and part of `FramedFairness`.
* `ServerShutdown` uses weak fairness only: the port's order is in the model.
  Nothing obliges a client to connect, to send or to leave, or anyone to press
  a key.
* In `trees` the thread inside a call goes on until the call returns.

## 6. Where the code and its words differ

Four runs show a disagreement, each in the shortest behaviour TLC finds.

* `stuck_send`: `Session::Init` does not reset `isSending_`. A client whose
  send failed leaves it set, and the next client of the slot never gets an
  answer.
* `ghost_user`: a client gone before `OnConnect` leaves a user in the lobby for
  ever.
* `two_recvs` (two workers): a slot released and reused between
  `DecrementRefCount` and `PostRecv` gets two recvs at once.
* `overrun` (two producers): `EnqueueLock` checks the free space before it has
  the lock, and overruns the ring.

Others were met while modelling; no line of the repository says otherwise, so
they are described here and have no run.

* A frame handled between the first `PostRecv` and `SetUserId`
  (`LanServer.cpp:218`) finds no user and is dropped.
* With no slot free, `OnAccept` returns without closing the client's socket
  (`LanServer.cpp:209`): `EchoService` shows such a client as accepted for good.
* With two workers, `SendPacket` may find `sendQ_` emptied between its lock and
  that of `PostSend` (`Session.cpp:205`), which then posts a send without bytes;
  its completion is taken for the end of the connection.
* A requested disconnection (`Session.cpp:202`) is honoured only when a count
  reaches zero: by a recv that brings no whole frame while no send is out, or
  once the client leaves (`Session.cpp:217`).
* `DequeueLock` may compute a negative size with two loads of an index
  (`CRingBuffer.cpp:83`), and returns it; the ring is unharmed.
* A copy of a packet that was read from misses its last bytes, as many as were read
  (`CPacket.h:183`): `PacketStream` lets just these be any. `operator=` compares the unread bytes
  with the size, so that a small packet may get a write position beyond its
  buffer (`CPacket.h:164`, `185`); `<<` then compares without a sign (`239`) and
  writes past the end, which is undefined and not modelled.
* A generated maker does not look at `CPacket`'s error (`CodeGenerator.cs:200`): a value that
  does not fit beside the others in 1400 bytes is left out (`CPacket.h:239`), and the
  header announces it all the same.
* A header that announces more than `recvQ_` holds stops `OnRecv`'s loop for good: the
  ring fills, `PostRecv` posts a recv without room (`Session.cpp:70`), and its zero bytes are
  taken for the end of the connection. So `NothingWholeWaits` is claimed for
  clients whose headers are true, as those of `mp_Echo` are.
* `Start` compares the new completion port with `INVALID_HANDLE_VALUE`
  (`LanServer.cpp:53`, `158`), but a failure gives `NULL`: the threads start without a port.
  Each worker's `GetQueuedCompletionStatus` fails at once, and the worker ends or
  follows an uninitialised pointer; a socket associated with `NULL` gets a port of its own.
* `GetData` refuses without setting an error, `>>` sets `BUFFER_EMPTY`.
* With placement new, the destructor of a pool destroys the objects on its
  stack a second time (`ObjectPool.h:142`); objects still out are never deleted.
* `EraseComments` counts rounds and not characters, so that after a comment it
  goes on past the end of its buffer (`CFileParser.cpp:210`), which is undefined;
  the model stops there.
* In `CFileParser`, commas, braces and `//` have their meaning inside quotes too,
  blanks are dropped from values, a text too long for the parser fails the
  lookup of every key after it, and a `SetSection` that fails leaves the section
  set before, one of an earlier `Parse` included.
* A packet without fields generates code that does not compile
  (`OnCase(sessionId, )`), and so do two fields of one name; `CPacket` has no `<<` for
  `std::string`, which the generator's readme shows. `PktHeader` in `define.h` has
  neither the `Code` nor the `Type` the generator writes: the checked-in file
  has those lines commented out.
* `Profiler::End` goes on counting when the table is full (`Profiler.h:215`) and
  then reads rows beyond it; `DataOutText` reads other threads' rows while they
  are written; the benchmark's `Clear` would leave the contexts of other threads
  dangling, but it has one thread.
* In the window of the red-black tree the text about a duplicate stays after a
  later deletion, and `InsertRandomValue` may insert a duplicate after a hundred
  failed tries and clears the text all the same. In the other window figures
  overlap from depth six on.
* `Stop` releases no session and leaves the port and its packets behind.
* `CheckRBtreeRecursive` compares sums that count leaves and no black node
  (`RBtreeTest.cpp:96`), so the tests would not notice unequal black heights;
  `RedBlack` does count them.

## 7. What is proved

| theorem | module | says |
|---|---|---|
| `TypeCorrect` | `EchoServerProofs` | `Spec => []TypeOK` |
| `RefCounts` | `EchoServerProofs` | `Spec => []RefCountExact` |
| `NoReleaseInUse` | `EchoServerProofs` | `Spec => []InUseIsActive` |
| `RingTypeCorrect` | `RingBufferProofs` | `RingSpec => []RingTypeOK` |
| `RecvPartsSafe` | `RingBufferProofs` | `RingSpec => []RecvPartsAreFree` |
| `RingIsFifo` | `RingBufferProofs` | `RingSpec => ImplementsFifo` |
| `SlotIdsConserved` | `EchoServerProofs` | `Spec => []IdsConserved` |
| `UsersRouted` | `EchoServerProofs` | `Spec => []RoutedToOwnSession` |
| `AnsweredThroughOwnSession` | `EchoServerProofs` | `Spec => []AnswersOwn` |
| `NoSessionForgotten` | `EchoServerProofs` | `Spec => []NotForgotten` |
| `OneRecvAtATime` | `EchoServerOneWorker` | one worker: `Spec => []OneRecv` |
| `EverySendCarries` | `EchoServerOneWorker` | one worker: `Spec => []NoEmptySend` |
| `FramesInFlightKept` | `EchoServerOneWorker` | one worker: `Spec => []InFlightIsKept` |
| `EchoedInOrder` | `EchoServerOneWorker` | one worker: `Spec => []EchoInOrder` |
| `ServerIsService` | `EchoServerOneWorker` | one worker: `Spec => ImplementsService` |
| `OneAtEachEnd` | `LibraryProofs` | one producer, one consumer: `LockedSpec => []ThreadSafe` |
| `FramedTypeCorrect` | `FramedSessionProofs` | `FramedSpec => []FramedTypeOK` |
| `FramesAreFound` | `FramedSessionProofs` | `FramedSpec => []HandledAsSent` |
| `NoFrameWaits` | `FramedSessionProofs` | `FramedSpec => []NothingWholeWaits` |
| `FramesAreEchoed` | `FramedSessionProofs` | `FramedSpec => []EchoedAsQueued` |
| `KernelReadsItsOwn` | `FramedSessionProofs` | `FramedSpec => []PartsAreKept` |
| `ShutdownTypeCorrect` | `ServerShutdownProofs` | `ShutdownSpec => []ShutdownTypeOK` |
| `PillsEndWorkers` | `ServerShutdownProofs` | `ShutdownSpec => []OnePillPerWorker` |
| `PoolTypes` | `LibraryProofs` | `PoolSpec => []PoolTypeOK` |
| `PoolIsStore` | `LibraryProofs` | `PoolSpec => ImplementsStore` |
| `PoolGivesObjects` | `LibraryProofs` | `PoolSpec => []OutIsLive` |
| `PoolStackExact` | `LibraryProofs` | `PoolSpec => []PoolExact` |
| `PacketTypes` | `LibraryProofs` | `PacketSpec => []PacketTypeOK` |
| `PacketIsStream` | `LibraryProofs` | `PacketSpec => ImplementsStream` |
| `RowsAreExact` | `LibraryProofs` | `ProfileSpec => []ProfileExact` |
| `BothSidesAgree` | `LibraryProofs` | `CodeSpec => []GeneratedAgree` |
| `BstTypeCorrect` | `SearchTreeProofs` | `BstSpec => []TreeTypeOK` |
| `BstParentsAgree` | `SearchTreeProofs` | `BstSpec => []ParentsAgree` |
| `BstSorted` | `SearchTreeProofs` | `BstSpec => []Sorted` |
| `BstIsCountedSet` | `SearchTreeProofs` | `BstSpec => ImplementsCountedSet` |
| `RBTypeCorrect` | `RedBlackTreeProofs` | `RBSpec => []RBTypeOK` |
| `RBParentsAgree` | `RedBlackTreeProofs` | `RBSpec => []ParentsAgree` |
| `RBSorted` | `RedBlackTreeProofs` | `RBSpec => []Sorted` |
| `RBKeepsRedBlack` | `RedBlackTreeProofs` | `RBSpec => []RedBlack` |
| `RBIsCountedSet` | `RedBlackTreeProofs` | `RBSpec => ImplementsCountedSet` |

They hold for any finite sets of workers, slots and clients, any number of
frames, any capacity; for the ring, any size above zero and any bytes; for the
framed session, any length a default packet holds beside its header, any messages and any
rings that hold a frame; for the trees, counts up to any bound. The assumptions are those of the modules, named there: the sets are finite, the
values for "none" are not members, sizes are numbers.

*Types.* `TypeOK` alone is not inductive: that `refCount[this[t]]` is defined
needs to know that `this[t]` is a session where the code uses it. The inductive
invariant is `TypeInv`: `TypeOK` and `ControlOK`, which says for each place in the
code what a thread holds there. The proof has one step for each action and
under it one for each of the eight parts.

*Reference counts.* `RefCountExact` is a sum of cardinalities over threads.
`Received(t, s)` and `Held(t, s)` say what one thread adds to it; a step moves
one thread, so a lemma (`BalancedStep`) reduces the sum to what changes for that
thread, and each action is shown to change both sides alike. `RefCountExact` is
inductive together with `ReleasedUnreferenced` (an inactive session has count
zero), which holds because the release tests the count under the lock. From
both, `InUseIsActive` follows without a further induction: a released session
has count zero, so nobody is counted in it.

*Slot ids.* `IdsConserved` is inductive given `TypeInv` and `RefInv`: a thread that
releases a slot does so with its last reference, so the slot was in use and its
id nowhere else; the step moves the id from the slot to the thread, `FreeIdLock`
from the thread to the stack, `GetIdLock` from the top of an injective stack to the
accept thread. What is needed of the stack are two lemmas, on pushing and popping.

*Routing.* That user ids are fresh (`FreshIds`) and that the accept thread, between
`OnConnect` and `SetUserId`, holds the id of a user registered for its session
(`PendingUser`) make `RoutedToOwnSession` inductive. A user registered for a
session already released (`ghost_user`) does no harm to it: nobody bears
that id. For `AnswersOwn` the worker's copy of the id matters: while it handles a
frame it holds a reference (`ReadsOwn` says that the id it has read is that of its own
session or nobody's), so the slot cannot change hands under it.

*No session is forgotten.* The induction follows the recv chain (`ChainKept`): an
active session has a recv outstanding, or a thread on the way to the next one, or
its disconnection is requested. In the last case a reference is left, whose
decrement releases it (`WillRelease`). So an active session with count zero, which has
no recv and no thread that holds a reference, has one about to post its recv.

*One worker.* The last five theorems on the server assume
`OneWorker == \A u, w \in Workers : u = w`, which is what `main.cpp:14` gives and what
the five need: with two workers `two_recvs` refutes `OneRecv` and TLC refutes
`NoEmptySend` too, and the order of frames rests on `recvQ_`, which two workers
then share without a lock. The accept thread is the second thread in all of
them. The invariant has four layers, each proved with the ones before:
`ClientInv` (an active slot has an open socket that is no other active slot's; this one
holds for any number of workers), `WorkInv` (the worker's session is not
released in its hands; a session that the accept thread still sets up is used by no
one else; one recv), `SendInv` (the frames in flight are the front of `sendQ`, by
`isSending_`), and `OrderInv`, the order of frames along their way: numbers rise in
each queue, what the client has got comes before what is in `sendQ`, that before
the frame being handled, that before `recvQ`, and all of them before what is
still in the socket. The front of `sendQ` is the exception while its completion is
handled (`Got`).

*The service.* Every step of a thread is mapped: `Accept` to the client's accept,
`InitSession` to `Serve`, `Say` to `SendFrame`, `SendCompletes` to `Answer`, a release in
any of its three places to `Release`, everything else to a stutter. That a slot is left
for `Serve` is an injection of the served clients into the slots but the one
initialised; that an answer has at most `MaxMsgs` frames is one of its positions
into the numbers, which rise.

*The locked ring.* The bytes are numbered in the order in which they are put in
(`Numbered`). `StillFree` says that what the producer saw free is free when it has
the lock, since only a consumer moves the other index and only makes more room;
`StillUsed` is its mirror image. Both hold for any number of loads of an index
in `GetFreeSize` and `GetUseSize`. They need one thread at each end: `overrun` shows
that two producers break them.

*The ring.* `RingTypeOK` is inductive. The two direct operations are reduced to
`Enqueue` and `Dequeue` (filling two parts is enqueueing), and each call is a
step of `BoundedFifo`: the key fact is that, under the type invariant, byte `i`
from the front lies in one cell that the call either does not touch or, beyond
the used size, fills with the right byte. `RecvPartsAreFree` follows from the type
invariant by arithmetic.

*The framed session.* `FramedInv` says where each byte is. `recvQ_` holds the client's
stream from the first byte not yet taken out to the last one received: so what
`Peek` reads at the front is the header of the next frame, because frames are
equally long, and position `k * FrameSize + j` of the stream is byte `j` of frame
`k` (`InFrame`; the provers get the division from `DivisionUnique`). A header taken
means that its payload is there, since `WholeFrame` asked for both. While the worker
is away less than a frame is in `recvQ_`, which the loop's condition gives and only a
recv changes. What the client has got, followed by what `sendQ_` holds, is the stream of the
packets queued: a packet is appended whole or not at all, and a completed send
moves the front of one to the end of the other. For that the cells in `parts` must
hold the oldest bytes of `sendQ_` all the time: an append touches free cells only, wherever
it wraps. Both rings are used through what `RingBufferProofs` says of a queue
(`EnqueueAdds`, `FrontMoves`), never through their indices, except for the parts.

*Start and stop*, for any numbers of workers, sessions, operations and stops. The
pills are counted: a pill posted adds one to those in the port, a pill taken
moves one from there to the workers that have ended. What has to be shown is that no
other packet is a pill and no pill anything else: a completion bears a session
(`Tells`), with zero bytes too, and a worker that is busy has such a packet. For the types
more is needed: a session completes one operation at a time, so it is told of by at
most one packet or one worker (`ToldOnce`), and its count of operations stays
within the bound. The count is made under `hasPort`; without a port nothing is ever queued
(`KernelUnread`), and no worker gets work. Before `Start` there is nothing in the port (`StartHolds`), and after a
`Start` that failed the port never comes to be.

*The pool*, for any pools and nodes. The store's promise rests on
one fact: a node is out exactly when its `StackNext` is the id of the pool it
belongs to. That needs the stack to hold only nodes that are back, and
no node to be below two others, or on top and below: the links of the free
stacks are pairwise different. This is inductive and needs neither counts
nor a notion of reachability, nor that there are finitely many nodes. That the stack has
*all* the nodes that are back (`PoolExact`) needs them: the invariant `PoolStacks` says
that some sequence lists the stack (`Lists`), a push puts a node before it and a
pop takes its first. That the walk along `StackNext` (`FreeStack`, a recursive function)
meets just this sequence is an induction over its rounds, made with the least round
that differs (`LeastNumber`, from the library's `WFMin`: the induction theorems proper
take an operator, which the provers cannot instantiate).

*The packet*, for any packets, sizes and bytes. The inductive invariant is
`PacketTypeOK`: the positions lie in the largest buffer and their difference is
`data_size_`. Each method is then a step of `PacketStream`: a put appends because
the cells from the read position to the write position are not touched, a
read takes from the front, and byte `i` of a copy comes from the cell of byte `i` of the
original as long as that cell is one of those copied.

*The folds.* The sums over a bag and the passes over a packet's fields are folds of the
community modules, which pick the elements of a finite set one by one and are recursive
functions by definition. `FoldExists` shows that there is a function with these equations,
`SubsetsOneByOne` that what holds of the empty set and of a set whenever it does of the set
with one element less holds of every finite set; both are made with the least size
that fails (`LeastNumber`). From them follow `SumIs` and `OneByOne` for sums, and `SizeIs`,
`WrittenIs` and `ReadIs` for a pass over a sequence from the left: there is a sequence
of intermediate results, each made from the one before, and the fold is the last.

*The profiler*, for any threads, tags, table sizes and times below `LONGLONG`'s largest
(so that the value that stands for "none" in `Min` is no time). The inductive invariant
`ProfileInv` says of each thread's table (`TableInv`): names differ; a row holds of its
tag's bag the number, the sum, the two least and the two greatest times, where the row
that `Update` is working on may be ahead of the history in its time (`call`) and
in its count (`extremes`); and the bag of a tag without a row is empty. The step of the
extremes is the one with content: `MinWith` and `MaxWith` keep the two least and the two
greatest when a time is added, ties included (`TwoLeastWith`, `TwoGreatestWith`).

*The generator*, for any sheet, types, widths and argument values. `CodeInv` says where
each row of the sheet has gone: `Len(packets)` is the number of named rows, packet
`PacketOf(k)` bears the name of row `k`, and the fields of packet `n` are its rows of
fields, each at its `Place` (`Columns`). A new row changes no earlier row's packet or
place (`RowsStay`, `PlacesStay`), so that only its own column is new
(`ColumnsStay`). The two generated functions then meet in `ReadSoFar`: after `k` fields the reader has the
first `k` arguments, and what it has left is what the writer wrote after them. It
holds for arguments as long as their types are wide (`Fitting`), which is what C++ gives,
and for packets whose fields have room together: no sum on the way is greater than
the last (`SizesGrow`), so no `<<` refuses (`NothingLeftOut`), and `Len` is not cut (`ShortIs`).

*The tree without balancing*, for any finite set of keys. The inductive invariant
`BstInv` says that there is a function `below`, to each node the set of the keys in
its subtree, with which the links make a `Shape`: a node's set is its key and its
children's sets, the left ones smaller and the right ones larger; a subtree holds the
subtrees of its nodes, and with a node its parent. Each change of the links is one
lemma: a new node hung below another (`HangKeepsShape`), a node with at most one child
taken out (`WithoutKeepsShape`), a node that takes the key of its successor
(`RenameKeepsShape`), for which no key may lie between the two. The walks are
followed step by step (`SearchOnTheWay`, `SuccessorFacts`): what is below the
node reached gets less, so no more rounds are needed than there are keys, and
above it the key looked for lies on the same side of everything (`Fits`), which is why a
new node may be hung there. `Sorted` follows because the list of a subtree is
the lists of its children around its key (`ListedJoin`). All inductions, over the
rounds of a walk and the depth of a list, are made with `LeastNumber`.

*The red-black tree*, for any finite set of keys, between any two rounds of the
balancing. The inductive invariant `RBInv` is `BstInv` and `Colored`: there are `Heights`,
to each node a number `h`, the black nodes on every way down from it. A node's number is
that of each child, plus one if the node is black, plus one for the child where a
deletion has left a black node missing (`Gap`). The number is a witness and
not computed, so a step of the balancing is shown to keep it by naming new numbers
for the two or three nodes it touches. Beside it stand `RedRule` (a red node has a black
parent, but for the node being inserted, and at the place where a deletion is
balanced), `RootRule`, and `CurrRule` (where the balancing may be, and what
the color of that place is). Without the heights the links cannot be proved either: a
round of `RedBlackBalancing` rotates about a sibling without asking whether there is one,
and there is one because the other side is a black node short (`DeleteFacts`).

A rotation is one lemma for the links (`RotatedKeepsShape`) and one for the heights
(`RotatedKeepsHeights`); each case of `Insert` and of `RedBlackBalancing` adds only what its
colors do. A removal starts the balancing just when a black node went
(`RemovedColored`), and a node that takes its successor's key takes its height
(`RenamedColored`). At last `BlackCounts`, which walks the tree, is shown to find the
height of the root and nothing else (`BlackCountsAreHeights`). The rounds of the balancing
are stutters of `CountedSet`. That they come to an end is left to TLC.

## 8. What is only model-checked

The liveness properties (`PeerCloseReleases`, `QueuedIsSent`, `AllServed`,
`StopReturns`, `BalancingReturns`): fairness is out of the provers' reach.
`PictureIsTree` is about pictures given by a recursion over the tree (`RECURSIVE` operators), and
`FindsWhatIsWritten` about folds over texts; the latter holds of the sheets and layouts of
the run and not of all: a name with a bracket in it, for one, ends a section.
`LibraryTypeOK` joins three type invariants for the one run of `library`; each of them is
proved of its own module.

## 9. What is not modelled

`SystemLogger` formats and writes lines; its one variable is the log level. Of the
trees, `Print` and the vectors kept for debugging; of the windows, colors, fonts
and the creation of the controls; of the benchmark, the random data. The text the
generator writes around the functions modelled here, and its headers, have
no state. The tests were read as documentation. The second copies of
`CRingBuffer`, `CPacket`, `Profiler` and of the trees differ from the ones mapped
in layout and in the vectors kept for debugging, but for `Profiler::Clear`,
which is mapped. `Singleton` is language
support. The two socket options of `CreateSession` and the keys of the console
other than 's' change no state the properties speak of.
