---------------------------- MODULE PacketBuffer ----------------------------
(***************************************************************************)
(* Util/CPacket.h: a buffer with a write and a read position, which only   *)
(* Clear moves back.  Positions are offsets from buffer_.  One action is   *)
(* one call.                                                               *)
(***************************************************************************)
EXTENDS Integers, Sequences

CONSTANTS Packets,   \* the variables of type CPacket
          Octets,    \* the values of a byte
          Sizes,     \* the sizes packets are constructed with
          MaxSize    \* the largest of them

ASSUME PacketAssumption ==
  MaxSize \in Nat \ {0} /\ Sizes \subseteq 1..MaxSize /\ Octets # {}

Errors == {"NONE", "BUFFER_FULL", "BUFFER_EMPTY", "COPY_INSTANCE_FAIL"}

(* The cells of a buffer, and for a small one of the memory after it.      *)
PacketCells == 0..(MaxSize - 1)

VARIABLES buffer_size_, data_size_, last_error_, buffer_, readpos_, writepos_,
          request,  \* history: how many bytes the last call was to move
          value     \* history: the bytes it has moved

packetVars == << buffer_size_, data_size_, last_error_, buffer_, readpos_,
                 writepos_, request, value >>

(* new char[buffer_size_] is not initialised.                              *)
PacketInit ==
  /\ buffer_size_ \in [Packets -> Sizes]
  /\ buffer_ \in [Packets -> [PacketCells -> Octets]]
  /\ data_size_ = [p \in Packets |-> 0]
  /\ readpos_ = [p \in Packets |-> 0]
  /\ writepos_ = [p \in Packets |-> 0]
  /\ last_error_ = [p \in Packets |-> "NONE"]
  /\ request = 0 /\ value = << >>

(* Mutant of the comparison: it stops one byte early.                      *)
RoomFor_OneLess(p, n) == n < buffer_size_[p] - writepos_[p]
RoomFor(p, n) == n <= buffer_size_[p] - writepos_[p]

Fail(p, error, n) ==
  /\ last_error_' = [last_error_ EXCEPT ![p] = error]
  /\ request' = n /\ value' = << >>
  /\ UNCHANGED << buffer_size_, data_size_, buffer_, readpos_, writepos_ >>

(* MoveWritePos and MoveReadPos, and the same two lines in other methods.  *)
MoveWritePos(p, n) ==
  /\ writepos_' = [writepos_ EXCEPT ![p] = @ + n]
  /\ data_size_' = [data_size_ EXCEPT ![p] = @ + n]

MoveReadPos(p, n) ==
  /\ readpos_' = [readpos_ EXCEPT ![p] = @ + n]
  /\ data_size_' = [data_size_ EXCEPT ![p] = @ - n]

Written(p, at, data) ==
  [k \in PacketCells |-> IF at <= k /\ k < at + Len(data)
                           THEN data[k - at + 1] ELSE buffer_[p][k]]

Unread(p) == [i \in 1..data_size_[p] |-> buffer_[p][readpos_[p] + i - 1]]

-----------------------------------------------------------------------------
(* The methods. *)

PutWhole(p, data) ==
  /\ RoomFor(p, Len(data))
  /\ buffer_' = [buffer_ EXCEPT ![p] = Written(p, writepos_[p], data)]
  /\ MoveWritePos(p, Len(data))
  /\ request' = Len(data) /\ value' = data
  /\ UNCHANGED << buffer_size_, last_error_, readpos_ >>

PutData(p, data) ==
  \/ PutWhole(p, data)
  \/ ~RoomFor(p, Len(data)) /\ Fail(p, "BUFFER_FULL", Len(data))

(* operator<< compares without a sign: once the write position has left    *)
(* the buffer (see Assign) nothing is refused and memory behind it is      *)
(* overwritten; that call is undefined and not modelled.                   *)
PutValue(p, data) ==
  /\ writepos_[p] <= buffer_size_[p] /\ data # << >>
  /\ PutData(p, data)

TakeWhole(p, n) ==
  /\ n <= data_size_[p]
  /\ request' = n /\ value' = SubSeq(Unread(p), 1, n)
  /\ MoveReadPos(p, n)
  /\ UNCHANGED << buffer_size_, last_error_, buffer_, writepos_ >>

(* A refusal of GetData sets no error, one of operator>> does.             *)
GetData(p, n) ==
  \/ TakeWhole(p, n)
  \/ n > data_size_[p] /\ Fail(p, last_error_[p], n)

GetValue(p, n) ==
  \/ n > 0 /\ TakeWhole(p, n)
  \/ n > data_size_[p] /\ Fail(p, "BUFFER_EMPTY", n)

(* Session::OnRecv dequeues into a new packet and moves its write position. *)
Receive(p, data) ==
  /\ writepos_[p] = 0 /\ RoomFor(p, Len(data))
  /\ buffer_' = [buffer_ EXCEPT ![p] = Written(p, 0, data)]
  /\ MoveWritePos(p, Len(data))
  /\ request' = Len(data) /\ value' = data
  /\ UNCHANGED << buffer_size_, last_error_, readpos_ >>

(* Session::SendPacket enqueues data_size_ bytes from the buffer's start,  *)
(* of a packet that was filled and not read.                               *)
Send(p) ==
  /\ readpos_[p] = 0
  /\ request' = data_size_[p]
  /\ value' = [i \in 1..data_size_[p] |-> buffer_[p][i - 1]]
  /\ UNCHANGED << buffer_size_, data_size_, last_error_, buffer_, readpos_,
                  writepos_ >>

Emptied(p) ==
  /\ data_size_' = [data_size_ EXCEPT ![p] = 0]
  /\ readpos_' = [readpos_ EXCEPT ![p] = 0]
  /\ writepos_' = [writepos_ EXCEPT ![p] = 0]
  /\ last_error_' = [last_error_ EXCEPT ![p] = "NONE"]
  /\ request' = 0 /\ value' = << >>

Clear(p) == Emptied(p) /\ UNCHANGED << buffer_size_, buffer_ >>

(* A variable goes out of scope and another is constructed.                *)
Construct(p, s, garbage) ==
  /\ Emptied(p)
  /\ buffer_size_' = [buffer_size_ EXCEPT ![p] = s]
  /\ buffer_' = [buffer_ EXCEPT ![p] = garbage]

(* CopyFrom takes data_size_ bytes from the start of the other's buffer,   *)
(* over what is in this one's.                                             *)
CopyFrom(p, q, old) ==
  /\ data_size_' = [data_size_ EXCEPT ![p] = data_size_[q]]
  /\ buffer_' = [buffer_ EXCEPT ![p] =
       [k \in PacketCells |-> IF k < data_size_[q] THEN buffer_[q][k]
                                                   ELSE old[k]]]
  /\ readpos_' = [readpos_ EXCEPT ![p] = readpos_[q]]
  /\ writepos_' = [writepos_ EXCEPT ![p] = writepos_[q]]
  /\ last_error_' = [last_error_ EXCEPT ![p] = last_error_[q]]
  /\ request' = 0 /\ value' = << >>

(* The check looks at the bytes unread, not at the positions: a copy of a  *)
(* larger packet that was read from may end beyond this one's buffer.      *)
Assign(p, q) ==
  \/ /\ buffer_size_[p] < data_size_[q]
     /\ Fail(p, "COPY_INSTANCE_FAIL", 0)
  \/ /\ buffer_size_[p] >= data_size_[q]
     /\ CopyFrom(p, q, buffer_[p])
     /\ UNCHANGED buffer_size_

CopyConstruct(p, q, garbage) ==
  /\ CopyFrom(p, q, garbage)
  /\ buffer_size_' = [buffer_size_ EXCEPT ![p] = buffer_size_[q]]

PacketData == UNION { [1..n -> Octets] : n \in 0..MaxSize }

PacketNext ==
  \E p \in Packets :
    \/ \E data \in PacketData :
         PutData(p, data) \/ PutValue(p, data) \/ Receive(p, data)
    \/ \E n \in 0..MaxSize : GetData(p, n) \/ GetValue(p, n)
    \/ Send(p) \/ Clear(p)
    \/ \E garbage \in [PacketCells -> Octets] :
         \/ \E s \in Sizes : Construct(p, s, garbage)
         \/ \E q \in Packets \ {p} : CopyConstruct(p, q, garbage)
    \/ \E q \in Packets \ {p} : Assign(p, q)

PacketSpec == PacketInit /\ [][PacketNext]_packetVars

-----------------------------------------------------------------------------
(* Properties. *)

PacketTypeOK ==
  /\ buffer_size_ \in [Packets -> Sizes]
  /\ buffer_ \in [Packets -> [PacketCells -> Octets]]
  /\ data_size_ \in [Packets -> 0..MaxSize]
  /\ readpos_ \in [Packets -> 0..MaxSize]
  /\ writepos_ \in [Packets -> 0..MaxSize]
  /\ last_error_ \in [Packets -> Errors]
  /\ \A p \in Packets : data_size_[p] = writepos_[p] - readpos_[p]

Streams == INSTANCE PacketStream WITH
             capacity <- buffer_size_, stream <- [p \in Packets |-> Unread(p)],
             taken <- readpos_, error <- last_error_

(* Puts, reads, copies and clears in any order keep each packet a stream:  *)
(* a value is put whole or, only if it does not fit behind all that was    *)
(* put since the last Clear, refused with BUFFER_FULL; it is read whole    *)
(* or, only if that many bytes are not there, refused with no byte lost;   *)
(* and a copy differs from its original, if that was read from, in no more *)
(* than as many of the last bytes as were read.                            *)
ImplementsStream == Streams!StreamSpec

=============================================================================
