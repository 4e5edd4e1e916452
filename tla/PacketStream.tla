---------------------------- MODULE PacketStream ----------------------------
(***************************************************************************)
(* What CPacket promises: values leave a packet in the order they entered  *)
(* it, whole or not at all.  The room of what has been taken out is not    *)
(* used again until Clear.  A call is refused only if what it asks for     *)
(* does not fit, or is not there.  A copy is faithful if nothing was taken *)
(* out of the original; else its last bytes, as many as were taken out of  *)
(* the original, may be any.                                               *)
(***************************************************************************)
EXTENDS Integers, Sequences

CONSTANTS Packets, Octets, Sizes

VARIABLES capacity,   \* of each packet
          stream,     \* what has been put in and not taken out
          taken,      \* how much has been taken out
          error,      \* the last error
          request,    \* how much the last call was to put in or take out
          value       \* what it has put in or taken out

streamVars == << capacity, stream, taken, error, request, value >>

StreamInit ==
  /\ capacity \in [Packets -> Sizes]
  /\ stream = [p \in Packets |-> << >>]
  /\ taken = [p \in Packets |-> 0]
  /\ error = [p \in Packets |-> "NONE"]
  /\ request = 0 /\ value = << >>

Filled(p, s, t, e) ==
  /\ stream' = [stream EXCEPT ![p] = s]
  /\ taken' = [taken EXCEPT ![p] = t]
  /\ error' = [error EXCEPT ![p] = e]

Fits(p, n) == taken[p] + Len(stream[p]) + n <= capacity[p]

Put(p) ==
  /\ value' \in Seq(Octets) /\ request' = Len(value') /\ Fits(p, request')
  /\ Filled(p, stream[p] \o value', taken[p], error[p])
  /\ UNCHANGED capacity

Take(p, n) ==
  /\ n <= Len(stream[p])
  /\ request' = n
  /\ value' = SubSeq(stream[p], 1, n)
  /\ Filled(p, SubSeq(stream[p], n + 1, Len(stream[p])), taken[p] + n, error[p])
  /\ UNCHANGED capacity

Look(p) ==
  /\ taken[p] = 0
  /\ request' = Len(stream[p])
  /\ value' = stream[p]
  /\ UNCHANGED << capacity, stream, taken, error >>

Refuse(p, e) ==
  /\ request' \in Nat
  /\ Filled(p, stream[p], taken[p], e)
  /\ value' = << >>
  /\ UNCHANGED capacity

Reset(p, c) ==
  /\ capacity' = [capacity EXCEPT ![p] = c]
  /\ Filled(p, << >>, 0, "NONE")
  /\ request' = 0 /\ value' = << >>

Copy(p, q, c) ==
  LET s == stream'[p] IN
  /\ s \in Seq(Octets) /\ Len(s) = Len(stream[q])
  /\ \A i \in 1..Len(s) : i + taken[q] <= Len(s) => s[i] = stream[q][i]
  /\ capacity' = [capacity EXCEPT ![p] = c]
  /\ Filled(p, s, taken[q], error[q])
  /\ request' = 0 /\ value' = << >>

StreamNext ==
  \E p \in Packets :
    \/ Put(p)
    \/ \E n \in 0..Len(stream[p]) : Take(p, n)
    \/ Look(p)
    \/ Refuse(p, "BUFFER_FULL") /\ ~Fits(p, request')
    \/ /\ Refuse(p, "BUFFER_EMPTY") \/ Refuse(p, error[p])
       /\ request' > Len(stream[p])
    \/ \E c \in Sizes : Reset(p, c)
    \/ \E q \in Packets \ {p} :
         \/ /\ Len(stream[q]) > capacity[p]
            /\ Refuse(p, "COPY_INSTANCE_FAIL")
         \/ Len(stream[q]) <= capacity[p] /\ Copy(p, q, capacity[p])
         \/ Copy(p, q, capacity[q])

StreamSpec == StreamInit /\ [][StreamNext]_streamVars

=============================================================================
