----------------------------- MODULE PacketCode -----------------------------
(***************************************************************************)
(* packet-code-generator: a sheet of rows (case, type, name) becomes a     *)
(* maker for each packet, on the side that sends, and a dispatcher, on the *)
(* side that receives.  ProcessSheet reads one row in a step; what the     *)
(* generated functions do is said by operators on the packets read.        *)
(*                                                                         *)
(* The types are scalar ones, for which CPacket has << and >>.             *)
(***************************************************************************)
EXTENDS Integers, Sequences, SequencesExt

CONSTANTS Cases,      \* what may stand in the first column
          Types,      \* in the second
          FieldNames, \* in the third
          NoText,      \* a cell that is empty
          Width,      \* sizeof each type
          Units,      \* the values of a byte of a message
          Room,       \* the bytes a packet has behind its header
          MaxRows     \* bound: the rows of a sheet after its title

ASSUME CodeAssumption ==
  /\ NoText \notin Cases \cup Types \cup FieldNames
  /\ Width \in [Types -> Nat \ {0}] /\ MaxRows \in Nat
  /\ Room \in Nat /\ Room <= 32767

Rows == [case : Cases \cup {NoText}, type : Types \cup {NoText},
         name : FieldNames \cup {NoText}]

VARIABLES rows,      \* history: the rows read
          packets    \* the list of PacketInfo; current is its last

codeVars == << rows, packets >>

CodeInit == rows = << >> /\ packets = << >>

IsField(r) == r.type # NoText /\ r.name # NoText

(* Mutant: a row that names a packet is not looked at for a field.         *)
WithField_NotFirst(ps, r) ==
  IF ps # << >> /\ IsField(r) /\ r.case = NoText
    THEN [ps EXCEPT ![Len(ps)].fields = Append(@, [type |-> r.type,
                                                   name |-> r.name])]
    ELSE ps

(* A row with a type and a name is a field of the current packet, if there *)
(* is one.                                                                 *)
WithField(ps, r) ==
  IF ps # << >> /\ IsField(r)
    THEN [ps EXCEPT ![Len(ps)].fields = Append(@, [type |-> r.type,
                                                   name |-> r.name])]
    ELSE ps

ProcessRow(r) ==
  /\ Len(rows) < MaxRows
  /\ rows' = Append(rows, r)
  /\ packets' = WithField(IF r.case = NoText THEN packets
                          ELSE Append(packets, [case |-> r.case,
                                                fields |-> << >>]), r)

CodeNext == \E r \in Rows : ProcessRow(r)

CodeSpec == CodeInit /\ [][CodeNext]_codeVars

-----------------------------------------------------------------------------
(* The generated functions.  A value of a type is a sequence of bytes.     *)

SizeSum(fields) == FoldLeft(LAMBDA sum, f : sum + Width[f.type], 0, fields)

(* The header's Len is a short.                                            *)
ShortOf(n) == ((n + 32768) % 65536) - 32768

(* << leaves a value out that does not fit the packet any more.            *)
PutInto(bytes, value) ==
  IF Len(bytes) + Len(value) <= Room THEN bytes \o value ELSE bytes

(* mp_<Case> of packet n: the header, then each argument with <<, whose    *)
(* error nobody looks at.  args gives a value to each parameter by name.   *)
ArgumentBytes(fields, args) ==
  FoldLeft(LAMBDA bytes, f : PutInto(bytes, args[f.name]), << >>, fields)

Made(n, args) ==
  LET p == packets[n] IN
  [type |-> n - 1, len |-> ShortOf(SizeSum(p.fields)),
   bytes |-> ArgumentBytes(p.fields, args)]

(* Dispatch<Case>: >> into each variable in turn; one that is refused      *)
(* leaves the variable without a value.                                    *)
Read(st, f) ==
  IF Width[f.type] > Len(st.left) THEN [st EXCEPT !.args = Append(@, NoText)]
  ELSE [args |-> Append(st.args, SubSeq(st.left, 1, Width[f.type])),
        left |-> SubSeq(st.left, Width[f.type] + 1, Len(st.left))]

(* The receiver takes Len bytes off its ring, and Process calls the        *)
(* handler of the type.                                                    *)
Handled(message) ==
  LET p == packets[message.type + 1] IN
  [case |-> p.case,
   args |-> FoldLeft(Read, [args |-> << >>,
                            left |-> SubSeq(message.bytes, 1, message.len)],
                     p.fields).args]

-----------------------------------------------------------------------------
(* Properties. *)

(* The rows that name a packet, the packet a row belongs to, the rows of a *)
(* packet's fields, and the place of a row among those.                    *)
Named == { k \in 1..Len(rows) : rows[k].case # NoText }
PacketOf(k) == Cardinality({ j \in Named : j <= k })
FieldRows(n) == { k \in 1..Len(rows) : PacketOf(k) = n /\ IsField(rows[k]) }
Place(k) == Cardinality({ j \in FieldRows(PacketOf(k)) : j <= k })

(* The generated code compiles: every packet has a field, and none two of  *)
(* one name.                                                               *)
Compiles ==
  \A n \in DOMAIN packets :
    LET fs == packets[n].fields IN
    /\ fs # << >>
    /\ \A j, k \in DOMAIN fs : fs[j].name = fs[k].name => j = k

(* The values of the types the sheet gives to a packet's fields.           *)
Arguments(n) ==
  { args \in [{ rows[k].name : k \in FieldRows(n) } ->
                UNION { [1..Width[t] -> Units] : t \in Types }] :
      \A k \in FieldRows(n) : Len(args[rows[k].name]) = Width[rows[k].type] }

(* All the fields of a packet together have room in it.                    *)
HasRoom(n) == SizeSum(packets[n].fields) <= Room

(* Two programs generated from one sheet agree on every packet whose       *)
(* fields have room together: the packet of a named row makes messages     *)
(* that end in the handler of that name, with every argument in the place  *)
(* of its row and with the value it was sent with, and nothing of the      *)
(* message is left in the ring for the next one.                           *)
GeneratedAgree ==
  Compiles =>
    \A k \in { j \in Named : HasRoom(PacketOf(j)) } :
    \A args \in Arguments(PacketOf(k)) :
      LET message == Made(PacketOf(k), args)
          handled == Handled(message)
          fields == FieldRows(PacketOf(k))
      IN  /\ handled.case = rows[k].case
          /\ Len(handled.args) = Cardinality(fields)
          /\ \A j \in fields : handled.args[Place(j)] = args[rows[j].name]
          /\ message.len = Len(message.bytes)

=============================================================================
