----------------------------- MODULE MCLibrary ------------------------------
(***************************************************************************)
(* The classes of Util and the generator, each by itself: the first state  *)
(* chooses one, and the others stay as they begin.                         *)
(***************************************************************************)
EXTENDS RingBuffer, ObjectPool, PacketBuffer, FileParser, PacketCode,
        ProfileTable

VARIABLE kind     \* the class

chosen(k) == kind = k /\ UNCHANGED kind

(* The ring: data of at most one byte more than fits, and requests for at  *)
(* most one byte more than there can be.                                   *)
Data == UNION { [1..n -> Bytes] : n \in 0..(BufferSize + 1) }

MCRingNext ==
  /\ \/ \E data \in Data : Enqueue(data) \/ DirectEnqueue(data)
     \/ \E n \in 0..(BufferSize + 1) : Dequeue(n) \/ Peek(n) \/ DirectDequeue(n)
     \/ ClearBuffer
  /\ UNCHANGED << poolVars, packetVars, parserVars, codeVars, profileVars >>

MCPoolNext ==
  PoolNext
  /\ UNCHANGED << ringVars, packetVars, parserVars, codeVars, profileVars >>

MCPacketNext ==
  PacketNext
  /\ UNCHANGED << ringVars, poolVars, parserVars, codeVars, profileVars >>

MCParserNext ==
  ParserNext
  /\ UNCHANGED << ringVars, poolVars, packetVars, codeVars, profileVars >>

MCCodeNext ==
  CodeNext
  /\ UNCHANGED << ringVars, poolVars, packetVars, parserVars, profileVars >>

MCProfileNext ==
  ProfileNext
  /\ UNCHANGED << ringVars, poolVars, packetVars, parserVars, codeVars >>

(* What a class that is not chosen does not initialise does not matter.    *)
Byte == CHOOSE b \in Bytes : TRUE
Plain ==
  /\ kind # "ring" => buffer = [k \in Cells |-> Byte]
  /\ kind # "pool" => placement_new_ = [p \in Pools |-> FALSE]
  /\ kind # "packet" => /\ buffer_size_ = [p \in Packets |-> MaxSize]
                        /\ buffer_ = [p \in Packets |-> [k \in PacketCells |-> Byte]]

LibraryInit ==
  /\ RingInit /\ PoolInit /\ PacketInit /\ ParserInit /\ CodeInit /\ ProfileInit
  /\ kind \in {"ring", "pool", "packet", "parser", "code", "profile"}
  /\ Plain

LibraryNext ==
  \/ chosen("ring") /\ MCRingNext
  \/ chosen("pool") /\ MCPoolNext
  \/ chosen("packet") /\ MCPacketNext
  \/ chosen("parser") /\ MCParserNext
  \/ chosen("code") /\ MCCodeNext
  \/ chosen("profile") /\ MCProfileNext

LibrarySpec ==
  LibraryInit /\ [][LibraryNext]_<< ringVars, poolVars, packetVars, parserVars,
                                    codeVars, profileVars, kind >>

-----------------------------------------------------------------------------
(* The generator's types. *)

MCWidth == [t \in {"char", "short"} |-> IF t = "char" THEN 1 ELSE 2]

(* The parser's files: one key in two sections, keys twice, a key that is  *)
(* the beginning of another or a value, values that are too long or have   *)
(* blanks, an empty section.                                               *)
TextA == << "a" >>
TextB == << "b" >>
TextAB == << "a", "b" >>
Text12 == << "1", "2" >>
Entry(k, v) == [key |-> k, value |-> v]

Lists ==
  { << >>,
    << Entry(TextA, Text12) >>,
    << Entry(TextB, << "a", " ", "1" >>), Entry(TextA, TextB) >>,
    << Entry(TextA, TextB), Entry(TextA, Text12) >>,
    << Entry(TextB, << "a", "b", "1" >>), Entry(TextA, Text12) >>,
    << Entry(TextAB, TextA), Entry(TextB, << "1", "b" >>) >> }

Section(s, es) == [name |-> s, entries |-> es]
Sheets ==
  { << Section(TextA, l),
       Section(TextB, << Entry(TextA, TextA), Entry(TextB, TextA) >>) >> :
      l \in Lists }
  \cup { << Section(TextAB, << Entry(TextA, TextB) >>), Section(TextB, << >>) >> }

MCFiles == [sheet : Sheets, layout : Layouts]
MCAgain ==
  { f \in MCFiles :
      /\ f.sheet[1].entries = << Entry(TextA, Text12) >>
      /\ f.layout = [comment |-> FALSE, comma |-> TRUE, quoted |-> TRUE,
                     space |-> << >>] }
MCNames == {TextA, TextB, TextAB}

LibraryTypeOK == RingTypeOK /\ PoolTypeOK /\ PacketTypeOK

=============================================================================
