----------------------------- MODULE FileParser -----------------------------
(***************************************************************************)
(* util/Util/CFileParser.cpp: sections of keys and values in a text.  A    *)
(* lookup runs over the characters from the section on, in one pass; here  *)
(* the pass is a fold, and a call is one step.                             *)
(*                                                                         *)
(* Files are texts written from a sheet of sections and entries, in every  *)
(* layout the class and its test show.                                     *)
(***************************************************************************)
EXTENDS Integers, Sequences, SequencesExt

CONSTANTS Files,         \* the files there are: a sheet and a layout
          Again,         \* bound: those a second Parse is called with
          Names,         \* the sections and keys asked for
          MaxTextSize    \* of the parser's buffers

VARIABLES p_buffer_,     \* the text of the last Parse, comments erased
          p_section_,    \* what is left of the text a section was found in
          parsed,        \* history: the file of p_buffer_
          section,       \* history: file and name p_section_ came from
          asked,         \* history: the key of the last lookup
          answer         \* what the last call returned

parserVars == << p_buffer_, p_section_, parsed, section, asked, answer >>

NotYet == << >>
No == [found |-> FALSE]
Yes == [found |-> TRUE]

ParserInit ==
  /\ p_buffer_ = NotYet /\ p_section_ = NotYet
  /\ parsed = NotYet /\ section = NotYet
  /\ asked = NotYet /\ answer = No

Answers(a) == asked' = NotYet /\ answer' = a

-----------------------------------------------------------------------------
(* The format, as the class and its test use it. *)

Quoted(s) == << "\"" >> \o s \o << "\"" >>
Blank == {" ", "\t", "\n", "\r"}
LineEnd == {"\n", "\r"}

(* A sheet is a sequence of sections with their entries.  A layout says    *)
(* whether comments stand between them, whether a comma follows the last   *)
(* entry, whether values are quoted, and what stands between the words.    *)
Layouts == [comment : BOOLEAN, comma : BOOLEAN, quoted : BOOLEAN,
            space : {<< >>, << " " >>}]

Comment == << "/", "/", "\"", "a", "\n" >>

EntryText(e, l) ==
  l.space \o Quoted(e.key) \o l.space \o << ":" >> \o l.space
  \o (IF l.quoted THEN Quoted(e.value) ELSE e.value)

Between(l) == << "," >> \o (IF l.comment THEN Comment ELSE << >>)

EntriesText(es, l) ==
  FoldLeftDomain(LAMBDA text, k :
    text \o EntryText(es[k], l)
         \o (IF k < Len(es) \/ l.comma THEN Between(l) ELSE << >>), << >>, es)

SectionText(s, l) ==
  << "[" >> \o l.space \o s.name \o << "]" >> \o l.space \o << "{" >>
  \o EntriesText(s.entries, l) \o << "}", "\n" >>

SheetText(sheet, l) ==
  FoldLeft(LAMBDA text, s : text \o SectionText(s, l),
           IF l.comment THEN Comment ELSE << >>, sheet)

-----------------------------------------------------------------------------
(* Parse. *)

(* A comment begins at // and lasts to the end of its line.                *)
Erase(at, k) ==
  LET text == at.text IN
  IF at.in /\ text[k] \notin LineEnd
    THEN [at EXCEPT !.text[k] = " "]
  ELSE IF ~at.in /\ k < Len(text) /\ text[k] = "/" /\ text[k + 1] = "/"
    THEN [text |-> [text EXCEPT ![k] = " "], in |-> TRUE]
  ELSE [at EXCEPT !.in = FALSE]

EraseComments(text) ==
  FoldLeftDomain(Erase, [text |-> text, in |-> FALSE], text).text

(* A second Parse leaves p_section_ where it is, in the text of the first. *)
Parse(file) ==
  /\ << parsed, section >> = << NotYet, NotYet >> \/ file \in Again
  /\ p_buffer_' = EraseComments(SheetText(file.sheet, file.layout))
  /\ parsed' = file
  /\ Answers(Yes)
  /\ UNCHANGED << p_section_, section >>

(* The file is not there; or it cannot be read to its end.                 *)
ParseFails ==
  /\ \/ UNCHANGED << p_buffer_, parsed >>
     \/ p_buffer_' = NotYet /\ parsed' = NotYet
  /\ Answers(No)
  /\ UNCHANGED << p_section_, section >>

-----------------------------------------------------------------------------
(* SetSection. *)

(* The ] of the [ at k, and the name between them without its blanks.      *)
CloseOf(k) ==
  CHOOSE c \in k..Len(p_buffer_) :
    p_buffer_[c] = "]" /\ \A j \in k..(c - 1) : p_buffer_[j] # "]"

NameAt(k) ==
  SelectSeq(SubSeq(p_buffer_, k + 1, CloseOf(k) - 1), LAMBDA c : c # " ")

Opens == { k \in DOMAIN p_buffer_ : p_buffer_[k] = "[" }

(* The search ends at the first such name, or at one too long.             *)
Matches(name) ==
  { k \in Opens :
      /\ NameAt(k) = name
      /\ \A j \in Opens : /\ j < k => NameAt(j) # name
                          /\ j <= k => Len(NameAt(j)) < MaxTextSize - 1 }

SetSection(name) ==
  \/ \E k \in Matches(name) :
       /\ p_section_' = SubSeq(p_buffer_, CloseOf(k) + 1, Len(p_buffer_))
       /\ section' = [file |-> parsed, name |-> name]
       /\ Answers(Yes)
       /\ UNCHANGED << p_buffer_, parsed >>
  \/ /\ Matches(name) = {}
     /\ Answers(No)
     /\ UNCHANGED << p_buffer_, p_section_, parsed, section >>

-----------------------------------------------------------------------------
(* GetValueBuffer. *)

(* The local variables at the start of the loop; end says that it is left. *)
Start == [in_quot |-> FALSE, should_read_value |-> FALSE,
          is_key_position |-> TRUE, scope_depth |-> 0, tmp |-> << >>,
          end |-> FALSE]

(* Mutant: what was read of another value stays in tmp_buffer.             *)
Quote_KeepsTmp(st, key) ==
  IF st.in_quot /\ st.is_key_position
    THEN [st EXCEPT !.in_quot = FALSE, !.tmp = << >>,
                    !.should_read_value = @ \/ st.tmp = key]
    ELSE [st EXCEPT !.in_quot = ~@]

(* A closing quote ends a key, or the value of another key.                *)
Quote(st, key) ==
  IF st.in_quot /\ st.is_key_position
    THEN [st EXCEPT !.in_quot = FALSE, !.tmp = << >>,
                    !.should_read_value = @ \/ st.tmp = key]
    ELSE [st EXCEPT !.in_quot = ~@,
                    !.tmp = IF st.in_quot /\ ~st.should_read_value THEN << >>
                                                                   ELSE @]

Wanted(st) == st.in_quot \/ st.should_read_value

(* One character.  Too long a text fails the lookup, whosever it is.       *)
Scan(st, c, key) ==
  CASE st.end \/ c \in Blank -> st
    [] c = "\"" -> Quote(st, key)
    [] c = "," -> [st EXCEPT !.is_key_position = TRUE,
                             !.end = st.should_read_value]
    [] c = ":" -> [st EXCEPT !.is_key_position = FALSE]
    [] c = "{" -> [st EXCEPT !.scope_depth = @ + 1]
    [] c = "}" -> [st EXCEPT !.scope_depth = @ - 1,
                             !.end = st.scope_depth = 1]
    [] OTHER -> IF ~Wanted(st) THEN st
                ELSE IF Len(st.tmp) >= MaxTextSize - 1
                  THEN [st EXCEPT !.end = TRUE, !.should_read_value = FALSE]
                  ELSE [st EXCEPT !.tmp = Append(@, c)]

GetValueBuffer(key) ==
  LET st == FoldLeft(LAMBDA s, c : Scan(s, c, key), Start, p_section_)
  IN  IF st.end /\ st.should_read_value THEN [found |-> TRUE, value |-> st.tmp]
                                        ELSE No

(* atoi: the digits a text begins with.                                    *)
Digit == [c \in {"1", "2"} |-> IF c = "1" THEN 1 ELSE 2]
Atoi(text) ==
  LET digits == { n \in 0..Len(text) :
                    \A i \in 1..n : text[i] \in DOMAIN Digit }
  IN  FoldLeft(LAMBDA sum, c : 10 * sum + Digit[c], 0,
               SubSeq(text, 1, CHOOSE n \in digits : n + 1 \notin digits))

GetStringValue(key) ==
  /\ asked' = key
  /\ answer' = GetValueBuffer(key)
  /\ UNCHANGED << p_buffer_, p_section_, parsed, section >>

GetIntValue(key) ==
  LET got == GetValueBuffer(key) IN
  /\ asked' = key
  /\ answer' = IF got.found THEN [found |-> TRUE, number |-> Atoi(got.value)]
                            ELSE No
  /\ UNCHANGED << p_buffer_, p_section_, parsed, section >>

ParserNext ==
  \/ \E file \in Files : Parse(file)
  \/ ParseFails
  \/ \E name \in Names :
       SetSection(name) \/ GetStringValue(name) \/ GetIntValue(name)

ParserSpec == ParserInit /\ [][ParserNext]_parserVars

-----------------------------------------------------------------------------
(* Properties. *)

Squeezed(text) == SelectSeq(text, LAMBDA c : c \notin Blank)
Unique(S) == CHOOSE x \in S : TRUE

(* The entries of the first section of that name.                          *)
EntriesOf(sheet, name) ==
  sheet[Unique({ k \in DOMAIN sheet :
                   /\ sheet[k].name = name
                   /\ \A j \in 1..(k - 1) : sheet[j].name # name })].entries

(* The first entry of that key, unless a text before it is too long for    *)
(* the parser.                                                             *)
Short(text) == Len(Squeezed(text)) < MaxTextSize
Reachable(es, k, key, layout) ==
  /\ es[k].key = key /\ Short(es[k].value)
  /\ \A j \in 1..k : Short(es[j].key)
  /\ \A j \in 1..(k - 1) :
       es[j].key # key /\ (layout.quoted => Short(es[j].value))

Expected ==
  LET es == EntriesOf(section.file.sheet, section.name)
      hits == { k \in DOMAIN es : Reachable(es, k, asked, section.file.layout) }
  IN  IF section = NotYet \/ hits = {} THEN {No}
      ELSE LET text == Squeezed(es[Unique(hits)].value) IN
           { [found |-> TRUE, value |-> text],
             [found |-> TRUE, number |-> Atoi(text)] }

(* Whatever the layout, a lookup answers what the section that was set     *)
(* last holds for the key: the first entry of that key, without its        *)
(* blanks, and never a value for a key, another section, a comment, or a   *)
(* file parsed since.                                                      *)
FindsWhatIsWritten == asked # NotYet => answer \in Expected

=============================================================================
