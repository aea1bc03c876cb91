-------------------------------- MODULE Reader --------------------------------
(***************************************************************************)
(* The character reader of src/crates/joker/src/reader.rs: lookahead over  *)
(* an iterator of characters, and the position in the source.              *)
(*                                                                         *)
(* The iterator yields one arbitrary character after the other, so the     *)
(* behaviours are those on every source text.  peek(n) draws characters    *)
(* until it has its answer; each is a step of its own, Draw.  The reader   *)
(* is specified for any client: the lexer is one.                          *)
(***************************************************************************)
EXTENDS Naturals, Sequences, FiniteSets

CONSTANTS
  Chars,  \* the characters; those named here are ends of lines
  Texts   \* bound: the sets of characters that may stand at each index of a text

ASSUME TextsAssumption == Texts \subseteq Seq(SUBSET Chars)

VARIABLES
  source,  \* the member of Texts that the source text follows
  text,    \* history: the characters that the iterator has yielded
  ended,   \* has the iterator yielded None?
  ahead,   \* Reader::ahead
  posn     \* Reader::curr_posn

readerVars == <<source, text, ended, ahead, posn>>

-----------------------------------------------------------------------------
\* Posn::origin
Origin == [offset |-> 0, line |-> 0, column |-> 0]

\* The characters that end a line by themselves; a carriage return does so
\* unless a line feed follows.
LineEnds == {"LF", "LS", "PS"}
Newlines == LineEnds \cup {"CR"}

\* What peek(n) answers once enough characters are drawn.
EndOfText == "end"
PeekAt(n) == IF n < Len(ahead) THEN ahead[n + 1] ELSE EndOfText

\* peek(n - 1) need draw no more.
Ahead(n) == Len(ahead) >= n \/ ended

ReaderInit ==
  /\ source \in Texts
  /\ text = <<>> /\ ended = FALSE
  /\ ahead = <<>>
  /\ posn = Origin

\* One iteration of the loop in Reader::peek.
Draw ==
  /\ ~ended
  /\ \/ /\ Len(text) < Len(source)
        /\ \E c \in source[Len(text) + 1] :
             text' = Append(text, c) /\ ahead' = Append(ahead, c)
        /\ UNCHANGED ended
     \/ ended' = TRUE /\ UNCHANGED <<text, ahead>>
  /\ UNCHANGED <<source, posn>>

\* Mutant of EndsLine: a carriage return ends a line whatever follows.
EndsLineAtReturn(c, next) == c \in Newlines

\* Does c, followed by next, end a line?
EndsLine(c, next) == c \in LineEnds \/ (c = "CR" /\ next # "LF")

\* The position after character c, followed by next.
Advanced(p, c, next) ==
  IF EndsLine(c, next)
  THEN [offset |-> p.offset + 1, line |-> p.line + 1, column |-> 0]
  ELSE [p EXCEPT !.offset = @ + 1, !.column = @ + 1]

\* The characters that next has to look at: a carriage return and its follower.
NextReady ==
  IF ahead = <<>> THEN ended ELSE Head(ahead) = "CR" => Ahead(2)

\* Reader::next, yielding a character.
NextChar ==
  /\ ahead # <<>> /\ NextReady
  /\ posn' = Advanced(posn, Head(ahead), PeekAt(1))
  /\ ahead' = Tail(ahead)
  /\ UNCHANGED <<source, text, ended>>

\* Reader::next at the end of the text: the position advances all the same.
NextEnd ==
  /\ ahead = <<>> /\ ended
  /\ posn' = Advanced(posn, EndOfText, EndOfText)
  /\ UNCHANGED <<source, text, ended, ahead>>

ReaderNext == Draw \/ NextChar \/ NextEnd

ReaderSpec == ReaderInit /\ [][ReaderNext]_readerVars

-----------------------------------------------------------------------------
ReaderTypeOK ==
  /\ source \in Texts
  /\ text \in Seq(Chars) /\ Len(text) <= Len(source)
  /\ ended \in BOOLEAN
  /\ ahead \in Seq(Chars)
  /\ posn \in [offset : Nat, line : Nat, column : Nat]

\* The character at index i of the text drawn ends a line of it.
LineEndsAt(i) ==
  /\ text[i] \in Newlines
  /\ ~(text[i] = "CR" /\ i < Len(text) /\ text[i + 1] = "LF")

\* The indices, up to n, of the characters that end a line, and of those that
\* are on the last line.
LineEndsUpTo(n) == {i \in 1 .. n : LineEndsAt(i)}
OnLastLine(n) == {i \in 1 .. n : \A j \in i .. n : ~LineEndsAt(j)}

(***************************************************************************)
(* However far the reader has looked ahead, its line is the number of      *)
(* lines that end in the text consumed and its column the number of        *)
(* characters since, with CRLF as one end of line, also where next was     *)
(* called on the CR before anything was known of the character after it;   *)
(* and the characters ahead are those that follow.                         *)
(***************************************************************************)
PositionsRight ==
  posn.offset <= Len(text) =>
    /\ ahead = SubSeq(text, posn.offset + 1, Len(text))
    /\ posn.line = Cardinality(LineEndsUpTo(posn.offset))
    /\ posn.column = Cardinality(OnLastLine(posn.offset))
=============================================================================
