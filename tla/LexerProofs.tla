----------------------------- MODULE LexerProofs -----------------------------
(***************************************************************************)
(* The reader first: its positions are right on every text and for every   *)
(* client.  Then, that the lexer is such a client: each of its steps draws *)
(* a character, takes one or leaves the reader alone, so the lexer         *)
(* implements the specification of the reader and inherits its theorems.   *)
(* Then, that the calls pending have the shape that read_next_token gives  *)
(* them: a loop over blanks and comments, then a token.  What the newline  *)
(* flag and empty_line say of the text follows from it.                    *)
(* Last, the values that the lexer computes: the variables keep their      *)
(* types (TypeInv), and an escape has the code point that its digits       *)
(* denote (EscapeInv).                                                     *)
(***************************************************************************)
EXTENDS Lexer, FiniteSetTheorems, SequenceTheorems, WellFoundedInduction, TLAPS

-----------------------------------------------------------------------------
(***************************************************************************)
(* The reader.                                                             *)
(*                                                                         *)
(* PositionsRight is not inductive.  A line must not come to end in what   *)
(* is consumed, or cease to end there, when one more character is drawn:   *)
(* only a carriage return depends on what follows, so the last character   *)
(* drawn is no carriage return consumed while more may be drawn (Settled). *)
(***************************************************************************)
\* What has been consumed and what is ahead make up the text.
Split ==
  /\ Len(ahead) = Len(text) - posn.offset
  /\ \A i \in 1 .. Len(ahead) : ahead[i] = text[posn.offset + i]

Counted ==
  /\ posn.line = Cardinality(LineEndsUpTo(posn.offset))
  /\ posn.column = Cardinality(OnLastLine(posn.offset))

Settled ==
  posn.offset = Len(text) /\ text # <<>> /\ text[Len(text)] = "CR" => ended

ReaderInv ==
  /\ ReaderTypeOK
  /\ posn.offset > Len(text) => ended /\ ahead = <<>>
  /\ posn.offset <= Len(text) => Split /\ Counted /\ Settled

-----------------------------------------------------------------------------
\* The line of the text up to and including index n + 1 is one more if a line
\* ends there.
LEMMA CountLines ==
  ASSUME NEW n \in Nat
  PROVE  /\ IsFiniteSet(LineEndsUpTo(n))
         /\ Cardinality(LineEndsUpTo(n + 1)) =
              Cardinality(LineEndsUpTo(n)) + (IF LineEndsAt(n + 1) THEN 1 ELSE 0)
<1>1. IsFiniteSet(LineEndsUpTo(n))
  <2>1. LineEndsUpTo(n) \subseteq 1 .. n
    BY DEF LineEndsUpTo
  <2> QED BY <2>1, FS_Interval, FS_Subset
<1>2. CASE LineEndsAt(n + 1)
  <2>1. LineEndsUpTo(n + 1) = LineEndsUpTo(n) \cup {n + 1}
    BY <1>2 DEF LineEndsUpTo
  <2>2. n + 1 \notin LineEndsUpTo(n)
    BY DEF LineEndsUpTo
  <2> QED BY <1>1, <1>2, <2>1, <2>2, FS_AddElement
<1>3. CASE ~LineEndsAt(n + 1)
  <2>1. LineEndsUpTo(n + 1) = LineEndsUpTo(n)
    BY <1>3 DEF LineEndsUpTo
  <2>2. Cardinality(LineEndsUpTo(n)) \in Nat
    BY <1>1, FS_CardinalityType
  <2> QED BY <1>1, <1>3, <2>1, <2>2
<1> QED BY <1>2, <1>3

\* And the last line of it is then empty, or one character longer.
LEMMA CountColumn ==
  ASSUME NEW n \in Nat
  PROVE  Cardinality(OnLastLine(n + 1)) =
           IF LineEndsAt(n + 1) THEN 0 ELSE Cardinality(OnLastLine(n)) + 1
<1>1. IsFiniteSet(OnLastLine(n))
  <2>1. OnLastLine(n) \subseteq 1 .. n
    BY DEF OnLastLine
  <2> QED BY <2>1, FS_Interval, FS_Subset
<1>2. CASE LineEndsAt(n + 1)
  <2>1. OnLastLine(n + 1) = {}
    BY <1>2 DEF OnLastLine
  <2> QED BY <1>2, <2>1, FS_EmptySet
<1>3. CASE ~LineEndsAt(n + 1)
  <2>1. OnLastLine(n + 1) = OnLastLine(n) \cup {n + 1}
    BY <1>3 DEF OnLastLine
  <2>2. n + 1 \notin OnLastLine(n)
    BY DEF OnLastLine
  <2> QED BY <1>1, <1>3, <2>1, <2>2, FS_AddElement
<1> QED BY <1>2, <1>3

\* Advanced moves to the next line, or to the next column.
LEMMA AdvancedPosition ==
  ASSUME NEW p \in [offset : Nat, line : Nat, column : Nat], NEW c, NEW next
  PROVE  /\ Advanced(p, c, next) \in [offset : Nat, line : Nat, column : Nat]
         /\ Advanced(p, c, next).offset = p.offset + 1
         /\ Advanced(p, c, next).line = p.line + (IF EndsLine(c, next) THEN 1 ELSE 0)
         /\ Advanced(p, c, next).column = IF EndsLine(c, next) THEN 0 ELSE p.column + 1
<1>1. CASE EndsLine(c, next)
  BY <1>1 DEF Advanced
<1>2. CASE ~EndsLine(c, next)
  <2>1. Advanced(p, c, next) =
          [offset |-> p.offset + 1, line |-> p.line, column |-> p.column + 1]
    BY <1>2 DEF Advanced
  <2> QED BY <1>2, <2>1
<1> QED BY <1>1, <1>2

LEMMA InitInv == ReaderInit => ReaderInv
<1> SUFFICES ASSUME ReaderInit PROVE ReaderInv
  OBVIOUS
<1>1. ReaderTypeOK
  <2>1. Len(source) \in Nat
    BY TextsAssumption DEF ReaderInit
  <2>2. <<>> \in Seq(Chars) /\ Len(<<>>) = 0
    OBVIOUS
  <2>3. posn \in [offset : Nat, line : Nat, column : Nat]
    BY DEF ReaderInit, Origin
  <2>4. text \in Seq(Chars) /\ ahead \in Seq(Chars) /\ Len(text) <= Len(source)
    BY <2>1, <2>2 DEF ReaderInit
  <2>5. source \in Texts /\ ended \in BOOLEAN
    BY DEF ReaderInit
  <2> QED BY <2>3, <2>4, <2>5 DEF ReaderTypeOK
<1>2. LineEndsUpTo(0) = {} /\ OnLastLine(0) = {}
  BY DEF LineEndsUpTo, OnLastLine
<1>3. text = <<>> /\ ahead = <<>>
  BY DEF ReaderInit
<1>4. posn.offset = 0 /\ posn.line = 0 /\ posn.column = 0
  BY DEF ReaderInit, Origin
<1>5. Split /\ Settled
  BY <1>3, <1>4 DEF Split, Settled
<1>6. Counted
  BY <1>2, <1>4, FS_EmptySet DEF Counted
<1> QED BY <1>1, <1>3, <1>4, <1>5, <1>6 DEF ReaderInv

-----------------------------------------------------------------------------
LEMMA DrawTypeOK == ReaderTypeOK /\ Draw => ReaderTypeOK'
<1> SUFFICES ASSUME ReaderTypeOK, Draw PROVE ReaderTypeOK'
  OBVIOUS
<1>1. CASE ended' = TRUE /\ UNCHANGED <<text, ahead>>
  BY <1>1 DEF ReaderTypeOK, Draw
<1>2. ASSUME Len(text) < Len(source), NEW c \in source[Len(text) + 1],
             text' = Append(text, c), ahead' = Append(ahead, c), ended' = ended
      PROVE  ReaderTypeOK'
  <2>1. source \in Seq(SUBSET Chars)
    BY TextsAssumption DEF ReaderTypeOK
  <2>2. c \in Chars
    BY <1>2, <2>1 DEF ReaderTypeOK
  <2> QED BY <1>2, <2>1, <2>2 DEF ReaderTypeOK, Draw
<1> QED BY <1>1, <1>2 DEF Draw

LEMMA DrawInv == ReaderInv /\ Draw => ReaderInv'
<1> SUFFICES ASSUME ReaderInv, Draw PROVE ReaderInv'
  OBVIOUS
<1> USE DEF ReaderTypeOK
<1>1. ReaderTypeOK'
  BY DrawTypeOK DEF ReaderInv
<1>2. posn' = posn /\ posn.offset <= Len(text) /\ posn.offset \in Nat
  BY DEF ReaderInv, Draw
<1>3. CASE ended' = TRUE /\ UNCHANGED <<text, ahead>>
  BY <1>1, <1>2, <1>3 DEF ReaderInv, Split, Counted, Settled, LineEndsUpTo,
       OnLastLine, LineEndsAt
<1>4. ASSUME NEW c, text' = Append(text, c), ahead' = Append(ahead, c), ended' = ended
      PROVE  ReaderInv'
  <2>1. Len(text') = Len(text) + 1 /\ \A i \in 1 .. Len(text) : text'[i] = text[i]
    BY <1>4
  <2>2. Split'
    BY <1>1, <1>2, <1>4, <2>1 DEF ReaderInv, Split
  <2>3. \A i \in 1 .. posn.offset : LineEndsAt(i)' <=> LineEndsAt(i)
    <3> SUFFICES ASSUME NEW i \in 1 .. posn.offset
                 PROVE  LineEndsAt(i)' <=> LineEndsAt(i)
      OBVIOUS
    <3>1. CASE i < Len(text)
      BY <1>2, <2>1, <3>1 DEF LineEndsAt
    <3>2. CASE i = Len(text)
      <4>1. posn.offset = Len(text) /\ text # <<>>
        BY <1>2, <3>2
      <4>2. text[i] # "CR"
        BY <3>2, <4>1 DEF ReaderInv, Settled, Draw
      <4> QED BY <1>2, <2>1, <3>2, <4>2 DEF LineEndsAt
    <3> QED BY <1>2, <3>1, <3>2
  <2>4. /\ LineEndsUpTo(posn.offset)' = LineEndsUpTo(posn.offset)
        /\ OnLastLine(posn.offset)' = OnLastLine(posn.offset)
    BY <1>2, <2>3 DEF LineEndsUpTo, OnLastLine
  <2>5. Counted'
    BY <1>2, <2>4 DEF ReaderInv, Counted
  <2> QED BY <1>1, <1>2, <2>1, <2>2, <2>5 DEF ReaderInv, Settled
<1> QED BY <1>3, <1>4 DEF Draw

-----------------------------------------------------------------------------
LEMMA NextCharTypeOK == ReaderTypeOK /\ NextChar => ReaderTypeOK'
<1> SUFFICES ASSUME ReaderTypeOK, NextChar PROVE ReaderTypeOK'
  OBVIOUS
<1>1. posn' \in [offset : Nat, line : Nat, column : Nat]
  BY AdvancedPosition DEF ReaderTypeOK, NextChar
<1> QED BY <1>1 DEF ReaderTypeOK, NextChar

\* What next decides about the character consumed is what the text says of it.
LEMMA DecidesRight ==
  ReaderInv /\ NextChar =>
    /\ posn.offset < Len(text)
    /\ EndsLine(Head(ahead), PeekAt(1)) <=> LineEndsAt(posn.offset + 1)
    /\ posn.offset + 1 = Len(text) /\ text[Len(text)] = "CR" => ended
<1> SUFFICES ASSUME ReaderInv, NextChar
             PROVE  /\ posn.offset < Len(text)
                    /\ EndsLine(Head(ahead), PeekAt(1)) <=> LineEndsAt(posn.offset + 1)
                    /\ posn.offset + 1 = Len(text) /\ text[Len(text)] = "CR" => ended
  OBVIOUS
<1> USE DEF ReaderTypeOK
<1>1. posn.offset \in Nat /\ Len(text) \in Nat /\ Len(ahead) \in Nat
  BY DEF ReaderInv
<1>2. ahead # <<>> /\ Len(ahead) > 0
  BY DEF ReaderInv, NextChar
<1>3. posn.offset <= Len(text) /\ Split
  BY <1>1, <1>2 DEF ReaderInv
<1>4. Head(ahead) = text[posn.offset + 1] /\ posn.offset < Len(text)
  BY <1>1, <1>2, <1>3 DEF ReaderInv, Split
<1>5. CASE posn.offset + 1 < Len(text)
  <2>1. Len(ahead) > 1 /\ PeekAt(1) = text[posn.offset + 2]
    BY <1>1, <1>3, <1>5 DEF Split, PeekAt
  <2> QED BY <1>1, <1>4, <1>5, <2>1 DEF EndsLine, LineEndsAt, LineEnds, Newlines
<1>6. CASE posn.offset + 1 = Len(text)
  <2>1. Len(ahead) = 1
    BY <1>1, <1>3, <1>6 DEF Split
  <2>2. PeekAt(1) = "end"
    BY <2>1 DEF PeekAt, EndOfText
  <2>3. Head(ahead) = "CR" => ended
    BY <1>2, <2>1 DEF NextChar, NextReady, Ahead
  <2> QED BY <1>1, <1>4, <1>6, <2>2, <2>3 DEF EndsLine, LineEndsAt, LineEnds, Newlines
<1> QED BY <1>1, <1>4, <1>5, <1>6

LEMMA NextCharInv == ReaderInv /\ NextChar => ReaderInv'
<1> SUFFICES ASSUME ReaderInv, NextChar PROVE ReaderInv'
  OBVIOUS
<1> USE DEF ReaderTypeOK
<1>1. ReaderTypeOK'
  BY NextCharTypeOK DEF ReaderInv
<1>2. posn \in [offset : Nat, line : Nat, column : Nat] /\ text' = text /\ ended' = ended
  BY DEF ReaderInv, NextChar
<1>3. /\ posn.offset < Len(text)
      /\ EndsLine(Head(ahead), PeekAt(1)) <=> LineEndsAt(posn.offset + 1)
      /\ posn.offset + 1 = Len(text) /\ text[Len(text)] = "CR" => ended
  BY DecidesRight
<1>4. /\ posn'.offset = posn.offset + 1
      /\ posn'.line = posn.line + (IF LineEndsAt(posn.offset + 1) THEN 1 ELSE 0)
      /\ posn'.column = IF LineEndsAt(posn.offset + 1) THEN 0 ELSE posn.column + 1
  BY <1>2, <1>3, AdvancedPosition DEF NextChar
<1>5. Split'
  <2>1. ahead' = Tail(ahead) /\ ahead # <<>>
    BY DEF NextChar
  <2>2. Len(ahead') = Len(ahead) - 1 /\ \A i \in 1 .. Len(ahead') : ahead'[i] = ahead[i + 1]
    BY <2>1 DEF ReaderInv
  <2>3. Split /\ posn.offset \in Nat /\ Len(text) \in Nat /\ Len(ahead) \in Nat
    BY <1>2, <1>3 DEF ReaderInv
  <2>4. Len(ahead') = Len(text) - (posn.offset + 1)
    BY <2>2, <2>3 DEF Split
  <2>5. ASSUME NEW i \in 1 .. Len(ahead')
        PROVE  ahead'[i] = text[(posn.offset + 1) + i]
    <3>1. i \in 1 .. Len(ahead) - 1
      BY <2>2, <2>5
    <3>2. i + 1 \in 1 .. Len(ahead) /\ posn.offset + (i + 1) = (posn.offset + 1) + i
      BY <2>3, <3>1
    <3>3. ahead'[i] = ahead[i + 1]
      BY <2>2, <2>5
    <3> QED BY <2>3, <3>2, <3>3 DEF Split
  <2> QED BY <1>2, <1>4, <2>4, <2>5 DEF Split
<1>6. Counted'
  <2>1. /\ LineEndsUpTo(posn.offset)' = LineEndsUpTo(posn.offset + 1)
        /\ OnLastLine(posn.offset)' = OnLastLine(posn.offset + 1)
    <3>1. \A i : LineEndsAt(i)' <=> LineEndsAt(i)
      BY <1>2 DEF LineEndsAt
    <3>2. posn'.offset = posn.offset + 1
      BY <1>4
    <3> QED BY <3>1, <3>2 DEF LineEndsUpTo, OnLastLine
  <2>2. posn.offset \in Nat /\ Counted
    BY <1>2, <1>3 DEF ReaderInv
  <2>3. posn'.line = Cardinality(LineEndsUpTo(posn.offset + 1))
    BY <1>4, <2>2, CountLines DEF Counted
  <2>4. posn'.column = Cardinality(OnLastLine(posn.offset + 1))
    BY <1>4, <2>2, CountColumn DEF Counted
  <2> QED BY <2>1, <2>3, <2>4 DEF Counted
<1>7. Settled'
  BY <1>2, <1>3, <1>4 DEF Settled
<1> QED BY <1>1, <1>2, <1>3, <1>4, <1>5, <1>6, <1>7 DEF ReaderInv

LEMMA NextEndInv == ReaderInv /\ NextEnd => ReaderInv'
<1> SUFFICES ASSUME ReaderInv, NextEnd PROVE ReaderInv'
  OBVIOUS
<1>1. posn' \in [offset : Nat, line : Nat, column : Nat] /\ posn'.offset = posn.offset + 1
  BY AdvancedPosition DEF ReaderInv, ReaderTypeOK, NextEnd
<1>2. posn.offset >= Len(text)
  BY DEF ReaderInv, ReaderTypeOK, NextEnd, Split
<1> QED BY <1>1, <1>2 DEF ReaderInv, ReaderTypeOK, NextEnd

-----------------------------------------------------------------------------
\* The inductive invariant of the reader, with its types.
THEOREM ReaderCorrect == ReaderSpec => []ReaderInv
<1>1. ReaderInv /\ [ReaderNext]_readerVars => ReaderInv'
  <2> SUFFICES ASSUME ReaderInv, [ReaderNext]_readerVars PROVE ReaderInv'
    OBVIOUS
  <2>1. CASE UNCHANGED readerVars
    BY <2>1 DEF ReaderInv, ReaderTypeOK, Split, Counted, Settled, LineEndsUpTo,
         OnLastLine, LineEndsAt, readerVars
  <2> QED BY <2>1, DrawInv, NextCharInv, NextEndInv DEF ReaderNext
<1> QED BY <1>1, InitInv, PTL DEF ReaderSpec

\* The position, the text and the characters looked at keep their types.
THEOREM ReaderTypeCorrect == ReaderSpec => []ReaderTypeOK
<1>1. ReaderInv => ReaderTypeOK
  BY DEF ReaderInv
<1> QED BY <1>1, ReaderCorrect, PTL

LEMMA InvImpliesPositions == ReaderInv => PositionsRight
<1> SUFFICES ASSUME ReaderInv, posn.offset <= Len(text)
             PROVE  ahead = SubSeq(text, posn.offset + 1, Len(text))
  BY DEF ReaderInv, PositionsRight, Counted
<1>1. posn.offset \in Nat /\ text \in Seq(Chars) /\ ahead \in Seq(Chars) /\ Split
  BY DEF ReaderInv, ReaderTypeOK
<1> DEFINE rest == SubSeq(text, posn.offset + 1, Len(text))
<1>2. \A i \in posn.offset + 1 .. Len(text) : text[i] \in Chars
  BY <1>1
<1>3. /\ rest \in Seq(Chars)
      /\ Len(rest) = Len(ahead)
      /\ \A i \in 1 .. Len(ahead) : rest[i] = ahead[i]
  BY <1>1, <1>2 DEF Split
<1> HIDE DEF rest
<1> QED BY <1>1, <1>3, SeqEqual DEF rest

\* However far the reader has looked ahead, line and column count the lines of
\* the text consumed, a CRLF once.
THEOREM PositionsCorrect == ReaderSpec => []PositionsRight
BY ReaderCorrect, InvImpliesPositions, PTL

-----------------------------------------------------------------------------
(***************************************************************************)
(* The lexer as a client of the reader.                                    *)
(***************************************************************************)
\* What a step of the lexer may do to the reader.
ReaderStep == [ReaderNext]_readerVars

\* The ways in which a call returns.
LEMMA ConsumeReads == ASSUME NEW calls, Consume(calls) PROVE ReaderStep
BY DEF Consume, ReaderStep, ReaderNext

LEMMA StayReadsNothing == ASSUME NEW calls, Stay(calls) PROVE ReaderStep
BY DEF Stay, ReaderStep

LEMMA FailReadsNothing == ASSUME NEW e, Fail(e) PROVE ReaderStep
BY DEF Fail, ReaderStep

-----------------------------------------------------------------------------
LEMMA BlankReads ==
  SkipBlank \/ SkipNewline \/ SkipComment \/ LineComment \/ BlockComment \/ StartToken
    => ReaderStep
<1>1. SkipBlank => ReaderStep
  BY ConsumeReads, Zenon DEF SkipBlank
<1>2. SkipNewline => ReaderStep
  BY DEF SkipNewline, ReaderStep, ReaderNext
<1>3. SkipComment => ReaderStep
  BY StayReadsNothing, Zenon DEF SkipComment
<1>4. LineComment => ReaderStep
  BY ConsumeReads, StayReadsNothing, Zenon DEF LineComment
<1>5. BlockComment => ReaderStep
  <2>1. NextChar => ReaderStep
    BY DEF ReaderStep, ReaderNext
  <2> QED BY <2>1, StayReadsNothing, FailReadsNothing, Zenon DEF BlockComment
<1>6. StartToken => ReaderStep
  BY DEF StartToken, ReaderStep
<1> QED BY <1>1, <1>2, <1>3, <1>4, <1>5, <1>6

LEMMA TokenReads ==
  ReadToken \/ IllegalChar \/ EndToken \/ Shift \/ MatchesEquals => ReaderStep
<1>1. ReadToken => ReaderStep
  BY ConsumeReads, StayReadsNothing, Zenon DEF ReadToken
<1>2. IllegalChar => ReaderStep
  BY FailReadsNothing, Zenon DEF IllegalChar
<1>3. EndToken => ReaderStep
  BY DEF EndToken, ReaderStep
<1>4. Shift => ReaderStep
  BY StayReadsNothing, Zenon DEF Shift
<1>5. MatchesEquals => ReaderStep
  BY ConsumeReads, StayReadsNothing, Zenon DEF MatchesEquals
<1> QED BY <1>1, <1>2, <1>3, <1>4, <1>5

LEMMA WordReads ==
  RegExp \/ Backslash \/ RegExpClass \/ WordParts \/ WordEscape \/ Tokenize => ReaderStep
<1> USE ConsumeReads, StayReadsNothing, FailReadsNothing
<1>1. RegExp => ReaderStep
  BY Zenon DEF RegExp, AssertionFails
<1>2. Backslash => ReaderStep
  BY Zenon DEF Backslash
<1>3. RegExpClass => ReaderStep
  BY Zenon DEF RegExpClass, AssertionFails
<1>4. WordParts => ReaderStep
  BY Zenon DEF WordParts
<1>5. WordEscape => ReaderStep
  BY Zenon DEF WordEscape
<1>6. Tokenize => ReaderStep
  BY Zenon DEF Tokenize
<1> QED BY <1>1, <1>2, <1>3, <1>4, <1>5, <1>6, Zenon

LEMMA StringReads ==
  StringChars \/ StringEscape \/ OctalEscape \/ ReadDigitInto \/ UnicodeEscape
    \/ Braces \/ AddDigits \/ CharFromU32 => ReaderStep
<1> USE ConsumeReads, StayReadsNothing, FailReadsNothing
<1>1. StringChars => ReaderStep
  BY Zenon DEF StringChars
<1>2. StringEscape => ReaderStep
  BY Zenon DEF StringEscape
<1>3. OctalEscape => ReaderStep
  BY Zenon DEF OctalEscape
<1>4. ReadDigitInto => ReaderStep
  BY Zenon DEF ReadDigitInto
<1>5. UnicodeEscape => ReaderStep
  BY Zenon DEF UnicodeEscape
<1>6. Braces => ReaderStep
  BY Zenon DEF Braces, AssertionFails
<1>7. AddDigits => ReaderStep
  BY Zenon DEF AddDigits
<1>8. CharFromU32 => ReaderStep
  BY Zenon DEF CharFromU32
<1> QED BY <1>1, <1>2, <1>3, <1>4, <1>5, <1>6, <1>7, <1>8, Zenon

LEMMA NumberReads ==
  Number \/ Decimal \/ Fraction \/ ExpPart \/ ExpSign \/ ExpDigits \/ NumberEnd
    => ReaderStep
<1> USE ConsumeReads, StayReadsNothing, FailReadsNothing
<1>1. Number => ReaderStep
  BY Zenon DEF Number
<1>2. Decimal => ReaderStep
  BY Zenon DEF Decimal
<1>3. Fraction => ReaderStep
  BY Zenon DEF Fraction
<1>4. ExpPart => ReaderStep
  BY Zenon DEF ExpPart
<1>5. ExpSign => ReaderStep
  BY Zenon DEF ExpSign
<1>6. ExpDigits => ReaderStep
  BY Zenon DEF ExpDigits
<1>7. NumberEnd => ReaderStep
  BY Zenon DEF NumberEnd
<1> QED BY <1>1, <1>2, <1>3, <1>4, <1>5, <1>6, <1>7, Zenon

LEMMA LexerStepReads == LexerStep => ReaderStep
<1>1. PeekMore => ReaderStep
  BY DEF PeekMore, ReaderStep, ReaderNext
<1>2. SkipChars \/ ReadWhileChars => ReaderStep
  BY ConsumeReads, StayReadsNothing, Zenon DEF SkipChars, ReadWhileChars
<1> QED BY <1>1, <1>2, BlankReads, TokenReads, WordReads, StringReads, NumberReads,
        Zenon DEF LexerStep

-----------------------------------------------------------------------------
(***************************************************************************)
(* Every behaviour of the lexer is one of the reader, whatever it lexes    *)
(* and whatever its client asks for: the lexer touches ahead and posn only *)
(* through peek and next.                                                  *)
(***************************************************************************)
THEOREM LexerImplementsReader == LexerSpec => ReaderSpec
<1>1. LexerInit => ReaderInit
  BY DEF LexerInit
<1>2. [LexerNext]_lexerVars => [ReaderNext]_readerVars
  <2>1. Request \/ Finished \/ UNCHANGED lexerVars => ReaderStep
    BY DEF Request, Finished, lexerVars, ReaderStep
  <2> QED BY <2>1, LexerStepReads, Zenon DEF LexerNext, ReaderStep
<1> QED BY <1>1, <1>2, PTL DEF LexerSpec, ReaderSpec

(***************************************************************************)
(* The line and column that spans and errors report are those of the       *)
(* source, through every function of the lexer.                            *)
(***************************************************************************)
THEOREM LexerPositionsCorrect == LexerSpec => []PositionsRight
BY LexerImplementsReader, PositionsCorrect, PTL

-----------------------------------------------------------------------------
(***************************************************************************)
(* The calls that read_next_token makes, by what is read with them.        *)
(***************************************************************************)
\* The functions that skip a comment, and those called within a token.
CommentFns == {"skip", "line_comment", "block_comment"}
InnerFns == PlainFns \cup {"skip", "read_while", "digit", "from_u32", "string"}

\* The loop over blanks and comments is under way.
Skipping ==
  /\ Len(todo) > 1
  /\ todo[Len(todo)] = Call("token") /\ todo[Len(todo) - 1] = Call("blank")
  /\ \A i \in 1 .. Len(todo) - 2 :
       todo[i].fn \in CommentFns /\ (i > 1 => todo[i].fn # "skip")

\* A token is being read.
InToken ==
  /\ todo # <<>>
  /\ \A i \in 1 .. Len(todo) - 1 : todo[i].fn \in InnerFns
  /\ todo[Len(todo)].fn \in {"token", "end"}

\* A newline is among the characters of the text from the end of the last token
\* to offset n.
NewlineUpTo(n) == \E i \in token.end.offset + 1 .. n : text[i] \in Newlines

\* A carriage return is consumed, and the line feed that belongs to it is not.
AtLineFeed == todo # <<>> /\ This.fn = "blank" /\ ahead # <<>> /\ Head(ahead) = "LF"

\* What the next characters are is known while the calls skip them.
Skipped ==
  todo # <<>> /\ This.fn = "skip" =>
    /\ This.n \in 1 .. Len(ahead)
    /\ \A i \in 1 .. This.n : ahead[i] \notin Newlines

SkippingInv ==
  /\ newline => NewlineUpTo(posn.offset)
  /\ NewlineUpTo(posn.offset) => newline \/ AtLineFeed
  /\ Skipped

InTokenInv ==
  /\ ~empty_line
  /\ start.offset <= Len(text)
  /\ newline <=> NewlineUpTo(start.offset)

\* A token that has been read is where the reader is.
Phases ==
  Running =>
    \/ todo = <<>> /\ posn.offset = token.end.offset
    \/ Skipping /\ SkippingInv
    \/ InToken /\ InTokenInv

\* Nothing is taken at the end of the text, and the last token is behind.
Behind ==
  /\ posn.offset <= Len(text)
  /\ token.end.offset \in 0 .. posn.offset
  /\ token.end.line \in 0 .. posn.line
  /\ EmptyLineSound

LexerTypes ==
  /\ todo \in Seq(LexerCall)
  /\ newline \in BOOLEAN /\ empty_line \in BOOLEAN
  /\ start.offset \in Nat

LexerInv == ReaderInv /\ LexerTypes /\ Behind /\ Phases

-----------------------------------------------------------------------------
(***************************************************************************)
(* The steps that any call may take.                                       *)
(***************************************************************************)
\* What the reader keeps, the lexer keeps.
LEMMA ReaderStepInv == ReaderInv /\ ReaderStep => ReaderInv'
<1> SUFFICES ASSUME ReaderInv, ReaderStep PROVE ReaderInv'
  OBVIOUS
<1>1. CASE UNCHANGED readerVars
  BY <1>1 DEF ReaderInv, ReaderTypeOK, Split, Counted, Settled, LineEndsUpTo,
       OnLastLine, LineEndsAt, readerVars
<1> QED BY <1>1, DrawInv, NextCharInv, NextEndInv DEF ReaderStep, ReaderNext

\* The calls after some are put in the place of the one at hand.
LEMMA ThenCalls ==
  ASSUME todo \in Seq(LexerCall), todo # <<>>, NEW calls \in Seq(LexerCall),
         Then(calls)
  PROVE  /\ todo' \in Seq(LexerCall)
         /\ Len(todo') = Len(calls) + Len(todo) - 1
         /\ \A i \in 1 .. Len(calls) : todo'[i] = calls[i]
         /\ \A i \in 1 .. Len(todo) - 1 : todo'[Len(calls) + i] = todo[i + 1]
         /\ calls # <<>> \/ Len(todo) > 1 => todo' # <<>>
         /\ calls = <<>> /\ Len(todo) = 1 => todo' = <<>>
         /\ This = todo[1]
<1>1. /\ Tail(todo) \in Seq(LexerCall) /\ Len(Tail(todo)) = Len(todo) - 1
      /\ \A i \in 1 .. Len(todo) - 1 : Tail(todo)[i] = todo[i + 1]
  OBVIOUS
<1> DEFINE t == Tail(todo)
<1>2. /\ calls \o t \in Seq(LexerCall) /\ Len(calls \o t) = Len(calls) + Len(t)
      /\ \A i \in 1 .. Len(calls) : (calls \o t)[i] = calls[i]
      /\ \A i \in 1 .. Len(t) : (calls \o t)[Len(calls) + i] = t[i]
  <2> HIDE DEF t
  <2>1. t \in Seq(LexerCall)
    BY <1>1 DEF t
  <2> QED BY <2>1
<1>3. todo' = calls \o t
  BY DEF Then
<1>4. /\ Len(todo) \in Nat /\ Len(todo) > 0 /\ Len(calls) \in Nat
      /\ Len(calls) = 0 => calls = <<>>
  OBVIOUS
<1>5. Len(todo') = Len(calls) + Len(todo) - 1 /\ todo' \in Seq(LexerCall)
  BY <1>1, <1>2, <1>3
<1>6. calls # <<>> \/ Len(todo) > 1 => todo' # <<>>
  BY <1>4, <1>5
<1>7. calls = <<>> /\ Len(todo) = 1 => todo' = <<>>
  BY <1>4, <1>5
<1>8. This = todo[1]
  BY DEF This
<1> QED BY <1>1, <1>2, <1>3, <1>5, <1>6, <1>7, <1>8

\* What taking a character does to the position.
LEMMA Taken ==
  ASSUME ReaderInv, posn.offset <= Len(text), NextChar
  PROVE  /\ ahead \in Seq(Chars) /\ ahead # <<>> /\ ahead' = Tail(ahead)
         /\ text' = text /\ ended' = ended
         /\ posn.offset \in Nat /\ posn.line \in Nat
         /\ posn'.offset = posn.offset + 1 /\ posn'.offset <= Len(text)
         /\ text[posn.offset + 1] = Head(ahead) /\ Next1 = Head(ahead)
         /\ posn'.line \in {posn.line, posn.line + 1}
         /\ EndsLine(Head(ahead), PeekAt(1)) => posn'.line = posn.line + 1
<1>1. /\ ahead \in Seq(Chars) /\ ahead # <<>> /\ Split /\ text \in Seq(Chars)
      /\ posn \in [offset : Nat, line : Nat, column : Nat]
  BY DEF ReaderInv, ReaderTypeOK, NextChar
<1>2. posn.offset \in Nat /\ posn.line \in Nat
  BY <1>1
<1>3. posn' = Advanced(posn, Head(ahead), PeekAt(1)) /\ ahead' = Tail(ahead) /\ text' = text
      /\ ended' = ended
  BY DEF NextChar
<1>4. /\ posn'.offset = posn.offset + 1
      /\ posn'.line \in {posn.line, posn.line + 1}
      /\ EndsLine(Head(ahead), PeekAt(1)) => posn'.line = posn.line + 1
  BY <1>1, <1>3 DEF Advanced
<1>5. /\ Len(ahead) = Len(text) - posn.offset /\ Len(ahead) > 0
      /\ text[posn.offset + 1] = ahead[1]
  BY <1>1 DEF Split
<1>6. Head(ahead) = ahead[1] /\ Next1 = ahead[1]
  BY <1>1, <1>5 DEF Next1, PeekAt
<1> QED BY <1>1, <1>2, <1>3, <1>4, <1>5, <1>6

\* The errors and panics.
LEMMA FailInv == ASSUME LexerInv, NEW e, e # "lexing", Fail(e) PROVE LexerInv'
<1>1. ReaderInv'
  BY FailReadsNothing, ReaderStepInv, Zenon DEF LexerInv
<1> QED BY <1>1 DEF LexerInv, LexerTypes, Behind, Phases, Running, Fail, EmptyLineSound,
         readerVars

\* The position moves on by a character at most, and the rest stays: so the
\* token read last stays behind.
LEMMA StaysBehind ==
  ASSUME LexerInv, NextChar \/ UNCHANGED readerVars,
         \/ UNCHANGED <<token, empty_line>>
         \/ token.end.line < posn'.line /\ UNCHANGED token
  PROVE  /\ ReaderInv' /\ Behind' /\ text' = text
         /\ posn.offset \in Nat
<1>1. ReaderInv /\ posn.offset <= Len(text) /\ posn.offset \in Nat /\ posn.line \in Nat
  BY DEF LexerInv, Behind, ReaderInv, ReaderTypeOK
<1>2. ReaderStep
  BY DEF ReaderStep, ReaderNext
<1>3. CASE NextChar
  <2>1. /\ posn'.offset = posn.offset + 1 /\ posn'.offset <= Len(text) /\ text' = text
        /\ posn'.line \in {posn.line, posn.line + 1}
    BY <1>1, <1>3, Taken
  <2> QED BY <1>1, <1>2, <2>1, ReaderStepInv DEF LexerInv, Behind, EmptyLineSound
<1>4. CASE UNCHANGED readerVars
  BY <1>1, <1>2, <1>4, ReaderStepInv DEF LexerInv, Behind, EmptyLineSound, readerVars
<1> QED BY <1>3, <1>4

\* The names of the calls within a token.
LEMMA InnerCallFns == \A c \in InnerCall : c.fn \in InnerFns
BY DEF InnerCall, InnerFns

\* A function that is called within a token returns, after making others of the
\* kind, and has taken a character or none.
LEMMA InnerStep ==
  ASSUME LexerInv, Running, todo # <<>>, InToken, This.fn \in InnerFns,
         NEW calls \in Seq(InnerCall), Consume(calls) \/ Stay(calls)
  PROVE  LexerInv'
<1>1. /\ UNCHANGED tokenVars /\ Then(calls)
      /\ NextChar \/ UNCHANGED readerVars
  BY DEF Consume, Stay
<1>2. ReaderInv' /\ Behind' /\ text' = text
  BY <1>1, StaysBehind DEF tokenVars
<1>3. calls \in Seq(LexerCall) /\ todo \in Seq(LexerCall)
  BY DEF LexerCall, LexerInv, LexerTypes
<1>4. LexerTypes'
  BY <1>1, <1>3, ThenCalls DEF LexerInv, LexerTypes, tokenVars
<1>5. \A i \in 1 .. Len(calls) : calls[i].fn \in InnerFns
  BY InnerCallFns
<1>6. InToken'
  <2>1. Len(todo) > 1 /\ This = todo[1] /\ Len(todo) \in Nat /\ Len(calls) \in Nat
    BY <1>3 DEF InToken, InnerFns, PlainFns, This
  <2>2. /\ todo' # <<>> /\ Len(todo') = Len(calls) + Len(todo) - 1
        /\ \A i \in 1 .. Len(calls) : todo'[i] = calls[i]
        /\ \A i \in 1 .. Len(todo) - 1 : todo'[Len(calls) + i] = todo[i + 1]
    BY <1>1, <1>3, <2>1, ThenCalls
  <2>3. todo'[Len(todo')] = todo[Len(todo)]
    <3> DEFINE last == Len(todo) - 1
    <3>1. last \in 1 .. Len(todo) - 1 /\ last + 1 = Len(todo) /\ Len(todo') = Len(calls) + last
      BY <2>1, <2>2
    <3> HIDE DEF last
    <3> QED BY <2>2, <3>1
  <2>4. \A i \in 1 .. Len(todo') - 1 : todo'[i].fn \in InnerFns
    <3> SUFFICES ASSUME NEW i \in 1 .. Len(todo') - 1 PROVE todo'[i].fn \in InnerFns
      OBVIOUS
    <3>1. CASE i <= Len(calls)
      BY <1>5, <2>1, <2>2, <3>1
    <3>2. CASE i > Len(calls)
      <4> DEFINE j == i - Len(calls)
      <4>1. /\ j \in 1 .. Len(todo) - 1 /\ i = Len(calls) + j
            /\ j + 1 \in 1 .. Len(todo) - 1
        BY <2>1, <2>2, <3>2
      <4> HIDE DEF j
      <4>2. todo'[Len(calls) + j] = todo[j + 1]
        BY <2>2, <4>1
      <4> QED BY <4>1, <4>2 DEF InToken
    <3> QED BY <2>1, <2>2, <3>1, <3>2
  <2> QED BY <2>2, <2>3, <2>4 DEF InToken
<1>7. InTokenInv'
  <2>1. InTokenInv
    <3>1. ~Skipping
      <4> SUFFICES ASSUME Skipping PROVE FALSE
        OBVIOUS
      <4>1. Len(todo) > 1 /\ Len(todo) \in Nat /\ todo[Len(todo) - 1] = Call("blank")
        BY <1>3 DEF Skipping
      <4>2. todo[Len(todo) - 1].fn \in InnerFns
        BY <4>1 DEF InToken
      <4> QED BY <4>1, <4>2 DEF Call, InnerFns, PlainFns
    <3> QED BY <3>1 DEF LexerInv, Phases
  <2> QED BY <1>1, <1>2, <2>1 DEF InTokenInv, tokenVars, NewlineUpTo
<1> QED BY <1>2, <1>4, <1>6, <1>7 DEF LexerInv, Phases

-----------------------------------------------------------------------------
(***************************************************************************)
(* The calls within a token, in general; words.                            *)
(***************************************************************************)
\* Tuples of members of a set are sequences over it.
LEMMA Tuples ==
  ASSUME NEW S, NEW a \in S, NEW b \in S, NEW c \in S, NEW d \in S, NEW e \in S
  PROVE  /\ <<>> \in Seq(S) /\ <<a>> \in Seq(S) /\ <<a, b>> \in Seq(S)
         /\ <<a, b, c>> \in Seq(S) /\ <<a, b, c, d>> \in Seq(S)
         /\ <<a, b, c, d, e>> \in Seq(S)
OBVIOUS

\* The calls that the functions make are calls.
LEMMA Calls ==
  /\ \A f \in PlainFns : Call(f) \in InnerCall
  /\ \A n \in 1 .. 4 : Skip(n) \in InnerCall
  /\ \A S \in {BinDigits, OctDigits, DecDigits, HexDigits} : ReadWhile(S) \in InnerCall
  /\ \A S \in {BinDigits, OctDigits, HexDigits}, e \in Errors :
       ReadDigit(S, e) \in InnerCall
  /\ HexDigit \in InnerCall
  /\ \A w \in BOOLEAN : FromU32(w) \in InnerCall
  /\ \A q \in {"\"", "'"} : [fn |-> "string", quote |-> q] \in InnerCall
<1>1. \A f \in PlainFns : Call(f) \in InnerCall
  BY DEF Call, InnerCall
<1>2. \A n \in 1 .. 4 : Skip(n) \in InnerCall
  BY DEF Skip, InnerCall
<1>3. \A S \in {BinDigits, OctDigits, DecDigits, HexDigits} : ReadWhile(S) \in InnerCall
  BY DEF ReadWhile, InnerCall
<1>4. \A S \in {BinDigits, OctDigits, HexDigits}, e \in Errors :
        ReadDigit(S, e) \in InnerCall
  BY DEF ReadDigit, InnerCall
<1>5. HexDigit \in InnerCall
  BY <1>4 DEF HexDigit, Errors
<1>6. \A w \in BOOLEAN : FromU32(w) \in InnerCall
  BY DEF FromU32, InnerCall
<1>7. \A q \in {"\"", "'"} : [fn |-> "string", quote |-> q] \in InnerCall
  BY DEF InnerCall
<1> QED BY <1>1, <1>2, <1>3, <1>4, <1>5, <1>6, <1>7

\* The call at hand, by its name.
LEMMA CallAtHand ==
  ASSUME LexerInv, todo # <<>>
  PROVE  /\ This \in LexerCall /\ This = todo[1]
         /\ This.fn \in InnerFns => This \in InnerCall
         /\ This.fn = "skip" => This.n \in 1 .. 4
<1>1. This \in LexerCall /\ This = todo[1]
  BY DEF LexerInv, LexerTypes, This
<1>2. \A c \in LexerCall : c.fn \in InnerFns => c \in InnerCall
  BY DEF LexerCall, InnerFns, PlainFns
<1>3. \A c \in InnerCall : c.fn = "skip" => c.n \in 1 .. 4
  BY DEF InnerCall, PlainFns
<1> QED BY <1>1, <1>2, <1>3 DEF InnerFns

TokenFns == (InnerFns \ {"skip"}) \cup {"token", "end"}

\* Within a token no blanks are skipped.
LEMMA TokenPhase ==
  ASSUME LexerInv, Running, todo # <<>>, This.fn \in TokenFns
  PROVE  InToken /\ InTokenInv
<1>1. ~Skipping
  <2> SUFFICES ASSUME Skipping PROVE FALSE
    OBVIOUS
  <2>1. /\ Len(todo) > 1 /\ Len(todo) \in Nat /\ todo[Len(todo) - 1] = Call("blank")
        /\ \A i \in 1 .. Len(todo) - 2 : todo[i].fn \in CommentFns
    BY DEF Skipping, LexerInv, LexerTypes
  <2>2. todo[1].fn \in CommentFns \/ todo[1] = Call("blank")
    <3>1. CASE Len(todo) = 2
      BY <2>1, <3>1
    <3>2. CASE Len(todo) # 2
      BY <2>1, <3>2
    <3> QED BY <3>1, <3>2
  <2> QED BY <2>2, CallAtHand DEF Call, CommentFns, TokenFns, InnerFns, PlainFns
<1> QED BY <1>1 DEF LexerInv, Phases

\* What the functions called within a token do, apart from skip: they return,
\* after making others of the kind, or end in an error.
InnerMoves ==
  /\ \E f \in InnerFns \ {"skip"} : At(f)
  /\ \/ \E calls \in Seq(InnerCall) : Consume(calls) \/ Stay(calls)
     \/ \E e \in Errors \cup Panics : Fail(e)

LEMMA InnerReturns ==
  LexerInv => \A f \in InnerFns \ {"skip"} : At(f) =>
    /\ This \in InnerCall
    /\ \A calls \in Seq(InnerCall) : Consume(calls) \/ Stay(calls) => InnerMoves
    /\ \A e \in Errors \cup Panics : Fail(e) => InnerMoves
<1> SUFFICES ASSUME LexerInv, NEW f \in InnerFns \ {"skip"}, At(f)
             PROVE  This \in InnerCall
  BY DEF InnerMoves
<1>1. Running /\ todo # <<>> /\ This.fn = f
  BY DEF At
<1> QED BY <1>1, CallAtHand

\* So they keep the invariant.
LEMMA MovesInv ==
  ASSUME LexerInv, InnerMoves PROVE LexerInv' /\ Running /\ InToken
<1>1. PICK f \in InnerFns \ {"skip"} : At(f)
  BY DEF InnerMoves
<1>2. Running /\ todo # <<>> /\ This.fn = f
  BY <1>1 DEF At
<1>3. InToken
  BY <1>2, TokenPhase DEF TokenFns
<1>4. ASSUME NEW e \in Errors \cup Panics, Fail(e) PROVE LexerInv'
  BY <1>4, FailInv DEF Errors, Panics
<1>5. ASSUME NEW calls \in Seq(InnerCall), Consume(calls) \/ Stay(calls) PROVE LexerInv'
  BY <1>2, <1>3, <1>5, InnerStep
<1> QED BY <1>2, <1>3, <1>4, <1>5 DEF InnerMoves

\* The functions that read a word are such.
LEMMA WordMoves ==
  LexerInv /\ (RegExp \/ Backslash \/ RegExpClass \/ WordParts \/ WordEscape \/ Tokenize)
    => InnerMoves
<1> SUFFICES ASSUME LexerInv,
                    RegExp \/ Backslash \/ RegExpClass \/ WordParts \/ WordEscape \/ Tokenize
             PROVE  InnerMoves
  OBVIOUS
<1> USE InnerReturns
<1>1. /\ "UnterminatedRegExp" \in Errors \cup Panics
      /\ "AssertionFailed" \in Errors \cup Panics
      /\ "IncompleteWordEscape" \in Errors \cup Panics
      /\ "ReservedWordWithEscapes" \in Errors \cup Panics
  BY DEF Errors, Panics
<1>2. {"regexp", "backslash", "class", "word_parts", "word_escape", "tokenize"} \subseteq
        (InnerFns \ {"skip"}) \cap PlainFns
  BY DEF InnerFns, PlainFns
<1>3. /\ Call("backslash") \in InnerCall /\ Call("class") \in InnerCall
      /\ Call("word_escape") \in InnerCall /\ Call("unicode") \in InnerCall
      /\ FromU32(TRUE) \in InnerCall
  BY Calls DEF PlainFns
<1>4. CASE RegExp
  <2>1. At("regexp")
    BY <1>4 DEF RegExp
  <2>2. /\ <<>> \in Seq(InnerCall)
        /\ (CASE Next1 = "\\" -> <<Call("backslash"), This>>
              [] Next1 = "[" -> <<Call("class"), This>>
              [] OTHER -> <<This>>) \in Seq(InnerCall)
    BY <1>2, <1>3, <2>1, Tuples
  <2> QED BY <1>1, <1>2, <1>4, <2>1, <2>2, Zenon DEF RegExp, AssertionFails
<1>5. CASE Backslash
  <2>1. <<>> \in Seq(InnerCall)
    OBVIOUS
  <2> QED BY <1>1, <1>2, <1>5, <2>1, Zenon DEF Backslash
<1>6. CASE RegExpClass
  <2>1. At("class")
    BY <1>6 DEF RegExpClass
  <2>2. (CASE Next1 = "]" -> <<>>
           [] Next1 = "\\" -> <<Call("backslash"), This>>
           [] OTHER -> <<This>>) \in Seq(InnerCall)
    BY <1>2, <1>3, <2>1, Tuples
  <2> QED BY <1>1, <1>2, <1>6, <2>1, <2>2, Zenon DEF RegExpClass, AssertionFails
<1>7. CASE WordParts
  <2>1. At("word_parts")
    BY <1>7 DEF WordParts
  <2>2. /\ <<>> \in Seq(InnerCall)
        /\ (IF Next1 = "\\" THEN <<Call("word_escape"), This>> ELSE <<This>>)
             \in Seq(InnerCall)
    BY <1>2, <1>3, <2>1, Tuples
  <2> QED BY <1>1, <1>2, <1>7, <2>1, <2>2, Zenon DEF WordParts
<1>8. CASE WordEscape
  <2>1. <<Call("unicode"), FromU32(TRUE)>> \in Seq(InnerCall)
    BY <1>3, Tuples
  <2> QED BY <1>1, <1>2, <1>8, <2>1, Zenon DEF WordEscape
<1>9. CASE Tokenize
  <2>1. <<>> \in Seq(InnerCall)
    OBVIOUS
  <2> QED BY <1>1, <1>2, <1>9, <2>1, Zenon DEF Tokenize
<1> QED BY <1>4, <1>5, <1>6, <1>7, <1>8, <1>9

-----------------------------------------------------------------------------
(***************************************************************************)
(* The calls within a string and within a number.                          *)
(***************************************************************************)
\* Those that read a string and its escapes do.
LEMMA StringMoves ==
  LexerInv /\ (StringChars \/ StringEscape \/ OctalEscape \/ ReadDigitInto
                 \/ UnicodeEscape \/ Braces \/ AddDigits \/ CharFromU32)
    => InnerMoves
<1> SUFFICES ASSUME LexerInv,
                    StringChars \/ StringEscape \/ OctalEscape \/ ReadDigitInto
                      \/ UnicodeEscape \/ Braces \/ AddDigits \/ CharFromU32
             PROVE  InnerMoves
  OBVIOUS
<1>1. {"UnterminatedString", "InvalidDigit", "AssertionFailed", "Overflow",
       "IllegalUnicode"} \subseteq Errors \cup Panics
  BY DEF Errors, Panics
<1>2. {"string", "escape", "octal", "digit", "unicode", "braces", "add_digits",
       "from_u32"} \subseteq InnerFns \ {"skip"}
  BY DEF InnerFns, PlainFns
<1>3. /\ Call("escape") \in InnerCall /\ Call("octal") \in InnerCall
      /\ Call("unicode") \in InnerCall /\ Call("braces") \in InnerCall
      /\ Call("add_digits") \in InnerCall
      /\ FromU32(FALSE) \in InnerCall /\ HexDigit \in InnerCall
      /\ Skip(1) \in InnerCall /\ Skip(2) \in InnerCall
  <2>1. {"escape", "octal", "unicode", "braces", "add_digits"} \subseteq PlainFns
    BY DEF PlainFns
  <2>2. 1 \in 1 .. 4 /\ 2 \in 1 .. 4
    OBVIOUS
  <2> QED BY <2>1, <2>2, Calls
<1>4. <<>> \in Seq(InnerCall)
  OBVIOUS
<1> USE InnerReturns
<1>5. CASE StringChars
  <2>1. At("string")
    BY <1>5 DEF StringChars
  <2>2. <<Call("escape"), This>> \in Seq(InnerCall) /\ <<This>> \in Seq(InnerCall)
    BY <1>2, <1>3, <2>1, Tuples
  <2> QED BY <1>1, <1>2, <1>4, <1>5, <2>1, <2>2, Zenon DEF StringChars
<1>6. CASE StringEscape
  <2>1. /\ <<Call("octal")>> \in Seq(InnerCall)
        /\ <<HexDigit, HexDigit, Call("add_digits"), FromU32(FALSE)>> \in Seq(InnerCall)
        /\ <<Call("unicode"), FromU32(FALSE)>> \in Seq(InnerCall)
        /\ <<Skip(IF Starts(<<"CR", "LF">>) THEN 2 ELSE 1)>> \in Seq(InnerCall)
    BY <1>3, Tuples
  <2> QED BY <1>2, <1>4, <1>6, <2>1, Zenon DEF StringEscape
<1>7. CASE OctalEscape
  <2>1. At("octal")
    BY <1>7 DEF OctalEscape
  <2>2. <<This>> \in Seq(InnerCall) /\ <<FromU32(FALSE)>> \in Seq(InnerCall)
    BY <1>2, <1>3, <2>1, Tuples
  <2> QED BY <1>2, <1>7, <2>1, <2>2, Zenon DEF OctalEscape
<1>8. CASE ReadDigitInto
  <2>1. At("digit")
    BY <1>8 DEF ReadDigitInto
  <2>2. This.missing \in Errors \cup Panics
    <3>1. This \in InnerCall /\ This.fn = "digit"
      BY <1>2, <2>1 DEF At
    <3>2. \A c \in InnerCall : c.fn = "digit" => c.missing \in Errors
      BY DEF InnerCall, PlainFns
    <3> QED BY <3>1, <3>2
  <2> QED BY <1>1, <1>2, <1>4, <1>8, <2>1, <2>2, Zenon DEF ReadDigitInto
<1>9. CASE UnicodeEscape
  <2>1. /\ <<HexDigit, Call("braces"), Call("add_digits")>> \in Seq(InnerCall)
        /\ <<HexDigit, HexDigit, HexDigit, HexDigit, Call("add_digits")>> \in Seq(InnerCall)
    BY <1>3, Tuples
  <2> QED BY <1>2, <1>9, <2>1, Zenon DEF UnicodeEscape
<1>10. CASE Braces
  <2>1. At("braces")
    BY <1>10 DEF Braces
  <2>2. <<HexDigit, This>> \in Seq(InnerCall)
    BY <1>2, <1>3, <2>1, Tuples
  <2> QED BY <1>1, <1>2, <1>4, <1>10, <2>1, <2>2, Zenon DEF Braces, AssertionFails
<1>11. CASE AddDigits
  BY <1>1, <1>2, <1>4, <1>11, Zenon DEF AddDigits
<1>12. CASE CharFromU32
  BY <1>1, <1>2, <1>4, <1>12, Zenon DEF CharFromU32
<1> QED BY <1>5, <1>6, <1>7, <1>8, <1>9, <1>10, <1>11, <1>12

\* Those that read a number, a regular expression or a punctuator do.
LEMMA NumberMoves ==
  LexerInv /\ (Number \/ Decimal \/ Fraction \/ ExpPart \/ ExpSign \/ ExpDigits
                 \/ NumberEnd \/ ReadWhileChars \/ Shift \/ MatchesEquals)
    => InnerMoves
<1> SUFFICES ASSUME LexerInv,
                    Number \/ Decimal \/ Fraction \/ ExpPart \/ ExpSign \/ ExpDigits
                      \/ NumberEnd \/ ReadWhileChars \/ Shift \/ MatchesEquals
             PROVE  InnerMoves
  OBVIOUS
<1>1. {"MissingExponent", "IdAfterNumber", "DigitAfterNumber"} \subseteq Errors \cup Panics
  BY DEF Errors, Panics
<1>2. {"number", "decimal", "fraction", "exp", "sign", "exp_digits", "number_end",
       "read_while", "shift", "matches_equals"} \subseteq InnerFns \ {"skip"}
  BY DEF InnerFns, PlainFns
<1>3. /\ Call("decimal") \in InnerCall /\ Call("fraction") \in InnerCall
      /\ Call("exp") \in InnerCall /\ Call("sign") \in InnerCall
      /\ Call("exp_digits") \in InnerCall /\ ReadWhile(DecDigits) \in InnerCall
      /\ Skip(1) \in InnerCall /\ Skip(2) \in InnerCall
  <2>1. {"decimal", "fraction", "exp", "sign", "exp_digits"} \subseteq PlainFns
    BY DEF PlainFns
  <2>2. 1 \in 1 .. 4 /\ 2 \in 1 .. 4
    OBVIOUS
  <2>3. DecDigits \in {BinDigits, OctDigits, DecDigits, HexDigits}
    OBVIOUS
  <2> QED BY <2>1, <2>2, <2>3, Calls
<1>4. <<>> \in Seq(InnerCall)
  OBVIOUS
<1> USE InnerReturns
<1>5. <<ReadWhile(DecDigits)>> \in Seq(InnerCall)
  BY <1>3, Tuples
<1>6. CASE Number
  <2>1. /\ <<ReadWhile(DecDigits), Call("exp")>> \in Seq(InnerCall)
        /\ <<ReadWhile(DecDigits), Call("decimal")>> \in Seq(InnerCall)
    BY <1>3, Tuples
  <2>2. \A S \in {BinDigits, OctDigits, HexDigits}, e \in Errors :
          RadixInt(S, e) \in Seq(InnerCall)
    BY <1>3, Calls, Tuples DEF RadixInt
  <2>3. \A c \in {"x", "X", "o", "O", "b", "B"} : Radix(c) \in Seq(InnerCall)
    <3>1. {"MissingHexDigits", "MissingOctalDigits", "MissingBinaryDigits"} \subseteq Errors
      BY DEF Errors
    <3> QED BY <2>2, <3>1 DEF Radix
  <2> QED BY <1>2, <1>6, <2>1, <2>3, Zenon DEF Number
<1>7. CASE Decimal
  <2>1. (IF LegacyOctal(IntegerRead) THEN <<>> ELSE <<Call("fraction"), Call("exp")>>)
          \in Seq(InnerCall)
    BY <1>3, Tuples
  <2> QED BY <1>2, <1>7, <2>1, Zenon DEF Decimal
<1>8. CASE Fraction
  BY <1>2, <1>4, <1>5, <1>8, Zenon DEF Fraction
<1>9. CASE ExpPart
  <2>1. <<Call("sign"), Call("exp_digits")>> \in Seq(InnerCall)
    BY <1>3, Tuples
  <2> QED BY <1>2, <1>4, <1>9, <2>1, Zenon DEF ExpPart
<1>10. CASE ExpSign
  BY <1>2, <1>4, <1>10, Zenon DEF ExpSign
<1>11. CASE ExpDigits
  BY <1>1, <1>2, <1>5, <1>11, Zenon DEF ExpDigits
<1>12. CASE NumberEnd
  BY <1>1, <1>2, <1>4, <1>12, Zenon DEF NumberEnd
<1>13. CASE ReadWhileChars
  <2>1. At("read_while")
    BY <1>13 DEF ReadWhileChars
  <2>2. <<This>> \in Seq(InnerCall)
    BY <1>2, <2>1, Tuples
  <2> QED BY <1>2, <1>4, <1>13, <2>1, <2>2, Zenon DEF ReadWhileChars
<1>14. CASE Shift
  <2>1. (IF Starts(<<">", "=">>) THEN <<Skip(2)>>
         ELSE IF Next1 \in {">", "="} THEN <<Skip(1)>> ELSE <<>>) \in Seq(InnerCall)
    BY <1>3, Tuples
  <2> QED BY <1>2, <1>14, <2>1, Zenon DEF Shift
<1>15. CASE MatchesEquals
  BY <1>2, <1>4, <1>15, Zenon DEF MatchesEquals
<1> QED BY <1>6, <1>7, <1>8, <1>9, <1>10, <1>11, <1>12, <1>13, <1>14, <1>15

-----------------------------------------------------------------------------
(***************************************************************************)
(* The calls that skip blanks and comments, in general.                    *)
(***************************************************************************)
\* What it means that certain characters are next.
LEMMA StartsWith ==
  ASSUME ahead \in Seq(Chars), NEW a, NEW b, NEW c, NEW d
  PROVE  /\ Starts(<<a, b>>) <=> Len(ahead) >= 2 /\ ahead[1] = a /\ ahead[2] = b
         /\ Starts(<<a, b, c>>) <=>
              Len(ahead) >= 3 /\ ahead[1] = a /\ ahead[2] = b /\ ahead[3] = c
         /\ Starts(<<a, b, c, d>>) <=>
              /\ Len(ahead) >= 4 /\ ahead[1] = a /\ ahead[2] = b /\ ahead[3] = c
              /\ ahead[4] = d
<1>1. Starts(<<a, b>>) <=> Len(ahead) >= 2 /\ ahead[1] = a /\ ahead[2] = b
  BY DEF Starts, IsPrefix
<1>2. Starts(<<a, b, c>>) <=>
        Len(ahead) >= 3 /\ ahead[1] = a /\ ahead[2] = b /\ ahead[3] = c
  BY DEF Starts, IsPrefix
<1>3. Starts(<<a, b, c, d>>) <=>
        /\ Len(ahead) >= 4 /\ ahead[1] = a /\ ahead[2] = b /\ ahead[3] = c
        /\ ahead[4] = d
  BY DEF Starts, IsPrefix
<1> QED BY <1>1, <1>2, <1>3

\* Blanks are skipped by the loop that read_next_token starts with.
LEMMA BlankPhase ==
  ASSUME LexerInv, At("blank")
  PROVE  /\ Skipping /\ SkippingInv /\ Running
         /\ todo = <<Call("blank"), Call("token")>> /\ This = Call("blank")
<1>1. /\ Running /\ todo # <<>> /\ This.fn = "blank" /\ This = todo[1]
      /\ todo \in Seq(LexerCall)
  BY CallAtHand DEF At, LexerInv, LexerTypes
<1>2. ~InToken
  <2>1. Len(todo) \in Nat /\ Len(todo) > 0
    BY <1>1
  <2>2. InToken => todo[1].fn \in InnerFns \cup {"token", "end"}
    <3>1. CASE Len(todo) = 1
      BY <3>1 DEF InToken
    <3>2. CASE Len(todo) > 1
      BY <2>1, <3>2 DEF InToken
    <3> QED BY <2>1, <3>1, <3>2
  <2> QED BY <1>1, <2>2 DEF InnerFns, PlainFns
<1>3. Skipping /\ SkippingInv
  BY <1>1, <1>2 DEF LexerInv, Phases
<1>4. Len(todo) = 2
  <2>0. Len(todo) \in Nat /\ Len(todo) > 1
    BY <1>1, <1>3 DEF Skipping
  <2> SUFFICES ASSUME Len(todo) > 2 PROVE FALSE
    BY <2>0
  <2>1. todo[1].fn \in CommentFns
    BY <1>1, <1>3 DEF Skipping
  <2> QED BY <1>1, <2>1 DEF CommentFns
<1>5. todo[1] = Call("blank") /\ todo[2] = Call("token")
  BY <1>3, <1>4 DEF Skipping
<1> QED BY <1>1, <1>3, <1>4, <1>5

\* A positive number is one or more than one.
LEMMA OneOrMore == \A n \in Nat : n > 0 => n = 1 \/ n > 1
OBVIOUS

\* The calls that skip a comment come before that loop.
LEMMA CommentPhase ==
  ASSUME LexerInv, Running, todo # <<>>, This.fn \in {"line_comment", "block_comment"}
  PROVE  Skipping /\ SkippingInv
<1>1. todo \in Seq(LexerCall) /\ This = todo[1]
  BY CallAtHand DEF LexerInv, LexerTypes
<1>2. Len(todo) \in Nat /\ Len(todo) > 0
  BY <1>1
<1>3. InToken => todo[1].fn \in InnerFns \cup {"token", "end"}
  <2>1. CASE Len(todo) = 1
    BY <2>1 DEF InToken
  <2>2. CASE Len(todo) > 1
    BY <1>2, <2>2 DEF InToken
  <2>3. Len(todo) = 1 \/ Len(todo) > 1
    BY <1>2, OneOrMore, Zenon
  <2> QED BY <2>1, <2>2, <2>3, Zenon
<1>4. ~InToken
  BY <1>1, <1>3 DEF InnerFns, PlainFns
<1> QED BY <1>4 DEF LexerInv, Phases

\* They return to it.
LEMMA CommentReturns ==
  ASSUME LexerInv, Running, Skipping, This.fn \in CommentFns,
         NEW calls \in Seq(LexerCall), Then(calls),
         \/ calls = <<>>
         \/ \E c \in LexerCall : calls = <<c>> /\ c.fn \in CommentFns
  PROVE  /\ todo' \in Seq(LexerCall) /\ Skipping'
         /\ This' = IF calls = <<>> THEN todo[2] ELSE calls[1]
         /\ calls = <<>> => todo[2].fn # "skip"
<1>1. todo \in Seq(LexerCall) /\ Len(todo) \in Nat /\ Len(todo) > 1 /\ todo # <<>>
  BY DEF LexerInv, LexerTypes, Skipping
<1>2. /\ todo' \in Seq(LexerCall) /\ Len(todo') = Len(calls) + Len(todo) - 1
      /\ \A i \in 1 .. Len(calls) : todo'[i] = calls[i]
      /\ \A i \in 1 .. Len(todo) - 1 : todo'[Len(calls) + i] = todo[i + 1]
      /\ This = todo[1]
  BY <1>1, ThenCalls
<1>3. Len(todo) > 2
  BY <1>1, <1>2 DEF Skipping, Call, CommentFns
<1>4. todo[2].fn # "skip"
  BY <1>1, <1>3 DEF Skipping, Call
<1>5. CASE calls = <<>>
  <2>1. /\ Len(todo') = Len(todo) - 1
        /\ \A i \in 1 .. Len(todo) - 1 : todo'[i] = todo[i + 1]
    BY <1>1, <1>2, <1>5
  <2>2. /\ todo'[Len(todo')] = Call("token") /\ todo'[Len(todo') - 1] = Call("blank")
        /\ Len(todo') > 1
    BY <1>1, <1>3, <2>1 DEF Skipping
  <2>3. \A i \in 1 .. Len(todo') - 2 :
          todo'[i].fn \in CommentFns /\ (i > 1 => todo'[i].fn # "skip")
    <3> SUFFICES ASSUME NEW i \in 1 .. Len(todo') - 2
                 PROVE  todo'[i].fn \in CommentFns /\ todo'[i].fn # "skip"
      OBVIOUS
    <3> DEFINE j == i + 1
    <3>1. j \in 1 .. Len(todo) - 2 /\ j > 1 /\ todo'[i] = todo[j]
      BY <1>1, <1>3, <2>1
    <3> HIDE DEF j
    <3> QED BY <3>1 DEF Skipping
  <2>4. This' = todo[2]
    BY <1>2, <1>3, <2>1, <2>2 DEF This
  <2> QED BY <1>2, <1>4, <1>5, <2>2, <2>3, <2>4 DEF Skipping
<1>6. CASE \E c \in LexerCall : calls = <<c>> /\ c.fn \in CommentFns
  <2>1. PICK c \in LexerCall : calls = <<c>> /\ c.fn \in CommentFns
    BY <1>6
  <2>2. Len(calls) = 1 /\ calls[1] = c /\ calls # <<>>
    BY <2>1
  <2>3. /\ Len(todo') = Len(todo) /\ todo'[1] = c
        /\ \A i \in 2 .. Len(todo) : todo'[i] = todo[i]
    <3>1. \A i \in 1 .. Len(todo) - 1 : todo'[1 + i] = todo[i + 1]
      BY <1>2, <2>2
    <3>2. ASSUME NEW i \in 2 .. Len(todo) PROVE todo'[i] = todo[i]
      <4> DEFINE j == i - 1
      <4>1. j \in 1 .. Len(todo) - 1 /\ 1 + j = i /\ j + 1 = i
        BY <1>1
      <4> HIDE DEF j
      <4> QED BY <3>1, <4>1
    <3> QED BY <1>1, <1>2, <2>2, <3>2
  <2>4. /\ todo'[Len(todo')] = Call("token") /\ todo'[Len(todo') - 1] = Call("blank")
        /\ Len(todo') > 1
    BY <1>1, <1>3, <2>3 DEF Skipping
  <2>5. \A i \in 1 .. Len(todo') - 2 :
          todo'[i].fn \in CommentFns /\ (i > 1 => todo'[i].fn # "skip")
    BY <1>1, <1>3, <2>1, <2>3 DEF Skipping
  <2>6. This' = c
    BY <1>2, <2>3, <2>4 DEF This
  <2> QED BY <1>2, <2>2, <2>4, <2>5, <2>6 DEF Skipping
<1> QED BY <1>5, <1>6

\* One more character is or is not a newline.
LEMMA NewlineUpToNext ==
  ASSUME LexerInv, NextChar, UNCHANGED token
  PROVE  /\ NewlineUpTo(posn.offset)' <=>
              NewlineUpTo(posn.offset) \/ Head(ahead) \in Newlines
         /\ Next1 = Head(ahead)
<1>1. /\ posn.offset \in Nat /\ posn'.offset = posn.offset + 1 /\ text' = text
      /\ text[posn.offset + 1] = Head(ahead) /\ Next1 = Head(ahead)
  BY Taken DEF LexerInv, Behind
<1>2. token.end.offset \in 0 .. posn.offset
  BY DEF LexerInv, Behind
<1>3. NewlineUpTo(posn.offset)' =>
        NewlineUpTo(posn.offset) \/ Head(ahead) \in Newlines
  <2> SUFFICES ASSUME NEW i \in token.end.offset + 1 .. posn.offset + 1,
                      text[i] \in Newlines
               PROVE  NewlineUpTo(posn.offset) \/ Head(ahead) \in Newlines
    BY <1>1 DEF NewlineUpTo
  <2>1. CASE i = posn.offset + 1
    BY <1>1, <2>1
  <2>2. CASE i # posn.offset + 1
    <3>1. i \in token.end.offset + 1 .. posn.offset
      BY <1>1, <1>2, <2>2
    <3> QED BY <3>1 DEF NewlineUpTo
  <2> QED BY <2>1, <2>2
<1>4. NewlineUpTo(posn.offset) => NewlineUpTo(posn.offset)'
  <2> SUFFICES ASSUME NEW i \in token.end.offset + 1 .. posn.offset, text[i] \in Newlines
               PROVE  NewlineUpTo(posn.offset)'
    BY DEF NewlineUpTo
  <2>1. i \in token.end.offset + 1 .. posn.offset + 1
    BY <1>1, <1>2
  <2> QED BY <1>1, <2>1 DEF NewlineUpTo
<1>5. Head(ahead) \in Newlines => NewlineUpTo(posn.offset)'
  <2>1. posn.offset + 1 \in token.end.offset + 1 .. posn.offset + 1
    BY <1>1, <1>2
  <2> QED BY <1>1, <2>1 DEF NewlineUpTo
<1> QED BY <1>1, <1>3, <1>4, <1>5

-----------------------------------------------------------------------------
(***************************************************************************)
(* The first state, the characters drawn ahead and the blanks.             *)
(***************************************************************************)
\* Before the first request nothing is read and nothing is pending.
LEMMA LexerInitInv == LexerInit => LexerInv
<1> SUFFICES ASSUME LexerInit PROVE LexerInv
  OBVIOUS
<1>1. ReaderInv
  BY InitInv DEF LexerInit
<1>2. /\ posn = Origin /\ text = <<>> /\ todo = <<>> /\ token.kind = "none"
      /\ token.end = Origin /\ start = Origin
      /\ newline = FALSE /\ empty_line = TRUE
  BY DEF LexerInit, ReaderInit
<1>3. LexerTypes
  <2>1. <<>> \in Seq(LexerCall) /\ Origin.offset \in Nat
    BY DEF Origin
  <2> QED BY <1>2, <2>1, Zenon DEF LexerTypes
<1>4. Behind
  BY <1>2 DEF Behind, EmptyLineSound, Origin
<1>5. Phases
  BY <1>2 DEF Phases
<1> QED BY <1>1, <1>3, <1>4, <1>5 DEF LexerInv

\* Drawing a character changes nothing that has been read or decided.
LEMMA PeekInv == LexerInv /\ PeekMore => LexerInv'
<1> SUFFICES ASSUME LexerInv, PeekMore PROVE LexerInv'
  OBVIOUS
<1>1. /\ Draw /\ UNCHANGED <<todo, tokenVars>> /\ UNCHANGED posn
  BY DEF PeekMore, Draw
<1>2. ReaderInv'
  BY <1>1, DrawInv DEF LexerInv
<1>3. /\ posn.offset \in Nat /\ text \in Seq(Chars) /\ ahead \in Seq(Chars)
      /\ posn.offset <= Len(text)
  BY DEF LexerInv, Behind, ReaderInv, ReaderTypeOK
<1>4. /\ Len(text) <= Len(text)' /\ \A i \in 1 .. Len(text) : text'[i] = text[i]
      /\ Len(ahead) <= Len(ahead)' /\ \A i \in 1 .. Len(ahead) : ahead'[i] = ahead[i]
  <2>1. CASE UNCHANGED <<text, ahead>>
    BY <1>3, <2>1
  <2>2. CASE ~UNCHANGED <<text, ahead>>
    <3>1. PICK c : text' = Append(text, c) /\ ahead' = Append(ahead, c)
      BY <1>1, <2>2 DEF Draw
    <3> QED BY <1>3, <3>1
  <2> QED BY <2>1, <2>2
<1>5. Behind'
  BY <1>1, <1>2, <1>3, <1>4 DEF LexerInv, Behind, EmptyLineSound, tokenVars, ReaderInv,
       ReaderTypeOK
<1>6. LexerTypes'
  BY <1>1 DEF LexerInv, LexerTypes, tokenVars
<1>7. ASSUME NEW n \in Nat, n <= Len(text)
      PROVE  /\ NewlineUpTo(n) => NewlineUpTo(n)'
             /\ NewlineUpTo(n)' => NewlineUpTo(n)
  <2>1. \A i \in token.end.offset + 1 .. n : i \in 1 .. Len(text)
    BY <1>3, <1>7 DEF LexerInv, Behind
  <2> QED BY <1>1, <1>4, <2>1 DEF NewlineUpTo, tokenVars
<1>8. SkippingInv => SkippingInv'
  <2>1. AtLineFeed => AtLineFeed'
    BY <1>1, <1>3, <1>4 DEF AtLineFeed, This
  <2>2. Skipped => Skipped'
    <3> SUFFICES ASSUME Skipped, todo # <<>>, This.fn = "skip"
                 PROVE  /\ This.n \in 1 .. Len(ahead)'
                        /\ \A i \in 1 .. This.n : ahead'[i] \notin Newlines
      BY <1>1 DEF Skipped, This
    <3>1. /\ This.n \in 1 .. Len(ahead)
          /\ \A i \in 1 .. This.n : ahead[i] \notin Newlines
      BY DEF Skipped
    <3>2. This.n \in 1 .. Len(ahead)'
      BY <1>2, <1>3, <1>4, <3>1 DEF ReaderInv, ReaderTypeOK
    <3>3. \A i \in 1 .. This.n : ahead'[i] = ahead[i]
      BY <1>3, <1>4, <3>1
    <3> QED BY <3>1, <3>2, <3>3
  <2>3. NewlineUpTo(posn.offset) <=> NewlineUpTo(posn.offset)'
    BY <1>1, <1>3, <1>7 DEF NewlineUpTo, tokenVars
  <2> QED BY <1>1, <2>1, <2>2, <2>3 DEF SkippingInv, tokenVars
<1>9. InTokenInv => InTokenInv'
  <2> SUFFICES ASSUME InTokenInv PROVE InTokenInv'
    OBVIOUS
  <2>1. start.offset \in Nat /\ start.offset <= Len(text)
    BY DEF LexerInv, LexerTypes, InTokenInv
  <2>2. NewlineUpTo(start.offset) <=> NewlineUpTo(start.offset)'
    BY <1>1, <1>7, <2>1 DEF NewlineUpTo, tokenVars
  <2> QED BY <1>1, <1>2, <1>3, <1>4, <2>1, <2>2 DEF InTokenInv, tokenVars
<1>10. Phases'
  BY <1>1, <1>8, <1>9 DEF LexerInv, Phases, Skipping, InToken, Running, tokenVars
<1> QED BY <1>2, <1>5, <1>6, <1>10 DEF LexerInv

\* A step among blanks and comments that takes one character which is no newline,
\* or none.
LEMMA SkippingStep ==
  ASSUME LexerInv, Running, Skipping, SkippingInv, ~AtLineFeed,
         Skipping', LexerTypes', Skipped', UNCHANGED <<newline, empty_line, token>>,
         \/ NextChar /\ Next1 \notin Newlines
         \/ UNCHANGED readerVars
  PROVE  LexerInv'
<1>1. /\ ReaderInv' /\ Behind' /\ text' = text
  BY StaysBehind
<1>2. NewlineUpTo(posn.offset)' <=> NewlineUpTo(posn.offset)
  <2>1. CASE NextChar /\ Next1 \notin Newlines
    BY <2>1, NewlineUpToNext
  <2>2. CASE UNCHANGED readerVars
    BY <2>2 DEF readerVars, NewlineUpTo
  <2> QED BY <2>1, <2>2
<1>3. SkippingInv'
  BY <1>2 DEF SkippingInv
<1> QED BY <1>1, <1>3 DEF LexerInv, Phases

\* The characters of a comment mark, or of a token, that are skipped.
LEMMA SkipInv == LexerInv /\ SkipChars => LexerInv'
<1> SUFFICES ASSUME LexerInv, SkipChars PROVE LexerInv'
  OBVIOUS
<1> DEFINE calls == IF This.n = 1 THEN <<>> ELSE <<Skip(This.n - 1)>>
<1>1. /\ Running /\ todo # <<>> /\ This.fn = "skip" /\ Consume(calls)
  BY DEF SkipChars, At
<1>2. This.n \in 1 .. 4
  BY <1>1, CallAtHand
<1>3. calls \in Seq(InnerCall)
  <2>1. CASE This.n = 1
    BY <2>1
  <2>2. CASE This.n # 1
    <3>1. This.n - 1 \in 1 .. 4
      BY <1>2, <2>2
    <3> QED BY <2>2, <3>1, Calls, Tuples
  <2> QED BY <2>1, <2>2
<1>4. CASE InToken
  <2> HIDE DEF calls
  <2> QED BY <1>1, <1>3, <1>4, InnerStep DEF InnerFns
<1>5. CASE Skipping /\ SkippingInv
  <2>1. /\ NextChar /\ Then(calls) /\ UNCHANGED tokenVars
    BY <1>1 DEF Consume
  <2>2. /\ ahead \in Seq(Chars) /\ ahead' = Tail(ahead) /\ Next1 = Head(ahead)
    BY <2>1, Taken DEF LexerInv, Behind
  <2>3. /\ This.n \in 1 .. Len(ahead) /\ \A i \in 1 .. This.n : ahead[i] \notin Newlines
        /\ Next1 \notin Newlines
    <3>1. /\ This.n \in 1 .. Len(ahead) /\ \A i \in 1 .. This.n : ahead[i] \notin Newlines
      BY <1>1, <1>5 DEF SkippingInv, Skipped
    <3>2. Head(ahead) = ahead[1] /\ 1 \in 1 .. This.n
      BY <1>2, <2>2
    <3> QED BY <2>2, <3>1, <3>2
  <2>4. calls \in Seq(LexerCall)
    <3> HIDE DEF calls
    <3> QED BY <1>3 DEF LexerCall
  <2>5. \/ calls = <<>>
        \/ \E c \in LexerCall : calls = <<c>> /\ c.fn \in CommentFns
    <3>1. CASE This.n = 1
      BY <3>1
    <3>2. CASE This.n # 1
      <4>1. This.n - 1 \in 1 .. 4
        BY <1>2, <3>2
      <4>2. Skip(This.n - 1) \in LexerCall
        BY <4>1, Calls DEF LexerCall
      <4> QED BY <3>2, <4>2 DEF Skip, CommentFns
    <3> QED BY <3>1, <3>2
  <2>6. /\ todo' \in Seq(LexerCall) /\ Skipping'
        /\ This' = IF calls = <<>> THEN todo[2] ELSE calls[1]
        /\ calls = <<>> => todo[2].fn # "skip"
    <3> HIDE DEF calls
    <3> QED BY <1>1, <1>5, <2>1, <2>4, <2>5, CommentReturns DEF CommentFns
  <2>7. Skipped'
    <3>1. CASE This.n = 1
      <4>1. calls = <<>>
        BY <3>1
      <4> QED BY <2>6, <4>1 DEF Skipped
    <3>2. CASE This.n # 1
      <4>1. This' = Skip(This.n - 1)
        BY <2>6, <3>2
      <4>2. This'.n = This.n - 1 /\ Len(ahead') = Len(ahead) - 1
        BY <2>2, <2>3, <4>1 DEF Skip
      <4>3. \A i \in 1 .. This.n - 1 : ahead'[i] = ahead[i + 1]
        BY <1>2, <2>2, <2>3
      <4>4. This'.n \in 1 .. Len(ahead')
        BY <1>2, <2>2, <2>3, <3>2, <4>2
      <4>5. \A i \in 1 .. This'.n : ahead'[i] \notin Newlines
        BY <1>2, <2>3, <4>2, <4>3
      <4> QED BY <4>4, <4>5 DEF Skipped
    <3> QED BY <3>1, <3>2
  <2>8. LexerTypes' /\ UNCHANGED <<newline, empty_line, token>>
    BY <2>1, <2>6 DEF LexerInv, LexerTypes, tokenVars
  <2>9. ~AtLineFeed
    BY <1>1 DEF AtLineFeed
  <2> QED BY <1>1, <1>5, <2>1, <2>3, <2>6, <2>7, <2>8, <2>9, SkippingStep
<1> QED BY <1>1, <1>4, <1>5 DEF LexerInv, Phases

-----------------------------------------------------------------------------
(***************************************************************************)
(* Blanks, newlines, and where a comment starts.                           *)
(***************************************************************************)
\* The characters that comments start and end with are no newlines.
LEMMA CommentMarks ==
  /\ {"/", "*", "<", "!", "-", ">"} \cap Newlines = {}
  /\ Whitespace \cap Newlines = {}
  /\ "LF" \in Newlines /\ "CR" \in Newlines
BY DEF Newlines, LineEnds, Whitespace

\* The calls of a comment are calls.
LEMMA CommentCalls ==
  /\ Call("line_comment") \in LexerCall /\ Call("block_comment") \in LexerCall
  /\ Call("blank") \in LexerCall /\ Call("token") \in LexerCall
  /\ \A n \in 1 .. 4 : Skip(n) \in LexerCall
  /\ Call("line_comment").fn = "line_comment" /\ Call("block_comment").fn = "block_comment"
  /\ Call("blank").fn = "blank" /\ Call("token").fn = "token"
  /\ \A n : Skip(n).fn = "skip" /\ Skip(n).n = n
<1>1. \A n \in 1 .. 4 : Skip(n) \in LexerCall
  BY Calls DEF LexerCall
<1>2. /\ Call("line_comment") \in LexerCall /\ Call("block_comment") \in LexerCall
      /\ Call("blank") \in LexerCall /\ Call("token") \in LexerCall
  BY DEF LexerCall, Call
<1> QED BY <1>1, <1>2 DEF Call, Skip

\* One more call after a few.
LEMMA Joined ==
  \A a, b, c, e :
    /\ <<>> \o <<e>> = <<e>> /\ <<a>> \o <<e>> = <<a, e>>
    /\ <<a, b>> \o <<e>> = <<a, b, e>> /\ <<a, b, c>> \o <<e>> = <<a, b, c, e>>
<1> TAKE a, b, c, e
<1> DEFINE S == {a, b, c, e}
           t == <<e>>
<1>1. t \in Seq(S) /\ Len(t) = 1 /\ t[1] = e
  OBVIOUS
<1>2. <<>> \o t = <<e>>
  OBVIOUS
<1>3. <<a>> \o t = <<a, e>>
  <2> DEFINE s == <<a>>
             u == <<a, e>>
  <2>1. /\ s \in Seq(S) /\ Len(s) = 1 /\ s[1] = a
        /\ u \in Seq(S) /\ Len(u) = 2 /\ u[1] = a /\ u[2] = e
    OBVIOUS
  <2> HIDE DEF S, s, t, u
  <2>2. Len(s) + Len(t) = 2
    BY <1>1, <2>1
  <2>3. /\ s \o t \in Seq(S) /\ Len(s \o t) = Len(s) + Len(t)
        /\ \A i \in 1 .. Len(s) + Len(t) :
             (s \o t)[i] = IF i <= Len(s) THEN s[i] ELSE t[i - Len(s)]
    BY <1>1, <2>1, ConcatProperties, Zenon
  <2>4. \A i \in 1 .. 2 : (s \o t)[i] = u[i]
    BY <1>1, <2>1, <2>2, <2>3
  <2>5. s \o t = u
    BY <2>1, <2>2, <2>3, <2>4, SeqEqual
  <2> QED BY <2>5 DEF s, t, u
<1>4. <<a, b>> \o t = <<a, b, e>>
  <2> DEFINE s == <<a, b>>
             u == <<a, b, e>>
  <2>1. /\ s \in Seq(S) /\ Len(s) = 2 /\ s[1] = a /\ s[2] = b
        /\ u \in Seq(S) /\ Len(u) = 3 /\ u[1] = a /\ u[2] = b /\ u[3] = e
    OBVIOUS
  <2> HIDE DEF S, s, t, u
  <2>2. Len(s) + Len(t) = 3
    BY <1>1, <2>1
  <2>3. /\ s \o t \in Seq(S) /\ Len(s \o t) = Len(s) + Len(t)
        /\ \A i \in 1 .. Len(s) + Len(t) :
             (s \o t)[i] = IF i <= Len(s) THEN s[i] ELSE t[i - Len(s)]
    BY <1>1, <2>1, ConcatProperties, Zenon
  <2>4. \A i \in 1 .. 3 : (s \o t)[i] = u[i]
    BY <1>1, <2>1, <2>2, <2>3
  <2>5. s \o t = u
    BY <2>1, <2>2, <2>3, <2>4, SeqEqual
  <2> QED BY <2>5 DEF s, t, u
<1>5. <<a, b, c>> \o t = <<a, b, c, e>>
  <2> DEFINE s == <<a, b, c>>
             u == <<a, b, c, e>>
  <2>1. /\ s \in Seq(S) /\ Len(s) = 3 /\ s[1] = a /\ s[2] = b /\ s[3] = c
        /\ u \in Seq(S) /\ Len(u) = 4 /\ u[1] = a /\ u[2] = b /\ u[3] = c /\ u[4] = e
    OBVIOUS
  <2> HIDE DEF S, s, t, u
  <2>2. Len(s) + Len(t) = 4
    BY <1>1, <2>1
  <2>3. /\ s \o t \in Seq(S) /\ Len(s \o t) = Len(s) + Len(t)
        /\ \A i \in 1 .. Len(s) + Len(t) :
             (s \o t)[i] = IF i <= Len(s) THEN s[i] ELSE t[i - Len(s)]
    BY <1>1, <2>1, ConcatProperties, Zenon
  <2>4. \A i \in 1 .. 4 : (s \o t)[i] = u[i]
    BY <1>1, <2>1, <2>2, <2>3
  <2>5. s \o t = u
    BY <2>1, <2>2, <2>3, <2>4, SeqEqual
  <2> QED BY <2>5 DEF s, t, u
<1> QED BY <1>2, <1>3, <1>4, <1>5

\* The call at hand, which is not the last one, is replaced by others.
LEMMA FirstReplaced ==
  \A a, b, c, d, e :
    /\ <<a>> \o Tail(<<d, e>>) = <<a, e>> /\ <<>> \o Tail(<<d, e>>) = <<e>>
    /\ <<a, b, c>> \o Tail(<<d, e>>) = <<a, b, c, e>>
<1> TAKE a, b, c, d, e
<1>1. Tail(<<d, e>>) = <<e>>
  OBVIOUS
<1> QED BY <1>1, Joined

\* A blank that ends no line leaves the newline flag right.
LEMMA SkipBlankInv == LexerInv /\ SkipBlank => LexerInv'
<1> SUFFICES ASSUME LexerInv, SkipBlank PROVE LexerInv'
  OBVIOUS
<1>1. /\ At("blank") /\ Next1 \in Whitespace /\ NextChar /\ Then(<<This>>)
      /\ UNCHANGED tokenVars
  BY DEF SkipBlank, Consume
<1>2. /\ Skipping /\ SkippingInv /\ Running
      /\ todo = <<Call("blank"), Call("token")>> /\ This = Call("blank")
  BY <1>1, BlankPhase
<1>3. todo' = todo
  BY <1>1, <1>2, FirstReplaced, Zenon DEF Then
<1>4. Next1 \notin Newlines /\ ~AtLineFeed
  <2>1. Next1 = Head(ahead)
    BY <1>1, Taken DEF LexerInv, Behind
  <2> QED BY <1>1, <2>1, CommentMarks DEF AtLineFeed
<1>5. Skipping' /\ LexerTypes' /\ Skipped'
  BY <1>1, <1>2, <1>3, CommentCalls DEF LexerInv, LexerTypes, Skipping, Skipped, This, tokenVars
<1> QED BY <1>1, <1>2, <1>4, <1>5, SkippingStep DEF tokenVars

\* An end of line sets the flag; the line feed after a carriage return counts once.
LEMMA SkipNewlineInv == LexerInv /\ SkipNewline => LexerInv'
<1> SUFFICES ASSUME LexerInv, SkipNewline PROVE LexerInv'
  OBVIOUS
<1>1. /\ At("blank") /\ Next1 \in Newlines /\ NextChar
      /\ UNCHANGED <<todo, start, token, result>>
      /\ IF Starts(<<"CR", "LF">>) THEN UNCHANGED <<newline, empty_line>>
         ELSE newline' = TRUE /\ empty_line' = TRUE
  BY DEF SkipNewline
<1>2. /\ Skipping /\ SkippingInv /\ Running
      /\ todo = <<Call("blank"), Call("token")>> /\ This = Call("blank")
  BY <1>1, BlankPhase
<1>3. /\ ahead \in Seq(Chars) /\ ahead # <<>> /\ ahead' = Tail(ahead)
      /\ Next1 = Head(ahead) /\ Head(ahead) = ahead[1]
      /\ posn.line \in Nat
      /\ EndsLine(Head(ahead), PeekAt(1)) => posn'.line = posn.line + 1
  BY <1>1, Taken DEF LexerInv, Behind
<1>4. NewlineUpTo(posn.offset)'
  BY <1>1, <1>3, NewlineUpToNext
<1>5. Skipping' /\ LexerTypes' /\ Skipped' /\ This' = This
  <2>1. Skipping' /\ This' = This
    BY <1>1, <1>2 DEF Skipping, This
  <2>2. LexerTypes'
    BY <1>1 DEF LexerInv, LexerTypes
  <2> QED BY <1>2, <2>1, <2>2, CommentCalls DEF Skipped
<1>6. CASE Starts(<<"CR", "LF">>)
  <2>1. ReaderInv' /\ Behind'
    BY <1>1, <1>6, StaysBehind
  <2>2. Len(ahead) >= 2 /\ ahead[2] = "LF"
    BY <1>3, <1>6, StartsWith
  <2>3. AtLineFeed'
    <3>1. ahead' # <<>> /\ Head(ahead') = "LF"
      <4>1. Len(ahead') = Len(ahead) - 1 /\ ahead'[1] = ahead[2] /\ ahead' \in Seq(Chars)
        BY <1>3, <2>2
      <4>2. Len(ahead) \in Nat /\ Len(ahead') >= 1
        BY <1>3, <2>2, <4>1
      <4>3. ahead' # <<>>
        BY <4>2
      <4>4. Head(ahead') = ahead'[1]
        BY <4>1, <4>3
      <4> QED BY <2>2, <4>1, <4>3, <4>4
    <3> QED BY <1>1, <1>2, <1>5, <3>1, CommentCalls DEF AtLineFeed
  <2> QED BY <1>1, <1>4, <1>5, <2>1, <2>3 DEF LexerInv, Phases, SkippingInv
<1>7. CASE ~Starts(<<"CR", "LF">>)
  <2>1. EndsLine(Head(ahead), PeekAt(1))
    <3>1. CASE Head(ahead) \in LineEnds
      BY <3>1 DEF EndsLine
    <3>2. CASE Head(ahead) = "CR"
      <4>1. PeekAt(1) # "LF"
        <5>1. ~(Len(ahead) >= 2 /\ ahead[2] = "LF")
          BY <1>3, <1>7, <3>2, StartsWith
        <5>2. PeekAt(1) \in {ahead[2], "end"} /\ (PeekAt(1) # "end" => Len(ahead) >= 2)
          BY <1>3 DEF PeekAt, EndOfText
        <5> QED BY <5>1, <5>2
      <4> QED BY <3>2, <4>1 DEF EndsLine
    <3> QED BY <1>1, <1>3, <3>1, <3>2 DEF Newlines
  <2>2. token.end.line < posn'.line
    BY <1>3, <2>1 DEF LexerInv, Behind
  <2>3. ReaderInv' /\ Behind'
    BY <1>1, <2>2, StaysBehind
  <2> QED BY <1>1, <1>4, <1>5, <1>7, <2>3 DEF LexerInv, Phases, SkippingInv
<1> QED BY <1>6, <1>7

\* The characters that a line comment is recognised by are ahead.
LEMMA LineCommentMarks ==
  ASSUME LexerInv, LineCommentPrefix > 0
  PROVE  /\ LineCommentPrefix \in 1 .. 4 /\ LineCommentPrefix <= Len(ahead)
         /\ \A i \in 1 .. LineCommentPrefix : ahead[i] \notin Newlines
<1>1. ahead \in Seq(Chars) /\ Len(ahead) \in Nat
  BY DEF LexerInv, ReaderInv, ReaderTypeOK
<1> DEFINE P == Starts(<<"/", "/">>)
           Q == Starts(<<"<", "!", "-", "-">>)
           R == Starts(<<"-", "-", ">">>) /\ empty_line
<1>0. ~(P /\ Q) /\ ~(P /\ R) /\ ~(Q /\ R)
  <2>1. P => ahead[1] = "/"
    BY <1>1, StartsWith
  <2>2. Q => ahead[1] = "<"
    BY <1>1, StartsWith
  <2>3. R => ahead[1] = "-"
    BY <1>1, StartsWith
  <2> HIDE DEF P, Q, R
  <2> QED BY <2>1, <2>2, <2>3
<1>5. /\ P => LineCommentPrefix = 2
      /\ Q => LineCommentPrefix = 4
      /\ R => LineCommentPrefix = 3
      /\ P \/ Q \/ R
  <2> HIDE DEF P, Q, R
  <2>1. LineCommentPrefix = CASE P -> 2 [] Q -> 4 [] R -> 3 [] OTHER -> 0
    BY Zenon DEF LineCommentPrefix, P, Q, R
  <2> QED BY <1>0, <2>1
<1>2. CASE Starts(<<"/", "/">>)
  <2>1. LineCommentPrefix = 2
    BY <1>2, <1>5
  <2>2. Len(ahead) >= 2 /\ ahead[1] = "/" /\ ahead[2] = "/"
    BY <1>1, <1>2, StartsWith
  <2>3. \A i \in 1 .. 2 : ahead[i] \notin Newlines
    BY <2>2, CommentMarks
  <2> QED BY <1>1, <2>1, <2>2, <2>3
<1>3. CASE Starts(<<"<", "!", "-", "-">>)
  <2>1. LineCommentPrefix = 4
    BY <1>3, <1>5
  <2>2. /\ Len(ahead) >= 4 /\ ahead[1] = "<" /\ ahead[2] = "!" /\ ahead[3] = "-"
        /\ ahead[4] = "-"
    BY <1>1, <1>3, StartsWith
  <2>3. \A i \in 1 .. 4 : ahead[i] \notin Newlines
    BY <2>2, CommentMarks
  <2> QED BY <1>1, <2>1, <2>2, <2>3
<1>4. CASE Starts(<<"-", "-", ">">>) /\ empty_line
  <2>1. LineCommentPrefix = 3
    BY <1>4, <1>5
  <2>2. Len(ahead) >= 3 /\ ahead[1] = "-" /\ ahead[2] = "-" /\ ahead[3] = ">"
    BY <1>1, <1>4, StartsWith
  <2>3. \A i \in 1 .. 3 : ahead[i] \notin Newlines
    BY <2>2, CommentMarks
  <2> QED BY <1>1, <2>1, <2>2, <2>3
<1> QED BY <1>2, <1>3, <1>4, <1>5

\* The start of a comment is no newline and changes no flag.
LEMMA SkipCommentInv == LexerInv /\ SkipComment => LexerInv'
<1> SUFFICES ASSUME LexerInv, SkipComment PROVE LexerInv'
  OBVIOUS
<1>1. PICK n, f :
        /\ Stay(<<Skip(n), Call(f), This>>)
        /\ \/ n = LineCommentPrefix /\ n > 0 /\ f = "line_comment"
           \/ n = 2 /\ f = "block_comment" /\ Starts(<<"/", "*">>)
  BY DEF SkipComment
<1>2. /\ At("blank") /\ UNCHANGED tokenVars /\ UNCHANGED readerVars
      /\ Then(<<Skip(n), Call(f), This>>)
  BY <1>1 DEF SkipComment, Stay
<1>3. /\ Skipping /\ SkippingInv /\ Running
      /\ todo = <<Call("blank"), Call("token")>> /\ This = Call("blank")
  BY <1>2, BlankPhase
<1>4. todo' = <<Skip(n), Call(f), Call("blank"), Call("token")>>
  <2>1. todo' = <<Skip(n), Call(f), This>> \o Tail(todo)
    BY <1>2 DEF Then
  <2>2. todo' = <<Skip(n), Call(f), Call("blank")>> \o Tail(<<Call("blank"), Call("token")>>)
    BY <1>3, <2>1, Zenon
  <2> QED BY <2>2, FirstReplaced
<1>5. ahead \in Seq(Chars) /\ Len(ahead) \in Nat
  BY DEF LexerInv, ReaderInv, ReaderTypeOK
<1>6. /\ n \in 1 .. 4 /\ n <= Len(ahead)
      /\ \A i \in 1 .. n : ahead[i] \notin Newlines
  <2>1. CASE n = LineCommentPrefix /\ n > 0
    BY <2>1, LineCommentMarks
  <2>2. CASE n = 2 /\ Starts(<<"/", "*">>)
    <3>1. Len(ahead) >= 2 /\ ahead[1] = "/" /\ ahead[2] = "*"
      BY <1>5, <2>2, StartsWith
    <3>2. \A i \in 1 .. 2 : ahead[i] \notin Newlines
      BY <3>1, CommentMarks
    <3> QED BY <1>5, <2>2, <3>1, <3>2
  <2> QED BY <1>1, <2>1, <2>2
<1>7. ~AtLineFeed
  <2> SUFFICES ASSUME AtLineFeed PROVE FALSE
    OBVIOUS
  <2>1. ahead[1] = "LF" /\ 1 \in 1 .. n
    BY <1>5, <1>6 DEF AtLineFeed
  <2> QED BY <1>6, <2>1, CommentMarks
<1>8. Call(f).fn \in {"line_comment", "block_comment"} /\ Call(f) \in LexerCall
  BY <1>1, CommentCalls
<1>9. LexerTypes'
  <2>1. todo' \in Seq(LexerCall)
    BY <1>4, <1>6, <1>8, CommentCalls, Tuples
  <2> QED BY <1>2, <2>1 DEF LexerInv, LexerTypes, tokenVars
<1>10. Skipping'
  <2>1. Len(todo') = 4 /\ todo'[1] = Skip(n) /\ todo'[2] = Call(f)
        /\ todo'[3] = Call("blank") /\ todo'[4] = Call("token")
    BY <1>4
  <2>2. \A i \in 1 .. 2 : todo'[i].fn \in CommentFns /\ (i > 1 => todo'[i].fn # "skip")
    BY <1>8, <2>1, CommentCalls DEF CommentFns
  <2> QED BY <2>1, <2>2 DEF Skipping
<1>11. Skipped'
  <2>1. This' = Skip(n)
    BY <1>4 DEF This
  <2>2. This'.n = n
    BY <2>1 DEF Skip
  <2>3. n \in 1 .. Len(ahead) /\ ahead' = ahead
    BY <1>2, <1>5, <1>6 DEF readerVars
  <2> QED BY <1>6, <2>2, <2>3 DEF Skipped
<1> QED BY <1>2, <1>3, <1>7, <1>9, <1>10, <1>11, SkippingStep DEF tokenVars

-----------------------------------------------------------------------------
(***************************************************************************)
(* Comments, and the step from blanks to a token.                          *)
(***************************************************************************)
\* A line comment ends before the newline.
LEMMA LineCommentInv == LexerInv /\ LineComment => LexerInv'
<1> SUFFICES ASSUME LexerInv, LineComment PROVE LexerInv'
  OBVIOUS
<1>1. Running /\ todo # <<>> /\ This.fn = "line_comment"
  BY DEF LineComment, At
<1>2. Skipping /\ SkippingInv /\ ~AtLineFeed
  BY <1>1, CommentPhase DEF AtLineFeed
<1>3. This \in LexerCall
  BY <1>1, CallAtHand
<1>4. CASE AtEnd \/ Next1 \in Newlines
  <2>1. Then(<<>>) /\ UNCHANGED readerVars /\ UNCHANGED tokenVars
    BY <1>4 DEF LineComment, Stay
  <2>2. <<>> \in Seq(LexerCall)
    OBVIOUS
  <2>3. todo' \in Seq(LexerCall) /\ Skipping' /\ This' = todo[2] /\ todo[2].fn # "skip"
    BY <1>1, <1>2, <2>1, <2>2, CommentReturns DEF CommentFns
  <2>4. Skipped'
    BY <2>3 DEF Skipped
  <2>5. LexerTypes'
    BY <2>1, <2>3 DEF LexerInv, LexerTypes, tokenVars
  <2> QED BY <1>1, <1>2, <2>1, <2>3, <2>4, <2>5, SkippingStep DEF tokenVars
<1>5. CASE ~AtEnd /\ Next1 \notin Newlines
  <2>1. Then(<<This>>) /\ NextChar /\ UNCHANGED tokenVars
    BY <1>5 DEF LineComment, Consume
  <2>2. <<This>> \in Seq(LexerCall) /\ <<This>> # <<>> /\ <<This>>[1] = This
    BY <1>3, Tuples
  <2>3. todo' \in Seq(LexerCall) /\ Skipping' /\ This' = This
    BY <1>1, <1>2, <1>3, <2>1, <2>2, CommentReturns DEF CommentFns
  <2>4. Skipped'
    BY <1>1, <2>3 DEF Skipped
  <2>5. LexerTypes'
    BY <2>1, <2>3 DEF LexerInv, LexerTypes, tokenVars
  <2> QED BY <1>1, <1>2, <1>5, <2>1, <2>3, <2>4, <2>5, SkippingStep DEF tokenVars
<1> QED BY <1>4, <1>5

\* A block comment sets the newline flag if there is a newline in it.
LEMMA BlockCommentInv == LexerInv /\ BlockComment => LexerInv'
<1> SUFFICES ASSUME LexerInv, BlockComment PROVE LexerInv'
  OBVIOUS
<1>1. Running /\ todo # <<>> /\ This.fn = "block_comment"
  BY DEF BlockComment, At
<1>2. Skipping /\ SkippingInv /\ ~AtLineFeed
  BY <1>1, CommentPhase DEF AtLineFeed
<1>3. CASE Fail("UnterminatedComment")
  BY <1>3, FailInv
<1>4. CASE Starts(<<"*", "/">>) /\ Stay(<<Skip(2)>>)
  <2>1. Then(<<Skip(2)>>) /\ UNCHANGED readerVars /\ UNCHANGED tokenVars
    BY <1>4 DEF Stay
  <2>2. Skip(2) \in LexerCall /\ Skip(2).fn = "skip" /\ Skip(2).n = 2
    BY CommentCalls
  <2>3. <<Skip(2)>> \in Seq(LexerCall) /\ <<Skip(2)>> # <<>> /\ <<Skip(2)>>[1] = Skip(2)
    BY <2>2, Tuples
  <2>4. todo' \in Seq(LexerCall) /\ Skipping' /\ This' = Skip(2)
    BY <1>1, <1>2, <2>1, <2>2, <2>3, CommentReturns DEF CommentFns
  <2>5. Skipped'
    <3>1. ahead \in Seq(Chars) /\ Len(ahead) \in Nat
      BY DEF LexerInv, ReaderInv, ReaderTypeOK
    <3>2. Len(ahead) >= 2 /\ ahead[1] = "*" /\ ahead[2] = "/"
      BY <1>4, <3>1, StartsWith
    <3>3. \A i \in 1 .. 2 : ahead[i] \notin Newlines
      BY <3>2, CommentMarks
    <3>4. 2 \in 1 .. Len(ahead) /\ ahead' = ahead
      BY <2>1, <3>1, <3>2 DEF readerVars
    <3> QED BY <2>2, <2>4, <3>3, <3>4 DEF Skipped
  <2>6. LexerTypes'
    BY <2>1, <2>4 DEF LexerInv, LexerTypes, tokenVars
  <2> QED BY <1>1, <1>2, <2>1, <2>4, <2>5, <2>6, SkippingStep DEF tokenVars
<1>5. CASE /\ newline' = (newline \/ Next1 \in Newlines)
           /\ NextChar
           /\ UNCHANGED <<todo, empty_line, start, token, result, escapeVars>>
  <2>1. ReaderInv' /\ Behind'
    BY <1>5, StaysBehind
  <2>2. /\ NewlineUpTo(posn.offset)' <=>
             NewlineUpTo(posn.offset) \/ Head(ahead) \in Newlines
        /\ Next1 = Head(ahead)
    BY <1>5, NewlineUpToNext
  <2>3. This' = This /\ Skipping' /\ LexerTypes'
    BY <1>2, <1>5 DEF This, Skipping, LexerInv, LexerTypes
  <2>4. SkippingInv'
    BY <1>1, <1>2, <1>5, <2>2, <2>3 DEF SkippingInv, Skipped
  <2> QED BY <2>1, <2>3, <2>4 DEF LexerInv, Phases
<1> QED BY <1>3, <1>4, <1>5 DEF BlockComment

\* The flag is right where the blanks end and the token starts.
LEMMA StartTokenInv == LexerInv /\ StartToken => LexerInv'
<1> SUFFICES ASSUME LexerInv, StartToken PROVE LexerInv'
  OBVIOUS
<1>1. /\ At("blank") /\ Next1 \notin Newlines
      /\ empty_line' = FALSE /\ start' = posn /\ Then(<<>>)
      /\ UNCHANGED <<readerVars, newline, token, result>>
  BY DEF StartToken
<1>2. /\ Skipping /\ SkippingInv /\ Running
      /\ todo = <<Call("blank"), Call("token")>> /\ This = Call("blank")
  BY <1>1, BlankPhase
<1>3. todo' = <<Call("token")>>
  <2>1. todo' = <<>> \o Tail(<<Call("blank"), Call("token")>>)
    BY <1>1, <1>2 DEF Then
  <2> QED BY <2>1, FirstReplaced
<1>4. /\ ahead \in Seq(Chars) /\ posn.offset \in Nat /\ posn.offset <= Len(text)
      /\ posn.line \in Nat
  BY DEF LexerInv, Behind, ReaderInv, ReaderTypeOK
<1>5. ~AtLineFeed
  <2> SUFFICES ASSUME AtLineFeed PROVE FALSE
    OBVIOUS
  <2>1. Head(ahead) = "LF" /\ Len(ahead) > 0 /\ Head(ahead) = ahead[1]
    BY <1>4 DEF AtLineFeed
  <2>2. Next1 = "LF"
    BY <2>1 DEF Next1, PeekAt
  <2> QED BY <1>1, <2>2, CommentMarks
<1>6. ReaderInv' /\ Behind'
  BY <1>1, <1>4, ReaderStepInv DEF LexerInv, Behind, EmptyLineSound, ReaderStep, readerVars
<1>7. LexerTypes'
  <2>1. todo' \in Seq(LexerCall)
    BY <1>3, CommentCalls, Tuples
  <2> QED BY <1>1, <1>4, <2>1 DEF LexerInv, LexerTypes
<1>8. InToken'
  <2>1. Len(todo') = 1 /\ todo'[1] = Call("token") /\ todo' # <<>>
    BY <1>3
  <2> QED BY <2>1, CommentCalls DEF InToken
<1>9. InTokenInv'
  <2>1. newline <=> NewlineUpTo(posn.offset)
    BY <1>2, <1>5 DEF SkippingInv
  <2> QED BY <1>1, <1>4, <2>1 DEF InTokenInv, NewlineUpTo, readerVars
<1> QED BY <1>6, <1>7, <1>8, <1>9 DEF LexerInv, Phases

\* A request starts where the last token ended, with the flag reset.
LEMMA RequestInv == LexerInv /\ Request => LexerInv'
<1> SUFFICES ASSUME LexerInv, Request PROVE LexerInv'
  OBVIOUS
<1>1. /\ Running /\ todo = <<>> /\ todo' = <<Call("blank"), Call("token")>>
      /\ newline' = FALSE
      /\ UNCHANGED <<readerVars, empty_line, start, token, result>>
  BY DEF Request
<1>2. ReaderInv' /\ Behind'
  BY <1>1, StaysBehind
<1>3. LexerTypes'
  <2>1. todo' \in Seq(LexerCall)
    BY <1>1, CommentCalls, Tuples
  <2> QED BY <1>1, <2>1 DEF LexerInv, LexerTypes
<1>4. Skipping' /\ Skipped'
  <2>1. /\ Len(todo') = 2 /\ todo'[1] = Call("blank") /\ todo'[2] = Call("token")
        /\ This' = Call("blank")
    BY <1>1 DEF This
  <2> QED BY <2>1, CommentCalls DEF Skipping, Skipped
<1>5. ~NewlineUpTo(posn.offset)'
  <2>1. posn.offset = token.end.offset
    BY <1>1 DEF LexerInv, Phases, Skipping, InToken
  <2>2. posn.offset \in Nat
    BY DEF LexerInv, ReaderInv, ReaderTypeOK
  <2> QED BY <1>1, <2>1, <2>2 DEF NewlineUpTo, readerVars
<1> QED BY <1>1, <1>2, <1>3, <1>4, <1>5 DEF LexerInv, Phases, SkippingInv

-----------------------------------------------------------------------------
(***************************************************************************)
(* The start and the end of a token, and the theorems.                     *)
(***************************************************************************)
\* The functions for a token, and the end of its span, are all that is left to do.
LEMMA TokenStarts ==
  LexerInv /\ At("token") => \A cs \in Seq(InnerCall), k \in Kinds :
    LET calls == cs \o <<End(k)>>
    IN  Consume(calls) \/ Stay(calls) => LexerInv'
<1> SUFFICES ASSUME LexerInv, At("token"), NEW cs \in Seq(InnerCall), NEW k \in Kinds,
                    Consume(cs \o <<End(k)>>) \/ Stay(cs \o <<End(k)>>)
             PROVE  LexerInv'
  OBVIOUS
<1> DEFINE calls == cs \o <<End(k)>>
<1>1. /\ UNCHANGED tokenVars /\ Then(calls)
      /\ NextChar \/ UNCHANGED readerVars
  BY DEF Consume, Stay
<1>2. ReaderInv' /\ Behind' /\ text' = text
  BY <1>1, StaysBehind DEF tokenVars
<1>3. /\ calls \in Seq(LexerCall) /\ Len(calls) = Len(cs) + 1
      /\ \A i \in 1 .. Len(cs) : calls[i] = cs[i]
      /\ calls[Len(calls)] = End(k)
  <2>1. cs \in Seq(LexerCall)
    BY DEF LexerCall
  <2>2. End(k) \in LexerCall
    BY DEF End, LexerCall
  <2>3. <<End(k)>> \in Seq(LexerCall) /\ Len(<<End(k)>>) = 1 /\ <<End(k)>>[1] = End(k)
    BY <2>2
  <2> DEFINE t == <<End(k)>>
  <2> HIDE DEF t
  <2>4. /\ cs \o t \in Seq(LexerCall) /\ Len(cs \o t) = Len(cs) + 1
        /\ \A i \in 1 .. Len(cs) + 1 :
             (cs \o t)[i] = IF i <= Len(cs) THEN cs[i] ELSE t[i - Len(cs)]
    BY <2>1, <2>3, ConcatProperties DEF t
  <2>5. Len(cs) \in Nat /\ Len(cs) + 1 - Len(cs) = 1
    BY <2>1
  <2>6. (cs \o t)[Len(cs) + 1] = End(k)
    BY <2>3, <2>4, <2>5 DEF t
  <2>7. \A i \in 1 .. Len(cs) : (cs \o t)[i] = cs[i]
    BY <2>4, <2>5
  <2> QED BY <2>4, <2>6, <2>7 DEF t
<1>4. /\ Running /\ todo # <<>> /\ This.fn = "token" /\ This = todo[1]
      /\ todo \in Seq(LexerCall) /\ Len(todo) \in Nat /\ Len(todo) > 0
  BY CallAtHand DEF At, LexerInv, LexerTypes
<1>5. InToken /\ InTokenInv
  BY <1>4, TokenPhase DEF TokenFns
<1>6. Len(todo) = 1
  <2> SUFFICES ASSUME Len(todo) > 1 PROVE FALSE
    BY <1>4, OneOrMore
  <2>1. todo[1].fn \in InnerFns
    BY <1>4, <1>5 DEF InToken
  <2> QED BY <1>4, <2>1 DEF InnerFns, PlainFns
<1> HIDE DEF calls
<1>7. /\ todo' \in Seq(LexerCall) /\ Len(todo') = Len(calls)
      /\ \A i \in 1 .. Len(calls) : todo'[i] = calls[i]
      /\ todo' # <<>>
  <2>1. calls # <<>>
    BY <1>3
  <2> QED BY <1>1, <1>3, <1>4, <1>6, <2>1, ThenCalls
<1>8. LexerTypes'
  BY <1>1, <1>7 DEF LexerInv, LexerTypes, tokenVars
<1>9. InToken'
  <2>1. \A i \in 1 .. Len(todo') - 1 : todo'[i].fn \in InnerFns
    BY <1>3, <1>7, InnerCallFns
  <2>2. todo'[Len(todo')].fn = "end"
    BY <1>3, <1>7 DEF End
  <2> QED BY <1>7, <2>1, <2>2 DEF InToken
<1>10. InTokenInv'
  BY <1>1, <1>2, <1>5 DEF InTokenInv, tokenVars, NewlineUpTo
<1> QED BY <1>2, <1>8, <1>9, <1>10 DEF LexerInv, Phases

\* What a punctuator calls is called within a token.
LEMMA PunctuatorInner == PunctuatorCalls \in Seq(InnerCall)
<1>1. /\ Skip(1) \in InnerCall /\ Skip(2) \in InnerCall /\ Skip(3) \in InnerCall
      /\ Call("shift") \in InnerCall /\ Call("matches_equals") \in InnerCall
  <2>1. {"shift", "matches_equals"} \subseteq PlainFns
    BY DEF PlainFns
  <2>2. 1 \in 1 .. 4 /\ 2 \in 1 .. 4 /\ 3 \in 1 .. 4
    OBVIOUS
  <2> QED BY <2>1, <2>2, Calls
<1>2. /\ <<Skip(3)>> \in Seq(InnerCall) /\ <<Skip(2), Call("shift")>> \in Seq(InnerCall)
      /\ <<Skip(2), Call("matches_equals")>> \in Seq(InnerCall)
      /\ <<Skip(2)>> \in Seq(InnerCall) /\ <<Skip(1)>> \in Seq(InnerCall)
  BY <1>1, Tuples
<1> QED BY <1>2 DEF PunctuatorCalls

\* The dispatch on the first character of a token.
LEMMA ReadTokenInv == LexerInv /\ ReadToken => LexerInv'
<1> SUFFICES ASSUME LexerInv, ReadToken PROVE LexerInv'
  OBVIOUS
<1>1. At("token")
  BY DEF ReadToken
<1>2. Kinds = {"none", "punctuator", "number", "string", "regexp", "word", "EOF"}
  BY DEF Kinds
<1>3. {"regexp", "word_parts", "number", "number_end", "tokenize"} \subseteq PlainFns
  BY DEF PlainFns
<1>4. /\ <<Call("regexp"), Call("word_parts")>> \in Seq(InnerCall)
      /\ <<Call("number"), Call("number_end")>> \in Seq(InnerCall)
      /\ <<Call("word_parts"), Call("tokenize")>> \in Seq(InnerCall)
      /\ <<>> \in Seq(InnerCall)
  BY <1>3, Calls, Tuples
<1>5. PICK operator \in BOOLEAN :
       \/ Consume(<<Call("regexp"), Call("word_parts"), End("regexp")>>)
       \/ Stay(<<Call("number"), Call("number_end"), End("number")>>)
       \/ /\ StartsString
          /\ Consume(<<[fn |-> "string", quote |-> Next1], End("string")>>)
       \/ Stay(<<Call("word_parts"), Call("tokenize"), End("word")>>)
       \/ Stay(PunctuatorCalls \o <<End("punctuator")>>)
       \/ Stay(<<End("EOF")>>)
  BY Zenon DEF ReadToken
<1>6. ASSUME NEW cs \in Seq(InnerCall), NEW k \in Kinds, NEW calls,
             calls = cs \o <<End(k)>>, Consume(calls) \/ Stay(calls)
      PROVE  LexerInv'
  BY <1>1, <1>6, TokenStarts
<1>7. CASE Consume(<<Call("regexp"), Call("word_parts"), End("regexp")>>)
  <2>1. <<Call("regexp"), Call("word_parts")>> \o <<End("regexp")>> =
        <<Call("regexp"), Call("word_parts"), End("regexp")>>
    BY Joined
  <2> QED BY <1>2, <1>4, <1>6, <1>7, <2>1
<1>8. CASE Stay(<<Call("number"), Call("number_end"), End("number")>>)
  <2>1. <<Call("number"), Call("number_end")>> \o <<End("number")>> =
        <<Call("number"), Call("number_end"), End("number")>>
    BY Joined
  <2> QED BY <1>2, <1>4, <1>6, <1>8, <2>1
<1>9. CASE /\ StartsString
           /\ Consume(<<[fn |-> "string", quote |-> Next1], End("string")>>)
  <2> DEFINE c == [fn |-> "string", quote |-> Next1]
  <2>1. c \in InnerCall
    BY <1>9, Calls DEF StartsString
  <2> HIDE DEF c
  <2>2. <<c>> \in Seq(InnerCall) /\ <<c>> \o <<End("string")>> = <<c, End("string")>>
    BY <2>1, Joined
  <2> QED BY <1>2, <1>6, <1>9, <2>2 DEF c
<1>10. CASE Stay(<<Call("word_parts"), Call("tokenize"), End("word")>>)
  <2>1. <<Call("word_parts"), Call("tokenize")>> \o <<End("word")>> =
        <<Call("word_parts"), Call("tokenize"), End("word")>>
    BY Joined
  <2> QED BY <1>2, <1>4, <1>6, <1>10, <2>1
<1>11. CASE Stay(PunctuatorCalls \o <<End("punctuator")>>)
  BY <1>2, <1>6, <1>11, PunctuatorInner
<1>12. CASE Stay(<<End("EOF")>>)
  <2>1. <<>> \o <<End("EOF")>> = <<End("EOF")>>
    BY Joined
  <2> QED BY <1>2, <1>4, <1>6, <1>12, <2>1
<1> QED BY <1>5, <1>7, <1>8, <1>9, <1>10, <1>11, <1>12

\* The end of a token is the only call left.
LEMMA EndPhase ==
  ASSUME LexerInv, EndToken
  PROVE  /\ InTokenInv /\ Len(todo) = 1 /\ Running
         /\ token' = [kind |-> This.kind, newline |-> newline, start |-> start, end |-> posn]
         /\ todo' = <<>>
         /\ UNCHANGED <<readerVars, newline, empty_line, start, result>>
<1>1. /\ Running /\ todo # <<>> /\ This.fn = "end" /\ This = todo[1]
      /\ todo \in Seq(LexerCall) /\ Len(todo) \in Nat /\ Len(todo) > 0
  BY CallAtHand DEF EndToken, At, LexerInv, LexerTypes
<1>2. InToken /\ InTokenInv
  BY <1>1, TokenPhase DEF TokenFns
<1>3. Len(todo) = 1
  <2> SUFFICES ASSUME Len(todo) > 1 PROVE FALSE
    BY <1>1, OneOrMore
  <2>1. todo[1].fn \in InnerFns
    BY <1>1, <1>2 DEF InToken
  <2> QED BY <1>1, <2>1 DEF InnerFns, PlainFns
<1>4. Then(<<>>)
  BY DEF EndToken
<1>5. <<>> \in Seq(LexerCall)
  OBVIOUS
<1>6. todo' = <<>>
  BY <1>1, <1>3, <1>4, <1>5, ThenCalls
<1> QED BY <1>1, <1>2, <1>3, <1>6 DEF EndToken

\* A token read has the flag of the blanks before it.
LEMMA EndTokenInv == LexerInv /\ EndToken => LexerInv'
<1> SUFFICES ASSUME LexerInv, EndToken PROVE LexerInv'
  OBVIOUS
<1>1. /\ InTokenInv /\ todo' = <<>>
      /\ token' = [kind |-> This.kind, newline |-> newline, start |-> start, end |-> posn]
      /\ UNCHANGED <<readerVars, newline, empty_line, start, result>>
  BY EndPhase
<1>2. /\ posn.offset \in Nat /\ posn.line \in Nat /\ ReaderInv
  BY DEF LexerInv, ReaderInv, ReaderTypeOK
<1>3. ReaderInv'
  BY <1>1, <1>2, ReaderStepInv DEF ReaderStep
<1>4. Behind'
  BY <1>1, <1>2 DEF LexerInv, Behind, EmptyLineSound, InTokenInv, readerVars
<1>5. LexerTypes'
  <2>1. <<>> \in Seq(LexerCall)
    OBVIOUS
  <2> QED BY <1>1, <2>1 DEF LexerInv, LexerTypes
<1>6. Phases'
  BY <1>1 DEF Phases, readerVars
<1> QED BY <1>3, <1>4, <1>5, <1>6 DEF LexerInv

\* Every step keeps the invariant.
LEMMA LexerNextInv == LexerInv /\ [LexerNext]_lexerVars => LexerInv'
<1> SUFFICES ASSUME LexerInv, [LexerNext]_lexerVars PROVE LexerInv'
  OBVIOUS
<1>1. CASE LexerStep
  <2>1. CASE IllegalChar
    BY <2>1, FailInv DEF IllegalChar
  <2> QED BY <1>1, <2>1, PeekInv, SkipInv, SkipBlankInv, SkipNewlineInv, SkipCommentInv,
        LineCommentInv, BlockCommentInv, StartTokenInv, ReadTokenInv, EndTokenInv,
        WordMoves, StringMoves, NumberMoves, MovesInv, Zenon DEF LexerStep
<1>2. CASE UNCHANGED lexerVars
  <2>1. ReaderInv'
    BY <1>2, ReaderStepInv DEF LexerInv, ReaderStep, lexerVars
  <2> QED BY <1>2, <2>1 DEF LexerInv, LexerTypes, Behind, EmptyLineSound, Phases, Running,
        Skipping, SkippingInv, InToken, InTokenInv, NewlineUpTo, AtLineFeed, Skipped, This,
        lexerVars, tokenVars, readerVars
<1> QED BY <1>1, <1>2, RequestInv DEF LexerNext, Finished

(***************************************************************************)
(* The inductive invariant of the lexer: read_next_token skips blanks and  *)
(* comments, keeping newline up to date, and then reads one token that     *)
(* changes none of what the blanks have set.                               *)
(***************************************************************************)
THEOREM LexerCorrect == LexerSpec => []LexerInv
BY LexerInitInv, LexerNextInv, PTL DEF LexerSpec

(***************************************************************************)
(* While empty_line is set, no token has ended on the line the reader is at,*)
(* so --> starts a comment only where nothing but blanks and comments      *)
(* stands before it.                                                       *)
(***************************************************************************)
THEOREM EmptyLineCorrect == LexerSpec => []EmptyLineSound
<1>1. LexerInv => EmptyLineSound
  BY DEF LexerInv, Behind
<1> QED BY <1>1, LexerCorrect, PTL

\* Only EndToken reads a token.
LEMMA TokenUnchanged ==
  ASSUME [LexerNext]_lexerVars, ~EndToken PROVE token' = token
<1>0. ASSUME NEW calls, Consume(calls) \/ Stay(calls) PROVE token' = token
  BY <1>0 DEF Consume, Stay, tokenVars
<1>1. ASSUME NEW e, Fail(e) PROVE token' = token
  BY <1>1 DEF Fail
<1>2. PeekMore \/ SkipChars \/ ReadWhileChars => token' = token
  BY <1>0, <1>1, Zenon DEF PeekMore, SkipChars, ReadWhileChars, tokenVars
<1>3. SkipBlank \/ SkipComment \/ LineComment => token' = token
  BY <1>0, <1>1, Zenon DEF SkipBlank, SkipComment, LineComment
<1>4. SkipNewline \/ BlockComment \/ StartToken => token' = token
  BY <1>0, <1>1, Zenon DEF SkipNewline, BlockComment, StartToken
<1>5. ReadToken \/ IllegalChar \/ Shift \/ MatchesEquals => token' = token
  BY <1>0, <1>1, Zenon DEF ReadToken, IllegalChar, Shift, MatchesEquals
<1>6. RegExp \/ Backslash \/ RegExpClass \/ WordParts \/ WordEscape \/ Tokenize
        => token' = token
  BY <1>0, <1>1, Zenon DEF RegExp, AssertionFails, Backslash, RegExpClass, WordParts,
       WordEscape, Tokenize
<1>7. StringChars \/ StringEscape \/ OctalEscape \/ ReadDigitInto => token' = token
  BY <1>0, <1>1, Zenon DEF StringChars, StringEscape, OctalEscape, ReadDigitInto
<1>8. UnicodeEscape \/ Braces \/ AddDigits \/ CharFromU32 => token' = token
  BY <1>0, <1>1, Zenon DEF UnicodeEscape, Braces, AssertionFails, AddDigits, CharFromU32
<1>9. Number \/ Decimal \/ Fraction \/ ExpPart \/ ExpSign \/ ExpDigits \/ NumberEnd
        => token' = token
  BY <1>0, <1>1, Zenon DEF Number, Decimal, Fraction, ExpPart, ExpSign, ExpDigits, NumberEnd
<1>10. LexerStep => token' = token
  BY <1>2, <1>3, <1>4, <1>5, <1>6, <1>7, <1>8, <1>9, Zenon DEF LexerStep
<1>11. Request \/ Finished \/ UNCHANGED lexerVars => token' = token
  BY DEF Request, Finished, lexerVars, tokenVars
<1> QED BY <1>10, <1>11 DEF LexerNext

(***************************************************************************)
(* The newline flag of a token, on which semicolon insertion rests, says   *)
(* whether there is a newline between the token before and this one.       *)
(***************************************************************************)
THEOREM NewlineFlagCorrect == LexerSpec => NewlineFlag
<1>1. LexerInv /\ [LexerNext]_lexerVars =>
        [token' # token =>
           (token'.newline <=>
              \E i \in token.end.offset + 1 .. token'.start.offset : text[i] \in Newlines)
        ]_lexerVars
  <2> SUFFICES ASSUME LexerInv, [LexerNext]_lexerVars, token' # token
               PROVE  token'.newline <=>
                        \E i \in token.end.offset + 1 .. token'.start.offset :
                          text[i] \in Newlines
    OBVIOUS
  <2>1. EndToken
    BY TokenUnchanged
  <2>2. /\ InTokenInv
        /\ token' = [kind |-> This.kind, newline |-> newline, start |-> start, end |-> posn]
    BY <2>1, EndPhase
  <2>3. token'.newline = newline /\ token'.start = start
    BY <2>2
  <2> QED BY <2>2, <2>3 DEF InTokenInv, NewlineUpTo
<1> QED BY <1>1, LexerCorrect, PTL DEF LexerSpec, NewlineFlag
-----------------------------------------------------------------------------
(***************************************************************************)
(* Which call each step is a step of, and the text it leaves.              *)
(***************************************************************************)
LEMMA ActingCalls ==
  /\ SkipChars => This.fn = "skip"
  /\ ReadWhileChars => This.fn = "read_while"
  /\ SkipBlank \/ SkipNewline \/ SkipComment \/ StartToken => This.fn = "blank"
  /\ LineComment => This.fn = "line_comment"
  /\ BlockComment => This.fn = "block_comment"
  /\ ReadToken \/ IllegalChar => This.fn = "token"
  /\ EndToken => This.fn = "end"
  /\ Shift => This.fn = "shift"
  /\ MatchesEquals => This.fn = "matches_equals"
  /\ RegExp => This.fn = "regexp"
  /\ Backslash => This.fn = "backslash"
  /\ RegExpClass => This.fn = "class"
  /\ WordParts => This.fn = "word_parts"
  /\ WordEscape => This.fn = "word_escape"
  /\ Tokenize => This.fn = "tokenize"
BY Zenon DEF At, SkipChars, ReadWhileChars, SkipBlank, SkipNewline, SkipComment, StartToken,
     LineComment, BlockComment, ReadToken, IllegalChar, EndToken, Shift, MatchesEquals,
     RegExp, Backslash, RegExpClass, WordParts, WordEscape, Tokenize

LEMMA ActingLiterals ==
  /\ StringChars => This.fn = "string"
  /\ StringEscape => This.fn = "escape"
  /\ OctalEscape => This.fn = "octal"
  /\ ReadDigitInto => This.fn = "digit"
  /\ UnicodeEscape => This.fn = "unicode"
  /\ Braces => This.fn = "braces"
  /\ AddDigits => This.fn = "add_digits"
  /\ CharFromU32 => This.fn = "from_u32"
  /\ Number => This.fn = "number"
  /\ Decimal => This.fn = "decimal"
  /\ Fraction => This.fn = "fraction"
  /\ ExpPart => This.fn = "exp"
  /\ ExpSign => This.fn = "sign"
  /\ ExpDigits => This.fn = "exp_digits"
  /\ NumberEnd => This.fn = "number_end"
BY Zenon DEF At, StringChars, StringEscape, OctalEscape, ReadDigitInto, UnicodeEscape, Braces,
     AddDigits, CharFromU32, Number, Decimal, Fraction, ExpPart, ExpSign, ExpDigits, NumberEnd

\* So the function called tells the step.
LEMMA StepOf ==
  LexerStep /\ ~PeekMore =>
    /\ This.fn = "skip" => SkipChars
    /\ This.fn = "read_while" => ReadWhileChars
    /\ This.fn = "blank" => SkipBlank \/ SkipNewline \/ SkipComment \/ StartToken
    /\ This.fn = "line_comment" => LineComment
    /\ This.fn = "block_comment" => BlockComment
    /\ This.fn = "token" => ReadToken \/ IllegalChar
    /\ This.fn = "end" => EndToken
    /\ This.fn = "shift" => Shift
    /\ This.fn = "matches_equals" => MatchesEquals
    /\ This.fn = "regexp" => RegExp
    /\ This.fn = "backslash" => Backslash
    /\ This.fn = "class" => RegExpClass
    /\ This.fn = "word_parts" => WordParts
    /\ This.fn = "word_escape" => WordEscape
    /\ This.fn = "tokenize" => Tokenize
    /\ This.fn = "string" => StringChars
    /\ This.fn = "escape" => StringEscape
    /\ This.fn = "octal" => OctalEscape
    /\ This.fn = "digit" => ReadDigitInto
    /\ This.fn = "unicode" => UnicodeEscape
    /\ This.fn = "braces" => Braces
    /\ This.fn = "add_digits" => AddDigits
    /\ This.fn = "from_u32" => CharFromU32
    /\ This.fn = "number" => Number
    /\ This.fn = "decimal" => Decimal
    /\ This.fn = "fraction" => Fraction
    /\ This.fn = "exp" => ExpPart
    /\ This.fn = "sign" => ExpSign
    /\ This.fn = "exp_digits" => ExpDigits
    /\ This.fn = "number_end" => NumberEnd
BY ActingCalls, ActingLiterals, SMT DEF LexerStep

\* A step of the lexer has a call at hand.
LEMMA LexerStepRuns == LexerStep => Running /\ todo # <<>>
BY Zenon DEF LexerStep, At, PeekMore, SkipChars, ReadWhileChars, SkipBlank, SkipNewline, SkipComment,
     StartToken, LineComment, BlockComment, ReadToken, IllegalChar, EndToken, Shift,
     MatchesEquals, RegExp, Backslash, RegExpClass, WordParts, WordEscape, Tokenize,
     StringChars, StringEscape, OctalEscape, ReadDigitInto, UnicodeEscape, Braces,
     AddDigits, CharFromU32, Number, Decimal, Fraction, ExpPart, ExpSign, ExpDigits, NumberEnd

LEMMA NotRunning == ASSUME NEW e, e # "lexing", Fail(e) PROVE ~Running'
BY DEF Fail, Running

\* The text only grows, and not once it has ended.
Grows ==
  /\ text' \in Seq(Chars) /\ Len(text) <= Len(text)'
  /\ \A i \in 1 .. Len(text) : text'[i] = text[i]
  /\ ended => ended' /\ text' = text

LEMMA TextGrows ==
  ASSUME ReaderInv, ReaderStep PROVE Grows
<1>1. text \in Seq(Chars)
  BY DEF ReaderInv, ReaderTypeOK
<1>2. CASE Draw
  <2>1. CASE UNCHANGED text
    BY <1>1, <1>2, <2>1 DEF Draw, Grows
  <2>2. CASE ~UNCHANGED text
    <3>1. PICK c : text' = Append(text, c) /\ ~ended
      BY <1>2, <2>2 DEF Draw
    <3>2. text' \in Seq(Chars)
      BY ReaderStepInv DEF ReaderInv, ReaderTypeOK
    <3> QED BY <1>1, <3>1, <3>2 DEF Grows
  <2> QED BY <2>1, <2>2
<1>3. CASE NextChar \/ NextEnd \/ UNCHANGED readerVars
  BY <1>1, <1>3 DEF NextChar, NextEnd, readerVars, Grows
<1> QED BY <1>2, <1>3 DEF ReaderStep, ReaderNext

\* What is within the text stays.
LEMMA TextStays ==
  ASSUME text \in Seq(Chars), Grows, NEW a \in Nat, NEW b \in Nat, b <= Len(text)
  PROVE  SubSeq(text', a + 1, b) = SubSeq(text, a + 1, b)
<1>1. CASE a <= b
  <2> DEFINE s == SubSeq(text, a + 1, b)
             t == SubSeq(text', a + 1, b)
  <2>1. s \in Seq(Chars) /\ Len(s) = b - a /\ \A i \in 1 .. b - a : s[i] = text[a + i]
    BY <1>1
  <2>2. t \in Seq(Chars) /\ Len(t) = b - a /\ \A i \in 1 .. b - a : t[i] = text'[a + i]
    BY <1>1 DEF Grows
  <2>3. \A i \in 1 .. b - a : text'[a + i] = text[a + i]
    BY DEF Grows
  <2> HIDE DEF s, t
  <2>4. s = t
    BY <2>1, <2>2, <2>3, SeqEqual
  <2> QED BY <2>4 DEF s, t
<1>2. CASE ~(a <= b)
  BY <1>2 DEF Grows
<1> QED BY <1>1, <1>2

\* One more character.
LEMMA AppendIs ==
  ASSUME NEW s \in Seq(Chars), NEW c \in Chars
  PROVE  /\ Append(s, c) \in Seq(Chars) /\ Len(s) \in Nat
         /\ Len(Append(s, c)) = Len(s) + 1 /\ Append(s, c)[Len(s) + 1] = c
         /\ \A i \in 1 .. Len(s) : Append(s, c)[i] = s[i]
         /\ Append(s, c) # <<>>
OBVIOUS
-----------------------------------------------------------------------------
(***************************************************************************)
(* Loops over digits: a function defined by recursion on a number is the   *)
(* one whose values are those of the loop.                                 *)
(***************************************************************************)
\* A set of numbers that is not empty has a least one.
LEMMA Least ==
  ASSUME NEW T \in SUBSET Nat, T # {}
  PROVE  \E x \in T : \A y \in T : x <= y
<1> DEFINE R == {p \in Nat \X Nat : p[1] < p[2]}
<1>1. IsWellFoundedOn(R, Nat)
  BY NatLessThanWellFounded DEF OpToRel
<1>2. PICK x \in T : \A y \in T : ~(<<y, x>> \in R)
  <2> HIDE DEF R
  <2> QED BY <1>1, WFMin
<1>3. \A y \in T : x <= y
  <2> SUFFICES ASSUME NEW y \in T, y < x PROVE FALSE
    BY SMT
  <2>1. <<y, x>> \in R
    BY SMT
  <2> QED BY <1>2, <2>1
<1> QED BY <1>3

\* g holds the results of N iterations, from b on, of a loop whose body is step.
Bodies(N, S) == [1 .. N -> [S -> S]]
IsLoop(g, N, S, b, step) ==
  g \in [0 .. N -> S] /\ g[0] = b /\ \A n \in 1 .. N : g[n] = step[n][g[n - 1]]

LEMMA LoopExists ==
  ASSUME NEW N \in Nat, NEW S, NEW b \in S, NEW step \in Bodies(N, S)
  PROVE  \E g : IsLoop(g, N, S, b, step)
<1> USE DEF Bodies
<1> DEFINE Loop(m) ==
             \E g \in [0 .. m -> S] : g[0] = b /\ \A n \in 1 .. m : g[n] = step[n][g[n - 1]]
           T == {m \in 0 .. N : ~Loop(m)}
<1>1. Loop(0)
  <2> DEFINE g == [i \in 0 .. 0 |-> b]
  <2>1. g \in [0 .. 0 -> S] /\ g[0] = b /\ \A n \in 1 .. 0 : FALSE
    OBVIOUS
  <2> QED BY <2>1
<1>2. ASSUME NEW m \in 0 .. N - 1, Loop(m) PROVE Loop(m + 1)
  <2>1. PICK g \in [0 .. m -> S] : g[0] = b /\ \A n \in 1 .. m : g[n] = step[n][g[n - 1]]
    BY <1>2
  <2> DEFINE next == step[m + 1][g[m]]
  <2>2. next \in S
    <3>1. m \in 0 .. m /\ m + 1 \in 1 .. N
      OBVIOUS
    <3>2. step[m + 1] \in [S -> S] /\ g[m] \in S
      BY <3>1
    <3> QED BY <3>2
  <2> HIDE DEF next
  <2> DEFINE h == [i \in 0 .. m + 1 |-> IF i <= m THEN g[i] ELSE next]
  <2>3. h \in [0 .. m + 1 -> S] /\ h[0] = b
    BY <2>1, <2>2
  <2>4. ASSUME NEW n \in 1 .. m + 1 PROVE h[n] = step[n][h[n - 1]]
    <3>1. n - 1 \in 0 .. m /\ n - 1 \in 0 .. m + 1 /\ n \in 0 .. m + 1 /\ n - 1 <= m
      OBVIOUS
    <3>2. h[n - 1] = g[n - 1]
      BY <3>1
    <3>3. CASE n <= m
      <4>1. n \in 1 .. m /\ h[n] = g[n]
        BY <3>1, <3>3
      <4> HIDE DEF h
      <4> QED BY <2>1, <3>2, <4>1
    <3>4. CASE ~(n <= m)
      <4>1. n = m + 1 /\ n - 1 = m
        BY <3>4
      <4>2. h[n] = next
        BY <3>1, <3>4
      <4> HIDE DEF h
      <4> QED BY <3>2, <4>1, <4>2 DEF next
    <3> QED BY <3>3, <3>4
  <2> HIDE DEF h
  <2> QED BY <2>3, <2>4
<1> HIDE DEF Loop
<1>3. T = {}
  <2> SUFFICES ASSUME T # {} PROVE FALSE
    OBVIOUS
  <2>1. T \in SUBSET Nat
    OBVIOUS
  <2>2. PICK m \in T : \A y \in T : m <= y
    <3> HIDE DEF T
    <3> QED BY <2>1, Least
  <2>3. m \in 0 .. N /\ ~Loop(m) /\ m # 0
    BY <1>1, <2>2
  <2>4. m - 1 \in 0 .. N - 1 /\ (m - 1) + 1 = m /\ m - 1 \in 0 .. N
    BY <2>3
  <2>5. m - 1 \notin T
    <3>1. m - 1 \in Nat /\ ~(m <= m - 1)
      BY <2>3
    <3> QED BY <2>2, <3>1
  <2>6. Loop(m - 1)
    BY <2>4, <2>5
  <2>7. Loop((m - 1) + 1)
    BY <1>2, <2>4, <2>6
  <2> QED BY <2>3, <2>4, <2>7
<1>4. Loop(N)
  BY <1>3
<1> QED BY <1>4 DEF Loop, IsLoop

\* The loop of add_digits.
LEMMA SummedIs ==
  ASSUME NEW ds \in Seq(Nat)
  PROVE  \E g \in [0 .. Len(ds) -> [sum : Nat, place : Nat]] :
           /\ g[0].sum = 0 /\ g[0].place = 1
           /\ \A n \in 1 .. Len(ds) :
                /\ g[n].sum = g[n - 1].sum + ds[Len(ds) - n + 1] * g[n - 1].place
                /\ g[n].place = g[n - 1].place * 16
           /\ Summed(ds) = g[Len(ds)]
<1> DEFINE N == Len(ds)
           S == [sum : Nat, place : Nat]
           b == [sum |-> 0, place |-> 1]
           step == [n \in 1 .. N |-> [x \in S |->
                      [sum |-> x.sum + ds[N - n + 1] * x.place, place |-> x.place * 16]]]
           Body(g) == [n \in 0 .. Len(ds) |->
                        IF n = 0 THEN [sum |-> 0, place |-> 1]
                        ELSE LET before == g[n - 1]
                             IN  [sum |-> before.sum + ds[Len(ds) - n + 1] * before.place,
                                  place |-> before.place * 16]]
<1>1. N \in Nat /\ b \in S
  OBVIOUS
<1>2. step \in [1 .. N -> [S -> S]]
  <2>1. ASSUME NEW n \in 1 .. N, NEW x \in S
        PROVE  [sum |-> x.sum + ds[N - n + 1] * x.place, place |-> x.place * 16] \in S
    <3>1. N - n + 1 \in 1 .. N /\ ds[N - n + 1] \in Nat
      OBVIOUS
    <3>2. x.sum \in Nat /\ x.place \in Nat
      OBVIOUS
    <3>3. \A d \in Nat, s \in Nat, p \in Nat : s + d * p \in Nat /\ p * 16 \in Nat
      OBVIOUS
    <3>4. x.sum + ds[N - n + 1] * x.place \in Nat /\ x.place * 16 \in Nat
      BY <3>1, <3>2, <3>3
    <3> QED BY <3>4
  <2> QED BY <2>1
<1>3. PICK g \in [0 .. N -> S] : g[0] = b /\ \A n \in 1 .. N : g[n] = step[n][g[n - 1]]
  <2>1. step \in Bodies(N, S)
    BY <1>2 DEF Bodies
  <2> HIDE DEF N, S, b, step
  <2>2. PICK g : IsLoop(g, N, S, b, step)
    BY <1>1, <2>1, LoopExists
  <2> QED BY <2>2 DEF IsLoop
<1>4. ASSUME NEW n \in 1 .. N
      PROVE  g[n] = [sum |-> g[n - 1].sum + ds[N - n + 1] * g[n - 1].place,
                     place |-> g[n - 1].place * 16]
  <2>1. n - 1 \in 0 .. N
    OBVIOUS
  <2>2. g[n - 1] \in S /\ g[n] = step[n][g[n - 1]]
    BY <1>3, <2>1
  <2> QED BY <2>2
<1>5. \E h : h = Body(h)
  <2>1. g = Body(g)
    <3>1. Body(g) = [n \in 0 .. N |-> Body(g)[n]]
      OBVIOUS
    <3>2. ASSUME NEW n \in 0 .. N PROVE g[n] = Body(g)[n]
      <4>1. CASE n = 0
        BY <1>3, <4>1
      <4>2. CASE n # 0
        <5>1. n \in 1 .. N
          BY <4>2
        <5> QED BY <1>4, <4>2, <5>1
      <4> QED BY <4>1, <4>2
    <3>3. g = [n \in 0 .. N |-> g[n]]
      OBVIOUS
    <3> QED BY <3>1, <3>2, <3>3
  <2> QED BY <2>1
<1> DEFINE f == CHOOSE h : h = Body(h)
<1>6. f = Body(f)
  BY <1>5, Zenon
<1>7. Summed(ds) = f[Len(ds)]
  BY DEF Summed
<1> HIDE DEF f
<1>8. f[0] = b
  <2>1. 0 \in 0 .. Len(ds)
    OBVIOUS
  <2> QED BY <1>6, <2>1
<1>9. ASSUME NEW n \in 1 .. N
      PROVE  f[n] = [sum |-> f[n - 1].sum + ds[N - n + 1] * f[n - 1].place,
                     place |-> f[n - 1].place * 16]
  <2>1. n \in 0 .. Len(ds) /\ n # 0
    OBVIOUS
  <2> QED BY <1>6, <2>1
<1>10. f \in [0 .. N -> S]
  <2> DEFINE T == {n \in 0 .. N : f[n] \notin S}
  <2>1. T = {}
    <3> SUFFICES ASSUME T # {} PROVE FALSE
      OBVIOUS
    <3>1. PICK n \in T : \A y \in T : n <= y
      <4>1. T \in SUBSET Nat
        OBVIOUS
      <4> HIDE DEF T
      <4> QED BY <4>1, Least
    <3>2. n \in 1 .. N
      BY <1>1, <1>8, <3>1
    <3>3. f[n - 1] \in S
      <4>1. n - 1 \in 0 .. N /\ ~(n <= n - 1)
        BY <3>2
      <4> QED BY <3>1, <4>1
    <3>4. step[n][f[n - 1]] \in S /\ step[n][f[n - 1]] = f[n]
      <4>1. step[n] \in [S -> S]
        BY <1>2, <3>2
      <4>2. step[n][f[n - 1]] \in S
        BY <3>3, <4>1
      <4> QED BY <1>9, <3>2, <3>3, <4>2
    <3> QED BY <3>1, <3>4
  <2>2. f = [n \in 0 .. N |-> f[n]]
    BY <1>6
  <2>3. \A n \in 0 .. N : f[n] \in S
    BY <2>1
  <2> QED BY <2>2, <2>3
<1>11. f[0].sum = 0 /\ f[0].place = 1
  BY <1>8
<1>12. \A n \in 1 .. N :
         /\ f[n].sum = f[n - 1].sum + ds[N - n + 1] * f[n - 1].place
         /\ f[n].place = f[n - 1].place * 16
  <2> SUFFICES ASSUME NEW n \in 1 .. N
               PROVE  /\ f[n].sum = f[n - 1].sum + ds[N - n + 1] * f[n - 1].place
                      /\ f[n].place = f[n - 1].place * 16
    OBVIOUS
  <2> DEFINE s == f[n - 1].sum + ds[N - n + 1] * f[n - 1].place
             p == f[n - 1].place * 16
  <2>1. f[n] = [sum |-> s, place |-> p]
    BY <1>9
  <2> HIDE DEF s, p
  <2>2. f[n].sum = s /\ f[n].place = p
    BY <2>1
  <2> QED BY <2>2 DEF s, p
<1> QED BY <1>7, <1>10, <1>11, <1>12

\* The number that characters denote.
Denotes(f, cs, N, radix) ==
  /\ f \in [0 .. N -> Nat]
  /\ f[0] = 0
  /\ \A n \in 1 .. N : f[n] = f[n - 1] * radix + ToDigit(cs[n])
  /\ Denoted(cs, radix) = f[N]

LEMMA DenotedIs ==
  ASSUME NEW cs, NEW N \in Nat, Len(cs) = N, NEW radix \in Nat,
         \A n \in 1 .. N : ToDigit(cs[n]) \in Nat
  PROVE  \E f : Denotes(f, cs, N, radix)
<1> DEFINE step == [n \in 1 .. N |-> [x \in Nat |-> x * radix + ToDigit(cs[n])]]
           Body(g) == [n \in 0 .. Len(cs) |->
                         IF n = 0 THEN 0 ELSE g[n - 1] * radix + ToDigit(cs[n])]
<1>1. step \in [1 .. N -> [Nat -> Nat]]
  <2>1. ASSUME NEW n \in 1 .. N, NEW x \in Nat PROVE x * radix + ToDigit(cs[n]) \in Nat
    <3>1. \A y \in Nat, d \in Nat : y * radix + d \in Nat
      OBVIOUS
    <3> QED BY <3>1
  <2> QED BY <2>1
<1>2. PICK g \in [0 .. N -> Nat] : g[0] = 0 /\ \A n \in 1 .. N : g[n] = step[n][g[n - 1]]
  <2>1. 0 \in Nat /\ step \in Bodies(N, Nat)
    BY <1>1 DEF Bodies
  <2> HIDE DEF step
  <2>2. PICK g : IsLoop(g, N, Nat, 0, step)
    BY <2>1, LoopExists
  <2> QED BY <2>2 DEF IsLoop
<1>3. ASSUME NEW n \in 1 .. N PROVE g[n] = g[n - 1] * radix + ToDigit(cs[n])
  <2>1. n - 1 \in 0 .. N /\ g[n - 1] \in Nat
    BY <1>2
  <2> QED BY <1>2, <2>1
<1>4. \E h : h = Body(h)
  <2>1. ASSUME NEW n \in 0 .. N PROVE g[n] = Body(g)[n]
    <3>1. CASE n = 0
      BY <1>2, <3>1
    <3>2. CASE n # 0
      <4>1. n \in 1 .. N
        BY <3>2
      <4> QED BY <1>3, <3>2, <4>1
    <3> QED BY <3>1, <3>2
  <2>2. g = [n \in 0 .. N |-> g[n]] /\ Body(g) = [n \in 0 .. N |-> Body(g)[n]]
    OBVIOUS
  <2>3. g = Body(g)
    BY <2>1, <2>2
  <2> QED BY <2>3
<1> DEFINE f == CHOOSE h : h = Body(h)
<1>5. f = Body(f)
  BY <1>4, Zenon
<1>6. Denoted(cs, radix) = f[Len(cs)]
  BY DEF Denoted
<1> HIDE DEF f
<1>7. f[0] = 0
  <2>1. 0 \in 0 .. Len(cs)
    OBVIOUS
  <2> QED BY <1>5, <2>1
<1>8. ASSUME NEW n \in 1 .. N PROVE f[n] = f[n - 1] * radix + ToDigit(cs[n])
  <2>1. n \in 0 .. Len(cs) /\ n # 0
    OBVIOUS
  <2> QED BY <1>5, <2>1
<1>9. \A n \in 0 .. N : f[n] = g[n]
  <2> DEFINE T == {n \in 0 .. N : f[n] # g[n]}
  <2> SUFFICES ASSUME T # {} PROVE FALSE
    OBVIOUS
  <2>1. PICK n \in T : \A y \in T : n <= y
    <3>1. T \in SUBSET Nat
      OBVIOUS
    <3> HIDE DEF T
    <3> QED BY <3>1, Least
  <2>2. n \in 1 .. N
    BY <1>2, <1>7, <2>1
  <2>3. f[n - 1] = g[n - 1]
    <3>1. n - 1 \in 0 .. N /\ ~(n <= n - 1)
      BY <2>2
    <3> QED BY <2>1, <3>1
  <2>4. f[n] = g[n]
    BY <1>3, <1>8, <2>2, <2>3
  <2> QED BY <2>1, <2>4
<1>10. f \in [0 .. N -> Nat]
  BY <1>2, <1>5, <1>9
<1>11. Denotes(f, cs, N, radix)
  BY <1>6, <1>7, <1>8, <1>10 DEF Denotes
<1> QED BY <1>11
-----------------------------------------------------------------------------
(***************************************************************************)
(* The values of digits.                                                   *)
(***************************************************************************)
LEMMA Letters == ToSet(HexLetters) = {"a", "b", "c", "d", "e", "f"}
<1>1. DOMAIN HexLetters = 1 .. 6
  BY DEF HexLetters
<1>2. /\ HexLetters[1] = "a" /\ HexLetters[2] = "b" /\ HexLetters[3] = "c"
      /\ HexLetters[4] = "d" /\ HexLetters[5] = "e" /\ HexLetters[6] = "f"
  BY DEF HexLetters
<1>3. \A i : i \in 1 .. 6 <=> i = 1 \/ i = 2 \/ i = 3 \/ i = 4 \/ i = 5 \/ i = 6
  OBVIOUS
<1> QED BY <1>1, <1>2, <1>3 DEF ToSet

LEMMA DigitValues ==
  /\ \A c \in HexDigits : ToDigit(c) \in 0 .. 15
  /\ OctDigits \subseteq HexDigits /\ BinDigits \subseteq HexDigits
<1> DEFINE decimal == <<"0", "1", "2", "3", "4", "5", "6", "7", "8", "9">>
           capitals == <<"A", "B", "C", "D", "E", "F">>
<1>1. ASSUME NEW c \in DecDigits PROVE \E i \in 1 .. 10 : c = decimal[i]
  <2>1. /\ decimal[1] = "0" /\ decimal[2] = "1" /\ decimal[3] = "2" /\ decimal[4] = "3"
        /\ decimal[5] = "4" /\ decimal[6] = "5" /\ decimal[7] = "6" /\ decimal[8] = "7"
        /\ decimal[9] = "8" /\ decimal[10] = "9"
    OBVIOUS
  <2> HIDE DEF decimal
  <2> QED BY <2>1 DEF DecDigits, OctDigits, BinDigits
<1>2. ASSUME NEW c \in ToSet(HexLetters) PROVE \E i \in 1 .. 6 : c = HexLetters[i]
  <2>1. DOMAIN HexLetters = 1 .. 6
    BY DEF HexLetters
  <2> QED BY <2>1 DEF ToSet
<1>3. ASSUME NEW c \in {"A", "B", "C", "D", "E", "F"} PROVE \E i \in 1 .. 6 : c = capitals[i]
  <2>1. /\ capitals[1] = "A" /\ capitals[2] = "B" /\ capitals[3] = "C" /\ capitals[4] = "D"
        /\ capitals[5] = "E" /\ capitals[6] = "F"
    OBVIOUS
  <2> HIDE DEF capitals
  <2> QED BY <2>1
<1>4. ASSUME NEW c \in HexDigits PROVE ToDigit(c) \in 0 .. 15
  <2>1. CASE c \in DecDigits
    <3> DEFINE i == CHOOSE i \in 1 .. 10 : c = decimal[i]
    <3>1. i \in 1 .. 10
      BY <1>1, <2>1
    <3>2. ToDigit(c) = i - 1
      <4>1. c \notin ToSet(HexLetters)
        <5>1. ToSet(HexLetters) = {"a", "b", "c", "d", "e", "f"}
          BY Letters
        <5> QED BY <2>1, <5>1 DEF DecDigits, OctDigits, BinDigits
      <4> QED BY <2>1, <4>1 DEF ToDigit
    <3> HIDE DEF i
    <3> QED BY <3>1, <3>2
  <2>2. CASE c \notin DecDigits /\ c \in ToSet(HexLetters)
    <3> DEFINE i == CHOOSE i \in 1 .. 6 : c = HexLetters[i]
    <3>1. i \in 1 .. 6
      BY <1>2, <2>2
    <3>2. ToDigit(c) = 9 + i
      BY <2>2 DEF ToDigit
    <3> HIDE DEF i
    <3> QED BY <3>1, <3>2
  <2>3. CASE c \notin DecDigits /\ c \notin ToSet(HexLetters)
    <3> DEFINE i == CHOOSE i \in 1 .. 6 : c = capitals[i]
    <3>1. c \in {"A", "B", "C", "D", "E", "F"}
      BY <2>3 DEF HexDigits
    <3>2. i \in 1 .. 6
      BY <1>3, <3>1
    <3>3. ToDigit(c) = 9 + i
      BY <2>3 DEF ToDigit
    <3> HIDE DEF i
    <3> QED BY <3>2, <3>3
  <2> QED BY <2>1, <2>2, <2>3
<1> QED BY <1>4 DEF HexDigits, DecDigits, OctDigits

LEMMA OctalDigits ==
  /\ \A c \in OctDigits : ToDigit(c) \in 0 .. 9
  /\ \A c \in OctDigits : c \notin Newlines /\ c # "\\"
<1>1. OctDigits = {"0", "1", "2", "3", "4", "5", "6", "7"}
  BY DEF OctDigits, BinDigits
<1>2. ASSUME NEW c \in OctDigits PROVE ToDigit(c) \in 0 .. 9
  <2> DEFINE ds == <<"0", "1", "2", "3", "4", "5", "6", "7", "8", "9">>
  <2>1. \E i \in 1 .. 10 : c = ds[i]
    BY <1>1
  <2>2. PICK j : j = CHOOSE i \in 1 .. 10 : c = ds[i]
    OBVIOUS
  <2>3. j \in 1 .. 10
    BY <2>1, <2>2
  <2>4. ToSet(HexLetters) = {"a", "b", "c", "d", "e", "f"}
    BY SMT DEF ToSet, HexLetters
  <2>5. c \in DecDigits /\ c \notin ToSet(HexLetters)
    BY <1>1, <2>4 DEF DecDigits
  <2>6. ToDigit(c) = j - 1
    BY <2>2, <2>5, Zenon DEF ToDigit
  <2> QED BY <2>3, <2>6
<1>3. \A c \in OctDigits : c \notin Newlines /\ c # "\\"
  BY <1>1 DEF Newlines, LineEnds
<1> QED BY <1>2, <1>3

\* The sum of digits is a number.
LEMMA SummedTypes ==
  ASSUME NEW ds \in Seq(Nat) PROVE Summed(ds).sum \in Nat
<1>1. PICK g \in [0 .. Len(ds) -> [sum : Nat, place : Nat]] : Summed(ds) = g[Len(ds)]
  BY SummedIs
<1>2. Len(ds) \in 0 .. Len(ds)
  OBVIOUS
<1> QED BY <1>1, <1>2

LEMMA Shifted ==
  ASSUME NEW a \in Nat, NEW d \in Nat, NEW p \in Nat, NEW s \in Nat
  PROVE  (a * 16 + d) * p + s = a * (p * 16) + (s + d * p)
OBVIOUS

\* It is the number that the digits denote, although the loop starts with the last.
LEMMA SummedDenoted ==
  ASSUME NEW cs, NEW ds \in Seq(Nat), Len(cs) = Len(ds),
         \A n \in 1 .. Len(ds) : ds[n] = ToDigit(cs[n])
  PROVE  Summed(ds).sum = Denoted(cs, 16)
<1> DEFINE N == Len(ds)
<1>1. N \in Nat /\ \A n \in 1 .. N : ds[n] \in Nat
  OBVIOUS
<1>2. PICK g \in [0 .. N -> [sum : Nat, place : Nat]] :
        /\ g[0].sum = 0 /\ g[0].place = 1
        /\ \A n \in 1 .. N :
             /\ g[n].sum = g[n - 1].sum + ds[N - n + 1] * g[n - 1].place
             /\ g[n].place = g[n - 1].place * 16
        /\ Summed(ds) = g[N]
  BY SummedIs
<1>3. PICK f \in [0 .. N -> Nat] :
        /\ f[0] = 0
        /\ \A n \in 1 .. N : f[n] = f[n - 1] * 16 + ds[n]
        /\ Denoted(cs, 16) = f[N]
  <2>1. \A n \in 1 .. N : ToDigit(cs[n]) \in Nat
    BY <1>1
  <2>2. 16 \in Nat
    OBVIOUS
  <2>3. PICK f : Denotes(f, cs, N, 16)
    BY <1>1, <2>1, <2>2, DenotedIs
  <2> QED BY <2>3 DEF Denotes
<1> HIDE DEF N
<1> DEFINE Sum(n) == g[n].sum
           Place(n) == g[n].place
<1>4. \A n \in 0 .. N : Sum(n) \in Nat /\ Place(n) \in Nat
  BY <1>2
<1>5. \A n \in 1 .. N :
        Sum(n) = Sum(n - 1) + ds[N - n + 1] * Place(n - 1) /\ Place(n) = Place(n - 1) * 16
  BY <1>2
<1>6. Sum(0) = 0 /\ Place(0) = 1 /\ Summed(ds).sum = Sum(N)
  BY <1>2
<1> HIDE DEF Sum, Place
<1>7. \A n \in 0 .. N : f[N] = f[N - n] * Place(n) + Sum(n)
  <2> DEFINE T == {n \in 0 .. N : f[N] # f[N - n] * Place(n) + Sum(n)}
  <2> SUFFICES ASSUME T # {} PROVE FALSE
    OBVIOUS
  <2>1. PICK n \in T : \A y \in T : n <= y
    <3>1. T \in SUBSET Nat
      OBVIOUS
    <3> HIDE DEF T
    <3> QED BY <3>1, Least
  <2>2. n \in 1 .. N
    <3>1. n # 0
      <4>1. N \in 0 .. N /\ N - 0 = N /\ f[N] \in Nat
        BY <1>1, <1>3
      <4>2. f[N] = f[N - 0] * 1 + 0
        BY <4>1
      <4> QED BY <1>6, <2>1, <4>2
    <3> QED BY <2>1, <3>1
  <2> DEFINE a == f[N - n]
             d == ds[N - n + 1]
             p == Place(n - 1)
             s == Sum(n - 1)
  <2>3. n - 1 \in 0 .. N /\ ~(n <= n - 1) /\ N - n \in 0 .. N /\ N - n + 1 \in 1 .. N
        /\ N - (n - 1) = N - n + 1 /\ N - n + 1 - 1 = N - n
    BY <1>1, <2>2
  <2>4. f[N] = f[N - (n - 1)] * p + s
    BY <2>1, <2>3
  <2>5. f[N - n + 1] = a * 16 + d
    BY <1>3, <2>3
  <2>6. a \in Nat /\ d \in Nat /\ p \in Nat /\ s \in Nat
    BY <1>1, <1>3, <1>4, <2>3
  <2>7. f[N] = (a * 16 + d) * p + s
    BY <2>3, <2>4, <2>5
  <2>8. Sum(n) = s + d * p /\ Place(n) = p * 16
    BY <1>5, <2>2
  <2> HIDE DEF a, d, p, s
  <2>9. f[N] = a * (p * 16) + (s + d * p)
    BY <2>6, <2>7, Shifted
  <2>10. f[N] = f[N - n] * Place(n) + Sum(n)
    BY <2>8, <2>9 DEF a
  <2> QED BY <2>1, <2>10
<1>8. f[N] = 0 * Place(N) + Sum(N)
  <2>1. N \in 0 .. N /\ N - N = 0
    BY <1>1
  <2> QED BY <1>3, <1>7, <2>1
<1>9. N \in 0 .. N
  BY <1>1
<1> QED BY <1>3, <1>4, <1>6, <1>8, <1>9

\* Four hexadecimal digits fit.
LEMMA NextDigit ==
  ASSUME NEW a \in Nat, NEW d \in Nat, d <= 15
  PROVE  /\ a * 16 + d \in Nat
         /\ a <= 0 => a * 16 + d <= 15
         /\ a <= 15 => a * 16 + d <= 255
         /\ a <= 255 => a * 16 + d <= 4095
         /\ a <= 4095 => a * 16 + d <= 65535
OBVIOUS

LEMMA DenotedFits ==
  ASSUME NEW cs, NEW N \in Nat, N <= 4, Len(cs) = N,
         \A n \in 1 .. N : ToDigit(cs[n]) \in Nat /\ ToDigit(cs[n]) <= 15
  PROVE  Denoted(cs, 16) \in 0 .. Modulus - 1
<1>0. \A n \in 1 .. N, a \in Nat :
        /\ a * 16 + ToDigit(cs[n]) \in Nat
        /\ a <= 0 => a * 16 + ToDigit(cs[n]) <= 15
        /\ a <= 15 => a * 16 + ToDigit(cs[n]) <= 255
        /\ a <= 255 => a * 16 + ToDigit(cs[n]) <= 4095
        /\ a <= 4095 => a * 16 + ToDigit(cs[n]) <= 65535
  BY NextDigit
<1>1. PICK f : Denotes(f, cs, N, 16)
  <2>1. N \in Nat /\ 16 \in Nat /\ \A n \in 1 .. N : ToDigit(cs[n]) \in Nat
    OBVIOUS
  <2> QED BY <2>1, DenotedIs
<1>2. N >= 1 => f[1] \in Nat /\ f[1] <= 15
  <2> SUFFICES ASSUME N >= 1 PROVE f[1] \in Nat /\ f[1] <= 15
    OBVIOUS
  <2>1. 1 \in 1 .. N /\ 1 - 1 = 0 /\ 0 \in 0 .. N
    OBVIOUS
  <2>2. f[1] = f[0] * 16 + ToDigit(cs[1])
    BY <1>1, <2>1 DEF Denotes
  <2>3. f[0] \in Nat /\ f[0] <= 0
    BY <1>1, <2>1 DEF Denotes
  <2> QED BY <1>0, <2>1, <2>2, <2>3
<1>3. N >= 2 => f[2] \in Nat /\ f[2] <= 255
  <2> SUFFICES ASSUME N >= 2 PROVE f[2] \in Nat /\ f[2] <= 255
    OBVIOUS
  <2>1. 2 \in 1 .. N /\ 2 - 1 = 1 /\ 1 \in 0 .. N
    OBVIOUS
  <2>2. f[2] = f[1] * 16 + ToDigit(cs[2])
    BY <1>1, <2>1 DEF Denotes
  <2>3. f[1] \in Nat /\ f[1] <= 15
    BY <1>2, <2>1 DEF Denotes
  <2> QED BY <1>0, <2>1, <2>2, <2>3
<1>4. N >= 3 => f[3] \in Nat /\ f[3] <= 4095
  <2> SUFFICES ASSUME N >= 3 PROVE f[3] \in Nat /\ f[3] <= 4095
    OBVIOUS
  <2>1. 3 \in 1 .. N /\ 3 - 1 = 2 /\ 2 \in 0 .. N
    OBVIOUS
  <2>2. f[3] = f[2] * 16 + ToDigit(cs[3])
    BY <1>1, <2>1 DEF Denotes
  <2>3. f[2] \in Nat /\ f[2] <= 255
    BY <1>3, <2>1 DEF Denotes
  <2> QED BY <1>0, <2>1, <2>2, <2>3
<1>5. N >= 4 => f[4] \in Nat /\ f[4] <= 65535
  <2> SUFFICES ASSUME N >= 4 PROVE f[4] \in Nat /\ f[4] <= 65535
    OBVIOUS
  <2>1. 4 \in 1 .. N /\ 4 - 1 = 3 /\ 3 \in 0 .. N
    OBVIOUS
  <2>2. f[4] = f[3] * 16 + ToDigit(cs[4])
    BY <1>1, <2>1 DEF Denotes
  <2>3. f[3] \in Nat /\ f[3] <= 4095
    BY <1>4, <2>1 DEF Denotes
  <2> QED BY <1>0, <2>1, <2>2, <2>3
<1>6. \/ N <= 0 /\ N >= 0
      \/ N <= 1 /\ N >= 1
      \/ N <= 2 /\ N >= 2
      \/ N <= 3 /\ N >= 3
      \/ N <= 4 /\ N >= 4
  OBVIOUS
<1>7. f[N] \in Nat /\ f[N] <= 65535
  <2>1. f[0] = 0
    BY <1>1 DEF Denotes
  <2>2. CASE N <= 0 /\ N >= 0
    <3>1. N = 0
      BY <2>2
    <3> QED BY <2>1, <3>1
  <2>3. CASE N <= 1 /\ N >= 1
    <3>1. N = 1
      BY <2>3
    <3> QED BY <1>2, <3>1
  <2>4. CASE N <= 2 /\ N >= 2
    <3>1. N = 2
      BY <2>4
    <3> QED BY <1>3, <3>1
  <2>5. CASE N <= 3 /\ N >= 3
    <3>1. N = 3
      BY <2>5
    <3> QED BY <1>4, <3>1
  <2>6. CASE N <= 4 /\ N >= 4
    <3>1. N = 4
      BY <2>6
    <3> QED BY <1>5, <3>1
  <2> QED BY <1>6, <2>2, <2>3, <2>4, <2>5, <2>6
<1>8. Modulus \in Nat /\ Modulus > 65536
  <2>1. 16^4 = 65536
    OBVIOUS
  <2> QED BY <2>1, CodePointsAssumption
<1>9. Denoted(cs, 16) = f[N]
  BY <1>1 DEF Denotes
<1> QED BY <1>7, <1>8, <1>9

\* One more digit.
LEMMA DenotedAppend ==
  ASSUME NEW cs \in Seq(Chars), NEW c, NEW radix \in Nat, NEW more \in Seq(Chars),
         Len(more) = Len(cs) + 1, more[Len(cs) + 1] = c,
         \A n \in 1 .. Len(cs) : more[n] = cs[n],
         \A n \in 1 .. Len(cs) : ToDigit(cs[n]) \in Nat, ToDigit(c) \in Nat
  PROVE  /\ Denoted(more, radix) = Denoted(cs, radix) * radix + ToDigit(c)
         /\ Denoted(cs, radix) \in Nat
<1> DEFINE N == Len(cs)
<1>1. N \in Nat /\ N + 1 \in Nat
  OBVIOUS
<1>2. PICK f : Denotes(f, cs, N, radix)
  BY <1>1, DenotedIs
<1> DEFINE M == N + 1
<1>3. \A n \in 1 .. M : ToDigit(more[n]) \in Nat
  BY <1>1
<1>4. Len(more) = M /\ M \in Nat
  BY <1>1
<1> HIDE DEF M
<1>5. PICK g : Denotes(g, more, M, radix)
  BY <1>3, <1>4, DenotedIs
<1>6. \A n \in 0 .. N : f[n] = g[n]
  <2> DEFINE T == {n \in 0 .. N : f[n] # g[n]}
  <2> SUFFICES ASSUME T # {} PROVE FALSE
    OBVIOUS
  <2>1. PICK n \in T : \A y \in T : n <= y
    <3>1. T \in SUBSET Nat
      OBVIOUS
    <3> HIDE DEF T
    <3> QED BY <3>1, Least
  <2>2. n \in 1 .. N
    BY <1>2, <1>5, <2>1 DEF Denotes
  <2>3. f[n - 1] = g[n - 1]
    <3>1. n - 1 \in 0 .. N /\ ~(n <= n - 1)
      BY <2>2
    <3> QED BY <2>1, <3>1
  <2>4. f[n] = f[n - 1] * radix + ToDigit(cs[n]) /\ more[n] = cs[n]
    BY <1>2, <2>2 DEF Denotes
  <2>5. g[n] = g[n - 1] * radix + ToDigit(more[n])
    <3>1. n \in 1 .. M
      BY <1>1, <2>2 DEF M
    <3> QED BY <1>5, <3>1 DEF Denotes
  <2>6. f[n] = g[n]
    BY <2>3, <2>4, <2>5
  <2> QED BY <2>1, <2>6
<1>7. M \in 1 .. M /\ M - 1 = N /\ N \in 0 .. N /\ more[M] = c
  BY <1>1 DEF M
<1>8. g[M] = g[N] * radix + ToDigit(c)
  BY <1>5, <1>7 DEF Denotes
<1> QED BY <1>2, <1>5, <1>6, <1>7, <1>8 DEF Denotes

LEMMA DenotedNone ==
  ASSUME NEW radix \in Nat PROVE Denoted(<<>>, radix) = 0
<1>1. Len(<<>>) = 0 /\ 0 \in Nat /\ \A n \in 1 .. 0 : ToDigit(<<>>[n]) \in Nat
  OBVIOUS
<1>2. PICK f : Denotes(f, <<>>, 0, radix)
  BY <1>1, DenotedIs
<1> QED BY <1>2 DEF Denotes
-----------------------------------------------------------------------------
(***************************************************************************)
(* The types of the lexer's variables.  LexerInv has those of the reader,  *)
(* the calls and the flags.                                                *)
(***************************************************************************)
EscapeTypes == digits \in Seq(0 .. 15) /\ code \in 0 .. Modulus - 1

TokenTypes ==
  /\ start \in Posn
  /\ token \in [kind : Kinds, newline : BOOLEAN, start : Posn, end : Posn]
  /\ result \in {"lexing"} \cup Errors \cup Panics

TypeInv == LexerInv /\ Len(ahead) <= 4 /\ EscapeTypes /\ TokenTypes

LEMMA TypeInvTypes == TypeInv => LexerTypeOK
BY DEF TypeInv, LexerTypeOK, EscapeTypes, TokenTypes, LexerInv, LexerTypes, ReaderInv

\* The characters that the call at hand looks at are not more than four.
LEMMA FewPeeked == Peeked \in Nat /\ Peeked <= 4
<1>1. \A p \in {0, 1, 2, 3, 4} : p \in Nat /\ p <= 4
  OBVIOUS
<1>2. Peeked \in {0, 1, 2, 3, 4}
  BY Zenon DEF Peeked
<1> QED BY <1>1, <1>2

LEMMA PeekMoreTypes == TypeInv /\ PeekMore => Len(ahead)' <= 4
<1> SUFFICES ASSUME TypeInv, PeekMore PROVE Len(ahead)' <= 4
  OBVIOUS
<1>1. ahead \in Seq(Chars) /\ Draw /\ ~Ahead(Peeked)
  BY DEF TypeInv, LexerInv, ReaderInv, ReaderTypeOK, PeekMore
<1>2. Len(ahead) < 4 /\ Len(ahead) \in Nat
  BY <1>1, FewPeeked DEF Ahead
<1>3. CASE UNCHANGED ahead
  BY <1>2, <1>3
<1>4. CASE ~UNCHANGED ahead
  <2>1. PICK c : ahead' = Append(ahead, c)
    BY <1>1, <1>4 DEF Draw
  <2> QED BY <1>1, <1>2, <2>1
<1> QED BY <1>3, <1>4

\* All other steps look at no more.
LEMMA AheadShrinks ==
  ASSUME TypeInv, NextChar \/ UNCHANGED readerVars PROVE Len(ahead)' <= 4
<1>1. ahead \in Seq(Chars) /\ Len(ahead) <= 4
  BY DEF TypeInv, LexerInv, ReaderInv, ReaderTypeOK
<1>2. CASE NextChar
  BY <1>1, <1>2 DEF NextChar
<1>3. CASE UNCHANGED readerVars
  BY <1>1, <1>3 DEF readerVars
<1> QED BY <1>2, <1>3

LEMMA FailTypes ==
  ASSUME TypeInv, NEW e \in Errors \cup Panics, Fail(e)
  PROVE  (NextChar \/ UNCHANGED readerVars) /\ TokenTypes' /\ EscapeTypes'
BY DEF Fail, TypeInv, TokenTypes, EscapeTypes, escapeVars

LEMMA SameTypes == TypeInv /\ UNCHANGED <<start, token, result>> => TokenTypes'
BY DEF TypeInv, TokenTypes

LEMMA SameEscape == TypeInv /\ UNCHANGED escapeVars => EscapeTypes'
BY DEF TypeInv, EscapeTypes, escapeVars

\* What a step of the calls within a token does to the types but those of an escape.
LEMMA MoveTypes ==
  ASSUME TypeInv, InnerMoves
  PROVE  (NextChar \/ UNCHANGED readerVars) /\ TokenTypes'
<1>1. ASSUME NEW e \in Errors \cup Panics, Fail(e)
      PROVE  (NextChar \/ UNCHANGED readerVars) /\ TokenTypes'
  BY <1>1, FailTypes
<1>2. ASSUME NEW calls, Consume(calls) \/ Stay(calls)
      PROVE  (NextChar \/ UNCHANGED readerVars) /\ TokenTypes'
  BY <1>2, SameTypes DEF Consume, Stay, tokenVars
<1> QED BY <1>1, <1>2 DEF InnerMoves

\* The steps of an escape.
LEMMA EscapeStepTypes ==
  ASSUME TypeInv,
         WordEscape \/ StringEscape \/ OctalEscape \/ ReadDigitInto \/ AddDigits
  PROVE  EscapeTypes'
<1>1. digits \in Seq(0 .. 15) /\ code \in 0 .. Modulus - 1 /\ code \in Nat
  BY CodePointsAssumption DEF TypeInv, EscapeTypes
<1>2. <<>> \in Seq(0 .. 15)
  OBVIOUS
<1>3. \A e : Fail(e) => EscapeTypes'
  BY SameEscape DEF Fail
<1>4. CASE WordEscape \/ StringEscape
  <2>1. \/ digits' = <<>> /\ UNCHANGED code
        \/ UNCHANGED escapeVars
        \/ EscapeTypes'
    BY <1>3, <1>4, Zenon DEF WordEscape, StringEscape
  <2> QED BY <1>1, <1>2, <2>1, SameEscape DEF EscapeTypes
<1>5. CASE OctalEscape
  <2>1. CASE UNCHANGED escapeVars
    BY <2>1, SameEscape
  <2>2. CASE ~UNCHANGED escapeVars
    <3>1. /\ Next1 \in OctDigits /\ NewCode <= 255
          /\ digits' = Append(digits, ToDigit(Next1)) /\ code' = NewCode
      BY <1>5, <2>2 DEF OctalEscape
    <3>2. ToDigit(Next1) \in 0 .. 15
      BY <3>1, DigitValues
    <3>3. NewCode \in Nat
      <4> DEFINE before == IF digits = <<>> THEN 0 ELSE code
      <4>1. before \in Nat
        BY <1>1
      <4>2. \A b \in Nat, d \in 0 .. 15 : b * 8 + d \in Nat
        OBVIOUS
      <4>3. NewCode = before * 8 + ToDigit(Next1)
        BY DEF NewCode
      <4> HIDE DEF before
      <4> QED BY <3>2, <4>1, <4>2, <4>3
    <3>4. Modulus \in Nat /\ Modulus > 255
      <4>1. 16^4 = 65536
        OBVIOUS
      <4> QED BY <4>1, CodePointsAssumption
    <3>5. code' \in 0 .. Modulus - 1
      BY <3>1, <3>3, <3>4
    <3>6. digits' \in Seq(0 .. 15)
      BY <1>1, <3>1, <3>2
    <3> QED BY <3>5, <3>6 DEF EscapeTypes
  <2> QED BY <2>1, <2>2
<1>6. CASE ReadDigitInto
  <2>1. At("digit")
    BY <1>6 DEF ReadDigitInto
  <2>2. This.chars \subseteq HexDigits
    <3>1. This \in LexerCall /\ This.fn = "digit"
      BY <2>1, CallAtHand DEF At, TypeInv
    <3>2. \A c \in LexerCall : c.fn = "digit" => c.chars \in {BinDigits, OctDigits, HexDigits}
      BY DEF LexerCall, InnerCall, PlainFns
    <3> QED BY <3>1, <3>2, DigitValues
  <2>3. CASE Next1 \in This.chars /\ digits' = Append(digits, ToDigit(Next1)) /\ UNCHANGED code
    <3>1. ToDigit(Next1) \in 0 .. 15
      BY <2>2, <2>3, DigitValues
    <3>2. digits' \in Seq(0 .. 15)
      BY <1>1, <2>3, <3>1
    <3> QED BY <1>1, <2>3, <3>2 DEF EscapeTypes
  <2> QED BY <1>3, <1>6, <2>3, Zenon DEF ReadDigitInto
<1>7. CASE AddDigits
  <2>1. CASE code' = Summed(digits).sum % Modulus /\ UNCHANGED digits
    <3>1. digits \in Seq(Nat)
      <4>1. \A n \in 1 .. Len(digits) : digits[n] \in Nat
        BY <1>1
      <4> QED BY <1>1, <4>1
    <3>2. Summed(digits).sum \in Nat
      BY <3>1, SummedTypes
    <3>3. Modulus \in Nat /\ Modulus > 0
      <4>1. 16^4 = 65536
        OBVIOUS
      <4> QED BY <4>1, CodePointsAssumption
    <3> DEFINE s == Summed(digits).sum
    <3>4. \A n \in Nat, m \in Nat : m > 0 => n % m \in 0 .. m - 1
      OBVIOUS
    <3> HIDE DEF s
    <3>5. code' \in 0 .. Modulus - 1
      BY <2>1, <3>2, <3>3, <3>4
    <3> QED BY <1>1, <2>1, <3>5 DEF EscapeTypes
  <2> QED BY <1>3, <1>7, <2>1, Zenon DEF AddDigits, Stay
<1> QED BY <1>4, <1>5, <1>6, <1>7

\* All the steps within a token but those.
LEMMA InnerStepTypes ==
  ASSUME TypeInv,
         \/ RegExp \/ Backslash \/ RegExpClass \/ WordParts \/ WordEscape \/ Tokenize
         \/ StringChars \/ StringEscape \/ OctalEscape \/ ReadDigitInto
         \/ UnicodeEscape \/ Braces \/ AddDigits \/ CharFromU32
         \/ Number \/ Decimal \/ Fraction \/ ExpPart \/ ExpSign \/ ExpDigits
         \/ NumberEnd \/ ReadWhileChars \/ Shift \/ MatchesEquals
  PROVE  Len(ahead)' <= 4 /\ TokenTypes' /\ EscapeTypes'
<1>1. InnerMoves
  BY WordMoves, StringMoves, NumberMoves DEF TypeInv
<1>2. Len(ahead)' <= 4 /\ TokenTypes'
  BY <1>1, MoveTypes, AheadShrinks
<1>3. \A e : Fail(e) => EscapeTypes'
  BY SameEscape DEF Fail
<1>4. CASE WordEscape \/ StringEscape \/ OctalEscape \/ ReadDigitInto \/ AddDigits
  BY <1>2, <1>4, EscapeStepTypes
<1>5. CASE RegExp \/ Backslash \/ RegExpClass \/ WordParts \/ Tokenize \/ StringChars
  BY <1>2, <1>3, <1>5, SameEscape, Zenon
     DEF RegExp, Backslash, RegExpClass, WordParts, Tokenize, StringChars, AssertionFails
<1>6. CASE UnicodeEscape \/ Braces \/ CharFromU32 \/ ReadWhileChars \/ Shift \/ MatchesEquals
  BY <1>2, <1>3, <1>6, SameEscape, Zenon
     DEF UnicodeEscape, Braces, CharFromU32, ReadWhileChars, Shift, MatchesEquals, AssertionFails
<1>7. CASE Number \/ Decimal \/ Fraction \/ ExpPart \/ ExpSign \/ ExpDigits \/ NumberEnd
  BY <1>2, <1>3, <1>7, SameEscape, Zenon
     DEF Number, Decimal, Fraction, ExpPart, ExpSign, ExpDigits, NumberEnd
<1> QED BY <1>2, <1>4, <1>5, <1>6, <1>7

\* The steps between tokens, and at the ends of one.
LEMMA OuterStepTypes ==
  ASSUME TypeInv,
         \/ SkipChars \/ SkipBlank \/ SkipNewline \/ SkipComment \/ LineComment
         \/ BlockComment \/ StartToken \/ ReadToken \/ IllegalChar \/ EndToken
  PROVE  Len(ahead)' <= 4 /\ TokenTypes' /\ EscapeTypes'
<1>1. \A calls : Consume(calls) \/ Stay(calls) =>
        (NextChar \/ UNCHANGED readerVars) /\ UNCHANGED <<start, token, result>>
  BY Zenon DEF Consume, Stay, tokenVars
<1>2. CASE SkipChars \/ SkipBlank \/ SkipComment \/ LineComment \/ ReadToken
  <2>1. /\ NextChar \/ UNCHANGED readerVars
        /\ UNCHANGED <<start, token, result>> /\ UNCHANGED escapeVars
    BY <1>1, <1>2, Zenon DEF SkipChars, SkipBlank, SkipComment, LineComment, ReadToken
  <2> QED BY <2>1, AheadShrinks, SameTypes, SameEscape
<1>3. CASE SkipNewline
  BY <1>3, AheadShrinks, SameTypes, SameEscape DEF SkipNewline
<1>4. CASE BlockComment \/ IllegalChar
  <2>1. /\ "UnterminatedComment" \in Errors \cup Panics /\ "IllegalChar" \in Errors \cup Panics
    BY DEF Errors
  <2>2. \/ \E e \in Errors \cup Panics : Fail(e)
        \/ /\ NextChar \/ UNCHANGED readerVars
           /\ UNCHANGED <<start, token, result>> /\ UNCHANGED escapeVars
    BY <1>1, <1>4, <2>1, Zenon DEF BlockComment, IllegalChar
  <2> QED BY <2>2, FailTypes, AheadShrinks, SameTypes, SameEscape
<1>5. CASE StartToken
  <2>1. posn \in Posn
    BY DEF TypeInv, LexerInv, ReaderInv, ReaderTypeOK, Posn
  <2>2. <<>> \in Seq(0 .. 15)
    OBVIOUS
  <2> QED BY <1>5, <2>1, <2>2, AheadShrinks DEF StartToken, TypeInv, TokenTypes, EscapeTypes
<1>6. CASE EndToken
  <2>1. posn \in Posn /\ newline \in BOOLEAN /\ start \in Posn
    BY DEF TypeInv, LexerInv, LexerTypes, ReaderInv, ReaderTypeOK, Posn, TokenTypes
  <2>2. This.kind \in Kinds
    <3>1. This \in LexerCall /\ This.fn = "end"
      BY <1>6, CallAtHand DEF EndToken, At, TypeInv
    <3>2. \A c \in LexerCall : c.fn = "end" => c.kind \in Kinds
      BY DEF LexerCall, InnerCall, PlainFns
    <3> QED BY <3>1, <3>2
  <2>3. /\ token' = [kind |-> This.kind, newline |-> newline, start |-> start, end |-> posn]
        /\ UNCHANGED <<readerVars, start, result, escapeVars>>
    BY <1>6 DEF EndToken
  <2>4. token' \in [kind : Kinds, newline : BOOLEAN, start : Posn, end : Posn]
    BY <2>1, <2>2, <2>3
  <2> QED BY <2>3, <2>4, AheadShrinks, SameEscape DEF TypeInv, TokenTypes
<1> QED BY <1>2, <1>3, <1>4, <1>5, <1>6

LEMMA TypeInvStep == TypeInv /\ [LexerNext]_lexerVars => TypeInv'
<1> SUFFICES ASSUME TypeInv, [LexerNext]_lexerVars PROVE TypeInv'
  OBVIOUS
<1>1. LexerInv'
  BY LexerNextInv DEF TypeInv
<1>2. CASE UNCHANGED lexerVars
  BY <1>1, <1>2 DEF TypeInv, lexerVars, readerVars, tokenVars, escapeVars, TokenTypes,
     EscapeTypes
<1>3. CASE Request
  <2>1. UNCHANGED readerVars /\ UNCHANGED <<start, token, result>> /\ UNCHANGED escapeVars
    BY <1>3 DEF Request
  <2> QED BY <1>1, <2>1, AheadShrinks, SameTypes, SameEscape DEF TypeInv
<1>4. CASE PeekMore
  <2>1. UNCHANGED <<start, token, result>> /\ UNCHANGED escapeVars
    BY <1>4 DEF PeekMore, tokenVars
  <2> QED BY <1>1, <1>4, <2>1, PeekMoreTypes, SameTypes, SameEscape DEF TypeInv
<1>5. CASE LexerStep /\ ~PeekMore
  <2>1. Len(ahead)' <= 4 /\ TokenTypes' /\ EscapeTypes'
    BY <1>5, InnerStepTypes, OuterStepTypes DEF LexerStep
  <2> QED BY <1>1, <2>1 DEF TypeInv
<1> QED BY <1>2, <1>3, <1>4, <1>5 DEF LexerNext, Finished

LEMMA TypeInvInit == LexerInit => TypeInv
<1> SUFFICES ASSUME LexerInit PROVE TypeInv
  OBVIOUS
<1>1. LexerInv
  BY LexerInitInv
<1>2. Origin \in Posn
  BY DEF Origin, Posn
<1>3. TokenTypes
  BY <1>2 DEF LexerInit, TokenTypes, Kinds
<1>4. EscapeTypes
  <2>1. 16^4 = 65536
    OBVIOUS
  <2>2. <<>> \in Seq(0 .. 15) /\ Modulus \in Nat /\ Modulus > 0
    BY <2>1, CodePointsAssumption
  <2> QED BY <2>2 DEF LexerInit, EscapeTypes
<1>5. Len(ahead) <= 4
  BY DEF LexerInit, ReaderInit
<1> QED BY <1>1, <1>3, <1>4, <1>5 DEF TypeInv

(***************************************************************************)
(* The variables of the lexer keep their types on every text, and it never *)
(* looks further ahead than the four characters that its reader has room   *)
(* for (Reader::new), whatever mix of tokens, comments and escapes is read.*)
(***************************************************************************)
THEOREM LexerTypesCorrect == LexerSpec => []LexerTypeOK
<1>1. LexerSpec => []TypeInv
  BY TypeInvInit, TypeInvStep, PTL DEF LexerSpec
<1> QED BY <1>1, TypeInvTypes, PTL
-----------------------------------------------------------------------------
(***************************************************************************)
(* Escapes.  EscapesRight speaks of the moment in which the code point is  *)
(* complete.  EscapeInv says how far an escape is read at every moment     *)
(* before: the calls pending tell its form, and the characters since its   *)
(* backslash are those whose digits are collected.                         *)
(***************************************************************************)
OpenBrace == "{"
CloseBrace == "}"

\* The functions that read an escape.
EscapeFns ==
  {"escape", "octal", "unicode", "braces", "add_digits", "from_u32", "word_escape"}

\* No calls of them are pending from the k-th on.
PlainFrom(k) == \A i \in k .. Len(todo) : todo[i].fn \notin EscapeFns

\* The digits collected are those of the characters after the k-th of e.
Collected(e, k) ==
  \A i \in 1 .. Len(digits) : e[k + i] \in HexDigits /\ digits[i] = ToDigit(e[k + i])

\* The calls at the end of an escape of hexadecimal digits are the n-th pending and
\* the next.
Adding(n) ==
  /\ Len(todo) > n
  /\ todo[n].fn = "add_digits" /\ todo[n + 1].fn = "from_u32"
  /\ PlainFrom(n + 2)

OctalAt(e) ==
  /\ todo # <<>> /\ todo[1].fn = "octal" /\ PlainFrom(2)
  /\ Len(digits) = Len(e) /\ Len(e) <= 3 /\ AllIn(e, OctDigits)
  /\ IF e = <<>> THEN ahead # <<>> /\ Next1 \in OctDigits
     ELSE code = Denoted(e, 8) /\ code <= 255

\* n digits are missing of an escape with a fixed number of them.
FixedAt(e) ==
  \E n \in 0 .. 4 :
    /\ Adding(n + 1) /\ \A i \in 1 .. n : todo[i] = HexDigit
    /\ e # <<>> /\ Collected(e, 1) /\ Len(digits) = Len(e) - 1
    /\ \/ e[1] = "x" /\ Len(e) + n = 3
       \/ e[1] = "u" /\ Len(e) + n = 5

\* The digits between braces, and the end of them.
InBraces(e) == Len(e) > 1 /\ e[1] = "u" /\ e[2] = OpenBrace /\ Collected(e, 2)

BracesAt(e) ==
  /\ InBraces(e)
  /\ \/ /\ Adding(3) /\ todo[1] = HexDigit /\ todo[2].fn = "braces"
        /\ Len(digits) = Len(e) - 2
     \/ /\ Adding(2) /\ todo[1].fn = "braces"
        /\ Len(digits) = Len(e) - 2 /\ Len(e) > 2
     \/ /\ Adding(1) /\ e[Len(e)] = CloseBrace
        /\ Len(digits) = Len(e) - 3 /\ Len(e) > 3

\* What EscapesRight says.
EscapeValue(e) ==
  \/ /\ e[1] = "x" /\ Len(e) = 3
     /\ code = Denoted(Tail(e), 16)
  \/ /\ e[1] = "u" /\ Len(e) = 5 /\ e[2] # OpenBrace
     /\ code = Denoted(Tail(e), 16)
  \/ /\ e[1] = "u" /\ Len(e) > 3 /\ e[2] = OpenBrace /\ e[Len(e)] = CloseBrace
     /\ code = Denoted(SubSeq(e, 3, Len(e) - 1), 16) % Modulus
  \/ /\ Len(e) \in 1 .. 3 /\ AllIn(e, OctDigits)
     /\ code = Denoted(e, 8) /\ code <= 255
     /\ Len(e) = 3 \/ Next1 \notin OctDigits \/ NewCode > 255

\* The escape has just begun; it is one of a code unit or a code point; it is read.
Opened(e) ==
  todo # <<>> /\ todo[1].fn \in {"escape", "word_escape"} /\ PlainFrom(2) /\ e = <<>>

UnicodeAt(e) ==
  /\ Len(todo) > 1 /\ todo[1].fn = "unicode" /\ todo[2].fn = "from_u32" /\ PlainFrom(3)
  /\ e = <<"u">> /\ digits = <<>>

Complete(e) ==
  todo # <<>> /\ todo[1].fn = "from_u32" /\ PlainFrom(2) /\ EscapeValue(e)

\* The characters read of an escape are e, none of them a backslash.
InEscape(e) ==
  /\ \A i \in DOMAIN e : e[i] # "\\"
  /\ \/ Opened(e) \/ OctalAt(e) \/ UnicodeAt(e)
     \/ FixedAt(e) \/ BracesAt(e) \/ Complete(e)

EscapeText(b) == SubSeq(text, b + 1, posn.offset)

Escaping ==
  Running =>
    \/ PlainFrom(1)
    \/ \E b \in 1 .. posn.offset : text[b] = "\\" /\ InEscape(EscapeText(b))

EscapeInv == TypeInv /\ Escaping
-----------------------------------------------------------------------------
(***************************************************************************)
(* What the steps do to the calls of an escape and to its text.            *)
(***************************************************************************)
EscapeOuter == {c \in LexerCall : c.fn \notin EscapeFns}

LEMMA TypeFacts ==
  ASSUME TypeInv
  PROVE  /\ LexerInv /\ todo \in Seq(LexerCall) /\ ReaderInv
         /\ text \in Seq(Chars) /\ ahead \in Seq(Chars) /\ Split
         /\ posn.offset \in Nat /\ posn.offset <= Len(text)
         /\ digits \in Seq(0 .. 15) /\ digits \in Seq(Nat)
<1>1. digits \in Seq(0 .. 15)
  BY DEF TypeInv, EscapeTypes
<1>2. digits \in Seq(Nat)
  <2>1. \A n \in 1 .. Len(digits) : digits[n] \in Nat
    BY <1>1
  <2> QED BY <1>1, <2>1
<1> QED BY <1>1, <1>2 DEF TypeInv, LexerInv, LexerTypes, Behind, ReaderInv, ReaderTypeOK

\* What comes after the calls at hand comes after those made in their place.
LEMMA PlainThen ==
  ASSUME todo \in Seq(LexerCall), todo # <<>>, NEW calls \in Seq(LexerCall), Then(calls),
         NEW k \in Nat, k >= 2, PlainFrom(k)
  PROVE  /\ PlainFrom(Len(calls) + k - 1)'
         /\ Len(calls) \in Nat /\ Len(todo) \in Nat /\ Len(todo') \in Nat
         /\ Len(todo') = Len(calls) + Len(todo) - 1
         /\ \A i \in 1 .. Len(calls) : todo'[i] = calls[i]
         /\ \A i \in 1 .. Len(todo) - 1 : todo'[Len(calls) + i] = todo[i + 1]
         /\ This = todo[1] /\ Len(todo) >= 1
<1>1. /\ Len(calls) \in Nat /\ Len(todo) \in Nat /\ Len(todo') \in Nat
      /\ Len(todo') = Len(calls) + Len(todo) - 1
      /\ \A i \in 1 .. Len(calls) : todo'[i] = calls[i]
      /\ \A i \in 1 .. Len(todo) - 1 : todo'[Len(calls) + i] = todo[i + 1]
      /\ This = todo[1] /\ Len(todo) >= 1
  BY ThenCalls
<1>2. ASSUME NEW i \in Len(calls) + k - 1 .. Len(todo') PROVE todo'[i].fn \notin EscapeFns
  <2> DEFINE j == i - Len(calls)
  <2>1. j \in 1 .. Len(todo) - 1 /\ i = Len(calls) + j /\ j + 1 \in k .. Len(todo)
    BY <1>1
  <2> HIDE DEF j
  <2>2. todo'[i] = todo[j + 1]
    BY <1>1, <2>1
  <2> QED BY <2>1, <2>2 DEF PlainFrom
<1>3. PlainFrom(Len(calls) + k - 1)'
  BY <1>2 DEF PlainFrom
<1> QED BY <1>1, <1>3

\* The calls of an escape end when the one at hand makes no other.
LEMMA PlainAgain ==
  ASSUME todo \in Seq(LexerCall), todo # <<>>, PlainFrom(2),
         NEW calls \in Seq(EscapeOuter), Then(calls)
  PROVE  PlainFrom(1)'
<1>1. calls \in Seq(LexerCall) /\ \A i \in 1 .. Len(calls) : calls[i].fn \notin EscapeFns
  BY DEF EscapeOuter
<1>2. /\ PlainFrom(Len(calls) + 2 - 1)' /\ Len(calls) \in Nat
      /\ \A i \in 1 .. Len(calls) : todo'[i] = calls[i]
  BY <1>1, PlainThen
<1>3. ASSUME NEW i \in 1 .. Len(todo') PROVE todo'[i].fn \notin EscapeFns
  <2>1. CASE i <= Len(calls)
    BY <1>1, <1>2, <2>1
  <2>2. CASE i > Len(calls)
    <3>1. i \in Len(calls) + 2 - 1 .. Len(todo')
      BY <1>2, <2>2
    <3> QED BY <1>2, <3>1 DEF PlainFrom
  <2> QED BY <1>2, <2>1, <2>2
<1> QED BY <1>3 DEF PlainFrom

LEMMA PlainNone == ASSUME todo' = <<>> PROVE PlainFrom(1)'
<1>1. 1 .. Len(<<>>) = {}
  OBVIOUS
<1> QED BY <1>1 DEF PlainFrom

\* A call that makes no call of an escape.
Quiet ==
  \/ \E calls \in Seq(EscapeOuter) : Then(calls)
  \/ UNCHANGED todo
  \/ todo' = <<>>

LEMMA QuietKeeps ==
  ASSUME TypeInv, todo # <<>>, PlainFrom(1), Quiet
  PROVE  PlainFrom(1)'
<1>1. todo \in Seq(LexerCall) /\ PlainFrom(2)
  BY TypeFacts DEF PlainFrom
<1>2. CASE UNCHANGED todo
  BY <1>2 DEF PlainFrom
<1> QED BY <1>1, <1>2, PlainAgain, PlainNone DEF Quiet

\* The text of an escape whose backslash is at b.
LEMMA EscapeTextIs ==
  ASSUME TypeInv, NEW b \in 1 .. posn.offset
  PROVE  /\ EscapeText(b) \in Seq(Chars) /\ Len(EscapeText(b)) = posn.offset - b
         /\ b \in Nat /\ b <= Len(text) /\ b <= posn.offset
<1>1. text \in Seq(Chars) /\ posn.offset \in Nat /\ posn.offset <= Len(text) /\ b \in Nat
      /\ b <= posn.offset
  BY TypeFacts
<1>2. \A a \in Nat, n \in Nat : a <= n /\ n <= Len(text) =>
        SubSeq(text, a + 1, n) \in Seq(Chars) /\ Len(SubSeq(text, a + 1, n)) = n - a
  BY <1>1
<1> QED BY <1>1, <1>2 DEF EscapeText

LEMMA EscapeTextTakes ==
  ASSUME TypeInv, NEW b \in 1 .. posn.offset, text[b] = "\\", NextChar
  PROVE  /\ EscapeText(b)' = Append(EscapeText(b), Next1)
         /\ Next1 \in Chars /\ (b \in 1 .. posn.offset)' /\ text'[b] = "\\"
<1>1. /\ text \in Seq(Chars) /\ posn.offset \in Nat /\ b \in Nat /\ b >= 1
      /\ b <= posn.offset
  BY TypeFacts
<1>2. /\ ahead \in Seq(Chars) /\ ahead # <<>> /\ text' = text
      /\ posn'.offset = posn.offset + 1 /\ posn'.offset <= Len(text)
      /\ text[posn.offset + 1] = Head(ahead) /\ Next1 = Head(ahead)
  BY TypeFacts, Taken
<1>3. \A a \in Nat, n \in Nat : a <= n /\ n + 1 <= Len(text) =>
        SubSeq(text, a + 1, n + 1) = Append(SubSeq(text, a + 1, n), text[n + 1])
  BY <1>1
<1>4. EscapeText(b)' = SubSeq(text, b + 1, posn.offset + 1)
  BY <1>2 DEF EscapeText
<1>5. EscapeText(b)' = Append(EscapeText(b), text[posn.offset + 1])
  BY <1>1, <1>2, <1>3, <1>4 DEF EscapeText
<1>6. Next1 \in Chars
  BY <1>2
<1>7. (b \in 1 .. posn.offset)'
  BY <1>1, <1>2
<1> QED BY <1>2, <1>5, <1>6, <1>7

LEMMA EscapeTextStays ==
  ASSUME TypeInv, NEW b \in 1 .. posn.offset, text[b] = "\\",
         PeekMore \/ UNCHANGED readerVars
  PROVE  EscapeText(b)' = EscapeText(b) /\ (b \in 1 .. posn.offset)' /\ text'[b] = "\\"
<1>1. CASE UNCHANGED readerVars
  BY <1>1 DEF readerVars, EscapeText
<1>2. CASE PeekMore
  <2>1. Draw /\ UNCHANGED posn
    BY <1>2 DEF PeekMore, Draw
  <2>2. /\ text \in Seq(Chars) /\ posn.offset \in Nat /\ posn.offset <= Len(text)
        /\ b \in Nat /\ b <= Len(text) /\ b >= 1 /\ ReaderInv
    BY TypeFacts
  <2>3. Grows
    BY <2>1, <2>2, TextGrows DEF ReaderStep, ReaderNext
  <2>4. SubSeq(text', b + 1, posn.offset) = SubSeq(text, b + 1, posn.offset)
    BY <2>2, <2>3, TextStays
  <2>5. text'[b] = text[b]
    BY <2>2, <2>3 DEF Grows
  <2> QED BY <2>1, <2>4, <2>5 DEF EscapeText
<1> QED BY <1>1, <1>2

LEMMA NoBackslash ==
  ASSUME NEW e \in Seq(Chars), NEW c \in Chars, c # "\\", \A i \in DOMAIN e : e[i] # "\\"
  PROVE  \A i \in DOMAIN Append(e, c) : Append(e, c)[i] # "\\"
OBVIOUS

LEMMA CollectedMore ==
  ASSUME TypeInv, NEW e \in Seq(Chars), NEW c \in HexDigits, c \in Chars, NEW k \in Nat,
         Collected(e, k), Len(digits) = Len(e) - k, digits' = Append(digits, ToDigit(c))
  PROVE  Collected(Append(e, c), k)' /\ Len(digits)' = Len(Append(e, c)) - k
<1>1. digits \in Seq(0 .. 15) /\ ToDigit(c) \in 0 .. 15
  BY TypeFacts, DigitValues
<1>2. /\ Len(digits) \in Nat /\ Len(digits') = Len(digits) + 1
      /\ \A i \in 1 .. Len(digits) : digits'[i] = digits[i]
      /\ digits'[Len(digits) + 1] = ToDigit(c)
  <2>1. \A ds \in Seq(0 .. 15), d \in 0 .. 15 :
          /\ Len(ds) \in Nat /\ Len(Append(ds, d)) = Len(ds) + 1
          /\ \A i \in 1 .. Len(ds) : Append(ds, d)[i] = ds[i]
          /\ Append(ds, d)[Len(ds) + 1] = d
    OBVIOUS
  <2> QED BY <1>1, <2>1
<1> DEFINE new == Append(e, c)
<1>3. /\ Len(e) \in Nat /\ Len(new) = Len(e) + 1 /\ new[Len(e) + 1] = c
      /\ \A i \in 1 .. Len(e) : new[i] = e[i]
  BY AppendIs
<1> HIDE DEF new
<1>4. ASSUME NEW i \in 1 .. Len(digits')
      PROVE  new[k + i] \in HexDigits /\ digits'[i] = ToDigit(new[k + i])
  <2>1. CASE i <= Len(digits)
    <3>1. i \in 1 .. Len(digits) /\ k + i \in 1 .. Len(e)
      BY <1>2, <1>3, <2>1
    <3> QED BY <1>2, <1>3, <3>1 DEF Collected
  <2>2. CASE i > Len(digits)
    <3>1. i = Len(digits) + 1 /\ k + i = Len(e) + 1
      BY <1>2, <1>3, <2>2
    <3> QED BY <1>2, <1>3, <3>1
  <2> QED BY <1>2, <2>1, <2>2
<1>5. Collected(new, k)'
  BY <1>4 DEF Collected
<1> QED BY <1>2, <1>3, <1>5 DEF new
-----------------------------------------------------------------------------
(***************************************************************************)
(* Only the functions that read strings and words call one that reads an   *)
(* escape.                                                                 *)
(***************************************************************************)
LEMMA OuterCalls ==
  /\ \A f \in PlainFns \cup {"blank", "token", "line_comment", "block_comment"} :
       f \notin EscapeFns => Call(f) \in EscapeOuter
  /\ \A n \in 1 .. 4 : Skip(n) \in EscapeOuter
  /\ \A S \in {BinDigits, OctDigits, DecDigits, HexDigits} : ReadWhile(S) \in EscapeOuter
  /\ \A S \in {BinDigits, OctDigits, HexDigits}, e \in Errors :
       ReadDigit(S, e) \in EscapeOuter
  /\ \A q \in {"\"", "'"} : [fn |-> "string", quote |-> q] \in EscapeOuter
  /\ \A k \in Kinds : End(k) \in EscapeOuter
<1>1. ASSUME NEW f \in PlainFns \cup {"blank", "token", "line_comment", "block_comment"},
             f \notin EscapeFns
      PROVE  Call(f) \in EscapeOuter
  BY <1>1 DEF Call, EscapeOuter, LexerCall, InnerCall
<1>2. ASSUME NEW n \in 1 .. 4 PROVE Skip(n) \in EscapeOuter
  BY Calls DEF Skip, EscapeOuter, LexerCall, EscapeFns
<1>3. ASSUME NEW S \in {BinDigits, OctDigits, DecDigits, HexDigits}
      PROVE  ReadWhile(S) \in EscapeOuter
  BY Calls DEF ReadWhile, EscapeOuter, LexerCall, EscapeFns
<1>4. ASSUME NEW S \in {BinDigits, OctDigits, HexDigits}, NEW e \in Errors
      PROVE  ReadDigit(S, e) \in EscapeOuter
  BY Calls DEF ReadDigit, EscapeOuter, LexerCall, EscapeFns
<1>5. ASSUME NEW q \in {"\"", "'"} PROVE [fn |-> "string", quote |-> q] \in EscapeOuter
  BY Calls DEF EscapeOuter, LexerCall, EscapeFns
<1>6. ASSUME NEW k \in Kinds PROVE End(k) \in EscapeOuter
  BY DEF End, EscapeOuter, LexerCall, EscapeFns
<1> QED BY <1>1, <1>2, <1>3, <1>4, <1>5, <1>6

LEMMA QuietSkips ==
  ASSUME TypeInv, todo # <<>>, This.fn \notin EscapeFns,
         \/ SkipChars \/ ReadWhileChars \/ SkipBlank \/ SkipNewline \/ SkipComment
         \/ LineComment \/ BlockComment \/ StartToken \/ IllegalChar \/ EndToken
  PROVE  Quiet
<1>1. This \in EscapeOuter
  BY CallAtHand DEF TypeInv, EscapeOuter
<1>2. /\ <<>> \in Seq(EscapeOuter) /\ <<This>> \in Seq(EscapeOuter)
  BY <1>1, Tuples
<1>3. \A calls \in Seq(EscapeOuter) : Consume(calls) \/ Stay(calls) \/ Then(calls) => Quiet
  BY DEF Consume, Stay, Quiet
<1>4. (\E e : Fail(e)) => Quiet
  BY DEF Fail, Quiet
<1>5. CASE SkipChars
  <2>1. This.n \in 1 .. 4
    BY <1>5, CallAtHand DEF SkipChars, At, TypeInv
  <2>2. (IF This.n = 1 THEN <<>> ELSE <<Skip(This.n - 1)>>) \in Seq(EscapeOuter)
    <3>1. CASE This.n = 1
      BY <1>2, <3>1
    <3>2. CASE This.n # 1
      <4>1. This.n - 1 \in 1 .. 4
        BY <2>1, <3>2
      <4>2. Skip(This.n - 1) \in EscapeOuter
        BY <4>1, OuterCalls
      <4>3. <<Skip(This.n - 1)>> \in Seq(EscapeOuter)
        BY <4>2, Tuples
      <4> QED BY <3>2, <4>3
    <3> QED BY <3>1, <3>2
  <2> QED BY <1>3, <1>5, <2>2, Zenon DEF SkipChars
<1>6. CASE ReadWhileChars \/ SkipBlank \/ LineComment \/ StartToken \/ IllegalChar \/ EndToken
  BY <1>2, <1>3, <1>4, <1>6, Zenon
     DEF ReadWhileChars, SkipBlank, LineComment, StartToken, IllegalChar, EndToken
<1>7. CASE SkipNewline
  BY <1>7 DEF SkipNewline, Quiet
<1>8. CASE SkipComment
  <2>1. /\ Call("line_comment") \in EscapeOuter /\ Call("block_comment") \in EscapeOuter
        /\ Skip(2) \in EscapeOuter /\ Skip(3) \in EscapeOuter /\ Skip(4) \in EscapeOuter
    <3>1. "line_comment" \notin EscapeFns /\ "block_comment" \notin EscapeFns
      BY DEF EscapeFns
    <3>2. 2 \in 1 .. 4 /\ 3 \in 1 .. 4 /\ 4 \in 1 .. 4
      OBVIOUS
    <3> QED BY <3>1, <3>2, OuterCalls
  <2>2. LineCommentPrefix > 0 => Skip(LineCommentPrefix) \in EscapeOuter
    <3>1. LineCommentPrefix \in {2, 3, 4, 0}
      BY Zenon DEF LineCommentPrefix
    <3> QED BY <2>1, <3>1
  <2>3. /\ LineCommentPrefix > 0 =>
             <<Skip(LineCommentPrefix), Call("line_comment"), This>> \in Seq(EscapeOuter)
        /\ <<Skip(2), Call("block_comment"), This>> \in Seq(EscapeOuter)
    BY <1>1, <2>1, <2>2, Tuples
  <2> QED BY <1>3, <1>8, <2>3, Zenon DEF SkipComment
<1>9. CASE BlockComment
  <2>1. <<Skip(2)>> \in Seq(EscapeOuter)
    <3>1. 2 \in 1 .. 4
      OBVIOUS
    <3> QED BY <3>1, OuterCalls, Tuples
  <2>2. UNCHANGED todo => Quiet
    BY DEF Quiet
  <2> QED BY <1>3, <1>4, <1>9, <2>1, <2>2, Zenon DEF BlockComment
<1> QED BY <1>5, <1>6, <1>7, <1>8, <1>9

LEMMA QuietPunctuators == PunctuatorCalls \in Seq(EscapeOuter)
<1>1. 1 \in 1 .. 4 /\ 2 \in 1 .. 4 /\ 3 \in 1 .. 4
  OBVIOUS
<1>2. "shift" \notin EscapeFns /\ "matches_equals" \notin EscapeFns
      /\ "shift" \in PlainFns /\ "matches_equals" \in PlainFns
  BY DEF EscapeFns, PlainFns
<1>3. /\ Skip(1) \in EscapeOuter /\ Skip(2) \in EscapeOuter /\ Skip(3) \in EscapeOuter
      /\ Call("shift") \in EscapeOuter /\ Call("matches_equals") \in EscapeOuter
  BY <1>1, <1>2, OuterCalls
<1>4. /\ <<Skip(1)>> \in Seq(EscapeOuter) /\ <<Skip(2)>> \in Seq(EscapeOuter)
      /\ <<Skip(3)>> \in Seq(EscapeOuter)
      /\ <<Skip(2), Call("shift")>> \in Seq(EscapeOuter)
      /\ <<Skip(2), Call("matches_equals")>> \in Seq(EscapeOuter)
  BY <1>3, Tuples
<1> QED BY <1>4, Zenon DEF PunctuatorCalls

LEMMA QuietToken == ASSUME ReadToken PROVE Quiet
<1>1. \A calls \in Seq(EscapeOuter) : Consume(calls) \/ Stay(calls) => Quiet
  BY DEF Consume, Stay, Quiet
<1>2. /\ End("regexp") \in EscapeOuter /\ End("number") \in EscapeOuter
      /\ End("string") \in EscapeOuter /\ End("word") \in EscapeOuter
      /\ End("punctuator") \in EscapeOuter /\ End("EOF") \in EscapeOuter
  <2>1. {"regexp", "number", "string", "word", "punctuator", "EOF"} \subseteq Kinds
    BY DEF Kinds
  <2> QED BY <2>1, OuterCalls
<1>3. /\ Call("regexp") \in EscapeOuter /\ Call("word_parts") \in EscapeOuter
      /\ Call("number") \in EscapeOuter /\ Call("number_end") \in EscapeOuter
      /\ Call("tokenize") \in EscapeOuter
  <2>1. {"regexp", "word_parts", "number", "number_end", "tokenize"} \subseteq PlainFns
    BY DEF PlainFns
  <2>2. /\ "regexp" \notin EscapeFns /\ "word_parts" \notin EscapeFns
        /\ "number" \notin EscapeFns /\ "number_end" \notin EscapeFns
        /\ "tokenize" \notin EscapeFns
    BY DEF EscapeFns
  <2> QED BY <2>1, <2>2, OuterCalls
<1>4. /\ <<Call("regexp"), Call("word_parts"), End("regexp")>> \in Seq(EscapeOuter)
      /\ <<Call("number"), Call("number_end"), End("number")>> \in Seq(EscapeOuter)
      /\ <<Call("word_parts"), Call("tokenize"), End("word")>> \in Seq(EscapeOuter)
      /\ <<End("EOF")>> \in Seq(EscapeOuter) /\ <<End("punctuator")>> \in Seq(EscapeOuter)
  BY <1>2, <1>3, Tuples
<1>5. StartsString => <<[fn |-> "string", quote |-> Next1], End("string")>> \in Seq(EscapeOuter)
  <2>1. StartsString => [fn |-> "string", quote |-> Next1] \in EscapeOuter
    BY OuterCalls, Zenon DEF StartsString
  <2> HIDE DEF EscapeOuter
  <2>2. \A c \in EscapeOuter, d \in EscapeOuter : <<c, d>> \in Seq(EscapeOuter)
    BY Tuples
  <2> QED BY <1>2, <2>1, <2>2, Zenon
<1>6. PunctuatorCalls \o <<End("punctuator")>> \in Seq(EscapeOuter)
  <2>1. \A s \in Seq(EscapeOuter), t \in Seq(EscapeOuter) : s \o t \in Seq(EscapeOuter)
    OBVIOUS
  <2> QED BY <1>4, <2>1, QuietPunctuators
<1> QED BY <1>1, <1>4, <1>5, <1>6, Zenon DEF ReadToken

LEMMA QuietTokens ==
  ASSUME TypeInv, todo # <<>>, This.fn \notin EscapeFns,
         \/ RegExp \/ Backslash \/ RegExpClass \/ Tokenize \/ Shift \/ MatchesEquals
         \/ Number \/ Decimal \/ Fraction \/ ExpPart \/ ExpSign \/ ExpDigits \/ NumberEnd
         \/ ReadDigitInto
  PROVE  Quiet
<1>1. This \in EscapeOuter
  BY CallAtHand DEF TypeInv, EscapeOuter
<1>2. <<>> \in Seq(EscapeOuter) /\ <<This>> \in Seq(EscapeOuter)
  BY <1>1, Tuples
<1>3. \A calls \in Seq(EscapeOuter) : Consume(calls) \/ Stay(calls) => Quiet
  BY DEF Consume, Stay, Quiet
<1>4. (\E e : Fail(e)) => Quiet
  BY DEF Fail, Quiet
<1>5. /\ Skip(1) \in EscapeOuter /\ Skip(2) \in EscapeOuter
      /\ ReadWhile(DecDigits) \in EscapeOuter
  <2>1. 1 \in 1 .. 4 /\ 2 \in 1 .. 4
    OBVIOUS
  <2>2. DecDigits \in {BinDigits, OctDigits, DecDigits, HexDigits}
    OBVIOUS
  <2> QED BY <2>1, <2>2, OuterCalls
<1>6. /\ Call("backslash") \in EscapeOuter /\ Call("class") \in EscapeOuter
      /\ Call("decimal") \in EscapeOuter /\ Call("fraction") \in EscapeOuter
      /\ Call("exp") \in EscapeOuter /\ Call("sign") \in EscapeOuter
      /\ Call("exp_digits") \in EscapeOuter
  <2>1. {"backslash", "class", "decimal", "fraction", "exp", "sign", "exp_digits"}
           \subseteq PlainFns
    BY DEF PlainFns
  <2>2. /\ "backslash" \notin EscapeFns /\ "class" \notin EscapeFns
        /\ "decimal" \notin EscapeFns /\ "fraction" \notin EscapeFns
        /\ "exp" \notin EscapeFns /\ "sign" \notin EscapeFns /\ "exp_digits" \notin EscapeFns
    BY DEF EscapeFns
  <2> QED BY <2>1, <2>2, OuterCalls
<1>7. CASE RegExp
  <2>1. (CASE Next1 = "\\" -> <<Call("backslash"), This>>
           [] Next1 = "[" -> <<Call("class"), This>>
           [] OTHER -> <<This>>) \in Seq(EscapeOuter)
    BY <1>1, <1>6, Tuples
  <2> QED BY <1>2, <1>3, <1>4, <1>7, <2>1, Zenon DEF RegExp, AssertionFails
<1>8. CASE Backslash \/ Tokenize \/ MatchesEquals \/ ExpSign \/ NumberEnd \/ ReadDigitInto
  BY <1>2, <1>3, <1>4, <1>8, Zenon
     DEF Backslash, Tokenize, MatchesEquals, ExpSign, NumberEnd, ReadDigitInto
<1>9. CASE RegExpClass
  <2>1. (CASE Next1 = "]" -> <<>>
           [] Next1 = "\\" -> <<Call("backslash"), This>>
           [] OTHER -> <<This>>) \in Seq(EscapeOuter)
    BY <1>1, <1>6, Tuples
  <2> QED BY <1>2, <1>3, <1>4, <1>9, <2>1, Zenon DEF RegExpClass, AssertionFails
<1>10. CASE Shift
  <2>1. (IF Starts(<<">", "=">>) THEN <<Skip(2)>>
         ELSE IF Next1 \in {">", "="} THEN <<Skip(1)>> ELSE <<>>) \in Seq(EscapeOuter)
    BY <1>5, Tuples
  <2> QED BY <1>3, <1>10, <2>1, Zenon DEF Shift
<1>11. CASE Number
  <2>1. /\ <<ReadWhile(DecDigits), Call("exp")>> \in Seq(EscapeOuter)
        /\ <<ReadWhile(DecDigits), Call("decimal")>> \in Seq(EscapeOuter)
    BY <1>5, <1>6, Tuples
  <2>2. \A S \in {BinDigits, OctDigits, HexDigits}, e \in Errors :
          RadixInt(S, e) \in Seq(EscapeOuter)
    BY <1>5, OuterCalls, Tuples DEF RadixInt
  <2>3. \A c \in {"x", "X", "o", "O", "b", "B"} : Radix(c) \in Seq(EscapeOuter)
    <3>1. {"MissingHexDigits", "MissingOctalDigits", "MissingBinaryDigits"} \subseteq Errors
      BY DEF Errors
    <3> QED BY <2>2, <3>1 DEF Radix
  <2> QED BY <1>3, <1>11, <2>1, <2>3, Zenon DEF Number
<1>12. CASE Decimal \/ Fraction \/ ExpPart \/ ExpDigits
  <2>1. /\ (IF LegacyOctal(IntegerRead) THEN <<>> ELSE <<Call("fraction"), Call("exp")>>)
             \in Seq(EscapeOuter)
        /\ <<ReadWhile(DecDigits)>> \in Seq(EscapeOuter)
        /\ <<Call("sign"), Call("exp_digits")>> \in Seq(EscapeOuter)
    BY <1>5, <1>6, Tuples
  <2> QED BY <1>2, <1>3, <1>4, <1>12, <2>1, Zenon DEF Decimal, Fraction, ExpPart, ExpDigits
<1> QED BY <1>7, <1>8, <1>9, <1>10, <1>11, <1>12

\* The backslash that starts an escape.
Opens(f) == Next1 = "\\" /\ Consume(<<Call(f), This>>)

LEMMA QuietOrOpens ==
  ASSUME TypeInv, todo # <<>>, This.fn \notin EscapeFns, StringChars \/ WordParts
  PROVE  Quiet \/ Opens("escape") \/ Opens("word_escape")
<1>1. This \in EscapeOuter
  BY CallAtHand DEF TypeInv, EscapeOuter
<1>2. <<>> \in Seq(EscapeOuter) /\ <<This>> \in Seq(EscapeOuter)
  BY <1>1, Tuples
<1>3. \A calls \in Seq(EscapeOuter) : Consume(calls) \/ Stay(calls) => Quiet
  BY DEF Consume, Stay, Quiet
<1>4. (\E e : Fail(e)) => Quiet
  BY DEF Fail, Quiet
<1>5. CASE StringChars
  BY <1>2, <1>3, <1>4, <1>5, Zenon DEF StringChars, Opens
<1>6. CASE WordParts
  <2>1. CASE Next1 = "\\"
    <3>1. Consume(<<Call("word_escape"), This>>)
      BY <1>6, <2>1 DEF WordParts
    <3> QED BY <2>1, <3>1 DEF Opens
  <2>2. CASE Next1 # "\\"
    <3>1. Consume(<<This>>) \/ Stay(<<>>)
      BY <1>6, <2>2, Zenon DEF WordParts
    <3> QED BY <1>2, <1>3, <3>1
  <2> QED BY <2>1, <2>2
<1> QED BY <1>5, <1>6
-----------------------------------------------------------------------------
(***************************************************************************)
(* The steps of an escape.                                                 *)
(***************************************************************************)
\* The code compares with braces.
LEMMA BraceChars ==
  OpenBrace # "\\" /\ CloseBrace # "\\" /\ OpenBrace \notin HexDigits
<1>1. HexDigits = {"0", "1", "2", "3", "4", "5", "6", "7", "8", "9",
                   "a", "b", "c", "d", "e", "f", "A", "B", "C", "D", "E", "F"}
  BY Letters DEF HexDigits, DecDigits, OctDigits, BinDigits
<1>2. OpenBrace \notin {"0", "1", "2", "3", "4", "5", "6", "7", "8", "9",
                   "a", "b", "c", "d", "e", "f", "A", "B", "C", "D", "E", "F"}
  BY Zenon DEF OpenBrace
<1>3. OpenBrace # "\\" /\ CloseBrace # "\\"
  BY Zenon DEF OpenBrace, CloseBrace
<1> QED BY <1>1, <1>2, <1>3, Zenon

LEMMA HexChars == \A c \in HexDigits : c # "\\" /\ c # EndOfText
BY Letters DEF HexDigits, DecDigits, OctDigits, BinDigits, EndOfText

LEMMA UnicodeCalls ==
  UnicodeEscape =>
    /\ UNCHANGED escapeVars
    /\ \/ /\ Next1 = OpenBrace
          /\ Consume(<<HexDigit, Call("braces"), Call("add_digits")>>)
       \/ Stay(<<HexDigit, HexDigit, HexDigit, HexDigit, Call("add_digits")>>)
BY Zenon DEF UnicodeEscape, OpenBrace

LEMMA BracesCalls ==
  Braces =>
    \/ AssertionFails
    \/ Next1 = CloseBrace /\ Consume(<<>>) /\ UNCHANGED escapeVars
    \/ Stay(<<HexDigit, This>>) /\ UNCHANGED escapeVars
BY Zenon DEF Braces, CloseBrace

\* The calls of escapes, and their names.
LEMMA EscapeCallNames ==
  /\ Call("octal").fn = "octal" /\ Call("unicode").fn = "unicode"
  /\ Call("braces").fn = "braces" /\ Call("add_digits").fn = "add_digits"
  /\ HexDigit.fn = "digit" /\ HexDigit.chars = HexDigits
  /\ \A w \in BOOLEAN : FromU32(w).fn = "from_u32"
  /\ \A f \in {"escape", "word_escape"} : Call(f).fn = f
BY DEF Call, HexDigit, ReadDigit, FromU32

LEMMA AreCalls ==
  /\ \A f \in PlainFns : Call(f) \in LexerCall
  /\ HexDigit \in LexerCall /\ \A w \in BOOLEAN : FromU32(w) \in LexerCall
BY Calls DEF LexerCall

\* The escape goes on with the next character, or without it.
LEMMA EscapeTakes ==
  ASSUME TypeInv, NEW b \in 1 .. posn.offset, text[b] = "\\", NextChar,
         NEW e, e = EscapeText(b), NEW new, new = Append(e, Next1), InEscape(new)'
  PROVE  Escaping'
<1>1. EscapeText(b)' = new /\ (b \in 1 .. posn.offset)' /\ text'[b] = "\\"
  BY EscapeTextTakes
<1> QED BY <1>1 DEF Escaping

LEMMA EscapeWaits ==
  ASSUME TypeInv, NEW b \in 1 .. posn.offset, text[b] = "\\",
         PeekMore \/ UNCHANGED readerVars, NEW e, e = EscapeText(b), InEscape(e)'
  PROVE  Escaping'
<1>1. EscapeText(b)' = e /\ (b \in 1 .. posn.offset)' /\ text'[b] = "\\"
  BY EscapeTextStays
<1> QED BY <1>1 DEF Escaping

LEMMA EscapeFails ==
  ASSUME NEW e, e # "lexing", Fail(e) PROVE Escaping'
BY NotRunning DEF Escaping

\* The backslash begins an escape.
LEMMA OpensKeeps ==
  ASSUME TypeInv, todo # <<>>, PlainFrom(1), NEW f \in {"escape", "word_escape"}, Opens(f)
  PROVE  Escaping'
<1>1. todo \in Seq(LexerCall) /\ PlainFrom(2) /\ posn.offset \in Nat /\ posn.offset <= Len(text)
      /\ ReaderInv /\ text \in Seq(Chars)
  BY TypeFacts DEF PlainFrom
<1>2. NextChar /\ Then(<<Call(f), This>>) /\ Next1 = "\\"
  BY DEF Opens, Consume
<1>3. /\ text' = text /\ posn'.offset = posn.offset + 1 /\ posn'.offset <= Len(text)
      /\ text[posn.offset + 1] = Head(ahead) /\ Next1 = Head(ahead)
  BY <1>1, <1>2, Taken
<1>4. /\ Len(todo') \in Nat /\ Len(todo') >= 2 /\ PlainFrom(3)'
      /\ todo'[1] = Call(f) /\ todo'[2] = This /\ This = todo[1] /\ Len(todo) >= 1
  <2>1. /\ Call(f) \in LexerCall /\ This \in LexerCall
    BY AreCalls, CallAtHand DEF TypeInv, PlainFns
  <2>0. PICK calls : calls = <<Call(f), This>>
    OBVIOUS
  <2>2. calls \in Seq(LexerCall)
    <3> HIDE DEF LexerCall
    <3> QED BY <2>0, <2>1, Tuples
  <2>3. Len(calls) = 2 /\ calls[1] = Call(f) /\ calls[2] = This
    BY <2>0
  <2>4. Then(calls)
    BY <1>2, <2>0
  <2>5. /\ PlainFrom(Len(calls) + 2 - 1)' /\ Len(todo') \in Nat /\ Len(todo) \in Nat
        /\ Len(todo') = Len(calls) + Len(todo) - 1
        /\ \A i \in 1 .. Len(calls) : todo'[i] = calls[i]
        /\ This = todo[1] /\ Len(todo) >= 1
    BY <1>1, <2>2, <2>4, PlainThen
  <2>6. Len(calls) + 2 - 1 = 3 /\ 1 \in 1 .. Len(calls) /\ 2 \in 1 .. Len(calls)
    BY <2>3
  <2>7. PlainFrom(3)'
    BY <2>5, <2>6
  <2> QED BY <2>3, <2>5, <2>6, <2>7
<1>5. PlainFrom(2)'
  <2>1. This.fn \notin EscapeFns
    BY <1>4 DEF PlainFrom
  <2>2. ASSUME NEW i \in 2 .. Len(todo') PROVE todo'[i].fn \notin EscapeFns
    <3>1. CASE i = 2
      BY <1>4, <2>1, <3>1
    <3>2. CASE i > 2
      <4>1. i \in 3 .. Len(todo')
        BY <1>4, <3>2
      <4> QED BY <1>4, <4>1 DEF PlainFrom
    <3> QED BY <3>1, <3>2
  <2> QED BY <2>2 DEF PlainFrom
<1>6. PICK b : b = posn.offset + 1
  OBVIOUS
<1>7. (b \in 1 .. posn.offset)' /\ text'[b] = "\\" /\ EscapeText(b)' = <<>>
  <2>1. (b \in 1 .. posn.offset)' /\ text'[b] = "\\" /\ posn'.offset = b /\ b \in Nat
    BY <1>1, <1>2, <1>3, <1>6
  <2>2. \A s \in Seq(Chars), n \in Nat : SubSeq(s, n + 1, n) = <<>>
    OBVIOUS
  <2> QED BY <1>1, <1>3, <2>1, <2>2 DEF EscapeText
<1>8. PICK e : e = <<>>
  OBVIOUS
<1>9. Opened(e)'
  <2>1. todo' # <<>>
    BY <1>4
  <2>2. todo'[1].fn \in {"escape", "word_escape"}
    BY <1>4, EscapeCallNames
  <2> QED BY <1>5, <1>8, <2>1, <2>2 DEF Opened
<1>10. InEscape(e)'
  BY <1>8, <1>9 DEF InEscape
<1> QED BY <1>7, <1>8, <1>10 DEF Escaping

\* A string's escape and a word's, their backslashes read.
LEMMA HexBegins ==
  ASSUME TypeInv, todo # <<>>, PlainFrom(2), NEW c \in Chars, c = "x",
         Then(<<HexDigit, HexDigit, Call("add_digits"), FromU32(FALSE)>>), digits' = <<>>
  PROVE  InEscape(<<c>>)'
<1>1. PICK calls : calls = <<HexDigit, HexDigit, Call("add_digits"), FromU32(FALSE)>>
  OBVIOUS
<1>2. calls \in Seq(LexerCall) /\ todo \in Seq(LexerCall)
  <2>1. /\ HexDigit \in LexerCall /\ Call("add_digits") \in LexerCall
        /\ FromU32(FALSE) \in LexerCall
    BY AreCalls DEF PlainFns
  <2> HIDE DEF LexerCall, HexDigit, Call, FromU32
  <2> QED BY <1>1, <2>1, Tuples, TypeFacts
<1>3. /\ Len(calls) = 4 /\ calls[1] = HexDigit /\ calls[2] = HexDigit
      /\ calls[3].fn = "add_digits" /\ calls[4].fn = "from_u32"
  BY <1>1, EscapeCallNames
<1>4. /\ PlainFrom(Len(calls) + 2 - 1)' /\ Len(todo) \in Nat /\ Len(todo') \in Nat
      /\ Len(todo') = Len(calls) + Len(todo) - 1 /\ Len(todo) >= 1
      /\ \A i \in 1 .. Len(calls) : todo'[i] = calls[i]
  <2>1. Then(calls)
    BY <1>1
  <2> QED BY <1>2, <2>1, PlainThen, SMTT(30)
<1>5. /\ Len(calls) + 2 - 1 = 5 /\ 3 + 2 = 5 /\ 3 + 1 = 4
      /\ 1 \in 1 .. Len(calls) /\ 2 \in 1 .. Len(calls)
      /\ 3 \in 1 .. Len(calls) /\ 4 \in 1 .. Len(calls)
  BY <1>3
<1>6. PlainFrom(3 + 2)'
  BY <1>4, <1>5
<1>7. Adding(3)'
  BY <1>3, <1>4, <1>5, <1>6 DEF Adding
<1>8. PICK e : e = <<c>>
  OBVIOUS
<1>9. e # <<>> /\ Len(e) = 1 /\ e[1] = c /\ DOMAIN e = {1}
  BY <1>8
<1>10. \A i \in 1 .. 2 : todo'[i] = HexDigit
  BY <1>3, <1>4, <1>5
<1>11. Len(digits') = 0 /\ Collected(e, 1)'
  <2>1. Len(digits') = 0 /\ 1 .. 0 = {}
    OBVIOUS
  <2> QED BY <2>1 DEF Collected
<1>12. FixedAt(e)'
  <2>1. 2 \in 0 .. 4 /\ 2 + 1 = 3 /\ Len(e) + 2 = 3 /\ Len(digits') = Len(e) - 1
    BY <1>9, <1>11
  <2> QED BY <1>7, <1>9, <1>10, <1>11, <2>1 DEF FixedAt
<1>13. InEscape(e)'
  BY <1>9, <1>12 DEF InEscape
<1> QED BY <1>8, <1>13

LEMMA UnicodeBegins ==
  ASSUME TypeInv, todo # <<>>, PlainFrom(2), NEW w \in BOOLEAN, NEW c \in Chars, c = "u",
         Then(<<Call("unicode"), FromU32(w)>>), digits' = <<>>
  PROVE  InEscape(<<c>>)'
<1>1. PICK calls : calls = <<Call("unicode"), FromU32(w)>>
  OBVIOUS
<1>2. calls \in Seq(LexerCall) /\ todo \in Seq(LexerCall)
  <2>1. Call("unicode") \in LexerCall /\ FromU32(w) \in LexerCall
    BY AreCalls DEF PlainFns
  <2> HIDE DEF LexerCall, Call, FromU32
  <2> QED BY <1>1, <2>1, Tuples, TypeFacts
<1>3. Len(calls) = 2 /\ calls[1].fn = "unicode" /\ calls[2].fn = "from_u32"
  BY <1>1, EscapeCallNames
<1>4. /\ PlainFrom(Len(calls) + 2 - 1)' /\ Len(todo) \in Nat /\ Len(todo') \in Nat
      /\ Len(todo') = Len(calls) + Len(todo) - 1 /\ Len(todo) >= 1
      /\ \A i \in 1 .. Len(calls) : todo'[i] = calls[i]
  <2>1. Then(calls)
    BY <1>1
  <2> QED BY <1>2, <2>1, PlainThen, SMTT(30)
<1>5. Len(calls) + 2 - 1 = 3 /\ 1 \in 1 .. Len(calls) /\ 2 \in 1 .. Len(calls)
  BY <1>3
<1>6. PlainFrom(3)' /\ Len(todo') > 1
  BY <1>3, <1>4, <1>5
<1>7. PICK e : e = <<c>>
  OBVIOUS
<1>8. e = <<"u">> /\ e[1] = c /\ DOMAIN e = {1}
  BY <1>7
<1>9. UnicodeAt(e)'
  BY <1>3, <1>4, <1>5, <1>6, <1>8 DEF UnicodeAt
<1>10. InEscape(e)'
  BY <1>8, <1>9 DEF InEscape
<1> QED BY <1>7, <1>10

LEMMA OctalCall ==
  ASSUME TypeInv, todo # <<>>, PlainFrom(2), ahead' # <<>>, Next1' \in OctDigits,
         Then(<<Call("octal")>>), digits' = <<>>
  PROVE  InEscape(<<>>)'
<1>1. PICK calls : calls = <<Call("octal")>>
  OBVIOUS
<1>2. calls \in Seq(LexerCall) /\ todo \in Seq(LexerCall)
  <2>1. Call("octal") \in LexerCall
    BY AreCalls DEF PlainFns
  <2> HIDE DEF LexerCall, Call
  <2> QED BY <1>1, <2>1, Tuples, TypeFacts
<1>3. Len(calls) = 1 /\ calls[1].fn = "octal"
  BY <1>1, EscapeCallNames
<1>4. /\ PlainFrom(Len(calls) + 2 - 1)' /\ Len(todo) \in Nat /\ Len(todo') \in Nat
      /\ Len(todo') = Len(calls) + Len(todo) - 1 /\ Len(todo) >= 1
      /\ \A i \in 1 .. Len(calls) : todo'[i] = calls[i]
  <2>1. Then(calls)
    BY <1>1
  <2> QED BY <1>2, <2>1, PlainThen, SMTT(30)
<1>5. Len(calls) + 2 - 1 = 2 /\ 1 \in 1 .. Len(calls)
  BY <1>3
<1>6. PlainFrom(2)' /\ todo' # <<>> /\ todo'[1].fn = "octal"
  BY <1>3, <1>4, <1>5
<1>7. PICK e : e = <<>>
  OBVIOUS
<1>8. Len(e) = 0 /\ DOMAIN e = {} /\ Len(digits') = Len(e) /\ Len(e) <= 3
  BY <1>7
<1>9. AllIn(e, OctDigits)
  BY <1>8 DEF AllIn
<1>10. OctalAt(e)'
  BY <1>6, <1>7, <1>8, <1>9, SMT DEF OctalAt
<1>11. InEscape(e)'
  BY <1>8, <1>10 DEF InEscape
<1> QED BY <1>7, <1>11

LEMMA NothingBefore == \A c : Append(<<>>, c) = <<c>>
OBVIOUS

LEMMA OpenedStep ==
  ASSUME TypeInv, NEW b \in 1 .. posn.offset, text[b] = "\\", Opened(EscapeText(b)),
         StringEscape \/ WordEscape
  PROVE  Escaping'
<1>1. todo # <<>> /\ PlainFrom(2) /\ todo \in Seq(LexerCall) /\ EscapeText(b) = <<>>
  BY TypeFacts DEF Opened
<1>2. \A c : c = Next1 /\ NextChar => c \in Chars /\ Append(<<>>, c) = <<c>>
  BY EscapeTextTakes, NothingBefore
<1>3. ASSUME Next1 = "u", NEW w \in BOOLEAN, Consume(<<Call("unicode"), FromU32(w)>>),
             digits' = <<>>
      PROVE  Escaping'
  <2>1. NextChar /\ Then(<<Call("unicode"), FromU32(w)>>)
    BY <1>3 DEF Consume
  <2>2. PICK c : c = Next1
    OBVIOUS
  <2>3. c \in Chars /\ Append(<<>>, c) = <<c>> /\ c = "u"
    BY <1>2, <1>3, <2>1, <2>2
  <2>4. InEscape(<<c>>)'
    BY <1>1, <1>3, <2>1, <2>3, UnicodeBegins
  <2> QED BY <1>1, <2>1, <2>2, <2>3, <2>4, EscapeTakes
<1>4. CASE WordEscape
  BY <1>3, <1>4, EscapeFails DEF WordEscape
<1>5. CASE StringEscape
  <2>1. \A calls \in Seq(EscapeOuter) : Then(calls) => Escaping'
    BY <1>1, PlainAgain DEF Escaping
  <2>2. <<>> \in Seq(EscapeOuter) /\ <<Skip(1)>> \in Seq(EscapeOuter)
        /\ <<Skip(2)>> \in Seq(EscapeOuter)
    <3>1. 1 \in 1 .. 4 /\ 2 \in 1 .. 4
      OBVIOUS
    <3>2. Skip(1) \in EscapeOuter /\ Skip(2) \in EscapeOuter
      BY <3>1, OuterCalls
    <3> QED BY <3>2, Tuples
  <2>3. CASE Next1 \in OctDigits /\ Stay(<<Call("octal")>>) /\ digits' = <<>>
    <3>1. Then(<<Call("octal")>>) /\ UNCHANGED readerVars
      BY <2>3 DEF Stay
    <3>2. ahead' # <<>> /\ Next1' \in OctDigits
      <4>1. ahead # <<>>
        <5>1. EndOfText \notin OctDigits
          BY DEF EndOfText, OctDigits, BinDigits
        <5> QED BY <2>3, <5>1 DEF Next1, PeekAt
      <4> QED BY <2>3, <3>1, <4>1 DEF readerVars, Next1, PeekAt
    <3>3. InEscape(<<>>)'
      BY <1>1, <2>3, <3>1, <3>2, OctalCall
    <3> QED BY <1>1, <3>1, <3>3, EscapeWaits
  <2>4. CASE /\ Next1 = "x" /\ digits' = <<>>
             /\ Consume(<<HexDigit, HexDigit, Call("add_digits"), FromU32(FALSE)>>)
    <3>1. /\ NextChar
          /\ Then(<<HexDigit, HexDigit, Call("add_digits"), FromU32(FALSE)>>)
      BY <2>4 DEF Consume
    <3>2. PICK c : c = Next1
      OBVIOUS
    <3>3. c \in Chars /\ Append(<<>>, c) = <<c>> /\ c = "x"
      BY <1>2, <2>4, <3>1, <3>2
    <3>4. InEscape(<<c>>)'
      BY <1>1, <2>4, <3>1, <3>3, HexBegins
    <3> QED BY <1>1, <3>1, <3>2, <3>3, <3>4, EscapeTakes
  <2>5. CASE Next1 = "u" /\ Consume(<<Call("unicode"), FromU32(FALSE)>>) /\ digits' = <<>>
    BY <1>3, <2>5
  <2>6. CASE Stay(<<Skip(IF Starts(<<"CR", "LF">>) THEN 2 ELSE 1)>>)
    <3>1. Then(<<Skip(1)>>) \/ Then(<<Skip(2)>>)
      BY <2>6, Zenon DEF Stay
    <3> QED BY <2>1, <2>2, <3>1
  <2>7. CASE Stay(<<>>) \/ Consume(<<>>)
    BY <2>1, <2>2, <2>7 DEF Stay, Consume
  <2> QED BY <1>5, <2>3, <2>4, <2>5, <2>6, <2>7, Zenon DEF StringEscape
<1> QED BY <1>4, <1>5

\* A unicode escape: four digits, or as many as there are between braces.
LEMMA FourDigits ==
  ASSUME TypeInv, NEW e \in Seq(Chars), UnicodeAt(e), UNCHANGED digits,
         Then(<<HexDigit, HexDigit, HexDigit, HexDigit, Call("add_digits")>>)
  PROVE  InEscape(e)'
<1>0. /\ Len(todo) > 1 /\ todo[2].fn = "from_u32" /\ PlainFrom(3) /\ todo # <<>>
      /\ e = <<"u">> /\ digits = <<>> /\ todo \in Seq(LexerCall)
  BY TypeFacts DEF UnicodeAt
<1>1. PICK calls : calls = <<HexDigit, HexDigit, HexDigit, HexDigit, Call("add_digits")>>
  OBVIOUS
<1>2. calls \in Seq(LexerCall)
  <2>1. HexDigit \in LexerCall /\ Call("add_digits") \in LexerCall
    BY AreCalls DEF PlainFns
  <2> HIDE DEF LexerCall, HexDigit, Call
  <2> QED BY <1>1, <2>1, Tuples
<1>3. /\ Len(calls) = 5 /\ calls[1] = HexDigit /\ calls[2] = HexDigit
      /\ calls[3] = HexDigit /\ calls[4] = HexDigit /\ calls[5].fn = "add_digits"
  BY <1>1, EscapeCallNames
<1>4. /\ PlainFrom(Len(calls) + 3 - 1)' /\ Len(todo) \in Nat /\ Len(todo') \in Nat
      /\ Len(todo') = Len(calls) + Len(todo) - 1
      /\ \A i \in 1 .. Len(calls) : todo'[i] = calls[i]
      /\ \A i \in 1 .. Len(todo) - 1 : todo'[Len(calls) + i] = todo[i + 1]
  <2>1. Then(calls)
    BY <1>1
  <2>2. todo \in Seq(LexerCall) /\ todo # <<>> /\ PlainFrom(3)
    BY <1>0
  <2>3. 3 \in Nat /\ 3 >= 2
    OBVIOUS
  <2> QED BY <1>2, <2>1, <2>2, <2>3, PlainThen, SMTT(30)
<1>5. PlainFrom(5 + 2)'
  <2>1. Len(calls) + 3 - 1 = 5 + 2
    BY <1>3
  <2> QED BY <1>4, <2>1
<1>6. todo'[5].fn = "add_digits" /\ Len(todo') > 5
  BY <1>0, <1>3, <1>4
<1>7. todo'[5 + 1].fn = "from_u32"
  <2>1. 1 \in 1 .. Len(todo) - 1 /\ Len(calls) + 1 = 5 + 1 /\ 1 + 1 = 2
    BY <1>0, <1>3, <1>4
  <2>2. todo'[Len(calls) + 1] = todo[2]
    BY <1>4, <2>1
  <2> QED BY <1>0, <2>1, <2>2
<1>8. Adding(5)'
  BY <1>5, <1>6, <1>7 DEF Adding
<1>9. \A i \in 1 .. 4 : todo'[i] = HexDigit
  BY <1>3, <1>4
<1>10. e # <<>> /\ Len(e) = 1 /\ e[1] = "u" /\ DOMAIN e = {1}
  BY <1>0
<1>11. Len(digits') = 0 /\ Collected(e, 1)'
  <2>1. digits' = <<>> /\ Len(<<>>) = 0 /\ 1 .. 0 = {}
    BY <1>0
  <2> QED BY <2>1 DEF Collected
<1>12. FixedAt(e)'
  <2>1. 4 \in 0 .. 4 /\ 4 + 1 = 5 /\ Len(e) + 4 = 5 /\ Len(digits') = Len(e) - 1
    BY <1>10, <1>11
  <2> QED BY <1>8, <1>9, <1>10, <1>11, <2>1 DEF FixedAt
<1> QED BY <1>10, <1>12 DEF InEscape

LEMMA BracesBegin ==
  ASSUME TypeInv, NEW e \in Seq(Chars), UnicodeAt(e), UNCHANGED digits,
         NEW new, new = Append(e, OpenBrace),
         Then(<<HexDigit, Call("braces"), Call("add_digits")>>)
  PROVE  InEscape(new)'
<1>0. /\ Len(todo) > 1 /\ todo[2].fn = "from_u32" /\ PlainFrom(3) /\ todo # <<>>
      /\ e = <<"u">> /\ digits = <<>> /\ todo \in Seq(LexerCall)
  BY TypeFacts DEF UnicodeAt
<1>1. PICK calls : calls = <<HexDigit, Call("braces"), Call("add_digits")>>
  OBVIOUS
<1>2. calls \in Seq(LexerCall)
  <2>1. /\ HexDigit \in LexerCall /\ Call("add_digits") \in LexerCall
        /\ Call("braces") \in LexerCall
    BY AreCalls DEF PlainFns
  <2> HIDE DEF LexerCall, HexDigit, Call
  <2> QED BY <1>1, <2>1, Tuples
<1>3. /\ Len(calls) = 3 /\ calls[1] = HexDigit /\ calls[2].fn = "braces"
      /\ calls[3].fn = "add_digits"
  BY <1>1, EscapeCallNames
<1>4. /\ PlainFrom(Len(calls) + 3 - 1)' /\ Len(todo) \in Nat /\ Len(todo') \in Nat
      /\ Len(todo') = Len(calls) + Len(todo) - 1
      /\ \A i \in 1 .. Len(calls) : todo'[i] = calls[i]
      /\ \A i \in 1 .. Len(todo) - 1 : todo'[Len(calls) + i] = todo[i + 1]
  <2>1. Then(calls)
    BY <1>1
  <2>2. todo \in Seq(LexerCall) /\ todo # <<>> /\ PlainFrom(3)
    BY <1>0
  <2>3. 3 \in Nat /\ 3 >= 2
    OBVIOUS
  <2> QED BY <1>2, <2>1, <2>2, <2>3, PlainThen, SMTT(30)
<1>5. PlainFrom(3 + 2)'
  <2>1. Len(calls) + 3 - 1 = 3 + 2
    BY <1>3
  <2> QED BY <1>4, <2>1
<1>6. /\ todo'[1] = HexDigit /\ todo'[2].fn = "braces" /\ todo'[3].fn = "add_digits"
      /\ Len(todo') > 3
  BY <1>0, <1>3, <1>4
<1>7. todo'[3 + 1].fn = "from_u32"
  <2>1. 1 \in 1 .. Len(todo) - 1 /\ Len(calls) + 1 = 3 + 1 /\ 1 + 1 = 2
    BY <1>0, <1>3, <1>4
  <2>2. todo'[Len(calls) + 1] = todo[2]
    BY <1>4, <2>1
  <2> QED BY <1>0, <2>1, <2>2
<1>8. Adding(3)'
  BY <1>5, <1>6, <1>7 DEF Adding
<1>9. /\ Len(new) = 2 /\ new[1] = "u" /\ new[2] = OpenBrace /\ DOMAIN new = {1, 2}
  BY <1>0
<1>10. Len(digits') = 0 /\ Collected(new, 2)'
  <2>1. digits' = <<>> /\ Len(<<>>) = 0 /\ 1 .. 0 = {}
    BY <1>0
  <2> QED BY <2>1 DEF Collected
<1>11. BracesAt(new)'
  <2>1. Len(new) > 1 /\ Len(digits') = Len(new) - 2
    BY <1>9, <1>10
  <2> QED BY <1>6, <1>8, <1>9, <1>10, <2>1 DEF BracesAt, InBraces
<1>12. \A i \in DOMAIN new : new[i] # "\\"
  BY <1>9, BraceChars
<1> QED BY <1>11, <1>12 DEF InEscape

LEMMA UnicodeStep ==
  ASSUME TypeInv, NEW b \in 1 .. posn.offset, text[b] = "\\", UnicodeAt(EscapeText(b)),
         UnicodeEscape
  PROVE  Escaping'
<1>1. PICK e : e = EscapeText(b)
  OBVIOUS
<1>2. UNCHANGED digits /\ UnicodeAt(e) /\ e \in Seq(Chars)
  BY <1>1, UnicodeCalls, EscapeTextIs DEF escapeVars
<1>3. CASE Next1 = OpenBrace /\ Consume(<<HexDigit, Call("braces"), Call("add_digits")>>)
  <2>1. NextChar /\ Then(<<HexDigit, Call("braces"), Call("add_digits")>>)
    BY <1>3 DEF Consume
  <2>2. PICK new : new = Append(e, OpenBrace)
    OBVIOUS
  <2>3. InEscape(new)'
    BY <1>2, <2>1, <2>2, BracesBegin
  <2> QED BY <1>1, <1>3, <2>1, <2>2, <2>3, EscapeTakes
<1>4. CASE Stay(<<HexDigit, HexDigit, HexDigit, HexDigit, Call("add_digits")>>)
  <2>1. /\ UNCHANGED readerVars
        /\ Then(<<HexDigit, HexDigit, HexDigit, HexDigit, Call("add_digits")>>)
    BY <1>4 DEF Stay
  <2>2. InEscape(e)'
    BY <1>2, <2>1, FourDigits
  <2> QED BY <1>1, <2>1, <2>2, EscapeWaits
<1> QED BY <1>3, <1>4, UnicodeCalls

\* A call that makes no other brings the rest one place nearer.
LEMMA Nearer ==
  ASSUME todo \in Seq(LexerCall), todo # <<>>, Then(<<>>)
  PROVE  /\ Len(todo) \in Nat /\ Len(todo') \in Nat /\ Len(todo') = Len(todo) - 1
         /\ \A i \in 1 .. Len(todo) - 1 : todo'[i] = todo[i + 1]
         /\ This = todo[1]
         /\ \A k \in Nat : k >= 2 /\ PlainFrom(k) => PlainFrom(k - 1)'
<1>1. PICK calls : calls = <<>>
  OBVIOUS
<1>2. calls \in Seq(LexerCall) /\ Then(calls)
  BY <1>1
<1>0. Len(calls) = 0
  BY <1>1
<1>3. /\ Len(todo) \in Nat /\ Len(todo') \in Nat /\ This = todo[1]
      /\ Len(todo') = Len(calls) + Len(todo) - 1
      /\ \A i \in 1 .. Len(todo) - 1 : todo'[Len(calls) + i] = todo[i + 1]
  BY <1>2, ThenCalls
<1>4. ASSUME NEW k \in Nat, k >= 2, PlainFrom(k) PROVE PlainFrom(k - 1)'
  <2>1. PlainFrom(Len(calls) + k - 1)'
    BY <1>2, <1>4, PlainThen
  <2>2. Len(calls) + k - 1 = k - 1
    BY <1>0, <1>4
  <2> QED BY <2>1, <2>2
<1>5. \A i \in 1 .. Len(todo) - 1 : todo'[i] = todo[i + 1]
  <2>1. \A i \in 1 .. Len(todo) - 1 : Len(calls) + i = i
    BY <1>0
  <2> QED BY <1>3, <2>1
<1> QED BY <1>0, <1>3, <1>4, <1>5

LEMMA AddingNearer ==
  ASSUME todo \in Seq(LexerCall), todo # <<>>, Then(<<>>), NEW n \in Nat, n >= 1,
         Adding(n + 1)
  PROVE  Adding(n)'
<1>1. /\ Len(todo) > n + 1 /\ todo[n + 1].fn = "add_digits" /\ todo[n + 1 + 1].fn = "from_u32"
      /\ PlainFrom(n + 1 + 2)
  BY DEF Adding
<1>2. /\ Len(todo) \in Nat /\ Len(todo') \in Nat /\ Len(todo') = Len(todo) - 1
      /\ \A i \in 1 .. Len(todo) - 1 : todo'[i] = todo[i + 1]
      /\ \A k \in Nat : k >= 2 /\ PlainFrom(k) => PlainFrom(k - 1)'
  BY Nearer
<1>3. n + 1 + 2 \in Nat /\ n + 1 + 2 >= 2 /\ n + 1 + 2 - 1 = n + 2
  OBVIOUS
<1>4. PlainFrom(n + 2)'
  BY <1>1, <1>2, <1>3
<1>5. n \in 1 .. Len(todo) - 1 /\ n + 1 \in 1 .. Len(todo) - 1 /\ Len(todo') > n
  BY <1>1, <1>2
<1>6. todo'[n] = todo[n + 1] /\ todo'[n + 1] = todo[n + 1 + 1]
  BY <1>2, <1>5
<1> QED BY <1>1, <1>4, <1>5, <1>6 DEF Adding

\* A digit is read.
LEMMA DigitRead ==
  ASSUME ReadDigitInto, This = HexDigit
  PROVE  \/ /\ Next1 \in HexDigits /\ NextChar /\ Then(<<>>)
            /\ digits' = Append(digits, ToDigit(Next1))
         \/ \E e : e # "lexing" /\ Fail(e)
<1>1. This.chars = HexDigits /\ This.missing # "lexing"
  BY DEF HexDigit, ReadDigit
<1>2. CASE Next1 \in This.chars /\ Consume(<<>>) /\ digits' = Append(digits, ToDigit(Next1))
  BY <1>1, <1>2 DEF Consume
<1>3. CASE Fail(This.missing) \/ Fail("InvalidDigit")
  BY <1>1, <1>3
<1> QED BY <1>2, <1>3, Zenon DEF ReadDigitInto

LEMMA FixedDigit ==
  ASSUME TypeInv, todo # <<>>, NEW e \in Seq(Chars), FixedAt(e), todo[1] = HexDigit,
         \A i \in DOMAIN e : e[i] # "\\",
         NEW c \in Chars, c \in HexDigits, NEW new, new = Append(e, c),
         Then(<<>>), digits' = Append(digits, ToDigit(c))
  PROVE  InEscape(new)'
<1>1. PICK n \in 0 .. 4 :
        /\ Adding(n + 1) /\ \A i \in 1 .. n : todo[i] = HexDigit
        /\ e # <<>> /\ Collected(e, 1) /\ Len(digits) = Len(e) - 1
        /\ \/ e[1] = "x" /\ Len(e) + n = 3
           \/ e[1] = "u" /\ Len(e) + n = 5
  BY DEF FixedAt
<1>2. n \in Nat /\ n >= 1
  <2>1. n # 0
    <3> SUFFICES ASSUME n = 0 PROVE FALSE
      OBVIOUS
    <3>1. todo[1].fn = "add_digits"
      BY <1>1 DEF Adding
    <3> QED BY <3>1, EscapeCallNames
  <2> QED BY <2>1
<1>3. PICK m : m = n - 1
  OBVIOUS
<1>4. m \in 0 .. 4 /\ m + 1 = n
  BY <1>2, <1>3
<1>5. Adding(m + 1)'
  BY <1>1, <1>2, <1>4, AddingNearer, TypeFacts
<1>6. \A i \in 1 .. m : todo'[i] = HexDigit
  <2>1. /\ \A i \in 1 .. Len(todo) - 1 : todo'[i] = todo[i + 1]
        /\ Len(todo) \in Nat
    BY Nearer, TypeFacts
  <2>2. Len(todo) > n + 1
    BY <1>1 DEF Adding
  <2>3. \A i \in 1 .. m : i \in 1 .. Len(todo) - 1 /\ i + 1 \in 1 .. n
    BY <1>4, <2>1, <2>2
  <2> QED BY <1>1, <2>1, <2>3
<1>7. /\ new \in Seq(Chars) /\ Len(e) \in Nat /\ Len(new) = Len(e) + 1 /\ new # <<>>
      /\ \A i \in 1 .. Len(e) : new[i] = e[i]
  BY AppendIs
<1>8. Collected(new, 1)' /\ Len(digits)' = Len(new) - 1
  <2>1. 1 \in Nat
    OBVIOUS
  <2> QED BY <1>1, <2>1, CollectedMore
<1>9. new[1] = e[1]
  <2>1. 1 \in 1 .. Len(e)
    BY <1>1, <1>7
  <2> QED BY <1>7, <2>1
<1>10. \/ new[1] = "x" /\ Len(new) + m = 3
       \/ new[1] = "u" /\ Len(new) + m = 5
  BY <1>1, <1>4, <1>7, <1>9
<1>11. FixedAt(new)'
  BY <1>4, <1>5, <1>6, <1>7, <1>8, <1>10 DEF FixedAt
<1>12. \A i \in DOMAIN new : new[i] # "\\"
  BY HexChars, NoBackslash
<1> QED BY <1>11, <1>12 DEF InEscape

LEMMA InBracesMore ==
  ASSUME NEW e \in Seq(Chars), NEW c \in Chars, InBraces(e), NEW new, new = Append(e, c)
  PROVE  /\ Len(new) > 1 /\ new[1] = "u" /\ new[2] = OpenBrace
         /\ Len(e) \in Nat /\ Len(new) = Len(e) + 1 /\ Len(e) > 1
         /\ new[Len(new)] = c /\ \A i \in 1 .. Len(e) : new[i] = e[i]
<1>1. /\ Len(e) \in Nat /\ Len(new) = Len(e) + 1 /\ new[Len(e) + 1] = c
      /\ \A i \in 1 .. Len(e) : new[i] = e[i]
  BY AppendIs
<1>2. Len(e) > 1 /\ e[1] = "u" /\ e[2] = OpenBrace
  BY DEF InBraces
<1>3. 1 \in 1 .. Len(e) /\ 2 \in 1 .. Len(e)
  BY <1>1, <1>2
<1> QED BY <1>1, <1>2, <1>3

LEMMA BracesDigit ==
  ASSUME TypeInv, todo # <<>>, NEW e \in Seq(Chars), BracesAt(e), todo[1] = HexDigit,
         \A i \in DOMAIN e : e[i] # "\\",
         NEW c \in Chars, c \in HexDigits, NEW new, new = Append(e, c),
         Then(<<>>), digits' = Append(digits, ToDigit(c))
  PROVE  InEscape(new)'
<1>1. /\ InBraces(e) /\ Adding(2 + 1) /\ todo[2].fn = "braces" /\ Len(digits) = Len(e) - 2
  <2>1. todo[1].fn # "braces" /\ todo[1].fn # "add_digits"
    BY EscapeCallNames
  <2>2. 2 + 1 = 3
    OBVIOUS
  <2> QED BY <2>1, <2>2 DEF BracesAt, Adding
<1>2. Adding(2)'
  <2>1. 2 \in Nat /\ 2 >= 1
    OBVIOUS
  <2> QED BY <1>1, <2>1, AddingNearer, TypeFacts
<1>3. todo'[1] = todo[2]
  <2>1. /\ \A i \in 1 .. Len(todo) - 1 : todo'[i] = todo[i + 1]
        /\ Len(todo) \in Nat
    BY Nearer, TypeFacts
  <2>2. Len(todo) > 3
    BY <1>1 DEF Adding
  <2>3. 1 \in 1 .. Len(todo) - 1 /\ 1 + 1 = 2
    BY <2>1, <2>2
  <2>4. todo'[1] = todo[1 + 1]
    BY <2>1, <2>3
  <2> QED BY <2>3, <2>4
<1>4. /\ Len(new) > 1 /\ new[1] = "u" /\ new[2] = OpenBrace
      /\ Len(e) \in Nat /\ Len(new) = Len(e) + 1 /\ Len(e) > 1
  BY <1>1, InBracesMore
<1>5. Collected(new, 2)' /\ Len(digits)' = Len(new) - 2
  <2>1. 2 \in Nat /\ Collected(e, 2)
    BY <1>1 DEF InBraces
  <2> QED BY <1>1, <2>1, CollectedMore
<1>6. BracesAt(new)'
  <2>1. Len(new) > 2
    BY <1>4
  <2> QED BY <1>1, <1>2, <1>3, <1>4, <1>5, <2>1 DEF BracesAt, InBraces
<1>7. \A i \in DOMAIN new : new[i] # "\\"
  BY HexChars, NoBackslash
<1> QED BY <1>6, <1>7 DEF InEscape

LEMMA DigitStep ==
  ASSUME TypeInv, todo # <<>>, NEW b \in 1 .. posn.offset, text[b] = "\\",
         InEscape(EscapeText(b)), FixedAt(EscapeText(b)) \/ BracesAt(EscapeText(b)),
         todo[1] = HexDigit, ReadDigitInto
  PROVE  Escaping'
<1>1. PICK e : e = EscapeText(b)
  OBVIOUS
<1>2. /\ e \in Seq(Chars) /\ (FixedAt(e) \/ BracesAt(e))
      /\ \A i \in DOMAIN e : e[i] # "\\"
  BY <1>1, EscapeTextIs DEF InEscape
<1>3. This = HexDigit
  BY CallAtHand DEF TypeInv
<1>4. CASE /\ Next1 \in HexDigits /\ NextChar /\ Then(<<>>)
           /\ digits' = Append(digits, ToDigit(Next1))
  <2>1. PICK c : c = Next1
    OBVIOUS
  <2>2. PICK new : new = Append(e, c)
    OBVIOUS
  <2>3. c \in Chars
    BY <1>4, <2>1, EscapeTextTakes
  <2>4. InEscape(new)'
    BY <1>2, <1>4, <2>1, <2>2, <2>3, FixedDigit, BracesDigit
  <2> QED BY <1>1, <1>4, <2>1, <2>2, <2>4, EscapeTakes
<1>5. CASE \E x : x # "lexing" /\ Fail(x)
  BY <1>5, EscapeFails
<1> QED BY <1>3, <1>4, <1>5, DigitRead

\* The loop up to the closing brace.
LEMMA AtBraces ==
  ASSUME NEW e, BracesAt(e), todo[1].fn = "braces"
  PROVE  InBraces(e) /\ Adding(2) /\ Len(digits) = Len(e) - 2 /\ Len(e) > 2
BY EscapeCallNames DEF BracesAt, Adding

LEMMA BracesClose ==
  ASSUME TypeInv, todo # <<>>, NEW e \in Seq(Chars), BracesAt(e), todo[1].fn = "braces",
         \A i \in DOMAIN e : e[i] # "\\",
         NEW c \in Chars, c = CloseBrace, NEW new, new = Append(e, c),
         Then(<<>>), UNCHANGED digits
  PROVE  InEscape(new)'
<1>1. InBraces(e) /\ Adding(1 + 1) /\ Len(digits) = Len(e) - 2 /\ Len(e) > 2
  <2>1. 1 + 1 = 2
    OBVIOUS
  <2> QED BY <2>1, AtBraces
<1>2. Adding(1)'
  BY <1>1, AddingNearer, TypeFacts
<1>3. /\ Len(new) > 1 /\ new[1] = "u" /\ new[2] = OpenBrace
      /\ Len(e) \in Nat /\ Len(new) = Len(e) + 1 /\ Len(e) > 1
      /\ new[Len(new)] = c /\ \A i \in 1 .. Len(e) : new[i] = e[i]
  BY <1>1, InBracesMore
<1>4. Collected(new, 2)'
  <2>1. \A i \in 1 .. Len(digits) : 2 + i \in 1 .. Len(e)
    BY <1>1, <1>3, TypeFacts
  <2> QED BY <1>1, <1>3, <2>1 DEF Collected, InBraces
<1>5. Len(digits') = Len(new) - 3 /\ Len(new) > 3
  BY <1>1, <1>3, TypeFacts
<1>6. BracesAt(new)'
  BY <1>2, <1>3, <1>4, <1>5 DEF BracesAt, InBraces
<1>7. \A i \in DOMAIN new : new[i] # "\\"
  BY BraceChars, NoBackslash
<1> QED BY <1>6, <1>7 DEF InEscape

LEMMA BracesGoOn ==
  ASSUME TypeInv, todo # <<>>, NEW e \in Seq(Chars), BracesAt(e), todo[1].fn = "braces",
         \A i \in DOMAIN e : e[i] # "\\", Then(<<HexDigit, This>>), UNCHANGED digits
  PROVE  InEscape(e)'
<1>1. /\ InBraces(e) /\ Adding(2) /\ Len(digits) = Len(e) - 2 /\ todo \in Seq(LexerCall)
      /\ This = todo[1] /\ This \in LexerCall
  BY AtBraces, TypeFacts, CallAtHand
<1>2. /\ Len(todo) > 2 /\ todo[2].fn = "add_digits" /\ todo[2 + 1].fn = "from_u32"
      /\ PlainFrom(2 + 2)
  BY <1>1 DEF Adding
<1>3. PICK calls : calls = <<HexDigit, This>>
  OBVIOUS
<1>4. calls \in Seq(LexerCall) /\ Then(calls)
  <2>1. HexDigit \in LexerCall
    BY AreCalls
  <2>2. calls \in Seq(LexerCall)
    <3> HIDE DEF LexerCall, HexDigit
    <3> QED BY <1>1, <1>3, <2>1, Tuples
  <2>3. Then(calls)
    BY <1>3
  <2> QED BY <2>2, <2>3
<1>5. Len(calls) = 2 /\ calls[1] = HexDigit /\ calls[2].fn = "braces"
  BY <1>1, <1>3
<1>6. /\ PlainFrom(Len(calls) + (2 + 2) - 1)' /\ Len(todo) \in Nat /\ Len(todo') \in Nat
      /\ Len(todo') = Len(calls) + Len(todo) - 1
      /\ \A i \in 1 .. Len(calls) : todo'[i] = calls[i]
      /\ \A i \in 1 .. Len(todo) - 1 : todo'[Len(calls) + i] = todo[i + 1]
  <2>1. 2 + 2 \in Nat /\ 2 + 2 >= 2
    OBVIOUS
  <2> QED BY <1>1, <1>2, <1>4, <2>1, PlainThen
<1>7. PlainFrom(3 + 2)'
  <2>1. Len(calls) + (2 + 2) - 1 = 3 + 2
    BY <1>5
  <2> QED BY <1>6, <2>1
<1>8. todo'[1] = HexDigit /\ todo'[2].fn = "braces" /\ Len(todo') > 3
  BY <1>2, <1>5, <1>6
<1>9. todo'[3] = todo[2] /\ todo'[3 + 1] = todo[2 + 1]
  <2>1. /\ 1 \in 1 .. Len(todo) - 1 /\ Len(calls) + 1 = 3 /\ 1 + 1 = 2
        /\ 2 \in 1 .. Len(todo) - 1 /\ Len(calls) + 2 = 3 + 1
    BY <1>2, <1>5, <1>6
  <2> QED BY <1>6, <2>1
<1>10. Adding(3)'
  BY <1>2, <1>7, <1>8, <1>9 DEF Adding
<1>11. BracesAt(e)'
  BY <1>1, <1>8, <1>10 DEF BracesAt, InBraces, Collected
<1> QED BY <1>11 DEF InEscape

LEMMA BracesStep ==
  ASSUME TypeInv, todo # <<>>, NEW b \in 1 .. posn.offset, text[b] = "\\",
         InEscape(EscapeText(b)), BracesAt(EscapeText(b)), todo[1].fn = "braces", Braces
  PROVE  Escaping'
<1>1. PICK e : e = EscapeText(b)
  OBVIOUS
<1>2. e \in Seq(Chars) /\ BracesAt(e) /\ \A i \in DOMAIN e : e[i] # "\\"
  BY <1>1, EscapeTextIs DEF InEscape
<1>3. CASE Next1 = CloseBrace /\ Consume(<<>>) /\ UNCHANGED escapeVars
  <2>1. NextChar /\ Then(<<>>) /\ UNCHANGED digits
    BY <1>3 DEF Consume, escapeVars
  <2>2. PICK c : c = Next1
    OBVIOUS
  <2>3. PICK new : new = Append(e, c)
    OBVIOUS
  <2>4. c \in Chars
    BY <2>1, <2>2, EscapeTextTakes
  <2>5. InEscape(new)'
    BY <1>2, <1>3, <2>1, <2>2, <2>3, <2>4, BracesClose
  <2> QED BY <1>1, <2>1, <2>2, <2>3, <2>5, EscapeTakes
<1>4. CASE Stay(<<HexDigit, This>>) /\ UNCHANGED escapeVars
  <2>1. UNCHANGED readerVars /\ Then(<<HexDigit, This>>) /\ UNCHANGED digits
    BY <1>4 DEF Stay, escapeVars
  <2>2. InEscape(e)'
    BY <1>2, <2>1, BracesGoOn
  <2> QED BY <1>1, <2>1, <2>2, EscapeWaits
<1>5. CASE AssertionFails
  BY <1>5, EscapeFails DEF AssertionFails
<1> QED BY <1>3, <1>4, <1>5, BracesCalls
-----------------------------------------------------------------------------
(***************************************************************************)
(* The code point of an escape with hexadecimal digits.                    *)
(***************************************************************************)
LEMMA CollectedSum ==
  ASSUME TypeInv, NEW cs \in Seq(Chars), Len(cs) = Len(digits), NEW e, NEW k \in Nat,
         Collected(e, k), \A i \in 1 .. Len(digits) : cs[i] = e[k + i]
  PROVE  /\ Summed(digits).sum = Denoted(cs, 16)
         /\ Len(cs) <= 4 => Summed(digits).sum % Modulus = Denoted(cs, 16)
<1>1. PICK ds : ds = digits
  OBVIOUS
<1>2. /\ ds \in Seq(Nat) /\ Len(cs) = Len(ds)
      /\ \A i \in 1 .. Len(ds) : ds[i] = ToDigit(cs[i]) /\ cs[i] \in HexDigits
  BY <1>1, TypeFacts DEF Collected
<1>3. Summed(ds).sum = Denoted(cs, 16)
  BY <1>2, SummedDenoted
<1>4. ASSUME Len(cs) <= 4 PROVE Denoted(cs, 16) % Modulus = Denoted(cs, 16)
  <2>1. PICK n : n = Len(cs)
    OBVIOUS
  <2>2. n \in Nat /\ n <= 4 /\ Len(cs) = n
    BY <1>4, <2>1
  <2>3. \A i \in 1 .. n : ToDigit(cs[i]) \in Nat /\ ToDigit(cs[i]) <= 15
    <3>1. \A i \in 1 .. n : ToDigit(cs[i]) \in 0 .. 15
      BY <1>2, <2>2, DigitValues
    <3>2. \A d \in 0 .. 15 : d \in Nat /\ d <= 15
      OBVIOUS
    <3> QED BY <3>1, <3>2
  <2>4. Denoted(cs, 16) \in 0 .. Modulus - 1
    BY <2>2, <2>3, DenotedFits
  <2>5. Modulus \in Nat /\ Modulus > 0
    <3>1. 16^4 = 65536
      OBVIOUS
    <3> QED BY <3>1, CodePointsAssumption
  <2>6. \A m \in Nat : m > 0 => \A d \in 0 .. m - 1 : d % m = d
    OBVIOUS
  <2> QED BY <2>4, <2>5, <2>6
<1> QED BY <1>1, <1>3, <1>4

LEMMA TailChars ==
  ASSUME NEW e \in Seq(Chars), e # <<>>
  PROVE  /\ Tail(e) \in Seq(Chars) /\ Len(Tail(e)) = Len(e) - 1
         /\ \A i \in 1 .. Len(e) - 1 : Tail(e)[i] = e[1 + i]
OBVIOUS

LEMMA BetweenBraces ==
  ASSUME NEW e \in Seq(Chars), Len(e) > 3
  PROVE  /\ SubSeq(e, 3, Len(e) - 1) \in Seq(Chars)
         /\ Len(SubSeq(e, 3, Len(e) - 1)) = Len(e) - 3
         /\ \A i \in 1 .. Len(e) - 3 : SubSeq(e, 3, Len(e) - 1)[i] = e[2 + i]
OBVIOUS

LEMMA FixedValue ==
  ASSUME TypeInv, NEW e \in Seq(Chars), FixedAt(e), todo[1].fn = "add_digits",
         code' = Summed(digits).sum % Modulus
  PROVE  EscapeValue(e)' /\ Adding(1)
<1>1. PICK n \in 0 .. 4 :
        /\ Adding(n + 1) /\ \A i \in 1 .. n : todo[i] = HexDigit
        /\ e # <<>> /\ Collected(e, 1) /\ Len(digits) = Len(e) - 1
        /\ \/ e[1] = "x" /\ Len(e) + n = 3
           \/ e[1] = "u" /\ Len(e) + n = 5
  BY DEF FixedAt
<1>2. n = 0
  <2> SUFFICES ASSUME n # 0 PROVE FALSE
    OBVIOUS
  <2>1. 1 \in 1 .. n
    OBVIOUS
  <2> QED BY <1>1, <2>1, EscapeCallNames
<1>3. Adding(1)
  <2>1. 0 + 1 = 1
    OBVIOUS
  <2> QED BY <1>1, <1>2, <2>1
<1>4. PICK cs : cs = Tail(e)
  OBVIOUS
<1>5. /\ cs \in Seq(Chars) /\ Len(cs) = Len(digits)
      /\ \A i \in 1 .. Len(digits) : cs[i] = e[1 + i]
  BY <1>1, <1>4, TailChars
<1>6. Len(e) \in Nat /\ Len(cs) <= 4
      /\ ((e[1] = "x" /\ Len(e) = 3) \/ (e[1] = "u" /\ Len(e) = 5))
  BY <1>1, <1>2, <1>5
<1>7. code' = Denoted(cs, 16)
  <2>1. 1 \in Nat
    OBVIOUS
  <2>2. Summed(digits).sum % Modulus = Denoted(cs, 16)
    BY <1>1, <1>5, <1>6, <2>1, CollectedSum
  <2> QED BY <2>2
<1>8. Len(e) >= 3 /\ Len(e) \in Nat
  BY <1>1, <1>2
<1>9. e[1] = "u" => e[2] # OpenBrace
  <2> SUFFICES ASSUME e[1] = "u" PROVE e[2] # OpenBrace
    OBVIOUS
  <2>1. 1 \in 1 .. Len(digits) /\ 1 + 1 = 2
    BY <1>1, <1>8
  <2>2. e[1 + 1] \in HexDigits
    BY <1>1, <2>1 DEF Collected
  <2> QED BY <2>1, <2>2, BraceChars
<1>10. EscapeValue(e)'
  BY <1>4, <1>6, <1>7, <1>9 DEF EscapeValue
<1> QED BY <1>3, <1>10

LEMMA BracesValue ==
  ASSUME TypeInv, NEW e \in Seq(Chars), BracesAt(e), todo[1].fn = "add_digits",
         code' = Summed(digits).sum % Modulus
  PROVE  EscapeValue(e)' /\ Adding(1)
<1>1. /\ InBraces(e) /\ Adding(1) /\ e[Len(e)] = CloseBrace
      /\ Len(digits) = Len(e) - 3 /\ Len(e) > 3
  <2>1. todo[1] # HexDigit /\ todo[1].fn # "braces"
    BY EscapeCallNames
  <2> QED BY <2>1 DEF BracesAt
<1>2. PICK cs : cs = SubSeq(e, 3, Len(e) - 1)
  OBVIOUS
<1>3. /\ cs \in Seq(Chars) /\ Len(cs) = Len(digits)
      /\ \A i \in 1 .. Len(digits) : cs[i] = e[2 + i]
  BY <1>1, <1>2, BetweenBraces
<1>4. Summed(digits).sum = Denoted(cs, 16)
  <2>1. 2 \in Nat /\ Collected(e, 2)
    BY <1>1 DEF InBraces
  <2> QED BY <1>3, <2>1, CollectedSum
<1>5. code' = Denoted(cs, 16) % Modulus
  BY <1>4
<1>6. EscapeValue(e)'
  BY <1>1, <1>2, <1>5 DEF EscapeValue, InBraces
<1> QED BY <1>1, <1>6

LEMMA SumStep ==
  ASSUME TypeInv, todo # <<>>, NEW b \in 1 .. posn.offset, text[b] = "\\",
         InEscape(EscapeText(b)), FixedAt(EscapeText(b)) \/ BracesAt(EscapeText(b)),
         todo[1].fn = "add_digits", AddDigits
  PROVE  Escaping'
<1>1. PICK e : e = EscapeText(b)
  OBVIOUS
<1>2. /\ e \in Seq(Chars) /\ (FixedAt(e) \/ BracesAt(e))
      /\ \A i \in DOMAIN e : e[i] # "\\"
  BY <1>1, EscapeTextIs DEF InEscape
<1>3. CASE code' = Summed(digits).sum % Modulus /\ Stay(<<>>)
  <2>1. UNCHANGED readerVars /\ Then(<<>>)
    BY <1>3 DEF Stay
  <2>2. EscapeValue(e)' /\ Adding(1)
    BY <1>2, <1>3, FixedValue, BracesValue
  <2>3. /\ Len(todo) > 1 /\ todo[2].fn = "from_u32" /\ PlainFrom(3)
    <3>1. 1 + 1 = 2 /\ 1 + 2 = 3
      OBVIOUS
    <3> QED BY <2>2, <3>1 DEF Adding
  <2>4. todo' # <<>> /\ todo'[1].fn = "from_u32" /\ PlainFrom(2)'
    <3>1. /\ Len(todo) \in Nat /\ Len(todo') \in Nat /\ Len(todo') = Len(todo) - 1
          /\ \A i \in 1 .. Len(todo) - 1 : todo'[i] = todo[i + 1]
          /\ \A k \in Nat : k >= 2 /\ PlainFrom(k) => PlainFrom(k - 1)'
      BY <2>1, Nearer, TypeFacts
    <3>2. 3 \in Nat /\ 3 >= 2 /\ 3 - 1 = 2 /\ 1 + 1 = 2 /\ 1 \in 1 .. Len(todo) - 1
      BY <2>3, <3>1
    <3>3. PlainFrom(2)'
      BY <2>3, <3>1, <3>2
    <3>4. todo'[1] = todo[2]
      <4>1. todo'[1] = todo[1 + 1]
        BY <3>1, <3>2
      <4> QED BY <3>2, <4>1
    <3> QED BY <2>3, <3>1, <3>3, <3>4
  <2>5. InEscape(e)'
    BY <1>2, <2>2, <2>4 DEF InEscape, Complete
  <2> QED BY <1>1, <2>1, <2>5, EscapeWaits
<1>4. CASE Fail("Overflow")
  BY <1>4, EscapeFails
<1> QED BY <1>3, <1>4, Zenon DEF AddDigits
-----------------------------------------------------------------------------
(***************************************************************************)
(* An octal escape, digit by digit.                                        *)
(***************************************************************************)
LEMMA OctalMore ==
  ASSUME NEW e \in Seq(Chars), NEW c, NEW new \in Seq(Chars),
         Len(new) = Len(e) + 1, new[Len(e) + 1] = c, \A i \in 1 .. Len(e) : new[i] = e[i],
         \A i \in 1 .. Len(e) : ToDigit(e[i]) \in Nat, ToDigit(c) \in Nat
  PROVE  Denoted(new, 8) = Denoted(e, 8) * 8 + ToDigit(c)
<1>1. 8 \in Nat
  OBVIOUS
<1>2. \A radix \in Nat : Denoted(new, radix) = Denoted(e, radix) * radix + ToDigit(c)
  BY DenotedAppend
<1> QED BY <1>1, <1>2

LEMMA OctalNext ==
  ASSUME TypeInv, NEW e \in Seq(Chars), OctalAt(e), NEW c \in OctDigits, c \in Chars,
         NEW new, new = Append(e, c)
  PROVE  /\ (IF digits = <<>> THEN 0 ELSE code) * 8 + ToDigit(c) = Denoted(new, 8)
         /\ e = <<>> => Denoted(new, 8) <= 255
<1>1. /\ \A i \in 1 .. Len(e) : e[i] \in OctDigits
      /\ Len(digits) = Len(e) /\ (e # <<>> => code = Denoted(e, 8))
  BY DEF OctalAt, AllIn
<1>2. \A d \in OctDigits : ToDigit(d) \in 0 .. 9 /\ ToDigit(d) \in Nat
  BY OctalDigits
<1>3. /\ new \in Seq(Chars) /\ Len(e) \in Nat /\ Len(new) = Len(e) + 1
      /\ new[Len(e) + 1] = c /\ \A i \in 1 .. Len(e) : new[i] = e[i]
  BY AppendIs
<1>4. Denoted(new, 8) = Denoted(e, 8) * 8 + ToDigit(c)
  <2>1. new \in Seq(Chars) /\ 8 \in Nat
    BY <1>3
  <2>2. /\ \A i \in 1 .. Len(e) : ToDigit(e[i]) \in Nat
        /\ ToDigit(c) \in Nat
    BY <1>1, <1>2
  <2> QED BY <1>3, <2>1, <2>2, OctalMore
<1>5. CASE e = <<>>
  <2>1. digits = <<>>
    <3>1. Len(digits) = 0
      BY <1>1, <1>5
    <3> QED BY <3>1, TypeFacts
  <2>2. Denoted(e, 8) = 0
    <3>1. 8 \in Nat
      OBVIOUS
    <3> QED BY <1>5, <3>1, DenotedNone
  <2>3. 0 * 8 + ToDigit(c) <= 255
    BY <1>2
  <2> QED BY <1>4, <2>1, <2>2, <2>3
<1>6. CASE e # <<>>
  <2>1. digits # <<>>
    <3>1. Len(e) > 0
      BY <1>3, <1>6
    <3>2. Len(digits) > 0
      BY <1>1, <3>1
    <3> QED BY <3>2
  <2> QED BY <1>1, <1>4, <1>6, <2>1
<1> QED BY <1>5, <1>6

LEMMA OctalTakes ==
  ASSUME TypeInv, NEW e \in Seq(Chars), OctalAt(e), \A i \in DOMAIN e : e[i] # "\\",
         NEW c \in OctDigits, c \in Chars, NEW new, new = Append(e, c),
         Len(digits) < 3, Then(<<This>>), digits' = Append(digits, ToDigit(c)),
         code' = (IF digits = <<>> THEN 0 ELSE code) * 8 + ToDigit(c), code' <= 255
  PROVE  InEscape(new)'
<1>1. /\ todo # <<>> /\ todo[1].fn = "octal" /\ PlainFrom(2) /\ todo \in Seq(LexerCall)
      /\ Len(digits) = Len(e) /\ \A i \in 1 .. Len(e) : e[i] \in OctDigits
  <2>1. AllIn(e, OctDigits) /\ DOMAIN e = 1 .. Len(e)
    BY DEF OctalAt
  <2> QED BY <2>1, TypeFacts DEF OctalAt, AllIn
<1>2. PICK calls : calls = <<This>>
  OBVIOUS
<1>3. calls \in Seq(LexerCall) /\ Then(calls)
  <2>1. This \in LexerCall
    BY <1>1, CallAtHand DEF TypeInv
  <2>2. calls \in Seq(LexerCall)
    <3> HIDE DEF LexerCall
    <3> QED BY <1>2, <2>1, Tuples
  <2>3. Then(calls)
    BY <1>2
  <2> QED BY <2>2, <2>3
<1>4. Len(calls) = 1 /\ calls[1] = This
  BY <1>2
<1>5. /\ PlainFrom(Len(calls) + 2 - 1)' /\ Len(todo) \in Nat /\ Len(todo') \in Nat
      /\ Len(todo') = Len(calls) + Len(todo) - 1 /\ Len(todo) >= 1
      /\ \A i \in 1 .. Len(calls) : todo'[i] = calls[i]
      /\ This = todo[1]
  BY <1>1, <1>3, PlainThen
<1>6. Len(calls) + 2 - 1 = 2 /\ 1 \in 1 .. Len(calls)
  BY <1>4
<1>7. PlainFrom(2)' /\ todo' # <<>> /\ todo'[1].fn = "octal"
  BY <1>1, <1>4, <1>5, <1>6
<1>8. /\ new \in Seq(Chars) /\ Len(e) \in Nat /\ Len(new) = Len(e) + 1 /\ new # <<>>
      /\ new[Len(e) + 1] = c /\ \A i \in 1 .. Len(e) : new[i] = e[i]
  BY AppendIs
<1>9. Len(digits') = Len(new) /\ Len(new) <= 3
  <2>1. digits \in Seq(0 .. 15) /\ ToDigit(c) \in 0 .. 15
    BY TypeFacts, DigitValues
  <2>2. Len(digits') = Len(digits) + 1
    BY <2>1
  <2> QED BY <1>1, <1>8, <2>2
<1>10. AllIn(new, OctDigits)
  <2>1. \A i \in DOMAIN new : i \in 1 .. Len(e) \/ i = Len(e) + 1
    BY <1>8
  <2> QED BY <1>1, <1>8, <2>1 DEF AllIn
<1>11. code' = Denoted(new, 8)
  BY OctalNext
<1>12. OctalAt(new)'
  BY <1>7, <1>8, <1>9, <1>10, <1>11 DEF OctalAt
<1>13. \A i \in DOMAIN new : new[i] # "\\"
  <2>1. c # "\\"
    BY OctalDigits
  <2> QED BY <2>1, NoBackslash
<1> QED BY <1>12, <1>13 DEF InEscape

LEMMA OctalEnds ==
  ASSUME TypeInv, NEW e \in Seq(Chars), OctalAt(e), \A i \in DOMAIN e : e[i] # "\\",
         ~(Next1 \in OctDigits /\ Len(digits) < 3 /\ NewCode <= 255),
         Stay(<<FromU32(FALSE)>>), UNCHANGED escapeVars
  PROVE  InEscape(e)'
<1>1. /\ todo # <<>> /\ PlainFrom(2) /\ todo \in Seq(LexerCall) /\ Len(e) \in Nat
      /\ Len(digits) = Len(e) /\ Len(e) <= 3 /\ AllIn(e, OctDigits) /\ ahead \in Seq(Chars)
  BY TypeFacts DEF OctalAt
<1>0. ASSUME NEW c \in OctDigits, c \in Chars
      PROVE  e = <<>> => (IF digits = <<>> THEN 0 ELSE code) * 8 + ToDigit(c) <= 255
  <2>1. PICK new : new = Append(e, c)
    OBVIOUS
  <2>2. /\ (IF digits = <<>> THEN 0 ELSE code) * 8 + ToDigit(c) = Denoted(new, 8)
        /\ e = <<>> => Denoted(new, 8) <= 255
    BY <1>0, <2>1, OctalNext
  <2> QED BY <2>2
<1>2. e # <<>>
  <2> SUFFICES ASSUME e = <<>> PROVE FALSE
    OBVIOUS
  <2>1. ahead # <<>> /\ Next1 \in OctDigits
    BY DEF OctalAt
  <2>2. PICK c : c = Next1
    OBVIOUS
  <2>3. c \in Chars /\ c \in OctDigits
    <3>1. 0 < Len(ahead) /\ ahead[0 + 1] \in Chars
      BY <1>1, <2>1
    <3> QED BY <2>1, <2>2, <3>1 DEF Next1, PeekAt
  <2>4. (IF digits = <<>> THEN 0 ELSE code) * 8 + ToDigit(c) <= 255
    BY <1>0, <2>3
  <2>5. NewCode <= 255
    BY <2>2, <2>4 DEF NewCode
  <2>6. Len(digits) < 3
    BY <1>1
  <2> QED BY <2>1, <2>5, <2>6
<1>3. code = Denoted(e, 8) /\ code <= 255
  BY <1>2 DEF OctalAt
<1>4. UNCHANGED <<ahead, digits, code>> /\ Then(<<FromU32(FALSE)>>)
  BY DEF Stay, readerVars, escapeVars
<1>5. Len(e) \in 1 .. 3
  BY <1>1, <1>2
<1>6. Len(e) = 3 \/ Next1 \notin OctDigits \/ NewCode > 255
  <2> SUFFICES ASSUME Next1 \in OctDigits, ~(Len(e) = 3) PROVE NewCode > 255
    OBVIOUS
  <2>1. Len(digits) < 3
    BY <1>1
  <2>2. ~(NewCode <= 255)
    BY <2>1
  <2>3. NewCode \in Nat
    <3>1. code \in Nat /\ ToDigit(Next1) \in Nat
      <4>1. code \in Nat
        BY CodePointsAssumption DEF TypeInv, EscapeTypes
      <4>2. ToDigit(Next1) \in 0 .. 9
        BY OctalDigits
      <4> QED BY <4>1, <4>2
    <3>2. PICK before : before = IF digits = <<>> THEN 0 ELSE code
      OBVIOUS
    <3>3. before \in Nat
      BY <3>1, <3>2
    <3>4. NewCode = before * 8 + ToDigit(Next1)
      BY <3>2 DEF NewCode
    <3>5. \A a \in Nat, d \in Nat : a * 8 + d \in Nat
      OBVIOUS
    <3> QED BY <3>1, <3>3, <3>4, <3>5
  <2> QED BY <2>2, <2>3
<1>7. Next1' = Next1 /\ NewCode' = NewCode
  BY <1>4 DEF NewCode, Next1, PeekAt
<1>8. EscapeValue(e)'
  BY <1>1, <1>3, <1>4, <1>5, <1>6, <1>7 DEF EscapeValue
<1>9. PICK calls : calls = <<FromU32(FALSE)>>
  OBVIOUS
<1>10. calls \in Seq(LexerCall) /\ Then(calls)
  <2>1. FromU32(FALSE) \in LexerCall
    BY AreCalls
  <2>2. calls \in Seq(LexerCall)
    <3> HIDE DEF LexerCall, FromU32
    <3> QED BY <1>9, <2>1, Tuples
  <2>3. Then(calls)
    BY <1>4, <1>9
  <2> QED BY <2>2, <2>3
<1>11. Len(calls) = 1 /\ calls[1].fn = "from_u32"
  BY <1>9, EscapeCallNames
<1>12. /\ PlainFrom(Len(calls) + 2 - 1)' /\ Len(todo) \in Nat /\ Len(todo') \in Nat
       /\ Len(todo') = Len(calls) + Len(todo) - 1 /\ Len(todo) >= 1
       /\ \A i \in 1 .. Len(calls) : todo'[i] = calls[i]
  BY <1>1, <1>10, PlainThen
<1>13. Len(calls) + 2 - 1 = 2 /\ 1 \in 1 .. Len(calls)
  BY <1>11
<1>14. PlainFrom(2)' /\ todo' # <<>> /\ todo'[1].fn = "from_u32"
  BY <1>11, <1>12, <1>13
<1> QED BY <1>8, <1>14 DEF InEscape, Complete

LEMMA OctalStep ==
  ASSUME TypeInv, NEW b \in 1 .. posn.offset, text[b] = "\\",
         InEscape(EscapeText(b)), OctalAt(EscapeText(b)), OctalEscape
  PROVE  Escaping'
<1>1. PICK e : e = EscapeText(b)
  OBVIOUS
<1>2. e \in Seq(Chars) /\ OctalAt(e) /\ \A i \in DOMAIN e : e[i] # "\\"
  BY <1>1, EscapeTextIs DEF InEscape
<1>3. CASE Next1 \in OctDigits /\ Len(digits) < 3 /\ NewCode <= 255
  <2>1. /\ NextChar /\ Then(<<This>>) /\ digits' = Append(digits, ToDigit(Next1))
        /\ code' = NewCode
    BY <1>3, Zenon DEF OctalEscape, Consume
  <2>2. PICK c : c = Next1
    OBVIOUS
  <2>3. PICK new : new = Append(e, c)
    OBVIOUS
  <2>4. c \in Chars /\ c \in OctDigits
    BY <1>3, <2>1, <2>2, EscapeTextTakes
  <2>5. code' = (IF digits = <<>> THEN 0 ELSE code) * 8 + ToDigit(c) /\ code' <= 255
    BY <1>3, <2>1, <2>2 DEF NewCode
  <2>6. Len(digits) < 3 /\ digits' = Append(digits, ToDigit(c))
    BY <1>3, <2>1, <2>2
  <2>7. InEscape(new)'
    BY <1>2, <2>1, <2>3, <2>4, <2>5, <2>6, OctalTakes
  <2> QED BY <1>1, <2>1, <2>2, <2>3, <2>7, EscapeTakes
<1>4. CASE ~(Next1 \in OctDigits /\ Len(digits) < 3 /\ NewCode <= 255)
  <2>1. Stay(<<FromU32(FALSE)>>) /\ UNCHANGED escapeVars
    BY <1>4, Zenon DEF OctalEscape
  <2>2. InEscape(e)'
    BY <1>2, <1>4, <2>1, OctalEnds
  <2> QED BY <1>1, <2>1, <2>2, EscapeWaits DEF Stay
<1> QED BY <1>3, <1>4
-----------------------------------------------------------------------------
(***************************************************************************)
(* Every step keeps the invariant.                                         *)
(***************************************************************************)
LEMMA CompleteStep ==
  ASSUME TypeInv, NEW e, Complete(e), CharFromU32
  PROVE  Escaping'
<1>1. todo # <<>> /\ PlainFrom(2) /\ todo \in Seq(LexerCall)
  BY TypeFacts DEF Complete
<1>2. CASE Stay(<<>>)
  <2>1. <<>> \in Seq(EscapeOuter) /\ Then(<<>>)
    BY <1>2 DEF Stay
  <2>2. PlainFrom(1)'
    BY <1>1, <2>1, PlainAgain
  <2> QED BY <2>2 DEF Escaping
<1>3. CASE Fail("IllegalUnicode")
  BY <1>3, EscapeFails
<1> QED BY <1>2, <1>3, Zenon DEF CharFromU32

\* The call at hand when digits are missing, or all read.
LEMMA HexCalls ==
  ASSUME NEW e, FixedAt(e) \/ BracesAt(e)
  PROVE  todo[1] = HexDigit \/ todo[1].fn \in {"braces", "add_digits"}
<1>1. CASE FixedAt(e)
  <2>1. PICK n \in 0 .. 4 : Adding(n + 1) /\ \A i \in 1 .. n : todo[i] = HexDigit
    BY <1>1 DEF FixedAt
  <2>2. CASE n = 0
    <3>1. 0 + 1 = 1
      OBVIOUS
    <3> QED BY <2>1, <2>2, <3>1 DEF Adding
  <2>3. CASE n # 0
    <3>1. 1 \in 1 .. n
      BY <2>3
    <3> QED BY <2>1, <3>1
  <2> QED BY <2>2, <2>3
<1>2. CASE BracesAt(e)
  BY <1>2 DEF BracesAt, Adding
<1> QED BY <1>1, <1>2

LEMMA InEscapeStep ==
  ASSUME TypeInv, NEW b \in 1 .. posn.offset, text[b] = "\\", InEscape(EscapeText(b)),
         LexerStep, ~PeekMore
  PROVE  Escaping'
<1>1. todo # <<>> /\ This = todo[1]
  BY LexerStepRuns, CallAtHand DEF TypeInv
<1>2. PICK e : e = EscapeText(b)
  OBVIOUS
<1>3. \/ Opened(e) \/ OctalAt(e) \/ UnicodeAt(e) \/ FixedAt(e) \/ BracesAt(e) \/ Complete(e)
  BY <1>2 DEF InEscape
<1>4. CASE Opened(e)
  <2>1. StringEscape \/ WordEscape
    BY <1>1, <1>4, StepOf DEF Opened
  <2> QED BY <1>2, <1>4, <2>1, OpenedStep
<1>5. CASE OctalAt(e)
  <2>1. OctalEscape
    BY <1>1, <1>5, StepOf DEF OctalAt
  <2> QED BY <1>2, <1>5, <2>1, OctalStep
<1>6. CASE UnicodeAt(e)
  <2>1. UnicodeEscape
    BY <1>1, <1>6, StepOf DEF UnicodeAt
  <2> QED BY <1>2, <1>6, <2>1, UnicodeStep
<1>7. CASE FixedAt(e) \/ BracesAt(e)
  <2>1. CASE todo[1] = HexDigit
    <3>1. ReadDigitInto
      BY <1>1, <2>1, StepOf, EscapeCallNames
    <3> QED BY <1>1, <1>2, <1>7, <2>1, <3>1, DigitStep
  <2>2. CASE todo[1].fn = "add_digits"
    <3>1. AddDigits
      BY <1>1, <2>2, StepOf
    <3> QED BY <1>1, <1>2, <1>7, <2>2, <3>1, SumStep
  <2>3. CASE todo[1].fn = "braces"
    <3>1. Braces
      BY <1>1, <2>3, StepOf
    <3>2. BracesAt(e)
      <4> SUFFICES ASSUME FixedAt(e) PROVE FALSE
        BY <1>7
      <4>1. PICK n \in 0 .. 4 : Adding(n + 1) /\ \A i \in 1 .. n : todo[i] = HexDigit
        BY DEF FixedAt
      <4>2. CASE n = 0
        <5>1. 0 + 1 = 1
          OBVIOUS
        <5> QED BY <2>3, <4>1, <4>2, <5>1 DEF Adding
      <4>3. CASE n # 0
        <5>1. 1 \in 1 .. n
          BY <4>3
        <5> QED BY <2>3, <4>1, <5>1, EscapeCallNames
      <4> QED BY <4>2, <4>3
    <3> QED BY <1>1, <1>2, <2>3, <3>1, <3>2, BracesStep
  <2> QED BY <1>7, <2>1, <2>2, <2>3, HexCalls
<1>8. CASE Complete(e)
  <2>1. CharFromU32
    BY <1>1, <1>8, StepOf DEF Complete
  <2> QED BY <1>8, <2>1, CompleteStep
<1> QED BY <1>3, <1>4, <1>5, <1>6, <1>7, <1>8

\* Outside of an escape.
LEMMA PlainStep ==
  ASSUME TypeInv, PlainFrom(1), LexerStep, ~PeekMore
  PROVE  Escaping'
<1>1. todo # <<>> /\ This = todo[1] /\ This.fn \notin EscapeFns
  <2>1. todo # <<>> /\ This = todo[1] /\ todo \in Seq(LexerCall)
    BY LexerStepRuns, CallAtHand, TypeFacts DEF TypeInv
  <2>2. 1 \in 1 .. Len(todo)
    BY <2>1
  <2> QED BY <2>1, <2>2 DEF PlainFrom
<1>2. ~(WordEscape \/ StringEscape \/ OctalEscape \/ UnicodeEscape \/ Braces \/ AddDigits
        \/ CharFromU32)
  BY <1>1, ActingCalls, ActingLiterals DEF EscapeFns
<1>3. Quiet \/ Opens("escape") \/ Opens("word_escape")
  BY <1>1, <1>2, QuietSkips, QuietToken, QuietTokens, QuietOrOpens DEF LexerStep
<1>4. CASE Quiet
  BY <1>1, <1>4, QuietKeeps DEF Escaping
<1>5. CASE Opens("escape") \/ Opens("word_escape")
  BY <1>1, <1>5, OpensKeeps
<1> QED BY <1>3, <1>4, <1>5

\* Drawing a character, which the end of an escape does not wait for.
LEMMA EscapePeek ==
  ASSUME TypeInv, Escaping, PeekMore
  PROVE  Escaping'
<1>1. /\ Running /\ todo # <<>> /\ ~Ahead(Peeked) /\ UNCHANGED <<todo, digits, code>>
      /\ ahead \in Seq(Chars)
  BY TypeFacts DEF PeekMore, escapeVars
<1>2. CASE PlainFrom(1)
  BY <1>1, <1>2 DEF Escaping, PlainFrom
<1>3. CASE \E b \in 1 .. posn.offset : text[b] = "\\" /\ InEscape(EscapeText(b))
  <2>1. PICK b \in 1 .. posn.offset : text[b] = "\\" /\ InEscape(EscapeText(b))
    BY <1>3
  <2>2. PICK e : e = EscapeText(b)
    OBVIOUS
  <2>3. InEscape(e)
    BY <2>1, <2>2
  <2>4. OctalAt(e) => OctalAt(e)'
    <3> SUFFICES ASSUME OctalAt(e) PROVE OctalAt(e)'
      OBVIOUS
    <3>1. This.fn = "octal"
      BY <1>1 DEF OctalAt, This
    <3>2. Peeked = 1
      BY <3>1 DEF Peeked, Silent
    <3>3. ahead = <<>>
      BY <1>1, <3>2 DEF Ahead
    <3>4. e # <<>>
      BY <3>3 DEF OctalAt
    <3> QED BY <1>1, <3>4 DEF OctalAt, PlainFrom
  <2>5. ~Complete(e)
    <3> SUFFICES ASSUME Complete(e) PROVE FALSE
      OBVIOUS
    <3>1. This.fn = "from_u32"
      BY <1>1 DEF Complete, This
    <3>2. Peeked = 0
      BY <3>1 DEF Peeked, Silent
    <3> QED BY <1>1, <3>2 DEF Ahead
  <2>6. /\ Opened(e) => Opened(e)'
        /\ UnicodeAt(e) => UnicodeAt(e)'
        /\ FixedAt(e) => FixedAt(e)'
        /\ BracesAt(e) => BracesAt(e)'
    BY <1>1 DEF Opened, UnicodeAt, FixedAt, BracesAt, InBraces, Adding, Collected, PlainFrom
  <2>7. InEscape(e)'
    BY <2>3, <2>4, <2>5, <2>6 DEF InEscape
  <2> QED BY <2>1, <2>2, <2>7, EscapeWaits
<1> QED BY <1>1, <1>2, <1>3 DEF Escaping

LEMMA EscapeInvStep == EscapeInv /\ [LexerNext]_lexerVars => EscapeInv'
<1> SUFFICES ASSUME EscapeInv, [LexerNext]_lexerVars PROVE Escaping'
  BY TypeInvStep DEF EscapeInv
<1>1. TypeInv /\ Escaping
  BY DEF EscapeInv
<1>2. CASE UNCHANGED lexerVars
  <2>1. /\ UNCHANGED readerVars /\ UNCHANGED <<todo, digits, code, result>>
        /\ UNCHANGED ahead
    BY <1>2 DEF lexerVars, readerVars, tokenVars, escapeVars
  <2>2. CASE ~Running \/ PlainFrom(1)
    BY <2>1, <2>2 DEF Escaping, Running, PlainFrom
  <2>3. CASE \E b \in 1 .. posn.offset : text[b] = "\\" /\ InEscape(EscapeText(b))
    <3>1. PICK b \in 1 .. posn.offset : text[b] = "\\" /\ InEscape(EscapeText(b))
      BY <2>3
    <3>2. PICK e : e = EscapeText(b)
      OBVIOUS
    <3>3. /\ Opened(e) => Opened(e)'
          /\ OctalAt(e) => OctalAt(e)'
          /\ UnicodeAt(e) => UnicodeAt(e)'
      BY <2>1 DEF Opened, OctalAt, UnicodeAt, PlainFrom, Next1, PeekAt
    <3>4. FixedAt(e) => FixedAt(e)'
      BY <2>1 DEF FixedAt, Adding, Collected, PlainFrom
    <3>5. BracesAt(e) => BracesAt(e)'
      BY <2>1 DEF BracesAt, InBraces, Adding, Collected, PlainFrom
    <3>6. EscapeValue(e) => EscapeValue(e)'
      <4>1. Next1' = Next1 /\ NewCode' = NewCode
        BY <2>1 DEF Next1, PeekAt, NewCode
      <4> QED BY <2>1, <4>1 DEF EscapeValue
    <3>7. Complete(e) => Complete(e)'
      BY <2>1, <3>6 DEF Complete, PlainFrom
    <3>8. InEscape(e)'
      BY <3>1, <3>2, <3>3, <3>4, <3>5, <3>7 DEF InEscape
    <3> QED BY <1>1, <2>1, <3>1, <3>2, <3>8, EscapeWaits
  <2> QED BY <1>1, <2>2, <2>3 DEF Escaping
<1>3. CASE Request
  <2>1. PICK calls : calls = <<Call("blank"), Call("token")>>
    OBVIOUS
  <2>2. todo' = calls
    BY <1>3, <2>1 DEF Request
  <2>3. /\ Len(calls) = 2 /\ calls[1].fn \notin EscapeFns /\ calls[2].fn \notin EscapeFns
    BY <2>1 DEF Call, EscapeFns
  <2>4. \A i \in 1 .. 2 : i = 1 \/ i = 2
    OBVIOUS
  <2>5. PlainFrom(1)'
    BY <2>2, <2>3, <2>4 DEF PlainFrom
  <2> QED BY <2>5 DEF Escaping
<1>4. CASE PeekMore
  BY <1>1, <1>4, EscapePeek
<1>5. CASE LexerStep /\ ~PeekMore
  <2>1. Running
    BY <1>5, LexerStepRuns
  <2> QED BY <1>1, <1>5, <2>1, PlainStep, InEscapeStep DEF Escaping
<1> QED BY <1>2, <1>3, <1>4, <1>5 DEF LexerNext, Finished

LEMMA EscapeInvInit == LexerInit => EscapeInv
<1> SUFFICES ASSUME LexerInit PROVE EscapeInv
  OBVIOUS
<1>1. PlainFrom(1)
  <2>1. todo = <<>> /\ 1 .. Len(<<>>) = {}
    BY DEF LexerInit
  <2> QED BY <2>1 DEF PlainFrom
<1> QED BY <1>1, TypeInvInit DEF EscapeInv, Escaping

(***************************************************************************)
(* While an escape is read, in a string or a word, the calls pending tell  *)
(* its form and the digits collected are those of the characters since its *)
(* backslash, in their order; outside of one no call of it is pending.     *)
(***************************************************************************)
THEOREM EscapingCorrect == LexerSpec => []EscapeInv
BY EscapeInvInit, EscapeInvStep, PTL DEF LexerSpec

\* The backslash of an escape is the last one read.
LEMMA EscapeReadIs ==
  ASSUME TypeInv, NEW b \in 1 .. posn.offset, text[b] = "\\", InEscape(EscapeText(b))
  PROVE  EscapeRead = EscapeText(b)
<1>1. PICK e : e = EscapeText(b)
  OBVIOUS
<1>2. /\ text \in Seq(Chars) /\ posn.offset \in Nat /\ b \in Nat /\ b <= posn.offset /\ b >= 1
      /\ posn.offset <= Len(text)
  BY TypeFacts
<1>3. \A i \in b + 1 .. posn.offset : text[i] # "\\"
  <2> SUFFICES ASSUME NEW i \in b + 1 .. posn.offset PROVE text[i] # "\\"
    OBVIOUS
  <2>1. i - b \in DOMAIN e
    <3>1. e \in Seq(Chars) /\ Len(e) = posn.offset - b
      BY <1>1, EscapeTextIs
    <3>2. i - b \in 1 .. posn.offset - b
      BY <1>2
    <3> QED BY <3>1, <3>2
  <2>2. e[i - b] = text[i]
    <3>1. \A n \in Nat, a \in Nat : a <= n /\ n <= Len(text) =>
            \A j \in 1 .. n - a : SubSeq(text, a + 1, n)[j] = text[a + j]
      BY <1>2
    <3>2. i - b \in 1 .. posn.offset - b /\ b + (i - b) = i
      BY <1>2
    <3>3. SubSeq(text, b + 1, posn.offset)[i - b] = text[b + (i - b)]
      BY <1>2, <3>1, <3>2
    <3> QED BY <1>1, <3>2, <3>3 DEF EscapeText
  <2> QED BY <1>1, <2>1, <2>2 DEF InEscape
<1>4. PICK l : l = CHOOSE i \in 1 .. posn.offset :
                     text[i] = "\\" /\ \A j \in i + 1 .. posn.offset : text[j] # "\\"
  OBVIOUS
<1>5. l \in 1 .. posn.offset /\ text[l] = "\\" /\ \A j \in l + 1 .. posn.offset : text[j] # "\\"
  BY <1>3, <1>4
<1>6. l = b
  <2>1. ~(l < b)
    <3> SUFFICES ASSUME l < b PROVE FALSE
      OBVIOUS
    <3>1. b \in l + 1 .. posn.offset
      BY <1>2, <1>5
    <3> QED BY <1>5, <3>1
  <2>2. ~(l > b)
    <3> SUFFICES ASSUME l > b PROVE FALSE
      OBVIOUS
    <3>1. l \in b + 1 .. posn.offset
      BY <1>2, <1>5
    <3> QED BY <1>3, <1>5, <3>1
  <2> QED BY <1>2, <1>5, <2>1, <2>2
<1>7. EscapeRead = SubSeq(text, 1 + l, posn.offset)
  BY <1>4, Zenon DEF EscapeRead
<1> QED BY <1>2, <1>6, <1>7 DEF EscapeText

LEMMA EscapeInvRight == EscapeInv => EscapesRight
<1> SUFFICES ASSUME EscapeInv, Running, todo # <<>>, Head(todo).fn = "from_u32"
             PROVE  EscapeValue(EscapeRead)
  BY Zenon DEF EscapesRight, EscapeValue, OpenBrace, CloseBrace
<1>1. TypeInv /\ Escaping /\ todo[1].fn = "from_u32" /\ todo \in Seq(LexerCall)
  BY TypeFacts DEF EscapeInv
<1>2. ~PlainFrom(1)
  <2>1. 1 \in 1 .. Len(todo) /\ "from_u32" \in EscapeFns
    BY <1>1 DEF EscapeFns
  <2> QED BY <1>1, <2>1 DEF PlainFrom
<1>3. PICK b \in 1 .. posn.offset : text[b] = "\\" /\ InEscape(EscapeText(b))
  BY <1>1, <1>2 DEF Escaping
<1>4. PICK e : e = EscapeText(b)
  OBVIOUS
<1>5. ~FixedAt(e) /\ ~BracesAt(e)
  BY <1>1, HexCalls, EscapeCallNames
<1>6. Complete(e)
  BY <1>1, <1>3, <1>4, <1>5 DEF InEscape, Opened, OctalAt, UnicodeAt
<1>7. EscapeRead = e
  BY <1>1, <1>3, <1>4, EscapeReadIs
<1> QED BY <1>6, <1>7 DEF Complete

(***************************************************************************)
(* The code point of an escape is the number that its digits denote, for   *)
(* each form of escape and on every text; an octal one takes as many       *)
(* digits, of three, as stay within a byte.                                *)
(***************************************************************************)
THEOREM EscapesCorrect == LexerSpec => []EscapesRight
BY EscapingCorrect, EscapeInvRight, PTL
=============================================================================
