----------------------------- MODULE LexemeProofs ----------------------------
(***************************************************************************)
(* What a token that read_next_token returns says of the text that it was  *)
(* read from: a punctuator is the longest one there, a number is one of    *)
(* the grammar, a string and a regular expression end where they are       *)
(* closed.                                                                 *)
(*                                                                         *)
(* These properties speak of whole tokens, the steps of single characters. *)
(* So the invariant, LexemeInv, says for each call that may be pending     *)
(* within a token what is known of the characters read so far (TokenText): *)
(*   - of a punctuator, what the characters peeked at have decided;        *)
(*   - of a number, which parts of it are complete, and that no legacy     *)
(*     octal has been left behind for a fraction or an exponent;           *)
(*   - of a string or a regular expression, that nothing before has closed *)
(*     it, and whether the next character is escaped, or in a class: the   *)
(*     calls pending are a machine that counts backslashes, the definition *)
(*     of Escaped looks back over them.                                    *)
(* And it says of the token read last what it was returned with.           *)
(***************************************************************************)
EXTENDS LexerProofs

-----------------------------------------------------------------------------
(***************************************************************************)
(* The text of the token that is being read, and what the calls pending    *)
(* will still read of it.                                                  *)
(***************************************************************************)
SoFar == SubSeq(text, start.offset + 1, posn.offset)

\* The calls that are left of a token of the kind.
Rest(kind, calls) == todo = calls \o <<End(kind)>>

-----------------------------------------------------------------------------
\* Punctuator q is not what follows offset b: the text differs from it, or ends first.
Rejected(q, b) ==
  \/ \E i \in 1 .. Len(q) : b + i <= Len(text) /\ text[b + i] # q[i]
  \/ ended /\ Len(text) < b + Len(q)

\* p is the longest punctuator that follows offset b, and not the dot of a number.
Longest(p, b) ==
  /\ p \in Punctuators
  /\ \A q \in Punctuators : Len(q) > Len(p) => Rejected(q, b)
  /\ p = <<".">> =>
       \/ b + 2 <= Len(text) /\ text[b + 2] \notin DecDigits
       \/ ended /\ Len(text) < b + 2

\* The text read, with the n characters that follow.
Upcoming(n) == SubSeq(text, start.offset + 1, posn.offset + n)

\* n characters of a punctuator are known and not read.
PunctuatorAhead(n) ==
  /\ n <= Len(ahead)
  /\ \/ Rest("punctuator", <<Skip(n)>>) /\ Longest(Upcoming(n), start.offset)
     \/ Rest("punctuator", <<Skip(n), Call("shift")>>) /\ Upcoming(n) = <<">", ">">>
     \/ /\ Rest("punctuator", <<Skip(n), Call("matches_equals")>>)
        /\ Upcoming(n) \in PairsBeforeEquals

\* They are read.
PunctuatorRead ==
  \/ Rest("punctuator", <<Call("shift")>>) /\ SoFar = <<">", ">">>
  \/ Rest("punctuator", <<Call("matches_equals")>>) /\ SoFar \in PairsBeforeEquals
  \/ Rest("punctuator", <<>>) /\ Longest(SoFar, start.offset)

PunctuatorText == PunctuatorRead \/ \E n \in 1 .. 3 : PunctuatorAhead(n)

-----------------------------------------------------------------------------
DigitsIn(s, i, j) == \A k \in i .. j : s[k] \in DecDigits

\* The integer of s ends at i, its fraction at j.
Mantissa(s, i, j) ==
  /\ i \in 0 .. j
  /\ DigitsIn(s, 1, i)
  /\ i < j => s[i + 1] = "." /\ DigitsIn(s, i + 2, j)
  /\ i > 0 \/ j > 1

\* The exponent of s begins after j, its digits after m.
ExponentFrom(s, j, m) ==
  /\ j + 1 \in 1 .. m /\ s[j + 1] \in {"e", "E"}
  /\ m = j + 1 \/ (m = j + 2 /\ s[m] \in {"+", "-"})

LegacyUpTo(s, i) == i > 1 /\ s[1] = "0" /\ \A k \in 2 .. i : s[k] \in OctDigits

\* A digit follows wherever what is read is a legacy octal.
DigitsFollow(s) ==
  \A i \in 1 .. Len(s) - 1 : LegacyUpTo(s, i) => s[i + 1] \in DecDigits

\* s is no legacy octal, and none once more is read.
NoLegacy(s) == DigitsFollow(s) /\ ~LegacyUpTo(s, Len(s))

RadixKinds ==
  {[marks |-> {"x", "X"}, digits |-> HexDigits, missing |-> "MissingHexDigits"],
   [marks |-> {"o", "O"}, digits |-> OctDigits, missing |-> "MissingOctalDigits"],
   [marks |-> {"b", "B"}, digits |-> BinDigits, missing |-> "MissingBinaryDigits"]}

RadixDigit(r) == ReadDigit(r.digits, r.missing)

\* What is read of an integer with a radix.
RadixText(s, r) ==
  /\ s[1] = "0" /\ s[2] \in r.marks
  /\ \A k \in 3 .. Len(s) : s[k] \in r.digits

RadixRead(s, r) ==
  \/ /\ Rest("number", <<Skip(2), RadixDigit(r), ReadWhile(r.digits), Call("number_end")>>)
     /\ s = <<>> /\ Len(ahead) > 1 /\ ahead[1] = "0" /\ ahead[2] \in r.marks
  \/ /\ Rest("number", <<Skip(1), RadixDigit(r), ReadWhile(r.digits), Call("number_end")>>)
     /\ s = <<"0">> /\ Len(ahead) > 0 /\ ahead[1] \in r.marks
  \/ /\ Rest("number", <<RadixDigit(r), ReadWhile(r.digits), Call("number_end")>>)
     /\ Len(s) >= 2 /\ RadixText(s, r)
  \/ /\ Rest("number", <<ReadWhile(r.digits), Call("number_end")>>)
     /\ Len(s) > 2 /\ RadixText(s, r)

Decimals(s) ==
  \/ Rest("number", <<Call("number"), Call("number_end")>>) /\ s = <<>> /\ StartsNumber
  \/ /\ Rest("number", <<ReadWhile(DecDigits), Call("decimal"), Call("number_end")>>)
     /\ DigitsIn(s, 1, Len(s)) /\ (s = <<>> => Next1 \in DecDigits)
  \/ /\ Rest("number", <<Call("decimal"), Call("number_end")>>)
     /\ DigitsIn(s, 1, Len(s)) /\ s # <<>>
  \/ /\ Rest("number", <<Call("fraction"), Call("exp"), Call("number_end")>>)
     /\ DigitsIn(s, 1, Len(s)) /\ s # <<>> /\ NoLegacy(s)
  \/ /\ Rest("number", <<ReadWhile(DecDigits), Call("exp"), Call("number_end")>>)
     /\ NoLegacy(s)
     /\ \/ s = <<".">> /\ Next1 \in DecDigits
        \/ \E i \in 0 .. Len(s) - 1 : Mantissa(s, i, Len(s))
  \/ /\ Rest("number", <<Call("exp"), Call("number_end")>>)
     /\ NoLegacy(s) /\ \E i \in 0 .. Len(s) : Mantissa(s, i, Len(s))

Exponents(s) ==
  /\ NoLegacy(s)
  /\ \E j \in 1 .. Len(s), m \in 1 .. Len(s) :
       /\ \E i \in 0 .. j : Mantissa(s, i, j)
       /\ ExponentFrom(s, j, m)
       /\ \/ /\ Rest("number", <<Call("sign"), Call("exp_digits"), Call("number_end")>>)
             /\ m = Len(s) /\ m = j + 1
          \/ /\ Rest("number", <<Call("exp_digits"), Call("number_end")>>)
             /\ m = Len(s)
          \/ /\ Rest("number", <<ReadWhile(DecDigits), Call("number_end")>>)
             /\ DigitsIn(s, m + 1, Len(s)) /\ (m = Len(s) => Next1 \in DecDigits)

\* Neither a digit nor the start of a name follows offset n.
NoneFollows(n) ==
  IF n < Len(text) THEN text[n + 1] \notin IdStart \cup DecDigits ELSE ended

NumberText ==
  \/ \E r \in RadixKinds : RadixRead(SoFar, r)
  \/ Decimals(SoFar)
  \/ Exponents(SoFar)
  \/ Rest("number", <<Call("number_end")>>) /\ IsNumber(SoFar) /\ DigitsFollow(SoFar)
  \/ /\ Rest("number", <<>>) /\ IsNumber(SoFar) /\ DigitsFollow(SoFar)
     /\ NoneFollows(posn.offset)

-----------------------------------------------------------------------------
\* The character after s is escaped, or in a class.
EscapedNext(s) == Escaped(s, Len(s) + 1)
ClassNext(s) == InClass(s, Len(s) + 1)

\* The calls that read an escape, from its second character on.
EscapeCall ==
  {a \in InnerCall :
     /\ a.fn \in {"digit", "unicode", "braces", "add_digits", "from_u32"}
     /\ a.fn = "digit" => a.chars = HexDigits}

StringCall(q) == [fn |-> "string", quote |-> q]

StringSoFar(s) ==
  /\ s # <<>> /\ s[1] \in {"\"", "'"}
  /\ \A i \in 2 .. Len(s) :
       /\ s[i] = s[1] => Escaped(s, i)
       /\ s[i] \in Newlines =>
            Escaped(s, i) \/ (s[i] = "LF" /\ s[i - 1] = "CR" /\ Escaped(s, i - 1))

\* What is known within an escape of a string.
StringEscapeAt(s, calls) ==
  \/ calls = <<>> /\ (EscapedNext(s) => AtEnd /\ Ahead(1))
  \/ calls = <<Call("escape")>> /\ EscapedNext(s)
  \/ calls = <<Call("octal")>> /\ (EscapedNext(s) => Next1 \in OctDigits /\ digits = <<>>)
  \/ calls = <<Skip(2)>> /\ EscapedNext(s) /\ Starts(<<"CR", "LF">>)
  \/ /\ calls = <<Skip(1)>> /\ ahead # <<>>
     /\ \/ EscapedNext(s) /\ Next1 \in Newlines
        \/ Next1 = "LF" /\ s[Len(s)] = "CR" /\ Len(s) > 1 /\ Escaped(s, Len(s))
  \/ calls # <<>> /\ calls \in Seq(EscapeCall) /\ ~EscapedNext(s)

StringText ==
  \/ \E calls \in Seq(InnerCall) :
       /\ Rest("string", Append(calls, StringCall(SoFar[1])))
       /\ StringSoFar(SoFar) /\ StringEscapeAt(SoFar, calls)
  \/ Rest("string", <<>>) /\ IsString(SoFar)

BodySoFar(s) ==
  /\ s # <<>> /\ s[1] = "/"
  /\ \A i \in 2 .. Len(s) :
       ~Closes(s, i) /\ (s[i] \in Newlines => InClass(s, i) /\ ~Escaped(s, i))

RegExpBody(s) ==
  /\ BodySoFar(s)
  /\ \/ /\ ~EscapedNext(s) /\ ~ClassNext(s)
        /\ Rest("regexp", <<Call("regexp"), Call("word_parts")>>)
     \/ /\ EscapedNext(s) /\ ~ClassNext(s)
        /\ Rest("regexp", <<Call("backslash"), Call("regexp"), Call("word_parts")>>)
     \/ /\ ~EscapedNext(s) /\ ClassNext(s)
        /\ Rest("regexp", <<Call("class"), Call("regexp"), Call("word_parts")>>)
     \/ /\ EscapedNext(s) /\ ClassNext(s)
        /\ Rest("regexp", <<Call("backslash"), Call("class"), Call("regexp"), Call("word_parts")>>)

RegExpText ==
  \/ RegExpBody(SoFar)
  \/ \E calls \in Seq(EscapeCall) \cup {<<Call("word_escape")>>} :
       Rest("regexp", Append(calls, Call("word_parts"))) /\ IsRegExp(SoFar)
  \/ Rest("regexp", <<>>) /\ IsRegExp(SoFar)

-----------------------------------------------------------------------------
\* Nothing is known of the text of a token of another kind.
OtherText ==
  \E kind \in {"word", "EOF"}, calls \in Seq(InnerCall) : Rest(kind, calls)

TokenText ==
  Running /\ InToken =>
    /\ start.offset <= posn.offset
    /\ \/ todo = <<Call("token")>> /\ posn.offset = start.offset
       \/ OtherText \/ PunctuatorText \/ NumberText \/ StringText \/ RegExpText

\* The token read last is right.
TokenRight ==
  /\ token.start.offset \in Nat /\ token.end.offset \in Nat
  /\ token.end.offset <= Len(text)
  /\ token.kind = "punctuator" => Longest(Lexeme, token.start.offset)
  /\ token.kind = "number" =>
       IsNumber(Lexeme) /\ DigitsFollow(Lexeme) /\ NoneFollows(token.end.offset)
  /\ token.kind = "string" => IsString(Lexeme)
  /\ token.kind = "regexp" => IsRegExp(Lexeme)

LexemeInv == LexerInv /\ TokenText /\ TokenRight
-----------------------------------------------------------------------------
(***************************************************************************)
(* What the steps do to the text.                                          *)
(***************************************************************************)
LEMMA SoFarIs ==
  ASSUME LexerInv, start.offset <= posn.offset
  PROVE  /\ SoFar \in Seq(Chars) /\ Len(SoFar) = posn.offset - start.offset
         /\ \A i \in 1 .. Len(SoFar) : SoFar[i] = text[start.offset + i]
         /\ SoFar = IntegerRead
         /\ start.offset \in Nat /\ posn.offset \in Nat /\ posn.offset <= Len(text)
         /\ text \in Seq(Chars) /\ ahead \in Seq(Chars) /\ Split /\ ended \in BOOLEAN
<1>1. /\ start.offset \in Nat /\ posn.offset \in Nat /\ posn.offset <= Len(text)
      /\ text \in Seq(Chars) /\ ahead \in Seq(Chars) /\ Split /\ ended \in BOOLEAN
  BY DEF LexerInv, LexerTypes, Behind, ReaderInv, ReaderTypeOK
<1>2. \A a \in Nat, b \in Nat : a <= b /\ b <= Len(text) =>
        /\ SubSeq(text, a + 1, b) \in Seq(Chars) /\ Len(SubSeq(text, a + 1, b)) = b - a
        /\ \A i \in 1 .. b - a : SubSeq(text, a + 1, b)[i] = text[a + i]
  BY <1>1
<1>3. /\ SoFar \in Seq(Chars) /\ Len(SoFar) = posn.offset - start.offset
      /\ \A i \in 1 .. posn.offset - start.offset : SoFar[i] = text[start.offset + i]
  BY <1>1, <1>2 DEF SoFar
<1> QED BY <1>1, <1>3 DEF SoFar, IntegerRead

\* A character taken is added to the text read.
LEMMA SoFarTakes ==
  ASSUME LexerInv, start.offset <= posn.offset, NextChar, UNCHANGED start
  PROVE  /\ SoFar' = Append(SoFar, Next1) /\ Next1 \in Chars
         /\ ahead # <<>> /\ Next1 = ahead[1] /\ ahead' = Tail(ahead)
         /\ text' = text /\ ended' = ended
         /\ posn'.offset = posn.offset + 1
         /\ (start.offset <= posn.offset)'
<1>1. /\ text \in Seq(Chars) /\ ahead \in Seq(Chars) /\ ahead # <<>>
      /\ start.offset \in Nat /\ posn.offset \in Nat /\ text' = text /\ ended' = ended
      /\ posn'.offset = posn.offset + 1 /\ posn'.offset <= Len(text)
      /\ text[posn.offset + 1] = Head(ahead) /\ Next1 = Head(ahead) /\ ahead' = Tail(ahead)
  BY SoFarIs, Taken DEF LexerInv, Behind
<1>2. \A a \in Nat, b \in Nat : a <= b /\ b + 1 <= Len(text) =>
        SubSeq(text, a + 1, b + 1) = Append(SubSeq(text, a + 1, b), text[b + 1])
  BY <1>1
<1>3. SoFar' = SubSeq(text, start.offset + 1, posn.offset + 1)
  BY <1>1 DEF SoFar
<1>4. SoFar' = Append(SoFar, text[posn.offset + 1])
  BY <1>1, <1>2, <1>3 DEF SoFar
<1>5. /\ Head(ahead) = ahead[1] /\ ahead[1] \in Chars
      /\ start'.offset = start.offset /\ start.offset <= posn'.offset
  BY <1>1
<1> QED BY <1>1, <1>4, <1>5

LEMMA LongestStays ==
  ASSUME text \in Seq(Chars), Grows, NEW p, NEW b \in Nat, Longest(p, b)
  PROVE  Longest(p, b)'
<1>1. \A q \in Punctuators : Len(q) \in Nat
  BY DEF Punctuators, Pairs, PairsBeforeEquals
<1>2. ASSUME NEW q \in Punctuators, Rejected(q, b) PROVE Rejected(q, b)'
  BY <1>1, <1>2 DEF Rejected, Grows
<1>3. p = <<".">> =>
       \/ b + 2 <= Len(text)' /\ text'[b + 2] \notin DecDigits
       \/ ended' /\ Len(text)' < b + 2
  BY DEF Longest, Grows
<1> QED BY <1>2, <1>3 DEF Longest

LEMMA NoneFollowsStays ==
  ASSUME text \in Seq(Chars), Grows, NEW n \in Nat, n <= Len(text), NoneFollows(n)
  PROVE  NoneFollows(n)'
BY DEF NoneFollows, Grows

\* The token read last stays right.
LEMMA TokenStays ==
  ASSUME text \in Seq(Chars), TokenRight, Grows, UNCHANGED token
  PROVE  TokenRight'
<1>1. Lexeme' = Lexeme
  BY TextStays DEF TokenRight, Lexeme
<1>2. Len(text) <= Len(text)'
  BY DEF Grows
<1> QED BY <1>1, <1>2, LongestStays, NoneFollowsStays DEF TokenRight
-----------------------------------------------------------------------------
(***************************************************************************)
(* What is pending after a step.                                           *)
(***************************************************************************)
\* A call that makes no other leaves what comes after it.
LEMMA RestTail ==
  ASSUME NEW S, NEW k, NEW a, NEW cs \in Seq(S), Rest(k, <<a>> \o cs), Then(<<>>)
  PROVE  This = a /\ Rest(k, cs)'
<1>1. <<>> \in Seq(S) /\ <<>> \o cs = cs
  OBVIOUS
<1>2. \A new \in Seq(S) : Then(new) => This = a /\ Rest(k, new \o cs)'
  BY DEF Rest, Then, This, End
<1> QED BY <1>1, <1>2

LEMMA RestCalls ==
  ASSUME NEW S, NEW k, NEW a, NEW cs \in Seq(S), Rest(k, <<a>> \o cs), NEW new \in Seq(S),
         Then(new)
  PROVE  This = a /\ Rest(k, new \o cs)'
BY DEF Rest, Then, This, End

LEMMA RestThis ==
  ASSUME NEW S, NEW k, NEW a, NEW cs \in Seq(S), Rest(k, <<a>> \o cs)
  PROVE  This = a /\ todo # <<>>
BY DEF Rest, This, End

LEMMA RestEnd ==
  ASSUME NEW k, Rest(k, <<>>) PROVE This = End(k) /\ todo = <<End(k)>>
BY DEF Rest, This, End

\* What a step takes of the reader, within a token.
LEMMA SoFarSame ==
  UNCHANGED readerVars /\ UNCHANGED start => SoFar' = SoFar /\ Next1' = Next1 /\ ahead' = ahead
BY DEF SoFar, readerVars, Next1, PeekAt

LEMMA StayKeeps ==
  ASSUME NEW calls, Stay(calls)
  PROVE  /\ Then(calls) /\ SoFar' = SoFar /\ Next1' = Next1 /\ UNCHANGED <<readerVars, start>>
         /\ UNCHANGED result
BY SoFarSame DEF Stay, tokenVars

LEMMA ConsumeTakes ==
  ASSUME LexerInv, start.offset <= posn.offset, NEW calls, Consume(calls)
  PROVE  /\ Then(calls) /\ SoFar' = Append(SoFar, Next1) /\ Next1 \in Chars
         /\ ahead # <<>> /\ Next1 = ahead[1] /\ ahead' = Tail(ahead)
         /\ text' = text /\ ended' = ended /\ posn'.offset = posn.offset + 1
         /\ (start.offset <= posn.offset)' /\ UNCHANGED start
BY SoFarTakes DEF Consume, tokenVars

\* What is read, and what is ahead, stays when more is drawn.
LEMMA PeekKeeps ==
  ASSUME LexerInv, start.offset <= posn.offset, PeekMore
  PROVE  /\ SoFar' = SoFar /\ UNCHANGED <<todo, start, digits, code, posn, result>>
         /\ Len(ahead) <= Len(ahead)' /\ \A i \in 1 .. Len(ahead) : ahead'[i] = ahead[i]
         /\ ahead' \in Seq(Chars) /\ ~ended /\ ~Ahead(Peeked) /\ Grows
         /\ ahead # <<>> => Next1' = Next1
<1>1. /\ Draw /\ UNCHANGED <<todo, start, digits, code, posn, result>> /\ ~Ahead(Peeked) /\ ~ended
  BY DEF PeekMore, Draw, tokenVars, escapeVars
<1>2. ReaderInv /\ text \in Seq(Chars) /\ ahead \in Seq(Chars)
      /\ posn.offset \in Nat /\ posn.offset <= Len(text) /\ start.offset \in Nat
  BY SoFarIs DEF LexerInv
<1>3. Grows
  BY <1>1, <1>2, TextGrows DEF ReaderStep, ReaderNext
<1>4. SoFar' = SoFar
  BY <1>1, <1>2, <1>3, TextStays DEF SoFar
<1>5. ahead' \in Seq(Chars)
  BY <1>1, <1>2, DrawInv DEF ReaderInv, ReaderTypeOK
<1>6. Len(ahead) <= Len(ahead)' /\ \A i \in 1 .. Len(ahead) : ahead'[i] = ahead[i]
  <2>1. CASE UNCHANGED <<text, ahead>>
    BY <1>2, <2>1
  <2>2. CASE ~UNCHANGED <<text, ahead>>
    <3>1. PICK c : ahead' = Append(ahead, c)
      BY <1>1, <2>2 DEF Draw
    <3> QED BY <1>2, <3>1
  <2> QED BY <2>1, <2>2
<1>7. ahead # <<>> => Next1' = Next1
  BY <1>2, <1>5, <1>6 DEF Next1, PeekAt
<1> QED BY <1>1, <1>3, <1>4, <1>5, <1>6, <1>7
-----------------------------------------------------------------------------
(***************************************************************************)
(* Punctuators: no longer one follows where the calls decide.              *)
(***************************************************************************)
LEMMA PairMarks ==
  ASSUME NEW a, NEW b
  PROVE  /\ <<a, b>> \in Pairs =>
              <<a, b>> \notin PairsBeforeEquals /\ a # "." /\ ~(a = ">" /\ b = ">")
         /\ <<a, b>> \in PairsBeforeEquals => a \in {"<", "=", "!"}
BY DEF Pairs, PairsBeforeEquals

\* The punctuators by their lengths, and how those of two characters or more begin.
Begins(q, pairs) == <<q[1], q[2]>> \in pairs
Arrows(q) == q[1] = ">" /\ q[2] = ">"
Dots(q) == q[1] = "." /\ q[2] = "." /\ q[3] = "."

\* Tuples, as the provers take them.
LEMMA TupleLengths ==
  ASSUME NEW a, NEW b, NEW c, NEW d
  PROVE  /\ \A q : q = <<a>> => Len(q) \in Nat /\ Len(q) >= 1 /\ Len(q) <= 1 /\ q[1] = a
         /\ \A q : q = <<a, b>> =>
              Len(q) \in Nat /\ Len(q) >= 2 /\ Len(q) <= 2 /\ q[1] = a /\ q[2] = b
         /\ \A q : q = <<a, b, c>> =>
              /\ Len(q) \in Nat /\ Len(q) >= 3 /\ Len(q) <= 3
              /\ q[1] = a /\ q[2] = b /\ q[3] = c
         /\ \A q : q = <<a, b, c, d>> =>
              /\ Len(q) \in Nat /\ Len(q) >= 4 /\ Len(q) <= 4
              /\ q[1] = a /\ q[2] = b /\ q[3] = c /\ q[4] = d
<1>1. \A q : q = <<a>> => Len(q) \in Nat /\ Len(q) >= 1 /\ Len(q) <= 1 /\ q[1] = a
  OBVIOUS
<1>2. \A q : q = <<a, b>> =>
        Len(q) \in Nat /\ Len(q) >= 2 /\ Len(q) <= 2 /\ q[1] = a /\ q[2] = b
  OBVIOUS
<1>3. \A q : q = <<a, b, c>> =>
        /\ Len(q) \in Nat /\ Len(q) >= 3 /\ Len(q) <= 3
        /\ q[1] = a /\ q[2] = b /\ q[3] = c
  OBVIOUS
<1>4. \A q : q = <<a, b, c, d>> =>
        /\ Len(q) \in Nat /\ Len(q) >= 4 /\ Len(q) <= 4
        /\ q[1] = a /\ q[2] = b /\ q[3] = c /\ q[4] = d
  OBVIOUS
<1> QED BY <1>1, <1>2, <1>3, <1>4

LEMMA AppendToPair ==
  ASSUME NEW a, NEW b, NEW c PROVE Append(<<a, b>>, c) = <<a, b, c>>
<1> DEFINE S == {a, b, c}
           p == <<a, b>>
           t == <<a, b, c>>
           q == Append(p, c)
<1>1. /\ p \in Seq(S) /\ Len(p) <= 2 /\ Len(p) >= 2 /\ p[1] = a /\ p[2] = b
      /\ t \in Seq(S) /\ Len(t) <= 3 /\ Len(t) >= 3 /\ t[1] = a /\ t[2] = b /\ t[3] = c
      /\ c \in S
  OBVIOUS
<1> HIDE DEF S, p, t
<1>2. /\ q \in Seq(S) /\ Len(q) <= 3 /\ Len(q) >= 3
      /\ q[1] = p[1] /\ q[2] = p[2] /\ q[3] = c
  BY <1>1
<1> HIDE DEF q
<1>3. \A m \in Nat, n \in Nat : m <= 3 /\ m >= 3 /\ n <= 3 /\ n >= 3 => m = n
  OBVIOUS
<1>4. Len(q) = Len(t)
  BY <1>1, <1>2, <1>3
<1>5. \A i \in 1 .. Len(q) : q[i] = t[i]
  <2>1. \A i \in 1 .. Len(q) : i = 1 \/ i = 2 \/ i = 3
    BY <1>2
  <2> QED BY <1>1, <1>2, <2>1
<1>6. q = t
  BY <1>1, <1>2, <1>4, <1>5, SeqEqual
<1> QED BY <1>6 DEF p, q, t

LEMMA LongPunctuators ==
  ASSUME NEW q \in Punctuators
  PROVE  /\ Len(q) \in Nat /\ 1 <= Len(q) /\ Len(q) <= 4
         /\ Len(q) > 1 =>
              \/ Begins(q, Pairs \cup PairsBeforeEquals) \/ Arrows(q)
              \/ Dots(q) /\ Len(q) > 2
         /\ Len(q) > 2 =>
              \/ q[3] = "=" /\ Begins(q, PairsBeforeEquals)
              \/ Arrows(q) /\ q[3] \in {">", "="}
              \/ Dots(q)
         /\ Len(q) > 3 => Arrows(q) /\ q[3] = ">" /\ q[4] = "="
<1>1. CASE \E p \in PairsBeforeEquals : q = Append(p, "=")
  <2>1. PICK p \in PairsBeforeEquals : q = Append(p, "=")
    BY <1>1
  <2>2. p = <<p[1], p[2]>>
    BY DEF PairsBeforeEquals
  <2>3. q = <<p[1], p[2], "=">>
    BY <2>1, <2>2, AppendToPair
  <2>4. /\ Len(q) \in Nat /\ Len(q) >= 3 /\ Len(q) <= 3
        /\ q[1] = p[1] /\ q[2] = p[2] /\ q[3] = "="
    BY <2>3, TupleLengths
  <2>5. Begins(q, PairsBeforeEquals) /\ Begins(q, Pairs \cup PairsBeforeEquals)
    BY <2>2, <2>4 DEF Begins
  <2> QED BY <2>4, <2>5
<1>2. CASE q \in Pairs \cup PairsBeforeEquals
  <2>1. /\ Len(q) >= 2 /\ Len(q) <= 2 /\ Len(q) \in Nat /\ q = <<q[1], q[2]>>
    <3>1. \E a, b : q = <<a, b>>
      BY <1>2 DEF Pairs, PairsBeforeEquals
    <3> QED BY <3>1, TupleLengths
  <2>2. Begins(q, Pairs \cup PairsBeforeEquals)
    BY <1>2, <2>1 DEF Begins
  <2> QED BY <2>1, <2>2
<1>3. CASE \E c \in Singles : q = <<c>>
  <2>1. Len(q) \in Nat /\ Len(q) <= 1 /\ Len(q) >= 1
    BY <1>3, TupleLengths DEF Singles
  <2> QED BY <2>1
<1>4. CASE q = <<".", ".", ".">>
  <2>1. Len(q) >= 3 /\ Len(q) <= 3 /\ Dots(q) /\ Len(q) \in Nat
    BY <1>4, TupleLengths DEF Dots
  <2> QED BY <2>1
<1>5. CASE q = <<">", ">">>
  <2>1. Len(q) >= 2 /\ Len(q) <= 2 /\ Arrows(q) /\ Len(q) \in Nat
    BY <1>5, TupleLengths DEF Arrows
  <2> QED BY <2>1
<1>6. CASE q = <<">", ">", "=">> \/ q = <<">", ">", ">">>
  <2>1. PICK c \in {">", "="} : q = <<">", ">", c>>
    BY <1>6
  <2>2. Len(q) >= 3 /\ Len(q) <= 3 /\ Arrows(q) /\ q[3] \in {">", "="} /\ Len(q) \in Nat
    BY <2>1, TupleLengths DEF Arrows
  <2> QED BY <2>2
<1>7. CASE q = <<">", ">", ">", "=">>
  <2>1. Len(q) >= 4 /\ Len(q) <= 4 /\ Arrows(q) /\ q[3] = ">" /\ q[4] = "=" /\ Len(q) \in Nat
    BY <1>7, TupleLengths DEF Arrows
  <2> QED BY <2>1
<1> QED BY <1>1, <1>2, <1>3, <1>4, <1>5, <1>6, <1>7, Zenon DEF Punctuators

LEMMA ArePunctuators ==
  /\ \A c \in Singles : <<c>> \in Punctuators
  /\ Pairs \cup PairsBeforeEquals \subseteq Punctuators
  /\ \A p \in PairsBeforeEquals : Append(p, "=") \in Punctuators
  /\ {<<".", ".", ".">>, <<">", ">">>, <<">", ">", "=">>,
      <<">", ">", ">">>, <<">", ">", ">", "=">>} \subseteq Punctuators
BY DEF Punctuators

\* A pair that is no other punctuator's beginning.
LEMMA LongestPair ==
  ASSUME text \in Seq(Chars), NEW b \in Nat, b + 2 <= Len(text),
         <<text[b + 1], text[b + 2]>> \in Pairs
  PROVE  Longest(<<text[b + 1], text[b + 2]>>, b)
<1> DEFINE p == <<text[b + 1], text[b + 2]>>
<1>1. p \in Punctuators /\ Len(p) = 2 /\ p[1] = text[b + 1] /\ p[2] = text[b + 2]
  BY ArePunctuators
<1>2. ASSUME NEW q \in Punctuators, Len(q) > 2 PROVE Rejected(q, b)
  <2>1. Len(q) \in Nat /\ (Begins(q, PairsBeforeEquals) \/ Arrows(q) \/ Dots(q))
    BY <1>2, LongPunctuators
  <2>2. text[b + 1] # q[1] \/ text[b + 2] # q[2]
    <3> SUFFICES ASSUME text[b + 1] = q[1], text[b + 2] = q[2] PROVE FALSE
      OBVIOUS
    <3>1. /\ <<q[1], q[2]>> \notin PairsBeforeEquals /\ q[1] # "."
          /\ ~(q[1] = ">" /\ q[2] = ">")
      BY PairMarks
    <3> QED BY <2>1, <3>1 DEF Begins, Arrows, Dots
  <2>3. 1 \in 1 .. Len(q) /\ 2 \in 1 .. Len(q) /\ b + 1 <= Len(text) /\ b + 2 <= Len(text)
    BY <1>2, <2>1
  <2> QED BY <2>2, <2>3 DEF Rejected
<1> QED BY <1>1, <1>2 DEF Longest

LEMMA LongestDots ==
  ASSUME text \in Seq(Chars), NEW b \in Nat, b + 3 <= Len(text), text[b + 1] = "."
  PROVE  Longest(<<".", ".", ".">>, b)
<1>1. ASSUME NEW q \in Punctuators, Len(q) > 3 PROVE Rejected(q, b)
  <2>1. Len(q) \in Nat /\ Arrows(q)
    BY <1>1, LongPunctuators
  <2>2. 1 \in 1 .. Len(q) /\ text[b + 1] # q[1] /\ b + 1 <= Len(text)
    BY <1>1, <2>1 DEF Arrows
  <2> QED BY <2>2 DEF Rejected
<1>2. <<".", ".", ".">> \in Punctuators /\ <<".", ".", ".">> # <<".">>
      /\ Len(<<".", ".", ".">>) = 3
  BY ArePunctuators
<1> DEFINE p == <<".", ".", ".">>
<1> HIDE DEF p
<1> QED BY <1>1, <1>2 DEF Longest, p

\* A character after which none follows that makes a pair.
LEMMA LongestSingle ==
  ASSUME text \in Seq(Chars), NEW b \in Nat, b + 1 <= Len(text), text[b + 1] \in Singles,
         \/ ended /\ Len(text) <= b + 1
         \/ /\ b + 2 <= Len(text)
            /\ <<text[b + 1], text[b + 2]>> \notin Pairs \cup PairsBeforeEquals
            /\ ~(text[b + 1] = ">" /\ text[b + 2] = ">")
            /\ text[b + 1] = "." => text[b + 2] \notin DecDigits
            /\ \/ ~(text[b + 1] = "." /\ text[b + 2] = ".")
               \/ ended /\ Len(text) <= b + 2
               \/ b + 3 <= Len(text) /\ text[b + 3] # "."
  PROVE  Longest(<<text[b + 1]>>, b)
<1> DEFINE p == <<text[b + 1]>>
<1>1. p \in Punctuators /\ Len(p) = 1 /\ p[1] = text[b + 1]
  BY ArePunctuators
<1>2. ASSUME NEW q \in Punctuators, Len(q) > 1 PROVE Rejected(q, b)
  <2>0. Len(q) \in Nat
    BY LongPunctuators, <1>2
  <2>1. CASE ended /\ Len(text) <= b + 1
    BY <1>2, <2>0, <2>1 DEF Rejected
  <2>2. CASE /\ b + 2 <= Len(text)
             /\ <<text[b + 1], text[b + 2]>> \notin Pairs \cup PairsBeforeEquals
             /\ ~(text[b + 1] = ">" /\ text[b + 2] = ">")
    <3>1. \/ Begins(q, Pairs \cup PairsBeforeEquals) \/ Arrows(q)
          \/ Dots(q) /\ Len(q) > 2
      BY <1>2, LongPunctuators
    <3>2. 1 \in 1 .. Len(q) /\ 2 \in 1 .. Len(q) /\ b + 1 <= Len(text)
      BY <1>2, <2>0
    <3>3. CASE Dots(q) /\ Len(q) > 2
      <4>1. \/ ~(text[b + 1] = "." /\ text[b + 2] = ".")
            \/ ended /\ Len(text) <= b + 2
            \/ b + 3 <= Len(text) /\ text[b + 3] # "."
        BY <2>2
      <4>2. 3 \in 1 .. Len(q) /\ (Len(text) <= b + 2 => Len(text) < b + Len(q))
        BY <2>0, <3>3
      <4> QED BY <2>2, <3>2, <3>3, <4>1, <4>2 DEF Rejected, Dots
    <3>4. CASE Begins(q, Pairs \cup PairsBeforeEquals) \/ Arrows(q)
      <4>1. text[b + 1] # q[1] \/ text[b + 2] # q[2]
        BY <2>2, <3>4 DEF Begins, Arrows
      <4> QED BY <2>2, <3>2, <4>1 DEF Rejected
    <3> QED BY <3>1, <3>3, <3>4
  <2> QED BY <2>1, <2>2
<1>3. p = <<".">> =>
       \/ b + 2 <= Len(text) /\ text[b + 2] \notin DecDigits
       \/ ended /\ Len(text) < b + 2
  BY <1>1
<1> HIDE DEF p
<1> QED BY <1>1, <1>2, <1>3 DEF Longest, p

\* What follows a shift.
LEMMA LongestShift ==
  ASSUME text \in Seq(Chars), NEW b \in Nat, b + 2 <= Len(text), text[b + 1] = ">",
         text[b + 2] = ">"
  PROVE  /\ b + 4 <= Len(text) => Longest(<<">", ">", ">", "=">>, b)
         /\ (ended /\ Len(text) <= b + 3) \/ (b + 4 <= Len(text) /\ text[b + 4] # "=")
              => Longest(<<">", ">", ">">>, b)
         /\ b + 3 <= Len(text) /\ text[b + 3] = "=" => Longest(<<">", ">", "=">>, b)
         /\ (ended /\ Len(text) <= b + 2) \/ (b + 3 <= Len(text) /\ text[b + 3] \notin {">", "="})
              => Longest(<<">", ">">>, b)
<1>1. ASSUME NEW q \in Punctuators, Len(q) > 3
      PROVE  q[4] = "=" /\ 4 \in 1 .. Len(q) /\ q[3] = ">" /\ 3 \in 1 .. Len(q)
             /\ b + 3 < b + Len(q)
  BY <1>1, LongPunctuators
<1>2. ASSUME NEW q \in Punctuators, Len(q) > 4 PROVE FALSE
  BY <1>2, LongPunctuators
<1>3. ASSUME NEW q \in Punctuators, Len(q) > 2
      PROVE  \/ q[1] # ">" /\ 1 \in 1 .. Len(q)
             \/ q[3] \in {">", "="} /\ 3 \in 1 .. Len(q) /\ Len(q) \in Nat
  <2>1. /\ 1 \in 1 .. Len(q) /\ 3 \in 1 .. Len(q) /\ Len(q) \in Nat
        /\ \/ q[3] = "=" /\ Begins(q, PairsBeforeEquals)
           \/ Arrows(q) /\ q[3] \in {">", "="}
           \/ Dots(q)
    BY <1>3, LongPunctuators
  <2> QED BY <2>1 DEF Dots
<1> DEFINE p2 == <<">", ">">>
           p3 == <<">", ">", "=">>
           r3 == <<">", ">", ">">>
           p4 == <<">", ">", ">", "=">>
<1>4. /\ {p2, p3, r3, p4} \subseteq Punctuators /\ <<".">> \notin {p2, p3, r3, p4}
      /\ Len(p2) = 2 /\ Len(p3) = 3 /\ Len(r3) = 3 /\ Len(p4) = 4
  BY ArePunctuators
<1> HIDE DEF p2, p3, r3, p4
<1>5. b + 4 <= Len(text) => Longest(p4, b)
  BY <1>2, <1>4 DEF Longest
<1>6. ASSUME \/ ended /\ Len(text) <= b + 3
             \/ b + 4 <= Len(text) /\ text[b + 4] # "="
      PROVE  Longest(r3, b)
  <2>1. ASSUME NEW q \in Punctuators, Len(q) > 3 PROVE Rejected(q, b)
    BY <1>1, <1>6, <2>1 DEF Rejected
  <2> QED BY <1>4, <2>1 DEF Longest
<1>7. ASSUME b + 3 <= Len(text), text[b + 3] = "=" PROVE Longest(p3, b)
  <2>1. ASSUME NEW q \in Punctuators, Len(q) > 3 PROVE Rejected(q, b)
    BY <1>1, <1>7, <2>1 DEF Rejected
  <2> QED BY <1>4, <2>1 DEF Longest
<1>10. ASSUME \/ ended /\ Len(text) <= b + 2
              \/ b + 3 <= Len(text) /\ text[b + 3] \notin {">", "="},
              NEW q \in Punctuators, Len(q) > 2
       PROVE Rejected(q, b)
  <2>1. b + 1 <= Len(text) /\ (Len(text) <= b + 2 => Len(text) < b + 3)
    OBVIOUS
  <2>2. CASE q[1] # ">" /\ 1 \in 1 .. Len(q)
    BY <2>1, <2>2 DEF Rejected
  <2>3. CASE q[3] \in {">", "="} /\ 3 \in 1 .. Len(q) /\ Len(q) \in Nat
    <3>1. CASE ended /\ Len(text) <= b + 2
      BY <2>3, <3>1 DEF Rejected
    <3>2. CASE b + 3 <= Len(text) /\ text[b + 3] \notin {">", "="}
      BY <2>3, <3>2 DEF Rejected
    <3> QED BY <1>10, <3>1, <3>2
  <2> QED BY <1>3, <1>10, <2>2, <2>3
<1>11. (ended /\ Len(text) <= b + 2) \/ (b + 3 <= Len(text) /\ text[b + 3] \notin {">", "="})
         => Longest(p2, b)
  BY <1>4, <1>10 DEF Longest
<1> QED BY <1>5, <1>6, <1>7, <1>11 DEF p2, p3, r3, p4

\* What follows a pair that an equals sign may follow.
LEMMA LongestEquals ==
  ASSUME text \in Seq(Chars), NEW b \in Nat, b + 2 <= Len(text),
         NEW p \in PairsBeforeEquals, p = <<text[b + 1], text[b + 2]>>
  PROVE  /\ b + 3 <= Len(text) => Longest(Append(p, "="), b)
         /\ (ended /\ Len(text) <= b + 2) \/ (b + 3 <= Len(text) /\ text[b + 3] # "=")
              => Longest(p, b)
<1> DEFINE e == Append(p, "=")
<1>1. /\ text[b + 1] \notin {".", ">"} /\ p # <<".">> /\ e # <<".">>
      /\ Len(p) = 2 /\ Len(e) = 3 /\ p \in Punctuators /\ e \in Punctuators
  <2>1. text[b + 1] \notin {".", ">"} /\ p \in Punctuators /\ e \in Punctuators
    <3>1. <<text[b + 1], text[b + 2]>> \in PairsBeforeEquals
      OBVIOUS
    <3>2. text[b + 1] \in {"<", "=", "!"}
      BY <3>1, PairMarks, Zenon
    <3> QED BY <3>2, ArePunctuators
  <2>2. e = <<text[b + 1], text[b + 2], "=">>
    BY AppendToPair
  <2> HIDE DEF e
  <2>3. Len(e) = 3 /\ e # <<".">>
    BY <2>2
  <2>4. Len(p) = 2 /\ p # <<".">>
    OBVIOUS
  <2> QED BY <2>1, <2>3, <2>4
<1> HIDE DEF e
<1>2. ASSUME NEW q \in Punctuators, Len(q) > 2
      PROVE  \/ q[1] # text[b + 1] /\ 1 \in 1 .. Len(q)
             \/ /\ q[3] = "=" /\ 3 \in 1 .. Len(q) /\ b + 2 < b + Len(q)
                /\ Begins(q, PairsBeforeEquals) /\ ~(Len(q) > 3)
  <2>1. /\ 1 \in 1 .. Len(q) /\ 3 \in 1 .. Len(q) /\ Len(q) \in Nat /\ b + 2 < b + Len(q)
        /\ \/ q[3] = "=" /\ Begins(q, PairsBeforeEquals)
           \/ Arrows(q) /\ q[3] \in {">", "="}
           \/ Dots(q)
        /\ Len(q) > 3 => Arrows(q)
    BY <1>2, LongPunctuators
  <2> QED BY <1>1, <2>1 DEF Dots, Arrows
<1>3. ASSUME NEW q \in Punctuators, Len(q) > 3 PROVE Rejected(q, b)
  <2>1. b + 1 <= Len(text)
    OBVIOUS
  <2> QED BY <1>2, <1>3, <2>1 DEF Rejected
<1>4. ASSUME \/ ended /\ Len(text) <= b + 2
             \/ b + 3 <= Len(text) /\ text[b + 3] # "=",
             NEW q \in Punctuators, Len(q) > 2
      PROVE  Rejected(q, b)
  <2>1. b + 1 <= Len(text)
    OBVIOUS
  <2> QED BY <1>2, <1>4, <2>1 DEF Rejected
<1>5. b + 3 <= Len(text) => Longest(e, b)
  BY <1>1, <1>3 DEF Longest
<1>6. (ended /\ Len(text) <= b + 2) \/ (b + 3 <= Len(text) /\ text[b + 3] # "=")
        => Longest(p, b)
  BY <1>1, <1>4 DEF Longest
<1> QED BY <1>5, <1>6 DEF e
-----------------------------------------------------------------------------
(***************************************************************************)
(* Punctuators: what each call has read.                                   *)
(***************************************************************************)
\* The characters ahead are those of the text.
LEMMA AheadIs ==
  ASSUME LexerInv, start.offset <= posn.offset
  PROVE  /\ Len(ahead) \in Nat /\ Len(text) \in Nat
         /\ Len(text) = posn.offset + Len(ahead)
         /\ \A i \in 1 .. Len(ahead) : ahead[i] = text[posn.offset + i]
         /\ \A n \in Nat : n < Len(ahead) => PeekAt(n) = text[posn.offset + n + 1]
         /\ \A n \in Nat : n >= Len(ahead) => PeekAt(n) = EndOfText
<1>1. /\ posn.offset \in Nat /\ text \in Seq(Chars) /\ ahead \in Seq(Chars)
      /\ Split /\ posn.offset <= Len(text)
  BY SoFarIs
<1>2. /\ Len(text) = posn.offset + Len(ahead) /\ Len(ahead) \in Nat /\ Len(text) \in Nat
      /\ \A i \in 1 .. Len(ahead) : ahead[i] = text[posn.offset + i]
  BY <1>1 DEF Split
<1>3. ASSUME NEW n \in Nat, n < Len(ahead) PROVE PeekAt(n) = text[posn.offset + n + 1]
  <2>1. \A l \in Nat, o \in Nat : n < l => n + 1 \in 1 .. l /\ o + (n + 1) = o + n + 1
    OBVIOUS
  <2>3. n + 1 \in 1 .. Len(ahead) /\ posn.offset + (n + 1) = posn.offset + n + 1
    BY <1>1, <1>2, <1>3, <2>1
  <2>2. ahead[n + 1] = text[posn.offset + (n + 1)]
    BY <1>2, <2>3
  <2> QED BY <1>3, <2>3, <2>2 DEF PeekAt
<1>4. ASSUME NEW n \in Nat, n >= Len(ahead) PROVE PeekAt(n) = EndOfText
  BY <1>2, <1>4 DEF PeekAt
<1> QED BY <1>2, <1>3, <1>4, Zenon

LEMMA UpcomingIs ==
  ASSUME LexerInv, start.offset <= posn.offset, NEW n \in Nat, n <= Len(ahead)
  PROVE  /\ Upcoming(n) \in Seq(Chars) /\ Len(Upcoming(n)) = (posn.offset + n) - start.offset
         /\ \A i \in 1 .. Len(Upcoming(n)) : Upcoming(n)[i] = text[start.offset + i]
         /\ posn.offset + n <= Len(text)
<1>1. /\ posn.offset \in Nat /\ text \in Seq(Chars) /\ start.offset \in Nat
      /\ Len(text) = posn.offset + Len(ahead) /\ Len(ahead) \in Nat
  BY SoFarIs, AheadIs
<1>2. \A a \in Nat, b \in Nat : a <= b /\ b <= Len(text) =>
        /\ SubSeq(text, a + 1, b) \in Seq(Chars) /\ Len(SubSeq(text, a + 1, b)) = b - a
        /\ \A i \in 1 .. b - a : SubSeq(text, a + 1, b)[i] = text[a + i]
  BY <1>1
<1>3. posn.offset + n \in Nat /\ start.offset <= posn.offset + n /\ posn.offset + n <= Len(text)
  BY <1>1
<1> DEFINE a == start.offset
           b == posn.offset + n
           u == Upcoming(n)
<1>4. a \in Nat /\ b \in Nat /\ a <= b /\ b <= Len(text)
  BY <1>1, <1>3
<1>5. u = SubSeq(text, a + 1, b)
  BY DEF a, b, Upcoming
<1> HIDE DEF a, b, u
<1>6. u \in Seq(Chars) /\ Len(u) = b - a /\ \A i \in 1 .. b - a : u[i] = text[a + i]
  BY <1>2, <1>4, <1>5
<1>7. u \in Seq(Chars) /\ Len(u) = b - a /\ \A i \in 1 .. Len(u) : u[i] = text[a + i]
  BY <1>6
<1> QED BY <1>4, <1>7 DEF u, a, b

\* A character is skipped.
LEMMA SkipsOne ==
  ASSUME LexerInv, start.offset <= posn.offset, NEW k, NEW n \in 1 .. 3, n <= Len(ahead),
         NEW S, NEW cs \in Seq(S), Rest(k, <<Skip(n)>> \o cs), SkipChars
  PROVE  /\ UNCHANGED <<start, text, ended>> /\ (start.offset <= posn.offset)'
         /\ \/ Rest(k, cs)' /\ SoFar' = Upcoming(n) 
            \/ /\ n - 1 \in 1 .. 3 /\ n - 1 <= Len(ahead)' /\ Rest(k, <<Skip(n - 1)>> \o cs)'
               /\ Upcoming(n - 1)' = Upcoming(n)
<1>1. This = Skip(n) /\ This.n = n
  BY RestThis DEF Skip
<1>2. CASE n = 1
  <2>1. Consume(<<>>)
    BY <1>1, <1>2 DEF SkipChars
  <2>2. /\ Then(<<>>) /\ UNCHANGED <<start, text, ended>> /\ (start.offset <= posn.offset)'
        /\ posn'.offset = posn.offset + 1
    BY <2>1, ConsumeTakes
  <2>3. Rest(k, cs)'
    BY <2>2, RestTail
  <2>4. SoFar' = Upcoming(n)
    BY <1>2, <2>2 DEF SoFar, Upcoming
  <2> QED BY <2>2, <2>3, <2>4
<1>3. CASE n > 1
  <2> DEFINE m == n - 1
             T == S \cup {Skip(m)}
  <2>1. m \in 1 .. 3 /\ m + 1 = n
    BY <1>3
  <2>2. Consume(<<Skip(m)>>)
    BY <1>1, <1>3 DEF SkipChars
  <2>3. /\ Then(<<Skip(m)>>) /\ UNCHANGED <<start, text, ended>> /\ (start.offset <= posn.offset)'
        /\ posn'.offset = posn.offset + 1 /\ ahead' = Tail(ahead) /\ ahead # <<>>
    BY <2>2, ConsumeTakes
  <2>4. Len(ahead)' = Len(ahead) - 1
    BY <2>3, SoFarIs
  <2>5. m <= Len(ahead)'
    BY <2>1, <2>4, AheadIs
  <2>6. <<Skip(m)>> \in Seq(T) /\ cs \in Seq(T)
    OBVIOUS
  <2>7. Rest(k, <<Skip(m)>> \o cs)'
    <3> HIDE DEF m, T
    <3> QED BY <2>3, <2>6, RestCalls
  <2>8. posn'.offset + m = posn.offset + n
    BY <2>1, <2>3, SoFarIs
  <2>9. Upcoming(m)' = Upcoming(n)
    <3> HIDE DEF m
    <3> QED BY <2>3, <2>8 DEF Upcoming
  <2> HIDE DEF m, T
  <2>10. /\ m \in 1 .. 3 /\ m <= Len(ahead)' /\ Rest(k, <<Skip(m)>> \o cs)'
         /\ Upcoming(m)' = Upcoming(n)
    BY <2>1, <2>5, <2>7, <2>9
  <2> QED BY <2>3, <2>10 DEF m
<1>4. n = 1 \/ n > 1
  OBVIOUS
<1> QED BY <1>2, <1>3, <1>4
-----------------------------------------------------------------------------
\* What a step leaves of the text leaves a punctuator the longest one.
LEMMA LongestNext ==
  ASSUME text \in Seq(Chars), Grows, start.offset \in Nat, UNCHANGED start,
         NEW p, Longest(p, start.offset)
  PROVE  /\ SoFar' = p => Longest(SoFar, start.offset)'
         /\ \A n \in Nat : Upcoming(n)' = p => Longest(Upcoming(n), start.offset)'
<1> DEFINE b == start.offset
<1>1. PICK c : c = b
  OBVIOUS
<1>2. c \in Nat /\ Longest(p, c) /\ start'.offset = c
  BY <1>1
<1>3. Longest(p, c)'
  BY <1>2, LongestStays
<1>4. SoFar' = p => Longest(SoFar, start.offset)'
  BY <1>2, <1>3 DEF Longest, Rejected
<1>5. ASSUME NEW n \in Nat, Upcoming(n)' = p PROVE Longest(Upcoming(n), start.offset)'
  BY <1>2, <1>3, <1>5 DEF Longest, Rejected
<1> QED BY <1>4, <1>5

LEMMA StaysGrown == text \in Seq(Chars) /\ text' = text /\ ended' = ended => Grows
BY DEF Grows

LEMMA PunctuatorPeek ==
  ASSUME LexerInv, start.offset <= posn.offset, PunctuatorText, PeekMore
  PROVE  PunctuatorText'
<1>1. /\ SoFar' = SoFar /\ UNCHANGED <<todo, start, posn>> /\ Grows
      /\ Len(ahead) <= Len(ahead)'
  BY PeekKeeps
<1>2. /\ text \in Seq(Chars) /\ start.offset \in Nat /\ posn.offset \in Nat
      /\ Len(ahead) \in Nat /\ Len(ahead') \in Nat
  BY SoFarIs, AheadIs, PeekKeeps
<1>3. CASE PunctuatorRead
  <2>1. Longest(SoFar, start.offset) => Longest(SoFar, start.offset)'
    <3>1. PICK p : p = SoFar
      OBVIOUS
    <3> QED BY <1>1, <1>2, <3>1, LongestNext
  <2> QED BY <1>1, <1>3, <2>1 DEF PunctuatorRead, PunctuatorText, Rest
<1>4. ASSUME NEW n \in 1 .. 3, PunctuatorAhead(n) PROVE PunctuatorAhead(n)'
  <2>1. n <= Len(ahead) /\ n \in Nat
    BY <1>4 DEF PunctuatorAhead
  <2>2. posn.offset + n <= Len(text)
    BY <2>1, UpcomingIs
  <2>3. Upcoming(n)' = Upcoming(n)
    <3>1. SubSeq(text', start.offset + 1, posn.offset + n) =
          SubSeq(text, start.offset + 1, posn.offset + n)
      <4>1. PICK a \in Nat, b \in Nat : a = start.offset /\ b = posn.offset + n
        BY <1>2, <2>1
      <4> QED BY <1>1, <1>2, <2>2, <4>1, TextStays
    <3> QED BY <1>1, <3>1 DEF Upcoming
  <2>4. Longest(Upcoming(n), start.offset) => Longest(Upcoming(n), start.offset)'
    <3>1. PICK p : p = Upcoming(n)
      OBVIOUS
    <3> QED BY <1>1, <1>2, <2>1, <2>3, <3>1, LongestNext
  <2>5. n <= Len(ahead)'
    BY <1>1, <1>2, <2>1
  <2> QED BY <1>1, <1>4, <2>3, <2>4, <2>5 DEF PunctuatorAhead, Rest
<1> QED BY <1>3, <1>4 DEF PunctuatorText

LEMMA Singleton == \A a : <<a>> \o <<>> = <<a>>
<1> SUFFICES ASSUME NEW a PROVE <<a>> \o <<>> = <<a>>
  OBVIOUS
<1>1. \A s \in Seq({a}) : s \o <<>> = s
  OBVIOUS
<1> QED BY <1>1

LEMMA PunctuatorSkip ==
  ASSUME LexerInv, start.offset <= posn.offset, NEW n \in 1 .. 3, PunctuatorAhead(n), SkipChars
  PROVE  PunctuatorText' /\ (start.offset <= posn.offset)'
<1>1. /\ text \in Seq(Chars) /\ start.offset \in Nat /\ n <= Len(ahead)
  BY SoFarIs DEF PunctuatorAhead
<1> DEFINE S == {Call("shift"), Call("matches_equals")}
<1>2. /\ <<>> \in Seq(S) /\ <<Call("shift")>> \in Seq(S) /\ <<Call("matches_equals")>> \in Seq(S)
      /\ <<Skip(n)>> \o <<>> = <<Skip(n)>>
      /\ <<Skip(n)>> \o <<Call("shift")>> = <<Skip(n), Call("shift")>>
      /\ <<Skip(n)>> \o <<Call("matches_equals")>> = <<Skip(n), Call("matches_equals")>>
  <2>1. /\ <<>> \in Seq(S) /\ <<Call("shift")>> \in Seq(S)
        /\ <<Call("matches_equals")>> \in Seq(S)
    OBVIOUS
  <2> QED BY <2>1, Singleton, Joined
<1> HIDE DEF S
<1>3. ASSUME NEW cs \in Seq(S), Rest("punctuator", <<Skip(n)>> \o cs)
      PROVE  /\ UNCHANGED <<start, text, ended>> /\ (start.offset <= posn.offset)'
             /\ \/ Rest("punctuator", cs)' /\ SoFar' = Upcoming(n)
                \/ /\ n - 1 \in 1 .. 3 /\ n - 1 <= Len(ahead)'
                   /\ Rest("punctuator", <<Skip(n - 1)>> \o cs)' /\ Upcoming(n - 1)' = Upcoming(n)
  BY <1>1, <1>3, SkipsOne
<1>4. /\ <<Skip(n - 1)>> \o <<>> = <<Skip(n - 1)>>
      /\ <<Skip(n - 1)>> \o <<Call("shift")>> = <<Skip(n - 1), Call("shift")>>
      /\ <<Skip(n - 1)>> \o <<Call("matches_equals")>> = <<Skip(n - 1), Call("matches_equals")>>
  BY Singleton, Joined
<1>5. CASE Rest("punctuator", <<Skip(n)>>) /\ Longest(Upcoming(n), start.offset)
  <2>1. /\ UNCHANGED <<start, text, ended>> /\ (start.offset <= posn.offset)'
        /\ \/ Rest("punctuator", <<>>)' /\ SoFar' = Upcoming(n)
           \/ /\ n - 1 \in 1 .. 3 /\ n - 1 <= Len(ahead)'
              /\ Rest("punctuator", <<Skip(n - 1)>>)' /\ Upcoming(n - 1)' = Upcoming(n)
    BY <1>2, <1>3, <1>4, <1>5
  <2>2. PICK p : p = Upcoming(n)
    OBVIOUS
  <2>3. /\ SoFar' = p => Longest(SoFar, start.offset)'
        /\ \A m \in Nat : Upcoming(m)' = p => Longest(Upcoming(m), start.offset)'
    BY <1>1, <1>5, <2>1, <2>2, LongestNext, StaysGrown
  <2>4. CASE Rest("punctuator", <<>>)' /\ SoFar' = Upcoming(n)
    BY <2>1, <2>2, <2>3, <2>4 DEF PunctuatorText, PunctuatorRead
  <2>5. CASE /\ n - 1 \in 1 .. 3 /\ n - 1 <= Len(ahead)'
             /\ Rest("punctuator", <<Skip(n - 1)>>)' /\ Upcoming(n - 1)' = Upcoming(n)
    <3>1. PICK m : m = n - 1
      OBVIOUS
    <3>2. PunctuatorAhead(m)'
      BY <2>2, <2>3, <2>5, <3>1 DEF PunctuatorAhead
    <3> QED BY <2>1, <2>5, <3>1, <3>2 DEF PunctuatorText
  <2> QED BY <2>1, <2>4, <2>5
<1>6. CASE Rest("punctuator", <<Skip(n), Call("shift")>>) /\ Upcoming(n) = <<">", ">">>
  <2>1. /\ UNCHANGED <<start, text, ended>> /\ (start.offset <= posn.offset)'
        /\ \/ Rest("punctuator", <<Call("shift")>>)' /\ SoFar' = Upcoming(n)
           \/ /\ n - 1 \in 1 .. 3 /\ n - 1 <= Len(ahead)'
              /\ Rest("punctuator", <<Skip(n - 1), Call("shift")>>)'
              /\ Upcoming(n - 1)' = Upcoming(n)
    BY <1>2, <1>3, <1>4, <1>6
  <2>2. PICK m : m = n - 1
    OBVIOUS
  <2>3. CASE Rest("punctuator", <<Call("shift")>>)' /\ SoFar' = Upcoming(n)
    BY <1>6, <2>1, <2>3 DEF PunctuatorText, PunctuatorRead
  <2>4. CASE /\ m \in 1 .. 3 /\ m <= Len(ahead)'
             /\ Rest("punctuator", <<Skip(m), Call("shift")>>)'
             /\ Upcoming(m)' = Upcoming(n)
    BY <1>6, <2>1, <2>4 DEF PunctuatorText, PunctuatorAhead
  <2> QED BY <2>1, <2>2, <2>3, <2>4
<1>7. CASE /\ Rest("punctuator", <<Skip(n), Call("matches_equals")>>)
           /\ Upcoming(n) \in PairsBeforeEquals
  <2>1. /\ UNCHANGED <<start, text, ended>> /\ (start.offset <= posn.offset)'
        /\ \/ Rest("punctuator", <<Call("matches_equals")>>)' /\ SoFar' = Upcoming(n)
           \/ /\ n - 1 \in 1 .. 3 /\ n - 1 <= Len(ahead)'
              /\ Rest("punctuator", <<Skip(n - 1), Call("matches_equals")>>)'
              /\ Upcoming(n - 1)' = Upcoming(n)
    BY <1>2, <1>3, <1>4, <1>7
  <2>2. PICK m : m = n - 1
    OBVIOUS
  <2>3. CASE Rest("punctuator", <<Call("matches_equals")>>)' /\ SoFar' = Upcoming(n)
    BY <1>7, <2>1, <2>3 DEF PunctuatorText, PunctuatorRead
  <2>4. CASE /\ m \in 1 .. 3 /\ m <= Len(ahead)'
             /\ Rest("punctuator", <<Skip(m), Call("matches_equals")>>)'
             /\ Upcoming(m)' = Upcoming(n)
    BY <1>7, <2>1, <2>4 DEF PunctuatorText, PunctuatorAhead
  <2> QED BY <2>1, <2>2, <2>3, <2>4
<1> QED BY <1>5, <1>6, <1>7 DEF PunctuatorAhead
-----------------------------------------------------------------------------
\* A short sequence is the tuple of its elements.
LEMMA AsTuple ==
  ASSUME NEW S, NEW s \in Seq(S)
  PROVE  /\ Len(s) >= 2 /\ Len(s) <= 2 => s = <<s[1], s[2]>>
         /\ Len(s) >= 3 /\ Len(s) <= 3 => s = <<s[1], s[2], s[3]>>
         /\ Len(s) >= 4 /\ Len(s) <= 4 => s = <<s[1], s[2], s[3], s[4]>>
<1>1. ASSUME Len(s) >= 3, Len(s) <= 3 PROVE s = <<s[1], s[2], s[3]>>
  <2> DEFINE t == <<s[1], s[2], s[3]>>
  <2>1. 1 \in 1 .. Len(s) /\ 2 \in 1 .. Len(s) /\ 3 \in 1 .. Len(s) /\ Len(s) \in Nat
    BY <1>1
  <2>2. s[1] \in S /\ s[2] \in S /\ s[3] \in S
    BY <2>1
  <2>3. t \in Seq(S)
    BY <2>2, Tuples
  <2>4. /\ Len(t) >= 3 /\ Len(t) <= 3 /\ Len(t) \in Nat
        /\ t[1] = s[1] /\ t[2] = s[2] /\ t[3] = s[3]
    BY TupleLengths
  <2> HIDE DEF t
  <2>5. \A k, m \in Nat : k <= 3 /\ k >= 3 /\ m <= 3 /\ m >= 3 => k = m
    OBVIOUS
  <2>6. Len(s) = Len(t)
    BY <1>1, <2>1, <2>4, <2>5
  <2>7. \A i \in 1 .. Len(s) : i = 1 \/ i = 2 \/ i = 3
    BY <1>1, <2>1
  <2>8. \A i \in 1 .. Len(s) : s[i] = t[i]
    BY <2>4, <2>7
  <2>9. s = t
    BY <2>3, <2>6, <2>8, SeqEqual
  <2> QED BY <2>9 DEF t
<1>2. ASSUME Len(s) >= 4, Len(s) <= 4 PROVE s = <<s[1], s[2], s[3], s[4]>>
  <2> DEFINE t == <<s[1], s[2], s[3], s[4]>>
  <2>1. 1 \in 1 .. Len(s) /\ 2 \in 1 .. Len(s) /\ 3 \in 1 .. Len(s) /\ 4 \in 1 .. Len(s) /\ Len(s) \in Nat
    BY <1>2
  <2>2. s[1] \in S /\ s[2] \in S /\ s[3] \in S /\ s[4] \in S
    BY <2>1
  <2>3. t \in Seq(S)
    BY <2>2, Tuples
  <2>4. /\ Len(t) >= 4 /\ Len(t) <= 4 /\ Len(t) \in Nat
        /\ t[1] = s[1] /\ t[2] = s[2] /\ t[3] = s[3] /\ t[4] = s[4]
    BY TupleLengths
  <2> HIDE DEF t
  <2>5. \A k, m \in Nat : k <= 4 /\ k >= 4 /\ m <= 4 /\ m >= 4 => k = m
    OBVIOUS
  <2>6. Len(s) = Len(t)
    BY <1>2, <2>1, <2>4, <2>5
  <2>7. \A i \in 1 .. Len(s) : i = 1 \/ i = 2 \/ i = 3 \/ i = 4
    BY <1>2, <2>1
  <2>8. \A i \in 1 .. Len(s) : s[i] = t[i]
    BY <2>4, <2>7
  <2>9. s = t
    BY <2>3, <2>6, <2>8, SeqEqual
  <2> QED BY <2>9 DEF t
<1>3. ASSUME Len(s) >= 2, Len(s) <= 2 PROVE s = <<s[1], s[2]>>
  <2> DEFINE t == <<s[1], s[2]>>
  <2>1. 1 \in 1 .. Len(s) /\ 2 \in 1 .. Len(s) /\ Len(s) \in Nat
    BY <1>3
  <2>2. s[1] \in S /\ s[2] \in S
    BY <2>1
  <2>3. t \in Seq(S)
    BY <2>2, Tuples
  <2>4. /\ Len(t) >= 2 /\ Len(t) <= 2 /\ Len(t) \in Nat
        /\ t[1] = s[1] /\ t[2] = s[2]
    BY TupleLengths
  <2> HIDE DEF t
  <2>5. \A k, m \in Nat : k <= 2 /\ k >= 2 /\ m <= 2 /\ m >= 2 => k = m
    OBVIOUS
  <2>6. Len(s) = Len(t)
    BY <1>3, <2>1, <2>4, <2>5
  <2>7. \A i \in 1 .. Len(s) : i = 1 \/ i = 2
    BY <1>3, <2>1
  <2>8. \A i \in 1 .. Len(s) : s[i] = t[i]
    BY <2>4, <2>7
  <2>9. s = t
    BY <2>3, <2>6, <2>8, SeqEqual
  <2> QED BY <2>9 DEF t
<1> QED BY <1>1, <1>2, <1>3, Zenon

LEMMA AsSingle ==
  ASSUME NEW S, NEW s \in Seq(S), NEW a, s[1] = a, Len(s) >= 1, Len(s) <= 1 PROVE s = <<a>>
<1> DEFINE t == <<a>>
<1>1. a \in S
  OBVIOUS
<1>2. t \in Seq(S) /\ Len(t) >= 1 /\ Len(t) <= 1 /\ t[1] = a
  BY <1>1
<1> HIDE DEF t
<1>3. \A m \in Nat, n \in Nat : m <= 1 /\ m >= 1 /\ n <= 1 /\ n >= 1 => m = n
  OBVIOUS
<1>4. Len(s) = Len(t)
  BY <1>2, <1>3
<1>5. \A i \in 1 .. Len(s) : s[i] = t[i]
  <2>1. \A i \in 1 .. Len(s) : i = 1
    OBVIOUS
  <2> QED BY <1>2, <2>1
<1>6. s = t
  BY <1>2, <1>4, <1>5, SeqEqual
<1> QED BY <1>6 DEF t

\* A call returns: those after it are left.
LEMMA RestReturns ==
  ASSUME NEW k, NEW a, NEW b, NEW c, NEW d, Then(<<>>)
  PROVE  /\ Rest(k, <<a>>) => Rest(k, <<>>)'
         /\ Rest(k, <<a, b>>) => Rest(k, <<b>>)'
         /\ Rest(k, <<a, b, c>>) => Rest(k, <<b, c>>)'
         /\ Rest(k, <<a, b, c, d>>) => Rest(k, <<b, c, d>>)'
<1>1. Rest(k, <<a>>) => Rest(k, <<>>)'
  <2> DEFINE S == {a}
  <2>1. <<>> \in Seq(S) /\ <<a>> \o <<>> = <<a>>
    BY Singleton
  <2> HIDE DEF S
  <2> QED BY <2>1, RestTail
<1>2. Rest(k, <<a, b>>) => Rest(k, <<b>>)'
  BY DEF Rest, Then, This, End
<1>3. Rest(k, <<a, b, c>>) => Rest(k, <<b, c>>)'
  BY DEF Rest, Then, This, End
<1>4. Rest(k, <<a, b, c, d>>) => Rest(k, <<b, c, d>>)'
  BY DEF Rest, Then, This, End
<1> QED BY <1>1, <1>2, <1>3, <1>4

\* The call at hand.
LEMMA RestHead ==
  ASSUME NEW k, NEW a, NEW b, NEW c, NEW d
  PROVE  /\ Rest(k, <<a>>) => This = a /\ todo # <<>>
         /\ Rest(k, <<a, b>>) => This = a /\ todo # <<>>
         /\ Rest(k, <<a, b, c>>) => This = a /\ todo # <<>>
         /\ Rest(k, <<a, b, c, d>>) => This = a /\ todo # <<>>
BY DEF Rest, This, End

\* One call takes the place of another.
LEMMA RestReplaced ==
  ASSUME NEW k, NEW a, NEW b, Rest(k, <<a>>), Then(<<b>>) PROVE Rest(k, <<b>>)'
BY DEF Rest, Then, This, End

LEMMA PunctuatorShift ==
  ASSUME LexerInv, start.offset <= posn.offset,
         Rest("punctuator", <<Call("shift")>>), SoFar = <<">", ">">>, Shift
  PROVE  PunctuatorText' /\ (start.offset <= posn.offset)'
<1> DEFINE new == IF Starts(<<">", "=">>) THEN <<Skip(2)>>
                  ELSE IF Next1 \in {">", "="} THEN <<Skip(1)>> ELSE <<>>
<1>1. PICK b \in Nat : b = start.offset
  BY SoFarIs
<1>2. /\ text \in Seq(Chars) /\ start.offset \in Nat /\ posn.offset \in Nat
      /\ Len(SoFar) = posn.offset - start.offset
      /\ \A i \in 1 .. Len(SoFar) : SoFar[i] = text[start.offset + i]
      /\ Len(ahead) \in Nat /\ Len(text) \in Nat /\ Len(text) = posn.offset + Len(ahead)
      /\ \A i \in 1 .. Len(ahead) : ahead[i] = text[posn.offset + i]
      /\ ahead \in Seq(Chars)
  BY SoFarIs, AheadIs
<1>3. /\ Len(SoFar) >= 2 /\ Len(SoFar) <= 2 /\ SoFar[1] = ">" /\ SoFar[2] = ">"
      /\ Len(SoFar) \in Nat
  BY TupleLengths
<1>4. posn.offset = b + 2 /\ text[b + 1] = ">" /\ text[b + 2] = ">" /\ b + 2 <= Len(text)
  <2>1. 1 \in 1 .. Len(SoFar) /\ 2 \in 1 .. Len(SoFar)
    BY <1>3
  <2>2. \A l \in Nat, o \in Nat, t \in Nat, a \in Nat :
          l = o - b /\ l >= 2 /\ l <= 2 /\ t = o + a => o = b + 2 /\ b + 2 <= t
    OBVIOUS
  <2>3. posn.offset = b + 2 /\ b + 2 <= Len(text)
    BY <1>1, <1>2, <1>3, <2>2
  <2> QED BY <1>1, <1>2, <1>3, <2>1, <2>3
<1>5. /\ b + 4 <= Len(text) => Longest(<<">", ">", ">", "=">>, b)
      /\ (ended /\ Len(text) <= b + 3) \/ (b + 4 <= Len(text) /\ text[b + 4] # "=")
           => Longest(<<">", ">", ">">>, b)
      /\ b + 3 <= Len(text) /\ text[b + 3] = "=" => Longest(<<">", ">", "=">>, b)
      /\ (ended /\ Len(text) <= b + 2) \/ (b + 3 <= Len(text) /\ text[b + 3] \notin {">", "="})
           => Longest(<<">", ">">>, b)
  BY <1>2, <1>4, LongestShift
<1>6. At("shift") /\ Stay(new)
  BY DEF Shift
<1>7. Len(ahead) >= 2 \/ ended
  <2>1. Peeked = 2
    BY <1>6 DEF At, Peeked, Silent
  <2> QED BY <1>6, <2>1 DEF At, Ahead
<1>8. Then(new) /\ SoFar' = SoFar /\ UNCHANGED <<readerVars, start>>
  BY <1>6, StayKeeps
<1>9. /\ (start.offset <= posn.offset)' /\ UNCHANGED <<text, ended, ahead, posn>>
  BY <1>8 DEF readerVars
<1>10. Grows
  BY <1>2, <1>9, StaysGrown
<1>11. \A n \in 0 .. 2 : Upcoming(n)' = Upcoming(n)
  BY <1>8, <1>9 DEF Upcoming
<1>12. /\ Len(ahead) > 0 => ahead[1] = text[b + 3] /\ b + 3 <= Len(text) /\ Next1 = ahead[1]
       /\ Len(ahead) > 1 => ahead[2] = text[b + 4] /\ b + 4 <= Len(text)
       /\ ~(Len(ahead) > 0) => Len(text) <= b + 2 /\ Next1 = EndOfText
       /\ ~(Len(ahead) > 1) /\ Len(ahead) > 0 => Len(text) <= b + 3
  <2>0. \A l \in Nat, t \in Nat, o \in Nat : t = o + l /\ o = b + 2 =>
          /\ l > 0 => 1 \in 1 .. l /\ b + 3 <= t
          /\ l > 1 => 2 \in 1 .. l /\ b + 4 <= t
          /\ ~(l > 0) => t <= b + 2
          /\ ~(l > 1) => t <= b + 3
          /\ o + 1 = b + 3 /\ o + 2 = b + 4
    OBVIOUS
  <2>1. /\ Len(ahead) > 0 => 1 \in 1 .. Len(ahead) /\ b + 3 <= Len(text)
        /\ Len(ahead) > 1 => 2 \in 1 .. Len(ahead) /\ b + 4 <= Len(text)
        /\ ~(Len(ahead) > 0) => Len(text) <= b + 2
        /\ ~(Len(ahead) > 1) => Len(text) <= b + 3
        /\ posn.offset + 1 = b + 3 /\ posn.offset + 2 = b + 4
    BY <1>1, <1>2, <1>4, <2>0
  <2>2. /\ Len(ahead) > 0 => ahead[1] = text[b + 3]
        /\ Len(ahead) > 1 => ahead[2] = text[b + 4]
    BY <1>2, <2>1
  <2>4. /\ Len(ahead) > 0 => Next1 = ahead[1]
        /\ ~(Len(ahead) > 0) => Next1 = EndOfText
    BY <1>2 DEF Next1, PeekAt
  <2> QED BY <2>1, <2>2, <2>4
<1>13. /\ 1 <= Len(ahead) => Upcoming(1) = <<text[b + 1], text[b + 2], text[b + 3]>>
       /\ 2 <= Len(ahead) =>
            Upcoming(2) = <<text[b + 1], text[b + 2], text[b + 3], text[b + 4]>>
  <2>1. ASSUME NEW n \in 1 .. 2, n <= Len(ahead)
        PROVE  /\ Upcoming(n) \in Seq(Chars) /\ Len(Upcoming(n)) \in Nat
               /\ Len(Upcoming(n)) >= n + 2 /\ Len(Upcoming(n)) <= n + 2
               /\ \A i \in 1 .. n + 2 : Upcoming(n)[i] = text[b + i]
    <3>1. /\ Upcoming(n) \in Seq(Chars) /\ Len(Upcoming(n)) = (posn.offset + n) - start.offset
          /\ \A i \in 1 .. Len(Upcoming(n)) : Upcoming(n)[i] = text[start.offset + i]
      BY <1>2, <2>1, UpcomingIs
    <3>2. (posn.offset + n) - start.offset = n + 2
      BY <1>1, <1>4
    <3> QED BY <1>1, <3>1, <3>2
  <2>2. ASSUME 1 <= Len(ahead) PROVE Upcoming(1) = <<text[b + 1], text[b + 2], text[b + 3]>>
    <3>1. /\ Upcoming(1) \in Seq(Chars) /\ Len(Upcoming(1)) >= 3 /\ Len(Upcoming(1)) <= 3
          /\ \A i \in 1 .. 3 : Upcoming(1)[i] = text[b + i]
      BY <2>1, <2>2
    <3>2. Upcoming(1) = <<Upcoming(1)[1], Upcoming(1)[2], Upcoming(1)[3]>>
      BY <3>1, AsTuple
    <3> QED BY <3>1, <3>2
  <2>3. ASSUME 2 <= Len(ahead)
        PROVE Upcoming(2) = <<text[b + 1], text[b + 2], text[b + 3], text[b + 4]>>
    <3>1. /\ Upcoming(2) \in Seq(Chars) /\ Len(Upcoming(2)) >= 4 /\ Len(Upcoming(2)) <= 4
          /\ \A i \in 1 .. 4 : Upcoming(2)[i] = text[b + i]
      BY <2>1, <2>3
    <3>2. Upcoming(2) = <<Upcoming(2)[1], Upcoming(2)[2], Upcoming(2)[3], Upcoming(2)[4]>>
      BY <3>1, AsTuple
    <3> QED BY <3>1, <3>2
  <2> QED BY <2>2, <2>3
<1>14. ASSUME NEW n \in 1 .. 2, n <= Len(ahead), new = <<Skip(n)>>, Longest(Upcoming(n), b)
       PROVE  PunctuatorText'
  <2>1. Rest("punctuator", <<Skip(n)>>)'
    BY <1>8, <1>14, RestReplaced
  <2>2. Longest(Upcoming(n), start.offset)'
    <3>1. PICK p : p = Upcoming(n)
      OBVIOUS
    <3>2. Upcoming(n)' = p /\ n \in Nat /\ Longest(p, start.offset)
      BY <1>1, <1>11, <1>14, <3>1
    <3> QED BY <1>2, <1>8, <1>10, <3>2, LongestNext
  <2>3. PunctuatorAhead(n)'
    BY <1>9, <1>14, <2>1, <2>2 DEF PunctuatorAhead
  <2> QED BY <2>3 DEF PunctuatorText
<1>15. CASE Starts(<<">", "=">>)
  <2>1. Len(ahead) >= 2 /\ ahead[1] = ">" /\ ahead[2] = "="
    BY <1>2, <1>15, StartsWith
  <2>2. Longest(<<">", ">", ">", "=">>, b)
    BY <1>2, <1>5, <1>12, <2>1
  <2>3. Upcoming(2) = <<text[b + 1], text[b + 2], text[b + 3], text[b + 4]>>
    BY <1>2, <1>13, <2>1
  <2>4. Upcoming(2) = <<">", ">", ">", "=">>
    BY <1>2, <1>4, <1>12, <2>1, <2>3
  <2>7. \A l \in Nat : l >= 2 => 2 <= l
    OBVIOUS
  <2>8. Longest(Upcoming(2), b)
    BY <2>2, <2>4
  <2>9. new = <<Skip(2)>>
    BY <1>15
  <2>5. 2 \in 1 .. 2 /\ 2 <= Len(ahead) /\ Longest(Upcoming(2), b) /\ new = <<Skip(2)>>
    <3>1. 2 <= Len(ahead)
      BY <1>2, <2>1, <2>7
    <3>2. 2 \in 1 .. 2
      OBVIOUS
    <3> QED BY <2>8, <2>9, <3>1, <3>2
  <2>6. PunctuatorText'
    BY <1>14, <2>5
  <2> QED BY <1>9, <2>6
<1>16. CASE ~Starts(<<">", "=">>) /\ Next1 \in {">", "="}
  <2>0. new = <<Skip(1)>>
    BY <1>16
  <2>9. Len(ahead) > 0
    BY <1>12, <1>16 DEF EndOfText
  <2>10. \A l \in Nat : l > 0 => 1 <= l
    OBVIOUS
  <2>1. Len(ahead) > 0 /\ 1 <= Len(ahead) /\ new = <<Skip(1)>> /\ text[b + 3] \in {">", "="}
        /\ b + 3 <= Len(text) /\ 1 \in 1 .. 2
    BY <1>2, <1>12, <1>16, <2>0, <2>9, <2>10
  <2>2. Upcoming(1) = <<text[b + 1], text[b + 2], text[b + 3]>>
    BY <1>2, <1>13, <2>1
  <2>3. CASE text[b + 3] = "="
    <3>1. Longest(<<">", ">", "=">>, b) /\ Upcoming(1) = <<">", ">", "=">>
      BY <1>4, <1>5, <2>1, <2>2, <2>3
    <3> QED BY <1>9, <1>14, <2>1, <3>1
  <2>4. CASE text[b + 3] = ">"
    <3>1. \/ ended /\ Len(text) <= b + 3
          \/ b + 4 <= Len(text) /\ text[b + 4] # "="
      <4>1. CASE Len(ahead) > 1
        <5>1. ~(Len(ahead) >= 2 /\ ahead[1] = ">" /\ ahead[2] = "=")
          BY <1>2, <1>16, StartsWith
        <5> QED BY <1>2, <1>12, <2>4, <4>1, <5>1
      <4>2. CASE ~(Len(ahead) > 1)
        BY <1>2, <1>7, <1>12, <2>1, <4>2
      <4> QED BY <4>1, <4>2
    <3>3. Longest(<<">", ">", ">">>, b)
      BY <1>5, <3>1
    <3>4. Upcoming(1) = <<">", ">", ">">>
      BY <1>4, <2>2, <2>4
    <3>2. Longest(Upcoming(1), b)
      BY <3>3, <3>4
    <3> QED BY <1>9, <1>14, <2>1, <3>2
  <2> QED BY <2>1, <2>3, <2>4
<1>17. CASE ~Starts(<<">", "=">>) /\ Next1 \notin {">", "="}
  <2>1. new = <<>>
    BY <1>17
  <2>2. Rest("punctuator", <<>>)'
    BY <1>8, <2>1, RestReturns
  <2>3. \/ ended /\ Len(text) <= b + 2
        \/ b + 3 <= Len(text) /\ text[b + 3] \notin {">", "="}
    BY <1>2, <1>7, <1>12, <1>17
  <2>6. Longest(<<">", ">">>, b)
    BY <1>5, <2>3
  <2>4. Longest(<<">", ">">>, start.offset)
    BY <1>1, <2>6
  <2>5. Longest(SoFar, start.offset)'
    BY <1>2, <1>8, <1>10, <2>4, LongestNext
  <2> QED BY <1>9, <2>2, <2>5 DEF PunctuatorText, PunctuatorRead
<1> QED BY <1>15, <1>16, <1>17

LEMMA PunctuatorEquals ==
  ASSUME LexerInv, start.offset <= posn.offset,
         Rest("punctuator", <<Call("matches_equals")>>), SoFar \in PairsBeforeEquals,
         MatchesEquals
  PROVE  PunctuatorText' /\ (start.offset <= posn.offset)'
<1>0. PICK b \in Nat : b = start.offset
  BY SoFarIs
<1>1. PICK p : b = start.offset /\ p = SoFar
  BY <1>0
<1>2. /\ text \in Seq(Chars) /\ start.offset \in Nat /\ posn.offset \in Nat
      /\ Len(SoFar) = posn.offset - start.offset /\ SoFar \in Seq(Chars)
      /\ \A i \in 1 .. Len(SoFar) : SoFar[i] = text[start.offset + i]
      /\ Len(ahead) \in Nat /\ Len(text) \in Nat /\ Len(text) = posn.offset + Len(ahead)
      /\ \A i \in 1 .. Len(ahead) : ahead[i] = text[posn.offset + i]
  BY SoFarIs, AheadIs
<1>3. Len(SoFar) >= 2 /\ Len(SoFar) <= 2 /\ Len(SoFar) \in Nat
  <2>1. \E c, d : SoFar = <<c, d>>
    BY DEF PairsBeforeEquals
  <2> QED BY <2>1, TupleLengths
<1>4. posn.offset = b + 2 /\ p = <<text[b + 1], text[b + 2]>> /\ b + 2 <= Len(text)
  <2>1. 1 \in 1 .. Len(SoFar) /\ 2 \in 1 .. Len(SoFar)
    BY <1>3
  <2>2. SoFar = <<SoFar[1], SoFar[2]>>
    BY <1>2, <1>3
  <2>4. \A l \in Nat, o \in Nat, t \in Nat, a \in Nat :
          l = o - b /\ l >= 2 /\ l <= 2 /\ t = o + a => o = b + 2 /\ b + 2 <= t
    OBVIOUS
  <2>3. posn.offset = b + 2 /\ b + 2 <= Len(text)
    BY <1>1, <1>2, <1>3, <2>4
  <2> QED BY <1>1, <1>2, <2>1, <2>2, <2>3
<1>5. /\ b + 3 <= Len(text) => Longest(Append(p, "="), b)
      /\ (ended /\ Len(text) <= b + 2) \/ (b + 3 <= Len(text) /\ text[b + 3] # "=")
           => Longest(p, b)
  BY <1>1, <1>2, <1>4, LongestEquals
<1>6. At("matches_equals") /\ IF Next1 = "=" THEN Consume(<<>>) ELSE Stay(<<>>)
  BY DEF MatchesEquals
<1>7. Len(ahead) >= 1 \/ ended
  <2>1. Peeked = 1
    BY <1>6 DEF At, Peeked, Silent
  <2> QED BY <1>6, <2>1 DEF At, Ahead
<1>8. /\ Len(ahead) > 0 => Next1 = text[b + 3] /\ b + 3 <= Len(text)
      /\ ~(Len(ahead) > 0) => Len(text) <= b + 2 /\ Next1 = EndOfText
  <2>0. \A l \in Nat, t \in Nat, o \in Nat : t = o + l /\ o = b + 2 =>
          /\ l > 0 => 1 \in 1 .. l /\ b + 3 <= t
          /\ ~(l > 0) => t <= b + 2
          /\ o + 1 = b + 3
    OBVIOUS
  <2>1. /\ Len(ahead) > 0 => 1 \in 1 .. Len(ahead) /\ b + 3 <= Len(text)
        /\ ~(Len(ahead) > 0) => Len(text) <= b + 2
        /\ posn.offset + 1 = b + 3
    BY <1>1, <1>2, <1>4, <2>0
  <2>2. Len(ahead) > 0 => ahead[1] = text[b + 3]
    BY <1>2, <2>1
  <2>4. /\ Len(ahead) > 0 => Next1 = ahead[1]
        /\ ~(Len(ahead) > 0) => Next1 = EndOfText
    BY <1>2 DEF Next1, PeekAt
  <2> QED BY <2>1, <2>2, <2>4
<1>9. CASE Next1 = "="
  <2>1. /\ Then(<<>>) /\ SoFar' = Append(SoFar, Next1) /\ (start.offset <= posn.offset)'
        /\ UNCHANGED <<start, text, ended>>
    BY <1>6, <1>9, ConsumeTakes
  <2>2. Longest(Append(p, "="), start.offset)
    BY <1>1, <1>5, <1>8, <1>9 DEF EndOfText
  <2>3. SoFar' = Append(p, "=")
    BY <1>1, <1>9, <2>1
  <2>4. Longest(SoFar, start.offset)'
    BY <1>2, <2>1, <2>2, <2>3, LongestNext, StaysGrown
  <2>5. Rest("punctuator", <<>>)'
    BY <2>1, RestReturns
  <2> QED BY <2>1, <2>4, <2>5 DEF PunctuatorText, PunctuatorRead
<1>10. CASE Next1 # "="
  <2>1. Then(<<>>) /\ SoFar' = SoFar /\ UNCHANGED <<readerVars, start>>
    BY <1>6, <1>10, StayKeeps
  <2>2. UNCHANGED <<text, ended, posn>>
    BY <2>1 DEF readerVars
  <2>6. \A l \in Nat : l >= 1 => l > 0
    OBVIOUS
  <2>7. \/ ended /\ Len(text) <= b + 2
        \/ b + 3 <= Len(text) /\ text[b + 3] # "="
    BY <1>2, <1>7, <1>8, <1>10, <2>6
  <2>8. Longest(p, b)
    BY <1>5, <2>7
  <2>3. Longest(p, start.offset)
    BY <1>1, <2>8
  <2>4. Longest(SoFar, start.offset)'
    BY <1>1, <1>2, <2>1, <2>2, <2>3, LongestNext, StaysGrown
  <2>5. Rest("punctuator", <<>>)'
    BY <2>1, RestReturns
  <2> QED BY <2>1, <2>2, <2>4, <2>5 DEF PunctuatorText, PunctuatorRead
<1> QED BY <1>9, <1>10
-----------------------------------------------------------------------------
\* The first call of a token: those of its kind take its place.
LEMMA TokenReplaced ==
  ASSUME todo = <<Call("token")>>, NEW S, NEW cs \in Seq(S), NEW k, Then(cs \o <<End(k)>>)
  PROVE  Rest(k, cs)'
<1> DEFINE whole == cs \o <<End(k)>>
<1>1. Tail(todo) = <<>>
  OBVIOUS
<1>2. whole \in Seq(S \cup {End(k)}) /\ whole \o <<>> = whole
  OBVIOUS
<1>3. todo' = whole
  BY <1>1, <1>2 DEF Then
<1> QED BY <1>3 DEF Rest

\* What each punctuator's beginning calls.
LEMMA CallsOfPunctuator ==
  ASSUME ahead \in Seq(Chars)
  PROVE  /\ Starts(<<".", ".", ".">>) => PunctuatorCalls = <<Skip(3)>>
         /\ Starts(<<">", ">">>) => PunctuatorCalls = <<Skip(2), Call("shift")>>
         /\ Len(ahead) > 1 /\ <<Next1, PeekAt(1)>> \in PairsBeforeEquals
              => PunctuatorCalls = <<Skip(2), Call("matches_equals")>>
         /\ Len(ahead) > 1 /\ <<Next1, PeekAt(1)>> \in Pairs => PunctuatorCalls = <<Skip(2)>>
         /\ \/ Starts(<<".", ".", ".">>)
            \/ Starts(<<">", ">">>)
            \/ Len(ahead) > 1 /\ <<Next1, PeekAt(1)>> \in PairsBeforeEquals
            \/ Len(ahead) > 1 /\ <<Next1, PeekAt(1)>> \in Pairs
            \/ PunctuatorCalls = <<Skip(1)>>
<1> DEFINE D == Starts(<<".", ".", ".">>)
           A == Starts(<<">", ">">>)
           E == Len(ahead) > 1 /\ <<Next1, PeekAt(1)>> \in PairsBeforeEquals
           P == Len(ahead) > 1 /\ <<Next1, PeekAt(1)>> \in Pairs
<1>0. /\ Len(ahead) >= 2 => Next1 = ahead[1] /\ PeekAt(1) = ahead[2]
      /\ Len(ahead) >= 3 => Len(ahead) >= 2
  BY DEF Next1, PeekAt
<1>1. D => Next1 = "."
  BY <1>0, StartsWith
<1>2. A => Next1 = ">" /\ PeekAt(1) = ">"
  BY <1>0, StartsWith
<1>3. E => Next1 \in {"<", "=", "!"} /\ ~P
  BY PairMarks
<1>4. P => Next1 # "." /\ ~(Next1 = ">" /\ PeekAt(1) = ">")
  BY PairMarks
<1>5. PunctuatorCalls = CASE D -> <<Skip(3)>>
                          [] A -> <<Skip(2), Call("shift")>>
                          [] E -> <<Skip(2), Call("matches_equals")>>
                          [] P -> <<Skip(2)>>
                          [] OTHER -> <<Skip(1)>>
  BY DEF PunctuatorCalls
<1> HIDE DEF D, A, E, P
<1>6. /\ D => PunctuatorCalls = <<Skip(3)>>
      /\ A => PunctuatorCalls = <<Skip(2), Call("shift")>>
      /\ E => PunctuatorCalls = <<Skip(2), Call("matches_equals")>>
      /\ P => PunctuatorCalls = <<Skip(2)>>
      /\ D \/ A \/ E \/ P \/ PunctuatorCalls = <<Skip(1)>>
  BY <1>1, <1>2, <1>3, <1>4, <1>5
<1> QED BY <1>6 DEF D, A, E, P

LEMMA PunctuatorStarts ==
  ASSUME LexerInv, todo = <<Call("token")>>, start.offset = posn.offset, At("token"),
         Stay(PunctuatorCalls \o <<End("punctuator")>>), Next1 \in Singles, ~StartsNumber
  PROVE  PunctuatorText' /\ (start.offset <= posn.offset)'
<1>0. start.offset <= posn.offset
  BY DEF LexerInv, LexerTypes
<1>1. PICK b \in Nat : b = start.offset /\ b = posn.offset
  BY <1>0, SoFarIs
<1>2. /\ text \in Seq(Chars) /\ start.offset \in Nat /\ posn.offset \in Nat
      /\ Len(ahead) \in Nat /\ Len(text) \in Nat /\ Len(text) = b + Len(ahead)
      /\ \A i \in 1 .. Len(ahead) : ahead[i] = text[b + i]
      /\ ahead \in Seq(Chars)
  BY <1>0, <1>1, SoFarIs, AheadIs
<1>3. /\ Then(PunctuatorCalls \o <<End("punctuator")>>) /\ UNCHANGED <<readerVars, start>>
  BY StayKeeps
<1>4. /\ (start.offset <= posn.offset)' /\ UNCHANGED <<text, ended, ahead, posn>>
  BY <1>0, <1>3 DEF readerVars
<1>5. Grows
  BY <1>2, <1>4, StaysGrown
<1>6. \A n \in 0 .. 3 : Upcoming(n)' = Upcoming(n)
  BY <1>3, <1>4 DEF Upcoming
<1>7. Rest("punctuator", PunctuatorCalls)'
  <2>1. PunctuatorCalls \in Seq(InnerCall)
    BY PunctuatorInner
  <2>2. PICK cs \in Seq(InnerCall) : cs = PunctuatorCalls
    BY <2>1
  <2>3. Rest("punctuator", cs)'
    BY <1>3, <2>2, TokenReplaced
  <2>4. PunctuatorCalls' = PunctuatorCalls
    BY <1>4 DEF PunctuatorCalls, Starts, Next1, PeekAt
  <2> QED BY <2>2, <2>3, <2>4
<1>8. /\ Len(ahead) > 0 => ahead[1] = text[b + 1] /\ b + 1 <= Len(text) /\ Next1 = ahead[1]
      /\ Len(ahead) > 1 => ahead[2] = text[b + 2] /\ b + 2 <= Len(text) /\ PeekAt(1) = ahead[2]
      /\ Len(ahead) > 2 => ahead[3] = text[b + 3] /\ b + 3 <= Len(text)
      /\ ~(Len(ahead) > 1) => Len(text) <= b + 1
      /\ ~(Len(ahead) > 2) => Len(text) <= b + 2
  <2>0. \A l \in Nat, t \in Nat : t = b + l =>
          /\ l > 0 => 1 \in 1 .. l /\ b + 1 <= t
          /\ l > 1 => 2 \in 1 .. l /\ b + 2 <= t
          /\ l > 2 => 3 \in 1 .. l /\ b + 3 <= t
          /\ ~(l > 1) => t <= b + 1
          /\ ~(l > 2) => t <= b + 2
    OBVIOUS
  <2>1. /\ Len(ahead) > 0 => 1 \in 1 .. Len(ahead) /\ b + 1 <= Len(text)
        /\ Len(ahead) > 1 => 2 \in 1 .. Len(ahead) /\ b + 2 <= Len(text)
        /\ Len(ahead) > 2 => 3 \in 1 .. Len(ahead) /\ b + 3 <= Len(text)
        /\ ~(Len(ahead) > 1) => Len(text) <= b + 1
        /\ ~(Len(ahead) > 2) => Len(text) <= b + 2
    BY <1>2, <2>0
  <2>4. /\ Len(ahead) > 0 => Next1 = ahead[1]
        /\ Len(ahead) > 1 => PeekAt(1) = ahead[2]
    BY <1>2 DEF Next1, PeekAt
  <2> QED BY <1>2, <2>1, <2>4
<1>9. Len(ahead) > 0
  BY <1>2 DEF Next1, PeekAt, EndOfText, Singles
<1>10. ASSUME NEW n \in 1 .. 3, n <= Len(ahead)
       PROVE  /\ Upcoming(n) \in Seq(Chars) /\ Len(Upcoming(n)) \in Nat
              /\ Len(Upcoming(n)) >= n /\ Len(Upcoming(n)) <= n
              /\ \A i \in 1 .. n : Upcoming(n)[i] = text[b + i]
  <2>1. /\ Upcoming(n) \in Seq(Chars) /\ Len(Upcoming(n)) = (posn.offset + n) - start.offset
        /\ \A i \in 1 .. Len(Upcoming(n)) : Upcoming(n)[i] = text[start.offset + i]
    BY <1>0, <1>10, UpcomingIs
  <2>2. (posn.offset + n) - start.offset = n
    BY <1>1
  <2> QED BY <1>1, <2>1, <2>2
<1>11. /\ Len(ahead) > 0 => Upcoming(1) = <<text[b + 1]>>
       /\ Len(ahead) > 1 => Upcoming(2) = <<text[b + 1], text[b + 2]>>
       /\ Len(ahead) > 2 => Upcoming(3) = <<text[b + 1], text[b + 2], text[b + 3]>>
  <2>0. \A l \in Nat : (l > 0 => 1 <= l) /\ (l > 1 => 2 <= l) /\ (l > 2 => 3 <= l)
    OBVIOUS
  <2>1. ASSUME Len(ahead) > 0 PROVE Upcoming(1) = <<text[b + 1]>>
    <3>1. /\ Upcoming(1) \in Seq(Chars) /\ Len(Upcoming(1)) >= 1 /\ Len(Upcoming(1)) <= 1
          /\ Upcoming(1)[1] = text[b + 1]
      BY <1>2, <1>10, <2>0, <2>1
    <3> QED BY <3>1, AsSingle
  <2>2. ASSUME Len(ahead) > 1 PROVE Upcoming(2) = <<text[b + 1], text[b + 2]>>
    <3>1. /\ Upcoming(2) \in Seq(Chars) /\ Len(Upcoming(2)) >= 2 /\ Len(Upcoming(2)) <= 2
          /\ Upcoming(2)[1] = text[b + 1] /\ Upcoming(2)[2] = text[b + 2]
      BY <1>2, <1>10, <2>0, <2>2
    <3>2. PICK u \in Seq(Chars) : u = Upcoming(2)
      BY <3>1
    <3>3. u = <<u[1], u[2]>>
      BY <3>1, <3>2, AsTuple
    <3> QED BY <3>1, <3>2, <3>3
  <2>3. ASSUME Len(ahead) > 2
        PROVE  Upcoming(3) = <<text[b + 1], text[b + 2], text[b + 3]>>
    <3>1. /\ Upcoming(3) \in Seq(Chars) /\ Len(Upcoming(3)) >= 3 /\ Len(Upcoming(3)) <= 3
          /\ Upcoming(3)[1] = text[b + 1] /\ Upcoming(3)[2] = text[b + 2]
          /\ Upcoming(3)[3] = text[b + 3]
      BY <1>2, <1>10, <2>0, <2>3
    <3>2. Upcoming(3) = <<Upcoming(3)[1], Upcoming(3)[2], Upcoming(3)[3]>>
      BY <3>1, AsTuple
    <3> QED BY <3>1, <3>2
  <2> QED BY <2>1, <2>2, <2>3
<1>12. ASSUME NEW n \in 1 .. 3, n <= Len(ahead), PunctuatorCalls' = <<Skip(n)>>,
              Longest(Upcoming(n), b)
       PROVE  PunctuatorText'
  <2>1. Rest("punctuator", <<Skip(n)>>)'
    BY <1>7, <1>12
  <2>2. Longest(Upcoming(n), start.offset)'
    <3>1. PICK p : p = Upcoming(n)
      OBVIOUS
    <3>2. Upcoming(n)' = p /\ n \in Nat /\ Longest(p, start.offset)
      BY <1>1, <1>6, <1>12, <3>1
    <3> QED BY <1>2, <1>3, <1>5, <3>2, LongestNext
  <2>3. PunctuatorAhead(n)'
    BY <1>4, <1>12, <2>1, <2>2 DEF PunctuatorAhead
  <2> QED BY <2>3 DEF PunctuatorText
<1>13. PunctuatorCalls' = PunctuatorCalls
  BY <1>4 DEF PunctuatorCalls, Starts, Next1, PeekAt
<1>14. /\ Starts(<<".", ".", ".">>) => PunctuatorCalls = <<Skip(3)>>
       /\ Starts(<<">", ">">>) => PunctuatorCalls = <<Skip(2), Call("shift")>>
       /\ Len(ahead) > 1 /\ <<Next1, PeekAt(1)>> \in PairsBeforeEquals
            => PunctuatorCalls = <<Skip(2), Call("matches_equals")>>
       /\ Len(ahead) > 1 /\ <<Next1, PeekAt(1)>> \in Pairs => PunctuatorCalls = <<Skip(2)>>
       /\ \/ Starts(<<".", ".", ".">>)
          \/ Starts(<<">", ">">>)
          \/ Len(ahead) > 1 /\ <<Next1, PeekAt(1)>> \in PairsBeforeEquals
          \/ Len(ahead) > 1 /\ <<Next1, PeekAt(1)>> \in Pairs
          \/ PunctuatorCalls = <<Skip(1)>>
  BY <1>2, CallsOfPunctuator
<1>15. /\ Len(ahead) > 1 => 2 <= Len(ahead) /\ 2 \in 1 .. 3
       /\ Len(ahead) > 2 => 3 <= Len(ahead) /\ 3 \in 1 .. 3
       /\ 1 <= Len(ahead) /\ 1 \in 1 .. 3
       /\ Len(ahead) > 1 => Len(ahead) >= 2
       /\ Len(ahead) > 2 => Len(ahead) >= 3
       /\ Len(ahead) >= 3 => Len(ahead) > 2
       /\ Len(ahead) >= 2 => Len(ahead) > 1
       /\ Len(ahead) > 2 => Len(ahead) > 1
  BY <1>2, <1>9
<1>16. CASE Starts(<<".", ".", ".">>)
  <2>1. /\ Len(ahead) > 2 /\ ahead[1] = "." /\ ahead[2] = "." /\ ahead[3] = "."
    BY <1>2, <1>15, <1>16, StartsWith
  <2>2. Upcoming(3) = <<".", ".", ".">>
    BY <1>8, <1>11, <1>15, <2>1
  <2>3. Longest(<<".", ".", ".">>, b)
    BY <1>2, <1>8, <1>9, <2>1, LongestDots
  <2> QED BY <1>4, <1>12, <1>13, <1>14, <1>15, <1>16, <2>1, <2>2, <2>3
<1>17. CASE Starts(<<">", ">">>)
  <2>1. /\ Len(ahead) > 1 /\ ahead[1] = ">" /\ ahead[2] = ">"
    BY <1>2, <1>15, <1>17, StartsWith
  <2>2. Upcoming(2) = <<">", ">">> /\ Upcoming(2)' = Upcoming(2)
    BY <1>6, <1>8, <1>9, <1>11, <2>1
  <2>3. Rest("punctuator", <<Skip(2), Call("shift")>>)'
    BY <1>7, <1>13, <1>14, <1>17
  <2>4. PunctuatorAhead(2)'
    BY <1>4, <1>15, <2>1, <2>2, <2>3 DEF PunctuatorAhead
  <2> QED BY <1>4, <2>4 DEF PunctuatorText
<1>18. CASE Len(ahead) > 1 /\ <<Next1, PeekAt(1)>> \in PairsBeforeEquals
  <2>2. Upcoming(2) \in PairsBeforeEquals /\ Upcoming(2)' = Upcoming(2)
    BY <1>6, <1>8, <1>9, <1>11, <1>18
  <2>3. Rest("punctuator", <<Skip(2), Call("matches_equals")>>)'
    BY <1>7, <1>13, <1>14, <1>18
  <2>4. PunctuatorAhead(2)'
    BY <1>4, <1>15, <1>18, <2>2, <2>3 DEF PunctuatorAhead
  <2> QED BY <1>4, <2>4 DEF PunctuatorText
<1>19. CASE Len(ahead) > 1 /\ <<Next1, PeekAt(1)>> \in Pairs
  <2>1. <<text[b + 1], text[b + 2]>> \in Pairs /\ b + 2 <= Len(text)
    BY <1>8, <1>9, <1>19
  <2>2. Upcoming(2) = <<text[b + 1], text[b + 2]>>
    BY <1>11, <1>19
  <2>3. Longest(Upcoming(2), b)
    BY <1>2, <2>1, <2>2, LongestPair
  <2> QED BY <1>4, <1>12, <1>13, <1>14, <1>15, <1>19, <2>3
<1>20. CASE /\ ~Starts(<<".", ".", ".">>) /\ ~Starts(<<">", ">">>)
            /\ ~(Len(ahead) > 1 /\ <<Next1, PeekAt(1)>> \in PairsBeforeEquals)
            /\ ~(Len(ahead) > 1 /\ <<Next1, PeekAt(1)>> \in Pairs)
  <2>1. PunctuatorCalls' = <<Skip(1)>>
    BY <1>13, <1>14, <1>20
  <2>2. text[b + 1] \in Singles /\ b + 1 <= Len(text)
    BY <1>8, <1>9
  <2>3. Len(ahead) > 1 \/ ended
    <3>1. Peeked \in {2, 3}
      BY DEF Peeked, At, Silent
    <3> QED BY <1>2, <3>1 DEF At, Ahead
  <2>4. CASE ~(Len(ahead) > 1)
    BY <1>2, <1>8, <1>11, <1>9, <1>12, <1>15, <1>4, <2>1, <2>2, <2>3, <2>4, LongestSingle
  <2>5. CASE Len(ahead) > 1
    <3>1. /\ b + 2 <= Len(text)
          /\ <<text[b + 1], text[b + 2]>> \notin Pairs \cup PairsBeforeEquals
      BY <1>8, <1>9, <1>20, <2>5
    <3>2. ~(text[b + 1] = ">" /\ text[b + 2] = ">")
      BY <1>2, <1>8, <1>9, <1>15, <1>20, <2>5, StartsWith
    <3>3. text[b + 1] = "." => text[b + 2] \notin DecDigits
      BY <1>8, <1>9, <2>5 DEF StartsNumber
    <3>4. \/ ~(text[b + 1] = "." /\ text[b + 2] = ".")
          \/ ended /\ Len(text) <= b + 2
          \/ b + 3 <= Len(text) /\ text[b + 3] # "."
      <4> SUFFICES ASSUME text[b + 1] = ".", text[b + 2] = "."
                   PROVE  \/ ended /\ Len(text) <= b + 2
                          \/ b + 3 <= Len(text) /\ text[b + 3] # "."
        OBVIOUS
      <4>1. ahead[1] = "." /\ ahead[2] = "." /\ Len(ahead) >= 2
        BY <1>2, <1>8, <1>9, <2>5
      <4>2. Starts(<<".", ".">>)
        BY <1>2, <4>1, StartsWith
      <4>3. Peeked = 3
        BY <4>2 DEF Peeked, At, Silent
      <4>4. Len(ahead) > 2 \/ ended
        BY <1>2, <4>3 DEF At, Ahead
      <4>5. CASE Len(ahead) > 2
        <5>1. ahead[3] # "."
          BY <1>2, <1>15, <1>20, <4>1, <4>5, StartsWith
        <5> QED BY <1>8, <4>5, <5>1
      <4>6. CASE ~(Len(ahead) > 2)
        BY <1>8, <4>4, <4>6
      <4> QED BY <4>5, <4>6
    <3>5. Longest(<<text[b + 1]>>, b)
      BY <1>2, <2>2, <3>1, <3>2, <3>3, <3>4, LongestSingle
    <3> QED BY <1>4, <1>9, <1>11, <1>12, <1>15, <2>1, <3>5
  <2> QED BY <2>4, <2>5
<1> QED BY <1>14, <1>16, <1>17, <1>18, <1>19, <1>20
-----------------------------------------------------------------------------
(***************************************************************************)
(* From token to token.                                                    *)
(***************************************************************************)
\* A step within a token makes calls of the kind in place of the one at hand, draws
\* a character or ends in an error.
LEMMA InnerSteps ==
  ASSUME LexerInv, LexerStep, ~PeekMore, todo # <<>>, This \in InnerCall
  PROVE  \/ \E calls \in Seq(InnerCall) : Consume(calls) \/ Stay(calls)
         \/ \E e \in Errors \cup Panics : Fail(e)
<1>1. This.fn \in InnerFns
  BY InnerCallFns
<1>2. This.fn \notin {"blank", "token", "line_comment", "block_comment", "end"}
  BY <1>1 DEF InnerFns, PlainFns
<1>3. CASE SkipChars
  <2>1. At("skip") /\ Consume(IF This.n = 1 THEN <<>> ELSE <<Skip(This.n - 1)>>)
    BY <1>3 DEF SkipChars
  <2>2. This.n \in 1 .. 4
    BY <2>1, CallAtHand DEF At
  <2>3. This.n # 1 => This.n - 1 \in 1 .. 4
    BY <2>2
  <2>4. (IF This.n = 1 THEN <<>> ELSE <<Skip(This.n - 1)>>) \in Seq(InnerCall)
    BY <2>3, Calls, Tuples
  <2> QED BY <2>1, <2>4
<1>4. CASE ~SkipChars
  <2>1. InnerMoves
    BY <1>2, <1>4, ActingCalls, WordMoves, StringMoves, NumberMoves, Zenon DEF LexerStep
  <2> QED BY <2>1 DEF InnerMoves
<1> QED BY <1>3, <1>4

\* A sequence of calls that is not over has a first one.
LEMMA FirstOf ==
  ASSUME NEW S, NEW s \in Seq(S), s # <<>>
  PROVE  \E a \in S, cs \in Seq(S) : s = <<a>> \o cs
<1>1. Head(s) \in S /\ Tail(s) \in Seq(S)
  OBVIOUS
<1>2. s = <<Head(s)>> \o Tail(s)
  OBVIOUS
<1> QED BY <1>1, <1>2

\* How a call takes a character, or none, of the text of the token.
LEMMA StepsWithin ==
  ASSUME LexerInv, start.offset <= posn.offset, NEW calls, Consume(calls) \/ Stay(calls)
  PROVE  Then(calls) /\ (start.offset <= posn.offset)'
<1>1. CASE Consume(calls)
  BY <1>1, ConsumeTakes
<1>2. CASE Stay(calls)
  <2>1. Then(calls) /\ UNCHANGED <<readerVars, start>>
    BY <1>2, StayKeeps
  <2> QED BY <2>1 DEF readerVars
<1> QED BY <1>1, <1>2

LEMMA OtherStep ==
  ASSUME LexerInv, start.offset <= posn.offset, LexerStep, Running',
         NEW k, NEW calls \in Seq(InnerCall), calls # <<>>, Rest(k, calls)
  PROVE  /\ (start.offset <= posn.offset)'
         /\ \E new \in Seq(InnerCall) : Rest(k, new)'
<1>1. PICK a \in InnerCall, cs \in Seq(InnerCall) : calls = <<a>> \o cs
  BY FirstOf
<1>2. This = a /\ todo # <<>>
  BY <1>1, RestThis
<1>3. CASE PeekMore
  <2>1. UNCHANGED <<start, posn, todo>>
    BY <1>3, PeekKeeps
  <2>2. Rest(k, calls)'
    BY <2>1 DEF Rest
  <2> QED BY <2>1, <2>2
<1>4. CASE ~PeekMore
  <2>1. ASSUME NEW e \in Errors \cup Panics, Fail(e) PROVE FALSE
    BY <2>1 DEF Fail, Running, Errors, Panics
  <2>2. PICK new \in Seq(InnerCall) : Consume(new) \/ Stay(new)
    BY <1>2, <1>4, <2>1, InnerSteps
  <2>3. Then(new) /\ (start.offset <= posn.offset)'
    BY <2>2, StepsWithin
  <2>4. Rest(k, new \o cs)' /\ new \o cs \in Seq(InnerCall)
    BY <1>1, <2>3, RestCalls
  <2> QED BY <2>3, <2>4
<1> QED BY <1>3, <1>4

\* A step of a punctuator keeps what is known of it.
LEMMA PunctuatorStep ==
  ASSUME LexerInv, start.offset <= posn.offset, LexerStep, PunctuatorText, ~EndToken
  PROVE  PunctuatorText' /\ (start.offset <= posn.offset)'
<1>1. CASE PeekMore
  <2>1. UNCHANGED <<start, posn>>
    BY <1>1, PeekKeeps
  <2> QED BY <1>1, <2>1, PunctuatorPeek
<1> SUFFICES ASSUME ~PeekMore PROVE PunctuatorText' /\ (start.offset <= posn.offset)'
  BY <1>1
<1>2. CASE \E n \in 1 .. 3 : PunctuatorAhead(n)
  <2>1. PICK n \in 1 .. 3 : PunctuatorAhead(n)
    BY <1>2
  <2>2. This = Skip(n)
    BY <2>1, RestHead DEF PunctuatorAhead
  <2>3. SkipChars
    BY <2>2, StepOf DEF Skip
  <2> QED BY <2>1, <2>3, PunctuatorSkip
<1>3. CASE Rest("punctuator", <<Call("shift")>>) /\ SoFar = <<">", ">">>
  <2>1. This = Call("shift")
    BY <1>3, RestHead
  <2>2. Shift
    BY <2>1, StepOf DEF Call
  <2> QED BY <1>3, <2>2, PunctuatorShift
<1>4. CASE Rest("punctuator", <<Call("matches_equals")>>) /\ SoFar \in PairsBeforeEquals
  <2>1. This = Call("matches_equals")
    BY <1>4, RestHead
  <2>2. MatchesEquals
    BY <2>1, StepOf DEF Call
  <2> QED BY <1>4, <2>2, PunctuatorEquals
<1>5. CASE Rest("punctuator", <<>>)
  <2>1. This = End("punctuator")
    BY <1>5, RestEnd
  <2>2. EndToken
    BY <2>1, StepOf DEF End
  <2> QED BY <2>2
<1> QED BY <1>2, <1>3, <1>4, <1>5 DEF PunctuatorText, PunctuatorRead
-----------------------------------------------------------------------------
\* Among blanks, the call at hand is the loop or is of a comment.
LEMMA SkippingCall ==
  ASSUME LexerInv, todo # <<>>, Skipping PROVE This.fn \in CommentFns \cup {"blank"}
<1>1. todo \in Seq(LexerCall) /\ This = todo[1]
  BY CallAtHand DEF LexerInv, LexerTypes
<1>2. CASE Len(todo) = 2
  BY <1>1, <1>2 DEF Skipping, Call
<1>3. CASE Len(todo) > 2
  BY <1>1, <1>3 DEF Skipping
<1>4. Len(todo) = 2 \/ Len(todo) > 2
  <2>1. \A n \in Nat : n > 1 => n = 2 \/ n > 2
    OBVIOUS
  <2>2. Len(todo) \in Nat /\ Len(todo) > 1
    BY <1>1 DEF Skipping
  <2> QED BY <2>1, <2>2
<1> QED BY <1>2, <1>3, <1>4

\* Blanks and comments are no part of a token.
LEMMA SkipsNoToken ==
  ASSUME NEW calls \in Seq(LexerCall), Len(calls) > 1,
         calls[Len(calls) - 1] = Call("blank")
  PROVE  ~\A i \in 1 .. Len(calls) - 1 : calls[i].fn \in InnerFns
<1>1. PICK j : j = Len(calls) - 1
  OBVIOUS
<1>2. Len(calls) \in Nat
  OBVIOUS
<1>3. j \in 1 .. Len(calls) - 1 /\ calls[j].fn = "blank"
  BY <1>1, <1>2 DEF Call
<1>4. "blank" \notin InnerFns
  BY DEF InnerFns, PlainFns
<1> QED BY <1>3, <1>4

\* A token starts where the blanks end.
LEMMA EntersToken ==
  ASSUME LexerInv, Request \/ LexerStep, ~InToken, Running', InToken'
  PROVE  StartToken
<1> SUFFICES ASSUME ~StartToken PROVE FALSE
  OBVIOUS
<1>1. ASSUME NEW calls \in Seq(LexerCall), todo' = calls, Len(calls) > 1,
             calls[Len(calls) - 1] = Call("blank")
      PROVE  FALSE
  BY <1>1, SkipsNoToken DEF InToken
<1>2. ASSUME todo' = <<Call("blank"), Call("token")>> PROVE FALSE
  <2> DEFINE calls == <<Call("blank"), Call("token")>>
  <2>1. calls \in Seq(LexerCall) /\ Len(calls) > 1 /\ calls[Len(calls) - 1] = Call("blank")
    BY CommentCalls, Tuples
  <2> HIDE DEF calls
  <2>2. todo' = calls
    BY <1>2 DEF calls
  <2> QED BY <1>1, <2>1, <2>2
<1>3. ASSUME Skipping' PROVE FALSE
  <2>1. LexerInv'
    BY LexerNextInv DEF LexerNext
  <2>2. PICK calls : calls = todo'
    OBVIOUS
  <2>3. calls \in Seq(LexerCall) /\ Len(calls) > 1 /\ calls[Len(calls) - 1] = Call("blank")
    BY <1>3, <2>1, <2>2 DEF Skipping, LexerInv, LexerTypes
  <2> QED BY <1>1, <2>2, <2>3
<1>4. CASE Request
  BY <1>2, <1>4 DEF Request
<1>5. CASE LexerStep
  <2>1. Running /\ todo # <<>>
    BY <1>5, LexerStepRuns
  <2>2. CASE PeekMore
    BY <2>2 DEF PeekMore, InToken
  <2> SUFFICES ASSUME ~PeekMore PROVE FALSE
    BY <2>2
  <2>3. Skipping /\ SkippingInv
    BY <2>1 DEF LexerInv, Phases
  <2>4. This.fn \in CommentFns \cup {"blank"}
    BY <2>1, <2>3, SkippingCall
  <2>5. CASE This.fn = "blank"
    <3>1. SkipBlank \/ SkipNewline \/ SkipComment
      BY <1>5, <2>5, StepOf
    <3>2. At("blank")
      BY <3>1 DEF SkipBlank, SkipNewline, SkipComment
    <3>3. todo = <<Call("blank"), Call("token")>> /\ This = Call("blank")
      BY <3>2, BlankPhase
    <3>4. CASE SkipNewline
      BY <1>2, <3>3, <3>4 DEF SkipNewline
    <3>5. CASE SkipBlank
      <4>1. todo' = <<This>> \o Tail(<<Call("blank"), Call("token")>>)
        BY <3>3, <3>5 DEF SkipBlank, Consume, Then
      <4>2. todo' = <<Call("blank"), Call("token")>>
        BY <3>3, <4>1, FirstReplaced
      <4> QED BY <1>2, <4>2
    <3>6. CASE SkipComment
      <4>1. PICK a \in LexerCall, c \in LexerCall : Stay(<<a, c, This>>)
        <5>1. LineCommentPrefix > 0 => Skip(LineCommentPrefix) \in LexerCall
          BY LineCommentMarks, CommentCalls
        <5>2. Skip(2) \in LexerCall
          BY CommentCalls
        <5> QED BY <3>6, <5>1, <5>2, CommentCalls DEF SkipComment
      <4>2. todo' = <<a, c, Call("blank")>> \o Tail(<<Call("blank"), Call("token")>>)
        BY <3>3, <4>1 DEF Stay, Then
      <4>3. todo' = <<a, c, Call("blank"), Call("token")>>
        BY <4>2, FirstReplaced
      <4> DEFINE calls == <<a, c, Call("blank"), Call("token")>>
      <4>4. /\ calls \in Seq(LexerCall) /\ Len(calls) > 1
            /\ calls[Len(calls) - 1] = Call("blank")
        BY CommentCalls, Tuples
      <4> HIDE DEF calls
      <4>5. todo' = calls
        BY <4>3 DEF calls
      <4> QED BY <1>1, <4>4, <4>5
    <3> QED BY <3>1, <3>4, <3>5, <3>6
  <2>6. CASE This.fn \in CommentFns
    <3>1. This \in LexerCall /\ (This.fn = "skip" => This.n \in 1 .. 4)
      BY <2>1, CallAtHand
    <3>2. ASSUME NEW calls \in Seq(LexerCall), Then(calls),
                 \/ calls = <<>>
                 \/ \E c \in LexerCall : calls = <<c>> /\ c.fn \in CommentFns
          PROVE  FALSE
      BY <1>3, <2>1, <2>3, <2>6, <3>2, CommentReturns
    <3>3. /\ <<>> \in Seq(LexerCall) /\ <<This>> \in Seq(LexerCall)
          /\ \A n \in 1 .. 4 : <<Skip(n)>> \in Seq(LexerCall) /\ Skip(n).fn \in CommentFns
      BY <3>1, CommentCalls, Tuples DEF CommentFns
    <3>4. ~Then(<<>>) /\ ~Then(<<This>>) /\ \A n \in 1 .. 4 : ~Then(<<Skip(n)>>)
      BY <2>6, <3>1, <3>2, <3>3, CommentCalls
    <3>5. CASE SkipChars
      <4>1. This.n \in 1 .. 4 /\ Then(IF This.n = 1 THEN <<>> ELSE <<Skip(This.n - 1)>>)
        BY <3>1, <3>5 DEF SkipChars, Consume, At
      <4>2. This.n = 1 \/ This.n - 1 \in 1 .. 4
        BY <4>1
      <4> QED BY <3>4, <4>1, <4>2
    <3>6. CASE LineComment
      BY <3>4, <3>6 DEF LineComment, Consume, Stay
    <3>7. CASE BlockComment
      <4>1. 2 \in 1 .. 4
        OBVIOUS
      <4>2. UNCHANGED todo \/ \E e : Fail(e)
        BY <3>4, <3>7, <4>1, Zenon DEF BlockComment, Stay
      <4>3. CASE UNCHANGED todo
        BY <4>3 DEF InToken
      <4>4. CASE \E e : Fail(e)
        BY <4>4 DEF Fail, InToken
      <4> QED BY <4>2, <4>3, <4>4
    <3> QED BY <1>5, <2>6, <3>5, <3>6, <3>7, StepOf DEF CommentFns
  <2> QED BY <2>4, <2>5, <2>6
<1> QED BY <1>4, <1>5
-----------------------------------------------------------------------------
(***************************************************************************)
(* The text of a number.                                                   *)
(***************************************************************************)
LEMMA DigitsInMore ==
  ASSUME NEW s \in Seq(Chars), NEW c \in Chars, NEW i \in Nat, i > 0
  PROVE  /\ \A j \in 0 .. Len(s) : DigitsIn(Append(s, c), i, j) <=> DigitsIn(s, i, j)
         /\ DigitsIn(s, i, Len(s)) /\ c \in DecDigits => DigitsIn(Append(s, c), i, Len(s) + 1)
BY AppendIs DEF DigitsIn

LEMMA LegacyMore ==
  ASSUME NEW s \in Seq(Chars), NEW c \in Chars
  PROVE  /\ \A i \in 1 .. Len(s) : LegacyUpTo(Append(s, c), i) <=> LegacyUpTo(s, i)
         /\ LegacyUpTo(Append(s, c), Len(s) + 1) =>
              /\ c \in OctDigits /\ s # <<>>
              /\ s = <<"0">> \/ LegacyUpTo(s, Len(s))
<1> DEFINE t == Append(s, c)
<1>1. /\ t \in Seq(Chars) /\ Len(s) \in Nat /\ Len(t) = Len(s) + 1 /\ t[Len(s) + 1] = c
      /\ \A i \in 1 .. Len(s) : t[i] = s[i]
  BY AppendIs
<1> HIDE DEF t
<1>2. \A i \in 1 .. Len(s) : LegacyUpTo(t, i) <=> LegacyUpTo(s, i)
  BY <1>1 DEF LegacyUpTo
<1>3. ASSUME LegacyUpTo(t, Len(s) + 1)
      PROVE  c \in OctDigits /\ s # <<>> /\ (s = <<"0">> \/ LegacyUpTo(s, Len(s)))
  <2>1. /\ Len(s) + 1 > 1 /\ t[1] = "0" /\ \A k \in 2 .. Len(s) + 1 : t[k] \in OctDigits
    BY <1>3 DEF LegacyUpTo
  <2>2. Len(s) >= 1 /\ s[1] = "0" /\ c \in OctDigits /\ \A k \in 2 .. Len(s) : s[k] \in OctDigits
    BY <1>1, <2>1
  <2>3. CASE Len(s) > 1
    BY <2>2, <2>3 DEF LegacyUpTo
  <2>4. CASE Len(s) <= 1
    BY <2>2, <2>4, AsSingle
  <2> QED BY <1>1, <2>2, <2>3, <2>4
<1> QED BY <1>2, <1>3 DEF t

\* What is read of a legacy octal is recognised as such.
LEMMA LegacyIs ==
  ASSUME NEW s \in Seq(Chars)
  PROVE  /\ s # <<>> => (LegacyOctal(s) <=> LegacyUpTo(s, Len(s)))
         /\ \A i \in 1 .. Len(s) : LegacyOctal(SubSeq(s, 1, i)) <=> LegacyUpTo(s, i)
<1>1. s # <<>> => (LegacyOctal(s) <=> LegacyUpTo(s, Len(s)))
  BY DEF LegacyOctal, LegacyUpTo
<1>2. ASSUME NEW i \in 1 .. Len(s) PROVE LegacyOctal(SubSeq(s, 1, i)) <=> LegacyUpTo(s, i)
  <2> DEFINE t == SubSeq(s, 1, i)
  <2>1. Len(t) = i /\ \A k \in 1 .. i : t[k] = s[k]
    OBVIOUS
  <2> HIDE DEF t
  <2>2. LegacyOctal(t) <=> LegacyUpTo(s, i)
    BY <2>1 DEF LegacyOctal, LegacyUpTo
  <2> QED BY <2>2 DEF t
<1> QED BY <1>1, <1>2

LEMMA FollowMore ==
  ASSUME NEW s \in Seq(Chars), NEW c \in Chars, DigitsFollow(s),
         LegacyUpTo(s, Len(s)) => c \in DecDigits
  PROVE  DigitsFollow(Append(s, c))
<1> DEFINE t == Append(s, c)
<1>1. /\ t \in Seq(Chars) /\ Len(s) \in Nat /\ Len(t) = Len(s) + 1 /\ t[Len(s) + 1] = c
      /\ \A i \in 1 .. Len(s) : t[i] = s[i] /\ (LegacyUpTo(t, i) <=> LegacyUpTo(s, i))
  BY AppendIs, LegacyMore
<1> HIDE DEF t
<1>2. ASSUME NEW i \in 1 .. Len(t) - 1, LegacyUpTo(t, i) PROVE t[i + 1] \in DecDigits
  <2>1. i \in 1 .. Len(s) /\ LegacyUpTo(s, i)
    BY <1>1, <1>2
  <2>2. CASE i = Len(s)
    BY <1>1, <2>1, <2>2
  <2>3. CASE i # Len(s)
    <3>1. i \in 1 .. Len(s) - 1 /\ i + 1 \in 1 .. Len(s)
      BY <1>1, <2>1, <2>3
    <3> QED BY <1>1, <2>1, <3>1 DEF DigitsFollow
  <2> QED BY <2>2, <2>3
<1>3. DigitsFollow(t)
  BY <1>2 DEF DigitsFollow
<1> QED BY <1>3 DEF t

LEMMA NoLegacyMore ==
  ASSUME NEW s \in Seq(Chars), NEW c \in Chars, NoLegacy(s), c \in OctDigits => s # <<"0">>
  PROVE  NoLegacy(Append(s, c))
BY FollowMore, LegacyMore, AppendIs DEF NoLegacy

\* A sequence of digits is followed by a digit as far as it goes.
LEMMA DigitsFollowDigits ==
  ASSUME NEW s \in Seq(Chars), DigitsIn(s, 1, Len(s)) PROVE DigitsFollow(s)
<1>1. \A i \in 1 .. Len(s) - 1 : i + 1 \in 1 .. Len(s)
  OBVIOUS
<1> QED BY <1>1 DEF DigitsFollow, DigitsIn

LEMMA MantissaMore ==
  ASSUME NEW s \in Seq(Chars), NEW c \in Chars
  PROVE  /\ \A j \in 0 .. Len(s) : \A i : Mantissa(Append(s, c), i, j) <=> Mantissa(s, i, j)
         /\ \A i : Mantissa(s, i, Len(s)) /\ i < Len(s) /\ c \in DecDigits
              => Mantissa(Append(s, c), i, Len(s) + 1)
         /\ DigitsIn(s, 1, Len(s)) /\ s # <<>> => Mantissa(s, Len(s), Len(s))
         /\ DigitsIn(s, 1, Len(s)) /\ s # <<>> /\ c = "."
              => Mantissa(Append(s, c), Len(s), Len(s) + 1)
         /\ s = <<".">> /\ c \in DecDigits => Mantissa(Append(s, c), 0, Len(s) + 1)
<1> DEFINE t == Append(s, c)
<1>1. /\ t \in Seq(Chars) /\ Len(s) \in Nat /\ Len(t) = Len(s) + 1 /\ t[Len(s) + 1] = c
      /\ \A i \in 1 .. Len(s) : t[i] = s[i]
  BY AppendIs
<1>2. \A i \in Nat : i > 0 =>
        /\ \A j \in 0 .. Len(s) : DigitsIn(t, i, j) <=> DigitsIn(s, i, j)
        /\ DigitsIn(s, i, Len(s)) /\ c \in DecDigits => DigitsIn(t, i, Len(s) + 1)
  BY DigitsInMore
<1>3. s # <<>> => Len(s) > 0
  OBVIOUS
<1> HIDE DEF t
<1>4. ASSUME NEW j \in 0 .. Len(s), NEW i PROVE Mantissa(t, i, j) <=> Mantissa(s, i, j)
  <2>1. CASE i \in 0 .. j
    <3>1. /\ DigitsIn(t, 1, i) <=> DigitsIn(s, 1, i)
          /\ DigitsIn(t, i + 2, j) <=> DigitsIn(s, i + 2, j)
      BY <1>1, <1>2, <2>1
    <3>2. i < j => t[i + 1] = s[i + 1]
      BY <1>1, <2>1
    <3> QED BY <3>1, <3>2 DEF Mantissa
  <2> QED BY <2>1 DEF Mantissa
<1>5. ASSUME NEW i, Mantissa(s, i, Len(s)), i < Len(s), c \in DecDigits
      PROVE  Mantissa(t, i, Len(s) + 1)
  <2>1. /\ i \in 0 .. Len(s) /\ DigitsIn(s, 1, i) /\ s[i + 1] = "."
        /\ DigitsIn(s, i + 2, Len(s)) /\ (i > 0 \/ Len(s) > 1)
    BY <1>5 DEF Mantissa
  <2>2. i + 2 \in Nat /\ i + 2 > 0 /\ i + 1 \in 1 .. Len(s) /\ i \in 0 .. Len(s) + 1
        /\ (i > 0 \/ Len(s) + 1 > 1)
    BY <1>1, <1>5, <2>1
  <2>3. DigitsIn(t, 1, i) /\ DigitsIn(t, i + 2, Len(s) + 1) /\ t[i + 1] = "."
    BY <1>1, <1>2, <1>5, <2>1, <2>2
  <2> QED BY <2>2, <2>3 DEF Mantissa
<1>6. DigitsIn(s, 1, Len(s)) /\ s # <<>> => Mantissa(s, Len(s), Len(s))
  BY <1>1, <1>3 DEF Mantissa
<1>7. ASSUME DigitsIn(s, 1, Len(s)), s # <<>>, c = "." PROVE Mantissa(t, Len(s), Len(s) + 1)
  <2>1. DigitsIn(t, 1, Len(s))
    BY <1>1, <1>2, <1>7
  <2>2. DigitsIn(t, Len(s) + 2, Len(s) + 1)
    BY <1>1 DEF DigitsIn
  <2> QED BY <1>1, <1>3, <1>7, <2>1, <2>2 DEF Mantissa
<1>8. ASSUME s = <<".">>, c \in DecDigits PROVE Mantissa(t, 0, Len(s) + 1)
  <2>1. Len(s) >= 1 /\ Len(s) <= 1 /\ s[1] = "."
    BY <1>8
  <2>2. DigitsIn(t, 1, 0)
    BY DEF DigitsIn
  <2>3. DigitsIn(s, 2, Len(s))
    BY <2>1 DEF DigitsIn
  <2>4. DigitsIn(t, 2, Len(s) + 1)
    BY <1>2, <1>8, <2>3
  <2>5. t[1] = "." /\ 0 \in 0 .. Len(s) + 1 /\ 0 < Len(s) + 1 /\ Len(s) + 1 > 1
    BY <1>1, <2>1
  <2> QED BY <2>2, <2>4, <2>5 DEF Mantissa
<1> QED BY <1>4, <1>5, <1>6, <1>7, <1>8 DEF t
LEMMA ExponentMore ==
  ASSUME NEW s \in Seq(Chars), NEW c \in Chars, NEW j \in 1 .. Len(s)
  PROVE  /\ \A m \in 1 .. Len(s) : ExponentFrom(s, j, m) => ExponentFrom(Append(s, c), j, m)
         /\ c \in {"e", "E"} => ExponentFrom(Append(s, c), Len(s), Len(s) + 1)
         /\ ExponentFrom(s, j, Len(s)) /\ Len(s) = j + 1 /\ c \in {"+", "-"}
              => ExponentFrom(Append(s, c), j, Len(s) + 1)
<1> DEFINE t == Append(s, c)
<1>1. /\ t \in Seq(Chars) /\ Len(s) \in Nat /\ Len(t) = Len(s) + 1 /\ t[Len(s) + 1] = c
      /\ \A i \in 1 .. Len(s) : t[i] = s[i]
  BY AppendIs
<1> HIDE DEF t
<1>2. ASSUME NEW m \in 1 .. Len(s), ExponentFrom(s, j, m) PROVE ExponentFrom(t, j, m)
  BY <1>1, <1>2 DEF ExponentFrom
<1>3. c \in {"e", "E"} => ExponentFrom(t, Len(s), Len(s) + 1)
  BY <1>1 DEF ExponentFrom
<1>4. ASSUME ExponentFrom(s, j, Len(s)), Len(s) = j + 1, c \in {"+", "-"}
      PROVE  ExponentFrom(t, j, Len(s) + 1)
  BY <1>1, <1>4 DEF ExponentFrom
<1> QED BY <1>2, <1>3, <1>4 DEF t

LEMMA RadixMore ==
  ASSUME NEW s \in Seq(Chars), NEW c \in Chars, NEW r
  PROVE  /\ RadixText(s, r) /\ Len(s) >= 2 /\ c \in r.digits => RadixText(Append(s, c), r)
         /\ s = <<"0">> /\ c \in r.marks =>
              RadixText(Append(s, c), r) /\ Len(Append(s, c)) >= 2
<1> DEFINE t == Append(s, c)
<1>1. /\ t \in Seq(Chars) /\ Len(s) \in Nat /\ Len(t) = Len(s) + 1 /\ t[Len(s) + 1] = c
      /\ \A i \in 1 .. Len(s) : t[i] = s[i]
  BY AppendIs
<1> HIDE DEF t
<1>2. ASSUME RadixText(s, r), Len(s) >= 2, c \in r.digits PROVE RadixText(t, r)
  <2>1. t[1] = s[1] /\ t[2] = s[2]
    BY <1>1, <1>2
  <2>2. ASSUME NEW k \in 3 .. Len(t) PROVE t[k] \in r.digits
    <3>1. CASE k = Len(s) + 1
      BY <1>1, <1>2, <3>1
    <3>2. CASE k # Len(s) + 1
      <4>1. k \in 3 .. Len(s) /\ k \in 1 .. Len(s)
        BY <1>1, <3>2
      <4> QED BY <1>1, <1>2, <4>1 DEF RadixText
    <3> QED BY <3>1, <3>2
  <2> QED BY <1>2, <2>1, <2>2 DEF RadixText
<1>3. ASSUME s = <<"0">>, c \in r.marks PROVE RadixText(t, r) /\ Len(t) >= 2
  <2>1. Len(s) >= 1 /\ Len(s) <= 1 /\ s[1] = "0"
    BY <1>3
  <2>2. t[1] = "0" /\ t[2] = c /\ Len(t) >= 2 /\ Len(t) <= 2
    BY <1>1, <2>1
  <2> QED BY <1>1, <1>3, <2>2 DEF RadixText
<1> QED BY <1>2, <1>3 DEF t

\* An octal that is a number with a radix is no legacy octal.
LEMMA RadixFollow ==
  ASSUME NEW s \in Seq(Chars), NEW r \in RadixKinds, RadixText(s, r), Len(s) > 2
  PROVE  DigitsFollow(s)
<1>1. s[2] \notin OctDigits
  BY DEF RadixText, RadixKinds, OctDigits, BinDigits
<1>2. ASSUME NEW i \in 1 .. Len(s) - 1, LegacyUpTo(s, i) PROVE FALSE
  BY <1>1, <1>2 DEF LegacyUpTo
<1> QED BY <1>2 DEF DigitsFollow

\* What is read at the end is a numeric literal, in each of its forms.
LEMMA RadixIsNumber ==
  ASSUME NEW s \in Seq(Chars), NEW r \in RadixKinds, RadixText(s, r), Len(s) > 2
  PROVE  IsNumber(s)
<1> DEFINE t == SubSeq(s, 3, Len(s))
<1>1. t \in Seq(Chars) /\ Len(t) = Len(s) - 2 /\ \A k \in 1 .. Len(t) : t[k] = s[k + 2]
  OBVIOUS
<1>2. \A k \in 1 .. Len(t) : k + 2 \in 3 .. Len(s)
  BY <1>1
<1> HIDE DEF t
<1>3. AllIn(t, r.digits)
  BY <1>1, <1>2 DEF AllIn, RadixText
<1>4. \E q \in {<<{"x", "X"}, HexDigits>>, <<{"o", "O"}, OctDigits>>,
                <<{"b", "B"}, BinDigits>>} : q[1] = r.marks /\ q[2] = r.digits
  BY DEF RadixKinds
<1>5. s[1] = "0" /\ s[2] \in r.marks
  BY DEF RadixText
<1> QED BY <1>3, <1>4, <1>5 DEF IsNumber, t

LEMMA LegacyIsNumber ==
  ASSUME NEW s \in Seq(Chars), s # <<>>, LegacyUpTo(s, Len(s)) PROVE IsNumber(s)
BY LegacyIs DEF IsNumber

LEMMA DecimalIsNumber ==
  ASSUME NEW s \in Seq(Chars), NEW i, NEW j \in 0 .. Len(s), Mantissa(s, i, j),
         IsExponent(SubSeq(s, j + 1, Len(s)))
  PROVE  IsNumber(s)
<1>1. /\ i \in 0 .. j /\ DigitsIn(s, 1, i)
      /\ i < j => s[i + 1] = "." /\ DigitsIn(s, i + 2, j)
      /\ i > 0 \/ j > 1
  BY DEF Mantissa
<1> DEFINE u == SubSeq(s, 1, i)
           v == SubSeq(s, i + 2, j)
<1>2. u \in Seq(Chars) /\ Len(u) = i /\ \A k \in 1 .. i : u[k] = s[k]
  BY <1>1
<1>3. ASSUME i < j PROVE AllIn(v, DecDigits)
  <2>1. v \in Seq(Chars) /\ Len(v) = j - (i + 1) /\ \A k \in 1 .. Len(v) : v[k] = s[(i + 1) + k]
    BY <1>1, <1>3
  <2>2. \A k \in 1 .. Len(v) : (i + 1) + k \in i + 2 .. j
    BY <1>1, <1>3, <2>1
  <2> HIDE DEF v
  <2> QED BY <1>1, <1>3, <2>1, <2>2 DEF AllIn, DigitsIn
<1> HIDE DEF v
<1>4. AllIn(u, DecDigits)
  <2> HIDE DEF u
  <2> QED BY <1>1, <1>2 DEF AllIn, DigitsIn
<1>5. i \in 0 .. Len(s) /\ i <= j
  BY <1>1
<1> HIDE DEF u
<1> QED BY <1>1, <1>3, <1>4, <1>5 DEF IsNumber, u, v

LEMMA NoExponent ==
  ASSUME NEW s \in Seq(Chars) PROVE IsExponent(SubSeq(s, Len(s) + 1, Len(s)))
BY DEF IsExponent

LEMMA ExponentIs ==
  ASSUME NEW s \in Seq(Chars), NEW j \in 1 .. Len(s), NEW m \in 1 .. Len(s),
         ExponentFrom(s, j, m), DigitsIn(s, m + 1, Len(s)), m < Len(s)
  PROVE  IsExponent(SubSeq(s, j + 1, Len(s)))
<1> DEFINE t == SubSeq(s, j + 1, Len(s))
<1>1. t \in Seq(Chars) /\ Len(t) = Len(s) - j /\ \A k \in 1 .. Len(t) : t[k] = s[j + k]
  OBVIOUS
<1> HIDE DEF t
<1>2. /\ j + 1 <= m /\ s[j + 1] \in {"e", "E"}
      /\ m = j + 1 \/ (m = j + 2 /\ s[m] \in {"+", "-"})
  BY DEF ExponentFrom
<1>3. Len(t) > 1 /\ t[1] \in {"e", "E"}
  BY <1>1, <1>2
<1>4. CASE m = j + 1
  <2> DEFINE u == Tail(t)
  <2>1. u \in Seq(Chars) /\ Len(u) = Len(t) - 1 /\ \A k \in 1 .. Len(u) : u[k] = t[k + 1]
    BY <1>1, <1>3
  <2>2. \A k \in 1 .. Len(u) :
          k + 1 \in 1 .. Len(t) /\ j + (k + 1) \in m + 1 .. Len(s)
    BY <1>1, <1>4, <2>1
  <2> HIDE DEF u
  <2>3. \A k \in 1 .. Len(u) : u[k] \in DecDigits
    BY <1>1, <2>1, <2>2 DEF DigitsIn
  <2>4. AllIn(u, DecDigits)
    BY <2>1, <2>3 DEF AllIn
  <2> QED BY <1>3, <2>4 DEF IsExponent, t, u
<1>5. CASE m = j + 2 /\ s[m] \in {"+", "-"}
  <2> DEFINE u == SubSeq(t, 3, Len(t))
  <2>0. Len(t) > 2 /\ t[2] = s[m]
    BY <1>1, <1>5
  <2>1. u \in Seq(Chars) /\ Len(u) = Len(t) - 2 /\ \A k \in 1 .. Len(u) : u[k] = t[k + 2]
    BY <1>1, <2>0
  <2>2. \A k \in 1 .. Len(u) :
          k + 2 \in 1 .. Len(t) /\ j + (k + 2) \in m + 1 .. Len(s)
    BY <1>1, <1>5, <2>1
  <2> HIDE DEF u
  <2>3. \A k \in 1 .. Len(u) : u[k] \in DecDigits
    BY <1>1, <2>1, <2>2 DEF DigitsIn
  <2>4. AllIn(u, DecDigits)
    BY <2>1, <2>3 DEF AllIn
  <2> QED BY <1>3, <1>5, <2>0, <2>4 DEF IsExponent, t, u
<1> QED BY <1>2, <1>4, <1>5
\* The calls that take the place of the one at hand.
LEMMA RestGrows ==
  ASSUME NEW k, NEW a, NEW b, NEW c, NEW x, NEW y, NEW z
  PROVE  /\ Rest(k, <<a, b>>) /\ Then(<<x>>) => Rest(k, <<x, b>>)'
         /\ Rest(k, <<a, b, c>>) /\ Then(<<x>>) => Rest(k, <<x, b, c>>)'
         /\ Rest(k, <<a, b>>) /\ Then(<<x, y>>) => Rest(k, <<x, y, b>>)'
         /\ Rest(k, <<a, b>>) /\ Then(<<x, y, z>>) => Rest(k, <<x, y, z, b>>)'
<1>1. ASSUME Rest(k, <<a, b>>), Then(<<x>>) PROVE Rest(k, <<x, b>>)'
  BY <1>1 DEF Rest, Then, This, End
<1>2. ASSUME Rest(k, <<a, b, c>>), Then(<<x>>) PROVE Rest(k, <<x, b, c>>)'
  BY <1>2 DEF Rest, Then, This, End
<1>3. ASSUME Rest(k, <<a, b>>), Then(<<x, y>>) PROVE Rest(k, <<x, y, b>>)'
  BY <1>3 DEF Rest, Then, This, End
<1>4. ASSUME Rest(k, <<a, b>>), Then(<<x, y, z>>) PROVE Rest(k, <<x, y, z, b>>)'
  BY <1>4 DEF Rest, Then, This, End
<1> QED BY <1>1, <1>2, <1>3, <1>4, Zenon


LEMMA RadixNext ==
  ASSUME NEW t, SoFar' = t, NEW r \in RadixKinds
  PROVE  /\ (/\ Rest("number", <<Skip(2), RadixDigit(r), ReadWhile(r.digits), Call("number_end")>>)'
             /\ t = <<>> /\ Len(ahead)' > 1 /\ ahead'[1] = "0" /\ ahead'[2] \in r.marks) => NumberText'
         /\ (/\ Rest("number", <<Skip(1), RadixDigit(r), ReadWhile(r.digits), Call("number_end")>>)'
             /\ t = <<"0">> /\ Len(ahead)' > 0 /\ ahead'[1] \in r.marks) => NumberText'
         /\ (/\ Rest("number", <<RadixDigit(r), ReadWhile(r.digits), Call("number_end")>>)'
             /\ Len(t) >= 2 /\ RadixText(t, r)) => NumberText'
         /\ (/\ Rest("number", <<ReadWhile(r.digits), Call("number_end")>>)'
             /\ Len(t) > 2 /\ RadixText(t, r)) => NumberText'
BY DEF NumberText, RadixRead

LEMMA DecimalNext ==
  ASSUME NEW t, SoFar' = t
  PROVE  /\ (/\ Rest("number", <<Call("number"), Call("number_end")>>)'
             /\ t = <<>> /\ StartsNumber') => NumberText'
         /\ (/\ Rest("number", <<ReadWhile(DecDigits), Call("decimal"), Call("number_end")>>)'
             /\ DigitsIn(t, 1, Len(t)) /\ (t = <<>> => Next1' \in DecDigits)) => NumberText'
         /\ (/\ Rest("number", <<Call("decimal"), Call("number_end")>>)'
             /\ DigitsIn(t, 1, Len(t)) /\ t # <<>>) => NumberText'
         /\ (/\ Rest("number", <<Call("fraction"), Call("exp"), Call("number_end")>>)'
             /\ DigitsIn(t, 1, Len(t)) /\ t # <<>> /\ NoLegacy(t)) => NumberText'
         /\ (/\ Rest("number", <<ReadWhile(DecDigits), Call("exp"), Call("number_end")>>)'
             /\ NoLegacy(t) /\ t = <<".">> /\ Next1' \in DecDigits) => NumberText'
         /\ (/\ Rest("number", <<ReadWhile(DecDigits), Call("exp"), Call("number_end")>>)'
             /\ NoLegacy(t) /\ \E i \in 0 .. Len(t) - 1 : Mantissa(t, i, Len(t))) => NumberText'
         /\ (/\ Rest("number", <<Call("exp"), Call("number_end")>>)'
             /\ NoLegacy(t) /\ \E i \in 0 .. Len(t) : Mantissa(t, i, Len(t))) => NumberText'
         /\ (/\ Rest("number", <<Call("number_end")>>)'
             /\ IsNumber(t) /\ DigitsFollow(t)) => NumberText'
         /\ (/\ Rest("number", <<>>)' /\ IsNumber(t) /\ DigitsFollow(t)
             /\ NoneFollows(posn.offset)') => NumberText'
BY DEF NumberText, Decimals

LEMMA ExponentNext ==
  ASSUME NEW t, SoFar' = t, NoLegacy(t), NEW j \in 1 .. Len(t), NEW m \in 1 .. Len(t),
         \E i \in 0 .. j : Mantissa(t, i, j), ExponentFrom(t, j, m)
  PROVE  /\ (/\ Rest("number", <<Call("sign"), Call("exp_digits"), Call("number_end")>>)'
             /\ m = Len(t) /\ m = j + 1) => NumberText'
         /\ (Rest("number", <<Call("exp_digits"), Call("number_end")>>)' /\ m = Len(t))
              => NumberText'
         /\ (/\ Rest("number", <<ReadWhile(DecDigits), Call("number_end")>>)'
             /\ DigitsIn(t, m + 1, Len(t)) /\ (m = Len(t) => Next1' \in DecDigits))
              => NumberText'
BY DEF NumberText, Exponents
\* The calls of a longer list, after the one at hand is replaced.
LEMMA RestFour ==
  ASSUME NEW k, NEW a, NEW b, NEW c, NEW d, NEW x, Rest(k, <<a, b, c, d>>), Then(<<x>>)
  PROVE  Rest(k, <<x, b, c, d>>)'
BY DEF Rest, Then, This, End

\* What the mark of a radix and the digits of it are.
LEMMA RadixIs ==
  ASSUME NEW r \in RadixKinds
  PROVE  /\ r.missing # "lexing" /\ ReadWhile(r.digits).chars = r.digits
         /\ RadixDigit(r).fn = "digit" /\ RadixDigit(r).chars = r.digits
         /\ RadixDigit(r).missing = r.missing /\ ReadWhile(r.digits).fn = "read_while"
BY DEF RadixKinds, RadixDigit, ReadDigit, ReadWhile

\* Drawing a character changes nothing that is known of a number.
LEMMA NumberPeek ==
  ASSUME LexerInv, start.offset <= posn.offset, NumberText, PeekMore PROVE NumberText'
<1>1. /\ SoFar' = SoFar /\ UNCHANGED <<todo, start, posn>> /\ Grows
      /\ Len(ahead) <= Len(ahead)' /\ \A i \in 1 .. Len(ahead) : ahead'[i] = ahead[i]
      /\ ahead' \in Seq(Chars)
      /\ ahead # <<>> => Next1' = Next1
  BY PeekKeeps
<1>2. /\ ahead \in Seq(Chars) /\ text \in Seq(Chars)
      /\ posn.offset \in Nat /\ posn.offset <= Len(text)
  BY SoFarIs
<1>3. PICK s : s = SoFar
  OBVIOUS
<1>4. SoFar' = s
  BY <1>1, <1>3
<1>5. \A k, cs : Rest(k, cs) => Rest(k, cs)'
  BY <1>1 DEF Rest
<1>6. \A S : EndOfText \notin S /\ Next1 \in S => Next1' \in S /\ ahead # <<>>
  BY <1>1, <1>2 DEF Next1, PeekAt
<1>7. EndOfText \notin DecDigits /\ EndOfText # "."
  BY DEF EndOfText, DecDigits, OctDigits, BinDigits
<1>8. Next1 \in DecDigits => Next1' \in DecDigits
  BY <1>6, <1>7
<1>9. \A n \in Nat, m \in Nat : n <= m => (n > 0 => m > 0) /\ (n > 1 => m > 1)
  OBVIOUS
<1>10. Len(ahead) \in Nat /\ Len(ahead') \in Nat
  BY <1>1, <1>2
<1>11. /\ Len(ahead) > 0 => Len(ahead)' > 0 /\ ahead'[1] = ahead[1]
       /\ Len(ahead) > 1 => Len(ahead)' > 1 /\ ahead'[1] = ahead[1] /\ ahead'[2] = ahead[2]
  BY <1>1, <1>9, <1>10
<1>12. StartsNumber => StartsNumber'
  <2>1. CASE Next1 \in DecDigits
    BY <1>8, <2>1 DEF StartsNumber
  <2>2. CASE Next1 = "." /\ PeekAt(1) \in DecDigits
    <3>1. Len(ahead) > 1 /\ ahead # <<>>
      <4>1. Len(ahead) > 1
        BY <1>2, <1>7, <2>2 DEF PeekAt
      <4> QED BY <1>2, <4>1
    <3>2. Next1' = "."
      BY <1>1, <2>2, <3>1
    <3>3. PeekAt(1)' = PeekAt(1)
      BY <1>11, <3>1 DEF PeekAt
    <3> QED BY <2>2, <3>2, <3>3 DEF StartsNumber
  <2> QED BY <2>1, <2>2 DEF StartsNumber
<1>13. CASE \E r \in RadixKinds : RadixRead(SoFar, r)
  <2>1. PICK r \in RadixKinds : RadixRead(s, r)
    BY <1>3, <1>13
  <2> QED BY <1>4, <1>5, <1>11, <2>1, RadixNext DEF RadixRead
<1>14. CASE Decimals(SoFar)
  <2>1. Decimals(s)
    BY <1>3, <1>14
  <2>2. CASE Rest("number", <<Call("number"), Call("number_end")>>) /\ s = <<>> /\ StartsNumber
    BY <1>4, <1>5, <1>12, <2>2, DecimalNext
  <2>3. CASE ~(Rest("number", <<Call("number"), Call("number_end")>>) /\ s = <<>> /\ StartsNumber)
    BY <1>4, <1>5, <1>8, <2>1, <2>3, DecimalNext DEF Decimals
  <2> QED BY <2>2, <2>3
<1>15. CASE Exponents(SoFar)
  <2>1. NoLegacy(s)
    BY <1>3, <1>15 DEF Exponents
  <2>2. PICK j \in 1 .. Len(s), m \in 1 .. Len(s) :
          /\ \E i \in 0 .. j : Mantissa(s, i, j)
          /\ ExponentFrom(s, j, m)
          /\ \/ /\ Rest("number", <<Call("sign"), Call("exp_digits"), Call("number_end")>>)
                /\ m = Len(s) /\ m = j + 1
             \/ /\ Rest("number", <<Call("exp_digits"), Call("number_end")>>)
                /\ m = Len(s)
             \/ /\ Rest("number", <<ReadWhile(DecDigits), Call("number_end")>>)
                /\ DigitsIn(s, m + 1, Len(s)) /\ (m = Len(s) => Next1 \in DecDigits)
    BY <1>3, <1>15 DEF Exponents
  <2> QED BY <1>4, <1>5, <1>8, <2>1, <2>2, ExponentNext
<1>16. CASE Rest("number", <<Call("number_end")>>) /\ IsNumber(SoFar) /\ DigitsFollow(SoFar)
  BY <1>3, <1>4, <1>5, <1>16, DecimalNext
<1>17. CASE /\ Rest("number", <<>>) /\ IsNumber(SoFar) /\ DigitsFollow(SoFar)
            /\ NoneFollows(posn.offset)
  <2>1. NoneFollows(posn.offset)'
    <3>1. PICK n \in Nat : n = posn.offset /\ n <= Len(text)
      BY <1>2
    <3>2. NoneFollows(n)'
      BY <1>1, <1>2, <1>17, <3>1, NoneFollowsStays
    <3> QED BY <1>1, <3>1, <3>2
  <2>2. IsNumber(s) /\ DigitsFollow(s) /\ Rest("number", <<>>)'
    BY <1>3, <1>5, <1>17
  <2> QED BY <1>4, <2>1, <2>2, DecimalNext
<1> QED BY <1>13, <1>14, <1>15, <1>16, <1>17 DEF NumberText
\* The digits of a radix.
LEMMA RadixStep ==
  ASSUME LexerInv, start.offset <= posn.offset, LexerStep, ~PeekMore, Running',
         NEW r \in RadixKinds, RadixRead(SoFar, r)
  PROVE  NumberText' /\ (start.offset <= posn.offset)'
<1> DEFINE rd == RadixDigit(r)
           rw == ReadWhile(r.digits)
           ne == Call("number_end")
<1>1. PICK s \in Seq(Chars) : s = SoFar
  BY SoFarIs
<1>2. ahead \in Seq(Chars)
  BY SoFarIs
<1>3. /\ rd.fn = "digit" /\ rd.chars = r.digits /\ rd.missing = r.missing
      /\ r.missing # "lexing" /\ rw.fn = "read_while" /\ rw.chars = r.digits
  BY RadixIs
<1> HIDE DEF rd, rw, ne
<1>4. ASSUME NEW calls, Consume(calls)
      PROVE  /\ Then(calls) /\ SoFar' = Append(s, Next1) /\ Next1 \in Chars
             /\ ahead # <<>> /\ Next1 = ahead[1] /\ ahead' = Tail(ahead)
             /\ (start.offset <= posn.offset)'
  BY <1>1, <1>4, ConsumeTakes
<1>5. ASSUME NEW calls, Stay(calls)
      PROVE  Then(calls) /\ SoFar' = s /\ (start.offset <= posn.offset)'
  <2>1. Then(calls) /\ SoFar' = SoFar /\ UNCHANGED <<readerVars, start>>
    BY <1>5, StayKeeps
  <2> QED BY <1>1, <2>1 DEF readerVars
<1>6. /\ This = Skip(2) => Consume(<<Skip(1)>>)
      /\ This = Skip(1) => Consume(<<>>)
  <2>1. ASSUME This = Skip(2) PROVE Consume(<<Skip(1)>>)
    <3>1. SkipChars /\ This.n = 2
      BY <2>1, StepOf DEF Skip
    <3>2. This.n # 1 /\ This.n - 1 = 1
      BY <3>1
    <3> QED BY <3>1, <3>2 DEF SkipChars
  <2>2. ASSUME This = Skip(1) PROVE Consume(<<>>)
    <3>1. SkipChars /\ This.n = 1
      BY <2>2, StepOf DEF Skip
    <3> QED BY <3>1 DEF SkipChars
  <2> QED BY <2>1, <2>2
<1>7. CASE /\ Rest("number", <<Skip(2), rd, rw, ne>>) /\ s = <<>>
           /\ Len(ahead) > 1 /\ ahead[1] = "0" /\ ahead[2] \in r.marks
  <2>1. This = Skip(2)
    BY <1>7, RestHead
  <2>2. Consume(<<Skip(1)>>)
    BY <1>6, <2>1
  <2>3. Rest("number", <<Skip(1), rd, rw, ne>>)'
    BY <1>4, <1>7, <2>2, RestFour
  <2>4. SoFar' = <<"0">>
    BY <1>4, <1>7, <2>2
  <2>5. Len(ahead)' > 0 /\ ahead'[1] \in r.marks
    BY <1>2, <1>4, <1>7, <2>2
  <2> QED BY <1>4, <2>2, <2>3, <2>4, <2>5, RadixNext DEF rd, rw, ne
<1>8. CASE /\ Rest("number", <<Skip(1), rd, rw, ne>>) /\ s = <<"0">>
           /\ Len(ahead) > 0 /\ ahead[1] \in r.marks
  <2>1. This = Skip(1)
    BY <1>8, RestHead
  <2>2. Consume(<<>>)
    BY <1>6, <2>1
  <2>3. Rest("number", <<rd, rw, ne>>)'
    BY <1>4, <1>8, <2>2, RestReturns
  <2>4. PICK t : t = Append(s, Next1)
    OBVIOUS
  <2>5. RadixText(t, r) /\ Len(t) >= 2
    BY <1>4, <1>8, <2>2, <2>4, RadixMore
  <2>6. SoFar' = t
    BY <1>4, <2>2, <2>4
  <2> QED BY <1>4, <2>2, <2>3, <2>5, <2>6, RadixNext DEF rd, rw, ne
<1>9. CASE Rest("number", <<rd, rw, ne>>) /\ Len(s) >= 2 /\ RadixText(s, r)
  <2>1. This = rd
    BY <1>9, RestHead
  <2>2. ReadDigitInto
    BY <1>3, <2>1, StepOf
  <2>3. Next1 \in r.digits /\ Consume(<<>>)
    BY <1>3, <2>1, <2>2, NotRunning DEF ReadDigitInto
  <2>4. Rest("number", <<rw, ne>>)'
    BY <1>4, <1>9, <2>3, RestReturns
  <2>5. PICK t : t = Append(s, Next1)
    OBVIOUS
  <2>6. RadixText(t, r) /\ Len(t) > 2
    <3>1. RadixText(t, r) /\ Len(t) = Len(s) + 1 /\ Len(s) \in Nat
      BY <1>4, <1>9, <2>3, <2>5, RadixMore, AppendIs
    <3> QED BY <1>9, <3>1
  <2>7. SoFar' = t
    BY <1>4, <2>3, <2>5
  <2> QED BY <1>4, <2>3, <2>4, <2>6, <2>7, RadixNext DEF rd, rw, ne
<1>10. CASE Rest("number", <<rw, ne>>) /\ Len(s) > 2 /\ RadixText(s, r)
  <2>1. This = rw
    BY <1>10, RestHead
  <2>2. ReadWhileChars
    BY <1>3, <2>1, StepOf
  <2>3. CASE Next1 \in r.digits
    <3>1. Consume(<<rw>>)
      BY <1>3, <2>1, <2>2, <2>3 DEF ReadWhileChars
    <3>2. Rest("number", <<rw, ne>>)'
      BY <1>4, <1>10, <3>1, RestGrows
    <3>3. PICK t : t = Append(s, Next1)
      OBVIOUS
    <3>4. RadixText(t, r) /\ Len(t) > 2
      <4>1. Len(s) \in Nat /\ Len(s) >= 2
        BY <1>1, <1>10
      <4>2. RadixText(t, r) /\ Len(t) = Len(s) + 1
        BY <1>4, <1>10, <2>3, <3>1, <3>3, <4>1, RadixMore, AppendIs
      <4> QED BY <1>10, <4>1, <4>2
    <3>5. SoFar' = t
      BY <1>4, <3>1, <3>3
    <3> QED BY <1>4, <3>1, <3>2, <3>4, <3>5, RadixNext DEF rw, ne
  <2>4. CASE Next1 \notin r.digits
    <3>1. Stay(<<>>)
      BY <1>3, <2>1, <2>2, <2>4 DEF ReadWhileChars
    <3>2. Rest("number", <<ne>>)'
      BY <1>5, <1>10, <3>1, RestReturns
    <3>3. IsNumber(s) /\ DigitsFollow(s)
      BY <1>10, RadixIsNumber, RadixFollow
    <3> QED BY <1>5, <3>1, <3>2, <3>3, DecimalNext DEF ne
  <2> QED BY <2>3, <2>4
<1> QED BY <1>1, <1>7, <1>8, <1>9, <1>10 DEF RadixRead, rd, rw, ne
\* What takes a character, and what takes none.
LEMMA TakesOne ==
  ASSUME LexerInv, start.offset <= posn.offset, NEW calls, Consume(calls)
  PROVE  /\ Then(calls) /\ Next1 \in Chars /\ ahead # <<>> /\ ahead' = Tail(ahead)
         /\ (start.offset <= posn.offset)' /\ SoFar \in Seq(Chars)
         /\ \A s \in Seq(Chars) : s = SoFar =>
              \E t \in Seq(Chars) : t = Append(s, Next1) /\ SoFar' = t
<1>1. /\ Then(calls) /\ SoFar' = Append(SoFar, Next1) /\ Next1 \in Chars
      /\ ahead # <<>> /\ ahead' = Tail(ahead) /\ (start.offset <= posn.offset)'
  BY ConsumeTakes
<1>2. SoFar \in Seq(Chars)
  BY SoFarIs
<1> QED BY <1>1, <1>2, AppendIs

LEMMA TakesNone ==
  ASSUME LexerInv, start.offset <= posn.offset, NEW calls, Stay(calls)
  PROVE  /\ Then(calls) /\ UNCHANGED <<ahead, ended, text>> /\ Next1' = Next1
         /\ SoFar' = SoFar /\ (start.offset <= posn.offset)' /\ posn' = posn
<1>1. Then(calls) /\ SoFar' = SoFar /\ Next1' = Next1 /\ UNCHANGED <<readerVars, start>>
  BY StayKeeps
<1> QED BY <1>1 DEF readerVars

\* The radix of a number that starts with the character for it.
LEMMA RadixOf ==
  \A c \in {"x", "X", "o", "O", "b", "B"} : \E r \in RadixKinds :
    c \in r.marks /\ Radix(c) = <<Skip(2), RadixDigit(r), ReadWhile(r.digits)>>
BY DEF RadixKinds, Radix, RadixInt, RadixDigit

LEMMA NumberBegins ==
  ASSUME LexerInv, start.offset <= posn.offset, Number,
         Rest("number", <<Call("number"), Call("number_end")>>), SoFar = <<>>, StartsNumber
  PROVE  NumberText' /\ (start.offset <= posn.offset)'
<1>1. ahead \in Seq(Chars)
  BY SoFarIs
<1>2. Next1 # EndOfText => ahead # <<>> /\ Len(ahead) > 0 /\ Next1 = ahead[1]
  BY <1>1 DEF Next1, PeekAt
<1>3. PeekAt(1) # EndOfText => Len(ahead) > 1 /\ PeekAt(1) = ahead[2]
  BY DEF PeekAt
<1>4. CASE Next1 = "0" /\ PeekAt(1) \in {"x", "X", "o", "O", "b", "B"}
  <2>1. Stay(Radix(PeekAt(1)))
    BY <1>4 DEF Number
  <2>2. PICK r \in RadixKinds :
          PeekAt(1) \in r.marks /\ Radix(PeekAt(1)) = <<Skip(2), RadixDigit(r), ReadWhile(r.digits)>>
    BY <1>4, RadixOf
  <2>3. Stay(<<Skip(2), RadixDigit(r), ReadWhile(r.digits)>>)
    BY <2>1, <2>2
  <2>4. /\ Then(<<Skip(2), RadixDigit(r), ReadWhile(r.digits)>>) /\ SoFar' = <<>>
        /\ ahead' = ahead /\ (start.offset <= posn.offset)'
    BY <2>3, TakesNone
  <2>5. Rest("number", <<Skip(2), RadixDigit(r), ReadWhile(r.digits), Call("number_end")>>)'
    BY <2>4, RestGrows
  <2>6. Len(ahead) > 1 /\ ahead[1] = "0" /\ ahead[2] \in r.marks
    BY <1>2, <1>3, <1>4, <2>2 DEF EndOfText
  <2> QED BY <2>4, <2>5, <2>6, RadixNext
<1>5. CASE Next1 = "."
  <2>1. Consume(<<ReadWhile(DecDigits), Call("exp")>>)
    BY <1>5 DEF Number
  <2>2. /\ Then(<<ReadWhile(DecDigits), Call("exp")>>) /\ SoFar' = Append(SoFar, Next1)
        /\ ahead' = Tail(ahead) /\ (start.offset <= posn.offset)'
    BY <2>1, ConsumeTakes
  <2>3. Rest("number", <<ReadWhile(DecDigits), Call("exp"), Call("number_end")>>)'
    BY <2>2, RestGrows
  <2>4. SoFar' = <<".">>
    BY <1>5, <2>2
  <2>5. PeekAt(1) \in DecDigits
    BY <1>5 DEF StartsNumber, DecDigits, OctDigits, BinDigits
  <2>6. Len(ahead) > 1 /\ PeekAt(1) = ahead[2]
    BY <1>3, <2>5 DEF EndOfText, DecDigits, OctDigits, BinDigits
  <2>7. Len(ahead)' > 0 /\ ahead'[1] = ahead[2]
    BY <1>1, <2>2, <2>6
  <2>8. Next1' \in DecDigits
    BY <2>5, <2>6, <2>7 DEF Next1, PeekAt
  <2>9. NoLegacy(<<".">>)
    BY DEF NoLegacy, DigitsFollow, LegacyUpTo
  <2> QED BY <2>2, <2>3, <2>4, <2>8, <2>9, DecimalNext
<1>6. CASE ~(Next1 = "0" /\ PeekAt(1) \in {"x", "X", "o", "O", "b", "B"}) /\ Next1 # "."
  <2>1. Stay(<<ReadWhile(DecDigits), Call("decimal")>>)
    BY <1>6 DEF Number
  <2>2. /\ Then(<<ReadWhile(DecDigits), Call("decimal")>>) /\ SoFar' = <<>>
        /\ Next1' = Next1 /\ (start.offset <= posn.offset)'
    BY <2>1, TakesNone
  <2>3. Rest("number", <<ReadWhile(DecDigits), Call("decimal"), Call("number_end")>>)'
    BY <2>2, RestGrows
  <2>4. Next1' \in DecDigits
    BY <1>6, <2>2 DEF StartsNumber
  <2>5. DigitsIn(<<>>, 1, Len(<<>>))
    BY DEF DigitsIn
  <2> QED BY <2>2, <2>3, <2>4, <2>5, DecimalNext
<1> QED BY <1>4, <1>5, <1>6

\* The digits of an integer, and what follows them.
LEMMA IntegerStep ==
  ASSUME LexerInv, start.offset <= posn.offset, NEW s \in Seq(Chars), s = SoFar,
         DigitsIn(s, 1, Len(s))
  PROVE  /\ (/\ ReadWhileChars /\ (s = <<>> => Next1 \in DecDigits)
             /\ Rest("number", <<ReadWhile(DecDigits), Call("decimal"), Call("number_end")>>))
              => NumberText' /\ (start.offset <= posn.offset)'
         /\ (/\ Decimal /\ s # <<>> /\ Rest("number", <<Call("decimal"), Call("number_end")>>))
              => NumberText' /\ (start.offset <= posn.offset)'
         /\ (/\ Fraction /\ s # <<>> /\ NoLegacy(s)
             /\ Rest("number", <<Call("fraction"), Call("exp"), Call("number_end")>>))
              => NumberText' /\ (start.offset <= posn.offset)'
<1>1. ASSUME ReadWhileChars, s = <<>> => Next1 \in DecDigits,
             Rest("number", <<ReadWhile(DecDigits), Call("decimal"), Call("number_end")>>)
      PROVE  NumberText' /\ (start.offset <= posn.offset)'
  <2>1. This = ReadWhile(DecDigits) /\ This.chars = DecDigits
    <3>1. This = ReadWhile(DecDigits)
      BY <1>1, RestHead
    <3> QED BY <3>1 DEF ReadWhile
  <2>2. CASE Next1 \in DecDigits
    <3>1. Consume(<<ReadWhile(DecDigits)>>)
      BY <1>1, <2>1, <2>2 DEF ReadWhileChars
    <3>2. PICK t \in Seq(Chars) : t = Append(s, Next1) /\ SoFar' = t
      BY <3>1, TakesOne
    <3>3. Then(<<ReadWhile(DecDigits)>>) /\ Next1 \in Chars /\ (start.offset <= posn.offset)'
      BY <3>1, TakesOne
    <3>4. Rest("number", <<ReadWhile(DecDigits), Call("decimal"), Call("number_end")>>)'
      BY <1>1, <3>3, RestGrows
    <3>5. DigitsIn(t, 1, Len(t)) /\ t # <<>>
      <4>1. 1 \in Nat /\ 1 > 0
        OBVIOUS
      <4>2. DigitsIn(t, 1, Len(s) + 1)
        BY <2>2, <3>2, <3>3, <4>1, DigitsInMore
      <4> QED BY <3>2, <3>3, <4>2, AppendIs
    <3> QED BY <3>2, <3>3, <3>4, <3>5, DecimalNext
  <2>3. CASE Next1 \notin DecDigits
    <3>1. Stay(<<>>)
      BY <1>1, <2>1, <2>3 DEF ReadWhileChars
    <3>2. Then(<<>>) /\ SoFar' = s /\ (start.offset <= posn.offset)'
      BY <3>1, TakesNone
    <3>3. Rest("number", <<Call("decimal"), Call("number_end")>>)'
      BY <1>1, <3>2, RestReturns
    <3> QED BY <1>1, <2>3, <3>2, <3>3, DecimalNext
  <2> QED BY <2>2, <2>3
<1>2. ASSUME Decimal, s # <<>>, Rest("number", <<Call("decimal"), Call("number_end")>>)
      PROVE  NumberText' /\ (start.offset <= posn.offset)'
  <2>1. s = IntegerRead
    BY SoFarIs
  <2>2. CASE LegacyOctal(s)
    <3>1. Stay(<<>>)
      BY <1>2, <2>1, <2>2 DEF Decimal
    <3>2. Then(<<>>) /\ SoFar' = s /\ (start.offset <= posn.offset)'
      BY <3>1, TakesNone
    <3>3. Rest("number", <<Call("number_end")>>)'
      BY <1>2, <3>2, RestReturns
    <3>4. IsNumber(s) /\ DigitsFollow(s)
      BY <1>2, <2>2, LegacyIs, LegacyIsNumber, DigitsFollowDigits
    <3> QED BY <3>2, <3>3, <3>4, DecimalNext
  <2>3. CASE ~LegacyOctal(s)
    <3>1. Stay(<<Call("fraction"), Call("exp")>>)
      BY <1>2, <2>1, <2>3 DEF Decimal
    <3>2. /\ Then(<<Call("fraction"), Call("exp")>>) /\ SoFar' = s
          /\ (start.offset <= posn.offset)'
      BY <3>1, TakesNone
    <3>3. Rest("number", <<Call("fraction"), Call("exp"), Call("number_end")>>)'
      BY <1>2, <3>2, RestGrows
    <3>4. NoLegacy(s)
      BY <1>2, <2>3, LegacyIs, DigitsFollowDigits DEF NoLegacy
    <3> QED BY <1>2, <3>2, <3>3, <3>4, DecimalNext
  <2> QED BY <2>2, <2>3
<1>3. ASSUME Fraction, s # <<>>, NoLegacy(s),
             Rest("number", <<Call("fraction"), Call("exp"), Call("number_end")>>)
      PROVE  NumberText' /\ (start.offset <= posn.offset)'
  <2>1. CASE Next1 = "."
    <3>1. Consume(<<ReadWhile(DecDigits)>>)
      BY <1>3, <2>1 DEF Fraction
    <3>2. PICK t \in Seq(Chars) : t = Append(s, Next1) /\ SoFar' = t
      BY <3>1, TakesOne
    <3>3. Then(<<ReadWhile(DecDigits)>>) /\ Next1 \in Chars /\ (start.offset <= posn.offset)'
      BY <3>1, TakesOne
    <3>4. Rest("number", <<ReadWhile(DecDigits), Call("exp"), Call("number_end")>>)'
      BY <1>3, <3>3, RestGrows
    <3>5. NoLegacy(t)
      <4>1. Next1 \notin OctDigits
        BY <2>1 DEF OctDigits, BinDigits
      <4> QED BY <1>3, <3>2, <3>3, <4>1, NoLegacyMore
    <3>6. Mantissa(t, Len(s), Len(t)) /\ Len(s) \in 0 .. Len(t) - 1
      <4>1. Mantissa(t, Len(s), Len(s) + 1)
        BY <1>3, <2>1, <3>2, <3>3, MantissaMore
      <4>2. Len(t) = Len(s) + 1 /\ Len(s) \in Nat
        BY <3>2, <3>3, AppendIs
      <4> QED BY <4>1, <4>2
    <3> QED BY <3>2, <3>3, <3>4, <3>5, <3>6, DecimalNext
  <2>2. CASE Next1 # "."
    <3>1. Stay(<<>>)
      BY <1>3, <2>2 DEF Fraction
    <3>2. Then(<<>>) /\ SoFar' = s /\ (start.offset <= posn.offset)'
      BY <3>1, TakesNone
    <3>3. Rest("number", <<Call("exp"), Call("number_end")>>)'
      BY <1>3, <3>2, RestReturns
    <3>4. Mantissa(s, Len(s), Len(s)) /\ Len(s) \in 0 .. Len(s)
      <4>1. s[1] \in Chars
        BY <1>3
      <4> QED BY <1>3, <4>1, MantissaMore
    <3> QED BY <1>3, <3>2, <3>3, <3>4, DecimalNext
  <2> QED BY <2>1, <2>2
<1> QED BY <1>1, <1>2, <1>3
\* The digits of a fraction, and what follows them.
LEMMA FractionStep ==
  ASSUME LexerInv, start.offset <= posn.offset, NEW s \in Seq(Chars), s = SoFar, NoLegacy(s),
         ReadWhileChars,
         Rest("number", <<ReadWhile(DecDigits), Call("exp"), Call("number_end")>>),
         \/ s = <<".">> /\ Next1 \in DecDigits
         \/ \E i \in 0 .. Len(s) - 1 : Mantissa(s, i, Len(s))
  PROVE  NumberText' /\ (start.offset <= posn.offset)'
<1>1. This = ReadWhile(DecDigits) /\ This.chars = DecDigits
  <2>1. This = ReadWhile(DecDigits)
    BY RestHead
  <2> QED BY <2>1 DEF ReadWhile
<1>2. CASE Next1 \in DecDigits
  <2>1. Consume(<<ReadWhile(DecDigits)>>)
    BY <1>1, <1>2 DEF ReadWhileChars
  <2>2. PICK t \in Seq(Chars) : t = Append(s, Next1) /\ SoFar' = t
    BY <2>1, TakesOne
  <2>3. Then(<<ReadWhile(DecDigits)>>) /\ Next1 \in Chars /\ (start.offset <= posn.offset)'
    BY <2>1, TakesOne
  <2>4. Rest("number", <<ReadWhile(DecDigits), Call("exp"), Call("number_end")>>)'
    BY <2>3, RestGrows
  <2>5. Len(t) = Len(s) + 1 /\ Len(s) \in Nat
    BY <2>2, <2>3, AppendIs
  <2>6. CASE s = <<".">>
    <3>1. Mantissa(t, 0, Len(t))
      <4>1. Mantissa(Append(s, Next1), 0, Len(s) + 1)
        BY <1>2, <2>3, <2>6, MantissaMore
      <4> QED BY <2>2, <2>5, <4>1
    <3>2. s # <<"0">>
      BY <2>6, SMT
    <3>3. NoLegacy(t)
      BY <2>2, <2>3, <3>2, NoLegacyMore
    <3>4. 0 \in 0 .. Len(t) - 1
      BY <2>5
    <3> QED BY <2>2, <2>3, <2>4, <3>1, <3>3, <3>4, DecimalNext
  <2>7. CASE \E i \in 0 .. Len(s) - 1 : Mantissa(s, i, Len(s))
    <3>1. PICK i \in 0 .. Len(s) - 1 : Mantissa(s, i, Len(s))
      BY <2>7
    <3>2. i < Len(s) /\ i \in 0 .. Len(t) - 1
      BY <2>5
    <3>3. Mantissa(t, i, Len(t))
      BY <1>2, <2>2, <2>3, <2>5, <3>1, <3>2, MantissaMore
    <3>4. s # <<"0">>
      <4> SUFFICES ASSUME s = <<"0">> PROVE FALSE
        OBVIOUS
      <4>1. Len(s) <= 1 /\ s[1] = "0"
        OBVIOUS
      <4>2. i + 1 = 1
        BY <2>5, <4>1
      <4>3. s[i + 1] = "."
        BY <3>1, <3>2 DEF Mantissa
      <4> QED BY <4>1, <4>2, <4>3
    <3>5. NoLegacy(t)
      BY <2>2, <2>3, <3>4, NoLegacyMore
    <3> QED BY <2>2, <2>3, <2>4, <3>2, <3>3, <3>5, DecimalNext
  <2> QED BY <2>6, <2>7
<1>3. CASE Next1 \notin DecDigits
  <2>1. Stay(<<>>)
    BY <1>1, <1>3 DEF ReadWhileChars
  <2>2. Then(<<>>) /\ SoFar' = s /\ (start.offset <= posn.offset)'
    BY <2>1, TakesNone
  <2>3. Rest("number", <<Call("exp"), Call("number_end")>>)'
    BY <2>2, RestReturns
  <2>4. PICK i \in 0 .. Len(s) - 1 : Mantissa(s, i, Len(s))
    BY <1>3
  <2>5. i \in 0 .. Len(s)
    OBVIOUS
  <2> QED BY <2>2, <2>3, <2>4, <2>5, DecimalNext
<1> QED BY <1>2, <1>3

\* Is there an exponent?
LEMMA ExpStep ==
  ASSUME LexerInv, start.offset <= posn.offset, NEW s \in Seq(Chars), s = SoFar, NoLegacy(s),
         ExpPart, Rest("number", <<Call("exp"), Call("number_end")>>),
         NEW i \in 0 .. Len(s), Mantissa(s, i, Len(s))
  PROVE  NumberText' /\ (start.offset <= posn.offset)'
<1>1. CASE Next1 \in {"e", "E"}
  <2>1. Consume(<<Call("sign"), Call("exp_digits")>>)
    BY <1>1 DEF ExpPart
  <2>2. PICK t \in Seq(Chars) : t = Append(s, Next1) /\ SoFar' = t
    BY <2>1, TakesOne
  <2>3. /\ Then(<<Call("sign"), Call("exp_digits")>>) /\ Next1 \in Chars
        /\ (start.offset <= posn.offset)'
    BY <2>1, TakesOne
  <2>4. Rest("number", <<Call("sign"), Call("exp_digits"), Call("number_end")>>)'
    BY <2>3, RestGrows
  <2>5. Len(t) = Len(s) + 1 /\ Len(s) \in Nat
    BY <2>2, <2>3, AppendIs
  <2>6. NoLegacy(t)
    <3>1. Next1 \notin OctDigits
      BY <1>1 DEF OctDigits, BinDigits
    <3> QED BY <2>2, <2>3, <3>1, NoLegacyMore
  <2>7. Len(s) \in 1 .. Len(s)
    BY <2>5 DEF Mantissa
  <2>8. ExponentFrom(t, Len(s), Len(s) + 1)
    BY <1>1, <2>2, <2>3, <2>7, ExponentMore
  <2>9. Mantissa(t, i, Len(s))
    <3>1. Len(s) \in 0 .. Len(s)
      BY <2>5
    <3>2. Mantissa(Append(s, Next1), i, Len(s)) <=> Mantissa(s, i, Len(s))
      BY <2>3, <3>1, MantissaMore
    <3> QED BY <2>2, <3>2
  <2>10. Len(s) \in 1 .. Len(t) /\ Len(t) \in 1 .. Len(t) /\ ExponentFrom(t, Len(s), Len(t))
    BY <2>5, <2>7, <2>8
  <2> QED BY <2>2, <2>3, <2>4, <2>5, <2>6, <2>9, <2>10, ExponentNext
<1>2. CASE Next1 \notin {"e", "E"}
  <2>1. Stay(<<>>)
    BY <1>2 DEF ExpPart
  <2>2. Then(<<>>) /\ SoFar' = s /\ (start.offset <= posn.offset)'
    BY <2>1, TakesNone
  <2>3. Rest("number", <<Call("number_end")>>)'
    BY <2>2, RestReturns
  <2>4. Len(s) \in 0 .. Len(s)
    OBVIOUS
  <2>5. IsNumber(s)
    BY <2>4, NoExponent, DecimalIsNumber
  <2> QED BY <2>2, <2>3, <2>5, DecimalNext DEF NoLegacy
<1> QED BY <1>1, <1>2

\* The exponent.
LEMMA ExponentStep ==
  ASSUME LexerInv, start.offset <= posn.offset, NEW s \in Seq(Chars), s = SoFar, NoLegacy(s),
         NEW j \in 1 .. Len(s), NEW m \in 1 .. Len(s), NEW i \in 0 .. j, Mantissa(s, i, j),
         ExponentFrom(s, j, m)
  PROVE  /\ (/\ ExpSign /\ m = Len(s) /\ m = j + 1
             /\ Rest("number", <<Call("sign"), Call("exp_digits"), Call("number_end")>>))
              => NumberText' /\ (start.offset <= posn.offset)'
         /\ (/\ ExpDigits /\ Running' /\ m = Len(s)
             /\ Rest("number", <<Call("exp_digits"), Call("number_end")>>))
              => NumberText' /\ (start.offset <= posn.offset)'
         /\ (/\ ReadWhileChars /\ DigitsIn(s, m + 1, Len(s))
             /\ m = Len(s) => Next1 \in DecDigits
             /\ Rest("number", <<ReadWhile(DecDigits), Call("number_end")>>))
              => NumberText' /\ (start.offset <= posn.offset)'
<1>0. Len(s) \in Nat /\ j \in 0 .. Len(s)
  OBVIOUS
<1>1. ASSUME NEW t \in Seq(Chars), t = Append(s, Next1), Next1 \in Chars
      PROVE  /\ Mantissa(t, i, j) /\ Len(t) = Len(s) + 1 /\ j \in 1 .. Len(t)
             /\ m \in 1 .. Len(t) /\ s # <<"0">> /\ ExponentFrom(t, j, m) /\ NoLegacy(t)
  <2>1. Mantissa(t, i, j) /\ Len(t) = Len(s) + 1
    BY <1>0, <1>1, MantissaMore, AppendIs
  <2>2. ExponentFrom(t, j, m)
    BY <1>1, ExponentMore
  <2>3. s # <<"0">>
    <3> SUFFICES ASSUME s = <<"0">> PROVE FALSE
      OBVIOUS
    <3>1. Len(s) <= 1
      OBVIOUS
    <3>2. j + 1 <= m
      BY <1>0 DEF ExponentFrom
    <3> QED BY <1>0, <3>1, <3>2
  <2>4. NoLegacy(t)
    BY <1>1, <2>3, NoLegacyMore
  <2> QED BY <1>0, <2>1, <2>2, <2>3, <2>4
<1>2. ASSUME ExpSign, m = Len(s), m = j + 1,
             Rest("number", <<Call("sign"), Call("exp_digits"), Call("number_end")>>)
      PROVE  NumberText' /\ (start.offset <= posn.offset)'
  <2>1. CASE Next1 \in {"+", "-"}
    <3>1. Consume(<<>>)
      BY <1>2, <2>1 DEF ExpSign
    <3>2. PICK t \in Seq(Chars) : t = Append(s, Next1) /\ SoFar' = t
      BY <3>1, TakesOne
    <3>3. Then(<<>>) /\ Next1 \in Chars /\ (start.offset <= posn.offset)'
      BY <3>1, TakesOne
    <3>4. Rest("number", <<Call("exp_digits"), Call("number_end")>>)'
      BY <1>2, <3>3, RestReturns
    <3>5. ExponentFrom(t, j, Len(s) + 1)
      BY <1>2, <2>1, <3>2, <3>3, ExponentMore
    <3>6. /\ Mantissa(t, i, j) /\ Len(t) = Len(s) + 1 /\ j \in 1 .. Len(t) /\ NoLegacy(t)
      BY <1>1, <3>2, <3>3
    <3>7. Len(t) \in 1 .. Len(t) /\ ExponentFrom(t, j, Len(t))
      BY <1>0, <3>5, <3>6
    <3> QED BY <3>2, <3>3, <3>4, <3>6, <3>7, ExponentNext
  <2>2. CASE Next1 \notin {"+", "-"}
    <3>1. Stay(<<>>)
      BY <1>2, <2>2 DEF ExpSign
    <3>2. Then(<<>>) /\ SoFar' = s /\ (start.offset <= posn.offset)'
      BY <3>1, TakesNone
    <3>3. Rest("number", <<Call("exp_digits"), Call("number_end")>>)'
      BY <1>2, <3>2, RestReturns
    <3> QED BY <1>2, <3>2, <3>3, ExponentNext
  <2> QED BY <2>1, <2>2
<1>3. ASSUME ExpDigits, Running', m = Len(s),
             Rest("number", <<Call("exp_digits"), Call("number_end")>>)
      PROVE  NumberText' /\ (start.offset <= posn.offset)'
  <2>1. Next1 \in DecDigits /\ Stay(<<ReadWhile(DecDigits)>>)
    BY <1>3, NotRunning DEF ExpDigits
  <2>2. /\ Then(<<ReadWhile(DecDigits)>>) /\ SoFar' = s /\ (start.offset <= posn.offset)'
        /\ Next1' = Next1
    BY <2>1, TakesNone
  <2>3. Rest("number", <<ReadWhile(DecDigits), Call("number_end")>>)'
    BY <1>3, <2>2, RestGrows
  <2>4. DigitsIn(s, m + 1, Len(s)) /\ Next1' \in DecDigits
    BY <1>0, <1>3, <2>1, <2>2 DEF DigitsIn
  <2> QED BY <2>2, <2>3, <2>4, ExponentNext
<1>4. ASSUME ReadWhileChars, DigitsIn(s, m + 1, Len(s)), m = Len(s) => Next1 \in DecDigits,
             Rest("number", <<ReadWhile(DecDigits), Call("number_end")>>)
      PROVE  NumberText' /\ (start.offset <= posn.offset)'
  <2>1. This = ReadWhile(DecDigits) /\ This.chars = DecDigits
    <3>1. This = ReadWhile(DecDigits)
      BY <1>4, RestHead
    <3> QED BY <3>1 DEF ReadWhile
  <2>2. CASE Next1 \in DecDigits
    <3>1. Consume(<<ReadWhile(DecDigits)>>)
      BY <1>4, <2>1, <2>2 DEF ReadWhileChars
    <3>2. PICK t \in Seq(Chars) : t = Append(s, Next1) /\ SoFar' = t
      BY <3>1, TakesOne
    <3>3. Then(<<ReadWhile(DecDigits)>>) /\ Next1 \in Chars /\ (start.offset <= posn.offset)'
      BY <3>1, TakesOne
    <3>4. Rest("number", <<ReadWhile(DecDigits), Call("number_end")>>)'
      BY <1>4, <3>3, RestGrows
    <3>5. /\ Mantissa(t, i, j) /\ Len(t) = Len(s) + 1 /\ j \in 1 .. Len(t) /\ NoLegacy(t)
          /\ m \in 1 .. Len(t) /\ ExponentFrom(t, j, m)
      BY <1>1, <3>2, <3>3
    <3>6. DigitsIn(t, m + 1, Len(t)) /\ m # Len(t)
      <4>1. m + 1 \in Nat /\ m + 1 > 0 /\ m # Len(s) + 1
        BY <1>0
      <4>2. DigitsIn(t, m + 1, Len(s) + 1)
        BY <1>4, <2>2, <3>2, <3>3, <4>1, DigitsInMore
      <4> QED BY <3>5, <4>1, <4>2
    <3> QED BY <3>2, <3>3, <3>4, <3>5, <3>6, ExponentNext
  <2>3. CASE Next1 \notin DecDigits
    <3>1. Stay(<<>>)
      BY <1>4, <2>1, <2>3 DEF ReadWhileChars
    <3>2. Then(<<>>) /\ SoFar' = s /\ (start.offset <= posn.offset)'
      BY <3>1, TakesNone
    <3>3. Rest("number", <<Call("number_end")>>)'
      BY <1>4, <3>2, RestReturns
    <3>4. m < Len(s)
      BY <1>0, <1>4, <2>3
    <3>5. IsNumber(s)
      BY <1>0, <1>4, <3>4, ExponentIs, DecimalIsNumber
    <3> QED BY <3>2, <3>3, <3>5, DecimalNext DEF NoLegacy
  <2> QED BY <2>2, <2>3
<1> QED BY <1>2, <1>3, <1>4

\* The check of what follows a number.
LEMMA NumberEnds ==
  ASSUME LexerInv, start.offset <= posn.offset, NumberEnd, Running',
         Rest("number", <<Call("number_end")>>), IsNumber(SoFar), DigitsFollow(SoFar)
  PROVE  NumberText' /\ (start.offset <= posn.offset)'
<1>1. Next1 \notin IdStart \cup DecDigits /\ Stay(<<>>)
  BY NotRunning DEF NumberEnd
<1>2. PICK s \in Seq(Chars) : s = SoFar
  BY SoFarIs
<1>3. /\ Then(<<>>) /\ SoFar' = s /\ (start.offset <= posn.offset)'
      /\ UNCHANGED <<text, ended, posn>>
  BY <1>1, <1>2, TakesNone
<1>4. Rest("number", <<>>)'
  BY <1>3, RestReturns
<1>5. Len(ahead) >= 1 \/ ended
  <2>1. At("number_end")
    BY DEF NumberEnd
  <2>2. Peeked = 1
    BY <2>1 DEF At, Peeked, Silent
  <2> QED BY <2>1, <2>2 DEF At, Ahead
<1>6. NoneFollows(posn.offset)
  <2>1. /\ Len(ahead) \in Nat /\ Len(text) \in Nat /\ Len(text) = posn.offset + Len(ahead)
        /\ \A n \in Nat : n < Len(ahead) => PeekAt(n) = text[posn.offset + n + 1]
        /\ posn.offset \in Nat
    BY AheadIs, SoFarIs
  <2>2. CASE Len(ahead) > 0
    <3>1. posn.offset < Len(text)
      BY <2>1, <2>2
    <3>2. PeekAt(0) = text[posn.offset + 1]
      BY <2>1, <2>2
    <3> QED BY <1>1, <3>1, <3>2 DEF NoneFollows, Next1
  <2>3. CASE ~(Len(ahead) > 0)
    <3>1. ~(posn.offset < Len(text)) /\ ended
      BY <1>5, <2>1, <2>3
    <3> QED BY <3>1 DEF NoneFollows
  <2> QED BY <2>2, <2>3
<1>7. NoneFollows(posn.offset)'
  BY <1>3, <1>6 DEF NoneFollows
<1> QED BY <1>2, <1>3, <1>4, <1>7, DecimalNext
\* A step of a number keeps what is known of it.
LEMMA NumberStep ==
  ASSUME LexerInv, start.offset <= posn.offset, LexerStep, NumberText, ~EndToken, Running'
  PROVE  NumberText' /\ (start.offset <= posn.offset)'
<1>1. CASE PeekMore
  <2>1. UNCHANGED <<start, posn>>
    BY <1>1, PeekKeeps
  <2> QED BY <1>1, <2>1, NumberPeek
<1> SUFFICES ASSUME ~PeekMore PROVE NumberText' /\ (start.offset <= posn.offset)'
  BY <1>1
<1>2. PICK s \in Seq(Chars) : s = SoFar
  BY SoFarIs
<1>3. /\ This = Call("number") => Number
      /\ This = Call("decimal") => Decimal
      /\ This = Call("fraction") => Fraction
      /\ This = Call("exp") => ExpPart
      /\ This = Call("sign") => ExpSign
      /\ This = Call("exp_digits") => ExpDigits
      /\ This = Call("number_end") => NumberEnd
      /\ This = ReadWhile(DecDigits) => ReadWhileChars
  BY StepOf DEF Call, ReadWhile
<1>4. CASE \E r \in RadixKinds : RadixRead(SoFar, r)
  BY <1>4, RadixStep
<1>5. CASE Decimals(SoFar)
  <2>1. Decimals(s)
    BY <1>2, <1>5
  <2>2. CASE Rest("number", <<Call("number"), Call("number_end")>>) /\ s = <<>> /\ StartsNumber
    <3>1. Number
      BY <1>3, <2>2, RestHead
    <3> QED BY <1>2, <2>2, <3>1, NumberBegins
  <2>3. CASE /\ Rest("number", <<ReadWhile(DecDigits), Call("decimal"), Call("number_end")>>)
             /\ DigitsIn(s, 1, Len(s)) /\ (s = <<>> => Next1 \in DecDigits)
    <3>1. ReadWhileChars
      BY <1>3, <2>3, RestHead
    <3> QED BY <1>2, <2>3, <3>1, IntegerStep
  <2>4. CASE /\ Rest("number", <<Call("decimal"), Call("number_end")>>)
             /\ DigitsIn(s, 1, Len(s)) /\ s # <<>>
    <3>1. Decimal
      BY <1>3, <2>4, RestHead
    <3> QED BY <1>2, <2>4, <3>1, IntegerStep
  <2>5. CASE /\ Rest("number", <<Call("fraction"), Call("exp"), Call("number_end")>>)
             /\ DigitsIn(s, 1, Len(s)) /\ s # <<>> /\ NoLegacy(s)
    <3>1. Fraction
      BY <1>3, <2>5, RestHead
    <3> QED BY <1>2, <2>5, <3>1, IntegerStep
  <2>6. CASE /\ Rest("number", <<ReadWhile(DecDigits), Call("exp"), Call("number_end")>>)
             /\ NoLegacy(s)
             /\ \/ s = <<".">> /\ Next1 \in DecDigits
                \/ \E i \in 0 .. Len(s) - 1 : Mantissa(s, i, Len(s))
    <3>1. ReadWhileChars
      BY <1>3, <2>6, RestHead
    <3> QED BY <1>2, <2>6, <3>1, FractionStep
  <2>7. CASE /\ Rest("number", <<Call("exp"), Call("number_end")>>)
             /\ NoLegacy(s) /\ \E i \in 0 .. Len(s) : Mantissa(s, i, Len(s))
    <3>1. ExpPart
      BY <1>3, <2>7, RestHead
    <3> QED BY <1>2, <2>7, <3>1, ExpStep
  <2> QED BY <2>1, <2>2, <2>3, <2>4, <2>5, <2>6, <2>7 DEF Decimals
<1>6. CASE Exponents(SoFar)
  <2>1. NoLegacy(s)
    BY <1>2, <1>6 DEF Exponents
  <2>2. PICK j \in 1 .. Len(s), m \in 1 .. Len(s) :
          /\ \E i \in 0 .. j : Mantissa(s, i, j)
          /\ ExponentFrom(s, j, m)
          /\ \/ /\ Rest("number", <<Call("sign"), Call("exp_digits"), Call("number_end")>>)
                /\ m = Len(s) /\ m = j + 1
             \/ /\ Rest("number", <<Call("exp_digits"), Call("number_end")>>)
                /\ m = Len(s)
             \/ /\ Rest("number", <<ReadWhile(DecDigits), Call("number_end")>>)
                /\ DigitsIn(s, m + 1, Len(s)) /\ (m = Len(s) => Next1 \in DecDigits)
    BY <1>2, <1>6 DEF Exponents
  <2>3. PICK i \in 0 .. j : Mantissa(s, i, j)
    BY <2>2
  <2>4. CASE /\ Rest("number", <<Call("sign"), Call("exp_digits"), Call("number_end")>>)
             /\ m = Len(s) /\ m = j + 1
    <3>1. ExpSign
      BY <1>3, <2>4, RestHead
    <3> QED BY <1>2, <2>1, <2>2, <2>3, <2>4, <3>1, ExponentStep
  <2>5. CASE Rest("number", <<Call("exp_digits"), Call("number_end")>>) /\ m = Len(s)
    <3>1. ExpDigits
      BY <1>3, <2>5, RestHead
    <3> QED BY <1>2, <2>1, <2>2, <2>3, <2>5, <3>1, ExponentStep
  <2>6. CASE /\ Rest("number", <<ReadWhile(DecDigits), Call("number_end")>>)
             /\ DigitsIn(s, m + 1, Len(s)) /\ (m = Len(s) => Next1 \in DecDigits)
    <3>1. ReadWhileChars
      BY <1>3, <2>6, RestHead
    <3> QED BY <1>2, <2>1, <2>2, <2>3, <2>6, <3>1, ExponentStep
  <2> QED BY <2>2, <2>4, <2>5, <2>6
<1>7. CASE Rest("number", <<Call("number_end")>>) /\ IsNumber(SoFar) /\ DigitsFollow(SoFar)
  <2>1. NumberEnd
    BY <1>3, <1>7, RestHead
  <2> QED BY <1>7, <2>1, NumberEnds
<1>8. CASE Rest("number", <<>>)
  <2>1. This = End("number")
    BY <1>8, RestEnd
  <2>2. EndToken
    BY <2>1, StepOf DEF End
  <2> QED BY <2>2
<1> QED BY <1>4, <1>5, <1>6, <1>7, <1>8 DEF NumberText

\* A number starts.
LEMMA NumberStarts ==
  ASSUME LexerInv, todo = <<Call("token")>>, start.offset = posn.offset, StartsNumber,
         Stay(<<Call("number"), Call("number_end"), End("number")>>)
  PROVE  NumberText' /\ (start.offset <= posn.offset)'
<1>0. start.offset <= posn.offset
  BY DEF LexerInv, LexerTypes
<1>1. /\ Then(<<Call("number"), Call("number_end"), End("number")>>)
      /\ UNCHANGED <<ahead, ended, text>> /\ Next1' = Next1
      /\ SoFar' = SoFar /\ (start.offset <= posn.offset)' /\ posn' = posn
  BY <1>0, TakesNone
<1>2. SoFar = <<>>
  <2>1. SoFar \in Seq(Chars) /\ Len(SoFar) = posn.offset - start.offset
        /\ start.offset \in Nat /\ posn.offset \in Nat
    BY <1>0, SoFarIs
  <2>2. Len(SoFar) = 0
    BY <2>1
  <2> QED BY <2>1, <2>2
<1>3. Rest("number", <<Call("number"), Call("number_end")>>)'
  <2>1. todo' = <<Call("number"), Call("number_end"), End("number")>>
    BY <1>1 DEF Then, Call, End
  <2> QED BY <2>1 DEF Rest
<1>4. StartsNumber'
  BY <1>1 DEF StartsNumber, PeekAt
<1>5. SoFar' = <<>>
  BY <1>1, <1>2
<1> QED BY <1>1, <1>3, <1>4, <1>5, DecimalNext
-----------------------------------------------------------------------------
(***************************************************************************)
(* Escapes and classes.                                                    *)
(***************************************************************************)
\* As many backslashes stand before index i.
Backslashes(s, i, n) ==
  /\ n \in 0 .. i - 1
  /\ \A k \in i - n .. i - 1 : s[k] = "\\"
  /\ i - n > 1 => s[i - n - 1] # "\\"

LEMMA BackslashesExist ==
  ASSUME NEW s, NEW i \in Nat, i > 0 PROVE \E n \in Nat : Backslashes(s, i, n)
<1> DEFINE T == {j \in 1 .. i : \A k \in j .. i - 1 : s[k] = "\\"}
<1>1. i \in T
  <2>1. i .. i - 1 = {} /\ i \in 1 .. i
    OBVIOUS
  <2> QED BY <2>1
<1>2. PICK j \in T : \A y \in T : j <= y
  <2>1. T \in SUBSET Nat /\ T # {}
    BY <1>1
  <2> HIDE DEF T
  <2> QED BY <2>1, Least
<1>3. j \in 1 .. i /\ \A k \in j .. i - 1 : s[k] = "\\"
  OBVIOUS
<1>4. ASSUME j > 1 PROVE s[j - 1] # "\\"
  <2> SUFFICES ASSUME s[j - 1] = "\\" PROVE FALSE
    OBVIOUS
  <2>1. j - 1 \in 1 .. i /\ ~(j <= j - 1)
    BY <1>3, <1>4
  <2>2. \A k \in j - 1 .. i - 1 : k = j - 1 \/ k \in j .. i - 1
    BY <1>3
  <2>3. j - 1 \in T
    BY <1>3, <2>1, <2>2
  <2> QED BY <1>2, <2>1, <2>3
<1>5. i - j \in 0 .. i - 1 /\ i - (i - j) = j /\ i - j \in Nat
  BY <1>3
<1>6. Backslashes(s, i, i - j)
  BY <1>3, <1>4, <1>5 DEF Backslashes
<1> QED BY <1>5, <1>6

LEMMA BackslashesUnique ==
  ASSUME NEW s, NEW i \in Nat, NEW n, NEW m, Backslashes(s, i, n), Backslashes(s, i, m)
  PROVE  n = m
<1>1. ASSUME NEW a, NEW b, Backslashes(s, i, a), Backslashes(s, i, b), a < b PROVE FALSE
  <2>1. a \in 0 .. i - 1 /\ b \in 0 .. i - 1
    BY <1>1 DEF Backslashes
  <2>2. i - a > 1 /\ i - a - 1 \in i - b .. i - 1
    BY <1>1, <2>1
  <2> QED BY <1>1, <2>2 DEF Backslashes
<1>2. n \in 0 .. i - 1 /\ m \in 0 .. i - 1
  BY DEF Backslashes
<1> QED BY <1>1, <1>2

LEMMA BackslashesNext ==
  ASSUME NEW s, NEW i \in Nat, i > 0, NEW n \in Nat
  PROVE  Backslashes(s, i + 1, n + 1) <=> s[i] = "\\" /\ Backslashes(s, i, n)
<1>1. /\ (i + 1) - (n + 1) = i - n /\ (i + 1) - 1 = i
      /\ n + 1 \in 0 .. i <=> n \in 0 .. i - 1
  OBVIOUS
<1>2. ASSUME n \in 0 .. i - 1
      PROVE  (\A k \in i - n .. i : s[k] = "\\") <=>
               s[i] = "\\" /\ \A k \in i - n .. i - 1 : s[k] = "\\"
  <2>1. /\ i \in i - n .. i
        /\ \A k \in i - n .. i : k = i \/ k \in i - n .. i - 1
        /\ \A k \in i - n .. i - 1 : k \in i - n .. i
    BY <1>2
  <2> QED BY <2>1
<1> QED BY <1>1, <1>2 DEF Backslashes

LEMMA EscapedIs ==
  ASSUME NEW s, NEW i \in Nat, i > 0
  PROVE  Escaped(s, i) <=> \E n \in Nat : n % 2 = 1 /\ Backslashes(s, i, n)
<1>1. ASSUME Escaped(s, i) PROVE \E n \in Nat : n % 2 = 1 /\ Backslashes(s, i, n)
  <2>1. PICK n \in 1 .. i - 1 : /\ n % 2 = 1
                                /\ \A k \in i - n .. i - 1 : s[k] = "\\"
                                /\ i - n > 1 => s[i - n - 1] # "\\"
    BY <1>1 DEF Escaped
  <2>2. n \in 0 .. i - 1 /\ n \in Nat
    OBVIOUS
  <2> QED BY <2>1, <2>2 DEF Backslashes
<1>2. ASSUME NEW n \in Nat, n % 2 = 1, Backslashes(s, i, n) PROVE Escaped(s, i)
  <2>1. n \in 0 .. i - 1
    BY <1>2 DEF Backslashes
  <2>2. n # 0
    BY <1>2
  <2>3. n \in 1 .. i - 1
    BY <2>1, <2>2
  <2> QED BY <1>2, <2>3 DEF Escaped, Backslashes
<1> QED BY <1>1, <1>2

\* A character is escaped by a backslash that is not.
LEMMA EscapedAfter ==
  ASSUME NEW s, NEW i \in Nat, i > 0
  PROVE  /\ Escaped(s, i + 1) <=> s[i] = "\\" /\ ~Escaped(s, i)
         /\ ~Escaped(s, 1)
<1>0. i + 1 \in Nat /\ i + 1 > 0 /\ \A n \in Nat : n % 2 = 1 <=> ~((n + 1) % 2 = 1)
  OBVIOUS
<1>1. ASSUME Escaped(s, i + 1) PROVE s[i] = "\\" /\ ~Escaped(s, i)
  <2>1. PICK m \in Nat : m % 2 = 1 /\ Backslashes(s, i + 1, m)
    BY <1>0, <1>1, EscapedIs
  <2>2. m - 1 \in Nat /\ (m - 1) + 1 = m
    <3>1. m # 0
      BY <2>1
    <3> QED BY <3>1
  <2>3. PICK n \in Nat : n + 1 = m
    BY <2>2
  <2>4. s[i] = "\\" /\ Backslashes(s, i, n) /\ ~(n % 2 = 1)
    BY <1>0, <2>1, <2>3, BackslashesNext
  <2>5. ~Escaped(s, i)
    BY <2>4, EscapedIs, BackslashesUnique
  <2> QED BY <2>4, <2>5
<1>2. ASSUME s[i] = "\\", ~Escaped(s, i) PROVE Escaped(s, i + 1)
  <2>1. PICK n \in Nat : Backslashes(s, i, n)
    BY BackslashesExist
  <2>2. ~(n % 2 = 1)
    BY <1>2, <2>1, EscapedIs
  <2>3. (n + 1) % 2 = 1 /\ n + 1 \in Nat /\ Backslashes(s, i + 1, n + 1)
    BY <1>0, <1>2, <2>1, <2>2, BackslashesNext
  <2> QED BY <1>0, <2>3, EscapedIs
<1>3. ~Escaped(s, 1)
  BY DEF Escaped
<1> QED BY <1>1, <1>2, <1>3

\* What is after a character does not escape it, or put it in a class.
LEMMA EscapedSame ==
  ASSUME NEW s, NEW t, NEW n \in Nat, \A k \in 1 .. n : t[k] = s[k], NEW i \in 1 .. n + 1
  PROVE  Escaped(t, i) <=> Escaped(s, i)
<1>1. ASSUME NEW u, NEW v, \A k \in 1 .. n : u[k] = v[k], Escaped(v, i) PROVE Escaped(u, i)
  <2>1. PICK m \in 1 .. i - 1 : /\ m % 2 = 1
                                /\ \A k \in i - m .. i - 1 : v[k] = "\\"
                                /\ i - m > 1 => v[i - m - 1] # "\\"
    BY <1>1 DEF Escaped
  <2>2. /\ \A k \in i - m .. i - 1 : k \in 1 .. n
        /\ i - m > 1 => i - m - 1 \in 1 .. n
    OBVIOUS
  <2> QED BY <1>1, <2>1, <2>2 DEF Escaped
<1> QED BY <1>1

LEMMA InClassSame ==
  ASSUME NEW s, NEW t, NEW n \in Nat, \A k \in 1 .. n : t[k] = s[k], NEW i \in 1 .. n + 1
  PROVE  InClass(t, i) <=> InClass(s, i)
<1>1. \A j \in 1 .. i - 1 :
        /\ j \in 1 .. n /\ j \in 1 .. n + 1
        /\ \A k \in j + 1 .. i - 1 : k \in 1 .. n /\ k \in 1 .. n + 1
  OBVIOUS
<1>2. \A k \in 1 .. n + 1 : Escaped(t, k) <=> Escaped(s, k)
  BY EscapedSame
<1> QED BY <1>1, <1>2 DEF InClass

\* A class begins with a bracket that is not escaped, and ends with one.
LEMMA InClassAfter ==
  ASSUME NEW s, NEW i \in Nat, i > 0
  PROVE  /\ InClass(s, i + 1) <=>
              \/ s[i] = "[" /\ ~Escaped(s, i)
              \/ InClass(s, i) /\ (s[i] = "]" => Escaped(s, i))
         /\ ~InClass(s, 1)
<1>1. /\ i \in 1 .. i /\ i + 1 .. i = {} /\ (i + 1) - 1 = i
      /\ \A j \in 1 .. i : j = i \/ j \in 1 .. i - 1
      /\ \A j \in 1 .. i - 1 : j \in 1 .. i /\ i \in j + 1 .. i
      /\ \A j \in 1 .. i - 1 : \A k \in j + 1 .. i : k = i \/ k \in j + 1 .. i - 1
      /\ \A j \in 1 .. i - 1 : \A k \in j + 1 .. i - 1 : k \in j + 1 .. i
  OBVIOUS
<1>2. InClass(s, i + 1) <=>
        \E j \in 1 .. i : /\ s[j] = "[" /\ ~Escaped(s, j)
                          /\ \A k \in j + 1 .. i : s[k] = "]" => Escaped(s, k)
  BY <1>1 DEF InClass
<1>3. ASSUME InClass(s, i + 1)
      PROVE  \/ s[i] = "[" /\ ~Escaped(s, i)
             \/ InClass(s, i) /\ (s[i] = "]" => Escaped(s, i))
  BY <1>1, <1>2, <1>3 DEF InClass
<1>4. ASSUME s[i] = "[" /\ ~Escaped(s, i) PROVE InClass(s, i + 1)
  BY <1>1, <1>2, <1>4
<1>5. ASSUME InClass(s, i), s[i] = "]" => Escaped(s, i) PROVE InClass(s, i + 1)
  <2>1. PICK j \in 1 .. i - 1 : /\ s[j] = "[" /\ ~Escaped(s, j)
                                /\ \A k \in j + 1 .. i - 1 : s[k] = "]" => Escaped(s, k)
    BY <1>5 DEF InClass
  <2>2. \A k \in j + 1 .. i : s[k] = "]" => Escaped(s, k)
    BY <1>1, <1>5, <2>1
  <2> QED BY <1>1, <1>2, <2>1, <2>2
<1>6. ~InClass(s, 1)
  BY DEF InClass
<1> QED BY <1>3, <1>4, <1>5, <1>6
-----------------------------------------------------------------------------
(***************************************************************************)
(* The text of a literal with one more character.                          *)
(***************************************************************************)
LEMMA EscapesMore ==
  ASSUME NEW s \in Seq(Chars), NEW c \in Chars, NEW t \in Seq(Chars), t = Append(s, c)
  PROVE  /\ \A i \in 1 .. Len(s) + 1 : Escaped(t, i) <=> Escaped(s, i)
         /\ \A i \in 1 .. Len(s) + 1 : InClass(t, i) <=> InClass(s, i)
         /\ EscapedNext(t) <=> c = "\\" /\ ~EscapedNext(s)
         /\ ClassNext(t) <=>
              \/ c = "[" /\ ~EscapedNext(s)
              \/ ClassNext(s) /\ (c = "]" => EscapedNext(s))
<1>1. /\ Len(s) \in Nat /\ Len(t) = Len(s) + 1 /\ t[Len(s) + 1] = c
      /\ \A k \in 1 .. Len(s) : t[k] = s[k]
  BY AppendIs
<1>2. \A i \in 1 .. Len(s) + 1 : Escaped(t, i) <=> Escaped(s, i)
  BY <1>1, EscapedSame
<1>3. \A i \in 1 .. Len(s) + 1 : InClass(t, i) <=> InClass(s, i)
  BY <1>1, InClassSame
<1>4. PICK n \in Nat : n = Len(s) + 1 /\ n > 0 /\ n \in 1 .. Len(s) + 1
  BY <1>1
<1>5. /\ EscapedNext(t) <=> Escaped(t, n + 1)
      /\ ClassNext(t) <=> InClass(t, n + 1)
      /\ EscapedNext(s) <=> Escaped(s, n)
      /\ ClassNext(s) <=> InClass(s, n)
      /\ t[n] = c
  BY <1>1, <1>4 DEF EscapedNext, ClassNext
<1>6. (Escaped(t, n) <=> Escaped(s, n)) /\ (InClass(t, n) <=> InClass(s, n))
  BY <1>2, <1>3, <1>4
<1>7. EscapedNext(t) <=> c = "\\" /\ ~EscapedNext(s)
  BY <1>4, <1>5, <1>6, EscapedAfter
<1>8. ClassNext(t) <=>
        \/ c = "[" /\ ~EscapedNext(s)
        \/ ClassNext(s) /\ (c = "]" => EscapedNext(s))
  BY <1>4, <1>5, <1>6, InClassAfter
<1> QED BY <1>2, <1>3, <1>7, <1>8

\* A string goes on, or ends.
LEMMA StringMore ==
  ASSUME NEW s \in Seq(Chars), NEW c \in Chars, NEW t \in Seq(Chars), t = Append(s, c),
         StringSoFar(s)
  PROVE  /\ t # <<>> /\ t[1] = s[1]
         /\ (/\ c = s[1] => EscapedNext(s)
             /\ c \in Newlines =>
                  EscapedNext(s) \/ (c = "LF" /\ s[Len(s)] = "CR" /\ Escaped(s, Len(s))))
              => StringSoFar(t)
         /\ c = s[1] /\ ~EscapedNext(s) => IsString(t)
<1>1. /\ Len(s) \in Nat /\ Len(t) = Len(s) + 1 /\ t[Len(s) + 1] = c
      /\ \A k \in 1 .. Len(s) : t[k] = s[k]
      /\ t # <<>>
  BY AppendIs
<1>2. Len(s) > 0 /\ 1 \in 1 .. Len(s)
  <2>1. s # <<>>
    BY DEF StringSoFar
  <2> QED BY <2>1
<1>3. t[1] = s[1]
  BY <1>1, <1>2
<1>4. \A i \in 1 .. Len(s) + 1 : Escaped(t, i) <=> Escaped(s, i)
  BY EscapesMore
<1>5. /\ \A i \in 2 .. Len(s) : i \in 1 .. Len(s) + 1 /\ i - 1 \in 1 .. Len(s) + 1
                                /\ i \in 1 .. Len(s) /\ i - 1 \in 1 .. Len(s)
      /\ \A i \in 2 .. Len(s) + 1 : i = Len(s) + 1 \/ i \in 2 .. Len(s)
      /\ Len(s) + 1 \in 1 .. Len(s) + 1 /\ Len(s) \in 1 .. Len(s) + 1 /\ (Len(s) + 1) - 1 = Len(s)
      /\ Len(s) \in 1 .. Len(s)
  BY <1>1, <1>2
<1>6. ASSUME NEW i \in 2 .. Len(s)
      PROVE  /\ t[i] = t[1] => Escaped(t, i)
             /\ t[i] \in Newlines =>
                  Escaped(t, i) \/ (t[i] = "LF" /\ t[i - 1] = "CR" /\ Escaped(t, i - 1))
  <2>1. /\ s[i] = s[1] => Escaped(s, i)
        /\ s[i] \in Newlines =>
             Escaped(s, i) \/ (s[i] = "LF" /\ s[i - 1] = "CR" /\ Escaped(s, i - 1))
    BY DEF StringSoFar
  <2>2. i \in 1 .. Len(s) + 1 /\ i - 1 \in 1 .. Len(s) + 1 /\ i \in 1 .. Len(s) /\ i - 1 \in 1 .. Len(s)
    BY <1>5
  <2>3. t[i] = s[i] /\ t[i - 1] = s[i - 1]
    BY <1>1, <2>2
  <2>4. (Escaped(t, i) <=> Escaped(s, i)) /\ (Escaped(t, i - 1) <=> Escaped(s, i - 1))
    BY <1>4, <2>2
  <2> QED BY <1>3, <2>1, <2>3, <2>4
<1>7. /\ Escaped(t, Len(s) + 1) <=> EscapedNext(s)
      /\ Escaped(t, Len(s)) <=> Escaped(s, Len(s))
  BY <1>4, <1>5 DEF EscapedNext
<1>8. ASSUME c = s[1] => EscapedNext(s),
             c \in Newlines =>
               EscapedNext(s) \/ (c = "LF" /\ s[Len(s)] = "CR" /\ Escaped(s, Len(s)))
      PROVE  StringSoFar(t)
  <2>1. ASSUME NEW i \in 2 .. Len(t)
        PROVE  /\ t[i] = t[1] => Escaped(t, i)
               /\ t[i] \in Newlines =>
                    Escaped(t, i) \/ (t[i] = "LF" /\ t[i - 1] = "CR" /\ Escaped(t, i - 1))
    <3>1. CASE i \in 2 .. Len(s)
      BY <1>6, <3>1
    <3>2. CASE i \notin 2 .. Len(s)
      <4>1. i = Len(s) + 1 /\ i - 1 = Len(s)
        BY <1>1, <1>5, <3>2
      <4>2. t[i] = c /\ t[i - 1] = s[Len(s)]
        BY <1>1, <1>5, <4>1
      <4>3. (Escaped(t, i) <=> EscapedNext(s)) /\ (Escaped(t, i - 1) <=> Escaped(s, Len(s)))
        BY <1>7, <4>1
      <4> QED BY <1>3, <1>8, <4>2, <4>3
    <3> QED BY <3>1, <3>2
  <2>2. t[1] \in {"\"", "'"}
    BY <1>3 DEF StringSoFar
  <2> QED BY <1>1, <2>1, <2>2 DEF StringSoFar
<1>9. ASSUME c = s[1], ~EscapedNext(s) PROVE IsString(t)
  <2>1. Len(t) > 1 /\ t[Len(t)] = t[1] /\ ~Escaped(t, Len(t))
    BY <1>1, <1>2, <1>3, <1>7, <1>9
  <2>2. 2 .. Len(t) - 1 = 2 .. Len(s)
    BY <1>1
  <2> QED BY <1>6, <2>1, <2>2 DEF IsString
<1> QED BY <1>1, <1>3, <1>8, <1>9

\* The body of a regular expression goes on, or ends.
LEMMA BodyMore ==
  ASSUME NEW s \in Seq(Chars), NEW c \in Chars, NEW t \in Seq(Chars), t = Append(s, c),
         BodySoFar(s)
  PROVE  /\ (/\ ~(c = "/" /\ ~EscapedNext(s) /\ ~ClassNext(s))
             /\ c \in Newlines => ClassNext(s) /\ ~EscapedNext(s))
              => BodySoFar(t)
         /\ c = "/" /\ ~EscapedNext(s) /\ ~ClassNext(s) => IsRegExp(t)
<1>1. /\ Len(s) \in Nat /\ Len(t) = Len(s) + 1 /\ t[Len(s) + 1] = c
      /\ \A k \in 1 .. Len(s) : t[k] = s[k]
      /\ t # <<>>
  BY AppendIs
<1>2. Len(s) > 0 /\ 1 \in 1 .. Len(s)
  BY DEF BodySoFar
<1>3. t[1] = s[1]
  BY <1>1, <1>2
<1>4. /\ \A i \in 1 .. Len(s) + 1 : Escaped(t, i) <=> Escaped(s, i)
      /\ \A i \in 1 .. Len(s) + 1 : InClass(t, i) <=> InClass(s, i)
  BY EscapesMore
<1>5. /\ \A i \in 2 .. Len(s) : i \in 1 .. Len(s) + 1 /\ i \in 1 .. Len(s)
      /\ \A i \in 2 .. Len(s) + 1 : i = Len(s) + 1 \/ i \in 2 .. Len(s)
      /\ Len(s) + 1 \in 1 .. Len(s) + 1
  BY <1>1, <1>2
<1>6. ASSUME NEW i \in 2 .. Len(s)
      PROVE  ~Closes(t, i) /\ (t[i] \in Newlines => InClass(t, i) /\ ~Escaped(t, i))
  <2>1. ~Closes(s, i) /\ (s[i] \in Newlines => InClass(s, i) /\ ~Escaped(s, i))
    BY DEF BodySoFar
  <2>2. i \in 1 .. Len(s) + 1 /\ i \in 1 .. Len(s)
    BY <1>5
  <2>3. t[i] = s[i] /\ (Escaped(t, i) <=> Escaped(s, i)) /\ (InClass(t, i) <=> InClass(s, i))
    BY <1>1, <1>4, <2>2
  <2> QED BY <2>1, <2>3 DEF Closes
<1>7. /\ Escaped(t, Len(s) + 1) <=> EscapedNext(s)
      /\ InClass(t, Len(s) + 1) <=> ClassNext(s)
  BY <1>4, <1>5 DEF EscapedNext, ClassNext
<1>8. ASSUME ~(c = "/" /\ ~EscapedNext(s) /\ ~ClassNext(s)),
             c \in Newlines => ClassNext(s) /\ ~EscapedNext(s)
      PROVE  BodySoFar(t)
  <2>1. ASSUME NEW i \in 2 .. Len(t)
        PROVE  ~Closes(t, i) /\ (t[i] \in Newlines => InClass(t, i) /\ ~Escaped(t, i))
    <3>1. CASE i \in 2 .. Len(s)
      BY <1>6, <3>1
    <3>2. CASE i \notin 2 .. Len(s)
      <4>1. i = Len(s) + 1
        BY <1>1, <1>5, <3>2
      <4> QED BY <1>1, <1>7, <1>8, <4>1 DEF Closes
    <3> QED BY <3>1, <3>2
  <2>2. t[1] = "/"
    BY <1>3 DEF BodySoFar
  <2> QED BY <1>1, <2>1, <2>2 DEF BodySoFar
<1>9. ASSUME c = "/", ~EscapedNext(s), ~ClassNext(s) PROVE IsRegExp(t)
  <2>1. PICK n \in 2 .. Len(t) : n = Len(s) + 1 /\ n = Len(t)
    BY <1>1, <1>2
  <2>2. Closes(t, n)
    BY <1>1, <1>7, <1>9, <2>1 DEF Closes
  <2>3. \A i \in 2 .. n - 1 : i \in 2 .. Len(s)
    BY <1>1, <2>1
  <2>4. SubSeq(t, n + 1, Len(t)) = <<>>
    <3>1. n + 1 \in Int /\ Len(t) \in Int /\ Len(t) < n + 1
      BY <1>1, <2>1
    <3> QED BY <3>1, SubSeqEmpty
  <2>5. \A S : AllIn(<<>>, S)
    BY DEF AllIn
  <2> QED BY <1>6, <2>2, <2>3, <2>4, <2>5 DEF IsRegExp
<1> QED BY <1>8, <1>9

\* So do its flags.
Flags == IdContinue \cup {"\\", "{", "}"}

LEMMA FlagMore ==
  ASSUME NEW s \in Seq(Chars), NEW c \in Flags, c \in Chars,
         NEW t \in Seq(Chars), t = Append(s, c), IsRegExp(s)
  PROVE  IsRegExp(t)
<1>1. PICK n \in 2 .. Len(s) :
        /\ Closes(s, n)
        /\ \A i \in 2 .. n - 1 :
             ~Closes(s, i) /\ (s[i] \in Newlines => InClass(s, i) /\ ~Escaped(s, i))
        /\ AllIn(SubSeq(s, n + 1, Len(s)), Flags)
  BY DEF IsRegExp, Flags
<1>2. /\ Len(s) \in Nat /\ Len(t) = Len(s) + 1 /\ t[Len(s) + 1] = c
      /\ \A k \in 1 .. Len(s) : t[k] = s[k]
  BY AppendIs
<1>3. n \in 2 .. Len(t) /\ \A i \in 2 .. n : i \in 1 .. Len(s) + 1 /\ i \in 1 .. Len(s)
  BY <1>2
<1>4. ASSUME NEW i \in 2 .. n
      PROVE  /\ t[i] = s[i] /\ (Escaped(t, i) <=> Escaped(s, i))
             /\ InClass(t, i) <=> InClass(s, i)
             /\ Closes(t, i) <=> Closes(s, i)
  <2>1. i \in 1 .. Len(s) + 1 /\ i \in 1 .. Len(s)
    BY <1>3
  <2>2. t[i] = s[i] /\ (Escaped(t, i) <=> Escaped(s, i)) /\ (InClass(t, i) <=> InClass(s, i))
    BY <1>2, <2>1, EscapesMore
  <2> QED BY <2>2 DEF Closes
<1>5. Closes(t, n)
  <2>1. n \in 2 .. n
    OBVIOUS
  <2> QED BY <1>1, <1>4, <2>1
<1>6. \A i \in 2 .. n - 1 :
        ~Closes(t, i) /\ (t[i] \in Newlines => InClass(t, i) /\ ~Escaped(t, i))
  <2>1. \A i \in 2 .. n - 1 : i \in 2 .. n
    OBVIOUS
  <2> QED BY <1>1, <1>4, <2>1
<1>7. AllIn(SubSeq(t, n + 1, Len(t)), Flags)
  <2>1. \A i \in n + 1 .. Len(s) : s[i] \in Flags
    <3>1. ASSUME NEW i \in n + 1 .. Len(s) PROVE s[i] \in Flags
      <4>1. PICK k \in 1 .. Len(s) - n : i = n + 1 + k - 1
        <5>1. i - n \in 1 .. Len(s) - n /\ i = n + 1 + (i - n) - 1
          BY <1>2
        <5> QED BY <5>1
      <4>2. \A a \in Nat, b \in Nat : a \in 1 .. b /\ b <= Len(s) =>
              /\ Len(SubSeq(s, a, b)) = b - a + 1
              /\ DOMAIN SubSeq(s, a, b) = 1 .. (b - a + 1)
              /\ \A j \in 1 .. (b - a + 1) : SubSeq(s, a, b)[j] = s[a + j - 1]
        OBVIOUS
      <4>3. /\ n + 1 \in Nat /\ n + 1 \in 1 .. Len(s)
            /\ 1 .. (Len(s) - (n + 1) + 1) = 1 .. Len(s) - n
        BY <1>2, <3>1
      <4>4. SubSeq(s, n + 1, Len(s))[k] = s[i] /\ k \in DOMAIN SubSeq(s, n + 1, Len(s))
        BY <1>2, <4>1, <4>2, <4>3
      <4> QED BY <1>1, <4>4 DEF AllIn
    <3> QED BY <3>1
  <2>2. \A i \in n + 1 .. Len(t) : t[i] \in Flags
    <3>1. \A i \in n + 1 .. Len(t) : i = Len(s) + 1 \/ (i \in n + 1 .. Len(s) /\ i \in 1 .. Len(s))
      BY <1>2
    <3> QED BY <1>2, <2>1, <3>1
  <2>3. \A a \in Nat, b \in Nat : a \in 1 .. b /\ b <= Len(t) =>
          /\ DOMAIN SubSeq(t, a, b) = 1 .. (b - a + 1)
          /\ \A j \in 1 .. (b - a + 1) : SubSeq(t, a, b)[j] = t[a + j - 1]
    OBVIOUS
  <2>6. \A a \in Nat, b \in Nat : \A j \in 1 .. (b - a + 1) : a + j - 1 \in a .. b
    OBVIOUS
  <2>4. n + 1 \in Nat /\ n + 1 \in 1 .. Len(t) /\ Len(t) \in Nat
    BY <1>2
  <2>5. /\ DOMAIN SubSeq(t, n + 1, Len(t)) = 1 .. (Len(t) - (n + 1) + 1)
        /\ \A j \in 1 .. (Len(t) - (n + 1) + 1) :
             /\ SubSeq(t, n + 1, Len(t))[j] = t[n + 1 + j - 1]
             /\ n + 1 + j - 1 \in n + 1 .. Len(t)
    BY <2>3, <2>4, <2>6
  <2> QED BY <2>2, <2>5 DEF AllIn
<1> QED BY <1>3, <1>5, <1>6, <1>7 DEF IsRegExp, Flags
-----------------------------------------------------------------------------
(***************************************************************************)
(* The calls within an escape.                                             *)
(***************************************************************************)
EscapeChars == HexDigits \cup {"{", "}"}

LEMMA EscapeCharsAre ==
  \A c \in EscapeChars :
    c \notin Newlines /\ c \notin {"\"", "'"} /\ c # "\\" /\ c \in Flags /\ c \in IdContinue \cup {"{", "}"}
<1>1. HexDigits \subseteq IdContinue
  BY DEF HexDigits, IdContinue, IdStart
<1>2. ToSet(HexLetters) = {"a", "b", "c", "d", "e", "f"}
  BY SMT DEF ToSet, HexLetters
<1>3. \A c \in HexDigits : c \notin Newlines /\ c \notin {"\"", "'"} /\ c # "\\"
  BY <1>2, Zenon DEF HexDigits, DecDigits, OctDigits, BinDigits, Newlines, LineEnds
<1>4. \A c \in {"{", "}"} : c \notin Newlines /\ c \notin {"\"", "'"} /\ c # "\\"
  BY Zenon DEF Newlines, LineEnds
<1> QED BY <1>1, <1>3, <1>4, Zenon DEF EscapeChars, Flags

LEMMA EscapeCalls ==
  /\ HexDigit \in EscapeCall /\ Call("unicode") \in EscapeCall /\ Call("braces") \in EscapeCall
  /\ Call("add_digits") \in EscapeCall /\ \A w \in BOOLEAN : FromU32(w) \in EscapeCall
  /\ EscapeCall \subseteq InnerCall
<1>1. /\ HexDigit \in InnerCall /\ Call("unicode") \in InnerCall /\ Call("braces") \in InnerCall
      /\ Call("add_digits") \in InnerCall /\ \A w \in BOOLEAN : FromU32(w) \in InnerCall
  BY Calls DEF PlainFns
<1>2. /\ HexDigit.fn = "digit" /\ HexDigit.chars = HexDigits
      /\ Call("unicode").fn = "unicode" /\ Call("braces").fn = "braces"
      /\ Call("add_digits").fn = "add_digits" /\ \A w : FromU32(w).fn = "from_u32"
  BY DEF HexDigit, ReadDigit, Call, FromU32
<1> QED BY <1>1, <1>2, Zenon DEF EscapeCall

\* An escape goes on, its characters those of hexadecimal digits and braces.
LEMMA EscapeStep ==
  ASSUME LexerInv, LexerStep, ~PeekMore, Running', This \in EscapeCall
  PROVE  \E new \in Seq(EscapeCall) : Stay(new) \/ (Consume(new) /\ Next1 \in EscapeChars)
<1>1. /\ This \in InnerCall
      /\ This.fn \in {"digit", "unicode", "braces", "add_digits", "from_u32"}
      /\ This.fn = "digit" => This.chars = HexDigits
  BY DEF EscapeCall
<1>2. <<>> \in Seq(EscapeCall)
  OBVIOUS
<1>3. /\ HexDigit \in EscapeCall /\ Call("braces") \in EscapeCall
      /\ Call("add_digits") \in EscapeCall
  BY EscapeCalls
<1>4. ASSUME NEW e \in Errors \cup Panics, Fail(e) PROVE FALSE
  BY <1>4, NotRunning DEF Errors, Panics
<1>5. CASE This.fn = "digit"
  <2>1. ReadDigitInto
    BY <1>5, StepOf
  <2>2. This.missing \in Errors
    <3>1. \A a \in InnerCall : a.fn = "digit" => a.missing \in Errors
      BY DEF InnerCall, PlainFns
    <3> QED BY <1>1, <1>5, <3>1
  <2>3. "InvalidDigit" \in Errors
    BY DEF Errors
  <2>4. Next1 \in HexDigits /\ Consume(<<>>)
    BY <1>1, <1>4, <1>5, <2>1, <2>2, <2>3, Zenon DEF ReadDigitInto
  <2>5. Next1 \in EscapeChars
    BY <2>4, Zenon DEF EscapeChars
  <2> QED BY <1>2, <2>4, <2>5
<1>6. CASE This.fn = "unicode"
  <2>1. UnicodeEscape
    BY <1>6, StepOf
  <2>2. /\ <<HexDigit, Call("braces"), Call("add_digits")>> \in Seq(EscapeCall)
        /\ <<HexDigit, HexDigit, HexDigit, HexDigit, Call("add_digits")>> \in Seq(EscapeCall)
    <3> HIDE DEF EscapeCall, HexDigit, Call
    <3> QED BY <1>3, Tuples
  <2>3. CASE Next1 = "{"
    <3>1. Consume(<<HexDigit, Call("braces"), Call("add_digits")>>)
      BY <2>1, <2>3, Zenon DEF UnicodeEscape
    <3>2. Next1 \in EscapeChars
      BY <2>3, Zenon DEF EscapeChars
    <3> QED BY <2>2, <3>1, <3>2, Zenon
  <2>4. CASE Next1 # "{"
    <3>1. Stay(<<HexDigit, HexDigit, HexDigit, HexDigit, Call("add_digits")>>)
      BY <2>1, <2>4, Zenon DEF UnicodeEscape
    <3> QED BY <2>2, <3>1, Zenon
  <2> QED BY <2>3, <2>4, Zenon
<1>7. CASE This.fn = "braces"
  <2>1. Braces
    BY <1>7, StepOf
  <2>2. <<HexDigit, This>> \in Seq(EscapeCall)
    <3> HIDE DEF EscapeCall, HexDigit
    <3> QED BY <1>3, Tuples
  <2>3. "AssertionFailed" \in Errors \cup Panics
    BY DEF Panics
  <2>4. ~AssertionFails
    BY <1>4, <2>3, Zenon DEF AssertionFails
  <2>5. \/ Next1 = "}" /\ Consume(<<>>)
        \/ Stay(<<HexDigit, This>>)
    BY <2>1, <2>4, Zenon DEF Braces
  <2>6. Next1 = "}" => Next1 \in EscapeChars
    BY Zenon DEF EscapeChars
  <2> QED BY <1>2, <2>2, <2>5, <2>6, Zenon
<1>8. CASE This.fn = "add_digits"
  <2>1. AddDigits
    BY <1>8, StepOf
  <2>2. "Overflow" \in Errors \cup Panics
    BY DEF Panics
  <2>3. Stay(<<>>)
    BY <1>4, <2>1, <2>2, Zenon DEF AddDigits
  <2> QED BY <1>2, <2>3
<1>9. CASE This.fn = "from_u32"
  <2>1. CharFromU32
    BY <1>9, StepOf
  <2>2. "IllegalUnicode" \in Errors \cup Panics
    BY DEF Errors
  <2>3. Stay(<<>>)
    BY <1>4, <2>1, <2>2, Zenon DEF CharFromU32
  <2> QED BY <1>2, <2>3
<1> QED BY <1>1, <1>5, <1>6, <1>7, <1>8, <1>9, Zenon

-----------------------------------------------------------------------------
(***************************************************************************)
(* The calls before that of a literal, and it.                             *)
(***************************************************************************)
LEMMA AppendShort ==
  ASSUME NEW a, NEW x PROVE Append(<<>>, x) = <<x>> /\ Append(<<a>>, x) = <<a, x>>
<1> DEFINE S == {a, x}
<1>1. a \in S /\ x \in S
  OBVIOUS
<1> HIDE DEF S
<1>2. <<>> \in Seq(S) /\ <<a>> \in Seq(S) /\ <<x>> \in Seq(S) /\ Len(<<a>>) = 1
  BY <1>1
<1>3. Append(<<>>, x) = <<>> \o <<x>> /\ <<>> \o <<x>> = <<x>>
  BY <1>1, <1>2, AppendIsConcat, ConcatEmptySeq
<1>4. PICK y \in Seq(S) : y = Append(<<a>>, x)
  BY <1>1, <1>2, AppendProperties
<1>5. Len(y) >= 2 /\ Len(y) <= 2 /\ y[1] = a /\ y[2] = x
  BY <1>1, <1>2, <1>4
<1>6. y = <<y[1], y[2]>>
  BY <1>5, AsTuple
<1> QED BY <1>3, <1>4, <1>5, <1>6

LEMMA AppendCalls ==
  ASSUME NEW S, NEW cs \in Seq(S), NEW x \in S, NEW a \in S
  PROVE  /\ Append(<<a>> \o cs, x) = <<a>> \o Append(cs, x)
         /\ Append(cs, x) \in Seq(S) /\ <<a>> \o cs \in Seq(S)
         /\ \A new \in Seq(S) : new \o Append(cs, x) = Append(new \o cs, x) /\ new \o cs \in Seq(S)
<1>2. Append(cs, x) \in Seq(S)
  OBVIOUS
<1>3. ASSUME NEW new \in Seq(S)
      PROVE  new \o Append(cs, x) = Append(new \o cs, x) /\ new \o cs \in Seq(S)
  <2>1. <<x>> \in Seq(S) /\ new \o cs \in Seq(S)
    OBVIOUS
  <2>2. Append(cs, x) = cs \o <<x>> /\ Append(new \o cs, x) = (new \o cs) \o <<x>>
    BY <2>1, AppendIsConcat, Zenon
  <2>3. (new \o cs) \o <<x>> = new \o (cs \o <<x>>)
    BY <2>1, ConcatAssociative
  <2> QED BY <2>1, <2>2, <2>3, Zenon
<1>4. <<a>> \in Seq(S)
  OBVIOUS
<1> QED BY <1>2, <1>3, <1>4, Zenon

\* The first of them makes others, or the last one does.
LEMMA BeforeLast ==
  ASSUME NEW S, NEW k, NEW calls \in Seq(S), NEW x \in S, Rest(k, Append(calls, x))
  PROVE  /\ todo # <<>>
         /\ calls = <<>> =>
              This = x /\ \A new \in Seq(S) : Then(new) => Rest(k, new)'
         /\ \A a \in S, cs \in Seq(S) : calls = <<a>> \o cs =>
              This = a /\ \A new \in Seq(S) : Then(new) => Rest(k, Append(new \o cs, x))'
<1>1. ASSUME calls = <<>>
      PROVE  /\ This = x /\ todo # <<>>
             /\ \A new \in Seq(S) : Then(new) => Rest(k, new)'
  <2>1. Append(calls, x) = <<x>>
    BY <1>1, AppendShort
  <2>2. Rest(k, <<x>>)
    BY <2>1
  <2>3. <<>> \in Seq(S) /\ <<x>> \o <<>> = <<x>>
    BY Singleton
  <2>4. \A new \in Seq(S) : new \o <<>> = new
    OBVIOUS
  <2> QED BY <2>2, <2>3, <2>4, RestCalls, RestThis
<1>2. ASSUME NEW a \in S, NEW cs \in Seq(S), calls = <<a>> \o cs
      PROVE  /\ This = a /\ todo # <<>>
             /\ \A new \in Seq(S) : Then(new) => Rest(k, Append(new \o cs, x))'
  <2>1. Append(cs, x) \in Seq(S) /\ Rest(k, <<a>> \o Append(cs, x))
    <3>1. Append(cs, x) \in Seq(S) /\ Append(<<a>> \o cs, x) = <<a>> \o Append(cs, x)
      BY AppendCalls
    <3> QED BY <1>2, <3>1, Zenon
  <2>2. \A new \in Seq(S) : new \o Append(cs, x) = Append(new \o cs, x)
    BY AppendCalls
  <2> QED BY <2>1, <2>2, RestCalls, RestThis
<1>3. todo # <<>>
  BY <1>1, <1>2, FirstOf
<1> QED BY <1>1, <1>2, <1>3

\* The only call before the last makes others.
LEMMA OneBeforeLast ==
  ASSUME NEW S, NEW k, NEW a \in S, NEW x \in S, Rest(k, Append(<<a>>, x))
  PROVE  This = a /\ \A new \in Seq(S) : Then(new) => Rest(k, Append(new, x))'
<1>0. PICK cs \in Seq(S) : cs = <<>>
  BY Tuples, Zenon
<1>1. PICK one \in Seq(S) : one = <<a>> /\ cs = <<>>
  BY <1>0, Tuples
<1>2. one = <<a>> \o cs
  BY <1>1, Singleton
<1>3. Rest(k, Append(one, x))
  BY <1>1
<1>4. This = a /\ \A new \in Seq(S) : Then(new) => Rest(k, Append(new \o cs, x))'
  BY <1>1, <1>2, <1>3, BeforeLast, Zenon
<1>5. \A new \in Seq(S) : new \o cs = new
  BY <1>1
<1> QED BY <1>4, <1>5

-----------------------------------------------------------------------------
(***************************************************************************)
(* Regular expressions: what each call has read.                           *)
(***************************************************************************)
LEMMA BodyNext ==
  ASSUME NEW t, SoFar' = t, BodySoFar(t)
  PROVE  /\ (/\ ~EscapedNext(t) /\ ~ClassNext(t)
             /\ Rest("regexp", <<Call("regexp"), Call("word_parts")>>)') => RegExpText'
         /\ (/\ EscapedNext(t) /\ ~ClassNext(t)
             /\ Rest("regexp", <<Call("backslash"), Call("regexp"), Call("word_parts")>>)')
              => RegExpText'
         /\ (/\ ~EscapedNext(t) /\ ClassNext(t)
             /\ Rest("regexp", <<Call("class"), Call("regexp"), Call("word_parts")>>)')
              => RegExpText'
         /\ (/\ EscapedNext(t) /\ ClassNext(t)
             /\ Rest("regexp", <<Call("backslash"), Call("class"), Call("regexp"),
                                 Call("word_parts")>>)')
              => RegExpText'
BY DEF RegExpText, RegExpBody

LEMMA FlagsNext ==
  ASSUME NEW t, SoFar' = t, IsRegExp(t)
  PROVE  /\ \A calls \in Seq(EscapeCall) \cup {<<Call("word_escape")>>} :
              Rest("regexp", Append(calls, Call("word_parts")))' => RegExpText'
         /\ Rest("regexp", <<>>)' => RegExpText'
BY Zenon DEF RegExpText

LEMMA RegExpPeek ==
  ASSUME LexerInv, start.offset <= posn.offset, RegExpText, PeekMore
  PROVE  RegExpText' /\ (start.offset <= posn.offset)'
<1>1. SoFar' = SoFar /\ UNCHANGED <<todo, start, posn>>
  BY PeekKeeps
<1>2. \A k, cs : Rest(k, cs) => Rest(k, cs)'
  BY <1>1 DEF Rest
<1>3. PICK s : s = SoFar
  OBVIOUS
<1>4. SoFar' = s
  BY <1>1, <1>3
<1>5. CASE RegExpBody(SoFar)
  <2>1. RegExpBody(s)
    BY <1>3, <1>5
  <2> QED BY <1>1, <1>2, <1>4, <2>1, BodyNext DEF RegExpBody
<1>6. CASE ~RegExpBody(SoFar)
  <2>1. IsRegExp(s)
    BY <1>3, <1>6, Zenon DEF RegExpText
  <2> QED BY <1>1, <1>2, <1>4, <1>6, <2>1, FlagsNext, Zenon DEF RegExpText
<1> QED BY <1>5, <1>6

\* Outside of classes and escapes.
LEMMA PlainBody ==
  ASSUME LexerInv, start.offset <= posn.offset, Running', RegExp,
         NEW s \in Seq(Chars), s = SoFar, BodySoFar(s), ~EscapedNext(s), ~ClassNext(s),
         Rest("regexp", <<Call("regexp"), Call("word_parts")>>)
  PROVE  RegExpText' /\ (start.offset <= posn.offset)'
<1>1. ~Fail("AssertionFailed") /\ ~Fail("UnterminatedRegExp")
  BY NotRunning
<1>2. This = Call("regexp")
  BY RestHead
<1>3. \/ Next1 = "/" /\ Consume(<<>>)
      \/ /\ Next1 \notin Newlines /\ Next1 # "/"
         /\ Consume(CASE Next1 = "\\" -> <<Call("backslash"), Call("regexp")>>
                      [] Next1 = "[" -> <<Call("class"), Call("regexp")>>
                      [] OTHER -> <<Call("regexp")>>)
  <2> HIDE DEF Consume, Fail
  <2> QED BY <1>1, <1>2 DEF RegExp, AssertionFails
<1>4. ASSUME NEW calls, Consume(calls)
      PROVE  /\ Then(calls) /\ Next1 \in Chars /\ (start.offset <= posn.offset)'
             /\ \E t \in Seq(Chars) : t = Append(s, Next1) /\ SoFar' = t
  BY <1>4, TakesOne
<1>5. CASE Next1 = "/"
  <2>1. Consume(<<>>)
    BY <1>3, <1>5
  <2>2. PICK t \in Seq(Chars) : t = Append(s, Next1) /\ SoFar' = t
    BY <1>4, <2>1
  <2>3. Then(<<>>) /\ Next1 \in Chars /\ (start.offset <= posn.offset)'
    BY <1>4, <2>1
  <2>4. IsRegExp(t)
    BY <1>5, <2>2, <2>3, BodyMore
  <2>5. Rest("regexp", <<Call("word_parts")>>)'
    BY <2>3, RestReturns
  <2>6. <<>> \in Seq(EscapeCall) /\ Append(<<>>, Call("word_parts")) = <<Call("word_parts")>>
    BY AppendShort
  <2> QED BY <2>2, <2>3, <2>4, <2>5, <2>6, FlagsNext
<1>6. CASE Next1 = "\\"
  <2>1. Consume(<<Call("backslash"), Call("regexp")>>) /\ Next1 \notin Newlines
    BY <1>3, <1>6
  <2>2. PICK t \in Seq(Chars) : t = Append(s, Next1) /\ SoFar' = t
    BY <1>4, <2>1
  <2>3. /\ Then(<<Call("backslash"), Call("regexp")>>) /\ Next1 \in Chars
        /\ (start.offset <= posn.offset)'
    BY <1>4, <2>1
  <2>4. EscapedNext(t) /\ ~ClassNext(t)
    BY <1>6, <2>2, <2>3, EscapesMore
  <2>5. BodySoFar(t)
    BY <1>6, <2>1, <2>2, <2>3, BodyMore
  <2>6. Rest("regexp", <<Call("backslash"), Call("regexp"), Call("word_parts")>>)'
    BY <2>3, RestGrows
  <2> QED BY <2>2, <2>3, <2>4, <2>5, <2>6, BodyNext
<1>7. CASE Next1 = "["
  <2>1. Consume(<<Call("class"), Call("regexp")>>) /\ Next1 \notin Newlines
    BY <1>3, <1>7
  <2>2. PICK t \in Seq(Chars) : t = Append(s, Next1) /\ SoFar' = t
    BY <1>4, <2>1
  <2>3. /\ Then(<<Call("class"), Call("regexp")>>) /\ Next1 \in Chars
        /\ (start.offset <= posn.offset)'
    BY <1>4, <2>1
  <2>4. ~EscapedNext(t) /\ ClassNext(t)
    BY <1>7, <2>2, <2>3, EscapesMore
  <2>5. BodySoFar(t)
    BY <1>7, <2>1, <2>2, <2>3, BodyMore
  <2>6. Rest("regexp", <<Call("class"), Call("regexp"), Call("word_parts")>>)'
    BY <2>3, RestGrows
  <2> QED BY <2>2, <2>3, <2>4, <2>5, <2>6, BodyNext
<1>8. CASE Next1 \notin {"/", "\\", "["}
  <2>1. Consume(<<Call("regexp")>>) /\ Next1 \notin Newlines
    BY <1>3, <1>8
  <2>2. PICK t \in Seq(Chars) : t = Append(s, Next1) /\ SoFar' = t
    BY <1>4, <2>1
  <2>3. Then(<<Call("regexp")>>) /\ Next1 \in Chars /\ (start.offset <= posn.offset)'
    BY <1>4, <2>1
  <2>4. ~EscapedNext(t) /\ ~ClassNext(t)
    BY <1>8, <2>2, <2>3, EscapesMore
  <2>5. BodySoFar(t)
    BY <1>8, <2>1, <2>2, <2>3, BodyMore
  <2>6. Rest("regexp", <<Call("regexp"), Call("word_parts")>>)'
    BY <2>3, RestGrows
  <2> QED BY <2>2, <2>3, <2>4, <2>5, <2>6, BodyNext
<1> QED BY <1>5, <1>6, <1>7, <1>8

\* After a backslash, in a class or not.
LEMMA EscapedBody ==
  ASSUME LexerInv, start.offset <= posn.offset, Running', Backslash,
         NEW s \in Seq(Chars), s = SoFar, BodySoFar(s), EscapedNext(s)
  PROVE  /\ (/\ ~ClassNext(s)
             /\ Rest("regexp", <<Call("backslash"), Call("regexp"), Call("word_parts")>>))
              => RegExpText' /\ (start.offset <= posn.offset)'
         /\ (/\ ClassNext(s)
             /\ Rest("regexp", <<Call("backslash"), Call("class"), Call("regexp"),
                                 Call("word_parts")>>))
              => RegExpText' /\ (start.offset <= posn.offset)'
<1>1. ~Fail("UnterminatedRegExp")
  BY NotRunning
<1>2. Consume(<<>>) /\ Next1 \notin Newlines
  BY <1>1, Zenon DEF Backslash
<1>3. PICK t \in Seq(Chars) : t = Append(s, Next1) /\ SoFar' = t
  BY <1>2, TakesOne
<1>4. Then(<<>>) /\ Next1 \in Chars /\ (start.offset <= posn.offset)'
  BY <1>2, TakesOne
<1>5. ~EscapedNext(t) /\ (ClassNext(t) <=> ClassNext(s))
  BY <1>3, <1>4, EscapesMore
<1>6. BodySoFar(t)
  BY <1>2, <1>3, <1>4, BodyMore
<1>7. ASSUME ~ClassNext(s),
             Rest("regexp", <<Call("backslash"), Call("regexp"), Call("word_parts")>>)
      PROVE  RegExpText'
  <2>1. Rest("regexp", <<Call("regexp"), Call("word_parts")>>)'
    BY <1>4, <1>7, RestReturns
  <2> QED BY <1>3, <1>5, <1>6, <1>7, <2>1, BodyNext
<1>8. ASSUME ClassNext(s),
             Rest("regexp", <<Call("backslash"), Call("class"), Call("regexp"),
                              Call("word_parts")>>)
      PROVE  RegExpText'
  <2>1. Rest("regexp", <<Call("class"), Call("regexp"), Call("word_parts")>>)'
    BY <1>4, <1>8, RestReturns
  <2> QED BY <1>3, <1>5, <1>6, <1>8, <2>1, BodyNext
<1> QED BY <1>4, <1>7, <1>8

\* In a class.
LEMMA ClassBody ==
  ASSUME LexerInv, start.offset <= posn.offset, Running', RegExpClass,
         NEW s \in Seq(Chars), s = SoFar, BodySoFar(s), ~EscapedNext(s), ClassNext(s),
         Rest("regexp", <<Call("class"), Call("regexp"), Call("word_parts")>>)
  PROVE  RegExpText' /\ (start.offset <= posn.offset)'
<1>1. ~Fail("AssertionFailed")
  BY NotRunning
<1>2. This = Call("class")
  BY RestHead
<1>3. Consume(CASE Next1 = "]" -> <<>>
                [] Next1 = "\\" -> <<Call("backslash"), Call("class")>>
                [] OTHER -> <<Call("class")>>)
  <2> HIDE DEF Consume, Fail
  <2> QED BY <1>1, <1>2 DEF RegExpClass, AssertionFails
<1>4. ASSUME NEW calls, Consume(calls)
      PROVE  /\ Then(calls) /\ Next1 \in Chars /\ (start.offset <= posn.offset)'
             /\ \E t \in Seq(Chars) : t = Append(s, Next1) /\ SoFar' = t
  BY <1>4, TakesOne
<1>5. CASE Next1 = "]"
  <2>1. Consume(<<>>)
    BY <1>3, <1>5
  <2>2. PICK t \in Seq(Chars) : t = Append(s, Next1) /\ SoFar' = t
    BY <1>4, <2>1
  <2>3. Then(<<>>) /\ Next1 \in Chars /\ (start.offset <= posn.offset)'
    BY <1>4, <2>1
  <2>4. ~EscapedNext(t) /\ ~ClassNext(t)
    BY <1>5, <2>2, <2>3, EscapesMore
  <2>5. BodySoFar(t)
    BY <2>2, <2>3, BodyMore
  <2>6. Rest("regexp", <<Call("regexp"), Call("word_parts")>>)'
    BY <2>3, RestReturns
  <2> QED BY <2>2, <2>3, <2>4, <2>5, <2>6, BodyNext
<1>6. CASE Next1 = "\\"
  <2>1. Consume(<<Call("backslash"), Call("class")>>)
    BY <1>3, <1>6
  <2>2. PICK t \in Seq(Chars) : t = Append(s, Next1) /\ SoFar' = t
    BY <1>4, <2>1
  <2>3. /\ Then(<<Call("backslash"), Call("class")>>) /\ Next1 \in Chars
        /\ (start.offset <= posn.offset)'
    BY <1>4, <2>1
  <2>4. EscapedNext(t) /\ ClassNext(t)
    BY <1>6, <2>2, <2>3, EscapesMore
  <2>5. BodySoFar(t)
    BY <2>2, <2>3, BodyMore
  <2>6. Rest("regexp", <<Call("backslash"), Call("class"), Call("regexp"), Call("word_parts")>>)'
    BY <2>3 DEF Rest, Then, This, End
  <2> QED BY <2>2, <2>3, <2>4, <2>5, <2>6, BodyNext
<1>7. CASE Next1 \notin {"]", "\\"}
  <2>1. Consume(<<Call("class")>>)
    BY <1>3, <1>7
  <2>2. PICK t \in Seq(Chars) : t = Append(s, Next1) /\ SoFar' = t
    BY <1>4, <2>1
  <2>3. Then(<<Call("class")>>) /\ Next1 \in Chars /\ (start.offset <= posn.offset)'
    BY <1>4, <2>1
  <2>4. ~EscapedNext(t) /\ ClassNext(t)
    BY <1>7, <2>2, <2>3, EscapesMore
  <2>5. BodySoFar(t)
    BY <2>2, <2>3, BodyMore
  <2>6. Rest("regexp", <<Call("class"), Call("regexp"), Call("word_parts")>>)'
    BY <2>3, RestGrows
  <2> QED BY <2>2, <2>3, <2>4, <2>5, <2>6, BodyNext
<1> QED BY <1>5, <1>6, <1>7
\* The flags of a regular expression.
LEMMA FlagsStep ==
  ASSUME LexerInv, start.offset <= posn.offset, LexerStep, ~PeekMore, Running',
         NEW s \in Seq(Chars), s = SoFar, IsRegExp(s),
         NEW calls \in Seq(EscapeCall) \cup {<<Call("word_escape")>>},
         Rest("regexp", Append(calls, Call("word_parts")))
  PROVE  RegExpText' /\ (start.offset <= posn.offset)'
<1>1. /\ Call("word_parts") \in InnerCall /\ Call("word_escape") \in InnerCall
      /\ EscapeCall \subseteq InnerCall /\ Call("unicode") \in EscapeCall
      /\ FromU32(TRUE) \in EscapeCall
  BY Calls, EscapeCalls DEF PlainFns
<1>2. /\ \A cs \in Seq(EscapeCall) : cs \in Seq(InnerCall)
      /\ <<>> \in Seq(InnerCall) /\ <<>> \in Seq(EscapeCall)
      /\ <<Call("word_escape")>> \in Seq(InnerCall)
  <2> HIDE DEF EscapeCall, InnerCall
  <2> QED BY <1>1
<1>3. ASSUME NEW new, Consume(new), Next1 \in Flags
      PROVE  /\ Then(new) /\ (start.offset <= posn.offset)'
             /\ \E t \in Seq(Chars) : IsRegExp(t) /\ SoFar' = t
  <2>1. Then(new) /\ Next1 \in Chars /\ (start.offset <= posn.offset)'
    BY <1>3, TakesOne
  <2>2. PICK t \in Seq(Chars) : t = Append(s, Next1) /\ SoFar' = t
    BY <1>3, TakesOne
  <2>3. PICK c : c = Next1
    OBVIOUS
  <2>4. IsRegExp(t)
    BY <1>3, <2>1, <2>2, <2>3, FlagMore
  <2> QED BY <2>1, <2>2, <2>4
<1>4. ASSUME NEW new, Stay(new)
      PROVE  Then(new) /\ (start.offset <= posn.offset)' /\ SoFar' = s
  BY <1>4, TakesNone
<1>5. CASE calls = <<>>
  <2>1. /\ This = Call("word_parts")
        /\ \A new \in Seq(InnerCall) : Then(new) => Rest("regexp", new)'
    BY <1>1, <1>2, <1>5, BeforeLast
  <2>2. WordParts
    BY <2>1, StepOf DEF Call
  <2>3. CASE Next1 \in IdContinue \cup {"\\"}
    <3>1. Next1 \in Flags
      BY <2>3, Zenon DEF Flags
    <3>2. Consume(IF Next1 = "\\" THEN <<Call("word_escape"), Call("word_parts")>>
                  ELSE <<Call("word_parts")>>)
      BY <2>1, <2>2, <2>3, Zenon DEF WordParts
    <3>3. CASE Next1 = "\\"
      <4>1. Consume(<<Call("word_escape"), Call("word_parts")>>)
        BY <3>2, <3>3, Zenon
      <4>2. <<Call("word_escape"), Call("word_parts")>> \in Seq(InnerCall)
        <5> HIDE DEF InnerCall, Call
        <5> QED BY <1>1, Tuples
      <4>3. PICK t \in Seq(Chars) : IsRegExp(t) /\ SoFar' = t
        BY <1>3, <3>1, <4>1, Zenon
      <4>4. Then(<<Call("word_escape"), Call("word_parts")>>) /\ (start.offset <= posn.offset)'
        BY <1>3, <3>1, <4>1, Zenon
      <4>5. Append(<<Call("word_escape")>>, Call("word_parts"))
              = <<Call("word_escape"), Call("word_parts")>>
        BY AppendShort
      <4>6. Rest("regexp", Append(<<Call("word_escape")>>, Call("word_parts")))'
        BY <2>1, <4>2, <4>4, <4>5, Zenon
      <4> QED BY <4>3, <4>4, <4>6, FlagsNext, Zenon
    <3>4. CASE Next1 # "\\"
      <4>1. Consume(<<Call("word_parts")>>)
        BY <3>2, <3>4, Zenon
      <4>2. <<Call("word_parts")>> \in Seq(InnerCall)
        <5> HIDE DEF InnerCall, Call
        <5> QED BY <1>1, Tuples
      <4>3. PICK t \in Seq(Chars) : IsRegExp(t) /\ SoFar' = t
        BY <1>3, <3>1, <4>1, Zenon
      <4>4. Then(<<Call("word_parts")>>) /\ (start.offset <= posn.offset)'
        BY <1>3, <3>1, <4>1, Zenon
      <4>5. Append(<<>>, Call("word_parts")) = <<Call("word_parts")>>
        BY AppendShort
      <4>6. Rest("regexp", Append(<<>>, Call("word_parts")))'
        BY <2>1, <4>2, <4>4, <4>5, Zenon
      <4> QED BY <1>2, <4>3, <4>4, <4>6, FlagsNext, Zenon
    <3> QED BY <3>3, <3>4, Zenon
  <2>4. CASE Next1 \notin IdContinue \cup {"\\"}
    <3>1. Stay(<<>>)
      BY <2>2, <2>4, Zenon DEF WordParts
    <3>2. Then(<<>>) /\ (start.offset <= posn.offset)' /\ SoFar' = s
      BY <1>4, <3>1
    <3>3. Rest("regexp", <<>>)'
      BY <1>2, <2>1, <3>2
    <3> QED BY <3>2, <3>3, FlagsNext
  <2> QED BY <2>3, <2>4, Zenon
<1>6. CASE calls = <<Call("word_escape")>>
  <2> DEFINE new == <<Call("unicode"), FromU32(TRUE)>>
  <2>1. Rest("regexp", Append(<<Call("word_escape")>>, Call("word_parts")))
    BY <1>6
  <2>2. /\ This = Call("word_escape")
        /\ \A cs \in Seq(InnerCall) : Then(cs) => Rest("regexp", Append(cs, Call("word_parts")))'
    BY <1>1, <2>1, OneBeforeLast
  <2>3. WordEscape
    BY <2>2, StepOf DEF Call
  <2>4. ~Fail("IncompleteWordEscape")
    BY NotRunning
  <2>5. Consume(new) /\ Next1 = "u"
    BY <2>3, <2>4, Zenon DEF WordEscape
  <2>6. Next1 \in Flags
    <3>1. "u" \in IdContinue
      BY DEF IdContinue, IdStart
    <3> QED BY <2>5, <3>1, Zenon DEF Flags
  <2>7. new \in Seq(EscapeCall)
    <3> HIDE DEF EscapeCall, Call, FromU32
    <3> QED BY <1>1, Tuples
  <2> HIDE DEF new
  <2>8. PICK t \in Seq(Chars) : IsRegExp(t) /\ SoFar' = t
    BY <1>3, <2>5, <2>6, Zenon
  <2>9. Then(new) /\ (start.offset <= posn.offset)'
    BY <1>3, <2>5, <2>6, Zenon
  <2>10. Rest("regexp", Append(new, Call("word_parts")))'
    BY <1>2, <2>2, <2>7, <2>9
  <2> QED BY <2>7, <2>8, <2>9, <2>10, FlagsNext, Zenon
<1>7. CASE calls # <<>> /\ calls # <<Call("word_escape")>>
  <2>1. calls \in Seq(EscapeCall)
    BY <1>7
  <2>2. PICK a \in EscapeCall, cs \in Seq(EscapeCall) : calls = <<a>> \o cs
    BY <1>7, <2>1, FirstOf
  <2>3. /\ This = a
        /\ \A new \in Seq(InnerCall) : Then(new) =>
             Rest("regexp", Append(new \o cs, Call("word_parts")))'
    <3>1. /\ calls \in Seq(InnerCall) /\ cs \in Seq(InnerCall) /\ a \in InnerCall
          /\ Call("word_parts") \in InnerCall
      BY <1>1, <1>2, <2>1
    <3> QED BY <2>2, <3>1, BeforeLast, Zenon
  <2>4. PICK new \in Seq(EscapeCall) : Stay(new) \/ (Consume(new) /\ Next1 \in EscapeChars)
    BY <2>3, EscapeStep
  <2>5. /\ Then(new) /\ (start.offset <= posn.offset)'
        /\ \E t \in Seq(Chars) : IsRegExp(t) /\ SoFar' = t
    <3>1. Next1 \in EscapeChars => Next1 \in Flags
      BY EscapeCharsAre, Zenon
    <3> QED BY <1>3, <1>4, <2>4, <3>1, Zenon
  <2>6. PICK t \in Seq(Chars) : IsRegExp(t) /\ SoFar' = t
    BY <2>5
  <2>7. new \o cs \in Seq(EscapeCall)
    <3> HIDE DEF EscapeCall
    <3> QED OBVIOUS
  <2>8. Rest("regexp", Append(new \o cs, Call("word_parts")))'
    BY <1>2, <2>3, <2>5
  <2> QED BY <2>5, <2>6, <2>7, <2>8, FlagsNext, Zenon
<1> QED BY <1>5, <1>6, <1>7

\* A step of a regular expression keeps what is known of it.
LEMMA RegExpStep ==
  ASSUME LexerInv, start.offset <= posn.offset, LexerStep, RegExpText, ~EndToken, Running'
  PROVE  RegExpText' /\ (start.offset <= posn.offset)'
<1>1. CASE PeekMore
  BY <1>1, RegExpPeek
<1> SUFFICES ASSUME ~PeekMore PROVE RegExpText' /\ (start.offset <= posn.offset)'
  BY <1>1
<1>2. PICK s \in Seq(Chars) : s = SoFar
  BY SoFarIs
<1>3. CASE RegExpBody(SoFar)
  <2>1. RegExpBody(s) /\ BodySoFar(s)
    BY <1>2, <1>3 DEF RegExpBody
  <2>2. CASE /\ ~EscapedNext(s) /\ ~ClassNext(s)
             /\ Rest("regexp", <<Call("regexp"), Call("word_parts")>>)
    <3>1. This = Call("regexp")
      BY <2>2, RestHead
    <3>2. RegExp
      BY <3>1, StepOf DEF Call
    <3> QED BY <1>2, <2>1, <2>2, <3>2, PlainBody
  <2>3. CASE /\ EscapedNext(s) /\ ~ClassNext(s)
             /\ Rest("regexp", <<Call("backslash"), Call("regexp"), Call("word_parts")>>)
    <3>1. This = Call("backslash")
      BY <2>3, RestHead
    <3>2. Backslash
      BY <3>1, StepOf DEF Call
    <3> QED BY <1>2, <2>1, <2>3, <3>2, EscapedBody
  <2>4. CASE /\ ~EscapedNext(s) /\ ClassNext(s)
             /\ Rest("regexp", <<Call("class"), Call("regexp"), Call("word_parts")>>)
    <3>1. This = Call("class")
      BY <2>4, RestHead
    <3>2. RegExpClass
      BY <3>1, StepOf DEF Call
    <3> QED BY <1>2, <2>1, <2>4, <3>2, ClassBody
  <2>5. CASE /\ EscapedNext(s) /\ ClassNext(s)
             /\ Rest("regexp", <<Call("backslash"), Call("class"), Call("regexp"),
                                 Call("word_parts")>>)
    <3>1. This = Call("backslash")
      BY <2>5, RestHead
    <3>2. Backslash
      BY <3>1, StepOf DEF Call
    <3> QED BY <1>2, <2>1, <2>5, <3>2, EscapedBody
  <2> QED BY <2>1, <2>2, <2>3, <2>4, <2>5 DEF RegExpBody
<1>4. CASE \E calls \in Seq(EscapeCall) \cup {<<Call("word_escape")>>} :
             Rest("regexp", Append(calls, Call("word_parts"))) /\ IsRegExp(SoFar)
  BY <1>2, <1>4, FlagsStep, Zenon
<1>5. CASE Rest("regexp", <<>>)
  <2>1. This = End("regexp")
    BY <1>5, RestEnd
  <2>2. EndToken
    BY <2>1, StepOf DEF End
  <2> QED BY <2>2
<1> QED BY <1>3, <1>4, <1>5, Zenon DEF RegExpText

\* The calls of a token take the place of that of read_next_token.
LEMMA LiteralBegins ==
  ASSUME LexerInv, todo = <<Call("token")>>, start.offset = posn.offset,
         NEW calls, Consume(calls)
  PROVE  /\ todo' = calls \o <<>> /\ Next1 \in Chars /\ SoFar' = <<Next1>>
         /\ (start.offset <= posn.offset)'
<1>1. start.offset <= posn.offset
  BY DEF LexerInv, LexerTypes
<1>2. /\ Then(calls) /\ SoFar' = Append(SoFar, Next1) /\ Next1 \in Chars
      /\ (start.offset <= posn.offset)'
  BY <1>1, ConsumeTakes
<1>3. SoFar = <<>>
  <2>1. posn.offset \in Nat
    BY <1>1, SoFarIs
  <2>2. start.offset + 1 \in Int /\ posn.offset \in Int /\ posn.offset < start.offset + 1
    BY <2>1
  <2> QED BY <2>2, SubSeqEmpty DEF SoFar
<1>4. Append(<<>>, Next1) = <<Next1>>
  BY AppendShort
<1>5. todo' = calls \o <<>>
  <2>1. Tail(todo) = <<>>
    OBVIOUS
  <2> QED BY <1>2, <2>1 DEF Then
<1> QED BY <1>2, <1>3, <1>4, <1>5

LEMMA RegExpStarts ==
  ASSUME LexerInv, todo = <<Call("token")>>, start.offset = posn.offset, Next1 = "/",
         Consume(<<Call("regexp"), Call("word_parts"), End("regexp")>>)
  PROVE  RegExpText' /\ (start.offset <= posn.offset)'
<1>1. /\ todo' = <<Call("regexp"), Call("word_parts"), End("regexp")>> \o <<>>
      /\ Next1 \in Chars /\ SoFar' = <<Next1>> /\ (start.offset <= posn.offset)'
  BY LiteralBegins
<1>2. Rest("regexp", <<Call("regexp"), Call("word_parts")>>)'
  <2>1. \A a, b, c : <<a, b, c>> \o <<>> = <<a, b>> \o <<c>>
    <3> SUFFICES ASSUME NEW a, NEW b, NEW c PROVE <<a, b, c>> \o <<>> = <<a, b>> \o <<c>>
      OBVIOUS
    <3> DEFINE S == {a, b, c}
    <3>1. a \in S /\ b \in S /\ c \in S
      OBVIOUS
    <3> HIDE DEF S
    <3>2. <<a, b, c>> \o <<>> = <<a, b, c>>
      BY <3>1, Tuples, ConcatEmptySeq
    <3>3. <<a, b>> \o <<c>> = <<a, b, c>>
      <4>1. <<a, b>> \in Seq(S) /\ <<c>> \in Seq(S)
        BY <3>1, Tuples
      <4>2. <<a, b>> \o <<c>> = Append(<<a, b>>, c)
        BY <3>1, <4>1, AppendIsConcat
      <4>3. PICK y \in Seq(S) : y = Append(<<a, b>>, c)
        BY <3>1, <4>1, AppendProperties
      <4>4. Len(y) >= 3 /\ Len(y) <= 3 /\ y[1] = a /\ y[2] = b /\ y[3] = c
        BY <3>1, <4>1, <4>3
      <4>5. y = <<y[1], y[2], y[3]>>
        BY <4>4, AsTuple
      <4> QED BY <4>2, <4>3, <4>4, <4>5
    <3> QED BY <3>2, <3>3
  <2>2. todo' = <<Call("regexp"), Call("word_parts")>> \o <<End("regexp")>>
    BY <1>1, <2>1, Zenon
  <2> QED BY <2>2 DEF Rest, End
<1>3. PICK t \in Seq(Chars) : t = <<"/">> /\ SoFar' = t
  <2>1. <<Next1>> \in Seq(Chars)
    BY <1>1, Tuples
  <2> QED BY <1>1, <2>1
<1>4. Len(t) >= 1 /\ Len(t) <= 1 /\ t[1] = "/" /\ t # <<>>
  BY <1>3
<1>5. BodySoFar(t)
  <2>1. \A i \in 2 .. Len(t) : FALSE
    BY <1>4
  <2> QED BY <1>4, <2>1 DEF BodySoFar
<1>6. ~EscapedNext(t) /\ ~ClassNext(t)
  <2>1. Len(t) + 1 = 1 + 1 /\ 1 \in Nat /\ 1 > 0
    BY <1>4
  <2>2. ~Escaped(t, 1 + 1) /\ ~InClass(t, 1 + 1)
    <3>1. t[1] # "\\" /\ t[1] # "["
      BY <1>4
    <3>2. Escaped(t, 1 + 1) <=> t[1] = "\\" /\ ~Escaped(t, 1)
      BY <2>1, EscapedAfter
    <3>3. /\ InClass(t, 1 + 1) <=>
               \/ t[1] = "[" /\ ~Escaped(t, 1)
               \/ InClass(t, 1) /\ (t[1] = "]" => Escaped(t, 1))
          /\ ~InClass(t, 1)
      BY <2>1, InClassAfter
    <3> QED BY <3>1, <3>2, <3>3
  <2> QED BY <2>1, <2>2 DEF EscapedNext, ClassNext
<1> QED BY <1>1, <1>2, <1>3, <1>5, <1>6, BodyNext
-----------------------------------------------------------------------------
(***************************************************************************)
(* Strings: what each call has read.                                       *)
(***************************************************************************)
LEMMA StringNext ==
  ASSUME NEW t, SoFar' = t, StringSoFar(t), NEW q, q = t[1], NEW calls \in Seq(InnerCall),
         Rest("string", Append(calls, StringCall(q)))', StringEscapeAt(t, calls)'
  PROVE  StringText'
BY Zenon DEF StringText

\* What a string starts with ends no line and is no escape.
LEMMA QuoteIs ==
  ASSUME NEW s, StringSoFar(s)
  PROVE  /\ s[1] \notin OctDigits \cup Newlines \cup EscapeChars \cup {"x", "u", "\\", EndOfText}
         /\ StringCall(s[1]) \in InnerCall /\ StringCall(s[1]).quote = s[1]
         /\ StringCall(s[1]).fn = "string"
<1>1. s[1] \in {"\"", "'"}
  BY Zenon DEF StringSoFar
<1>2. s[1] \notin OctDigits \cup Newlines \cup {"x", "u", "\\", EndOfText}
  BY <1>1, Zenon DEF OctDigits, BinDigits, Newlines, LineEnds, EndOfText
<1>3. s[1] \notin EscapeChars
  BY <1>1, EscapeCharsAre, Zenon
<1>4. StringCall(s[1]) \in InnerCall
  BY <1>1, Calls, Zenon DEF StringCall
<1>5. \A q : StringCall(q).quote = q /\ StringCall(q).fn = "string"
  BY DEF StringCall
<1> QED BY <1>2, <1>3, <1>4, <1>5, Zenon

\* A character taken in a string.
LEMMA TakesString ==
  ASSUME LexerInv, start.offset <= posn.offset, NEW s \in Seq(Chars), s = SoFar, StringSoFar(s),
         NEW new, Consume(new), Next1 = s[1] => EscapedNext(s),
         Next1 \in Newlines =>
           EscapedNext(s) \/ (Next1 = "LF" /\ s[Len(s)] = "CR" /\ Escaped(s, Len(s)))
  PROVE  /\ Then(new) /\ (start.offset <= posn.offset)' /\ ahead # <<>> /\ ahead' = Tail(ahead)
         /\ \E t \in Seq(Chars) :
              /\ t = Append(s, Next1) /\ SoFar' = t /\ StringSoFar(t) /\ t[1] = s[1]
              /\ EscapedNext(t) <=> Next1 = "\\" /\ ~EscapedNext(s)
              /\ Len(t) > 1 /\ t[Len(t)] = Next1 /\ (Escaped(t, Len(t)) <=> EscapedNext(s))
<1>1. /\ Then(new) /\ Next1 \in Chars /\ ahead # <<>> /\ ahead' = Tail(ahead)
      /\ (start.offset <= posn.offset)'
  BY TakesOne
<1>2. PICK t \in Seq(Chars) : t = Append(s, Next1) /\ SoFar' = t
  BY TakesOne
<1>3. PICK c \in Chars : c = Next1
  BY <1>1
<1>4. StringSoFar(t) /\ t[1] = s[1]
  BY <1>2, <1>3, StringMore
<1>5. EscapedNext(t) <=> Next1 = "\\" /\ ~EscapedNext(s)
  BY <1>2, <1>3, EscapesMore
<1>6. Len(s) \in Nat /\ Len(t) = Len(s) + 1 /\ t[Len(t)] = Next1
  BY <1>2, <1>3, AppendIs
<1>7. s # <<>>
  BY Zenon DEF StringSoFar
<1>8. Len(t) > 1 /\ Len(s) + 1 \in 1 .. Len(s) + 1
  BY <1>6, <1>7
<1>9. Escaped(t, Len(t)) <=> EscapedNext(s)
  <2>1. Escaped(t, Len(s) + 1) <=> Escaped(s, Len(s) + 1)
    BY <1>2, <1>3, <1>8, EscapesMore
  <2> QED BY <1>6, <2>1 DEF EscapedNext
<1> QED BY <1>1, <1>2, <1>4, <1>5, <1>6, <1>8, <1>9

LEMMA StringPeek ==
  ASSUME LexerInv, start.offset <= posn.offset, PeekMore, NEW s, s = SoFar, StringSoFar(s),
         NEW calls \in Seq(InnerCall), Rest("string", Append(calls, StringCall(s[1]))),
         StringEscapeAt(s, calls)
  PROVE  StringText' /\ (start.offset <= posn.offset)'
<1>1. /\ SoFar' = SoFar /\ UNCHANGED <<todo, start, digits, posn>>
      /\ Len(ahead) <= Len(ahead)' /\ \A i \in 1 .. Len(ahead) : ahead'[i] = ahead[i]
      /\ ahead' \in Seq(Chars) /\ ~ended /\ ~Ahead(Peeked)
      /\ ahead # <<>> => Next1' = Next1
  BY PeekKeeps
<1>2. Rest("string", Append(calls, StringCall(s[1])))'
  BY <1>1 DEF Rest
<1>3. SoFar' = s /\ ahead \in Seq(Chars)
  BY <1>1, SoFarIs
<1>4. ahead # <<>> => ahead' # <<>>
  BY <1>1, <1>3
<1>5. \A S : EndOfText \notin S /\ Next1 \in S => Next1' \in S /\ ahead # <<>>
  BY <1>1, <1>3 DEF Next1, PeekAt
<1>6. CASE calls = <<>>
  <2>1. This = StringCall(s[1])
    BY <1>6, QuoteIs, BeforeLast
  <2>2. Peeked = 1
    <3>1. This.fn = "string"
      BY <2>1, QuoteIs
    <3> QED BY <3>1 DEF Peeked, Silent
  <2>3. ~EscapedNext(s)
    BY <1>1, <1>6, <2>2, Zenon DEF StringEscapeAt, Call, Skip
  <2>4. StringEscapeAt(s, calls)'
    BY <1>6, <2>3, Zenon DEF StringEscapeAt
  <2> QED BY <1>1, <1>2, <1>3, <2>4, StringNext
<1>7. CASE calls # <<>>
  <2>1. CASE calls = <<Call("escape")>> /\ EscapedNext(s)
    <3>1. StringEscapeAt(s, calls)'
      BY <2>1, Zenon DEF StringEscapeAt
    <3> QED BY <1>1, <1>2, <1>3, <3>1, StringNext
  <2>2. CASE calls = <<Call("octal")>> /\ (EscapedNext(s) => Next1 \in OctDigits /\ digits = <<>>)
    <3>1. EndOfText \notin OctDigits
      BY DEF EndOfText, OctDigits, BinDigits
    <3>2. EscapedNext(s) => Next1' \in OctDigits /\ digits' = <<>>
      BY <1>1, <1>5, <2>2, <3>1
    <3>3. StringEscapeAt(s, calls)'
      BY <2>2, <3>2, Zenon DEF StringEscapeAt
    <3> QED BY <1>1, <1>2, <1>3, <3>3, StringNext
  <2>3. CASE calls = <<Skip(2)>> /\ EscapedNext(s) /\ Starts(<<"CR", "LF">>)
    <3>1. Len(ahead) >= 2 /\ ahead[1] = "CR" /\ ahead[2] = "LF"
      BY <1>3, <2>3, StartsWith
    <3>2. Len(ahead') >= 2 /\ ahead'[1] = "CR" /\ ahead'[2] = "LF"
      BY <1>1, <1>3, <3>1
    <3>3. Starts(<<"CR", "LF">>)'
      BY <1>1, <3>2 DEF Starts, IsPrefix
    <3>4. StringEscapeAt(s, calls)'
      BY <2>3, <3>3, Zenon DEF StringEscapeAt
    <3> QED BY <1>1, <1>2, <1>3, <3>4, StringNext
  <2>4. CASE /\ calls = <<Skip(1)>> /\ ahead # <<>>
             /\ \/ EscapedNext(s) /\ Next1 \in Newlines
                \/ Next1 = "LF" /\ s[Len(s)] = "CR" /\ Len(s) > 1 /\ Escaped(s, Len(s))
    <3>1. ahead' # <<>> /\ Next1' = Next1
      BY <1>1, <1>4, <2>4
    <3>2. StringEscapeAt(s, calls)'
      BY <2>4, <3>1, Zenon DEF StringEscapeAt
    <3> QED BY <1>1, <1>2, <1>3, <3>2, StringNext
  <2>5. CASE calls # <<>> /\ calls \in Seq(EscapeCall) /\ ~EscapedNext(s)
    <3>1. StringEscapeAt(s, calls)'
      BY <2>5, Zenon DEF StringEscapeAt
    <3> QED BY <1>1, <1>2, <1>3, <3>1, StringNext
  <2> QED BY <1>7, <2>1, <2>2, <2>3, <2>4, <2>5, Zenon DEF StringEscapeAt
<1> QED BY <1>6, <1>7

\* The loop of read_string.
LEMMA CharsOfString ==
  ASSUME LexerInv, start.offset <= posn.offset, StringChars, Running', NEW s \in Seq(Chars),
         s = SoFar, StringSoFar(s), EscapedNext(s) => AtEnd,
         Rest("string", Append(<<>>, StringCall(s[1])))
  PROVE  StringText' /\ (start.offset <= posn.offset)'
<1> DEFINE q == s[1]
<1>1. /\ q \notin OctDigits \cup Newlines \cup EscapeChars \cup {"x", "u", "\\", EndOfText}
      /\ StringCall(q) \in InnerCall /\ StringCall(q).quote = q
  BY QuoteIs, Zenon
<1>2. <<>> \in Seq(InnerCall)
  OBVIOUS
<1>3. This = StringCall(q) /\ \A new \in Seq(InnerCall) : Then(new) => Rest("string", new)'
  BY <1>1, <1>2, BeforeLast
<1>4. ~Fail("UnterminatedString")
  BY NotRunning
<1>5. \/ Next1 = "\\" /\ Consume(<<Call("escape"), StringCall(q)>>)
      \/ Next1 = q /\ Consume(<<>>)
      \/ Next1 \notin Newlines /\ Next1 # "\\" /\ Next1 # q /\ Consume(<<StringCall(q)>>)
  BY <1>1, <1>3, <1>4, Zenon DEF StringChars
<1>6. ~AtEnd
  <2>1. ASSUME AtEnd PROVE FALSE
    <3>1. Next1 # "\\" /\ Next1 # q
      BY <1>1, <2>1, Zenon DEF AtEnd, EndOfText
    <3> QED BY <1>4, <2>1, <3>1, <1>3, <1>1, Zenon DEF StringChars
  <2> QED BY <2>1
<1>7. ~EscapedNext(s)
  BY <1>6
<1>8. Call("escape") \in InnerCall
  BY Calls DEF PlainFns
<1> HIDE DEF q
<1>9. CASE Next1 = "\\" /\ Consume(<<Call("escape"), StringCall(q)>>)
  <2>1. Next1 # s[1] /\ Next1 \notin Newlines
    BY <1>1, <1>9, Zenon DEF q, Newlines, LineEnds
  <2>2. PICK t \in Seq(Chars) : /\ SoFar' = t /\ StringSoFar(t) /\ t[1] = s[1]
                                /\ EscapedNext(t)
    BY <1>7, <1>9, <2>1, TakesString
  <2>3. Then(<<Call("escape"), StringCall(q)>>) /\ (start.offset <= posn.offset)'
    BY <1>7, <1>9, <2>1, TakesString
  <2>4. <<Call("escape")>> \in Seq(InnerCall) /\ <<Call("escape"), StringCall(q)>> \in Seq(InnerCall)
    <3> HIDE DEF InnerCall, Call, StringCall
    <3> QED BY <1>1, <1>8, Tuples
  <2>5. Rest("string", Append(<<Call("escape")>>, StringCall(q)))'
    BY <1>3, <2>3, <2>4, AppendShort
  <2>6. StringEscapeAt(t, <<Call("escape")>>)'
    BY <2>2, Zenon DEF StringEscapeAt
  <2>7. q = t[1]
    BY <2>2 DEF q
  <2> QED BY <2>2, <2>3, <2>4, <2>5, <2>6, <2>7, StringNext, Zenon
<1>10. CASE Next1 = q /\ Consume(<<>>)
  <2>1. Then(<<>>) /\ Next1 \in Chars /\ (start.offset <= posn.offset)'
    BY <1>10, TakesOne
  <2>2. PICK t \in Seq(Chars) : t = Append(s, Next1) /\ SoFar' = t
    BY <1>10, TakesOne
  <2>3. IsString(t)
    <3>1. PICK c \in Chars : c = Next1
      BY <2>1
    <3> QED BY <1>7, <1>10, <2>2, <3>1, StringMore DEF q
  <2>4. Rest("string", <<>>)'
    BY <1>2, <1>3, <2>1
  <2> QED BY <2>1, <2>2, <2>3, <2>4, Zenon DEF StringText
<1>11. CASE Next1 \notin Newlines /\ Next1 # "\\" /\ Next1 # q /\ Consume(<<StringCall(q)>>)
  <2>1. Next1 # s[1]
    BY <1>11 DEF q
  <2>2. PICK t \in Seq(Chars) : /\ SoFar' = t /\ StringSoFar(t) /\ t[1] = s[1]
                                /\ ~EscapedNext(t)
    BY <1>7, <1>11, <2>1, TakesString
  <2>3. Then(<<StringCall(q)>>) /\ (start.offset <= posn.offset)'
    BY <1>7, <1>11, <2>1, TakesString
  <2>4. <<StringCall(q)>> \in Seq(InnerCall)
    <3> HIDE DEF InnerCall, StringCall
    <3> QED BY <1>1, Tuples
  <2>5. Rest("string", Append(<<>>, StringCall(q)))'
    BY <1>3, <2>3, <2>4, AppendShort
  <2>6. StringEscapeAt(t, <<>>)'
    BY <2>2, Zenon DEF StringEscapeAt
  <2>7. q = t[1]
    BY <2>2 DEF q
  <2> QED BY <1>2, <2>2, <2>3, <2>5, <2>6, <2>7, StringNext, Zenon
<1> QED BY <1>5, <1>9, <1>10, <1>11
-----------------------------------------------------------------------------
(***************************************************************************)
(* Escapes of a string.                                                    *)
(***************************************************************************)
LEMMA StringCalls ==
  /\ Call("escape") \in InnerCall /\ Call("octal") \in InnerCall
  /\ Skip(1) \in InnerCall /\ Skip(2) \in InnerCall
<1>1. "escape" \in PlainFns /\ "octal" \in PlainFns
  BY DEF PlainFns
<1>2. 1 \in 1 .. 4 /\ 2 \in 1 .. 4
  OBVIOUS
<1> QED BY <1>1, <1>2, Calls, Zenon

\* A character is taken after which none is escaped.
LEMMA StringTakes ==
  ASSUME LexerInv, start.offset <= posn.offset, NEW s \in Seq(Chars), s = SoFar, StringSoFar(s),
         NEW new, Consume(new), Next1 = s[1] => EscapedNext(s), Next1 = "\\" => EscapedNext(s),
         Next1 \in Newlines =>
           EscapedNext(s) \/ (Next1 = "LF" /\ s[Len(s)] = "CR" /\ Escaped(s, Len(s))),
         NEW calls \in Seq(InnerCall),
         Then(new) => Rest("string", Append(calls, StringCall(s[1])))',
         calls \in Seq(EscapeCall) \/ calls = <<Call("octal")>>
  PROVE  StringText' /\ (start.offset <= posn.offset)'
<1>1. Then(new) /\ (start.offset <= posn.offset)'
  BY TakesString
<1>2. PICK t \in Seq(Chars) : /\ SoFar' = t /\ StringSoFar(t) /\ t[1] = s[1] /\ ~EscapedNext(t)
  BY TakesString
<1>3. StringEscapeAt(t, calls)'
  BY <1>2, Zenon DEF StringEscapeAt
<1>4. PICK q : q = s[1] /\ q = t[1]
  BY <1>2
<1>5. Rest("string", Append(calls, StringCall(q)))'
  BY <1>1, <1>4
<1> QED BY <1>1, <1>2, <1>3, <1>4, <1>5, StringNext, Zenon

\* None is.
LEMMA StringStays ==
  ASSUME LexerInv, start.offset <= posn.offset, NEW s \in Seq(Chars), s = SoFar, StringSoFar(s),
         NEW new, Stay(new), NEW calls \in Seq(InnerCall),
         Then(new) => Rest("string", Append(calls, StringCall(s[1])))', StringEscapeAt(s, calls)'
  PROVE  StringText' /\ (start.offset <= posn.offset)'
<1>1. Then(new) /\ (start.offset <= posn.offset)' /\ SoFar' = s
  BY TakesNone
<1> QED BY <1>1, StringNext, Zenon

\* read_string_escape, its backslash read.
LEMMA EscapeBegins ==
  ASSUME LexerInv, start.offset <= posn.offset, StringEscape, NEW s \in Seq(Chars),
         s = SoFar, StringSoFar(s), EscapedNext(s),
         Rest("string", Append(<<Call("escape")>>, StringCall(s[1])))
  PROVE  StringText' /\ (start.offset <= posn.offset)'
<1>1. /\ Call("escape") \in InnerCall /\ Call("octal") \in InnerCall
      /\ Skip(1) \in InnerCall /\ Skip(2) \in InnerCall
  BY StringCalls
<1>2. /\ StringCall(s[1]) \in InnerCall /\ EscapeCall \subseteq InnerCall
      /\ HexDigit \in EscapeCall /\ Call("unicode") \in EscapeCall
      /\ Call("add_digits") \in EscapeCall /\ FromU32(FALSE) \in EscapeCall
  BY QuoteIs, EscapeCalls
<1>3. /\ This = Call("escape")
      /\ \A new \in Seq(InnerCall) : Then(new) => Rest("string", Append(new, StringCall(s[1])))'
  BY <1>1, <1>2, OneBeforeLast
<1>4. /\ <<>> \in Seq(InnerCall) /\ <<>> \in Seq(EscapeCall)
      /\ <<Call("octal")>> \in Seq(InnerCall)
      /\ <<Skip(1)>> \in Seq(InnerCall) /\ <<Skip(2)>> \in Seq(InnerCall)
      /\ <<HexDigit, HexDigit, Call("add_digits"), FromU32(FALSE)>> \in Seq(EscapeCall)
      /\ <<Call("unicode"), FromU32(FALSE)>> \in Seq(EscapeCall)
      /\ \A cs \in Seq(EscapeCall) : cs \in Seq(InnerCall)
  <2> HIDE DEF InnerCall, EscapeCall, Call, Skip, HexDigit, FromU32
  <2>1. \A cs \in Seq(EscapeCall) : cs \in Seq(InnerCall)
    BY <1>2
  <2> QED BY <1>1, <1>2, <2>1, Tuples
<1>5. ASSUME NEW new \in Seq(EscapeCall), Consume(new)
      PROVE  StringText' /\ (start.offset <= posn.offset)'
  BY <1>3, <1>4, <1>5, StringTakes
<1>6. CASE Next1 \in OctDigits /\ Stay(<<Call("octal")>>) /\ digits' = <<>>
  <2>1. Next1' \in OctDigits
    BY <1>6, TakesNone
  <2>2. StringEscapeAt(s, <<Call("octal")>>)'
    BY <1>6, <2>1, Zenon DEF StringEscapeAt
  <2> QED BY <1>3, <1>4, <1>6, <2>2, StringStays
<1>7. CASE Consume(<<HexDigit, HexDigit, Call("add_digits"), FromU32(FALSE)>>)
  BY <1>4, <1>5, <1>7, Zenon
<1>8. CASE Consume(<<Call("unicode"), FromU32(FALSE)>>)
  BY <1>4, <1>5, <1>8, Zenon
<1>9. CASE Next1 \in Newlines /\ Stay(<<Skip(IF Starts(<<"CR", "LF">>) THEN 2 ELSE 1)>>)
  <2>1. CASE Starts(<<"CR", "LF">>)
    <3>1. Stay(<<Skip(2)>>)
      BY <1>9, <2>1, Zenon
    <3>2. Starts(<<"CR", "LF">>)'
      <4>1. ahead' = ahead
        BY <3>1, TakesNone
      <4> QED BY <2>1, <4>1 DEF Starts
    <3>3. StringEscapeAt(s, <<Skip(2)>>)'
      BY <3>2, Zenon DEF StringEscapeAt
    <3> QED BY <1>3, <1>4, <3>1, <3>3, StringStays
  <2>2. CASE ~Starts(<<"CR", "LF">>)
    <3>1. Stay(<<Skip(1)>>)
      BY <1>9, <2>2, Zenon
    <3>2. ahead' = ahead /\ Next1' = Next1
      BY <3>1, TakesNone
    <3>3. ahead # <<>>
      BY <1>9 DEF Next1, PeekAt, EndOfText, Newlines, LineEnds
    <3>4. StringEscapeAt(s, <<Skip(1)>>)'
      <4>1. ahead' # <<>> /\ Next1' \in Newlines
        BY <1>9, <3>2, <3>3
      <4> QED BY <4>1, Zenon DEF StringEscapeAt
    <3> QED BY <1>3, <1>4, <3>1, <3>4, StringStays
  <2> QED BY <2>1, <2>2
<1>10. CASE AtEnd /\ Stay(<<>>)
  <2>1. Ahead(1)
    <3>1. Next1 # "CR"
      BY <1>10 DEF AtEnd, EndOfText
    <3>2. This.fn = "escape"
      BY <1>3 DEF Call
    <3>3. Peeked = 1
      BY <3>1, <3>2 DEF Peeked, Silent
    <3> QED BY <3>3 DEF StringEscape, At
  <2>2. AtEnd' /\ Ahead(1)'
    <3>1. ahead' = ahead /\ ended' = ended
      BY <1>10, TakesNone
    <3> QED BY <1>10, <2>1, <3>1 DEF AtEnd, Next1, PeekAt, Ahead
  <2>3. StringEscapeAt(s, <<>>)'
    BY <2>2, Zenon DEF StringEscapeAt
  <2> QED BY <1>3, <1>4, <1>10, <2>3, StringStays
<1>11. CASE Consume(<<>>)
  BY <1>4, <1>5, <1>11, Zenon
<1> QED BY <1>6, <1>7, <1>8, <1>9, <1>10, <1>11, Zenon DEF StringEscape

\* The loop over an octal escape: it takes the first digit.
LEMMA OctalBegins ==
  ASSUME LexerInv, start.offset <= posn.offset, OctalEscape, NEW s \in Seq(Chars),
         s = SoFar, StringSoFar(s), EscapedNext(s) => Next1 \in OctDigits /\ digits = <<>>,
         Rest("string", Append(<<Call("octal")>>, StringCall(s[1])))
  PROVE  StringText' /\ (start.offset <= posn.offset)'
<1>1. Call("octal") \in InnerCall
  BY StringCalls
<1>2. /\ StringCall(s[1]) \in InnerCall /\ EscapeCall \subseteq InnerCall
      /\ FromU32(FALSE) \in EscapeCall
  BY QuoteIs, EscapeCalls
<1>3. /\ This = Call("octal")
      /\ \A new \in Seq(InnerCall) : Then(new) => Rest("string", Append(new, StringCall(s[1])))'
  BY <1>1, <1>2, OneBeforeLast
<1>4. /\ <<Call("octal")>> \in Seq(InnerCall) /\ <<FromU32(FALSE)>> \in Seq(InnerCall)
      /\ <<FromU32(FALSE)>> \in Seq(EscapeCall) /\ <<FromU32(FALSE)>> # <<>>
  <2> HIDE DEF InnerCall, EscapeCall, Call, FromU32
  <2> QED BY <1>1, <1>2, Tuples
<1>5. CASE Next1 \in OctDigits /\ Len(digits) < 3 /\ NewCode <= 255
  <2>1. Consume(<<Call("octal")>>)
    BY <1>3, <1>5, Zenon DEF OctalEscape
  <2>2. Next1 # s[1] /\ Next1 \notin Newlines /\ Next1 # "\\"
    BY <1>5, QuoteIs, OctalDigits
  <2> QED BY <1>3, <1>4, <2>1, <2>2, StringTakes
<1>6. CASE ~(Next1 \in OctDigits /\ Len(digits) < 3 /\ NewCode <= 255)
  <2>1. Stay(<<FromU32(FALSE)>>)
    BY <1>6, Zenon DEF OctalEscape
  <2>2. ~EscapedNext(s)
    <3> SUFFICES ASSUME EscapedNext(s) PROVE FALSE
      OBVIOUS
    <3>1. Next1 \in OctDigits /\ digits = <<>> /\ ToDigit(Next1) \in 0 .. 9
      BY OctalDigits
    <3>2. Len(digits) < 3
      BY <3>1
    <3>3. NewCode = 0 * 8 + ToDigit(Next1)
      BY <3>1, Zenon DEF NewCode
    <3>4. NewCode <= 255
      BY <3>1, <3>3
    <3> QED BY <1>6, <3>1, <3>2, <3>4
  <2>3. StringEscapeAt(s, <<FromU32(FALSE)>>)'
    BY <1>4, <2>2, Zenon DEF StringEscapeAt
  <2> QED BY <1>3, <1>4, <2>1, <2>3, StringStays
<1> QED BY <1>5, <1>6

LEMMA TailIs ==
  ASSUME NEW s \in Seq(Chars), Len(s) >= 2
  PROVE  Tail(s) # <<>> /\ 0 < Len(Tail(s)) /\ Tail(s)[1] = s[2]
<1>1. s # <<>> /\ Len(s) \in Nat
  OBVIOUS
<1>2. Tail(s) \in Seq(Chars) /\ Len(Tail(s)) = Len(s) - 1 /\ Tail(s)[1] = s[2]
  BY <1>1
<1>3. PICK u \in Seq(Chars) : u = Tail(s)
  BY <1>2
<1>4. Len(u) > 0 /\ u # <<>>
  <2>1. Len(u) = Len(s) - 1
    BY <1>2, <1>3
  <2>2. Len(u) > 0
    BY <1>1, <2>1
  <2>3. u = <<>> => Len(u) = 0
    OBVIOUS
  <2> QED BY <2>2, <2>3
<1> QED BY <1>2, <1>3, <1>4

\* The end of a line that is continued, a CRLF in two steps.
LEMMA ContinuationStep ==
  ASSUME LexerInv, start.offset <= posn.offset, SkipChars, NEW s \in Seq(Chars),
         s = SoFar, StringSoFar(s), NEW n \in {1, 2},
         Rest("string", Append(<<Skip(n)>>, StringCall(s[1]))), StringEscapeAt(s, <<Skip(n)>>)
  PROVE  StringText' /\ (start.offset <= posn.offset)'
<1>1. Skip(1) \in InnerCall /\ Skip(2) \in InnerCall /\ StringCall(s[1]) \in InnerCall
  BY QuoteIs, StringCalls
<1>2. /\ This = Skip(n)
      /\ \A new \in Seq(InnerCall) : Then(new) => Rest("string", Append(new, StringCall(s[1])))'
  BY <1>1, OneBeforeLast
<1>3. This.n = n
  BY <1>2 DEF Skip
<1>4. /\ <<>> \in Seq(InnerCall) /\ <<>> \in Seq(EscapeCall) /\ <<Skip(1)>> \in Seq(InnerCall)
  <2> HIDE DEF InnerCall, EscapeCall, Skip
  <2> QED BY <1>1, Tuples
<1>5. /\ <<Skip(n)>> # <<>> /\ <<Skip(n)>> # <<Call("escape")>> /\ <<Skip(n)>> # <<Call("octal")>>
      /\ <<Skip(n)>> \notin Seq(EscapeCall)
      /\ \A m : <<Skip(n)>> = <<Skip(m)>> => m = n
  <2>1. /\ Skip(n).fn = "skip" /\ Call("escape").fn # "skip" /\ Call("octal").fn # "skip"
        /\ \A m : Skip(m).n = m
    BY DEF Skip, Call
  <2>2. Skip(n) \notin EscapeCall
    BY <2>1, Zenon DEF EscapeCall
  <2>3. PICK a : a = Skip(n)
    OBVIOUS
  <2>4. <<a>> \notin Seq(EscapeCall) /\ <<a>> # <<>> /\ \A b : <<a>> = <<b>> => a = b
    BY <2>2, <2>3
  <2> QED BY <2>1, <2>3, <2>4
<1>6. CASE n = 2
  <2>0. n # 1 /\ n - 1 = 1
    BY <1>6
  <2>1. EscapedNext(s) /\ Starts(<<"CR", "LF">>)
    BY <1>5, <2>0, Zenon DEF StringEscapeAt
  <2>2. Consume(<<Skip(1)>>)
    BY <1>3, <2>0, Zenon DEF SkipChars
  <2>3. ahead \in Seq(Chars)
    BY SoFarIs
  <2>4. Len(ahead) >= 2 /\ ahead[1] = "CR" /\ ahead[2] = "LF"
    BY <2>1, <2>3, StartsWith
  <2>5. Next1 = "CR"
    BY <2>3, <2>4 DEF Next1, PeekAt
  <2>6. /\ Then(<<Skip(1)>>) /\ ahead' = Tail(ahead) /\ (start.offset <= posn.offset)'
    BY <2>1, <2>2, TakesString
  <2>7. PICK t \in Seq(Chars) : /\ SoFar' = t /\ StringSoFar(t) /\ t[1] = s[1]
                                /\ Len(t) > 1 /\ t[Len(t)] = "CR" /\ Escaped(t, Len(t))
    BY <2>1, <2>2, <2>5, TakesString
  <2>8. ahead' # <<>> /\ Next1' = "LF"
    <3>1. /\ Tail(ahead) # <<>> /\ 0 < Len(Tail(ahead))
          /\ Tail(ahead)[1] = "LF" /\ ahead' = Tail(ahead)
      BY <2>3, <2>4, <2>6, TailIs
    <3> QED BY <3>1 DEF Next1, PeekAt
  <2>9. StringEscapeAt(t, <<Skip(1)>>)'
    BY <2>7, <2>8, Zenon DEF StringEscapeAt
  <2>10. PICK q : q = s[1] /\ q = t[1]
    BY <2>7
  <2>11. Rest("string", Append(<<Skip(1)>>, StringCall(q)))'
    BY <1>2, <1>4, <2>6, <2>10
  <2> QED BY <1>4, <2>6, <2>7, <2>9, <2>10, <2>11, StringNext, Zenon
<1>7. CASE n = 1
  <2>1. /\ ahead # <<>>
        /\ \/ EscapedNext(s) /\ Next1 \in Newlines
           \/ Next1 = "LF" /\ s[Len(s)] = "CR" /\ Len(s) > 1 /\ Escaped(s, Len(s))
    <3>1. n # 2
      BY <1>7
    <3> QED BY <1>5, <3>1, Zenon DEF StringEscapeAt
  <2>2. Consume(<<>>)
    BY <1>3, <1>7, Zenon DEF SkipChars
  <2>3. Next1 \in Newlines
    BY <2>1 DEF Newlines, LineEnds
  <2>4. Next1 # s[1] /\ Next1 # "\\"
    <3>1. Next1 # "\\"
      BY <2>3 DEF Newlines, LineEnds
    <3> QED BY <2>3, <3>1, QuoteIs
  <2> QED BY <1>2, <1>4, <2>1, <2>2, <2>4, StringTakes
<1> QED BY <1>6, <1>7

\* A step of a string keeps what is known of it.
LEMMA StringStep ==
  ASSUME LexerInv, start.offset <= posn.offset, LexerStep, StringText, ~EndToken, Running'
  PROVE  StringText' /\ (start.offset <= posn.offset)'
<1>1. PICK s \in Seq(Chars) : s = SoFar
  BY SoFarIs
<1>2. CASE \E calls \in Seq(InnerCall) :
             /\ Rest("string", Append(calls, StringCall(SoFar[1])))
             /\ StringSoFar(SoFar) /\ StringEscapeAt(SoFar, calls)
  <2>1. PICK calls \in Seq(InnerCall) :
               /\ Rest("string", Append(calls, StringCall(s[1])))
               /\ StringSoFar(s) /\ StringEscapeAt(s, calls)
    BY <1>1, <1>2
  <2>2. CASE PeekMore
    BY <1>1, <2>1, <2>2, StringPeek
  <2> SUFFICES ASSUME ~PeekMore PROVE StringText' /\ (start.offset <= posn.offset)'
    BY <2>2
  <2>3. /\ StringCall(s[1]) \in InnerCall /\ StringCall(s[1]).fn = "string"
        /\ Call("escape") \in InnerCall /\ Call("octal") \in InnerCall
        /\ Skip(1) \in InnerCall /\ Skip(2) \in InnerCall
        /\ EscapeCall \subseteq InnerCall
    BY <2>1, QuoteIs, EscapeCalls, StringCalls
  <2>4. /\ Call("escape").fn = "escape" /\ Call("octal").fn = "octal"
        /\ \A n : Skip(n).fn = "skip"
    BY DEF Call, Skip
  <2>5. CASE calls = <<>> /\ (EscapedNext(s) => AtEnd /\ Ahead(1))
    <3>1. This = StringCall(s[1])
      BY <2>1, <2>3, <2>5, BeforeLast
    <3>2. StringChars
      BY <2>3, <3>1, StepOf
    <3> QED BY <1>1, <2>1, <2>5, <3>2, CharsOfString
  <2>6. CASE calls = <<Call("escape")>> /\ EscapedNext(s)
    <3>1. This = Call("escape")
      BY <2>1, <2>3, <2>6, OneBeforeLast
    <3>2. StringEscape
      BY <2>4, <3>1, StepOf
    <3> QED BY <1>1, <2>1, <2>6, <3>2, EscapeBegins
  <2>7. CASE calls = <<Call("octal")>> /\ (EscapedNext(s) => Next1 \in OctDigits /\ digits = <<>>)
    <3>1. This = Call("octal")
      BY <2>1, <2>3, <2>7, OneBeforeLast
    <3>2. OctalEscape
      BY <2>4, <3>1, StepOf
    <3> QED BY <1>1, <2>1, <2>7, <3>2, OctalBegins
  <2>8. ASSUME NEW n \in {1, 2}, calls = <<Skip(n)>>
        PROVE  StringText' /\ (start.offset <= posn.offset)'
    <3>1. This = Skip(n)
      BY <2>1, <2>3, <2>8, OneBeforeLast
    <3>2. SkipChars
      BY <2>4, <3>1, StepOf
    <3> QED BY <1>1, <2>1, <2>8, <3>2, ContinuationStep
  <2>9. CASE calls # <<>> /\ calls \in Seq(EscapeCall) /\ ~EscapedNext(s)
    <3>1. PICK a \in EscapeCall, cs \in Seq(EscapeCall) : calls = <<a>> \o cs
      BY <2>9, FirstOf
    <3>2. /\ This = a
          /\ \A new \in Seq(InnerCall) : Then(new) =>
               Rest("string", Append(new \o cs, StringCall(s[1])))'
      <4>1. cs \in Seq(InnerCall) /\ a \in InnerCall
        BY <2>3
      <4> QED BY <2>1, <2>3, <3>1, <4>1, BeforeLast, Zenon
    <3>3. PICK new \in Seq(EscapeCall) : Stay(new) \/ (Consume(new) /\ Next1 \in EscapeChars)
      BY <3>2, EscapeStep
    <3>4. new \o cs \in Seq(EscapeCall)
      <4> HIDE DEF EscapeCall
      <4> QED OBVIOUS
    <3>5. new \o cs \in Seq(InnerCall) /\ new \in Seq(InnerCall)
      BY <2>3, <3>4
    <3>6. Then(new) => Rest("string", Append(new \o cs, StringCall(s[1])))'
      BY <3>2, <3>5
    <3>7. CASE Stay(new)
      <4>1. StringEscapeAt(s, new \o cs)'
        BY <2>9, <3>4, Zenon DEF StringEscapeAt
      <4> QED BY <1>1, <2>1, <3>5, <3>6, <3>7, <4>1, StringStays
    <3>8. CASE Consume(new) /\ Next1 \in EscapeChars
      <4>1. Next1 # s[1] /\ Next1 \notin Newlines /\ Next1 # "\\"
        BY <2>1, <3>8, QuoteIs, EscapeCharsAre, Zenon
      <4> QED BY <1>1, <2>1, <3>4, <3>5, <3>6, <3>8, <4>1, StringTakes
    <3> QED BY <3>3, <3>7, <3>8
  <2> QED BY <2>1, <2>5, <2>6, <2>7, <2>8, <2>9, Zenon DEF StringEscapeAt
<1>3. CASE Rest("string", <<>>)
  <2>1. This = End("string")
    BY <1>3, RestEnd
  <2>2. ~PeekMore
    <3>1. Peeked = 0
      BY <2>1 DEF End, Peeked, Silent
    <3>2. Ahead(0)
      <4>1. Len(ahead) \in Nat
        BY AheadIs
      <4> QED BY <4>1 DEF Ahead
    <3> QED BY <3>1, <3>2 DEF PeekMore
  <2>3. EndToken
    BY <2>1, <2>2, StepOf DEF End
  <2> QED BY <2>3
<1> QED BY <1>2, <1>3, Zenon DEF StringText

LEMMA StringStarts ==
  ASSUME LexerInv, todo = <<Call("token")>>, start.offset = posn.offset, StartsString,
         Consume(<<[fn |-> "string", quote |-> Next1], End("string")>>)
  PROVE  StringText' /\ (start.offset <= posn.offset)'
<1>1. PICK q : q = Next1
  OBVIOUS
<1>2. Consume(<<StringCall(q), End("string")>>)
  BY <1>1, Zenon DEF StringCall
<1>3. /\ todo' = <<StringCall(q), End("string")>> \o <<>>
      /\ q \in Chars /\ SoFar' = <<q>> /\ (start.offset <= posn.offset)'
  BY <1>1, <1>2, LiteralBegins
<1>4. Rest("string", Append(<<>>, StringCall(q)))'
  <2>1. \A a, b : <<a, b>> \o <<>> = Append(<<>>, a) \o <<b>>
    <3> SUFFICES ASSUME NEW a, NEW b PROVE <<a, b>> \o <<>> = Append(<<>>, a) \o <<b>>
      OBVIOUS
    <3> DEFINE S == {a, b}
    <3>1. a \in S /\ b \in S
      OBVIOUS
    <3> HIDE DEF S
    <3>2. <<a, b>> \o <<>> = <<a, b>>
      BY <3>1, Tuples, ConcatEmptySeq
    <3>3. Append(<<>>, a) = <<a>> /\ <<a>> \o <<b>> = <<a, b>>
      BY AppendShort, Joined
    <3> QED BY <3>2, <3>3
  <2>2. todo' = Append(<<>>, StringCall(q)) \o <<End("string")>>
    BY <1>3, <2>1, Zenon
  <2> QED BY <2>2 DEF Rest, End
<1>5. PICK t \in Seq(Chars) : t = <<q>> /\ SoFar' = t
  <2>1. <<q>> \in Seq(Chars)
    BY <1>3, Tuples
  <2> QED BY <1>3, <2>1
<1>6. Len(t) >= 1 /\ Len(t) <= 1 /\ t[1] = q /\ t # <<>>
  BY <1>5
<1>7. StringSoFar(t)
  <2>1. \A i \in 2 .. Len(t) : FALSE
    BY <1>6
  <2>2. q \in {"\"", "'"}
    BY <1>1, Zenon DEF StartsString
  <2> QED BY <1>6, <2>1, <2>2, Zenon DEF StringSoFar
<1>8. ~EscapedNext(t)
  <2>1. Len(t) + 1 = 1 + 1 /\ 1 \in Nat /\ 1 > 0
    BY <1>6
  <2>2. t[1] # "\\"
    BY <1>6, <1>7, QuoteIs
  <2>3. Escaped(t, 1 + 1) <=> t[1] = "\\" /\ ~Escaped(t, 1)
    BY <2>1, EscapedAfter
  <2> QED BY <2>1, <2>2, <2>3 DEF EscapedNext
<1>9. StringEscapeAt(t, <<>>)'
  BY <1>8, Zenon DEF StringEscapeAt
<1>10. <<>> \in Seq(InnerCall)
  OBVIOUS
<1> QED BY <1>3, <1>4, <1>5, <1>6, <1>7, <1>9, <1>10, StringNext, Zenon
-----------------------------------------------------------------------------
(***************************************************************************)
(* What is known of the text holds at every step.                          *)
(***************************************************************************)
\* A word, or the end of the text, starts.
LEMMA OtherStarts ==
  ASSUME LexerInv, todo = <<Call("token")>>, start.offset = posn.offset,
         NEW k \in {"word", "EOF"}, NEW cs \in Seq(InnerCall), Stay(cs \o <<End(k)>>)
  PROVE  OtherText' /\ (start.offset <= posn.offset)'
<1>0. start.offset <= posn.offset
  BY DEF LexerInv, LexerTypes
<1>1. Then(cs \o <<End(k)>>) /\ (start.offset <= posn.offset)'
  BY <1>0, TakesNone
<1>2. Rest(k, cs)'
  BY <1>1, TokenReplaced
<1> QED BY <1>1, <1>2 DEF OtherText

\* The token at hand starts.
LEMMA TokenBegins ==
  ASSUME LexerInv, todo = <<Call("token")>>, start.offset = posn.offset, LexerStep,
         ~PeekMore, Running'
  PROVE  /\ (start.offset <= posn.offset)'
         /\ (OtherText \/ PunctuatorText \/ NumberText \/ StringText \/ RegExpText)'
<1>1. This.fn = "token"
  BY DEF This, Call
<1>2. ReadToken \/ IllegalChar
  BY <1>1, StepOf
<1>3. ~IllegalChar
  <2>1. "IllegalChar" # "lexing"
    OBVIOUS
  <2> QED BY <2>1, NotRunning DEF IllegalChar
<1>4. At("token")
  BY <1>2, <1>3 DEF ReadToken
<1>5. PICK operator \in BOOLEAN :
       \/ /\ StartsRegExp(operator)
          /\ Consume(<<Call("regexp"), Call("word_parts"), End("regexp")>>)
       \/ /\ StartsNumber
          /\ Stay(<<Call("number"), Call("number_end"), End("number")>>)
       \/ /\ StartsString
          /\ Consume(<<[fn |-> "string", quote |-> Next1], End("string")>>)
       \/ Stay(<<Call("word_parts"), Call("tokenize"), End("word")>>)
       \/ /\ Next1 \in Singles /\ ~StartsNumber
          /\ Stay(PunctuatorCalls \o <<End("punctuator")>>)
       \/ Stay(<<End("EOF")>>)
  BY <1>2, <1>3, Zenon DEF ReadToken
<1>6. CASE /\ StartsRegExp(operator)
           /\ Consume(<<Call("regexp"), Call("word_parts"), End("regexp")>>)
  BY <1>6, RegExpStarts DEF StartsRegExp
<1>7. CASE /\ StartsNumber
           /\ Stay(<<Call("number"), Call("number_end"), End("number")>>)
  BY <1>7, NumberStarts
<1>8. CASE /\ StartsString
           /\ Consume(<<[fn |-> "string", quote |-> Next1], End("string")>>)
  BY <1>8, StringStarts
<1>9. CASE Stay(<<Call("word_parts"), Call("tokenize"), End("word")>>)
  <2>1. <<Call("word_parts"), Call("tokenize")>> \in Seq(InnerCall)
    <3>1. {"word_parts", "tokenize"} \subseteq PlainFns
      BY DEF PlainFns
    <3> QED BY <3>1, Calls, Tuples
  <2>2. PICK cs \in Seq(InnerCall) : cs = <<Call("word_parts"), Call("tokenize")>>
    BY <2>1
  <2>3. cs \o <<End("word")>> = <<Call("word_parts"), Call("tokenize"), End("word")>>
    BY <2>2, Joined
  <2> QED BY <1>9, <2>3, OtherStarts
<1>10. CASE /\ Next1 \in Singles /\ ~StartsNumber
            /\ Stay(PunctuatorCalls \o <<End("punctuator")>>)
  BY <1>4, <1>10, PunctuatorStarts
<1>11. CASE Stay(<<End("EOF")>>)
  <2>1. <<>> \in Seq(InnerCall) /\ <<>> \o <<End("EOF")>> = <<End("EOF")>>
    BY Joined
  <2> QED BY <1>11, <2>1, OtherStarts
<1> QED BY <1>5, <1>6, <1>7, <1>8, <1>9, <1>10, <1>11

\* Within a token.
LEMMA TextStep ==
  ASSUME LexerInv, TokenText, Running, InToken, LexerStep, ~EndToken, Running'
  PROVE  TokenText'
<1>1. start.offset <= posn.offset
  BY DEF TokenText
<1>2. CASE todo = <<Call("token")>> /\ posn.offset = start.offset
  <2>1. CASE PeekMore
    <3>1. UNCHANGED <<todo, start, posn>>
      BY <1>1, <2>1, PeekKeeps
    <3> QED BY <1>1, <1>2, <3>1 DEF TokenText
  <2>2. CASE ~PeekMore
    BY <1>2, <2>2, TokenBegins DEF TokenText
  <2> QED BY <2>1, <2>2
<1>3. CASE OtherText
  <2>1. PICK k \in {"word", "EOF"}, calls \in Seq(InnerCall) : Rest(k, calls)
    BY <1>3 DEF OtherText
  <2>2. calls # <<>>
    <3> SUFFICES ASSUME calls = <<>> PROVE FALSE
      OBVIOUS
    <3>1. This = End(k)
      BY <2>1, RestEnd
    <3>2. ~PeekMore
      <4>1. Peeked = 0
        BY <3>1 DEF End, Peeked, Silent
      <4>2. Ahead(0)
        <5>1. Len(ahead) \in Nat
          BY <1>1, AheadIs
        <5> QED BY <5>1 DEF Ahead
      <4> QED BY <4>1, <4>2 DEF PeekMore
    <3>3. EndToken
      BY <3>1, <3>2, StepOf DEF End
    <3> QED BY <3>3
  <2>3. (start.offset <= posn.offset)' /\ \E new \in Seq(InnerCall) : Rest(k, new)'
    BY <1>1, <2>1, <2>2, OtherStep
  <2> QED BY <2>3 DEF TokenText, OtherText
<1>4. CASE PunctuatorText
  BY <1>1, <1>4, PunctuatorStep DEF TokenText
<1>5. CASE NumberText
  BY <1>1, <1>5, NumberStep DEF TokenText
<1>6. CASE StringText
  BY <1>1, <1>6, StringStep DEF TokenText
<1>7. CASE RegExpText
  BY <1>1, <1>7, RegExpStep DEF TokenText
<1> QED BY <1>2, <1>3, <1>4, <1>5, <1>6, <1>7 DEF TokenText

\* A step that ends a token ends the calls of its kind.
LEMMA OnlyEnd ==
  ASSUME LexerInv, EndToken, NEW k, NEW S, NEW cs \in Seq(S), Rest(k, cs)
  PROVE  cs = <<>> /\ This.kind = k
<1>1. Len(todo) = 1
  BY EndPhase
<1>2. todo = cs \o <<End(k)>> /\ Len(cs \o <<End(k)>>) = Len(cs) + 1 /\ Len(cs) \in Nat
  BY DEF Rest
<1>3. Len(cs) = 0
  BY <1>1, <1>2
<1>4. cs = <<>>
  BY <1>3
<1>5. This = End(k)
  BY <1>4, RestEnd
<1> QED BY <1>4, <1>5 DEF End

LEMMA NotAtEnd ==
  ASSUME This.fn = "end", NEW k, NEW a, a.fn # "end", NEW b, NEW c, NEW d
  PROVE  ~Rest(k, <<a>>) /\ ~Rest(k, <<a, b>>) /\ ~Rest(k, <<a, b, c>>) /\ ~Rest(k, <<a, b, c, d>>)
BY RestHead

LEMMA EndsRight ==
  ASSUME LexerInv, TokenText, EndToken
  PROVE  \/ This.kind \in {"word", "EOF"}
         \/ This.kind = "punctuator" /\ Longest(SoFar, start.offset)
         \/ /\ This.kind = "number" /\ IsNumber(SoFar) /\ DigitsFollow(SoFar)
            /\ NoneFollows(posn.offset)
         \/ This.kind = "string" /\ IsString(SoFar)
         \/ This.kind = "regexp" /\ IsRegExp(SoFar)
<1>1. This.fn = "end" /\ Running
  BY DEF EndToken, At
<1>2. InToken
  BY <1>1, TokenPhase, LexerStepRuns DEF LexerStep, TokenFns
<1>3. This # Call("token") /\ \A f \in InnerFns : f # "end"
  BY <1>1 DEF Call, InnerFns, PlainFns
<1>4. ~(todo = <<Call("token")>>)
  BY <1>3 DEF This
<1>5. CASE OtherText
  <2>1. PICK k \in {"word", "EOF"}, calls \in Seq(InnerCall) : Rest(k, calls)
    BY <1>5 DEF OtherText
  <2> QED BY <2>1, OnlyEnd
<1>6. CASE PunctuatorText
  <2>1. ~\E n \in 1 .. 3 : PunctuatorAhead(n)
    <3>1. \A n : Skip(n).fn # "end"
      BY DEF Skip
    <3> QED BY <1>1, <3>1, NotAtEnd DEF PunctuatorAhead
  <2>2. ~Rest("punctuator", <<Call("shift")>>) /\ ~Rest("punctuator", <<Call("matches_equals")>>)
    <3>1. Call("shift").fn # "end" /\ Call("matches_equals").fn # "end"
      BY DEF Call
    <3> QED BY <1>1, <3>1, NotAtEnd
  <2>3. Rest("punctuator", <<>>) /\ Longest(SoFar, start.offset)
    BY <1>6, <2>1, <2>2 DEF PunctuatorText, PunctuatorRead
  <2>4. This.kind = "punctuator"
    BY <2>3, RestEnd DEF End
  <2> QED BY <2>3, <2>4
<1>7. CASE NumberText
  <2>1. \A r \in RadixKinds : ~RadixRead(SoFar, r)
    <3>1. \A n : Skip(n).fn # "end"
      BY DEF Skip
    <3>2. \A r \in RadixKinds : RadixDigit(r).fn # "end" /\ ReadWhile(r.digits).fn # "end"
      BY RadixIs
    <3> QED BY <1>1, <3>1, <3>2, NotAtEnd DEF RadixRead
  <2>2. /\ ReadWhile(DecDigits).fn # "end" /\ Call("number").fn # "end"
        /\ Call("decimal").fn # "end" /\ Call("fraction").fn # "end" /\ Call("exp").fn # "end"
        /\ Call("sign").fn # "end" /\ Call("exp_digits").fn # "end"
        /\ Call("number_end").fn # "end"
    BY DEF ReadWhile, Call
  <2>3. ~Decimals(SoFar)
    BY <1>1, <2>2, NotAtEnd DEF Decimals
  <2>4. ~Exponents(SoFar)
    BY <1>1, <2>2, NotAtEnd DEF Exponents
  <2>5. ~Rest("number", <<Call("number_end")>>)
    BY <1>1, <2>2, NotAtEnd
  <2>6. /\ Rest("number", <<>>) /\ IsNumber(SoFar) /\ DigitsFollow(SoFar)
        /\ NoneFollows(posn.offset)
    BY <1>7, <2>1, <2>3, <2>4, <2>5 DEF NumberText
  <2>7. This.kind = "number"
    BY <2>6, RestEnd DEF End
  <2> QED BY <2>6, <2>7
<1>8. CASE StringText
  <2>1. ASSUME NEW calls \in Seq(InnerCall), NEW q,
               Rest("string", Append(calls, StringCall(q)))
        PROVE  FALSE
    <3> DEFINE c == StringCall(q)
    <3>1. Append(calls, c) \in Seq(InnerCall \cup {c}) /\ Append(calls, c) # <<>>
      OBVIOUS
    <3> QED BY <2>1, <3>1, OnlyEnd
  <2>2. Rest("string", <<>>) /\ IsString(SoFar)
    BY <1>8, <2>1, Zenon DEF StringText
  <2>3. This.kind = "string"
    BY <2>2, RestEnd DEF End
  <2> QED BY <2>2, <2>3
<1>9. CASE RegExpText
  <2>1. ASSUME NEW calls \in Seq(EscapeCall) \cup {<<Call("word_escape")>>},
               Rest("regexp", Append(calls, Call("word_parts")))
        PROVE  FALSE
    <3> DEFINE S == InnerCall
    <3>1. /\ Call("word_escape") \in S /\ Call("word_parts") \in S /\ EscapeCall \subseteq S
      BY Calls, EscapeCalls DEF PlainFns
    <3> HIDE DEF S
    <3>2. calls \in Seq(S)
      <4>1. <<Call("word_escape")>> \in Seq(S)
        BY <3>1, Tuples
      <4>2. \A cs \in Seq(EscapeCall) : cs \in Seq(S)
        BY <3>1
      <4> QED BY <4>1, <4>2
    <3>3. Append(calls, Call("word_parts")) \in Seq(S) /\ Append(calls, Call("word_parts")) # <<>>
      BY <3>1, <3>2
    <3> QED BY <2>1, <3>3, OnlyEnd
  <2>2. ~RegExpBody(SoFar)
    <3>1. Call("regexp").fn # "end" /\ Call("backslash").fn # "end" /\ Call("class").fn # "end"
      BY DEF Call
    <3> QED BY <1>1, <3>1, NotAtEnd DEF RegExpBody
  <2>3. Rest("regexp", <<>>) /\ IsRegExp(SoFar)
    BY <1>9, <2>1, <2>2, Zenon DEF RegExpText
  <2>4. This.kind = "regexp"
    BY <2>3, RestEnd DEF End
  <2> QED BY <2>3, <2>4
<1> QED BY <1>1, <1>2, <1>4, <1>5, <1>6, <1>7, <1>8, <1>9 DEF TokenText
LEMMA LexemeInitInv == LexerInit => LexemeInv
<1> SUFFICES ASSUME LexerInit PROVE LexemeInv
  OBVIOUS
<1>1. LexerInv
  BY LexerInitInv
<1>2. TokenText
  BY DEF LexerInit, TokenText, InToken
<1>3. TokenRight
  BY DEF LexerInit, ReaderInit, TokenRight, Origin
<1> QED BY <1>1, <1>2, <1>3 DEF LexemeInv

\* What is known of the text of a token is known of the token once it is read.
LEMMA EndKeepsText ==
  ASSUME LexerInv, TokenText, EndToken PROVE TokenRight'
<1>1. /\ token' = [kind |-> This.kind, newline |-> newline, start |-> start, end |-> posn]
      /\ UNCHANGED <<readerVars, start>>
  BY EndPhase
<1>2. /\ token'.kind = This.kind /\ token'.start = start /\ token'.end = posn
      /\ text' = text /\ ended' = ended
  BY <1>1 DEF readerVars
<1>3. /\ start.offset \in Nat /\ posn.offset \in Nat /\ posn.offset <= Len(text)
  BY DEF LexerInv, LexerTypes, Behind, ReaderInv, ReaderTypeOK
<1>4. Lexeme' = SoFar
  BY <1>2 DEF Lexeme, SoFar
<1>5. \/ This.kind \in {"word", "EOF"}
      \/ This.kind = "punctuator" /\ Longest(SoFar, start.offset)
      \/ /\ This.kind = "number" /\ IsNumber(SoFar) /\ DigitsFollow(SoFar)
         /\ NoneFollows(posn.offset)
      \/ This.kind = "string" /\ IsString(SoFar)
      \/ This.kind = "regexp" /\ IsRegExp(SoFar)
  BY EndsRight
<1>6. PICK k, s, b, e : k = This.kind /\ s = SoFar /\ b = start.offset /\ e = posn.offset
  OBVIOUS
<1>7. /\ token'.kind = k /\ Lexeme' = s /\ token'.start.offset = b /\ token'.end.offset = e
  BY <1>2, <1>4, <1>6
<1>8. k = "punctuator" => Longest(s, b)'
  BY <1>2, <1>5, <1>6 DEF Longest, Rejected
<1>9. k = "number" => IsNumber(s) /\ DigitsFollow(s) /\ NoneFollows(e)'
  BY <1>2, <1>5, <1>6 DEF NoneFollows
<1>10. (k = "string" => IsString(s)) /\ (k = "regexp" => IsRegExp(s))
  BY <1>5, <1>6
<1>11. b \in Nat /\ e \in Nat /\ e <= Len(text')
  BY <1>2, <1>3, <1>6
<1> QED BY <1>7, <1>8, <1>9, <1>10, <1>11 DEF TokenRight

LEMMA LexemeNextInv == LexemeInv /\ [LexerNext]_lexerVars => LexemeInv'
<1> SUFFICES ASSUME LexemeInv, [LexerNext]_lexerVars PROVE LexemeInv'
  OBVIOUS
<1>1. LexerInv /\ TokenText /\ TokenRight
  BY DEF LexemeInv
<1>2. LexerInv'
  BY <1>1, LexerNextInv
<1>3. text \in Seq(Chars) /\ ReaderInv
  BY <1>1 DEF LexerInv, ReaderInv, ReaderTypeOK
<1>4. Grows
  <2>1. CASE LexerStep
    BY <1>3, <2>1, LexerStepReads, TextGrows
  <2>2. CASE ~LexerStep
    <3>1. text' = text /\ ended' = ended
      BY <2>2 DEF LexerNext, Request, Finished, lexerVars, readerVars
    <3> QED BY <1>3, <3>1, StaysGrown
  <2> QED BY <2>1, <2>2
<1>5. TokenRight'
  <2>1. CASE EndToken
    BY <1>1, <2>1, EndKeepsText
  <2>2. CASE ~EndToken
    BY <1>1, <1>3, <1>4, <2>2, TokenUnchanged, TokenStays
  <2> QED BY <2>1, <2>2
<1>6. TokenText'
  <2> SUFFICES ASSUME Running', InToken' PROVE TokenText'
    BY DEF TokenText
  <2>1. CASE UNCHANGED lexerVars
    <3>1. UNCHANGED <<result, todo, start, posn, text, ended, ahead, digits>>
      BY <2>1 DEF lexerVars, tokenVars, escapeVars, readerVars
    <3>2. Running /\ InToken
      BY <3>1 DEF Running, InToken
    <3>3. /\ SoFar' = SoFar /\ Next1' = Next1 /\ PeekAt(1)' = PeekAt(1)
          /\ \A k, cs : Rest(k, cs)' <=> Rest(k, cs)
      BY <3>1 DEF SoFar, Next1, PeekAt, Rest
    <3>4. OtherText => OtherText'
      BY <3>3 DEF OtherText
    <3>5. PunctuatorText => PunctuatorText'
      BY <3>1 DEF PunctuatorText, PunctuatorRead, PunctuatorAhead, Rest, SoFar, Upcoming,
           Longest, Rejected
    <3>6. NumberText => NumberText'
      BY <3>1 DEF NumberText, RadixRead, Decimals, Exponents, NoneFollows, StartsNumber,
           Rest, SoFar, Next1, PeekAt
    <3>7. StringText => StringText'
      BY <3>1 DEF StringText, StringEscapeAt, Starts, AtEnd, Ahead, Rest, SoFar, Next1, PeekAt
    <3>8. RegExpText => RegExpText'
      BY <3>1 DEF RegExpText, RegExpBody, Rest, SoFar
    <3> QED BY <1>1, <3>1, <3>2, <3>4, <3>5, <3>6, <3>7, <3>8 DEF TokenText
  <2>2. CASE (Request \/ LexerStep) /\ ~InToken
    <3>1. StartToken
      BY <1>1, <2>2, EntersToken
    <3>2. At("blank") /\ Then(<<>>) /\ start' = posn /\ posn' = posn
      BY <3>1 DEF StartToken, readerVars
    <3>3. todo = <<Call("blank"), Call("token")>>
      BY <1>1, <3>2, BlankPhase
    <3>4. todo' = <<Call("token")>>
      BY <3>2, <3>3, FirstReplaced DEF Then
    <3>5. posn.offset \in Nat /\ (start.offset <= posn.offset)'
      BY <1>1, <3>2 DEF LexerInv, ReaderInv, ReaderTypeOK
    <3> QED BY <3>2, <3>4, <3>5 DEF TokenText
  <2>3. CASE (Request \/ LexerStep) /\ InToken
    <3>1. LexerStep
      BY <2>3 DEF Request, InToken
    <3>2. Running
      BY <3>1, LexerStepRuns
    <3>3. ~EndToken
      <4>1. EndToken => todo' = <<>>
        BY <1>1, EndPhase
      <4> QED BY <4>1 DEF InToken
    <3> QED BY <1>1, <2>3, <3>1, <3>2, <3>3, TextStep
  <2> QED BY <2>1, <2>2, <2>3 DEF LexerNext, Finished
<1> QED BY <1>2, <1>5, <1>6 DEF LexemeInv

(***************************************************************************)
(* The inductive invariant of the tokens: what has been read of one, and   *)
(* the calls that are pending, make up a token of its kind, which it is    *)
(* when SpanTracker::end returns it.                                       *)
(***************************************************************************)
THEOREM LexemesCorrect == LexerSpec => []LexemeInv
BY LexemeInitInv, LexemeNextInv, PTL DEF LexerSpec

\* What is ahead of the token just read.
LEMMA AfterToken ==
  ASSUME LexemeInv, posn = token.end
  PROVE  /\ text \in Seq(Chars) /\ ahead \in Seq(Chars) /\ token.start.offset \in Nat
         /\ posn.offset \in Nat /\ token.end.offset = posn.offset
         /\ Len(ahead) \in Nat /\ Len(text) \in Nat /\ Len(text) = posn.offset + Len(ahead)
         /\ \A i \in 1 .. Len(ahead) : ahead[i] = text[posn.offset + i]
         /\ posn.offset < Len(text) => Next1 = text[posn.offset + 1]
         /\ ~(posn.offset < Len(text)) => Next1 = EndOfText
<1>1. /\ text \in Seq(Chars) /\ ahead \in Seq(Chars) /\ posn.offset \in Nat
      /\ posn.offset <= Len(text) /\ Split
  BY DEF LexemeInv, LexerInv, Behind, ReaderInv, ReaderTypeOK
<1>2. /\ Len(ahead) \in Nat /\ Len(text) \in Nat /\ Len(text) = posn.offset + Len(ahead)
      /\ \A i \in 1 .. Len(ahead) : ahead[i] = text[posn.offset + i]
  BY <1>1 DEF Split
<1>3. /\ posn.offset < Len(text) => Len(ahead) > 0 /\ 1 \in 1 .. Len(ahead)
      /\ ~(posn.offset < Len(text)) => ~(Len(ahead) > 0)
  BY <1>1, <1>2
<1>4. /\ posn.offset < Len(text) => Next1 = text[posn.offset + 1]
      /\ ~(posn.offset < Len(text)) => Next1 = EndOfText
  BY <1>2, <1>3 DEF Next1, PeekAt
<1> QED BY <1>1, <1>2, <1>4 DEF LexemeInv, TokenRight

LEMMA LexemeIs ==
  ASSUME LexemeInv, posn = token.end, Lexeme # <<>>
  PROVE  /\ Lexeme \in Seq(Chars) /\ Len(Lexeme) \in Nat
         /\ Len(Lexeme) = posn.offset - token.start.offset
         /\ \A i \in 1 .. Len(Lexeme) : Lexeme[i] = text[token.start.offset + i]
<1>1. /\ text \in Seq(Chars) /\ token.start.offset \in Nat
      /\ posn.offset \in Nat /\ token.end.offset = posn.offset
      /\ Len(ahead) \in Nat /\ Len(text) \in Nat /\ Len(text) = posn.offset + Len(ahead)
  BY AfterToken
<1>2. Lexeme = SubSeq(text, token.start.offset + 1, posn.offset)
  BY <1>1 DEF Lexeme
<1>3. token.start.offset + 1 <= posn.offset
  <2> SUFFICES ASSUME posn.offset < token.start.offset + 1 PROVE FALSE
    BY <1>1
  <2>1. token.start.offset + 1 \in Int /\ posn.offset \in Int
    BY <1>1
  <2>2. SubSeq(text, token.start.offset + 1, posn.offset) = <<>>
    BY <2>1, SubSeqEmpty
  <2> QED BY <1>2, <2>2
<1>4. token.start.offset <= posn.offset /\ posn.offset <= Len(text)
  BY <1>1, <1>3
<1>5. \A a \in Nat, b \in Nat : a <= b /\ b <= Len(text) =>
        /\ SubSeq(text, a + 1, b) \in Seq(Chars) /\ Len(SubSeq(text, a + 1, b)) = b - a
        /\ \A i \in 1 .. b - a : SubSeq(text, a + 1, b)[i] = text[a + i]
  BY <1>1
<1>6. /\ Lexeme \in Seq(Chars) /\ Len(Lexeme) = posn.offset - token.start.offset
      /\ \A i \in 1 .. posn.offset - token.start.offset :
           Lexeme[i] = text[token.start.offset + i]
  BY <1>1, <1>2, <1>4, <1>5
<1> QED BY <1>6

(***************************************************************************)
(* A punctuator is the longest one that the text has where it starts, and  *)
(* no dot before a digit is one: read_next_token, read_punc2_3 and the     *)
(* match on `>>` decide it on one to three characters ahead.               *)
(***************************************************************************)
THEOREM LongestPunctuatorCorrect == LexerSpec => []LongestPunctuator
<1>1. LexemeInv => LongestPunctuator
  <2> SUFFICES ASSUME LexemeInv, token.kind = "punctuator", posn = token.end
               PROVE  /\ Lexeme \in Punctuators
                      /\ \A p \in Punctuators :
                           IsPrefix(p, Lexeme \o ahead) => Len(p) <= Len(Lexeme)
                      /\ Lexeme = <<".">> => Next1 \notin DecDigits
    BY DEF LongestPunctuator, JustRead
  <2>0. PICK b \in Nat : b = token.start.offset
    BY DEF LexemeInv, TokenRight
  <2>1. PICK s : b = token.start.offset /\ s = Lexeme
    BY <2>0
  <2>2. Longest(s, b)
    BY <2>1 DEF LexemeInv, TokenRight
  <2>3. s \in Punctuators /\ Len(s) \in Nat /\ 1 <= Len(s)
    BY <2>2, LongPunctuators DEF Longest
  <2>4. s # <<>>
    BY <2>3
  <2>5. /\ s \in Seq(Chars) /\ Len(s) = posn.offset - b
        /\ \A i \in 1 .. Len(s) : s[i] = text[b + i]
    BY <2>1, <2>4, LexemeIs
  <2>6. /\ text \in Seq(Chars) /\ ahead \in Seq(Chars) /\ posn.offset \in Nat
        /\ Len(ahead) \in Nat /\ Len(text) \in Nat /\ Len(text) = posn.offset + Len(ahead)
        /\ \A i \in 1 .. Len(ahead) : ahead[i] = text[posn.offset + i]
        /\ posn.offset < Len(text) => Next1 = text[posn.offset + 1]
        /\ ~(posn.offset < Len(text)) => Next1 = EndOfText
    BY AfterToken
  <2> DEFINE w == s \o ahead
  <2>7. /\ w \in Seq(Chars) /\ Len(w) = Len(text) - b
        /\ \A i \in 1 .. Len(w) : w[i] = text[b + i]
    <3>1. /\ w \in Seq(Chars) /\ Len(w) = Len(s) + Len(ahead)
          /\ \A i \in 1 .. Len(s) + Len(ahead) :
               w[i] = IF i <= Len(s) THEN s[i] ELSE ahead[i - Len(s)]
      BY <2>5, <2>6, ConcatProperties, Zenon
    <3> HIDE DEF w
    <3>2. Len(w) = Len(text) - b
      BY <2>1, <2>3, <2>5, <2>6, <3>1
    <3>3. ASSUME NEW i \in 1 .. Len(w) PROVE w[i] = text[b + i]
      <4>1. CASE i <= Len(s)
        <5>1. i \in 1 .. Len(s) /\ w[i] = s[i]
          BY <2>3, <2>6, <3>1, <4>1
        <5> QED BY <2>5, <5>1
      <4>2. CASE ~(i <= Len(s))
        <5>0. \A l \in Nat, a \in Nat, o \in Nat :
                i \in 1 .. l + a /\ ~(i <= l) /\ l = o - b =>
                  i - l \in 1 .. a /\ o + (i - l) = b + i
          OBVIOUS
        <5>1. i - Len(s) \in 1 .. Len(ahead) /\ posn.offset + (i - Len(s)) = b + i
          BY <2>3, <2>5, <2>6, <3>1, <4>2, <5>0
        <5>2. w[i] = ahead[i - Len(s)]
          BY <3>1, <4>2
        <5> QED BY <2>6, <5>1, <5>2
      <4> QED BY <4>1, <4>2
    <3> QED BY <3>1, <3>2, <3>3
  <2> HIDE DEF w
  <2>8. ASSUME NEW p \in Punctuators, IsPrefix(p, w), Len(p) > Len(s) PROVE FALSE
    <3>1. Rejected(p, b)
      BY <2>2, <2>8 DEF Longest
    <3>2. Len(p) \in Nat /\ Len(p) <= Len(w) /\ SubSeq(p, 1, Len(p)) = SubSeq(w, 1, Len(p))
      BY <2>8, LongPunctuators DEF IsPrefix
    <3>3. ASSUME NEW i \in 1 .. Len(p) PROVE p[i] = text[b + i]
      <4>1. SubSeq(p, 1, Len(p))[i] = p[i]
        BY <3>2
      <4>2. SubSeq(w, 1, Len(p))[i] = w[i]
        BY <2>7, <3>2
      <4>3. i \in 1 .. Len(w)
        BY <2>6, <2>7, <3>2
      <4> QED BY <2>7, <3>2, <4>1, <4>2, <4>3
    <3>4. Len(text) >= b + Len(p)
      BY <2>6, <2>7, <3>2
    <3>5. ~(Len(text) < b + Len(p))
      BY <2>6, <3>2, <3>4
    <3> QED BY <3>1, <3>3, <3>5 DEF Rejected
  <2>9. \A p \in Punctuators : IsPrefix(p, w) => Len(p) <= Len(s)
    BY <2>3, <2>8, LongPunctuators
  <2>10. s = <<".">> => Next1 \notin DecDigits
    <3> SUFFICES ASSUME s = <<".">> PROVE Next1 \notin DecDigits
      OBVIOUS
    <3>1. \/ b + 2 <= Len(text) /\ text[b + 2] \notin DecDigits
          \/ ended /\ Len(text) < b + 2
      BY <2>2 DEF Longest
    <3>2. Len(s) <= 1
      OBVIOUS
    <3>3. posn.offset = b + 1
      BY <2>3, <2>5, <2>6, <3>2
    <3>4. posn.offset + 1 = b + 2
      BY <3>3
    <3>5. (b + 2 <= Len(text) => posn.offset < Len(text))
          /\ (Len(text) < b + 2 => ~(posn.offset < Len(text)))
      BY <2>6, <3>3
    <3> QED BY <2>6, <3>1, <3>4, <3>5 DEF EndOfText, DecDigits, OctDigits, BinDigits
  <2> QED BY <2>1, <2>3, <2>9, <2>10 DEF w
<1> QED BY <1>1, LexemesCorrect, PTL

(***************************************************************************)
(* A number is a literal of the grammar, a legacy octal takes no fraction  *)
(* or exponent, and neither a digit nor a name follows a number, whatever  *)
(* read_number made of its first characters.                               *)
(***************************************************************************)
THEOREM NumbersCorrect == LexerSpec => []NumbersWellFormed
<1>1. LexemeInv => NumbersWellFormed
  <2> SUFFICES ASSUME LexemeInv, token.kind = "number", posn = token.end
               PROVE  /\ IsNumber(Lexeme)
                      /\ Next1 \notin IdStart \cup DecDigits
                      /\ \A i \in 1 .. Len(Lexeme) :
                           LegacyOctal(SubSeq(Lexeme, 1, i)) /\ i < Len(Lexeme)
                             => Lexeme[i + 1] \in DecDigits
    BY DEF NumbersWellFormed, JustRead
  <2>1. IsNumber(Lexeme) /\ DigitsFollow(Lexeme) /\ NoneFollows(token.end.offset)
    BY DEF LexemeInv, TokenRight
  <2>2. /\ posn.offset < Len(text) => Next1 = text[posn.offset + 1]
        /\ ~(posn.offset < Len(text)) => Next1 = EndOfText
        /\ token.end.offset = posn.offset
    BY AfterToken
  <2>3. Next1 \notin IdStart \cup DecDigits
    <3>1. EndOfText \notin IdStart \cup DecDigits
      <4>1. EndOfText \notin ToSet(HexLetters)
        BY DEF EndOfText, ToSet, HexLetters
      <4> QED BY <4>1 DEF EndOfText, IdStart, DecDigits, OctDigits, BinDigits
    <3>2. CASE posn.offset < Len(text)
      BY <2>1, <2>2, <3>2 DEF NoneFollows
    <3>3. CASE ~(posn.offset < Len(text))
      BY <2>2, <3>1, <3>3
    <3> QED BY <3>2, <3>3
  <2>4. ASSUME NEW i \in 1 .. Len(Lexeme), LegacyOctal(SubSeq(Lexeme, 1, i)), i < Len(Lexeme)
        PROVE  Lexeme[i + 1] \in DecDigits
    <3>1. Lexeme # <<>>
      BY <2>4
    <3>2. Lexeme \in Seq(Chars) /\ Len(Lexeme) \in Nat
      BY <3>1, LexemeIs
    <3>3. LegacyUpTo(Lexeme, i)
      BY <2>4, <3>2, LegacyIs
    <3>4. i \in 1 .. Len(Lexeme) - 1
      BY <2>4, <3>2
    <3> QED BY <2>1, <3>3, <3>4 DEF DigitsFollow
  <2> QED BY <2>1, <2>3, <2>4
<1> QED BY <1>1, LexemesCorrect, PTL

(***************************************************************************)
(* A string and a regular expression end at the first delimiter that is    *)
(* neither escaped nor in a class, whatever backslashes come before it:    *)
(* read_string, read_regexp and their loops over escapes and classes see   *)
(* each character in its place.                                            *)
(***************************************************************************)
THEOREM LiteralsCorrect == LexerSpec => []LiteralsClosed
<1>1. LexemeInv => LiteralsClosed
  BY DEF LexemeInv, TokenRight, LiteralsClosed, JustRead
<1> QED BY <1>1, LexemesCorrect, PTL
=============================================================================
