-------------------------------- MODULE Lexer --------------------------------
(***************************************************************************)
(* Lexer::read_next_token of src/crates/joker/src/lexer.rs, character by   *)
(* character.                                                              *)
(*                                                                         *)
(* A lexer function is a call [fn |-> its name, ...]; todo holds the calls *)
(* still to be made, the next one first.  Each step is one iteration of a  *)
(* loop of the code, or one decision; the characters that it peeks at are  *)
(* drawn before it.  The client asks for tokens under either lexical goal, *)
(* one after the other, until the end of the text or an error.             *)
(***************************************************************************)
EXTENDS Reader, SequencesExt

CONSTANTS
  Modulus,    \* 2^32 in the code, whose code points are u32
  CodePoints  \* the numbers that char::from_u32 takes

ASSUME CodePointsAssumption ==
  /\ Modulus \in Nat /\ Modulus > 16^4
  /\ CodePoints \subseteq 0 .. Modulus - 1

VARIABLES
  todo,        \* the pending calls
  newline,     \* found_newline of read_next_token
  empty_line,  \* Lexer::empty_line
  start,       \* SpanTracker::start
  digits,      \* the digits of the last escape
  code,        \* its code point
  token,       \* the last token read
  result       \* "lexing", the error returned, or the panic

tokenVars == <<newline, empty_line, start, token, result>>
escapeVars == <<digits, code>>
lexerVars == <<readerVars, todo, tokenVars, escapeVars>>

-----------------------------------------------------------------------------
(***************************************************************************)
(* Characters: one or more for each thing that the lexer tells apart.      *)
(***************************************************************************)
Whitespace == {"SP", "TAB"}
BinDigits == {"0", "1"}
OctDigits == BinDigits \cup {"2", "3", "4", "5", "6", "7"}
DecDigits == OctDigits \cup {"8", "9"}
HexLetters == <<"a", "b", "c", "d", "e", "f">>
HexDigits == DecDigits \cup ToSet(HexLetters) \cup {"A", "B", "C", "D", "E", "F"}
IdStart == ToSet(HexLetters) \cup {"A", "B", "C", "D", "E", "F"}
           \cup {"$", "_", "g", "o", "u", "x", "O", "X"}
IdContinue == IdStart \cup DecDigits \cup {"ZWJ"}

\* char::to_digit
ToDigit(c) ==
  CASE c \in DecDigits -> (CHOOSE i \in 1 .. 10 :
         c = <<"0", "1", "2", "3", "4", "5", "6", "7", "8", "9">>[i]) - 1
    [] c \in ToSet(HexLetters) -> 9 + CHOOSE i \in 1 .. 6 : c = HexLetters[i]
    [] OTHER -> 9 + CHOOSE i \in 1 .. 6 : c = <<"A", "B", "C", "D", "E", "F">>[i]

\* The punctuators, apart from `=>`, which the lexer reads as two.
Pairs ==
  {<<"+", "+">>, <<"+", "=">>, <<"-", "-">>, <<"-", "=">>, <<"*", "=">>,
   <<"%", "=">>, <<"^", "=">>, <<"&", "&">>, <<"&", "=">>, <<"|", "|">>,
   <<"|", "=">>, <<"/", "=">>, <<"<", "=">>, <<">", "=">>}
PairsBeforeEquals == {<<"<", "<">>, <<"=", "=">>, <<"!", "=">>}
Singles ==
  {"{", "}", "[", "]", "(", ")", ";", ":", ",", "<", ">", "=", "+", "-", "*",
   "%", "^", "&", "|", "~", "!", "?", "/", "."}

-----------------------------------------------------------------------------
(***************************************************************************)
(* Calls and steps.                                                        *)
(***************************************************************************)
Call(f) == [fn |-> f]
Skip(n) == [fn |-> "skip", n |-> n]
ReadWhile(S) == [fn |-> "read_while", chars |-> S]
ReadDigit(S, missing) == [fn |-> "digit", chars |-> S, missing |-> missing]
HexDigit == ReadDigit(HexDigits, "MissingHexDigits")
FromU32(word) == [fn |-> "from_u32", word |-> word]
End(kind) == [fn |-> "end", kind |-> kind]

\* The calls that look at no character.
Silent == {"decimal", "add_digits", "from_u32", "tokenize", "end"}

This == Head(todo)
Running == result = "lexing"

Starts(s) == IsPrefix(s, ahead)
Next1 == PeekAt(0)
AtEnd == Next1 = EndOfText

\* How many characters the call at the head peeks at: the argument of peek, and
\* the character after a carriage return that it consumes.
Peeked ==
  CASE This.fn = "blank" ->
         IF Starts(<<"<", "!", "-">>) THEN 4
         ELSE IF Starts(<<"<", "!">>) \/ (Starts(<<"-", "-">>) /\ empty_line) THEN 3
         ELSE 2
    [] This.fn = "token" -> IF Starts(<<".", ".">>) THEN 3 ELSE 2
    [] This.fn \in {"block_comment", "number", "shift"} -> 2
    [] This.fn \in {"skip", "class", "escape"} -> IF Next1 = "CR" THEN 2 ELSE 1
    [] This.fn \in Silent -> 0
    [] OTHER -> 1

\* The call at the head is one of function f, and has what it peeks at.
At(f) == Running /\ todo # <<>> /\ This.fn = f /\ Ahead(Peeked)

\* Reader::peek, when it must draw.
PeekMore ==
  /\ Running /\ todo # <<>> /\ ~Ahead(Peeked)
  /\ Draw
  /\ UNCHANGED <<todo, tokenVars, escapeVars>>

\* The call returns after making the given ones, and has consumed a character,
\* or none.
Then(calls) == todo' = calls \o Tail(todo)
Consume(calls) == NextChar /\ Then(calls) /\ UNCHANGED tokenVars
Stay(calls) == Then(calls) /\ UNCHANGED <<readerVars, tokenVars>>

\* The function returns an error, or panics.
Fail(e) ==
  /\ result' = e /\ todo' = <<>>
  /\ UNCHANGED <<readerVars, newline, empty_line, start, token, escapeVars>>

\* Lexer::reread of a character that is not there.
AssertionFails == Fail("AssertionFailed")

\* Lexer::skip, n times.
SkipChars ==
  /\ At("skip")
  /\ Consume(IF This.n = 1 THEN <<>> ELSE <<Skip(This.n - 1)>>)
  /\ UNCHANGED escapeVars

\* Lexer::read_into_until
ReadWhileChars ==
  /\ At("read_while")
  /\ IF Next1 \in This.chars THEN Consume(<<This>>) ELSE Stay(<<>>)
  /\ UNCHANGED escapeVars

-----------------------------------------------------------------------------
(***************************************************************************)
(* Whitespace and comments.                                                *)
(***************************************************************************)
\* A call of read_next_token; its argument matters in ReadToken only.
Request ==
  /\ Running /\ todo = <<>> /\ token.kind # "EOF"
  /\ todo' = <<Call("blank"), Call("token")>>
  /\ newline' = FALSE
  /\ UNCHANGED <<readerVars, empty_line, start, token, result, escapeVars>>

\* The length of the prefix of a line comment, 0 without one.
LineCommentPrefix ==
  CASE Starts(<<"/", "/">>) -> 2
    [] Starts(<<"<", "!", "-", "-">>) -> 4
    [] Starts(<<"-", "-", ">">>) /\ empty_line -> 3
    [] OTHER -> 0

SkipBlank ==
  /\ At("blank")
  /\ Next1 \in Whitespace
  /\ Consume(<<This>>)
  /\ UNCHANGED escapeVars

\* Lexer::skip_newlines; a CRLF is done with its line feed.
SkipNewline ==
  /\ At("blank")
  /\ Next1 \in Newlines
  /\ NextChar
  /\ IF Starts(<<"CR", "LF">>) THEN UNCHANGED <<newline, empty_line>>
     ELSE newline' = TRUE /\ empty_line' = TRUE
  /\ UNCHANGED <<todo, start, token, result, escapeVars>>

SkipComment ==
  /\ At("blank")
  /\ \/ /\ LineCommentPrefix > 0
        /\ Stay(<<Skip(LineCommentPrefix), Call("line_comment"), This>>)
     \/ /\ Starts(<<"/", "*">>)
        /\ Stay(<<Skip(2), Call("block_comment"), This>>)
  /\ UNCHANGED escapeVars

\* Mutant of LineComment: only a newline ends it.
LineCommentToNewline ==
  /\ At("line_comment")
  /\ IF AtEnd THEN Stay(<<This>>)
     ELSE IF Next1 \in Newlines THEN Stay(<<>>) ELSE Consume(<<This>>)
  /\ UNCHANGED escapeVars

\* Lexer::skip_line_comment
LineComment ==
  /\ At("line_comment")
  /\ IF AtEnd \/ Next1 \in Newlines THEN Stay(<<>>) ELSE Consume(<<This>>)
  /\ UNCHANGED escapeVars

\* Mutant of BlockComment: what it found replaces what was found before it.
BlockCommentForgets ==
  /\ At("block_comment")
  /\ \/ PeekAt(1) = EndOfText /\ Fail("UnterminatedComment")
     \/ Starts(<<"*", "/">>) /\ Stay(<<Skip(2)>>) /\ UNCHANGED escapeVars
     \/ /\ PeekAt(1) # EndOfText /\ ~Starts(<<"*", "/">>)
        /\ newline' = (Next1 \in Newlines)
        /\ NextChar
        /\ UNCHANGED <<todo, empty_line, start, token, result, escapeVars>>

\* Lexer::skip_block_comment
BlockComment ==
  /\ At("block_comment")
  /\ \/ PeekAt(1) = EndOfText /\ Fail("UnterminatedComment")
     \/ Starts(<<"*", "/">>) /\ Stay(<<Skip(2)>>) /\ UNCHANGED escapeVars
     \/ /\ PeekAt(1) # EndOfText /\ ~Starts(<<"*", "/">>)
        /\ newline' = (newline \/ Next1 \in Newlines)
        /\ NextChar
        /\ UNCHANGED <<todo, empty_line, start, token, result, escapeVars>>

\* Mutant of StartToken: the line is not marked as one with a token.
StartTokenOnEmptyLine ==
  /\ At("blank")
  /\ Next1 \notin Whitespace \cup Newlines
  /\ LineCommentPrefix = 0 /\ ~Starts(<<"/", "*">>)
  /\ start' = posn /\ digits' = <<>>
  /\ Then(<<>>)
  /\ UNCHANGED <<readerVars, newline, empty_line, token, result, code>>

\* The loop ends, and a token starts; Lexer::start
StartToken ==
  /\ At("blank")
  /\ Next1 \notin Whitespace \cup Newlines
  /\ LineCommentPrefix = 0 /\ ~Starts(<<"/", "*">>)
  /\ empty_line' = FALSE /\ start' = posn /\ digits' = <<>>
  /\ Then(<<>>)
  /\ UNCHANGED <<readerVars, newline, token, result, code>>

\* SpanTracker::end
EndToken ==
  /\ At("end")
  /\ token' = [kind |-> This.kind, newline |-> newline, start |-> start, end |-> posn]
  /\ Then(<<>>)
  /\ UNCHANGED <<readerVars, newline, empty_line, start, result, escapeVars>>

-----------------------------------------------------------------------------
(***************************************************************************)
(* The token at hand: the match of read_next_token.                        *)
(***************************************************************************)
\* The calls that read a punctuator.
PunctuatorCalls ==
  CASE Starts(<<".", ".", ".">>) -> <<Skip(3)>>
    [] Starts(<<">", ">">>) -> <<Skip(2), Call("shift")>>
    [] Len(ahead) > 1 /\ <<Next1, PeekAt(1)>> \in PairsBeforeEquals ->
         <<Skip(2), Call("matches_equals")>>
    [] Len(ahead) > 1 /\ <<Next1, PeekAt(1)>> \in Pairs -> <<Skip(2)>>
    [] OTHER -> <<Skip(1)>>

\* Is it a literal or a word?  Under the operator goal, a slash starts neither.
StartsRegExp(operator) == Next1 = "/" /\ ~operator
StartsNumber == Next1 \in DecDigits \/ (Next1 = "." /\ PeekAt(1) \in DecDigits)
StartsString == Next1 \in {"\"", "'"}
StartsWord == Next1 \in IdStart \cup {"\\"}

ReadToken ==
  /\ At("token")
  /\ \E operator \in BOOLEAN :
       \/ /\ StartsRegExp(operator)
          /\ Consume(<<Call("regexp"), Call("word_parts"), End("regexp")>>)
       \/ /\ StartsNumber
          /\ Stay(<<Call("number"), Call("number_end"), End("number")>>)
       \/ /\ StartsString
          /\ Consume(<<[fn |-> "string", quote |-> Next1], End("string")>>)
       \/ /\ StartsWord
          /\ Stay(<<Call("word_parts"), Call("tokenize"), End("word")>>)
       \/ /\ Next1 \in Singles /\ ~StartsRegExp(operator) /\ ~StartsNumber
          /\ Stay(PunctuatorCalls \o <<End("punctuator")>>)
       \/ AtEnd /\ Stay(<<End("EOF")>>)
  /\ UNCHANGED escapeVars

IllegalChar ==
  /\ At("token")
  /\ ~AtEnd /\ Next1 \notin IdStart \cup DecDigits \cup Singles \cup {"\"", "'", "\\"}
  /\ Fail("IllegalChar")

\* Mutant of Shift: the third character of a shift is not looked for.
ShiftShort ==
  /\ At("shift")
  /\ Stay(IF Next1 = "=" THEN <<Skip(1)>> ELSE <<>>)
  /\ UNCHANGED escapeVars

\* What follows `>>`.
Shift ==
  /\ At("shift")
  /\ Stay(IF Starts(<<">", "=">>) THEN <<Skip(2)>>
          ELSE IF Next1 \in {">", "="} THEN <<Skip(1)>> ELSE <<>>)
  /\ UNCHANGED escapeVars

\* Lexer::matches, of the equals sign that read_punc2_3 looks for.
MatchesEquals ==
  /\ At("matches_equals")
  /\ IF Next1 = "=" THEN Consume(<<>>) ELSE Stay(<<>>)
  /\ UNCHANGED escapeVars

-----------------------------------------------------------------------------
(***************************************************************************)
(* Regular expressions and words.                                          *)
(***************************************************************************)
\* The loop of read_regexp; read_until_with ends at the end of the text too,
\* and then the slash is reread all the same.
RegExp ==
  /\ At("regexp")
  /\ \/ AtEnd /\ AssertionFails
     \/ Next1 = "/" /\ Consume(<<>>) /\ UNCHANGED escapeVars
     \/ Next1 \in Newlines /\ Fail("UnterminatedRegExp")
     \/ /\ ~AtEnd /\ Next1 \notin Newlines \cup {"/"}
        /\ Consume(CASE Next1 = "\\" -> <<Call("backslash"), This>>
                     [] Next1 = "[" -> <<Call("class"), This>>
                     [] OTHER -> <<This>>)
        /\ UNCHANGED escapeVars

\* Lexer::read_regexp_backslash, its backslash read.
Backslash ==
  /\ At("backslash")
  /\ IF AtEnd \/ Next1 \in Newlines THEN Fail("UnterminatedRegExp")
     ELSE Consume(<<>>) /\ UNCHANGED escapeVars

\* Mutant of RegExpClass: a backslash escapes nothing in a class.
RegExpClassPlain ==
  /\ At("class")
  /\ IF AtEnd THEN AssertionFails
     ELSE Consume(IF Next1 = "]" THEN <<>> ELSE <<This>>) /\ UNCHANGED escapeVars

\* The loop of read_regexp_class; a newline may stand in a class.
RegExpClass ==
  /\ At("class")
  /\ IF AtEnd THEN AssertionFails
     ELSE /\ Consume(CASE Next1 = "]" -> <<>>
                       [] Next1 = "\\" -> <<Call("backslash"), This>>
                       [] OTHER -> <<This>>)
          /\ UNCHANGED escapeVars

\* The loop of read_word_parts: a word, or the flags of a regular expression.
WordParts ==
  /\ At("word_parts")
  /\ IF Next1 \in IdContinue \cup {"\\"}
     THEN Consume(IF Next1 = "\\" THEN <<Call("word_escape"), This>> ELSE <<This>>)
     ELSE Stay(<<>>)
  /\ UNCHANGED escapeVars

\* Lexer::read_word_escape
WordEscape ==
  /\ At("word_escape")
  /\ IF Next1 = "u"
     THEN /\ Consume(<<Call("unicode"), FromU32(TRUE)>>)
          /\ digits' = <<>> /\ UNCHANGED code
     ELSE Fail("IncompleteWordEscape")

\* Map::tokenize, of any word: an escaped one may not spell a reserved word.
Tokenize ==
  /\ At("tokenize")
  /\ \/ Stay(<<>>) /\ UNCHANGED escapeVars
     \/ digits # <<>> /\ Fail("ReservedWordWithEscapes")

-----------------------------------------------------------------------------
(***************************************************************************)
(* Strings and escapes.                                                    *)
(***************************************************************************)
\* Mutant of StringChars: the quote is reread at the end of the text too.
StringCharsToQuote ==
  /\ At("string")
  /\ \/ Next1 = "\\" /\ Consume(<<Call("escape"), This>>) /\ UNCHANGED escapeVars
     \/ Next1 = This.quote /\ Consume(<<>>) /\ UNCHANGED escapeVars
     \/ AtEnd /\ AssertionFails
     \/ Next1 \in Newlines /\ Fail("UnterminatedString")
     \/ /\ ~AtEnd /\ Next1 \notin Newlines \cup {"\\", This.quote}
        /\ Consume(<<This>>) /\ UNCHANGED escapeVars

\* The loop of read_string.
StringChars ==
  /\ At("string")
  /\ \/ Next1 = "\\" /\ Consume(<<Call("escape"), This>>) /\ UNCHANGED escapeVars
     \/ Next1 = This.quote /\ Consume(<<>>) /\ UNCHANGED escapeVars
     \/ AtEnd /\ Fail("UnterminatedString")
     \/ Next1 \in Newlines /\ Fail("UnterminatedString")
     \/ /\ ~AtEnd /\ Next1 \notin Newlines \cup {"\\", This.quote}
        /\ Consume(<<This>>) /\ UNCHANGED escapeVars

\* Lexer::read_string_escape, its backslash read.
StringEscape ==
  /\ At("escape")
  /\ \/ /\ Next1 \in OctDigits
        /\ Stay(<<Call("octal")>>) /\ digits' = <<>> /\ UNCHANGED code
     \/ /\ Next1 = "x"
        /\ Consume(<<HexDigit, HexDigit, Call("add_digits"), FromU32(FALSE)>>)
        /\ digits' = <<>> /\ UNCHANGED code
     \/ /\ Next1 = "u"
        /\ Consume(<<Call("unicode"), FromU32(FALSE)>>)
        /\ digits' = <<>> /\ UNCHANGED code
     \/ /\ Next1 \in Newlines
        /\ Stay(<<Skip(IF Starts(<<"CR", "LF">>) THEN 2 ELSE 1)>>)
        /\ UNCHANGED escapeVars
     \/ AtEnd /\ Stay(<<>>) /\ UNCHANGED escapeVars
     \/ /\ ~AtEnd /\ Next1 \notin OctDigits \cup Newlines \cup {"x", "u"}
        /\ Consume(<<>>) /\ UNCHANGED escapeVars

\* The code point so far, if Next1 is added to an octal escape.
NewCode == (IF digits = <<>> THEN 0 ELSE code) * 8 + ToDigit(Next1)

\* The loop over an octal escape.
OctalEscape ==
  /\ At("octal")
  /\ IF Next1 \in OctDigits /\ Len(digits) < 3 /\ NewCode <= 255
     THEN /\ Consume(<<This>>)
          /\ digits' = Append(digits, ToDigit(Next1)) /\ code' = NewCode
     ELSE Stay(<<FromU32(FALSE)>>) /\ UNCHANGED escapeVars

\* Lexer::read_digit_into
ReadDigitInto ==
  /\ At("digit")
  /\ \/ /\ Next1 \in This.chars
        /\ Consume(<<>>)
        /\ digits' = Append(digits, ToDigit(Next1)) /\ UNCHANGED code
     \/ AtEnd /\ Fail(This.missing)
     \/ ~AtEnd /\ Next1 \notin This.chars /\ Fail("InvalidDigit")

\* Lexer::read_unicode_escape_seq
UnicodeEscape ==
  /\ At("unicode")
  /\ IF Next1 = "{"
     THEN Consume(<<HexDigit, Call("braces"), Call("add_digits")>>)
     ELSE Stay(<<HexDigit, HexDigit, HexDigit, HexDigit, Call("add_digits")>>)
  /\ UNCHANGED escapeVars

\* Its loop up to the closing brace, which is reread at the end of the text too.
Braces ==
  /\ At("braces")
  /\ \/ AtEnd /\ AssertionFails
     \/ Next1 = "}" /\ Consume(<<>>) /\ UNCHANGED escapeVars
     \/ /\ ~AtEnd /\ Next1 # "}"
        /\ Stay(<<HexDigit, This>>) /\ UNCHANGED escapeVars

\* Mutant of Summed: the first digit is taken for the last.
SummedReversed(ds) ==
  LET loop[n \in 0 .. Len(ds)] ==
        IF n = 0 THEN [sum |-> 0, place |-> 1]
        ELSE LET before == loop[n - 1]
             IN  [sum |-> before.sum + ds[n] * before.place,
                  place |-> before.place * 16]
  IN  loop[Len(ds)]

\* The loop of add_digits, without a width: the sum of the last n digits and the
\* place of the next.
Summed(ds) ==
  LET loop[n \in 0 .. Len(ds)] ==
        IF n = 0 THEN [sum |-> 0, place |-> 1]
        ELSE LET before == loop[n - 1]
             IN  [sum |-> before.sum + ds[Len(ds) - n + 1] * before.place,
                  place |-> before.place * 16]
  IN  loop[Len(ds)]

\* Mutant of AddDigits: the sum is kept whole.
AddDigitsWide ==
  /\ At("add_digits")
  /\ code' = Summed(digits).sum
  /\ Stay(<<>>) /\ UNCHANGED digits

\* add_digits, in a build with overflow checks or without.
AddDigits ==
  /\ At("add_digits")
  /\ \/ Summed(digits).place >= Modulus /\ Fail("Overflow")
     \/ /\ code' = Summed(digits).sum % Modulus
        /\ Stay(<<>>) /\ UNCHANGED digits

\* char::from_u32, whose failure is an error in a word only.
CharFromU32 ==
  /\ At("from_u32")
  /\ IF This.word /\ code \notin CodePoints THEN Fail("IllegalUnicode")
     ELSE Stay(<<>>) /\ UNCHANGED escapeVars

-----------------------------------------------------------------------------
(***************************************************************************)
(* Numbers.                                                                *)
(***************************************************************************)
\* Lexer::read_radix_int
RadixInt(S, missing) == <<Skip(2), ReadDigit(S, missing), ReadWhile(S)>>
Radix(c) ==
  CASE c \in {"x", "X"} -> RadixInt(HexDigits, "MissingHexDigits")
    [] c \in {"o", "O"} -> RadixInt(OctDigits, "MissingOctalDigits")
    [] c \in {"b", "B"} -> RadixInt(BinDigits, "MissingBinaryDigits")

\* Lexer::read_number
Number ==
  /\ At("number")
  /\ IF Next1 = "0" /\ PeekAt(1) \in {"x", "X", "o", "O", "b", "B"}
     THEN Stay(Radix(PeekAt(1)))
     ELSE IF Next1 = "." THEN Consume(<<ReadWhile(DecDigits), Call("exp")>>)
     ELSE Stay(<<ReadWhile(DecDigits), Call("decimal")>>)
  /\ UNCHANGED escapeVars

\* The integer that has been read.
IntegerRead == SubSeq(text, start.offset + 1, posn.offset)

LegacyOctal(s) ==
  s[1] = "0" /\ Len(s) > 1 /\ \A i \in 2 .. Len(s) : s[i] \in OctDigits

\* Mutant of Decimal: a legacy octal may have a fraction.
DecimalAlways ==
  /\ At("decimal")
  /\ Stay(<<Call("fraction"), Call("exp")>>)
  /\ UNCHANGED escapeVars

\* A legacy octal has neither fraction nor exponent.
Decimal ==
  /\ At("decimal")
  /\ Stay(IF LegacyOctal(IntegerRead) THEN <<>> ELSE <<Call("fraction"), Call("exp")>>)
  /\ UNCHANGED escapeVars

Fraction ==
  /\ At("fraction")
  /\ IF Next1 = "." THEN Consume(<<ReadWhile(DecDigits)>>) ELSE Stay(<<>>)
  /\ UNCHANGED escapeVars

\* Lexer::read_exp_part
ExpPart ==
  /\ At("exp")
  /\ IF Next1 \in {"e", "E"} THEN Consume(<<Call("sign"), Call("exp_digits")>>)
     ELSE Stay(<<>>)
  /\ UNCHANGED escapeVars

ExpSign ==
  /\ At("sign")
  /\ IF Next1 \in {"+", "-"} THEN Consume(<<>>) ELSE Stay(<<>>)
  /\ UNCHANGED escapeVars

ExpDigits ==
  /\ At("exp_digits")
  /\ IF Next1 \in DecDigits THEN Stay(<<ReadWhile(DecDigits)>>) /\ UNCHANGED escapeVars
     ELSE Fail("MissingExponent")

\* The check at the end of read_number.
NumberEnd ==
  /\ At("number_end")
  /\ \/ Next1 \in IdStart /\ Fail("IdAfterNumber")
     \/ Next1 \in DecDigits /\ Fail("DigitAfterNumber")
     \/ Next1 \notin IdStart \cup DecDigits /\ Stay(<<>>) /\ UNCHANGED escapeVars

-----------------------------------------------------------------------------
LexerInit ==
  /\ ReaderInit
  /\ todo = <<>>
  /\ newline = FALSE
  /\ empty_line = TRUE
  /\ start = Origin
  /\ digits = <<>> /\ code = 0
  /\ token = [kind |-> "none", newline |-> FALSE, start |-> Origin, end |-> Origin]
  /\ result = "lexing"

LexerStep ==
  \/ PeekMore \/ SkipChars \/ ReadWhileChars
  \/ SkipBlank \/ SkipNewline \/ SkipComment \/ LineComment \/ BlockComment
  \/ StartToken \/ ReadToken \/ IllegalChar \/ EndToken
  \/ Shift \/ MatchesEquals
  \/ RegExp \/ Backslash \/ RegExpClass
  \/ WordParts \/ WordEscape \/ Tokenize
  \/ StringChars \/ StringEscape \/ OctalEscape
  \/ ReadDigitInto \/ UnicodeEscape \/ Braces \/ AddDigits \/ CharFromU32
  \/ Number \/ Decimal \/ Fraction \/ ExpPart \/ ExpSign \/ ExpDigits \/ NumberEnd

\* The client has the last token, or an error.
Finished ==
  /\ todo = <<>>
  /\ token.kind = "EOF" \/ ~Running
  /\ UNCHANGED lexerVars

LexerNext == Request \/ LexerStep \/ Finished

\* The lexer runs on until it returns; its client may stop asking.
LexerSpec ==
  LexerInit /\ [][LexerNext]_lexerVars /\ WF_lexerVars(LexerStep)

-----------------------------------------------------------------------------
(***************************************************************************)
(* Properties.                                                             *)
(***************************************************************************)
Kinds == {"none", "punctuator", "number", "string", "regexp", "word", "EOF"}
Errors ==
  {"UnterminatedComment", "UnterminatedRegExp", "UnterminatedString", "IllegalChar",
   "MissingHexDigits", "MissingOctalDigits", "MissingBinaryDigits", "InvalidDigit",
   "IncompleteWordEscape", "IllegalUnicode", "ReservedWordWithEscapes",
   "MissingExponent", "IdAfterNumber", "DigitAfterNumber"}
Panics == {"AssertionFailed", "Overflow"}

Posn == [offset : Nat, line : Nat, column : Nat]

\* The functions called within a token that take no arguments, all calls within a
\* token, and all calls.
PlainFns ==
  {"shift", "matches_equals", "regexp", "backslash", "class", "word_parts",
   "word_escape", "tokenize", "escape", "octal", "unicode", "braces", "add_digits",
   "number", "decimal", "fraction", "exp", "sign", "exp_digits", "number_end"}

InnerCall ==
  [fn : PlainFns]
  \cup [fn : {"skip"}, n : 1 .. 4]
  \cup [fn : {"read_while"}, chars : {BinDigits, OctDigits, DecDigits, HexDigits}]
  \cup [fn : {"digit"}, chars : {BinDigits, OctDigits, HexDigits}, missing : Errors]
  \cup [fn : {"from_u32"}, word : BOOLEAN]
  \cup [fn : {"string"}, quote : {"\"", "'"}]

LexerCall ==
  InnerCall
  \cup [fn : {"blank", "token", "line_comment", "block_comment"}]
  \cup [fn : {"end"}, kind : Kinds]

\* The variables keep their types, and the reader never has to hold more than
\* the four characters that Reader::new makes room for.
LexerTypeOK ==
  /\ ReaderTypeOK /\ Len(ahead) <= 4
  /\ todo \in Seq(LexerCall)
  /\ newline \in BOOLEAN /\ empty_line \in BOOLEAN
  /\ start \in Posn
  /\ digits \in Seq(0 .. 15) /\ code \in 0 .. Modulus - 1
  /\ token \in [kind : Kinds, newline : BOOLEAN, start : Posn, end : Posn]
  /\ result \in {"lexing"} \cup Errors \cup Panics

\* The text of the token read last, while nothing after it is consumed.
Lexeme == SubSeq(text, token.start.offset + 1, token.end.offset)
JustRead(kind) == token.kind = kind /\ posn = token.end

(***************************************************************************)
(* A token is marked as having a newline before it exactly when the text   *)
(* between it and the token before has one, in whitespace, after a line    *)
(* comment or within a block comment (token.rs: "was there a newline       *)
(* between the preceding token and this one?").  Automatic semicolons      *)
(* depend on it.                                                           *)
(***************************************************************************)
NewlineFlag ==
  [][token' # token =>
       (token'.newline <=>
          \E i \in token.end.offset + 1 .. token'.start.offset : text[i] \in Newlines)
    ]_lexerVars

(***************************************************************************)
(* While a line counts as empty, so that `-->` starts a comment, no token  *)
(* has ended on it.                                                        *)
(***************************************************************************)
EmptyLineSound ==
  empty_line /\ token.kind # "none" => token.end.line < posn.line

Punctuators ==
  {<<c>> : c \in Singles} \cup Pairs \cup PairsBeforeEquals
  \cup {Append(p, "=") : p \in PairsBeforeEquals}
  \cup {<<".", ".", ".">>, <<">", ">">>, <<">", ">", "=">>,
        <<">", ">", ">">>, <<">", ">", ">", "=">>}

(***************************************************************************)
(* A punctuator is the longest one that the text has there, although the   *)
(* lexer decides on two characters and then on one or two more, and a dot  *)
(* before a digit is none.                                                 *)
(***************************************************************************)
LongestPunctuator ==
  JustRead("punctuator") =>
    /\ Lexeme \in Punctuators
    /\ \A p \in Punctuators : IsPrefix(p, Lexeme \o ahead) => Len(p) <= Len(Lexeme)
    /\ Lexeme = <<".">> => Next1 \notin DecDigits

-----------------------------------------------------------------------------
AllIn(s, S) == \A i \in DOMAIN s : s[i] \in S

\* s is an exponent part, or empty.
IsExponent(s) ==
  \/ s = <<>>
  \/ /\ Len(s) > 1 /\ s[1] \in {"e", "E"}
     /\ \/ AllIn(Tail(s), DecDigits)
        \/ s[2] \in {"+", "-"} /\ Len(s) > 2 /\ AllIn(SubSeq(s, 3, Len(s)), DecDigits)

\* s is a numeric literal: one with a radix, a legacy octal, or a decimal, of
\* which the first i characters are the integer, up to j the dot and fraction.
IsNumber(s) ==
  \/ /\ Len(s) > 2 /\ s[1] = "0"
     /\ \E r \in {<<{"x", "X"}, HexDigits>>, <<{"o", "O"}, OctDigits>>,
                  <<{"b", "B"}, BinDigits>>} :
          s[2] \in r[1] /\ AllIn(SubSeq(s, 3, Len(s)), r[2])
  \/ LegacyOctal(s)
  \/ \E i \in 0 .. Len(s), j \in 0 .. Len(s) :
       /\ i <= j
       /\ AllIn(SubSeq(s, 1, i), DecDigits)
       /\ i < j => s[i + 1] = "." /\ AllIn(SubSeq(s, i + 2, j), DecDigits)
       /\ i > 0 \/ j > 1
       /\ IsExponent(SubSeq(s, j + 1, Len(s)))

(***************************************************************************)
(* A number is a numeric literal of the grammar, a legacy octal has no     *)
(* fraction or exponent, and neither a digit nor a character that starts a *)
(* name follows it; a backslash may, as in the code, although an escape    *)
(* starts a name too.                                                      *)
(***************************************************************************)
NumbersWellFormed ==
  JustRead("number") =>
    /\ IsNumber(Lexeme)
    /\ Next1 \notin IdStart \cup DecDigits
    /\ \A i \in 1 .. Len(Lexeme) :
         LegacyOctal(SubSeq(Lexeme, 1, i)) /\ i < Len(Lexeme)
           => Lexeme[i + 1] \in DecDigits

-----------------------------------------------------------------------------
\* The character at index i of s has an odd number of backslashes before it.
Escaped(s, i) ==
  \E n \in 1 .. i - 1 :
    /\ n % 2 = 1
    /\ \A k \in i - n .. i - 1 : s[k] = "\\"
    /\ i - n > 1 => s[i - n - 1] # "\\"

\* Index i of s is within a class.
InClass(s, i) ==
  \E j \in 1 .. i - 1 :
    /\ s[j] = "[" /\ ~Escaped(s, j)
    /\ \A k \in j + 1 .. i - 1 : s[k] = "]" => Escaped(s, k)

\* s is a string literal: only its last character closes it.
IsString(s) ==
  /\ Len(s) > 1 /\ s[Len(s)] = s[1] /\ ~Escaped(s, Len(s))
  /\ \A i \in 2 .. Len(s) - 1 :
       /\ s[i] = s[1] => Escaped(s, i)
       /\ s[i] \in Newlines =>
            Escaped(s, i) \/ (s[i] = "LF" /\ s[i - 1] = "CR" /\ Escaped(s, i - 1))

\* The slash at index i of s closes a regular expression.
Closes(s, i) == s[i] = "/" /\ ~Escaped(s, i) /\ ~InClass(s, i)

\* s is a regular expression literal: the first slash that closes it is followed
\* by flags, and a newline before it is in a class.
IsRegExp(s) ==
  \E n \in 2 .. Len(s) :
    /\ Closes(s, n)
    /\ \A i \in 2 .. n - 1 :
         ~Closes(s, i) /\ (s[i] \in Newlines => InClass(s, i) /\ ~Escaped(s, i))
    /\ AllIn(SubSeq(s, n + 1, Len(s)), IdContinue \cup {"\\", "{", "}"})

(***************************************************************************)
(* A string and a regular expression end at the first delimiter that is    *)
(* neither escaped nor, for the slash, in a class, whatever backslashes    *)
(* come before it; a line continuation may be a CRLF.                      *)
(***************************************************************************)
LiteralsClosed ==
  /\ JustRead("string") => IsString(Lexeme)
  /\ JustRead("regexp") => IsRegExp(Lexeme)

-----------------------------------------------------------------------------
\* The escape just read: all after the last backslash.
EscapeRead ==
  LET isLast(i) == text[i] = "\\" /\ \A j \in i + 1 .. posn.offset : text[j] # "\\"
  IN  SubSeq(text, 1 + CHOOSE i \in 1 .. posn.offset : isLast(i), posn.offset)

\* The number that digits denote.
Denoted(cs, radix) ==
  LET first[n \in 0 .. Len(cs)] ==
        IF n = 0 THEN 0 ELSE first[n - 1] * radix + ToDigit(cs[n])
  IN  first[Len(cs)]

(***************************************************************************)
(* The code point of an escape is the number that its digits denote, most  *)
(* significant digit first and modulo the width of the sum, for each form  *)
(* of escape; an octal one takes as many digits, of three, as stay within  *)
(* a byte.                                                                 *)
(***************************************************************************)
EscapesRight ==
  Running /\ todo # <<>> /\ Head(todo).fn = "from_u32" =>
    LET e == EscapeRead
    IN  \/ /\ e[1] = "x" /\ Len(e) = 3
           /\ code = Denoted(Tail(e), 16)
        \/ /\ e[1] = "u" /\ Len(e) = 5 /\ e[2] # "{"
           /\ code = Denoted(Tail(e), 16)
        \/ /\ e[1] = "u" /\ Len(e) > 3 /\ e[2] = "{" /\ e[Len(e)] = "}"
           /\ code = Denoted(SubSeq(e, 3, Len(e) - 1), 16) % Modulus
        \/ /\ Len(e) \in 1 .. 3 /\ AllIn(e, OctDigits)
           /\ code = Denoted(e, 8) /\ code <= 255
           /\ Len(e) = 3 \/ Next1 \notin OctDigits \/ NewCode > 255

-----------------------------------------------------------------------------
\* The text ends in a regular expression, or a class of one, that nothing closed.
RegExpOpen ==
  LET s == SubSeq(text, start.offset + 1, posn.offset)
  IN  s # <<>> /\ s[1] = "/" /\ ~\E i \in 2 .. Len(s) : Closes(s, i)

\* The text ends within the braces of an escape, after a first digit.
BracesOpen ==
  /\ \E i \in 1 .. posn.offset : text[i] = "\\"
  /\ LET e == EscapeRead
     IN  /\ Len(e) > 2 /\ e[1] = "u" /\ e[2] = "{"
         /\ AllIn(SubSeq(e, 3, Len(e)), HexDigits)

\* The digits in the braces of the escape just read need more than the width.
DigitsOverflow ==
  LET e == EscapeRead
  IN  /\ Len(e) > 3 /\ e[1] = "u" /\ e[2] = "{" /\ e[Len(e)] = "}"
      /\ 16^(Len(e) - 3) >= Modulus

\* The panics of the code: see RereadFindsChar for the first two.
PanicExpected ==
  \/ result = "AssertionFailed" /\ AtEnd /\ (RegExpOpen \/ BracesOpen)
  \/ result = "Overflow" /\ DigitsOverflow

\* The last request was answered by the token at hand.
TokenReturned == Running /\ token.start = start /\ token.end = posn

(***************************************************************************)
(* Every request is answered, by the token that started there or by an     *)
(* error, on every text, with three exceptions: the code panics where the  *)
(* text ends within a regular expression or within the braces of an        *)
(* escape, and, with overflow checks, where those braces hold more digits  *)
(* than the width.  At the end of the text every other loop, of comments,  *)
(* strings and other escapes, must come to its own error.                  *)
(***************************************************************************)
Answered ==
  todo # <<>> ~>
    todo = <<>> /\ (TokenReturned \/ result \in Errors \/ PanicExpected)

\* The assertion of Lexer::reread: the character is there.
RereadFindsChar == result # "AssertionFailed"
=============================================================================
