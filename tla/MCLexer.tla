------------------------------- MODULE MCLexer -------------------------------
(***************************************************************************)
(* The texts on which TLC runs the lexer: for each part of the lexical     *)
(* grammar every text over the characters that matter to it, at some depth *)
(* after a fixed beginning.                                                *)
(***************************************************************************)
EXTENDS Lexer

AnyOf(n, S) == [i \in 1 .. n |-> S]
Fixed(s) == [i \in DOMAIN s |-> {s[i]}]

Blanks == AnyOf(5, {"LF", "CR", "/", "*", "a"})
BlockComments ==
  Fixed(<<"/", "*">>) \o AnyOf(4, {"*", "/", "LF", "a"}) \o Fixed(<<"-", "-", ">">>)
CloseComments == AnyOf(6, {"LF", "-", ">", "a"})
OpenComments == Fixed(<<"<", "!">>) \o AnyOf(4, {"-", ">", "LF", "a"})
RegExps == Fixed(<<"/">>) \o AnyOf(5, {"/", "\\", "[", "]", "LF", "a"})
Strings == Fixed(<<"'">>) \o AnyOf(5, {"\"", "'", "\\", "LF", "CR", "LS"})
Octals == Fixed(<<"'", "\\">>) \o AnyOf(5, {"0", "3", "7", "8", "'"})
HexEscapes ==
  Fixed(<<"'", "\\">>) \o AnyOf(1, {"x", "u"}) \o AnyOf(5, {"{", "}", "1", "F", "'"})
LongEscapes ==
  Fixed(<<"'", "\\", "u", "{">>) \o AnyOf(7, {"1", "d", "}"}) \o Fixed(<<"}", "'">>)
WordEscapes == Fixed(<<"a", "\\", "u">>) \o AnyOf(6, {"{", "}", "d", "0"})
Shifts == AnyOf(6, {"<", ">", "="})
Operators == AnyOf(3, {"=", "+", "-", "*", "&", "|", "!", "/", "."})
Punctuation == AnyOf(2, Singles)
Dots == AnyOf(5, {".", "0", "="})
Numbers == AnyOf(5, {"0", "8", ".", "e", "+"})
Radixes == Fixed(<<"0">>) \o AnyOf(4, {"x", "X", "o", "O", "b", "B", "0", "2", "9"})
Others == AnyOf(2, {"#", "ZWJ", "$", "E", "-", "1", "PS", "SP"})

LexerTexts ==
  {Blanks, BlockComments, CloseComments, OpenComments, RegExps, Strings, Octals,
   HexEscapes, LongEscapes, WordEscapes, Shifts, Operators, Punctuation, Dots,
   Numbers, Radixes, Others}

AllChars == UNION UNION {{s[i] : i \in DOMAIN s} : s \in LexerTexts}

\* The code points are scaled down, so that six digits overflow and not eight.
Width == 16^6
Valid == 0 .. 65535 \ 55296 .. 57343

PanicTexts == {AnyOf(3, {"/", "[", "a"})}
=============================================================================
