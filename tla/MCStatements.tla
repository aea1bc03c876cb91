---------------------------- MODULE MCStatements ----------------------------
(***************************************************************************)
(* The source texts on which TLC runs the parser: every sequence of tokens *)
(* of a small vocabulary, chosen for one part of the grammar and long      *)
(* enough for its interesting statements, whether the parser accepts them  *)
(* or not.                                                                 *)
(***************************************************************************)
EXTENDS Statements

Program(n, T) == SourceSet("program", n, T)

\* The names of the vocabularies below that are identifiers.
Names == {"a", "b", "let", "of", "get", "set", "target"}

Jumps ==
  Program(6, {"a", "b", ":", "do", "{", "}", "continue", "break", ";"})

LineJumps == Program(5, {"a", ":", "do", "continue", "break", ";"})

Functions == Program(8, {"function", "(", ")", "{", "}", "a", "return"})

Parameters ==
  Program(8, {"function", "(", ")", "{", "}", "a", ",", "...", "*"})

ForHeads ==
  Program(8, {"for", "(", ")", ";", "let", "a", "in", "function", "{"})

ForBindings ==
  Program(7, {"for", "(", ";", "var", "let", "const", "a", "in", "of", "=", ","})

Switches ==
  Program(9, {"switch", "(", ")", "{", "}", "a", "case", "default", ":"})

Clauses ==
  Program(6, {"try", "catch", "finally", "if", "else", "with", "throw", "debugger",
              "while", "{", "}", "(", ")", "a", ";"})

Operators ==
  Program(5, {"a", "(", ")", "[", "]", "new", ".", "target", "++", "+", "=", "?", ":",
              ",", "..."})

Divisions == Program(5, {"a", "/", "regexp", "++", "new", ".", "(", ")", "="})

Slashes == Program(5, {"for", "(", ")", "let", ";", "/", "regexp", "a", ":"})

Objects ==
  Program(7, {"(", ")", "{", "}", "a", "get", "set", "*", ":", ",", "if"})

ItemSources ==
  {SourceSet(e, 5, {"string", "+", "++", ";", "a", "{", "}", "import", "var",
                    "const", "let", "=", "in"}) : e \in {"program", "module"}}

-----------------------------------------------------------------------------
StatementSources ==
  {OneLine(Parameters), OneLine(ForHeads), OneLine(ForBindings), OneLine(Switches),
   OneLine(Objects), Clauses} \cup ItemSources

ScriptSources == {SourceSet("script", 2, {"a", "}", ";", "case", "default"})}

DirectiveSources == {Program(3, {"string", "+", "a", ";", "/", "regexp"})}

\* Short takes every token of the grammar, so that each call meets the tokens
\* that make no sense for it; of, get and set are names to all but a few calls.
Short ==
  LET all == UNION {s.tokens : s \in StatementSources \cup
                                    {Jumps, Functions, Operators, Divisions}}
  IN  Program(3, {"this", "+="} \cup (all \ {"of", "get", "set"}))

\* The labels with which these are run: their identifiers.
ShortNames == {"a", "b", "let", "target"}

ExpressionSources ==
  {OneLine(Operators), OneLine(Functions), OneLine(Jumps), LineJumps, Divisions,
   Slashes, Short}
=============================================================================
