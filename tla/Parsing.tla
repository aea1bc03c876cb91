------------------------------- MODULE Parsing -------------------------------
(***************************************************************************)
(* The machine on which the recursive-descent parser of src/src/parser.rs  *)
(* runs: the lookahead buffer of the lexer, the calls that are pending,    *)
(* the context, and the steps that all parser functions share (state.rs,   *)
(* track.rs, context.rs).  The grammar is in the modules Bindings,         *)
(* Expressions and Statements.                                             *)
(*                                                                         *)
(* A parser function is a call [fn |-> its name, ...]; todo holds the      *)
(* calls still to be made, the next one first: what the Rust stack holds.  *)
(* The source is lexed lazily, one arbitrary token after the other, so the *)
(* behaviours are the parses of every source text in one of Sources.       *)
(* An expression is abstracted to what can be assigned to it.              *)
(***************************************************************************)
EXTENDS Context, Naturals, Sequences, SequencesExt

CONSTANT
  Sources  \* bound: the entry points called, and on which source texts

\* A set of source texts: those of at most length tokens out of tokens, on any
\* lines or on one.
SourceSet(e, n, T) ==
  [entry |-> e, length |-> n, tokens |-> T, newlines |-> BOOLEAN]
OneLine(s) == [s EXCEPT !.newlines = {FALSE}]

ASSUME SourcesAssumption ==
  \A s \in Sources :
    /\ s.entry \in {"script", "program", "module"}
    /\ s.length \in Nat
    /\ s.tokens \subseteq STRING
    /\ s.newlines \subseteq BOOLEAN /\ s.newlines # {}

VARIABLES
  source,  \* the entry point called, and what it is called on
  left,    \* how many more tokens the source may have
  la,      \* Lexer::lookahead
  open,    \* history: the closing brackets that the tokens consumed call for
  todo,    \* the pending calls
  context, \* Parser::context
  scopes,  \* history: the scopes that the pending calls will leave
  jump,    \* the jump statement checked last, and whether it was accepted
  value,   \* the expression parsed last
  result   \* "parsing", "ok" or the error returned

vars == <<source, left, la, open, todo, context, scopes, jump, value, result>>

-----------------------------------------------------------------------------
(***************************************************************************)
(* Tokens.                                                                 *)
(***************************************************************************)
\* The names are those of Label; let, of, get, set and target are names too.
Reserved ==
  {"break", "case", "catch", "const", "continue", "debugger", "default", "do",
   "else", "export", "finally", "for", "function", "if", "import", "in", "new",
   "return", "switch", "this", "throw", "try", "typeof", "var", "while", "with"}

Literals == {"number", "string", "regexp"}
Punctuation ==
  {"(", ")", "[", "]", "{", "}", ";", ":", ",", ".", "...", "=", "+=", "+", "*",
   "/", "!", "?", "++"}

\* A name is neither a reserved word nor any other token (TokenData).
ASSUME LabelAssumption ==
  /\ Label \subseteq STRING
  /\ Label \cap (Reserved \cup Literals \cup Punctuation \cup {"EOF"}) = {}

Tok == la[1]
Is(v) == Tok.value = v
IsOneOf(S) == Tok.value \in S
IsIdentifier == Tok.value \in Label

\* First::first_binding
FirstBinding == IsIdentifier \/ IsOneOf({"{", "["})

\* Follows::follow_statement_list
FollowStatementList == IsOneOf({"case", "default", "EOF", "}"})

\* Follows::expression_continuation
ExpressionContinuation ==
  CASE Is("in") -> TRUE
    [] Is("++") -> ~Tok.newline
    [] OTHER ->
         ~(IsIdentifier \/ IsOneOf(Reserved \cup Literals \cup
             {";", "}", "EOF", "{", "]", ")", "!", ":"}))

\* State::has_arg_same_line
HasArgSameLine == ~Tok.newline /\ ~IsOneOf({";", "}"})

-----------------------------------------------------------------------------
(***************************************************************************)
(* Calls.                                                                  *)
(***************************************************************************)
Call(f) == [fn |-> f]

Expect(v) == [fn |-> "expect", value |-> v]
Build(v) == [fn |-> "build", value |-> v]
MoreComma(f) == [fn |-> "more_comma", item |-> f]
CommaSeparated(f) == <<Call(f), MoreComma(f)>>
AutoSemi(newline) == [fn |-> "end_with_auto_semi", newline |-> newline]
WithAllowIn(v, calls) == [fn |-> "allow_in", value |-> v, calls |-> calls]
LeaveScope(s) == [fn |-> "leave", scope |-> s]

\* Mutant of OperatorGoal: more_suffixes peeks instead of peeking at an operator.
OperatorGoalNoSuffix ==
  {"more_new_expression", "new_arguments", "postfix", "more_infix_expressions",
   "more_conditional", "more_assignment", "identifier_statement", "more_labels"}

\* The calls that ask for a token under the operator goal, by read_op, peek_op
\* or matches_op: where an operand or an identifier has just been read.
OperatorGoal ==
  {"more_suffixes", "more_new_expression", "new_arguments", "postfix",
   "more_infix_expressions", "more_conditional", "more_assignment",
   "identifier_statement", "more_labels"}

\* The calls that start by asking for no token.
Tokenless == {"leave", "allow_in", "build", "iteration_body", "function_body",
              "switch_body", "prefix_update", "return_check"}

-----------------------------------------------------------------------------
(***************************************************************************)
(* Steps.                                                                  *)
(***************************************************************************)
Running == result = "parsing"

\* The next call is one of function f, and the token it asks for is there.
At(f) ==
  /\ Running /\ todo # <<>> /\ Head(todo).fn = f
  /\ f \in Tokenless \/ la # <<>>

This == Head(todo)

NoJump == [stmt |-> "none", label |-> None, accepted |-> TRUE]

Closer(v) == CASE v = "(" -> ")" [] v = "[" -> "]" [] v = "{" -> "}"

\* The brackets open after token v.
OpenAfter(v) ==
  CASE v \in {"(", "[", "{"} -> Append(open, Closer(v))
    [] v \in {")", "]", "}"} ->
         IF open # <<>> /\ Last(open) = v THEN Front(open)
         ELSE Append(open, "unmatched")
    [] OTHER -> open

\* Lexer::read_token and reread_token with a token in the buffer.
Read == la' = Tail(la) /\ open' = OpenAfter(Tok.value)
\* Lexer::unread_token, of a token that opens and closes no bracket.
Unread(t) == la' = <<t>> \o la /\ UNCHANGED open
\* Lexer::peek_token with a token in the buffer.
Peek == UNCHANGED <<la, open>>

\* The call returns after making the given calls.
Go(calls) ==
  /\ todo' = calls \o Tail(todo)
  /\ UNCHANGED <<source, left, context, scopes, jump, result>>

\* It returns an error.
Fail(e) ==
  /\ result' = e
  /\ UNCHANGED <<source, left, la, open, todo, context, scopes, jump, value>>

Unexpected == Fail("UnexpectedToken")

\* It opens scope s around the given calls.
GoInside(s, calls) ==
  /\ context' = Entered(context, s)
  /\ scopes' = Append(scopes, s)
  /\ todo' = calls \o <<LeaveScope(s)>> \o Tail(todo)
  /\ jump' = NoJump
  /\ UNCHANGED <<source, left, result>>

\* It checks a jump statement; one without a target is an error.
GoJump(stmt, label, accepted, error, calls) ==
  /\ jump' = [stmt |-> stmt, label |-> label, accepted |-> accepted]
  /\ IF accepted
     THEN todo' = calls \o Tail(todo) /\ UNCHANGED result
     ELSE result' = error /\ UNCHANGED todo
  /\ UNCHANGED <<source, left, context, scopes>>

-----------------------------------------------------------------------------
(***************************************************************************)
(* Actions.                                                                *)
(***************************************************************************)
AsksForToken ==
  /\ Running /\ todo # <<>> /\ la = <<>>
  /\ Head(todo).fn \notin Tokenless

\* The tokens that read_next_token may find for the call at hand: a slash is an
\* operator under the operator goal, and starts a regular expression otherwise.
MayFind ==
  {"EOF"} \cup
  (IF left = 0 THEN {}
   ELSE source.tokens \ (IF Head(todo).fn \in OperatorGoal THEN {"regexp"} ELSE {"/"}))

\* The token found; by is history: the call for which a slash was lexed.
Found(v, newline) ==
  [value |-> v, newline |-> newline,
   by |-> IF v \in {"/", "regexp"} THEN Head(todo).fn ELSE "any"]

\* Mutant of Lex: the buffer is topped up when it holds one token.
LexAhead ==
  /\ Running /\ todo # <<>> /\ Len(la) < 2
  /\ Head(todo).fn \notin Tokenless
  /\ \E v \in MayFind :
       /\ la' = Append(la, Found(v, FALSE))
       /\ left' = IF v = "EOF" THEN 0 ELSE left - 1
  /\ UNCHANGED <<source, open, todo, context, scopes, jump, value, result>>

\* Mutant of Lex: the end of the source counts as a token of it.
LexPastEnd ==
  /\ AsksForToken
  /\ \E v \in MayFind : la' = <<Found(v, FALSE)>>
  /\ left' = left - 1
  /\ UNCHANGED <<source, open, todo, context, scopes, jump, value, result>>

\* Lexer::read_next_token: any token that the goal allows, and nothing but EOF
\* after the last one.
Lex ==
  /\ AsksForToken
  /\ \E v \in MayFind, n \in source.newlines :
       /\ la' = <<Found(v, n)>>
       /\ left' = IF v = "EOF" THEN 0 ELSE left - 1
  /\ UNCHANGED <<source, open, todo, context, scopes, jump, value, result>>

LexError ==
  /\ AsksForToken
  /\ left > 0
  /\ Fail("LexError")

\* State::expect
ExpectToken ==
  /\ At("expect")
  /\ IF Is(This.value)
     THEN Read /\ Go(<<>>) /\ UNCHANGED value
     ELSE Unexpected

\* Parser::more_comma
MoreCommaItems ==
  /\ At("more_comma")
  /\ IF Is(",")
     THEN Read /\ Go(CommaSeparated(This.item))
     ELSE Peek /\ Go(<<>>)
  /\ UNCHANGED value

\* SpanTracker::end_with_auto_semi
EndWithAutoSemi ==
  /\ At("end_with_auto_semi")
  /\ \/ Is(";") /\ Read /\ Go(<<>>) /\ UNCHANGED value
     \/ /\ IsOneOf({"}", "EOF"})
        /\ Peek /\ Go(<<>>) /\ UNCHANGED value
     \/ /\ ~IsOneOf({";", "}", "EOF"})
        /\ IF This.newline = "Required" /\ ~Tok.newline
           THEN Fail("FailedASI")
           ELSE Peek /\ Go(<<>>) /\ UNCHANGED value

\* WithContext::allow_in
EnterAllowIn ==
  /\ At("allow_in")
  /\ GoInside(AllowIn(context, This.value), This.calls)
  /\ UNCHANGED <<la, open, value>>

\* The end of allow_in, with_labels, iteration_body, switch_statement and
\* function_body: the context is put back.
Leave ==
  /\ At("leave")
  /\ context' = Left(context, This.scope)
  /\ scopes' = Front(scopes)
  /\ todo' = Tail(todo)
  /\ jump' = NoJump
  /\ UNCHANGED <<source, left, la, open, value, result>>

\* A node is built of the expressions parsed.
BuildNode ==
  /\ At("build")
  /\ value' = This.value
  /\ Peek /\ Go(<<>>)

ParsingStep ==
  \/ Lex \/ LexError
  \/ ExpectToken \/ MoreCommaItems \/ EndWithAutoSemi
  \/ EnterAllowIn \/ Leave \/ BuildNode
=============================================================================
