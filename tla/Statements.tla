----------------------------- MODULE Statements -----------------------------
(***************************************************************************)
(* The statement grammar of src/src/parser.rs and its three entry points.  *)
(***************************************************************************)
EXTENDS Expressions

Statement == [fn |-> "stmt_list_item", allow_decl |-> FALSE]
Declaration == [fn |-> "stmt_list_item", allow_decl |-> TRUE]
Paren == Call("paren_expression")
InExpression == WithAllowIn(TRUE, <<Expression>>)
Block == <<Expect("{"), Call("statement_list"), Expect("}")>>

-----------------------------------------------------------------------------
\* Parser::program_items and module_items; import and export are not
\* implemented.
ProgramItems ==
  /\ At("program_items")
  /\ \/ Is("EOF") /\ Peek /\ Go(<<>>) /\ UNCHANGED value
     \/ IsOneOf({"import", "export"}) /\ Fail("unimplemented")
     \/ /\ ~IsOneOf({"EOF", "import", "export"})
        /\ Peek /\ Go(<<Declaration, This>>) /\ UNCHANGED value

\* Parser::statement_list
StatementList ==
  /\ At("statement_list")
  /\ Peek
  /\ Go(IF FollowStatementList THEN <<>> ELSE <<Declaration, This>>)
  /\ UNCHANGED value

\* The calls that parse the rest of the statement after its first token.
AfterKeyword(v) ==
  CASE v = "{"        -> <<Call("statement_list"), Expect("}")>>
    [] v = "var"      -> CommaSeparated("declarator") \o <<AutoSemi("Required")>>
    [] v = "const"    -> CommaSeparated("const_declarator") \o <<AutoSemi("Required")>>
    [] v = ";"        -> <<>>
    [] v = "if"       -> <<Paren, Statement, Call("else_opt")>>
    [] v = "continue" -> <<Call("continue_argument")>>
    [] v = "break"    -> <<Call("break_argument")>>
    [] v = "return"   -> <<Call("return_argument")>>
    [] v = "with"     -> <<Paren, Statement>>
    [] v = "switch"   -> <<Paren, Call("switch_body")>>
    [] v = "throw"    -> <<Call("throw_argument")>>
    [] v = "try"      -> Block \o <<Call("handlers"), Call("catch_opt"), Call("finally_opt")>>
    [] v = "while"    -> <<Paren, Call("iteration_body")>>
    [] v = "do"       -> <<Call("iteration_body"), Expect("while"), Paren,
                           AutoSemi("Optional")>>
    [] v = "for"      -> <<Expect("("), Call("for_head")>>
    [] v = "debugger" -> <<AutoSemi("Required")>>
    [] v = "function" -> Function("id")

DeclarationKeyword == {"function", "const"}
StatementKeyword ==
  {"{", "var", ";", "if", "continue", "break", "return", "with", "switch",
   "throw", "try", "while", "do", "for", "debugger"}

\* Parser::expression_statement
ExpressionStatement == <<InExpression, AutoSemi("Required")>>

\* Parser::stmt_list_item
StmtListItem ==
  /\ At("stmt_list_item")
  /\ \/ /\ IsOneOf(StatementKeyword)
           \/ (IsOneOf(DeclarationKeyword) /\ This.allow_decl)
        /\ Read /\ Go(AfterKeyword(Tok.value)) /\ UNCHANGED value
     \/ IsOneOf(DeclarationKeyword) /\ ~This.allow_decl /\ Unexpected
     \/ /\ IsIdentifier
        /\ Read
        /\ Go(<<[fn |-> "identifier_statement", token |-> Tok,
                 allow_decl |-> This.allow_decl]>>)
        /\ UNCHANGED value
     \/ /\ ~IsIdentifier /\ ~IsOneOf(StatementKeyword \cup DeclarationKeyword)
        /\ Peek /\ Go(ExpressionStatement) /\ UNCHANGED value

\* A statement that starts with an identifier: labelled, a let declaration,
\* or an expression.
IdentifierStatement ==
  /\ At("identifier_statement")
  /\ \/ /\ Is(":")
        /\ Read /\ Go(<<[fn |-> "labels", labels |-> {This.token.value}]>>)
        /\ UNCHANGED value
     \/ /\ FirstBinding /\ This.token.value = "let"
        /\ IF This.allow_decl
           THEN /\ Peek
                /\ Go(CommaSeparated("declarator") \o <<AutoSemi("Required")>>)
                /\ UNCHANGED value
           ELSE Unexpected
     \/ /\ ~Is(":") /\ ~(FirstBinding /\ This.token.value = "let")
        /\ Unread(This.token) /\ Go(ExpressionStatement) /\ UNCHANGED value

\* Parser::labelled_statement: the consecutive labels of one statement.
Labelled ==
  /\ At("labels")
  /\ IsIdentifier
  /\ Read
  /\ Go(<<[fn |-> "more_labels", labels |-> This.labels, token |-> Tok]>>)
  /\ UNCHANGED value

MoreLabels ==
  /\ At("more_labels")
  /\ IF Is(":")
     THEN /\ Read
          /\ Go(<<[fn |-> "labels", labels |-> This.labels \cup {This.token.value}]>>)
     ELSE /\ Unread(This.token)
          /\ Go(<<[fn |-> "labelled_body", labels |-> This.labels]>>)
  /\ UNCHANGED value

\* HasLabelType::label_type
TypeOfLabel == IF IsOneOf({"do", "while", "for"}) THEN "Iteration" ELSE "Statement"

\* The statement labelled, in WithContext::with_labels.
LabelledBody ==
  /\ \/ At("labelled_body")
     \/ At("labels") /\ ~IsIdentifier
  /\ GoInside(WithLabels(This.labels, TypeOfLabel), <<Statement>>)
  /\ Peek
  /\ UNCHANGED value

-----------------------------------------------------------------------------
ElseOpt ==
  /\ At("else_opt")
  /\ IF Is("else") THEN Read /\ Go(<<Statement>>) ELSE Peek /\ Go(<<>>)
  /\ UNCHANGED value

\* Parser::iteration_body
IterationBodyCall ==
  /\ At("iteration_body")
  /\ GoInside(IterationBody(context), <<Statement>>)
  /\ Peek
  /\ UNCHANGED value

\* Parser::switch_statement, after the discriminant.
SwitchBody ==
  /\ At("switch_body")
  /\ GoInside(SwitchStatement(context),
              <<Expect("{"), [fn |-> "switch_cases", found_default |-> FALSE]>>)
  /\ Peek
  /\ UNCHANGED value

\* Parser::switch_cases, case and default
SwitchCases ==
  /\ At("switch_cases")
  /\ \/ /\ Is("case")
        /\ Read
        /\ Go(<<InExpression, Expect(":"), Call("statement_list"), This>>)
        /\ UNCHANGED value
     \/ /\ Is("default") /\ ~This.found_default
        /\ Read
        /\ Go(<<Expect(":"), Call("statement_list"),
                [This EXCEPT !.found_default = TRUE]>>)
        /\ UNCHANGED value
     \/ Is("default") /\ This.found_default /\ Fail("DuplicateDefault")
     \/ /\ ~IsOneOf({"case", "default"})
        /\ Peek /\ Go(<<Expect("}")>>) /\ UNCHANGED value

-----------------------------------------------------------------------------
\* Parser::break_statement
BreakArgument ==
  /\ At("break_argument")
  /\ \/ /\ ~HasArgSameLine
        /\ Peek
        /\ GoJump("break", None, MayBreak(context), "IllegalBreak",
                  <<AutoSemi("Required")>>)
        /\ UNCHANGED value
     \/ /\ HasArgSameLine /\ IsIdentifier
        /\ Read
        /\ GoJump("break", Tok.value, MayBreakTo(context, Tok.value),
                  "InvalidLabel", <<AutoSemi("Required")>>)
        /\ UNCHANGED value
     \/ HasArgSameLine /\ ~IsIdentifier /\ Unexpected

\* Parser::continue_statement
ContinueArgument ==
  /\ At("continue_argument")
  /\ \/ /\ ~HasArgSameLine
        /\ Peek
        /\ GoJump("continue", None, MayContinue(context), "IllegalContinue",
                  <<AutoSemi("Required")>>)
        /\ UNCHANGED value
     \/ /\ HasArgSameLine /\ IsIdentifier
        /\ Read
        /\ GoJump("continue", Tok.value, MayContinueTo(context, Tok.value),
                  "InvalidLabel", <<AutoSemi("Required")>>)
        /\ UNCHANGED value
     \/ HasArgSameLine /\ ~IsIdentifier /\ Unexpected

\* Parser::return_statement, which is checked once it is parsed.
ReturnArgument ==
  /\ At("return_argument")
  /\ Peek
  /\ Go((IF HasArgSameLine THEN <<InExpression>> ELSE <<>>)
        \o <<AutoSemi("Required"), Call("return_check")>>)
  /\ UNCHANGED value

\* Mutant of ReturnCheck: a return at the top level is let through.
ReturnUnchecked ==
  /\ At("return_check")
  /\ Peek
  /\ GoJump("return", None, TRUE, "TopLevelReturn", <<>>)
  /\ UNCHANGED value

ReturnCheck ==
  /\ At("return_check")
  /\ Peek
  /\ GoJump("return", None, MayReturn(context), "TopLevelReturn", <<>>)
  /\ UNCHANGED value

\* Parser::throw_statement
ThrowArgument ==
  /\ At("throw_argument")
  /\ IF HasArgSameLine THEN Peek /\ Go(ExpressionStatement) /\ UNCHANGED value
     ELSE Fail("ThrowArgument")

\* Parser::try_statement, after its block.
Handlers ==
  /\ At("handlers")
  /\ IF IsOneOf({"catch", "finally"}) THEN Peek /\ Go(<<>>) /\ UNCHANGED value
     ELSE Fail("OrphanTry")

\* Parser::catch_opt
CatchOpt ==
  /\ At("catch_opt")
  /\ IF Is("catch")
     THEN Read /\ Go(<<Expect("("), Call("pattern"), Expect(")")>> \o Block)
     ELSE Peek /\ Go(<<>>)
  /\ UNCHANGED value

\* Parser::finally_opt
FinallyOpt ==
  /\ At("finally_opt")
  /\ IF Is("finally") THEN Read /\ Go(Block) ELSE Peek /\ Go(<<>>)
  /\ UNCHANGED value

-----------------------------------------------------------------------------
(***************************************************************************)
(* The head of a for statement.                                            *)
(***************************************************************************)
NoIn(calls) == WithAllowIn(FALSE, calls)

MoreForHead ==
  <<NoIn(<<MoreComma("declarator")>>), Expect(";"), Call("more_for")>>
ForEach ==
  <<WithAllowIn(TRUE, <<AssignmentExpression>>), Expect(")"), Call("iteration_body")>>
ForExpr == <<NoIn(<<Expression>>), Call("for_expr")>>

\* Parser::for_statement
ForHead ==
  /\ At("for_head")
  /\ \/ Is("var") /\ Read /\ Go(<<Call("pattern"), Call("for_var")>>)
     \/ IsOneOf({"let", "const"}) /\ Read /\ Go(<<[fn |-> "for_lexical", token |-> Tok]>>)
     \/ Is(";") /\ Read /\ Go(<<Call("more_for")>>)
     \/ ~IsOneOf({"var", "let", "const", ";"}) /\ Peek /\ Go(ForExpr)
  /\ UNCHANGED value

\* Parser::for_let and for_const: `let` may be an identifier after all.
ForLexical ==
  /\ At("for_lexical")
  /\ IF FirstBinding
     THEN /\ Peek
          /\ Go(<<Call("pattern"),
                  Call(IF This.token.value = "let" THEN "for_let" ELSE "for_const")>>)
     ELSE Unread(This.token) /\ Go(ForExpr)
  /\ UNCHANGED value

\* Parser::for_var, for_let and for_const, after the pattern.
ForBinding ==
  /\ At("for_var") \/ At("for_let") \/ At("for_const")
  /\ \/ /\ Is("=")
        /\ Read
        /\ Go(CASE At("for_var") -> <<NoIn(<<AssignmentExpression>>), Call("for_var_init")>>
                [] At("for_let") -> <<NoIn(<<AssignmentExpression>>)>> \o MoreForHead
                [] At("for_const") ->
                     <<NoIn(<<AssignmentExpression, MoreComma("const_declarator")>>),
                       Expect(";"), Call("more_for")>>)
        /\ UNCHANGED value
     \/ /\ IsOneOf({",", ";"}) /\ ~At("for_const")
        /\ Peek /\ Go(MoreForHead) /\ UNCHANGED value
     \/ IsOneOf({"in", "of"}) /\ Read /\ Go(ForEach) /\ UNCHANGED value
     \/ /\ ~IsOneOf({"=", "in", "of"}) /\ (At("for_const") \/ ~IsOneOf({",", ";"}))
        /\ Unexpected

\* After `for (var id = expr`: `in` is the legacy enumeration.
ForVarInit ==
  /\ At("for_var_init")
  /\ \/ IsOneOf({",", ";"}) /\ Peek /\ Go(MoreForHead) /\ UNCHANGED value
     \/ Is("in") /\ Read /\ Go(ForEach) /\ UNCHANGED value
     \/ ~IsOneOf({",", ";", "in"}) /\ Unexpected

\* Parser::for_expr, after the expression.
ForExprRest ==
  /\ At("for_expr")
  /\ \/ Is(";") /\ Read /\ Go(<<Call("more_for")>>) /\ UNCHANGED value
     \/ /\ IsOneOf({"in", "of"})
        /\ IF value # "value" THEN Read /\ Go(ForEach) /\ UNCHANGED value
           ELSE Fail("InvalidLHS")
     \/ ~IsOneOf({";", "in", "of"}) /\ Unexpected

\* Parser::more_for and expression_opt_semi
MoreFor ==
  /\ At("more_for")
  /\ IF Is(";") THEN Read /\ Go(<<Call("for_update")>>)
     ELSE Peek /\ Go(<<InExpression, Expect(";"), Call("for_update")>>)
  /\ UNCHANGED value

ForUpdate ==
  /\ At("for_update")
  /\ IF Is(")") THEN Read /\ Go(<<Call("iteration_body")>>)
     ELSE Peek /\ Go(<<InExpression, Expect(")"), Call("iteration_body")>>)
  /\ UNCHANGED value

-----------------------------------------------------------------------------
(***************************************************************************)
(* The entry points: script, program and module.                           *)
(***************************************************************************)
\* Mutant of Items: a program ends where a statement list ends.
StatementItems(e) == Call("statement_list")

Items(e) == Call(IF e = "script" THEN "statement_list" ELSE "program_items")

Init ==
  /\ source \in Sources
  /\ left = source.length
  /\ la = <<>>
  /\ open = <<>>
  /\ todo = <<Call("body_directives"), Items(source.entry)>>
  /\ context = NewContext
  /\ scopes = <<>>
  /\ jump = NoJump
  /\ value = "value"
  /\ result = "parsing"

Return ==
  /\ Running
  /\ todo = <<>>
  /\ result' = "ok"
  /\ UNCHANGED <<source, left, la, open, todo, context, scopes, jump, value>>

StatementStep ==
  \/ ProgramItems \/ StatementList
  \/ StmtListItem \/ IdentifierStatement
  \/ Labelled \/ MoreLabels \/ LabelledBody
  \/ ElseOpt \/ IterationBodyCall \/ SwitchBody \/ SwitchCases
  \/ BreakArgument \/ ContinueArgument \/ ReturnArgument \/ ReturnCheck
  \/ ThrowArgument \/ Handlers \/ CatchOpt \/ FinallyOpt
  \/ ForHead \/ ForLexical \/ ForBinding \/ ForVarInit \/ ForExprRest
  \/ MoreFor \/ ForUpdate

\* The entry point has returned, and the parser is dropped.
Finished == ~Running /\ UNCHANGED vars

Next ==
  \/ ParsingStep \/ BindingStep \/ ExpressionStep \/ StatementStep
  \/ Return \/ Finished

Spec == Init /\ [][Next]_vars /\ WF_vars(Next)

-----------------------------------------------------------------------------
(***************************************************************************)
(* The functions that may be pending: those for expressions, bindings and  *)
(* functions, those among them and the helpers that take an argument,      *)
(* those for the head of a for statement after its parenthesis, those for  *)
(* statements, and those that hold a token which they may give back.       *)
(***************************************************************************)
ExprFns ==
  {"pattern", "declarator", "declarator_init", "const_declarator", "parameter",
   "more_parameters", "generator", "id", "id_opt", "function_body", "expression",
   "more_expressions", "assignment_expression", "more_infix_expressions",
   "more_conditional", "more_assignment", "unary_expression", "prefix_update",
   "postfix", "lhs_expression", "id_name", "more_suffixes", "arguments",
   "argument_list", "expr_list_item", "primary_expression", "paren_expression",
   "object_property"}
ArgumentFns ==
  {"expect", "build", "more_comma", "end_with_auto_semi", "allow_in", "news",
   "more_new_expression", "new_arguments", "array_elements", "properties",
   "more_elements", "more_properties", "accessor", "property_key", "more_prop_init"}
ForFns ==
  {"for_head", "for_var", "for_let", "for_const", "for_var_init", "for_expr",
   "more_for", "for_update"}
StmtFns ==
  {"program_items", "statement_list", "else_opt", "switch_body", "break_argument",
   "continue_argument", "return_argument", "return_check", "throw_argument",
   "handlers", "catch_opt", "finally_opt", "body_directives"}
Holders ==
  {"reserved_key", "for_lexical", "identifier_statement", "more_labels",
   "directive_rest"}

FunctionNames ==
  ExprFns \cup ArgumentFns \cup ForFns \cup StmtFns \cup Holders \cup
  {"iteration_body", "stmt_list_item", "labels", "labelled_body", "switch_cases",
   "leave"}

Errors ==
  {"UnexpectedToken", "UnsupportedFeature", "LexError", "FailedASI", "InvalidLHS",
   "unimplemented", "DuplicateDefault", "IllegalBreak", "IllegalContinue",
   "InvalidLabel", "TopLevelReturn", "ThrowArgument", "OrphanTry"}

\* A token of the source.
Token ==
  [value : source.tokens \cup {"EOF"}, newline : BOOLEAN,
   by : FunctionNames \cup {"any"}]

TypeOK ==
  /\ source \in Sources
  /\ left \in 0 .. source.length
  /\ la \in Seq(Token)
  /\ open \in Seq({")", "]", "}", "unmatched"})
  /\ \A i \in DOMAIN todo : todo[i].fn \in FunctionNames
  /\ context \in ContextRecord
  /\ jump.stmt \in {"none", "break", "continue", "return"}
  /\ value \in {"target", "pattern", "value"}
  /\ result \in {"parsing", "ok"} \cup Errors

(***************************************************************************)
(* The parser never looks more than two tokens ahead, the capacity that    *)
(* Lexer::new reserves and Lexer::unread_token asserts: a token is read    *)
(* and given back in many functions, some after looking at the next one.   *)
(***************************************************************************)
LookaheadFits == Len(la) <= 2

(***************************************************************************)
(* Every statement starts with `in` allowed as an operator: the            *)
(* initialisers of var, let and const do not ask for it, and rely on the   *)
(* function bodies inside a for head to reset what the head forbids.       *)
(***************************************************************************)
StatementsAllowIn == At("stmt_list_item") => context.allow_in

(***************************************************************************)
(* A parse that succeeds has unwound all its scopes.                       *)
(***************************************************************************)
ContextRestored == result = "ok" => context = NewContext

(***************************************************************************)
(* A parse that succeeds has consumed balanced brackets: every function    *)
(* that reads an opening bracket reads its closing one.                    *)
(***************************************************************************)
BracketsBalanced == result = "ok" => open = <<>>

(***************************************************************************)
(* An entry point succeeds only at the end of the source.                  *)
(***************************************************************************)
WholeSource == result = "ok" => la # <<>> /\ Is("EOF")

(***************************************************************************)
(* What grammar.md ("Avoiding Extra Lookahead") says: a second token is    *)
(* looked at only when the first one is an identifier.                     *)
(***************************************************************************)
OnlyIdentifiersTwoAhead == Len(la) = 2 => IsIdentifier

(***************************************************************************)
(* A slash lexed under one goal is not used under the other, although each *)
(* function asks with a goal of its own, peeks leave tokens to others and  *)
(* tokens are given back: where an operand has been read there is no       *)
(* regular expression, and where one is to be read there is no slash.  The *)
(* exception is the token after `for (let`, which for_let asks for where   *)
(* `let` may turn out to be an operand.                                    *)
(***************************************************************************)
GoalsAgree ==
  /\ \A f \in OperatorGoal : At(f) /\ Is("regexp") => Tok.by = "for_lexical"
  /\ At("primary_expression") => ~Is("/")

(***************************************************************************)
(* What tokens.rs says of the token after a string at the head of a body   *)
(* ("All others are continuations"), of a slash: it continues the          *)
(* expression, and does not start another.                                 *)
(***************************************************************************)
SlashContinues == At("directive_rest") => ~Is("regexp")

(***************************************************************************)
(* The grammar's functions use the context as ParserScopes requires, so    *)
(* what is proved there holds of every parse: the context agrees with the  *)
(* nesting, and a jump is accepted only inside its target.                 *)
(***************************************************************************)
Scopes == INSTANCE ParserScopes
  WITH Depths <- Nat, NestedDuplicates <- TRUE

ImplementsScopes == Scopes!Spec

(***************************************************************************)
(* A continue statement with a label is inside the body of a loop that the *)
(* label is on: label_type, which looks at one token, and iteration_body   *)
(* agree.                                                                  *)
(***************************************************************************)
ContinueTargetsLoop ==
  jump.stmt = "continue" /\ jump.label # None /\ jump.accepted =>
    \E i \in 1 .. Len(scopes) - 1 :
      /\ scopes[i].fn = "with_labels" /\ jump.label \in scopes[i].labels
      /\ scopes[i + 1].fn = "iteration_body"

(***************************************************************************)
(* Every parse ends: no loop of the parser runs without consuming a token. *)
(***************************************************************************)
Termination == <>(result # "parsing")
=============================================================================
