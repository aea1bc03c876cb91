------------------------------ MODULE Bindings ------------------------------
(***************************************************************************)
(* The parser functions for binding identifiers, declarators, parameters   *)
(* and functions (src/src/parser.rs).  The strict-mode checks of the names *)
(* bound are the module StrictMode.                                        *)
(***************************************************************************)
EXTENDS Parsing

\* Parser::binding_pattern, which is not supported.
BindingPattern ==
  IF FirstBinding THEN Fail("UnsupportedFeature") ELSE Unexpected

\* Parser::pattern
Pattern ==
  /\ At("pattern")
  /\ IF IsIdentifier THEN Read /\ Go(<<>>) /\ UNCHANGED value
     ELSE BindingPattern

\* Parser::declarator
Declarator ==
  /\ At("declarator")
  /\ IF IsIdentifier
     THEN Read /\ Go(<<Call("declarator_init")>>) /\ UNCHANGED value
     ELSE BindingPattern

DeclaratorInit ==
  /\ At("declarator_init")
  /\ IF Is("=")
     THEN Read /\ Go(<<Call("assignment_expression")>>)
     ELSE Peek /\ Go(<<>>)
  /\ UNCHANGED value

\* Parser::const_declarator
ConstDeclarator ==
  /\ At("const_declarator")
  /\ Peek
  /\ Go(<<Call("pattern"), Expect("="), Call("assignment_expression")>>)
  /\ UNCHANGED value

-----------------------------------------------------------------------------
\* Mutant of FormalParameters: nothing closes the list.
FormalParametersUnclosed == <<Expect("("), Call("parameter")>>

\* Parser::formal_parameters
FormalParameters == <<Expect("("), Call("parameter"), Expect(")")>>

Parameter ==
  /\ At("parameter")
  /\ \/ Is(")") /\ Peek /\ Go(<<>>)
     \/ Is("...") /\ Read /\ Go(<<Call("pattern")>>)
     \/ /\ ~IsOneOf({")", "..."})
        /\ Peek /\ Go(<<Call("pattern"), Call("more_parameters")>>)
  /\ UNCHANGED value

MoreParameters ==
  /\ At("more_parameters")
  /\ IF Is(",") THEN Read /\ Go(<<Call("parameter")>>) ELSE Peek /\ Go(<<>>)
  /\ UNCHANGED value

\* Parser::function, after the keyword; the name is required in a declaration
\* and optional in an expression.
Function(name) ==
  <<Call("generator"), Call(name)>> \o FormalParameters
    \o <<Call("function_body")>>

Generator ==
  /\ At("generator")
  /\ IF Is("*") THEN Read ELSE Peek
  /\ Go(<<>>)
  /\ UNCHANGED value

\* Parser::id
Id ==
  /\ At("id")
  /\ IF IsIdentifier THEN Read /\ Go(<<>>) /\ UNCHANGED value ELSE Unexpected

\* Parser::id_opt
IdOpt ==
  /\ At("id_opt")
  /\ IF IsIdentifier THEN Read ELSE Peek
  /\ Go(<<>>)
  /\ UNCHANGED value

\* Parser::function_body
FunctionBodyCall ==
  /\ At("function_body")
  /\ GoInside(FunctionBody(context),
       <<Expect("{"), Call("body_directives"), Call("statement_list"),
         Expect("}")>>)
  /\ UNCHANGED <<la, open, value>>

-----------------------------------------------------------------------------
\* Parser::body_directives: a string that no token continues is a directive.
BodyDirectives ==
  /\ At("body_directives")
  /\ IF Is("string")
     THEN Read /\ Go(<<[fn |-> "directive_rest", token |-> Tok]>>)
     ELSE Peek /\ Go(<<>>)
  /\ UNCHANGED value

\* Parser::match_directive_opt, the token after the string.
DirectiveRest ==
  /\ At("directive_rest")
  /\ IF ExpressionContinuation
     THEN Unread(This.token) /\ Go(<<>>)
     ELSE Peek /\ Go(<<AutoSemi("Required"), Call("body_directives")>>)
  /\ UNCHANGED value

BindingStep ==
  \/ Pattern \/ Declarator \/ DeclaratorInit \/ ConstDeclarator
  \/ Parameter \/ MoreParameters \/ Generator \/ Id \/ IdOpt
  \/ FunctionBodyCall
  \/ BodyDirectives \/ DirectiveRest
=============================================================================
