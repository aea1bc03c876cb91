----------------------------- MODULE Expressions -----------------------------
(***************************************************************************)
(* The expression grammar of src/src/parser.rs, with the cover grammar of  *)
(* src/crates/easter/src/cover.rs.  An expression is abstracted to what    *)
(* can be assigned to it:                                                  *)
(*                                                                         *)
(*   "target"   an identifier or a member: into_assign_target succeeds     *)
(*   "pattern"  a literal that only into_assign_patt accepts               *)
(*   "value"    neither accepts it                                         *)
(*                                                                         *)
(* The tree that infix operators build is the module OperatorStack.        *)
(***************************************************************************)
EXTENDS Bindings

AssignmentExpression == Call("assignment_expression")
Expression == Call("expression")

Unops == {"typeof", "+", "!"}

\* Token::to_binop(allow_in) and to_logop, one token for each group that the
\* grammar tells apart.
IsInfix == IsOneOf({"+", "*", "/"}) \/ (Is("in") /\ context.allow_in)

\* Parser::expression
ExpressionCall ==
  /\ At("expression")
  /\ Peek
  /\ Go(<<AssignmentExpression, Call("more_expressions")>>)
  /\ UNCHANGED value

MoreExpressions ==
  /\ At("more_expressions")
  /\ Peek
  /\ Go(IF Is(",") THEN <<MoreComma("assignment_expression"), Build("value")>>
        ELSE <<>>)
  /\ UNCHANGED value

\* Parser::assignment_expression and conditional_expression
AssignmentExpressionCall ==
  /\ At("assignment_expression")
  /\ Peek
  /\ Go(<<Call("unary_expression"), Call("more_infix_expressions"),
          Call("more_conditional"), Call("more_assignment")>>)
  /\ UNCHANGED value

\* Parser::more_infix_expressions
MoreInfixExpressions ==
  /\ At("more_infix_expressions")
  /\ IF IsInfix
     THEN /\ Read
          /\ Go(<<Call("unary_expression"), Build("value"),
                  Call("more_infix_expressions")>>)
     ELSE Peek /\ Go(<<>>)
  /\ UNCHANGED value

\* Parser::more_conditional
MoreConditional ==
  /\ At("more_conditional")
  /\ IF Is("?")
     THEN /\ Read
          /\ Go(<<WithAllowIn(TRUE, <<AssignmentExpression>>), Expect(":"),
                  AssignmentExpression, Build("value")>>)
     ELSE Peek /\ Go(<<>>)
  /\ UNCHANGED value

\* Parser::more_assignment
MoreAssignment ==
  /\ At("more_assignment")
  /\ \/ /\ ~IsOneOf({"=", "+="})
        /\ Peek /\ Go(<<>>) /\ UNCHANGED value
     \/ /\ IsOneOf({"=", "+="})
        /\ IF value = "target" \/ (Is("=") /\ value = "pattern")
           THEN /\ Read /\ Go(<<AssignmentExpression, Build("value")>>)
                /\ UNCHANGED value
           ELSE Fail("InvalidLHS")

-----------------------------------------------------------------------------
\* Parser::unary_expression; the prefixes read apply from the inside out.
UnaryExpression ==
  /\ At("unary_expression")
  /\ \/ Is("++") /\ Read /\ Go(<<Call("unary_expression"), Call("prefix_update")>>)
     \/ IsOneOf(Unops) /\ Read /\ Go(<<Call("unary_expression"), Build("value")>>)
     \/ /\ ~IsOneOf(Unops \cup {"++"})
        /\ Peek /\ Go(<<Call("lhs_expression"), Call("postfix")>>)
  /\ UNCHANGED value

\* Prefix::Inc and Dec, once their argument is parsed.
PrefixUpdate ==
  /\ At("prefix_update")
  /\ IF value = "target" THEN Peek /\ Go(<<>>) /\ value' = "value"
     ELSE Fail("InvalidLHS")

\* Parser::match_postfix_operator_opt
Postfix ==
  /\ At("postfix")
  /\ \/ /\ Is("++") /\ ~Tok.newline
        /\ IF value = "target" THEN Read /\ Go(<<>>) /\ value' = "value"
           ELSE Fail("InvalidLHS")
     \/ /\ ~Is("++") \/ Tok.newline
        /\ Peek /\ Go(<<>>) /\ UNCHANGED value

\* Parser::lhs_expression, with n times `new` read.
LhsExpression ==
  /\ At("lhs_expression")
  /\ Peek
  /\ Go(IF Is("new") THEN <<[fn |-> "news", n |-> 0]>>
        ELSE <<Call("primary_expression"), Call("more_suffixes")>>)
  /\ UNCHANGED value

News ==
  /\ At("news")
  /\ \/ Is("new") /\ Read /\ Go(<<[fn |-> "news", n |-> This.n + 1]>>)
     \/ /\ Is(".") \* new.target
        /\ Read
        /\ Go(<<Expect("target"), Build("value")>> \o
              IF This.n > 1 THEN <<[fn |-> "more_new_expression", n |-> This.n - 1]>>
              ELSE <<Call("more_suffixes")>>)
     \/ /\ ~IsOneOf({"new", "."})
        /\ Peek
        /\ Go(<<Call("primary_expression"),
                [fn |-> "more_new_expression", n |-> This.n]>>)
  /\ UNCHANGED value

\* "." IdentifierName or "[" Expression "]", and what follows.
Deref(rest) ==
  /\ Read
  /\ Go((IF Is(".") THEN <<Call("id_name")>>
         ELSE <<WithAllowIn(TRUE, <<Expression>>), Expect("]")>>)
        \o <<Build("target"), rest>>)

\* Parser::id_name
IdName ==
  /\ At("id_name")
  /\ IF IsIdentifier \/ IsOneOf(Reserved)
     THEN Read /\ Go(<<>>) /\ UNCHANGED value
     ELSE Unexpected

\* Parser::more_new_expression: the derefs, then the arguments of the `new`s.
MoreNewExpression ==
  /\ At("more_new_expression")
  /\ IF IsOneOf({".", "["}) THEN Deref(This)
     ELSE Peek /\ Go(<<[fn |-> "new_arguments", n |-> This.n]>>)
  /\ UNCHANGED value

NewArguments ==
  /\ At("new_arguments")
  /\ Peek
  /\ Go(IF This.n > 0 /\ Is("(")
        THEN <<Call("arguments"), Build("value"),
               [fn |-> "new_arguments", n |-> This.n - 1]>>
        ELSE IF This.n > 0 THEN <<Build("value"), Call("more_suffixes")>>
        ELSE <<Call("more_suffixes")>>)
  /\ UNCHANGED value

\* Parser::more_suffixes
MoreSuffixes ==
  /\ At("more_suffixes")
  /\ \/ IsOneOf({".", "["}) /\ Deref(This)
     \/ /\ Is("(")
        /\ Peek /\ Go(<<Call("arguments"), Build("value"), This>>)
     \/ /\ ~IsOneOf({".", "[", "("})
        /\ Peek /\ Go(<<>>)
  /\ UNCHANGED value

\* Parser::arguments
Arguments ==
  /\ At("arguments")
  /\ GoInside(AllowIn(context, TRUE),
              <<Expect("("), Call("argument_list"), Expect(")")>>)
  /\ Peek
  /\ UNCHANGED value

ArgumentList ==
  /\ At("argument_list")
  /\ Peek
  /\ Go(IF Is(")") THEN <<>> ELSE CommaSeparated("expr_list_item"))
  /\ UNCHANGED value

\* Parser::expr_list_item
ExprListItem ==
  /\ At("expr_list_item")
  /\ IF Is("...") THEN Read ELSE Peek
  /\ Go(<<AssignmentExpression>>)
  /\ UNCHANGED value

-----------------------------------------------------------------------------
\* Parser::primary_expression
PrimaryExpression ==
  /\ At("primary_expression")
  /\ \/ IsIdentifier /\ Read /\ Go(<<>>) /\ value' = "target"
     \/ IsOneOf(Literals \cup {"this"}) /\ Read /\ Go(<<>>) /\ value' = "value"
     \/ /\ Is("[")
        /\ Read
        /\ GoInside(AllowIn(context, TRUE),
                    <<[fn |-> "array_elements", patt |-> TRUE], Expect("]")>>)
        /\ UNCHANGED value
     \/ /\ Is("{")
        /\ Read /\ Go(<<[fn |-> "properties", patt |-> TRUE], Expect("}")>>)
        /\ UNCHANGED value
     \/ /\ Is("function")
        /\ Read /\ Go(Function("id_opt") \o <<Build("value")>>)
        /\ UNCHANGED value
     \/ Is("(") /\ Peek /\ Go(<<Call("paren_expression")>>) /\ UNCHANGED value
     \/ /\ ~IsIdentifier
        /\ ~IsOneOf(Literals \cup {"this", "[", "{", "function", "("})
        /\ Unexpected

\* Mutant of ParenExpression: nothing closes it.
ParenExpressionUnclosed ==
  /\ At("paren_expression")
  /\ IF Is("(")
     THEN Read /\ Go(<<WithAllowIn(TRUE, <<Expression>>)>>) /\ UNCHANGED value
     ELSE Unexpected

\* Parser::paren_expression
ParenExpression ==
  /\ At("paren_expression")
  /\ IF Is("(")
     THEN /\ Read /\ Go(<<WithAllowIn(TRUE, <<Expression>>), Expect(")")>>)
          /\ UNCHANGED value
     ELSE Unexpected

\* What a literal is when all its elements are patterns, or not.
Literal(patt) == IF patt THEN "pattern" ELSE "value"

\* Parser::array_literal; patt tells whether into_assign_patt accepts the
\* elements so far: it matches no Spread that the parser builds.
ArrayElements ==
  /\ At("array_elements")
  /\ \/ Is("]") /\ Peek /\ Go(<<>>) /\ value' = Literal(This.patt)
     \/ /\ Is(",")
        /\ Peek /\ Go(<<[fn |-> "more_elements", kind |-> "hole", patt |-> This.patt]>>)
        /\ UNCHANGED value
     \/ /\ Is("...")
        /\ Read
        /\ Go(<<AssignmentExpression,
                [fn |-> "more_elements", kind |-> "spread", patt |-> This.patt]>>)
        /\ UNCHANGED value
     \/ /\ ~IsOneOf({"]", ",", "..."})
        /\ Peek
        /\ Go(<<AssignmentExpression,
                [fn |-> "more_elements", kind |-> "expr", patt |-> This.patt]>>)
        /\ UNCHANGED value

\* Is the element just parsed, and all before it, a pattern?
StillPatt ==
  CASE This.kind = "hole" -> This.patt
    [] This.kind = "expr" -> This.patt /\ value # "value"
    [] This.kind = "spread" -> FALSE

\* Mutant of MoreElements: the comma is peeked at, not read.
MoreElementsPeeks ==
  /\ At("more_elements")
  /\ Peek
  /\ IF Is(",")
     THEN Go(<<[fn |-> "array_elements", patt |-> StillPatt]>>) /\ UNCHANGED value
     ELSE Go(<<>>) /\ value' = Literal(StillPatt)

MoreElements ==
  /\ At("more_elements")
  /\ IF Is(",")
     THEN /\ Read /\ Go(<<[fn |-> "array_elements", patt |-> StillPatt]>>)
          /\ UNCHANGED value
     ELSE Peek /\ Go(<<>>) /\ value' = Literal(StillPatt)

-----------------------------------------------------------------------------
\* Parser::object_literal; patt tells whether into_assign_prop accepts the
\* properties so far.
Properties ==
  /\ At("properties")
  /\ Peek
  /\ IF Is("}") THEN Go(<<>>) /\ value' = Literal(This.patt)
     ELSE /\ Go(<<Call("object_property"),
                  [fn |-> "more_properties", kind |-> "expr", patt |-> This.patt]>>)
          /\ UNCHANGED value

MoreProperties ==
  /\ At("more_properties")
  /\ IF Is(",")
     THEN /\ Read /\ Go(<<[fn |-> "properties", patt |-> StillPatt]>>)
          /\ UNCHANGED value
     ELSE Peek /\ Go(<<>>) /\ value' = Literal(StillPatt)

IsKey == IsIdentifier \/ IsOneOf(Reserved \cup {"string", "number"})

Method == FormalParameters \o <<Call("function_body"), Build("value")>>
MorePropInit(id) == [fn |-> "more_prop_init", id |-> id]
PropertyKey(method) == [fn |-> "property_key", method |-> method]

\* Parser::object_property
ObjectProperty ==
  /\ At("object_property")
  /\ \/ IsOneOf({"get", "set"}) /\ Read /\ Go(<<[fn |-> "accessor", kind |-> Tok.value]>>)
     \/ Is("*") /\ Read /\ Go(<<PropertyKey(TRUE)>>)
     \/ IsOneOf(Reserved) /\ Read /\ Go(<<[fn |-> "reserved_key", token |-> Tok]>>)
     \/ /\ ~IsOneOf({"get", "set", "*"} \cup Reserved)
        /\ Peek /\ Go(<<PropertyKey(FALSE)>>)
  /\ UNCHANGED value

\* After get or set: an accessor's key, or it is a key itself.
Accessor ==
  /\ At("accessor")
  /\ IF IsKey
     THEN /\ Read
          /\ Go(<<Expect("(")>> \o
                (IF This.kind = "set" THEN <<Call("pattern")>> ELSE <<>>)
                \o <<Expect(")"), Call("function_body"), Build("value")>>)
     ELSE Peek /\ Go(<<MorePropInit(TRUE)>>)
  /\ UNCHANGED value

\* A reserved word is a key, but no shorthand property.
ReservedKey ==
  /\ At("reserved_key")
  /\ IF IsOneOf({",", "}"}) THEN Unexpected
     ELSE Unread(This.token) /\ Go(<<PropertyKey(FALSE)>>) /\ UNCHANGED value

\* Parser::property_key and property_key_opt
PropertyKeyCall ==
  /\ At("property_key")
  /\ IF IsKey
     THEN /\ Read
          /\ Go(IF This.method THEN Method
                ELSE <<MorePropInit(~IsOneOf({"string", "number"}))>>)
          /\ UNCHANGED value
     ELSE Unexpected

\* Parser::more_prop_init
MorePropInitCall ==
  /\ At("more_prop_init")
  /\ \/ /\ Is(":")
        /\ Read /\ Go(<<WithAllowIn(TRUE, <<AssignmentExpression>>)>>)
        /\ UNCHANGED value
     \/ Is("(") /\ Peek /\ Go(Method) /\ UNCHANGED value
     \/ /\ IsOneOf({",", "}"}) /\ This.id
        /\ Peek /\ Go(<<>>) /\ value' = "target"
     \/ /\ ~IsOneOf({":", "("}) /\ ~(IsOneOf({",", "}"}) /\ This.id)
        /\ Unexpected

ExpressionStep ==
  \/ ExpressionCall \/ MoreExpressions
  \/ AssignmentExpressionCall \/ MoreInfixExpressions
  \/ MoreConditional \/ MoreAssignment
  \/ UnaryExpression \/ PrefixUpdate \/ Postfix
  \/ LhsExpression \/ News \/ IdName
  \/ MoreNewExpression \/ NewArguments \/ MoreSuffixes
  \/ Arguments \/ ArgumentList \/ ExprListItem
  \/ PrimaryExpression \/ ParenExpression
  \/ ArrayElements \/ MoreElements
  \/ Properties \/ MoreProperties
  \/ ObjectProperty \/ Accessor \/ ReservedKey
  \/ PropertyKeyCall \/ MorePropInitCall
=============================================================================
