-------------------------- MODULE StatementsProofs --------------------------
(***************************************************************************)
(* The steps of the parser, one lemma for each function of the grammar,    *)
(* keep the invariant of the module PendingCalls.  The theorems about the  *)
(* parser follow, and at the end, that it implements ParserScopes.         *)
(***************************************************************************)
EXTENDS PendingCalls

-----------------------------------------------------------------------------
(***************************************************************************)
(* What most steps are, whatever the grammar.                              *)
(***************************************************************************)
LEMMA AtCall ==
  ASSUME ParserInv, NEW f, At(f)
  PROVE  /\ Running /\ Alive /\ todo # <<>> /\ This.fn = f /\ This \in AnyCall
         /\ f \notin Tokenless => la # <<>> /\ Tok \in Token
         /\ value \in Values /\ context \in ContextRecord
<1>1. Running /\ Alive /\ todo # <<>> /\ This.fn = f /\ (f \notin Tokenless => la # <<>>)
  BY DEF At, This, Running, Alive
<1> QED BY <1>1, AtHand, TokenAtHand DEF ParserInv, Types, TypeOK, Values

LEMMA NeutralFn ==
  ASSUME NEW c, c.fn \notin ForFns \cup {"for_lexical", "switch_cases", "expect"}
  PROVE  Neutral(c)
BY DEF Neutral, ClosesParen, IsBracket

\* Most tokens open and close no bracket.
LEMMA PlainTokens ==
  /\ IsIdentifier => PlainToken
  /\ IsOneOf(Reserved) => PlainToken
  /\ IsOneOf(Literals \cup {"this"}) => PlainToken
  /\ \A S : S \cap (Openers \cup Closers) = {} /\ IsOneOf(S) => PlainToken
  /\ \A v : v \notin Openers \cup Closers /\ Is(v) => PlainToken
<1>1. IsIdentifier => PlainToken
  BY LabelAssumption DEF IsIdentifier, PlainToken, IsOneOf, Punctuation, Openers, Closers
<1>2. IsOneOf(Reserved) => PlainToken
  BY DEF PlainToken, IsOneOf, Openers, Closers, Reserved
<1>3. IsOneOf(Literals \cup {"this"}) => PlainToken
  BY DEF PlainToken, IsOneOf, Openers, Closers, Literals
<1>4. \A S : S \cap (Openers \cup Closers) = {} /\ IsOneOf(S) => PlainToken
  BY DEF PlainToken, IsOneOf
<1>5. \A v : v \notin Openers \cup Closers /\ Is(v) => PlainToken
  BY DEF PlainToken, IsOneOf, Is
<1> QED BY <1>1, <1>2, <1>3, <1>4, <1>5

LEMMA PlainIs ==
  /\ Is(",") => PlainToken
  /\ Is("=") => PlainToken
  /\ Is("*") => PlainToken
  /\ Is("...") => PlainToken
  /\ Is("string") => PlainToken
  /\ Is("?") => PlainToken
  /\ Is("++") => PlainToken
  /\ Is("new") => PlainToken
  /\ Is(".") => PlainToken
  /\ Is(":") => PlainToken
  /\ Is(";") => PlainToken
  /\ Is("case") => PlainToken
  /\ Is("default") => PlainToken
  /\ Is("else") => PlainToken
  /\ Is("catch") => PlainToken
  /\ Is("finally") => PlainToken
  /\ Is("function") => PlainToken
  /\ Is("var") => PlainToken
  /\ Is("in") => PlainToken
  /\ IsOneOf(Unops) => PlainToken
  /\ IsOneOf({"=", "+="}) => PlainToken
  /\ IsOneOf({"+", "*", "/"}) => PlainToken
  /\ IsOneOf({"get", "set"}) => PlainToken
  /\ IsOneOf({"let", "const"}) => PlainToken
  /\ IsOneOf({"in", "of"}) => PlainToken
BY DEF PlainToken, Is, IsOneOf, Openers, Closers, Unops

LEMMA ExprCalls ==
  /\ \A f \in ExprFns : Call(f) \in ExprCall
  /\ \A v \in {"while", ":", ";", "=", "target"} : Expect(v) \in ExprCall
  /\ \A v \in Values : Build(v) \in ExprCall
  /\ \A f \in ListItems : MoreComma(f) \in ExprCall
  /\ \A n \in {"Required", "Optional"} : AutoSemi(n) \in ExprCall
  /\ \A v \in BOOLEAN, cs \in Seq(InnerCall) : WithAllowIn(v, cs) \in ExprCall
  /\ \A n \in Nat :
       /\ [fn |-> "news", n |-> n] \in ExprCall
       /\ [fn |-> "more_new_expression", n |-> n] \in ExprCall
       /\ [fn |-> "new_arguments", n |-> n] \in ExprCall
  /\ \A p \in BOOLEAN :
       /\ [fn |-> "array_elements", patt |-> p] \in ExprCall
       /\ [fn |-> "properties", patt |-> p] \in ExprCall
       /\ [fn |-> "property_key", method |-> p] \in ExprCall
       /\ [fn |-> "more_prop_init", id |-> p] \in ExprCall
       /\ \A k \in {"hole", "expr", "spread"} :
            /\ [fn |-> "more_elements", kind |-> k, patt |-> p] \in ExprCall
            /\ [fn |-> "more_properties", kind |-> k, patt |-> p] \in ExprCall
  /\ \A k \in {"get", "set"} : [fn |-> "accessor", kind |-> k] \in ExprCall
<1>1. \A f \in ExprFns : Call(f) \in ExprCall
  BY DEF Call, ExprCall
<1>2. /\ \A v \in {"while", ":", ";", "=", "target"} : Expect(v) \in ExprCall
      /\ \A v \in Values : Build(v) \in ExprCall
      /\ \A f \in ListItems : MoreComma(f) \in ExprCall
      /\ \A n \in {"Required", "Optional"} : AutoSemi(n) \in ExprCall
  BY DEF Expect, Build, MoreComma, AutoSemi, ExprCall
<1>3. \A v \in BOOLEAN, cs \in Seq(InnerCall) : WithAllowIn(v, cs) \in ExprCall
  BY DEF WithAllowIn, ExprCall
<1>4. \A n \in Nat :
       /\ [fn |-> "news", n |-> n] \in ExprCall
       /\ [fn |-> "more_new_expression", n |-> n] \in ExprCall
       /\ [fn |-> "new_arguments", n |-> n] \in ExprCall
  BY DEF ExprCall
<1>5. \A p \in BOOLEAN :
       /\ [fn |-> "array_elements", patt |-> p] \in ExprCall
       /\ [fn |-> "properties", patt |-> p] \in ExprCall
       /\ [fn |-> "property_key", method |-> p] \in ExprCall
       /\ [fn |-> "more_prop_init", id |-> p] \in ExprCall
  BY DEF ExprCall
<1>6. \A p \in BOOLEAN, k \in {"hole", "expr", "spread"} :
            /\ [fn |-> "more_elements", kind |-> k, patt |-> p] \in ExprCall
            /\ [fn |-> "more_properties", kind |-> k, patt |-> p] \in ExprCall
  BY DEF ExprCall
<1>7. \A k \in {"get", "set"} : [fn |-> "accessor", kind |-> k] \in ExprCall
  BY DEF ExprCall
<1> QED BY <1>1, <1>2, <1>3, <1>4, <1>5, <1>6, <1>7

LEMMA CallsOfExpr ==
  /\ Call("pattern") \in ExprCall /\ Call("declarator") \in ExprCall
  /\ Call("declarator_init") \in ExprCall /\ Call("const_declarator") \in ExprCall
  /\ Call("parameter") \in ExprCall /\ Call("more_parameters") \in ExprCall
  /\ Call("generator") \in ExprCall /\ Call("id") \in ExprCall
  /\ Call("id_opt") \in ExprCall /\ Call("function_body") \in ExprCall
  /\ Call("expression") \in ExprCall /\ Call("more_expressions") \in ExprCall
  /\ Call("assignment_expression") \in ExprCall
  /\ Call("more_infix_expressions") \in ExprCall
  /\ Call("more_conditional") \in ExprCall /\ Call("more_assignment") \in ExprCall
  /\ Call("unary_expression") \in ExprCall /\ Call("prefix_update") \in ExprCall
  /\ Call("postfix") \in ExprCall /\ Call("lhs_expression") \in ExprCall
  /\ Call("id_name") \in ExprCall /\ Call("more_suffixes") \in ExprCall
  /\ Call("arguments") \in ExprCall /\ Call("argument_list") \in ExprCall
  /\ Call("expr_list_item") \in ExprCall /\ Call("primary_expression") \in ExprCall
  /\ Call("paren_expression") \in ExprCall /\ Call("object_property") \in ExprCall
  /\ Expect("while") \in ExprCall /\ Expect(":") \in ExprCall
  /\ Expect(";") \in ExprCall /\ Expect("=") \in ExprCall
  /\ Expect("target") \in ExprCall
  /\ Build("target") \in ExprCall /\ Build("value") \in ExprCall
  /\ MoreComma("declarator") \in ExprCall /\ MoreComma("const_declarator") \in ExprCall
  /\ MoreComma("assignment_expression") \in ExprCall
  /\ MoreComma("expr_list_item") \in ExprCall
  /\ AutoSemi("Required") \in ExprCall /\ AutoSemi("Optional") \in ExprCall
BY ExprCalls DEF ExprFns, Values, ListItems

LEMMA InnerCalls ==
  /\ Call("expression") \in InnerCall /\ Call("assignment_expression") \in InnerCall
  /\ \A f \in ListItems : MoreComma(f) \in InnerCall
BY DEF Call, MoreComma, InnerCall

LEMMA Tuples ==
  ASSUME NEW S
  PROVE  /\ <<>> \in Seq(S)
         /\ \A a \in S : <<a>> \in Seq(S)
         /\ \A a, b \in S : <<a, b>> \in Seq(S)
         /\ \A a, b, c \in S : <<a, b, c>> \in Seq(S)
         /\ \A a, b, c, d \in S : <<a, b, c, d>> \in Seq(S)
OBVIOUS

\* The functions that close no bracket, and that any call but the last may call.
Calm(f) ==
  f \notin ForFns \cup {"for_lexical", "switch_cases", "expect", "leave", "program_items"}

LEMMA Start ==
  ASSUME ParserInv, NEW f, At(f), Calm(f)
  PROVE  /\ Running /\ todo # <<>> /\ Neutral(This)
         /\ This.fn = f /\ This.fn \notin {"leave", "program_items"}
         /\ This \in AnyCall /\ value \in Values
         /\ f \notin Tokenless => la # <<>>
BY AtCall, NeutralFn DEF Calm

\* A step that makes calls of the grammar of expressions, and opens and closes no
\* bracket.
LEMMA ExprGo ==
  ASSUME ParserInv, NEW f, At(f), Calm(f),
         NEW calls \in Seq(ExprCall), Go(calls),
         Peek \/ (f \notin Tokenless /\ PlainRead), value' \in Values
  PROVE  ParserInv'
<1>1. calls \in Seq(ExprCall \cup LoopCall \cup StmtCall)
  OBVIOUS
<1> QED BY <1>1, Start, PlainGoKeeps DEF PlainStep

LEMMA SameValue == ASSUME ParserInv, UNCHANGED value PROVE value' \in Values
BY DEF ParserInv, Types, TypeOK, Values

LEMMA PlainIdentifier == IsIdentifier => PlainToken
BY PlainTokens

LEMMA Refused ==
  ASSUME ParserInv,
         \/ Unexpected \/ BindingPattern \/ Fail("InvalidLHS") \/ Fail("FailedASI")
         \/ Fail("unimplemented") \/ Fail("DuplicateDefault") \/ Fail("ThrowArgument")
         \/ Fail("OrphanTry") \/ LexError
  PROVE  ParserInv'
<1>1. \E e \in Errors : Fail(e)
  BY DEF Errors, Unexpected, BindingPattern, LexError
<1> QED BY <1>1, FailKeeps

-----------------------------------------------------------------------------
(***************************************************************************)
(* The functions that make calls of the grammar of expressions, and open and*)
(* close no bracket.                                                       *)
(***************************************************************************)
LEMMA PatternKeeps == ASSUME ParserInv, Pattern PROVE ParserInv'
<1>1. Calm("pattern") /\ "pattern" \notin Tokenless
  BY DEF Calm, ForFns, Tokenless
<1> QED
  BY <1>1, ExprGo, Tuples, SameValue, PlainIs, PlainIdentifier, Refused, Zenon
     DEF Pattern, PlainRead

LEMMA DeclaratorKeeps == ASSUME ParserInv, Declarator PROVE ParserInv'
<1>1. Calm("declarator") /\ "declarator" \notin Tokenless
  BY DEF Calm, ForFns, Tokenless
<1>2. <<Call("declarator_init")>> \in Seq(ExprCall)
  BY CallsOfExpr, Tuples, Zenon
<1> QED
  BY <1>1, <1>2, ExprGo, Tuples, SameValue, PlainIs, PlainIdentifier, Refused, Zenon
     DEF Declarator, PlainRead

LEMMA DeclaratorInitKeeps == ASSUME ParserInv, DeclaratorInit PROVE ParserInv'
<1>1. Calm("declarator_init") /\ "declarator_init" \notin Tokenless
  BY DEF Calm, ForFns, Tokenless
<1>2. <<Call("assignment_expression")>> \in Seq(ExprCall)
  BY CallsOfExpr, Tuples, Zenon
<1> QED
  BY <1>1, <1>2, ExprGo, Tuples, SameValue, PlainIs, Zenon
     DEF DeclaratorInit, PlainRead

LEMMA ConstDeclaratorKeeps == ASSUME ParserInv, ConstDeclarator PROVE ParserInv'
<1>1. Calm("const_declarator") /\ "const_declarator" \notin Tokenless
  BY DEF Calm, ForFns, Tokenless
<1>2. <<Call("pattern"), Expect("="), Call("assignment_expression")>> \in Seq(ExprCall)
  BY CallsOfExpr, Tuples, Zenon
<1> QED
  BY <1>1, <1>2, ExprGo, Tuples, SameValue, PlainIs, Zenon
     DEF ConstDeclarator, PlainRead

LEMMA ParameterKeeps == ASSUME ParserInv, Parameter PROVE ParserInv'
<1>1. Calm("parameter") /\ "parameter" \notin Tokenless
  BY DEF Calm, ForFns, Tokenless
<1>2. <<Call("pattern")>> \in Seq(ExprCall)
  BY CallsOfExpr, Tuples, Zenon
<1>3. <<Call("pattern"), Call("more_parameters")>> \in Seq(ExprCall)
  BY CallsOfExpr, Tuples, Zenon
<1> QED
  BY <1>1, <1>2, <1>3, ExprGo, Tuples, SameValue, PlainIs, Zenon
     DEF Parameter, PlainRead

LEMMA MoreParametersKeeps == ASSUME ParserInv, MoreParameters PROVE ParserInv'
<1>1. Calm("more_parameters") /\ "more_parameters" \notin Tokenless
  BY DEF Calm, ForFns, Tokenless
<1>2. <<Call("parameter")>> \in Seq(ExprCall)
  BY CallsOfExpr, Tuples, Zenon
<1> QED
  BY <1>1, <1>2, ExprGo, Tuples, SameValue, PlainIs, Zenon
     DEF MoreParameters, PlainRead

LEMMA GeneratorKeeps == ASSUME ParserInv, Generator PROVE ParserInv'
<1>1. Calm("generator") /\ "generator" \notin Tokenless
  BY DEF Calm, ForFns, Tokenless
<1> QED
  BY <1>1, ExprGo, Tuples, SameValue, PlainIs, Zenon
     DEF Generator, PlainRead

LEMMA IdKeeps == ASSUME ParserInv, Id PROVE ParserInv'
<1>1. Calm("id") /\ "id" \notin Tokenless
  BY DEF Calm, ForFns, Tokenless
<1> QED
  BY <1>1, ExprGo, Tuples, SameValue, PlainIs, PlainIdentifier, Refused, Zenon
     DEF Id, PlainRead

LEMMA IdOptKeeps == ASSUME ParserInv, IdOpt PROVE ParserInv'
<1>1. Calm("id_opt") /\ "id_opt" \notin Tokenless
  BY DEF Calm, ForFns, Tokenless
<1> QED
  BY <1>1, ExprGo, Tuples, SameValue, PlainIs, PlainIdentifier, Zenon
     DEF IdOpt, PlainRead

LEMMA ExpressionCallKeeps == ASSUME ParserInv, ExpressionCall PROVE ParserInv'
<1>1. Calm("expression") /\ "expression" \notin Tokenless
  BY DEF Calm, ForFns, Tokenless
<1>2. <<AssignmentExpression, Call("more_expressions")>> \in Seq(ExprCall)
  BY CallsOfExpr, Tuples, Zenon DEF AssignmentExpression
<1> QED
  BY <1>1, <1>2, ExprGo, Tuples, SameValue, PlainIs, Zenon
     DEF ExpressionCall, PlainRead

LEMMA MoreExpressionsKeeps == ASSUME ParserInv, MoreExpressions PROVE ParserInv'
<1>1. Calm("more_expressions") /\ "more_expressions" \notin Tokenless
  BY DEF Calm, ForFns, Tokenless
<1>2. <<MoreComma("assignment_expression"), Build("value")>> \in Seq(ExprCall)
  BY CallsOfExpr, Tuples, Zenon
<1> QED
  BY <1>1, <1>2, ExprGo, Tuples, SameValue, PlainIs, Zenon
     DEF MoreExpressions, PlainRead

LEMMA AssignmentExpressionCallKeeps == ASSUME ParserInv, AssignmentExpressionCall PROVE ParserInv'
<1>1. Calm("assignment_expression") /\ "assignment_expression" \notin Tokenless
  BY DEF Calm, ForFns, Tokenless
<1>2. <<Call("unary_expression"), Call("more_infix_expressions"),
        Call("more_conditional"), Call("more_assignment")>> \in Seq(ExprCall)
  BY CallsOfExpr, Tuples, Zenon
<1> QED
  BY <1>1, <1>2, ExprGo, Tuples, SameValue, PlainIs, Zenon
     DEF AssignmentExpressionCall, PlainRead

LEMMA MoreInfixExpressionsKeeps == ASSUME ParserInv, MoreInfixExpressions PROVE ParserInv'
<1>1. Calm("more_infix_expressions") /\ "more_infix_expressions" \notin Tokenless
  BY DEF Calm, ForFns, Tokenless
<1>2. <<Call("unary_expression"), Build("value"), Call("more_infix_expressions")>> \in Seq(ExprCall)
  BY CallsOfExpr, Tuples, Zenon
<1> QED
  BY <1>1, <1>2, ExprGo, Tuples, SameValue, PlainIs, Zenon
     DEF MoreInfixExpressions, PlainRead, IsInfix

LEMMA MoreConditionalKeeps == ASSUME ParserInv, MoreConditional PROVE ParserInv'
<1>1. Calm("more_conditional") /\ "more_conditional" \notin Tokenless
  BY DEF Calm, ForFns, Tokenless
<1>2. <<AssignmentExpression>> \in Seq(InnerCall)
  BY InnerCalls, Tuples, Zenon DEF AssignmentExpression
<1>3. WithAllowIn(TRUE, <<AssignmentExpression>>) \in ExprCall
  BY <1>2, ExprCalls
<1>4. <<WithAllowIn(TRUE, <<AssignmentExpression>>), Expect(":"),
        AssignmentExpression, Build("value")>> \in Seq(ExprCall)
  BY <1>3, CallsOfExpr, Tuples, Zenon DEF AssignmentExpression
<1> QED
  BY <1>1, <1>2, <1>3, <1>4, ExprGo, Tuples, SameValue, PlainIs, Zenon
     DEF MoreConditional, PlainRead

LEMMA MoreAssignmentKeeps == ASSUME ParserInv, MoreAssignment PROVE ParserInv'
<1>1. Calm("more_assignment") /\ "more_assignment" \notin Tokenless
  BY DEF Calm, ForFns, Tokenless
<1>2. <<AssignmentExpression, Build("value")>> \in Seq(ExprCall)
  BY CallsOfExpr, Tuples, Zenon DEF AssignmentExpression
<1> QED
  BY <1>1, <1>2, ExprGo, Tuples, SameValue, PlainIs, Refused, Zenon
     DEF MoreAssignment, PlainRead

LEMMA UnaryExpressionKeeps == ASSUME ParserInv, UnaryExpression PROVE ParserInv'
<1>1. Calm("unary_expression") /\ "unary_expression" \notin Tokenless
  BY DEF Calm, ForFns, Tokenless
<1>2. <<Call("unary_expression"), Call("prefix_update")>> \in Seq(ExprCall)
  BY CallsOfExpr, Tuples, Zenon
<1>3. <<Call("unary_expression"), Build("value")>> \in Seq(ExprCall)
  BY CallsOfExpr, Tuples, Zenon
<1>4. <<Call("lhs_expression"), Call("postfix")>> \in Seq(ExprCall)
  BY CallsOfExpr, Tuples, Zenon
<1> QED
  BY <1>1, <1>2, <1>3, <1>4, ExprGo, Tuples, SameValue, PlainIs, Zenon
     DEF UnaryExpression, PlainRead

LEMMA PrefixUpdateKeeps == ASSUME ParserInv, PrefixUpdate PROVE ParserInv'
<1>1. Calm("prefix_update")
  BY DEF Calm, ForFns
<1>2. "value" \in Values
  BY DEF Values
<1> QED
  BY <1>1, <1>2, ExprGo, Tuples, SameValue, PlainIs, Refused, Zenon
     DEF PrefixUpdate, PlainRead

LEMMA PostfixKeeps == ASSUME ParserInv, Postfix PROVE ParserInv'
<1>1. Calm("postfix") /\ "postfix" \notin Tokenless
  BY DEF Calm, ForFns, Tokenless
<1>2. "value" \in Values
  BY DEF Values
<1> QED
  BY <1>1, <1>2, ExprGo, Tuples, SameValue, PlainIs, Refused, Zenon
     DEF Postfix, PlainRead

LEMMA LhsExpressionKeeps == ASSUME ParserInv, LhsExpression PROVE ParserInv'
<1>1. Calm("lhs_expression") /\ "lhs_expression" \notin Tokenless
  BY DEF Calm, ForFns, Tokenless
<1>2. [fn |-> "news", n |-> 0] \in ExprCall
  BY ExprCalls
<1>3. <<[fn |-> "news", n |-> 0]>> \in Seq(ExprCall)
  BY <1>2, CallsOfExpr, Tuples, Zenon
<1>4. <<Call("primary_expression"), Call("more_suffixes")>> \in Seq(ExprCall)
  BY CallsOfExpr, Tuples, Zenon
<1> QED
  BY <1>1, <1>2, <1>3, <1>4, ExprGo, Tuples, SameValue, PlainIs, Zenon
     DEF LhsExpression, PlainRead

LEMMA IdNameKeeps == ASSUME ParserInv, IdName PROVE ParserInv'
<1>1. Calm("id_name") /\ "id_name" \notin Tokenless
  BY DEF Calm, ForFns, Tokenless
<1> QED
  BY <1>1, ExprGo, Tuples, SameValue, PlainIs, PlainIdentifier, PlainTokens, Refused, Zenon
     DEF IdName, PlainRead

LEMMA ArgumentListKeeps == ASSUME ParserInv, ArgumentList PROVE ParserInv'
<1>1. Calm("argument_list") /\ "argument_list" \notin Tokenless
  BY DEF Calm, ForFns, Tokenless
<1>2. CommaSeparated("expr_list_item") \in Seq(ExprCall)
  BY CallsOfExpr, Tuples, Zenon DEF CommaSeparated
<1> QED
  BY <1>1, <1>2, ExprGo, Tuples, SameValue, PlainIs, Zenon
     DEF ArgumentList, PlainRead

LEMMA ExprListItemKeeps == ASSUME ParserInv, ExprListItem PROVE ParserInv'
<1>1. Calm("expr_list_item") /\ "expr_list_item" \notin Tokenless
  BY DEF Calm, ForFns, Tokenless
<1>2. <<AssignmentExpression>> \in Seq(ExprCall)
  BY CallsOfExpr, Tuples, Zenon DEF AssignmentExpression
<1> QED
  BY <1>1, <1>2, ExprGo, Tuples, SameValue, PlainIs, Zenon
     DEF ExprListItem, PlainRead

LEMMA BuildNodeKeeps == ASSUME ParserInv, BuildNode PROVE ParserInv'
<1>1. Calm("build")
  BY DEF Calm, ForFns
<1>2. value' \in Values
  BY <1>1, Start, CallFields DEF BuildNode
<1> QED
  BY <1>1, <1>2, ExprGo, Tuples, SameValue, PlainIs, Zenon
     DEF BuildNode, PlainRead

LEMMA MoreCommaItemsKeeps == ASSUME ParserInv, MoreCommaItems PROVE ParserInv'
<1>1. Calm("more_comma") /\ "more_comma" \notin Tokenless
  BY DEF Calm, ForFns, Tokenless
<1>2. This.item \in ListItems
  BY <1>1, Start, CallFields DEF MoreCommaItems
<1>3. Call(This.item) \in ExprCall /\ MoreComma(This.item) \in ExprCall
  BY <1>2, ExprCalls DEF ListItems, ExprFns
<1>4. CommaSeparated(This.item) \in Seq(ExprCall)
  BY <1>3, CallsOfExpr, Tuples, Zenon DEF CommaSeparated
<1> QED
  BY <1>1, <1>2, <1>3, <1>4, ExprGo, Tuples, SameValue, PlainIs, Zenon
     DEF MoreCommaItems, PlainRead

LEMMA EndWithAutoSemiKeeps == ASSUME ParserInv, EndWithAutoSemi PROVE ParserInv'
<1>1. Calm("end_with_auto_semi") /\ "end_with_auto_semi" \notin Tokenless
  BY DEF Calm, ForFns, Tokenless
<1> QED
  BY <1>1, ExprGo, Tuples, SameValue, PlainIs, Refused, Zenon
     DEF EndWithAutoSemi, PlainRead

LEMMA NewsKeeps == ASSUME ParserInv, News PROVE ParserInv'
<1>1. Calm("news") /\ "news" \notin Tokenless
  BY DEF Calm, ForFns, Tokenless
<1>2. This.n \in Nat
  BY <1>1, Start, CallFields DEF News
<1>3. This.n + 1 \in Nat /\ (This.n > 1 => This.n - 1 \in Nat)
  BY <1>2
<1>4. /\ [fn |-> "news", n |-> This.n + 1] \in ExprCall
      /\ This.n > 1 => [fn |-> "more_new_expression", n |-> This.n - 1] \in ExprCall
      /\ [fn |-> "more_new_expression", n |-> This.n] \in ExprCall
  BY <1>2, <1>3, ExprCalls
<1>5. <<[fn |-> "news", n |-> This.n + 1]>> \in Seq(ExprCall)
  BY <1>4, CallsOfExpr, Tuples, Zenon
<1>6. <<Call("primary_expression"), [fn |-> "more_new_expression", n |-> This.n]>> \in Seq(ExprCall)
  BY <1>4, CallsOfExpr, Tuples, Zenon
<1>7. <<Expect("target"), Build("value")>> \in Seq(ExprCall)
  BY CallsOfExpr, Tuples, Zenon
<1>8. (IF This.n > 1 THEN <<[fn |-> "more_new_expression", n |-> This.n - 1]>>
       ELSE <<Call("more_suffixes")>>) \in Seq(ExprCall)
  BY <1>4, CallsOfExpr, Tuples, Zenon
<1>9. <<Expect("target"), Build("value")>> \o
        (IF This.n > 1 THEN <<[fn |-> "more_new_expression", n |-> This.n - 1]>>
         ELSE <<Call("more_suffixes")>>) \in Seq(ExprCall)
  BY <1>7, <1>8, ConcatProperties, CallsOfExpr, Tuples, Zenon
<1> QED
  BY <1>1, <1>2, <1>3, <1>4, <1>5, <1>6, <1>7, <1>8, <1>9, ExprGo, Tuples, SameValue, PlainIs, Zenon
     DEF News, PlainRead

LEMMA NewArgumentsKeeps == ASSUME ParserInv, NewArguments PROVE ParserInv'
<1>1. Calm("new_arguments") /\ "new_arguments" \notin Tokenless
  BY DEF Calm, ForFns, Tokenless
<1>2. This.n \in Nat
  BY <1>1, Start, CallFields DEF NewArguments
<1>3. This.n > 0 => This.n - 1 \in Nat
  BY <1>2
<1>4. This.n > 0 => [fn |-> "new_arguments", n |-> This.n - 1] \in ExprCall
  BY <1>3, ExprCalls
<1>5. This.n > 0 =>
        <<Call("arguments"), Build("value"), [fn |-> "new_arguments", n |-> This.n - 1]>> \in Seq(ExprCall)
  BY <1>4, CallsOfExpr, Tuples, Zenon
<1>6. <<Build("value"), Call("more_suffixes")>> \in Seq(ExprCall)
  BY CallsOfExpr, Tuples, Zenon
<1>7. <<Call("more_suffixes")>> \in Seq(ExprCall)
  BY CallsOfExpr, Tuples, Zenon
<1> QED
  BY <1>1, <1>2, <1>3, <1>4, <1>5, <1>6, <1>7, ExprGo, Tuples, SameValue, PlainIs, Zenon
     DEF NewArguments, PlainRead

LEMMA ArrayElementsKeeps == ASSUME ParserInv, ArrayElements PROVE ParserInv'
<1>1. Calm("array_elements") /\ "array_elements" \notin Tokenless
  BY DEF Calm, ForFns, Tokenless
<1>2. This.patt \in BOOLEAN
  BY <1>1, Start, CallFields DEF ArrayElements
<1>3. /\ [fn |-> "more_elements", kind |-> "hole", patt |-> This.patt] \in ExprCall
      /\ [fn |-> "more_elements", kind |-> "spread", patt |-> This.patt] \in ExprCall
      /\ [fn |-> "more_elements", kind |-> "expr", patt |-> This.patt] \in ExprCall
  BY <1>2, ExprCalls
<1>4. Literal(This.patt) \in Values
  BY DEF Literal, Values
<1>5. <<[fn |-> "more_elements", kind |-> "hole", patt |-> This.patt]>> \in Seq(ExprCall)
  BY <1>3, CallsOfExpr, Tuples, Zenon
<1>6. <<AssignmentExpression,
        [fn |-> "more_elements", kind |-> "spread", patt |-> This.patt]>> \in Seq(ExprCall)
  BY <1>3, CallsOfExpr, Tuples, Zenon DEF AssignmentExpression
<1>7. <<AssignmentExpression,
        [fn |-> "more_elements", kind |-> "expr", patt |-> This.patt]>> \in Seq(ExprCall)
  BY <1>3, CallsOfExpr, Tuples, Zenon DEF AssignmentExpression
<1> QED
  BY <1>1, <1>2, <1>3, <1>4, <1>5, <1>6, <1>7, ExprGo, Tuples, SameValue, PlainIs, Zenon
     DEF ArrayElements, PlainRead

LEMMA MoreElementsKeeps == ASSUME ParserInv, MoreElements PROVE ParserInv'
<1>1. Calm("more_elements") /\ "more_elements" \notin Tokenless
  BY DEF Calm, ForFns, Tokenless
<1>2. This.kind \in {"hole", "expr", "spread"} /\ This.patt \in BOOLEAN
  BY <1>1, Start, CallFields DEF MoreElements
<1>3. StillPatt \in BOOLEAN
  BY <1>2 DEF StillPatt
<1>4. [fn |-> "array_elements", patt |-> StillPatt] \in ExprCall
  BY <1>3, ExprCalls
<1>5. Literal(StillPatt) \in Values
  BY DEF Literal, Values
<1>6. <<[fn |-> "array_elements", patt |-> StillPatt]>> \in Seq(ExprCall)
  BY <1>4, CallsOfExpr, Tuples, Zenon
<1> QED
  BY <1>1, <1>2, <1>3, <1>4, <1>5, <1>6, ExprGo, Tuples, SameValue, PlainIs, Zenon
     DEF MoreElements, PlainRead

LEMMA MorePropertiesKeeps == ASSUME ParserInv, MoreProperties PROVE ParserInv'
<1>1. Calm("more_properties") /\ "more_properties" \notin Tokenless
  BY DEF Calm, ForFns, Tokenless
<1>2. This.kind \in {"hole", "expr", "spread"} /\ This.patt \in BOOLEAN
  BY <1>1, Start, CallFields DEF MoreProperties
<1>3. StillPatt \in BOOLEAN
  BY <1>2 DEF StillPatt
<1>4. [fn |-> "properties", patt |-> StillPatt] \in ExprCall
  BY <1>3, ExprCalls
<1>5. Literal(StillPatt) \in Values
  BY DEF Literal, Values
<1>6. <<[fn |-> "properties", patt |-> StillPatt]>> \in Seq(ExprCall)
  BY <1>4, CallsOfExpr, Tuples, Zenon
<1> QED
  BY <1>1, <1>2, <1>3, <1>4, <1>5, <1>6, ExprGo, Tuples, SameValue, PlainIs, Zenon
     DEF MoreProperties, PlainRead

LEMMA PropertiesKeeps == ASSUME ParserInv, Properties PROVE ParserInv'
<1>1. Calm("properties") /\ "properties" \notin Tokenless
  BY DEF Calm, ForFns, Tokenless
<1>2. This.patt \in BOOLEAN
  BY <1>1, Start, CallFields DEF Properties
<1>3. [fn |-> "more_properties", kind |-> "expr", patt |-> This.patt] \in ExprCall
  BY <1>2, ExprCalls
<1>4. Literal(This.patt) \in Values
  BY DEF Literal, Values
<1>5. <<Call("object_property"),
        [fn |-> "more_properties", kind |-> "expr", patt |-> This.patt]>> \in Seq(ExprCall)
  BY <1>3, CallsOfExpr, Tuples, Zenon
<1> QED
  BY <1>1, <1>2, <1>3, <1>4, <1>5, ExprGo, Tuples, SameValue, PlainIs, Zenon
     DEF Properties, PlainRead

-----------------------------------------------------------------------------
(***************************************************************************)
(* Brackets: calls that leave them as they are, and calls that close one.  *)
(***************************************************************************)
\* The calls leave the brackets as they found them, or close the bracket opened last,
\* by v.
Balanced(cs) == \A o \in BracketStacks : Brackets(cs, o, o)
Closes(cs, v) == \A o \in BracketStacks : Brackets(cs, Append(o, v), o)

LEMMA AppendedBracket ==
  ASSUME NEW o \in BracketStacks, NEW v \in Closers PROVE Append(o, v) \in BracketStacks
BY DEF BracketStacks

LEMMA BalancedConcat ==
  ASSUME NEW cs \in Seq(AnyCall), NEW ds \in Seq(AnyCall), NEW v \in Closers
  PROVE  /\ cs \o ds \in Seq(AnyCall)
         /\ Balanced(cs) /\ Balanced(ds) => Balanced(cs \o ds)
         /\ Balanced(cs) /\ Closes(ds, v) => Closes(cs \o ds, v)
         /\ Closes(cs, v) /\ Balanced(ds) => Closes(cs \o ds, v)
<1>1. cs \o ds \in Seq(AnyCall)
  BY ConcatProperties
<1>2. Balanced(cs) /\ Balanced(ds) => Balanced(cs \o ds)
  BY BracketsConcat DEF Balanced
<1>3. Balanced(cs) /\ Closes(ds, v) => Closes(cs \o ds, v)
  BY BracketsConcat, AppendedBracket DEF Balanced, Closes
<1>4. Closes(cs, v) /\ Balanced(ds) => Closes(cs \o ds, v)
  BY BracketsConcat, AppendedBracket DEF Balanced, Closes
<1> QED BY <1>1, <1>2, <1>3, <1>4

LEMMA BalancedCalls ==
  ASSUME NEW cs \in Seq(ExprCall \cup LoopCall \cup StmtCall) PROVE Balanced(cs)
<1>1. cs \in Seq(AnyCall) /\ \A i \in 1 .. Len(cs) : Neutral(cs[i])
  BY NeutralCalls DEF AnyCall, PushedCall, LoopHeadCall
<1> QED BY <1>1, BracketsNeutral DEF Balanced

\* A call that closes the bracket v.
Ends(c, v) == \A o \in BracketStacks : Moves(c, Append(o, v), o)

LEMMA WhatEnds ==
  /\ \A v \in Closers : Expect(v) \in AnyCall /\ Ends(Expect(v), v)
  /\ \A c \in ForCall : c \in AnyCall /\ Ends(c, ")")
  /\ \A c \in CasesCall : c \in AnyCall /\ Ends(c, "}")
<1>1. ASSUME NEW v \in Closers PROVE Expect(v) \in AnyCall /\ Ends(Expect(v), v)
  <2>1. Expect(v) \in BracketCall /\ Expect(v).fn = "expect" /\ Expect(v).value = v
    BY DEF Expect, BracketCall
  <2>2. v \notin Openers
    BY DEF Openers, Closers
  <2> QED BY <2>1, <2>2
     DEF Ends, Moves, Neutral, IsBracket, ClosesParen, ForFns, AnyCall, PushedCall, LoopHeadCall
<1>2. ASSUME NEW c \in ForCall PROVE c \in AnyCall /\ Ends(c, ")")
  <2>1. c.fn \in ForFns
    BY FnsOfCalls
  <2> QED BY <2>1
     DEF Ends, Moves, Neutral, IsBracket, ClosesParen, ForFns, AnyCall, PushedCall, LoopHeadCall
<1>3. ASSUME NEW c \in CasesCall PROVE c \in AnyCall /\ Ends(c, "}")
  <2>1. c.fn = "switch_cases"
    BY FnsOfCalls
  <2> QED BY <2>1
     DEF Ends, Moves, Neutral, IsBracket, ClosesParen, ForFns, AnyCall, PushedCall, LoopHeadCall
<1> QED BY <1>1, <1>2, <1>3

\* The tuples of calls that close a bracket.
LEMMA ClosesTuples ==
  ASSUME NEW v \in Closers, NEW e \in AnyCall, Ends(e, v),
         NEW a \in AnyCall, Neutral(a), NEW b \in AnyCall, Neutral(b),
         NEW c \in AnyCall, Neutral(c)
  PROVE  /\ Closes(<<e>>, v) /\ Closes(<<a, e>>, v) /\ Closes(<<a, b, e>>, v)
         /\ Closes(<<a, b, c, e>>, v)
         /\ Closes(<<e, a>>, v) /\ Closes(<<e, a, b>>, v) /\ Closes(<<a, e, b>>, v)
<1>1. ASSUME NEW cs \in Seq(AnyCall), NEW k \in 1 .. Len(cs), cs[k] = e,
             \A i \in 1 .. Len(cs) : i # k => Neutral(cs[i])
      PROVE  Closes(cs, v)
  BY <1>1, BracketsTurn, AppendedBracket DEF Closes, Ends
<1>2. Closes(<<e>>, v)
  <2> DEFINE t == <<e>>
  <2>1. t \in Seq(AnyCall) /\ Len(t) = 1 /\ t[1] = e
    OBVIOUS
  <2> HIDE DEF t
  <2>2. 1 \in 1 .. Len(t) /\ \A i \in 1 .. Len(t) : i # 1 => i \in {}
    BY <2>1
  <2> QED BY <1>1, <2>1, <2>2 DEF t
<1>3. Closes(<<a, e>>, v)
  <2> DEFINE t == <<a, e>>
  <2>1. t \in Seq(AnyCall) /\ Len(t) = 2 /\ t[1] = a /\ t[2] = e
    OBVIOUS
  <2> HIDE DEF t
  <2>2. 2 \in 1 .. Len(t) /\ \A i \in 1 .. Len(t) : i # 2 => i \in {1}
    BY <2>1
  <2> QED BY <1>1, <2>1, <2>2 DEF t
<1>4. Closes(<<e, a>>, v)
  <2> DEFINE t == <<e, a>>
  <2>1. t \in Seq(AnyCall) /\ Len(t) = 2 /\ t[1] = e /\ t[2] = a
    OBVIOUS
  <2> HIDE DEF t
  <2>2. 1 \in 1 .. Len(t) /\ \A i \in 1 .. Len(t) : i # 1 => i \in {2}
    BY <2>1
  <2> QED BY <1>1, <2>1, <2>2 DEF t
<1>5. Closes(<<a, b, e>>, v)
  <2> DEFINE t == <<a, b, e>>
  <2>1. t \in Seq(AnyCall) /\ Len(t) = 3 /\ t[1] = a /\ t[2] = b /\ t[3] = e
    OBVIOUS
  <2> HIDE DEF t
  <2>2. 3 \in 1 .. Len(t) /\ \A i \in 1 .. Len(t) : i # 3 => i \in {1, 2}
    BY <2>1
  <2> QED BY <1>1, <2>1, <2>2 DEF t
<1>6. Closes(<<e, a, b>>, v)
  <2> DEFINE t == <<e, a, b>>
  <2>1. t \in Seq(AnyCall) /\ Len(t) = 3 /\ t[1] = e /\ t[2] = a /\ t[3] = b
    OBVIOUS
  <2> HIDE DEF t
  <2>2. 1 \in 1 .. Len(t) /\ \A i \in 1 .. Len(t) : i # 1 => i \in {2, 3}
    BY <2>1
  <2> QED BY <1>1, <2>1, <2>2 DEF t
<1>7. Closes(<<a, e, b>>, v)
  <2> DEFINE t == <<a, e, b>>
  <2>1. t \in Seq(AnyCall) /\ Len(t) = 3 /\ t[1] = a /\ t[2] = e /\ t[3] = b
    OBVIOUS
  <2> HIDE DEF t
  <2>2. 2 \in 1 .. Len(t) /\ \A i \in 1 .. Len(t) : i # 2 => i \in {1, 3}
    BY <2>1
  <2> QED BY <1>1, <2>1, <2>2 DEF t
<1>8. Closes(<<a, b, c, e>>, v)
  <2> DEFINE t == <<a, b, c, e>>
  <2>1. t \in Seq(AnyCall) /\ Len(t) = 4 /\ t[1] = a /\ t[2] = b /\ t[3] = c /\ t[4] = e
    OBVIOUS
  <2> HIDE DEF t
  <2>2. 4 \in 1 .. Len(t) /\ \A i \in 1 .. Len(t) : i # 4 => i \in {1, 2, 3}
    BY <2>1
  <2> QED BY <1>1, <2>1, <2>2 DEF t
<1> QED BY <1>2, <1>3, <1>4, <1>5, <1>6, <1>7, <1>8

\* Calls that open a bracket, and close it.
LEMMA OpensBracket ==
  ASSUME NEW v \in Openers
  PROVE  /\ Expect(v) \in AnyCall /\ <<Expect(v)>> \in Seq(AnyCall) /\ Closer(v) \in Closers
         /\ \A o \in BracketStacks : Moves(Expect(v), o, Append(o, Closer(v)))
         /\ \A o \in BracketStacks : Brackets(<<Expect(v)>>, o, Append(o, Closer(v)))
<1>1. Expect(v) \in BracketCall /\ Expect(v).fn = "expect" /\ Expect(v).value = v
  BY DEF Expect, BracketCall
<1>2. v \notin Closers /\ Closer(v) \in Closers
  BY DEF Openers, Closers, Closer
<1>3. ASSUME NEW o \in BracketStacks PROVE Moves(Expect(v), o, Append(o, Closer(v)))
  BY <1>1, <1>2 DEF Moves, Neutral, IsBracket, ClosesParen, ForFns
<1> DEFINE c == <<Expect(v)>>
<1>4. c \in Seq(AnyCall) /\ Len(c) = 1 /\ c[1] = Expect(v) /\ Expect(v) \in AnyCall
  BY <1>1 DEF AnyCall, PushedCall, LoopHeadCall
<1> HIDE DEF c
<1>5. ASSUME NEW o \in BracketStacks PROVE Brackets(c, o, Append(o, Closer(v)))
  <2>1. 1 \in 1 .. Len(c) /\ \A i \in 1 .. Len(c) : i = 1
    BY <1>4
  <2>2. Append(o, Closer(v)) \in BracketStacks
    BY <1>2, AppendedBracket
  <2> QED BY <1>3, <1>4, <2>1, <2>2, BracketsTurn
<1> QED BY <1>2, <1>3, <1>4, <1>5 DEF c

LEMMA BalancedTuples ==
  ASSUME NEW v \in Openers, NEW e \in AnyCall, Ends(e, Closer(v)),
         NEW a \in AnyCall, Neutral(a), NEW b \in AnyCall, Neutral(b)
  PROVE  /\ Balanced(<<Expect(v), e>>) /\ Balanced(<<Expect(v), a, e>>)
         /\ Balanced(<<Expect(v), a, b, e>>)
<1>1. Expect(v) \in AnyCall
  BY OpensBracket
<1>2. ASSUME NEW cs \in Seq(AnyCall), NEW k \in 1 + 1 .. Len(cs), 1 \in 1 .. Len(cs),
             cs[1] = Expect(v), cs[k] = e,
             \A i \in 1 .. Len(cs) : i \notin {1, k} => Neutral(cs[i])
      PROVE  Balanced(cs)
  <2> SUFFICES ASSUME NEW o \in BracketStacks PROVE Brackets(cs, o, o)
    BY DEF Balanced
  <2>1. Append(o, Closer(v)) \in BracketStacks
    BY OpensBracket, AppendedBracket
  <2>2. Moves(cs[1], o, Append(o, Closer(v))) /\ Moves(cs[k], Append(o, Closer(v)), o)
    BY <1>2, OpensBracket DEF Ends
  <2> QED BY <1>2, <2>1, <2>2, BracketsPair
<1>3. Balanced(<<Expect(v), e>>)
  <2> DEFINE t == <<Expect(v), e>>
  <2>1. t \in Seq(AnyCall) /\ Len(t) = 2 /\ t[1] = Expect(v) /\ t[2] = e
    BY <1>1
  <2> HIDE DEF t
  <2>2. /\ 1 \in 1 .. Len(t) /\ 2 \in 1 + 1 .. Len(t)
        /\ \A i \in 1 .. Len(t) : i \notin {1, 2} => i \in {}
    BY <2>1
  <2> QED BY <1>2, <2>1, <2>2 DEF t
<1>4. Balanced(<<Expect(v), a, e>>)
  <2> DEFINE t == <<Expect(v), a, e>>
  <2>1. t \in Seq(AnyCall) /\ Len(t) = 3 /\ t[1] = Expect(v) /\ t[2] = a /\ t[3] = e
    BY <1>1
  <2> HIDE DEF t
  <2>2. /\ 1 \in 1 .. Len(t) /\ 3 \in 1 + 1 .. Len(t)
        /\ \A i \in 1 .. Len(t) : i \notin {1, 3} => i \in {2}
    BY <2>1
  <2> QED BY <1>2, <2>1, <2>2 DEF t
<1>5. Balanced(<<Expect(v), a, b, e>>)
  <2> DEFINE t == <<Expect(v), a, b, e>>
  <2>1. t \in Seq(AnyCall) /\ Len(t) = 4 /\ t[1] = Expect(v) /\ t[2] = a /\ t[3] = b /\ t[4] = e
    BY <1>1
  <2> HIDE DEF t
  <2>2. /\ 1 \in 1 .. Len(t) /\ 4 \in 1 + 1 .. Len(t)
        /\ \A i \in 1 .. Len(t) : i \notin {1, 4} => i \in {2, 3}
    BY <2>1
  <2> QED BY <1>2, <2>1, <2>2 DEF t
<1> QED BY <1>3, <1>4, <1>5

\* The calls may be made where the call at hand is.
Fits(calls) ==
  /\ calls \in Seq(PushedCall)
  /\ \/ calls \in Seq(ExprCall \cup BracketCall)
     \/ This.fn \in LoopHeadFns \cup StatementFns /\ calls \in Seq(LoopHeadCall)
     \/ This.fn \in StatementFns /\ ~LoopStart

LEMMA FittingCalls ==
  ASSUME NEW calls
  PROVE  /\ calls \in Seq(ExprCall) => Fits(calls)
         /\ calls \in Seq(ExprCall \cup BracketCall) => Fits(calls) /\ calls \in Seq(AnyCall)
         /\ Fits(calls) => calls \in Seq(AnyCall)
<1>1. calls \in Seq(ExprCall) => calls \in Seq(ExprCall \cup BracketCall)
  OBVIOUS
<1>2. calls \in Seq(ExprCall \cup BracketCall) => calls \in Seq(PushedCall)
  BY DEF PushedCall, LoopHeadCall
<1>3. calls \in Seq(PushedCall) => calls \in Seq(AnyCall)
  BY DEF AnyCall
<1> QED BY <1>1, <1>2, <1>3 DEF Fits

LEMMA FittingGo ==
  ASSUME ParserInv, Running, todo # <<>>, This.fn \notin {"leave", "program_items"},
         NEW calls, Fits(calls), Go(calls),
         la' \in Seq(Token), Len(la') <= 2, value' \in Values,
         \A q \in BracketStacks : Moves(This, open, q) => Brackets(calls, open', q)
  PROVE  ParserInv'
BY PlacedGoKeeps DEF Fits

\* A step that makes calls which leave the brackets alone.
LEMMA BalancedGo ==
  ASSUME ParserInv, NEW f, At(f), Calm(f), NEW calls, Fits(calls), Go(calls),
         Balanced(calls), Peek \/ (f \notin Tokenless /\ PlainRead), value' \in Values
  PROVE  ParserInv'
<1>1. /\ Running /\ todo # <<>> /\ Neutral(This) /\ PlainStep
      /\ This.fn \notin {"leave", "program_items"}
  BY Start DEF PlainStep
<1>2. la' \in Seq(Token) /\ Len(la') <= 2 /\ open' = open
  BY <1>1, PlainStepTypes
<1>3. \A q \in BracketStacks : Moves(This, open, q) => Brackets(calls, open', q)
  BY <1>1, <1>2 DEF Moves, Balanced
<1> QED BY <1>1, <1>2, <1>3, FittingGo

\* A step that reads an opening bracket, and makes calls that close it.
LEMMA OpenedTypes ==
  ASSUME ParserInv, Running, todo # <<>>, la # <<>>, NEW v \in Openers, Is(v), Read
  PROVE  /\ la' \in Seq(Token) /\ Len(la') <= 2
         /\ open' = Append(open, Closer(v)) /\ open \in BracketStacks
<1>1. open' = Append(open, Closer(v))
  BY DEF Read, OpenAfter, Is, Openers
<1> QED BY <1>1, ReadTypes, AtHand DEF Alive, Running

LEMMA OpenedGo ==
  ASSUME ParserInv, NEW f, At(f), Calm(f), f \notin Tokenless, NEW v \in Openers, Is(v), Read,
         NEW calls, Fits(calls), Go(calls), Closes(calls, Closer(v)), value' \in Values
  PROVE  ParserInv'
<1>1. /\ Running /\ todo # <<>> /\ la # <<>> /\ Neutral(This)
      /\ This.fn \notin {"leave", "program_items"}
  BY Start
<1>2. /\ la' \in Seq(Token) /\ Len(la') <= 2
      /\ open' = Append(open, Closer(v)) /\ open \in BracketStacks
  BY <1>1, OpenedTypes
<1>3. \A q \in BracketStacks : Moves(This, open, q) => Brackets(calls, open', q)
  BY <1>1, <1>2 DEF Moves, Closes
<1> QED BY <1>1, <1>2, <1>3, FittingGo

\* A step of a function that closes a bracket, and makes calls that do.
LEMMA ClosingGo ==
  ASSUME ParserInv, NEW f, At(f), NEW v,
         \/ f \in ForFns \cup {"for_lexical"} /\ v = ")"
         \/ f = "switch_cases" /\ v = "}",
         NEW calls, Fits(calls), Go(calls), Closes(calls, v), PlainStep, value' \in Values
  PROVE  ParserInv'
<1>1. Running /\ todo # <<>> /\ This.fn = f /\ This.fn \notin {"leave", "program_items"}
  BY AtCall DEF ForFns
<1>2. la' \in Seq(Token) /\ Len(la') <= 2 /\ open' = open
  BY <1>1, PlainStepTypes
<1>3. ASSUME NEW q \in BracketStacks, Moves(This, open, q) PROVE Brackets(calls, open', q)
  <2>1. open = Append(q, v)
    BY <1>1, <1>3 DEF Moves, ClosesParen, ForFns
  <2> QED BY <1>2, <2>1 DEF Closes
<1> QED BY <1>1, <1>2, <1>3, FittingGo

LEMMA BracketCalls ==
  /\ Expect("(") \in BracketCall /\ Expect("[") \in BracketCall /\ Expect("{") \in BracketCall
  /\ Expect(")") \in BracketCall /\ Expect("]") \in BracketCall /\ Expect("}") \in BracketCall
  /\ Closer("(") = ")" /\ Closer("[") = "]" /\ Closer("{") = "}"
  /\ "(" \in Openers /\ "[" \in Openers /\ "{" \in Openers
  /\ ")" \in Closers /\ "]" \in Closers /\ "}" \in Closers
BY DEF Expect, BracketCall, Closer, Openers, Closers

LEMMA StmtCalls ==
  /\ Call("program_items") \in StmtCall /\ Call("statement_list") \in StmtCall
  /\ Call("else_opt") \in StmtCall /\ Call("switch_body") \in StmtCall
  /\ Call("break_argument") \in StmtCall /\ Call("continue_argument") \in StmtCall
  /\ Call("return_argument") \in StmtCall /\ Call("return_check") \in StmtCall
  /\ Call("throw_argument") \in StmtCall /\ Call("handlers") \in StmtCall
  /\ Call("catch_opt") \in StmtCall /\ Call("finally_opt") \in StmtCall
  /\ Call("body_directives") \in StmtCall
  /\ Statement \in StmtCall /\ Declaration \in StmtCall
  /\ \A ls \in SUBSET Label :
       /\ [fn |-> "labels", labels |-> ls] \in StmtCall
       /\ [fn |-> "labelled_body", labels |-> ls] \in StmtCall
<1>1. \A f \in StmtFns : Call(f) \in StmtCall
  BY DEF Call, StmtCall
<1>2. Statement \in StmtCall /\ Declaration \in StmtCall
  BY DEF Statement, Declaration, StmtCall
<1>3. \A ls \in SUBSET Label :
        /\ [fn |-> "labels", labels |-> ls] \in StmtCall
        /\ [fn |-> "labelled_body", labels |-> ls] \in StmtCall
  BY DEF StmtCall
<1> QED BY <1>1, <1>2, <1>3 DEF StmtFns

LEMMA ForCalls ==
  /\ Call("for_head") \in ForCall /\ Call("for_var") \in ForCall
  /\ Call("for_let") \in ForCall /\ Call("for_const") \in ForCall
  /\ Call("for_var_init") \in ForCall /\ Call("for_expr") \in ForCall
  /\ Call("more_for") \in ForCall /\ Call("for_update") \in ForCall
  /\ Call("iteration_body") \in LoopCall
BY DEF Call, ForCall, ForFns, LoopCall

LEMMA CallsNeutral ==
  /\ \A c \in ExprCall : c \in AnyCall /\ Neutral(c)
  /\ \A c \in LoopCall : c \in AnyCall /\ Neutral(c)
  /\ \A c \in StmtCall : c \in AnyCall /\ Neutral(c)
BY NeutralCalls DEF AnyCall, PushedCall, LoopHeadCall

\* The pairs of brackets of the grammar.
LEMMA FormalParametersBrackets ==
  FormalParameters \in Seq(ExprCall \cup BracketCall) /\ Balanced(FormalParameters)
<1>1. FormalParameters \in Seq(ExprCall \cup BracketCall)
  BY CallsOfExpr, BracketCalls, Tuples, Zenon DEF FormalParameters
<1>2. /\ Call("parameter") \in AnyCall /\ Neutral(Call("parameter"))
      /\ Expect(")") \in AnyCall /\ Ends(Expect(")"), Closer("("))
  BY CallsOfExpr, CallsNeutral, BracketCalls, WhatEnds, Zenon
<1>3. Balanced(FormalParameters)
  BY <1>2, BracketCalls, BalancedTuples, Zenon DEF FormalParameters
<1> QED BY <1>1, <1>3

LEMMA BlockBrackets ==
  Block \in Seq(PushedCall) /\ Block \in Seq(AnyCall) /\ Balanced(Block)
<1>1. /\ Call("statement_list") \in PushedCall /\ Neutral(Call("statement_list"))
      /\ Expect("{") \in PushedCall /\ Expect("}") \in PushedCall
      /\ Ends(Expect("}"), Closer("{"))
  BY StmtCalls, CallsNeutral, BracketCalls, WhatEnds, Zenon DEF PushedCall, LoopHeadCall
<1>2. Block \in Seq(PushedCall)
  BY <1>1, Tuples, Zenon DEF Block
<1>3. Call("statement_list") \in AnyCall /\ Expect("}") \in AnyCall
  BY <1>1, Zenon DEF AnyCall
<1>4. Balanced(Block)
  BY <1>1, <1>3, BracketCalls, BalancedTuples, Zenon DEF Block
<1>5. Block \in Seq(AnyCall)
  BY <1>2 DEF AnyCall
<1> QED BY <1>2, <1>4, <1>5

LEMMA ExprSeqs ==
  ASSUME NEW cs \in Seq(ExprCall)
  PROVE  cs \in Seq(ExprCall \cup BracketCall) /\ Balanced(cs)
BY BalancedCalls

LEMMA ExprConcat ==
  ASSUME NEW cs \in Seq(ExprCall \cup BracketCall), NEW ds \in Seq(ExprCall \cup BracketCall),
         NEW v \in Closers
  PROVE  /\ cs \o ds \in Seq(ExprCall \cup BracketCall)
         /\ Balanced(cs) /\ Balanced(ds) => Balanced(cs \o ds)
         /\ Balanced(cs) /\ Closes(ds, v) => Closes(cs \o ds, v)
         /\ Closes(cs, v) /\ Balanced(ds) => Closes(cs \o ds, v)
<1>1. cs \in Seq(AnyCall) /\ ds \in Seq(AnyCall)
  BY FittingCalls
<1>2. cs \o ds \in Seq(ExprCall \cup BracketCall)
  BY ConcatProperties
<1> QED BY <1>1, <1>2, BalancedConcat

LEMMA FunctionBrackets ==
  ASSUME NEW name \in {"id", "id_opt"}
  PROVE  Function(name) \in Seq(ExprCall \cup BracketCall) /\ Balanced(Function(name))
<1> DEFINE a == <<Call("generator"), Call(name)>>
           b == <<Call("function_body")>>
<1>1. a \in Seq(ExprCall) /\ b \in Seq(ExprCall)
  BY CallsOfExpr, Tuples, Zenon
<1>2. Function(name) = (a \o FormalParameters) \o b
  BY DEF Function
<1> HIDE DEF a, b
<1>3. ")" \in Closers
  BY DEF Closers
<1>4. /\ a \in Seq(ExprCall \cup BracketCall) /\ Balanced(a)
      /\ b \in Seq(ExprCall \cup BracketCall) /\ Balanced(b)
  BY <1>1, ExprSeqs
<1>5. /\ a \o FormalParameters \in Seq(ExprCall \cup BracketCall)
      /\ Balanced(a \o FormalParameters)
  BY <1>3, <1>4, FormalParametersBrackets, ExprConcat
<1>6. /\ (a \o FormalParameters) \o b \in Seq(ExprCall \cup BracketCall)
      /\ Balanced((a \o FormalParameters) \o b)
  BY <1>3, <1>4, <1>5, ExprConcat
<1> QED BY <1>2, <1>6, Zenon

LEMMA MethodBrackets ==
  Method \in Seq(ExprCall \cup BracketCall) /\ Balanced(Method)
<1> DEFINE b == <<Call("function_body"), Build("value")>>
<1>1. b \in Seq(ExprCall)
  BY CallsOfExpr, Tuples, Zenon
<1>2. Method = FormalParameters \o b
  BY DEF Method
<1> HIDE DEF b
<1>3. ")" \in Closers
  BY DEF Closers
<1>4. b \in Seq(ExprCall \cup BracketCall) /\ Balanced(b)
  BY <1>1, ExprSeqs
<1>5. FormalParameters \o b \in Seq(ExprCall \cup BracketCall) /\ Balanced(FormalParameters \o b)
  BY <1>3, <1>4, FormalParametersBrackets, ExprConcat
<1> QED BY <1>2, <1>5, Zenon

-----------------------------------------------------------------------------
(***************************************************************************)
(* The scopes of the grammar of expressions, and its functions that open a bracket.*)
(***************************************************************************)
LEMMA ScopesTyped ==
  ASSUME NEW c \in ContextRecord
  PROVE  /\ \A v \in BOOLEAN : AllowIn(c, v) \in Scope
         /\ FunctionBody(c) \in Scope /\ IterationBody(c) \in Scope
         /\ SwitchStatement(c) \in Scope
         /\ \A ls \in SUBSET Label, t \in LabelType : WithLabels(ls, t) \in Scope
         /\ FunctionBody(c).fn = "function_body" /\ IterationBody(c).fn = "iteration_body"
         /\ SwitchStatement(c).fn = "switch_statement"
<1>1. c.allow_in \in BOOLEAN /\ c.iteration \in BOOLEAN /\ c.switch \in BOOLEAN
  BY DEF ContextRecord
<1>2. \A v \in BOOLEAN : AllowIn(c, v) \in AllowInScope
  BY <1>1 DEF AllowIn, AllowInScope
<1>3. FunctionBody(c) \in FunctionScope
  BY DEF FunctionBody, FunctionScope
<1>4. IterationBody(c) \in FlagScope /\ SwitchStatement(c) \in FlagScope
  BY <1>1 DEF IterationBody, SwitchStatement, FlagScope
<1>5. \A ls \in SUBSET Label, t \in LabelType : WithLabels(ls, t) \in LabelScope
  BY DEF WithLabels, LabelScope
<1>6. /\ FunctionBody(c).fn = "function_body" /\ IterationBody(c).fn = "iteration_body"
      /\ SwitchStatement(c).fn = "switch_statement"
  BY DEF FunctionBody, IterationBody, SwitchStatement
<1> QED BY <1>2, <1>3, <1>4, <1>5, <1>6 DEF Scope

\* A step that opens an allow_in around calls of the grammar of expressions.
LEMMA EnterExprGo ==
  ASSUME ParserInv, NEW f, At(f), Calm(f), NEW v \in BOOLEAN,
         NEW calls \in Seq(ExprCall \cup BracketCall), GoInside(AllowIn(context, v), calls),
         \/ Peek /\ Balanced(calls)
         \/ f \notin Tokenless /\ Is("[") /\ Read /\ Closes(calls, "]"),
         UNCHANGED value
  PROVE  ParserInv'
<1>1. /\ Running /\ todo # <<>> /\ Neutral(This) /\ Alive /\ (f \notin Tokenless => la # <<>>)
      /\ This.fn \notin {"leave", "program_items"} /\ context \in ContextRecord
  BY Start, AtCall
<1>2. AllowIn(context, v) \in Scope /\ value' \in Values /\ open \in BracketStacks
  BY <1>1, ScopesTyped, SameValue, AtHand
<1>3. calls \in Seq(PushedCall)
  BY FittingCalls DEF Fits
<1>4. CASE Peek /\ Balanced(calls)
  <2>1. la' \in Seq(Token) /\ Len(la') <= 2 /\ Brackets(calls, open', open)
    BY <1>2, <1>4, PeekTypes DEF Balanced
  <2> QED BY <1>1, <1>2, <1>3, <2>1, EnterKeeps
<1>5. CASE f \notin Tokenless /\ Is("[") /\ Read /\ Closes(calls, "]")
  <2>1. /\ la' \in Seq(Token) /\ Len(la') <= 2
        /\ open' = Append(open, Closer("["))
    BY <1>1, <1>5, BracketCalls, OpenedTypes
  <2>2. Brackets(calls, open', open)
    BY <1>2, <1>5, <2>1, BracketCalls DEF Closes
  <2> QED BY <1>1, <1>2, <1>3, <2>1, <2>2, EnterKeeps
<1> QED BY <1>4, <1>5

LEMMA EnterAllowInKeeps == ASSUME ParserInv, EnterAllowIn PROVE ParserInv'
<1>1. Calm("allow_in")
  BY DEF Calm, ForFns
<1>2. At("allow_in") /\ Peek /\ UNCHANGED value
      /\ GoInside(AllowIn(context, This.value), This.calls)
  BY DEF EnterAllowIn, Peek
<1>3. This.value \in BOOLEAN /\ This.calls \in Seq(InnerCall)
  BY <1>1, <1>2, Start, CallFields
<1>4. InnerCall \subseteq ExprCall
  BY DEF InnerCall, ExprCall, ExprFns
<1>5. This.calls \in Seq(ExprCall)
  BY <1>3, <1>4
<1>6. This.calls \in Seq(ExprCall \cup BracketCall) /\ Balanced(This.calls)
  BY <1>5, ExprSeqs
<1> QED BY <1>1, <1>2, <1>3, <1>6, EnterExprGo, Zenon

LEMMA FunctionBodyCallKeeps == ASSUME ParserInv, FunctionBodyCall PROVE ParserInv'
<1> DEFINE calls == <<Expect("{"), Call("body_directives"), Call("statement_list"), Expect("}")>>
           s == FunctionBody(context)
<1>1. Calm("function_body")
  BY DEF Calm, ForFns
<1>2. At("function_body") /\ Peek /\ UNCHANGED value /\ GoInside(s, calls)
  BY DEF FunctionBodyCall, Peek
<1>3. /\ Running /\ todo # <<>> /\ Neutral(This) /\ Alive
      /\ This.fn \notin {"leave", "program_items"} /\ context \in ContextRecord
  BY <1>1, <1>2, Start, AtCall
<1>4. /\ Call("statement_list") \in PushedCall /\ Call("body_directives") \in PushedCall
      /\ Expect("{") \in PushedCall /\ Expect("}") \in PushedCall
  BY StmtCalls, BracketCalls, Zenon DEF PushedCall, LoopHeadCall
<1>5. calls \in Seq(PushedCall)
  BY <1>4, Tuples, Zenon
<1>6. Balanced(calls)
  BY BracketCalls, StmtCalls, CallsNeutral, WhatEnds, BalancedTuples, Zenon
<1> HIDE DEF calls
<1>7. s \in Scope /\ s.fn = "function_body" /\ scopes \in ScopeStacks /\ open \in BracketStacks
      /\ value' \in Values
  BY <1>2, <1>3, ScopesTyped, AtHand, SameValue
<1>8. StatementPlace(Append(scopes, s))
  BY <1>7, FunctionPlace
<1>9. la' \in Seq(Token) /\ Len(la') <= 2 /\ Brackets(calls, open', open)
  BY <1>2, <1>6, <1>7, PeekTypes DEF Balanced
<1> QED BY <1>2, <1>3, <1>5, <1>7, <1>8, <1>9, EnterKeeps

LEMMA ArgumentsKeeps == ASSUME ParserInv, Arguments PROVE ParserInv'
<1> DEFINE calls == <<Expect("("), Call("argument_list"), Expect(")")>>
<1>1. Calm("arguments")
  BY DEF Calm, ForFns
<1>2. calls \in Seq(ExprCall \cup BracketCall)
  BY CallsOfExpr, BracketCalls, Tuples, Zenon
<1>3. Balanced(calls)
  BY BracketCalls, CallsOfExpr, CallsNeutral, WhatEnds, BalancedTuples, Zenon
<1>4. At("arguments") /\ Peek /\ UNCHANGED value /\ GoInside(AllowIn(context, TRUE), calls)
  BY DEF Arguments
<1> HIDE DEF calls
<1> QED BY <1>1, <1>2, <1>3, <1>4, EnterExprGo

LEMMA DerefKeeps ==
  ASSUME ParserInv, NEW f, At(f), Calm(f), f \notin Tokenless, IsOneOf({".", "["}),
         NEW rest \in ExprCall, Deref(rest), UNCHANGED value
  PROVE  ParserInv'
<1> DEFINE r == <<Build("target"), rest>>
           i == <<Call("id_name")>>
           e == <<WithAllowIn(TRUE, <<Expression>>), Expect("]")>>
<1>1. r \in Seq(ExprCall) /\ i \in Seq(ExprCall)
  BY CallsOfExpr, Tuples, Zenon
<1>2. <<Expression>> \in Seq(InnerCall)
  BY InnerCalls, Tuples, Zenon DEF Expression
<1>3. WithAllowIn(TRUE, <<Expression>>) \in ExprCall
  BY <1>2, ExprCalls
<1>4. e \in Seq(ExprCall \cup BracketCall)
  BY <1>3, BracketCalls, Tuples, Zenon
<1>5. Closes(e, "]")
  BY <1>3, BracketCalls, CallsNeutral, WhatEnds, ClosesTuples, Zenon
<1>6. Read /\ Go((IF Is(".") THEN i ELSE e) \o r)
  BY DEF Deref
<1> HIDE DEF r, i, e
<1>7. value' \in Values /\ "]" \in Closers
  BY SameValue, BracketCalls
<1>8. CASE Is(".")
  <2>1. i \o r \in Seq(ExprCall) /\ Go(i \o r)
    BY <1>1, <1>6, <1>8, ConcatProperties
  <2> QED BY <1>6, <1>7, <1>8, <2>1, ExprGo, PlainIs DEF PlainRead
<1>9. CASE Is("[") /\ ~Is(".")
  <2>1. r \in Seq(ExprCall \cup BracketCall) /\ Balanced(r)
    BY <1>1, ExprSeqs
  <2>2. e \o r \in Seq(ExprCall \cup BracketCall) /\ Closes(e \o r, "]")
    BY <1>4, <1>5, <1>7, <2>1, ExprConcat
  <2>3. Go(e \o r)
    BY <1>6, <1>9
  <2>4. Fits(e \o r) /\ Closes(e \o r, Closer("["))
    BY <2>2, FittingCalls, BracketCalls
  <2> QED BY <1>6, <1>7, <1>9, <2>3, <2>4, BracketCalls, OpenedGo
<1> QED BY <1>8, <1>9 DEF Is, IsOneOf

LEMMA InExpressionCall == InExpression \in ExprCall
<1>1. <<Expression>> \in Seq(InnerCall)
  BY InnerCalls, Tuples, Zenon DEF Expression
<1> QED BY <1>1, ExprCalls DEF InExpression

LEMMA ExprFunction ==
  ASSUME NEW c \in AnyCall, c.fn \in {"more_new_expression", "more_suffixes"}
  PROVE  c \in ExprCall
BY FnsOfCalls
   DEF AnyCall, PushedCall, LoopHeadCall, ForFns, StmtFns, Holders

LEMMA MoreNewExpressionKeeps == ASSUME ParserInv, MoreNewExpression PROVE ParserInv'
<1>1. Calm("more_new_expression") /\ "more_new_expression" \notin Tokenless
  BY DEF Calm, ForFns, Tokenless
<1>2. At("more_new_expression") /\ UNCHANGED value
  BY DEF MoreNewExpression
<1>3. This.n \in Nat /\ This.fn = "more_new_expression" /\ This \in AnyCall
  BY <1>1, <1>2, Start, CallFields
<1>4. [fn |-> "new_arguments", n |-> This.n] \in ExprCall
  BY <1>3, ExprCalls
<1>5. <<[fn |-> "new_arguments", n |-> This.n]>> \in Seq(ExprCall)
  BY <1>4, Tuples, Zenon
<1>6. This \in ExprCall
  BY <1>3, ExprFunction
<1>7. \/ IsOneOf({".", "["}) /\ Deref(This)
      \/ Peek /\ Go(<<[fn |-> "new_arguments", n |-> This.n]>>)
  BY DEF MoreNewExpression
<1> QED BY <1>1, <1>2, <1>5, <1>6, <1>7, DerefKeeps, ExprGo, SameValue, Zenon

LEMMA MoreSuffixesKeeps == ASSUME ParserInv, MoreSuffixes PROVE ParserInv'
<1>1. Calm("more_suffixes") /\ "more_suffixes" \notin Tokenless
  BY DEF Calm, ForFns, Tokenless
<1>2. At("more_suffixes") /\ UNCHANGED value
  BY DEF MoreSuffixes
<1>3. This.fn = "more_suffixes" /\ This \in AnyCall
  BY <1>1, <1>2, Start
<1>4. This \in ExprCall
  BY <1>3, ExprFunction
<1>5. <<Call("arguments"), Build("value"), This>> \in Seq(ExprCall)
  BY <1>4, CallsOfExpr, Tuples, Zenon
<1>6. \/ IsOneOf({".", "["}) /\ Deref(This)
      \/ Peek /\ Go(<<Call("arguments"), Build("value"), This>>)
      \/ Peek /\ Go(<<>>)
  BY DEF MoreSuffixes
<1> QED BY <1>1, <1>2, <1>4, <1>5, <1>6, DerefKeeps, ExprGo, SameValue, Tuples, Zenon

LEMMA PrimaryExpressionKeeps == ASSUME ParserInv, PrimaryExpression PROVE ParserInv'
<1> DEFINE a == <<[fn |-> "array_elements", patt |-> TRUE], Expect("]")>>
           p == <<[fn |-> "properties", patt |-> TRUE], Expect("}")>>
           f == Function("id_opt") \o <<Build("value")>>
           q == <<Call("paren_expression")>>
<1>1. Calm("primary_expression") /\ "primary_expression" \notin Tokenless
  BY DEF Calm, ForFns, Tokenless
<1>2. At("primary_expression") /\ "target" \in Values /\ "value" \in Values
  BY DEF PrimaryExpression, Values
<1>3. /\ [fn |-> "array_elements", patt |-> TRUE] \in ExprCall
      /\ [fn |-> "properties", patt |-> TRUE] \in ExprCall
  BY ExprCalls
<1>4. /\ a \in Seq(ExprCall \cup BracketCall) /\ p \in Seq(ExprCall \cup BracketCall)
      /\ q \in Seq(ExprCall)
  BY <1>3, CallsOfExpr, BracketCalls, Tuples, Zenon
<1>5. Closes(a, "]") /\ Closes(p, "}")
  BY <1>3, BracketCalls, CallsNeutral, WhatEnds, ClosesTuples, Zenon
<1>6. f \in Seq(ExprCall \cup BracketCall) /\ Balanced(f)
  <2> DEFINE v == <<Build("value")>>
  <2>1. v \in Seq(ExprCall)
    BY CallsOfExpr, Tuples, Zenon
  <2> HIDE DEF v
  <2>2. v \in Seq(ExprCall \cup BracketCall) /\ Balanced(v) /\ "id_opt" \in {"id", "id_opt"}
    BY <2>1, ExprSeqs
  <2>3. /\ Function("id_opt") \in Seq(ExprCall \cup BracketCall) /\ Balanced(Function("id_opt"))
        /\ ")" \in Closers
    BY <2>2, FunctionBrackets, BracketCalls
  <2> QED BY <2>2, <2>3, ExprConcat DEF v
<1>7. \/ IsIdentifier /\ Read /\ Go(<<>>) /\ value' = "target"
      \/ IsOneOf(Literals \cup {"this"}) /\ Read /\ Go(<<>>) /\ value' = "value"
      \/ Is("[") /\ Read /\ GoInside(AllowIn(context, TRUE), a) /\ UNCHANGED value
      \/ Is("{") /\ Read /\ Go(p) /\ UNCHANGED value
      \/ Is("function") /\ Read /\ Go(f) /\ UNCHANGED value
      \/ Peek /\ Go(q) /\ UNCHANGED value
      \/ Unexpected
  BY Zenon DEF PrimaryExpression
<1> HIDE DEF a, p, f, q
<1>8. CASE IsIdentifier /\ Read /\ Go(<<>>) /\ value' = "target"
  BY <1>1, <1>2, <1>8, ExprGo, PlainIdentifier, Tuples, Zenon DEF PlainRead
<1>9. CASE IsOneOf(Literals \cup {"this"}) /\ Read /\ Go(<<>>) /\ value' = "value"
  BY <1>1, <1>2, <1>9, ExprGo, PlainTokens, Tuples, Zenon DEF PlainRead
<1>10. CASE Is("[") /\ Read /\ GoInside(AllowIn(context, TRUE), a) /\ UNCHANGED value
  BY <1>1, <1>2, <1>4, <1>5, <1>10, EnterExprGo, Zenon
<1>11. CASE Is("{") /\ Read /\ Go(p) /\ UNCHANGED value
  <2>1. Fits(p) /\ Closes(p, Closer("{"))
    BY <1>4, <1>5, FittingCalls, BracketCalls, Zenon
  <2> QED BY <1>1, <1>2, <1>11, <2>1, OpenedGo, BracketCalls, SameValue, Zenon
<1>12. CASE Is("function") /\ Read /\ Go(f) /\ UNCHANGED value
  BY <1>1, <1>2, <1>6, <1>12, BalancedGo, FittingCalls, SameValue, PlainIs, Zenon
     DEF PlainRead
<1>13. CASE Peek /\ Go(q) /\ UNCHANGED value
  BY <1>1, <1>2, <1>4, <1>13, ExprGo, SameValue, Zenon
<1>14. CASE Unexpected
  BY <1>14, Refused
<1> QED BY <1>7, <1>8, <1>9, <1>10, <1>11, <1>12, <1>13, <1>14

LEMMA ParenExpressionKeeps == ASSUME ParserInv, ParenExpression PROVE ParserInv'
<1> DEFINE p == <<WithAllowIn(TRUE, <<Expression>>), Expect(")")>>
<1>1. Calm("paren_expression") /\ "paren_expression" \notin Tokenless
  BY DEF Calm, ForFns, Tokenless
<1>2. InExpression \in ExprCall
  BY InExpressionCall
<1>3. p \in Seq(ExprCall \cup BracketCall) /\ Closes(p, ")")
  BY <1>2, BracketCalls, CallsNeutral, WhatEnds, ClosesTuples, Tuples, Zenon DEF InExpression
<1>4. /\ At("paren_expression")
      /\ (Is("(") /\ Read /\ Go(p) /\ UNCHANGED value) \/ Unexpected
  BY DEF ParenExpression
<1> HIDE DEF p
<1>5. Fits(p) /\ Closes(p, Closer("("))
  BY <1>3, FittingCalls, BracketCalls, Zenon
<1> QED BY <1>1, <1>4, <1>5, OpenedGo, BracketCalls, SameValue, Refused, Zenon

\* A step that gives a token back.
LEMMA UnreadGo ==
  ASSUME ParserInv, NEW f \in Holders, At(f), Calm(f), Unread(This.token),
         NEW calls, Fits(calls), Go(calls), Balanced(calls), UNCHANGED value
  PROVE  ParserInv'
<1>1. /\ Running /\ todo # <<>> /\ Neutral(This) /\ This.fn \in Holders
      /\ This.fn \notin {"leave", "program_items"}
  BY Start
<1>2. la' \in Seq(Token) /\ Len(la') <= 2 /\ open' = open /\ value' \in Values
  BY <1>1, UnreadTypes, SameValue
<1>3. \A q \in BracketStacks : Moves(This, open, q) => Brackets(calls, open', q)
  BY <1>1, <1>2 DEF Moves, Balanced
<1> QED BY <1>1, <1>2, <1>3, FittingGo

\* In a place for statements, all calls are.
LEMMA StatementFits ==
  ASSUME ParserInv, NEW f \in StatementFns, f # "stmt_list_item", At(f),
         NEW calls \in Seq(PushedCall)
  PROVE  Fits(calls)
<1>1. This.fn = f
  BY AtCall
<1>2. ~LoopStart
  BY <1>1 DEF LoopStart, This, Statement
<1> QED BY <1>1, <1>2 DEF Fits

\* A step that reads a token and holds it.
LEMMA HoldGo ==
  ASSUME ParserInv, NEW f, At(f), Calm(f), f \notin Tokenless, PlainRead, UNCHANGED value,
         NEW h \in HeldCall, h.token = Tok, Go(<<h>>), h.fn # "for_lexical",
         h.fn = "reserved_key" \/ (f \in StatementFns /\ ~LoopStart)
  PROVE  ParserInv'
<1>1. /\ Running /\ todo # <<>> /\ la # <<>> /\ Neutral(This) /\ This.fn = f /\ Alive
      /\ This.fn \notin {"leave", "program_items"}
  BY Start, AtCall
<1>2. h.fn \in Holders /\ h.fn # "leave"
  BY FnsOfCalls DEF Holders
<1>3. Neutral(h)
  BY <1>2, NeutralOthers
<1>4. \A q : Moves(This, open, q) => Moves(h, open, q)
  BY <1>1, <1>3, NeutralMoves DEF Moves
<1>5. Placed(h, scopes, scopes)
  <2>1. CASE h.fn = "reserved_key"
    BY <2>1 DEF Placed, LoopHeadFns, StatementFns, ForFns, StmtFns
  <2>2. CASE f \in StatementFns /\ ~LoopStart
    <3>1. StatementPlace(scopes)
      BY <1>1, <2>2, AtHand
    <3> QED BY <3>1, StatementPlaced
  <2> QED BY <2>1, <2>2
<1> QED BY <1>1, <1>4, <1>5, HoldKeeps

LEMMA HeldToken ==
  ASSUME ParserInv, la # <<>>
  PROVE  Tok \in LexedToken
BY TokenAtHand, TokenType DEF ParserInv, Types, TypeOK

LEMMA ReservedPlain ==
  IsOneOf(Reserved) => PlainToken
BY PlainTokens

LEMMA ObjectPropertyKeeps == ASSUME ParserInv, ObjectProperty PROVE ParserInv'
<1> DEFINE a == [fn |-> "accessor", kind |-> Tok.value]
           k == [fn |-> "reserved_key", token |-> Tok]
<1>1. Calm("object_property") /\ "object_property" \notin Tokenless
  BY DEF Calm, ForFns, Tokenless
<1>2. At("object_property") /\ UNCHANGED value
  BY DEF ObjectProperty
<1>3. PropertyKey(TRUE) \in ExprCall /\ PropertyKey(FALSE) \in ExprCall
  BY ExprCalls DEF PropertyKey
<1>4. <<PropertyKey(TRUE)>> \in Seq(ExprCall) /\ <<PropertyKey(FALSE)>> \in Seq(ExprCall)
  BY <1>3, Tuples, Zenon
<1>5. IsOneOf({"get", "set"}) => a \in ExprCall
  <2>1. IsOneOf({"get", "set"}) => Tok.value \in {"get", "set"}
    BY Zenon DEF IsOneOf
  <2> QED BY <2>1, ExprCalls, Zenon
<1>6. IsOneOf({"get", "set"}) => <<a>> \in Seq(ExprCall)
  BY <1>5, Tuples, Zenon
<1>7. \/ IsOneOf({"get", "set"}) /\ Read /\ Go(<<a>>)
      \/ Is("*") /\ Read /\ Go(<<PropertyKey(TRUE)>>)
      \/ IsOneOf(Reserved) /\ Read /\ Go(<<k>>)
      \/ Peek /\ Go(<<PropertyKey(FALSE)>>)
  BY Zenon DEF ObjectProperty
<1>8. k \in HeldCall /\ k.token = Tok /\ k.fn = "reserved_key"
  <2>1. Tok \in LexedToken
    BY <1>1, <1>2, Start, HeldToken
  <2> QED BY <2>1 DEF HeldCall
<1> HIDE DEF a, k
<1>9. CASE IsOneOf(Reserved) /\ Read /\ Go(<<k>>)
  <2>1. PlainRead /\ k.fn # "for_lexical"
    BY <1>8, <1>9, ReservedPlain DEF PlainRead
  <2> QED BY <1>1, <1>2, <1>8, <1>9, <2>1, HoldGo
<1>10. CASE IsOneOf({"get", "set"}) /\ Read /\ Go(<<a>>)
  BY <1>1, <1>2, <1>6, <1>10, ExprGo, SameValue, PlainIs, Zenon DEF PlainRead
<1>11. CASE Is("*") /\ Read /\ Go(<<PropertyKey(TRUE)>>)
  BY <1>1, <1>2, <1>4, <1>11, ExprGo, SameValue, PlainIs, Zenon DEF PlainRead
<1>12. CASE Peek /\ Go(<<PropertyKey(FALSE)>>)
  BY <1>1, <1>2, <1>4, <1>12, ExprGo, SameValue, Zenon
<1> QED BY <1>7, <1>9, <1>10, <1>11, <1>12

LEMMA KeyPlain == IsKey => PlainToken
BY PlainTokens DEF IsKey, IsOneOf, PlainToken, Reserved, Openers, Closers

LEMMA AccessorKeeps == ASSUME ParserInv, Accessor PROVE ParserInv'
<1> DEFINE o == <<Expect("(")>>
           p == IF This.kind = "set" THEN <<Call("pattern")>> ELSE <<>>
           c == <<Expect(")"), Call("function_body"), Build("value")>>
           m == <<MorePropInit(TRUE)>>
<1>1. Calm("accessor") /\ "accessor" \notin Tokenless
  BY DEF Calm, ForFns, Tokenless
<1>2. At("accessor") /\ UNCHANGED value
  BY DEF Accessor
<1>3. MorePropInit(TRUE) \in ExprCall
  BY ExprCalls DEF MorePropInit
<1>4. /\ m \in Seq(ExprCall) /\ p \in Seq(ExprCall)
      /\ o \in Seq(ExprCall \cup BracketCall) /\ c \in Seq(ExprCall \cup BracketCall)
  BY <1>3, CallsOfExpr, BracketCalls, Tuples, Zenon
<1>5. Closes(c, ")")
  BY CallsOfExpr, BracketCalls, CallsNeutral, WhatEnds, ClosesTuples, Zenon
<1>6. \/ IsKey /\ Read /\ Go((o \o p) \o c)
      \/ Peek /\ Go(m)
  BY Zenon DEF Accessor
<1>7. \A b \in BracketStacks : Brackets(o, b, Append(b, ")"))
  BY OpensBracket, BracketCalls
<1> HIDE DEF o, p, c, m
<1>8. p \in Seq(ExprCall \cup BracketCall) /\ Balanced(p)
  BY <1>4, ExprSeqs
<1>9. /\ o \in Seq(AnyCall) /\ p \in Seq(AnyCall) /\ c \in Seq(AnyCall)
      /\ (o \o p) \o c \in Seq(ExprCall \cup BracketCall) /\ o \o p \in Seq(AnyCall)
  BY <1>4, <1>8, FittingCalls, ConcatProperties
<1>10. Balanced((o \o p) \o c)
  <2> SUFFICES ASSUME NEW b \in BracketStacks PROVE Brackets((o \o p) \o c, b, b)
    BY DEF Balanced
  <2>1. Append(b, ")") \in BracketStacks
    BY AppendedBracket, BracketCalls
  <2>2. Brackets(p, Append(b, ")"), Append(b, ")"))
    BY <1>8, <2>1 DEF Balanced
  <2>3. Brackets(o \o p, b, Append(b, ")"))
    BY <1>7, <1>9, <2>2, BracketsConcat
  <2>4. Brackets(c, Append(b, ")"), b)
    BY <1>5 DEF Closes
  <2> QED BY <1>9, <2>3, <2>4, BracketsConcat
<1>11. CASE IsKey /\ Read /\ Go((o \o p) \o c)
  BY <1>1, <1>2, <1>9, <1>10, <1>11, BalancedGo, FittingCalls, SameValue, KeyPlain, Zenon
     DEF PlainRead
<1>12. CASE Peek /\ Go(m)
  BY <1>1, <1>2, <1>4, <1>12, ExprGo, SameValue, Zenon
<1> QED BY <1>6, <1>11, <1>12

LEMMA ReservedKeyKeeps == ASSUME ParserInv, ReservedKey PROVE ParserInv'
<1>1. Calm("reserved_key") /\ "reserved_key" \in Holders
  BY DEF Calm, ForFns, Holders
<1>2. /\ At("reserved_key")
      /\ \/ Unexpected
         \/ Unread(This.token) /\ Go(<<PropertyKey(FALSE)>>) /\ UNCHANGED value
  BY Zenon DEF ReservedKey
<1>3. PropertyKey(FALSE) \in ExprCall
  BY ExprCalls DEF PropertyKey
<1> DEFINE c == <<PropertyKey(FALSE)>>
<1>4. c \in Seq(ExprCall)
  BY <1>3, Tuples, Zenon
<1> HIDE DEF c
<1>5. Fits(c) /\ Balanced(c)
  BY <1>4, FittingCalls, ExprSeqs
<1> QED BY <1>1, <1>2, <1>5, UnreadGo, Refused, Zenon DEF c

LEMMA PropertyKeyCallKeeps == ASSUME ParserInv, PropertyKeyCall PROVE ParserInv'
<1> DEFINE m == <<MorePropInit(~IsOneOf({"string", "number"}))>>
<1>1. Calm("property_key") /\ "property_key" \notin Tokenless
  BY DEF Calm, ForFns, Tokenless
<1>2. MorePropInit(~IsOneOf({"string", "number"})) \in ExprCall
  BY ExprCalls DEF MorePropInit
<1>3. m \in Seq(ExprCall)
  BY <1>2, Tuples, Zenon
<1>4. /\ At("property_key")
      /\ \/ IsKey /\ Read /\ Go(Method) /\ UNCHANGED value
         \/ IsKey /\ Read /\ Go(m) /\ UNCHANGED value
         \/ Unexpected
  BY Zenon DEF PropertyKeyCall
<1> HIDE DEF m
<1>5. Fits(Method) /\ Balanced(Method)
  BY MethodBrackets, FittingCalls, Zenon
<1> QED BY <1>1, <1>3, <1>4, <1>5, ExprGo, BalancedGo, SameValue, KeyPlain, Refused, Zenon
   DEF PlainRead

LEMMA MorePropInitCallKeeps == ASSUME ParserInv, MorePropInitCall PROVE ParserInv'
<1> DEFINE i == <<WithAllowIn(TRUE, <<AssignmentExpression>>)>>
<1>1. Calm("more_prop_init") /\ "more_prop_init" \notin Tokenless /\ "target" \in Values
  BY DEF Calm, ForFns, Tokenless, Values
<1>2. <<AssignmentExpression>> \in Seq(InnerCall)
  BY InnerCalls, Tuples, Zenon DEF AssignmentExpression
<1>3. WithAllowIn(TRUE, <<AssignmentExpression>>) \in ExprCall
  BY <1>2, ExprCalls
<1>4. i \in Seq(ExprCall)
  BY <1>3, Tuples, Zenon
<1>5. /\ At("more_prop_init")
      /\ \/ Is(":") /\ Read /\ Go(i) /\ UNCHANGED value
         \/ Peek /\ Go(Method) /\ UNCHANGED value
         \/ Peek /\ Go(<<>>) /\ value' = "target"
         \/ Unexpected
  BY Zenon DEF MorePropInitCall
<1> HIDE DEF i
<1>6. Fits(Method) /\ Balanced(Method)
  BY MethodBrackets, FittingCalls, Zenon
<1> QED BY <1>1, <1>4, <1>5, <1>6, ExprGo, BalancedGo, SameValue, PlainIs, Tuples, Refused, Zenon
   DEF PlainRead

LEMMA ExpectTokenKeeps == ASSUME ParserInv, ExpectToken PROVE ParserInv'
<1>1. /\ At("expect")
      /\ (Is(This.value) /\ Read /\ Go(<<>>) /\ UNCHANGED value) \/ Unexpected
  BY DEF ExpectToken
<1>2. /\ Running /\ Alive /\ todo # <<>> /\ la # <<>> /\ This \in AnyCall
      /\ This.fn = "expect" /\ This.fn \notin {"leave", "program_items"}
  BY <1>1, AtCall DEF Tokenless
<1>3. This.value \in {"while", ":", ";", "=", "target"} \cup Openers \cup Closers
  BY <1>2, CallFields
<1>4. CASE Is(This.value) /\ Read /\ Go(<<>>) /\ UNCHANGED value
  <2> DEFINE c == <<>>
  <2>1. c \in Seq(ExprCall) /\ Go(c)
    BY <1>4
  <2> HIDE DEF c
  <2>2. Fits(c) /\ Balanced(c) /\ value' \in Values
    BY <1>4, <2>1, FittingCalls, ExprSeqs, SameValue
  <2>3. la' \in Seq(Token) /\ Len(la') <= 2 /\ open \in BracketStacks
    BY <1>2, <1>4, ReadTypes, AtHand
  <2>4. open' = OpenAfter(This.value)
    BY <1>4 DEF Read, Is
  <2>5. ASSUME NEW q \in BracketStacks, Moves(This, open, q) PROVE open' = q
    <3>1. CASE This.value \in Openers
      BY <1>2, <2>4, <2>5, <3>1 DEF Moves, IsBracket, OpenAfter, Openers
    <3>2. CASE This.value \in Closers
      <4>1. open = Append(q, This.value) /\ This.value \notin Openers
        BY <1>2, <2>5, <3>2 DEF Moves, IsBracket, Openers, Closers
      <4>2. Front(open) = q /\ Last(open) = This.value /\ open # <<>>
        BY <3>2, <4>1, FrontOfAppend DEF BracketStacks
      <4> QED BY <2>4, <3>2, <4>1, <4>2, Zenon DEF OpenAfter, Openers, Closers
    <3>3. CASE This.value \notin Openers \cup Closers
      <4>1. Neutral(This)
        BY <1>2, <3>3 DEF Neutral, IsBracket, ClosesParen, ForFns
      <4>2. open = q
        BY <2>5, <4>1 DEF Moves
      <4> QED BY <2>4, <3>3, <4>2 DEF OpenAfter, Openers, Closers
    <3> QED BY <3>1, <3>2, <3>3
  <2>6. \A q \in BracketStacks : Moves(This, open, q) => Brackets(c, open', q)
    BY <2>2, <2>5 DEF Balanced
  <2> QED BY <1>2, <2>1, <2>2, <2>3, <2>6, FittingGo
<1> QED BY <1>1, <1>4, Refused

LEMMA BodyDirectivesKeeps == ASSUME ParserInv, BodyDirectives PROVE ParserInv'
<1> DEFINE k == [fn |-> "directive_rest", token |-> Tok]
<1>1. /\ Calm("body_directives") /\ "body_directives" \notin Tokenless
      /\ "body_directives" \in StatementFns
  BY DEF Calm, ForFns, Tokenless, StatementFns, StmtFns
<1>2. /\ At("body_directives") /\ UNCHANGED value
      /\ (Is("string") /\ Read /\ Go(<<k>>)) \/ (Peek /\ Go(<<>>))
  BY DEF BodyDirectives
<1>3. This.fn = "body_directives" /\ la # <<>>
  BY <1>1, <1>2, Start
<1>4. ~LoopStart
  BY <1>3 DEF LoopStart, Statement, This
<1>5. k \in HeldCall /\ k.token = Tok /\ k.fn # "for_lexical"
  <2>1. Tok \in LexedToken
    BY <1>3, HeldToken
  <2> QED BY <2>1 DEF HeldCall
<1> HIDE DEF k
<1>6. CASE Is("string") /\ Read /\ Go(<<k>>)
  <2>1. PlainRead
    BY <1>6, PlainIs DEF PlainRead
  <2> QED BY <1>1, <1>2, <1>4, <1>5, <1>6, <2>1, HoldGo
<1>7. CASE Peek /\ Go(<<>>)
  BY <1>1, <1>2, <1>7, ExprGo, Tuples, SameValue, Zenon
<1> QED BY <1>2, <1>6, <1>7

LEMMA DirectiveRestKeeps == ASSUME ParserInv, DirectiveRest PROVE ParserInv'
<1> DEFINE c == <<AutoSemi("Required"), Call("body_directives")>>
           d == <<>>
<1>1. /\ Calm("directive_rest") /\ "directive_rest" \in Holders
      /\ "directive_rest" \in StatementFns /\ "directive_rest" # "stmt_list_item"
  BY DEF Calm, ForFns, Holders, StatementFns
<1>2. /\ At("directive_rest") /\ UNCHANGED value
      /\ (Unread(This.token) /\ Go(d)) \/ (Peek /\ Go(c))
  BY DEF DirectiveRest
<1>3. AutoSemi("Required") \in ExprCall /\ Call("body_directives") \in StmtCall
  BY CallsOfExpr, StmtCalls
<1>4. d \in Seq(ExprCall) /\ c \in Seq(ExprCall \cup LoopCall \cup StmtCall)
  BY <1>3, Tuples, Zenon
<1> HIDE DEF c, d
<1>5. Fits(d) /\ Balanced(d)
  BY <1>4, FittingCalls, ExprSeqs
<1>6. Fits(c) /\ Balanced(c)
  <2>1. c \in Seq(PushedCall)
    BY <1>4 DEF PushedCall, LoopHeadCall
  <2> QED BY <1>1, <1>2, <1>4, <2>1, StatementFits, BalancedCalls
<1> QED BY <1>1, <1>2, <1>5, <1>6, UnreadGo, BalancedGo, SameValue

-----------------------------------------------------------------------------
(***************************************************************************)
(* The functions of the grammar of statements.                             *)
(***************************************************************************)
\* The calls of the grammar of statements that open and close no bracket.
PlainCall == ExprCall \cup LoopCall \cup StmtCall

LEMMA StatementGo ==
  ASSUME ParserInv, NEW f \in StatementFns, f # "stmt_list_item", Calm(f), At(f),
         NEW calls \in Seq(PlainCall), Go(calls),
         Peek \/ (f \notin Tokenless /\ PlainRead), UNCHANGED value
  PROVE  ParserInv'
<1>1. calls \in Seq(PushedCall)
  BY DEF PlainCall, PushedCall, LoopHeadCall
<1>2. Fits(calls) /\ Balanced(calls)
  BY <1>1, StatementFits, BalancedCalls DEF PlainCall
<1> QED BY <1>2, BalancedGo, SameValue

LEMMA SameFunction ==
  ASSUME NEW c \in AnyCall
  PROVE  /\ c.fn \in StmtFns => c \in StmtCall
         /\ c.fn = "switch_cases" => c \in CasesCall
<1>1. c.fn \in StmtFns => c \in StmtCall
  BY FnsOfCalls
     DEF AnyCall, PushedCall, LoopHeadCall, ForFns, StmtFns, Holders, ExprFns, ArgumentFns
<1> QED BY <1>1, StatementFields

LEMMA ExpressionStatementCalls == ExpressionStatement \in Seq(ExprCall)
BY InExpressionCall, CallsOfExpr, Tuples, Zenon DEF ExpressionStatement

LEMMA StatementListKeeps == ASSUME ParserInv, StatementList PROVE ParserInv'
<1> DEFINE c == IF FollowStatementList THEN <<>> ELSE <<Declaration, This>>
<1>1. /\ Calm("statement_list") /\ "statement_list" \in StatementFns
      /\ "statement_list" # "stmt_list_item" /\ "statement_list" \in StmtFns
  BY DEF Calm, ForFns, StatementFns, StmtFns
<1>2. At("statement_list") /\ Peek /\ Go(c) /\ UNCHANGED value
  BY DEF StatementList
<1>3. This \in StmtCall
  BY <1>1, <1>2, AtCall, SameFunction
<1>4. c \in Seq(PlainCall)
  BY <1>3, StmtCalls, Tuples, Zenon DEF PlainCall
<1> HIDE DEF c
<1> QED BY <1>1, <1>2, <1>4, StatementGo

LEMMA ElseOptKeeps == ASSUME ParserInv, ElseOpt PROVE ParserInv'
<1>1. /\ Calm("else_opt") /\ "else_opt" \in StatementFns
      /\ "else_opt" # "stmt_list_item" /\ "else_opt" \notin Tokenless
  BY DEF Calm, ForFns, StatementFns, StmtFns, Tokenless
<1>2. <<>> \in Seq(PlainCall) /\ <<Statement>> \in Seq(PlainCall)
  BY StmtCalls, Tuples, Zenon DEF PlainCall
<1> QED BY <1>1, <1>2, StatementGo, PlainIs, Zenon DEF ElseOpt, PlainRead

LEMMA ReturnArgumentKeeps == ASSUME ParserInv, ReturnArgument PROVE ParserInv'
<1> DEFINE c == (IF HasArgSameLine THEN <<InExpression>> ELSE <<>>)
                \o <<AutoSemi("Required"), Call("return_check")>>
<1>1. /\ Calm("return_argument") /\ "return_argument" \in StatementFns
      /\ "return_argument" # "stmt_list_item"
  BY DEF Calm, ForFns, StatementFns, StmtFns
<1>2. At("return_argument") /\ Peek /\ Go(c) /\ UNCHANGED value
  BY DEF ReturnArgument
<1>3. /\ (IF HasArgSameLine THEN <<InExpression>> ELSE <<>>) \in Seq(PlainCall)
      /\ <<AutoSemi("Required"), Call("return_check")>> \in Seq(PlainCall)
  BY StmtCalls, CallsOfExpr, InExpressionCall, Tuples, Zenon DEF PlainCall
<1>4. c \in Seq(PlainCall)
  BY <1>3, ConcatProperties, Zenon
<1> HIDE DEF c
<1> QED BY <1>1, <1>2, <1>4, StatementGo

LEMMA ThrowArgumentKeeps == ASSUME ParserInv, ThrowArgument PROVE ParserInv'
<1>1. Calm("throw_argument")
  BY DEF Calm, ForFns
<1> QED BY <1>1, ExpressionStatementCalls, ExprGo, SameValue, Refused, Zenon DEF ThrowArgument

LEMMA HandlersKeeps == ASSUME ParserInv, Handlers PROVE ParserInv'
<1>1. Calm("handlers")
  BY DEF Calm, ForFns
<1> QED BY <1>1, Tuples, ExprGo, SameValue, Refused, Zenon DEF Handlers

\* Blocks, and what is before them.
LEMMA BlockGo ==
  ASSUME ParserInv, NEW f \in StatementFns, f # "stmt_list_item", Calm(f), At(f),
         NEW calls \in Seq(PushedCall), Balanced(calls), Go(calls),
         Peek \/ (f \notin Tokenless /\ PlainRead), UNCHANGED value
  PROVE  ParserInv'
BY StatementFits, BalancedGo, SameValue

LEMMA CatchOptKeeps == ASSUME ParserInv, CatchOpt PROVE ParserInv'
<1> DEFINE p == <<Expect("("), Call("pattern"), Expect(")")>>
<1>1. /\ Calm("catch_opt") /\ "catch_opt" \in StatementFns
      /\ "catch_opt" # "stmt_list_item" /\ "catch_opt" \notin Tokenless
  BY DEF Calm, ForFns, StatementFns, StmtFns, Tokenless
<1>2. /\ At("catch_opt") /\ UNCHANGED value
      /\ (Is("catch") /\ Read /\ Go(p \o Block)) \/ (Peek /\ Go(<<>>))
  BY DEF CatchOpt
<1>3. p \in Seq(ExprCall \cup BracketCall) /\ Balanced(p)
  BY CallsOfExpr, CallsNeutral, BracketCalls, WhatEnds, BalancedTuples, Tuples, Zenon
<1> HIDE DEF p
<1>4. p \in Seq(PushedCall) /\ p \in Seq(AnyCall) /\ ")" \in Closers
  BY <1>3, FittingCalls, BracketCalls DEF Fits
<1>5. p \o Block \in Seq(PushedCall) /\ Balanced(p \o Block)
  BY <1>3, <1>4, BlockBrackets, BalancedConcat, ConcatProperties
<1>6. CASE Is("catch") /\ Read /\ Go(p \o Block)
  BY <1>1, <1>2, <1>5, <1>6, BlockGo, PlainIs, Zenon DEF PlainRead
<1>7. CASE Peek /\ Go(<<>>)
  BY <1>1, <1>2, <1>7, Tuples, ExprGo, SameValue, Zenon
<1> QED BY <1>2, <1>6, <1>7

LEMMA FinallyOptKeeps == ASSUME ParserInv, FinallyOpt PROVE ParserInv'
<1>1. /\ Calm("finally_opt") /\ "finally_opt" \in StatementFns
      /\ "finally_opt" # "stmt_list_item" /\ "finally_opt" \notin Tokenless
  BY DEF Calm, ForFns, StatementFns, StmtFns, Tokenless
<1>2. /\ At("finally_opt") /\ UNCHANGED value
      /\ (Is("finally") /\ Read /\ Go(Block)) \/ (Peek /\ Go(<<>>))
  BY DEF FinallyOpt
<1>3. CASE Is("finally") /\ Read /\ Go(Block)
  BY <1>1, <1>2, <1>3, BlockBrackets, BlockGo, PlainIs, Zenon DEF PlainRead
<1>4. CASE Peek /\ Go(<<>>)
  BY <1>1, <1>2, <1>4, Tuples, ExprGo, SameValue, Zenon
<1> QED BY <1>2, <1>3, <1>4

-----------------------------------------------------------------------------
(***************************************************************************)
(* The statements that open a scope: labelled statements, the bodies of    *)
(* loops, and switch.                                                      *)
(***************************************************************************)
\* What every step that opens a scope around statements has in common.
LEMMA EnterStatement ==
  ASSUME ParserInv, NEW f, At(f), Calm(f), NEW s \in Scope, GoInside(s, <<Statement>>),
         Peek, UNCHANGED value,
         \/ StatementPlace(Append(scopes, s))
         \/ LoopHeadPlace(Append(scopes, s)) /\ la # <<>> /\ Tok.value \in {"do", "while", "for"}
  PROVE  ParserInv'
<1> DEFINE c == <<Statement>>
<1>1. /\ Running /\ todo # <<>> /\ Neutral(This) /\ Alive
      /\ This.fn \notin {"leave", "program_items"}
  BY Start, AtCall
<1>2. c \in Seq(StmtCall)
  BY StmtCalls, Tuples, Zenon
<1>3. GoInside(s, c) /\ c = <<Statement>>
  OBVIOUS
<1> HIDE DEF c
<1>4. c \in Seq(PushedCall) /\ Balanced(c)
  <2>1. c \in Seq(ExprCall \cup LoopCall \cup StmtCall)
    BY <1>2
  <2> QED BY <1>2, <2>1, BalancedCalls DEF PushedCall
<1>5. open \in BracketStacks
  BY <1>1, AtHand
<1>6. /\ la' \in Seq(Token) /\ Len(la') <= 2 /\ Brackets(c, open', open) /\ la' = la
      /\ value' \in Values
  BY <1>4, <1>5, PeekTypes, SameValue DEF Balanced, Peek
<1> QED BY <1>1, <1>3, <1>4, <1>6, EnterKeeps DEF Tok

LEMMA LabelledBodyKeeps == ASSUME ParserInv, LabelledBody PROVE ParserInv'
<1> DEFINE s == WithLabels(This.labels, TypeOfLabel)
<1>1. PICK f \in {"labelled_body", "labels"} : At(f)
  BY DEF LabelledBody
<1>2. /\ Calm(f) /\ f \in StatementFns /\ f \notin Tokenless
  BY DEF Calm, ForFns, StatementFns, StmtFns, Tokenless
<1>3. /\ Alive /\ todo # <<>> /\ This.fn = f /\ This \in AnyCall /\ la # <<>>
      /\ context \in ContextRecord
  BY <1>1, <1>2, AtCall
<1>4. This.labels \in SUBSET Label
  BY <1>3, StatementFields
<1>5. TypeOfLabel \in LabelType
  BY DEF TypeOfLabel, LabelType
<1>6. s \in Scope
  BY <1>3, <1>4, <1>5, ScopesTyped
<1>7. s.fn = "with_labels" /\ s.type = TypeOfLabel
  BY DEF WithLabels
<1>8. GoInside(s, <<Statement>>) /\ Peek /\ UNCHANGED value
  BY DEF LabelledBody
<1> HIDE DEF s
<1>9. scopes \in ScopeStacks /\ StatementPlace(scopes)
  <2>1. ~LoopStart
    BY <1>3 DEF LoopStart, This, Statement
  <2> QED BY <1>2, <1>3, <2>1, AtHand
<1>10. /\ LoopHeadPlace(Append(scopes, s))
       /\ ~LoopLabel(s) => StatementPlace(Append(scopes, s))
  BY <1>6, <1>7, <1>9, InnerPlace
<1>11. LoopLabel(s) => Tok.value \in {"do", "while", "for"}
  BY <1>7 DEF LoopLabel, TypeOfLabel, IsOneOf
<1> QED BY <1>1, <1>2, <1>3, <1>6, <1>8, <1>10, <1>11, EnterStatement

LEMMA IterationBodyCallKeeps == ASSUME ParserInv, IterationBodyCall PROVE ParserInv'
<1> DEFINE s == IterationBody(context)
<1>1. At("iteration_body") /\ GoInside(s, <<Statement>>) /\ Peek /\ UNCHANGED value
  BY DEF IterationBodyCall
<1>2. Calm("iteration_body") /\ "iteration_body" \in LoopHeadFns
  BY DEF Calm, ForFns, LoopHeadFns
<1>3. Alive /\ todo # <<>> /\ This.fn = "iteration_body" /\ context \in ContextRecord
  BY <1>1, AtCall
<1>4. s \in Scope /\ s.fn = "iteration_body"
  BY <1>3, ScopesTyped
<1> HIDE DEF s
<1>5. scopes \in ScopeStacks /\ LoopHeadPlace(scopes)
  BY <1>2, <1>3, AtHand
<1>6. StatementPlace(Append(scopes, s))
  BY <1>4, <1>5, LoopBodyPlace
<1> QED BY <1>1, <1>2, <1>4, <1>6, EnterStatement

LEMMA SwitchBodyKeeps == ASSUME ParserInv, SwitchBody PROVE ParserInv'
<1> DEFINE s == SwitchStatement(context)
           d == [fn |-> "switch_cases", found_default |-> FALSE]
           c == <<Expect("{"), d>>
<1>1. At("switch_body") /\ GoInside(s, c) /\ Peek /\ UNCHANGED value
  BY DEF SwitchBody
<1>2. Calm("switch_body") /\ "switch_body" \in StatementFns
  BY DEF Calm, ForFns, StatementFns, StmtFns
<1>3. /\ Alive /\ Running /\ todo # <<>> /\ This.fn = "switch_body" /\ context \in ContextRecord
      /\ Neutral(This) /\ This.fn \notin {"leave", "program_items"}
  BY <1>1, <1>2, AtCall, Start
<1>4. s \in Scope /\ s.fn = "switch_statement"
  BY <1>3, ScopesTyped
<1> HIDE DEF s
<1>5. scopes \in ScopeStacks /\ StatementPlace(scopes) /\ open \in BracketStacks
  <2>1. ~LoopStart
    BY <1>3 DEF LoopStart, This, Statement
  <2> QED BY <1>2, <1>3, <2>1, AtHand
<1>6. StatementPlace(Append(scopes, s))
  BY <1>4, <1>5, InnerPlace DEF LoopLabel
<1>7. d \in CasesCall
  BY DEF CasesCall
<1> HIDE DEF d
<1>8. Expect("{") \in PushedCall /\ d \in PushedCall
  BY <1>7, BracketCalls, Zenon DEF PushedCall, LoopHeadCall
<1>9. Call("else_opt") \in AnyCall /\ Neutral(Call("else_opt"))
  BY StmtCalls, CallsNeutral
<1>10. c \in Seq(PushedCall) /\ Balanced(c)
  <2>1. c \in Seq(PushedCall)
    BY <1>8, Tuples, Zenon
  <2>2. d \in AnyCall /\ Ends(d, Closer("{")) /\ "{" \in Openers
    BY <1>7, WhatEnds, BracketCalls
  <2> QED BY <1>9, <2>1, <2>2, BalancedTuples, Zenon
<1> HIDE DEF c
<1>11. /\ la' \in Seq(Token) /\ Len(la') <= 2 /\ Brackets(c, open', open)
       /\ value' \in Values
  BY <1>1, <1>5, <1>10, PeekTypes, SameValue DEF Balanced
<1> QED BY <1>1, <1>3, <1>4, <1>6, <1>10, <1>11, EnterKeeps

LEMMA SwitchCasesKeeps == ASSUME ParserInv, SwitchCases PROVE ParserInv'
<1> DEFINE d == [This EXCEPT !.found_default = TRUE]
           a == <<InExpression, Expect(":"), Call("statement_list"), This>>
           b == <<Expect(":"), Call("statement_list"), d>>
           e == <<Expect("}")>>
           f == "switch_cases"
<1>1. /\ f \notin Tokenless /\ f \in StatementFns /\ f # "stmt_list_item"
  BY DEF Tokenless, StatementFns
<1>2. At(f)
  BY DEF SwitchCases
<1>3. This \in AnyCall /\ This.fn = f /\ la # <<>> /\ todo # <<>>
  BY <1>1, <1>2, AtCall
<1>4. This \in CasesCall
  BY <1>3, StatementFields
<1>5. d \in CasesCall
  BY <1>4 DEF CasesCall
<1>6. \/ Is("case") /\ Read /\ Go(a) /\ UNCHANGED value
      \/ Is("default") /\ Read /\ Go(b) /\ UNCHANGED value
      \/ Fail("DuplicateDefault")
      \/ Peek /\ Go(e) /\ UNCHANGED value
  BY Zenon DEF SwitchCases
<1> HIDE DEF d, f
<1>7. \A x \in ExprCall \cup StmtCall \cup BracketCall \cup CasesCall : x \in PushedCall
  BY Zenon DEF PushedCall, LoopHeadCall
<1>8. a \in Seq(PushedCall) /\ b \in Seq(PushedCall) /\ e \in Seq(PushedCall)
  <2>1. /\ InExpression \in PushedCall /\ Expect(":") \in PushedCall /\ Expect("}") \in PushedCall
        /\ Call("statement_list") \in PushedCall /\ This \in PushedCall /\ d \in PushedCall
    BY <1>4, <1>5, <1>7, InExpressionCall, CallsOfExpr, BracketCalls, StmtCalls, Zenon
  <2> QED BY <2>1, Tuples, Zenon
<1>9. Closes(a, "}") /\ Closes(b, "}") /\ Closes(e, "}")
  <2>1. /\ InExpression \in AnyCall /\ Neutral(InExpression)
        /\ Expect(":") \in AnyCall /\ Neutral(Expect(":"))
        /\ Call("statement_list") \in AnyCall /\ Neutral(Call("statement_list"))
    BY InExpressionCall, CallsOfExpr, StmtCalls, CallsNeutral, Zenon
  <2>2. /\ This \in AnyCall /\ Ends(This, "}") /\ d \in AnyCall /\ Ends(d, "}")
        /\ Expect("}") \in AnyCall /\ Ends(Expect("}"), "}") /\ "}" \in Closers
    BY <1>4, <1>5, WhatEnds, BracketCalls, Zenon
  <2> QED BY <2>1, <2>2, ClosesTuples, Zenon
<1> HIDE DEF a, b, e
<1>10. Fits(a) /\ Fits(b) /\ Fits(e)
  BY <1>1, <1>2, <1>8, StatementFits
<1>11. f = "switch_cases"
  BY DEF f
<1>12. ASSUME NEW c, Fits(c), Closes(c, "}"), Go(c), UNCHANGED value, Peek \/ PlainRead
       PROVE  ParserInv'
  <2>1. PlainStep /\ value' \in Values
    BY <1>1, <1>3, <1>12, SameValue DEF PlainStep
  <2> QED BY <1>2, <1>11, <1>12, <2>1, ClosingGo, Zenon
<1> QED BY <1>6, <1>9, <1>10, <1>12, PlainIs, Refused, Zenon DEF PlainRead

-----------------------------------------------------------------------------
(***************************************************************************)
(* The statements that hold a token or check a jump.                       *)
(***************************************************************************)
LEMMA DeclarationCalls ==
  /\ CommaSeparated("declarator") \o <<AutoSemi("Required")>> \in Seq(ExprCall)
  /\ CommaSeparated("const_declarator") \o <<AutoSemi("Required")>> \in Seq(ExprCall)
<1>1. \A f \in {"declarator", "const_declarator"} : CommaSeparated(f) \in Seq(ExprCall)
  BY CallsOfExpr, Tuples, Zenon DEF CommaSeparated
<1>2. <<AutoSemi("Required")>> \in Seq(ExprCall)
  BY CallsOfExpr, Tuples, Zenon
<1> QED BY <1>1, <1>2, ConcatProperties, Zenon

LEMMA IdentifierStatementKeeps == ASSUME ParserInv, IdentifierStatement PROVE ParserInv'
<1> DEFINE d == CommaSeparated("declarator") \o <<AutoSemi("Required")>>
           l == [fn |-> "labels", labels |-> {This.token.value}]
           f == "identifier_statement"
<1>1. /\ f \notin Tokenless /\ f \in StatementFns /\ f # "stmt_list_item" /\ Calm(f)
      /\ f \in Holders
  BY DEF Tokenless, StatementFns, Calm, ForFns, Holders
<1>2. At(f)
  BY DEF IdentifierStatement
<1>3. This \in AnyCall /\ This.fn = f
  BY <1>2, AtCall
<1>4. /\ \/ Is(":") /\ Read /\ Go(<<l>>) /\ UNCHANGED value
         \/ Peek /\ Go(d) /\ UNCHANGED value
         \/ Unexpected
         \/ Unread(This.token) /\ Go(ExpressionStatement) /\ UNCHANGED value
  BY Zenon DEF IdentifierStatement
<1>5. l \in StmtCall
  <2>1. {This.token.value} \in SUBSET Label
    BY <1>3, StatementFields
  <2> QED BY <2>1, StmtCalls
<1> HIDE DEF l, f
<1>6. <<l>> \in Seq(PlainCall)
  BY <1>5, Tuples, Zenon DEF PlainCall
<1>7. CASE Is(":") /\ Read /\ Go(<<l>>) /\ UNCHANGED value
  BY <1>1, <1>2, <1>6, <1>7, StatementGo, PlainIs, Zenon DEF PlainRead
<1>8. CASE Peek /\ Go(d) /\ UNCHANGED value
  <2> HIDE DEF d
  <2>1. d \in Seq(ExprCall)
    BY DeclarationCalls DEF d
  <2> QED BY <1>1, <1>2, <1>8, <2>1, ExprGo, SameValue, Zenon
<1>9. CASE Unread(This.token) /\ Go(ExpressionStatement) /\ UNCHANGED value
  <2>1. Fits(ExpressionStatement) /\ Balanced(ExpressionStatement)
    BY ExpressionStatementCalls, FittingCalls, ExprSeqs
  <2> QED BY <1>1, <1>2, <1>9, <2>1, UnreadGo, Zenon
<1> QED BY <1>4, <1>7, <1>8, <1>9, Refused

LEMMA LabelledKeeps == ASSUME ParserInv, Labelled PROVE ParserInv'
<1> DEFINE h == [fn |-> "more_labels", labels |-> This.labels, token |-> Tok]
           f == "labels"
<1>1. /\ f \notin Tokenless /\ f \in StatementFns /\ Calm(f)
  BY DEF Tokenless, StatementFns, Calm, ForFns
<1>2. At(f) /\ IsIdentifier /\ Read /\ Go(<<h>>) /\ UNCHANGED value
  BY DEF Labelled
<1>3. This \in AnyCall /\ This.fn = f /\ la # <<>>
  BY <1>1, <1>2, AtCall
<1>4. h \in HeldCall
  <2>1. This.labels \in SUBSET Label
    BY <1>3, StatementFields
  <2>2. Tok \in NameToken
    BY <1>2, <1>3, HeldToken DEF NameToken, IsIdentifier
  <2> QED BY <2>1, <2>2 DEF HeldCall
<1>5. ~LoopStart
  BY <1>3 DEF LoopStart, This, Statement
<1>6. h.token = Tok /\ h.fn # "for_lexical"
  OBVIOUS
<1>7. PlainRead
  BY <1>2, PlainIdentifier DEF PlainRead
<1> HIDE DEF h, f
<1> QED BY <1>1, <1>2, <1>4, <1>5, <1>6, <1>7, HoldGo, Zenon

LEMMA MoreLabelsKeeps == ASSUME ParserInv, MoreLabels PROVE ParserInv'
<1> DEFINE l == [fn |-> "labels", labels |-> This.labels \cup {This.token.value}]
           b == [fn |-> "labelled_body", labels |-> This.labels]
           f == "more_labels"
<1>1. /\ f \notin Tokenless /\ f \in StatementFns /\ f # "stmt_list_item" /\ Calm(f)
      /\ f \in Holders
  BY DEF Tokenless, StatementFns, Calm, ForFns, Holders
<1>2. At(f) /\ UNCHANGED value
  BY DEF MoreLabels
<1>3. This \in AnyCall /\ This.fn = f
  BY <1>2, AtCall
<1>4. /\ \/ Is(":") /\ Read /\ Go(<<l>>)
         \/ Unread(This.token) /\ Go(<<b>>)
  BY Zenon DEF MoreLabels
<1>5. l \in StmtCall /\ b \in StmtCall
  <2>1. This.labels \in SUBSET Label /\ (This.labels \cup {This.token.value}) \in SUBSET Label
    BY <1>3, StatementFields
  <2> QED BY <2>1, StmtCalls
<1> HIDE DEF l, b, f
<1>6. <<l>> \in Seq(PlainCall)
  BY <1>5, Tuples, Zenon DEF PlainCall
<1>7. CASE Is(":") /\ Read /\ Go(<<l>>)
  BY <1>1, <1>2, <1>6, <1>7, StatementGo, PlainIs, Zenon DEF PlainRead
<1>8. CASE Unread(This.token) /\ Go(<<b>>)
  <2>1. <<b>> \in Seq(PushedCall)
    BY <1>5, Tuples, Zenon DEF PushedCall
  <2>2. <<b>> \in Seq(ExprCall \cup LoopCall \cup StmtCall)
    BY <1>5, Tuples, Zenon
  <2>3. Fits(<<b>>) /\ Balanced(<<b>>)
    BY <1>1, <1>2, <2>1, <2>2, StatementFits, BalancedCalls
  <2> QED BY <1>1, <1>2, <1>8, <2>3, UnreadGo, Zenon
<1> QED BY <1>4, <1>7, <1>8

\* A step that checks a jump statement.
LEMMA JumpGo ==
  ASSUME ParserInv, NEW f \in {"break_argument", "continue_argument", "return_check"}, At(f),
         NEW calls \in Seq(ExprCall),
         Peek \/ (f \notin Tokenless /\ PlainRead), UNCHANGED value,
         NEW stmt \in {"break", "continue", "return"}, NEW label \in Label \cup {None},
         NEW accepted \in BOOLEAN, NEW error \in Errors,
         GoJump(stmt, label, accepted, error, calls)
  PROVE  ParserInv'
<1>1. Calm(f) /\ f # "stmt_list_item"
  BY DEF Calm, ForFns
<1>2. /\ Running /\ todo # <<>> /\ Neutral(This) /\ PlainStep
      /\ This.fn \notin {"leave", "program_items", "stmt_list_item"}
  BY <1>1, Start DEF PlainStep
<1> QED BY <1>2, JumpKeeps, Zenon

LEMMA JumpsTyped ==
  ASSUME ParserInv
  PROVE  /\ MayBreak(context) \in BOOLEAN /\ MayContinue(context) \in BOOLEAN
         /\ MayReturn(context) \in BOOLEAN
         /\ \A l : MayBreakTo(context, l) \in BOOLEAN /\ MayContinueTo(context, l) \in BOOLEAN
         /\ None \in Label \cup {None} /\ (IsIdentifier => Tok.value \in Label \cup {None})
         /\ {"IllegalBreak", "IllegalContinue", "InvalidLabel", "TopLevelReturn"} \subseteq Errors
         /\ <<AutoSemi("Required")>> \in Seq(ExprCall) /\ <<>> \in Seq(ExprCall)
<1>1. context \in ContextRecord
  BY DEF ParserInv, Types, TypeOK
<1>2. /\ MayBreak(context) \in BOOLEAN /\ MayContinue(context) \in BOOLEAN
      /\ MayReturn(context) \in BOOLEAN
  BY <1>1 DEF ContextRecord, MayBreak, MayContinue, MayReturn
<1>3. /\ \A l : MayBreakTo(context, l) \in BOOLEAN /\ MayContinueTo(context, l) \in BOOLEAN
      /\ (IsIdentifier => Tok.value \in Label \cup {None})
  BY DEF MayBreakTo, MayContinueTo, IsIdentifier
<1>4. <<AutoSemi("Required")>> \in Seq(ExprCall) /\ <<>> \in Seq(ExprCall)
  BY CallsOfExpr, Tuples, Zenon
<1> QED BY <1>2, <1>3, <1>4 DEF Errors

LEMMA BreakArgumentKeeps == ASSUME ParserInv, BreakArgument PROVE ParserInv'
<1>1. "break_argument" \notin Tokenless /\ "IllegalBreak" \in Errors /\ "InvalidLabel" \in Errors
  BY DEF Tokenless, Errors
<1> DEFINE c == <<AutoSemi("Required")>>
<1>2. c \in Seq(ExprCall)
  BY JumpsTyped
<1>3. /\ At("break_argument")
      /\ \/ /\ Peek /\ GoJump("break", None, MayBreak(context), "IllegalBreak", c)
            /\ UNCHANGED value
         \/ /\ IsIdentifier /\ Read /\ UNCHANGED value
            /\ GoJump("break", Tok.value, MayBreakTo(context, Tok.value), "InvalidLabel", c)
         \/ Unexpected
  BY Zenon DEF BreakArgument
<1> HIDE DEF c
<1>4. CASE Peek /\ GoJump("break", None, MayBreak(context), "IllegalBreak", c) /\ UNCHANGED value
  BY <1>1, <1>2, <1>3, <1>4, JumpsTyped, JumpGo
<1>5. CASE /\ IsIdentifier /\ Read /\ UNCHANGED value
           /\ GoJump("break", Tok.value, MayBreakTo(context, Tok.value), "InvalidLabel", c)
  BY <1>1, <1>2, <1>3, <1>5, JumpsTyped, JumpGo, PlainIdentifier DEF PlainRead
<1> QED BY <1>3, <1>4, <1>5, Refused

LEMMA ContinueArgumentKeeps == ASSUME ParserInv, ContinueArgument PROVE ParserInv'
<1>1. /\ "continue_argument" \notin Tokenless
      /\ "IllegalContinue" \in Errors /\ "InvalidLabel" \in Errors
  BY DEF Tokenless, Errors
<1> DEFINE c == <<AutoSemi("Required")>>
<1>2. c \in Seq(ExprCall)
  BY JumpsTyped
<1>3. /\ At("continue_argument")
      /\ \/ /\ Peek /\ GoJump("continue", None, MayContinue(context), "IllegalContinue", c)
            /\ UNCHANGED value
         \/ /\ IsIdentifier /\ Read /\ UNCHANGED value
            /\ GoJump("continue", Tok.value, MayContinueTo(context, Tok.value),
                      "InvalidLabel", c)
         \/ Unexpected
  BY Zenon DEF ContinueArgument
<1> HIDE DEF c
<1>4. CASE /\ Peek /\ GoJump("continue", None, MayContinue(context), "IllegalContinue", c)
           /\ UNCHANGED value
  BY <1>1, <1>2, <1>3, <1>4, JumpsTyped, JumpGo
<1>5. CASE /\ IsIdentifier /\ Read /\ UNCHANGED value
           /\ GoJump("continue", Tok.value, MayContinueTo(context, Tok.value),
                     "InvalidLabel", c)
  BY <1>1, <1>2, <1>3, <1>5, JumpsTyped, JumpGo, PlainIdentifier DEF PlainRead
<1> QED BY <1>3, <1>4, <1>5, Refused

LEMMA ReturnCheckKeeps == ASSUME ParserInv, ReturnCheck PROVE ParserInv'
<1>1. "TopLevelReturn" \in Errors
  BY DEF Errors
<1> DEFINE c == <<>>
<1>2. c \in Seq(ExprCall)
  BY JumpsTyped
<1>3. /\ At("return_check") /\ Peek /\ UNCHANGED value
      /\ GoJump("return", None, MayReturn(context), "TopLevelReturn", c)
  BY DEF ReturnCheck
<1> HIDE DEF c
<1> QED BY <1>1, <1>2, <1>3, JumpsTyped, JumpGo

-----------------------------------------------------------------------------
(***************************************************************************)
(* The first token of a statement.                                         *)
(***************************************************************************)
LEMMA KeywordSequences ==
  /\ AfterKeyword("{") = <<Call("statement_list"), Expect("}")>>
  /\ AfterKeyword("var") = CommaSeparated("declarator") \o <<AutoSemi("Required")>>
  /\ AfterKeyword("const") = CommaSeparated("const_declarator") \o <<AutoSemi("Required")>>
  /\ AfterKeyword(";") = <<>>
  /\ AfterKeyword("if") = <<Paren, Statement, Call("else_opt")>>
  /\ AfterKeyword("continue") = <<Call("continue_argument")>>
  /\ AfterKeyword("break") = <<Call("break_argument")>>
  /\ AfterKeyword("return") = <<Call("return_argument")>>
  /\ AfterKeyword("with") = <<Paren, Statement>>
  /\ AfterKeyword("switch") = <<Paren, Call("switch_body")>>
  /\ AfterKeyword("throw") = <<Call("throw_argument")>>
  /\ AfterKeyword("try") =
       Block \o <<Call("handlers"), Call("catch_opt"), Call("finally_opt")>>
  /\ AfterKeyword("while") = <<Paren, Call("iteration_body")>>
  /\ AfterKeyword("do") =
       <<Call("iteration_body"), Expect("while"), Paren, AutoSemi("Optional")>>
  /\ AfterKeyword("for") = <<Expect("("), Call("for_head")>>
  /\ AfterKeyword("debugger") = <<AutoSemi("Required")>>
  /\ AfterKeyword("function") = Function("id")
BY DEF AfterKeyword

LoopKeyword == {"while", "do", "for"}
PlainKeyword == (StatementKeyword \cup DeclarationKeyword) \ (LoopKeyword \cup {"{"})

\* A call that neither opens nor closes a bracket may be made by any statement.
LEMMA PlainSeqs ==
  ASSUME NEW cs \in Seq(PlainCall)
  PROVE  cs \in Seq(PushedCall) /\ Balanced(cs)
BY BalancedCalls DEF PlainCall, PushedCall, LoopHeadCall

LEMMA LoopCalls ==
  ASSUME NEW v \in LoopKeyword
  PROVE  /\ AfterKeyword(v) \in Seq(LoopHeadCall) /\ AfterKeyword(v) \in Seq(PushedCall)
         /\ Balanced(AfterKeyword(v))
<1>1. Paren \in ExprCall /\ Paren \in PlainCall
  BY CallsOfExpr DEF Paren, PlainCall
<1>2. v = "while" \/ v = "do" \/ v = "for"
  BY DEF LoopKeyword
<1>3. \A x \in ExprCall \cup LoopCall : x \in LoopHeadCall /\ x \in PlainCall
  BY Zenon DEF LoopHeadCall, PlainCall
<1>4. \A cs \in Seq(LoopHeadCall) : cs \in Seq(PushedCall)
  BY DEF PushedCall
<1>5. CASE v = "while"
  <2>1. AfterKeyword(v) = <<Paren, Call("iteration_body")>>
    BY <1>5, KeywordSequences, Zenon
  <2>2. /\ <<Paren, Call("iteration_body")>> \in Seq(LoopHeadCall)
        /\ <<Paren, Call("iteration_body")>> \in Seq(PlainCall)
    BY <1>1, <1>3, ForCalls, Tuples, Zenon
  <2> QED BY <1>4, <2>1, <2>2, PlainSeqs, Zenon
<1>6. CASE v = "do"
  <2> DEFINE c == <<Call("iteration_body"), Expect("while"), Paren, AutoSemi("Optional")>>
  <2>1. AfterKeyword(v) = c
    BY <1>6, KeywordSequences, Zenon
  <2>2. c \in Seq(LoopHeadCall) /\ c \in Seq(PlainCall)
    BY <1>1, <1>3, CallsOfExpr, ForCalls, Tuples, Zenon
  <2> HIDE DEF c
  <2> QED BY <1>4, <2>1, <2>2, PlainSeqs, Zenon
<1>7. CASE v = "for"
  <2> DEFINE c == <<Expect("("), Call("for_head")>>
  <2>1. AfterKeyword(v) = c
    BY <1>7, KeywordSequences, Zenon
  <2>2. Expect("(") \in LoopHeadCall /\ Call("for_head") \in LoopHeadCall
    BY BracketCalls, ForCalls, Zenon DEF LoopHeadCall
  <2>3. c \in Seq(LoopHeadCall)
    BY <2>2, Tuples, Zenon
  <2>4. Call("for_head") \in AnyCall /\ Ends(Call("for_head"), Closer("(")) /\ "(" \in Openers
    BY ForCalls, WhatEnds, BracketCalls
  <2>5. Paren \in AnyCall /\ Neutral(Paren)
    BY <1>1, CallsNeutral
  <2>6. Balanced(c)
    BY <2>4, <2>5, BalancedTuples, Zenon
  <2> HIDE DEF c
  <2> QED BY <1>4, <2>1, <2>3, <2>6, Zenon
<1> QED BY <1>2, <1>5, <1>6, <1>7

LEMMA PlainKeywordCalls ==
  ASSUME NEW v \in PlainKeyword
  PROVE  AfterKeyword(v) \in Seq(PushedCall) /\ Balanced(AfterKeyword(v))
<1>1. \/ v \in {"var", "const"} \/ v \in {";", "debugger"} \/ v \in {"if", "with", "switch"}
      \/ v \in {"continue", "break", "return", "throw"} \/ v = "try" \/ v = "function"
  BY DEF PlainKeyword, StatementKeyword, DeclarationKeyword, LoopKeyword
<1>2. Paren \in PlainCall /\ Statement \in PlainCall
  BY CallsOfExpr, StmtCalls DEF Paren, PlainCall
<1>3. \A x \in ExprCall \cup StmtCall : x \in PlainCall
  BY Zenon DEF PlainCall
<1>4. \A cs \in Seq(ExprCall) : cs \in Seq(PlainCall)
  BY DEF PlainCall
<1>5. CASE v \in {"var", "const"}
  <2>1. AfterKeyword(v) \in Seq(ExprCall)
    BY <1>5, KeywordSequences, DeclarationCalls
  <2> QED BY <1>4, <2>1, PlainSeqs
<1>6. CASE v \in {";", "debugger"}
  <2>1. <<>> \in Seq(PlainCall) /\ <<AutoSemi("Required")>> \in Seq(PlainCall)
    BY <1>3, CallsOfExpr, Tuples, Zenon
  <2>2. AfterKeyword(v) \in Seq(PlainCall)
    BY <1>6, <2>1, KeywordSequences
  <2> QED BY <2>2, PlainSeqs
<1>7. CASE v \in {"if", "with", "switch"}
  <2>1. /\ <<Paren, Statement, Call("else_opt")>> \in Seq(PlainCall)
        /\ <<Paren, Statement>> \in Seq(PlainCall)
        /\ <<Paren, Call("switch_body")>> \in Seq(PlainCall)
    BY <1>2, <1>3, StmtCalls, Tuples, Zenon
  <2>2. AfterKeyword(v) \in Seq(PlainCall)
    BY <1>7, <2>1, KeywordSequences, Zenon
  <2> QED BY <2>2, PlainSeqs
<1>8. CASE v \in {"continue", "break", "return", "throw"}
  <2>1. /\ <<Call("continue_argument")>> \in Seq(PlainCall)
        /\ <<Call("break_argument")>> \in Seq(PlainCall)
        /\ <<Call("return_argument")>> \in Seq(PlainCall)
        /\ <<Call("throw_argument")>> \in Seq(PlainCall)
    BY <1>3, StmtCalls, Tuples, Zenon
  <2>2. AfterKeyword(v) \in Seq(PlainCall)
    BY <1>8, <2>1, KeywordSequences, Zenon
  <2> QED BY <2>2, PlainSeqs
<1>9. CASE v = "try"
  <2> DEFINE r == <<Call("handlers"), Call("catch_opt"), Call("finally_opt")>>
  <2>1. AfterKeyword(v) = Block \o r
    BY <1>9, KeywordSequences, Zenon
  <2>2. r \in Seq(PlainCall)
    BY <1>3, StmtCalls, Tuples, Zenon
  <2> HIDE DEF r
  <2>3. r \in Seq(PushedCall) /\ Balanced(r)
    BY <2>2, PlainSeqs
  <2>4. r \in Seq(AnyCall) /\ "}" \in Closers
    BY <2>3 DEF AnyCall, Closers
  <2>5. Block \o r \in Seq(PushedCall) /\ Balanced(Block \o r)
    BY <2>3, <2>4, BlockBrackets, BalancedConcat, ConcatProperties
  <2> QED BY <2>1, <2>5, Zenon
<1>10. CASE v = "function"
  <2>1. Function("id") \in Seq(ExprCall \cup BracketCall) /\ Balanced(Function("id"))
    BY FunctionBrackets
  <2>2. Function("id") \in Seq(PushedCall)
    BY <2>1, FittingCalls DEF Fits
  <2> QED BY <1>10, <2>1, <2>2, KeywordSequences
<1> QED BY <1>1, <1>5, <1>6, <1>7, <1>8, <1>9, <1>10

LEMMA StmtListItemKeeps == ASSUME ParserInv, StmtListItem PROVE ParserInv'
<1> DEFINE f == "stmt_list_item"
           h == [fn |-> "identifier_statement", token |-> Tok, allow_decl |-> This.allow_decl]
           v == Tok.value
<1>1. /\ f \notin Tokenless /\ f \in StatementFns /\ Calm(f)
  BY DEF Tokenless, StatementFns, Calm, ForFns
<1>2. At(f)
  BY DEF StmtListItem
<1>3. This \in AnyCall /\ This.fn = f /\ la # <<>>
  BY <1>1, <1>2, AtCall
<1>4. /\ \/ /\ v \in StatementKeyword \cup DeclarationKeyword
            /\ Read /\ Go(AfterKeyword(v)) /\ UNCHANGED value
         \/ Unexpected
         \/ IsIdentifier /\ Read /\ Go(<<h>>) /\ UNCHANGED value
         \/ Peek /\ Go(ExpressionStatement) /\ UNCHANGED value
  BY Zenon DEF StmtListItem, IsOneOf
<1>5. IsIdentifier => h \in HeldCall /\ h.token = Tok /\ h.fn # "for_lexical"
  <2>1. This.allow_decl \in BOOLEAN
    BY <1>3, StatementFields
  <2>2. IsIdentifier => Tok \in NameToken
    BY <1>3, HeldToken DEF NameToken, IsIdentifier
  <2> QED BY <2>1, <2>2 DEF HeldCall
<1>6. CASE v \in LoopKeyword /\ Read /\ Go(AfterKeyword(v)) /\ UNCHANGED value
  <2>1. PlainToken
    BY <1>6 DEF LoopKeyword, PlainToken, IsOneOf, Openers, Closers
  <2>2. Fits(AfterKeyword(v)) /\ Balanced(AfterKeyword(v))
    BY <1>1, <1>3, <1>6, LoopCalls DEF Fits
  <2> HIDE DEF f, v
  <2> QED BY <1>1, <1>2, <1>6, <2>1, <2>2, BalancedGo, SameValue, Zenon DEF PlainRead
<1>7. CASE v \in PlainKeyword /\ Read /\ Go(AfterKeyword(v)) /\ UNCHANGED value
  <2>1. PlainToken
    BY <1>7
       DEF PlainKeyword, StatementKeyword, DeclarationKeyword, PlainToken, IsOneOf, Openers,
           Closers
  <2>2. ~LoopStart
    BY <1>7 DEF PlainKeyword, LoopKeyword, LoopStart
  <2>3. Fits(AfterKeyword(v)) /\ Balanced(AfterKeyword(v))
    BY <1>1, <1>3, <1>7, <2>2, PlainKeywordCalls DEF Fits
  <2> HIDE DEF f, v
  <2> QED BY <1>1, <1>2, <1>7, <2>1, <2>3, BalancedGo, SameValue, Zenon DEF PlainRead
<1>8. CASE v = "{" /\ Read /\ Go(AfterKeyword(v)) /\ UNCHANGED value
  <2> DEFINE c == <<Call("statement_list"), Expect("}")>>
  <2>1. Go(c) /\ Is("{")
    BY <1>8, KeywordSequences, Zenon DEF Is
  <2>2. ~LoopStart
    BY <1>8 DEF LoopStart
  <2>3. Call("statement_list") \in PushedCall /\ Expect("}") \in PushedCall
    BY StmtCalls, BracketCalls, Zenon DEF PushedCall, LoopHeadCall
  <2>4. c \in Seq(PushedCall)
    BY <2>3, Tuples, Zenon
  <2>5. Closes(c, Closer("{"))
    BY StmtCalls, CallsNeutral, BracketCalls, WhatEnds, ClosesTuples, Zenon
  <2> HIDE DEF c
  <2>6. Fits(c) /\ "{" \in Openers
    BY <1>1, <1>3, <2>2, <2>4, BracketCalls DEF Fits
  <2> HIDE DEF f
  <2> QED BY <1>1, <1>2, <1>8, <2>1, <2>5, <2>6, OpenedGo, SameValue, Zenon
<1>9. CASE IsIdentifier /\ Read /\ Go(<<h>>) /\ UNCHANGED value
  <2>1. ~LoopStart
    <3>1. IsIdentifier => Tok.value \notin Reserved
      BY LabelAssumption DEF IsIdentifier
    <3> QED BY <1>9, <3>1 DEF LoopStart, Reserved
  <2>2. PlainRead
    BY <1>9, PlainIdentifier DEF PlainRead
  <2> HIDE DEF h, f
  <2> QED BY <1>1, <1>2, <1>5, <1>9, <2>1, <2>2, HoldGo, Zenon
<1>10. CASE Peek /\ Go(ExpressionStatement) /\ UNCHANGED value
  <2> HIDE DEF f
  <2> QED BY <1>1, <1>2, <1>10, ExpressionStatementCalls, ExprGo, SameValue, Zenon
<1>11. v \in StatementKeyword \cup DeclarationKeyword =>
         v \in LoopKeyword \/ v \in PlainKeyword \/ v = "{"
  BY DEF PlainKeyword
<1> HIDE DEF v, f, h
<1> QED BY <1>4, <1>6, <1>7, <1>8, <1>9, <1>10, <1>11, Refused, Zenon

-----------------------------------------------------------------------------
(***************************************************************************)
(* The head of a for statement.                                            *)
(***************************************************************************)
\* The calls of the head of a for statement, which close its parenthesis.
ForSequence(calls) == calls \in Seq(LoopHeadCall) /\ Closes(calls, ")")

LEMMA ForGo ==
  ASSUME ParserInv, NEW f \in ForFns \cup {"for_lexical"}, At(f),
         NEW calls, ForSequence(calls), Go(calls),
         Peek \/ PlainRead \/ (f \in Holders /\ Unread(This.token)), UNCHANGED value
  PROVE  ParserInv'
<1>1. f \notin Tokenless /\ f \in LoopHeadFns
  BY DEF Tokenless, ForFns, LoopHeadFns
<1>2. This.fn = f /\ la # <<>> /\ todo # <<>>
  BY <1>1, AtCall
<1>3. calls \in Seq(PushedCall)
  BY DEF ForSequence, PushedCall
<1>4. Fits(calls) /\ Closes(calls, ")")
  BY <1>1, <1>2, <1>3 DEF Fits, ForSequence
<1>5. PlainStep /\ value' \in Values
  BY <1>2, SameValue DEF PlainStep
<1> QED BY <1>4, <1>5, ClosingGo, Zenon

LEMMA ForSequences ==
  /\ ForSequence(<<Call("pattern"), Call("for_var")>>)
  /\ ForSequence(<<Call("pattern"), Call("for_let")>>)
  /\ ForSequence(<<Call("pattern"), Call("for_const")>>)
  /\ ForSequence(<<Call("more_for")>>)
  /\ ForSequence(<<Call("for_update")>>)
  /\ ForSequence(ForExpr) /\ ForSequence(MoreForHead) /\ ForSequence(ForEach)
  /\ ForSequence(<<NoIn(<<AssignmentExpression>>), Call("for_var_init")>>)
  /\ ForSequence(<<NoIn(<<AssignmentExpression>>)>> \o MoreForHead)
  /\ ForSequence(<<NoIn(<<AssignmentExpression, MoreComma("const_declarator")>>),
                   Expect(";"), Call("more_for")>>)
  /\ ForSequence(<<InExpression, Expect(";"), Call("for_update")>>)
  /\ ForSequence(<<InExpression, Expect(")"), Call("iteration_body")>>)
<1>1. /\ <<AssignmentExpression>> \in Seq(InnerCall)
      /\ <<Expression>> \in Seq(InnerCall)
      /\ <<MoreComma("declarator")>> \in Seq(InnerCall)
      /\ <<AssignmentExpression, MoreComma("const_declarator")>> \in Seq(InnerCall)
  BY InnerCalls, Tuples, Zenon DEF AssignmentExpression, Expression, ListItems
<1>2. \A cs \in Seq(InnerCall) : NoIn(cs) \in ExprCall /\ WithAllowIn(TRUE, cs) \in ExprCall
  BY ExprCalls, Zenon DEF NoIn
<1>3. ASSUME NEW a \in ExprCall, NEW b \in ExprCall, NEW l \in LoopCall,
             NEW e \in BracketCall \cup ForCall, Ends(e, ")")
      PROVE  /\ ForSequence(<<e>>) /\ ForSequence(<<a, e>>) /\ ForSequence(<<a, b, e>>)
             /\ ForSequence(<<a, e, l>>)
  <2>1. a \in LoopHeadCall /\ b \in LoopHeadCall /\ l \in LoopHeadCall /\ e \in LoopHeadCall
    BY Zenon DEF LoopHeadCall
  <2>2. /\ <<e>> \in Seq(LoopHeadCall) /\ <<a, e>> \in Seq(LoopHeadCall)
        /\ <<a, b, e>> \in Seq(LoopHeadCall) /\ <<a, e, l>> \in Seq(LoopHeadCall)
    BY <2>1, Tuples, Zenon
  <2>3. /\ a \in AnyCall /\ Neutral(a) /\ b \in AnyCall /\ Neutral(b)
        /\ l \in AnyCall /\ Neutral(l) /\ e \in AnyCall /\ ")" \in Closers
    BY CallsNeutral DEF AnyCall, PushedCall, LoopHeadCall, Closers
  <2>4. Closes(<<e>>, ")") /\ Closes(<<a, e>>, ")") /\ Closes(<<a, b, e>>, ")")
    BY <1>3, <2>3, ClosesTuples, Zenon
  <2>5. Closes(<<a, e, l>>, ")")
    BY <1>3, <2>3, ClosesTuples, Zenon
  <2> QED BY <2>2, <2>4, <2>5 DEF ForSequence
<1>4. \A c \in ForCall : Ends(c, ")") /\ c \in BracketCall \cup ForCall
  BY WhatEnds
<1>5. Ends(Expect(")"), ")") /\ Expect(")") \in BracketCall \cup ForCall
  BY WhatEnds, BracketCalls
<1>6. /\ InExpression \in ExprCall /\ Call("pattern") \in ExprCall /\ Expect(";") \in ExprCall
      /\ Call("iteration_body") \in LoopCall
  BY InExpressionCall, CallsOfExpr, ForCalls
<1>7. /\ ForSequence(<<Call("pattern"), Call("for_var")>>)
      /\ ForSequence(<<Call("pattern"), Call("for_let")>>)
      /\ ForSequence(<<Call("pattern"), Call("for_const")>>)
      /\ ForSequence(<<Call("more_for")>>)
      /\ ForSequence(<<Call("for_update")>>)
  BY <1>3, <1>4, <1>6, ForCalls, Zenon
<1>8. ForSequence(ForExpr) /\ ForSequence(MoreForHead) /\ ForSequence(ForEach)
  BY <1>1, <1>2, <1>3, <1>4, <1>5, <1>6, ForCalls, Zenon DEF ForExpr, MoreForHead, ForEach
<1>9. /\ ForSequence(<<NoIn(<<AssignmentExpression>>), Call("for_var_init")>>)
      /\ ForSequence(<<NoIn(<<AssignmentExpression, MoreComma("const_declarator")>>),
                       Expect(";"), Call("more_for")>>)
      /\ ForSequence(<<InExpression, Expect(";"), Call("for_update")>>)
  BY <1>1, <1>2, <1>3, <1>4, <1>6, ForCalls, Zenon
<1>10. ForSequence(<<InExpression, Expect(")"), Call("iteration_body")>>)
  BY <1>3, <1>5, <1>6, Zenon
<1>11. ForSequence(<<NoIn(<<AssignmentExpression>>)>> \o MoreForHead)
  <2> DEFINE n == <<NoIn(<<AssignmentExpression>>)>>
  <2>1. NoIn(<<AssignmentExpression>>) \in ExprCall
    BY <1>1, <1>2
  <2>2. n \in Seq(ExprCall)
    BY <2>1, Tuples, Zenon
  <2> HIDE DEF n
  <2>3. n \in Seq(LoopHeadCall) /\ n \in Seq(AnyCall) /\ Balanced(n)
    BY <2>2, ExprSeqs DEF AnyCall, PushedCall, LoopHeadCall
  <2>4. MoreForHead \in Seq(LoopHeadCall) /\ Closes(MoreForHead, ")")
    BY <1>8 DEF ForSequence
  <2>5. MoreForHead \in Seq(AnyCall) /\ ")" \in Closers
    BY <2>4 DEF AnyCall, PushedCall, Closers
  <2>6. n \o MoreForHead \in Seq(LoopHeadCall) /\ Closes(n \o MoreForHead, ")")
    BY <2>3, <2>4, <2>5, BalancedConcat, ConcatProperties
  <2> QED BY <2>6 DEF ForSequence, n
<1> QED BY <1>7, <1>8, <1>9, <1>10, <1>11

LEMMA ForHeadKeeps == ASSUME ParserInv, ForHead PROVE ParserInv'
<1> DEFINE h == [fn |-> "for_lexical", token |-> Tok]
<1>1. "for_head" \in ForFns
  BY DEF ForFns
<1>2. At("for_head") /\ UNCHANGED value
  BY DEF ForHead
<1>3. \/ Is("var") /\ Read /\ Go(<<Call("pattern"), Call("for_var")>>)
      \/ IsOneOf({"let", "const"}) /\ Read /\ Go(<<h>>)
      \/ Is(";") /\ Read /\ Go(<<Call("more_for")>>)
      \/ Peek /\ Go(ForExpr)
  BY Zenon DEF ForHead
<1>4. /\ Running /\ Alive /\ todo # <<>> /\ This.fn = "for_head" /\ la # <<>>
      /\ This.fn \notin {"leave", "program_items"}
  BY <1>2, AtCall DEF Tokenless
<1>5. CASE IsOneOf({"let", "const"}) /\ Read /\ Go(<<h>>)
  <2>1. h \in HeldCall /\ h.token = Tok
    BY <1>4, HeldToken DEF HeldCall
  <2>2. LoopHeadPlace(scopes)
    BY <1>4, AtHand DEF LoopHeadFns, ForFns
  <2>3. Placed(h, scopes, scopes)
    BY <2>2 DEF Placed, StatementFns, StmtFns
  <2>4. \A q : Moves(This, open, q) => Moves(h, open, q)
    BY <1>4 DEF Moves, ClosesParen, ForFns, IsBracket, Neutral
  <2>5. PlainRead
    BY <1>5, PlainIs DEF PlainRead
  <2> HIDE DEF h
  <2> QED BY <1>2, <1>4, <1>5, <2>1, <2>3, <2>4, <2>5, HoldKeeps
<1> HIDE DEF h
<1> QED BY <1>1, <1>2, <1>3, <1>5, ForSequences, ForGo, PlainIs, Zenon DEF PlainRead

LEMMA ForLexicalKeeps == ASSUME ParserInv, ForLexical PROVE ParserInv'
<1>1. "for_lexical" \in ForFns \cup {"for_lexical"} /\ "for_lexical" \in Holders
  BY DEF Holders
<1>2. /\ At("for_lexical") /\ UNCHANGED value
      /\ \/ Peek /\ Go(<<Call("pattern"),
                         Call(IF This.token.value = "let" THEN "for_let" ELSE "for_const")>>)
         \/ Unread(This.token) /\ Go(ForExpr)
  BY Zenon DEF ForLexical
<1>3. ForSequence(<<Call("pattern"),
                    Call(IF This.token.value = "let" THEN "for_let" ELSE "for_const")>>)
  BY ForSequences, Zenon
<1> QED BY <1>1, <1>2, <1>3, ForSequences, ForGo, Zenon

LEMMA ForBindingKeeps == ASSUME ParserInv, ForBinding PROVE ParserInv'
<1>1. PICK f \in {"for_var", "for_let", "for_const"} : At(f)
  BY DEF ForBinding
<1>2. f \in ForFns
  BY DEF ForFns
<1> DEFINE a == <<NoIn(<<AssignmentExpression>>), Call("for_var_init")>>
           b == <<NoIn(<<AssignmentExpression>>)>> \o MoreForHead
           c == <<NoIn(<<AssignmentExpression, MoreComma("const_declarator")>>),
                  Expect(";"), Call("more_for")>>
<1>3. ForSequence(a) /\ ForSequence(b) /\ ForSequence(c)
  BY ForSequences
<1>4. \/ /\ Is("=") /\ Read /\ UNCHANGED value
         /\ Go(CASE At("for_var") -> a [] At("for_let") -> b [] At("for_const") -> c)
      \/ Peek /\ Go(MoreForHead) /\ UNCHANGED value
      \/ IsOneOf({"in", "of"}) /\ Read /\ Go(ForEach) /\ UNCHANGED value
      \/ Unexpected
  BY Zenon DEF ForBinding
<1> HIDE DEF a, b, c
<1>5. CASE /\ Is("=") /\ Read /\ UNCHANGED value
           /\ Go(CASE At("for_var") -> a [] At("for_let") -> b [] At("for_const") -> c)
  <2> DEFINE d == CASE At("for_var") -> a [] At("for_let") -> b [] At("for_const") -> c
  <2>1. d = a \/ d = b \/ d = c
    <3>1. At("for_var") \/ At("for_let") \/ At("for_const")
      BY <1>1
    <3> QED BY <3>1
  <2>2. ForSequence(d) /\ Go(d)
    BY <1>3, <1>5, <2>1, Zenon
  <2> HIDE DEF d
  <2> QED BY <1>1, <1>2, <1>5, <2>2, ForGo, PlainIs, Zenon DEF PlainRead
<1> QED BY <1>1, <1>2, <1>4, <1>5, ForSequences, ForGo, PlainIs, Refused, Zenon DEF PlainRead

LEMMA ForVarInitKeeps == ASSUME ParserInv, ForVarInit PROVE ParserInv'
<1>1. "for_var_init" \in ForFns
  BY DEF ForFns
<1>2. /\ At("for_var_init")
      /\ \/ Peek /\ Go(MoreForHead) /\ UNCHANGED value
         \/ Is("in") /\ Read /\ Go(ForEach) /\ UNCHANGED value
         \/ Unexpected
  BY Zenon DEF ForVarInit
<1> QED BY <1>1, <1>2, ForSequences, ForGo, PlainIs, Refused, Zenon DEF PlainRead

LEMMA ForExprRestKeeps == ASSUME ParserInv, ForExprRest PROVE ParserInv'
<1>1. "for_expr" \in ForFns
  BY DEF ForFns
<1>2. /\ At("for_expr")
      /\ \/ Is(";") /\ Read /\ Go(<<Call("more_for")>>) /\ UNCHANGED value
         \/ IsOneOf({"in", "of"}) /\ Read /\ Go(ForEach) /\ UNCHANGED value
         \/ Fail("InvalidLHS")
         \/ Unexpected
  BY Zenon DEF ForExprRest
<1> QED BY <1>1, <1>2, ForSequences, ForGo, PlainIs, Refused, Zenon DEF PlainRead

LEMMA MoreForKeeps == ASSUME ParserInv, MoreFor PROVE ParserInv'
<1>1. "more_for" \in ForFns
  BY DEF ForFns
<1> QED BY <1>1, ForSequences, ForGo, PlainIs, Zenon DEF MoreFor, PlainRead

LEMMA ForUpdateKeeps == ASSUME ParserInv, ForUpdate PROVE ParserInv'
<1>1. "for_update" \in ForFns /\ "for_update" \in LoopHeadFns
  BY DEF ForFns, LoopHeadFns
<1> DEFINE c == <<Call("iteration_body")>>
<1>2. /\ At("for_update") /\ UNCHANGED value
      /\ \/ Is(")") /\ Read /\ Go(c)
         \/ Peek /\ Go(<<InExpression, Expect(")"), Call("iteration_body")>>)
  BY Zenon DEF ForUpdate
<1>3. /\ Running /\ Alive /\ todo # <<>> /\ This.fn = "for_update" /\ la # <<>>
      /\ This.fn \notin {"leave", "program_items"} /\ value' \in Values
  BY <1>2, AtCall, SameValue DEF Tokenless
<1>4. CASE Is(")") /\ Read /\ Go(c)
  <2>1. c \in Seq(LoopCall)
    BY ForCalls, Tuples, Zenon
  <2> HIDE DEF c
  <2>2. c \in Seq(LoopHeadCall) /\ c \in Seq(PushedCall)
    BY <2>1 DEF LoopHeadCall, PushedCall
  <2>3. Fits(c)
    BY <1>1, <1>3, <2>2 DEF Fits
  <2>4. c \in Seq(ExprCall \cup LoopCall \cup StmtCall)
    BY <2>1
  <2>5. Balanced(c)
    BY <2>4, BalancedCalls
  <2>6. la' \in Seq(Token) /\ Len(la') <= 2
    BY <1>3, <1>4, ReadTypes
  <2>7. ASSUME NEW q \in BracketStacks, Moves(This, open, q) PROVE Brackets(c, open', q)
    <3>1. open = Append(q, ")")
      BY <1>1, <1>3, <2>7 DEF Moves, ClosesParen
    <3>2. ")" \in Closers
      BY DEF Closers
    <3>3. Front(open) = q /\ Last(open) = ")" /\ open # <<>>
      BY <3>1, <3>2, FrontOfAppend DEF BracketStacks
    <3>4. open' = OpenAfter(")")
      BY <1>4 DEF Read, Is
    <3>5. open' = q
      BY <3>3, <3>4 DEF OpenAfter
    <3> QED BY <2>5, <3>5 DEF Balanced
  <2> QED BY <1>3, <1>4, <2>3, <2>6, <2>7, FittingGo
<1> HIDE DEF c
<1> QED BY <1>1, <1>2, <1>4, ForSequences, ForGo, Zenon

-----------------------------------------------------------------------------
(***************************************************************************)
(* The items of a program or a module.                                     *)
(***************************************************************************)
LEMMA LastOfRest ==
  ASSUME NEW S, NEW s \in Seq(S), s # <<>>, NEW a \in S
  PROVE  /\ Tail(s) # <<>> => Last(Tail(s)) = Last(s)
         /\ <<a, Head(s)>> \o Tail(s) # <<>>
         /\ Last(<<a, Head(s)>> \o Tail(s)) = Last(s)
<1>1. /\ Tail(s) \in Seq(S) /\ Len(Tail(s)) = Len(s) - 1 /\ Len(s) \in Nat \ {0}
      /\ \A i \in 1 .. Len(s) - 1 : Tail(s)[i] = s[i + 1]
      /\ Head(s) = s[1] /\ Head(s) \in S
  OBVIOUS
<1>2. Tail(s) # <<>> => Last(Tail(s)) = Last(s)
  <2> SUFFICES ASSUME Tail(s) # <<>> PROVE Last(Tail(s)) = Last(s)
    OBVIOUS
  <2>1. Len(Tail(s)) # 0
    BY <1>1, EmptySeq
  <2>2. Len(s) - 1 \in 1 .. Len(s) - 1 /\ (Len(s) - 1) + 1 = Len(s)
    BY <1>1, <2>1
  <2> QED BY <1>1, <2>2 DEF Last
<1> DEFINE t == <<a, Head(s)>> \o Tail(s)
<1>3. /\ t \in Seq(S) /\ Len(t) = Len(s) + 1
      /\ t[2] = s[1]
      /\ \A i \in 1 .. Len(s) - 1 : t[i + 2] = s[i + 1]
  BY <1>1
<1> HIDE DEF t
<1>4. t # <<>>
  BY <1>1, <1>3
<1>5. t[Len(s) + 1] = s[Len(s)]
  <2>1. CASE Len(s) = 1
    BY <1>3, <2>1
  <2>2. CASE Len(s) # 1
    <3>1. Len(s) - 1 \in 1 .. Len(s) - 1 /\ (Len(s) - 1) + 2 = Len(s) + 1
          /\ (Len(s) - 1) + 1 = Len(s)
      BY <1>1, <2>2
    <3> QED BY <1>3, <3>1
  <2> QED BY <2>1, <2>2
<1>6. Last(t) = Last(s)
  BY <1>3, <1>5 DEF Last
<1> QED BY <1>2, <1>4, <1>6 DEF t

LEMMA ProgramItemsKeeps == ASSUME ParserInv, ProgramItems PROVE ParserInv'
<1>1. At("program_items")
  BY DEF ProgramItems
<1> DEFINE c == <<Declaration, This>>
           e == <<>>
<1>2. \/ Is("EOF") /\ Peek /\ Go(e) /\ UNCHANGED value
      \/ Fail("unimplemented")
      \/ Peek /\ Go(c) /\ UNCHANGED value
  BY Zenon DEF ProgramItems
<1>3. /\ Running /\ Alive /\ todo # <<>> /\ This.fn = "program_items" /\ la # <<>>
      /\ This \in AnyCall /\ Neutral(This)
  BY <1>1, AtCall, NeutralFn DEF Tokenless, ForFns
<1>4. source.entry # "script" => Last(todo) = Call("program_items")
  BY <1>3 DEF ParserInv, ToTheEnd
<1>5. This \in StmtCall /\ todo \in Seq(AnyCall) /\ "program_items" \in StatementFns
  BY <1>3, SameFunction DEF StmtFns, StatementFns, ParserInv, Types
<1>6. StatementPlace(scopes) /\ scopes \in ScopeStacks /\ open \in BracketStacks
  <2>1. ~LoopStart
    BY <1>3 DEF LoopStart, This, Statement
  <2> QED BY <1>3, <1>5, <2>1, AtHand
<1>7. ASSUME NEW calls \in Seq(StmtCall), Go(calls), ToTheEnd', Peek, UNCHANGED value
      PROVE  ParserInv'
  <2>1. calls \in Seq(PlainCall) /\ calls \in Seq(AnyCall)
    BY DEF PlainCall, AnyCall, PushedCall
  <2>2. calls \in Seq(PushedCall) /\ Balanced(calls)
    BY <2>1, PlainSeqs
  <2>3. Nesting(calls, scopes, scopes) /\ \A i \in 1 .. Len(calls) : calls[i].fn \notin Holders
    <3>1. ~LoopStart
      BY <1>3 DEF LoopStart, This, Statement
    <3> QED BY <1>3, <1>5, <2>2, <3>1, PlacedCalls
  <2>4. la' \in Seq(Token) /\ Len(la') <= 2 /\ open' = open /\ value' \in Values
    BY <1>7, PeekTypes, SameValue
  <2>5. \A q \in BracketStacks : Moves(This, open, q) => Brackets(calls, open', q)
    BY <1>3, <2>2, <2>4 DEF Moves, Balanced
  <2> QED BY <1>3, <1>7, <2>1, <2>3, <2>4, <2>5, GoKeeps
<1>8. CASE Is("EOF") /\ Peek /\ Go(e) /\ UNCHANGED value
  <2>1. e \in Seq(StmtCall)
    BY Tuples, Zenon
  <2>2. todo' = Tail(todo)
    <3>1. todo' = e \o Tail(todo) /\ Tail(todo) \in Seq(AnyCall)
      BY <1>3, <1>8, AtHand DEF Go
    <3>2. e \o Tail(todo) = Tail(todo)
      BY <3>1
    <3> QED BY <3>1, <3>2
  <2> HIDE DEF e
  <2>3. UNCHANGED <<la, source, result>>
    BY <1>8 DEF Peek, Go
  <2>4. ToTheEnd'
    <3>1. Tail(todo) # <<>> => Last(Tail(todo)) = Last(todo)
      BY <1>3, <1>5, LastOfRest
    <3> QED BY <1>3, <1>4, <1>8, <2>2, <2>3, <3>1 DEF ToTheEnd, Is, Tok, Alive
  <2> QED BY <1>7, <1>8, <2>1, <2>4
<1>9. CASE Peek /\ Go(c) /\ UNCHANGED value
  <2>1. c \in Seq(StmtCall)
    BY <1>5, StmtCalls, Tuples, Zenon
  <2>2. todo' = c \o Tail(todo) /\ UNCHANGED <<la, source, result>>
    BY <1>9 DEF Go, Peek
  <2>3. todo' # <<>> /\ Last(todo') = Last(todo)
    <3>1. Declaration \in AnyCall
      BY StmtCalls, CallsNeutral
    <3> QED BY <1>3, <1>5, <2>2, <3>1, LastOfRest DEF This
  <2>4. ToTheEnd'
    BY <1>3, <1>4, <2>2, <2>3 DEF ToTheEnd, Alive
  <2> HIDE DEF c
  <2> QED BY <1>7, <1>9, <2>1, <2>4
<1> QED BY <1>2, <1>8, <1>9, Refused

-----------------------------------------------------------------------------
(***************************************************************************)
(* The parser keeps its invariant.                                         *)
(***************************************************************************)
LEMMA NoScopesPlace == StatementPlace(<<>>) /\ <<>> \in ScopeStacks
<1>1. Scopes!Local(<<>>, 0) = {}
  BY DEF Scopes!Local
<1>2. Len(<<>>) = 0
  OBVIOUS
<1>3. InAllowed(<<>>)
  BY <1>1, <1>2 DEF InAllowed, Scopes!InNotAllowed
<1> QED BY <1>1, <1>2, <1>3 DEF StatementPlace, LoopHeadPlace, ScopeStacks

LEMMA InitInv == ASSUME Init PROVE ParserInv
<1> DEFINE t == <<Call("body_directives"), Items(source.entry)>>
<1>1. /\ source \in Sources /\ left = source.length /\ la = <<>> /\ open = <<>>
      /\ todo = t /\ context = NewContext /\ scopes = <<>> /\ jump = NoJump
      /\ value = "value" /\ result = "parsing"
  BY DEF Init
<1>2. t \in Seq(StmtCall) /\ t # <<>> /\ Last(t) = Items(source.entry)
  <2>1. Items(source.entry) \in StmtCall
    BY StmtCalls DEF Items
  <2>2. t \in Seq(StmtCall)
    BY <2>1, StmtCalls, Tuples, Zenon
  <2>3. Len(t) = 2 /\ t[2] = Items(source.entry)
    OBVIOUS
  <2> QED BY <2>2, <2>3 DEF Last
<1> HIDE DEF t
<1>3. /\ t \in Seq(PlainCall) /\ t \in Seq(AnyCall)
      /\ \A i \in 1 .. Len(t) : t[i] \in StmtCall
  BY <1>2 DEF PlainCall, AnyCall, PushedCall
<1>4. t \in Seq(PushedCall) /\ Brackets(t, <<>>, <<>>)
  <2>1. <<>> \in BracketStacks
    BY DEF BracketStacks
  <2> QED BY <1>3, <2>1, PlainSeqs DEF Balanced
<1>5. Nesting(t, <<>>, <<>>)
  <2>1. \A i \in 1 .. Len(t) : t[i] \in PushedCall
    BY <1>3 DEF PushedCall
  <2>2. \A i \in 1 .. Len(t) : Placed(t[i], <<>>, <<>>)
    BY <2>1, NoScopesPlace, StatementPlaced
  <2> QED BY <1>3, <2>2, NoScopesPlace, NestingFlat
<1>6. \A i \in DOMAIN t : t[i].fn \in FunctionNames /\ t[i].fn \notin Holders
  <2>1. DOMAIN t = 1 .. Len(t)
    BY <1>3
  <2>2. \A i \in 1 .. Len(t) : t[i] \in AnyCall /\ t[i] \in PushedCall
    BY <1>3, CallsNeutral DEF PushedCall
  <2> QED BY <2>1, <2>2, FnOfAny, PushedFn
<1>7. Types
  <2>1. left \in 0 .. source.length
    <3>1. source.length \in Nat
      BY <1>1, SourcesAssumption
    <3> QED BY <1>1, <3>1
  <2>2. context \in ContextRecord
    BY <1>1, NoneAssumption DEF NewContext, ContextRecord, Labels, NoLabels, LabelType
  <2>3. jump \in JumpRecord /\ jump.accepted
    BY <1>1 DEF NoJump, JumpRecord
  <2>4. la \in Seq(Token) /\ open \in Seq({")", "]", "}", "unmatched"})
    BY <1>1
  <2>5. TypeOK
    BY <1>1, <1>6, <2>1, <2>2, <2>3, <2>4 DEF TypeOK, JumpRecord
  <2> QED BY <1>1, <1>3, <2>3, <2>5, NoScopesPlace DEF Types
<1>8. Held
  BY <1>1, <1>6 DEF Held
<1>9. ToTheEnd
  BY <1>1, <1>2 DEF ToTheEnd, Items
<1> QED BY <1>1, <1>4, <1>5, <1>7, <1>8, <1>9 DEF ParserInv, Bracketed, Nested, Done

LEMMA NextInv == ASSUME ParserInv, [Next]_vars PROVE ParserInv'
<1>1. CASE ParsingStep
  <2>1. CASE Lex BY <2>1, LexKeeps
  <2>2. CASE LexError BY <2>2, Refused
  <2>3. CASE ExpectToken BY <2>3, ExpectTokenKeeps
  <2>4. CASE MoreCommaItems BY <2>4, MoreCommaItemsKeeps
  <2>5. CASE EndWithAutoSemi BY <2>5, EndWithAutoSemiKeeps
  <2>6. CASE EnterAllowIn BY <2>6, EnterAllowInKeeps
  <2>7. CASE Leave BY <2>7, LeaveKeeps
  <2>8. CASE BuildNode BY <2>8, BuildNodeKeeps
  <2> QED
    BY <1>1, <2>1, <2>2, <2>3, <2>4, <2>5, <2>6, <2>7, <2>8 DEF ParsingStep
<1>2. CASE BindingStep
  BY <1>2, PatternKeeps, DeclaratorKeeps, DeclaratorInitKeeps, ConstDeclaratorKeeps,
     ParameterKeeps, MoreParametersKeeps, GeneratorKeeps, IdKeeps, IdOptKeeps,
     FunctionBodyCallKeeps, BodyDirectivesKeeps, DirectiveRestKeeps, Zenon
     DEF BindingStep
<1>3. CASE ExpressionStep
  BY <1>3, ExpressionCallKeeps, MoreExpressionsKeeps, AssignmentExpressionCallKeeps,
     MoreInfixExpressionsKeeps, MoreConditionalKeeps, MoreAssignmentKeeps,
     UnaryExpressionKeeps, PrefixUpdateKeeps, PostfixKeeps, LhsExpressionKeeps, NewsKeeps,
     IdNameKeeps, MoreNewExpressionKeeps, NewArgumentsKeeps, MoreSuffixesKeeps,
     ArgumentsKeeps, ArgumentListKeeps, ExprListItemKeeps, PrimaryExpressionKeeps,
     ParenExpressionKeeps, ArrayElementsKeeps, MoreElementsKeeps, PropertiesKeeps,
     MorePropertiesKeeps, ObjectPropertyKeeps, AccessorKeeps, ReservedKeyKeeps,
     PropertyKeyCallKeeps, MorePropInitCallKeeps, Zenon
     DEF ExpressionStep
<1>4. CASE StatementStep
  BY <1>4, ProgramItemsKeeps, StatementListKeeps, StmtListItemKeeps,
     IdentifierStatementKeeps, LabelledKeeps, MoreLabelsKeeps, LabelledBodyKeeps,
     ElseOptKeeps, IterationBodyCallKeeps, SwitchBodyKeeps, SwitchCasesKeeps,
     BreakArgumentKeeps, ContinueArgumentKeeps, ReturnArgumentKeeps, ReturnCheckKeeps,
     ThrowArgumentKeeps, HandlersKeeps, CatchOptKeeps, FinallyOptKeeps, ForHeadKeeps,
     ForLexicalKeeps, ForBindingKeeps, ForVarInitKeeps, ForExprRestKeeps, MoreForKeeps,
     ForUpdateKeeps, Zenon
     DEF StatementStep
<1>5. CASE Return \/ UNCHANGED vars \/ Finished
  BY <1>5, RestKeeps DEF Finished
<1> QED BY <1>1, <1>2, <1>3, <1>4, <1>5 DEF Next
\* The parser keeps its invariant: what the calls pending will do to the brackets and
\* the scopes open, and where they stand.
THEOREM ParserInvariant == Spec => []ParserInv
<1>1. Init => ParserInv
  BY InitInv
<1>2. ParserInv /\ [Next]_vars => ParserInv'
  BY NextInv
<1> QED BY <1>1, <1>2, PTL DEF Spec

-----------------------------------------------------------------------------
(***************************************************************************)
(* What a parse that succeeds has done with its source.                    *)
(***************************************************************************)
\* Every state of the parser has its type: the tokens in the buffer are of the
\* source, no more tokens are read than it has, and every call pending is of a
\* function of the parser.
THEOREM TypesCorrect == Spec => []TypeOK
<1>1. ParserInv => TypeOK
  BY DEF ParserInv, Types
<1> QED BY <1>1, ParserInvariant, PTL

\* A token is given back only by the call that read it, before it has read more than
\* one other: the buffer of Lexer::new never holds more than two tokens.
THEOREM LookaheadSuffices == Spec => []LookaheadFits
<1>1. ParserInv => LookaheadFits
  BY DEF ParserInv, Held, LookaheadFits
<1> QED BY <1>1, ParserInvariant, PTL

\* Every function that reads an opening bracket reads its closing one, or has a call
\* pending that will: a parse that succeeds has consumed balanced brackets.
THEOREM BracketsClosed == Spec => []BracketsBalanced
<1>1. ASSUME ParserInv, result = "ok" PROVE open = <<>>
  <2>1. todo = <<>> /\ Brackets(todo, open, <<>>)
    BY <1>1 DEF ParserInv, Done, Bracketed, Alive
  <2>2. PICK g : g[1] = open /\ g[Len(todo) + 1] = <<>>
    BY <2>1 DEF Brackets
  <2>3. Len(todo) + 1 = 1
    BY <2>1
  <2> QED BY <2>2, <2>3
<1>2. ParserInv => BracketsBalanced
  BY <1>1 DEF BracketsBalanced
<1> QED BY <1>2, ParserInvariant, PTL

\* A program or a module is parsed to the end of its source: what it ends with, a
\* closing brace or a case that no statement has asked for, is not left unread.
THEOREM SourceRead ==
  ASSUME \A s \in Sources : s.entry # "script"
  PROVE  Spec => []WholeSource
<1>1. ParserInv => WholeSource
  BY DEF ParserInv, ToTheEnd, Done, Types, TypeOK, WholeSource, Alive
<1> QED BY <1>1, ParserInvariant, PTL

-----------------------------------------------------------------------------
(***************************************************************************)
(* The parser implements the discipline of ParserScopes, and what is       *)
(* proved there of any sequence of entries, exits and jumps holds of every *)
(* parse.                                                                  *)
(***************************************************************************)
\* The steps that leave the context alone.
Outside == UNCHANGED <<context, scopes, jump>>

LEMMA StaysOutside ==
  /\ \A c : Go(c) => Outside
  /\ \A e : Fail(e) => Outside
  /\ Unexpected => Outside
  /\ BindingPattern => Outside
BY DEF Go, Fail, Unexpected, BindingPattern, Outside

LEMMA LexedOutside ==
  Lex \/ LexError \/ ExpectToken \/ MoreCommaItems \/ EndWithAutoSemi \/ BuildNode => Outside
<1>1. Lex => Outside
  BY DEF Lex, Outside
<1> QED
  BY <1>1, StaysOutside, Zenon
     DEF LexError, ExpectToken, MoreCommaItems, EndWithAutoSemi, BuildNode

LEMMA BindingsOutside == BindingStep => FunctionBodyCall \/ Outside
<1>1. Pattern \/ Declarator \/ DeclaratorInit \/ ConstDeclarator => Outside
  BY StaysOutside, Zenon DEF Pattern, Declarator, DeclaratorInit, ConstDeclarator
<1>2. Parameter \/ MoreParameters \/ Generator \/ Id \/ IdOpt => Outside
  BY StaysOutside, Zenon DEF Parameter, MoreParameters, Generator, Id, IdOpt
<1>3. BodyDirectives \/ DirectiveRest => Outside
  BY StaysOutside, Zenon DEF BodyDirectives, DirectiveRest
<1> QED BY <1>1, <1>2, <1>3, Zenon DEF BindingStep

LEMMA ExpressionsOutside ==
  ExpressionStep =>
    \/ \E cs : GoInside(AllowIn(context, TRUE), cs)
    \/ Outside
<1>1. ExpressionCall \/ MoreExpressions \/ AssignmentExpressionCall => Outside
  BY StaysOutside, Zenon DEF ExpressionCall, MoreExpressions, AssignmentExpressionCall
<1>2. MoreInfixExpressions \/ MoreConditional \/ MoreAssignment => Outside
  BY StaysOutside, Zenon DEF MoreInfixExpressions, MoreConditional, MoreAssignment
<1>3. UnaryExpression \/ PrefixUpdate \/ Postfix \/ LhsExpression => Outside
  BY StaysOutside, Zenon DEF UnaryExpression, PrefixUpdate, Postfix, LhsExpression
<1>4. News \/ IdName \/ MoreNewExpression \/ NewArguments \/ MoreSuffixes => Outside
  BY StaysOutside, Zenon DEF News, IdName, MoreNewExpression, NewArguments, MoreSuffixes, Deref
<1>5. Arguments => \E cs : GoInside(AllowIn(context, TRUE), cs)
  BY Zenon DEF Arguments
<1>6. ArgumentList \/ ExprListItem \/ ParenExpression => Outside
  BY StaysOutside, Zenon DEF ArgumentList, ExprListItem, ParenExpression
<1>7. PrimaryExpression =>
        (\E cs : GoInside(AllowIn(context, TRUE), cs)) \/ Outside
  BY StaysOutside, Zenon DEF PrimaryExpression
<1>8. ArrayElements \/ MoreElements \/ Properties \/ MoreProperties => Outside
  BY StaysOutside, Zenon DEF ArrayElements, MoreElements, Properties, MoreProperties
<1>9. ObjectProperty \/ Accessor \/ ReservedKey => Outside
  BY StaysOutside, Zenon DEF ObjectProperty, Accessor, ReservedKey
<1>10. PropertyKeyCall \/ MorePropInitCall => Outside
  BY StaysOutside, Zenon DEF PropertyKeyCall, MorePropInitCall
<1> QED
  BY <1>1, <1>2, <1>3, <1>4, <1>5, <1>6, <1>7, <1>8, <1>9, <1>10, Zenon DEF ExpressionStep

LEMMA StatementsOutside ==
  StatementStep =>
    \/ LabelledBody \/ IterationBodyCall \/ SwitchBody
    \/ BreakArgument \/ ContinueArgument \/ ReturnCheck
    \/ Outside
<1>1. ProgramItems \/ StatementList \/ StmtListItem \/ IdentifierStatement => Outside
  BY StaysOutside, Zenon DEF ProgramItems, StatementList, StmtListItem, IdentifierStatement
<1>2. Labelled \/ MoreLabels \/ ElseOpt \/ SwitchCases => Outside
  BY StaysOutside, Zenon DEF Labelled, MoreLabels, ElseOpt, SwitchCases
<1>3. ReturnArgument \/ ThrowArgument \/ Handlers \/ CatchOpt \/ FinallyOpt => Outside
  BY StaysOutside, Zenon DEF ReturnArgument, ThrowArgument, Handlers, CatchOpt, FinallyOpt
<1>4. ForHead \/ ForLexical \/ ForBinding \/ ForVarInit => Outside
  BY StaysOutside, Zenon DEF ForHead, ForLexical, ForBinding, ForVarInit
<1>5. ForExprRest \/ MoreFor \/ ForUpdate => Outside
  BY StaysOutside, Zenon DEF ForExprRest, MoreFor, ForUpdate
<1> QED BY <1>1, <1>2, <1>3, <1>4, <1>5, Zenon DEF StatementStep

-----------------------------------------------------------------------------
(***************************************************************************)
(* The steps that change the context, step by step of ParserScopes.        *)
(***************************************************************************)
LEMMA EnterScope ==
  ASSUME ParserInv, Running, NEW s, NEW cs, GoInside(s, cs)
  PROVE  Scopes!Enter(s)
<1>1. jump.accepted /\ scopes \in ScopeStacks
  BY DEF ParserInv, Types
<1>2. Len(scopes) \in Nat
  BY <1>1 DEF ScopeStacks
<1>3. Entered(context, s) = Scopes!Entered(context, s)
  BY Zenon
     DEF Scopes!Entered, Entered, Scopes!NewFunction, NewFunction, Scopes!NoLabels, NoLabels,
         Scopes!InsertLabels, InsertLabels
<1>4. NoJump = Scopes!NoJump
  BY DEF NoJump, Scopes!NoJump
<1> QED BY <1>1, <1>2, <1>3, <1>4 DEF GoInside, Scopes!Enter, Scopes!Parsing

LEMMA EnterAllowInScope ==
  ASSUME ParserInv, Running, NEW v \in BOOLEAN, NEW cs, GoInside(AllowIn(context, v), cs)
  PROVE  Scopes!Next
<1>1. AllowIn(context, v) = Scopes!AllowIn(context, v)
  BY DEF AllowIn, Scopes!AllowIn
<1>2. Scopes!Enter(Scopes!AllowIn(context, v))
  BY <1>1, EnterScope
<1> QED BY <1>2 DEF Scopes!EnterAllowIn, Scopes!Next

LEMMA LeaveScopeStep ==
  ASSUME ParserInv, Leave
  PROVE  Scopes!Next
<1>1. /\ context' = Left(context, This.scope) /\ scopes' = Front(scopes) /\ jump' = NoJump
      /\ Running
  BY DEF Leave, At
<1>2. scopes # <<>> /\ This.scope = Last(scopes)
  BY LeaveKeeps
<1>3. jump.accepted
  BY <1>1 DEF ParserInv, Types
<1>4. Left(context, Last(scopes)) = Scopes!Left(context, Last(scopes))
  BY Zenon DEF Scopes!Left, Left, Scopes!RemoveLabels, RemoveLabels
<1>5. NoJump = Scopes!NoJump
  BY DEF NoJump, Scopes!NoJump
<1>6. Last(scopes) = Scopes!Last(scopes) /\ Front(scopes) = Scopes!Front(scopes)
  BY DEF Last, Scopes!Last, Front, Scopes!Front
<1>7. Scopes!Leave
  BY <1>1, <1>2, <1>3, <1>4, <1>5, <1>6 DEF Scopes!Leave, Scopes!Parsing
<1> QED BY <1>7 DEF Scopes!Next

LEMMA JumpScope ==
  ASSUME ParserInv, Running, NEW stmt, NEW label, NEW accepted, NEW error, NEW cs,
         GoJump(stmt, label, accepted, error, cs)
  PROVE  Scopes!Jump(stmt, label, accepted)
BY DEF ParserInv, Types, GoJump, Scopes!Jump, Scopes!Parsing

LEMMA JumpChecks ==
  /\ MayBreak(context) = Scopes!MayBreak(context)
  /\ MayContinue(context) = Scopes!MayContinue(context)
  /\ MayReturn(context) = Scopes!MayReturn(context)
  /\ \A l : MayBreakTo(context, l) = Scopes!MayBreakTo(context, l)
  /\ \A l : MayContinueTo(context, l) = Scopes!MayContinueTo(context, l)
BY DEF MayBreak, Scopes!MayBreak, MayContinue, Scopes!MayContinue, MayReturn,
   Scopes!MayReturn, MayBreakTo, Scopes!MayBreakTo, MayContinueTo, Scopes!MayContinueTo

LEMMA ExpressionScopes ==
  ASSUME ParserInv, ExpressionStep PROVE [Scopes!Next]_(Scopes!vars)
<1>1. Running
  BY Zenon
     DEF ExpressionStep, At, ExpressionCall, MoreExpressions, AssignmentExpressionCall,
         MoreInfixExpressions, MoreConditional, MoreAssignment, UnaryExpression,
         PrefixUpdate, Postfix, LhsExpression, News, IdName, MoreNewExpression,
         NewArguments, MoreSuffixes, Arguments, ArgumentList, ExprListItem,
         PrimaryExpression, ParenExpression, ArrayElements, MoreElements, Properties,
         MoreProperties, ObjectProperty, Accessor, ReservedKey, PropertyKeyCall,
         MorePropInitCall
<1>2. CASE \E cs : GoInside(AllowIn(context, TRUE), cs)
  BY <1>1, <1>2, EnterAllowInScope
<1>3. CASE Outside
  BY <1>3 DEF Outside, Scopes!vars
<1> QED BY <1>2, <1>3, ExpressionsOutside

LEMMA LabelledScopes == ASSUME ParserInv, LabelledBody PROVE Scopes!Next
<1> DEFINE ls == This.labels
           t == TypeOfLabel
<1>1. PICK f \in {"labelled_body", "labels"} : At(f)
  BY DEF LabelledBody
<1>2. Running /\ This \in AnyCall /\ This.fn = f
  BY <1>1, AtCall
<1>3. ls \in SUBSET Label /\ t \in Scopes!LabelType
  BY <1>2, StatementFields DEF TypeOfLabel, Scopes!LabelType
<1>4. GoInside(WithLabels(ls, t), <<Statement>>)
  BY DEF LabelledBody
<1> HIDE DEF ls, t
<1>5. WithLabels(ls, t) = Scopes!WithLabels(ls, t)
  BY DEF WithLabels, Scopes!WithLabels
<1>6. Scopes!Enter(Scopes!WithLabels(ls, t))
  BY <1>2, <1>4, <1>5, EnterScope
<1>7. Scopes!EnterWithLabels
  BY <1>3, <1>6 DEF Scopes!EnterWithLabels
<1> QED BY <1>7 DEF Scopes!Next

LEMMA StatementScopes ==
  ASSUME ParserInv, StatementStep PROVE [Scopes!Next]_(Scopes!vars)
<1>1. CASE LabelledBody
  BY <1>1, LabelledScopes
<1>2. CASE IterationBodyCall
  <2>1. Running /\ GoInside(IterationBody(context), <<Statement>>)
    BY <1>2 DEF IterationBodyCall, At
  <2>2. IterationBody(context) = Scopes!IterationBody(context)
    BY DEF IterationBody, Scopes!IterationBody
  <2>3. Scopes!Enter(Scopes!IterationBody(context))
    BY <2>1, <2>2, EnterScope
  <2> QED BY <2>3 DEF Scopes!EnterIterationBody, Scopes!Next
<1>3. CASE SwitchBody
  <2>1. Running /\ \E cs : GoInside(SwitchStatement(context), cs)
    BY <1>3, Zenon DEF SwitchBody, At
  <2>2. SwitchStatement(context) = Scopes!SwitchStatement(context)
    BY DEF SwitchStatement, Scopes!SwitchStatement
  <2>3. Scopes!Enter(Scopes!SwitchStatement(context))
    BY <2>1, <2>2, EnterScope
  <2> QED BY <2>3 DEF Scopes!EnterSwitchStatement, Scopes!Next
<1>4. CASE BreakArgument
  <2>1. /\ Running
        /\ \/ \E e, cs : GoJump("break", None, MayBreak(context), e, cs)
           \/ /\ Tok.value \in Label
              /\ \E e, cs : GoJump("break", Tok.value, MayBreakTo(context, Tok.value), e, cs)
           \/ Outside
    BY <1>4, StaysOutside, Zenon DEF BreakArgument, At, IsIdentifier
  <2>2. CASE \E e, cs : GoJump("break", None, MayBreak(context), e, cs)
    <3>1. Scopes!Break
      BY <2>1, <2>2, JumpScope, JumpChecks DEF Scopes!Break
    <3> QED BY <3>1 DEF Scopes!Next
  <2>3. CASE /\ Tok.value \in Label
             /\ \E e, cs : GoJump("break", Tok.value, MayBreakTo(context, Tok.value), e, cs)
    <3>1. Scopes!BreakTo
      BY <2>1, <2>3, JumpScope, JumpChecks DEF Scopes!BreakTo
    <3> QED BY <3>1 DEF Scopes!Next
  <2> QED BY <2>1, <2>2, <2>3 DEF Outside, Scopes!vars
<1>5. CASE ContinueArgument
  <2>1. /\ Running
        /\ \/ \E e, cs : GoJump("continue", None, MayContinue(context), e, cs)
           \/ /\ Tok.value \in Label
              /\ \E e, cs :
                   GoJump("continue", Tok.value, MayContinueTo(context, Tok.value), e, cs)
           \/ Outside
    BY <1>5, StaysOutside, Zenon DEF ContinueArgument, At, IsIdentifier
  <2>2. CASE \E e, cs : GoJump("continue", None, MayContinue(context), e, cs)
    <3>1. Scopes!Continue
      BY <2>1, <2>2, JumpScope, JumpChecks DEF Scopes!Continue
    <3> QED BY <3>1 DEF Scopes!Next
  <2>3. CASE /\ Tok.value \in Label
             /\ \E e, cs :
                  GoJump("continue", Tok.value, MayContinueTo(context, Tok.value), e, cs)
    <3>1. Scopes!ContinueTo
      BY <2>1, <2>3, JumpScope, JumpChecks DEF Scopes!ContinueTo
    <3> QED BY <3>1 DEF Scopes!Next
  <2> QED BY <2>1, <2>2, <2>3 DEF Outside, Scopes!vars
<1>6. CASE ReturnCheck
  <2>1. Running /\ \E e, cs : GoJump("return", None, MayReturn(context), e, cs)
    BY <1>6, Zenon DEF ReturnCheck, At
  <2>2. Scopes!Return
    BY <2>1, JumpScope, JumpChecks DEF Scopes!Return
  <2> QED BY <2>2 DEF Scopes!Next
<1>7. CASE Outside
  BY <1>7 DEF Outside, Scopes!vars
<1> QED BY <1>1, <1>2, <1>3, <1>4, <1>5, <1>6, <1>7, StatementsOutside

LEMMA NextScopes ==
  ASSUME ParserInv, [Next]_vars PROVE [Scopes!Next]_(Scopes!vars)
<1>1. CASE Outside
  BY <1>1 DEF Outside, Scopes!vars
<1>2. CASE ParsingStep
  <2>1. CASE EnterAllowIn
    <3>1. Running /\ This \in AnyCall /\ This.fn = "allow_in"
      BY <2>1, AtCall DEF EnterAllowIn
    <3>2. This.value \in BOOLEAN
      BY <3>1, CallFields
    <3> QED BY <2>1, <3>1, <3>2, EnterAllowInScope DEF EnterAllowIn
  <2>2. CASE Leave
    BY <2>2, LeaveScopeStep
  <2> QED BY <1>1, <1>2, <2>1, <2>2, LexedOutside DEF ParsingStep
<1>3. CASE BindingStep
  <2>1. CASE FunctionBodyCall
    <3>1. Running /\ \E cs : GoInside(FunctionBody(context), cs)
      BY <2>1, Zenon DEF FunctionBodyCall, At
    <3>2. FunctionBody(context) = Scopes!FunctionBody(context)
      BY DEF FunctionBody, Scopes!FunctionBody
    <3>3. Scopes!Enter(Scopes!FunctionBody(context))
      BY <3>1, <3>2, EnterScope
    <3> QED BY <3>3 DEF Scopes!EnterFunctionBody, Scopes!Next
  <2> QED BY <1>1, <1>3, <2>1, BindingsOutside
<1>4. CASE Return \/ Finished \/ UNCHANGED vars
  BY <1>1, <1>4 DEF Return, Finished, vars, Outside
<1> QED BY <1>2, <1>3, <1>4, ExpressionScopes, StatementScopes DEF Next

LEMMA InitScopes == Init => Scopes!Init
BY Zenon
   DEF Init, Scopes!Init, NewContext, Scopes!NewContext, NoJump, Scopes!NoJump, NoLabels,
       Scopes!NoLabels

\* The grammar's functions change the context as ParserScopes says: each scope is
\* left in the order in which it was opened, and a jump is checked against the context
\* of that moment.
THEOREM ScopesImplemented == Spec => ImplementsScopes
<1>1. ParserInv /\ [Next]_vars => [Scopes!Next]_(Scopes!vars)
  BY NextScopes
<1>2. Spec => Scopes!Spec
  BY <1>1, InitScopes, ParserInvariant, PTL DEF Spec, Scopes!Spec
<1> QED BY <1>2 DEF ImplementsScopes

-----------------------------------------------------------------------------
(***************************************************************************)
(* What is proved of ParserScopes holds of the parser.                     *)
(***************************************************************************)
\* The instance of ParserScopes, and of the proofs about it, are the same.
LEMMA SameInit == Scopes!Init => ScopesProofs!Init
BY Zenon
   DEF Scopes!Init, ScopesProofs!Init, Scopes!NewContext, ScopesProofs!NewContext,
       Scopes!NoJump, ScopesProofs!NoJump, Scopes!NoLabels, ScopesProofs!NoLabels

LEMMA SameEnter == ASSUME NEW s, Scopes!Enter(s) PROVE ScopesProofs!Enter(s)
BY Zenon
   DEF Scopes!Enter, ScopesProofs!Enter, Scopes!Parsing, ScopesProofs!Parsing,
       Scopes!NoJump, ScopesProofs!NoJump, Scopes!Entered, ScopesProofs!Entered,
       Scopes!NewFunction, ScopesProofs!NewFunction, Scopes!NoLabels, ScopesProofs!NoLabels,
       Scopes!InsertLabels, ScopesProofs!InsertLabels

LEMMA SameJump ==
  ASSUME NEW stmt, NEW label, NEW accepted, Scopes!Jump(stmt, label, accepted)
  PROVE  ScopesProofs!Jump(stmt, label, accepted)
BY DEF Scopes!Jump, ScopesProofs!Jump, Scopes!Parsing, ScopesProofs!Parsing

LEMMA SameLeave == Scopes!Leave => ScopesProofs!Leave
BY Zenon
   DEF Scopes!Leave, ScopesProofs!Leave, Scopes!Parsing, ScopesProofs!Parsing,
       Scopes!NoJump, ScopesProofs!NoJump, Scopes!Left, ScopesProofs!Left,
       Scopes!RemoveLabels, ScopesProofs!RemoveLabels, Scopes!Last, ScopesProofs!Last,
       Scopes!Front, ScopesProofs!Front

LEMMA SameNext == Scopes!Next => ScopesProofs!Next
<1>1. Scopes!EnterFunctionBody => ScopesProofs!EnterFunctionBody
  BY SameEnter DEF Scopes!EnterFunctionBody, ScopesProofs!EnterFunctionBody,
     Scopes!FunctionBody, ScopesProofs!FunctionBody
<1>2. Scopes!EnterIterationBody => ScopesProofs!EnterIterationBody
  BY SameEnter DEF Scopes!EnterIterationBody, ScopesProofs!EnterIterationBody,
     Scopes!IterationBody, ScopesProofs!IterationBody
<1>3. Scopes!EnterSwitchStatement => ScopesProofs!EnterSwitchStatement
  BY SameEnter DEF Scopes!EnterSwitchStatement, ScopesProofs!EnterSwitchStatement,
     Scopes!SwitchStatement, ScopesProofs!SwitchStatement
<1>4. Scopes!EnterAllowIn => ScopesProofs!EnterAllowIn
  BY SameEnter DEF Scopes!EnterAllowIn, ScopesProofs!EnterAllowIn,
     Scopes!AllowIn, ScopesProofs!AllowIn
<1>5. Scopes!EnterWithLabels => ScopesProofs!EnterWithLabels
  BY SameEnter DEF Scopes!EnterWithLabels, ScopesProofs!EnterWithLabels,
     Scopes!WithLabels, ScopesProofs!WithLabels, Scopes!LabelType, ScopesProofs!LabelType
<1>6. Scopes!Break \/ Scopes!BreakTo => ScopesProofs!Break \/ ScopesProofs!BreakTo
  BY SameJump DEF Scopes!Break, ScopesProofs!Break, Scopes!BreakTo, ScopesProofs!BreakTo,
     Scopes!MayBreak, ScopesProofs!MayBreak, Scopes!MayBreakTo, ScopesProofs!MayBreakTo
<1>7. Scopes!Continue \/ Scopes!ContinueTo => ScopesProofs!Continue \/ ScopesProofs!ContinueTo
  BY SameJump
     DEF Scopes!Continue, ScopesProofs!Continue, Scopes!ContinueTo, ScopesProofs!ContinueTo,
     Scopes!MayContinue, ScopesProofs!MayContinue, Scopes!MayContinueTo,
     ScopesProofs!MayContinueTo
<1>8. Scopes!Return => ScopesProofs!Return
  BY SameJump
     DEF Scopes!Return, ScopesProofs!Return, Scopes!MayReturn, ScopesProofs!MayReturn
<1> QED
  BY <1>1, <1>2, <1>3, <1>4, <1>5, <1>6, <1>7, <1>8, SameLeave, Zenon
     DEF Scopes!Next, ScopesProofs!Next

LEMMA ScopesHold == Spec => []ScopesProofs!ScopesInv
<1>1. ParserInv /\ [Next]_vars => [ScopesProofs!Next]_(ScopesProofs!vars)
  BY NextScopes, SameNext DEF Scopes!vars, ScopesProofs!vars
<1>2. Init => ScopesProofs!Init
  BY InitScopes, SameInit
<1>3. Spec => ScopesProofs!Spec
  BY <1>1, <1>2, ParserInvariant, PTL DEF Spec, ScopesProofs!Spec
<1>4. ScopesProofs!Spec => []ScopesProofs!ScopesInv
  BY ScopesProofs!ScopesCorrect, InstanceAssumptions
<1> QED BY <1>3, <1>4, PTL

LEMMA SameNesting ==
  ASSUME NEW ss, NEW n
  PROVE  /\ ScopesProofs!Local(ss, n) = Scopes!Local(ss, n)
         /\ ScopesProofs!InNotAllowed(ss, n) = Scopes!InNotAllowed(ss, n)
<1>1. ScopesProofs!Local(ss, n) = Scopes!Local(ss, n)
  BY DEF ScopesProofs!Local, Scopes!Local
<1> QED BY <1>1 DEF ScopesProofs!InNotAllowed, Scopes!InNotAllowed

\* Every statement starts with `in` allowed: the brackets that forbid it close before
\* one starts, or have a function body in them, which allows it again.
THEOREM InAllowedInStatements == Spec => []StatementsAllowIn
<1>1. ASSUME ParserInv, ScopesProofs!ScopesInv, At("stmt_list_item")
      PROVE  context.allow_in
  <2>1. Alive /\ todo # <<>> /\ This.fn \in StatementFns
    BY <1>1, AtCall DEF StatementFns
  <2>2. InAllowed(scopes)
    BY <1>1, <2>1, AtHand DEF LoopHeadPlace
  <2>3. context.allow_in <=> ~ScopesProofs!InNotAllowed(scopes, Len(scopes))
    BY <1>1 DEF ScopesProofs!ScopesInv, ScopesProofs!ContextAgrees, ScopesProofs!Agrees
  <2> QED BY <2>2, <2>3, SameNesting DEF InAllowed
<1>2. ParserInv /\ ScopesProofs!ScopesInv => StatementsAllowIn
  BY <1>1 DEF StatementsAllowIn
<1> QED BY <1>2, ParserInvariant, ScopesHold, PTL

\* A parse that succeeds has left all its scopes, and each of them has put back what
\* it changed: the context is again that of Context::new.
THEOREM ContextPutBack == Spec => []ContextRestored
<1>1. ASSUME ParserInv, ScopesProofs!ScopesInv, result = "ok"
      PROVE  context = NewContext
  <2>1. scopes = <<>>
    <3>1. todo = <<>> /\ Nesting(todo, scopes, <<>>)
      BY <1>1 DEF ParserInv, Done, Nested, LoopStart, Alive
    <3>2. PICK h : h[1] = scopes /\ h[Len(todo) + 1] = <<>>
      BY <3>1 DEF Nesting
    <3>3. Len(todo) + 1 = 1
      BY <3>1
    <3> QED BY <3>2, <3>3
  <2>2. Len(scopes) = 0 /\ 1 .. 0 = {} /\ ScopesProofs!Local(scopes, 0) = {}
    BY <2>1 DEF ScopesProofs!Local
  <2>3. ScopesProofs!Agrees(context, scopes, 0)
    BY <1>1, <2>2 DEF ScopesProofs!ScopesInv, ScopesProofs!ContextAgrees
  <2>4. ~context.function /\ ~context.iteration /\ ~context.switch /\ context.allow_in
    BY <2>2, <2>3
       DEF ScopesProofs!Agrees, ScopesProofs!InFunction, ScopesProofs!InIteration,
           ScopesProofs!InSwitch, ScopesProofs!InNotAllowed
  <2>5. \A l \in Label : context.labels[l] = None
    <3>1. ScopesProofs!LabelsAgree(context.labels, scopes, 0)
      BY <1>1, <2>2 DEF ScopesProofs!ScopesInv, ScopesProofs!LabelsSound
    <3> QED BY <2>2, <3>1 DEF ScopesProofs!LabelsAgree, ScopesProofs!Labelled
  <2>6. context \in ContextRecord
    BY <1>1 DEF ParserInv, Types, TypeOK
  <2>7. context.labels = NoLabels
    BY <2>5, <2>6 DEF ContextRecord, Labels, NoLabels
  <2> QED BY <2>4, <2>6, <2>7 DEF ContextRecord, NewContext
<1>2. ParserInv /\ ScopesProofs!ScopesInv => ContextRestored
  BY <1>1 DEF ContextRestored
<1> QED BY <1>2, ParserInvariant, ScopesHold, PTL

\* Only continue_statement checks a continue, and nothing else changes the scopes
\* while it is the jump checked last.
LEMMA ContinueSteps ==
  ASSUME ParserInv, [Next]_vars
  PROVE  ContinueArgument \/ jump'.stmt # "continue" \/ Outside
<1>1. \A s, cs : GoInside(s, cs) => jump'.stmt # "continue"
  BY DEF GoInside, NoJump
<1>2. CASE ParsingStep
  <2>1. Leave \/ EnterAllowIn => jump'.stmt # "continue"
    BY <1>1 DEF Leave, EnterAllowIn, NoJump
  <2> QED BY <1>2, <2>1, LexedOutside DEF ParsingStep
<1>3. CASE BindingStep
  <2>1. FunctionBodyCall => jump'.stmt # "continue"
    BY <1>1, Zenon DEF FunctionBodyCall
  <2> QED BY <1>3, <2>1, BindingsOutside
<1>4. CASE ExpressionStep
  BY <1>1, <1>4, ExpressionsOutside
<1>5. CASE StatementStep
  <2>1. LabelledBody \/ IterationBodyCall \/ SwitchBody => jump'.stmt # "continue"
    BY <1>1, Zenon DEF LabelledBody, IterationBodyCall, SwitchBody
  <2>2. \A label, accepted, e, cs :
          /\ GoJump("break", label, accepted, e, cs) => jump'.stmt # "continue"
          /\ GoJump("return", label, accepted, e, cs) => jump'.stmt # "continue"
    BY DEF GoJump
  <2>3. BreakArgument \/ ReturnCheck => jump'.stmt # "continue" \/ Outside
    BY <2>2, StaysOutside, Zenon DEF BreakArgument, ReturnCheck
  <2> QED BY <1>5, <2>1, <2>3, StatementsOutside
<1>6. CASE Return \/ Finished \/ UNCHANGED vars
  BY <1>6 DEF Return, Finished, vars, Outside
<1> QED BY <1>2, <1>3, <1>4, <1>5, <1>6 DEF Next

\* A labelled continue that is accepted is in the body of a loop that its label is on:
\* label_type gives the type Iteration only where a loop follows, and no statement is
\* parsed between the label and the body of that loop.
THEOREM ContinuesTargetLoops == Spec => []ContinueTargetsLoop
<1>1. Init => ContinueTargetsLoop
  BY DEF Init, NoJump, ContinueTargetsLoop
<1>2. ASSUME ParserInv, ScopesProofs!ScopesInv, ContinueTargetsLoop, [Next]_vars
      PROVE  ContinueTargetsLoop'
  <2>1. CASE jump'.stmt # "continue"
    BY <2>1 DEF ContinueTargetsLoop
  <2>2. CASE Outside
    BY <1>2, <2>2 DEF Outside, ContinueTargetsLoop
  <2>3. CASE ContinueArgument
    <3> SUFFICES ASSUME ~Outside, jump'.label # None, jump'.accepted
                 PROVE  \E i \in 1 .. Len(scopes') - 1 :
                          /\ scopes'[i].fn = "with_labels"
                          /\ jump'.label \in scopes'[i].labels
                          /\ scopes'[i + 1].fn = "iteration_body"
      BY <2>2 DEF ContinueTargetsLoop
    <3>1. \/ \E a, e, cs : GoJump("continue", None, a, e, cs)
          \/ /\ Tok.value \in Label
             /\ \E e, cs :
                  GoJump("continue", Tok.value, MayContinueTo(context, Tok.value), e, cs)
      BY <2>3, StaysOutside, Zenon DEF ContinueArgument, IsIdentifier
    <3>2. /\ jump'.label \in Label /\ context.labels[jump'.label] = "Iteration"
          /\ scopes' = scopes
      <4>1. ASSUME NEW l, NEW a, NEW e, NEW cs, GoJump("continue", l, a, e, cs)
            PROVE  jump'.label = l /\ jump'.accepted = a /\ scopes' = scopes
        BY <4>1 DEF GoJump
      <4>2. ~\E a, e, cs : GoJump("continue", None, a, e, cs)
        BY <4>1, Zenon
      <4>3. PICK e, cs :
              GoJump("continue", Tok.value, MayContinueTo(context, Tok.value), e, cs)
        BY <3>1, <4>2, Zenon
      <4>4. /\ jump'.label = Tok.value /\ scopes' = scopes
            /\ jump'.accepted = MayContinueTo(context, Tok.value)
        BY <4>1, <4>3, Zenon
      <4> QED BY <3>1, <4>2, <4>4 DEF MayContinueTo
    <3>3. scopes \in ScopeStacks /\ StatementPlace(scopes)
      <4>1. At("continue_argument")
        BY <2>3 DEF ContinueArgument
      <4>2. Alive /\ todo # <<>> /\ This.fn = "continue_argument"
        BY <1>2, <4>1, AtCall
      <4>3. This.fn \in StatementFns /\ ~LoopStart
        BY <4>2 DEF StatementFns, StmtFns, LoopStart, This, Statement
      <4> QED BY <1>2, <4>2, <4>3, AtHand
    <3> DEFINE n == Len(scopes)
    <3>4. PICK i \in ScopesProofs!Local(scopes, n) :
            /\ scopes[i].fn = "with_labels" /\ jump'.label \in scopes[i].labels
            /\ scopes[i].type = "Iteration"
      <4>1. ScopesProofs!LabelsAgree(context.labels, scopes, n)
        BY <1>2 DEF ScopesProofs!ScopesInv, ScopesProofs!LabelsSound
      <4>2. "Iteration" # None
        BY NoneAssumption
      <4> QED
        BY <3>2, <4>1, <4>2
           DEF ScopesProofs!LabelsAgree, ScopesProofs!Labelled, ScopesProofs!Declares
    <3>5. n \in Nat /\ i \in 1 .. n /\ scopes # <<>>
      BY <3>3, <3>4 DEF ScopesProofs!Local, ScopeStacks
    <3>6. LoopLabel(scopes[i])
      BY <3>4 DEF LoopLabel
    <3>7. i # n
      BY <3>3, <3>5, <3>6 DEF StatementPlace
    <3>8. scopes[i + 1].fn = "iteration_body"
      BY <3>3, <3>4, <3>6, <3>7, SameNesting DEF StatementPlace, LoopHeadPlace
    <3>9. i \in 1 .. n - 1
      BY <3>5, <3>7
    <3> QED BY <3>2, <3>4, <3>8, <3>9
  <2> QED BY <1>2, <2>1, <2>2, <2>3, ContinueSteps
<1> QED BY <1>1, <1>2, ParserInvariant, ScopesHold, PTL DEF Spec
=============================================================================
