---------------------------- MODULE LexicalGoals ----------------------------
(***************************************************************************)
(* That a slash lexed under one goal is not used under the other, in every *)
(* parse of every source.                                                  *)
(*                                                                         *)
(* GoalsAgree is not inductive: it speaks of the call at hand, and a token *)
(* is often lexed by one call and used by another, many calls later.  So   *)
(* the invariant says what each of the pending calls relies on, of the     *)
(* token in the buffer, and what it provides to the call that follows it   *)
(* on the stack; a chain of such promises leads through `todo` (Handing),  *)
(* and its first member holds of the buffer (GoalInv).  What is in the     *)
(* buffer when a call returns depends on how the call ends:                *)
(*   - where an operand ends, nothing but an operator has been looked for, *)
(*     so there is no regular expression (OperandEnds);                    *)
(*   - where no operator has been found, there is a token that is neither  *)
(*     (OperatorsEnd);                                                     *)
(*   - where a token is consumed last, there is none (ReadsLast);          *)
(*   - all others end without having looked at a slash.                    *)
(* Tokens given back come in front of another (GivenBack); the calls that  *)
(* may find two of them are the few that a name, `let`, a string or the    *)
(* `const` of a for head may start (TakesTwo).                             *)
(***************************************************************************)
EXTENDS StatementsProofs

-----------------------------------------------------------------------------
(***************************************************************************)
(* What a call relies on, of the tokens in the buffer, and what it         *)
(* provides to the call that follows it.                                   *)
(***************************************************************************)
\* The first token in the buffer is no slash, or no regular expression; there is a
\* token; there is at most one.
Promise == {"no_slash", "no_regexp", "token", "one"}

\* A regular expression, other than what for_lexical finds: see GoalsAgree.
RegExpToken(t) == t.value = "regexp" /\ t.by # "for_lexical"

\* A key is to be read: a token given back may be that.
AtKey == todo # <<>> /\ Head(todo).fn = "property_key"

Holds(g) ==
  /\ "no_slash" \in g /\ la # <<>> => Tok.value # "/"
  /\ "no_regexp" \in g /\ la # <<>> => ~RegExpToken(Tok)
  /\ "token" \in g => la # <<>>
  /\ "one" \in g => Len(la) <= 1 \/ AtKey

\* The functions that end where an operand ends, and those called there.
OperandEnds ==
  {"primary_expression", "more_suffixes", "more_new_expression", "new_arguments",
   "lhs_expression", "news", "postfix", "unary_expression"}
AfterOperand ==
  {"more_suffixes", "more_new_expression", "new_arguments", "postfix",
   "more_infix_expressions", "identifier_statement", "more_labels"}

\* The functions that end where no operator follows, which they have looked at, and
\* those that end by reading a token.
OperatorsEnd ==
  {"more_infix_expressions", "more_conditional", "more_assignment",
   "assignment_expression"}
ReadsLast == {"expect", "id_name", "arguments", "paren_expression", "function_body"}

\* The calls that do not look at the buffer.
Transparent == {"leave", "build", "prefix_update", "return_check"}

\* The calls that may find a token given back and one behind it.
TwoTokenFns ==
  {"statement_list", "program_items", "stmt_list_item", "labelled_body",
   "expression", "assignment_expression", "unary_expression", "lhs_expression",
   "primary_expression"}
TakesTwo(c) ==
  \/ c.fn \in TwoTokenFns
  \/ /\ c.fn = "allow_in" /\ c.calls # <<>>
     /\ c.calls[1].fn \in {"expression", "assignment_expression"}

Relies(c) ==
  {p \in Promise :
     \/ p = "no_slash" /\ c.fn \notin AfterOperand
     \/ p = "no_regexp" /\ c.fn \in OperatorGoal \cup {"for_lexical"}
     \/ p = "token" /\ c.fn \in {"more_conditional", "more_assignment"}
     \/ p = "one" /\ ~TakesTwo(c)}

Provides(f) ==
  {p \in Promise :
     \/ p = "no_slash" /\ f \notin OperandEnds
     \/ p = "no_regexp" /\ f \in OperandEnds \cup OperatorsEnd \cup ReadsLast
     \/ p = "token" /\ f \in OperatorsEnd
     \/ p = "one" /\ f \notin {"body_directives", "directive_rest"}}

\* The token that a call holds.
HoldsRight(c) ==
  /\ c.fn = "directive_rest" => c.token.value = "string"
  /\ c.fn = "for_lexical" => c.token.value \in {"let", "const"}
  /\ c.fn = "reserved_key" => c.token.value \in Reserved

HandsOver(c, g, h) ==
  /\ HoldsRight(c)
  /\ IF c.fn \in Transparent THEN h \subseteq g
     ELSE Relies(c) \subseteq g /\ h \subseteq Provides(c.fn)

Handing(cs, o, p) ==
  \E g \in [1 .. Len(cs) + 1 -> SUBSET Promise] :
    /\ g[1] \subseteq o /\ p \subseteq g[Len(cs) + 1]
    /\ \A i \in 1 .. Len(cs) : HandsOver(cs[i], g[i], g[i + 1])

\* A token given back is not in front of one that it must not be in front of.
GivenBack ==
  Len(la) = 2 =>
    IF AtKey THEN la[2].value # "/"
    ELSE /\ Tok.value \in Label \cup {"let", "string", "const"}
         /\ ~RegExpToken(la[2])
         /\ Tok.value = "const" => la[2].value # "/"

GoalInv ==
  Alive =>
    /\ GivenBack
    /\ \E g \in SUBSET Promise : Holds(g) /\ Handing(todo, g, {})

-----------------------------------------------------------------------------
(***************************************************************************)
(* Sequences of calls.                                                     *)
(***************************************************************************)
LEMMA HandsOverLess ==
  ASSUME NEW c, NEW g, NEW h, HandsOver(c, g, h), NEW o, NEW p, g \subseteq o, p \subseteq h
  PROVE  HandsOver(c, o, p)
BY DEF HandsOver

LEMMA HandingFirst ==
  ASSUME NEW cs \in Seq(AnyCall), cs # <<>>, NEW o, NEW p, Handing(cs, o, p)
  PROVE  \E q \in SUBSET Promise : HandsOver(Head(cs), o, q) /\ Handing(Tail(cs), q, p)
<1>1. PICK g \in [1 .. Len(cs) + 1 -> SUBSET Promise] :
        /\ g[1] \subseteq o /\ p \subseteq g[Len(cs) + 1]
        /\ \A i \in 1 .. Len(cs) : HandsOver(cs[i], g[i], g[i + 1])
  BY DEF Handing
<1>2. /\ Len(cs) \in Nat \ {0} /\ Head(cs) = cs[1] /\ Len(Tail(cs)) = Len(cs) - 1
      /\ \A i \in 1 .. Len(cs) - 1 : Tail(cs)[i] = cs[i + 1]
  OBVIOUS
<1> DEFINE h == [i \in 1 .. Len(cs) |-> g[i + 1]]
<1>3. h \in [1 .. Len(Tail(cs)) + 1 -> SUBSET Promise]
  BY <1>1, <1>2
<1>4. \A i \in 1 .. Len(Tail(cs)) : HandsOver(Tail(cs)[i], h[i], h[i + 1])
  <2> SUFFICES ASSUME NEW i \in 1 .. Len(cs) - 1
               PROVE  HandsOver(Tail(cs)[i], h[i], h[i + 1])
    BY <1>2
  <2>1. HandsOver(cs[i + 1], g[i + 1], g[(i + 1) + 1])
    BY <1>1, <1>2
  <2> QED BY <1>2, <2>1
<1>5. h[1] = g[2] /\ h[Len(Tail(cs)) + 1] = g[Len(cs) + 1] /\ g[2] \in SUBSET Promise
  BY <1>1, <1>2
<1>6. HandsOver(Head(cs), g[1], g[2])
  BY <1>1, <1>2
<1>7. HandsOver(Head(cs), o, g[2])
  BY <1>1, <1>6, HandsOverLess
<1> HIDE DEF h
<1>8. Handing(Tail(cs), g[2], p)
  BY <1>1, <1>3, <1>4, <1>5 DEF Handing
<1> QED BY <1>5, <1>7, <1>8

LEMMA HandingConcat ==
  ASSUME NEW cs \in Seq(AnyCall), NEW ds \in Seq(AnyCall), NEW o, NEW p, NEW q,
         Handing(cs, o, p), Handing(ds, p, q)
  PROVE  Handing(cs \o ds, o, q)
<1>1. PICK g \in [1 .. Len(cs) + 1 -> SUBSET Promise] :
        /\ g[1] \subseteq o /\ p \subseteq g[Len(cs) + 1]
        /\ \A i \in 1 .. Len(cs) : HandsOver(cs[i], g[i], g[i + 1])
  BY DEF Handing
<1>2. PICK h \in [1 .. Len(ds) + 1 -> SUBSET Promise] :
        /\ h[1] \subseteq p /\ q \subseteq h[Len(ds) + 1]
        /\ \A i \in 1 .. Len(ds) : HandsOver(ds[i], h[i], h[i + 1])
  BY DEF Handing
<1> DEFINE m == Len(cs)
           n == Len(ds)
           k == [i \in 1 .. (m + n) + 1 |-> IF i <= m THEN g[i] ELSE h[i - m]]
<1>3. /\ m \in Nat /\ n \in Nat /\ Len(cs \o ds) = m + n
      /\ \A i \in 1 .. m : (cs \o ds)[i] = cs[i]
      /\ \A i \in m + 1 .. m + n : (cs \o ds)[i] = ds[i - m]
  OBVIOUS
<1>4. k \in [1 .. (m + n) + 1 -> SUBSET Promise]
  <2>1. ASSUME NEW i \in 1 .. (m + n) + 1
        PROVE  (IF i <= m THEN g[i] ELSE h[i - m]) \in SUBSET Promise
    <3>1. CASE i <= m
      <4>1. i \in 1 .. Len(cs) + 1
        BY <3>1
      <4> QED BY <3>1, <4>1
    <3>2. CASE ~(i <= m)
      <4>1. i - m \in 1 .. Len(ds) + 1
        BY <3>2
      <4> QED BY <3>2, <4>1
    <3> QED BY <3>1, <3>2
  <2> QED BY <2>1
<1>5. k[1] \subseteq o /\ q \subseteq k[(m + n) + 1]
  <2>1. k[(m + n) + 1] = h[n + 1]
    BY <1>3
  <2>2. CASE m = 0
    <3>1. k[1] = h[1] /\ g[1] = g[m + 1]
      BY <1>3, <2>2
    <3> QED BY <1>1, <1>2, <2>1, <3>1
  <2>3. CASE m # 0
    <3>1. k[1] = g[1]
      BY <1>3, <2>3
    <3> QED BY <1>1, <1>2, <2>1, <3>1
  <2> QED BY <2>2, <2>3
<1>6. \A i \in 1 .. m + n : HandsOver((cs \o ds)[i], k[i], k[i + 1])
  <2> SUFFICES ASSUME NEW i \in 1 .. m + n
               PROVE  HandsOver((cs \o ds)[i], k[i], k[i + 1])
    OBVIOUS
  <2>1. CASE i < m
    BY <1>1, <1>3, <2>1
  <2>2. CASE i = m
    <3>1. HandsOver(cs[m], g[m], g[m + 1])
      BY <1>1, <2>2
    <3>2. k[i] = g[m] /\ k[i + 1] = h[1] /\ (cs \o ds)[i] = cs[m]
      BY <1>3, <2>2
    <3>3. g[m] \subseteq g[m] /\ h[1] \subseteq g[m + 1]
      BY <1>1, <1>2
    <3> QED BY <3>1, <3>2, <3>3, HandsOverLess
  <2>3. CASE i > m
    <3>1. i - m \in 1 .. n /\ (i - m) + 1 = (i + 1) - m
      BY <1>3, <2>3
    <3>2. HandsOver(ds[i - m], h[i - m], h[(i - m) + 1])
      BY <1>2, <3>1
    <3>3. k[i] = h[i - m] /\ k[i + 1] = h[(i + 1) - m] /\ (cs \o ds)[i] = ds[i - m]
      BY <1>3, <2>3
    <3> QED BY <3>1, <3>2, <3>3
  <2> QED BY <1>3, <2>1, <2>2, <2>3
<1>7. Len(cs \o ds) = m + n
  BY <1>3
<1> HIDE DEF k, m, n
<1>8. ASSUME NEW c, c = cs \o ds
      PROVE  Handing(c, o, q)
  <2>1. /\ k \in [1 .. Len(c) + 1 -> SUBSET Promise]
        /\ k[1] \subseteq o /\ q \subseteq k[Len(c) + 1]
        /\ \A i \in 1 .. Len(c) : HandsOver(c[i], k[i], k[i + 1])
    BY <1>4, <1>5, <1>6, <1>7, <1>8, Zenon
  <2> QED BY <2>1 DEF Handing
<1> QED BY <1>8

LEMMA HandingLess ==
  ASSUME NEW cs, NEW o, NEW p, Handing(cs, o, p), NEW q, NEW r, o \subseteq q, r \subseteq p
  PROVE  Handing(cs, q, r)
BY DEF Handing

LEMMA HandingNone == ASSUME NEW g \in SUBSET Promise PROVE Handing(<<>>, g, g)
<1>1. Len(<<>>) = 0
  OBVIOUS
<1> DEFINE k == [i \in 1 .. Len(<<>>) + 1 |-> g]
<1>2. k \in [1 .. Len(<<>>) + 1 -> SUBSET Promise] /\ k[1] = g /\ k[Len(<<>>) + 1] = g
  BY <1>1
<1> HIDE DEF k
<1>3. \A i \in 1 .. Len(<<>>) : HandsOver(<<>>[i], k[i], k[i + 1])
  BY <1>1
<1>4. g \subseteq g
  OBVIOUS
<1> QED BY <1>2, <1>3, <1>4 DEF Handing

LEMMA HandingOne ==
  ASSUME NEW a, NEW g \in SUBSET Promise, NEW h \in SUBSET Promise, HandsOver(a, g, h)
  PROVE  Handing(<<a>>, g, h)
<1>1. Len(<<a>>) = 1 /\ <<a>>[1] = a
  OBVIOUS
<1> DEFINE k == [i \in 1 .. Len(<<a>>) + 1 |-> IF i = 1 THEN g ELSE h]
<1>2. /\ k \in [1 .. Len(<<a>>) + 1 -> SUBSET Promise] /\ k[1] = g /\ k[2] = h
      /\ k[Len(<<a>>) + 1] = h
  BY <1>1
<1> HIDE DEF k
<1>3. \A i \in 1 .. Len(<<a>>) : HandsOver(<<a>>[i], k[i], k[i + 1])
  BY <1>1, <1>2
<1> QED BY <1>2, <1>3 DEF Handing

-----------------------------------------------------------------------------
(***************************************************************************)
(* The calls that neither follow an operand nor end with one: most calls.  *)
(***************************************************************************)
SimpleFns ==
  FunctionNames \ (OperandEnds \cup OperatorGoal \cup Holders \cup {"body_directives"})
SimpleCall == {c \in AnyCall : c.fn \in SimpleFns}
Usual == {"no_slash", "one"}

\* A simple call hands over what it finds.
LEMMA SimpleHands ==
  ASSUME NEW c, c.fn \in SimpleFns
  PROVE  HandsOver(c, Usual, Usual)
<1>1. HoldsRight(c)
  BY DEF SimpleFns, HoldsRight, Holders
<1>2. Relies(c) \subseteq Usual /\ Usual \subseteq Provides(c.fn)
  BY DEF SimpleFns, Relies, Provides, Usual, Promise, Holders, OperatorGoal
<1> QED BY <1>1, <1>2 DEF HandsOver

LEMMA SimpleHanding ==
  ASSUME NEW cs \in Seq(SimpleCall)
  PROVE  Handing(cs, Usual, Usual)
<1> DEFINE k == [i \in 1 .. Len(cs) + 1 |-> Usual]
<1>1. /\ k \in [1 .. Len(cs) + 1 -> SUBSET Promise] /\ k[1] = Usual
      /\ k[Len(cs) + 1] = Usual /\ \A i \in 1 .. Len(cs) : k[i] = Usual /\ k[i + 1] = Usual
  BY DEF Usual, Promise
<1>2. \A i \in 1 .. Len(cs) : cs[i].fn \in SimpleFns
  BY DEF SimpleCall
<1> HIDE DEF k
<1>3. \A i \in 1 .. Len(cs) : HandsOver(cs[i], k[i], k[i + 1])
  BY <1>1, <1>2, SimpleHands
<1>4. Usual \subseteq Usual
  OBVIOUS
<1> QED BY <1>1, <1>3, <1>4 DEF Handing

-----------------------------------------------------------------------------
(***************************************************************************)
(* Steps.                                                                  *)
(***************************************************************************)
LEMMA HoldsLess ==
  ASSUME NEW g, NEW h, Holds(g), h \subseteq g
  PROVE  Holds(h)
BY DEF Holds

LEMMA HoldsLessNext ==
  ASSUME NEW g, NEW h, Holds(g)', h \subseteq g
  PROVE  Holds(h)'
BY DEF Holds

\* What the call at hand finds.
LEMMA CallFinds ==
  ASSUME ParserInv, GoalInv, Alive, todo # <<>>
  PROVE  \E g, q \in SUBSET Promise :
           Holds(g) /\ HandsOver(This, g, q) /\ Handing(Tail(todo), q, {})
<1>1. PICK g \in SUBSET Promise : Holds(g) /\ Handing(todo, g, {})
  BY DEF GoalInv
<1>2. todo \in Seq(AnyCall)
  BY DEF ParserInv, Types
<1> QED BY <1>1, <1>2, HandingFirst DEF This

LEMMA Relied ==
  ASSUME ParserInv, GoalInv, Running, todo # <<>>, This.fn \notin Transparent
  PROVE  /\ Holds(Relies(This)) /\ HoldsRight(This)
         /\ This.fn \notin AfterOperand /\ la # <<>> => Tok.value # "/"
         /\ This.fn \in OperatorGoal \cup {"for_lexical"} /\ la # <<>> => ~RegExpToken(Tok)
         /\ This.fn \in {"more_conditional", "more_assignment"} => la # <<>>
         /\ ~TakesTwo(This) /\ This.fn # "property_key" => Len(la) <= 1
<1>1. Alive
  BY DEF Alive, Running
<1>2. PICK g, q \in SUBSET Promise :
        Holds(g) /\ HandsOver(This, g, q) /\ Handing(Tail(todo), q, {})
  BY <1>1, CallFinds
<1>3. HoldsRight(This) /\ Relies(This) \subseteq g
  BY <1>2 DEF HandsOver
<1>4. Holds(Relies(This))
  BY <1>2, <1>3, HoldsLess
<1> QED BY <1>3, <1>4 DEF Holds, Relies, Promise, AtKey, This

\* The calls made take the place of the call at hand.
LEMMA CallsReplaced ==
  ASSUME ParserInv, GoalInv, Running, todo # <<>>, This.fn \notin Transparent,
         NEW cs \in Seq(AnyCall), todo' = cs \o Tail(todo),
         NEW g \in SUBSET Promise, Holds(g)', Handing(cs, g, Provides(This.fn)), GivenBack'
  PROVE  GoalInv'
<1>1. Alive
  BY DEF Alive, Running
<1>2. PICK q \in SUBSET Promise :
        q \subseteq Provides(This.fn) /\ Handing(Tail(todo), q, {})
  BY <1>1, CallFinds DEF HandsOver
<1>3. Handing(cs, g, q)
  BY <1>2, HandingLess
<1>4. Tail(todo) \in Seq(AnyCall)
  BY DEF ParserInv, Types
<1>5. Handing(todo', g, {})
  BY <1>2, <1>3, <1>4, HandingConcat
<1> QED BY <1>5 DEF GoalInv

LEMMA NotTwo == ASSUME Len(la)' <= 1 PROVE GivenBack'
BY DEF GivenBack

LEMMA OnlyOne ==
  ASSUME NEW S, NEW s \in Seq(S), s # <<>>, Len(s) <= 1
  PROVE  Tail(s) = <<>>
<1>1. Len(s) \in Nat /\ Len(s) # 0
  OBVIOUS
<1>2. Tail(s) \in Seq(S) /\ Len(Tail(s)) = Len(s) - 1
  OBVIOUS
<1>3. Len(Tail(s)) = 0
  BY <1>1, <1>2
<1> QED BY <1>2, <1>3

\* A call that finds one token takes it, or leaves it.
TakesOne(c) == c.fn \notin Transparent \cup {"property_key"} /\ ~TakesTwo(c)

LEMMA ReadOne ==
  ASSUME ParserInv, GoalInv, Running, todo # <<>>, TakesOne(This), la # <<>>, Read
  PROVE  GivenBack' /\ Holds({"no_slash", "no_regexp", "one"})'
<1>1. la \in Seq(Token)
  BY DEF ParserInv, Types, TypeOK
<1>2. Len(la) <= 1
  BY Relied DEF TakesOne
<1>3. Tail(la) = <<>>
  BY <1>1, <1>2, OnlyOne
<1>4. la' = <<>>
  BY <1>3 DEF Read
<1>5. Len(la') = 0
  BY <1>4
<1> QED BY <1>4, <1>5, NotTwo DEF Holds

LEMMA PeekOne ==
  ASSUME ParserInv, GoalInv, Running, todo # <<>>, TakesOne(This), Peek
  PROVE  /\ GivenBack' /\ (\A g : g \subseteq Relies(This) => Holds(g)') /\ Len(la) <= 1
         /\ Len(la') <= 1 /\ la' = la /\ Tok' = Tok
<1>1. Len(la) <= 1 /\ This.fn \notin Transparent
  BY Relied DEF TakesOne
<1>2. la' = la
  BY DEF Peek
<1>3. Len(la') <= 1
  BY <1>1, <1>2
<1>4. Holds(Relies(This))
  BY <1>1, Relied
<1>5. Tok' = Tok
  BY <1>2 DEF Tok
<1>6. ASSUME NEW g, g \subseteq Relies(This)
      PROVE  Holds(g)'
  <2>1. Holds(g)
    BY <1>4, <1>6, HoldsLess
  <2> QED BY <1>2, <1>3, <1>5, <2>1 DEF Holds, RegExpToken
<1> QED BY <1>1, <1>2, <1>3, <1>5, <1>6, NotTwo

\* The functions that call none but simple ones, and look at one token.
PlainFns ==
  SimpleFns \ (Transparent \cup OperatorsEnd \cup ReadsLast \cup TwoTokenFns \cup
                 {"allow_in", "property_key"})

LEMMA PlainFn ==
  ASSUME NEW c, c.fn \in PlainFns
  PROVE  TakesOne(c) /\ Provides(c.fn) \subseteq Usual /\ Relies(c) = Usual
<1>1. TakesOne(c)
  BY DEF PlainFns, TakesOne, TakesTwo
<1>2. Provides(c.fn) \subseteq Usual
  BY DEF PlainFns, SimpleFns, Provides, Usual, Promise
<1>3. Relies(c) = Usual
  BY <1>1 DEF PlainFns, SimpleFns, Relies, Usual, Promise, TakesOne, OperatorGoal, Holders,
     AfterOperand
<1> QED BY <1>1, <1>2, <1>3

LEMMA SimpleStep ==
  ASSUME ParserInv, GoalInv, NEW f \in PlainFns, At(f),
         NEW cs \in Seq(SimpleCall), todo' = cs \o Tail(todo),
         Peek \/ (f \notin Tokenless /\ Read)
  PROVE  GoalInv'
<1>1. Running /\ todo # <<>> /\ This.fn = f /\ (f \notin Tokenless => la # <<>>)
  BY DEF At, This
<1>2. TakesOne(This) /\ This.fn \notin Transparent
  BY <1>1, PlainFn DEF TakesOne
<1>3. Provides(This.fn) \subseteq Usual /\ Relies(This) = Usual
  BY <1>1, PlainFn
<1>4. GivenBack' /\ Holds(Usual)'
  <2>1. CASE Peek
    <3>1. GivenBack' /\ \A g : g \subseteq Relies(This) => Holds(g)'
      BY <1>1, <1>2, <2>1, PeekOne
    <3>2. Usual \subseteq Relies(This)
      BY <1>3
    <3> QED BY <3>1, <3>2
  <2>2. CASE f \notin Tokenless /\ Read
    <3>1. GivenBack' /\ Holds({"no_slash", "no_regexp", "one"})'
      BY <1>1, <1>2, <2>2, ReadOne
    <3>2. Usual \subseteq {"no_slash", "no_regexp", "one"}
      BY DEF Usual
    <3> QED BY <3>1, <3>2, HoldsLessNext
  <2> QED BY <2>1, <2>2
<1>5. Usual \in SUBSET Promise /\ cs \in Seq(AnyCall)
  BY DEF Usual, Promise, SimpleCall
<1>6. Handing(cs, Usual, Provides(This.fn))
  BY <1>3, SimpleHanding, HandingLess
<1> QED BY <1>1, <1>2, <1>4, <1>5, <1>6, CallsReplaced

\* Errors end the parse.
LEMMA FailGoals == ASSUME NEW e, e \notin {"parsing", "ok"}, Fail(e) PROVE GoalInv'
BY DEF Fail, GoalInv, Alive

LEMMA RefusedGoals ==
  ASSUME \/ Unexpected \/ BindingPattern \/ Fail("InvalidLHS") \/ Fail("FailedASI")
         \/ Fail("unimplemented") \/ Fail("DuplicateDefault") \/ Fail("ThrowArgument")
         \/ Fail("OrphanTry") \/ LexError
  PROVE  GoalInv'
BY FailGoals DEF Unexpected, BindingPattern, LexError

-----------------------------------------------------------------------------
(***************************************************************************)
(* The simple calls.                                                       *)
(***************************************************************************)
LEMMA SimpleNames ==
  /\ ExprFns \ (OperandEnds \cup OperatorGoal) \subseteq SimpleFns
  /\ ArgumentFns \ (OperandEnds \cup OperatorGoal) \subseteq SimpleFns
  /\ ForFns \subseteq SimpleFns /\ StmtFns \ {"body_directives"} \subseteq SimpleFns
  /\ {"iteration_body", "stmt_list_item", "labels", "labelled_body", "switch_cases", "leave"}
       \subseteq SimpleFns
<1>1. /\ ForFns \subseteq SimpleFns /\ StmtFns \ {"body_directives"} \subseteq SimpleFns
      /\ {"iteration_body", "stmt_list_item", "labels", "labelled_body", "switch_cases", "leave"}
           \subseteq SimpleFns
  BY DEF SimpleFns, FunctionNames, ForFns, StmtFns, OperandEnds, OperatorGoal, Holders
<1>2. ExprFns \ (OperandEnds \cup OperatorGoal) \subseteq SimpleFns
  BY DEF SimpleFns, FunctionNames, ExprFns, Holders
<1>3. ArgumentFns \ (OperandEnds \cup OperatorGoal) \subseteq SimpleFns
  BY DEF SimpleFns, FunctionNames, ArgumentFns, Holders
<1> QED BY <1>1, <1>2, <1>3

LEMMA SimpleOfAny ==
  /\ \A c \in ExprCall : c.fn \in SimpleFns => c \in SimpleCall
  /\ \A c \in BracketCall : c \in SimpleCall
  /\ \A c \in ForCall : c \in SimpleCall
  /\ \A c \in LoopCall : c \in SimpleCall
  /\ \A c \in StmtCall : c.fn # "body_directives" => c \in SimpleCall
  /\ \A c \in CasesCall : c \in SimpleCall
<1>1. \A c : c \in ExprCall \cup BracketCall \cup ForCall \cup LoopCall \cup StmtCall \cup CasesCall
               => c \in AnyCall
  BY DEF AnyCall, PushedCall, LoopHeadCall
<1>2. \A c \in ExprCall : c.fn \in SimpleFns => c \in SimpleCall
  BY <1>1 DEF SimpleCall
<1>3. \A c \in BracketCall : c.fn = "expect"
  BY DEF BracketCall
<1>4. \A c \in ForCall : c.fn \in ForFns
  BY DEF ForCall
<1>5. \A c \in LoopCall : c.fn = "iteration_body"
  BY DEF LoopCall
<1>6. \A c \in StmtCall : c.fn \in StmtFns \cup {"stmt_list_item", "labels", "labelled_body"}
  BY DEF StmtCall
<1>7. \A c \in CasesCall : c.fn = "switch_cases"
  BY DEF CasesCall
<1>8. "expect" \in SimpleFns
  BY SimpleNames DEF ArgumentFns, OperandEnds, OperatorGoal
<1>9. /\ \A c \in BracketCall \cup ForCall \cup LoopCall \cup CasesCall : c.fn \in SimpleFns
      /\ \A c \in StmtCall : c.fn # "body_directives" => c.fn \in SimpleFns
  BY <1>3, <1>4, <1>5, <1>6, <1>7, <1>8, SimpleNames
<1> QED BY <1>1, <1>2, <1>9 DEF SimpleCall

\* Those of the grammar of expressions.
LEMMA SimpleExprs ==
  /\ \A f \in ExprFns \ (OperandEnds \cup OperatorGoal) : Call(f) \in SimpleCall
  /\ \A v \in {"while", ":", ";", "=", "target"} \cup Openers \cup Closers :
       Expect(v) \in SimpleCall
  /\ \A v \in Values : Build(v) \in SimpleCall
  /\ \A f \in ListItems : MoreComma(f) \in SimpleCall
  /\ \A n \in {"Required", "Optional"} : AutoSemi(n) \in SimpleCall
  /\ \A v \in BOOLEAN, cs \in Seq(InnerCall) : WithAllowIn(v, cs) \in SimpleCall
  /\ \A p \in BOOLEAN :
       /\ [fn |-> "array_elements", patt |-> p] \in SimpleCall
       /\ [fn |-> "properties", patt |-> p] \in SimpleCall
       /\ [fn |-> "property_key", method |-> p] \in SimpleCall
       /\ [fn |-> "more_prop_init", id |-> p] \in SimpleCall
       /\ \A k \in {"hole", "expr", "spread"} :
            /\ [fn |-> "more_elements", kind |-> k, patt |-> p] \in SimpleCall
            /\ [fn |-> "more_properties", kind |-> k, patt |-> p] \in SimpleCall
  /\ \A k \in {"get", "set"} : [fn |-> "accessor", kind |-> k] \in SimpleCall
<1>1. \A f \in ExprFns \ (OperandEnds \cup OperatorGoal) : Call(f) \in SimpleCall
  <2>1. \A f : Call(f).fn = f
    BY DEF Call
  <2> QED BY <2>1, ExprCalls, SimpleNames, SimpleOfAny
<1>2. /\ "expect" \in SimpleFns /\ "build" \in SimpleFns /\ "more_comma" \in SimpleFns
      /\ "end_with_auto_semi" \in SimpleFns /\ "allow_in" \in SimpleFns
      /\ "array_elements" \in SimpleFns /\ "properties" \in SimpleFns
      /\ "property_key" \in SimpleFns /\ "more_prop_init" \in SimpleFns
      /\ "more_elements" \in SimpleFns /\ "more_properties" \in SimpleFns
      /\ "accessor" \in SimpleFns
  BY SimpleNames DEF ArgumentFns, OperandEnds, OperatorGoal
<1>3. \A v \in {"while", ":", ";", "=", "target"} : Expect(v) \in SimpleCall
  <2>1. \A v : Expect(v).fn = "expect"
    BY DEF Expect
  <2> QED BY <1>2, <2>1, ExprCalls, SimpleOfAny
<1>4. \A v \in Openers \cup Closers : Expect(v) \in SimpleCall
  <2>1. \A v \in Openers \cup Closers : Expect(v) \in BracketCall
    BY DEF Expect, BracketCall
  <2> QED BY <2>1, SimpleOfAny
<1>5. \A v \in Values : Build(v) \in SimpleCall
  <2>1. \A v : Build(v).fn = "build"
    BY DEF Build
  <2> QED BY <1>2, <2>1, ExprCalls, SimpleOfAny
<1>6. \A f \in ListItems : MoreComma(f) \in SimpleCall
  <2>1. \A f : MoreComma(f).fn = "more_comma"
    BY DEF MoreComma
  <2> QED BY <1>2, <2>1, ExprCalls, SimpleOfAny
<1>7. \A n \in {"Required", "Optional"} : AutoSemi(n) \in SimpleCall
  <2>1. \A n : AutoSemi(n).fn = "end_with_auto_semi"
    BY DEF AutoSemi
  <2> QED BY <1>2, <2>1, ExprCalls, SimpleOfAny
<1>8. \A v \in BOOLEAN, cs \in Seq(InnerCall) : WithAllowIn(v, cs) \in SimpleCall
  <2>1. \A v, cs : WithAllowIn(v, cs).fn = "allow_in"
    BY DEF WithAllowIn
  <2> QED BY <1>2, <2>1, ExprCalls, SimpleOfAny
<1>9. \A p \in BOOLEAN :
       /\ [fn |-> "array_elements", patt |-> p] \in SimpleCall
       /\ [fn |-> "properties", patt |-> p] \in SimpleCall
       /\ [fn |-> "property_key", method |-> p] \in SimpleCall
       /\ [fn |-> "more_prop_init", id |-> p] \in SimpleCall
  BY <1>2, ExprCalls, SimpleOfAny
<1>10. \A p \in BOOLEAN, k \in {"hole", "expr", "spread"} :
            /\ [fn |-> "more_elements", kind |-> k, patt |-> p] \in SimpleCall
            /\ [fn |-> "more_properties", kind |-> k, patt |-> p] \in SimpleCall
  BY <1>2, ExprCalls, SimpleOfAny
<1>11. \A k \in {"get", "set"} : [fn |-> "accessor", kind |-> k] \in SimpleCall
  BY <1>2, ExprCalls, SimpleOfAny
<1> QED BY <1>1, <1>3, <1>4, <1>5, <1>6, <1>7, <1>8, <1>9, <1>10, <1>11

LEMMA SimpleCalls ==
  /\ Call("pattern") \in SimpleCall /\ Call("declarator") \in SimpleCall
  /\ Call("declarator_init") \in SimpleCall /\ Call("const_declarator") \in SimpleCall
  /\ Call("parameter") \in SimpleCall /\ Call("more_parameters") \in SimpleCall
  /\ Call("generator") \in SimpleCall /\ Call("id") \in SimpleCall
  /\ Call("id_opt") \in SimpleCall /\ Call("function_body") \in SimpleCall
  /\ Call("expression") \in SimpleCall /\ Call("more_expressions") \in SimpleCall
  /\ Call("assignment_expression") \in SimpleCall
  /\ Call("prefix_update") \in SimpleCall
  /\ Call("id_name") \in SimpleCall
  /\ Call("arguments") \in SimpleCall /\ Call("argument_list") \in SimpleCall
  /\ Call("expr_list_item") \in SimpleCall
  /\ Call("paren_expression") \in SimpleCall /\ Call("object_property") \in SimpleCall
  /\ Expect("while") \in SimpleCall /\ Expect(":") \in SimpleCall
  /\ Expect(";") \in SimpleCall /\ Expect("=") \in SimpleCall
  /\ Expect("target") \in SimpleCall
  /\ Expect("(") \in SimpleCall /\ Expect("[") \in SimpleCall /\ Expect("{") \in SimpleCall
  /\ Expect(")") \in SimpleCall /\ Expect("]") \in SimpleCall /\ Expect("}") \in SimpleCall
  /\ Build("target") \in SimpleCall /\ Build("value") \in SimpleCall
  /\ MoreComma("declarator") \in SimpleCall /\ MoreComma("const_declarator") \in SimpleCall
  /\ MoreComma("assignment_expression") \in SimpleCall
  /\ MoreComma("expr_list_item") \in SimpleCall
  /\ AutoSemi("Required") \in SimpleCall /\ AutoSemi("Optional") \in SimpleCall
<1>1. \A f \in ExprFns \ (OperandEnds \cup OperatorGoal) : Call(f) \in SimpleCall
  BY SimpleExprs
<1>2. /\ Call("pattern") \in SimpleCall /\ Call("declarator") \in SimpleCall
      /\ Call("declarator_init") \in SimpleCall /\ Call("const_declarator") \in SimpleCall
      /\ Call("parameter") \in SimpleCall /\ Call("more_parameters") \in SimpleCall
      /\ Call("generator") \in SimpleCall /\ Call("id") \in SimpleCall
      /\ Call("id_opt") \in SimpleCall /\ Call("function_body") \in SimpleCall
      /\ Call("expression") \in SimpleCall /\ Call("more_expressions") \in SimpleCall
      /\ Call("assignment_expression") \in SimpleCall
      /\ Call("prefix_update") \in SimpleCall
      /\ Call("id_name") \in SimpleCall
      /\ Call("arguments") \in SimpleCall /\ Call("argument_list") \in SimpleCall
      /\ Call("expr_list_item") \in SimpleCall
      /\ Call("paren_expression") \in SimpleCall /\ Call("object_property") \in SimpleCall
  BY <1>1 DEF ExprFns, OperandEnds, OperatorGoal
<1> QED BY <1>2, SimpleExprs DEF Openers, Closers, Values, ListItems

LEMMA SimpleStatements ==
  /\ Call("program_items") \in SimpleCall /\ Call("statement_list") \in SimpleCall
  /\ Call("else_opt") \in SimpleCall /\ Call("switch_body") \in SimpleCall
  /\ Call("break_argument") \in SimpleCall /\ Call("continue_argument") \in SimpleCall
  /\ Call("return_argument") \in SimpleCall /\ Call("return_check") \in SimpleCall
  /\ Call("throw_argument") \in SimpleCall /\ Call("handlers") \in SimpleCall
  /\ Call("catch_opt") \in SimpleCall /\ Call("finally_opt") \in SimpleCall
  /\ Statement \in SimpleCall /\ Declaration \in SimpleCall
  /\ Call("for_head") \in SimpleCall /\ Call("for_var") \in SimpleCall
  /\ Call("for_let") \in SimpleCall /\ Call("for_const") \in SimpleCall
  /\ Call("for_var_init") \in SimpleCall /\ Call("for_expr") \in SimpleCall
  /\ Call("more_for") \in SimpleCall /\ Call("for_update") \in SimpleCall
  /\ Call("iteration_body") \in SimpleCall
  /\ \A ls \in SUBSET Label :
       /\ [fn |-> "labels", labels |-> ls] \in SimpleCall
       /\ [fn |-> "labelled_body", labels |-> ls] \in SimpleCall
<1>1. \A f : Call(f).fn = f
  BY DEF Call
<1>2. Statement.fn = "stmt_list_item" /\ Declaration.fn = "stmt_list_item"
  BY DEF Statement, Declaration
<1>3. /\ Call("program_items") \in SimpleCall /\ Call("statement_list") \in SimpleCall
      /\ Call("else_opt") \in SimpleCall /\ Call("switch_body") \in SimpleCall
      /\ Call("break_argument") \in SimpleCall /\ Call("continue_argument") \in SimpleCall
      /\ Call("return_argument") \in SimpleCall /\ Call("return_check") \in SimpleCall
      /\ Call("throw_argument") \in SimpleCall /\ Call("handlers") \in SimpleCall
      /\ Call("catch_opt") \in SimpleCall /\ Call("finally_opt") \in SimpleCall
      /\ Statement \in SimpleCall /\ Declaration \in SimpleCall
  BY <1>1, <1>2, StmtCalls, SimpleOfAny
<1>4. \A ls \in SUBSET Label :
        /\ [fn |-> "labels", labels |-> ls] \in SimpleCall
        /\ [fn |-> "labelled_body", labels |-> ls] \in SimpleCall
  BY StmtCalls, SimpleOfAny
<1> QED BY <1>3, <1>4, ForCalls, SimpleOfAny

LEMMA SimpleInner ==
  /\ \A cs \in Seq(InnerCall), v \in BOOLEAN : WithAllowIn(v, cs) \in SimpleCall
  /\ \A cs \in Seq(InnerCall) : NoIn(cs) \in SimpleCall
  /\ <<AssignmentExpression>> \in Seq(InnerCall) /\ <<Expression>> \in Seq(InnerCall)
  /\ WithAllowIn(TRUE, <<AssignmentExpression>>) \in SimpleCall
  /\ WithAllowIn(TRUE, <<Expression>>) \in SimpleCall
  /\ AssignmentExpression \in SimpleCall /\ InExpression \in SimpleCall
  /\ Paren \in SimpleCall
<1>1. \A cs \in Seq(InnerCall), v \in BOOLEAN : WithAllowIn(v, cs) \in SimpleCall
  BY SimpleExprs
<1>2. <<AssignmentExpression>> \in Seq(InnerCall) /\ <<Expression>> \in Seq(InnerCall)
  BY InnerCalls, Tuples, Zenon DEF AssignmentExpression, Expression
<1>3. TRUE \in BOOLEAN /\ FALSE \in BOOLEAN
  OBVIOUS
<1>4. \A cs \in Seq(InnerCall) : NoIn(cs) \in SimpleCall
  BY <1>1, <1>3 DEF NoIn
<1>5. /\ WithAllowIn(TRUE, <<AssignmentExpression>>) \in SimpleCall
      /\ WithAllowIn(TRUE, <<Expression>>) \in SimpleCall
  BY <1>1, <1>2, <1>3
<1>6. AssignmentExpression \in SimpleCall /\ Paren \in SimpleCall
  BY SimpleCalls DEF AssignmentExpression, Paren
<1> QED BY <1>1, <1>2, <1>4, <1>5, <1>6 DEF InExpression

-----------------------------------------------------------------------------
(***************************************************************************)
(* The steps of the simple functions.                                      *)
(***************************************************************************)
LEMMA PlainNames ==
  /\ "pattern" \in PlainFns /\ "pattern" \notin Tokenless
  /\ "declarator" \in PlainFns /\ "declarator" \notin Tokenless
  /\ "declarator_init" \in PlainFns /\ "declarator_init" \notin Tokenless
  /\ "const_declarator" \in PlainFns /\ "const_declarator" \notin Tokenless
  /\ "parameter" \in PlainFns /\ "parameter" \notin Tokenless
  /\ "more_parameters" \in PlainFns /\ "more_parameters" \notin Tokenless
  /\ "generator" \in PlainFns /\ "generator" \notin Tokenless
  /\ "id" \in PlainFns /\ "id" \notin Tokenless
  /\ "id_opt" \in PlainFns /\ "id_opt" \notin Tokenless
  /\ "more_comma" \in PlainFns /\ "more_comma" \notin Tokenless
  /\ "end_with_auto_semi" \in PlainFns /\ "end_with_auto_semi" \notin Tokenless
  /\ "more_expressions" \in PlainFns /\ "more_expressions" \notin Tokenless
  /\ "argument_list" \in PlainFns /\ "argument_list" \notin Tokenless
  /\ "expr_list_item" \in PlainFns /\ "expr_list_item" \notin Tokenless
  /\ "array_elements" \in PlainFns /\ "array_elements" \notin Tokenless
  /\ "more_elements" \in PlainFns /\ "more_elements" \notin Tokenless
  /\ "properties" \in PlainFns /\ "properties" \notin Tokenless
  /\ "more_properties" \in PlainFns /\ "more_properties" \notin Tokenless
  /\ "object_property" \in PlainFns /\ "object_property" \notin Tokenless
  /\ "accessor" \in PlainFns /\ "accessor" \notin Tokenless
  /\ "more_prop_init" \in PlainFns /\ "more_prop_init" \notin Tokenless
  /\ "else_opt" \in PlainFns /\ "else_opt" \notin Tokenless
  /\ "switch_cases" \in PlainFns /\ "switch_cases" \notin Tokenless
  /\ "break_argument" \in PlainFns /\ "break_argument" \notin Tokenless
  /\ "continue_argument" \in PlainFns /\ "continue_argument" \notin Tokenless
  /\ "return_argument" \in PlainFns /\ "return_argument" \notin Tokenless
  /\ "throw_argument" \in PlainFns /\ "throw_argument" \notin Tokenless
  /\ "handlers" \in PlainFns /\ "handlers" \notin Tokenless
  /\ "catch_opt" \in PlainFns /\ "catch_opt" \notin Tokenless
  /\ "finally_opt" \in PlainFns /\ "finally_opt" \notin Tokenless
  /\ "for_head" \in PlainFns /\ "for_head" \notin Tokenless
  /\ "for_var" \in PlainFns /\ "for_var" \notin Tokenless
  /\ "for_let" \in PlainFns /\ "for_let" \notin Tokenless
  /\ "for_const" \in PlainFns /\ "for_const" \notin Tokenless
  /\ "for_var_init" \in PlainFns /\ "for_var_init" \notin Tokenless
  /\ "for_expr" \in PlainFns /\ "for_expr" \notin Tokenless
  /\ "more_for" \in PlainFns /\ "more_for" \notin Tokenless
  /\ "for_update" \in PlainFns /\ "for_update" \notin Tokenless
  /\ "iteration_body" \in PlainFns /\ "switch_body" \in PlainFns
BY DEF PlainFns, SimpleFns, FunctionNames, ExprFns, ArgumentFns, ForFns, StmtFns, OperandEnds,
       OperatorGoal, Holders, Transparent, OperatorsEnd, ReadsLast, TwoTokenFns, Tokenless

LEMMA SimpleGo ==
  ASSUME ParserInv, GoalInv, NEW f \in PlainFns, At(f), NEW cs \in Seq(SimpleCall), Go(cs),
         Peek \/ (f \notin Tokenless /\ Read)
  PROVE  GoalInv'
BY SimpleStep DEF Go

\* A jump that is refused ends the parse.
LEMMA SimpleJump ==
  ASSUME ParserInv, GoalInv, NEW f \in PlainFns, At(f), NEW cs \in Seq(SimpleCall),
         NEW stmt, NEW label, NEW accepted,
         NEW e \in Errors, GoJump(stmt, label, accepted, e, cs),
         Peek \/ (f \notin Tokenless /\ Read)
  PROVE  GoalInv'
<1>1. CASE accepted
  BY <1>1, SimpleStep DEF GoJump
<1>2. CASE ~accepted
  BY <1>2 DEF GoJump, GoalInv, Alive, Errors
<1> QED BY <1>1, <1>2

LEMMA InsideSeq ==
  ASSUME NEW s \in Scope, NEW cs \in Seq(SimpleCall)
  PROVE  cs \o <<LeaveScope(s)>> \in Seq(SimpleCall)
<1>1. LeaveScope(s) \in LeaveCall /\ LeaveScope(s).fn = "leave"
  BY DEF LeaveScope, LeaveCall
<1>2. LeaveScope(s) \in SimpleCall
  BY <1>1, SimpleNames DEF SimpleCall, AnyCall
<1>3. <<LeaveScope(s)>> \in Seq(SimpleCall)
  BY <1>2
<1> QED BY <1>3, ConcatProperties

LEMMA SimpleInside ==
  ASSUME ParserInv, GoalInv, NEW f \in PlainFns, At(f), NEW cs \in Seq(SimpleCall),
         NEW s \in Scope, GoInside(s, cs), Peek
  PROVE  GoalInv'
<1>1. cs \o <<LeaveScope(s)>> \in Seq(SimpleCall)
  BY InsideSeq
<1>2. todo' = (cs \o <<LeaveScope(s)>>) \o Tail(todo)
  BY DEF GoInside
<1> QED BY <1>1, <1>2, SimpleStep

LEMMA SimpleSeqs ==
  /\ FormalParameters \in Seq(SimpleCall)
  /\ Function("id") \in Seq(SimpleCall) /\ Function("id_opt") \in Seq(SimpleCall)
  /\ Method \in Seq(SimpleCall)
  /\ Block \in Seq(SimpleCall)
  /\ ExpressionStatement \in Seq(SimpleCall)
  /\ \A f \in ListItems : CommaSeparated(f) \in Seq(SimpleCall)
<1>1. FormalParameters \in Seq(SimpleCall)
  BY SimpleCalls, Tuples, Zenon DEF FormalParameters
<1>2. ASSUME NEW name \in {"id", "id_opt"}
      PROVE  Function(name) \in Seq(SimpleCall)
  <2>1. <<Call("generator"), Call(name)>> \in Seq(SimpleCall)
    BY SimpleCalls, Tuples, Zenon
  <2>2. <<Call("function_body")>> \in Seq(SimpleCall)
    BY SimpleCalls, Tuples, Zenon
  <2> QED BY <1>1, <2>1, <2>2, ConcatProperties, Zenon DEF Function
<1>3. Method \in Seq(SimpleCall)
  <2>1. <<Call("function_body"), Build("value")>> \in Seq(SimpleCall)
    BY SimpleCalls, Tuples, Zenon
  <2> QED BY <1>1, <2>1, ConcatProperties, Zenon DEF Method
<1>4. Block \in Seq(SimpleCall)
  BY SimpleCalls, SimpleStatements, Tuples, Zenon DEF Block
<1>5. ExpressionStatement \in Seq(SimpleCall)
  BY SimpleCalls, SimpleInner, Tuples, Zenon DEF ExpressionStatement
<1>6. \A f \in ListItems : CommaSeparated(f) \in Seq(SimpleCall)
  <2>1. \A f \in ListItems : Call(f) \in SimpleCall /\ MoreComma(f) \in SimpleCall
    BY SimpleCalls DEF ListItems
  <2> QED BY <2>1, Tuples, Zenon DEF CommaSeparated
<1> QED BY <1>1, <1>2, <1>3, <1>4, <1>5, <1>6

\* The functions of bindings and functions.
LEMMA SimpleBindings ==
  ASSUME ParserInv, GoalInv,
         \/ Pattern \/ Declarator \/ DeclaratorInit \/ ConstDeclarator
         \/ Parameter \/ MoreParameters \/ Generator \/ Id \/ IdOpt
         \/ EndWithAutoSemi
  PROVE  GoalInv'
<1>1. CASE Pattern
  <2> QED
    BY <1>1, SimpleGo, PlainNames, Tuples, RefusedGoals, Zenon
       DEF Pattern
<1>2. CASE Declarator
  <2>1. <<Call("declarator_init")>> \in Seq(SimpleCall)
    BY SimpleCalls, SimpleStatements, SimpleInner, Tuples, Zenon
  <2> QED
    BY <1>2, <2>1, SimpleGo, PlainNames, Tuples, RefusedGoals, Zenon
       DEF Declarator
<1>3. CASE DeclaratorInit
  <2>1. <<Call("assignment_expression")>> \in Seq(SimpleCall)
    BY SimpleCalls, SimpleStatements, SimpleInner, Tuples, Zenon
  <2> QED
    BY <1>3, <2>1, SimpleGo, PlainNames, Tuples, RefusedGoals, Zenon
       DEF DeclaratorInit
<1>4. CASE ConstDeclarator
  <2>1. <<Call("pattern"), Expect("="), Call("assignment_expression")>> \in Seq(SimpleCall)
    BY SimpleCalls, SimpleStatements, SimpleInner, Tuples, Zenon
  <2> QED
    BY <1>4, <2>1, SimpleGo, PlainNames, Tuples, RefusedGoals, Zenon
       DEF ConstDeclarator
<1>5. CASE Parameter
  <2>1. <<Call("pattern")>> \in Seq(SimpleCall)
    BY SimpleCalls, SimpleStatements, SimpleInner, Tuples, Zenon
  <2>2. <<Call("pattern"), Call("more_parameters")>> \in Seq(SimpleCall)
    BY SimpleCalls, SimpleStatements, SimpleInner, Tuples, Zenon
  <2> QED
    BY <1>5, <2>1, <2>2, SimpleGo, PlainNames, Tuples, RefusedGoals, Zenon
       DEF Parameter
<1>6. CASE MoreParameters
  <2>1. <<Call("parameter")>> \in Seq(SimpleCall)
    BY SimpleCalls, SimpleStatements, SimpleInner, Tuples, Zenon
  <2> QED
    BY <1>6, <2>1, SimpleGo, PlainNames, Tuples, RefusedGoals, Zenon
       DEF MoreParameters
<1>7. CASE Generator
  <2> QED
    BY <1>7, SimpleGo, PlainNames, Tuples, RefusedGoals, Zenon
       DEF Generator
<1>8. CASE Id
  <2> QED
    BY <1>8, SimpleGo, PlainNames, Tuples, RefusedGoals, Zenon
       DEF Id
<1>9. CASE IdOpt
  <2> QED
    BY <1>9, SimpleGo, PlainNames, Tuples, RefusedGoals, Zenon
       DEF IdOpt
<1>10. CASE EndWithAutoSemi
  <2> QED
    BY <1>10, SimpleGo, PlainNames, Tuples, RefusedGoals, Zenon
       DEF EndWithAutoSemi
<1> QED BY <1>1, <1>2, <1>3, <1>4, <1>5, <1>6, <1>7, <1>8, <1>9, <1>10

LEMMA PattOrNot ==
  ASSUME ParserInv
  PROVE  /\ At("array_elements") \/ At("properties") => This.patt \in BOOLEAN
         /\ At("more_elements") \/ At("more_properties") => StillPatt \in BOOLEAN
         /\ At("more_comma") => This.item \in ListItems
<1>1. ASSUME NEW f, At(f)
      PROVE  This \in AnyCall /\ This.fn = f
  BY <1>1, AtCall
<1>2. At("array_elements") \/ At("properties") => This.patt \in BOOLEAN
  BY <1>1, CallFields
<1>3. At("more_elements") \/ At("more_properties") =>
        This.patt \in BOOLEAN /\ This.kind \in {"hole", "expr", "spread"}
  BY <1>1, CallFields
<1>4. At("more_elements") \/ At("more_properties") => StillPatt \in BOOLEAN
  BY <1>3 DEF StillPatt
<1>5. At("more_comma") => This.item \in ListItems
  BY <1>1, CallFields
<1> QED BY <1>2, <1>4, <1>5

\* The functions of expressions.
LEMMA SimpleExpressions ==
  ASSUME ParserInv, GoalInv,
         \/ MoreCommaItems \/ MoreExpressions \/ ArgumentList \/ ExprListItem
         \/ ArrayElements \/ MoreElements \/ Properties \/ MoreProperties
         \/ Accessor \/ MorePropInitCall
  PROVE  GoalInv'
<1>1. CASE MoreCommaItems
  <2>1. At("more_comma")
    BY <1>1 DEF MoreCommaItems
  <2>2. CommaSeparated(This.item) \in Seq(SimpleCall)
    BY <2>1, PattOrNot, SimpleSeqs
  <2> QED
    BY <1>1, <2>1, <2>2, SimpleGo, PlainNames, Tuples, RefusedGoals, Zenon
       DEF MoreCommaItems
<1>2. CASE MoreExpressions
  <2>1. <<MoreComma("assignment_expression"), Build("value")>> \in Seq(SimpleCall)
    BY SimpleCalls, SimpleStatements, SimpleInner, Tuples, Zenon
  <2> QED
    BY <1>2, <2>1, SimpleGo, PlainNames, Tuples, RefusedGoals, Zenon
       DEF MoreExpressions
<1>3. CASE ArgumentList
  <2>1. CommaSeparated("expr_list_item") \in Seq(SimpleCall)
    BY SimpleSeqs DEF ListItems
  <2> QED
    BY <1>3, <2>1, SimpleGo, PlainNames, Tuples, RefusedGoals, Zenon
       DEF ArgumentList
<1>4. CASE ExprListItem
  <2>1. <<AssignmentExpression>> \in Seq(SimpleCall)
    BY SimpleCalls, SimpleStatements, SimpleInner, Tuples, Zenon
  <2> QED
    BY <1>4, <2>1, SimpleGo, PlainNames, Tuples, RefusedGoals, Zenon
       DEF ExprListItem
<1>5. CASE ArrayElements
  <2>1. This.patt \in BOOLEAN
    BY <1>5, PattOrNot DEF ArrayElements
  <2>2. /\ [fn |-> "more_elements", kind |-> "hole", patt |-> This.patt] \in SimpleCall
        /\ [fn |-> "more_elements", kind |-> "spread", patt |-> This.patt] \in SimpleCall
        /\ [fn |-> "more_elements", kind |-> "expr", patt |-> This.patt] \in SimpleCall
    BY <2>1, SimpleExprs
  <2>3. <<[fn |-> "more_elements", kind |-> "hole", patt |-> This.patt]>> \in Seq(SimpleCall)
    BY <2>2, Tuples, Zenon
  <2>4. <<AssignmentExpression,
          [fn |-> "more_elements", kind |-> "spread", patt |-> This.patt]>> \in Seq(SimpleCall)
    BY <2>2, SimpleInner, Tuples, Zenon
  <2>5. <<AssignmentExpression,
          [fn |-> "more_elements", kind |-> "expr", patt |-> This.patt]>> \in Seq(SimpleCall)
    BY <2>2, SimpleInner, Tuples, Zenon
  <2> QED
    BY <1>5, <2>1, <2>2, <2>3, <2>4, <2>5, SimpleGo, PlainNames, Tuples, RefusedGoals, Zenon
       DEF ArrayElements
<1>6. CASE MoreElements
  <2>1. StillPatt \in BOOLEAN
    BY <1>6, PattOrNot DEF MoreElements
  <2>2. [fn |-> "array_elements", patt |-> StillPatt] \in SimpleCall
    BY <2>1, SimpleExprs
  <2>3. <<[fn |-> "array_elements", patt |-> StillPatt]>> \in Seq(SimpleCall)
    BY <2>2, Tuples, Zenon
  <2> QED
    BY <1>6, <2>1, <2>2, <2>3, SimpleGo, PlainNames, Tuples, RefusedGoals, Zenon
       DEF MoreElements
<1>7. CASE Properties
  <2>1. This.patt \in BOOLEAN
    BY <1>7, PattOrNot DEF Properties
  <2>2. [fn |-> "more_properties", kind |-> "expr", patt |-> This.patt] \in SimpleCall
    BY <2>1, SimpleExprs
  <2>3. <<Call("object_property"),
          [fn |-> "more_properties", kind |-> "expr", patt |-> This.patt]>> \in Seq(SimpleCall)
    BY <2>2, SimpleCalls, Tuples, Zenon
  <2> QED
    BY <1>7, <2>1, <2>2, <2>3, SimpleGo, PlainNames, Tuples, RefusedGoals, Zenon
       DEF Properties
<1>8. CASE MoreProperties
  <2>1. StillPatt \in BOOLEAN
    BY <1>8, PattOrNot DEF MoreProperties
  <2>2. [fn |-> "properties", patt |-> StillPatt] \in SimpleCall
    BY <2>1, SimpleExprs
  <2>3. <<[fn |-> "properties", patt |-> StillPatt]>> \in Seq(SimpleCall)
    BY <2>2, Tuples, Zenon
  <2> QED
    BY <1>8, <2>1, <2>2, <2>3, SimpleGo, PlainNames, Tuples, RefusedGoals, Zenon
       DEF MoreProperties
<1>9. CASE Accessor
  <2>1. MorePropInit(TRUE) \in SimpleCall
    BY SimpleExprs DEF MorePropInit
  <2>2. <<MorePropInit(TRUE)>> \in Seq(SimpleCall)
    BY <2>1, Tuples, Zenon
  <2>3. /\ <<Expect("(")>> \in Seq(SimpleCall)
        /\ (IF This.kind = "set" THEN <<Call("pattern")>> ELSE <<>>) \in Seq(SimpleCall)
        /\ <<Expect(")"), Call("function_body"), Build("value")>> \in Seq(SimpleCall)
    BY SimpleCalls, SimpleStatements, SimpleInner, Tuples, Zenon
  <2>4. <<Expect("(")>> \o (IF This.kind = "set" THEN <<Call("pattern")>> ELSE <<>>)
          \o <<Expect(")"), Call("function_body"), Build("value")>> \in Seq(SimpleCall)
    BY <2>3, ConcatProperties, Zenon
  <2> QED
    BY <1>9, <2>1, <2>2, <2>3, <2>4, SimpleGo, PlainNames, Tuples, RefusedGoals, Zenon
       DEF Accessor
<1>10. CASE MorePropInitCall
  <2>1. <<WithAllowIn(TRUE, <<AssignmentExpression>>)>> \in Seq(SimpleCall)
    BY SimpleCalls, SimpleStatements, SimpleInner, Tuples, Zenon
  <2>2. Method \in Seq(SimpleCall)
    BY SimpleSeqs
  <2> QED
    BY <1>10, <2>1, <2>2, SimpleGo, PlainNames, Tuples, RefusedGoals, Zenon
       DEF MorePropInitCall
<1> QED BY <1>1, <1>2, <1>3, <1>4, <1>5, <1>6, <1>7, <1>8, <1>9, <1>10

LEMMA ForSeqs ==
  /\ <<NoIn(<<Expression>>), Call("for_expr")>> \in Seq(SimpleCall)
  /\ ForExpr \in Seq(SimpleCall) /\ MoreForHead \in Seq(SimpleCall)
  /\ ForEach \in Seq(SimpleCall)
  /\ <<NoIn(<<AssignmentExpression>>), Call("for_var_init")>> \in Seq(SimpleCall)
  /\ <<NoIn(<<AssignmentExpression>>)>> \o MoreForHead \in Seq(SimpleCall)
  /\ <<NoIn(<<AssignmentExpression, MoreComma("const_declarator")>>),
       Expect(";"), Call("more_for")>> \in Seq(SimpleCall)
<1>1. /\ <<MoreComma("declarator")>> \in Seq(InnerCall)
      /\ <<AssignmentExpression, MoreComma("const_declarator")>> \in Seq(InnerCall)
  BY InnerCalls, Tuples, Zenon DEF AssignmentExpression, ListItems
<1>2. /\ NoIn(<<Expression>>) \in SimpleCall /\ NoIn(<<AssignmentExpression>>) \in SimpleCall
      /\ NoIn(<<MoreComma("declarator")>>) \in SimpleCall
      /\ NoIn(<<AssignmentExpression, MoreComma("const_declarator")>>) \in SimpleCall
  BY <1>1, SimpleInner, Zenon
<1>3. /\ <<NoIn(<<Expression>>), Call("for_expr")>> \in Seq(SimpleCall)
      /\ ForExpr \in Seq(SimpleCall)
  BY <1>2, SimpleStatements, Tuples, Zenon DEF ForExpr
<1>4. MoreForHead \in Seq(SimpleCall)
  BY <1>2, SimpleCalls, SimpleStatements, Tuples, Zenon DEF MoreForHead
<1>5. ForEach \in Seq(SimpleCall)
  BY SimpleCalls, SimpleStatements, SimpleInner, Tuples, Zenon DEF ForEach
<1>6. <<NoIn(<<AssignmentExpression>>), Call("for_var_init")>> \in Seq(SimpleCall)
  BY <1>2, SimpleStatements, Tuples, Zenon
<1>7. <<NoIn(<<AssignmentExpression>>)>> \o MoreForHead \in Seq(SimpleCall)
  <2>1. <<NoIn(<<AssignmentExpression>>)>> \in Seq(SimpleCall)
    BY <1>2, Tuples, Zenon
  <2> QED BY <1>4, <2>1, ConcatProperties, Zenon
<1>8. <<NoIn(<<AssignmentExpression, MoreComma("const_declarator")>>),
       Expect(";"), Call("more_for")>> \in Seq(SimpleCall)
  BY <1>2, SimpleCalls, SimpleStatements, Tuples, Zenon
<1> QED BY <1>3, <1>4, <1>5, <1>6, <1>7, <1>8

\* The functions of statements.
LEMMA SimpleStatementSteps ==
  ASSUME ParserInv, GoalInv,
         \/ ElseOpt \/ IterationBodyCall \/ SwitchBody \/ SwitchCases
         \/ BreakArgument \/ ContinueArgument \/ ReturnArgument
         \/ ThrowArgument \/ Handlers \/ CatchOpt \/ FinallyOpt
  PROVE  GoalInv'
<1>1. CASE ElseOpt
  <2>1. <<Statement>> \in Seq(SimpleCall)
    BY SimpleCalls, SimpleStatements, SimpleInner, Tuples, Zenon
  <2> QED
    BY <1>1, <2>1, SimpleGo, PlainNames, Tuples, RefusedGoals, Zenon
       DEF ElseOpt
<1>2. CASE IterationBodyCall
  <2>1. At("iteration_body") /\ context \in ContextRecord
    BY <1>2, AtCall DEF IterationBodyCall
  <2>2. IterationBody(context) \in Scope
    BY <2>1, ScopesTyped
  <2>3. <<Statement>> \in Seq(SimpleCall)
    BY SimpleCalls, SimpleStatements, SimpleInner, Tuples, Zenon
  <2> QED
    BY <1>2, <2>1, <2>2, <2>3, SimpleGo, PlainNames, Tuples, RefusedGoals, SimpleInside, Zenon
       DEF IterationBodyCall
<1>3. CASE SwitchBody
  <2>1. At("switch_body") /\ context \in ContextRecord
    BY <1>3, AtCall DEF SwitchBody
  <2>2. SwitchStatement(context) \in Scope
    BY <2>1, ScopesTyped
  <2>3. [fn |-> "switch_cases", found_default |-> FALSE] \in CasesCall
    BY DEF CasesCall
  <2>4. <<Expect("{"), [fn |-> "switch_cases", found_default |-> FALSE]>> \in Seq(SimpleCall)
    BY <2>3, SimpleOfAny, SimpleCalls, Tuples, Zenon
  <2> QED
    BY <1>3, <2>1, <2>2, <2>3, <2>4, SimpleGo, PlainNames, Tuples, RefusedGoals, SimpleInside, Zenon
       DEF SwitchBody
<1>4. CASE SwitchCases
  <2>1. This \in CasesCall
    BY <1>4, AtCall, StatementFields DEF SwitchCases
  <2>2. [This EXCEPT !.found_default = TRUE] \in CasesCall
    BY <2>1 DEF CasesCall
  <2>3. <<InExpression, Expect(":"), Call("statement_list"), This>> \in Seq(SimpleCall)
    BY <2>1, SimpleOfAny, SimpleCalls, SimpleStatements, SimpleInner, Tuples, Zenon
  <2>4. <<Expect(":"), Call("statement_list"), [This EXCEPT !.found_default = TRUE]>>
          \in Seq(SimpleCall)
    BY <2>2, SimpleOfAny, SimpleCalls, SimpleStatements, Tuples, Zenon
  <2>5. <<Expect("}")>> \in Seq(SimpleCall)
    BY SimpleCalls, SimpleStatements, SimpleInner, Tuples, Zenon
  <2> QED
    BY <1>4, <2>1, <2>2, <2>3, <2>4, <2>5, SimpleGo, PlainNames, Tuples, RefusedGoals, Zenon
       DEF SwitchCases
<1>5. CASE BreakArgument
  <2>1. <<AutoSemi("Required")>> \in Seq(SimpleCall)
    BY SimpleCalls, SimpleStatements, SimpleInner, Tuples, Zenon
  <2>2. /\ "IllegalBreak" \in Errors /\ "IllegalContinue" \in Errors
        /\ "InvalidLabel" \in Errors
    BY DEF Errors
  <2> QED
    BY <1>5, <2>1, <2>2, SimpleGo, PlainNames, Tuples, RefusedGoals, SimpleJump, Zenon
       DEF BreakArgument
<1>6. CASE ContinueArgument
  <2>1. <<AutoSemi("Required")>> \in Seq(SimpleCall)
    BY SimpleCalls, SimpleStatements, SimpleInner, Tuples, Zenon
  <2>2. /\ "IllegalBreak" \in Errors /\ "IllegalContinue" \in Errors
        /\ "InvalidLabel" \in Errors
    BY DEF Errors
  <2> QED
    BY <1>6, <2>1, <2>2, SimpleGo, PlainNames, Tuples, RefusedGoals, SimpleJump, Zenon
       DEF ContinueArgument
<1>7. CASE ReturnArgument
  <2>1. /\ (IF HasArgSameLine THEN <<InExpression>> ELSE <<>>) \in Seq(SimpleCall)
        /\ <<AutoSemi("Required"), Call("return_check")>> \in Seq(SimpleCall)
    BY SimpleCalls, SimpleStatements, SimpleInner, Tuples, Zenon
  <2>2. (IF HasArgSameLine THEN <<InExpression>> ELSE <<>>)
          \o <<AutoSemi("Required"), Call("return_check")>> \in Seq(SimpleCall)
    BY <2>1, ConcatProperties, Zenon
  <2> QED
    BY <1>7, <2>1, <2>2, SimpleGo, PlainNames, Tuples, RefusedGoals, Zenon
       DEF ReturnArgument
<1>8. CASE ThrowArgument
  <2>1. ExpressionStatement \in Seq(SimpleCall)
    BY SimpleSeqs
  <2> QED
    BY <1>8, <2>1, SimpleGo, PlainNames, Tuples, RefusedGoals, Zenon
       DEF ThrowArgument
<1>9. CASE Handlers
  <2> QED
    BY <1>9, SimpleGo, PlainNames, Tuples, RefusedGoals, Zenon
       DEF Handlers
<1>10. CASE CatchOpt
  <2>1. <<Expect("("), Call("pattern"), Expect(")")>> \in Seq(SimpleCall)
    BY SimpleCalls, SimpleStatements, SimpleInner, Tuples, Zenon
  <2>2. <<Expect("("), Call("pattern"), Expect(")")>> \o Block \in Seq(SimpleCall)
    BY <2>1, SimpleSeqs, ConcatProperties, Zenon
  <2> QED
    BY <1>10, <2>1, <2>2, SimpleGo, PlainNames, Tuples, RefusedGoals, Zenon
       DEF CatchOpt
<1>11. CASE FinallyOpt
  <2>1. Block \in Seq(SimpleCall)
    BY SimpleSeqs
  <2> QED
    BY <1>11, <2>1, SimpleGo, PlainNames, Tuples, RefusedGoals, Zenon
       DEF FinallyOpt
<1> QED BY <1>1, <1>2, <1>3, <1>4, <1>5, <1>6, <1>7, <1>8, <1>9, <1>10, <1>11

\* The functions of the head of a for statement.
LEMMA SimpleForSteps ==
  ASSUME ParserInv, GoalInv,
         \/ ForBinding \/ ForVarInit \/ ForExprRest \/ MoreFor \/ ForUpdate
  PROVE  GoalInv'
<1>1. CASE ForBinding
  <2>1. PICK f \in {"for_var", "for_let", "for_const"} : At(f)
    BY <1>1 DEF ForBinding
  <2>2. f \in PlainFns /\ f \notin Tokenless
    BY PlainNames
  <2> DEFINE a == <<NoIn(<<AssignmentExpression>>), Call("for_var_init")>>
             b == <<NoIn(<<AssignmentExpression>>)>> \o MoreForHead
             c == <<NoIn(<<AssignmentExpression, MoreComma("const_declarator")>>),
                    Expect(";"), Call("more_for")>>
             d == CASE At("for_var") -> a [] At("for_let") -> b [] At("for_const") -> c
  <2>3. a \in Seq(SimpleCall) /\ b \in Seq(SimpleCall) /\ c \in Seq(SimpleCall)
    BY ForSeqs
  <2>4. \/ Read /\ Go(d)
        \/ Peek /\ Go(MoreForHead)
        \/ Read /\ Go(ForEach)
        \/ Unexpected
    BY <1>1, Zenon DEF ForBinding
  <2> HIDE DEF a, b, c
  <2>5. d = a \/ d = b \/ d = c
    <3>1. At("for_var") \/ At("for_let") \/ At("for_const")
      BY <2>1
    <3> QED BY <3>1
  <2>6. d \in Seq(SimpleCall)
    BY <2>3, <2>5
  <2> HIDE DEF d
  <2> QED BY <2>1, <2>2, <2>4, <2>6, ForSeqs, SimpleGo, RefusedGoals, Zenon
<1>2. CASE ForVarInit
  <2> QED
    BY <1>2, SimpleGo, PlainNames, Tuples, RefusedGoals, ForSeqs, Zenon
       DEF ForVarInit
<1>3. CASE ForExprRest
  <2>1. <<Call("more_for")>> \in Seq(SimpleCall)
    BY SimpleCalls, SimpleStatements, SimpleInner, Tuples, Zenon
  <2> QED
    BY <1>3, <2>1, SimpleGo, PlainNames, Tuples, RefusedGoals, ForSeqs, Zenon
       DEF ForExprRest
<1>4. CASE MoreFor
  <2>1. <<Call("for_update")>> \in Seq(SimpleCall)
    BY SimpleCalls, SimpleStatements, SimpleInner, Tuples, Zenon
  <2>2. <<InExpression, Expect(";"), Call("for_update")>> \in Seq(SimpleCall)
    BY SimpleCalls, SimpleStatements, SimpleInner, Tuples, Zenon
  <2> QED
    BY <1>4, <2>1, <2>2, SimpleGo, PlainNames, Tuples, RefusedGoals, Zenon
       DEF MoreFor
<1>5. CASE ForUpdate
  <2>1. <<Call("iteration_body")>> \in Seq(SimpleCall)
    BY SimpleCalls, SimpleStatements, SimpleInner, Tuples, Zenon
  <2>2. <<InExpression, Expect(")"), Call("iteration_body")>> \in Seq(SimpleCall)
    BY SimpleCalls, SimpleStatements, SimpleInner, Tuples, Zenon
  <2> QED
    BY <1>5, <2>1, <2>2, SimpleGo, PlainNames, Tuples, RefusedGoals, Zenon
       DEF ForUpdate
<1> QED BY <1>1, <1>2, <1>3, <1>4, <1>5


-----------------------------------------------------------------------------
(***************************************************************************)
(* What the calls that follow or end an operand hand over.                 *)
(***************************************************************************)
Operand == {"no_regexp", "one"}
AfterRead == {"no_slash", "no_regexp", "one"}
Slashless == {"no_slash"}

LEMMA Promises ==
  /\ Usual \in SUBSET Promise /\ Operand \in SUBSET Promise /\ AfterRead \in SUBSET Promise
  /\ Slashless \in SUBSET Promise /\ Promise \in SUBSET Promise
  /\ Usual \subseteq AfterRead /\ Operand \subseteq AfterRead /\ Slashless \subseteq Usual
  /\ Slashless \subseteq AfterRead
BY DEF Usual, Operand, AfterRead, Slashless, Promise

LEMMA Hands ==
  ASSUME NEW c
  PROVE  /\ c.fn \in SimpleFns => HandsOver(c, Usual, Usual)
         /\ c.fn \in ReadsLast => HandsOver(c, Usual, AfterRead)
         /\ c.fn \in {"unary_expression", "lhs_expression", "primary_expression"} =>
              HandsOver(c, Slashless, Operand)
         /\ c.fn = "news" => HandsOver(c, Usual, Operand)
         /\ c.fn \in {"more_suffixes", "more_new_expression", "new_arguments", "postfix"} =>
              HandsOver(c, Operand, Operand)
         /\ c.fn = "more_infix_expressions" => HandsOver(c, Operand, Promise)
         /\ c.fn \in {"more_conditional", "more_assignment"} => HandsOver(c, Promise, Promise)
         /\ c.fn = "assignment_expression" => HandsOver(c, Slashless, Promise)
         /\ c.fn = "body_directives" => HandsOver(c, Usual, Slashless)
         /\ c.fn = "statement_list" => HandsOver(c, Slashless, Usual)
<1>1. c.fn \in SimpleFns => HandsOver(c, Usual, Usual)
  BY SimpleHands
<1>2. ASSUME c.fn \in ReadsLast
      PROVE  HandsOver(c, Usual, AfterRead)
  <2>1. HoldsRight(c) /\ c.fn \notin Transparent
    BY <1>2 DEF HoldsRight, ReadsLast, Transparent
  <2>2. Relies(c) \subseteq Usual
    BY <1>2 DEF Relies, Usual, Promise, ReadsLast, OperatorGoal
  <2>3. AfterRead \subseteq Provides(c.fn)
    BY <1>2 DEF Provides, AfterRead, Promise, ReadsLast, OperandEnds
  <2> QED BY <2>1, <2>2, <2>3 DEF HandsOver
<1>3. ASSUME c.fn \in {"unary_expression", "lhs_expression", "primary_expression"}
      PROVE  HandsOver(c, Slashless, Operand)
  <2>1. HoldsRight(c) /\ c.fn \notin Transparent
    BY <1>3 DEF HoldsRight, Transparent
  <2>2. Relies(c) \subseteq Slashless
    BY <1>3 DEF Relies, Slashless, Promise, OperatorGoal, TakesTwo, TwoTokenFns
  <2>3. Operand \subseteq Provides(c.fn)
    BY <1>3 DEF Provides, Operand, Promise, OperandEnds
  <2> QED BY <2>1, <2>2, <2>3 DEF HandsOver
<1>4. ASSUME c.fn = "news"
      PROVE  HandsOver(c, Usual, Operand)
  <2>1. HoldsRight(c) /\ c.fn \notin Transparent
    BY <1>4 DEF HoldsRight, Transparent
  <2>2. Relies(c) \subseteq Usual
    BY <1>4 DEF Relies, Usual, Promise, OperatorGoal
  <2>3. Operand \subseteq Provides(c.fn)
    BY <1>4 DEF Provides, Operand, Promise, OperandEnds
  <2> QED BY <2>1, <2>2, <2>3 DEF HandsOver
<1>5. ASSUME c.fn \in {"more_suffixes", "more_new_expression", "new_arguments", "postfix"}
      PROVE  HandsOver(c, Operand, Operand)
  <2>1. HoldsRight(c) /\ c.fn \notin Transparent
    BY <1>5 DEF HoldsRight, Transparent
  <2>2. Relies(c) \subseteq Operand
    BY <1>5 DEF Relies, Operand, Promise, AfterOperand
  <2>3. Operand \subseteq Provides(c.fn)
    BY <1>5 DEF Provides, Operand, Promise, OperandEnds
  <2> QED BY <2>1, <2>2, <2>3 DEF HandsOver
<1>6. ASSUME c.fn = "more_infix_expressions"
      PROVE  HandsOver(c, Operand, Promise)
  <2>1. HoldsRight(c) /\ c.fn \notin Transparent
    BY <1>6 DEF HoldsRight, Transparent
  <2>2. Relies(c) \subseteq Operand
    BY <1>6 DEF Relies, Operand, Promise, AfterOperand
  <2>3. Promise \subseteq Provides(c.fn)
    BY <1>6 DEF Provides, Promise, OperandEnds, OperatorsEnd
  <2> QED BY <2>1, <2>2, <2>3 DEF HandsOver
<1>7. ASSUME c.fn \in {"more_conditional", "more_assignment"}
      PROVE  HandsOver(c, Promise, Promise)
  <2>1. HoldsRight(c) /\ c.fn \notin Transparent
    BY <1>7 DEF HoldsRight, Transparent
  <2>2. Relies(c) \subseteq Promise
    BY DEF Relies
  <2>3. Promise \subseteq Provides(c.fn)
    BY <1>7 DEF Provides, Promise, OperandEnds, OperatorsEnd
  <2> QED BY <2>1, <2>2, <2>3 DEF HandsOver
<1>8. ASSUME c.fn = "assignment_expression"
      PROVE  HandsOver(c, Slashless, Promise)
  <2>1. HoldsRight(c) /\ c.fn \notin Transparent
    BY <1>8 DEF HoldsRight, Transparent
  <2>2. Relies(c) \subseteq Slashless
    BY <1>8 DEF Relies, Slashless, Promise, OperatorGoal, TakesTwo, TwoTokenFns
  <2>3. Promise \subseteq Provides(c.fn)
    BY <1>8 DEF Provides, Promise, OperandEnds, OperatorsEnd
  <2> QED BY <2>1, <2>2, <2>3 DEF HandsOver
<1>9. ASSUME c.fn = "body_directives"
      PROVE  HandsOver(c, Usual, Slashless)
  <2>1. HoldsRight(c) /\ c.fn \notin Transparent
    BY <1>9 DEF HoldsRight, Transparent
  <2>2. Relies(c) \subseteq Usual
    BY <1>9 DEF Relies, Usual, Promise, OperatorGoal
  <2>3. Slashless \subseteq Provides(c.fn)
    BY <1>9 DEF Provides, Slashless, Promise, OperandEnds
  <2> QED BY <2>1, <2>2, <2>3 DEF HandsOver
<1>10. ASSUME c.fn = "statement_list"
       PROVE  HandsOver(c, Slashless, Usual)
  <2>1. HoldsRight(c) /\ c.fn \notin Transparent
    BY <1>10 DEF HoldsRight, Transparent
  <2>2. Relies(c) \subseteq Slashless
    BY <1>10 DEF Relies, Slashless, Promise, OperatorGoal, TakesTwo, TwoTokenFns
  <2>3. Usual \subseteq Provides(c.fn)
    BY <1>10 DEF Provides, Usual, Promise, OperandEnds
  <2> QED BY <2>1, <2>2, <2>3 DEF HandsOver
<1> QED BY <1>1, <1>2, <1>3, <1>4, <1>5, <1>6, <1>7, <1>8, <1>9, <1>10

LEMMA TransparentHands ==
  ASSUME NEW c, c.fn \in Transparent, NEW g
  PROVE  HandsOver(c, g, g)
BY DEF HandsOver, HoldsRight, Transparent

\* One call more.
LEMMA HandingMore ==
  ASSUME NEW cs \in Seq(AnyCall), NEW ds \in Seq(AnyCall), Len(ds) = Len(cs) + 1,
         \A n \in 1 .. Len(cs) : ds[n] = cs[n],
         NEW g, NEW h, NEW k \in SUBSET Promise,
         Handing(cs, g, h), HandsOver(ds[Len(ds)], h, k)
  PROVE  Handing(ds, g, k)
<1>1. PICK m \in [1 .. Len(cs) + 1 -> SUBSET Promise] :
        /\ m[1] \subseteq g /\ h \subseteq m[Len(cs) + 1]
        /\ \A n \in 1 .. Len(cs) : HandsOver(cs[n], m[n], m[n + 1])
  BY DEF Handing
<1> DEFINE l == [n \in 1 .. Len(ds) + 1 |-> IF n <= Len(cs) + 1 THEN m[n] ELSE k]
<1>2. Len(cs) \in Nat
  OBVIOUS
<1>3. /\ l \in [1 .. Len(ds) + 1 -> SUBSET Promise] /\ l[1] = m[1] /\ l[Len(ds) + 1] = k
      /\ \A n \in 1 .. Len(cs) + 1 : l[n] = m[n]
  BY <1>1, <1>2
<1> HIDE DEF l
<1>4. \A n \in 1 .. Len(cs) : HandsOver(ds[n], l[n], l[n + 1])
  BY <1>1, <1>2, <1>3
<1>5. HandsOver(ds[Len(ds)], m[Len(ds)], k)
  <2>1. k \subseteq k
    OBVIOUS
  <2> QED BY <1>1, <2>1, HandsOverLess
<1>6. l[Len(ds)] = m[Len(ds)]
  BY <1>2, <1>3
<1>7. \A n \in 1 .. Len(ds) : n \in 1 .. Len(cs) \/ n = Len(ds)
  BY <1>2
<1>8. \A n \in 1 .. Len(ds) : HandsOver(ds[n], l[n], l[n + 1])
  BY <1>3, <1>4, <1>5, <1>6, <1>7
<1>9. k \subseteq k
  OBVIOUS
<1> QED BY <1>1, <1>3, <1>8, <1>9 DEF Handing

LEMMA HandingTwo ==
  ASSUME NEW a \in AnyCall, NEW b \in AnyCall,
         NEW g \in SUBSET Promise, NEW h \in SUBSET Promise,
         NEW i \in SUBSET Promise,
         HandsOver(a, g, h), HandsOver(b, h, i)
  PROVE  Handing(<<a, b>>, g, i)
<1>1. /\ <<a>> \in Seq(AnyCall) /\ <<a, b>> \in Seq(AnyCall)
      /\ Len(<<a, b>>) = Len(<<a>>) + 1
      /\ \A n \in 1 .. Len(<<a>>) : <<a, b>>[n] = <<a>>[n]
      /\ <<a, b>>[Len(<<a, b>>)] = b
  OBVIOUS
<1>2. Handing(<<a>>, g, h)
  BY HandingOne
<1> QED BY <1>1, <1>2, HandingMore

LEMMA HandingThree ==
  ASSUME NEW a \in AnyCall, NEW b \in AnyCall, NEW c \in AnyCall,
         NEW g \in SUBSET Promise, NEW h \in SUBSET Promise,
         NEW i \in SUBSET Promise, NEW j \in SUBSET Promise,
         HandsOver(a, g, h), HandsOver(b, h, i), HandsOver(c, i, j)
  PROVE  Handing(<<a, b, c>>, g, j)
<1>1. /\ <<a, b>> \in Seq(AnyCall) /\ <<a, b, c>> \in Seq(AnyCall)
      /\ Len(<<a, b, c>>) = Len(<<a, b>>) + 1
      /\ \A n \in 1 .. Len(<<a, b>>) : <<a, b, c>>[n] = <<a, b>>[n]
      /\ <<a, b, c>>[Len(<<a, b, c>>)] = c
  OBVIOUS
<1>2. Handing(<<a, b>>, g, i)
  BY HandingTwo
<1> QED BY <1>1, <1>2, HandingMore

LEMMA HandingFour ==
  ASSUME NEW a \in AnyCall, NEW b \in AnyCall, NEW c \in AnyCall,
         NEW d \in AnyCall,
         NEW g \in SUBSET Promise, NEW h \in SUBSET Promise,
         NEW i \in SUBSET Promise, NEW j \in SUBSET Promise,
         NEW k \in SUBSET Promise,
         HandsOver(a, g, h), HandsOver(b, h, i), HandsOver(c, i, j),
         HandsOver(d, j, k)
  PROVE  Handing(<<a, b, c, d>>, g, k)
<1>1. /\ <<a, b, c>> \in Seq(AnyCall) /\ <<a, b, c, d>> \in Seq(AnyCall)
      /\ Len(<<a, b, c, d>>) = Len(<<a, b, c>>) + 1
      /\ \A n \in 1 .. Len(<<a, b, c>>) : <<a, b, c, d>>[n] = <<a, b, c>>[n]
      /\ <<a, b, c, d>>[Len(<<a, b, c, d>>)] = d
  OBVIOUS
<1>2. Handing(<<a, b, c>>, g, j)
  BY HandingThree
<1> QED BY <1>1, <1>2, HandingMore

-----------------------------------------------------------------------------
(***************************************************************************)
(* Steps of the calls that find one token.                                 *)
(***************************************************************************)
OneFns ==
  FunctionNames \ (Transparent \cup TwoTokenFns \cup {"allow_in", "property_key"})

LEMMA OneFn == ASSUME NEW c, c.fn \in OneFns PROVE TakesOne(c) /\ c.fn \notin Transparent
BY DEF OneFns, TakesOne, TakesTwo

LEMMA ReadGo ==
  ASSUME ParserInv, GoalInv, NEW f \in OneFns, f \notin Tokenless, At(f), Read,
         NEW cs \in Seq(AnyCall), todo' = cs \o Tail(todo),
         Handing(cs, AfterRead, Provides(f))
  PROVE  GoalInv'
<1>1. Running /\ todo # <<>> /\ This.fn = f /\ la # <<>>
  BY AtCall
<1>2. TakesOne(This) /\ This.fn \notin Transparent
  BY <1>1, OneFn
<1>3. GivenBack' /\ Holds({"no_slash", "no_regexp", "one"})'
  BY <1>1, <1>2, ReadOne
<1>4. Holds(AfterRead)'
  BY <1>3 DEF AfterRead
<1> QED BY <1>1, <1>2, <1>3, <1>4, Promises, CallsReplaced

LEMMA PeekGo ==
  ASSUME ParserInv, GoalInv, NEW f \in OneFns, At(f), Peek,
         NEW cs \in Seq(AnyCall), todo' = cs \o Tail(todo), NEW g \in SUBSET Promise,
         "no_slash" \in g => f \notin AfterOperand \/ Tok.value # "/",
         "no_regexp" \in g => f \in OperatorGoal,
         "token" \in g => f \notin Tokenless,
         Handing(cs, g, Provides(f))
  PROVE  GoalInv'
<1>1. Running /\ todo # <<>> /\ This.fn = f /\ (f \notin Tokenless => la # <<>>)
  BY AtCall
<1>2. TakesOne(This) /\ This.fn \notin Transparent
  BY <1>1, OneFn
<1>3. /\ GivenBack' /\ Len(la') <= 1 /\ la' = la /\ Tok' = Tok
  BY <1>1, <1>2, PeekOne
<1>4. /\ "no_slash" \in g /\ la # <<>> => Tok.value # "/"
      /\ "no_regexp" \in g /\ la # <<>> => ~RegExpToken(Tok)
  BY <1>1, <1>2, Relied
<1>5. Holds(g)'
  BY <1>1, <1>3, <1>4 DEF Holds, RegExpToken
<1> QED BY <1>1, <1>2, <1>3, <1>5, CallsReplaced

LEMMA CallNames ==
  /\ \A f : Call(f).fn = f
  /\ \A v : Expect(v).fn = "expect" /\ Build(v).fn = "build"
  /\ \A s : LeaveScope(s).fn = "leave"
  /\ \A v, cs : WithAllowIn(v, cs).fn = "allow_in" /\ WithAllowIn(v, cs).calls = cs
BY DEF Call, Expect, Build, LeaveScope, WithAllowIn

LEMMA CallHands ==
  /\ HandsOver(Call("unary_expression"), Slashless, Operand)
  /\ HandsOver(Call("lhs_expression"), Slashless, Operand)
  /\ HandsOver(Call("primary_expression"), Slashless, Operand)
  /\ HandsOver(Call("primary_expression"), Usual, Operand)
  /\ HandsOver(Call("more_suffixes"), Operand, Operand)
  /\ HandsOver(Call("more_suffixes"), AfterRead, Operand)
  /\ HandsOver(Call("postfix"), Operand, Operand)
  /\ HandsOver(Call("prefix_update"), Operand, Operand)
  /\ HandsOver(Call("more_infix_expressions"), Operand, Promise)
  /\ HandsOver(Call("more_conditional"), Promise, Promise)
  /\ HandsOver(Call("more_assignment"), Promise, Promise)
  /\ HandsOver(AssignmentExpression, Slashless, Promise)
  /\ HandsOver(AssignmentExpression, AfterRead, Promise)
  /\ HandsOver(Call("arguments"), Usual, AfterRead)
  /\ HandsOver(Call("paren_expression"), Usual, AfterRead)
  /\ HandsOver(Call("function_body"), Usual, AfterRead)
  /\ HandsOver(Call("id_name"), Usual, AfterRead)
  /\ HandsOver(Call("id_name"), AfterRead, AfterRead)
  /\ HandsOver(Call("body_directives"), Usual, Slashless)
  /\ HandsOver(Call("body_directives"), AfterRead, Slashless)
  /\ HandsOver(Call("statement_list"), Slashless, Usual)
  /\ \A v : HandsOver(Expect(v), Usual, AfterRead) /\ HandsOver(Expect(v), AfterRead, AfterRead)
  /\ \A v, g : HandsOver(Build(v), g, g)
  /\ \A s, g : HandsOver(LeaveScope(s), g, g)
<1>1. /\ HandsOver(Call("unary_expression"), Slashless, Operand)
      /\ HandsOver(Call("lhs_expression"), Slashless, Operand)
      /\ HandsOver(Call("primary_expression"), Slashless, Operand)
      /\ HandsOver(Call("more_suffixes"), Operand, Operand)
      /\ HandsOver(Call("postfix"), Operand, Operand)
      /\ HandsOver(Call("more_infix_expressions"), Operand, Promise)
      /\ HandsOver(Call("more_conditional"), Promise, Promise)
      /\ HandsOver(Call("more_assignment"), Promise, Promise)
      /\ HandsOver(AssignmentExpression, Slashless, Promise)
      /\ HandsOver(Call("body_directives"), Usual, Slashless)
      /\ HandsOver(Call("statement_list"), Slashless, Usual)
  BY CallNames, Hands DEF AssignmentExpression
<1>2. /\ \A f \in ReadsLast : HandsOver(Call(f), Usual, AfterRead)
      /\ \A v : HandsOver(Expect(v), Usual, AfterRead)
  BY CallNames, Hands DEF ReadsLast
<1>3. /\ \A v, g : HandsOver(Build(v), g, g)
      /\ \A s, g : HandsOver(LeaveScope(s), g, g)
      /\ HandsOver(Call("prefix_update"), Operand, Operand)
  BY CallNames, TransparentHands DEF Transparent
<1>4. /\ HandsOver(Call("primary_expression"), Usual, Operand)
      /\ HandsOver(Call("more_suffixes"), AfterRead, Operand)
      /\ HandsOver(AssignmentExpression, AfterRead, Promise)
      /\ HandsOver(Call("id_name"), AfterRead, AfterRead)
      /\ HandsOver(Call("body_directives"), AfterRead, Slashless)
      /\ \A v : HandsOver(Expect(v), AfterRead, AfterRead)
  <2>1. \A c, g, h, k : HandsOver(c, g, h) /\ g \subseteq k => HandsOver(c, k, h)
    <3>1. \A h : h \subseteq h
      OBVIOUS
    <3> QED BY <3>1, HandsOverLess
  <2> QED BY <1>1, <1>2, <2>1, Promises DEF ReadsLast
<1> QED BY <1>1, <1>2, <1>3, <1>4 DEF ReadsLast

\* The calls that count the `new`s read.
LEMMA NewCalls ==
  ASSUME NEW n \in Nat
  PROVE  /\ [fn |-> "news", n |-> n] \in AnyCall
         /\ [fn |-> "more_new_expression", n |-> n] \in AnyCall
         /\ [fn |-> "new_arguments", n |-> n] \in AnyCall
         /\ HandsOver([fn |-> "news", n |-> n], Usual, Operand)
         /\ HandsOver([fn |-> "more_new_expression", n |-> n], Operand, Operand)
         /\ HandsOver([fn |-> "more_new_expression", n |-> n], AfterRead, Operand)
         /\ HandsOver([fn |-> "new_arguments", n |-> n], Operand, Operand)
         /\ HandsOver([fn |-> "new_arguments", n |-> n], AfterRead, Operand)
<1>1. /\ [fn |-> "news", n |-> n] \in AnyCall
      /\ [fn |-> "more_new_expression", n |-> n] \in AnyCall
      /\ [fn |-> "new_arguments", n |-> n] \in AnyCall
  BY ExprCalls, CallsNeutral
<1>2. /\ HandsOver([fn |-> "news", n |-> n], Usual, Operand)
      /\ HandsOver([fn |-> "more_new_expression", n |-> n], Operand, Operand)
      /\ HandsOver([fn |-> "new_arguments", n |-> n], Operand, Operand)
  BY Hands
<1>3. Operand \subseteq Operand
  OBVIOUS
<1> QED BY <1>1, <1>2, <1>3, Promises, HandsOverLess

LEMMA AnyCalls ==
  /\ \A c \in ExprCall : c \in AnyCall
  /\ \A c \in SimpleCall : c \in AnyCall
  /\ \A cs \in Seq(SimpleCall) : cs \in Seq(AnyCall)
  /\ Call("body_directives") \in AnyCall
  /\ \A s \in Scope : LeaveScope(s) \in AnyCall
<1>1. \A cs \in Seq(SimpleCall) : cs \in Seq(AnyCall)
  BY DEF SimpleCall
<1>2. \A s \in Scope : LeaveScope(s) \in LeaveCall
  BY DEF LeaveScope, LeaveCall
<1>3. \A s \in Scope : LeaveScope(s) \in AnyCall
  BY <1>2 DEF AnyCall
<1>4. \A c \in SimpleCall : c \in AnyCall
  BY DEF SimpleCall
<1> QED BY <1>1, <1>3, <1>4, StmtCalls, CallsNeutral

LEMMA OneCallHandsOver ==
  ASSUME NEW c, c.fn \in SimpleFns
  PROVE  HandsOver(c, Usual, Usual) /\ HandsOver(c, AfterRead, Usual)
<1>1. Usual \subseteq Usual
  OBVIOUS
<1> QED BY <1>1, Hands, Promises, HandsOverLess

LEMMA AllowInHands ==
  \A v, cs : HandsOver(WithAllowIn(v, cs), Usual, Usual)
<1>1. "allow_in" \in SimpleFns
  BY SimpleNames DEF ArgumentFns, OperandEnds, OperatorGoal
<1> QED BY <1>1, CallNames, OneCallHandsOver

-----------------------------------------------------------------------------
(***************************************************************************)
(* The sequences of calls of the operators and of the operands.            *)
(***************************************************************************)
LEMMA OperatorSeqs ==
  /\ Handing(<<Call("unary_expression"), Build("value"), Call("more_infix_expressions")>>,
             Slashless, Promise)
  /\ Handing(<<WithAllowIn(TRUE, <<AssignmentExpression>>), Expect(":"),
               AssignmentExpression, Build("value")>>, Usual, Promise)
  /\ Handing(<<AssignmentExpression, Build("value")>>, Slashless, Promise)
  /\ Handing(<<Call("unary_expression"), Call("more_infix_expressions"),
               Call("more_conditional"), Call("more_assignment")>>, Slashless, Promise)
  /\ Handing(<<Call("unary_expression"), Call("prefix_update")>>, Slashless, Operand)
  /\ Handing(<<Call("unary_expression"), Build("value")>>, Slashless, Operand)
  /\ Handing(<<Call("lhs_expression"), Call("postfix")>>, Slashless, Operand)
  /\ Handing(<<Call("primary_expression"), Call("more_suffixes")>>, Slashless, Operand)
<1>1. /\ Call("unary_expression") \in AnyCall /\ Build("value") \in AnyCall
      /\ Call("more_infix_expressions") \in AnyCall /\ Call("more_conditional") \in AnyCall
      /\ Call("more_assignment") \in AnyCall /\ Expect(":") \in AnyCall
      /\ Call("prefix_update") \in AnyCall /\ Call("lhs_expression") \in AnyCall
      /\ Call("postfix") \in AnyCall /\ Call("primary_expression") \in AnyCall
      /\ Call("more_suffixes") \in AnyCall
  BY CallsOfExpr, AnyCalls, Zenon
<1>2. AssignmentExpression \in AnyCall /\ WithAllowIn(TRUE, <<AssignmentExpression>>) \in AnyCall
  BY SimpleInner, AnyCalls, Zenon
<1>3. Handing(<<Call("unary_expression"), Build("value"), Call("more_infix_expressions")>>,
              Slashless, Promise)
  BY <1>1, CallHands, Promises, HandingThree, Zenon
<1>4. Handing(<<WithAllowIn(TRUE, <<AssignmentExpression>>), Expect(":"),
                AssignmentExpression, Build("value")>>, Usual, Promise)
  BY <1>1, <1>2, CallHands, AllowInHands, Promises, HandingFour, Zenon
<1>5. Handing(<<AssignmentExpression, Build("value")>>, Slashless, Promise)
  BY <1>1, <1>2, CallHands, Promises, HandingTwo, Zenon
<1>6. Handing(<<Call("unary_expression"), Call("more_infix_expressions"),
                Call("more_conditional"), Call("more_assignment")>>, Slashless, Promise)
  BY <1>1, CallHands, Promises, HandingFour, Zenon
<1>7. /\ Handing(<<Call("unary_expression"), Call("prefix_update")>>, Slashless, Operand)
      /\ Handing(<<Call("unary_expression"), Build("value")>>, Slashless, Operand)
      /\ Handing(<<Call("lhs_expression"), Call("postfix")>>, Slashless, Operand)
      /\ Handing(<<Call("primary_expression"), Call("more_suffixes")>>, Slashless, Operand)
  BY <1>1, CallHands, Promises, HandingTwo, Zenon
<1> QED BY <1>3, <1>4, <1>5, <1>6, <1>7

LEMMA OneNames ==
  /\ \A f \in {"more_infix_expressions", "more_conditional", "more_assignment", "postfix",
               "news", "more_new_expression", "new_arguments", "more_suffixes", "id_name",
               "arguments", "paren_expression", "expect", "object_property", "reserved_key",
               "body_directives", "directive_rest", "identifier_statement", "labels",
               "more_labels", "for_head", "for_lexical"} :
       f \in OneFns /\ f \notin Tokenless /\ f \notin Transparent
  /\ "function_body" \in OneFns
BY DEF OneFns, FunctionNames, ExprFns, ArgumentFns, ForFns, StmtFns, Holders, Transparent,
       TwoTokenFns, Tokenless

LEMMA Provided ==
  /\ \A f \in OperatorsEnd : Provides(f) \subseteq Promise
  /\ \A f \in OperandEnds : Provides(f) \subseteq Operand
  /\ \A f \in ReadsLast : Provides(f) \subseteq AfterRead
  /\ Provides("body_directives") \subseteq Slashless
  /\ Provides("directive_rest") \subseteq Slashless
  /\ \A f : f \notin OperandEnds \cup OperatorsEnd \cup ReadsLast => Provides(f) \subseteq Usual
BY DEF Provides, Promise, Operand, AfterRead, Slashless, Usual, OperatorsEnd, OperandEnds,
       ReadsLast

LEMMA ReadGoes ==
  ASSUME ParserInv, GoalInv, NEW f \in OneFns, f \notin Tokenless, At(f), Read,
         NEW cs \in Seq(AnyCall), Go(cs), NEW g, g \subseteq AfterRead,
         NEW h, Provides(f) \subseteq h, Handing(cs, g, h)
  PROVE  GoalInv'
<1>1. Handing(cs, AfterRead, Provides(f))
  BY HandingLess
<1> QED BY <1>1, ReadGo DEF Go

LEMMA PeekGoes ==
  ASSUME ParserInv, GoalInv, NEW f \in OneFns, At(f), Peek,
         NEW cs \in Seq(AnyCall), Go(cs), NEW g \in SUBSET Promise,
         "no_slash" \in g => f \notin AfterOperand \/ ~Is("/"),
         "no_regexp" \in g => f \in OperatorGoal,
         "token" \in g => f \notin Tokenless,
         NEW h, Provides(f) \subseteq h, Handing(cs, g, h)
  PROVE  GoalInv'
<1>1. Handing(cs, g, Provides(f))
  <2>1. g \subseteq g
    OBVIOUS
  <2> QED BY <2>1, HandingLess
<1> QED BY <1>1, PeekGo DEF Go, Is

LEMMA NoCalls ==
  /\ <<>> \in Seq(AnyCall)
  /\ Handing(<<>>, Usual, Usual) /\ Handing(<<>>, Operand, Operand)
  /\ Handing(<<>>, AfterRead, AfterRead) /\ Handing(<<>>, AfterRead, Operand)
  /\ Handing(<<>>, Promise, Promise) /\ Handing(<<>>, Slashless, Slashless)
<1>1. <<>> \in Seq(AnyCall)
  OBVIOUS
<1>2. \A g \in SUBSET Promise : Handing(<<>>, g, g)
  BY HandingNone
<1>3. AfterRead \subseteq AfterRead
  OBVIOUS
<1>4. Handing(<<>>, AfterRead, Operand)
  BY <1>2, <1>3, Promises, HandingLess
<1> QED BY <1>1, <1>2, <1>4, Promises

-----------------------------------------------------------------------------
(***************************************************************************)
(* The operators.                                                          *)
(***************************************************************************)
LEMMA MoreInfixGoals ==
  ASSUME ParserInv, GoalInv, MoreInfixExpressions
  PROVE  GoalInv'
<1> DEFINE f == "more_infix_expressions"
           c == <<Call("unary_expression"), Build("value"), Call("more_infix_expressions")>>
<1>1. /\ At(f)
      /\ \/ Read /\ Go(c)
         \/ ~IsInfix /\ Peek /\ Go(<<>>)
  BY Zenon DEF MoreInfixExpressions
<1>2. c \in Seq(AnyCall)
  BY CallsOfExpr, AnyCalls, Tuples, Zenon
<1>3. Handing(c, Slashless, Promise)
  BY OperatorSeqs
<1>4. /\ f \in OneFns /\ f \notin Tokenless /\ f \in OperatorGoal
      /\ Provides(f) \subseteq Promise
  BY OneNames, Provided DEF OperatorGoal, OperatorsEnd
<1> HIDE DEF f, c
<1>5. CASE Read /\ Go(c)
  BY <1>1, <1>2, <1>3, <1>4, <1>5, Promises, ReadGoes
<1>6. CASE ~IsInfix /\ Peek /\ Go(<<>>)
  <2>1. ~Is("/")
    BY <1>6 DEF IsInfix, IsOneOf, Is
  <2> QED BY <1>1, <1>4, <1>6, <2>1, NoCalls, Promises, PeekGoes
<1> QED BY <1>1, <1>5, <1>6

LEMMA MoreConditionalGoals ==
  ASSUME ParserInv, GoalInv, MoreConditional
  PROVE  GoalInv'
<1> DEFINE f == "more_conditional"
           c == <<WithAllowIn(TRUE, <<AssignmentExpression>>), Expect(":"),
                  AssignmentExpression, Build("value")>>
<1>1. /\ At(f)
      /\ \/ Read /\ Go(c)
         \/ Peek /\ Go(<<>>)
  BY Zenon DEF MoreConditional
<1>2. c \in Seq(AnyCall)
  BY SimpleCalls, SimpleInner, AnyCalls, Tuples, Zenon
<1>3. Handing(c, Usual, Promise)
  BY OperatorSeqs
<1>4. /\ f \in OneFns /\ f \notin Tokenless /\ f \in OperatorGoal /\ f \notin AfterOperand
      /\ Provides(f) \subseteq Promise
  BY OneNames, Provided DEF OperatorGoal, OperatorsEnd, AfterOperand
<1> HIDE DEF f, c
<1>5. CASE Read /\ Go(c)
  BY <1>1, <1>2, <1>3, <1>4, <1>5, Promises, ReadGoes
<1>6. CASE Peek /\ Go(<<>>)
  BY <1>1, <1>4, <1>6, NoCalls, Promises, PeekGoes
<1> QED BY <1>1, <1>5, <1>6

LEMMA MoreAssignmentGoals ==
  ASSUME ParserInv, GoalInv, MoreAssignment
  PROVE  GoalInv'
<1> DEFINE f == "more_assignment"
           c == <<AssignmentExpression, Build("value")>>
<1>1. /\ At(f)
      /\ \/ Read /\ Go(c)
         \/ Peek /\ Go(<<>>)
         \/ Fail("InvalidLHS")
  BY Zenon DEF MoreAssignment
<1>2. c \in Seq(AnyCall)
  BY SimpleCalls, SimpleInner, AnyCalls, Tuples, Zenon
<1>3. Handing(c, Slashless, Promise)
  BY OperatorSeqs
<1>4. /\ f \in OneFns /\ f \notin Tokenless /\ f \in OperatorGoal /\ f \notin AfterOperand
      /\ Provides(f) \subseteq Promise
  BY OneNames, Provided DEF OperatorGoal, OperatorsEnd, AfterOperand
<1> HIDE DEF f, c
<1>5. CASE Read /\ Go(c)
  BY <1>1, <1>2, <1>3, <1>4, <1>5, Promises, ReadGoes
<1>6. CASE Peek /\ Go(<<>>)
  BY <1>1, <1>4, <1>6, NoCalls, Promises, PeekGoes
<1> QED BY <1>1, <1>5, <1>6, RefusedGoals

LEMMA PostfixGoals ==
  ASSUME ParserInv, GoalInv, Postfix
  PROVE  GoalInv'
<1> DEFINE f == "postfix"
<1>1. /\ At(f)
      /\ \/ Read /\ Go(<<>>)
         \/ Peek /\ Go(<<>>)
         \/ Fail("InvalidLHS")
  BY Zenon DEF Postfix
<1>2. /\ f \in OneFns /\ f \notin Tokenless /\ f \in OperatorGoal
      /\ Provides(f) \subseteq Operand
  BY OneNames, Provided DEF OperatorGoal, OperandEnds
<1>3. "no_slash" \notin Operand /\ "token" \notin Operand
  BY DEF Operand
<1> HIDE DEF f
<1>4. CASE Read /\ Go(<<>>)
  BY <1>1, <1>2, <1>4, NoCalls, Promises, ReadGoes
<1>5. CASE Peek /\ Go(<<>>)
  BY <1>1, <1>2, <1>3, <1>5, NoCalls, Promises, PeekGoes
<1> QED BY <1>1, <1>4, <1>5, RefusedGoals

LEMMA NewsGoals ==
  ASSUME ParserInv, GoalInv, News
  PROVE  GoalInv'
<1> DEFINE f == "news"
           a == <<[fn |-> "news", n |-> This.n + 1]>>
           t == <<Expect("target"), Build("value")>>
           m == IF This.n > 1 THEN <<[fn |-> "more_new_expression", n |-> This.n - 1]>>
                ELSE <<Call("more_suffixes")>>
           c == <<Call("primary_expression"), [fn |-> "more_new_expression", n |-> This.n]>>
<1>1. /\ At(f)
      /\ \/ Read /\ Go(a)
         \/ Read /\ Go(t \o m)
         \/ Peek /\ Go(c)
  BY Zenon DEF News
<1>2. /\ f \in OneFns /\ f \notin Tokenless /\ f \notin AfterOperand
      /\ Provides(f) \subseteq Operand
  BY OneNames, Provided DEF AfterOperand, OperandEnds
<1>3. This.n \in Nat
  BY <1>1, AtCall, CallFields
<1>4. /\ Expect("target") \in AnyCall /\ Build("value") \in AnyCall
      /\ Call("more_suffixes") \in AnyCall /\ Call("primary_expression") \in AnyCall
  BY CallsOfExpr, AnyCalls, Zenon
<1>5. a \in Seq(AnyCall) /\ Handing(a, Usual, Operand)
  <2>1. This.n + 1 \in Nat
    BY <1>3
  <2> QED BY <2>1, NewCalls, HandingOne, Promises, Tuples, Zenon
<1>6. t \in Seq(AnyCall) /\ Handing(t, Usual, AfterRead)
  BY <1>4, CallHands, HandingTwo, Promises, Tuples, Zenon
<1>7. m \in Seq(AnyCall) /\ Handing(m, AfterRead, Operand)
  <2>1. CASE This.n > 1
    <3>1. This.n - 1 \in Nat
      BY <1>3, <2>1
    <3>2. m = <<[fn |-> "more_new_expression", n |-> This.n - 1]>>
      BY <2>1
    <3> QED BY <3>1, <3>2, NewCalls, HandingOne, Promises, Tuples, Zenon
  <2>2. CASE ~(This.n > 1)
    <3>1. m = <<Call("more_suffixes")>>
      BY <2>2
    <3> QED BY <1>4, <3>1, CallHands, HandingOne, Promises, Tuples, Zenon
  <2> QED BY <2>1, <2>2
<1>8. c \in Seq(AnyCall) /\ Handing(c, Usual, Operand)
  <2>1. [fn |-> "more_new_expression", n |-> This.n] \in AnyCall
    BY <1>3, NewCalls
  <2>2. HandsOver([fn |-> "more_new_expression", n |-> This.n], Operand, Operand)
    BY <1>3, NewCalls
  <2> QED BY <1>4, <2>1, <2>2, CallHands, HandingTwo, Promises, Tuples, Zenon
<1>9. "no_regexp" \notin Usual /\ "token" \notin Usual
  BY DEF Usual
<1> HIDE DEF f, a, t, m, c
<1>10. t \o m \in Seq(AnyCall) /\ Handing(t \o m, Usual, Operand)
  BY <1>6, <1>7, HandingConcat, ConcatProperties
<1>11. CASE Read /\ Go(a)
  BY <1>1, <1>2, <1>5, <1>11, Promises, ReadGoes
<1>12. CASE Read /\ Go(t \o m)
  BY <1>1, <1>2, <1>10, <1>12, Promises, ReadGoes
<1>13. CASE Peek /\ Go(c)
  BY <1>1, <1>2, <1>8, <1>9, <1>13, Promises, PeekGoes
<1> QED BY <1>1, <1>11, <1>12, <1>13

-----------------------------------------------------------------------------
(***************************************************************************)
(* What follows an operand.                                                *)
(***************************************************************************)
LEMMA IdNameGoals ==
  ASSUME ParserInv, GoalInv, IdName
  PROVE  GoalInv'
<1>1. \/ At("id_name") /\ Read /\ Go(<<>>)
      \/ Unexpected
  BY Zenon DEF IdName
<1>2. Provides("id_name") \subseteq AfterRead /\ AfterRead \subseteq AfterRead
  BY Provided DEF ReadsLast
<1>3. CASE At("id_name") /\ Read /\ Go(<<>>)
  BY <1>2, <1>3, OneNames, NoCalls, ReadGoes
<1> QED BY <1>1, <1>3, RefusedGoals

LEMMA ExpectGoals ==
  ASSUME ParserInv, GoalInv, ExpectToken
  PROVE  GoalInv'
<1>1. \/ At("expect") /\ Read /\ Go(<<>>)
      \/ Unexpected
  BY Zenon DEF ExpectToken
<1>2. Provides("expect") \subseteq AfterRead /\ AfterRead \subseteq AfterRead
  BY Provided DEF ReadsLast
<1>3. CASE At("expect") /\ Read /\ Go(<<>>)
  BY <1>2, <1>3, OneNames, NoCalls, ReadGoes
<1> QED BY <1>1, <1>3, RefusedGoals

LEMMA ParenGoals ==
  ASSUME ParserInv, GoalInv, ParenExpression
  PROVE  GoalInv'
<1> DEFINE f == "paren_expression"
           c == <<WithAllowIn(TRUE, <<Expression>>), Expect(")")>>
<1>1. \/ At(f) /\ Read /\ Go(c)
      \/ Unexpected
  BY Zenon DEF ParenExpression
<1>2. Provides(f) \subseteq AfterRead /\ f \in OneFns /\ f \notin Tokenless
  BY Provided, OneNames DEF ReadsLast
<1>3. c \in Seq(AnyCall) /\ Handing(c, Usual, AfterRead)
  <2>1. WithAllowIn(TRUE, <<Expression>>) \in AnyCall /\ Expect(")") \in AnyCall
    BY SimpleCalls, SimpleInner, AnyCalls, Zenon
  <2> QED BY <2>1, CallHands, AllowInHands, HandingTwo, Promises, Tuples, Zenon
<1> HIDE DEF f, c
<1>4. CASE At(f) /\ Read /\ Go(c)
  BY <1>2, <1>3, <1>4, Promises, ReadGoes
<1> QED BY <1>1, <1>4, RefusedGoals

\* The calls that read a member, and what follows it.
LEMMA DerefCalls ==
  ASSUME NEW rest \in AnyCall, HandsOver(rest, AfterRead, Operand)
  PROVE  /\ <<Call("id_name")>> \o <<Build("target"), rest>> \in Seq(AnyCall)
         /\ Handing(<<Call("id_name")>> \o <<Build("target"), rest>>, AfterRead, Operand)
         /\ <<WithAllowIn(TRUE, <<Expression>>), Expect("]")>> \o <<Build("target"), rest>>
              \in Seq(AnyCall)
         /\ Handing(<<WithAllowIn(TRUE, <<Expression>>), Expect("]")>>
                      \o <<Build("target"), rest>>, AfterRead, Operand)
<1> DEFINE a == <<Call("id_name")>>
           b == <<WithAllowIn(TRUE, <<Expression>>), Expect("]")>>
           c == <<Build("target"), rest>>
<1>1. /\ Call("id_name") \in AnyCall /\ WithAllowIn(TRUE, <<Expression>>) \in AnyCall
      /\ Expect("]") \in AnyCall /\ Build("target") \in AnyCall
  BY SimpleCalls, SimpleInner, AnyCalls, Zenon
<1>2. a \in Seq(AnyCall) /\ Handing(a, AfterRead, AfterRead)
  BY <1>1, CallHands, HandingOne, Promises, Tuples, Zenon
<1>3. b \in Seq(AnyCall) /\ Handing(b, Usual, AfterRead)
  BY <1>1, CallHands, AllowInHands, HandingTwo, Promises, Tuples, Zenon
<1>4. c \in Seq(AnyCall) /\ Handing(c, AfterRead, Operand)
  BY <1>1, CallHands, HandingTwo, Promises, Tuples, Zenon
<1> HIDE DEF a, b, c
<1>5. Handing(b, AfterRead, AfterRead)
  <2>1. AfterRead \subseteq AfterRead
    OBVIOUS
  <2> QED BY <1>3, <2>1, Promises, HandingLess
<1>6. a \o c \in Seq(AnyCall) /\ Handing(a \o c, AfterRead, Operand)
  BY <1>2, <1>4, HandingConcat, ConcatProperties
<1>7. b \o c \in Seq(AnyCall) /\ Handing(b \o c, AfterRead, Operand)
  BY <1>3, <1>4, <1>5, HandingConcat, ConcatProperties
<1> QED BY <1>6, <1>7 DEF a, b, c

LEMMA DerefGoals ==
  ASSUME ParserInv, GoalInv, NEW f \in {"more_suffixes", "more_new_expression"}, At(f),
         Deref(This), HandsOver(This, AfterRead, Operand)
  PROVE  GoalInv'
<1> DEFINE a == <<Call("id_name")>> \o <<Build("target"), This>>
           b == <<WithAllowIn(TRUE, <<Expression>>), Expect("]")>> \o <<Build("target"), This>>
<1>1. This \in AnyCall
  BY AtCall
<1>2. /\ a \in Seq(AnyCall) /\ Handing(a, AfterRead, Operand)
      /\ b \in Seq(AnyCall) /\ Handing(b, AfterRead, Operand)
  BY <1>1, DerefCalls
<1>3. Read /\ (Go(a) \/ Go(b))
  BY Zenon DEF Deref
<1>4. Provides(f) \subseteq Operand /\ f \in OneFns /\ f \notin Tokenless
  BY Provided, OneNames DEF OperandEnds
<1>5. AfterRead \subseteq AfterRead
  OBVIOUS
<1> HIDE DEF a, b
<1> QED BY <1>2, <1>3, <1>4, <1>5, Promises, ReadGoes

LEMMA MoreNewGoals ==
  ASSUME ParserInv, GoalInv, MoreNewExpression
  PROVE  GoalInv'
<1> DEFINE f == "more_new_expression"
           c == <<[fn |-> "new_arguments", n |-> This.n]>>
<1>1. /\ At(f)
      /\ \/ Deref(This)
         \/ Peek /\ Go(c)
  BY Zenon DEF MoreNewExpression
<1>2. This.fn = f /\ This.n \in Nat /\ This \in AnyCall
  BY <1>1, AtCall, CallFields
<1>3. HandsOver(This, AfterRead, Operand)
  BY <1>2, Hands, Promises, HandsOverLess
<1>4. c \in Seq(AnyCall) /\ Handing(c, Operand, Operand)
  BY <1>2, NewCalls, HandingOne, Promises, Tuples, Zenon
<1>5. /\ Provides(f) \subseteq Operand /\ f \in OneFns /\ f \in OperatorGoal
      /\ "no_slash" \notin Operand /\ "token" \notin Operand
  BY Provided, OneNames DEF OperandEnds, OperatorGoal, Operand
<1>6. CASE Deref(This)
  BY <1>1, <1>3, <1>6, DerefGoals
<1> HIDE DEF f, c
<1>7. CASE Peek /\ Go(c)
  BY <1>1, <1>4, <1>5, <1>7, Promises, PeekGoes
<1> QED BY <1>1, <1>6, <1>7

LEMMA NewArgumentsGoals ==
  ASSUME ParserInv, GoalInv, NewArguments
  PROVE  GoalInv'
<1> DEFINE f == "new_arguments"
           a == <<Call("arguments"), Build("value"),
                  [fn |-> "new_arguments", n |-> This.n - 1]>>
           b == <<Build("value"), Call("more_suffixes")>>
           c == <<Call("more_suffixes")>>
<1>1. /\ At(f) /\ Peek
      /\ \/ This.n > 0 /\ Is("(") /\ Go(a)
         \/ Go(b)
         \/ Go(c)
  BY Zenon DEF NewArguments
<1>2. This.fn = f /\ This.n \in Nat /\ This \in AnyCall
  BY <1>1, AtCall, CallFields
<1>3. /\ Call("arguments") \in AnyCall /\ Build("value") \in AnyCall
      /\ Call("more_suffixes") \in AnyCall
  BY CallsOfExpr, AnyCalls, Zenon
<1>4. b \in Seq(AnyCall) /\ Handing(b, Operand, Operand)
  BY <1>3, CallHands, HandingTwo, Promises, Tuples, Zenon
<1>5. c \in Seq(AnyCall) /\ Handing(c, Operand, Operand)
  BY <1>3, CallHands, HandingOne, Promises, Tuples, Zenon
<1>6. This.n > 0 => a \in Seq(AnyCall) /\ Handing(a, Usual, Operand)
  <2>1. ASSUME This.n > 0
        PROVE  a \in Seq(AnyCall) /\ Handing(a, Usual, Operand)
    <3>1. This.n - 1 \in Nat
      BY <1>2, <2>1
    <3> QED BY <1>3, <3>1, NewCalls, CallHands, HandingThree, Promises, Tuples, Zenon
  <2> QED BY <2>1
<1>7. /\ Provides(f) \subseteq Operand /\ f \in OneFns /\ f \in OperatorGoal
      /\ "no_slash" \notin Operand /\ "token" \notin Operand
      /\ "no_regexp" \notin Usual /\ "token" \notin Usual
  BY Provided, OneNames DEF OperandEnds, OperatorGoal, Operand, Usual
<1>8. Is("(") => ~Is("/")
  BY DEF Is
<1> HIDE DEF f, a, b, c
<1>9. CASE This.n > 0 /\ Is("(") /\ Go(a)
  BY <1>1, <1>6, <1>7, <1>8, <1>9, Promises, PeekGoes
<1>10. CASE Go(b)
  BY <1>1, <1>4, <1>7, <1>10, Promises, PeekGoes
<1>11. CASE Go(c)
  BY <1>1, <1>5, <1>7, <1>11, Promises, PeekGoes
<1> QED BY <1>1, <1>9, <1>10, <1>11

LEMMA MoreSuffixesGoals ==
  ASSUME ParserInv, GoalInv, MoreSuffixes
  PROVE  GoalInv'
<1> DEFINE f == "more_suffixes"
           a == <<Call("arguments"), Build("value"), This>>
<1>1. /\ At(f)
      /\ \/ Deref(This)
         \/ Is("(") /\ Peek /\ Go(a)
         \/ Peek /\ Go(<<>>)
  BY Zenon DEF MoreSuffixes
<1>2. This.fn = f /\ This \in AnyCall
  BY <1>1, AtCall
<1>3. HandsOver(This, AfterRead, Operand)
  BY <1>2, Hands, Promises, HandsOverLess
<1>4. Call("arguments") \in AnyCall /\ Build("value") \in AnyCall
  BY CallsOfExpr, AnyCalls, Zenon
<1>5. a \in Seq(AnyCall) /\ Handing(a, Usual, Operand)
  BY <1>2, <1>3, <1>4, CallHands, HandingThree, Promises, Tuples, Zenon
<1>6. /\ Provides(f) \subseteq Operand /\ f \in OneFns /\ f \in OperatorGoal
      /\ "no_slash" \notin Operand /\ "token" \notin Operand
      /\ "no_regexp" \notin Usual /\ "token" \notin Usual
  BY Provided, OneNames DEF OperandEnds, OperatorGoal, Operand, Usual
<1>7. Is("(") => ~Is("/")
  BY DEF Is
<1>8. CASE Deref(This)
  BY <1>1, <1>3, <1>8, DerefGoals
<1> HIDE DEF f, a
<1>9. CASE Is("(") /\ Peek /\ Go(a)
  BY <1>1, <1>5, <1>6, <1>7, <1>9, Promises, PeekGoes
<1>10. CASE Peek /\ Go(<<>>)
  BY <1>1, <1>6, <1>10, NoCalls, Promises, PeekGoes
<1> QED BY <1>1, <1>8, <1>9, <1>10

-----------------------------------------------------------------------------
(***************************************************************************)
(* The calls that open a scope around brackets, and those that hold the    *)
(* token that they have read.                                              *)
(***************************************************************************)
LEMMA InsideHands ==
  ASSUME NEW s \in Scope, NEW cs \in Seq(AnyCall), NEW g, NEW h \in SUBSET Promise,
         Handing(cs, g, h)
  PROVE  cs \o <<LeaveScope(s)>> \in Seq(AnyCall) /\ Handing(cs \o <<LeaveScope(s)>>, g, h)
<1>1. LeaveScope(s) \in AnyCall
  BY AnyCalls
<1> DEFINE t == <<LeaveScope(s)>>
<1>2. t \in Seq(AnyCall) /\ Handing(t, h, h)
  BY <1>1, CallHands, HandingOne, Tuples, Zenon
<1> HIDE DEF t
<1>3. cs \o t \in Seq(AnyCall) /\ Handing(cs \o t, g, h)
  BY <1>2, HandingConcat, ConcatProperties
<1> QED BY <1>3 DEF t

LEMMA ArgumentsGoals ==
  ASSUME ParserInv, GoalInv, Arguments
  PROVE  GoalInv'
<1> DEFINE f == "arguments"
           s == AllowIn(context, TRUE)
           c == <<Expect("("), Call("argument_list"), Expect(")")>>
<1>1. At(f) /\ Peek /\ GoInside(s, c)
  BY Zenon DEF Arguments
<1>2. s \in Scope
  BY <1>1, AtCall, ScopesTyped
<1>3. c \in Seq(AnyCall) /\ Handing(c, Usual, AfterRead)
  <2>1. c \in Seq(AnyCall)
    BY SimpleCalls, AnyCalls, Tuples, Zenon
  <2>2. /\ Expect("(") \in AnyCall /\ Call("argument_list") \in AnyCall
        /\ Expect(")") \in AnyCall
    BY SimpleCalls, AnyCalls, Zenon
  <2>3. HandsOver(Call("argument_list"), AfterRead, Usual)
    <3>1. "argument_list" \in SimpleFns
      BY SimpleNames DEF ExprFns, OperandEnds, OperatorGoal
    <3> QED BY <3>1, CallNames, OneCallHandsOver
  <2> QED BY <2>1, <2>2, <2>3, CallHands, HandingThree, Promises, Zenon
<1>4. Provides(f) \subseteq AfterRead /\ f \in OneFns /\ f \notin AfterOperand
  BY Provided, OneNames DEF ReadsLast, AfterOperand
<1>5. "no_regexp" \notin Usual /\ "token" \notin Usual
  BY DEF Usual
<1> DEFINE d == c \o <<LeaveScope(s)>>
<1>6. todo' = d \o Tail(todo)
  BY <1>1 DEF GoInside
<1> HIDE DEF f, s, c
<1>7. d \in Seq(AnyCall) /\ Handing(d, Usual, AfterRead)
  BY <1>2, <1>3, InsideHands, Promises, Zenon DEF d
<1>8. Usual \subseteq Usual
  OBVIOUS
<1> HIDE DEF d
<1>9. Handing(d, Usual, Provides(f))
  BY <1>4, <1>7, <1>8, HandingLess
<1> QED BY <1>1, <1>4, <1>5, <1>6, <1>7, <1>9, Promises, PeekGo

LEMMA FunctionBodyGoals ==
  ASSUME ParserInv, GoalInv, FunctionBodyCall
  PROVE  GoalInv'
<1> DEFINE f == "function_body"
           s == FunctionBody(context)
           c == <<Expect("{"), Call("body_directives"), Call("statement_list"), Expect("}")>>
<1>1. At(f) /\ Peek /\ GoInside(s, c)
  BY Zenon DEF FunctionBodyCall, Peek
<1>2. s \in Scope
  BY <1>1, AtCall, ScopesTyped
<1>3. c \in Seq(AnyCall) /\ Handing(c, Usual, AfterRead)
  <2>1. /\ Expect("{") \in AnyCall /\ Call("body_directives") \in AnyCall
        /\ Call("statement_list") \in AnyCall /\ Expect("}") \in AnyCall
    BY SimpleCalls, SimpleStatements, AnyCalls, Zenon
  <2>2. c \in Seq(AnyCall)
    BY <2>1, Tuples, Zenon
  <2> QED BY <2>1, <2>2, CallHands, HandingFour, Promises, Zenon
<1>4. Provides(f) \subseteq AfterRead /\ f \in OneFns /\ f \notin AfterOperand
  BY Provided, OneNames DEF ReadsLast, AfterOperand
<1>5. "no_regexp" \notin Usual /\ "token" \notin Usual
  BY DEF Usual
<1> DEFINE d == c \o <<LeaveScope(s)>>
<1>6. todo' = d \o Tail(todo)
  BY <1>1 DEF GoInside
<1> HIDE DEF f, s, c
<1>7. d \in Seq(AnyCall) /\ Handing(d, Usual, AfterRead)
  BY <1>2, <1>3, InsideHands, Promises, Zenon DEF d
<1>8. Usual \subseteq Usual
  OBVIOUS
<1> HIDE DEF d
<1>9. Handing(d, Usual, Provides(f))
  BY <1>4, <1>7, <1>8, HandingLess
<1> QED BY <1>1, <1>4, <1>5, <1>6, <1>7, <1>9, Promises, PeekGo

LEMMA HolderHands ==
  ASSUME NEW c, c.fn \in Holders, HoldsRight(c)
  PROVE  /\ HandsOver(c, AfterRead, Slashless)
         /\ c.fn # "directive_rest" => HandsOver(c, AfterRead, Usual)
         /\ c.fn \in {"identifier_statement", "more_labels"} => HandsOver(c, Operand, Usual)
<1>1. c.fn \notin Transparent
  BY DEF Holders, Transparent
<1>2. Relies(c) \subseteq AfterRead
  BY DEF Holders, Relies, Promise, AfterRead
<1>3. Slashless \subseteq Provides(c.fn)
  BY DEF Holders, Provides, Slashless, Promise, OperandEnds
<1>4. c.fn # "directive_rest" => Usual \subseteq Provides(c.fn)
  BY DEF Holders, Provides, Usual, Promise, OperandEnds
<1>5. c.fn \in {"identifier_statement", "more_labels"} => Relies(c) \subseteq Operand
  BY DEF Relies, Promise, Operand, AfterOperand
<1> QED BY <1>1, <1>2, <1>3, <1>4, <1>5 DEF HandsOver

\* A call that reads a token and holds it.
LEMMA HoldGoals ==
  ASSUME ParserInv, GoalInv, NEW f \in OneFns, f \notin Tokenless, At(f), Read,
         NEW c \in HeldCall, HoldsRight(c), Go(<<c>>),
         \/ Provides(f) \subseteq Slashless
         \/ Provides(f) \subseteq Usual /\ c.fn # "directive_rest"
  PROVE  GoalInv'
<1>1. c \in AnyCall /\ c.fn \in Holders
  BY FnsOfCalls DEF AnyCall
<1>2. PICK h \in {Slashless, Usual} : HandsOver(c, AfterRead, h) /\ Provides(f) \subseteq h
  BY <1>1, HolderHands
<1>3. <<c>> \in Seq(AnyCall) /\ Handing(<<c>>, AfterRead, h)
  <2>1. h \in SUBSET Promise
    BY <1>2, Promises
  <2> QED BY <1>1, <1>2, <2>1, HandingOne, Promises, Tuples, Zenon
<1>4. AfterRead \subseteq AfterRead
  OBVIOUS
<1> QED BY <1>2, <1>3, <1>4, ReadGoes

LEMMA ObjectPropertyGoals ==
  ASSUME ParserInv, GoalInv, ObjectProperty
  PROVE  GoalInv'
<1> DEFINE f == "object_property"
           a == [fn |-> "accessor", kind |-> Tok.value]
           k == [fn |-> "reserved_key", token |-> Tok]
<1>1. /\ At(f)
      /\ \/ IsOneOf({"get", "set"}) /\ Read /\ Go(<<a>>)
         \/ Read /\ Go(<<PropertyKey(TRUE)>>)
         \/ IsOneOf(Reserved) /\ Read /\ Go(<<k>>)
         \/ Peek /\ Go(<<PropertyKey(FALSE)>>)
  BY Zenon DEF ObjectProperty
<1>2. f \in PlainFns /\ f \notin Tokenless /\ f \in OneFns
  BY PlainNames, OneNames
<1>3. Provides(f) \subseteq Usual
  BY Provided DEF OperandEnds, OperatorsEnd, ReadsLast
<1>4. <<PropertyKey(TRUE)>> \in Seq(SimpleCall) /\ <<PropertyKey(FALSE)>> \in Seq(SimpleCall)
  BY SimpleExprs, Tuples, Zenon DEF PropertyKey
<1>5. IsOneOf({"get", "set"}) => <<a>> \in Seq(SimpleCall)
  <2>1. IsOneOf({"get", "set"}) => Tok.value \in {"get", "set"}
    BY Zenon DEF IsOneOf
  <2>2. IsOneOf({"get", "set"}) => a \in SimpleCall
    BY <2>1, SimpleExprs, Zenon
  <2> QED BY <2>2, Tuples, Zenon
<1>6. k \in HeldCall /\ k.fn # "directive_rest"
  <2>1. Tok \in LexedToken
    BY <1>1, <1>2, AtCall, HeldToken
  <2> QED BY <2>1 DEF HeldCall
<1>7. IsOneOf(Reserved) => HoldsRight(k)
  BY DEF HoldsRight, IsOneOf
<1> HIDE DEF f, a, k
<1>8. CASE IsOneOf({"get", "set"}) /\ Read /\ Go(<<a>>)
  BY <1>1, <1>2, <1>5, <1>8, SimpleGo
<1>9. CASE Read /\ Go(<<PropertyKey(TRUE)>>)
  BY <1>1, <1>2, <1>4, <1>9, SimpleGo
<1>10. CASE IsOneOf(Reserved) /\ Read /\ Go(<<k>>)
  BY <1>1, <1>2, <1>3, <1>6, <1>7, <1>10, HoldGoals
<1>11. CASE Peek /\ Go(<<PropertyKey(FALSE)>>)
  BY <1>1, <1>2, <1>4, <1>11, SimpleGo
<1> QED BY <1>1, <1>8, <1>9, <1>10, <1>11

LEMMA ForHeadGoals ==
  ASSUME ParserInv, GoalInv, ForHead
  PROVE  GoalInv'
<1> DEFINE f == "for_head"
           k == [fn |-> "for_lexical", token |-> Tok]
           a == <<Call("pattern"), Call("for_var")>>
           b == <<Call("more_for")>>
<1>1. /\ At(f)
      /\ \/ Read /\ Go(a)
         \/ IsOneOf({"let", "const"}) /\ Read /\ Go(<<k>>)
         \/ Read /\ Go(b)
         \/ Peek /\ Go(ForExpr)
  BY Zenon DEF ForHead
<1>2. f \in PlainFns /\ f \notin Tokenless /\ f \in OneFns
  BY PlainNames, OneNames
<1>3. Provides(f) \subseteq Usual
  BY Provided DEF OperandEnds, OperatorsEnd, ReadsLast
<1>4. a \in Seq(SimpleCall) /\ b \in Seq(SimpleCall)
  BY SimpleCalls, SimpleStatements, Tuples, Zenon
<1>5. k \in HeldCall /\ k.fn # "directive_rest"
  <2>1. Tok \in LexedToken
    BY <1>1, <1>2, AtCall, HeldToken
  <2> QED BY <2>1 DEF HeldCall
<1>6. IsOneOf({"let", "const"}) => HoldsRight(k)
  BY DEF HoldsRight, IsOneOf
<1> HIDE DEF f, a, b, k
<1>7. CASE IsOneOf({"let", "const"}) /\ Read /\ Go(<<k>>)
  BY <1>1, <1>2, <1>3, <1>5, <1>6, <1>7, HoldGoals
<1>8. CASE Read /\ Go(a)
  BY <1>1, <1>2, <1>4, <1>8, SimpleGo
<1>9. CASE Read /\ Go(b)
  BY <1>1, <1>2, <1>4, <1>9, SimpleGo
<1>10. CASE Peek /\ Go(ForExpr)
  BY <1>1, <1>2, <1>10, ForSeqs, SimpleGo
<1> QED BY <1>1, <1>7, <1>8, <1>9, <1>10

LEMMA LabelledGoals ==
  ASSUME ParserInv, GoalInv, Labelled
  PROVE  GoalInv'
<1> DEFINE f == "labels"
           k == [fn |-> "more_labels", labels |-> This.labels, token |-> Tok]
<1>1. At(f) /\ IsIdentifier /\ Read /\ Go(<<k>>)
  BY Zenon DEF Labelled
<1>2. f \in OneFns /\ f \notin Tokenless
  BY OneNames
<1>3. Provides(f) \subseteq Usual
  BY Provided DEF OperandEnds, OperatorsEnd, ReadsLast
<1>4. k \in HeldCall /\ k.fn # "directive_rest"
  <2>1. Tok \in LexedToken /\ Tok.value \in Label
    BY <1>1, <1>2, AtCall, HeldToken DEF IsIdentifier
  <2>2. This.labels \subseteq Label
    BY <1>1, AtCall, StatementFields
  <2> QED BY <2>1, <2>2 DEF HeldCall, NameToken
<1>5. HoldsRight(k)
  BY DEF HoldsRight
<1> HIDE DEF f, k
<1> QED BY <1>1, <1>2, <1>3, <1>4, <1>5, HoldGoals

LEMMA BodyDirectivesGoals ==
  ASSUME ParserInv, GoalInv, BodyDirectives
  PROVE  GoalInv'
<1> DEFINE f == "body_directives"
           k == [fn |-> "directive_rest", token |-> Tok]
<1>1. /\ At(f)
      /\ \/ Is("string") /\ Read /\ Go(<<k>>)
         \/ Peek /\ Go(<<>>)
  BY Zenon DEF BodyDirectives
<1>2. /\ f \in OneFns /\ f \notin Tokenless /\ Provides(f) \subseteq Slashless
      /\ f \notin AfterOperand
  BY OneNames, Provided DEF AfterOperand
<1>3. k \in HeldCall
  <2>1. Tok \in LexedToken
    BY <1>1, <1>2, AtCall, HeldToken
  <2> QED BY <2>1 DEF HeldCall
<1>4. Is("string") => HoldsRight(k)
  BY DEF HoldsRight, Is
<1>5. "no_regexp" \notin Slashless /\ "token" \notin Slashless
  BY DEF Slashless
<1> HIDE DEF f, k
<1>6. CASE Is("string") /\ Read /\ Go(<<k>>)
  BY <1>1, <1>2, <1>3, <1>4, <1>6, HoldGoals
<1>7. CASE Peek /\ Go(<<>>)
  BY <1>1, <1>2, <1>5, <1>7, NoCalls, Promises, PeekGoes
<1> QED BY <1>1, <1>6, <1>7

-----------------------------------------------------------------------------
(***************************************************************************)
(* A token given back.                                                     *)
(***************************************************************************)
\* The calls that may find one token more.
LEMMA TwoHands ==
  ASSUME NEW c \in SimpleCall, TakesTwo(c)
  PROVE  HandsOver(c, Slashless, Usual)
<1>1. HoldsRight(c) /\ c.fn \notin Transparent
  BY DEF SimpleCall, SimpleFns, HoldsRight, Holders, TakesTwo, TwoTokenFns, Transparent
<1>2. Relies(c) \subseteq Slashless
  BY DEF SimpleCall, SimpleFns, Relies, Promise, Holders, OperatorGoal, Slashless
<1>3. Usual \subseteq Provides(c.fn)
  BY DEF SimpleCall, SimpleFns, Provides, Usual, Promise, Holders, OperatorGoal
<1> QED BY <1>1, <1>2, <1>3 DEF HandsOver

LEMMA TwoSeqs ==
  /\ Handing(ExpressionStatement, Slashless, Usual)
  /\ Handing(ForExpr, Slashless, Usual)
  /\ \A ls \in SUBSET Label :
       /\ <<[fn |-> "labelled_body", labels |-> ls]>> \in Seq(AnyCall)
       /\ Handing(<<[fn |-> "labelled_body", labels |-> ls]>>, Slashless, Usual)
<1>1. <<Expression>>[1].fn = "expression" /\ <<Expression>> # <<>>
  BY DEF Expression, Call
<1>2. TakesTwo(InExpression) /\ TakesTwo(NoIn(<<Expression>>))
  <2>1. \A v : TakesTwo(WithAllowIn(v, <<Expression>>))
    BY <1>1 DEF TakesTwo, WithAllowIn
  <2> QED BY <2>1 DEF InExpression, NoIn
<1>3. /\ InExpression \in SimpleCall /\ NoIn(<<Expression>>) \in SimpleCall
      /\ AutoSemi("Required") \in SimpleCall /\ Call("for_expr") \in SimpleCall
  BY SimpleInner, SimpleCalls, SimpleStatements, Zenon
<1>4. HandsOver(AutoSemi("Required"), Usual, Usual) /\ HandsOver(Call("for_expr"), Usual, Usual)
  BY <1>3, Hands DEF SimpleCall
<1>5. HandsOver(InExpression, Slashless, Usual) /\ HandsOver(NoIn(<<Expression>>), Slashless, Usual)
  BY <1>2, <1>3, TwoHands
<1>6. Handing(ExpressionStatement, Slashless, Usual)
  BY <1>3, <1>4, <1>5, AnyCalls, HandingTwo, Promises, Zenon DEF ExpressionStatement
<1>7. Handing(ForExpr, Slashless, Usual)
  BY <1>3, <1>4, <1>5, AnyCalls, HandingTwo, Promises, Zenon DEF ForExpr
<1>8. ASSUME NEW ls \in SUBSET Label
      PROVE  /\ <<[fn |-> "labelled_body", labels |-> ls]>> \in Seq(AnyCall)
             /\ Handing(<<[fn |-> "labelled_body", labels |-> ls]>>, Slashless, Usual)
  <2> DEFINE c == [fn |-> "labelled_body", labels |-> ls]
  <2>1. c \in SimpleCall /\ TakesTwo(c)
    BY SimpleStatements DEF TakesTwo, TwoTokenFns
  <2> HIDE DEF c
  <2>2. c \in AnyCall /\ HandsOver(c, Slashless, Usual)
    BY <2>1, AnyCalls, TwoHands
  <2>3. <<c>> \in Seq(AnyCall) /\ Handing(<<c>>, Slashless, Usual)
    BY <2>2, HandingOne, Promises, Tuples, Zenon
  <2> QED BY <2>3 DEF c
<1> QED BY <1>6, <1>7, <1>8

LEMMA NextCall ==
  ASSUME todo \in Seq(AnyCall), todo # <<>>, NEW cs \in Seq(AnyCall), cs # <<>>,
         todo' = cs \o Tail(todo)
  PROVE  Head(todo') = cs[1]
OBVIOUS

LEMMA SecondOf ==
  ASSUME NEW S, NEW r \in Seq(S), NEW s \in Seq(S), Len(s) # 0
  PROVE  (r \o s)[Len(r) + 1] = s[1]
<1>1. Len(r) \in Nat /\ Len(s) \in Nat
  OBVIOUS
<1>2. /\ Len(r) + 1 \in 1 .. Len(r) + Len(s) /\ ~(Len(r) + 1 <= Len(r))
      /\ (Len(r) + 1) - Len(r) = 1
  BY <1>1
<1> QED BY <1>2, ConcatProperties

LEMMA PairOf ==
  ASSUME NEW S, NEW r \in Seq(S), Len(r) = 1, NEW s \in Seq(S), Len(s) = 1
  PROVE  Len(r \o s) = 2 /\ (r \o s)[1] = r[1] /\ (r \o s)[2] = s[1] /\ r \o s # <<>>
<1>1. Len(r \o s) = Len(r) + Len(s)
  OBVIOUS
<1>2. (r \o s)[1] = r[1]
  OBVIOUS
<1>3. (r \o s)[2] = s[1]
  <2>1. Len(s) # 0 /\ Len(r) + 1 = 2
    OBVIOUS
  <2>2. (r \o s)[Len(r) + 1] = s[1]
    BY <2>1, SecondOf
  <2> QED BY <2>1, <2>2
<1>4. r \o s # <<>>
  BY <1>1, ConcatProperties
<1> QED BY <1>1, <1>2, <1>3, <1>4

\* The token held is put in front of the one in the buffer.
LEMMA BufferUnread ==
  ASSUME ParserInv, GoalInv, NEW f \in OneFns, f \notin Tokenless, At(f), Unread(This.token)
  PROVE  /\ Running /\ todo # <<>> /\ This.fn = f /\ la # <<>> /\ This.fn \notin Transparent
         /\ Len(la') = 2 /\ la'[1] = This.token /\ la'[2] = Tok /\ la' # <<>>
<1>1. Running /\ todo # <<>> /\ This.fn = f /\ la # <<>>
  BY AtCall
<1>2. This.fn \notin Transparent /\ TakesOne(This)
  BY <1>1, OneFn
<1>3. Len(la) <= 1 /\ la \in Seq(Token)
  BY <1>1, <1>2, Relied DEF TakesOne, ParserInv, Types, TypeOK
<1> DEFINE r == <<This.token>>
           S == Token \cup {This.token}
<1>4. r \in Seq(S) /\ Len(r) = 1 /\ r[1] = This.token
  OBVIOUS
<1>5. la' = r \o la
  BY DEF Unread
<1>6. Len(la) = 1
  <2>1. ASSUME NEW s \in Seq(Token), s # <<>>, Len(s) <= 1
        PROVE  Len(s) = 1
    <3>1. Len(s) \in Nat /\ Len(s) # 0
      BY <2>1
    <3> QED BY <2>1, <3>1
  <2> QED BY <1>1, <1>3, <2>1
<1>7. la \in Seq(S)
  BY <1>3
<1> HIDE DEF r, S
<1>8. Len(la') = 2 /\ la'[1] = This.token /\ la'[2] = la[1] /\ la' # <<>>
  BY <1>4, <1>5, <1>6, <1>7, PairOf
<1> QED BY <1>1, <1>2, <1>8 DEF Tok

LEMMA Unreads ==
  ASSUME ParserInv, GoalInv, NEW f \in OneFns, f \notin Tokenless, At(f), Unread(This.token),
         NEW cs \in Seq(AnyCall), Go(cs), Handing(cs, Slashless, Provides(f)),
         This.token.value \in Label \cup {"let", "string", "const"}, ~RegExpToken(Tok),
         This.token.value = "const" => Tok.value # "/",
         todo' # <<>> => Head(todo').fn # "property_key"
  PROVE  GoalInv'
<1>1. /\ Running /\ todo # <<>> /\ This.fn = f /\ la # <<>> /\ This.fn \notin Transparent
      /\ Len(la') = 2 /\ la'[1] = This.token /\ la'[2] = Tok /\ la' # <<>>
  BY BufferUnread
<1>2. This.token.value # "/"
  BY LabelAssumption DEF Punctuation
<1>3. Holds(Slashless)'
  BY <1>1, <1>2 DEF Holds, Slashless, Tok
<1>4. ~AtKey'
  BY DEF AtKey
<1>5. ~RegExpToken(la[1]) /\ la'[2] = la[1]
  BY <1>1 DEF Tok
<1>6. GivenBack'
  BY <1>1, <1>4, <1>5 DEF GivenBack, Tok, RegExpToken
<1> QED BY <1>1, <1>3, <1>6, Promises, CallsReplaced DEF Go

LEMMA DirectiveRestGoals ==
  ASSUME ParserInv, GoalInv, DirectiveRest
  PROVE  GoalInv'
<1> DEFINE f == "directive_rest"
           c == <<AutoSemi("Required"), Call("body_directives")>>
<1>1. /\ At(f)
      /\ \/ ExpressionContinuation /\ Unread(This.token) /\ Go(<<>>)
         \/ Peek /\ Go(c)
  BY Zenon DEF DirectiveRest
<1>2. f \in OneFns /\ f \notin Tokenless /\ Provides(f) \subseteq Slashless /\ f \notin AfterOperand
  BY OneNames, Provided DEF AfterOperand
<1>3. c \in Seq(AnyCall) /\ Handing(c, Usual, Slashless)
  <2>1. /\ AutoSemi("Required") \in AnyCall /\ Call("body_directives") \in AnyCall
        /\ HandsOver(AutoSemi("Required"), Usual, Usual)
    BY SimpleCalls, AnyCalls, Hands DEF SimpleCall
  <2> QED BY <2>1, CallHands, HandingTwo, Promises, Tuples, Zenon
<1>4. "no_regexp" \notin Usual /\ "token" \notin Usual
  BY DEF Usual
<1>5. This.fn = f /\ Running /\ Alive /\ todo # <<>> /\ la # <<>> /\ This.fn \notin Transparent
  BY <1>1, <1>2, AtCall, OneFn
<1>6. CASE ExpressionContinuation /\ Unread(This.token) /\ Go(<<>>)
  <2>1. This.token.value = "string"
    BY <1>5, Relied DEF HoldsRight
  <2>2. Tok.value # "regexp"
    BY <1>6 DEF ExpressionContinuation, Is, IsOneOf, Literals
  <2>3. todo' = Tail(todo) /\ Tail(todo) \in Seq(AnyCall)
    BY <1>5, <1>6 DEF Go, ParserInv, Types
  <2>4. ASSUME Tail(todo) # <<>>, Head(Tail(todo)).fn = "property_key"
        PROVE  FALSE
    <3>1. PICK q \in SUBSET Promise :
            q \subseteq Provides(f) /\ Handing(Tail(todo), q, {})
      BY <1>5, CallFinds DEF HandsOver
    <3>2. \E r : HandsOver(Head(Tail(todo)), q, r)
      BY <2>3, <2>4, <3>1, HandingFirst
    <3>3. "one" \in q
      BY <2>4, <3>2
         DEF HandsOver, Relies, Promise, TakesTwo, TwoTokenFns, Transparent
    <3> QED BY <1>2, <3>1, <3>3 DEF Slashless
  <2>5. Slashless \subseteq Slashless
    OBVIOUS
  <2>6. Handing(<<>>, Slashless, Provides(f)) /\ <<>> \in Seq(AnyCall)
    BY <1>2, <2>5, NoCalls, HandingLess
  <2> HIDE DEF f, c
  <2> QED BY <1>1, <1>2, <1>6, <2>1, <2>2, <2>3, <2>4, <2>6, Unreads DEF RegExpToken
<1> HIDE DEF f, c
<1>7. CASE Peek /\ Go(c)
  BY <1>1, <1>2, <1>3, <1>4, <1>7, Promises, PeekGoes
<1> QED BY <1>1, <1>6, <1>7

LEMMA NamesNotConst == \A v \in Label : v # "const"
BY LabelAssumption DEF Reserved

LEMMA MoreLabelsGoals ==
  ASSUME ParserInv, GoalInv, MoreLabels
  PROVE  GoalInv'
<1> DEFINE f == "more_labels"
           a == <<[fn |-> "labels", labels |-> This.labels \cup {This.token.value}]>>
           b == <<[fn |-> "labelled_body", labels |-> This.labels]>>
<1>1. /\ At(f)
      /\ \/ Read /\ Go(a)
         \/ Unread(This.token) /\ Go(b)
  BY Zenon DEF MoreLabels
<1>2. f \in OneFns /\ f \notin Tokenless /\ f \in OperatorGoal
  BY OneNames DEF OperatorGoal
<1>3. Provides(f) \subseteq Usual
  BY Provided DEF OperandEnds, OperatorsEnd, ReadsLast
<1>4. /\ This.labels \in SUBSET Label /\ This.token.value \in Label /\ This.fn = f
      /\ Running /\ todo # <<>> /\ la # <<>> /\ todo \in Seq(AnyCall)
      /\ This.fn \notin Transparent
  BY <1>1, <1>2, AtCall, StatementFields, OneFn DEF ParserInv, Types
<1>5. a \in Seq(AnyCall) /\ Handing(a, Usual, Usual)
  <2>1. [fn |-> "labels", labels |-> This.labels \cup {This.token.value}] \in SimpleCall
    BY <1>4, SimpleStatements
  <2>2. a \in Seq(SimpleCall)
    BY <2>1, Tuples, Zenon
  <2> QED BY <2>2, SimpleHanding, AnyCalls
<1>6. b \in Seq(AnyCall) /\ Handing(b, Slashless, Usual)
  BY <1>4, TwoSeqs, Zenon
<1>7. b # <<>> /\ b[1].fn # "property_key"
  OBVIOUS
<1>8. ~RegExpToken(Tok)
  BY <1>2, <1>4, Relied
<1> HIDE DEF f, a, b
<1>9. CASE Read /\ Go(a)
  BY <1>1, <1>2, <1>3, <1>5, <1>9, Promises, ReadGoes
<1>10. CASE Unread(This.token) /\ Go(b)
  <2>1. Head(todo').fn # "property_key"
    BY <1>4, <1>6, <1>7, <1>10, NextCall DEF Go
  <2>2. Slashless \subseteq Slashless
    OBVIOUS
  <2>3. Handing(b, Slashless, Provides(f))
    BY <1>3, <1>6, <2>2, HandingLess
  <2> QED BY <1>1, <1>2, <1>4, <1>6, <1>8, <1>10, <2>1, <2>3, NamesNotConst, Unreads
<1> QED BY <1>1, <1>9, <1>10

LEMMA IdentifierStatementGoals ==
  ASSUME ParserInv, GoalInv, IdentifierStatement
  PROVE  GoalInv'
<1> DEFINE f == "identifier_statement"
           a == <<[fn |-> "labels", labels |-> {This.token.value}]>>
           b == CommaSeparated("declarator") \o <<AutoSemi("Required")>>
<1>1. /\ At(f)
      /\ \/ Read /\ Go(a)
         \/ FirstBinding /\ Peek /\ Go(b)
         \/ Unexpected
         \/ Unread(This.token) /\ Go(ExpressionStatement)
  BY Zenon DEF IdentifierStatement
<1>2. f \in OneFns /\ f \notin Tokenless /\ f \in OperatorGoal
  BY OneNames DEF OperatorGoal
<1>3. Provides(f) \subseteq Usual
  BY Provided DEF OperandEnds, OperatorsEnd, ReadsLast
<1>4. /\ This.token.value \in Label /\ This.fn = f
      /\ Running /\ todo # <<>> /\ la # <<>> /\ todo \in Seq(AnyCall)
      /\ This.fn \notin Transparent
  BY <1>1, <1>2, AtCall, StatementFields, OneFn DEF ParserInv, Types
<1>5. a \in Seq(AnyCall) /\ Handing(a, Usual, Usual)
  <2>1. [fn |-> "labels", labels |-> {This.token.value}] \in SimpleCall
    BY <1>4, SimpleStatements
  <2>2. a \in Seq(SimpleCall)
    BY <2>1, Tuples, Zenon
  <2> QED BY <2>2, SimpleHanding, AnyCalls
<1>6. b \in Seq(AnyCall) /\ Handing(b, Usual, Usual)
  <2>1. CommaSeparated("declarator") \in Seq(SimpleCall)
    BY SimpleSeqs DEF ListItems
  <2>2. <<AutoSemi("Required")>> \in Seq(SimpleCall)
    BY SimpleCalls, Tuples, Zenon
  <2>3. b \in Seq(SimpleCall)
    BY <2>1, <2>2, ConcatProperties, Zenon
  <2> HIDE DEF b
  <2> QED BY <2>3, SimpleHanding, AnyCalls
<1>7. /\ ExpressionStatement \in Seq(AnyCall) /\ ExpressionStatement # <<>>
      /\ ExpressionStatement[1].fn # "property_key"
  <2>1. ExpressionStatement \in Seq(AnyCall)
    BY SimpleSeqs, AnyCalls
  <2> QED BY <2>1 DEF ExpressionStatement, InExpression, WithAllowIn
<1>8. ~RegExpToken(Tok)
  BY <1>2, <1>4, Relied
<1>9. FirstBinding => ~Is("/")
  BY LabelAssumption DEF FirstBinding, IsIdentifier, IsOneOf, Is, Punctuation
<1>10. "no_regexp" \notin Usual /\ "token" \notin Usual
  BY DEF Usual
<1> HIDE DEF f, a, b
<1>11. CASE Read /\ Go(a)
  BY <1>1, <1>2, <1>3, <1>5, <1>11, Promises, ReadGoes
<1>12. CASE FirstBinding /\ Peek /\ Go(b)
  BY <1>1, <1>2, <1>3, <1>6, <1>9, <1>10, <1>12, Promises, PeekGoes
<1>13. CASE Unread(This.token) /\ Go(ExpressionStatement)
  <2>1. Head(todo').fn # "property_key"
    BY <1>4, <1>7, <1>13, NextCall DEF Go
  <2>2. Slashless \subseteq Slashless
    OBVIOUS
  <2>3. Handing(ExpressionStatement, Slashless, Provides(f))
    BY <1>3, <2>2, TwoSeqs, HandingLess
  <2> QED BY <1>1, <1>2, <1>4, <1>7, <1>8, <1>13, <2>1, <2>3, NamesNotConst, Unreads
<1> QED BY <1>1, <1>11, <1>12, <1>13, RefusedGoals

LEMMA ForLexicalGoals ==
  ASSUME ParserInv, GoalInv, ForLexical
  PROVE  GoalInv'
<1> DEFINE f == "for_lexical"
           a == <<Call("pattern"), Call("for_let")>>
           b == <<Call("pattern"), Call("for_const")>>
<1>1. /\ At(f)
      /\ \/ Peek /\ Go(a)
         \/ Peek /\ Go(b)
         \/ Unread(This.token) /\ Go(ForExpr)
  BY Zenon DEF ForLexical
<1>2. f \in OneFns /\ f \notin Tokenless /\ f \notin AfterOperand
  BY OneNames DEF AfterOperand
<1>3. Provides(f) \subseteq Usual
  BY Provided DEF OperandEnds, OperatorsEnd, ReadsLast
<1>4. /\ This.fn = f /\ Running /\ todo # <<>> /\ la # <<>> /\ todo \in Seq(AnyCall)
      /\ This.fn \notin Transparent
  BY <1>1, <1>2, AtCall, OneFn DEF ParserInv, Types
<1>5. a \in Seq(SimpleCall) /\ b \in Seq(SimpleCall)
  BY SimpleCalls, SimpleStatements, Tuples, Zenon
<1>6. /\ ForExpr \in Seq(AnyCall) /\ ForExpr # <<>> /\ ForExpr[1].fn # "property_key"
  <2>1. ForExpr \in Seq(AnyCall)
    BY ForSeqs, AnyCalls
  <2> QED BY <2>1 DEF ForExpr, NoIn, WithAllowIn
<1>7. ~RegExpToken(Tok) /\ Tok.value # "/" /\ This.token.value \in {"let", "const"}
  BY <1>2, <1>4, Relied DEF HoldsRight
<1>8. "no_regexp" \notin Usual /\ "token" \notin Usual
  BY DEF Usual
<1> HIDE DEF f, a, b
<1>9. ASSUME NEW c \in Seq(SimpleCall), Peek, Go(c)
      PROVE  GoalInv'
  <2>1. Handing(c, Usual, Usual) /\ c \in Seq(AnyCall)
    BY SimpleHanding, AnyCalls
  <2> QED BY <1>1, <1>2, <1>3, <1>8, <1>9, <2>1, Promises, PeekGoes
<1>10. CASE Unread(This.token) /\ Go(ForExpr)
  <2>1. Head(todo').fn # "property_key"
    BY <1>4, <1>6, <1>10, NextCall DEF Go
  <2>2. Slashless \subseteq Slashless
    OBVIOUS
  <2>3. Handing(ForExpr, Slashless, Provides(f))
    BY <1>3, <2>2, TwoSeqs, HandingLess
  <2> QED BY <1>1, <1>2, <1>6, <1>7, <1>10, <2>1, <2>3, Unreads
<1> QED BY <1>1, <1>5, <1>9, <1>10

-----------------------------------------------------------------------------
(***************************************************************************)
(* Steps of the calls that may find a token given back.                    *)
(***************************************************************************)
\* What is given back: a name, `let`, a string, or the `const` of a for head.
LEMMA OneToken ==
  ASSUME ParserInv, GoalInv, Running, ~AtKey,
         Tok.value \notin Label \cup {"let", "string", "const"}
  PROVE  Len(la) <= 1
<1>1. Len(la) <= 2 /\ la \in Seq(Token) /\ GivenBack
  BY DEF ParserInv, Held, Types, TypeOK, GoalInv, Alive, Running
<1>2. Len(la) # 2
  BY <1>1 DEF GivenBack
<1>3. Len(la) \in Nat /\ Len(la) <= 2
  BY <1>1
<1>4. \A n \in Nat : n <= 2 /\ n # 2 => n <= 1
  OBVIOUS
<1> QED BY <1>2, <1>3, <1>4

LEMMA TakesTwoHanding ==
  ASSUME NEW cs \in Seq(SimpleCall), cs # <<>>, TakesTwo(cs[1])
  PROVE  Handing(cs, Slashless, Usual)
<1> DEFINE k == [i \in 1 .. Len(cs) + 1 |-> IF i = 1 THEN Slashless ELSE Usual]
<1>1. Len(cs) \in Nat \ {0}
  OBVIOUS
<1>2. /\ k \in [1 .. Len(cs) + 1 -> SUBSET Promise] /\ k[1] = Slashless
      /\ k[Len(cs) + 1] = Usual /\ \A i \in 1 .. Len(cs) : k[i + 1] = Usual
      /\ \A i \in 2 .. Len(cs) : k[i] = Usual
  BY <1>1, Promises
<1> HIDE DEF k
<1>3. ASSUME NEW i \in 1 .. Len(cs)
      PROVE  HandsOver(cs[i], k[i], k[i + 1])
  <2>1. CASE i = 1
    <3>1. cs[1] \in SimpleCall
      BY <1>1
    <3>2. HandsOver(cs[1], Slashless, Usual)
      BY <3>1, TwoHands
    <3> QED BY <1>2, <2>1, <3>2
  <2>2. CASE i # 1
    <3>1. i \in 2 .. Len(cs)
      BY <2>2
    <3>2. cs[i].fn \in SimpleFns
      BY DEF SimpleCall
    <3> QED BY <1>2, <3>1, <3>2, SimpleHands
  <2> QED BY <2>1, <2>2
<1>4. Slashless \subseteq Slashless /\ Usual \subseteq Usual
  OBVIOUS
<1> QED BY <1>2, <1>3, <1>4 DEF Handing

\* The token is not consumed, and the calls made may find it given back.
LEMMA PeekTwo ==
  ASSUME ParserInv, GoalInv, NEW f, At(f),
         f \notin Transparent \cup AfterOperand \cup {"property_key"}, Peek,
         NEW cs \in Seq(AnyCall), todo' = cs \o Tail(todo),
         \/ Len(la) <= 1 /\ Handing(cs, Usual, Provides(f))
         \/ cs # <<>> /\ cs[1].fn # "property_key" /\ Handing(cs, Slashless, Provides(f))
  PROVE  GoalInv'
<1>1. Running /\ todo # <<>> /\ This.fn = f
  BY DEF At, This
<1>2. la' = la /\ Tok' = Tok
  BY DEF Peek, Tok
<1>3. la # <<>> => Tok.value # "/"
  BY <1>1, Relied
<1>4. CASE Len(la) <= 1 /\ Handing(cs, Usual, Provides(f))
  <2>1. Len(la') <= 1
    BY <1>2, <1>4
  <2>2. GivenBack' /\ Holds(Usual)'
    BY <1>2, <1>3, <2>1, NotTwo DEF Holds, Usual
  <2> QED BY <1>1, <1>4, <2>2, Promises, CallsReplaced
<1>5. CASE cs # <<>> /\ cs[1].fn # "property_key" /\ Handing(cs, Slashless, Provides(f))
  <2>1. ~AtKey /\ GivenBack
    BY <1>1 DEF AtKey, This, GoalInv, Alive, Running
  <2>2. todo \in Seq(AnyCall)
    BY DEF ParserInv, Types
  <2>3. Head(todo') = cs[1]
    BY <1>1, <1>5, <2>2, NextCall
  <2>4. ~AtKey'
    BY <1>5, <2>3 DEF AtKey
  <2>5. GivenBack'
    BY <1>2, <2>1, <2>4 DEF GivenBack, RegExpToken
  <2>6. Holds(Slashless)'
    BY <1>2, <1>3 DEF Holds, Slashless
  <2> QED BY <1>1, <1>5, <2>5, <2>6, Promises, CallsReplaced
<1> QED BY <1>4, <1>5

LEMMA SecondLeft ==
  ASSUME NEW S, NEW s \in Seq(S), s # <<>>, Len(s) <= 2
  PROVE  /\ Tail(s) = <<>> \/ (Len(s) = 2 /\ Tail(s)[1] = s[2])
         /\ Len(Tail(s)) <= 1
<1>1. Len(s) \in Nat /\ Len(s) # 0
  OBVIOUS
<1>2. Tail(s) \in Seq(S) /\ Len(Tail(s)) = Len(s) - 1
  OBVIOUS
<1>3. CASE Len(s) = 1
  <2>0. Len(s) <= 1
    BY <1>3
  <2>1. Tail(s) = <<>>
    BY <2>0, OnlyOne
  <2>2. Len(Tail(s)) = 0
    BY <1>2, <1>3
  <2> QED BY <2>1, <2>2
<1>4. CASE Len(s) = 2
  <2>1. Tail(s)[1] = s[2]
    BY <1>4
  <2>2. Len(Tail(s)) = 1
    BY <1>2, <1>4
  <2>3. Len(Tail(s)) <= 1
    BY <2>2
  <2> QED BY <1>4, <2>1, <2>3, Zenon
<1>5. Len(s) = 1 \/ Len(s) = 2
  <2>1. \A n \in Nat : n # 0 /\ n <= 2 => n = 1 \/ n = 2
    OBVIOUS
  <2> QED BY <1>1, <2>1
<1> QED BY <1>3, <1>4, <1>5

\* The token is consumed; what was behind it follows an operand if it is one.
LEMMA ReadTwo ==
  ASSUME ParserInv, GoalInv, NEW f \in TwoTokenFns, At(f), Read
  PROVE  /\ GivenBack' /\ Holds(Operand)'
         /\ Tok.value \notin Label \cup {"let", "string"} => Holds(AfterRead)'
<1>1. Running /\ todo # <<>> /\ This.fn = f /\ la # <<>> /\ f # "property_key"
  BY DEF At, This, TwoTokenFns, Tokenless
<1>2. ~AtKey /\ GivenBack
  BY <1>1 DEF AtKey, This, GoalInv, Alive, Running
<1>3. la \in Seq(Token) /\ Len(la) <= 2
  BY DEF ParserInv, Held, Types, TypeOK
<1>4. la' = Tail(la)
  BY DEF Read
<1>5. /\ Len(la') <= 1
      /\ la' = <<>> \/ (Len(la) = 2 /\ Tok' = la[2])
  BY <1>1, <1>3, <1>4, SecondLeft DEF Tok
<1>6. la' # <<>> => /\ ~RegExpToken(Tok')
                    /\ Tok.value \in Label \cup {"let", "string", "const"}
                    /\ Tok.value = "const" => Tok'.value # "/"
  BY <1>2, <1>5 DEF GivenBack
<1>7. GivenBack'
  BY <1>5, NotTwo
<1>8. Holds(Operand)'
  BY <1>5, <1>6 DEF Holds, Operand, RegExpToken
<1>9. Tok.value \notin Label \cup {"let", "string"} => Holds(AfterRead)'
  BY <1>5, <1>6 DEF Holds, AfterRead, RegExpToken
<1> QED BY <1>7, <1>8, <1>9

LEMMA ReadTwoGo ==
  ASSUME ParserInv, GoalInv, NEW f \in TwoTokenFns, At(f), Read,
         NEW cs \in Seq(AnyCall), todo' = cs \o Tail(todo),
         \/ Handing(cs, Operand, Provides(f))
         \/ /\ Tok.value \notin Label \cup {"let", "string"}
            /\ Handing(cs, AfterRead, Provides(f))
  PROVE  GoalInv'
<1>1. Running /\ todo # <<>> /\ This.fn = f /\ This.fn \notin Transparent
  BY DEF At, This, TwoTokenFns, Transparent
<1>2. /\ GivenBack' /\ Holds(Operand)'
      /\ Tok.value \notin Label \cup {"let", "string"} => Holds(AfterRead)'
  BY ReadTwo
<1> QED BY <1>1, <1>2, Promises, CallsReplaced

LEMMA TwoNames ==
  /\ \A f \in TwoTokenFns :
       /\ f \notin Transparent \cup AfterOperand \cup {"property_key"} /\ f \notin Tokenless
  /\ \A f \in {"expression", "statement_list", "program_items", "stmt_list_item",
               "labelled_body"} : f \in TwoTokenFns /\ Provides(f) \subseteq Usual
  /\ \A f \in {"unary_expression", "lhs_expression", "primary_expression"} :
       f \in TwoTokenFns /\ Provides(f) \subseteq Operand
  /\ "assignment_expression" \in TwoTokenFns
  /\ Provides("assignment_expression") \subseteq Promise
<1>1. \A f \in TwoTokenFns :
        /\ f \notin Transparent \cup AfterOperand \cup {"property_key"} /\ f \notin Tokenless
  BY DEF TwoTokenFns, Transparent, AfterOperand, Tokenless
<1>2. \A f \in {"expression", "statement_list", "program_items", "stmt_list_item",
                "labelled_body"} : f \in TwoTokenFns /\ Provides(f) \subseteq Usual
  BY Provided DEF TwoTokenFns, OperandEnds, OperatorsEnd, ReadsLast
<1>3. \A f \in {"unary_expression", "lhs_expression", "primary_expression"} :
        f \in TwoTokenFns /\ Provides(f) \subseteq Operand
  BY Provided DEF TwoTokenFns, OperandEnds
<1>4. "assignment_expression" \in TwoTokenFns
      /\ Provides("assignment_expression") \subseteq Promise
  BY Provided DEF TwoTokenFns, OperatorsEnd
<1> QED BY <1>1, <1>2, <1>3, <1>4

LEMMA PeekTwoGoes ==
  ASSUME ParserInv, GoalInv, NEW f \in TwoTokenFns, At(f), Peek,
         NEW cs \in Seq(AnyCall), Go(cs), NEW h, Provides(f) \subseteq h,
         \/ /\ Tok.value \notin Label \cup {"let", "string", "const"}
            /\ Handing(cs, Usual, h)
         \/ cs # <<>> /\ cs[1].fn # "property_key" /\ Handing(cs, Slashless, h)
  PROVE  GoalInv'
<1>1. f \notin Transparent \cup AfterOperand \cup {"property_key"}
  BY TwoNames
<1>2. Running /\ ~AtKey
  BY <1>1 DEF At, AtKey
<1>3. Usual \subseteq Usual /\ Slashless \subseteq Slashless
  OBVIOUS
<1>4. todo' = cs \o Tail(todo)
  BY DEF Go
<1>5. CASE /\ Tok.value \notin Label \cup {"let", "string", "const"}
           /\ Handing(cs, Usual, h)
  <2>1. Len(la) <= 1
    BY <1>2, <1>5, OneToken
  <2>2. Handing(cs, Usual, Provides(f))
    BY <1>3, <1>5, HandingLess
  <2> QED BY <1>1, <1>4, <2>1, <2>2, PeekTwo
<1>6. CASE cs # <<>> /\ cs[1].fn # "property_key" /\ Handing(cs, Slashless, h)
  <2>1. Handing(cs, Slashless, Provides(f))
    BY <1>3, <1>6, HandingLess
  <2> QED BY <1>1, <1>4, <1>6, <2>1, PeekTwo
<1> QED BY <1>5, <1>6

LEMMA ReadTwoGoes ==
  ASSUME ParserInv, GoalInv, NEW f \in TwoTokenFns, At(f), Read,
         NEW cs \in Seq(AnyCall), Go(cs), NEW h, Provides(f) \subseteq h, NEW g,
         Handing(cs, g, h),
         \/ g \subseteq Operand
         \/ g \subseteq AfterRead /\ Tok.value \notin Label \cup {"let", "string"}
  PROVE  GoalInv'
<1>1. todo' = cs \o Tail(todo)
  BY DEF Go
<1>2. CASE g \subseteq Operand
  <2>1. Handing(cs, Operand, Provides(f))
    BY <1>2, HandingLess
  <2> QED BY <1>1, <2>1, ReadTwoGo
<1>3. CASE g \subseteq AfterRead /\ Tok.value \notin Label \cup {"let", "string"}
  <2>1. Handing(cs, AfterRead, Provides(f))
    BY <1>3, HandingLess
  <2> QED BY <1>1, <1>3, <2>1, ReadTwoGo
<1> QED BY <1>2, <1>3

LEMMA ExpressionCallGoals ==
  ASSUME ParserInv, GoalInv, ExpressionCall
  PROVE  GoalInv'
<1> DEFINE f == "expression"
           c == <<AssignmentExpression, Call("more_expressions")>>
<1>1. At(f) /\ Peek /\ Go(c)
  BY Zenon DEF ExpressionCall
<1>2. c \in Seq(SimpleCall) /\ c # <<>> /\ TakesTwo(c[1]) /\ c[1].fn # "property_key"
  <2>1. c \in Seq(SimpleCall)
    BY SimpleCalls, SimpleInner, Tuples, Zenon
  <2> QED BY <2>1 DEF AssignmentExpression, Call, TakesTwo, TwoTokenFns
<1>3. f \in TwoTokenFns /\ Provides(f) \subseteq Usual
  BY TwoNames
<1> HIDE DEF f, c
<1>4. c \in Seq(AnyCall) /\ Handing(c, Slashless, Usual)
  BY <1>2, TakesTwoHanding, AnyCalls
<1> QED BY <1>1, <1>2, <1>3, <1>4, PeekTwoGoes

LEMMA AssignmentExpressionGoals ==
  ASSUME ParserInv, GoalInv, AssignmentExpressionCall
  PROVE  GoalInv'
<1> DEFINE f == "assignment_expression"
           c == <<Call("unary_expression"), Call("more_infix_expressions"),
                  Call("more_conditional"), Call("more_assignment")>>
<1>1. At(f) /\ Peek /\ Go(c)
  BY Zenon DEF AssignmentExpressionCall
<1>2. c \in Seq(AnyCall) /\ c # <<>> /\ c[1].fn # "property_key"
  <2>1. c \in Seq(AnyCall)
    BY CallsOfExpr, AnyCalls, Tuples, Zenon
  <2> QED BY <2>1 DEF Call
<1>3. f \in TwoTokenFns /\ Provides(f) \subseteq Promise
  BY TwoNames
<1>4. Handing(c, Slashless, Promise)
  BY OperatorSeqs
<1> HIDE DEF f, c
<1> QED BY <1>1, <1>2, <1>3, <1>4, PeekTwoGoes

LEMMA UnaryExpressionGoals ==
  ASSUME ParserInv, GoalInv, UnaryExpression
  PROVE  GoalInv'
<1> DEFINE f == "unary_expression"
           a == <<Call("unary_expression"), Call("prefix_update")>>
           b == <<Call("unary_expression"), Build("value")>>
           c == <<Call("lhs_expression"), Call("postfix")>>
<1>1. /\ At(f)
      /\ \/ Is("++") /\ Read /\ Go(a)
         \/ IsOneOf(Unops) /\ Read /\ Go(b)
         \/ Peek /\ Go(c)
  BY Zenon DEF UnaryExpression
<1>2. /\ a \in Seq(AnyCall) /\ b \in Seq(AnyCall) /\ c \in Seq(AnyCall)
      /\ c # <<>> /\ c[1].fn # "property_key"
  <2>1. a \in Seq(AnyCall) /\ b \in Seq(AnyCall) /\ c \in Seq(AnyCall)
    BY CallsOfExpr, AnyCalls, Tuples, Zenon
  <2> QED BY <2>1 DEF Call
<1>3. f \in TwoTokenFns /\ Provides(f) \subseteq Operand
  BY TwoNames
<1>4. /\ Handing(a, Slashless, Operand) /\ Handing(b, Slashless, Operand)
      /\ Handing(c, Slashless, Operand)
  BY OperatorSeqs
<1>5. Is("++") \/ IsOneOf(Unops) => Tok.value \notin Label \cup {"let", "string"}
  BY LabelAssumption DEF Is, IsOneOf, Unops, Reserved, Punctuation
<1> HIDE DEF f, a, b, c
<1>6. CASE Is("++") /\ Read /\ Go(a)
  BY <1>1, <1>2, <1>3, <1>4, <1>5, <1>6, Promises, ReadTwoGoes
<1>7. CASE IsOneOf(Unops) /\ Read /\ Go(b)
  BY <1>1, <1>2, <1>3, <1>4, <1>5, <1>7, Promises, ReadTwoGoes
<1>8. CASE Peek /\ Go(c)
  BY <1>1, <1>2, <1>3, <1>4, <1>8, PeekTwoGoes
<1> QED BY <1>1, <1>6, <1>7, <1>8

LEMMA LhsExpressionGoals ==
  ASSUME ParserInv, GoalInv, LhsExpression
  PROVE  GoalInv'
<1> DEFINE f == "lhs_expression"
           a == <<[fn |-> "news", n |-> 0]>>
           b == <<Call("primary_expression"), Call("more_suffixes")>>
<1>1. /\ At(f) /\ Peek
      /\ \/ Is("new") /\ Go(a)
         \/ Go(b)
  BY Zenon DEF LhsExpression
<1>2. a \in Seq(AnyCall) /\ Handing(a, Usual, Operand)
  <2>1. 0 \in Nat
    OBVIOUS
  <2> QED BY <2>1, NewCalls, HandingOne, Promises, Tuples, Zenon
<1>3. /\ b \in Seq(AnyCall) /\ Handing(b, Slashless, Operand)
      /\ b # <<>> /\ b[1].fn # "property_key"
  <2>1. b \in Seq(AnyCall)
    BY CallsOfExpr, AnyCalls, Tuples, Zenon
  <2> QED BY <2>1, OperatorSeqs DEF Call
<1>4. f \in TwoTokenFns /\ Provides(f) \subseteq Operand
  BY TwoNames
<1>5. Is("new") => Tok.value \notin Label \cup {"let", "string", "const"}
  BY LabelAssumption DEF Is, Reserved
<1> HIDE DEF f, a, b
<1>6. CASE Is("new") /\ Go(a)
  BY <1>1, <1>2, <1>4, <1>5, <1>6, PeekTwoGoes
<1>7. CASE Go(b)
  BY <1>1, <1>3, <1>4, <1>7, PeekTwoGoes
<1> QED BY <1>1, <1>6, <1>7

LEMMA FunctionHands ==
  LET c == Function("id_opt") \o <<Build("value")>>
  IN  c \in Seq(AnyCall) /\ Handing(c, Usual, AfterRead)
<1> DEFINE h == <<Call("generator"), Call("id_opt")>>
           b == <<Call("function_body")>>
           v == <<Build("value")>>
<1>1. Function("id_opt") = (h \o FormalParameters) \o b
  BY DEF Function
<1>2. h \in Seq(SimpleCall) /\ FormalParameters \in Seq(SimpleCall)
  BY SimpleCalls, SimpleSeqs, Tuples, Zenon
<1>3. Call("function_body") \in AnyCall /\ Build("value") \in AnyCall
  BY SimpleCalls, AnyCalls, Zenon
<1>4. b \in Seq(AnyCall) /\ Handing(b, Usual, AfterRead)
  BY <1>3, CallHands, HandingOne, Promises, Tuples, Zenon
<1>5. v \in Seq(AnyCall) /\ Handing(v, AfterRead, AfterRead)
  BY <1>3, CallHands, HandingOne, Promises, Tuples, Zenon
<1> HIDE DEF h, b, v
<1>6. h \o FormalParameters \in Seq(SimpleCall)
  BY <1>2, ConcatProperties, Zenon
<1>7. /\ h \o FormalParameters \in Seq(AnyCall)
      /\ Handing(h \o FormalParameters, Usual, Usual)
  BY <1>6, SimpleHanding, AnyCalls, Zenon
<1>8. /\ Function("id_opt") \in Seq(AnyCall)
      /\ Handing(Function("id_opt"), Usual, AfterRead)
  BY <1>1, <1>4, <1>7, HandingConcat, ConcatProperties, Zenon
<1>9. /\ Function("id_opt") \o v \in Seq(AnyCall)
      /\ Handing(Function("id_opt") \o v, Usual, AfterRead)
  BY <1>5, <1>8, HandingConcat, ConcatProperties, Zenon
<1> QED BY <1>9 DEF v

LEMMA PrimaryExpressionGoals ==
  ASSUME ParserInv, GoalInv, PrimaryExpression
  PROVE  GoalInv'
<1> DEFINE f == "primary_expression"
           s == AllowIn(context, TRUE)
           a == <<[fn |-> "array_elements", patt |-> TRUE], Expect("]")>>
           b == <<[fn |-> "properties", patt |-> TRUE], Expect("}")>>
           c == Function("id_opt") \o <<Build("value")>>
           d == <<Call("paren_expression")>>
<1>1. /\ At(f)
      /\ \/ Read /\ Go(<<>>)
         \/ Is("[") /\ Read /\ GoInside(s, a)
         \/ Is("{") /\ Read /\ Go(b)
         \/ Is("function") /\ Read /\ Go(c)
         \/ Is("(") /\ Peek /\ Go(d)
         \/ Unexpected
  BY Zenon DEF PrimaryExpression
<1>2. s \in Scope
  BY <1>1, AtCall, ScopesTyped
<1>3. /\ [fn |-> "array_elements", patt |-> TRUE] \in SimpleCall
      /\ [fn |-> "properties", patt |-> TRUE] \in SimpleCall
  BY SimpleExprs
<1>4. /\ [fn |-> "array_elements", patt |-> TRUE] \in AnyCall
      /\ [fn |-> "properties", patt |-> TRUE] \in AnyCall
      /\ Expect("]") \in AnyCall /\ Expect("}") \in AnyCall
      /\ Call("paren_expression") \in AnyCall
  BY <1>3, SimpleCalls, AnyCalls, Zenon
<1>5. /\ HandsOver([fn |-> "array_elements", patt |-> TRUE], Usual, Usual)
      /\ HandsOver([fn |-> "properties", patt |-> TRUE], Usual, Usual)
  BY <1>3, SimpleHands DEF SimpleCall
<1>6. a \in Seq(AnyCall) /\ Handing(a, Usual, AfterRead)
  BY <1>4, <1>5, CallHands, HandingTwo, Promises, Tuples, Zenon
<1>7. b \in Seq(AnyCall) /\ Handing(b, Usual, AfterRead)
  BY <1>4, <1>5, CallHands, HandingTwo, Promises, Tuples, Zenon
<1>8. c \in Seq(AnyCall) /\ Handing(c, Usual, AfterRead)
  BY FunctionHands
<1>9. d \in Seq(AnyCall) /\ Handing(d, Usual, AfterRead)
  BY <1>4, CallHands, HandingOne, Promises, Tuples, Zenon
<1>10. f \in TwoTokenFns /\ Provides(f) \subseteq Operand /\ Provides(f) \subseteq AfterRead
  BY TwoNames, Promises
<1>11. Is("[") \/ Is("{") \/ Is("function") \/ Is("(") =>
         Tok.value \notin Label \cup {"let", "string", "const"}
  BY LabelAssumption DEF Is, Reserved, Punctuation
<1>12. Usual \subseteq AfterRead /\ Operand \subseteq Operand
  BY Promises
<1> DEFINE e == a \o <<LeaveScope(s)>>
<1>13. GoInside(s, a) => todo' = e \o Tail(todo)
  BY DEF GoInside
<1> HIDE DEF f, s, a, b, c, d
<1>14. e \in Seq(AnyCall) /\ Handing(e, Usual, AfterRead)
  BY <1>2, <1>6, InsideHands, Promises, Zenon DEF e
<1> HIDE DEF e
<1>15. CASE Read /\ Go(<<>>)
  BY <1>1, <1>10, <1>12, <1>15, NoCalls, ReadTwoGoes
<1>16. CASE Is("[") /\ Read /\ GoInside(s, a)
  <2>1. Handing(e, AfterRead, Provides(f))
    BY <1>10, <1>12, <1>14, HandingLess
  <2> QED BY <1>1, <1>10, <1>11, <1>13, <1>14, <1>16, <2>1, ReadTwoGo
<1>17. CASE Is("{") /\ Read /\ Go(b)
  BY <1>1, <1>7, <1>10, <1>11, <1>12, <1>17, ReadTwoGoes
<1>18. CASE Is("function") /\ Read /\ Go(c)
  BY <1>1, <1>8, <1>10, <1>11, <1>12, <1>18, ReadTwoGoes
<1>19. CASE Is("(") /\ Peek /\ Go(d)
  BY <1>1, <1>9, <1>10, <1>11, <1>19, PeekTwoGoes
<1> QED BY <1>1, <1>15, <1>16, <1>17, <1>18, <1>19, RefusedGoals

LEMMA SameItems ==
  ASSUME ParserInv, NEW f \in {"statement_list", "program_items"}, At(f)
  PROVE  This \in SimpleCall
<1>1. This \in AnyCall /\ This.fn = f
  BY AtCall
<1>2. This \in StmtCall
  BY <1>1, SameFunction DEF StmtFns
<1> QED BY <1>1, <1>2, SimpleOfAny

LEMMA ItemsGoals ==
  ASSUME ParserInv, GoalInv, StatementList \/ ProgramItems
  PROVE  GoalInv'
<1> DEFINE c == <<Declaration, This>>
<1>1. PICK f \in {"statement_list", "program_items"} :
        /\ At(f)
        /\ \/ FollowStatementList /\ Peek /\ Go(<<>>)
           \/ Peek /\ Go(c)
           \/ Fail("unimplemented")
  <2>1. CASE StatementList
    <3>1. At("statement_list") /\ Peek
          /\ ((FollowStatementList /\ Go(<<>>)) \/ Go(c))
      BY <2>1, Zenon DEF StatementList
    <3> QED BY <3>1, Zenon
  <2>2. CASE ProgramItems
    <3>1. Is("EOF") => FollowStatementList
      BY DEF Is, FollowStatementList, IsOneOf
    <3> QED BY <2>2, <3>1, Zenon DEF ProgramItems
  <2> QED BY <2>1, <2>2
<1>2. c \in Seq(SimpleCall) /\ c # <<>> /\ TakesTwo(c[1]) /\ c[1].fn # "property_key"
  <2>1. c \in Seq(SimpleCall)
    BY <1>1, SameItems, SimpleStatements, Tuples, Zenon
  <2> QED BY <2>1 DEF Declaration, TakesTwo, TwoTokenFns
<1>3. f \in TwoTokenFns /\ Provides(f) \subseteq Usual
  BY <1>1, TwoNames
<1> HIDE DEF c
<1>4. c \in Seq(AnyCall) /\ Handing(c, Slashless, Usual)
  BY <1>2, TakesTwoHanding, AnyCalls
<1>5. CASE FollowStatementList /\ Peek /\ Go(<<>>)
  <2>1. Tok.value \notin Label \cup {"let", "string", "const"}
    BY <1>5, LabelAssumption DEF FollowStatementList, IsOneOf, Reserved, Punctuation
  <2> QED BY <1>1, <1>3, <1>5, <2>1, NoCalls, PeekTwoGoes
<1>6. CASE Peek /\ Go(c)
  BY <1>1, <1>2, <1>3, <1>4, <1>6, PeekTwoGoes
<1> QED BY <1>1, <1>5, <1>6, RefusedGoals

\* The calls that parse the rest of a statement after its first token.
LEMMA KeywordCalls ==
  ASSUME NEW v \in StatementKeyword \cup DeclarationKeyword
  PROVE  AfterKeyword(v) \in Seq(SimpleCall)
<1>1. /\ <<Call("statement_list"), Expect("}")>> \in Seq(SimpleCall)
      /\ <<>> \in Seq(SimpleCall)
      /\ <<Paren, Statement, Call("else_opt")>> \in Seq(SimpleCall)
      /\ <<Call("continue_argument")>> \in Seq(SimpleCall)
      /\ <<Call("break_argument")>> \in Seq(SimpleCall)
      /\ <<Call("return_argument")>> \in Seq(SimpleCall)
      /\ <<Paren, Statement>> \in Seq(SimpleCall)
      /\ <<Paren, Call("switch_body")>> \in Seq(SimpleCall)
      /\ <<Call("throw_argument")>> \in Seq(SimpleCall)
  BY SimpleCalls, SimpleStatements, SimpleInner, Tuples, Zenon
<1>2. /\ <<Call("handlers"), Call("catch_opt"), Call("finally_opt")>> \in Seq(SimpleCall)
      /\ <<Paren, Call("iteration_body")>> \in Seq(SimpleCall)
      /\ <<Call("iteration_body"), Expect("while"), Paren, AutoSemi("Optional")>>
           \in Seq(SimpleCall)
      /\ <<Expect("("), Call("for_head")>> \in Seq(SimpleCall)
      /\ <<AutoSemi("Required")>> \in Seq(SimpleCall)
  BY SimpleCalls, SimpleStatements, SimpleInner, Tuples, Zenon
<1>3. /\ CommaSeparated("declarator") \in Seq(SimpleCall)
      /\ CommaSeparated("const_declarator") \in Seq(SimpleCall)
      /\ Block \in Seq(SimpleCall) /\ Function("id") \in Seq(SimpleCall)
  BY SimpleSeqs DEF ListItems
<1>4. \A cs, ds \in Seq(SimpleCall) : cs \o ds \in Seq(SimpleCall)
  BY ConcatProperties, Zenon
<1>5. CASE v \in {"{", ";", "if", "continue", "break", "return", "with", "switch", "throw"}
  BY <1>1, <1>5, KeywordSequences, Zenon
<1>6. CASE v \in {"while", "do", "for", "debugger", "function"}
  BY <1>2, <1>3, <1>6, KeywordSequences, Zenon
<1>7. CASE v \in {"var", "const", "try"}
  BY <1>2, <1>3, <1>4, <1>7, KeywordSequences, Zenon
<1> QED BY <1>5, <1>6, <1>7 DEF StatementKeyword, DeclarationKeyword

LEMMA KeywordNames ==
  \A v \in StatementKeyword \cup DeclarationKeyword : v \notin Label \cup {"let", "string"}
<1>1. \A v \in StatementKeyword \cup DeclarationKeyword :
        v \in Reserved \cup Punctuation /\ v \notin {"let", "string"}
  BY DEF StatementKeyword, DeclarationKeyword, Reserved, Punctuation
<1>2. \A v \in Reserved \cup Punctuation : v \notin Label
  BY LabelAssumption, Zenon
<1> QED BY <1>1, <1>2

LEMMA StmtListItemGoals ==
  ASSUME ParserInv, GoalInv, StmtListItem
  PROVE  GoalInv'
<1> DEFINE f == "stmt_list_item"
           h == [fn |-> "identifier_statement", token |-> Tok, allow_decl |-> This.allow_decl]
           v == Tok.value
<1>1. /\ At(f)
      /\ \/ /\ v \in StatementKeyword \cup DeclarationKeyword
            /\ Read /\ Go(AfterKeyword(v))
         \/ Unexpected
         \/ IsIdentifier /\ Read /\ Go(<<h>>)
         \/ Peek /\ Go(ExpressionStatement)
  BY Zenon DEF StmtListItem, IsOneOf
<1>2. f \in TwoTokenFns /\ f \notin Tokenless /\ Provides(f) \subseteq Usual
  BY TwoNames
<1>3. This \in AnyCall /\ This.fn = f /\ la # <<>> /\ Tok \in Token
  BY <1>1, <1>2, AtCall
<1>4. CASE v \in StatementKeyword \cup DeclarationKeyword /\ Read /\ Go(AfterKeyword(v))
  <2>1. AfterKeyword(v) \in Seq(SimpleCall)
    BY <1>4, KeywordCalls
  <2>2. AfterKeyword(v) \in Seq(AnyCall) /\ Handing(AfterKeyword(v), Usual, Usual)
    BY <2>1, SimpleHanding, AnyCalls
  <2>3. Tok.value \notin Label \cup {"let", "string"}
    BY <1>4, KeywordNames, Zenon
  <2> HIDE DEF f, v
  <2> QED BY <1>1, <1>2, <1>4, <2>2, <2>3, Promises, ReadTwoGoes
<1>5. CASE IsIdentifier /\ Read /\ Go(<<h>>)
  <2>1. h \in HeldCall
    <3>1. This.allow_decl \in BOOLEAN
      BY <1>3, StatementFields
    <3>2. Tok \in NameToken
      BY <1>3, <1>5, HeldToken DEF NameToken, IsIdentifier
    <3> QED BY <3>1, <3>2 DEF HeldCall
  <2>2. h.fn = "identifier_statement" /\ HoldsRight(h)
    BY DEF HoldsRight
  <2> HIDE DEF h, f, v
  <2>3. h \in AnyCall /\ h.fn \in Holders
    BY <2>1, <2>2 DEF AnyCall, Holders
  <2>4. HandsOver(h, Operand, Usual)
    BY <2>2, <2>3, HolderHands
  <2>5. <<h>> \in Seq(AnyCall) /\ Handing(<<h>>, Operand, Usual)
    BY <2>3, <2>4, HandingOne, Promises, Tuples, Zenon
  <2>6. Operand \subseteq Operand
    OBVIOUS
  <2> QED BY <1>1, <1>2, <1>5, <2>5, <2>6, ReadTwoGoes
<1>6. CASE Peek /\ Go(ExpressionStatement)
  <2>1. ExpressionStatement \in Seq(AnyCall)
    BY SimpleSeqs, AnyCalls
  <2>2. ExpressionStatement # <<>> /\ ExpressionStatement[1].fn # "property_key"
    BY <2>1 DEF ExpressionStatement, InExpression, WithAllowIn
  <2> HIDE DEF f, v, h
  <2> QED BY <1>1, <1>2, <1>6, <2>1, <2>2, TwoSeqs, PeekTwoGoes
<1> QED BY <1>1, <1>4, <1>5, <1>6, RefusedGoals

LEMMA LabelledBodyGoals ==
  ASSUME ParserInv, GoalInv, LabelledBody
  PROVE  GoalInv'
<1> DEFINE s == WithLabels(This.labels, TypeOfLabel)
           c == <<Statement>>
<1>1. PICK f \in {"labelled_body", "labels"} : At(f)
  BY DEF LabelledBody
<1>2. GoInside(s, c) /\ Peek
  BY DEF LabelledBody
<1>3. /\ f \notin Transparent \cup AfterOperand \cup {"property_key"}
      /\ Provides(f) \subseteq Usual
  BY Provided
     DEF Transparent, AfterOperand, OperandEnds, OperatorsEnd, ReadsLast
<1>4. This.fn = f /\ This \in AnyCall /\ context \in ContextRecord
  BY <1>1, AtCall
<1>5. This.labels \in SUBSET Label
  BY <1>4, StatementFields
<1>6. TypeOfLabel \in LabelType
  BY DEF TypeOfLabel, LabelType
<1>7. s \in Scope
  BY <1>4, <1>5, <1>6, ScopesTyped
<1>8. /\ c \in Seq(SimpleCall) /\ c # <<>> /\ TakesTwo(c[1])
      /\ c[1].fn # "property_key"
  <2>1. c \in Seq(SimpleCall)
    BY SimpleStatements, Tuples, Zenon
  <2> QED BY <2>1 DEF Statement, TakesTwo, TwoTokenFns
<1> DEFINE d == c \o <<LeaveScope(s)>>
<1>9. todo' = d \o Tail(todo)
  BY <1>2 DEF GoInside
<1>10. LeaveScope(s) \in AnyCall
  BY <1>7, AnyCalls
<1>11. d # <<>> /\ d[1] = c[1]
  <2> DEFINE t == <<LeaveScope(s)>>
  <2>1. t \in Seq(AnyCall) /\ Len(t) = 1 /\ c \in Seq(AnyCall) /\ Len(c) = 1
    BY <1>8, <1>10, AnyCalls
  <2> HIDE DEF c, t
  <2>2. Len(c \o t) = 2 /\ (c \o t)[1] = c[1] /\ c \o t # <<>>
    BY <2>1, PairOf
  <2> QED BY <2>2 DEF t
<1> HIDE DEF s, c
<1>12. Handing(c, Slashless, Usual) /\ c \in Seq(AnyCall)
  BY <1>8, TakesTwoHanding, AnyCalls
<1>13. d \in Seq(AnyCall) /\ Handing(d, Slashless, Usual)
  BY <1>7, <1>12, InsideHands, Promises, Zenon DEF d
<1> HIDE DEF d
<1>14. Handing(d, Slashless, Provides(f))
  <2>1. Slashless \subseteq Slashless
    OBVIOUS
  <2> QED BY <1>3, <1>13, <2>1, HandingLess
<1> QED BY <1>1, <1>2, <1>3, <1>8, <1>9, <1>11, <1>13, <1>14, PeekTwo

LEMMA FirstOf ==
  ASSUME NEW S, NEW s \in Seq(S), s # <<>>, NEW t \in Seq(S)
  PROVE  (s \o t)[1] = s[1] /\ s \o t # <<>>
<1>1. Len(s) \in Nat \ {0} /\ Len(t) \in Nat
  BY EmptySeq, LenProperties
<1>2. 1 \in 1 .. Len(s) + Len(t) /\ 1 <= Len(s)
  BY <1>1
<1>3. (s \o t)[1] = s[1]
  BY <1>2, ConcatProperties
<1>4. s \o t # <<>>
  BY ConcatEqualIffEmpty
<1> QED BY <1>3, <1>4

LEMMA EnterAllowInGoals ==
  ASSUME ParserInv, GoalInv, EnterAllowIn
  PROVE  GoalInv'
<1> DEFINE f == "allow_in"
           s == AllowIn(context, This.value)
           c == This.calls
           d == c \o <<LeaveScope(s)>>
<1>1. At(f) /\ GoInside(s, c) /\ Peek
  BY DEF EnterAllowIn, Peek
<1>2. /\ f \notin Transparent \cup AfterOperand \cup {"property_key"}
      /\ Provides(f) \subseteq Usual
  BY Provided
     DEF Transparent, AfterOperand, OperandEnds, OperatorsEnd, ReadsLast
<1>3. /\ This.fn = f /\ This \in AnyCall /\ context \in ContextRecord /\ Running
      /\ todo # <<>>
  BY <1>1, AtCall
<1>4. This.value \in BOOLEAN /\ c \in Seq(InnerCall)
  BY <1>3, CallFields
<1>5. s \in Scope
  BY <1>3, <1>4, ScopesTyped
<1>6. InnerCall \subseteq SimpleCall
  <2>1. InnerCall \subseteq ExprCall
    BY DEF InnerCall, ExprCall, ExprFns
  <2>2. \A i \in InnerCall : i.fn \in SimpleFns
    BY SimpleNames DEF InnerCall, ExprFns, ArgumentFns, OperandEnds, OperatorGoal
  <2> QED BY <2>1, <2>2, SimpleOfAny
<1>7. c \in Seq(SimpleCall)
  BY <1>4, <1>6, SeqMonotonic
<1>8. todo' = d \o Tail(todo)
  BY <1>1 DEF GoInside
<1>9. CASE ~TakesTwo(This)
  <2>1. Len(la) <= 1
    BY <1>2, <1>3, <1>9, Relied
  <2> HIDE DEF c, s
  <2>2. Handing(c, Usual, Usual) /\ c \in Seq(AnyCall)
    BY <1>7, SimpleHanding, AnyCalls
  <2>3. d \in Seq(AnyCall) /\ Handing(d, Usual, Usual)
    BY <1>5, <2>2, InsideHands, Promises, Zenon DEF d
  <2>4. Usual \subseteq Usual
    OBVIOUS
  <2> HIDE DEF d, f
  <2>5. Handing(d, Usual, Provides(f))
    BY <1>2, <2>3, <2>4, HandingLess
  <2> QED BY <1>1, <1>2, <1>8, <2>1, <2>3, <2>5, PeekTwo
<1>10. CASE TakesTwo(This)
  <2>1. c # <<>> /\ c[1].fn \in {"expression", "assignment_expression"}
    BY <1>3, <1>10 DEF TakesTwo, TwoTokenFns
  <2>2. TakesTwo(c[1]) /\ c[1].fn # "property_key"
    BY <2>1 DEF TakesTwo, TwoTokenFns
  <2> HIDE DEF c, s
  <2>3. Handing(c, Slashless, Usual) /\ c \in Seq(AnyCall)
    BY <1>7, <2>1, <2>2, TakesTwoHanding, AnyCalls
  <2>4. d \in Seq(AnyCall) /\ Handing(d, Slashless, Usual)
    BY <1>5, <2>3, InsideHands, Promises, Zenon DEF d
  <2>5. d # <<>> /\ d[1] = c[1]
    <3> DEFINE t == <<LeaveScope(s)>>
    <3>1. t \in Seq(AnyCall) /\ Len(t) = 1
      BY <1>5, AnyCalls
    <3> HIDE DEF t
    <3>2. (c \o t)[1] = c[1] /\ c \o t # <<>>
      BY <2>1, <2>3, <3>1, FirstOf
    <3> QED BY <3>2 DEF d, t
  <2> HIDE DEF d, f
  <2>6. Slashless \subseteq Slashless
    OBVIOUS
  <2>7. Handing(d, Slashless, Provides(f))
    BY <1>2, <2>4, <2>6, HandingLess
  <2> QED BY <1>1, <1>2, <1>8, <2>2, <2>4, <2>5, <2>7, PeekTwo
<1> QED BY <1>9, <1>10

-----------------------------------------------------------------------------
(***************************************************************************)
(* Keys, which may be given back.                                          *)
(***************************************************************************)
LEMMA PropertyKeyGoals ==
  ASSUME ParserInv, GoalInv, PropertyKeyCall
  PROVE  GoalInv'
<1> DEFINE f == "property_key"
           m == <<MorePropInit(~IsOneOf({"string", "number"}))>>
<1>1. /\ At(f)
      /\ \/ Read /\ Go(Method)
         \/ Read /\ Go(m)
         \/ Unexpected
  BY Zenon DEF PropertyKeyCall
<1>2. /\ f \notin Transparent /\ f \notin Tokenless /\ Provides(f) \subseteq Usual
  BY Provided
     DEF Transparent, Tokenless, OperandEnds, OperatorsEnd, ReadsLast
<1>3. /\ This.fn = f /\ Running /\ todo # <<>> /\ la # <<>> /\ AtKey /\ GivenBack
  <2>1. This.fn = f /\ Running /\ Alive /\ todo # <<>> /\ la # <<>>
    BY <1>1, <1>2, AtCall
  <2> QED BY <2>1 DEF AtKey, This, GoalInv
<1>4. la \in Seq(Token) /\ Len(la) <= 2
  BY DEF ParserInv, Held, Types, TypeOK
<1>5. ASSUME Read
      PROVE  GivenBack' /\ Holds(Usual)'
  <2>1. la' = Tail(la)
    BY <1>5 DEF Read
  <2>2. Len(la') <= 1 /\ (la' = <<>> \/ (Len(la) = 2 /\ Tok' = la[2]))
    BY <1>3, <1>4, <2>1, SecondLeft DEF Tok
  <2>3. la' # <<>> => Tok'.value # "/"
    BY <1>3, <2>2 DEF GivenBack
  <2>4. GivenBack'
    BY <2>2, NotTwo
  <2> QED BY <2>2, <2>3, <2>4 DEF Holds, Usual
<1>6. Method \in Seq(SimpleCall)
  BY SimpleSeqs
<1>7. m \in Seq(SimpleCall)
  <2>1. (~IsOneOf({"string", "number"})) \in BOOLEAN
    OBVIOUS
  <2> QED BY <2>1, SimpleExprs, Tuples, Zenon DEF MorePropInit
<1> HIDE DEF f, m
<1>8. ASSUME Read, NEW c \in Seq(SimpleCall), Go(c)
      PROVE  GoalInv'
  <2>1. Handing(c, Usual, Usual) /\ c \in Seq(AnyCall)
    BY SimpleHanding, AnyCalls
  <2>2. Usual \subseteq Usual
    OBVIOUS
  <2>3. Handing(c, Usual, Provides(f))
    BY <1>2, <2>1, <2>2, HandingLess
  <2> QED BY <1>2, <1>3, <1>5, <1>8, <2>1, <2>3, Promises, CallsReplaced DEF Go
<1> QED BY <1>1, <1>6, <1>7, <1>8, RefusedGoals

LEMMA ReservedKeyGoals ==
  ASSUME ParserInv, GoalInv, ReservedKey
  PROVE  GoalInv'
<1> DEFINE f == "reserved_key"
           c == <<PropertyKey(FALSE)>>
<1>1. /\ At(f)
      /\ \/ Unread(This.token) /\ Go(c)
         \/ Unexpected
  BY Zenon DEF ReservedKey
<1>2. f \in OneFns /\ f \notin Tokenless /\ f \notin AfterOperand /\ Provides(f) \subseteq Usual
  BY OneNames, Provided DEF AfterOperand, OperandEnds, OperatorsEnd, ReadsLast
<1>3. c \in Seq(SimpleCall) /\ c # <<>> /\ c[1].fn = "property_key"
  <2>1. c \in Seq(SimpleCall)
    BY SimpleExprs, Tuples, Zenon DEF PropertyKey
  <2> QED BY <2>1 DEF PropertyKey
<1> HIDE DEF f, c
<1>4. ASSUME Unread(This.token), Go(c)
      PROVE  GoalInv'
  <2>1. /\ Running /\ todo # <<>> /\ This.fn = f /\ la # <<>> /\ This.fn \notin Transparent
        /\ Len(la') = 2 /\ la'[1] = This.token /\ la'[2] = Tok /\ la' # <<>>
    BY <1>1, <1>2, <1>4, BufferUnread
  <2>2. HoldsRight(This) /\ Tok.value # "/"
    BY <1>2, <2>1, Relied
  <2>3. This.token.value # "/"
    BY <2>1, <2>2 DEF HoldsRight, Reserved, f
  <2>4. Handing(c, Usual, Usual) /\ c \in Seq(AnyCall)
    BY <1>3, SimpleHanding, AnyCalls
  <2>5. todo \in Seq(AnyCall) /\ todo' = c \o Tail(todo)
    BY <1>4 DEF ParserInv, Types, Go
  <2>6. Head(todo').fn = "property_key" /\ todo' # <<>>
    <3>1. Head(todo') = c[1]
      BY <1>3, <2>1, <2>4, <2>5, NextCall
    <3>2. Tail(todo) \in Seq(AnyCall)
      BY <2>1, <2>5
    <3>3. c \o Tail(todo) # <<>>
      BY <1>3, <2>4, <3>2, FirstOf
    <3> QED BY <1>3, <2>5, <3>1, <3>3
  <2>7. AtKey'
    BY <2>6 DEF AtKey
  <2>8. GivenBack'
    BY <2>1, <2>2, <2>7 DEF GivenBack
  <2>9. Holds(Usual)'
    BY <2>1, <2>3, <2>7 DEF Holds, Usual, Tok
  <2>10. Handing(c, Usual, Provides(f))
    <3>1. Usual \subseteq Usual
      OBVIOUS
    <3> QED BY <1>2, <2>4, <3>1, HandingLess
  <2> QED BY <2>1, <2>4, <2>5, <2>8, <2>9, <2>10, Promises, CallsReplaced
<1> QED BY <1>1, <1>4, RefusedGoals

-----------------------------------------------------------------------------
(***************************************************************************)
(* The calls that do not look at the buffer, and the lexer.                *)
(***************************************************************************)
LEMMA TransparentGoals ==
  ASSUME ParserInv, GoalInv, Running, todo # <<>>, This.fn \in Transparent,
         todo' = Tail(todo), la' = la
  PROVE  GoalInv'
<1>1. Alive /\ GivenBack
  BY DEF Alive, Running, GoalInv
<1>2. PICK g, q \in SUBSET Promise :
        Holds(g) /\ HandsOver(This, g, q) /\ Handing(Tail(todo), q, {})
  BY <1>1, CallFinds
<1>3. q \subseteq g /\ ~AtKey
  BY <1>2 DEF HandsOver, AtKey, This, Transparent
<1>4. Holds(q)
  BY <1>2, <1>3, HoldsLess
<1>5. "one" \in q => Len(la) <= 1
  BY <1>3, <1>4 DEF Holds
<1>6. Holds(q)'
  BY <1>4, <1>5 DEF Holds, RegExpToken, Tok
<1>7. AtKey' => "one" \in q
  <2>1. ASSUME Tail(todo) # <<>>, Head(Tail(todo)).fn = "property_key"
        PROVE  "one" \in q
    <3>1. Tail(todo) \in Seq(AnyCall)
      BY DEF ParserInv, Types
    <3>2. \E r : HandsOver(Head(Tail(todo)), q, r)
      BY <1>2, <2>1, <3>1, HandingFirst
    <3> QED BY <2>1, <3>2
      DEF HandsOver, Relies, Promise, TakesTwo, TwoTokenFns, Transparent
  <2> QED BY <2>1 DEF AtKey
<1>8. GivenBack'
  <2>1. Len(la) = 2 => "one" \notin q
    BY <1>5
  <2> QED BY <1>1, <1>3, <1>7, <2>1 DEF GivenBack, RegExpToken, Tok
<1> QED BY <1>2, <1>6, <1>8 DEF GoalInv

LEMMA TransparentSteps ==
  ASSUME ParserInv, GoalInv, \/ Leave \/ BuildNode \/ PrefixUpdate \/ ReturnCheck
  PROVE  GoalInv'
<1>1. \A f \in Transparent : At(f) => Running /\ todo # <<>> /\ This.fn \in Transparent
  BY DEF At, This
<1>2. /\ "leave" \in Transparent /\ "build" \in Transparent
      /\ "prefix_update" \in Transparent /\ "return_check" \in Transparent
  BY DEF Transparent
<1>3. ASSUME todo # <<>>
      PROVE  <<>> \o Tail(todo) = Tail(todo)
  BY <1>3 DEF ParserInv, Types
<1>4. CASE Leave
  <2>1. At("leave") /\ todo' = Tail(todo) /\ la' = la
    BY <1>4 DEF Leave
  <2> QED BY <1>1, <1>2, <2>1, TransparentGoals
<1>5. CASE BuildNode
  <2>1. At("build") /\ todo' = <<>> \o Tail(todo) /\ la' = la
    BY <1>5 DEF BuildNode, Go, Peek
  <2> QED BY <1>1, <1>2, <1>3, <2>1, TransparentGoals
<1>6. CASE PrefixUpdate
  <2>1. /\ At("prefix_update")
        /\ \/ todo' = <<>> \o Tail(todo) /\ la' = la
           \/ Fail("InvalidLHS")
    BY <1>6 DEF PrefixUpdate, Go, Peek
  <2> QED BY <1>1, <1>2, <1>3, <2>1, TransparentGoals, RefusedGoals
<1>7. CASE ReturnCheck
  <2>1. /\ At("return_check") /\ la' = la
        /\ \/ todo' = <<>> \o Tail(todo)
           \/ result' = "TopLevelReturn"
    BY <1>7 DEF ReturnCheck, GoJump, Peek
  <2>2. CASE todo' = <<>> \o Tail(todo)
    BY <1>1, <1>2, <1>3, <2>1, <2>2, TransparentGoals
  <2>3. CASE result' = "TopLevelReturn"
    BY <2>3 DEF GoalInv, Alive
  <2> QED BY <2>1, <2>2, <2>3
<1> QED BY <1>4, <1>5, <1>6, <1>7

LEMMA LexGoals ==
  ASSUME ParserInv, GoalInv, Lex
  PROVE  GoalInv'
<1>1. /\ Running /\ Alive /\ todo # <<>> /\ la = <<>> /\ This.fn \notin Tokenless
      /\ todo' = todo /\ todo \in Seq(AnyCall)
  BY DEF Lex, AsksForToken, This, Running, Alive, ParserInv, Types
<1>2. PICK v \in MayFind, n \in source.newlines : la' = <<Found(v, n)>>
  BY DEF Lex
<1>3. This.fn \notin Transparent
  BY <1>1 DEF Transparent, Tokenless
<1>4. PICK g, q \in SUBSET Promise :
        Holds(g) /\ HandsOver(This, g, q) /\ Handing(Tail(todo), q, {})
  BY <1>1, CallFinds
<1>5. PICK r \in SUBSET Promise : r = Relies(This) /\ HandsOver(This, r, q)
  <2>1. Relies(This) \in SUBSET Promise
    BY DEF Relies
  <2>2. Relies(This) \subseteq Relies(This)
    OBVIOUS
  <2> QED BY <1>3, <1>4, <2>1, <2>2 DEF HandsOver
<1>6. Handing(todo, r, {})
  <2>1. This \in AnyCall /\ Tail(todo) \in Seq(AnyCall) /\ <<This>> \in Seq(AnyCall)
        /\ <<This>> \o Tail(todo) = todo
    BY <1>1 DEF This
  <2>2. Handing(<<This>>, r, q)
    BY <1>4, <1>5, HandingOne
  <2> DEFINE t == <<This>>
  <2> HIDE DEF t
  <2>3. Handing(t \o Tail(todo), r, {})
    BY <1>4, <2>1, <2>2, HandingConcat DEF t
  <2> QED BY <2>1, <2>3 DEF t
<1>7. This.fn \notin {"more_conditional", "more_assignment"}
  BY <1>1, <1>3, Relied
<1>8. Tok'.value = v /\ Tok'.by = (IF v \in {"/", "regexp"} THEN This.fn ELSE "any")
      /\ Len(la') = 1 /\ la' # <<>>
  BY <1>2 DEF Tok, Found, This
<1>9. /\ This.fn \in OperatorGoal => v # "regexp"
      /\ This.fn \notin OperatorGoal => v # "/"
  BY <1>2 DEF MayFind, This
<1>10. "no_slash" \in r => v # "/"
  <2>1. "no_slash" \in r => This.fn \notin OperatorGoal
    BY <1>5, <1>7 DEF Relies, OperatorGoal, AfterOperand
  <2> QED BY <1>9, <2>1
<1>11. "no_regexp" \in r => ~RegExpToken(Tok')
  <2>1. "no_regexp" \in r => This.fn \in OperatorGoal \cup {"for_lexical"}
    BY <1>5 DEF Relies
  <2> QED BY <1>8, <1>9, <2>1 DEF RegExpToken
<1>12. Holds(r)'
  <2>1. Len(la') <= 1
    BY <1>8
  <2> QED BY <1>8, <1>10, <1>11, <2>1 DEF Holds, RegExpToken
<1>13. GivenBack'
  <2>1. Len(la') <= 1
    BY <1>8
  <2> QED BY <2>1 DEF GivenBack
<1> QED BY <1>1, <1>5, <1>6, <1>12, <1>13 DEF GoalInv

LEMMA SameGoals ==
  ASSUME GoalInv, Alive, UNCHANGED <<la, todo>>
  PROVE  GoalInv'
<1>1. GivenBack /\ \E g \in SUBSET Promise : Holds(g) /\ Handing(todo, g, {})
  BY DEF GoalInv
<1>2. GivenBack'
  BY <1>1 DEF GivenBack, AtKey, Tok, RegExpToken
<1>3. PICK g \in SUBSET Promise : Holds(g) /\ Handing(todo, g, {})
  BY <1>1
<1>4. Holds(g)' /\ Handing(todo', g, {})
  BY <1>3 DEF Holds, AtKey, Tok, RegExpToken
<1> QED BY <1>2, <1>4 DEF GoalInv

LEMMA InitGoals == ASSUME Init PROVE GoalInv
<1> DEFINE b == Call("body_directives")
           i == Items(source.entry)
<1>1. la = <<>> /\ todo = <<b, i>>
  BY DEF Init
<1>2. i \in SimpleCall /\ TakesTwo(i)
  BY SimpleStatements DEF Items, TakesTwo, TwoTokenFns, Call
<1>3. b \in AnyCall /\ HandsOver(b, Usual, Slashless)
  BY AnyCalls, CallHands
<1>4. i \in AnyCall /\ HandsOver(i, Slashless, Usual)
  BY <1>2, AnyCalls, TwoHands
<1> HIDE DEF b, i
<1>5. Handing(<<b, i>>, Usual, Usual)
  BY <1>3, <1>4, HandingTwo, Promises
<1>6. Handing(todo, Usual, {})
  <2>1. Usual \subseteq Usual /\ {} \subseteq Usual
    OBVIOUS
  <2> QED BY <1>1, <1>5, <2>1, HandingLess
<1>7. Len(la) = 0
  BY <1>1
<1>8. GivenBack /\ Holds(Usual)
  BY <1>1, <1>7 DEF GivenBack, Holds, Usual
<1> QED BY <1>6, <1>8, Promises DEF GoalInv

LEMMA NextGoals == ASSUME ParserInv, GoalInv, [Next]_vars PROVE GoalInv'
<1>1. CASE ParsingStep
  BY <1>1, LexGoals, RefusedGoals, ExpectGoals, SimpleExpressions, SimpleBindings,
     EnterAllowInGoals, TransparentSteps, Zenon DEF ParsingStep
<1>2. CASE BindingStep
  BY <1>2, SimpleBindings, FunctionBodyGoals, BodyDirectivesGoals, DirectiveRestGoals, Zenon
     DEF BindingStep
<1>3. CASE ExpressionStep
  BY <1>3, ExpressionCallGoals, SimpleExpressions, AssignmentExpressionGoals,
     MoreInfixGoals, MoreConditionalGoals, MoreAssignmentGoals, UnaryExpressionGoals,
     TransparentSteps, PostfixGoals, LhsExpressionGoals, NewsGoals, IdNameGoals,
     MoreNewGoals, NewArgumentsGoals, MoreSuffixesGoals, ArgumentsGoals,
     PrimaryExpressionGoals, ParenGoals, ObjectPropertyGoals, ReservedKeyGoals,
     PropertyKeyGoals, Zenon
     DEF ExpressionStep
<1>4. CASE StatementStep
  BY <1>4, ItemsGoals, StmtListItemGoals, IdentifierStatementGoals, LabelledGoals,
     MoreLabelsGoals, LabelledBodyGoals, SimpleStatementSteps, TransparentSteps,
     ForHeadGoals, ForLexicalGoals, SimpleForSteps, Zenon
     DEF StatementStep
<1>5. CASE Return \/ UNCHANGED vars \/ Finished
  <2>1. UNCHANGED <<la, todo>> /\ (Alive' => Alive)
    BY <1>5 DEF Return, Finished, vars, Alive, Running
  <2>2. CASE Alive
    BY <2>1, <2>2, SameGoals
  <2>3. CASE ~Alive
    BY <2>1, <2>3 DEF GoalInv
  <2> QED BY <2>2, <2>3
<1> QED BY <1>1, <1>2, <1>3, <1>4, <1>5 DEF Next

\* A slash lexed under one goal is not used under the other, in every parse: what
\* read_op, peek_op and matches_op leave in the buffer and what read, peek and
\* unread_token leave there are never taken by a function that asks with the other
\* goal, except for the regular expression that for_lexical finds after `let`.
THEOREM GoalsCorrect == Spec => []GoalsAgree
<1>1. ASSUME ParserInv, GoalInv PROVE GoalsAgree
  <2>1. ASSUME NEW f \in OperatorGoal, At(f), Is("regexp")
        PROVE  Tok.by = "for_lexical"
    <3>1. /\ Running /\ todo # <<>> /\ This.fn = f /\ la # <<>>
          /\ f \notin Transparent
      BY <1>1, <2>1, AtCall DEF OperatorGoal, Tokenless, Transparent
    <3>2. ~RegExpToken(Tok)
      BY <1>1, <3>1, Relied
    <3> QED BY <2>1, <3>2 DEF RegExpToken, Is
  <2>2. ASSUME At("primary_expression")
        PROVE  ~Is("/")
    <3>1. /\ Running /\ todo # <<>> /\ This.fn = "primary_expression" /\ la # <<>>
      BY <1>1, <2>2, AtCall DEF Tokenless
    <3>2. This.fn \notin Transparent \cup AfterOperand
      BY <3>1 DEF AfterOperand, Transparent
    <3>3. Tok.value # "/"
      BY <1>1, <3>1, <3>2, Relied
    <3> QED BY <3>3 DEF Is
  <2> QED BY <2>1, <2>2 DEF GoalsAgree
<1>2. Init => GoalInv
  BY InitGoals
<1>3. ParserInv /\ GoalInv /\ [Next]_vars => GoalInv'
  BY NextGoals
<1>4. ParserInv /\ GoalInv => GoalsAgree
  BY <1>1
<1> QED BY <1>2, <1>3, <1>4, ParserInvariant, PTL DEF Spec
=============================================================================
