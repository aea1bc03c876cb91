---------------------------- MODULE PendingCalls ----------------------------
(***************************************************************************)
(* What the pending calls of the parser will do to the brackets and to the *)
(* scopes that are open, and that no step of the parser changes what they  *)
(* will do: the part of the proofs about the parser that does not depend   *)
(* on the grammar.                                                         *)
(*                                                                         *)
(* A call moves the brackets that are open from one sequence to another,   *)
(* and so does a sequence of calls: Brackets.  A call is also made in a    *)
(* place, the scopes open around it: a statement is not parsed where `in`  *)
(* is forbidden, nor in the head of a labelled loop.  Nesting says that    *)
(* every pending call is in a place that is right for it, and that the     *)
(* scopes are left in the order in which they were opened.                 *)
(***************************************************************************)
EXTENDS Statements, SequenceTheorems, TLAPS

-----------------------------------------------------------------------------
(***************************************************************************)
(* The calls, by what they may do.                                         *)
(***************************************************************************)
Values == {"target", "pattern", "value"}
Openers == {"(", "[", "{"}
Closers == {")", "]", "}"}
LexedToken ==
  [value : {"EOF"} \cup UNION {s.tokens : s \in Sources}, newline : BOOLEAN,
   by : FunctionNames \cup {"any"}]

ListItems == {"declarator", "const_declarator", "assignment_expression", "expr_list_item"}

\* The calls that are made within an allow_in.
InnerCall ==
  [fn : {"expression", "assignment_expression"}] \cup
  [fn : {"more_comma"}, item : ListItems]

\* The calls for expressions, bindings and functions, and of the helpers.
ExprCall ==
  [fn : ExprFns]
  \cup [fn : {"expect"}, value : {"while", ":", ";", "=", "target"}]
  \cup [fn : {"build"}, value : Values]
  \cup [fn : {"more_comma"}, item : ListItems]
  \cup [fn : {"end_with_auto_semi"}, newline : {"Required", "Optional"}]
  \cup [fn : {"allow_in"}, value : BOOLEAN, calls : Seq(InnerCall)]
  \cup [fn : {"news", "more_new_expression", "new_arguments"}, n : Nat]
  \cup [fn : {"array_elements", "properties"}, patt : BOOLEAN]
  \cup [fn : {"more_elements", "more_properties"}, kind : {"hole", "expr", "spread"},
        patt : BOOLEAN]
  \cup [fn : {"accessor"}, kind : {"get", "set"}]
  \cup [fn : {"property_key"}, method : BOOLEAN]
  \cup [fn : {"more_prop_init"}, id : BOOLEAN]

BracketCall == [fn : {"expect"}, value : Openers \cup Closers]

ForCall == [fn : ForFns]

LoopCall == [fn : {"iteration_body"}]

StmtCall ==
  [fn : StmtFns]
  \cup [fn : {"stmt_list_item"}, allow_decl : BOOLEAN]
  \cup [fn : {"labels", "labelled_body"}, labels : SUBSET Label]

CasesCall == [fn : {"switch_cases"}, found_default : BOOLEAN]

NameToken == {t \in LexedToken : t.value \in Label}

\* The calls that hold a token: it may be given back.
HeldCall ==
  [fn : {"reserved_key", "for_lexical", "directive_rest"}, token : LexedToken]
  \cup [fn : {"identifier_statement"}, token : NameToken, allow_decl : BOOLEAN]
  \cup [fn : {"more_labels"}, labels : SUBSET Label, token : NameToken]

LeaveCall == [fn : {"leave"}, scope : Scope]

\* The calls that a step may push: all but those that hold a token or leave a
\* scope.
LoopHeadCall == ExprCall \cup BracketCall \cup ForCall \cup LoopCall
PushedCall == LoopHeadCall \cup StmtCall \cup CasesCall
AnyCall == PushedCall \cup HeldCall \cup LeaveCall

\* The functions that are called where statements may stand, and those that may
\* be called in the head of a labelled loop.
StatementFns ==
  StmtFns \cup {"stmt_list_item", "labels", "labelled_body", "switch_cases",
                "identifier_statement", "more_labels", "directive_rest"}
LoopHeadFns == ForFns \cup {"for_lexical", "iteration_body"}

-----------------------------------------------------------------------------
(***************************************************************************)
(* Brackets.                                                               *)
(***************************************************************************)
ClosesParen(c) == c.fn \in ForFns \cup {"for_lexical"}
IsBracket(c, S) == c.fn = "expect" /\ c.value \in S

Neutral(c) ==
  /\ ~ClosesParen(c) /\ c.fn # "switch_cases"
  /\ ~IsBracket(c, Openers \cup Closers)

\* Call c finds the brackets o open, and leaves p open.
Moves(c, o, p) ==
  /\ IsBracket(c, Openers) => p = Append(o, Closer(c.value))
  /\ IsBracket(c, Closers) => o = Append(p, c.value)
  /\ ClosesParen(c) => o = Append(p, ")")
  /\ c.fn = "switch_cases" => o = Append(p, "}")
  /\ Neutral(c) => o = p

BracketStacks == Seq(Closers)

Brackets(cs, o, p) ==
  \E g \in [1 .. Len(cs) + 1 -> BracketStacks] :
    /\ g[1] = o /\ g[Len(cs) + 1] = p
    /\ \A i \in 1 .. Len(cs) : Moves(cs[i], g[i], g[i + 1])

-----------------------------------------------------------------------------
(***************************************************************************)
(* Scopes.                                                                 *)
(***************************************************************************)
ScopeStacks == Seq(Scope)

LoopLabel(s) == s.fn = "with_labels" /\ s.type = "Iteration"

InAllowed(ss) == ~Scopes!InNotAllowed(ss, Len(ss))

\* In the innermost function, `in` is an operator, and every label of a loop but
\* the last one opened has its loop.
LoopHeadPlace(ss) ==
  /\ InAllowed(ss)
  /\ \A k \in Scopes!Local(ss, Len(ss)) \ {Len(ss)} :
       LoopLabel(ss[k]) => ss[k + 1].fn = "iteration_body"

StatementPlace(ss) ==
  LoopHeadPlace(ss) /\ (ss # <<>> => ~LoopLabel(ss[Len(ss)]))

\* Call c is made with the scopes ss open, and ends with the scopes tt open.
Placed(c, ss, tt) ==
  /\ IF c.fn = "leave" THEN ss = Append(tt, c.scope) ELSE ss = tt
  /\ c.fn \in LoopHeadFns => LoopHeadPlace(ss)
  /\ c.fn \in StatementFns => StatementPlace(ss)

Nesting(cs, ss, tt) ==
  \E h \in [1 .. Len(cs) + 1 -> ScopeStacks] :
    /\ h[1] = ss /\ h[Len(cs) + 1] = tt
    /\ \A i \in 1 .. Len(cs) : Placed(cs[i], h[i], h[i + 1])

-----------------------------------------------------------------------------
(***************************************************************************)
(* The inductive invariant of the parser.                                  *)
(***************************************************************************)
Alive == result \in {"parsing", "ok"}

JumpRecord ==
  [stmt : {"none", "break", "continue", "return"}, label : Label \cup {None},
   accepted : BOOLEAN]

Types ==
  /\ TypeOK
  /\ todo \in Seq(AnyCall)
  /\ scopes \in ScopeStacks
  /\ jump \in JumpRecord
  /\ Running => jump.accepted

\* A call that holds a token is the one at hand, and at most one other token has
\* been read since.
Held ==
  /\ Len(la) <= 2
  /\ Alive => \A i \in DOMAIN todo :
       todo[i].fn \in Holders => i = 1 /\ Len(la) <= 1 /\ todo[i].token \in Token

Bracketed == Alive => Brackets(todo, open, <<>>)

\* The statement at hand is a loop, and it may be the one that labels just read
\* are for.
LoopStart ==
  /\ todo # <<>> /\ Head(todo) = Statement
  /\ la # <<>> /\ Tok.value \in {"do", "while", "for"}

Nested ==
  Alive =>
    \/ Nesting(todo, scopes, <<>>)
    \/ LoopStart /\ LoopHeadPlace(scopes) /\ Nesting(Tail(todo), scopes, <<>>)

\* A program and a module are read until the end of the source.
ToTheEnd ==
  Alive /\ source.entry # "script" =>
    IF todo = <<>> THEN la # <<>> /\ Is("EOF")
    ELSE Last(todo) = Call("program_items")

\* A parse that succeeds has made all its calls.
Done == result = "ok" => todo = <<>>

ParserInv == Types /\ Held /\ Bracketed /\ Nested /\ ToTheEnd /\ Done

-----------------------------------------------------------------------------
(***************************************************************************)
(* Sequences of calls, and what they do.                                   *)
(***************************************************************************)
LEMMA Splice ==
  ASSUME NEW S, NEW s \in Seq(S), s # <<>>, NEW t \in Seq(S)
  PROVE  /\ t \o Tail(s) \in Seq(S)
         /\ Len(t \o Tail(s)) = Len(t) + Len(s) - 1
         /\ \A i \in 1 .. Len(t) : (t \o Tail(s))[i] = t[i]
         /\ \A i \in 1 .. Len(s) - 1 : (t \o Tail(s))[Len(t) + i] = s[i + 1]
         /\ Len(s) \in Nat \ {0} /\ Head(s) = s[1] /\ Head(s) \in S
         /\ Tail(s) \in Seq(S) /\ Len(Tail(s)) = Len(s) - 1
         /\ \A i \in 1 .. Len(s) - 1 : Tail(s)[i] = s[i + 1]
OBVIOUS

\* What a sequence of calls does, its first call and the others do in turn.
LEMMA BracketsFirst ==
  ASSUME NEW cs \in Seq(AnyCall), cs # <<>>, NEW o, NEW p, Brackets(cs, o, p)
  PROVE  \E q \in BracketStacks : Moves(Head(cs), o, q) /\ Brackets(Tail(cs), q, p)
<1>1. PICK g \in [1 .. Len(cs) + 1 -> BracketStacks] :
        /\ g[1] = o /\ g[Len(cs) + 1] = p
        /\ \A i \in 1 .. Len(cs) : Moves(cs[i], g[i], g[i + 1])
  BY DEF Brackets
<1>2. /\ Len(cs) \in Nat \ {0} /\ Head(cs) = cs[1] /\ Len(Tail(cs)) = Len(cs) - 1
      /\ \A i \in 1 .. Len(cs) - 1 : Tail(cs)[i] = cs[i + 1]
  OBVIOUS
<1> DEFINE h == [i \in 1 .. Len(cs) |-> g[i + 1]]
<1>3. h \in [1 .. Len(Tail(cs)) + 1 -> BracketStacks]
  BY <1>1, <1>2
<1>4. \A i \in 1 .. Len(Tail(cs)) : Moves(Tail(cs)[i], h[i], h[i + 1])
  <2> SUFFICES ASSUME NEW i \in 1 .. Len(cs) - 1
               PROVE  Moves(Tail(cs)[i], h[i], h[i + 1])
    BY <1>2
  <2>1. Moves(cs[i + 1], g[i + 1], g[(i + 1) + 1])
    BY <1>1, <1>2
  <2> QED BY <1>2, <2>1
<1>5. h[1] = g[2] /\ h[Len(Tail(cs)) + 1] = p /\ g[2] \in BracketStacks
  BY <1>1, <1>2
<1>6. Moves(Head(cs), o, g[2])
  BY <1>1, <1>2
<1> HIDE DEF h
<1>7. Brackets(Tail(cs), g[2], p)
  BY <1>3, <1>4, <1>5 DEF Brackets
<1> QED BY <1>5, <1>6, <1>7

LEMMA BracketsConcat ==
  ASSUME NEW cs \in Seq(AnyCall), NEW ds \in Seq(AnyCall), NEW o, NEW p, NEW q,
         Brackets(cs, o, p), Brackets(ds, p, q)
  PROVE  Brackets(cs \o ds, o, q)
<1>1. PICK g \in [1 .. Len(cs) + 1 -> BracketStacks] :
        /\ g[1] = o /\ g[Len(cs) + 1] = p
        /\ \A i \in 1 .. Len(cs) : Moves(cs[i], g[i], g[i + 1])
  BY DEF Brackets
<1>2. PICK h \in [1 .. Len(ds) + 1 -> BracketStacks] :
        /\ h[1] = p /\ h[Len(ds) + 1] = q
        /\ \A i \in 1 .. Len(ds) : Moves(ds[i], h[i], h[i + 1])
  BY DEF Brackets
<1> DEFINE m == Len(cs)
           n == Len(ds)
           k == [i \in 1 .. (m + n) + 1 |-> IF i <= m THEN g[i] ELSE h[i - m]]
<1>3. /\ m \in Nat /\ n \in Nat /\ Len(cs \o ds) = m + n
      /\ \A i \in 1 .. m : (cs \o ds)[i] = cs[i]
      /\ \A i \in m + 1 .. m + n : (cs \o ds)[i] = ds[i - m]
  OBVIOUS
<1>4. k \in [1 .. (m + n) + 1 -> BracketStacks]
  <2>1. ASSUME NEW i \in 1 .. (m + n) + 1
        PROVE  (IF i <= m THEN g[i] ELSE h[i - m]) \in BracketStacks
    <3>1. CASE i <= m
      <4>1. i \in 1 .. Len(cs) + 1
        BY <3>1
      <4> QED BY <3>1, <4>1
    <3>2. CASE ~(i <= m)
      <4>1. i - m \in 1 .. Len(ds) + 1
        BY <3>2
      <4> QED BY <3>2, <4>1
    <3> QED BY <3>1, <3>2
  <2> QED BY <2>1
<1>5. k[1] = o /\ k[(m + n) + 1] = q
  BY <1>1, <1>2, <1>3
<1>6. \A i \in 1 .. m + n : Moves((cs \o ds)[i], k[i], k[i + 1])
  <2> SUFFICES ASSUME NEW i \in 1 .. m + n
               PROVE  Moves((cs \o ds)[i], k[i], k[i + 1])
    OBVIOUS
  <2>1. CASE i < m
    BY <1>1, <1>3, <2>1
  <2>2. CASE i = m
    BY <1>1, <1>2, <1>3, <2>2
  <2>3. CASE i > m
    <3>1. i - m \in 1 .. n /\ (i - m) + 1 = (i + 1) - m
      BY <1>3, <2>3
    <3>2. Moves(ds[i - m], h[i - m], h[(i - m) + 1])
      BY <1>2, <3>1
    <3>3. k[i] = h[i - m] /\ k[i + 1] = h[(i + 1) - m] /\ (cs \o ds)[i] = ds[i - m]
      BY <1>3, <2>3
    <3> QED BY <3>1, <3>2, <3>3
  <2> QED BY <1>3, <2>1, <2>2, <2>3
<1>7. Len(cs \o ds) = m + n
  BY <1>3
<1> HIDE DEF k, m, n
<1>8. ASSUME NEW c, c = cs \o ds
      PROVE  Brackets(c, o, q)
  <2>1. /\ k \in [1 .. Len(c) + 1 -> BracketStacks]
        /\ k[1] = o /\ k[Len(c) + 1] = q
        /\ \A i \in 1 .. Len(c) : Moves(c[i], k[i], k[i + 1])
    BY <1>4, <1>5, <1>6, <1>7, <1>8, Zenon
  <2> QED BY <2>1 DEF Brackets
<1> QED BY <1>8

\* Calls that open and close no bracket leave the brackets alone.
LEMMA NeutralMoves == ASSUME NEW c, Neutral(c), NEW o PROVE Moves(c, o, o)
BY DEF Neutral, Moves, IsBracket

LEMMA BracketsNeutral ==
  ASSUME NEW cs \in Seq(AnyCall), \A i \in 1 .. Len(cs) : Neutral(cs[i]),
         NEW o \in BracketStacks
  PROVE  Brackets(cs, o, o)
<1> DEFINE g == [i \in 1 .. Len(cs) + 1 |-> o]
<1>1. Len(cs) \in Nat /\ g \in [1 .. Len(cs) + 1 -> BracketStacks]
  OBVIOUS
<1>2. g[1] = o /\ g[Len(cs) + 1] = o
  BY <1>1
<1>3. \A i \in 1 .. Len(cs) : Moves(cs[i], g[i], g[i + 1])
  BY <1>1, NeutralMoves
<1> HIDE DEF g
<1> QED BY <1>1, <1>2, <1>3 DEF Brackets

\* One call, number k, turns the brackets p into o, and the others leave them alone.
LEMMA BracketsTurn ==
  ASSUME NEW cs \in Seq(AnyCall), NEW k \in 1 .. Len(cs),
         NEW p \in BracketStacks, NEW o \in BracketStacks, Moves(cs[k], p, o),
         \A i \in 1 .. Len(cs) : i # k => Neutral(cs[i])
  PROVE  Brackets(cs, p, o)
<1> DEFINE g == [i \in 1 .. Len(cs) + 1 |-> IF i <= k THEN p ELSE o]
<1>1. Len(cs) \in Nat /\ g \in [1 .. Len(cs) + 1 -> BracketStacks]
  OBVIOUS
<1>2. g[1] = p /\ g[Len(cs) + 1] = o
  BY <1>1
<1>3. \A i \in 1 .. Len(cs) : Moves(cs[i], g[i], g[i + 1])
  <2> SUFFICES ASSUME NEW i \in 1 .. Len(cs) PROVE Moves(cs[i], g[i], g[i + 1])
    OBVIOUS
  <2>1. CASE i = k
    <3>1. g[i] = p /\ g[i + 1] = o
      BY <1>1, <2>1
    <3> QED BY <2>1, <3>1
  <2>2. CASE i # k
    <3>1. g[i] = g[i + 1]
      BY <1>1, <2>2
    <3> QED BY <2>2, <3>1, NeutralMoves
  <2> QED BY <2>1, <2>2
<1> HIDE DEF g
<1> QED BY <1>1, <1>2, <1>3 DEF Brackets

\* Call number j opens a bracket, the later call k closes it, and the others leave
\* the brackets alone.
LEMMA BracketsPair ==
  ASSUME NEW cs \in Seq(AnyCall), NEW j \in 1 .. Len(cs), NEW k \in j + 1 .. Len(cs),
         NEW p \in BracketStacks, NEW o \in BracketStacks,
         Moves(cs[j], o, p), Moves(cs[k], p, o),
         \A i \in 1 .. Len(cs) : i \notin {j, k} => Neutral(cs[i])
  PROVE  Brackets(cs, o, o)
<1> DEFINE g == [i \in 1 .. Len(cs) + 1 |-> IF j < i /\ i <= k THEN p ELSE o]
<1>1. Len(cs) \in Nat /\ g \in [1 .. Len(cs) + 1 -> BracketStacks]
  OBVIOUS
<1>2. g[1] = o /\ g[Len(cs) + 1] = o
  BY <1>1
<1>3. \A i \in 1 .. Len(cs) : Moves(cs[i], g[i], g[i + 1])
  <2> SUFFICES ASSUME NEW i \in 1 .. Len(cs) PROVE Moves(cs[i], g[i], g[i + 1])
    OBVIOUS
  <2>1. CASE i = j
    <3>1. g[i] = o /\ g[i + 1] = p
      BY <1>1, <2>1
    <3> QED BY <2>1, <3>1
  <2>2. CASE i = k
    <3>1. g[i] = p /\ g[i + 1] = o
      BY <1>1, <2>2
    <3> QED BY <2>2, <3>1
  <2>3. CASE i \notin {j, k}
    <3>1. g[i] = g[i + 1]
      BY <1>1, <2>3
    <3> QED BY <2>3, <3>1, NeutralMoves
  <2> QED BY <2>1, <2>2, <2>3
<1> HIDE DEF g
<1> QED BY <1>1, <1>2, <1>3 DEF Brackets

\* A step that replaces the call at hand by calls that do to the brackets what it
\* would have done.
LEMMA BracketsStep ==
  ASSUME NEW cs \in Seq(AnyCall), cs # <<>>, NEW ds \in Seq(AnyCall),
         NEW o, NEW p, NEW q, Brackets(cs, o, q),
         \A r \in BracketStacks : Moves(Head(cs), o, r) => Brackets(ds, p, r)
  PROVE  Brackets(ds \o Tail(cs), p, q)
<1>1. PICK r \in BracketStacks : Moves(Head(cs), o, r) /\ Brackets(Tail(cs), r, q)
  BY BracketsFirst
<1>2. Tail(cs) \in Seq(AnyCall)
  OBVIOUS
<1> QED BY <1>1, <1>2, BracketsConcat

-----------------------------------------------------------------------------
LEMMA NestingFirst ==
  ASSUME NEW cs \in Seq(AnyCall), cs # <<>>, NEW ss, NEW tt, Nesting(cs, ss, tt)
  PROVE  \E uu \in ScopeStacks : Placed(Head(cs), ss, uu) /\ Nesting(Tail(cs), uu, tt)
<1>1. PICK g \in [1 .. Len(cs) + 1 -> ScopeStacks] :
        /\ g[1] = ss /\ g[Len(cs) + 1] = tt
        /\ \A i \in 1 .. Len(cs) : Placed(cs[i], g[i], g[i + 1])
  BY DEF Nesting
<1>2. /\ Len(cs) \in Nat \ {0} /\ Head(cs) = cs[1] /\ Len(Tail(cs)) = Len(cs) - 1
      /\ \A i \in 1 .. Len(cs) - 1 : Tail(cs)[i] = cs[i + 1]
  OBVIOUS
<1> DEFINE h == [i \in 1 .. Len(cs) |-> g[i + 1]]
<1>3. h \in [1 .. Len(Tail(cs)) + 1 -> ScopeStacks]
  BY <1>1, <1>2
<1>4. \A i \in 1 .. Len(Tail(cs)) : Placed(Tail(cs)[i], h[i], h[i + 1])
  <2> SUFFICES ASSUME NEW i \in 1 .. Len(cs) - 1
               PROVE  Placed(Tail(cs)[i], h[i], h[i + 1])
    BY <1>2
  <2>1. Placed(cs[i + 1], g[i + 1], g[(i + 1) + 1])
    BY <1>1, <1>2
  <2> QED BY <1>2, <2>1
<1>5. h[1] = g[2] /\ h[Len(Tail(cs)) + 1] = tt /\ g[2] \in ScopeStacks
  BY <1>1, <1>2
<1>6. Placed(Head(cs), ss, g[2])
  BY <1>1, <1>2
<1> HIDE DEF h
<1>7. Nesting(Tail(cs), g[2], tt)
  BY <1>3, <1>4, <1>5 DEF Nesting
<1> QED BY <1>5, <1>6, <1>7

LEMMA NestingConcat ==
  ASSUME NEW cs \in Seq(AnyCall), NEW ds \in Seq(AnyCall), NEW ss, NEW tt, NEW uu,
         Nesting(cs, ss, tt), Nesting(ds, tt, uu)
  PROVE  Nesting(cs \o ds, ss, uu)
<1>1. PICK g \in [1 .. Len(cs) + 1 -> ScopeStacks] :
        /\ g[1] = ss /\ g[Len(cs) + 1] = tt
        /\ \A i \in 1 .. Len(cs) : Placed(cs[i], g[i], g[i + 1])
  BY DEF Nesting
<1>2. PICK h \in [1 .. Len(ds) + 1 -> ScopeStacks] :
        /\ h[1] = tt /\ h[Len(ds) + 1] = uu
        /\ \A i \in 1 .. Len(ds) : Placed(ds[i], h[i], h[i + 1])
  BY DEF Nesting
<1> DEFINE m == Len(cs)
           n == Len(ds)
           k == [i \in 1 .. (m + n) + 1 |-> IF i <= m THEN g[i] ELSE h[i - m]]
<1>3. /\ m \in Nat /\ n \in Nat /\ Len(cs \o ds) = m + n
      /\ \A i \in 1 .. m : (cs \o ds)[i] = cs[i]
      /\ \A i \in m + 1 .. m + n : (cs \o ds)[i] = ds[i - m]
  OBVIOUS
<1>4. k \in [1 .. (m + n) + 1 -> ScopeStacks]
  <2>1. ASSUME NEW i \in 1 .. (m + n) + 1
        PROVE  (IF i <= m THEN g[i] ELSE h[i - m]) \in ScopeStacks
    <3>1. CASE i <= m
      <4>1. i \in 1 .. Len(cs) + 1
        BY <3>1
      <4> QED BY <3>1, <4>1
    <3>2. CASE ~(i <= m)
      <4>1. i - m \in 1 .. Len(ds) + 1
        BY <3>2
      <4> QED BY <3>2, <4>1
    <3> QED BY <3>1, <3>2
  <2> QED BY <2>1
<1>5. k[1] = ss /\ k[(m + n) + 1] = uu
  BY <1>1, <1>2, <1>3
<1>6. \A i \in 1 .. m + n : Placed((cs \o ds)[i], k[i], k[i + 1])
  <2> SUFFICES ASSUME NEW i \in 1 .. m + n
               PROVE  Placed((cs \o ds)[i], k[i], k[i + 1])
    OBVIOUS
  <2>1. CASE i < m
    BY <1>1, <1>3, <2>1
  <2>2. CASE i = m
    BY <1>1, <1>2, <1>3, <2>2
  <2>3. CASE i > m
    <3>1. i - m \in 1 .. n /\ (i - m) + 1 = (i + 1) - m
      BY <1>3, <2>3
    <3>2. Placed(ds[i - m], h[i - m], h[(i - m) + 1])
      BY <1>2, <3>1
    <3>3. k[i] = h[i - m] /\ k[i + 1] = h[(i + 1) - m] /\ (cs \o ds)[i] = ds[i - m]
      BY <1>3, <2>3
    <3> QED BY <3>1, <3>2, <3>3
  <2> QED BY <1>3, <2>1, <2>2, <2>3
<1>7. Len(cs \o ds) = m + n
  BY <1>3
<1> HIDE DEF k, m, n
<1>8. ASSUME NEW c, c = cs \o ds
      PROVE  Nesting(c, ss, uu)
  <2>1. /\ k \in [1 .. Len(c) + 1 -> ScopeStacks]
        /\ k[1] = ss /\ k[Len(c) + 1] = uu
        /\ \A i \in 1 .. Len(c) : Placed(c[i], k[i], k[i + 1])
    BY <1>4, <1>5, <1>6, <1>7, <1>8, Zenon
  <2> QED BY <2>1 DEF Nesting
<1> QED BY <1>8

\* Calls that are all made with the same scopes open.
LEMMA NestingFlat ==
  ASSUME NEW cs \in Seq(AnyCall), NEW ss \in ScopeStacks,
         \A i \in 1 .. Len(cs) : Placed(cs[i], ss, ss)
  PROVE  Nesting(cs, ss, ss)
<1> DEFINE g == [i \in 1 .. Len(cs) + 1 |-> ss]
<1>1. Len(cs) \in Nat /\ g \in [1 .. Len(cs) + 1 -> ScopeStacks]
  OBVIOUS
<1>2. g[1] = ss /\ g[Len(cs) + 1] = ss
  BY <1>1
<1>3. \A i \in 1 .. Len(cs) : Placed(cs[i], g[i], g[i + 1])
  BY <1>1
<1> HIDE DEF g
<1> QED BY <1>1, <1>2, <1>3 DEF Nesting

LEMMA NestingStep ==
  ASSUME NEW cs \in Seq(AnyCall), cs # <<>>, NEW ds \in Seq(AnyCall),
         NEW ss, NEW tt, NEW uu, Nesting(cs, ss, uu),
         \A vv \in ScopeStacks : Placed(Head(cs), ss, vv) => Nesting(ds, tt, vv)
  PROVE  Nesting(ds \o Tail(cs), tt, uu)
<1>1. PICK vv \in ScopeStacks : Placed(Head(cs), ss, vv) /\ Nesting(Tail(cs), vv, uu)
  BY NestingFirst
<1>2. Tail(cs) \in Seq(AnyCall)
  OBVIOUS
<1> QED BY <1>1, <1>2, NestingConcat

-----------------------------------------------------------------------------
(***************************************************************************)
(* The calls: their fields, their places, and what they do to brackets.    *)
(***************************************************************************)
LEMMA FnsOfCalls ==
  ASSUME NEW c
  PROVE  /\ c \in ExprCall => c.fn \in ExprFns \cup ArgumentFns
         /\ c \in BracketCall => c.fn = "expect"
         /\ c \in ForCall => c.fn \in ForFns
         /\ c \in LoopCall => c.fn = "iteration_body"
         /\ c \in StmtCall =>
              c.fn \in StmtFns \cup {"stmt_list_item", "labels", "labelled_body"}
         /\ c \in CasesCall => c.fn = "switch_cases"
         /\ c \in HeldCall => c.fn \in Holders
         /\ c \in LeaveCall => c.fn = "leave"
<1>1. c \in ExprCall => c.fn \in ExprFns \cup ArgumentFns
  <2> SUFFICES ASSUME c \in ExprCall PROVE c.fn \in ExprFns \cup ArgumentFns
    OBVIOUS
  <2> QED BY DEF ExprCall, ArgumentFns
<1>2. /\ c \in BracketCall => c.fn = "expect"
      /\ c \in ForCall => c.fn \in ForFns
      /\ c \in LoopCall => c.fn = "iteration_body"
      /\ c \in StmtCall =>
           c.fn \in StmtFns \cup {"stmt_list_item", "labels", "labelled_body"}
      /\ c \in CasesCall => c.fn = "switch_cases"
      /\ c \in HeldCall => c.fn \in Holders
      /\ c \in LeaveCall => c.fn = "leave"
  BY DEF LoopCall, StmtCall, ForCall, BracketCall, CasesCall, HeldCall, Holders,
     LeaveCall
<1> QED BY <1>1, <1>2

LEMMA FnOfAny == ASSUME NEW c \in AnyCall PROVE c.fn \in FunctionNames
BY FnsOfCalls DEF AnyCall, PushedCall, LoopHeadCall, FunctionNames, ArgumentFns

LEMMA PushedFn == ASSUME NEW c \in PushedCall PROVE c.fn \notin Holders \cup {"leave"}
BY FnsOfCalls DEF PushedCall, LoopHeadCall, ExprFns, ArgumentFns, ForFns, StmtFns, Holders

LEMMA NeutralCalls ==
  ASSUME NEW c \in ExprCall \cup LoopCall \cup StmtCall PROVE Neutral(c)
<1>1. c.fn = "expect" => c.value \in {"while", ":", ";", "=", "target"}
  BY DEF ExprCall, LoopCall, StmtCall, ExprFns, StmtFns
<1> QED
  BY <1>1, FnsOfCalls DEF Neutral, ClosesParen, IsBracket, Openers, Closers, ExprFns,
     ArgumentFns, ForFns, StmtFns

LEMMA NeutralOthers ==
  ASSUME NEW c, c.fn \in Holders \cup {"leave"}, c.fn # "for_lexical"
  PROVE  Neutral(c)
BY DEF Neutral, ClosesParen, IsBracket, Holders, ForFns

LEMMA ExprPlaced ==
  ASSUME NEW ss, NEW c \in ExprCall \cup BracketCall PROVE Placed(c, ss, ss)
<1>1. c.fn \notin {"leave"} \cup LoopHeadFns \cup StatementFns
  BY FnsOfCalls DEF ExprFns, ArgumentFns, ForFns, StmtFns, LoopHeadFns, StatementFns
<1> QED BY <1>1 DEF Placed

LEMMA LoopHeadPlaced ==
  ASSUME NEW ss, LoopHeadPlace(ss), NEW c \in LoopHeadCall PROVE Placed(c, ss, ss)
<1>1. c.fn \notin {"leave"} \cup StatementFns
  BY FnsOfCalls
     DEF LoopHeadCall, ExprFns, ArgumentFns, ForFns, StmtFns, StatementFns
<1> QED BY <1>1 DEF Placed

LEMMA StatementPlaced ==
  ASSUME NEW ss, StatementPlace(ss), NEW c \in PushedCall \cup HeldCall
  PROVE  Placed(c, ss, ss)
<1>1. c.fn # "leave"
  BY PushedFn, FnsOfCalls DEF Holders
<1> QED BY <1>1 DEF Placed, StatementPlace

LEMMA CallFields ==
  ASSUME NEW c \in AnyCall
  PROVE  /\ c.fn = "expect" =>
              c.value \in {"while", ":", ";", "=", "target"} \cup Openers \cup Closers
         /\ c.fn = "build" => c.value \in Values
         /\ c.fn = "more_comma" => c.item \in ListItems
         /\ c.fn = "allow_in" => c.value \in BOOLEAN /\ c.calls \in Seq(InnerCall)
         /\ c.fn \in {"news", "more_new_expression", "new_arguments"} => c.n \in Nat
         /\ c.fn \in {"array_elements", "properties"} => c.patt \in BOOLEAN
         /\ c.fn \in {"more_elements", "more_properties"} =>
              c.kind \in {"hole", "expr", "spread"} /\ c.patt \in BOOLEAN
         /\ c.fn = "property_key" => c.method \in BOOLEAN
         /\ c.fn = "more_prop_init" => c.id \in BOOLEAN
<1>1. c \in ExprCall \/ c \in BracketCall \/ c.fn \notin ArgumentFns
  BY FnsOfCalls
     DEF AnyCall, PushedCall, LoopHeadCall, ForFns, StmtFns, Holders, ArgumentFns
<1>2. CASE c \in ExprCall
  BY <1>2 DEF ExprCall, ExprFns
<1>3. CASE c \in BracketCall
  BY <1>3 DEF BracketCall
<1>4. CASE c.fn \notin ArgumentFns
  BY <1>4 DEF ArgumentFns
<1> QED BY <1>1, <1>2, <1>3, <1>4

LEMMA StatementFields ==
  ASSUME NEW c \in AnyCall
  PROVE  /\ c.fn = "stmt_list_item" =>
              c.allow_decl \in BOOLEAN /\ c \in {Statement, Declaration}
         /\ c.fn \in {"labels", "labelled_body", "more_labels"} => c.labels \subseteq Label
         /\ c.fn \in Holders => c.token \in LexedToken
         /\ c.fn = "leave" => c.scope \in Scope
         /\ c.fn = "switch_cases" => c \in CasesCall
         /\ c.fn = "identifier_statement" => c.allow_decl \in BOOLEAN
         /\ c.fn \in {"identifier_statement", "more_labels"} => c.token.value \in Label
<1>1. c \in StmtCall \/ c.fn \notin {"stmt_list_item", "labels", "labelled_body"}
  BY FnsOfCalls
     DEF AnyCall, PushedCall, LoopHeadCall, ForFns, Holders, ExprFns, ArgumentFns
<1>2. c \in HeldCall \/ c.fn \notin Holders
  BY FnsOfCalls, PushedFn DEF AnyCall, Holders
<1>3. c \in LeaveCall \/ c.fn # "leave"
  BY FnsOfCalls, PushedFn DEF AnyCall, Holders
<1>4. c \in CasesCall \/ c.fn # "switch_cases"
  BY FnsOfCalls
     DEF AnyCall, PushedCall, LoopHeadCall, ForFns, StmtFns, Holders, ExprFns, ArgumentFns
<1>5. c \in StmtCall =>
         /\ c.fn = "stmt_list_item" =>
              c.allow_decl \in BOOLEAN /\ c \in {Statement, Declaration}
         /\ c.fn \in {"labels", "labelled_body"} => c.labels \subseteq Label
  BY DEF StmtCall, StmtFns, Statement, Declaration
<1>6. c \in HeldCall =>
         /\ c.token \in LexedToken
         /\ c.fn = "more_labels" => c.labels \subseteq Label
         /\ c.fn = "identifier_statement" => c.allow_decl \in BOOLEAN
         /\ c.fn \in {"identifier_statement", "more_labels"} => c.token.value \in Label
  BY DEF HeldCall, NameToken
<1>7. c \in LeaveCall => c.scope \in Scope
  BY DEF LeaveCall
<1> QED BY <1>1, <1>2, <1>3, <1>4, <1>5, <1>6, <1>7 DEF Holders

-----------------------------------------------------------------------------
(***************************************************************************)
(* The instance of ParserScopes, and of what is proved of it.              *)
(***************************************************************************)
ScopesProofs == INSTANCE ParserScopesProofs
  WITH Depths <- Nat, NestedDuplicates <- TRUE

LEMMA InstanceAssumptions ==
  ScopesProofs!ScopesAssumption /\ ScopesProofs!NoneAssumption
BY NoneAssumption DEF ScopesProofs!ScopesAssumption, ScopesProofs!NoneAssumption

LEMMA SameContext ==
  /\ ScopesProofs!ContextRecord = ContextRecord
  /\ ScopesProofs!Scope = Scope
BY DEF ScopesProofs!ContextRecord, ContextRecord, ScopesProofs!Labels, Labels,
   ScopesProofs!LabelType, LabelType, ScopesProofs!Scope, Scope,
   ScopesProofs!FunctionScope, FunctionScope, ScopesProofs!FlagScope, FlagScope,
   ScopesProofs!AllowInScope, AllowInScope, ScopesProofs!LabelScope, LabelScope

LEMMA SameChanges ==
  ASSUME NEW c, NEW s
  PROVE  /\ ScopesProofs!Entered(c, s) = Entered(c, s)
         /\ ScopesProofs!Left(c, s) = Left(c, s)
BY Zenon
   DEF ScopesProofs!Entered, Entered, ScopesProofs!Left, Left,
   ScopesProofs!NewFunction, NewFunction, ScopesProofs!NoLabels, NoLabels,
   ScopesProofs!InsertLabels, InsertLabels, ScopesProofs!RemoveLabels, RemoveLabels

LEMMA ContextTypes ==
  ASSUME NEW c \in ContextRecord, NEW s \in Scope
  PROVE  Entered(c, s) \in ContextRecord /\ Left(c, s) \in ContextRecord
BY ScopesProofs!EnteredType, ScopesProofs!LeftType, InstanceAssumptions, SameContext,
   SameChanges

-----------------------------------------------------------------------------
(***************************************************************************)
(* The steps that all functions share, and the invariant.                  *)
(***************************************************************************)
LEMMA TokenType == source \in Sources => Token \subseteq LexedToken
BY DEF Token, LexedToken

\* The call at hand: what it will do, and the place it is in.
LEMMA AtHand ==
  ASSUME ParserInv, Alive, todo # <<>>
  PROVE  /\ This \in AnyCall /\ Tail(todo) \in Seq(AnyCall)
         /\ scopes \in ScopeStacks /\ open \in BracketStacks
         /\ \E q \in BracketStacks : Moves(This, open, q) /\ Brackets(Tail(todo), q, <<>>)
         /\ This.fn # "leave" => Nesting(Tail(todo), scopes, <<>>)
         /\ This.fn \in LoopHeadFns \cup StatementFns => LoopHeadPlace(scopes)
         /\ This.fn \in StatementFns /\ ~LoopStart => StatementPlace(scopes)
<1>1. todo \in Seq(AnyCall) /\ scopes \in ScopeStacks
  BY DEF ParserInv, Types
<1>2. This \in AnyCall /\ Tail(todo) \in Seq(AnyCall) /\ This = Head(todo)
  BY <1>1, Splice DEF This
<1>3. Brackets(todo, open, <<>>)
  BY DEF ParserInv, Bracketed
<1>4. open \in BracketStacks
  <2>1. PICK g \in [1 .. Len(todo) + 1 -> BracketStacks] : g[1] = open
    BY <1>3 DEF Brackets
  <2>2. 1 \in 1 .. Len(todo) + 1
    BY <1>1
  <2> QED BY <2>1, <2>2
<1>5. \E q \in BracketStacks : Moves(This, open, q) /\ Brackets(Tail(todo), q, <<>>)
  BY <1>1, <1>2, <1>3, BracketsFirst
<1>6. CASE Nesting(todo, scopes, <<>>)
  <2>1. PICK v \in ScopeStacks : Placed(This, scopes, v) /\ Nesting(Tail(todo), v, <<>>)
    BY <1>1, <1>2, <1>6, NestingFirst
  <2> QED BY <1>1, <1>2, <1>4, <1>5, <2>1 DEF Placed, StatementPlace
<1>7. CASE LoopStart /\ LoopHeadPlace(scopes) /\ Nesting(Tail(todo), scopes, <<>>)
  BY <1>1, <1>2, <1>4, <1>5, <1>7
<1> QED BY <1>6, <1>7 DEF ParserInv, Nested

LEMMA FailKeeps ==
  ASSUME ParserInv, NEW e \in Errors, Fail(e)
  PROVE  ParserInv'
<1>1. e \notin {"parsing", "ok"}
  BY DEF Errors
<1>2. /\ UNCHANGED <<source, left, la, open, todo, context, scopes, jump, value>>
      /\ result' = e
  BY DEF Fail
<1>3. ~Alive' /\ ~Running'
  BY <1>1, <1>2 DEF Alive, Running
<1>4. Types'
  BY <1>2, <1>3 DEF ParserInv, Types, TypeOK, Token
<1>5. Held'
  BY <1>2, <1>3 DEF ParserInv, Held
<1> QED BY <1>1, <1>2, <1>3, <1>4, <1>5 DEF ParserInv, Bracketed, Nested, ToTheEnd, Done

\* The calls pending after a step that makes the given calls.
LEMMA Spliced ==
  ASSUME ParserInv, Running, todo # <<>>, NEW calls \in Seq(AnyCall)
  PROVE  /\ calls \o Tail(todo) \in Seq(AnyCall)
         /\ \A i \in DOMAIN (calls \o Tail(todo)) :
              (calls \o Tail(todo))[i].fn \in Holders =>
                i \in 1 .. Len(calls) /\ (calls \o Tail(todo))[i] = calls[i]
         /\ This.fn # "program_items" /\ source.entry # "script" =>
              calls \o Tail(todo) # <<>> /\ Last(calls \o Tail(todo)) = Call("program_items")
<1>1. todo \in Seq(AnyCall) /\ Alive
  BY DEF ParserInv, Types, Alive, Running
<1> DEFINE t == calls \o Tail(todo)
<1>2. /\ t \in Seq(AnyCall) /\ Len(t) = Len(calls) + Len(todo) - 1
      /\ \A i \in 1 .. Len(calls) : t[i] = calls[i]
      /\ \A i \in 1 .. Len(todo) - 1 : t[Len(calls) + i] = todo[i + 1]
      /\ Len(todo) \in Nat \ {0} /\ This = todo[1]
  BY <1>1, Splice DEF This
<1>3. Len(calls) \in Nat /\ Len(todo) \in Nat /\ Len(todo) > 0
  BY <1>2
<1> HIDE DEF t
<1>4. ASSUME NEW i \in DOMAIN t, t[i].fn \in Holders
      PROVE  i \in 1 .. Len(calls) /\ t[i] = calls[i]
  <2>1. i \in 1 .. Len(t)
    BY <1>2
  <2>2. CASE i <= Len(calls)
    BY <1>2, <1>3, <2>1, <2>2
  <2>3. CASE i > Len(calls)
    <3>1. /\ i - Len(calls) \in 1 .. Len(todo) - 1
          /\ i = Len(calls) + (i - Len(calls))
      BY <1>2, <1>3, <2>1, <2>3
    <3>2. t[i] = todo[(i - Len(calls)) + 1]
      BY <1>2, <3>1
    <3>3. (i - Len(calls)) + 1 \in DOMAIN todo /\ (i - Len(calls)) + 1 # 1
      BY <1>1, <1>2, <1>3, <3>1
    <3> QED BY <1>1, <1>4, <3>2, <3>3 DEF ParserInv, Held
  <2> QED BY <1>2, <1>3, <2>1, <2>2, <2>3
<1>5. ASSUME This.fn # "program_items", source.entry # "script"
      PROVE  t # <<>> /\ Last(t) = Call("program_items")
  <2>1. Last(todo) = Call("program_items")
    BY <1>1, <1>5 DEF ParserInv, ToTheEnd
  <2>2. todo[Len(todo)] = Call("program_items") /\ Call("program_items").fn = "program_items"
    BY <2>1 DEF Last, Call
  <2>3. Len(todo) # 1
    BY <1>2, <1>5, <2>2
  <2>4. PICK n \in Nat : n > 0 /\ Len(todo) = n + 1
    <3>1. \A m \in Nat : m > 0 /\ m # 1 => m - 1 \in Nat /\ m - 1 > 0 /\ m = (m - 1) + 1
      OBVIOUS
    <3> QED BY <1>3, <2>3, <3>1
  <2>5. n \in 1 .. Len(todo) - 1
    BY <2>4
  <2>6. t[Len(calls) + n] = todo[n + 1] /\ Len(t) = Len(calls) + n
    BY <1>2, <1>3, <2>4, <2>5
  <2> QED BY <1>2, <1>3, <2>2, <2>4, <2>6 DEF Last
<1> QED BY <1>2, <1>4, <1>5 DEF t

LEMMA BracketStacksTyped ==
  ASSUME NEW s \in BracketStacks PROVE s \in Seq({")", "]", "}", "unmatched"})
<1> DEFINE All == {")", "]", "}", "unmatched"}
<1>1. Closers \subseteq All
  BY DEF Closers
<1> HIDE DEF All
<1>2. s \in Seq(All)
  BY <1>1 DEF BracketStacks
<1> QED BY <1>2 DEF All

\* A step that makes calls which do to the brackets what the call at hand would do.
LEMMA StepKeeps ==
  ASSUME ParserInv, Running, todo # <<>>, This.fn # "program_items" \/ ToTheEnd',
         NEW calls \in Seq(AnyCall), todo' = calls \o Tail(todo),
         UNCHANGED <<source, left, result>>,
         la' \in Seq(Token), Len(la') <= 2, value' \in Values,
         context' \in ContextRecord, scopes' \in ScopeStacks,
         jump' \in JumpRecord, jump'.accepted,
         \A q \in BracketStacks : Moves(This, open, q) => Brackets(calls, open', q),
         Nested',
         \A i \in 1 .. Len(calls) : calls[i].fn \in Holders =>
           i = 1 /\ Len(la') <= 1 /\ calls[i].token \in Token
  PROVE  ParserInv'
<1> DEFINE t == calls \o Tail(todo)
<1>1. todo' = t
  OBVIOUS
<1>2. Alive /\ Running' /\ result' # "ok" /\ Token' = Token
  BY DEF Alive, Running, Token
<1>3. Tail(todo) \in Seq(AnyCall)
  BY <1>2, AtHand
<1>4. /\ t \in Seq(AnyCall)
      /\ \A i \in DOMAIN t : t[i].fn \in Holders => i \in 1 .. Len(calls) /\ t[i] = calls[i]
      /\ This.fn # "program_items" /\ source.entry # "script" =>
           t # <<>> /\ Last(t) = Call("program_items")
  BY Spliced
<1>5. Brackets(t, open', <<>>) /\ open' \in BracketStacks
  <2>1. PICK q \in BracketStacks : Moves(This, open, q) /\ Brackets(Tail(todo), q, <<>>)
    BY <1>2, AtHand
  <2>2. Brackets(calls, open', q)
    BY <2>1
  <2>3. PICK g \in [1 .. Len(calls) + 1 -> BracketStacks] : g[1] = open'
    BY <2>2 DEF Brackets
  <2>4. 1 \in 1 .. Len(calls) + 1
    OBVIOUS
  <2> QED BY <1>3, <2>1, <2>2, <2>3, <2>4, BracketsConcat
<1> HIDE DEF t
<1>6. Types'
  <2>1. open' \in Seq({")", "]", "}", "unmatched"})
    BY <1>5, BracketStacksTyped
  <2>2. \A i \in DOMAIN t : t[i].fn \in FunctionNames
    BY <1>4, FnOfAny
  <2>3. TypeOK'
    BY <1>1, <1>2, <2>1, <2>2 DEF ParserInv, Types, TypeOK, Values, JumpRecord
  <2> QED BY <1>1, <1>2, <1>4, <2>3 DEF Types, Running
<1>7. Held'
  BY <1>1, <1>2, <1>4 DEF Held
<1>8. Bracketed'
  BY <1>1, <1>5 DEF Bracketed
<1>9. ToTheEnd' /\ Done'
  BY <1>1, <1>2, <1>4 DEF ToTheEnd, Done
<1> QED BY <1>6, <1>7, <1>8, <1>9 DEF ParserInv

\* The calls are made in a place that is right for them.
LEMMA PlacedCalls ==
  ASSUME ParserInv, Running, todo # <<>>, NEW calls \in Seq(PushedCall),
         \/ calls \in Seq(ExprCall \cup BracketCall)
         \/ This.fn \in LoopHeadFns \cup StatementFns /\ calls \in Seq(LoopHeadCall)
         \/ This.fn \in StatementFns /\ ~LoopStart
  PROVE  /\ Nesting(calls, scopes, scopes) /\ calls \in Seq(AnyCall)
         /\ \A i \in 1 .. Len(calls) : calls[i].fn \notin Holders
<1>1. Alive
  BY DEF Alive, Running
<1>2. /\ calls \in Seq(AnyCall)
      /\ \A i \in 1 .. Len(calls) : calls[i] \in PushedCall
  BY DEF AnyCall
<1>3. \A i \in 1 .. Len(calls) : Placed(calls[i], scopes, scopes)
  <2> SUFFICES ASSUME NEW i \in 1 .. Len(calls) PROVE Placed(calls[i], scopes, scopes)
    OBVIOUS
  <2>1. CASE calls \in Seq(ExprCall \cup BracketCall)
    <3>1. calls[i] \in ExprCall \cup BracketCall
      BY <2>1
    <3> QED BY <3>1, ExprPlaced
  <2>2. CASE This.fn \in LoopHeadFns \cup StatementFns /\ calls \in Seq(LoopHeadCall)
    <3>1. calls[i] \in LoopHeadCall
      BY <2>2
    <3> QED BY <1>1, <2>2, <3>1, AtHand, LoopHeadPlaced
  <2>3. CASE This.fn \in StatementFns /\ ~LoopStart
    <3>1. StatementPlace(scopes)
      BY <1>1, <2>3, AtHand
    <3> QED BY <1>2, <3>1, StatementPlaced
  <2> QED BY <2>1, <2>2, <2>3
<1>4. Nesting(calls, scopes, scopes)
  BY <1>1, <1>2, <1>3, AtHand, NestingFlat
<1> QED BY <1>2, <1>4, PushedFn

\* Such a step in the scopes of the call at hand.
LEMMA GoKeeps ==
  ASSUME ParserInv, Running, todo # <<>>, This.fn # "leave",
         This.fn # "program_items" \/ ToTheEnd',
         NEW calls \in Seq(AnyCall), Go(calls),
         la' \in Seq(Token), Len(la') <= 2, value' \in Values,
         \A q \in BracketStacks : Moves(This, open, q) => Brackets(calls, open', q),
         Nesting(calls, scopes, scopes),
         \A i \in 1 .. Len(calls) : calls[i].fn \in Holders =>
           i = 1 /\ Len(la') <= 1 /\ calls[i].token \in Token
  PROVE  ParserInv'
<1>1. /\ todo' = calls \o Tail(todo)
      /\ UNCHANGED <<source, left, context, scopes, jump, result>>
  BY DEF Go
<1>2. /\ context' \in ContextRecord /\ scopes' \in ScopeStacks
      /\ jump' \in JumpRecord /\ jump'.accepted
  BY <1>1 DEF ParserInv, Types, TypeOK
<1>3. Nested'
  <2>1. Tail(todo) \in Seq(AnyCall) /\ Nesting(Tail(todo), scopes, <<>>)
    BY AtHand DEF Alive, Running
  <2>2. Nesting(calls \o Tail(todo), scopes, <<>>)
    BY <2>1, NestingConcat
  <2> QED BY <1>1, <2>2 DEF Nested
<1> QED BY <1>1, <1>2, <1>3, StepKeeps

LEMMA PlacedGoKeeps ==
  ASSUME ParserInv, Running, todo # <<>>, This.fn \notin {"leave", "program_items"},
         NEW calls \in Seq(PushedCall), Go(calls),
         \/ calls \in Seq(ExprCall \cup BracketCall)
         \/ This.fn \in LoopHeadFns \cup StatementFns /\ calls \in Seq(LoopHeadCall)
         \/ This.fn \in StatementFns /\ ~LoopStart,
         la' \in Seq(Token), Len(la') <= 2, value' \in Values,
         \A q \in BracketStacks : Moves(This, open, q) => Brackets(calls, open', q)
  PROVE  ParserInv'
BY PlacedCalls, GoKeeps

LEMMA Rest ==
  ASSUME NEW S, NEW s \in Seq(S), s # <<>>
  PROVE  /\ Tail(s) \in Seq(S) /\ Len(Tail(s)) = Len(s) - 1 /\ s[1] \in S
         /\ Len(s) \in Nat /\ Len(s) > 0
OBVIOUS

\* The tokens after a step that consumes one, or none.
PlainToken == ~IsOneOf(Openers \cup Closers)
PlainRead == Read /\ PlainToken

LEMMA TokenAtHand ==
  ASSUME ParserInv, la # <<>>
  PROVE  /\ Tok \in Token /\ Len(la) \in {1, 2}
         /\ Tail(la) \in Seq(Token) /\ Len(Tail(la)) <= 1
<1>1. la \in Seq(Token) /\ Len(la) <= 2
  BY DEF ParserInv, Types, TypeOK, Held
<1>2. /\ Tail(la) \in Seq(Token) /\ Len(Tail(la)) = Len(la) - 1 /\ la[1] \in Token
      /\ Len(la) \in Nat /\ Len(la) > 0
  BY <1>1, Rest
<1> QED BY <1>1, <1>2 DEF Tok

LEMMA ReadTypes ==
  ASSUME ParserInv, la # <<>>, Read
  PROVE  la' \in Seq(Token) /\ Len(la') <= 1
<1>1. Tail(la) \in Seq(Token) /\ Len(Tail(la)) <= 1
  BY TokenAtHand
<1>2. la' = Tail(la)
  BY DEF Read
<1> QED BY <1>1, <1>2, Zenon

LEMMA PlainReadTypes ==
  ASSUME ParserInv, la # <<>>, PlainRead
  PROVE  la' \in Seq(Token) /\ Len(la') <= 1 /\ open' = open
<1>1. OpenAfter(Tok.value) = open
  BY DEF PlainRead, PlainToken, OpenAfter, IsOneOf, Openers, Closers
<1> QED BY <1>1, ReadTypes DEF PlainRead, Read

LEMMA PeekTypes ==
  ASSUME ParserInv, Peek
  PROVE  la' \in Seq(Token) /\ Len(la') <= 2 /\ open' = open
BY DEF ParserInv, Types, TypeOK, Held, Peek

LEMMA UnreadTypes ==
  ASSUME ParserInv, Running, todo # <<>>, This.fn \in Holders, Unread(This.token)
  PROVE  la' \in Seq(Token) /\ Len(la') <= 2 /\ open' = open
<1>1. 1 \in DOMAIN todo /\ This = todo[1]
  BY DEF ParserInv, Types, This
<1>2. Len(la) <= 1 /\ This.token \in Token /\ la \in Seq(Token)
  BY <1>1 DEF ParserInv, Types, TypeOK, Held, Alive, Running
<1>3. <<This.token>> \in Seq(Token) /\ Len(<<This.token>>) = 1
  BY <1>2
<1> DEFINE t == <<This.token>>
<1> HIDE DEF t
<1>4. t \o la \in Seq(Token) /\ Len(t \o la) <= 2
  BY <1>2, <1>3 DEF t
<1> QED BY <1>4 DEF Unread, t

\* What a step that opens and closes no bracket does with the tokens.
PlainStep ==
  \/ Peek
  \/ la # <<>> /\ PlainRead
  \/ This.fn \in Holders /\ Unread(This.token)

LEMMA PlainStepTypes ==
  ASSUME ParserInv, Running, todo # <<>>, PlainStep
  PROVE  la' \in Seq(Token) /\ Len(la') <= 2 /\ open' = open
BY PeekTypes, PlainReadTypes, UnreadTypes DEF PlainStep

\* A step that makes calls which leave the brackets alone.
LEMMA PlainGoKeeps ==
  ASSUME ParserInv, Running, todo # <<>>, Neutral(This),
         This.fn \notin {"leave", "program_items"},
         NEW calls \in Seq(ExprCall \cup LoopCall \cup StmtCall), Go(calls),
         \/ calls \in Seq(ExprCall)
         \/ This.fn \in LoopHeadFns \cup StatementFns /\ calls \in Seq(LoopHeadCall)
         \/ This.fn \in StatementFns /\ ~LoopStart,
         PlainStep, value' \in Values
  PROVE  ParserInv'
<1>1. /\ calls \in Seq(AnyCall) /\ calls \in Seq(PushedCall)
      /\ \A i \in 1 .. Len(calls) : calls[i] \in ExprCall \cup LoopCall \cup StmtCall
      /\ calls \in Seq(ExprCall) => calls \in Seq(ExprCall \cup BracketCall)
  BY DEF AnyCall, PushedCall, LoopHeadCall
<1>2. la' \in Seq(Token) /\ Len(la') <= 2 /\ open' = open /\ open \in BracketStacks
  BY PlainStepTypes, AtHand DEF Alive, Running
<1>3. \A q \in BracketStacks : Moves(This, open, q) => Brackets(calls, open', q)
  BY <1>1, <1>2, NeutralCalls, BracketsNeutral DEF Moves
<1> QED BY <1>1, <1>2, <1>3, PlacedGoKeeps

-----------------------------------------------------------------------------
(***************************************************************************)
(* What opening a scope makes of a place.                                  *)
(***************************************************************************)
LEMMA Appended ==
  ASSUME NEW ss \in ScopeStacks, NEW s \in Scope
  PROVE  /\ Append(ss, s) \in ScopeStacks /\ Append(ss, s) # <<>>
         /\ Len(ss) \in Nat /\ Len(Append(ss, s)) = Len(ss) + 1
         /\ Append(ss, s)[Len(ss) + 1] = s
         /\ \A i \in 1 .. Len(ss) : Append(ss, s)[i] = ss[i]
BY DEF ScopeStacks

LEMMA LocalAppended ==
  ASSUME NEW ss \in ScopeStacks, NEW s \in Scope
  PROVE  /\ s.fn # "function_body" =>
              Scopes!Local(Append(ss, s), Len(ss) + 1) =
                Scopes!Local(ss, Len(ss)) \cup {Len(ss) + 1}
         /\ s.fn = "function_body" => Scopes!Local(Append(ss, s), Len(ss) + 1) = {}
<1> DEFINE n == Len(ss)
           t == Append(ss, s)
<1>1. /\ n \in Nat /\ t[n + 1] = s
      /\ \A i \in 1 .. n : t[i] = ss[i]
  BY Appended
<1> HIDE DEF n, t
<1>2. ASSUME s.fn # "function_body"
      PROVE  Scopes!Local(t, n + 1) = Scopes!Local(ss, n) \cup {n + 1}
  <2>1. ASSUME NEW i \in 1 .. n
        PROVE  (\A j \in i .. n + 1 : t[j].fn # "function_body") <=>
               (\A j \in i .. n : ss[j].fn # "function_body")
    <3>1. \A j \in i .. n : j \in 1 .. n /\ j \in i .. n + 1
      BY <1>1
    <3>2. \A j \in i .. n + 1 : j = n + 1 \/ (j \in i .. n /\ j \in 1 .. n)
      BY <1>1
    <3> QED BY <1>1, <1>2, <3>1, <3>2
  <2>2. \A j \in n + 1 .. n + 1 : t[j].fn # "function_body"
    BY <1>1, <1>2
  <2>3. \A i : i \in 1 .. n + 1 <=> i \in 1 .. n \/ i = n + 1
    BY <1>1
  <2> QED BY <1>1, <2>1, <2>2, <2>3 DEF Scopes!Local
<1>3. s.fn = "function_body" => Scopes!Local(t, n + 1) = {}
  BY <1>1 DEF Scopes!Local
<1> QED BY <1>2, <1>3 DEF n, t

\* In a function body, whatever is around it.
LEMMA FunctionPlace ==
  ASSUME NEW ss \in ScopeStacks, NEW s \in Scope, s.fn = "function_body"
  PROVE  StatementPlace(Append(ss, s))
<1>1. /\ Len(Append(ss, s)) = Len(ss) + 1
      /\ Append(ss, s)[Len(ss) + 1] = s
  BY Appended
<1>2. Scopes!Local(Append(ss, s), Len(Append(ss, s))) = {}
  BY <1>1, LocalAppended
<1> QED
  BY <1>1, <1>2 DEF StatementPlace, LoopHeadPlace, InAllowed, Scopes!InNotAllowed, LoopLabel

\* A scope that is no allow_in allows `in` when the place around it does.
LEMMA InStaysAllowed ==
  ASSUME NEW ss \in ScopeStacks, NEW s \in Scope, s.fn # "allow_in", InAllowed(ss)
  PROVE  InAllowed(Append(ss, s))
<1> DEFINE n == Len(ss)
           t == Append(ss, s)
<1>1. /\ n \in Nat /\ t[n + 1] = s /\ Len(t) = n + 1
      /\ \A i \in 1 .. n : t[i] = ss[i]
  BY Appended
<1>2. \A i \in Scopes!Local(t, n + 1) : i = n + 1 \/ i \in Scopes!Local(ss, n)
  BY LocalAppended
<1> HIDE DEF n, t
<1>3. \A i \in Scopes!Local(ss, n) : i \in 1 .. n
  BY DEF Scopes!Local
<1>4. SUFFICES ASSUME NEW i \in Scopes!Local(t, n + 1),
                      t[i].fn = "allow_in", ~t[i].value,
                      \A j \in i + 1 .. n + 1 : t[j].fn # "allow_in"
               PROVE  FALSE
  BY <1>1 DEF InAllowed, Scopes!InNotAllowed, t
<1>5. i \in Scopes!Local(ss, n) /\ i \in 1 .. n
  BY <1>1, <1>2, <1>3, <1>4
<1>6. \A j \in i + 1 .. n : j \in i + 1 .. n + 1 /\ j \in 1 .. n
  BY <1>1, <1>5
<1> QED BY <1>1, <1>4, <1>5, <1>6 DEF InAllowed, Scopes!InNotAllowed, n

\* A loop may stand in the head of a loop that is labelled, and its body is a place
\* for statements.
LEMMA LoopBodyPlace ==
  ASSUME NEW ss \in ScopeStacks, LoopHeadPlace(ss),
         NEW s \in Scope, s.fn = "iteration_body"
  PROVE  StatementPlace(Append(ss, s))
<1> DEFINE n == Len(ss)
           t == Append(ss, s)
<1>1. /\ n \in Nat /\ t[n + 1] = s /\ Len(t) = n + 1
      /\ \A i \in 1 .. n : t[i] = ss[i]
  BY Appended
<1>2. \A i \in Scopes!Local(t, n + 1) : i = n + 1 \/ i \in Scopes!Local(ss, n)
  BY LocalAppended
<1>3. \A i \in Scopes!Local(ss, n) : i \in 1 .. n
  BY DEF Scopes!Local
<1>4. InAllowed(t)
  BY InStaysAllowed DEF LoopHeadPlace
<1>5. \A k \in Scopes!Local(ss, n) \ {n} : LoopLabel(ss[k]) => ss[k + 1].fn = "iteration_body"
  BY DEF LoopHeadPlace
<1> HIDE DEF n, t
<1>6. ASSUME NEW k \in Scopes!Local(t, n + 1) \ {n + 1}, LoopLabel(t[k])
      PROVE  t[k + 1].fn = "iteration_body"
  <2>1. k \in Scopes!Local(ss, n) /\ k \in 1 .. n
    BY <1>2, <1>3
  <2>2. CASE k = n
    BY <1>1, <2>2
  <2>3. CASE k # n
    <3>1. k + 1 \in 1 .. n
      BY <1>1, <2>1, <2>3
    <3> QED BY <1>1, <1>5, <1>6, <2>1, <2>3, <3>1
  <2> QED BY <2>2, <2>3
<1>7. ~LoopLabel(t[n + 1])
  BY <1>1 DEF LoopLabel
<1>8. StatementPlace(t)
  BY <1>1, <1>4, <1>6, <1>7 DEF StatementPlace, LoopHeadPlace
<1> QED BY <1>8 DEF t

\* The statement of a switch or of labels is in a place for statements, or in the head
\* of a labelled loop.
LEMMA InnerPlace ==
  ASSUME NEW ss \in ScopeStacks, StatementPlace(ss),
         NEW s \in Scope, s.fn \in {"switch_statement", "with_labels"}
  PROVE  /\ LoopHeadPlace(Append(ss, s))
         /\ ~LoopLabel(s) => StatementPlace(Append(ss, s))
<1> DEFINE n == Len(ss)
           t == Append(ss, s)
<1>1. /\ n \in Nat /\ t[n + 1] = s /\ Len(t) = n + 1
      /\ \A i \in 1 .. n : t[i] = ss[i]
  BY Appended
<1>2. \A i \in Scopes!Local(t, n + 1) : i = n + 1 \/ i \in Scopes!Local(ss, n)
  BY LocalAppended
<1>3. \A i \in Scopes!Local(ss, n) : i \in 1 .. n
  BY DEF Scopes!Local
<1>4. InAllowed(t)
  BY InStaysAllowed DEF LoopHeadPlace, StatementPlace
<1>5. /\ \A k \in Scopes!Local(ss, n) \ {n} : LoopLabel(ss[k]) => ss[k + 1].fn = "iteration_body"
      /\ n > 0 => ~LoopLabel(ss[n])
  BY DEF LoopHeadPlace, StatementPlace, ScopeStacks
<1> HIDE DEF n, t
<1>6. ASSUME NEW k \in Scopes!Local(t, n + 1) \ {n + 1}, LoopLabel(t[k])
      PROVE  t[k + 1].fn = "iteration_body"
  <2>1. k \in Scopes!Local(ss, n) /\ k \in 1 .. n
    BY <1>2, <1>3
  <2>2. k # n
    BY <1>1, <1>5, <1>6, <2>1
  <2>3. k + 1 \in 1 .. n
    BY <1>1, <2>1, <2>2
  <2> QED BY <1>1, <1>5, <1>6, <2>1, <2>2, <2>3
<1>7. LoopHeadPlace(t)
  BY <1>1, <1>4, <1>6 DEF LoopHeadPlace
<1>8. ~LoopLabel(s) => StatementPlace(t)
  BY <1>1, <1>7 DEF StatementPlace
<1> QED BY <1>7, <1>8 DEF t

-----------------------------------------------------------------------------
(***************************************************************************)
(* Steps that hold a token, open or leave a scope, check a jump, or read a *)
(* token.                                                                  *)
(***************************************************************************)
LEMMA HoldKeeps ==
  ASSUME ParserInv, Running, todo # <<>>, This.fn \notin {"leave", "program_items"},
         la # <<>>, PlainRead, UNCHANGED value,
         NEW h \in HeldCall, h.token = Tok, Go(<<h>>),
         Placed(h, scopes, scopes),
         \A q : Moves(This, open, q) => Moves(h, open, q)
  PROVE  ParserInv'
<1>1. /\ <<h>> \in Seq(AnyCall) /\ Len(<<h>>) = 1 /\ <<h>>[1] = h
      /\ \A i \in 1 .. Len(<<h>>) : i = 1
  BY DEF AnyCall
<1>2. la' \in Seq(Token) /\ Len(la') <= 1 /\ open' = open
  BY PlainReadTypes
<1>3. Tok \in Token /\ value' \in Values
  BY TokenAtHand DEF ParserInv, Types, TypeOK, Values
<1>4. scopes \in ScopeStacks /\ open \in BracketStacks
  BY AtHand DEF Alive, Running
<1> DEFINE c == <<h>>
<1> HIDE DEF c
<1>5. c \in Seq(AnyCall) /\ Len(c) = 1 /\ c[1] = h /\ \A i \in 1 .. Len(c) : i = 1
  BY <1>1 DEF c
<1>6. Nesting(c, scopes, scopes)
  BY <1>4, <1>5, NestingFlat
<1>7. \A q \in BracketStacks : Moves(This, open, q) => Brackets(c, open', q)
  <2> SUFFICES ASSUME NEW q \in BracketStacks, Moves(This, open, q)
               PROVE  Brackets(c, open, q)
    BY <1>2
  <2>1. Moves(c[1], open, q) /\ 1 \in 1 .. Len(c)
    BY <1>5
  <2> QED BY <1>4, <1>5, <2>1, BracketsTurn
<1>8. Go(c)
  BY DEF c
<1>9. Len(la') <= 2
  BY <1>2
<1> QED BY <1>2, <1>3, <1>5, <1>6, <1>7, <1>8, <1>9, GoKeeps

\* The calls within a scope that is opened, and its end.
LEMMA LeaveCalls ==
  ASSUME NEW s \in Scope
  PROVE  /\ <<LeaveScope(s)>> \in Seq(AnyCall)
         /\ \A o \in BracketStacks : Brackets(<<LeaveScope(s)>>, o, o)
         /\ \A ss \in ScopeStacks : Nesting(<<LeaveScope(s)>>, Append(ss, s), ss)
<1>1. LeaveScope(s) \in AnyCall /\ LeaveScope(s).fn = "leave" /\ LeaveScope(s).scope = s
  BY DEF LeaveScope, AnyCall, LeaveCall
<1>2. Neutral(LeaveScope(s))
  BY <1>1, NeutralOthers
<1> DEFINE c == <<LeaveScope(s)>>
<1>3. c \in Seq(AnyCall) /\ Len(c) = 1 /\ c[1] = LeaveScope(s)
  BY <1>1
<1> HIDE DEF c
<1>4. \A i \in 1 .. Len(c) : Neutral(c[i])
  BY <1>2, <1>3
<1>5. \A o \in BracketStacks : Brackets(c, o, o)
  BY <1>3, <1>4, BracketsNeutral
<1>6. ASSUME NEW ss \in ScopeStacks PROVE Nesting(c, Append(ss, s), ss)
  <2> DEFINE g == [i \in 1 .. Len(c) + 1 |-> IF i = 1 THEN Append(ss, s) ELSE ss]
  <2>1. Append(ss, s) \in ScopeStacks
    BY Appended
  <2>2. g \in [1 .. Len(c) + 1 -> ScopeStacks]
    BY <2>1
  <2>3. g[1] = Append(ss, s) /\ g[2] = ss /\ Len(c) + 1 = 2
    BY <1>3
  <2>4. Placed(c[1], Append(ss, s), ss)
    BY <1>1, <1>3 DEF Placed, LoopHeadFns, StatementFns, ForFns, StmtFns
  <2> HIDE DEF g
  <2>5. \A i \in 1 .. Len(c) : Placed(c[i], g[i], g[i + 1])
    <3>1. \A i \in 1 .. Len(c) : i = 1 /\ i + 1 = 2
      BY <1>3
    <3> QED BY <2>3, <2>4, <3>1
  <2> QED BY <2>2, <2>3, <2>5 DEF Nesting
<1> QED BY <1>3, <1>5, <1>6 DEF c

LEMMA EnterKeeps ==
  ASSUME ParserInv, Running, todo # <<>>, Neutral(This),
         This.fn \notin {"leave", "program_items"},
         NEW s \in Scope, NEW calls \in Seq(PushedCall), GoInside(s, calls),
         la' \in Seq(Token), Len(la') <= 2, value' \in Values,
         Brackets(calls, open', open),
         \/ calls \in Seq(ExprCall \cup BracketCall)
         \/ StatementPlace(Append(scopes, s))
         \/ /\ calls = <<Statement>> /\ LoopHeadPlace(Append(scopes, s))
            /\ la' # <<>> /\ la'[1].value \in {"do", "while", "for"}
  PROVE  ParserInv'
<1> DEFINE l == <<LeaveScope(s)>>
           d == calls \o l
<1>1. /\ context' = Entered(context, s) /\ scopes' = Append(scopes, s) /\ jump' = NoJump
      /\ todo' = calls \o l \o Tail(todo)
      /\ UNCHANGED <<source, left, result>>
  BY DEF GoInside
<1>2. Alive /\ todo \in Seq(AnyCall) /\ context \in ContextRecord
  BY DEF ParserInv, Types, TypeOK, Alive, Running
<1>3. /\ scopes \in ScopeStacks /\ open \in BracketStacks
      /\ Tail(todo) \in Seq(AnyCall) /\ Nesting(Tail(todo), scopes, <<>>)
  BY <1>2, AtHand
<1>4. l \in Seq(AnyCall) /\ Brackets(l, open, open) /\ Nesting(l, Append(scopes, s), scopes)
  BY <1>3, LeaveCalls
<1>5. calls \in Seq(AnyCall) /\ \A i \in 1 .. Len(calls) : calls[i] \in PushedCall
  BY DEF AnyCall
<1>6. Append(scopes, s) \in ScopeStacks
  BY <1>3, Appended
<1>7. \A i \in 1 .. Len(d) : d[i].fn \notin Holders
  <2>1. l[1].fn = "leave" /\ Len(l) = 1
    BY DEF LeaveScope
  <2>2. \A i \in 1 .. Len(d) : d[i] = l[1] \/ \E j \in 1 .. Len(calls) : d[i] = calls[j]
    BY <2>1
  <2> QED BY <1>5, <2>1, <2>2, PushedFn DEF Holders
<1> HIDE DEF l
<1>8. /\ d \in Seq(AnyCall) /\ todo' = d \o Tail(todo)
  BY <1>1, <1>4, <1>5
<1>9. /\ context' \in ContextRecord /\ scopes' \in ScopeStacks
      /\ jump' \in JumpRecord /\ jump'.accepted
  BY <1>1, <1>2, <1>6, ContextTypes DEF NoJump, JumpRecord
<1>10. \A q \in BracketStacks : Moves(This, open, q) => Brackets(d, open', q)
  <2>1. \A q : Moves(This, open, q) => q = open
    BY DEF Moves
  <2> QED BY <1>4, <1>5, <2>1, BracketsConcat
<1>11. Nested'
  <2>0. Nesting(l \o Tail(todo), Append(scopes, s), <<>>)
    BY <1>3, <1>4, NestingConcat
  <2>1. Nesting(l \o Tail(todo), Append(scopes, s), <<>>) /\ l \o Tail(todo) \in Seq(AnyCall)
    BY <1>3, <1>4, <2>0, Zenon, ConcatProperties
  <2>2. todo' = calls \o (l \o Tail(todo))
    <3>1. (calls \o l) \o Tail(todo) = calls \o (l \o Tail(todo))
      <4>1. \A a, b, c \in Seq(AnyCall) : (a \o b) \o c = a \o (b \o c)
        BY ConcatAssociative
      <4> QED BY <1>3, <1>4, <1>5, <4>1, Zenon
    <3> QED BY <1>1, <3>1, Zenon
  <2>3. CASE Nesting(calls, Append(scopes, s), Append(scopes, s))
    BY <1>1, <1>5, <2>1, <2>2, <2>3, NestingConcat DEF Nested
  <2>4. CASE calls \in Seq(ExprCall \cup BracketCall)
    <3>1. \A i \in 1 .. Len(calls) : calls[i] \in ExprCall \cup BracketCall
      BY <2>4
    <3> QED BY <1>5, <1>6, <2>3, <3>1, ExprPlaced, NestingFlat
  <2>5. CASE StatementPlace(Append(scopes, s))
    BY <1>5, <1>6, <2>3, <2>5, StatementPlaced, NestingFlat
  <2>6. CASE /\ calls = <<Statement>> /\ LoopHeadPlace(Append(scopes, s))
             /\ la' # <<>> /\ la'[1].value \in {"do", "while", "for"}
    <3> DEFINE r == l \o Tail(todo)
    <3>1. r \in Seq(AnyCall)
      BY <2>1
    <3> HIDE DEF r
    <3>2. <<Statement>> \o r # <<>> /\ Head(<<Statement>> \o r) = Statement
          /\ Tail(<<Statement>> \o r) = r
      BY <3>1
    <3>3. todo' # <<>> /\ Head(todo') = Statement /\ Tail(todo') = r
      BY <2>2, <2>6, <3>2 DEF r
    <3> QED BY <1>1, <2>1, <2>6, <3>3 DEF Nested, LoopStart, Tok, r
  <2> QED BY <2>4, <2>5, <2>6
<1> HIDE DEF d
<1> QED BY <1>1, <1>7, <1>8, <1>9, <1>10, <1>11, StepKeeps

LEMMA FrontOfAppend ==
  ASSUME NEW S, NEW s \in Seq(S), NEW e \in S
  PROVE  /\ Front(Append(s, e)) = s /\ Last(Append(s, e)) = e
         /\ Append(s, e) # <<>>
<1> DEFINE t == Append(s, e)
<1>1. /\ t \in Seq(S) /\ Len(t) = Len(s) + 1 /\ Len(s) \in Nat
      /\ \A i \in 1 .. Len(s) : t[i] = s[i]
      /\ t[Len(s) + 1] = e
  OBVIOUS
<1> HIDE DEF t
<1>2. /\ SubSeq(t, 1, Len(s)) \in Seq(S)
      /\ Len(SubSeq(t, 1, Len(s))) = Len(s)
      /\ \A i \in 1 .. Len(s) : SubSeq(t, 1, Len(s))[i] = t[i]
  <2>1. \A i \in 1 .. Len(s) : t[i] \in S
    BY <1>1
  <2> QED BY <1>1, <2>1, SubSeqProperties
<1>3. SubSeq(t, 1, Len(s)) = s
  BY <1>1, <1>2, SeqEqual
<1>4. Len(t) - 1 = Len(s)
  BY <1>1
<1>5. Front(t) = s /\ Last(t) = e
  BY <1>1, <1>3, <1>4 DEF Front, Last
<1> QED BY <1>1, <1>5 DEF t

\* The calls return in the order in which they opened their scopes.
LEMMA LeaveKeeps ==
  ASSUME ParserInv, Leave
  PROVE  /\ ParserInv'
         /\ scopes # <<>> /\ This.scope = Last(scopes)
<1>1. /\ Running /\ todo # <<>> /\ This.fn = "leave"
      /\ context' = Left(context, This.scope) /\ scopes' = Front(scopes)
      /\ todo' = Tail(todo) /\ jump' = NoJump
      /\ UNCHANGED <<source, left, la, open, value, result>>
  BY DEF Leave, At, This
<1>2. /\ Alive /\ todo \in Seq(AnyCall) /\ context \in ContextRecord
      /\ la \in Seq(Token) /\ Len(la) <= 2 /\ value \in Values
  BY <1>1 DEF ParserInv, Types, TypeOK, Held, Alive, Running, Values
<1>3. This \in AnyCall /\ Tail(todo) \in Seq(AnyCall) /\ open \in BracketStacks
  BY <1>1, <1>2, AtHand
<1>4. This.scope \in Scope
  BY <1>1, <1>3, StatementFields
<1>5. Nesting(todo, scopes, <<>>)
  BY <1>1, <1>2 DEF ParserInv, Nested, LoopStart, Statement, This
<1>6. PICK v \in ScopeStacks : Placed(This, scopes, v) /\ Nesting(Tail(todo), v, <<>>)
  BY <1>1, <1>2, <1>5, NestingFirst DEF This
<1>7. scopes = Append(v, This.scope)
  BY <1>1, <1>6 DEF Placed
<1>8. Front(scopes) = v /\ Last(scopes) = This.scope /\ scopes # <<>>
  BY <1>4, <1>6, <1>7, FrontOfAppend DEF ScopeStacks
<1>9. /\ context' \in ContextRecord /\ scopes' \in ScopeStacks
      /\ jump' \in JumpRecord /\ jump'.accepted
  BY <1>1, <1>2, <1>4, <1>6, <1>8, ContextTypes DEF NoJump, JumpRecord
<1>10. Nested'
  BY <1>1, <1>6, <1>8 DEF Nested
<1> DEFINE c == <<>>
<1>11. c \in Seq(AnyCall) /\ Len(c) = 0 /\ todo' = c \o Tail(todo)
  BY <1>1, <1>3
<1> HIDE DEF c
<1>12. \A q \in BracketStacks : Moves(This, open, q) => Brackets(c, open', q)
  <2>1. Neutral(This)
    BY <1>1, NeutralOthers
  <2>2. \A q : Moves(This, open, q) => q = open
    BY <2>1 DEF Moves
  <2>3. \A i \in 1 .. Len(c) : Neutral(c[i])
    BY <1>11
  <2>4. Brackets(c, open, open)
    BY <1>3, <1>11, <2>3, BracketsNeutral
  <2> QED BY <1>1, <2>2, <2>4
<1>13. la' \in Seq(Token) /\ Len(la') <= 2 /\ value' \in Values
  BY <1>1, <1>2
<1>14. \A i \in 1 .. Len(c) : c[i].fn \notin Holders
  BY <1>11
<1>15. ParserInv'
  BY <1>1, <1>9, <1>10, <1>11, <1>12, <1>13, <1>14, StepKeeps
<1> QED BY <1>8, <1>15

LEMMA JumpKeeps ==
  ASSUME ParserInv, Running, todo # <<>>, Neutral(This),
         This.fn \notin {"leave", "program_items", "stmt_list_item"},
         NEW calls \in Seq(ExprCall), PlainStep, UNCHANGED value,
         NEW stmt \in {"break", "continue", "return"}, NEW label \in Label \cup {None},
         NEW accepted \in BOOLEAN, NEW error \in Errors,
         GoJump(stmt, label, accepted, error, calls)
  PROVE  ParserInv'
<1>1. /\ UNCHANGED <<source, left, context, scopes>>
      /\ jump' = [stmt |-> stmt, label |-> label, accepted |-> accepted]
  BY DEF GoJump
<1>2. jump' \in JumpRecord
  BY <1>1 DEF JumpRecord
<1>3. la' \in Seq(Token) /\ Len(la') <= 2 /\ open' = open /\ value' \in Values
  BY PlainStepTypes DEF ParserInv, Types, TypeOK, Values
<1>4. scopes \in ScopeStacks /\ Nesting(Tail(todo), scopes, <<>>)
      /\ Tail(todo) \in Seq(AnyCall) /\ open \in BracketStacks
  BY AtHand DEF Alive, Running
<1>5. CASE accepted
  <2>1. todo' = calls \o Tail(todo) /\ UNCHANGED result /\ jump'.accepted
    BY <1>1, <1>5 DEF GoJump
  <2>2. /\ calls \in Seq(AnyCall) /\ calls \in Seq(PushedCall)
        /\ calls \in Seq(ExprCall \cup BracketCall)
        /\ \A i \in 1 .. Len(calls) : calls[i] \in ExprCall \cup LoopCall \cup StmtCall
    BY DEF AnyCall, PushedCall, LoopHeadCall
  <2>3. /\ Nesting(calls, scopes, scopes)
        /\ \A i \in 1 .. Len(calls) : calls[i].fn \notin Holders
    BY <2>2, PlacedCalls
  <2>4. Nested'
    BY <1>1, <1>4, <2>1, <2>2, <2>3, NestingConcat DEF Nested
  <2>5. \A q \in BracketStacks : Moves(This, open, q) => Brackets(calls, open', q)
    BY <1>3, <1>4, <2>2, NeutralCalls, BracketsNeutral DEF Moves
  <2>6. context' \in ContextRecord /\ scopes' \in ScopeStacks
    BY <1>1, <1>4 DEF ParserInv, Types, TypeOK
  <2> QED BY <1>1, <1>2, <1>3, <2>1, <2>2, <2>3, <2>4, <2>5, <2>6, StepKeeps
<1>6. CASE ~accepted
  <2>1. todo' = todo /\ result' = error
    BY <1>6 DEF GoJump
  <2>2. ~Alive' /\ ~Running'
    BY <2>1 DEF Errors, Alive, Running
  <2>3. TypeOK'
    BY <1>1, <1>2, <1>3, <2>1 DEF ParserInv, Types, TypeOK, Token, Values, JumpRecord
  <2>4. Types'
    BY <1>1, <1>2, <1>4, <2>1, <2>2, <2>3 DEF ParserInv, Types
  <2> QED BY <1>3, <2>1, <2>2, <2>4 DEF ParserInv, Held, Bracketed, Nested, ToTheEnd, Done, Alive
<1> QED BY <1>5, <1>6

LEMMA LexKeeps ==
  ASSUME ParserInv, Lex PROVE ParserInv'
<1>1. PICK v \in MayFind, n \in source.newlines :
        la' = <<Found(v, n)>> /\ left' = IF v = "EOF" THEN 0 ELSE left - 1
  BY DEF Lex
<1>2. /\ Running /\ todo # <<>> /\ la = <<>>
      /\ UNCHANGED <<source, open, todo, context, scopes, jump, value, result>>
  BY DEF Lex, AsksForToken
<1>3. /\ source \in Sources /\ left \in 0 .. source.length /\ todo \in Seq(AnyCall)
  BY DEF ParserInv, Types, TypeOK
<1>4. n \in BOOLEAN /\ source.length \in Nat
  BY <1>3, SourcesAssumption
<1>5. v \in source.tokens \cup {"EOF"} /\ (left = 0 => v = "EOF")
  BY DEF MayFind
<1>6. Head(todo).fn \in FunctionNames
  BY <1>2, <1>3, Splice, FnOfAny
<1>7. Found(v, n) \in Token
  BY <1>4, <1>5, <1>6 DEF Found, Token
<1>8. la' \in Seq(Token) /\ Len(la') = 1 /\ Token' = Token
  BY <1>1, <1>2, <1>7 DEF Token
<1>9. left' \in 0 .. source.length
  BY <1>1, <1>3, <1>4, <1>5
<1>10. Types'
  <2>1. TypeOK'
    BY <1>2, <1>8, <1>9 DEF ParserInv, Types, TypeOK
  <2> QED BY <1>2, <2>1 DEF ParserInv, Types, Running
<1>11. Held'
  BY <1>2, <1>8 DEF ParserInv, Held, Alive
<1>12. Nested'
  BY <1>2 DEF ParserInv, Nested, LoopStart, Alive
<1>13. Bracketed' /\ ToTheEnd' /\ Done'
  BY <1>2 DEF ParserInv, Bracketed, ToTheEnd, Done, Alive
<1> QED BY <1>10, <1>11, <1>12, <1>13 DEF ParserInv

LEMMA RestKeeps ==
  ASSUME ParserInv, Return \/ UNCHANGED vars
  PROVE  ParserInv'
<1>1. /\ UNCHANGED <<source, left, la, open, todo, context, scopes, jump, value>>
      /\ Alive' <=> Alive
      /\ Running' => Running
      /\ result' = "ok" => todo = <<>>
      /\ result' \in {"parsing", "ok"} \cup Errors
  <2>1. CASE Return
    BY <2>1 DEF Return, Alive, Running
  <2>2. CASE UNCHANGED vars
    BY <2>2 DEF vars, Alive, Running, ParserInv, Done, Types, TypeOK
  <2> QED BY <2>1, <2>2
<1>2. Types'
  <2>1. TypeOK'
    BY <1>1 DEF ParserInv, Types, TypeOK, Token
  <2> QED BY <1>1, <2>1 DEF ParserInv, Types
<1>3. Held' /\ Bracketed' /\ Done'
  BY <1>1 DEF ParserInv, Held, Bracketed, Done, Token
<1>4. Nested'
  BY <1>1 DEF ParserInv, Nested, LoopStart, Tok
<1>5. ToTheEnd'
  BY <1>1 DEF ParserInv, ToTheEnd, Is, Tok
<1> QED BY <1>2, <1>3, <1>4, <1>5 DEF ParserInv
=============================================================================
