------------------------- MODULE ParserScopesProofs -------------------------
(***************************************************************************)
(* Proofs about ParserScopes, for every set of labels and any number of    *)
(* nested scopes.                                                          *)
(***************************************************************************)
EXTENDS ParserScopes, SequenceTheorems, TLAPS

(***************************************************************************)
(* The nesting of the first n scopes is read off these scopes alone.       *)
(***************************************************************************)
LEMMA PrefixStable ==
  ASSUME NEW ss, NEW tt, NEW n \in Nat,
         \A i \in 1 .. n : ss[i] = tt[i]
  PROVE  /\ Local(ss, n) = Local(tt, n)
         /\ InFunction(ss, n) = InFunction(tt, n)
         /\ InIteration(ss, n) = InIteration(tt, n)
         /\ InSwitch(ss, n) = InSwitch(tt, n)
         /\ InNotAllowed(ss, n) = InNotAllowed(tt, n)
         /\ \A l, t : Labelled(ss, n, l, t) = Labelled(tt, n, l, t)
<1>1. Local(ss, n) = Local(tt, n)
  BY DEF Local
<1>2. Local(tt, n) \subseteq 1 .. n
  BY DEF Local
<1>3. \A i \in 1 .. n : \A j \in i + 1 .. n : ss[j] = tt[j]
  OBVIOUS
<1>4. InFunction(ss, n) = InFunction(tt, n)
  BY DEF InFunction
<1>5. InIteration(ss, n) = InIteration(tt, n)
  BY <1>1, <1>2 DEF InIteration
<1>6. InSwitch(ss, n) = InSwitch(tt, n)
  BY <1>1, <1>2 DEF InSwitch
<1>7. InNotAllowed(ss, n) = InNotAllowed(tt, n)
  BY <1>1, <1>2, <1>3 DEF InNotAllowed
<1>8. ASSUME NEW l, NEW t
      PROVE  Labelled(ss, n, l, t) = Labelled(tt, n, l, t)
  BY <1>1, <1>2, <1>3 DEF Labelled
<1>. QED
  BY <1>1, <1>4, <1>5, <1>6, <1>7, <1>8

LEMMA AgreesStable ==
  ASSUME NEW ss, NEW tt, NEW n \in Nat,
         \A i \in 1 .. n : ss[i] = tt[i],
         NEW c
  PROVE  /\ Agrees(c, ss, n) <=> Agrees(c, tt, n)
         /\ LabelsAgree(c.labels, ss, n) <=> LabelsAgree(c.labels, tt, n)
         /\ AllKnown(c.labels, ss, n) <=> AllKnown(c.labels, tt, n)
<1>1. Local(tt, n) \subseteq 1 .. n
  BY DEF Local
<1>2. Agrees(c, ss, n) <=> Agrees(c, tt, n)
  BY PrefixStable DEF Agrees
<1>3. LabelsAgree(c.labels, ss, n) <=> LabelsAgree(c.labels, tt, n)
  BY PrefixStable DEF LabelsAgree
<1>4. AllKnown(c.labels, ss, n) <=> AllKnown(c.labels, tt, n)
  BY <1>1, PrefixStable DEF AllKnown
<1>. QED
  BY <1>2, <1>3, <1>4

LEMMA ScopeStable ==
  ASSUME NEW ss, NEW tt, NEW n \in Nat \ {0},
         \A i \in 1 .. n : ss[i] = tt[i]
  PROVE  /\ RestoresOuter(ss, n) = RestoresOuter(tt, n)
         /\ Distinct(ss, n) = Distinct(tt, n)
<1>1. n - 1 \in Nat /\ \A i \in 1 .. n - 1 : ss[i] = tt[i]
  OBVIOUS
<1>2. ss[n] = tt[n]
  OBVIOUS
<1>3. RestoresOuter(ss, n) = RestoresOuter(tt, n)
  <2>1. /\ InIteration(ss, n - 1) = InIteration(tt, n - 1)
        /\ InSwitch(ss, n - 1) = InSwitch(tt, n - 1)
        /\ InNotAllowed(ss, n - 1) = InNotAllowed(tt, n - 1)
    BY <1>1, PrefixStable
  <2>. DEFINE c == tt[n].outer
  <2>3. /\ Agrees(c, ss, n - 1) <=> Agrees(c, tt, n - 1)
        /\ LabelsAgree(c.labels, ss, n - 1) <=> LabelsAgree(c.labels, tt, n - 1)
        /\ AllKnown(c.labels, ss, n - 1) <=> AllKnown(c.labels, tt, n - 1)
    BY <1>1, AgreesStable
  <2>. QED
    BY <1>2, <2>1, <2>3 DEF RestoresOuter
<1>4. Distinct(ss, n) = Distinct(tt, n)
  <2>1. Local(ss, n) = Local(tt, n) /\ Local(tt, n) \subseteq 1 .. n
    BY PrefixStable DEF Local
  <2>. QED
    BY <1>2, <2>1 DEF Distinct
<1>. QED
  BY <1>3, <1>4

(***************************************************************************)
(* One more scope: the nesting of n scopes in terms of the last one and of *)
(* the n - 1 around it.                                                    *)
(***************************************************************************)
LEMMA NestLocal ==
  ASSUME NEW ss, NEW n \in Nat \ {0}
  PROVE  Local(ss, n) = IF ss[n].fn = "function_body" THEN {}
                        ELSE Local(ss, n - 1) \cup {n}
<1>1. CASE ss[n].fn = "function_body"
  <2>1. \A i \in 1 .. n : n \in i .. n
    OBVIOUS
  <2>. QED
    BY <1>1, <2>1 DEF Local
<1>2. CASE ss[n].fn # "function_body"
  <2>1. \A i \in 1 .. n - 1 : i .. n = (i .. n - 1) \cup {n}
    OBVIOUS
  <2>2. 1 .. n = (1 .. n - 1) \cup {n} /\ n .. n = {n}
    OBVIOUS
  <2>. QED
    BY <1>2, <2>1, <2>2 DEF Local
<1>. QED
  BY <1>1, <1>2

LEMMA NestStep ==
  ASSUME NEW ss, NEW n \in Nat \ {0}
  PROVE  /\ InFunction(ss, n) <=>
              ss[n].fn = "function_body" \/ InFunction(ss, n - 1)
         /\ InIteration(ss, n) <=>
              /\ ss[n].fn # "function_body"
              /\ ss[n].fn = "iteration_body" \/ InIteration(ss, n - 1)
         /\ InSwitch(ss, n) <=>
              /\ ss[n].fn # "function_body"
              /\ ss[n].fn = "switch_statement" \/ InSwitch(ss, n - 1)
         /\ InNotAllowed(ss, n) <=>
              /\ ss[n].fn # "function_body"
              /\ IF ss[n].fn = "allow_in" THEN ~ss[n].value
                 ELSE InNotAllowed(ss, n - 1)
<1>1. 1 .. n = (1 .. n - 1) \cup {n}
  OBVIOUS
<1>2. Local(ss, n) = IF ss[n].fn = "function_body" THEN {}
                     ELSE Local(ss, n - 1) \cup {n}
  BY NestLocal
<1>3. Local(ss, n - 1) \subseteq 1 .. n - 1
  BY DEF Local
<1>4. \A i \in 1 .. n - 1 : i + 1 .. n = (i + 1 .. n - 1) \cup {n}
  OBVIOUS
<1>5. n + 1 .. n = {}
  OBVIOUS
<1>6. InFunction(ss, n) <=>
        ss[n].fn = "function_body" \/ InFunction(ss, n - 1)
  BY <1>1 DEF InFunction
<1>7. InIteration(ss, n) <=>
        /\ ss[n].fn # "function_body"
        /\ ss[n].fn = "iteration_body" \/ InIteration(ss, n - 1)
  BY <1>2 DEF InIteration
<1>8. InSwitch(ss, n) <=>
        /\ ss[n].fn # "function_body"
        /\ ss[n].fn = "switch_statement" \/ InSwitch(ss, n - 1)
  BY <1>2 DEF InSwitch
<1>9. InNotAllowed(ss, n) <=>
        /\ ss[n].fn # "function_body"
        /\ IF ss[n].fn = "allow_in" THEN ~ss[n].value
           ELSE InNotAllowed(ss, n - 1)
  <2>1. CASE ss[n].fn = "function_body"
    BY <1>2, <2>1 DEF InNotAllowed
  <2>2. CASE ss[n].fn = "allow_in"
    <3>1. \A i \in Local(ss, n - 1) : n \in i + 1 .. n
      BY <1>3
    <3>. QED
      BY <1>2, <1>5, <2>2, <3>1 DEF InNotAllowed
  <2>3. CASE ss[n].fn \notin {"function_body", "allow_in"}
    BY <1>2, <1>3, <1>4, <2>3 DEF InNotAllowed
  <2>. QED
    BY <2>1, <2>2, <2>3
<1>. QED
  BY <1>6, <1>7, <1>8, <1>9

LEMMA NestLabelled ==
  ASSUME NEW ss, NEW n \in Nat \ {0}, NEW l, NEW t
  PROVE  Labelled(ss, n, l, t) <=>
           /\ ss[n].fn # "function_body"
           /\ IF Declares(ss[n], l) THEN ss[n].type = t
              ELSE Labelled(ss, n - 1, l, t)
<1>1. Local(ss, n) = IF ss[n].fn = "function_body" THEN {}
                     ELSE Local(ss, n - 1) \cup {n}
  BY NestLocal
<1>2. Local(ss, n - 1) \subseteq 1 .. n - 1
  BY DEF Local
<1>3. \A i \in 1 .. n - 1 : i + 1 .. n = (i + 1 .. n - 1) \cup {n}
  OBVIOUS
<1>4. n + 1 .. n = {}
  OBVIOUS
<1>5. CASE ss[n].fn = "function_body"
  BY <1>1, <1>5 DEF Labelled
<1>6. CASE ss[n].fn # "function_body" /\ Declares(ss[n], l)
  <2>1. \A i \in Local(ss, n - 1) : n \in i + 1 .. n
    BY <1>2
  <2>. QED
    BY <1>1, <1>4, <1>6, <2>1 DEF Labelled
<1>7. CASE ss[n].fn # "function_body" /\ ~Declares(ss[n], l)
  BY <1>1, <1>2, <1>3, <1>7 DEF Labelled
<1>. QED
  BY <1>5, <1>6, <1>7

(***************************************************************************)
(* The kinds of scope, and what each keeps.                                *)
(***************************************************************************)
LEMMA ScopeKinds ==
  ASSUME NEW s \in Scope
  PROVE  \/ s.fn = "function_body" /\ s.outer \in ContextRecord
         \/ s.fn = "iteration_body" /\ s.outer \in BOOLEAN
         \/ s.fn = "switch_statement" /\ s.outer \in BOOLEAN
         \/ s.fn = "allow_in" /\ s.outer \in BOOLEAN /\ s.value \in BOOLEAN
         \/ /\ s.fn = "with_labels"
            /\ s.labels \in SUBSET Label /\ s.type \in LabelType
BY DEF Scope, FunctionScope, FlagScope, AllowInScope, LabelScope

LEMMA NoneIsNoType == \A t \in LabelType : t # None
BY NoneAssumption DEF LabelType

LEMMA NewContextType == NewContext \in ContextRecord /\ NewFunction \in ContextRecord
BY DEF NewContext, NewFunction, ContextRecord, NoLabels, Labels

(***************************************************************************)
(* Entered and Left, case by case and field by field.                      *)
(***************************************************************************)
LEMMA EnteredCases ==
  ASSUME NEW c \in ContextRecord, NEW s \in Scope
  PROVE  /\ s.fn = "function_body" => Entered(c, s) = NewFunction
         /\ s.fn = "iteration_body" =>
              Entered(c, s) =
              [function |-> c.function, iteration |-> TRUE,
              switch |-> c.switch, allow_in |-> c.allow_in,
              labels |-> c.labels]
         /\ s.fn = "switch_statement" =>
              Entered(c, s) =
              [function |-> c.function, iteration |-> c.iteration,
              switch |-> TRUE, allow_in |-> c.allow_in,
              labels |-> c.labels]
         /\ s.fn = "allow_in" =>
              Entered(c, s) =
              [function |-> c.function, iteration |-> c.iteration,
              switch |-> c.switch, allow_in |-> s.value,
              labels |-> c.labels]
         /\ s.fn = "with_labels" =>
              Entered(c, s) =
              [function |-> c.function, iteration |-> c.iteration,
              switch |-> c.switch, allow_in |-> c.allow_in,
              labels |-> InsertLabels(c.labels, s.labels, s.type)]
<1>1. s.fn = "function_body" => Entered(c, s) = NewFunction
  BY Zenon DEF Entered
<1>2. ASSUME s.fn = "iteration_body"
      PROVE  Entered(c, s) =
        [function |-> c.function, iteration |-> TRUE,
         switch |-> c.switch, allow_in |-> c.allow_in,
         labels |-> c.labels]
  <2>1. Entered(c, s) = [c EXCEPT !.iteration = TRUE]
    BY <1>2, Zenon DEF Entered
  <2>. QED
    BY <2>1 DEF ContextRecord
<1>3. ASSUME s.fn = "switch_statement"
      PROVE  Entered(c, s) =
        [function |-> c.function, iteration |-> c.iteration,
         switch |-> TRUE, allow_in |-> c.allow_in,
         labels |-> c.labels]
  <2>1. Entered(c, s) = [c EXCEPT !.switch = TRUE]
    BY <1>3, Zenon DEF Entered
  <2>. QED
    BY <2>1 DEF ContextRecord
<1>4. ASSUME s.fn = "allow_in"
      PROVE  Entered(c, s) =
        [function |-> c.function, iteration |-> c.iteration,
         switch |-> c.switch, allow_in |-> s.value,
         labels |-> c.labels]
  <2>1. Entered(c, s) = [c EXCEPT !.allow_in = s.value]
    BY <1>4, Zenon DEF Entered
  <2>. QED
    BY <2>1 DEF ContextRecord
<1>5. ASSUME s.fn = "with_labels"
      PROVE  Entered(c, s) =
        [function |-> c.function, iteration |-> c.iteration,
         switch |-> c.switch, allow_in |-> c.allow_in,
         labels |-> InsertLabels(c.labels, s.labels, s.type)]
  <2>1. Entered(c, s) = [c EXCEPT !.labels = InsertLabels(c.labels, s.labels, s.type)]
    BY <1>5, Zenon DEF Entered
  <2>. QED
    BY <2>1 DEF ContextRecord
<1>. QED
  BY <1>1, <1>2, <1>3, <1>4, <1>5

LEMMA LeftCases ==
  ASSUME NEW c \in ContextRecord, NEW s \in Scope
  PROVE  /\ s.fn = "function_body" => Left(c, s) = s.outer
         /\ s.fn = "iteration_body" =>
              Left(c, s) =
              [function |-> c.function, iteration |-> s.outer,
              switch |-> c.switch, allow_in |-> c.allow_in,
              labels |-> c.labels]
         /\ s.fn = "switch_statement" =>
              Left(c, s) =
              [function |-> c.function, iteration |-> c.iteration,
              switch |-> s.outer, allow_in |-> c.allow_in,
              labels |-> c.labels]
         /\ s.fn = "allow_in" =>
              Left(c, s) =
              [function |-> c.function, iteration |-> c.iteration,
              switch |-> c.switch, allow_in |-> s.outer,
              labels |-> c.labels]
         /\ s.fn = "with_labels" =>
              Left(c, s) =
              [function |-> c.function, iteration |-> c.iteration,
              switch |-> c.switch, allow_in |-> c.allow_in,
              labels |-> RemoveLabels(c.labels, s.labels)]
<1>1. s.fn = "function_body" => Left(c, s) = s.outer
  BY Zenon DEF Left
<1>2. ASSUME s.fn = "iteration_body"
      PROVE  Left(c, s) =
        [function |-> c.function, iteration |-> s.outer,
         switch |-> c.switch, allow_in |-> c.allow_in,
         labels |-> c.labels]
  <2>1. Left(c, s) = [c EXCEPT !.iteration = s.outer]
    BY <1>2, Zenon DEF Left
  <2>. QED
    BY <2>1 DEF ContextRecord
<1>3. ASSUME s.fn = "switch_statement"
      PROVE  Left(c, s) =
        [function |-> c.function, iteration |-> c.iteration,
         switch |-> s.outer, allow_in |-> c.allow_in,
         labels |-> c.labels]
  <2>1. Left(c, s) = [c EXCEPT !.switch = s.outer]
    BY <1>3, Zenon DEF Left
  <2>. QED
    BY <2>1 DEF ContextRecord
<1>4. ASSUME s.fn = "allow_in"
      PROVE  Left(c, s) =
        [function |-> c.function, iteration |-> c.iteration,
         switch |-> c.switch, allow_in |-> s.outer,
         labels |-> c.labels]
  <2>1. Left(c, s) = [c EXCEPT !.allow_in = s.outer]
    BY <1>4, Zenon DEF Left
  <2>. QED
    BY <2>1 DEF ContextRecord
<1>5. ASSUME s.fn = "with_labels"
      PROVE  Left(c, s) =
        [function |-> c.function, iteration |-> c.iteration,
         switch |-> c.switch, allow_in |-> c.allow_in,
         labels |-> RemoveLabels(c.labels, s.labels)]
  <2>1. Left(c, s) = [c EXCEPT !.labels = RemoveLabels(c.labels, s.labels)]
    BY <1>5, Zenon DEF Left
  <2>. QED
    BY <2>1 DEF ContextRecord
<1>. QED
  BY <1>1, <1>2, <1>3, <1>4, <1>5

LEMMA EnteredType ==
  ASSUME NEW c \in ContextRecord, NEW s \in Scope
  PROVE  Entered(c, s) \in ContextRecord
<1>1. CASE s.fn = "function_body"
  BY <1>1, NewContextType, EnteredCases
<1>2. CASE s.fn = "iteration_body"
  <2>1. Entered(c, s) =
        [function |-> c.function, iteration |-> TRUE,
         switch |-> c.switch, allow_in |-> c.allow_in,
         labels |-> c.labels]
    BY <1>2, EnteredCases
  <2>2. c.labels \in Labels
    BY DEF ContextRecord
  <2>. QED
    BY <1>2, <2>1, <2>2, ScopeKinds DEF ContextRecord
<1>3. CASE s.fn = "switch_statement"
  <2>1. Entered(c, s) =
        [function |-> c.function, iteration |-> c.iteration,
         switch |-> TRUE, allow_in |-> c.allow_in,
         labels |-> c.labels]
    BY <1>3, EnteredCases
  <2>2. c.labels \in Labels
    BY DEF ContextRecord
  <2>. QED
    BY <1>3, <2>1, <2>2, ScopeKinds DEF ContextRecord
<1>4. CASE s.fn = "allow_in"
  <2>1. Entered(c, s) =
        [function |-> c.function, iteration |-> c.iteration,
         switch |-> c.switch, allow_in |-> s.value,
         labels |-> c.labels]
    BY <1>4, EnteredCases
  <2>2. c.labels \in Labels
    BY DEF ContextRecord
  <2>. QED
    BY <1>4, <2>1, <2>2, ScopeKinds DEF ContextRecord
<1>5. CASE s.fn = "with_labels"
  <2>1. Entered(c, s) =
        [function |-> c.function, iteration |-> c.iteration,
         switch |-> c.switch, allow_in |-> c.allow_in,
         labels |-> InsertLabels(c.labels, s.labels, s.type)]
    BY <1>5, EnteredCases
  <2>2. c.labels \in Labels
    BY DEF ContextRecord
  <2>3. InsertLabels(c.labels, s.labels, s.type) \in Labels
    BY <1>5, <2>2, ScopeKinds DEF InsertLabels, Labels
  <2>. QED
    BY <2>1, <2>3 DEF ContextRecord
<1>. QED
  BY <1>1, <1>2, <1>3, <1>4, <1>5, ScopeKinds

LEMMA LeftType ==
  ASSUME NEW c \in ContextRecord, NEW s \in Scope
  PROVE  Left(c, s) \in ContextRecord
<1>1. CASE s.fn = "function_body"
  BY <1>1, ScopeKinds, LeftCases
<1>2. CASE s.fn = "iteration_body"
  <2>1. Left(c, s) =
        [function |-> c.function, iteration |-> s.outer,
         switch |-> c.switch, allow_in |-> c.allow_in,
         labels |-> c.labels]
    BY <1>2, LeftCases
  <2>2. c.labels \in Labels
    BY DEF ContextRecord
  <2>. QED
    BY <1>2, <2>1, <2>2, ScopeKinds DEF ContextRecord
<1>3. CASE s.fn = "switch_statement"
  <2>1. Left(c, s) =
        [function |-> c.function, iteration |-> c.iteration,
         switch |-> s.outer, allow_in |-> c.allow_in,
         labels |-> c.labels]
    BY <1>3, LeftCases
  <2>2. c.labels \in Labels
    BY DEF ContextRecord
  <2>. QED
    BY <1>3, <2>1, <2>2, ScopeKinds DEF ContextRecord
<1>4. CASE s.fn = "allow_in"
  <2>1. Left(c, s) =
        [function |-> c.function, iteration |-> c.iteration,
         switch |-> c.switch, allow_in |-> s.outer,
         labels |-> c.labels]
    BY <1>4, LeftCases
  <2>2. c.labels \in Labels
    BY DEF ContextRecord
  <2>. QED
    BY <1>4, <2>1, <2>2, ScopeKinds DEF ContextRecord
<1>5. CASE s.fn = "with_labels"
  <2>1. Left(c, s) =
        [function |-> c.function, iteration |-> c.iteration,
         switch |-> c.switch, allow_in |-> c.allow_in,
         labels |-> RemoveLabels(c.labels, s.labels)]
    BY <1>5, LeftCases
  <2>2. c.labels \in Labels
    BY DEF ContextRecord
  <2>3. RemoveLabels(c.labels, s.labels) \in Labels
    BY <1>5, <2>2, ScopeKinds DEF RemoveLabels, Labels
  <2>. QED
    BY <2>1, <2>3 DEF ContextRecord
<1>. QED
  BY <1>1, <1>2, <1>3, <1>4, <1>5, ScopeKinds

(***************************************************************************)
(* Entering a scope keeps the context true to the nesting.                 *)
(***************************************************************************)
LEMMA EnteredAgrees ==
  ASSUME NEW ss, NEW n \in Nat \ {0}, NEW c \in ContextRecord,
         ss[n] \in Scope,
         Agrees(c, ss, n - 1)
  PROVE  Agrees(Entered(c, ss[n]), ss, n)
<1>1. /\ InFunction(ss, n) <=>
           ss[n].fn = "function_body" \/ InFunction(ss, n - 1)
      /\ InIteration(ss, n) <=>
           /\ ss[n].fn # "function_body"
           /\ ss[n].fn = "iteration_body" \/ InIteration(ss, n - 1)
      /\ InSwitch(ss, n) <=>
           /\ ss[n].fn # "function_body"
           /\ ss[n].fn = "switch_statement" \/ InSwitch(ss, n - 1)
      /\ InNotAllowed(ss, n) <=>
           /\ ss[n].fn # "function_body"
           /\ IF ss[n].fn = "allow_in" THEN ~ss[n].value
              ELSE InNotAllowed(ss, n - 1)
  BY NestStep
<1>2. CASE ss[n].fn = "function_body"
  <2>1. Entered(c, ss[n]) = NewFunction
    BY <1>2, EnteredCases
  <2>. QED
    BY <1>1, <1>2, <2>1 DEF Agrees, NewFunction
<1>3. CASE ss[n].fn = "iteration_body"
  <2>1. Entered(c, ss[n]) =
        [function |-> c.function, iteration |-> TRUE,
         switch |-> c.switch, allow_in |-> c.allow_in,
         labels |-> c.labels]
    BY <1>3, EnteredCases
  <2>. QED
    BY <1>1, <1>3, <2>1 DEF Agrees
<1>4. CASE ss[n].fn = "switch_statement"
  <2>1. Entered(c, ss[n]) =
        [function |-> c.function, iteration |-> c.iteration,
         switch |-> TRUE, allow_in |-> c.allow_in,
         labels |-> c.labels]
    BY <1>4, EnteredCases
  <2>. QED
    BY <1>1, <1>4, <2>1 DEF Agrees
<1>5. CASE ss[n].fn = "allow_in"
  <2>1. Entered(c, ss[n]) =
        [function |-> c.function, iteration |-> c.iteration,
         switch |-> c.switch, allow_in |-> ss[n].value,
         labels |-> c.labels]
    BY <1>5, EnteredCases
  <2>. QED
    BY <1>1, <1>5, <2>1, ScopeKinds DEF Agrees
<1>6. CASE ss[n].fn = "with_labels"
  <2>1. Entered(c, ss[n]) =
        [function |-> c.function, iteration |-> c.iteration,
         switch |-> c.switch, allow_in |-> c.allow_in,
         labels |-> InsertLabels(c.labels, ss[n].labels, ss[n].type)]
    BY <1>6, EnteredCases
  <2>. QED
    BY <1>1, <1>6, <2>1 DEF Agrees
<1>. QED
  BY <1>2, <1>3, <1>4, <1>5, <1>6, ScopeKinds

LEMMA EnteredLabels ==
  ASSUME NEW ss, NEW n \in Nat \ {0}, NEW c \in ContextRecord,
         ss[n] \in Scope,
         LabelsAgree(c.labels, ss, n - 1)
  PROVE  LabelsAgree(Entered(c, ss[n]).labels, ss, n)
<1>. DEFINE s == ss[n]
            m == Entered(c, s).labels
<1>. s \in Scope
  OBVIOUS
<1>1. CASE s.fn = "function_body"
  BY <1>1, EnteredCases DEF NewFunction, NoLabels, ContextRecord, LabelsAgree
<1>2. CASE s.fn \in {"iteration_body", "switch_statement", "allow_in"}
  <2>1. m = c.labels
    BY <1>2, EnteredCases DEF ContextRecord
  <2>2. \A l : ~Declares(s, l)
    BY <1>2 DEF Declares
  <2>3. \A l, t : Labelled(ss, n, l, t) <=> Labelled(ss, n - 1, l, t)
    BY <1>2, <2>2, NestLabelled
  <2>. QED
    BY <2>1, <2>3 DEF LabelsAgree
<1>3. CASE s.fn = "with_labels"
  <2>1. m = InsertLabels(c.labels, s.labels, s.type)
    BY <1>3, EnteredCases DEF ContextRecord
  <2>2. \A l : Declares(s, l) <=> l \in s.labels
    BY <1>3 DEF Declares
  <2>3. \A l, t : Labelled(ss, n, l, t) <=>
                    IF l \in s.labels THEN s.type = t
                    ELSE Labelled(ss, n - 1, l, t)
    BY <1>3, <2>2, NestLabelled
  <2>. QED
    BY <2>1, <2>3 DEF LabelsAgree, InsertLabels
<1>. QED
  BY <1>1, <1>2, <1>3, ScopeKinds

LEMMA EnteredKnown ==
  ASSUME NEW ss, NEW n \in Nat \ {0}, NEW c \in ContextRecord,
         ss[n] \in Scope,
         Distinct(ss, n),
         AllKnown(c.labels, ss, n - 1)
  PROVE  AllKnown(Entered(c, ss[n]).labels, ss, n)
<1>. DEFINE s == ss[n]
            m == Entered(c, s).labels
<1>. s \in Scope
  OBVIOUS
<1>1. Local(ss, n) = IF s.fn = "function_body" THEN {}
                     ELSE Local(ss, n - 1) \cup {n}
  BY NestLocal
<1>2. CASE s.fn = "function_body"
  BY <1>1, <1>2 DEF AllKnown
<1>3. CASE s.fn \in {"iteration_body", "switch_statement", "allow_in"}
  <2>1. m = c.labels
    BY <1>3, EnteredCases DEF ContextRecord
  <2>2. \A l : ~Declares(s, l)
    BY <1>3 DEF Declares
  <2>. QED
    BY <1>1, <2>1, <2>2 DEF AllKnown
<1>4. CASE s.fn = "with_labels"
  <2>1. m = InsertLabels(c.labels, s.labels, s.type)
    BY <1>4, EnteredCases DEF ContextRecord
  <2>2. \A l : Declares(s, l) <=> l \in s.labels
    BY <1>4 DEF Declares
  <2>3. n \notin Local(ss, n - 1)
    BY DEF Local
  <2>4. ASSUME NEW l \in Label, NEW i \in Local(ss, n), Declares(ss[i], l)
        PROVE  m[l] = ss[i].type
    <3>1. CASE i = n
      BY <2>1, <2>2, <2>4, <3>1 DEF InsertLabels
    <3>2. CASE i # n
      <4>1. i \in Local(ss, n - 1) /\ i \in Local(ss, n) \ {n}
        BY <1>1, <1>4, <3>2
      <4>2. l \notin s.labels
        BY <2>2, <2>4, <4>1 DEF Distinct
      <4>3. c.labels[l] = ss[i].type
        BY <2>4, <4>1 DEF AllKnown
      <4>. QED
        BY <2>1, <4>2, <4>3 DEF InsertLabels
    <3>. QED
      BY <3>1, <3>2
  <2>. QED
    BY <2>4 DEF AllKnown
<1>. QED
  BY <1>2, <1>3, <1>4, ScopeKinds
(***************************************************************************)
(* So does leaving the last scope: the context is again that of the scopes *)
(* around it.                                                              *)
(***************************************************************************)
LEMMA LeftAgrees ==
  ASSUME NEW ss, NEW n \in Nat \ {0}, NEW c \in ContextRecord,
         ss[n] \in Scope,
         RestoresOuter(ss, n),
         Agrees(c, ss, n)
  PROVE  Agrees(Left(c, ss[n]), ss, n - 1)
<1>1. /\ InFunction(ss, n) <=>
           ss[n].fn = "function_body" \/ InFunction(ss, n - 1)
      /\ InIteration(ss, n) <=>
           /\ ss[n].fn # "function_body"
           /\ ss[n].fn = "iteration_body" \/ InIteration(ss, n - 1)
      /\ InSwitch(ss, n) <=>
           /\ ss[n].fn # "function_body"
           /\ ss[n].fn = "switch_statement" \/ InSwitch(ss, n - 1)
      /\ InNotAllowed(ss, n) <=>
           /\ ss[n].fn # "function_body"
           /\ IF ss[n].fn = "allow_in" THEN ~ss[n].value
              ELSE InNotAllowed(ss, n - 1)
  BY NestStep
<1>2. CASE ss[n].fn = "function_body"
  <2>1. Left(c, ss[n]) = ss[n].outer
    BY <1>2, LeftCases
  <2>. QED
    BY <1>2, <2>1 DEF RestoresOuter
<1>3. CASE ss[n].fn = "iteration_body"
  <2>1. Left(c, ss[n]) =
        [function |-> c.function, iteration |-> ss[n].outer,
         switch |-> c.switch, allow_in |-> c.allow_in,
         labels |-> c.labels]
    BY <1>3, LeftCases
  <2>. QED
    BY <1>1, <1>3, <2>1 DEF Agrees, RestoresOuter
<1>4. CASE ss[n].fn = "switch_statement"
  <2>1. Left(c, ss[n]) =
        [function |-> c.function, iteration |-> c.iteration,
         switch |-> ss[n].outer, allow_in |-> c.allow_in,
         labels |-> c.labels]
    BY <1>4, LeftCases
  <2>. QED
    BY <1>1, <1>4, <2>1 DEF Agrees, RestoresOuter
<1>5. CASE ss[n].fn = "allow_in"
  <2>1. Left(c, ss[n]) =
        [function |-> c.function, iteration |-> c.iteration,
         switch |-> c.switch, allow_in |-> ss[n].outer,
         labels |-> c.labels]
    BY <1>5, LeftCases
  <2>. QED
    BY <1>1, <1>5, <2>1 DEF Agrees, RestoresOuter
<1>6. CASE ss[n].fn = "with_labels"
  <2>1. Left(c, ss[n]) =
        [function |-> c.function, iteration |-> c.iteration,
         switch |-> c.switch, allow_in |-> c.allow_in,
         labels |-> RemoveLabels(c.labels, ss[n].labels)]
    BY <1>6, LeftCases
  <2>. QED
    BY <1>1, <1>6, <2>1 DEF Agrees, RestoresOuter
<1>. QED
  BY <1>2, <1>3, <1>4, <1>5, <1>6, ScopeKinds

LEMMA LeftLabels ==
  ASSUME NEW ss, NEW n \in Nat \ {0}, NEW c \in ContextRecord,
         ss[n] \in Scope,
         RestoresOuter(ss, n),
         LabelsAgree(c.labels, ss, n)
  PROVE  LabelsAgree(Left(c, ss[n]).labels, ss, n - 1)
<1>1. CASE ss[n].fn = "function_body"
  <2>1. Left(c, ss[n]) = ss[n].outer
    BY <1>1, LeftCases
  <2>. QED
    BY <1>1, <2>1 DEF RestoresOuter
<1>2. CASE ss[n].fn \in {"iteration_body", "switch_statement", "allow_in"}
  <2>1. Left(c, ss[n]).labels = c.labels
    BY <1>2, LeftCases
  <2>2. \A l : ~Declares(ss[n], l)
    BY <1>2 DEF Declares
  <2>3. \A l, t : Labelled(ss, n, l, t) => Labelled(ss, n - 1, l, t)
    BY <1>2, <2>2, NestLabelled
  <2>. QED
    BY <2>1, <2>3 DEF LabelsAgree
<1>3. CASE ss[n].fn = "with_labels"
  <2>1. Left(c, ss[n]).labels = RemoveLabels(c.labels, ss[n].labels)
    BY <1>3, LeftCases
  <2>2. \A l : Declares(ss[n], l) <=> l \in ss[n].labels
    BY <1>3 DEF Declares
  <2>3. \A l, t : l \notin ss[n].labels /\ Labelled(ss, n, l, t) =>
                    Labelled(ss, n - 1, l, t)
    BY <1>3, <2>2, NestLabelled
  <2>. QED
    BY <2>1, <2>3 DEF LabelsAgree, RemoveLabels
<1>. QED
  BY <1>1, <1>2, <1>3, ScopeKinds

LEMMA LeftKnown ==
  ASSUME NEW ss, NEW n \in Nat \ {0}, NEW c \in ContextRecord,
         ss[n] \in Scope,
         ~NestedDuplicates,
         RestoresOuter(ss, n),
         Distinct(ss, n),
         AllKnown(c.labels, ss, n)
  PROVE  AllKnown(Left(c, ss[n]).labels, ss, n - 1)
<1>1. CASE ss[n].fn = "function_body"
  <2>1. Left(c, ss[n]) = ss[n].outer
    BY <1>1, LeftCases
  <2>. QED
    BY <1>1, <2>1 DEF RestoresOuter
<1>2. ss[n].fn # "function_body" =>
        Local(ss, n - 1) \subseteq Local(ss, n) \ {n}
  <2>1. n \notin Local(ss, n - 1)
    BY DEF Local
  <2>. QED
    BY <2>1, NestLocal
<1>3. CASE ss[n].fn \in {"iteration_body", "switch_statement", "allow_in"}
  <2>1. Left(c, ss[n]).labels = c.labels
    BY <1>3, LeftCases
  <2>. QED
    BY <1>2, <1>3, <2>1 DEF AllKnown
<1>4. CASE ss[n].fn = "with_labels"
  <2>1. Left(c, ss[n]).labels = RemoveLabels(c.labels, ss[n].labels)
    BY <1>4, LeftCases
  <2>2. \A l : Declares(ss[n], l) <=> l \in ss[n].labels
    BY <1>4 DEF Declares
  <2>3. \A l \in Label, i \in Local(ss, n - 1) :
          Declares(ss[i], l) => l \notin ss[n].labels
    BY <1>2, <1>4, <2>2 DEF Distinct
  <2>. QED
    BY <1>2, <1>4, <2>1, <2>3 DEF AllKnown, RemoveLabels
<1>. QED
  BY <1>1, <1>3, <1>4, ScopeKinds
(***************************************************************************)
(* Vec-like facts: what a call pushes and what a return pops.              *)
(***************************************************************************)
LEMMA FrontLast ==
  ASSUME NEW S, NEW s \in Seq(S), s # <<>>
  PROVE  /\ Front(s) \in Seq(S)
         /\ Len(Front(s)) = Len(s) - 1
         /\ Len(s) \in Nat \ {0}
         /\ \A i \in 1 .. Len(s) - 1 : Front(s)[i] = s[i]
         /\ Last(s) = s[Len(s)]
         /\ Last(s) \in S
<1>1. Len(s) \in Nat \ {0}
  BY EmptySeq
<1>2. \A i \in 1 .. Len(s) - 1 : s[i] \in S
  BY <1>1, ElementOfSeq
<1>3. /\ SubSeq(s, 1, Len(s) - 1) \in Seq(S)
      /\ Len(SubSeq(s, 1, Len(s) - 1)) = Len(s) - 1
  <2>1. PICK n \in Nat : n = Len(s) - 1
    BY <1>1
  <2>2. \A i \in 1 .. n : s[i] \in S
    BY <1>2, <2>1
  <2>3. SubSeq(s, 1, n) \in Seq(S) /\ Len(SubSeq(s, 1, n)) = n
    BY <2>2, SubSeqProperties
  <2>. QED
    BY <2>1, <2>3
<1>4. s[Len(s)] \in S
  BY <1>1, ElementOfSeq
<1>5. \A i \in 1 .. Len(s) - 1 : SubSeq(s, 1, Len(s) - 1)[i] = s[i]
  BY <1>1
<1>. QED
  BY <1>1, <1>3, <1>4, <1>5 DEF Front, Last

(***************************************************************************)
(* The scopes that the parser functions open are of the declared types.    *)
(***************************************************************************)
LEMMA OpenedScopes ==
  ASSUME NEW c \in ContextRecord
  PROVE  /\ FunctionBody(c) \in Scope
         /\ IterationBody(c) \in Scope
         /\ SwitchStatement(c) \in Scope
         /\ \A v \in BOOLEAN : AllowIn(c, v) \in Scope
         /\ \A ls \in SUBSET Label, t \in LabelType : WithLabels(ls, t) \in Scope
<1>1. FunctionBody(c) \in Scope
  BY DEF FunctionBody, Scope, FunctionScope
<1>2. c.iteration \in BOOLEAN /\ c.switch \in BOOLEAN /\ c.allow_in \in BOOLEAN
  BY DEF ContextRecord
<1>3. IterationBody(c) \in Scope /\ SwitchStatement(c) \in Scope
  BY <1>2 DEF IterationBody, SwitchStatement, Scope, FlagScope
<1>4. \A v \in BOOLEAN : AllowIn(c, v) \in Scope
  BY <1>2 DEF AllowIn, Scope, AllowInScope
<1>5. \A ls \in SUBSET Label, t \in LabelType : WithLabels(ls, t) \in Scope
  BY DEF WithLabels, Scope, LabelScope
<1>. QED
  BY <1>1, <1>3, <1>4, <1>5

\* The conjuncts of ScopesInv on the scopes and the context.
Nested ==
  /\ ContextAgrees
  /\ LabelsSound
  /\ LabelsComplete
  /\ \A i \in DOMAIN scopes :
       RestoresOuter(scopes, i) /\ (~NestedDuplicates => Distinct(scopes, i))

LEMMA InitInv == Init => TypeOK /\ ScopesInv
<1>. SUFFICES ASSUME Init
              PROVE  TypeOK /\ ScopesInv
  OBVIOUS
<1>1. TypeOK
  BY NewContextType DEF Init, TypeOK, NoJump
<1>2. /\ ~InFunction(<<>>, 0) /\ Local(<<>>, 0) = {}
      /\ ~InIteration(<<>>, 0) /\ ~InSwitch(<<>>, 0) /\ ~InNotAllowed(<<>>, 0)
  BY DEF InFunction, Local, InIteration, InSwitch, InNotAllowed
<1>3. ContextAgrees
  BY <1>2 DEF Init, ContextAgrees, Agrees, NewContext
<1>4. LabelsSound /\ LabelsComplete
  BY <1>2 DEF Init, LabelsSound, LabelsAgree, LabelsComplete, AllKnown,
              NewContext, NoLabels
<1>5. JumpChecked
  BY DEF Init, JumpChecked, NoJump
<1>. QED
  BY <1>1, <1>3, <1>4, <1>5 DEF Init, ScopesInv

(***************************************************************************)
(* Opening a scope.                                                        *)
(***************************************************************************)
LEMMA EnterNested ==
  ASSUME TypeOK, Nested,
         NEW s \in Scope, Enter(s),
         RestoresOuter(Append(scopes, s), Len(scopes) + 1),
         ~NestedDuplicates => Distinct(Append(scopes, s), Len(scopes) + 1)
  PROVE  TypeOK' /\ ScopesInv'
<1>. DEFINE n == Len(scopes)
            ss == Append(scopes, s)
<1>1. /\ n \in Nat
      /\ ss \in Seq(Scope) /\ Len(ss) = n + 1 /\ ss[n + 1] = s
      /\ \A i \in 1 .. n : ss[i] = scopes[i]
  BY DEF TypeOK
<1>2. scopes' = ss /\ context' = Entered(context, s) /\ jump' = NoJump
  BY DEF Enter
<1>3. TypeOK'
  BY <1>1, <1>2, EnteredType DEF TypeOK, NoJump
<1>4. /\ Agrees(context, ss, n)
      /\ LabelsAgree(context.labels, ss, n)
      /\ ~NestedDuplicates => AllKnown(context.labels, ss, n)
  BY <1>1, AgreesStable DEF Nested, ContextAgrees, LabelsSound, LabelsComplete
<1>5. n + 1 \in Nat \ {0} /\ (n + 1) - 1 = n /\ context \in ContextRecord
  BY <1>1 DEF TypeOK
<1>6. Agrees(context', ss, n + 1)
  BY <1>1, <1>2, <1>4, <1>5, EnteredAgrees
<1>7. LabelsAgree(context'.labels, ss, n + 1)
  BY <1>1, <1>2, <1>4, <1>5, EnteredLabels
<1>8. ~NestedDuplicates => AllKnown(context'.labels, ss, n + 1)
  BY <1>1, <1>2, <1>4, <1>5, EnteredKnown
<1>9. ASSUME NEW i \in 1 .. n + 1
      PROVE  RestoresOuter(ss, i) /\ (~NestedDuplicates => Distinct(ss, i))
  <2>1. CASE i = n + 1
    BY <2>1
  <2>2. CASE i \in 1 .. n
    <3>1. RestoresOuter(scopes, i) /\ (~NestedDuplicates => Distinct(scopes, i))
      BY <2>2 DEF Nested, TypeOK
    <3>2. i \in Nat \ {0} /\ \A j \in 1 .. i : ss[j] = scopes[j]
      BY <1>1, <2>2
    <3>. QED
      BY <3>1, <3>2, ScopeStable
  <2>. QED
    BY <1>1, <2>1, <2>2
<1>10. DOMAIN ss = 1 .. n + 1
  BY <1>1
<1>11. JumpChecked'
  BY <1>2 DEF JumpChecked, NoJump
<1>12. ContextAgrees' /\ LabelsSound' /\ LabelsComplete'
  BY <1>1, <1>2, <1>6, <1>7, <1>8 DEF ContextAgrees, LabelsSound, LabelsComplete
<1>. QED
  BY <1>2, <1>3, <1>9, <1>10, <1>11, <1>12 DEF ScopesInv

LEMMA NextEnter ==
  ASSUME TypeOK, Nested,
         \/ EnterFunctionBody \/ EnterIterationBody \/ EnterSwitchStatement
         \/ EnterAllowIn \/ EnterWithLabels
  PROVE  TypeOK' /\ ScopesInv'
<1>. DEFINE n == Len(scopes)
<1>1. n \in Nat /\ (n + 1) - 1 = n /\ context \in ContextRecord
  BY DEF TypeOK
<1>2. ASSUME NEW s \in Scope
      PROVE  LET ss == Append(scopes, s)
             IN  /\ ss[n + 1] = s
                 /\ \A i \in 1 .. n : ss[i] = scopes[i]
                 /\ InIteration(ss, n) <=> context.iteration
                 /\ InSwitch(ss, n) <=> context.switch
                 /\ ~InNotAllowed(ss, n) <=> context.allow_in
                 /\ Agrees(context, ss, n)
                 /\ LabelsAgree(context.labels, ss, n)
                 /\ ~NestedDuplicates => AllKnown(context.labels, ss, n)
  <2>. DEFINE ss == Append(scopes, s)
  <2>1. ss[n + 1] = s /\ \A i \in 1 .. n : ss[i] = scopes[i]
    BY DEF TypeOK
  <2>2. /\ Agrees(context, ss, n)
        /\ LabelsAgree(context.labels, ss, n)
        /\ ~NestedDuplicates => AllKnown(context.labels, ss, n)
    <3>1. /\ Agrees(context, ss, n) <=> Agrees(context, scopes, n)
          /\ LabelsAgree(context.labels, ss, n)
               <=> LabelsAgree(context.labels, scopes, n)
          /\ AllKnown(context.labels, ss, n)
               <=> AllKnown(context.labels, scopes, n)
      BY <1>1, <2>1, AgreesStable
    <3>. QED
      BY <3>1 DEF Nested, ContextAgrees, LabelsSound, LabelsComplete
  <2>. QED
    BY <2>1, <2>2 DEF Agrees
<1>3. ASSUME NEW s \in Scope, s.fn # "with_labels"
      PROVE  Distinct(Append(scopes, s), n + 1)
  BY <1>2, <1>3 DEF Distinct, Declares
<1>4. CASE EnterFunctionBody
  <2>. DEFINE s == FunctionBody(context)
  <2>1. s \in Scope /\ s.fn = "function_body" /\ s.outer = context
    BY <1>1, OpenedScopes DEF FunctionBody
  <2>2. RestoresOuter(Append(scopes, s), n + 1)
    BY <1>1, <1>2, <2>1 DEF RestoresOuter
  <2>. QED
    BY <1>3, <1>4, <2>1, <2>2, EnterNested DEF EnterFunctionBody
<1>5. CASE EnterIterationBody
  <2>. DEFINE s == IterationBody(context)
  <2>1. s \in Scope /\ s.fn = "iteration_body" /\ s.outer = context.iteration
    BY <1>1, OpenedScopes DEF IterationBody
  <2>2. RestoresOuter(Append(scopes, s), n + 1)
    BY <1>1, <1>2, <2>1 DEF RestoresOuter
  <2>. QED
    BY <1>3, <1>5, <2>1, <2>2, EnterNested DEF EnterIterationBody
<1>6. CASE EnterSwitchStatement
  <2>. DEFINE s == SwitchStatement(context)
  <2>1. s \in Scope /\ s.fn = "switch_statement" /\ s.outer = context.switch
    BY <1>1, OpenedScopes DEF SwitchStatement
  <2>2. RestoresOuter(Append(scopes, s), n + 1)
    BY <1>1, <1>2, <2>1 DEF RestoresOuter
  <2>. QED
    BY <1>3, <1>6, <2>1, <2>2, EnterNested DEF EnterSwitchStatement
<1>7. CASE EnterAllowIn
  <2>1. PICK v \in BOOLEAN : Enter(AllowIn(context, v))
    BY <1>7 DEF EnterAllowIn
  <2>. DEFINE s == AllowIn(context, v)
  <2>2. s \in Scope /\ s.fn = "allow_in" /\ s.outer = context.allow_in
    BY <1>1, OpenedScopes DEF AllowIn
  <2>3. RestoresOuter(Append(scopes, s), n + 1)
    BY <1>1, <1>2, <2>2 DEF RestoresOuter
  <2>. QED
    BY <1>3, <2>1, <2>2, <2>3, EnterNested
<1>8. CASE EnterWithLabels
  <2>1. PICK ls \in SUBSET Label, t \in LabelType :
               /\ NestedDuplicates \/ Fresh(ls)
               /\ Enter(WithLabels(ls, t))
    BY <1>8 DEF EnterWithLabels
  <2>. DEFINE s == WithLabels(ls, t)
              ss == Append(scopes, s)
  <2>2. s \in Scope /\ s.fn = "with_labels" /\ s.labels = ls
    BY <1>1, OpenedScopes DEF WithLabels
  <2>3. RestoresOuter(ss, n + 1)
    BY <1>2, <2>2 DEF RestoresOuter
  <2>4. ss[n + 1] = s /\ \A i \in 1 .. n : ss[i] = scopes[i]
    BY <1>2, <2>2
  <2>5. Local(ss, n + 1) = Local(scopes, n) \cup {n + 1}
    <3>1. Local(ss, n) = Local(scopes, n)
      BY <1>1, <2>4, PrefixStable
    <3>2. Local(ss, n + 1) = IF ss[n + 1].fn = "function_body" THEN {}
                             ELSE Local(ss, (n + 1) - 1) \cup {n + 1}
      <4>1. n + 1 \in Nat \ {0}
        BY <1>1
      <4>. QED
        BY <4>1, NestLocal
    <3>. QED
      BY <1>1, <2>2, <2>4, <3>1, <3>2
  <2>6. Fresh(ls) => Distinct(ss, n + 1)
    <3>1. Local(ss, n + 1) \ {n + 1} \subseteq Local(scopes, n)
      BY <2>5
    <3>2. \A j \in Local(scopes, n) : ss[j] = scopes[j]
      BY <2>4 DEF Local
    <3>. QED
      BY <2>2, <2>4, <3>1, <3>2 DEF Fresh, Distinct, Declares
  <2>. QED
    BY <2>1, <2>2, <2>3, <2>6, EnterNested
<1>. QED
  BY <1>4, <1>5, <1>6, <1>7, <1>8
(***************************************************************************)
(* Leaving the innermost scope.                                            *)
(***************************************************************************)
LEMMA NextLeave ==
  ASSUME TypeOK, Nested, Leave
  PROVE  TypeOK' /\ ScopesInv'
<1>. DEFINE n == Len(scopes)
            ss == Front(scopes)
<1>1. scopes \in Seq(Scope) /\ scopes # <<>> /\ context \in ContextRecord
  BY DEF TypeOK, Leave
<1>2. /\ ss \in Seq(Scope) /\ Len(ss) = n - 1 /\ n \in Nat \ {0}
      /\ \A i \in 1 .. n - 1 : ss[i] = scopes[i]
      /\ Last(scopes) = scopes[n] /\ scopes[n] \in Scope
  BY <1>1, FrontLast
<1>3. scopes' = ss /\ context' = Left(context, scopes[n]) /\ jump' = NoJump
  BY <1>2 DEF Leave
<1>4. TypeOK'
  BY <1>1, <1>2, <1>3, LeftType DEF TypeOK, NoJump
<1>5. n \in DOMAIN scopes
  BY <1>1, <1>2
<1>6. /\ RestoresOuter(scopes, n) /\ (~NestedDuplicates => Distinct(scopes, n))
      /\ Agrees(context, scopes, n)
      /\ LabelsAgree(context.labels, scopes, n)
      /\ ~NestedDuplicates => AllKnown(context.labels, scopes, n)
  BY <1>5 DEF Nested, ContextAgrees, LabelsSound, LabelsComplete
<1>7. Agrees(context', scopes, n - 1)
  BY <1>1, <1>2, <1>3, <1>6, LeftAgrees
<1>8. LabelsAgree(context'.labels, scopes, n - 1)
  BY <1>1, <1>2, <1>3, <1>6, LeftLabels
<1>9. ~NestedDuplicates => AllKnown(context'.labels, scopes, n - 1)
  BY <1>1, <1>2, <1>3, <1>6, LeftKnown
<1>10. n - 1 \in Nat
  BY <1>2
<1>11. /\ Agrees(context', ss, n - 1)
       /\ LabelsAgree(context'.labels, ss, n - 1)
       /\ ~NestedDuplicates => AllKnown(context'.labels, ss, n - 1)
  <2>1. \A i \in 1 .. n - 1 : ss[i] = scopes[i]
    BY <1>2
  <2>2. /\ Agrees(context', ss, n - 1) <=> Agrees(context', scopes, n - 1)
        /\ LabelsAgree(context'.labels, ss, n - 1)
             <=> LabelsAgree(context'.labels, scopes, n - 1)
        /\ AllKnown(context'.labels, ss, n - 1)
             <=> AllKnown(context'.labels, scopes, n - 1)
    BY <1>10, <2>1, AgreesStable
  <2>. QED
    BY <1>7, <1>8, <1>9, <2>2
<1>12. ContextAgrees' /\ LabelsSound' /\ LabelsComplete'
  BY <1>2, <1>3, <1>11 DEF ContextAgrees, LabelsSound, LabelsComplete
<1>13. ASSUME NEW i \in 1 .. n - 1
       PROVE  RestoresOuter(ss, i) /\ (~NestedDuplicates => Distinct(ss, i))
  <2>1. i \in DOMAIN scopes /\ i \in Nat \ {0}
    BY <1>1, <1>2
  <2>2. RestoresOuter(scopes, i) /\ (~NestedDuplicates => Distinct(scopes, i))
    BY <2>1 DEF Nested
  <2>3. \A j \in 1 .. i : ss[j] = scopes[j]
    BY <1>2
  <2>. QED
    BY <2>1, <2>2, <2>3, ScopeStable
<1>14. DOMAIN ss = 1 .. n - 1
  BY <1>2
<1>15. JumpChecked'
  BY <1>3 DEF JumpChecked, NoJump
<1>. QED
  BY <1>3, <1>4, <1>12, <1>13, <1>14, <1>15 DEF ScopesInv

(***************************************************************************)
(* A jump statement changes nothing but jump.                              *)
(***************************************************************************)
LEMMA SameNesting ==
  ASSUME Nested, UNCHANGED <<context, scopes>>
  PROVE  /\ ContextAgrees' /\ LabelsSound' /\ LabelsComplete'
         /\ \A i \in DOMAIN scopes' :
              /\ RestoresOuter(scopes', i)
              /\ ~NestedDuplicates => Distinct(scopes', i)
BY DEF Nested, ContextAgrees, LabelsSound, LabelsComplete

LEMMA NextJump ==
  ASSUME TypeOK, Nested,
         Break \/ BreakTo \/ Continue \/ ContinueTo \/ Return
  PROVE  TypeOK' /\ ScopesInv'
<1>1. UNCHANGED <<context, scopes>>
  BY DEF Break, BreakTo, Continue, ContinueTo, Return, Jump
<1>2. /\ MayBreak(context) \in BOOLEAN
      /\ MayContinue(context) \in BOOLEAN
      /\ MayReturn(context) \in BOOLEAN
      /\ \A l \in Label : MayBreakTo(context, l) \in BOOLEAN
      /\ \A l \in Label : MayContinueTo(context, l) \in BOOLEAN
  BY DEF TypeOK, ContextRecord, MayBreak, MayContinue, MayReturn, MayBreakTo,
         MayContinueTo
<1>3. \A l \in Label : l # None
  BY NoneAssumption
<1>4. /\ jump' \in [stmt : {"none", "break", "continue", "return"},
                    label : Label \cup {None}, accepted : BOOLEAN]
      /\ JumpChecked'
  <2>1. CASE Break
    BY <1>1, <1>2, <2>1 DEF Break, Jump, JumpChecked, NoJump
  <2>2. CASE BreakTo
    BY <1>1, <1>2, <1>3, <2>2 DEF BreakTo, Jump, JumpChecked, NoJump
  <2>3. CASE Continue
    BY <1>1, <1>2, <2>3 DEF Continue, Jump, JumpChecked, NoJump
  <2>4. CASE ContinueTo
    BY <1>1, <1>2, <1>3, <2>4 DEF ContinueTo, Jump, JumpChecked, NoJump
  <2>5. CASE Return
    BY <1>1, <1>2, <2>5 DEF Return, Jump, JumpChecked, NoJump
  <2>. QED
    BY <2>1, <2>2, <2>3, <2>4, <2>5
<1>5. TypeOK'
  BY <1>1, <1>4 DEF TypeOK
<1>. QED
  BY <1>1, <1>4, <1>5, SameNesting DEF ScopesInv

LEMMA NextInv == TypeOK /\ ScopesInv /\ [Next]_vars => TypeOK' /\ ScopesInv'
<1>. SUFFICES ASSUME TypeOK, ScopesInv, [Next]_vars
              PROVE  TypeOK' /\ ScopesInv'
  OBVIOUS
<1>1. Nested
  BY DEF ScopesInv, Nested
<1>2. CASE UNCHANGED vars
  <2>1. TypeOK' /\ JumpChecked'
    BY <1>2 DEF vars, TypeOK, ScopesInv, JumpChecked
  <2>. QED
    BY <1>1, <1>2, <2>1, SameNesting DEF vars, ScopesInv
<1>3. CASE Leave
  BY <1>1, <1>3, NextLeave
<1>4. CASE \/ EnterFunctionBody \/ EnterIterationBody \/ EnterSwitchStatement
           \/ EnterAllowIn \/ EnterWithLabels
  BY <1>1, <1>4, NextEnter
<1>5. CASE Break \/ BreakTo \/ Continue \/ ContinueTo \/ Return
  BY <1>1, <1>5, NextJump
<1>. QED
  BY <1>2, <1>3, <1>4, <1>5 DEF Next

(***************************************************************************)
(* The parser's context, scope stack and jump record keep their types.     *)
(***************************************************************************)
THEOREM TypeCorrect == Spec => []TypeOK
<1>. QED
  BY InitInv, NextInv, PTL DEF Spec

(***************************************************************************)
(* The inductive invariant holds: every open scope will restore what held  *)
(* around it, and the context tells the truth about the nesting.           *)
(***************************************************************************)
THEOREM ScopesCorrect == Spec => []ScopesInv
<1>. QED
  BY InitInv, NextInv, PTL DEF Spec

(***************************************************************************)
(* After any sequence of entries and exits the context's flags are those   *)
(* of the scopes that are open.                                            *)
(***************************************************************************)
THEOREM ContextAgreesCorrect == Spec => []ContextAgrees
<1>1. ScopesInv => ContextAgrees
  BY DEF ScopesInv
<1>. QED
  BY <1>1, ScopesCorrect, PTL

(***************************************************************************)
(* A label the context knows is that of an open statement of the same      *)
(* function.                                                               *)
(***************************************************************************)
THEOREM LabelsSoundCorrect == Spec => []LabelsSound
<1>1. ScopesInv => LabelsSound
  BY DEF ScopesInv
<1>. QED
  BY <1>1, ScopesCorrect, PTL

(***************************************************************************)
(* Every open label is known, unless a label was reused within its own     *)
(* statement.                                                              *)
(***************************************************************************)
THEOREM LabelsCompleteCorrect == Spec => []LabelsComplete
<1>1. ScopesInv => LabelsComplete
  BY DEF ScopesInv
<1>. QED
  BY <1>1, ScopesCorrect, PTL
(***************************************************************************)
(* An accepted jump has its target.                                        *)
(***************************************************************************)
THEOREM AcceptedJumpsCorrect == Spec => []AcceptedJumpsHaveTargets
<1>1. ASSUME TypeOK, ScopesInv, jump.accepted, jump # NoJump
      PROVE  HasTarget(jump, scopes, Len(scopes))
  <2>. DEFINE n == Len(scopes)
  <2>1. /\ Agrees(context, scopes, n)
        /\ LabelsAgree(context.labels, scopes, n)
        /\ JumpChecked
    BY <1>1 DEF ScopesInv, ContextAgrees, LabelsSound
  <2>2. /\ jump.stmt \in {"none", "break", "continue", "return"}
        /\ jump.label \in Label \cup {None}
        /\ context.labels \in Labels
    BY <1>1 DEF TypeOK, ContextRecord
  <2>3. jump.stmt # "none"
    BY <1>1, <2>1 DEF JumpChecked
  <2>4. CASE jump.label = None
    BY <1>1, <2>1, <2>2, <2>3, <2>4
       DEF JumpChecked, MayBreak, MayContinue, MayReturn, Agrees, HasTarget
  <2>5. CASE jump.label # None
    <3>1. jump.label \in Label
      BY <2>2, <2>5
    <3>2. context.labels[jump.label] \in LabelType \cup {None}
      BY <2>2, <3>1 DEF Labels
    <3>3. context.labels[jump.label] # None =>
            Labelled(scopes, n, jump.label, context.labels[jump.label])
      BY <2>1, <3>1 DEF LabelsAgree
    <3>4. "Iteration" # None
      BY NoneAssumption
    <3>5. CASE jump.stmt = "break"
      BY <1>1, <2>1, <2>5, <3>2, <3>3, <3>5
         DEF JumpChecked, MayBreakTo, HasTarget
    <3>6. CASE jump.stmt = "continue"
      BY <1>1, <2>1, <2>5, <3>3, <3>4, <3>6
         DEF JumpChecked, MayContinueTo, HasTarget
    <3>7. CASE jump.stmt = "return"
      BY <1>1, <2>1, <3>7 DEF JumpChecked, MayReturn, Agrees, HasTarget
    <3>. QED
      BY <2>2, <2>3, <3>5, <3>6, <3>7
  <2>. QED
    BY <2>4, <2>5
<1>2. TypeOK /\ ScopesInv => AcceptedJumpsHaveTargets
  BY <1>1 DEF AcceptedJumpsHaveTargets
<1>. QED
  BY <1>2, TypeCorrect, ScopesCorrect, PTL

(***************************************************************************)
(* A rejected jump has none, where no label is reused.                     *)
(***************************************************************************)
THEOREM RejectedJumpsCorrect == Spec => []RejectedJumpsHaveNone
<1>1. ASSUME TypeOK, ScopesInv,
             ~jump.accepted, jump.label = None \/ ~NestedDuplicates,
             HasTarget(jump, scopes, Len(scopes))
      PROVE  FALSE
  <2>. DEFINE n == Len(scopes)
  <2>1. /\ Agrees(context, scopes, n)
        /\ ~NestedDuplicates => AllKnown(context.labels, scopes, n)
        /\ JumpChecked
    BY <1>1 DEF ScopesInv, ContextAgrees, LabelsComplete
  <2>2. jump.label \in Label \cup {None}
    BY <1>1 DEF TypeOK
  <2>3. CASE jump.label = None
    BY <1>1, <2>1, <2>3
       DEF JumpChecked, MayBreak, MayContinue, MayReturn, Agrees, HasTarget
  <2>4. CASE jump.label # None
    <3>1. jump.label \in Label
      BY <2>2, <2>4
    <3>2. \A t : Labelled(scopes, n, jump.label, t) =>
                   context.labels[jump.label] = t
      BY <1>1, <2>1, <2>4, <3>1 DEF AllKnown, Labelled
    <3>3. CASE jump.stmt = "break"
      BY <1>1, <2>1, <2>4, <3>2, <3>3, NoneIsNoType
         DEF JumpChecked, MayBreakTo, HasTarget
    <3>4. CASE jump.stmt = "continue"
      BY <1>1, <2>1, <2>4, <3>2, <3>4 DEF JumpChecked, MayContinueTo, HasTarget
    <3>5. CASE jump.stmt = "return"
      BY <1>1, <2>1, <3>5 DEF JumpChecked, MayReturn, Agrees, HasTarget
    <3>. QED
      BY <1>1, <3>3, <3>4, <3>5 DEF HasTarget
  <2>. QED
    BY <2>3, <2>4
<1>2. TypeOK /\ ScopesInv => RejectedJumpsHaveNone
  BY <1>1 DEF RejectedJumpsHaveNone
<1>. QED
  BY <1>2, TypeCorrect, ScopesCorrect, PTL
=============================================================================
