---------------------------- MODULE ParserScopes ----------------------------
(***************************************************************************)
(* The discipline by which the parser keeps its context: the functions     *)
(* that open a scope (function_body, iteration_body, switch_statement,     *)
(* with_labels, allow_in) are called and return in any nesting the source  *)
(* asks for, and between two of those steps a jump statement is checked    *)
(* against the context, never against the nesting itself.  The grammar,    *)
(* which decides the order of the calls, is the module Statements.         *)
(***************************************************************************)
EXTENDS Context, Naturals, Sequences, SequencesExt

CONSTANTS
  Depths,           \* bound: the depths at which one more scope may be opened
  NestedDuplicates  \* may a label be declared again within its own statement?

ASSUME ScopesAssumption == Depths \subseteq Nat /\ NestedDuplicates \in BOOLEAN

VARIABLES
  context, \* Parser::context
  scopes,  \* the scopes open, outermost first
  jump     \* the jump statement parsed last, and whether it was accepted

vars == <<context, scopes, jump>>

-----------------------------------------------------------------------------
\* The scopes that belong to the innermost function, among the first n of ss.
Local(ss, n) ==
  {i \in 1 .. n : \A j \in i .. n : ss[j].fn # "function_body"}

Declares(s, l) == s.fn = "with_labels" /\ l \in s.labels

\* The nesting, read off the first n of the open scopes ss.
InFunction(ss, n) == \E i \in 1 .. n : ss[i].fn = "function_body"
InIteration(ss, n) == \E i \in Local(ss, n) : ss[i].fn = "iteration_body"
InSwitch(ss, n) == \E i \in Local(ss, n) : ss[i].fn = "switch_statement"
InNotAllowed(ss, n) ==
  \E i \in Local(ss, n) :
    /\ ss[i].fn = "allow_in" /\ ~ss[i].value
    /\ \A j \in i + 1 .. n : ss[j].fn # "allow_in"
\* The innermost declaration of label l in the function has type t.
Labelled(ss, n, l, t) ==
  \E i \in Local(ss, n) :
    /\ Declares(ss[i], l) /\ ss[i].type = t
    /\ \A j \in i + 1 .. n : ~Declares(ss[j], l)

-----------------------------------------------------------------------------
NoJump == [stmt |-> "none", label |-> None, accepted |-> TRUE]

\* A jump statement that is rejected ends the parse.
Parsing == jump.accepted

Init ==
  /\ context = NewContext
  /\ scopes = <<>>
  /\ jump = NoJump

Enter(s) ==
  /\ Parsing
  /\ context' = Entered(context, s)
  /\ Len(scopes) \in Depths
  /\ scopes' = Append(scopes, s)
  /\ jump' = NoJump

EnterFunctionBody == Enter(FunctionBody(context))
EnterIterationBody == Enter(IterationBody(context))
EnterSwitchStatement == Enter(SwitchStatement(context))
EnterAllowIn == \E v \in BOOLEAN : Enter(AllowIn(context, v))

Fresh(ls) ==
  \A l \in ls, i \in Local(scopes, Len(scopes)) : ~Declares(scopes[i], l)

EnterWithLabels ==
  \E ls \in SUBSET Label, t \in LabelType :
    /\ NestedDuplicates \/ Fresh(ls)
    /\ Enter(WithLabels(ls, t))

Leave ==
  /\ Parsing
  /\ scopes # <<>>
  /\ context' = Left(context, Last(scopes))
  /\ scopes' = Front(scopes)
  /\ jump' = NoJump

Jump(stmt, label, accepted) ==
  /\ Parsing
  /\ jump' = [stmt |-> stmt, label |-> label, accepted |-> accepted]
  /\ UNCHANGED <<context, scopes>>

Break == Jump("break", None, MayBreak(context))
BreakTo == \E l \in Label : Jump("break", l, MayBreakTo(context, l))
Continue == Jump("continue", None, MayContinue(context))
ContinueTo == \E l \in Label : Jump("continue", l, MayContinueTo(context, l))
Return == Jump("return", None, MayReturn(context))

Next ==
  \/ EnterFunctionBody \/ EnterIterationBody \/ EnterSwitchStatement
  \/ EnterAllowIn \/ Leave \/ EnterWithLabels
  \/ Break \/ BreakTo \/ Continue \/ ContinueTo \/ Return

Spec == Init /\ [][Next]_vars

-----------------------------------------------------------------------------
TypeOK ==
  /\ context \in ContextRecord
  /\ scopes \in Seq(Scope)
  /\ jump \in [stmt : {"none", "break", "continue", "return"},
               label : Label \cup {None}, accepted : BOOLEAN]

(***************************************************************************)
(* The context tells the truth about the nesting: after any sequence of    *)
(* entries and exits, its flags say whether the innermost function encloses*)
(* the current token in a loop, in a switch, in brackets that re-allow     *)
(* `in`.  Each function saves and restores only its own field, so this     *)
(* needs all of them to pair up.                                           *)
(***************************************************************************)
Agrees(c, ss, n) ==
  /\ c.function <=> InFunction(ss, n)
  /\ c.iteration <=> InIteration(ss, n)
  /\ c.switch <=> InSwitch(ss, n)
  /\ c.allow_in <=> ~InNotAllowed(ss, n)

ContextAgrees == Agrees(context, scopes, Len(scopes))

(***************************************************************************)
(* A label known to the context labels a statement around the current      *)
(* token, in the same function, and its type is that of the innermost such *)
(* statement: with_labels removes names without restoring what they hid.   *)
(***************************************************************************)
LabelsAgree(m, ss, n) ==
  \A l \in Label : m[l] # None => Labelled(ss, n, l, m[l])

LabelsSound == LabelsAgree(context.labels, scopes, Len(scopes))

(***************************************************************************)
(* In a program that never reuses a label within its own statement, every  *)
(* label around the current token is known.                                *)
(***************************************************************************)
AllKnown(m, ss, n) ==
  \A l \in Label, i \in Local(ss, n) : Declares(ss[i], l) => m[l] = ss[i].type

LabelsComplete ==
  ~NestedDuplicates => AllKnown(context.labels, scopes, Len(scopes))

(***************************************************************************)
(* An accepted jump has its target: break a loop or a switch, continue a   *)
(* loop, a labelled jump its label in the same function, return a function.*)
(***************************************************************************)
HasTarget(j, ss, n) ==
  \/ /\ j.stmt = "break" /\ j.label = None
     /\ InIteration(ss, n) \/ InSwitch(ss, n)
  \/ /\ j.stmt = "break" /\ j.label # None
     /\ \E t \in LabelType : Labelled(ss, n, j.label, t)
  \/ /\ j.stmt = "continue" /\ j.label = None
     /\ InIteration(ss, n)
  \/ /\ j.stmt = "continue" /\ j.label # None
     /\ Labelled(ss, n, j.label, "Iteration")
  \/ j.stmt = "return" /\ InFunction(ss, n)

AcceptedJumpsHaveTargets ==
  jump.accepted /\ jump # NoJump => HasTarget(jump, scopes, Len(scopes))

\* A jump without a label that has its target is not rejected, nor one with a
\* label in a program that never reuses a label within its own statement.
RejectedJumpsHaveNone ==
  ~jump.accepted /\ (jump.label = None \/ ~NestedDuplicates) =>
    ~HasTarget(jump, scopes, Len(scopes))

-----------------------------------------------------------------------------
(***************************************************************************)
(* The inductive invariant: what a scope will restore is what held around  *)
(* it when it was entered.                                                 *)
(***************************************************************************)
RestoresOuter(ss, i) ==
  /\ ss[i].fn = "function_body" =>
       /\ Agrees(ss[i].outer, ss, i - 1)
       /\ LabelsAgree(ss[i].outer.labels, ss, i - 1)
       /\ ~NestedDuplicates => AllKnown(ss[i].outer.labels, ss, i - 1)
  /\ ss[i].fn = "iteration_body" => ss[i].outer <=> InIteration(ss, i - 1)
  /\ ss[i].fn = "switch_statement" => ss[i].outer <=> InSwitch(ss, i - 1)
  /\ ss[i].fn = "allow_in" => ss[i].outer <=> ~InNotAllowed(ss, i - 1)

\* No label is declared within a statement it labels.
Distinct(ss, i) ==
  \A j \in Local(ss, i) \ {i}, l \in Label :
    ~(Declares(ss[i], l) /\ Declares(ss[j], l))

\* What the jump statement parsed last was checked against.
JumpChecked ==
  /\ jump.accepted \/ jump # NoJump
  /\ jump.stmt = "break" /\ jump.label = None =>
       jump.accepted = MayBreak(context)
  /\ jump.stmt = "break" /\ jump.label # None =>
       jump.accepted = MayBreakTo(context, jump.label)
  /\ jump.stmt = "continue" /\ jump.label = None =>
       jump.accepted = MayContinue(context)
  /\ jump.stmt = "continue" /\ jump.label # None =>
       jump.accepted = MayContinueTo(context, jump.label)
  /\ jump.stmt = "return" => jump.accepted = MayReturn(context)
  /\ jump.stmt = "none" => jump = NoJump

ScopesInv ==
  /\ ContextAgrees
  /\ LabelsSound
  /\ LabelsComplete
  /\ \A i \in DOMAIN scopes :
       RestoresOuter(scopes, i) /\ (~NestedDuplicates => Distinct(scopes, i))
  /\ JumpChecked
=============================================================================
