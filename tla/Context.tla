------------------------------- MODULE Context -------------------------------
(***************************************************************************)
(* The parser's Context (src/src/context.rs): what the recursive descent   *)
(* knows about the constructs around the current token, and how each       *)
(* parser function that opens a scope changes it and puts it back.         *)
(*                                                                         *)
(* A scope is one activation of such a function; its record holds what     *)
(* that function keeps in local variables to restore the context on its    *)
(* way out.  Context::strict is left to the module StrictMode.             *)
(***************************************************************************)
CONSTANTS
  Label, \* the label names of the programs considered
  None   \* HashMap::get finds nothing

ASSUME NoneAssumption == None \notin {"Statement", "Iteration"} \cup Label

-----------------------------------------------------------------------------
LabelType == {"Statement", "Iteration"}

\* Context::labels, a map from names to label types.
Labels == [Label -> LabelType \cup {None}]

ContextRecord ==
  [function  : BOOLEAN,
   iteration : BOOLEAN,
   switch    : BOOLEAN,
   allow_in  : BOOLEAN,
   labels    : Labels]

NoLabels == [l \in Label |-> None]

\* Context::new
NewContext ==
  [function |-> FALSE, iteration |-> FALSE, switch |-> FALSE,
   allow_in |-> TRUE, labels |-> NoLabels]

\* Context::new_function
NewFunction ==
  [function |-> TRUE, iteration |-> FALSE, switch |-> FALSE,
   allow_in |-> TRUE, labels |-> NoLabels]

\* Mutants of RemoveLabels: with_labels forgets to remove its labels, or
\* removes those of the outer statements too.
RemoveNone(m, ls) == m
RemoveAll(m, ls) == NoLabels

\* HashMap::insert of every label of ls, HashMap::remove of every label of ls.
InsertLabels(m, ls, type) == [l \in Label |-> IF l \in ls THEN type ELSE m[l]]
RemoveLabels(m, ls) == [l \in Label |-> IF l \in ls THEN None ELSE m[l]]

-----------------------------------------------------------------------------
FunctionScope == [fn : {"function_body"}, outer : ContextRecord]
FlagScope == [fn : {"iteration_body", "switch_statement"}, outer : BOOLEAN]
AllowInScope == [fn : {"allow_in"}, value : BOOLEAN, outer : BOOLEAN]
LabelScope == [fn : {"with_labels"}, labels : SUBSET Label, type : LabelType]

Scope == FunctionScope \cup FlagScope \cup AllowInScope \cup LabelScope

\* Mutant of WithLabels: the labels get no type.
WithLabelsUntyped(ls, t) == [fn |-> "with_labels", labels |-> ls, type |-> None]

\* The scope each function opens in context c.
FunctionBody(c) == [fn |-> "function_body", outer |-> c]
IterationBody(c) == [fn |-> "iteration_body", outer |-> c.iteration]
SwitchStatement(c) == [fn |-> "switch_statement", outer |-> c.switch]
AllowIn(c, v) == [fn |-> "allow_in", value |-> v, outer |-> c.allow_in]
WithLabels(ls, t) == [fn |-> "with_labels", labels |-> ls, type |-> t]

\* Mutant of Entered: a function body inherits allow_in.
EnteredInheritsIn(c, s) ==
  CASE s.fn = "function_body"    -> [NewFunction EXCEPT !.allow_in = c.allow_in]
    [] s.fn = "iteration_body"   -> [c EXCEPT !.iteration = TRUE]
    [] s.fn = "switch_statement" -> [c EXCEPT !.switch = TRUE]
    [] s.fn = "allow_in"         -> [c EXCEPT !.allow_in = s.value]
    [] s.fn = "with_labels"      ->
         [c EXCEPT !.labels = InsertLabels(c.labels, s.labels, s.type)]

\* The context in which the scope's body is parsed.
Entered(c, s) ==
  CASE s.fn = "function_body"    -> NewFunction
    [] s.fn = "iteration_body"   -> [c EXCEPT !.iteration = TRUE]
    [] s.fn = "switch_statement" -> [c EXCEPT !.switch = TRUE]
    [] s.fn = "allow_in"         -> [c EXCEPT !.allow_in = s.value]
    [] s.fn = "with_labels"      ->
         [c EXCEPT !.labels = InsertLabels(c.labels, s.labels, s.type)]

\* Mutant of Left: iteration_body resets the flag instead of restoring it.
LeftResets(c, s) ==
  CASE s.fn = "function_body"    -> s.outer
    [] s.fn = "iteration_body"   -> [c EXCEPT !.iteration = FALSE]
    [] s.fn = "switch_statement" -> [c EXCEPT !.switch = s.outer]
    [] s.fn = "allow_in"         -> [c EXCEPT !.allow_in = s.outer]
    [] s.fn = "with_labels"      ->
         [c EXCEPT !.labels = RemoveLabels(c.labels, s.labels)]

\* The context after the scope's body, which ended in context c.
Left(c, s) ==
  CASE s.fn = "function_body"    -> s.outer
    [] s.fn = "iteration_body"   -> [c EXCEPT !.iteration = s.outer]
    [] s.fn = "switch_statement" -> [c EXCEPT !.switch = s.outer]
    [] s.fn = "allow_in"         -> [c EXCEPT !.allow_in = s.outer]
    [] s.fn = "with_labels"      ->
         [c EXCEPT !.labels = RemoveLabels(c.labels, s.labels)]

-----------------------------------------------------------------------------
\* Mutant of MayContinueTo: any label will do.
MayContinueToAny(c, l) == c.labels[l] # None

\* The context conditions of the jump statements: break_statement,
\* continue_statement and return_statement reject what fails them.
MayBreak(c) == c.iteration \/ c.switch
MayBreakTo(c, l) == c.labels[l] # None
MayContinue(c) == c.iteration
MayContinueTo(c, l) == c.labels[l] = "Iteration"
MayReturn(c) == c.function
=============================================================================
