----------------------------- MODULE StrictMode -----------------------------
(***************************************************************************)
(* Strict-mode checking (strict_check of src/src/parser.rs, Check of       *)
(* error.rs, the name classes of atom.rs).  A source text may be parsed as *)
(* a script, a strict script or a module; program() parses it without      *)
(* deciding, puts the checks whose outcome depends on that aside, and      *)
(* Program::script, strict and module perform them afterwards.             *)
(*                                                                         *)
(* The four entry points are run side by side on the same source, of which *)
(* only what bears on strictness is kept: names, with statements, function *)
(* bodies, directives, and how the source ends.                            *)
(***************************************************************************)
EXTENDS Naturals, Sequences, SequencesExt

CONSTANT MaxItems \* bound: items of a source text

ASSUME MaxItemsAssumption == MaxItems \in Nat

VARIABLES
  parser,   \* the four parsers
  items,    \* how many items of the source have been read: a location
  depth,    \* how many function bodies are open
  prologue, \* may the next item be a directive?
  stray     \* history: did a `}` outside any block end the scripts?

vars == <<parser, items, depth, prologue, stray>>

-----------------------------------------------------------------------------
Goal == {"Script", "Module"}
TriState == {"Yes", "No", "Unknown"}

\* How a source can be parsed, and the entry point that need not know.
Decided == {"script", "strict", "module"}
Entry == Decided \cup {"program"}

\* An error and where it is, or the state of a parser without one.
Outcome(error, at) == [error |-> error, at |-> at]
Parsing == Outcome("none", 0)
Ok == Outcome("ok", 0)

StrictError == {"IllegalStrictBinding", "ContextualKeyword", "StrictWith"}
OutcomeName ==
  StrictError \cup {"none", "ok", "UnexpectedToken", "unimplemented"}

CheckRecord ==
  [class : {"Strict", "Module"}, error : [error : StrictError, at : Nat]]

Check(class, error, at) == [class |-> class, error |-> Outcome(error, at)]
NoCheck == Check("None", "none", 0)

\* The names: one for each class that AtomExt tells apart.
Name == {"name", "eval", "yield", "await"}

IsIllegalStrictBinding(name) == name = "eval"
IsStrictReserved(name) ==
  IF name = "yield" THEN "Yes" ELSE IF name = "await" THEN "Unknown" ELSE "No"

\* The string literals of directives: the value and the source text, quotes
\* and all, as Lexer::read_string returns them.
Literal ==
  {[value |-> "use strict", source |-> "'use strict'"],
   [value |-> "use module", source |-> "'use module'"]}

\* Dir::pragma
Pragma(literal) == literal.source

-----------------------------------------------------------------------------
\* The state of a parser: its goal, the strictness of the code it is in and of
\* the functions around it, the checks put aside, and how it ended.
ParserState ==
  [goal : Goal \cup {"Unknown"}, strict : TriState, outer : Seq(TriState),
   deferred : Seq(CheckRecord), result : [error : OutcomeName, at : Nat]]

\* Parser::script, strict, module and program.
NewParser(goal, strict) ==
  [goal |-> goal, strict |-> strict, outer |-> <<>>, deferred |-> <<>>,
   result |-> Parsing]

InitialGoal(e) ==
  IF e \in {"script", "strict"} THEN "Script"
  ELSE IF e = "module" THEN "Module" ELSE "Unknown"

InitialStrict(e) ==
  IF e = "script" THEN "No" ELSE IF e = "program" THEN "Unknown" ELSE "Yes"

Running(p) == p.result = Parsing

End(p, outcome) == [p EXCEPT !.result = outcome]

\* Mutants of Fails: a check fails while strictness is unknown; a module's
\* strictness is only checked where a module differs from a strict script.
FailsWhenUnknown(p, check) == check.class = "Strict" /\ p.strict # "No"
FailsByGoal(p, check) ==
  \/ check.class = "Strict" /\ p.strict = "Yes" /\ p.goal = "Script"
  \/ check.class = "Module" /\ p.strict = "Yes" /\ p.goal = "Module"

\* Mutant of Defers: the goal is not looked at.
DefersInScript(p, check) ==
  \/ check.class = "Strict" /\ p.strict = "Unknown"
  \/ check.class = "Module" /\ p.strict # "No"

\* Parser::strict_check of a check that applies: it fails now, it is put aside,
\* or it does not concern p.
Fails(p, check) ==
  \/ check.class = "Strict" /\ p.strict = "Yes"
  \/ check.class = "Module" /\ p.strict # "No" /\ p.goal = "Module"

Defers(p, check) ==
  \/ check.class = "Strict" /\ p.strict = "Unknown"
  \/ check.class = "Module" /\ p.strict # "No" /\ p.goal = "Unknown"

\* Mutant of StrictCheck: the checks put aside pile up in reverse.
StrictCheckReversed(p, check) ==
  IF Fails(p, check) THEN End(p, check.error)
  ELSE IF Defers(p, check) THEN [p EXCEPT !.deferred = <<check>> \o @]
  ELSE p

StrictCheck(p, check) ==
  IF Fails(p, check) THEN End(p, check.error)
  ELSE IF Defers(p, check) THEN [p EXCEPT !.deferred = Append(@, check)]
  ELSE p

\* Parser::new_id: the check of a name at location at, if there is one.
NameCheck(name, binding, at) ==
  IF binding /\ IsIllegalStrictBinding(name)
  THEN Check("Strict", "IllegalStrictBinding", at)
  ELSE IF IsStrictReserved(name) = "No" THEN NoCheck
  ELSE Check(IF IsStrictReserved(name) = "Yes" THEN "Strict" ELSE "Module",
             "ContextualKeyword", at)

\* Check::perform, over all the checks.
Performed(checks, module) ==
  LET failing == {i \in DOMAIN checks : checks[i].class = "Strict" \/ module}
  IN  IF failing = {} THEN Ok
      ELSE checks[CHOOSE i \in failing : \A j \in failing : i <= j].error

\* Parser::body_directives, one directive.
Obey(p, pragma) ==
  IF pragma = "use strict" THEN [p EXCEPT !.strict = "Yes"]
  ELSE IF pragma = "use module" /\ p.outer = <<>>
  THEN [p EXCEPT !.goal = "Module", !.strict = "Yes"]
  ELSE p

\* Mutant of Enter: it saves the goal.
EnterSavesGoal(p) == [p EXCEPT !.outer = Append(@, p.goal)]

\* Context::new_function, and the end of function_body.
Enter(p) == [p EXCEPT !.outer = Append(@, p.strict)]
Leave(p) == [p EXCEPT !.strict = Last(p.outer), !.outer = Front(@)]

-----------------------------------------------------------------------------
Init ==
  /\ parser = [e \in Entry |-> NewParser(InitialGoal(e), InitialStrict(e))]
  /\ items = 0
  /\ depth = 0
  /\ prologue = TRUE
  /\ stray = FALSE

\* One more item is read: the parsers still running move to next.
ReadItem(next) ==
  /\ \E e \in Entry : Running(parser[e])
  /\ items < MaxItems
  /\ items' = items + 1
  /\ parser' =
       [e \in Entry |-> IF Running(parser[e]) THEN next[e] ELSE parser[e]]

\* A name, bound or used.
Identifier ==
  /\ \E name \in Name, binding \in BOOLEAN :
       ReadItem([e \in Entry |->
         StrictCheck(parser[e], NameCheck(name, binding, items))])
  /\ prologue' = FALSE
  /\ UNCHANGED <<depth, stray>>

\* Parser::with_statement
WithStatement ==
  /\ ReadItem([e \in Entry |->
       StrictCheck(parser[e], Check("Strict", "StrictWith", items))])
  /\ prologue' = FALSE
  /\ UNCHANGED <<depth, stray>>

Directive ==
  /\ prologue
  /\ \E literal \in Literal :
       ReadItem([e \in Entry |-> Obey(parser[e], Pragma(literal))])
  /\ UNCHANGED <<depth, prologue, stray>>

\* Parser::function_body
EnterFunctionBody ==
  /\ ReadItem([e \in Entry |-> Enter(parser[e])])
  /\ depth' = depth + 1
  /\ prologue' = TRUE
  /\ UNCHANGED stray

LeaveFunctionBody ==
  /\ depth > 0
  /\ ReadItem([e \in Entry |-> Leave(parser[e])])
  /\ depth' = depth - 1
  /\ prologue' = FALSE
  /\ UNCHANGED stray

\* An error that has nothing to do with strictness.
SyntaxError ==
  /\ ReadItem([e \in Entry |->
       End(parser[e], Outcome("UnexpectedToken", items))])
  /\ prologue' = FALSE
  /\ UNCHANGED <<depth, stray>>

\* A `}`, case or default outside any block: statement_list, and so script(),
\* ends there; program_items and module_items do not.
StrayToken ==
  /\ depth = 0
  /\ ReadItem([e \in Entry |-> End(parser[e],
       IF e \in {"script", "strict"} THEN Ok
       ELSE Outcome("UnexpectedToken", items))])
  /\ prologue' = FALSE
  /\ stray' = TRUE
  /\ UNCHANGED depth

\* An import or export: program() turns out to parse a module and performs the
\* checks put aside (force_deferred_module_validation); the rest is missing.
ImportOrExport ==
  /\ depth = 0
  /\ ReadItem([e \in Entry |-> End(parser[e],
       IF e \in {"script", "strict"} THEN Outcome("UnexpectedToken", items)
       ELSE IF e = "program" /\ Performed(parser[e].deferred, TRUE) # Ok
       THEN Performed(parser[e].deferred, TRUE)
       ELSE Outcome("unimplemented", items))])
  /\ prologue' = FALSE
  /\ UNCHANGED <<depth, stray>>

\* The end of the source.
EndOfSource ==
  /\ depth = 0
  /\ ReadItem([e \in Entry |-> End(parser[e], Ok)])
  /\ prologue' = FALSE
  /\ UNCHANGED <<depth, stray>>

Next ==
  \/ Identifier \/ WithStatement \/ Directive
  \/ EnterFunctionBody \/ LeaveFunctionBody
  \/ SyntaxError \/ StrayToken \/ ImportOrExport \/ EndOfSource

Spec == Init /\ [][Next]_vars

-----------------------------------------------------------------------------
\* Program::script, strict and module: what becomes of the program that
\* program() returned, when it is used as e.
ProgramAs(e) ==
  IF e = "script" THEN Ok
  ELSE Performed(parser["program"].deferred, e = "module")

TypeOK ==
  /\ parser \in [Entry -> ParserState]
  /\ items \in Nat
  /\ depth \in Nat
  /\ prologue \in BOOLEAN /\ stray \in BOOLEAN

\* The outcomes of program() at an import or export: the error of a check, as
\* no check fails in it before, or the end of what is implemented.
FoundModule(outcome) == outcome.error \in StrictError \cup {"unimplemented"}

(***************************************************************************)
(* Deciding later makes no difference: a program that program() accepts is *)
(* accepted as a script, strict script or module exactly when parsing it   *)
(* as one would have accepted it, and otherwise the same error is reported *)
(* at the same place.  Nor does deciding in the middle: a program that an  *)
(* import or export tells to be a module ends as module() would have ended *)
(* it.  The checks put aside must be the right ones, in the right order,   *)
(* and none must fail early.                                               *)
(***************************************************************************)
SameOutcome ==
  /\ parser["program"].result = Ok =>
       \A e \in Decided : parser[e].result = ProgramAs(e)
  /\ FoundModule(parser["program"].result) =>
       parser["module"].result = parser["program"].result

(***************************************************************************)
(* program() itself rejects nothing that is a script, a strict script or a *)
(* module, but for the tokens at which the scripts stop too early.         *)
(***************************************************************************)
ProgramAcceptsAll ==
  ~stray => \A e \in Decided :
    parser[e].result = Ok => parser["program"].result = Ok

(***************************************************************************)
(* The entry points that do not return the checks put aside put none       *)
(* aside: a check left behind would never be performed.                    *)
(***************************************************************************)
NothingLeftBehind == \A e \in Decided : parser[e].deferred = <<>>

(***************************************************************************)
(* What is a module is a strict script, and what is a strict script is a   *)
(* script.                                                                 *)
(***************************************************************************)
StricterRejectsMore ==
  /\ parser["module"].result = Ok => parser["strict"].result = Ok
  /\ parser["strict"].result = Ok => parser["script"].result = Ok

(***************************************************************************)
(* A "use strict" directive makes the code it heads strict, and a          *)
(* "use module" directive makes the program a module: what the comment in  *)
(* unexpected_module ("If there's a "use module" pragma, blame that") and  *)
(* body_directives rely on.                                                *)
(***************************************************************************)
ReadDirective(value) ==
  /\ prologue /\ prologue' /\ depth' = depth
  /\ \E literal \in Literal :
       /\ literal.value = value
       /\ ReadItem([e \in Entry |-> Obey(parser[e], Pragma(literal))])

PragmasObeyed ==
  [][/\ ReadDirective("use strict") => parser'["program"].strict = "Yes"
     /\ ReadDirective("use module") /\ depth = 0 =>
          parser'["program"].goal = "Module"]_vars

-----------------------------------------------------------------------------
(***************************************************************************)
(* The inductive invariant.                                                *)
(***************************************************************************)
\* A parser keeps the strictness and goal it started with: no directive that
\* the lexer returns matches a pragma, quotes being part of its source.
ModesFixed ==
  \A e \in Entry :
    /\ parser[e].goal = InitialGoal(e)
    /\ parser[e].strict = InitialStrict(e)
    /\ \A i \in DOMAIN parser[e].outer : parser[e].outer[i] = InitialStrict(e)
    /\ Running(parser[e]) => Len(parser[e].outer) = depth

\* The first of the checks put aside that fails, if one does.
FirstFailing(checks, module, i) ==
  /\ i \in DOMAIN checks
  /\ checks[i].class = "Strict" \/ module
  /\ \A j \in 1 .. i - 1 : ~(checks[j].class = "Strict" \/ module)

NoneFailing(checks, module) ==
  \A i \in DOMAIN checks : ~(checks[i].class = "Strict" \/ module)

\* A parser that knows stands where the checks put aside so far say: it is
\* still parsing, or has stopped with the error of the first that fails.
Mirrors(p, checks, module) ==
  \/ NoneFailing(checks, module) /\ Running(p)
  \/ \E i \in DOMAIN checks :
       FirstFailing(checks, module, i) /\ p.result = checks[i].error

InStep ==
  Running(parser["program"]) =>
    /\ Running(parser["script"])
    /\ Mirrors(parser["strict"], parser["program"].deferred, FALSE)
    /\ Mirrors(parser["module"], parser["program"].deferred, TRUE)

EndTogether ==
  ~Running(parser["program"]) => \A e \in Entry : ~Running(parser[e])

StrictInv ==
  /\ ModesFixed
  /\ NothingLeftBehind
  /\ InStep
  /\ EndTogether
  /\ SameOutcome
  /\ ProgramAcceptsAll
  /\ StricterRejectsMore
=============================================================================
