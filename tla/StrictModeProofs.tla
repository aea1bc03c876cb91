-------------------------- MODULE StrictModeProofs --------------------------
(***************************************************************************)
(* Proofs about StrictMode: for source texts of any length, deciding after *)
(* the parse whether a program is a script, a strict script or a module    *)
(* gives the outcome that deciding before would have given.                *)
(***************************************************************************)
EXTENDS StrictMode, TLAPS

(***************************************************************************)
(* Lemmas about the checks.                                                *)
(***************************************************************************)
\* Without a check that fails, performing them succeeds.
LEMMA PerformedNone ==
  ASSUME NEW checks, NEW module \in BOOLEAN, NoneFailing(checks, module)
  PROVE  Performed(checks, module) = Ok
BY DEF NoneFailing, Performed

\* Performing the checks reports the first that fails.
LEMMA PerformedFirst ==
  ASSUME NEW checks \in Seq(CheckRecord), NEW module \in BOOLEAN,
         NEW i, FirstFailing(checks, module, i)
  PROVE  Performed(checks, module) = checks[i].error
<1>. DEFINE failing == {k \in DOMAIN checks : checks[k].class = "Strict" \/ module}
            first == CHOOSE k \in failing : \A j \in failing : k <= j
<1>1. i \in failing /\ failing \subseteq Nat
  BY DEF FirstFailing
<1>2. \A j \in failing : i <= j
  <2>. SUFFICES ASSUME NEW j \in failing, ~(i <= j) PROVE FALSE
    OBVIOUS
  <2>1. j \in 1 .. i - 1
    BY <1>1
  <2>. QED
    BY <2>1 DEF FirstFailing
<1>3. first \in failing /\ \A j \in failing : first <= j
  BY <1>1, <1>2
<1>4. first = i
  BY <1>1, <1>2, <1>3
<1>5. failing # {}
  BY <1>1
<1>. HIDE DEF first
<1>6. Performed(checks, module) = checks[first].error
  BY <1>5 DEF Performed, first
<1>. QED
  BY <1>4, <1>6

\* The error of a check is neither of the outcomes without an error.
LEMMA CheckError ==
  ASSUME NEW check \in CheckRecord
  PROVE  /\ check.error \in [error : OutcomeName, at : Nat]
         /\ check.error # Ok /\ check.error # Parsing
BY DEF CheckRecord, StrictError, OutcomeName, Ok, Parsing, Outcome

LEMMA FirstIsError ==
  ASSUME NEW checks \in Seq(CheckRecord), NEW module \in BOOLEAN,
         NEW i, FirstFailing(checks, module, i)
  PROVE  checks[i].error # Ok /\ checks[i].error # Parsing
<1>1. checks[i] \in CheckRecord
  BY DEF FirstFailing
<1>. QED
  BY <1>1, CheckError

\* What a parser that knows shows of the checks put aside.
LEMMA MirrorsResult ==
  ASSUME NEW checks \in Seq(CheckRecord), NEW module \in BOOLEAN,
         NEW p, Mirrors(p, checks, module)
  PROVE  /\ p.result # Ok
         /\ Running(p) <=> Performed(checks, module) = Ok
         /\ ~Running(p) => p.result = Performed(checks, module)
<1>1. CASE NoneFailing(checks, module) /\ Running(p)
  BY <1>1, PerformedNone DEF Running, Ok, Parsing, Outcome
<1>2. CASE \E i \in DOMAIN checks :
             FirstFailing(checks, module, i) /\ p.result = checks[i].error
  <2>1. PICK i \in DOMAIN checks :
          FirstFailing(checks, module, i) /\ p.result = checks[i].error
    BY <1>2
  <2>2. checks[i].error # Ok /\ checks[i].error # Parsing
    BY <2>1, FirstIsError
  <2>3. Performed(checks, module) = checks[i].error
    BY <2>1, PerformedFirst
  <2>. QED
    BY <2>1, <2>2, <2>3 DEF Running
<1>. QED
  BY <1>1, <1>2 DEF Mirrors

\* Mirrors looks at the result of the parser alone.
LEMMA MirrorsSame ==
  ASSUME NEW checks, NEW module, NEW p, NEW q,
         Mirrors(p, checks, module), q.result = p.result
  PROVE  Mirrors(q, checks, module)
BY DEF Mirrors, Running

\* One more check is put aside; the parser that knows, if it is still running,
\* fails it or passes it.
LEMMA MirrorsAppend ==
  ASSUME NEW checks \in Seq(CheckRecord), NEW check \in CheckRecord,
         NEW module \in BOOLEAN, NEW p, NEW q, Mirrors(p, checks, module),
         q.result = IF Running(p) /\ (check.class = "Strict" \/ module)
                    THEN check.error ELSE p.result
  PROVE  Mirrors(q, Append(checks, check), module)
<1>. DEFINE more == Append(checks, check)
            n == Len(checks) + 1
<1>1. /\ more \in Seq(CheckRecord) /\ Len(more) = n
      /\ n \in DOMAIN more /\ more[n] = check
      /\ \A i \in DOMAIN checks : i \in DOMAIN more /\ more[i] = checks[i]
      /\ DOMAIN more = DOMAIN checks \cup {n}
      /\ DOMAIN checks = 1 .. n - 1 /\ n \in Nat
  OBVIOUS
<1>. HIDE DEF more, n
<1>2. CASE NoneFailing(checks, module) /\ Running(p)
  <2>1. CASE check.class = "Strict" \/ module
    <3>1. FirstFailing(more, module, n)
      BY <1>1, <1>2, <2>1 DEF FirstFailing, NoneFailing
    <3>2. q.result = more[n].error
      BY <1>1, <1>2, <2>1
    <3>. QED
      BY <1>1, <3>1, <3>2 DEF Mirrors, more
  <2>2. CASE ~(check.class = "Strict" \/ module)
    <3>1. NoneFailing(more, module)
      BY <1>1, <1>2, <2>2 DEF NoneFailing
    <3>2. Running(q)
      BY <1>2, <2>2 DEF Running
    <3>. QED
      BY <3>1, <3>2 DEF Mirrors, more
  <2>. QED
    BY <2>1, <2>2
<1>3. CASE \E i \in DOMAIN checks :
             FirstFailing(checks, module, i) /\ p.result = checks[i].error
  <2>1. PICK i \in DOMAIN checks :
          FirstFailing(checks, module, i) /\ p.result = checks[i].error
    BY <1>3
  <2>2. ~Running(p)
    BY <2>1, FirstIsError DEF Running
  <2>3. FirstFailing(more, module, i)
    BY <1>1, <2>1 DEF FirstFailing
  <2>4. q.result = more[i].error
    BY <1>1, <2>1, <2>2
  <2>. QED
    BY <1>1, <2>1, <2>3, <2>4 DEF Mirrors, more
<1>. QED
  BY <1>2, <1>3 DEF Mirrors

-----------------------------------------------------------------------------
(***************************************************************************)
(* Lemmas about one parser.                                                *)
(***************************************************************************)
\* What strict_check does to a parser that has its initial strictness and goal.
LEMMA StrictCheckCases ==
  ASSUME NEW e \in Entry, NEW p \in ParserState,
         p.goal = InitialGoal(e), p.strict = InitialStrict(e),
         NEW check \in CheckRecord \cup {NoCheck}
  PROVE  /\ StrictCheck(p, check) \in ParserState
         /\ StrictCheck(p, check).goal = p.goal
         /\ StrictCheck(p, check).strict = p.strict
         /\ StrictCheck(p, check).outer = p.outer
         /\ StrictCheck(p, check).deferred =
              IF e = "program" /\ check # NoCheck
              THEN Append(p.deferred, check) ELSE p.deferred
         /\ StrictCheck(p, check).result =
              IF \/ e = "strict" /\ check.class = "Strict"
                 \/ e = "module" /\ check # NoCheck
              THEN check.error ELSE p.result
<1>1. /\ e = "script" => p.goal = "Script" /\ p.strict = "No"
      /\ e = "strict" => p.goal = "Script" /\ p.strict = "Yes"
      /\ e = "module" => p.goal = "Module" /\ p.strict = "Yes"
      /\ e = "program" => p.goal = "Unknown" /\ p.strict = "Unknown"
      /\ e \in {"script", "strict", "module", "program"}
  BY DEF InitialGoal, InitialStrict, Entry, Decided
<1>2. CASE check = NoCheck
  <2>1. check.class = "None"
    BY <1>2 DEF NoCheck, Check
  <2>2. StrictCheck(p, check) = p
    BY <2>1 DEF StrictCheck, Fails, Defers
  <2>. QED
    BY <1>2, <2>1, <2>2
<1>3. CASE check \in CheckRecord
  <2>1. check.class \in {"Strict", "Module"} /\ check # NoCheck
    BY <1>3 DEF CheckRecord, NoCheck, Check
  <2>2. check.error \in [error : OutcomeName, at : Nat]
    BY <1>3, CheckError
  <2>3. Fails(p, check) <=>
          (e = "strict" /\ check.class = "Strict") \/ e = "module"
    BY <1>1, <2>1 DEF Fails
  <2>4. ~Fails(p, check) => (Defers(p, check) <=> e = "program")
    BY <1>1, <2>1, <2>3 DEF Defers
  <2>5. CASE Fails(p, check)
    <3>1. StrictCheck(p, check) = [p EXCEPT !.result = check.error]
      BY <2>5 DEF StrictCheck, End
    <3>. QED
      BY <1>1, <2>1, <2>2, <2>3, <2>5, <3>1 DEF ParserState
  <2>6. CASE ~Fails(p, check) /\ e = "program"
    <3>1. StrictCheck(p, check) = [p EXCEPT !.deferred = Append(p.deferred, check)]
      BY <2>4, <2>6 DEF StrictCheck
    <3>2. Append(p.deferred, check) \in Seq(CheckRecord)
      BY <1>3 DEF ParserState
    <3>. QED
      BY <2>1, <2>6, <3>1, <3>2 DEF ParserState
  <2>7. CASE ~Fails(p, check) /\ e # "program"
    <3>1. StrictCheck(p, check) = p
      BY <2>4, <2>7 DEF StrictCheck
    <3>. QED
      BY <2>1, <2>3, <2>7, <3>1
  <2>. QED
    BY <2>5, <2>6, <2>7
<1>. QED
  BY <1>2, <1>3

\* The check of a name is a check, or none.
LEMMA NameCheckType ==
  ASSUME NEW name \in Name, NEW binding \in BOOLEAN, NEW at \in Nat
  PROVE  NameCheck(name, binding, at) \in CheckRecord \cup {NoCheck}
BY DEF NameCheck, IsStrictReserved, Check, CheckRecord, StrictError, Outcome

\* No directive that the lexer returns changes a parser.
LEMMA ObeyNothing ==
  ASSUME NEW p, NEW literal \in Literal
  PROVE  Obey(p, Pragma(literal)) = p
<1>1. Pragma(literal) \in {"'use strict'", "'use module'"}
  <2>1. \/ literal = [value |-> "use strict", source |-> "'use strict'"]
        \/ literal = [value |-> "use module", source |-> "'use module'"]
    BY Zenon DEF Literal
  <2>2. CASE literal = [value |-> "use strict", source |-> "'use strict'"]
    BY <2>2 DEF Pragma
  <2>3. CASE literal = [value |-> "use module", source |-> "'use module'"]
    BY <2>3 DEF Pragma
  <2>. QED
    BY <2>1, <2>2, <2>3
<1>2. Pragma(literal) # "use strict" /\ Pragma(literal) # "use module"
  BY <1>1
<1>. QED
  BY <1>2, Zenon DEF Obey

-----------------------------------------------------------------------------
(***************************************************************************)
(* Steps of all four parsers.                                              *)
(***************************************************************************)
Inv == TypeOK /\ StrictInv

LEMMA InitInv == Init => Inv
<1>. SUFFICES ASSUME Init PROVE Inv
  OBVIOUS
<1>1. \A e \in Entry :
        /\ InitialGoal(e) \in Goal \cup {"Unknown"}
        /\ InitialStrict(e) \in TriState
  BY DEF InitialGoal, InitialStrict, Goal, TriState
<1>2. Parsing \in [error : OutcomeName, at : Nat] /\ Parsing # Ok
  BY DEF Parsing, Ok, Outcome, OutcomeName
<1>3. \A e \in Entry :
        /\ parser[e] \in ParserState
        /\ parser[e].goal = InitialGoal(e) /\ parser[e].strict = InitialStrict(e)
        /\ parser[e].outer = <<>> /\ parser[e].deferred = <<>>
        /\ parser[e].result = Parsing
  BY <1>1, <1>2 DEF Init, NewParser, ParserState
<1>4. TypeOK
  BY <1>3 DEF TypeOK, Init
<1>5. ModesFixed
  BY <1>3 DEF ModesFixed, Init
<1>6. NothingLeftBehind
  BY <1>3 DEF NothingLeftBehind, Decided, Entry
<1>7. InStep
  <2>1. NoneFailing(<<>>, TRUE) /\ NoneFailing(<<>>, FALSE)
    BY DEF NoneFailing
  <2>. QED
    BY <1>3, <2>1 DEF InStep, Mirrors, Running, Entry, Decided
<1>8. EndTogether /\ SameOutcome /\ ProgramAcceptsAll /\ StricterRejectsMore
  <2>1. ~FoundModule(Parsing)
    BY DEF FoundModule, Parsing, Outcome, StrictError
  <2>. QED
    BY <1>2, <1>3, <2>1 DEF EndTogether, SameOutcome, ProgramAcceptsAll,
                    StricterRejectsMore, Running, Entry, Decided
<1>. QED
  BY <1>4, <1>5, <1>6, <1>7, <1>8 DEF Inv, StrictInv

\* An item is read only while program() runs, and then no parser has accepted.
LEMMA Undecided ==
  ASSUME Inv, NEW next, ReadItem(next)
  PROVE  /\ Running(parser["program"])
         /\ Running(parser["script"])
         /\ \A e \in Entry : parser[e].result # Ok
         /\ \A e \in Entry :
              parser'[e] = IF Running(parser[e]) THEN next[e] ELSE parser[e]
<1>1. Running(parser["program"])
  BY DEF ReadItem, Inv, StrictInv, EndTogether
<1>2. Running(parser["script"])
  BY <1>1 DEF Inv, StrictInv, InStep
<1>3. parser["program"].deferred \in Seq(CheckRecord)
  BY DEF Inv, TypeOK, ParserState, Entry
<1>4. parser["strict"].result # Ok /\ parser["module"].result # Ok
  BY <1>1, <1>3, MirrorsResult DEF Inv, StrictInv, InStep
<1>5. Parsing # Ok
  BY DEF Parsing, Ok, Outcome
<1>. QED
  BY <1>1, <1>2, <1>4, <1>5 DEF ReadItem, Running, Entry, Decided

\* The part of the invariant that says how the parsers ended, when none ends
\* but by failing a check.
LEMMA StillUndecided ==
  ASSUME \A e \in Entry : parser'[e].result # Ok,
         Running(parser'["program"])
  PROVE  /\ EndTogether' /\ SameOutcome' /\ ProgramAcceptsAll' /\ StricterRejectsMore'
<1>1. "program" \in Entry /\ "strict" \in Entry /\ "module" \in Entry
      /\ Decided \subseteq Entry
  BY DEF Entry, Decided
<1>2. ~FoundModule(parser'["program"].result)
  BY DEF FoundModule, Running, Parsing, Outcome, StrictError
<1>. QED
  BY <1>1, <1>2 DEF EndTogether, SameOutcome, ProgramAcceptsAll, StricterRejectsMore

\* An item that bears on strictness: one check, or none, for every parser.
LEMMA CheckStep ==
  ASSUME Inv, NEW check \in CheckRecord \cup {NoCheck},
         ReadItem([e \in Entry |-> StrictCheck(parser[e], check)]),
         UNCHANGED <<depth, stray>>, prologue' \in BOOLEAN
  PROVE  Inv'
<1>. DEFINE P == parser["program"]
            concerns(e) == \/ e = "strict" /\ check.class = "Strict"
                           \/ e = "module" /\ check # NoCheck
<1>1. /\ \A e \in Entry : parser[e] \in ParserState
      /\ \A e \in Entry : parser[e].goal = InitialGoal(e)
      /\ \A e \in Entry : parser[e].strict = InitialStrict(e)
  BY DEF Inv, TypeOK, StrictInv, ModesFixed
<1>2. /\ Running(P) /\ Running(parser["script"])
      /\ \A e \in Entry : parser[e].result # Ok
      /\ \A e \in Entry : parser'[e] =
           IF Running(parser[e]) THEN StrictCheck(parser[e], check) ELSE parser[e]
  BY Undecided
<1>3. \A e \in Entry :
        /\ parser'[e] \in ParserState
        /\ parser'[e].goal = parser[e].goal
        /\ parser'[e].strict = parser[e].strict
        /\ parser'[e].outer = parser[e].outer
        /\ parser'[e].deferred =
             IF Running(parser[e]) /\ e = "program" /\ check # NoCheck
             THEN Append(parser[e].deferred, check) ELSE parser[e].deferred
        /\ parser'[e].result =
             IF Running(parser[e]) /\ concerns(e)
             THEN check.error ELSE parser[e].result
  BY <1>1, <1>2, StrictCheckCases
<1>4. /\ "program" \in Entry /\ "script" \in Entry /\ "strict" \in Entry
      /\ "module" \in Entry /\ Decided = Entry \ {"program"}
  BY DEF Entry, Decided
<1>5. check.class = "None" <=> check = NoCheck
  BY DEF CheckRecord, NoCheck, Check
<1>6. check # NoCheck => check.error # Ok /\ check.error # Parsing
  BY CheckError
<1>7. TypeOK'
  BY <1>3 DEF Inv, TypeOK, ReadItem
<1>8. ModesFixed'
  <2>1. \A e \in Entry : Running(parser'[e]) => Running(parser[e])
    BY <1>3, <1>6, <1>5 DEF Running
  <2>. QED
    BY <1>3, <2>1 DEF Inv, StrictInv, ModesFixed
<1>9. NothingLeftBehind'
  BY <1>3, <1>4 DEF Inv, StrictInv, NothingLeftBehind
<1>10. Running(parser'["program"]) /\ Running(parser'["script"])
  BY <1>2, <1>3, <1>4, <1>5 DEF Running
<1>11. InStep'
  <2>. DEFINE p(m) == IF m THEN "module" ELSE "strict"
  <2>1. P.deferred \in Seq(CheckRecord)
    BY <1>1, <1>4 DEF ParserState
  <2>2. /\ Mirrors(parser["strict"], P.deferred, FALSE)
        /\ Mirrors(parser["module"], P.deferred, TRUE)
    BY <1>2 DEF Inv, StrictInv, InStep
  <2>3. CASE check = NoCheck
    <3>1. /\ parser'["program"].deferred = P.deferred
          /\ parser'["strict"].result = parser["strict"].result
          /\ parser'["module"].result = parser["module"].result
      BY <1>3, <1>4, <1>5, <2>3
    <3>2. /\ Mirrors(parser'["strict"], P.deferred, FALSE)
          /\ Mirrors(parser'["module"], P.deferred, TRUE)
      BY <2>2, <3>1, MirrorsSame
    <3>. QED
      BY <1>10, <3>1, <3>2 DEF InStep
  <2>4. CASE check \in CheckRecord
    <3>1. check # NoCheck
      BY <2>4 DEF CheckRecord, NoCheck, Check
    <3>2. /\ parser'["program"].deferred = Append(P.deferred, check)
          /\ parser'["strict"].result =
               IF Running(parser["strict"]) /\ (check.class = "Strict" \/ FALSE)
               THEN check.error ELSE parser["strict"].result
          /\ parser'["module"].result =
               IF Running(parser["module"]) /\ (check.class = "Strict" \/ TRUE)
               THEN check.error ELSE parser["module"].result
      BY <1>2, <1>3, <1>4, <3>1
    <3>3. Mirrors(parser'["strict"], Append(P.deferred, check), FALSE)
      BY <2>1, <2>2, <2>4, <3>2, MirrorsAppend
    <3>4. Mirrors(parser'["module"], Append(P.deferred, check), TRUE)
      BY <2>1, <2>2, <2>4, <3>2, MirrorsAppend
    <3>. QED
      BY <1>10, <3>2, <3>3, <3>4 DEF InStep
  <2>. QED
    BY <2>3, <2>4
<1>12. \A e \in Entry : parser'[e].result # Ok
  BY <1>2, <1>3, <1>5, <1>6
<1>13. EndTogether' /\ SameOutcome' /\ ProgramAcceptsAll' /\ StricterRejectsMore'
  BY <1>10, <1>12, StillUndecided
<1>. QED
  BY <1>7, <1>8, <1>9, <1>11, <1>13 DEF Inv, StrictInv

\* An item that changes no result: a directive, or a function body that is
\* entered or left.
LEMMA ContextStep ==
  ASSUME Inv, NEW next \in [Entry -> ParserState], ReadItem(next),
         depth' \in Nat, prologue' \in BOOLEAN, UNCHANGED stray,
         \A e \in Entry : Running(parser[e]) =>
           /\ next[e].goal = parser[e].goal
           /\ next[e].strict = parser[e].strict
           /\ next[e].deferred = parser[e].deferred
           /\ next[e].result = parser[e].result
           /\ \A i \in DOMAIN next[e].outer : next[e].outer[i] = InitialStrict(e)
           /\ Len(next[e].outer) = depth'
  PROVE  Inv'
<1>1. /\ Running(parser["program"]) /\ Running(parser["script"])
      /\ \A e \in Entry : parser[e].result # Ok
      /\ \A e \in Entry : parser'[e] =
           IF Running(parser[e]) THEN next[e] ELSE parser[e]
  BY Undecided
<1>2. \A e \in Entry :
        /\ parser'[e] \in ParserState
        /\ parser'[e].goal = parser[e].goal
        /\ parser'[e].strict = parser[e].strict
        /\ parser'[e].deferred = parser[e].deferred
        /\ parser'[e].result = parser[e].result
  BY <1>1 DEF Inv, TypeOK
<1>3. /\ "program" \in Entry /\ "script" \in Entry /\ "strict" \in Entry
      /\ "module" \in Entry /\ Decided = Entry \ {"program"}
  BY DEF Entry, Decided
<1>4. TypeOK'
  BY <1>2 DEF Inv, TypeOK, ReadItem
<1>5. ModesFixed'
  <2>1. \A e \in Entry : Running(parser'[e]) <=> Running(parser[e])
    BY <1>2 DEF Running
  <2>. QED
    BY <1>1, <1>2, <2>1 DEF Inv, StrictInv, ModesFixed
<1>6. NothingLeftBehind'
  BY <1>2, <1>3 DEF Inv, StrictInv, NothingLeftBehind
<1>7. Running(parser'["program"]) /\ Running(parser'["script"])
  BY <1>1, <1>2, <1>3 DEF Running
<1>8. InStep'
  <2>1. /\ Mirrors(parser["strict"], parser["program"].deferred, FALSE)
        /\ Mirrors(parser["module"], parser["program"].deferred, TRUE)
    BY <1>1 DEF Inv, StrictInv, InStep
  <2>2. /\ Mirrors(parser'["strict"], parser["program"].deferred, FALSE)
        /\ Mirrors(parser'["module"], parser["program"].deferred, TRUE)
    BY <1>2, <1>3, <2>1, MirrorsSame
  <2>. QED
    BY <1>2, <1>3, <1>7, <2>2 DEF InStep
<1>9. EndTogether' /\ SameOutcome' /\ ProgramAcceptsAll' /\ StricterRejectsMore'
  BY <1>1, <1>2, <1>7, StillUndecided
<1>. QED
  BY <1>4, <1>5, <1>6, <1>8, <1>9 DEF Inv, StrictInv

\* An item at which every parser still running ends.
LEMMA EndStep ==
  ASSUME Inv, NEW out \in [Entry -> [error : OutcomeName, at : Nat]],
         ReadItem([e \in Entry |-> End(parser[e], out[e])]),
         depth' \in Nat, prologue' \in BOOLEAN, stray' \in BOOLEAN,
         \A e \in Entry : out[e] # Parsing,
         out["program"] = Ok => \A e \in Decided : out[e] = Ok,
         ~stray' => \A e \in Decided : out[e] = Ok => out["program"] = Ok,
         out["module"] = Ok => out["strict"] = Ok,
         out["strict"] = Ok => out["script"] = Ok,
         FoundModule(out["program"]) =>
           out["program"] = IF Performed(parser["program"].deferred, TRUE) # Ok
                            THEN Performed(parser["program"].deferred, TRUE)
                            ELSE out["module"]
  PROVE  Inv'
<1>. DEFINE P == parser["program"]
<1>1. /\ Running(P) /\ Running(parser["script"])
      /\ \A e \in Entry : parser[e].result # Ok
      /\ \A e \in Entry : parser'[e] =
           IF Running(parser[e]) THEN End(parser[e], out[e]) ELSE parser[e]
  BY Undecided
<1>2. \A e \in Entry : parser[e] \in ParserState
  BY DEF Inv, TypeOK
<1>3. \A e \in Entry :
        /\ parser'[e] \in ParserState
        /\ parser'[e].goal = parser[e].goal
        /\ parser'[e].strict = parser[e].strict
        /\ parser'[e].outer = parser[e].outer
        /\ parser'[e].deferred = parser[e].deferred
        /\ parser'[e].result =
             IF Running(parser[e]) THEN out[e] ELSE parser[e].result
  <2>. SUFFICES ASSUME NEW e \in Entry, Running(parser[e])
                PROVE  /\ End(parser[e], out[e]) \in ParserState
                       /\ End(parser[e], out[e]).goal = parser[e].goal
                       /\ End(parser[e], out[e]).strict = parser[e].strict
                       /\ End(parser[e], out[e]).outer = parser[e].outer
                       /\ End(parser[e], out[e]).deferred = parser[e].deferred
                       /\ End(parser[e], out[e]).result = out[e]
    BY <1>1, <1>2
  <2>1. parser[e] \in ParserState
    BY <1>2
  <2>. QED
    BY <2>1 DEF End, ParserState
<1>4. /\ "program" \in Entry /\ "script" \in Entry /\ "strict" \in Entry
      /\ "module" \in Entry /\ Decided = Entry \ {"program"}
      /\ Decided = {"script", "strict", "module"}
  BY DEF Entry, Decided
<1>5. TypeOK'
  BY <1>3 DEF Inv, TypeOK, ReadItem
<1>6. \A e \in Entry : ~Running(parser'[e])
  BY <1>3 DEF Running
<1>7. ModesFixed'
  BY <1>3, <1>6 DEF Inv, StrictInv, ModesFixed
<1>8. NothingLeftBehind'
  BY <1>3, <1>4 DEF Inv, StrictInv, NothingLeftBehind
<1>9. InStep' /\ EndTogether'
  BY <1>4, <1>6 DEF InStep, EndTogether
<1>10. /\ P.deferred \in Seq(CheckRecord)
       /\ Mirrors(parser["strict"], P.deferred, FALSE)
       /\ Mirrors(parser["module"], P.deferred, TRUE)
  BY <1>1, <1>2, <1>4 DEF Inv, StrictInv, InStep, ParserState
<1>11. /\ Running(parser["strict"]) <=> Performed(P.deferred, FALSE) = Ok
       /\ ~Running(parser["strict"]) =>
            parser["strict"].result = Performed(P.deferred, FALSE)
       /\ Running(parser["module"]) <=> Performed(P.deferred, TRUE) = Ok
       /\ ~Running(parser["module"]) =>
            parser["module"].result = Performed(P.deferred, TRUE)
  BY <1>10, MirrorsResult
<1>12. SameOutcome'
  <2>1. ASSUME parser'["program"].result = Ok, NEW e \in Decided
        PROVE  parser'[e].result = ProgramAs(e)'
    <3>1. out[e] = Ok /\ parser'["program"].deferred = P.deferred
      BY <1>1, <1>3, <1>4, <2>1
    <3>2. CASE e = "script"
      BY <1>1, <1>3, <1>4, <3>1, <3>2 DEF ProgramAs
    <3>3. CASE e = "strict"
      <4>1. ProgramAs(e)' = Performed(P.deferred, FALSE)
        BY <3>1, <3>3 DEF ProgramAs
      <4>. QED
        BY <1>3, <1>4, <1>11, <3>1, <3>3, <4>1
    <3>4. CASE e = "module"
      <4>1. ProgramAs(e)' = Performed(P.deferred, TRUE)
        BY <3>1, <3>4 DEF ProgramAs
      <4>. QED
        BY <1>3, <1>4, <1>11, <3>1, <3>4, <4>1
    <3>. QED
      BY <1>4, <3>2, <3>3, <3>4
  <2>2. ASSUME FoundModule(parser'["program"].result)
        PROVE  parser'["module"].result = parser'["program"].result
    <3>1. parser'["program"].result = out["program"]
      BY <1>1, <1>3, <1>4
    <3>2. parser'["module"].result =
            IF Performed(P.deferred, TRUE) = Ok THEN out["module"]
            ELSE Performed(P.deferred, TRUE)
      BY <1>3, <1>4, <1>11
    <3>. QED
      BY <2>2, <3>1, <3>2
  <2>. QED
    BY <2>1, <2>2 DEF SameOutcome
<1>13. ProgramAcceptsAll'
  BY <1>1, <1>3, <1>4 DEF ProgramAcceptsAll
<1>14. StricterRejectsMore'
  <2>1. Running(parser["module"]) => Running(parser["strict"])
    <3>. SUFFICES ASSUME Running(parser["module"]) PROVE Running(parser["strict"])
      OBVIOUS
    <3>1. NoneFailing(P.deferred, TRUE)
      BY <1>10, FirstIsError DEF Mirrors, Running
    <3>2. \A i \in DOMAIN P.deferred : ~FirstFailing(P.deferred, FALSE, i)
      BY <3>1 DEF NoneFailing, FirstFailing
    <3>. QED
      BY <1>10, <3>2 DEF Mirrors
  <2>. QED
    BY <1>1, <1>3, <1>4, <2>1 DEF StricterRejectsMore
<1>. QED
  BY <1>5, <1>7, <1>8, <1>9, <1>12, <1>13, <1>14 DEF Inv, StrictInv

-----------------------------------------------------------------------------
(***************************************************************************)
(* The actions.                                                            *)
(***************************************************************************)
LEMMA NextIdentifier == Inv /\ Identifier => Inv'
<1>. SUFFICES ASSUME Inv, Identifier PROVE Inv'
  OBVIOUS
<1>1. PICK name \in Name, binding \in BOOLEAN :
        ReadItem([e \in Entry |->
          StrictCheck(parser[e], NameCheck(name, binding, items))])
  BY DEF Identifier
<1>2. NameCheck(name, binding, items) \in CheckRecord \cup {NoCheck}
  BY NameCheckType DEF Inv, TypeOK
<1>3. UNCHANGED <<depth, stray>> /\ prologue' \in BOOLEAN
  BY DEF Identifier
<1>. QED
  BY <1>1, <1>2, <1>3, CheckStep

LEMMA NextWithStatement == Inv /\ WithStatement => Inv'
<1>. SUFFICES ASSUME Inv, WithStatement PROVE Inv'
  OBVIOUS
<1>1. Check("Strict", "StrictWith", items) \in CheckRecord
  BY DEF Inv, TypeOK, Check, CheckRecord, StrictError, Outcome
<1>2. /\ ReadItem([e \in Entry |->
           StrictCheck(parser[e], Check("Strict", "StrictWith", items))])
      /\ UNCHANGED <<depth, stray>> /\ prologue' \in BOOLEAN
  BY DEF WithStatement
<1>. QED
  BY <1>1, <1>2, CheckStep

LEMMA NextDirective == Inv /\ Directive => Inv'
<1>. SUFFICES ASSUME Inv, Directive PROVE Inv'
  OBVIOUS
<1>1. PICK literal \in Literal :
        ReadItem([e \in Entry |-> Obey(parser[e], Pragma(literal))])
  BY DEF Directive
<1>. DEFINE next == [e \in Entry |-> parser[e]]
<1>2. [e \in Entry |-> Obey(parser[e], Pragma(literal))] = next
  BY ObeyNothing
<1>3. /\ ReadItem(next)
      /\ next \in [Entry -> ParserState]
      /\ depth' \in Nat /\ prologue' \in BOOLEAN /\ UNCHANGED <<depth, stray>>
  BY <1>1, <1>2 DEF Directive, Inv, TypeOK
<1>4. \A e \in Entry : Running(parser[e]) =>
        /\ next[e].goal = parser[e].goal
        /\ next[e].strict = parser[e].strict
        /\ next[e].deferred = parser[e].deferred
        /\ next[e].result = parser[e].result
        /\ \A i \in DOMAIN next[e].outer : next[e].outer[i] = InitialStrict(e)
        /\ Len(next[e].outer) = depth'
  BY <1>3 DEF Inv, StrictInv, ModesFixed
<1>. HIDE DEF next
<1>. QED
  BY <1>3, <1>4, ContextStep

LEMMA NextEnterFunctionBody == Inv /\ EnterFunctionBody => Inv'
<1>. SUFFICES ASSUME Inv, EnterFunctionBody PROVE Inv'
  OBVIOUS
<1>. DEFINE next == [e \in Entry |-> Enter(parser[e])]
<1>1. /\ ReadItem(next)
      /\ depth' = depth + 1 /\ depth \in Nat
      /\ prologue' \in BOOLEAN /\ UNCHANGED stray
  BY DEF EnterFunctionBody, Inv, TypeOK
<1>2. \A e \in Entry :
        /\ parser[e] \in ParserState
        /\ parser[e].strict = InitialStrict(e)
        /\ \A i \in DOMAIN parser[e].outer : parser[e].outer[i] = InitialStrict(e)
        /\ Running(parser[e]) => Len(parser[e].outer) = depth
  BY DEF Inv, TypeOK, StrictInv, ModesFixed
<1>3. \A e \in Entry :
        /\ next[e] \in ParserState
        /\ next[e].goal = parser[e].goal
        /\ next[e].strict = parser[e].strict
        /\ next[e].deferred = parser[e].deferred
        /\ next[e].result = parser[e].result
        /\ next[e].outer = Append(parser[e].outer, parser[e].strict)
  <2>. SUFFICES ASSUME NEW e \in Entry
                PROVE  /\ Enter(parser[e]) \in ParserState
                       /\ Enter(parser[e]).goal = parser[e].goal
                       /\ Enter(parser[e]).strict = parser[e].strict
                       /\ Enter(parser[e]).deferred = parser[e].deferred
                       /\ Enter(parser[e]).result = parser[e].result
                       /\ Enter(parser[e]).outer =
                            Append(parser[e].outer, parser[e].strict)
    OBVIOUS
  <2>1. parser[e] \in ParserState
    BY <1>2
  <2>2. Append(parser[e].outer, parser[e].strict) \in Seq(TriState)
    BY <2>1 DEF ParserState
  <2>. QED
    BY <2>1, <2>2 DEF Enter, ParserState
<1>4. next \in [Entry -> ParserState]
  BY <1>3
<1>5. \A e \in Entry : Running(parser[e]) =>
        /\ \A i \in DOMAIN next[e].outer : next[e].outer[i] = InitialStrict(e)
        /\ Len(next[e].outer) = depth'
  <2>. SUFFICES ASSUME NEW e \in Entry, Running(parser[e])
                PROVE  /\ \A i \in DOMAIN next[e].outer :
                            next[e].outer[i] = InitialStrict(e)
                       /\ Len(next[e].outer) = depth'
    OBVIOUS
  <2>1. parser[e].outer \in Seq(TriState) /\ parser[e].strict \in TriState
    BY <1>2 DEF ParserState
  <2>2. next[e].outer = Append(parser[e].outer, parser[e].strict)
    BY <1>3
  <2>. HIDE DEF next
  <2>. QED
    BY <1>1, <1>2, <2>1, <2>2
<1>. HIDE DEF next
<1>. QED
  BY <1>1, <1>3, <1>4, <1>5, ContextStep

LEMMA NextLeaveFunctionBody == Inv /\ LeaveFunctionBody => Inv'
<1>. SUFFICES ASSUME Inv, LeaveFunctionBody PROVE Inv'
  OBVIOUS
<1>. DEFINE next == [e \in Entry |->
                       IF Running(parser[e]) THEN Leave(parser[e]) ELSE parser[e]]
<1>1. /\ ReadItem([e \in Entry |-> Leave(parser[e])])
      /\ depth' = depth - 1 /\ depth \in Nat /\ depth > 0
      /\ prologue' \in BOOLEAN /\ UNCHANGED stray
  BY DEF LeaveFunctionBody, Inv, TypeOK
<1>2. ReadItem(next)
  BY <1>1 DEF ReadItem
<1>3. \A e \in Entry :
        /\ parser[e] \in ParserState
        /\ parser[e].strict = InitialStrict(e)
        /\ \A i \in DOMAIN parser[e].outer : parser[e].outer[i] = InitialStrict(e)
        /\ Running(parser[e]) => Len(parser[e].outer) = depth
  BY DEF Inv, TypeOK, StrictInv, ModesFixed
<1>4. ASSUME NEW e \in Entry, Running(parser[e])
      PROVE  /\ Leave(parser[e]) \in ParserState
             /\ Leave(parser[e]).goal = parser[e].goal
             /\ Leave(parser[e]).strict = parser[e].strict
             /\ Leave(parser[e]).deferred = parser[e].deferred
             /\ Leave(parser[e]).result = parser[e].result
             /\ \A i \in DOMAIN Leave(parser[e]).outer :
                  Leave(parser[e]).outer[i] = InitialStrict(e)
             /\ Len(Leave(parser[e]).outer) = depth'
  <2>. DEFINE s == parser[e].outer
  <2>1. s \in Seq(TriState) /\ Len(s) = depth /\ Len(s) > 0
    BY <1>1, <1>3, <1>4 DEF ParserState
  <2>2. Last(s) = InitialStrict(e)
    BY <1>3, <2>1 DEF Last
  <2>3. /\ Front(s) \in Seq(TriState) /\ Len(Front(s)) = depth'
        /\ \A i \in DOMAIN Front(s) : Front(s)[i] = InitialStrict(e)
    <3>1. Front(s) = [i \in 1 .. Len(s) - 1 |-> s[i]]
      BY <2>1 DEF Front
    <3>. QED
      BY <1>1, <1>3, <2>1, <3>1
  <2>4. parser[e] \in ParserState /\ parser[e].strict = InitialStrict(e)
    BY <1>3
  <2>. HIDE DEF s
  <2>5. Leave(parser[e]) = [parser[e] EXCEPT !.strict = Last(s), !.outer = Front(s)]
    BY DEF Leave, s
  <2>6. Last(s) \in TriState
    BY <2>2, <2>4 DEF ParserState
  <2>. QED
    BY <2>2, <2>3, <2>4, <2>5, <2>6 DEF ParserState
<1>5. next \in [Entry -> ParserState]
  BY <1>3, <1>4
<1>6. \A e \in Entry : Running(parser[e]) =>
        /\ next[e].goal = parser[e].goal
        /\ next[e].strict = parser[e].strict
        /\ next[e].deferred = parser[e].deferred
        /\ next[e].result = parser[e].result
        /\ \A i \in DOMAIN next[e].outer : next[e].outer[i] = InitialStrict(e)
        /\ Len(next[e].outer) = depth'
  BY <1>4
<1>7. depth' \in Nat
  BY <1>1
<1>. HIDE DEF next
<1>. QED
  BY <1>1, <1>2, <1>5, <1>6, <1>7, ContextStep

LEMMA NextSyntaxError == Inv /\ SyntaxError => Inv'
<1>. SUFFICES ASSUME Inv, SyntaxError PROVE Inv'
  OBVIOUS
<1>. DEFINE out == [e \in Entry |-> Outcome("UnexpectedToken", items)]
<1>1. /\ ReadItem([e \in Entry |-> End(parser[e], out[e])])
      /\ depth' \in Nat /\ prologue' \in BOOLEAN /\ stray' \in BOOLEAN
      /\ items \in Nat
  BY DEF SyntaxError, Inv, TypeOK
<1>2. \A e \in Entry :
        /\ out[e] \in [error : OutcomeName, at : Nat]
        /\ out[e] # Ok /\ out[e] # Parsing /\ ~FoundModule(out[e])
  BY <1>1 DEF Outcome, OutcomeName, Ok, Parsing, FoundModule, StrictError
<1>3. out \in [Entry -> [error : OutcomeName, at : Nat]]
  BY <1>2
<1>4. /\ "program" \in Entry /\ "script" \in Entry /\ "strict" \in Entry
      /\ "module" \in Entry /\ Decided \subseteq Entry
  BY DEF Entry, Decided
<1>. HIDE DEF out
<1>. QED
  BY <1>1, <1>2, <1>3, <1>4, EndStep

LEMMA NextStrayToken == Inv /\ StrayToken => Inv'
<1>. SUFFICES ASSUME Inv, StrayToken PROVE Inv'
  OBVIOUS
<1>. DEFINE out == [e \in Entry |-> IF e \in {"script", "strict"} THEN Ok
                                    ELSE Outcome("UnexpectedToken", items)]
<1>1. /\ ReadItem([e \in Entry |-> End(parser[e],
           IF e \in {"script", "strict"} THEN Ok
           ELSE Outcome("UnexpectedToken", items))])
      /\ depth' \in Nat /\ prologue' \in BOOLEAN /\ stray' = TRUE
      /\ items \in Nat
  BY DEF StrayToken, Inv, TypeOK
<1>2. ReadItem([e \in Entry |-> End(parser[e], out[e])])
  BY <1>1 DEF ReadItem
<1>3. /\ Outcome("UnexpectedToken", items) \in [error : OutcomeName, at : Nat]
      /\ Outcome("UnexpectedToken", items) # Ok
      /\ Outcome("UnexpectedToken", items) # Parsing
      /\ ~FoundModule(Outcome("UnexpectedToken", items))
      /\ Ok \in [error : OutcomeName, at : Nat] /\ Ok # Parsing
  BY <1>1 DEF Outcome, OutcomeName, Ok, Parsing, FoundModule, StrictError
<1>4. out \in [Entry -> [error : OutcomeName, at : Nat]]
  BY <1>3
<1>5. /\ out["script"] = Ok /\ out["strict"] = Ok
      /\ out["module"] # Ok /\ out["program"] # Ok /\ ~FoundModule(out["program"])
      /\ \A e \in Entry : out[e] # Parsing
  BY <1>3 DEF Entry, Decided
<1>. HIDE DEF out
<1>. QED
  BY <1>1, <1>2, <1>4, <1>5, EndStep

LEMMA NextImportOrExport == Inv /\ ImportOrExport => Inv'
<1>. SUFFICES ASSUME Inv, ImportOrExport PROVE Inv'
  OBVIOUS
<1>. DEFINE P == parser["program"]
            out == [e \in Entry |->
              IF e \in {"script", "strict"} THEN Outcome("UnexpectedToken", items)
              ELSE IF e = "program" /\ Performed(P.deferred, TRUE) # Ok
              THEN Performed(P.deferred, TRUE)
              ELSE Outcome("unimplemented", items)]
<1>1. /\ ReadItem([e \in Entry |-> End(parser[e],
           IF e \in {"script", "strict"} THEN Outcome("UnexpectedToken", items)
           ELSE IF e = "program" /\ Performed(parser[e].deferred, TRUE) # Ok
           THEN Performed(parser[e].deferred, TRUE)
           ELSE Outcome("unimplemented", items))])
      /\ depth' \in Nat /\ prologue' \in BOOLEAN /\ stray' \in BOOLEAN
      /\ items \in Nat
  BY DEF ImportOrExport, Inv, TypeOK
<1>2. [e \in Entry |-> End(parser[e],
         IF e \in {"script", "strict"} THEN Outcome("UnexpectedToken", items)
         ELSE IF e = "program" /\ Performed(parser[e].deferred, TRUE) # Ok
         THEN Performed(parser[e].deferred, TRUE)
         ELSE Outcome("unimplemented", items))]
      = [e \in Entry |-> End(parser[e], out[e])]
  OBVIOUS
<1>3. ReadItem([e \in Entry |-> End(parser[e], out[e])])
  BY <1>1, <1>2
<1>4. \A name \in {"UnexpectedToken", "unimplemented"} :
        /\ Outcome(name, items) \in [error : OutcomeName, at : Nat]
        /\ Outcome(name, items) # Ok /\ Outcome(name, items) # Parsing
  BY <1>1 DEF Outcome, OutcomeName, Ok, Parsing
<1>5. Performed(P.deferred, TRUE) # Ok =>
        /\ Performed(P.deferred, TRUE) \in [error : OutcomeName, at : Nat]
        /\ Performed(P.deferred, TRUE) # Parsing
  <2>. SUFFICES ASSUME Performed(P.deferred, TRUE) # Ok
                PROVE  /\ Performed(P.deferred, TRUE) \in [error : OutcomeName, at : Nat]
                       /\ Performed(P.deferred, TRUE) # Parsing
    OBVIOUS
  <2>1. Running(P) /\ P.deferred \in Seq(CheckRecord)
    BY <1>3, Undecided DEF Inv, TypeOK, ParserState, Entry
  <2>2. Mirrors(parser["module"], P.deferred, TRUE)
    BY <2>1 DEF Inv, StrictInv, InStep
  <2>3. PICK i \in DOMAIN P.deferred : FirstFailing(P.deferred, TRUE, i)
    BY <2>2, PerformedNone DEF Mirrors
  <2>4. Performed(P.deferred, TRUE) = P.deferred[i].error
    BY <2>1, <2>3, PerformedFirst
  <2>5. P.deferred[i] \in CheckRecord
    BY <2>1, <2>3
  <2>. QED
    BY <2>4, <2>5, CheckError
<1>6. \A e \in Entry :
        /\ out[e] \in [error : OutcomeName, at : Nat]
        /\ out[e] # Ok /\ out[e] # Parsing
  BY <1>4, <1>5
<1>7. out \in [Entry -> [error : OutcomeName, at : Nat]]
  BY <1>6
<1>8. /\ "program" \in Entry /\ "script" \in Entry /\ "strict" \in Entry
      /\ "module" \in Entry /\ Decided \subseteq Entry
  BY DEF Entry, Decided
<1>9. out["program"] = IF Performed(P.deferred, TRUE) # Ok
                       THEN Performed(P.deferred, TRUE) ELSE out["module"]
  BY <1>8
<1>. HIDE DEF out
<1>. QED
  BY <1>1, <1>3, <1>6, <1>7, <1>8, <1>9, EndStep

LEMMA NextEndOfSource == Inv /\ EndOfSource => Inv'
<1>. SUFFICES ASSUME Inv, EndOfSource PROVE Inv'
  OBVIOUS
<1>. DEFINE out == [e \in Entry |-> Ok]
<1>1. /\ ReadItem([e \in Entry |-> End(parser[e], out[e])])
      /\ depth' \in Nat /\ prologue' \in BOOLEAN /\ stray' \in BOOLEAN
  BY DEF EndOfSource, Inv, TypeOK
<1>2. Ok \in [error : OutcomeName, at : Nat] /\ Ok # Parsing /\ ~FoundModule(Ok)
  BY DEF Outcome, OutcomeName, Ok, Parsing, FoundModule, StrictError
<1>3. /\ \A e \in Entry : out[e] = Ok
      /\ out \in [Entry -> [error : OutcomeName, at : Nat]]
  BY <1>2
<1>4. /\ "program" \in Entry /\ "script" \in Entry /\ "strict" \in Entry
      /\ "module" \in Entry /\ Decided \subseteq Entry
  BY DEF Entry, Decided
<1>5. ~FoundModule(out["program"])
  BY <1>2, <1>3, <1>4
<1>6. \A e \in Entry : out[e] = Ok /\ out[e] # Parsing
  BY <1>2, <1>3
<1>. HIDE DEF out
<1>7. /\ \A e \in Entry : out[e] # Parsing
      /\ \A e \in Decided : out[e] = Ok
      /\ out["program"] = Ok /\ out["script"] = Ok
  BY <1>4, <1>6
<1>8. /\ out["program"] = Ok => \A e \in Decided : out[e] = Ok
      /\ ~stray' => \A e \in Decided : out[e] = Ok => out["program"] = Ok
      /\ out["module"] = Ok => out["strict"] = Ok
      /\ out["strict"] = Ok => out["script"] = Ok
      /\ FoundModule(out["program"]) =>
           out["program"] = IF Performed(parser["program"].deferred, TRUE) # Ok
                            THEN Performed(parser["program"].deferred, TRUE)
                            ELSE out["module"]
  <2>1. out["strict"] = Ok
    BY <1>4, <1>6
  <2>. QED
    BY <1>5, <1>7, <2>1
<1>. QED
  BY <1>1, <1>3, <1>7, <1>8, EndStep, Zenon

LEMMA NextInv == Inv /\ [Next]_vars => Inv'
<1>. SUFFICES ASSUME Inv, [Next]_vars PROVE Inv'
  OBVIOUS
<1>1. CASE UNCHANGED vars
  <2>1. TypeOK' /\ ModesFixed' /\ NothingLeftBehind'
    BY <1>1 DEF Inv, StrictInv, TypeOK, ModesFixed, NothingLeftBehind, vars
  <2>2. InStep' /\ EndTogether' /\ SameOutcome'
    BY <1>1 DEF Inv, StrictInv, InStep, EndTogether, SameOutcome, ProgramAs, vars
  <2>3. ProgramAcceptsAll' /\ StricterRejectsMore'
    BY <1>1 DEF Inv, StrictInv, ProgramAcceptsAll, StricterRejectsMore, vars
  <2>. QED
    BY <2>1, <2>2, <2>3 DEF Inv, StrictInv
<1>2. CASE Identifier
  BY <1>2, NextIdentifier
<1>3. CASE WithStatement
  BY <1>3, NextWithStatement
<1>4. CASE Directive
  BY <1>4, NextDirective
<1>5. CASE EnterFunctionBody
  BY <1>5, NextEnterFunctionBody
<1>6. CASE LeaveFunctionBody
  BY <1>6, NextLeaveFunctionBody
<1>7. CASE SyntaxError
  BY <1>7, NextSyntaxError
<1>8. CASE StrayToken
  BY <1>8, NextStrayToken
<1>9. CASE ImportOrExport
  BY <1>9, NextImportOrExport
<1>10. CASE EndOfSource
  BY <1>10, NextEndOfSource
<1>. QED
  BY <1>1, <1>2, <1>3, <1>4, <1>5, <1>6, <1>7, <1>8, <1>9, <1>10 DEF Next

-----------------------------------------------------------------------------
(***************************************************************************)
(* Theorems.                                                               *)
(***************************************************************************)
(***************************************************************************)
(* The four parsers keep their types, whatever the source.                 *)
(***************************************************************************)
THEOREM TypeCorrect == Spec => []TypeOK
<1>1. Inv => TypeOK
  BY DEF Inv
<1>. QED
  BY <1>1, InitInv, NextInv, PTL DEF Spec

(***************************************************************************)
(* The inductive invariant holds: the parsers that know their goal stand   *)
(* where the checks that program() put aside say.                          *)
(***************************************************************************)
THEOREM StrictCorrect == Spec => []StrictInv
<1>1. Inv => StrictInv
  BY DEF Inv
<1>. QED
  BY <1>1, InitInv, NextInv, PTL DEF Spec

(***************************************************************************)
(* Program::script, strict and module give the outcome, error and place of *)
(* error included, that the entry point of that name gives.                *)
(***************************************************************************)
THEOREM SameOutcomeCorrect == Spec => []SameOutcome
<1>1. StrictInv => SameOutcome
  BY DEF StrictInv
<1>. QED
  BY <1>1, StrictCorrect, PTL

(***************************************************************************)
(* program() accepts what any of the other entry points accepts, but for   *)
(* the tokens at which the scripts stop too early.                         *)
(***************************************************************************)
THEOREM ProgramAcceptsAllCorrect == Spec => []ProgramAcceptsAll
<1>1. StrictInv => ProgramAcceptsAll
  BY DEF StrictInv
<1>. QED
  BY <1>1, StrictCorrect, PTL

(***************************************************************************)
(* No check is put aside by an entry point that never performs it.         *)
(***************************************************************************)
THEOREM NothingLeftBehindCorrect == Spec => []NothingLeftBehind
<1>1. StrictInv => NothingLeftBehind
  BY DEF StrictInv
<1>. QED
  BY <1>1, StrictCorrect, PTL

(***************************************************************************)
(* A module is a strict script, and a strict script is a script.           *)
(***************************************************************************)
THEOREM StricterRejectsMoreCorrect == Spec => []StricterRejectsMore
<1>1. StrictInv => StricterRejectsMore
  BY DEF StrictInv
<1>. QED
  BY <1>1, StrictCorrect, PTL
=============================================================================
