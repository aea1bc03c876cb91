# Esprit: a verification project

Esprit is a JavaScript lexer and parser in Rust. It is sequential: one call of
`esprit::script`, `strict`, `module` or `program` (`src/src/lib.rs`) parses one
source text by recursive descent and returns a tree or the first error. There
are no threads, no messages and no persistent state; what is hard is that one
mutable parser state (lookahead, context, queued checks) is shared by a hundred
mutually recursive functions, each of which is right only if all the others put
things back as they found them. The models cover that part of the program, and
below it the lexer and the reader, whose state outlives each token as well. The
behaviours TLC explores are the parses, and the lexical analyses, of *every*
source text over a small vocabulary, so the interleavings that matter here, of
nested constructs and of tokens or characters in an order nobody wrote a fixture
for, are all there.

## 1. Inventory

| Component | State | Operations | Interacts with |
|---|---|---|---|
| Entry points (`lib.rs`, `Program` in `parser.rs`) | the queue of deferred checks | `script`, `strict`, `module`, `program`; `Program::script`, `strict`, `module` | run the parser, then `Check::perform` |
| Statement, expression and binding parsers (`parser.rs`) | the Rust call stack | one function per production | read tokens, open scopes of the context, use the operator stack, the cover grammar and semicolon insertion |
| Context (`context.rs`, saves and restores in `parser.rs`) | `strict`, `function`, `iteration`, `switch`, `allow_in`, `labels` | `new_function`, `with_labels`, `allow_in`; `iteration_body`, `switch_statement`, `function_body` | read by jumps, by infix operators and by strict checks |
| Operator stack (`stack.rs`) | `frames` | `extend`, `finish` | driven by `more_infix_expressions`; precedences from `easter/punc.rs` |
| Strict-mode checks (`strict_check`, `error.rs`, `atom.rs`) | `goal`, `context.strict`, `deferred` | `strict_check`, `new_id`, `body_directives`, `take_deferred`, `Check::perform` | the identifiers, `with` and the directives parsed |
| Semicolon insertion (`track.rs`, `has_arg_same_line`) | the newline flag of the next token | `end_with_auto_semi` | lookahead |
| Lookahead (`state.rs`, `joker/lexer.rs`) | `lookahead`, at most two tokens | `peek`, `read`, `unread`, `reread` | calls the lexer with a lexical goal |
| Lexer (`joker/lexer.rs`, `char.rs`, `word.rs`) | `empty_line`; within a token the Rust call stack, `found_newline`, the start of the span | `read_next_token` and one function per token class | reads the reader |
| Reader (`joker/reader.rs`) | `ahead`, `curr_posn` | `peek`, `next` | the character iterator |
| Cover grammar (`easter/cover.rs`) | none | `into_assign_target`, `into_assign_patt`, `into_assign_prop` | assignments, for heads, `++` |
| AST, spans (`easter`, `joker/track.rs`) | the tree | constructors | everything |
| ESTree reader, unjson, derive | none | JSON to tree, macros | tests only, compile time |

What makes each correct:

- *Parser functions*: they end, consume the whole source, never need more
  lookahead than there is, match every bracket they open.
- *Context*: at every token it agrees with the nesting, whatever was opened and
  closed before; so a jump is accepted exactly when it has a target, and a
  statement always starts with `in` allowed.
- *Operator stack*: one tree per source, the one that precedence and
  associativity call for, with every operand once and in order.
- *Strict mode*: deciding late gives the result that deciding first would have
  given.
- *Lexer*: a token ends where the lexical grammar ends it; the newline flag and
  `empty_line` say what stands before it; an escape has the value its digits
  denote; every request is answered, by a token or an error, where the source
  does not make the code panic (section 5, 4); a token lexed under one goal is never
  used under the other, but for one place (section 5, at the end).
- *Reader*: line and column count every end of line once, CRLF included, however
  far the client has looked ahead.
- *Cover grammar*: it accepts what the grammar of patterns accepts.

`PROJECT.json` lists the hazards with their lines and the properties that cover
them; those without a property say why.

## 2. Modules

```
Context ─┬─ ParserScopes ── ParserScopesProofs ─────────────────────┐
         │     ▲ refined by                                         │
         └─ Parsing ── Bindings ── Expressions ── Statements        │
                                                      │             │
                      MCStatements ───────────────────┤             │
                      PendingCalls ───────────────────┘             │
                           └── StatementsProofs ────────────────────┘
                                      └── LexicalGoals
Punc ── MCOperatorStack ── OperatorStack ── OperatorStackProofs
StrictMode ── StrictModeProofs
Reader ── Lexer ─┬─ LexerProofs ── LexemeProofs
                 └─ MCLexer
```

**OperatorStack** is `Stack::extend` and `Stack::finish` as driven by
`more_infix_expressions`, one action per loop iteration. Operators are numbered
in source order, and an expression is the interval of operands it spans with the
operator at its root. `Infix` and `Precedence` are parameters; **Punc** gives the
table of `easter/punc.rs`. **MCOperatorStack** gives one operator per level
that matters and a recursive reference that builds the expected tree from the
source, without a stack.

**Context** is the record of `context.rs` without `strict`, and the pair
`Entered`/`Left` for the five functions that open a scope. A scope record holds
what the function keeps in its local variables: all of the old context for
`function_body`, one flag for `iteration_body`, `switch_statement` and
`allow_in`, the labels for `with_labels`. `May...` are the guards of the jumps.

**ParserScopes** is the abstract specification of how the context may be used:
scopes open and close in stack order, and between two such steps a jump
statement is checked. The nesting itself is the ghost sequence `scopes`, which the
code does not have; the properties relate the two.

**Parsing**, **Bindings**, **Expressions** and **Statements** are the parser.
`todo` is the Rust stack: a sequence of pending calls, each a record with the
function's name and its arguments. An action handles the call at the head,
reads or peeks at a token and replaces the call by those it makes, in order.
A Rust function that decides on several tokens is split at each point where it
asks for the next one (`identifier_statement` is the rest of `stmt_list_item`
after it has taken an identifier), and the tokens it holds meanwhile are in the
call record, out of the buffer, so that `la` is exactly `Lexer::lookahead`.
`Lex` appends one token of the vocabulary, with or without a newline before it,
when a call asks for one and the buffer is empty: any token, except that a slash
is an operator for the calls of `OperatorGoal` (`read_op`, `peek_op`,
`matches_op`) and starts a regular expression for all others. Three pieces of
history serve the properties: `open`, the closing brackets that the tokens
consumed call for; `scopes`, the scopes of the context that are open; and the field
`by` of a token, the call that a slash was lexed for.

Expressions have the value `target`, `pattern` or `value`: what
`easter/cover.rs` would say of them. One token stands for several that the
grammar treats alike (`+` for the operators that are both unary and binary,
`*` for the binary ones, `typeof` and `!` for the unary words and
signs, `++` for `--`, `+=` for the compound assignments). `import` and `export`
end in the outcome `unimplemented`, the macro the code calls.

**Reader** is `joker/reader.rs` on any text: `Draw` is one character from the
iterator into `ahead`, `NextChar` and `NextEnd` are `next`. A carriage return
consumed looks at the character after it, so `next` waits for that draw.

**Lexer** is `read_next_token` and all it calls, over **Reader**. As in the parser,
`todo` is the Rust stack; a step is one iteration of a loop or one decision, and
`Peeked` says how many characters the call at the head looks at, which `PeekMore`
draws before it. `Request` is the client asking for a token; under which goal is
left open until a slash makes it matter. What a token is made of is not
collected: the text between its ends is at hand in the history variable `text`, and
the properties read it there. Only the digits of an escape are (`digits`, `code`),
since they are computed with. `AddDigits` has both outcomes of the build: a panic
where `overflow-checks` are on, the wrapped sum where they are off. **MCLexer** has
the texts.

**StrictMode** runs the four entry points side by side on one source, reduced to
what bears on strictness: names of each class of `atom.rs`, `with`, function
bodies, directives, and the ways a source can end. The four parsers have the same
grammar, so they see the same items until each stops. `Check` keeps its location,
so "the same error" means the same error at the same place.  `SameOutcome` says
that what is decided at the end of a program, or at its first `import` or
`export`, is what deciding at the start would have given.

## 3. Runs

| Run | Result | Distinct states | What it asks |
|---|---|---|---|
| `OperatorStack` | pass | 72 thousand | is the tree right for every sequence of operators, and do the loops end? |
| `ParserScopes` | pass | 576 thousand | does the context agree with the nesting, for four scopes and two labels, with labels redeclared? |
| `ParserScopesDistinct` | pass | 123 thousand | without redeclared labels, is every label known and no jump wrongly rejected? |
| `Statements` | pass | 1.3 million | lookahead, `in`, context, brackets and end of source, on statements |
| `Expressions` | pass | 0.5 million | brackets, lexical goals and termination on expressions, jumps and every token; does the parser implement `ParserScopes`? |
| `StrictMode` | pass | 74 thousand | do the entry points agree, for six items? |
| `Lexer` | pass | 0.4 million | tokens, newlines, positions, escapes and an answer to every request (a token, an error, or one of the known panics), on every part of the lexical grammar |
| `Script` | violation | | does a script end at the end of the source? |
| `Lookahead` | violation | | are identifiers the only tokens that need a second one? |
| `Pragmas` | violation | | does a directive have its effect? |
| `Panics` | violation | | is the character that `reread` expects always there? |
| `Goals` | violation | | does a slash continue a string at the head of a body? |

### Bounds

- *Operators.* `MaxInfix = 5`. A frame interacts with the frame below it and the
  operator after it; five operators reach three frames with two pops in one
  `extend`. The theorems hold for any number.
- *Scopes.* `Depths = {0, 1, 2, 3}`, which is four open scopes, and two labels: a
  flag saved, set, hidden by a function and set again within. The theorems hold for any number.
- *Texts.* `MCStatements` has one vocabulary for each part of the grammar and all
  texts over it of five to nine tokens, long enough for its shortest complete
  statement with one repetition (`switch(a){default:}` is eight). `Short` is
  every token of the grammar in all texts of three tokens, so every call meets
  the tokens that make no sense for it. The texts the parser rejects are in as
  well as those it accepts.
- *Newlines.* A newline matters to semicolon insertion, to the arguments of jumps
  and to postfix operators. The vocabularies meant for other parts (`OneLine`) are texts on
  one line; the others have or have not a newline before each token.
- *Labels in ImplementsScopes.* `Names` has two names for statements, `ShortNames`
  one for the run of expressions and of every token. The instance of `ParserScopes`
  has `Depths <- Nat`: no bound on the nesting but the length of the texts.
- *Slashes.* `Divisions` and `Slashes` are the vocabularies with both readings of a
  slash, around operands, `new`, postfix operators, `for (let` and strings at the
  head of a body.
- *Characters.* `MCLexer` has one family of texts for each part of the lexical
  grammar: all texts of two to seven characters over those that matter to it, after
  a fixed beginning (a quote, `/`, `/*`, `\u{`). Five or six free characters reach
  an escaped backslash before a delimiter inside a class, a comment between two
  newlines, `-->` after either kind of comment, `>>>=` and what follows it, and the
  end of the text inside every construct. Characters that no function of the lexer
  tells apart share a representative.
- *Width.* `Modulus` is 2^32 in the code. The run takes 16^6, so that an escape of
  six digits overflows, as one of eight does in the code; the texts have up to eight
  digits. `CodePoints` leaves out the surrogates, as `char::from_u32` does.
- *Items.* `MaxItems = 6`: two checks put aside within a function after two
  outside it, and an end. The theorems hold for any number.

Deadlock is checked in the runs of `Statements` and `Lexer`: a parse that has
returned, or a lexer with nothing left to read, stutters in `Finished`, so any
other state without a successor would be a call that no action handles. In the other modules the system stops when its work is
done or its bound is reached, and the configurations say `CHECK_DEADLOCK FALSE`.

### Fairness

`WF_vars(Next)` in `OperatorStack` and `Statements`: the program is one thread
that runs on until it returns, so a step that is enabled is taken. Nothing
stronger is assumed. In `Lexer`, `WF_lexerVars(LexerStep)`: the lexer runs on
until it has answered, but its client need not ask again, so `Request` is not
fair. The text is finite, and so is the iterator. `ParserScopes` and `StrictMode` have safety properties only.

## 4. Proofs

Everything here is checked by `tlapm` for all values of the constants.

**OperatorStackProofs.** For every set of operators and every precedence
function. `Grouping` alone is not inductive: it speaks of the nodes built, and
whether the next node is right depends on the frames waiting. `StackInv` adds
`Tiled` (frames and the expression in hand lie side by side and cover the
operands read), `Ordered` (frames bind strictly tighter towards the top, no
operator in a frame's left operand binds looser than the frame, none read after it
binds as loosely) and `Accounted` (each operator is in one frame or one node,
and no two nodes share one). `extend` keeps it because it stops at the first
frame that binds looser, `finish` because the frames are ordered. From it follow
`Grouping`, `InSourceOrder` and `ResultIsWhole`. The assumptions are that the
precedence is a function to `Nat` and the bound a natural number.

**ParserScopesProofs.** For any set of labels and any depth. The invariant
`ScopesInv` says of every open scope that what it will restore is what held
around it when it was entered (`RestoresOuter`); labels are the hard part, as
`with_labels` removes names instead of restoring them: without nested duplicates
nothing was hidden (`Distinct`), and with them only `LabelsSound` is true. The
theorems are that the context agrees with the nesting, that accepted jumps have
targets and that rejected ones have none. Assumed: the value for "no label type"
is not a label type or a label.

**StrictModeProofs.** For sources of any length and any nesting of functions.
`InStep` says where the parsers that know their goal stand while `program()` is
still parsing: `script` runs, and the other two run or stopped with the error of the
first check put aside that fails for them. `ModesFixed`, that no directive changes
a parser's mode, is true of the code as it is (see the finding on pragmas) and
the equality of outcomes depends on it: with the directives repaired, the checks
under a "use strict" inside a function would fail at once in `program()`.

**LexerProofs, the reader.** For every set of characters, every text and every client.
`PositionsRight` is not inductive: drawing one more character could change
whether the last one consumed ends a line. Only a carriage return depends on its
follower, and `next` does not consume one before the follower is known; `Settled`
says so. `ReaderInv` adds that the text is what was consumed followed by what is
ahead. `CountLines` and `CountColumn` are the two facts about counting that a step
of `next` needs: one more line if one ends, one more column or none. Assumed: a
text is a sequence of sets of characters.

**LexerProofs, the lexer.** Every action of the lexer draws, takes one character or leaves
the reader alone, so `LexerSpec => ReaderSpec`: the detailed specification
implements the reader's, with the identity as refinement mapping, and positions are
right in every behaviour of the lexer (`LexerPositionsCorrect`). The rest is about
what stands between two tokens. `EmptyLineSound` and `NewlineFlag` are far from
inductive: the flag is set while blanks are skipped and read when the token is
complete, a hundred calls later. `LexerInv` says which calls can be pending
(`Phases`): either the loop over blanks and comments is under way (`Skipping`) and
the flag is that of the text since the last token, or one token is being read
(`InToken`), the line counts as used and the flag is that of the text up to the
token's start. The exception is `AtLineFeed`: between a carriage return and the line
feed that belongs to it the text has a newline of which the flag is not told until
the pair is complete. `Skipped` says that what `skip` will consume has been looked
at and holds no newline; `Behind`, that the last token is behind the reader. There
is one lemma per group of actions; `InnerReturns` covers all functions that
only read on within a token. No assumption is added to those of the reader.

**LexerProofs, types and escapes.** `LexerTypeOK` and `EscapesRight` for any text, also
for an escape with any number of digits in braces. `Summed` and `Denoted` are loops over
the digits, one from the last digit on with a place that grows, one from the first on.
`Least`, that a set of numbers has a least element, stands for the inductions: it is
well-founded minimality of the library, stated without an operator parameter. By it
there is a function whose values are those of the iterations (`LoopExists`), so that a
recursive definition is that function (`SummedIs`, `DenotedIs`); `SummedDenoted` relates
the two loops: what the digits before the last `n` denote, times the place, plus the sum
of the last `n`, stays the same. `TypeInv` is `LexerInv` with the types of all
variables. That the reader holds at most four characters is a fact about `Peeked` alone:
a character is drawn only if the call at hand looks further than what is there.
`EscapesRight` speaks of the one moment at which a code point is complete. `Escaping`
says where the escape stands at every moment before: a backslash was read at some `b`,
none since, and the text from `b` on has the form that the pending calls say: an octal
escape whose value so far is at most 255 (`OctalAt`), `x` or `u` with as many digits as
are not still to be read (`FixedAt`), digits in braces (`BracesAt`), each time with
`digits` the values of those characters in their order; or no call of an escape is
pending at all (`PlainFrom`). `Quiet` covers the calls that make none. That `%` changes
nothing in an escape of two or four digits needs the assumption of **Lexer** that
`Modulus` is more than 16^4; beyond it nothing is assumed of `Modulus` or of
`CodePoints` than that these are numbers below it. TLC checked `EscapeInv` on all states
of the run `Lexer` before it was proved.

**LexemeProofs.** For any text, what a token says of the characters it was read from.
`LongestPunctuator`, `NumbersWellFormed` and `LiteralsClosed` speak of whole tokens, the
steps of single characters. `LexemeInv` says for each call that may be pending within a
token what is known of `SoFar`, the text from the start of the token to the reader
(`TokenText`), and of the token read last what it was returned with (`TokenRight`). Of a
punctuator: what the two to four characters peeked at have decided, which is either the
longest one (`Longest`) or the first two characters of those still open; every longer
punctuator is `Rejected` by a character that differs or by the end of the text, which
holds however much more is drawn. Of a number: which parts are complete (`Mantissa`,
`ExponentFrom`), that a legacy octal has been left behind for neither fraction nor
exponent, and that no digit follows an integer that was read to its end. Of a string or
a regular expression: that nothing before has closed it, and whether the next character
is escaped or in a class. The calls pending are a machine that goes forward, `Escaped`
and `InClass` look back over any number of backslashes and brackets; `EscapedAfter` and
`InClassAfter` relate the two, one character at a time; the inductions are by `Least`
again. TLC checked `LexemeInv` on the 0.4 million states of the run `Lexer` before it
was proved. The attempt found a flaw of the model: `Shift` was a CASE whose guards
overlapped, so that `>>>=` read as `>>>` and `=` was one of its meanings, which TLC,
taking the first guard that holds, does not see. No assumption is added to those of the
reader.

**PendingCalls** and **StatementsProofs.** For every set of sources, of any length,
and every set of labels. What the parser will still do is the sequence `todo` of
pending calls, so the invariant must say what *they* will do. `ParserInv` has six
parts. `Types`: each call has the arguments its function takes. `Bracketed`: a
call moves the open brackets from one sequence to another (`Moves`: an `expect` of a
closer pops, `switch_cases` pops the brace it was called inside, most calls are
neutral), and the pending calls compose to take `open` to the empty sequence.
`Nested`: each call stands in a place, the scopes open around it, `leave`s take
them off in order, and a call that parses a statement stands where `in` is allowed
and every loop label has its loop; a statement that starts with the keyword of a loop
(`LoopStart`) may stand just under the labels of that loop. `Held`: only the call at
hand holds a token, and while it does at most one other is in the buffer, so giving it
back makes two. `ToTheEnd` and `Done`: the call at the bottom is the loop that ends
at the end of the source, and a parse succeeds with no call left. A step replaces the call at the head by some others, so it
is enough that these do together what the call would have done; **PendingCalls**
proves that for any calls, **StatementsProofs** goes through the actions. Assumed:
a name is no other token, sources are records of the type `Sources` has in the
code's terms, `None` is neither label nor label type. `SourceRead` is stated for
sources whose entry is not `script`: for `script` it is false (section 5).

**StatementsProofs, the context.** `Spec => Scopes!Spec` for every source: `Leave` is the
abstract step of the scope it leaves, `GoInside` that of the scope it enters,
`GoJump` that of the jump, and all else stutters. What must be proved of the concrete
state is that the scope at the head `leave` is the innermost one (`Nested`) and that
a labelled scope is entered with labels that have a type. Then `ScopesInv`, proved in
**ParserScopesProofs** of the abstract specification, holds of every parse, and with
`Nested` gives `StatementsAllowIn`, `ContextRestored` and `ContinueTargetsLoop`.

**LexicalGoals.** `GoalsAgree` for every source, a property of the whole grammar: a
token is lexed under the goal of the first function that asks for it, and used by
another, many calls later, perhaps after it was given back. It speaks of the call at hand
and so is far from inductive. The invariant `GoalInv` says what the pending calls
rely on and provide, as a chain of promises through `todo` (`Handing`), the first of
which holds of the buffer (`Holds`): that the first token is no slash, that it
is no regular expression, that there is one, that there is at most one. What a function
relies on (`Relies`) and provides (`Provides`) depends on its place in the grammar
alone: a function that ends where an operand ends has looked for nothing but
operators and leaves no regular expression; one that ends because no operator
follows leaves a token that is neither; one that consumes a token last leaves an empty
buffer; all others leave no slash. `leave`, `build`, `prefix_update` and
`return_check` do not look at the buffer and hand on what they find (`Transparent`).
`GivenBack` is about the two tokens in the buffer after `unread_token`: the first is a
name, `let`, a string or the `const` of a for head, or the name of a property, and
the calls that may find them there are those in `TakesTwo`. With that the fragile places
are accounted for one by one: `new /re/`, where the loop over `new` has asked for the
token as an operand before it is compared with a dot (`news` stands for both); the expression that `identifier_statement` parses
after giving a name back; keys of object literals, where `get` and `set` are read
before it is known what they are. The exception in `GoalsAgree` is needed: after
`for (let` the token is looked at as an operand while `let` may become one, so
`GoalInv` exempts what `for_lexical` has found (`RegExpToken`). Assumed: as in
**PendingCalls**.

### Only model-checked

- Termination of the operator stack and of the parser, and `Answered`: liveness is
  out of the prover's reach. `Answered` asks for more than an end: the answer is the
  token that starts where the request has come to, an error, or a panic on a text of
  which it says that the code panics there (`PanicExpected`), so that a comment, a
  string or another escape at the end of the source must come to an error of its own.
- `MatchesReference`: the reference is recursive.

## 5. What the checks found

1. *Scripts end early* (run `Script`). `script()` and `strict()` stop at a stray
   `}`, `case` or `default` and return `Ok`. `program()` and `module()` reject it;
   for this reason `ProgramAcceptsAll` has the condition `~stray`.
2. *Directives have no effect* (run `Pragmas`). `Dir::pragma` returns the string
   with its quotes, so `"use strict"` is never recognised.
3. *grammar.md on lookahead* (run `Lookahead`). Strings at the head of a body and
   reserved words in object literals need a second token as well.
4. *Unterminated literals panic* (run `Panics`). `read_until_with` does not tell
   the end of the source from its terminator. A regular expression, a class or a
   `\u{` escape that the source ends in fails an assertion, or an `unwrap` in a
   release build, where `UnterminatedRegExp(None)` or `MissingHexDigits` was meant.
   `Answered` excepts these texts, and no others, together with the `\u{` escapes of
   eight digits or more, on which `add_digits` overflows: it panics in a build with
   overflow checks and wraps in one without. The model does both. `EscapesRight` states
   the value modulo the width and admits the wrap; no run judges it, since nothing in
   the repository says what such an escape should give.
5. *A slash after a leading string* (run `Goals`). `"a" / b` at the head of a body
   is rejected: `match_directive_opt` peeks under the regular expression goal.

Behaviour that the models follow and that no property judges: `break` at the end of
the source on one line is rejected (`has_arg_same_line` does not know EOF); `[...a]
= b` is rejected (`cover.rs` expects a spread without a location); a trailing comma
in arguments is rejected; `let` as an identifier in a statement position depends on
the token after it, across newlines; a slash after `for (let` is lexed as a regular
expression although `let` may be a name (the exception in `GoalsAgree`, which judges
nothing about these tokens); a backslash may follow a number; a newline may stand in
the class of a regular expression; `=>` is lexed as two tokens, though `token.rs`
has an arrow; a block comment with a newline sets the newline flag but not
`empty_line`, so `-->` after it starts no comment; an escaped word that spells a
contextual keyword is a plain string, and an escape may give a word any first
character.

## 6. Plan

Order of work, most important behaviour first:

1. *(done)* `OperatorStack`, `Context`, `ParserScopes`, the parser modules,
   `StrictMode`; their runs; the proofs of the first, third and last.
2. *(done)* The lexical goal of each request, in `Parsing`; `Reader` with its proofs;
   `Lexer` with its composition with the reader.
3. *(done)* Proofs about the lexer for any text: the calls pending have the shape
   that `read_next_token` gives them, from which `EmptyLineSound` and `NewlineFlag`
   follow.
4. *(done)* Proofs about the parser for any source: that `Statements` implements
   `ParserScopes`, that the lookahead fits, that brackets match, that statements
   start with `in` allowed, that lexical goals agree.
   For the lexer `LongestPunctuator`, `LiteralsClosed` and `NumbersWellFormed`, from
   what the text of the token is so far.
5. `Cover`: the conversion of literals to patterns against a reference grammar of
   patterns over small trees.
6. `EstreeScript`: the split of a script into directives and statements.

## 7. Not modelled

The tables of reserved words and operators: constants; the lexer takes any word
to be a reserved one or not, and the parser starts at tokens, so the two are
joined by the vocabulary only and not composed in one run. The values of numbers
and strings, apart from the code points of escapes. Spans, error texts and the `Display` of the operator stack: no
control depends on them. The tree types of `easter`. The ESTree reader, `unjson`
and the macros of `derive`: translation without state. Destructuring binding
patterns, which the code rejects. `import` and `export`, which it does not
implement. `Parser::validate`, which is always true in what the library exports.
