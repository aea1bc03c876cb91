---------------------------- MODULE OperatorStack ----------------------------
(***************************************************************************)
(* The operator-precedence stack of src/src/stack.rs, driven by the loop   *)
(* of Parser::more_infix_expressions (src/src/parser.rs):                  *)
(*                                                                         *)
(*     unary (infix unary)*   ==>   one Expr tree                          *)
(*                                                                         *)
(* The operators read are numbered 1, 2, ..., the operands 0, 1, ...:      *)
(* operator k stands between operands k-1 and k.  An Expr is abstracted to *)
(* the operands it spans and the number of the operator at its root (0 for *)
(* an operand); the Expr::Binop and Expr::Logop nodes that Frame::fill     *)
(* allocates are collected in the set nodes.                               *)
(***************************************************************************)
EXTENDS Naturals, Sequences, SequencesExt

CONSTANTS
  Infix,      \* the infix operators: every Binop and Logop
  Precedence, \* trait Precedence: the binding power of each operator
  MaxInfix    \* bound: operators in one expression

ASSUME PrecedenceAssumption == Precedence \in [Infix -> Nat]
ASSUME MaxInfixAssumption == MaxInfix \in Nat

VARIABLES
  pc,      \* where more_infix_expressions stands
  infix,   \* the operators read so far, in source order
  frames,  \* Stack::frames
  operand, \* the expression in hand: `operand`, `left` or `right` in the code
  nodes    \* the tree nodes built so far

vars == <<pc, infix, frames, operand, nodes>>

-----------------------------------------------------------------------------
Expr == [lo : Nat, hi : Nat, root : Nat]

\* Mutant of Operand: it starts one operand early.
OperandOffByOne(i) == [lo |-> i - 1, hi |-> i, root |-> 0]

Operand(i) == [lo |-> i, hi |-> i, root |-> 0]

Frame == [left : Expr, op : Nat]

Node == [op : Nat, left : Expr, right : Expr]

Prec(k) == Precedence[infix[k]]

\* Mutant of GroupsLeft: operators of one level group to the right.
GroupsLeftStrictly(k, right) == Prec(k) > Prec(right)

GroupsLeft(k, right) == Prec(k) >= Prec(right)

\* The condition of the while loop of Stack::extend.
TopGroupsLeft == frames # <<>> /\ GroupsLeft(Last(frames).op, Len(infix))

\* Mutant of Fill: the operands swapped.
FillSwapped(f, right) == [op |-> f.op, left |-> right, right |-> f.left]

\* Frame::fill: the node that completes frame f with its right operand.
Fill(f, right) == [op |-> f.op, left |-> f.left, right |-> right]

\* Mutants of PopAndFill: the frame is popped and dropped, or filled and kept.
PopOnly == frames' = Front(frames) /\ UNCHANGED <<operand, nodes>>

FillOnly ==
  /\ nodes' = nodes \cup {Fill(Last(frames), operand)}
  /\ UNCHANGED <<operand, frames>>

\* `self.frames.pop().unwrap().fill(operand)`: the new node becomes the
\* expression in hand.
PopAndFill ==
  LET f == Last(frames)
  IN /\ nodes' = nodes \cup {Fill(f, operand)}
     /\ operand' = [lo |-> f.left.lo, hi |-> operand.hi, root |-> f.op]
     /\ frames' = Front(frames)

-----------------------------------------------------------------------------
Init ==
  /\ pc = "match_infix"
  /\ infix = <<>>
  /\ frames = <<>>
  /\ operand = Operand(0)
  /\ nodes = {}

\* match_infix finds an operator; Stack::extend is called with it.
MatchInfix ==
  /\ pc = "match_infix"
  /\ Len(infix) < MaxInfix
  /\ \E op \in Infix : infix' = Append(infix, op)
  /\ pc' = "extend"
  /\ UNCHANGED <<frames, operand, nodes>>

\* match_infix finds anything else; Stack::finish is called.
MatchNone ==
  /\ pc = "match_infix"
  /\ pc' = "finish"
  /\ UNCHANGED <<infix, frames, operand, nodes>>

\* One iteration of the while loop of Stack::extend.
ExtendFill ==
  /\ pc = "extend"
  /\ TopGroupsLeft
  /\ PopAndFill
  /\ UNCHANGED <<pc, infix>>

\* The loop ends: the frame of the new operator is pushed.
ExtendPush ==
  /\ pc = "extend"
  /\ ~TopGroupsLeft
  /\ frames' = Append(frames, [left |-> operand, op |-> Len(infix)])
  /\ pc' = "unary_expression"
  /\ UNCHANGED <<infix, operand, nodes>>

\* The operand to the right of the operator just pushed.
UnaryExpression ==
  /\ pc = "unary_expression"
  /\ operand' = Operand(Len(infix))
  /\ pc' = "match_infix"
  /\ UNCHANGED <<infix, frames, nodes>>

\* One iteration of the while loop of Stack::finish.
FinishFill ==
  /\ pc = "finish"
  /\ frames # <<>>
  /\ PopAndFill
  /\ UNCHANGED <<pc, infix>>

FinishReturn ==
  /\ pc = "finish"
  /\ frames = <<>>
  /\ pc' = "done"
  /\ UNCHANGED <<infix, frames, operand, nodes>>

Next ==
  \/ MatchInfix \/ MatchNone \/ UnaryExpression
  \/ ExtendFill \/ ExtendPush
  \/ FinishFill \/ FinishReturn

Spec == Init /\ [][Next]_vars /\ WF_vars(Next)

-----------------------------------------------------------------------------
TypeOK ==
  /\ pc \in {"match_infix", "extend", "unary_expression", "finish", "done"}
  /\ infix \in Seq(Infix)
  /\ frames \in Seq(Frame)
  /\ operand \in Expr
  /\ nodes \subseteq Node

(***************************************************************************)
(* Every node built groups its operators as the precedence table demands:  *)
(* nothing in its left operand binds weaker than its root and everything   *)
(* in its right operand binds stronger.  For a given source there is       *)
(* exactly one such tree (left associativity breaks the ties), and it must *)
(* come out of extend and finish whatever the order of the operators.      *)
(***************************************************************************)
Grouped(n) ==
  /\ \A k \in n.left.lo + 1 .. n.left.hi : Prec(k) >= Prec(n.op)
  /\ \A k \in n.right.lo + 1 .. n.right.hi : Prec(k) > Prec(n.op)

Grouping == \A n \in nodes : Grouped(n)

(***************************************************************************)
(* No operand is lost, duplicated or reordered: the two operands of a node *)
(* meet at its operator, and each is a source operand or a node built      *)
(* before with exactly that extent.                                        *)
(***************************************************************************)
IsTree(e) ==
  \/ e.root = 0 /\ e.lo = e.hi
  \/ \E n \in nodes : e = [lo |-> n.left.lo, hi |-> n.right.hi, root |-> n.op]

InSourceOrder ==
  \A n \in nodes :
    /\ n.left.hi = n.op - 1 /\ n.right.lo = n.op
    /\ IsTree(n.left) /\ IsTree(n.right)

(***************************************************************************)
(* The result of finish spans the whole source expression and uses each    *)
(* operator in exactly one node.                                           *)
(***************************************************************************)
ResultIsWhole ==
  pc = "done" =>
    /\ operand.lo = 0 /\ operand.hi = Len(infix)
    /\ IsTree(operand)
    /\ \A k \in 1 .. Len(infix) : \E n \in nodes : n.op = k
    /\ \A m, n \in nodes : m.op = n.op => m = n

\* The loops of extend and finish end, so the expression gets parsed.
Termination == <>(pc = "done")

-----------------------------------------------------------------------------
(***************************************************************************)
(* The inductive invariant: what the loops of extend and finish keep true  *)
(* of the stack between two iterations.                                    *)
(***************************************************************************)
\* The operators already on the stack or in a node: extend holds the last one.
Placed == IF pc = "extend" THEN Len(infix) - 1 ELSE Len(infix)

\* Where the expression in hand starts: right after the top frame's operator.
Bottom == IF frames = <<>> THEN 0 ELSE Last(frames).op

\* The left operand of frame i starts after the operator of the frame below
\* it and ends before its own.
FrameTiled(i) ==
  /\ frames[i].op \in 1 .. Placed
  /\ frames[i].left.lo = IF i = 1 THEN 0 ELSE frames[i - 1].op
  /\ frames[i].left.hi = frames[i].op - 1
  /\ frames[i].left.lo <= frames[i].left.hi
  /\ IsTree(frames[i].left)

\* So does the expression in hand, from the top frame to the last operand.
OperandTiled ==
  /\ operand.lo = Bottom
  /\ operand.hi = Placed
  /\ operand.lo <= operand.hi
  /\ IsTree(operand)

\* The frames and the expression in hand lie side by side and cover the source.
Tiled ==
  /\ pc = "extend" => Len(infix) > 0
  /\ pc = "done" => frames = <<>>
  /\ \A i \in DOMAIN frames : FrameTiled(i)
  /\ \A i, j \in DOMAIN frames : i < j => frames[i].op < frames[j].op
  /\ IF pc = "unary_expression"
     THEN frames # <<>> /\ Bottom = Len(infix)
     ELSE OperandTiled

\* No operator in the left operand of frame i binds weaker than its operator,
\* and every operator read after it binds stronger.
FrameOrdered(i) ==
  /\ \A k \in frames[i].left.lo + 1 .. frames[i].left.hi :
       Prec(k) >= Prec(frames[i].op)
  /\ \A k \in frames[i].op + 1 .. Placed : Prec(k) > Prec(frames[i].op)

\* The frames bind stronger and stronger towards the top, and the expression
\* in hand can become the left operand of the operator that extend holds.
Ordered ==
  /\ \A i, j \in DOMAIN frames : i < j => Prec(frames[i].op) < Prec(frames[j].op)
  /\ \A i \in DOMAIN frames : FrameOrdered(i)
  /\ pc = "match_infix" => operand.lo = operand.hi
  /\ pc = "extend" =>
       \A k \in operand.lo + 1 .. operand.hi : Prec(k) >= Prec(Len(infix))

\* Each operator placed is in one frame or in one node.
Accounted ==
  /\ \A k \in 1 .. Placed :
       (\E n \in nodes : n.op = k) \/ (\E i \in DOMAIN frames : frames[i].op = k)
  /\ \A n \in nodes :
       /\ n.op \in 1 .. Placed
       /\ n.right.hi <= Placed
       /\ \A i \in DOMAIN frames : n.op # frames[i].op
  /\ \A m, n \in nodes : m.op = n.op => m = n

StackInv == Tiled /\ Ordered /\ Accounted /\ Grouping /\ InSourceOrder
=============================================================================
