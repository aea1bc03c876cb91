------------------------- MODULE OperatorStackProofs -------------------------
(***************************************************************************)
(* Proofs about OperatorStack, for every set of operators, every           *)
(* precedence table and expressions of every length.                       *)
(***************************************************************************)
EXTENDS OperatorStack, SequenceTheorems, TLAPS

(***************************************************************************)
(* What Vec::pop leaves and returns.                                       *)
(***************************************************************************)
LEMMA FrontLast ==
  ASSUME NEW S, NEW s \in Seq(S), s # <<>>
  PROVE  /\ Front(s) \in Seq(S)
         /\ Len(Front(s)) = Len(s) - 1
         /\ Len(s) \in Nat \ {0}
         /\ \A i \in 1 .. Len(s) - 1 : Front(s)[i] = s[i]
         /\ Last(s) = s[Len(s)]
         /\ Last(s) \in S
<1>1. Len(s) \in Nat \ {0}
  BY EmptySeq
<1>2. \A i \in 1 .. Len(s) - 1 : s[i] \in S
  BY <1>1, ElementOfSeq
<1>3. /\ SubSeq(s, 1, Len(s) - 1) \in Seq(S)
      /\ Len(SubSeq(s, 1, Len(s) - 1)) = Len(s) - 1
  <2>1. PICK n \in Nat : n = Len(s) - 1
    BY <1>1
  <2>2. \A i \in 1 .. n : s[i] \in S
    BY <1>2, <2>1
  <2>3. SubSeq(s, 1, n) \in Seq(S) /\ Len(SubSeq(s, 1, n)) = n
    BY <2>2, SubSeqProperties
  <2>. QED
    BY <2>1, <2>3
<1>4. s[Len(s)] \in S
  BY <1>1, ElementOfSeq
<1>5. \A i \in 1 .. Len(s) - 1 : SubSeq(s, 1, Len(s) - 1)[i] = s[i]
  BY <1>1
<1>. QED
  BY <1>1, <1>3, <1>4, <1>5 DEF Front, Last

\* Every operator read has a precedence.
LEMMA PrecType ==
  ASSUME TypeOK, NEW k \in 1 .. Len(infix)
  PROVE  Prec(k) \in Nat
<1>1. infix[k] \in Infix
  BY ElementOfSeq DEF TypeOK
<1>. QED
  BY <1>1, PrecedenceAssumption DEF Prec

LEMMA InitType == Init => TypeOK
BY DEF Init, TypeOK, Operand, Expr, Node, Frame

(***************************************************************************)
(* One iteration of the loops of extend and finish keeps the types.        *)
(***************************************************************************)
LEMMA PopAndFillType ==
  ASSUME TypeOK, frames # <<>>, PopAndFill
  PROVE  /\ frames' \in Seq(Frame)
         /\ operand' \in Expr
         /\ nodes' \subseteq Node
<1>1. Last(frames) \in Frame /\ Front(frames) \in Seq(Frame)
  BY FrontLast DEF TypeOK
<1>2. Last(frames).left \in Expr /\ Last(frames).op \in Nat
  BY <1>1 DEF Frame
<1>3. operand' \in Expr
  BY <1>2 DEF PopAndFill, TypeOK, Expr
<1>4. Fill(Last(frames), operand) \in Node
  BY <1>2 DEF Fill, Node, TypeOK
<1>. QED
  BY <1>1, <1>3, <1>4 DEF PopAndFill, TypeOK

LEMMA NextType == TypeOK /\ [Next]_vars => TypeOK'
<1>. SUFFICES ASSUME TypeOK, [Next]_vars
              PROVE  TypeOK'
  OBVIOUS
<1>. Len(infix) \in Nat
  BY DEF TypeOK
<1>1. CASE MatchInfix
  BY <1>1 DEF MatchInfix, TypeOK
<1>2. CASE MatchNone
  BY <1>2 DEF MatchNone, TypeOK
<1>3. CASE UnaryExpression
  BY <1>3 DEF UnaryExpression, TypeOK, Operand, Expr
<1>4. CASE ExtendFill
  BY <1>4, PopAndFillType DEF ExtendFill, TopGroupsLeft, TypeOK
<1>5. CASE ExtendPush
  <2>1. [left |-> operand, op |-> Len(infix)] \in Frame
    BY DEF TypeOK, Frame
  <2>. QED
    BY <1>5, <2>1 DEF ExtendPush, TypeOK
<1>6. CASE FinishFill
  BY <1>6, PopAndFillType DEF FinishFill, TypeOK
<1>7. CASE FinishReturn
  BY <1>7 DEF FinishReturn, TypeOK
<1>8. CASE UNCHANGED vars
  BY <1>8 DEF vars, TypeOK
<1>. QED
  BY <1>1, <1>2, <1>3, <1>4, <1>5, <1>6, <1>7, <1>8 DEF Next

(***************************************************************************)
(* Type correctness of more_infix_expressions, Stack::extend and           *)
(* Stack::finish.                                                          *)
(***************************************************************************)
THEOREM TypeCorrect == Spec => []TypeOK
BY InitType, NextType, PTL DEF Spec

-----------------------------------------------------------------------------
LEMMA InitStack == Init => StackInv
BY DEF Init, StackInv, Tiled, Ordered, Accounted, Grouping, InSourceOrder,
       OperandTiled, Placed, Bottom, IsTree, Operand

(***************************************************************************)
(* A tree stays a tree when nodes are added.                               *)
(***************************************************************************)
LEMMA TreeStays ==
  ASSUME NEW e, IsTree(e), nodes \subseteq nodes'
  PROVE  IsTree(e)'
BY DEF IsTree

(***************************************************************************)
(* The top frame and the expression in hand, in the loops of extend and    *)
(* finish.                                                                 *)
(***************************************************************************)
LEMMA TopFrame ==
  ASSUME TypeOK, Tiled, frames # <<>>, pc # "unary_expression"
  PROVE  /\ Len(frames) \in Nat \ {0} /\ DOMAIN frames = 1 .. Len(frames)
         /\ Last(frames) = frames[Len(frames)]
         /\ Last(frames) \in Frame
         /\ Last(frames).op \in 1 .. Placed /\ Placed \in Nat
         /\ Last(frames).left.lo \in Nat
         /\ Last(frames).left.lo <= Last(frames).left.hi
         /\ Last(frames).left.hi = Last(frames).op - 1
         /\ IsTree(Last(frames).left)
         /\ operand.lo = Last(frames).op /\ operand.hi = Placed
         /\ operand.lo <= operand.hi
         /\ IsTree(operand)
<1>1. /\ Len(frames) \in Nat \ {0} /\ DOMAIN frames = 1 .. Len(frames)
      /\ Last(frames) = frames[Len(frames)]
      /\ Last(frames) \in Frame
  BY FrontLast DEF TypeOK
<1>2. Len(frames) \in DOMAIN frames
  BY <1>1
<1>3. /\ Last(frames).op \in 1 .. Placed
      /\ Last(frames).left.lo <= Last(frames).left.hi
      /\ Last(frames).left.hi = Last(frames).op - 1
      /\ IsTree(Last(frames).left)
  BY <1>1, <1>2 DEF Tiled, FrameTiled
<1>4. Placed \in Nat
  BY DEF Placed, Tiled, TypeOK
<1>5. operand.lo = Last(frames).op /\ operand.hi = Placed
      /\ operand.lo <= operand.hi /\ IsTree(operand)
  BY DEF Tiled, OperandTiled, Bottom
<1>6. Last(frames).left.lo \in Nat
  BY <1>1 DEF Frame, Expr
<1>. QED
  BY <1>1, <1>3, <1>4, <1>5, <1>6

(***************************************************************************)
(* One iteration of the loop of extend (when the top frame groups left) or *)
(* of finish keeps the inductive invariant.                                *)
(***************************************************************************)
LEMMA PopAndFillStack ==
  ASSUME TypeOK, StackInv, frames # <<>>, PopAndFill, UNCHANGED <<pc, infix>>,
         pc \in {"extend", "finish"},
         pc = "extend" => GroupsLeft(Last(frames).op, Len(infix))
  PROVE  StackInv'
<1>. DEFINE f == Last(frames)
            m == Len(frames)
            new == Fill(f, operand)
<1>1. /\ m \in Nat \ {0} /\ DOMAIN frames = 1 .. m /\ f = frames[m]
      /\ f \in Frame /\ f.op \in 1 .. Placed /\ Placed \in Nat
      /\ f.left.lo \in Nat
      /\ f.left.lo <= f.left.hi /\ f.left.hi = f.op - 1 /\ IsTree(f.left)
      /\ operand.lo = f.op /\ operand.hi = Placed
      /\ operand.lo <= operand.hi /\ IsTree(operand)
  BY TopFrame DEF StackInv
<1>2. /\ frames' \in Seq(Frame) /\ Len(frames') = m - 1
      /\ DOMAIN frames' = 1 .. m - 1
      /\ \A i \in 1 .. m - 1 : frames'[i] = frames[i]
  BY FrontLast, LenProperties DEF PopAndFill, TypeOK
<1>2a. /\ \A i \in DOMAIN frames' :
            i \in DOMAIN frames /\ i < m /\ frames'[i] = frames[i]
       /\ \A i \in DOMAIN frames : i # m => i \in DOMAIN frames'
       /\ m \in DOMAIN frames
  BY <1>1, <1>2
<1>3. /\ nodes' = nodes \cup {new} /\ nodes \subseteq nodes'
      /\ new.op = f.op /\ new.left = f.left /\ new.right = operand
      /\ operand'.lo = f.left.lo /\ operand'.hi = operand.hi
      /\ operand'.root = f.op
      /\ operand' = [lo |-> new.left.lo, hi |-> new.right.hi, root |-> new.op]
  BY DEF PopAndFill, Fill
<1>4. Placed' = Placed
  BY DEF Placed
<1>5. \A k : Prec(k)' = Prec(k)
  BY DEF Prec
<1>6. /\ \A k \in Nat : k \in 1 .. Placed => Prec(k) \in Nat
  BY PrecedenceAssumption DEF Prec, Placed, TypeOK
<1>7. Bottom' = f.left.lo
  <2>1. f.left.lo = IF m = 1 THEN 0 ELSE frames[m - 1].op
    BY <1>1 DEF StackInv, Tiled, FrameTiled
  <2>2. CASE m = 1
    <3>1. frames' = <<>>
      BY <1>2, <2>2, EmptySeq
    <3>. QED
      BY <2>1, <2>2, <3>1 DEF Bottom
  <2>3. CASE m # 1
    <3>1. frames' # <<>> /\ m - 1 \in 1 .. m - 1
      BY <1>1, <1>2, <2>3, EmptySeq
    <3>2. Last(frames') = frames[m - 1]
      BY <1>2, <3>1 DEF Last
    <3>. QED
      BY <2>1, <2>3, <3>1, <3>2 DEF Bottom
  <2>. QED
    BY <2>2, <2>3
<1>8. Tiled'
  <2>1. IsTree(operand)'
    BY <1>3 DEF IsTree
  <2>2. operand'.lo = Bottom' /\ operand'.hi = Placed' /\ operand'.lo <= operand'.hi
    BY <1>1, <1>3, <1>4, <1>7
  <2>3. ASSUME NEW i \in DOMAIN frames'
        PROVE  FrameTiled(i)'
    <3>1. i \in DOMAIN frames /\ i \in 1 .. m - 1 /\ frames'[i] = frames[i]
      BY <1>1, <1>2
    <3>2. i # 1 => i - 1 \in 1 .. m - 1 /\ frames'[i - 1] = frames[i - 1]
      BY <1>1, <1>2, <3>1
    <3>3. FrameTiled(i)
      BY <3>1 DEF StackInv, Tiled
    <3>4. IsTree(frames[i].left)'
      BY <1>3, <3>1, <3>3 DEF FrameTiled, IsTree
    <3>. QED
      BY <1>4, <3>1, <3>2, <3>3, <3>4 DEF FrameTiled
  <2>4. \A i, j \in DOMAIN frames' : i < j => frames'[i].op < frames'[j].op
    BY <1>1, <1>2 DEF StackInv, Tiled
  <2>5. /\ pc' # "unary_expression" /\ pc' # "done"
        /\ pc' = "extend" => Len(infix') > 0
    BY DEF StackInv, Tiled
  <2>6. OperandTiled'
    BY <2>1, <2>2 DEF OperandTiled
  <2>. QED
    BY <2>3, <2>4, <2>5, <2>6 DEF Tiled
<1>9. FrameOrdered(m) /\ f.op \in Nat
  BY <1>1 DEF StackInv, Ordered
<1>10. Ordered'
  <2>1. ASSUME NEW i \in DOMAIN frames'
        PROVE  FrameOrdered(i)'
    <3>1. i \in DOMAIN frames /\ frames'[i] = frames[i]
      BY <1>1, <1>2
    <3>2. FrameOrdered(i)
      BY <3>1 DEF StackInv, Ordered
    <3>. QED
      BY <1>4, <1>5, <3>1, <3>2 DEF FrameOrdered
  <2>2. \A i, j \in DOMAIN frames' :
          i < j => Prec(frames'[i].op) < Prec(frames'[j].op)
    BY <1>1, <1>2 DEF StackInv, Ordered
  <2>3. ASSUME pc = "extend", NEW k \in f.left.lo + 1 .. operand.hi
        PROVE  Prec(k) >= Prec(Len(infix))
    <3>1. Len(infix) \in Nat /\ Placed = Len(infix) - 1 /\ Len(infix) > 0
      BY <2>3 DEF Placed, TypeOK, StackInv, Tiled
    <3>2. Prec(f.op) >= Prec(Len(infix))
      BY <2>3 DEF GroupsLeft
    <3>3. /\ Prec(f.op) \in Nat /\ Prec(Len(infix)) \in Nat
          /\ k \in 1 .. Placed /\ Prec(k) \in Nat
      <4>1. /\ f.left.lo \in Nat /\ operand.hi = Placed /\ Placed \in Nat
            /\ f.op \in 1 .. Placed
        BY <1>1, Zenon
      <4>2. k \in 1 .. Placed
        BY <4>1
      <4>3. /\ f.op \in 1 .. Len(infix) /\ k \in 1 .. Len(infix)
            /\ Len(infix) \in 1 .. Len(infix)
        BY <3>1, <4>1, <4>2
      <4>. QED
        BY <4>2, <4>3, PrecType
    <3>4. CASE k < f.op
      <4>1. k \in f.left.lo + 1 .. f.left.hi
        BY <1>1, <2>3, <3>4
      <4>2. Prec(k) >= Prec(f.op)
        BY <1>1, <1>9, <4>1 DEF FrameOrdered
      <4>. QED
        BY <3>2, <3>3, <4>2
    <3>5. CASE k = f.op
      BY <3>2, <3>5
    <3>6. CASE k > f.op
      <4>1. k \in f.op + 1 .. Placed
        BY <1>1, <3>3, <3>6
      <4>2. Prec(k) > Prec(f.op)
        BY <1>1, <1>9, <4>1 DEF FrameOrdered
      <4>. QED
        BY <3>2, <3>3, <4>2
    <3>. QED
      BY <1>1, <3>3, <3>4, <3>5, <3>6
  <2>4. Prec(Len(infix))' = Prec(Len(infix)) /\ Len(infix') = Len(infix)
    BY <1>5 DEF Prec
  <2>5. \A i, j \in DOMAIN frames' :
          i < j => Prec(frames[i].op)' < Prec(frames[j].op)'
    BY <1>5, <2>2 DEF Prec
  <2>6. pc' = "extend" =>
          \A k \in operand'.lo + 1 .. operand'.hi : Prec(k)' >= Prec(Len(infix))'
    BY <1>3, <1>5, <2>3, <2>4
  <2>. QED
    BY <2>1, <2>5, <2>6 DEF Ordered
<1>11. Accounted'
  <2>1. ASSUME NEW k \in 1 .. Placed
        PROVE  \/ \E n \in nodes' : n.op = k
               \/ \E i \in DOMAIN frames' : frames'[i].op = k
    <3>1. CASE \E n \in nodes : n.op = k
      BY <1>3, <3>1
    <3>2. ASSUME NEW i \in DOMAIN frames, frames[i].op = k
          PROVE  \/ \E n \in nodes' : n.op = k
                 \/ \E j \in DOMAIN frames' : frames'[j].op = k
      <4>1. CASE i = m
        BY <1>1, <1>3, <3>2, <4>1
      <4>2. CASE i # m
        <5>. i \in DOMAIN frames' /\ frames'[i].op = k
          BY <1>2a, <3>2, <4>2
        <5>. QED
          OBVIOUS
      <4>. QED
        BY <4>1, <4>2
    <3>. QED
      BY <3>1, <3>2 DEF StackInv, Accounted
  <2>2. \A n \in nodes : n.op # f.op
    BY <1>1 DEF StackInv, Accounted
  <2>3. ASSUME NEW n \in nodes'
        PROVE  /\ n.op \in 1 .. Placed
               /\ n.right.hi <= Placed
               /\ \A i \in DOMAIN frames' : n.op # frames'[i].op
    <3>1. CASE n \in nodes
      <4>1. /\ n.op \in 1 .. Placed /\ n.right.hi <= Placed
            /\ \A i \in DOMAIN frames : n.op # frames[i].op
        BY <3>1 DEF StackInv, Accounted
      <4>. QED
        BY <1>2a, <4>1
    <3>2. CASE n = new
      <4>1. \A i \in DOMAIN frames' : frames[i].op < f.op /\ frames[i].op \in Nat
        BY <1>1, <1>2a DEF StackInv, Tiled, FrameTiled
      <4>. QED
        BY <1>1, <1>2a, <1>3, <3>2, <4>1
    <3>. QED
      BY <1>3, <3>1, <3>2
  <2>4. \A k, n \in nodes' : k.op = n.op => k = n
    BY <1>3, <2>2 DEF StackInv, Accounted
  <2>. QED
    BY <1>4, <2>1, <2>3, <2>4 DEF Accounted
<1>12. Grouping'
  <2>1. Grouped(new)
    BY <1>1, <1>3, <1>9 DEF FrameOrdered, Grouped
  <2>2. ASSUME NEW n \in nodes'
        PROVE  Grouped(n)'
    <3>1. Grouped(n)
      BY <1>3, <2>1 DEF StackInv, Grouping
    <3>. QED
      BY <1>5, <3>1 DEF Grouped
  <2>. QED
    BY <2>2 DEF Grouping
<1>13. InSourceOrder'
  <2>1. ASSUME NEW n \in nodes'
        PROVE  /\ n.left.hi = n.op - 1 /\ n.right.lo = n.op
               /\ IsTree(n.left) /\ IsTree(n.right)
    BY <1>1, <1>3 DEF StackInv, InSourceOrder
  <2>2. ASSUME NEW n \in nodes'
        PROVE  IsTree(n.left)' /\ IsTree(n.right)'
    BY <1>3, <2>1 DEF IsTree
  <2>. QED
    BY <2>1, <2>2 DEF InSourceOrder
<1>. QED
  BY <1>8, <1>10, <1>11, <1>12, <1>13 DEF StackInv

(***************************************************************************)
(* match_infix consumes an operator: nothing placed so far moves.          *)
(***************************************************************************)
LEMMA MatchInfixStack ==
  ASSUME TypeOK, StackInv, MatchInfix
  PROVE  StackInv'
<1>1. /\ Len(infix) \in Nat /\ Len(infix') = Len(infix) + 1
      /\ \A k \in 1 .. Len(infix) : infix'[k] = infix[k]
  BY DEF MatchInfix, TypeOK
<1>2. /\ pc = "match_infix" /\ pc' = "extend"
      /\ frames' = frames /\ operand' = operand /\ nodes' = nodes
  BY DEF MatchInfix
<1>3. Placed = Len(infix) /\ Placed' = Placed
  BY <1>1, <1>2 DEF Placed
<1>4. \A k \in 1 .. Placed : Prec(k)' = Prec(k)
  BY <1>1, <1>3 DEF Prec
<1>5. Tiled'
  <2>1. \A i \in DOMAIN frames : FrameTiled(i)'
    BY <1>2, <1>3 DEF StackInv, Tiled, FrameTiled, IsTree
  <2>2. OperandTiled'
    BY <1>2, <1>3 DEF StackInv, Tiled, OperandTiled, Bottom, IsTree
  <2>. QED
    BY <1>1, <1>2, <2>1, <2>2 DEF StackInv, Tiled
<1>6. Ordered'
  <2>1. ASSUME NEW i \in DOMAIN frames
        PROVE  FrameOrdered(i)'
    <3>1. FrameOrdered(i) /\ FrameTiled(i) /\ frames[i] \in Frame
      BY DEF StackInv, Ordered, Tiled, TypeOK
    <3>2. /\ frames[i].left.lo \in Nat /\ frames[i].left.hi \in Nat
          /\ frames[i].op \in 1 .. Placed
          /\ frames[i].left.hi = frames[i].op - 1
      BY <3>1 DEF FrameTiled, Frame, Expr
    <3>3. \A k \in frames[i].left.lo + 1 .. frames[i].left.hi : k \in 1 .. Placed
      BY <1>1, <1>3, <3>2
    <3>4. \A k \in frames[i].op + 1 .. Placed : k \in 1 .. Placed
      BY <1>1, <1>3, <3>2
    <3>. QED
      BY <1>2, <1>3, <1>4, <3>1, <3>2, <3>3, <3>4 DEF FrameOrdered
  <2>2. \A i, j \in DOMAIN frames : i < j => Prec(frames[i].op)' < Prec(frames[j].op)'
    <3>1. \A i \in DOMAIN frames : frames[i].op \in 1 .. Placed
      BY DEF StackInv, Tiled, FrameTiled
    <3>2. \A i \in DOMAIN frames : Prec(frames[i].op)' = Prec(frames[i].op)
      BY <1>1, <1>2, <1>3, <3>1 DEF Prec
    <3>. QED
      BY <3>2 DEF StackInv, Ordered
  <2>3. operand'.lo + 1 .. operand'.hi = {}
    BY <1>2 DEF StackInv, Ordered, TypeOK, Expr
  <2>. QED
    BY <1>2, <2>1, <2>2, <2>3 DEF Ordered
<1>7. Accounted'
  BY <1>2, <1>3 DEF StackInv, Accounted
<1>8. Grouping'
  <2>1. ASSUME NEW n \in nodes
        PROVE  Grouped(n)'
    <3>1. /\ n \in Node /\ Grouped(n)
          /\ n.op \in 1 .. Placed /\ n.right.hi <= Placed
          /\ n.left.hi = n.op - 1 /\ n.right.lo = n.op
      BY DEF StackInv, Accounted, Grouping, InSourceOrder, TypeOK
    <3>2. /\ n.left.lo \in Nat /\ n.left.hi \in Nat
          /\ n.right.lo \in Nat /\ n.right.hi \in Nat
      BY <3>1 DEF Node, Expr
    <3>3. \A k \in n.left.lo + 1 .. n.left.hi : k \in 1 .. Placed
      BY <1>1, <1>3, <3>1, <3>2
    <3>4. \A k \in n.right.lo + 1 .. n.right.hi : k \in 1 .. Placed
      BY <1>1, <1>3, <3>1, <3>2
    <3>. QED
      BY <1>4, <3>1, <3>3, <3>4 DEF Grouped
  <2>. QED
    BY <1>2, <2>1 DEF Grouping
<1>9. InSourceOrder'
  BY <1>2 DEF StackInv, InSourceOrder, IsTree
<1>. QED
  BY <1>5, <1>6, <1>7, <1>8, <1>9 DEF StackInv

(***************************************************************************)
(* Steps that leave the source and the stack alone and only move pc, or    *)
(* also replace the expression in hand.                                    *)
(***************************************************************************)
LEMMA SameStack ==
  ASSUME StackInv, UNCHANGED <<infix, frames, nodes>>, Placed' = Placed
  PROVE  /\ \A i \in DOMAIN frames : FrameTiled(i)' /\ FrameOrdered(i)'
         /\ \A i, j \in DOMAIN frames :
              i < j => Prec(frames[i].op)' < Prec(frames[j].op)'
         /\ Bottom' = Bottom
         /\ Accounted' /\ Grouping' /\ InSourceOrder'
<1>1. \A k : Prec(k)' = Prec(k)
  BY DEF Prec
<1>2. \A e : IsTree(e)' = IsTree(e)
  BY DEF IsTree
<1>3. \A i \in DOMAIN frames : FrameTiled(i)'
  BY <1>2 DEF StackInv, Tiled, FrameTiled
<1>4. \A i \in DOMAIN frames : FrameOrdered(i)'
  BY <1>1 DEF StackInv, Ordered, FrameOrdered
<1>5. \A i, j \in DOMAIN frames : i < j => Prec(frames[i].op)' < Prec(frames[j].op)'
  BY <1>1 DEF StackInv, Ordered
<1>6. Accounted'
  BY DEF StackInv, Accounted
<1>7. Grouping'
  BY <1>1 DEF StackInv, Grouping, Grouped
<1>8. InSourceOrder'
  BY <1>2 DEF StackInv, InSourceOrder
<1>. QED
  BY <1>3, <1>4, <1>5, <1>6, <1>7, <1>8 DEF Bottom

(***************************************************************************)
(* The operator loop ends, or finish returns: only pc moves.               *)
(***************************************************************************)
LEMMA OnlyPcStack ==
  ASSUME TypeOK, StackInv, MatchNone \/ FinishReturn
  PROVE  StackInv'
<1>1. /\ UNCHANGED <<infix, frames, operand, nodes>>
      /\ pc \in {"match_infix", "finish"} /\ pc' \in {"finish", "done"}
  BY DEF MatchNone, FinishReturn
<1>2. Placed' = Placed
  BY <1>1 DEF Placed
<1>3. OperandTiled'
  BY <1>1, <1>2 DEF StackInv, Tiled, OperandTiled, Bottom, IsTree
<1>4. Tiled'
  <2>1. pc' = "done" => frames' = <<>>
    BY DEF MatchNone, FinishReturn
  <2>. QED
    BY <1>1, <1>2, <1>3, <2>1, SameStack DEF StackInv, Tiled
<1>5. Ordered'
  BY <1>1, <1>2, SameStack DEF StackInv, Ordered
<1>. QED
  BY <1>1, <1>2, <1>4, <1>5, SameStack DEF StackInv

(***************************************************************************)
(* The operand to the right of the operator on top of the stack.           *)
(***************************************************************************)
LEMMA UnaryExpressionStack ==
  ASSUME TypeOK, StackInv, UnaryExpression
  PROVE  StackInv'
<1>1. /\ UNCHANGED <<infix, frames, nodes>> /\ operand' = Operand(Len(infix))
      /\ pc = "unary_expression" /\ pc' = "match_infix"
  BY DEF UnaryExpression
<1>2. Placed' = Placed /\ Placed = Len(infix)
  BY <1>1 DEF Placed
<1>3. Bottom = Len(infix) /\ Len(infix) \in Nat
  BY <1>1 DEF StackInv, Tiled, TypeOK
<1>4. OperandTiled'
  BY <1>1, <1>2, <1>3, SameStack DEF OperandTiled, IsTree, Operand
<1>5. Tiled'
  BY <1>1, <1>2, <1>4, SameStack DEF StackInv, Tiled
<1>6. Ordered'
  BY <1>1, <1>2, SameStack DEF StackInv, Ordered, Operand
<1>. QED
  BY <1>1, <1>2, <1>5, <1>6, SameStack DEF StackInv

(***************************************************************************)
(* The loop of extend stops at a frame that binds weaker than the operator *)
(* it holds, and pushes the frame of that operator.                        *)
(***************************************************************************)
LEMMA ExtendPushStack ==
  ASSUME TypeOK, StackInv, ExtendPush
  PROVE  StackInv'
<1>. DEFINE m == Len(frames)
            n == Len(infix)
            new == [left |-> operand, op |-> n]
<1>1. /\ UNCHANGED <<infix, operand, nodes>> /\ frames' = Append(frames, new)
      /\ pc = "extend" /\ pc' = "unary_expression" /\ ~TopGroupsLeft
  BY DEF ExtendPush
<1>2. /\ m \in Nat /\ n \in Nat \ {0} /\ Placed = n - 1 /\ Placed' = n
      /\ DOMAIN frames = 1 .. m
  BY <1>1 DEF Placed, TypeOK, StackInv, Tiled
<1>3. /\ Len(frames') = m + 1 /\ DOMAIN frames' = 1 .. m + 1
      /\ \A i \in 1 .. m : frames'[i] = frames[i]
      /\ frames'[m + 1] = new
  BY <1>1, <1>2 DEF TypeOK
<1>4. \A k : Prec(k)' = Prec(k)
  BY <1>1 DEF Prec
<1>5. \A k \in 1 .. n : Prec(k) \in Nat
  BY PrecedenceAssumption DEF Prec, TypeOK
<1>6. \A e : IsTree(e)' = IsTree(e)
  BY <1>1 DEF IsTree
<1>7. /\ operand.lo = Bottom /\ operand.hi = n - 1 /\ operand.lo <= operand.hi
      /\ IsTree(operand) /\ operand.lo \in Nat
  BY <1>1, <1>2 DEF StackInv, Tiled, OperandTiled, TypeOK, Expr
<1>8. Bottom = IF m = 0 THEN 0 ELSE frames[m].op
  BY <1>2, EmptySeq DEF Bottom, Last, TypeOK
<1>9. \A i \in 1 .. m : /\ FrameTiled(i) /\ FrameOrdered(i)
                        /\ frames[i].op \in 1 .. n - 1
  BY <1>2 DEF StackInv, Tiled, Ordered, FrameTiled
\* The frames below bind weaker than the new one.
<1>10. \A i \in 1 .. m : Prec(frames[i].op) < Prec(n)
  <2>1. CASE m = 0
    BY <2>1
  <2>2. CASE m # 0
    <3>1. frames # <<>> /\ m \in 1 .. m /\ n \in 1 .. n
      BY <1>2, <2>2, EmptySeq DEF TypeOK
    <3>2. Prec(frames[m].op) < Prec(n)
      <4>1. ~(Prec(frames[m].op) >= Prec(n))
        BY <1>1, <3>1 DEF TopGroupsLeft, GroupsLeft, Last
      <4>2. frames[m].op \in 1 .. n
        BY <1>2, <1>9, <3>1
      <4>. QED
        BY <1>5, <3>1, <4>1, <4>2
    <3>3. \A i \in 1 .. m : i < m => Prec(frames[i].op) < Prec(frames[m].op)
      BY <1>2, <3>1 DEF StackInv, Ordered
    <3>4. \A i \in 1 .. m : Prec(frames[i].op) \in Nat
      BY <1>2, <1>5, <1>9
    <3>5. Prec(n) \in Nat
      BY <1>5, <3>1
    <3>6. ASSUME NEW i \in 1 .. m
          PROVE  Prec(frames[i].op) < Prec(n)
      <4>0. m \in Nat /\ i \in Nat /\ i <= m
        BY <1>2
      <4>1. i = m \/ i < m
        BY <4>0
      <4>2. CASE i = m
        BY <3>2, <4>2
      <4>3. CASE i < m
        <5>1. Prec(frames[i].op) < Prec(frames[m].op)
          BY <3>3, <4>3
        <5>. QED
          BY <3>1, <3>2, <3>4, <3>5, <5>1
      <4>. QED
        BY <4>1, <4>2, <4>3
    <3>. QED
      BY <3>6
  <2>. QED
    BY <2>1, <2>2
<1>11. Tiled'
  <2>1. ASSUME NEW i \in 1 .. m
        PROVE  FrameTiled(i)'
    <3>1. FrameTiled(i) /\ frames'[i] = frames[i]
      BY <1>3, <1>9
    <3>2. i # 1 => frames'[i - 1] = frames[i - 1]
      BY <1>2, <1>3
    <3>. QED
      BY <1>2, <1>6, <1>9, <3>1, <3>2 DEF FrameTiled
  <2>2. ASSUME NEW i, i = m + 1
        PROVE  FrameTiled(i)'
    <3>1. /\ i # 1 => frames'[i - 1] = frames[m]
          /\ frames'[i] = new
      BY <1>2, <1>3, <2>2
    <3>2. operand.lo = IF i = 1 THEN 0 ELSE frames'[i - 1].op
      BY <1>2, <1>7, <1>8, <2>2, <3>1
    <3>. QED
      BY <1>2, <1>6, <1>7, <3>1, <3>2 DEF FrameTiled
  <2>3. \A i, j \in DOMAIN frames' : i < j => frames'[i].op < frames'[j].op
    <3>1. \A i, j \in 1 .. m : i < j => frames[i].op < frames[j].op
      BY <1>2 DEF StackInv, Tiled
    <3>2. \A i \in 1 .. m : frames[i].op < n
      BY <1>2, <1>9
    <3>. QED
      BY <1>2, <1>3, <3>1, <3>2
  <2>4. frames' # <<>> /\ Bottom' = n
    <3>1. frames' # <<>>
      BY <1>2, <1>3, EmptySeq
    <3>. QED
      BY <1>2, <1>3, <3>1 DEF Bottom, Last
  <2>5. \A i \in DOMAIN frames' : FrameTiled(i)'
    <3>1. \A i \in DOMAIN frames' : i \in 1 .. m \/ i = m + 1
      BY <1>2, <1>3
    <3>. QED
      BY <2>1, <2>2, <3>1
  <2>. QED
    BY <1>1, <2>3, <2>4, <2>5 DEF Tiled
<1>12. Ordered'
  <2>1. ASSUME NEW i \in 1 .. m
        PROVE  FrameOrdered(i)'
    <3>1. FrameOrdered(i) /\ frames'[i] = frames[i] /\ Prec(frames[i].op) < Prec(n)
      BY <1>3, <1>9, <1>10
    <3>2. \A k \in frames[i].op + 1 .. n : k = n \/ k \in frames[i].op + 1 .. Placed
      BY <1>2, <1>9
    <3>. QED
      BY <1>2, <1>4, <3>1, <3>2 DEF FrameOrdered
  <2>2. ASSUME NEW i, i = m + 1
        PROVE  FrameOrdered(i)'
    <3>1. \A k \in operand.lo + 1 .. operand.hi : Prec(k) >= Prec(n)
      BY <1>1 DEF StackInv, Ordered
    <3>2. n + 1 .. n = {}
      BY <1>2
    <3>. QED
      BY <1>2, <1>3, <1>4, <2>2, <3>1, <3>2 DEF FrameOrdered
  <2>3. \A i, j \in DOMAIN frames' :
          i < j => Prec(frames'[i].op) < Prec(frames'[j].op)
    <3>1. \A i, j \in 1 .. m : i < j => Prec(frames[i].op) < Prec(frames[j].op)
      BY <1>2 DEF StackInv, Ordered
    <3>. QED
      BY <1>2, <1>3, <1>10, <3>1
  <2>4. \A i, j \in DOMAIN frames' :
          i < j => Prec(frames[i].op)' < Prec(frames[j].op)'
    BY <1>4, <2>3 DEF Prec
  <2>5. \A i \in DOMAIN frames' : FrameOrdered(i)'
    <3>1. \A i \in DOMAIN frames' : i \in 1 .. m \/ i = m + 1
      BY <1>2, <1>3
    <3>. QED
      BY <2>1, <2>2, <3>1
  <2>. QED
    BY <1>1, <2>4, <2>5 DEF Ordered
<1>13. Accounted'
  <2>1. ASSUME NEW k \in 1 .. n
        PROVE  \/ \E d \in nodes : d.op = k
               \/ \E i \in DOMAIN frames' : frames'[i].op = k
    <3>1. CASE k = n
      BY <1>2, <1>3, <3>1
    <3>2. CASE k # n
      <4>1. k \in 1 .. Placed
        BY <1>2, <3>2
      <4>2. \/ \E d \in nodes : d.op = k
            \/ \E i \in DOMAIN frames : frames[i].op = k
        BY <4>1 DEF StackInv, Accounted
      <4>. QED
        BY <1>3, <4>2
    <3>. QED
      BY <3>1, <3>2
  <2>2. ASSUME NEW d \in nodes
        PROVE  /\ d.op \in 1 .. n /\ d.right.hi <= n
               /\ \A i \in DOMAIN frames' : d.op # frames'[i].op
    <3>1. /\ d.op \in 1 .. n - 1 /\ d.right.hi <= n - 1 /\ d.right.hi \in Nat
          /\ \A i \in 1 .. m : d.op # frames[i].op
      BY <1>2 DEF StackInv, Accounted, TypeOK, Node, Expr
    <3>. QED
      BY <1>2, <1>3, <3>1
  <2>. QED
    BY <1>1, <1>2, <2>1, <2>2 DEF StackInv, Accounted
<1>14. Grouping'
  BY <1>1, <1>4 DEF StackInv, Grouping, Grouped
<1>15. InSourceOrder'
  BY <1>1, <1>6 DEF StackInv, InSourceOrder
<1>. QED
  BY <1>11, <1>12, <1>13, <1>14, <1>15 DEF StackInv

LEMMA NextStack == TypeOK /\ StackInv /\ [Next]_vars => StackInv'
<1>. SUFFICES ASSUME TypeOK, StackInv, [Next]_vars
              PROVE  StackInv'
  OBVIOUS
<1>1. CASE MatchInfix
  BY <1>1, MatchInfixStack
<1>2. CASE MatchNone \/ FinishReturn
  BY <1>2, OnlyPcStack
<1>3. CASE UnaryExpression
  BY <1>3, UnaryExpressionStack
<1>4. CASE ExtendFill
  BY <1>4, PopAndFillStack DEF ExtendFill, TopGroupsLeft
<1>5. CASE ExtendPush
  BY <1>5, ExtendPushStack
<1>6. CASE FinishFill
  BY <1>6, PopAndFillStack DEF FinishFill
<1>7. CASE UNCHANGED vars
  <2>1. UNCHANGED <<pc, infix, frames, operand, nodes>>
    BY <1>7 DEF vars
  <2>2. Placed' = Placed
    BY <2>1 DEF Placed
  <2>3. pc # "unary_expression" => OperandTiled'
    BY <2>1, <2>2 DEF StackInv, Tiled, OperandTiled, Bottom, IsTree
  <2>. QED
    BY <2>1, <2>2, <2>3, SameStack DEF StackInv, Tiled, Ordered, Prec
<1>. QED
  BY <1>1, <1>2, <1>3, <1>4, <1>5, <1>6, <1>7 DEF Next

\* The inductive invariant of extend and finish: the frames waiting tile the source, bind
\* tighter towards the top, and account for every operator.
THEOREM StackCorrect == Spec => [](TypeOK /\ StackInv)
BY InitType, InitStack, NextType, NextStack, PTL DEF Spec

(***************************************************************************)
(* Whatever the precedence table and the order of the operators, every     *)
(* Binop and Logop node built by extend and finish groups its operators as *)
(* the table demands.                                                      *)
(***************************************************************************)
THEOREM GroupingCorrect == Spec => []Grouping
BY StackCorrect, PTL DEF StackInv

(***************************************************************************)
(* The nodes keep the operands in source order.                            *)
(***************************************************************************)
THEOREM InSourceOrderCorrect == Spec => []InSourceOrder
BY StackCorrect, PTL DEF StackInv

(***************************************************************************)
(* The expression that finish returns is the whole source: all operands,   *)
(* each operator once.                                                     *)
(***************************************************************************)
THEOREM ResultIsWholeCorrect == Spec => []ResultIsWhole
<1>1. TypeOK /\ StackInv => ResultIsWhole
  <2>. SUFFICES ASSUME TypeOK, StackInv, pc = "done"
                PROVE  /\ operand.lo = 0 /\ operand.hi = Len(infix)
                       /\ IsTree(operand)
                       /\ \A k \in 1 .. Len(infix) : \E n \in nodes : n.op = k
                       /\ \A k, n \in nodes : k.op = n.op => k = n
    BY DEF ResultIsWhole
  <2>1. frames = <<>> /\ DOMAIN frames = {} /\ Placed = Len(infix)
    BY EmptySeq, LenProperties DEF StackInv, Tiled, Placed, TypeOK
  <2>2. OperandTiled /\ Bottom = 0
    BY <2>1 DEF StackInv, Tiled, Bottom
  <2>3. \A k \in 1 .. Len(infix) : \E n \in nodes : n.op = k
    BY <2>1 DEF StackInv, Accounted
  <2>. QED
    BY <2>1, <2>2, <2>3 DEF OperandTiled, StackInv, Accounted
<1>. QED
  BY <1>1, StackCorrect, PTL
=============================================================================
