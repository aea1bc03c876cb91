--------------------------- MODULE MCOperatorStack ---------------------------
(***************************************************************************)
(* OperatorStack on the precedence table of punc.rs and a few operators of *)
(* neighbouring levels, and the reference grouping that its result is      *)
(* compared with.                                                          *)
(***************************************************************************)
EXTENDS OperatorStack, Punc

\* Two operators of one level, and one of each side of it, and the two
\* logical operators, which are the weakest.
MCInfix == {"||", "&&", "==", "+", "-", "*"}

MCPrecedence == [op \in MCInfix |-> PrecedenceOf[op]]

(***************************************************************************)
(* The grouping by its textbook definition: the root of an expression is   *)
(* its last operator among those that bind weakest.                        *)
(***************************************************************************)
RootOf(lo, hi) ==
  CHOOSE k \in lo + 1 .. hi :
    /\ \A j \in lo + 1 .. k : Prec(j) >= Prec(k)
    /\ \A j \in k + 1 .. hi : Prec(j) > Prec(k)

Tree(lo, hi) ==
  [lo |-> lo, hi |-> hi, root |-> IF lo = hi THEN 0 ELSE RootOf(lo, hi)]

RECURSIVE ReferenceNodes(_, _)
ReferenceNodes(lo, hi) ==
  IF lo = hi THEN {}
  ELSE LET k == RootOf(lo, hi)
       IN {[op |-> k, left |-> Tree(lo, k - 1), right |-> Tree(k, hi)]}
            \cup ReferenceNodes(lo, k - 1) \cup ReferenceNodes(k, hi)

(***************************************************************************)
(* Stack::finish returns the tree of the textbook definition: the same     *)
(* nodes, the same root.  This compares the incremental algorithm, which   *)
(* decides each node on the operators seen so far, with a definition that  *)
(* looks at the whole expression.                                          *)
(***************************************************************************)
MatchesReference ==
  pc = "done" =>
    /\ operand = Tree(0, Len(infix))
    /\ nodes = ReferenceNodes(0, Len(infix))
=============================================================================
