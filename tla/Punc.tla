-------------------------------- MODULE Punc --------------------------------
(***************************************************************************)
(* The punctuation tables of src/crates/easter/src/punc.rs that the parser *)
(* relies on: the binding power of every infix operator.                   *)
(***************************************************************************)
EXTENDS Naturals, SequencesExt

\* BinopTag::precedence and LogopTag::precedence, by level: Level[p] are the
\* operators whose precedence is p.
Level ==
  << {},
     {"||"},
     {"&&"},
     {"|"},
     {"^"},
     {"&"},
     {"==", "!=", "===", "!=="},
     {"<", "<=", ">", ">=", "in", "instanceof"},
     {"<<", ">>", ">>>"},
     {"+", "-"},
     {"*", "/", "%"} >>

InfixOp == UNION {Level[p] : p \in DOMAIN Level}

PrecedenceOf ==
  [op \in InfixOp |-> CHOOSE p \in DOMAIN Level : op \in Level[p]]
=============================================================================
