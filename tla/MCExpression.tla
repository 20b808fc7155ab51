---------------------------- MODULE MCExpression ----------------------------
(***************************************************************************)
(* TokenLists for TLC, and the postfix form of an infix text stated by     *)
(* recursion over the text: the operator of the whole is the last one of   *)
(* lowest precedence that no parenthesis encloses.                         *)
(***************************************************************************)
EXTENDS TokenLists, SequencesExt, FiniteSetsExt, TLC

MCKind == [w \in Words |-> IF w = "1x" THEN "none" ELSE "SYMBOL"]

\* Bounds: at most one blank, local name or word that is none in a text, and
\* in the longest texts each operator has a left operand.
Rare == {n \in DOMAIN text : text[n] \in {"blank", ".x", "1x"}}
Bounded ==
    /\ Cardinality(Rare) <= 1
    /\ Len(text) = LONGEST =>
          Rare = {} /\ \A n \in DOMAIN text :
              text[n] \in Operators \ {"(", ")"} => n > 1 /\ text[n - 1] \in {"a", ")"}

Written == SelectSeq(text, LAMBDA ch : ch # "blank")

OutermostOps(t) == {n \in DOMAIN t : t[n] \in Operators \ {"(", ")"} /\ Depth(t, n) = 0}

\* The postfix form of t, as the set of none or one: rank[o] is higher for an
\* operator that binds more tightly.
RECURSIVE Postfix(_, _)
Postfix(rank, t) ==
    LET split  == OutermostOps(t)
        lowest == {n \in split : \A m \in split : rank[t[n]] <= rank[t[m]]}
        n      == Max(lowest)
    IN  IF split # {}
        THEN {l \o r \o <<Operator(t[n])>> : l \in Postfix(rank, SubSeq(t, 1, n - 1)),
                                             r \in Postfix(rank, SubSeq(t, n + 1, Len(t)))}
        ELSE IF Len(t) = 1 /\ t[1] \in Words THEN {<<Operand(t[1])>>}
        ELSE IF Len(t) > 2 /\ t[1] = "(" /\ t[Len(t)] = ")"
        THEN Postfix(rank, SubSeq(t, 2, Len(t) - 1))
        ELSE {}

\* What parse_expression returns for an infix text is its postfix form by the
\* precedences of the table operators[], with operators of one precedence
\* grouped from the left.
ReturnsPostfix ==
    status = "success" => \A p \in Postfix(Precedence, Written) : out = p

-----------------------------------------------------------------------------
(* "Evaluation follows the order of precedence as given in the following   *)
(* table. (higher in table means higher precedence)"                       *)
ManualRank ==
    ("*" :> 7) @@ ("/" :> 6) @@ ("+" :> 5) @@ ("-" :> 4) @@ ("^" :> 3) @@ ("&" :> 2) @@ ("|" :> 1)

\* The manual's table gives the order of evaluation.
FollowsTheManual ==
    status = "success" => \A p \in Postfix(ManualRank, Written) : out = p
=============================================================================
