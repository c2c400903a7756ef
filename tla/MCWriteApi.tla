----------------------------- MODULE MCWriteApi -----------------------------
(* Small instances of WriteApi for TLC: two products of the outlet and one *)
(* of another tenant, and intents that compete for them.                   *)
EXTENDS WriteApi, TLC

CONSTANTS r1, r2, r3,
          basket, bottle, twoLines, stray, restock, delivery, correction, expense

ThreeRequests == {r1, r2, r3}

Moves(n1, n2) == 1 :> n1 @@ 2 :> n2 @@ 3 :> 0

\* A sale of two products, a sale of one of them, one with two lines of the
\* same product and one of a product of another tenant; three adjustments;
\* an expense.
AllEffects ==
    basket :> Moves(-1, -2) @@ bottle :> Moves(0, -1)
      @@ twoLines :> Moves(-2, 0) @@ stray :> [Moves(0, 0) EXCEPT ![3] = -1]
      @@ restock :> Moves(0, 2) @@ delivery :> Moves(0, 1)
      @@ correction :> Moves(-1, 0) @@ expense :> Moves(0, 0)

\* The check looks at the two lines of twoLines one by one.
EffectOf == [c \in Intents |-> AllEffects[c]]
NeedOf ==
    [c \in Intents |->
        IF c = twoLines THEN Moves(1, 0) ELSE [p \in Products |-> -AllEffects[c][p]]]

ThreeProducts == {1, 2, 3}
TwoProducts == {1, 2}
OneProduct == {1}
SomeStock == Moves(1, 2)
HalfStock == Moves(1, 0)

Symmetry == Permutations(Requests)
=============================================================================
