---------------------------- MODULE MCResolution ----------------------------
(* Small instances of Resolution for TLC: a sale of two products, one of    *)
(* them on two lines; and a sale with two lines of the only product, next   *)
(* to one that was refused for another reason.                              *)
EXTENDS Resolution, TLC

Line(n, p, q) == [line |-> n, product |-> p, quantity |-> q]
OneSale == {1}
TwoProducts == {1, 2}
MixedLines == <<{Line(1, 1, 2), Line(2, 1, 1), Line(3, 2, 1)}>>
MixedShelf == <<1, 0>>
NoSale == {}

TwoSales == {1, 2}
OneProduct == {1}
OrderLines == <<{Line(1, 1, 2), Line(2, 1, 1)}, {Line(1, 1, 1)}>>
Shelf == <<1>>
RefusedSales == {2}
=============================================================================
