------------------------------ MODULE Pricing ------------------------------
(***************************************************************************)
(* What a sale costs, computed twice: by the till, which shows the cashier *)
(* an estimate (CheckoutModal.jsx), and by the API, which prints the       *)
(* receipt (pricing.py).  Money is a number of cents on both sides: the    *)
(* wire format has two decimals and neither side ever holds a float.  A    *)
(* percentage is a number of hundredths of a percent, 0 to 10000.          *)
(***************************************************************************)
EXTENDS Integers

\* What the checkout form lets through: a percentage of at most 100 with two
\* decimals, or an amount; and a tax amount.
CheckoutForms ==
    {f \in [kind : {"percentage", "fixed"}, value : Nat, tax : Nat] :
        f.kind = "percentage" => f.value <= 10000}

Lesser(a, b) == IF a <= b THEN a ELSE b
Larger(a, b) == IF a >= b THEN a ELSE b

----------------------------------------------------------------------------
(* The till: divide once, look at the remainder. *)

\* A bug: exactly half a cent is dropped.
RoundsUpAboveHalf(remainder) == 2 * remainder > 10000

RoundsUp(remainder) == 2 * remainder >= 10000

PreviewDiscount(subtotal, f) ==
    LET numerator == subtotal * f.value
        quotient == numerator \div 10000
    IN  IF f.kind = "fixed" THEN f.value
        ELSE IF RoundsUp(numerator - quotient * 10000) THEN quotient + 1 ELSE quotient

PreviewTotal(subtotal, f) ==
    Larger(subtotal - Lesser(PreviewDiscount(subtotal, f), subtotal) + f.tax, 0)

----------------------------------------------------------------------------
(* The API: Decimal.quantize(0.01, ROUND_HALF_UP), the floor of the value  *)
(* plus one half.                                                          *)

ReceiptDiscount(subtotal, f) ==
    IF f.kind = "fixed"
    THEN Lesser(f.value, subtotal)
    ELSE (2 * subtotal * f.value + 10000) \div 20000

ReceiptTotal(subtotal, f) ==
    Larger(subtotal - ReceiptDiscount(subtotal, f) + f.tax, 0)
============================================================================
