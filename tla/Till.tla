-------------------------------- MODULE Till --------------------------------
(***************************************************************************)
(* The screens on which a cashier records something: the cart and checkout *)
(* of the POS (features/pos), the expense form and the stock adjustment    *)
(* (features/stock).  Each hands an intent to enqueue() and waits for it;  *)
(* meanwhile the cashier goes on tapping, and enqueue() comes back with    *)
(* the entry, with a full disk or with another failure.                    *)
(*                                                                         *)
(* A screen's state lives as long as the screen is mounted; a submission   *)
(* outlives it but then touches no screen, and is forgotten here.  What    *)
(* the fields of a form hold is chosen when the form is sent: every valid  *)
(* choice can be typed.  An open dialog covers the rest of the screen, but *)
(* not the browser's back button.                                          *)
(***************************************************************************)
EXTENDS Pricing, FiniteSets, Functions

CONSTANTS
    Products, NoProduct,
    Price,       \* Price[p]: unit_price in cents; a mounted screen keeps its list
    Views,       \* answers of GET /stock/levels: quantities of some products
    Entered,     \* what the checkout form may hold when it is confirmed
    MaxQty, MaxTaps   \* bounds: pieces in a line, submissions of a behaviour

ASSUME ProductsAssumption ==
    IsFiniteSet(Products) /\ NoProduct \notin Products /\ Price \in [Products -> Nat]
ASSUME TillBoundsAssumption == MaxQty \in Nat /\ MaxTaps \in Nat
ASSUME EnteredAssumption == Entered \subseteq CheckoutForms

VARIABLES
    screen,     \* the route: the fourth, of the failed entries, is Resolution's
    cart,       \* cart[p]: quantity of the line of p, 0 without a line
    ringer,     \* who rang up the cart
    pending,    \* the product the stock warning asks about
    levels,     \* the stock levels of the screen, empty when not known
    fetching,   \* GET /stock/levels is out
    checkout,   \* the checkout dialog is open
    adjusting,  \* the product whose adjustment dialog is open
    form,       \* form[k]: the status of each submit hook
    taps,       \* submissions of this screen whose enqueue() has not come back
    reopened    \* checkout was opened while this cart was being recorded

tillVars == <<screen, cart, ringer, pending, levels, fetching, checkout,
              adjusting, form, taps, reopened>>

Empty == [p \in Products |-> 0]
Unknown == [p \in {} |-> 0]
Idle == [k \in {"sale", "expense", "adjustment"} |-> "idle"]
Screens == {"pos", "stock", "expenses"}
Statuses == {"idle", "submitting", "queued", "failed", "storage_full"}

\* The running total of the cart, before discount and tax.
Subtotal(lines) == SumFunction([p \in Products |-> Price[p] * lines[p]])

TillTypeOK ==
    /\ screen \in Screens
    /\ cart \in [Products -> 0..MaxQty]
    /\ pending \in Products \cup {NoProduct} /\ adjusting \in Products \cup {NoProduct}
    /\ form["sale"] \in Statuses
    /\ form["expense"] \in Statuses \ {"submitting"}
    /\ form["adjustment"] \in Statuses \ {"submitting", "storage_full"}
    /\ checkout => screen = "pos"
    /\ Cardinality(taps) <= MaxTaps

----------------------------------------------------------------------------
(* Screens come and go: a route change, the auth gate. *)

TillInit ==
    /\ screen = "pos" /\ levels = Unknown /\ fetching = TRUE
    /\ cart = Empty /\ ringer = {} /\ pending = NoProduct /\ checkout = FALSE
    /\ adjusting = NoProduct /\ form = Idle
    /\ taps = {} /\ reopened = FALSE

\* A bug: the cart is kept above the screens.
RemountKeepsCart(to) ==
    /\ screen' = to
    /\ levels' = Unknown /\ fetching' = (to \in {"pos", "stock"})
    /\ pending' = NoProduct /\ checkout' = FALSE /\ adjusting' = NoProduct
    /\ form' = Idle
    /\ taps' = {} /\ reopened' = FALSE
    /\ UNCHANGED <<cart, ringer>>

\* The screen goes, another comes; hooks start afresh.
Remount(to) ==
    /\ screen' = to
    /\ levels' = Unknown /\ fetching' = (to \in {"pos", "stock"})
    /\ cart' = Empty /\ ringer' = {} /\ pending' = NoProduct /\ checkout' = FALSE
    /\ adjusting' = NoProduct /\ form' = Idle
    /\ taps' = {} /\ reopened' = FALSE

\* useStockLevels: an error leaves the levels there are.
LevelsArrive ==
    /\ fetching
    /\ fetching' = FALSE
    /\ levels' \in Views \cup {levels}
    /\ UNCHANGED <<screen, cart, ringer, pending, checkout, adjusting, form, taps, reopened>>

----------------------------------------------------------------------------
(* The cart. *)

\* describeStock and shouldWarnBeforeSelling: without levels nothing is known
\* and nothing is warned of.
Warns(p) == levels # Unknown /\ (p \in DOMAIN levels => levels[p] <= 0)

\* Every change of a line: a tile, a stepper, a removal, "Sell anyway".
SetLine(who, p, quantity) ==
    /\ quantity \in 0..MaxQty
    /\ cart' = [cart EXCEPT ![p] = quantity]
    /\ ringer' = IF cart = Empty THEN {who} ELSE ringer \cup {who}
    /\ UNCHANGED <<screen, levels, fetching, checkout, adjusting, form, taps, reopened>>

OnPos == screen = "pos" /\ ~checkout

TapTile(who, p) ==
    /\ OnPos
    /\ IF Warns(p)
       THEN /\ pending' = p
            /\ UNCHANGED <<screen, cart, ringer, levels, fetching, checkout, adjusting,
                           form, taps, reopened>>
       ELSE SetLine(who, p, cart[p] + 1) /\ UNCHANGED pending

AnswerWarning(who) ==
    /\ OnPos /\ pending # NoProduct
    /\ pending' = NoProduct
    /\ SetLine(who, pending, cart[pending]) \/ SetLine(who, pending, cart[pending] + 1)

StepLine(who, p) ==
    /\ OnPos /\ cart[p] > 0
    /\ \E quantity \in {0, cart[p] - 1, cart[p] + 1} : SetLine(who, p, quantity)
    /\ UNCHANGED pending

----------------------------------------------------------------------------
(* Checkout. *)

InFlight(k) == \E t \in taps : t.kind = k

\* A bug: the button is enabled without a line.
CanCheckoutEmpty == OnPos

CanCheckout == OnPos /\ cart # Empty

\* The button clears the status of the sale before.
OpenCheckout ==
    /\ CanCheckout
    /\ checkout' = TRUE
    /\ form' = [form EXCEPT !["sale"] = "idle"]
    /\ reopened' = (reopened \/ InFlight("sale"))
    /\ UNCHANGED <<screen, cart, ringer, pending, levels, fetching, adjusting, taps>>

\* What is in flight when the dialog closes.
Leave(sent) == {[t EXCEPT !.left = TRUE] : t \in sent}

\* The backdrop and the cross close the dialog at any time.
CloseCheckout ==
    /\ checkout
    /\ checkout' = FALSE
    /\ taps' = Leave(taps)
    /\ UNCHANGED <<screen, cart, ringer, pending, levels, fetching, adjusting, form, reopened>>

Room == Cardinality(taps) < MaxTaps

\* generateClientId(): not one of those in flight.
NewClientId == CHOOSE n \in 1..MaxTaps : \A t \in taps : t.clientId # n

\* What a submission takes along: the intent is built from the props of the
\* moment, the author from the profile.
Tap(k, who, f) ==
    [kind |-> k, by |-> who, lines |-> cart, entered |-> f,
     shown |-> PreviewTotal(Subtotal(cart), f), again |-> reopened,
     left |-> FALSE, clientId |-> NewClientId]

\* A bug: the button stays enabled while the sale is being recorded.
CanConfirmAlways == checkout

CanConfirm == checkout /\ form["sale"] # "submitting"

Confirm(who, f) ==
    /\ CanConfirm /\ Room
    /\ form' = [form EXCEPT !["sale"] = "submitting"]
    /\ taps' = taps \cup {Tap("sale", who, f)}
    /\ UNCHANGED <<screen, cart, ringer, pending, levels, fetching, checkout, adjusting, reopened>>

----------------------------------------------------------------------------
(* The expense form and the adjustment dialog: their hooks say "queued"    *)
(* from the start, and their buttons wait for it to pass.                  *)

NoForm == [kind |-> "fixed", value |-> 0, tax |-> 0]

SubmitExpense(who) ==
    /\ screen = "expenses" /\ form["expense"] # "queued" /\ Room
    /\ form' = [form EXCEPT !["expense"] = "queued"]
    /\ taps' = taps \cup {Tap("expense", who, NoForm)}
    /\ UNCHANGED <<screen, cart, ringer, pending, levels, fetching, checkout, adjusting, reopened>>

OpenAdjustment(p) ==
    /\ screen = "stock" /\ adjusting = NoProduct /\ p \in DOMAIN levels
    /\ adjusting' = p
    /\ UNCHANGED <<screen, cart, ringer, pending, levels, fetching, checkout, form, taps, reopened>>

CloseAdjustment ==
    /\ adjusting # NoProduct
    /\ adjusting' = NoProduct
    /\ UNCHANGED <<screen, cart, ringer, pending, levels, fetching, checkout, form, taps, reopened>>

ConfirmAdjustment(who) ==
    /\ adjusting # NoProduct /\ form["adjustment"] # "queued" /\ Room
    /\ form' = [form EXCEPT !["adjustment"] = "queued"]
    /\ taps' = taps \cup {Tap("adjustment", who, NoForm)}
    /\ UNCHANGED <<screen, cart, ringer, pending, levels, fetching, checkout, adjusting, reopened>>

----------------------------------------------------------------------------
(* enqueue() comes back. *)

Outcomes(k) == {"queued", "failed"} \cup (IF k = "adjustment" THEN {} ELSE {"storage_full"})

\* A bug: a failure does not set the status.
StatusAfterMissing(outcome) == IF outcome = "queued" THEN "queued" ELSE "submitting"

StatusAfter(outcome) == outcome

\* A bug: the cart is cleared whatever became of the sale.
SaleEndsAlways(t, outcome) == t.kind = "sale"

\* cart.clear() and the closing of the dialog follow a recorded sale only.
SaleEnds(t, outcome) == t.kind = "sale" /\ outcome = "queued"

Finish(t, outcome) ==
    /\ t \in taps /\ outcome \in Outcomes(t.kind)
    /\ form' = [form EXCEPT ![t.kind] = StatusAfter(outcome)]
    /\ IF SaleEnds(t, outcome)
       THEN /\ cart' = Empty /\ ringer' = {} /\ checkout' = FALSE
            /\ reopened' = FALSE /\ taps' = Leave(taps \ {t})
       ELSE taps' = taps \ {t} /\ UNCHANGED <<cart, ringer, checkout, reopened>>
    /\ IF t.kind = "adjustment" /\ outcome = "queued"
       THEN adjusting' = NoProduct /\ fetching' = TRUE
       ELSE UNCHANGED <<adjusting, fetching>>
    /\ UNCHANGED <<screen, pending, levels>>

TillNext(who) ==
    \/ \E to \in Screens \ {screen} : Remount(to)
    \/ LevelsArrive
    \/ \E p \in Products : TapTile(who, p) \/ StepLine(who, p) \/ OpenAdjustment(p)
    \/ AnswerWarning(who)
    \/ OpenCheckout \/ CloseCheckout
    \/ \E f \in Entered : Confirm(who, f)
    \/ SubmitExpense(who)
    \/ CloseAdjustment \/ ConfirmAdjustment(who)

\* enqueue() does not wait for a screen.
Returns == \E t \in taps : \E outcome \in Outcomes(t.kind) : Finish(t, outcome)

----------------------------------------------------------------------------
(* Properties. *)

\* The estimate the cashier saw when a sale was confirmed is the total that the
\* API computes for the intent that was recorded: whatever the discount, "this
\* preview can't disagree with the eventual receipt by a pesewa"
\* (CheckoutModal.jsx).
PreviewIsReceipt ==
    \A t \in taps :
        t.kind = "sale" => t.shown = ReceiptTotal(Subtotal(t.lines), t.entered)

\* No cart becomes two sales, however fast the cashier taps (useSubmitSale.js's
\* double-tap guard): a second submission is sent before the first has come back
\* only if checkout was closed and opened again meanwhile.
OneSaleAtATime ==
    \A s, t \in {x \in taps : x.kind = "sale"} : s # t => s.again \/ t.again

\* Every sale has a line, so that the API can accept it: no way of closing,
\* reopening and emptying leads to a confirm button over an empty cart.
NoEmptySale == \A t \in taps : t.kind = "sale" => t.lines # Empty

\* enqueue()'s return empties the cart only of what it recorded: a full disk
\* keeps the cart for another try, and lines rung up since are lost only to a
\* cashier who closed the dialog over a sale still being recorded.
FinishTakesOnlyItsOwn ==
    [][\A t \in taps :
         (/\ t.kind = "sale" /\ \A x \in taps' : x.clientId # t.clientId
          /\ cart # Empty /\ cart' = Empty /\ form' # Idle)
         => t.left \/ (cart = t.lines /\ form'["sale"] = "queued")]_tillVars

\* The confirm button says "submitting" only over a sale that is still being
\* recorded: it comes back after each one, whatever became of it.
ConfirmNotStuck == form["sale"] = "submitting" => InFlight("sale")
=============================================================================
