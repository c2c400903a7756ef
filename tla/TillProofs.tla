----------------------------- MODULE TillProofs -----------------------------
(***************************************************************************)
(* What a cart costs, and the invariants of the till's screens, for any    *)
(* products, prices, stock levels, checkout forms and number of            *)
(* submissions.                                                            *)
(***************************************************************************)
EXTENDS Till, SumTheorems

Kinds == {"sale", "expense", "adjustment"}
Carts == [Products -> 0..MaxQty]
Sales == {t \in taps : t.kind = "sale"}

\* What a submission is; a sale carries its estimate.
Submission(t) ==
    /\ t \in [kind : Kinds, by : {t.by}, lines : Carts, entered : {t.entered},
              shown : {t.shown}, again : BOOLEAN, left : BOOLEAN, clientId : {t.clientId}]
    /\ t.kind = "sale" => /\ t.lines # Empty
                          /\ t.entered \in Entered
                          /\ t.shown = PreviewTotal(Subtotal(t.lines), t.entered)

\* checkout shows the cart that its sales were taken from.
SalesAreOfCart == \A t \in Sales : t.left \/ (checkout /\ t.lines = cart)

\* While checkout is open and was never reopened, it has one sale in flight at
\* most, and its button is then disabled.
OneIsOut ==
    (checkout /\ ~reopened /\ InFlight("sale")) =>
        /\ form["sale"] = "submitting"
        /\ \A s, t \in Sales : s = t

TillInv ==
    /\ TillTypeOK
    /\ checkout \in BOOLEAN /\ reopened \in BOOLEAN
    /\ form \in [Kinds -> Statuses]
    /\ IsFiniteSet(taps)
    /\ \A t \in taps : Submission(t)
    /\ checkout => cart # Empty
    /\ SalesAreOfCart
    /\ OneIsOut
    /\ OneSaleAtATime
    /\ ConfirmNotStuck

----------------------------------------------------------------------------
(* The till's estimate equals the receipt for every subtotal and form.     *)

\* Dividing once and looking at the remainder rounds half up.
LEMMA HalfUp ==
  ASSUME NEW n \in Nat
  PROVE  (2 * n + 10000) \div 20000 =
           IF RoundsUp(n - (n \div 10000) * 10000)
           THEN (n \div 10000) + 1 ELSE n \div 10000
  <1>. DEFINE q == n \div 10000
              r == n - q * 10000
  <1>1. q \in Nat /\ 0 <= r /\ r < 10000
    OBVIOUS
  <1>2. n = q * 10000 + r
    BY <1>1
  <1>. HIDE DEF q
  <1>3. CASE 2 * r >= 10000
    <2>1. (2 * n + 10000) \div 20000 = q + 1
      BY <1>1, <1>3 DEF r
    <2>. QED BY <2>1, <1>3 DEF RoundsUp, q, r
  <1>4. CASE ~ (2 * r >= 10000)
    <2>1. (2 * n + 10000) \div 20000 = q
      BY <1>1, <1>4 DEF r
    <2>. QED BY <2>1, <1>4 DEF RoundsUp, q, r
  <1>. QED BY <1>3, <1>4

\* A percentage of at most 100 never exceeds what it is taken from.
LEMMA AtMostAll ==
  ASSUME NEW s \in Nat, NEW v \in Nat, v <= 10000
  PROVE  /\ s * v \in Nat
         /\ (2 * (s * v) + 10000) \div 20000 \in Nat
         /\ (2 * (s * v) + 10000) \div 20000 <= s
  <1>. DEFINE n == s * v
  <1>1. n \in Nat
    OBVIOUS
  <1>2. n <= s * 10000
    OBVIOUS
  <1>. HIDE DEF n
  <1>3. (2 * n + 10000) \div 20000 \in Nat /\ (2 * n + 10000) \div 20000 <= s
    BY <1>1, <1>2
  <1>. QED BY <1>1, <1>3 DEF n

\* The estimate shown at checkout is the total of the receipt, to the cent.
THEOREM PreviewIsExact ==
  ASSUME NEW s \in Nat, NEW f \in CheckoutForms
  PROVE  PreviewTotal(s, f) = ReceiptTotal(s, f)
  <1>1. f.value \in Nat /\ f.tax \in Nat /\ f.kind \in {"percentage", "fixed"}
    BY DEF CheckoutForms
  <1>2. CASE f.kind = "fixed"
    BY <1>1, <1>2 DEF PreviewTotal, ReceiptTotal, PreviewDiscount, ReceiptDiscount, Lesser
  <1>3. CASE f.kind = "percentage"
    <2>1. f.value <= 10000
      BY <1>3 DEF CheckoutForms
    <2>. DEFINE n == s * f.value
    <2>2. n \in Nat /\ (2 * n + 10000) \div 20000 <= s /\ (2 * n + 10000) \div 20000 \in Nat
      BY <1>1, <2>1, AtMostAll
    <2>3. PreviewDiscount(s, f) = (2 * n + 10000) \div 20000
      BY <1>3, <2>2, HalfUp DEF PreviewDiscount
    <2>4. 2 * s * f.value = 2 * n
      BY <1>1
    <2>5. ReceiptDiscount(s, f) = (2 * n + 10000) \div 20000
      BY <1>3, <2>4 DEF ReceiptDiscount
    <2>. HIDE DEF n
    <2>6. Lesser(PreviewDiscount(s, f), s) = ReceiptDiscount(s, f)
      BY <2>2, <2>3, <2>5 DEF Lesser
    <2>. QED BY <2>6 DEF PreviewTotal, ReceiptTotal
  <1>. QED BY <1>1, <1>2, <1>3

\* What the lines of a cart cost together.
LEMMA SubtotalIsNat ==
  ASSUME NEW lines \in Carts
  PROVE  Subtotal(lines) \in Nat
  <1>. DEFINE w == [p \in Products |-> Price[p] * lines[p]]
  <1>1. IsFiniteSet(Products) /\ Price \in [Products -> Nat] /\ MaxQty \in Nat
    BY ProductsAssumption, TillBoundsAssumption
  <1>2. ASSUME NEW p \in Products
        PROVE  w[p] \in Nat
    <2>1. Price[p] \in Nat /\ lines[p] \in Nat
      BY <1>1 DEF Carts
    <2>. QED BY <2>1
  <1>3. Subtotal(lines) = SumFunctionOnSet(w, Products)
    BY DEF Subtotal, SumFunction
  <1>. HIDE DEF w
  <1>. QED BY <1>1, <1>2, <1>3, SumNat

----------------------------------------------------------------------------
(* Lemmas about the submissions in flight. *)

\* Closing the dialog changes of a submission only that it was left.
LEMMA LeaveOne ==
  ASSUME NEW t, Submission(t)
  PROVE  LET u == [t EXCEPT !.left = TRUE]
         IN  /\ Submission(u) /\ u.left
             /\ u.kind = t.kind /\ u.again = t.again /\ u.clientId = t.clientId
             /\ u.by = t.by /\ u.lines = t.lines
  <1>. DEFINE u == [t EXCEPT !.left = TRUE]
  <1>1. u \in [kind : Kinds, by : {t.by}, lines : Carts, entered : {t.entered},
               shown : {t.shown}, again : BOOLEAN, left : BOOLEAN, clientId : {t.clientId}]
    BY DEF Submission
  <1>2. /\ u.kind = t.kind /\ u.by = t.by /\ u.lines = t.lines /\ u.entered = t.entered
        /\ u.shown = t.shown /\ u.again = t.again /\ u.left = TRUE
        /\ u.clientId = t.clientId
    BY DEF Submission
  <1>. HIDE DEF u
  <1>3. Submission(u)
    BY <1>1, <1>2 DEF Submission
  <1>. QED BY <1>2, <1>3 DEF u

\* So the set of those in flight grows neither in size nor in kind.
LEMMA LeaveAll ==
  ASSUME NEW sent, IsFiniteSet(sent), \A t \in sent : Submission(t)
  PROVE  /\ IsFiniteSet(Leave(sent)) /\ Cardinality(Leave(sent)) <= Cardinality(sent)
         /\ \A u \in Leave(sent) : Submission(u) /\ u.left
         /\ \A u \in Leave(sent) : \E t \in sent :
              u.kind = t.kind /\ u.again = t.again /\ u.by = t.by /\ u = [t EXCEPT !.left = TRUE]
         /\ \A t \in sent : \E u \in Leave(sent) :
              u.kind = t.kind /\ u.clientId = t.clientId
  <1>. DEFINE f == [t \in sent |-> [t EXCEPT !.left = TRUE]]
  <1>1. f \in Surjection(sent, Leave(sent))
    BY DEF Surjection, Leave
  <1>2. IsFiniteSet(Leave(sent)) /\ Cardinality(Leave(sent)) <= Cardinality(sent)
    BY <1>1, FS_Surjection
  <1>3. \A u \in Leave(sent) : \E t \in sent : u = [t EXCEPT !.left = TRUE]
    BY DEF Leave
  <1>4. \A t \in sent : [t EXCEPT !.left = TRUE] \in Leave(sent)
    BY DEF Leave
  <1>5. \A u \in Leave(sent) : Submission(u) /\ u.left
    BY <1>3, LeaveOne
  <1>6. \A u \in Leave(sent) : \E t \in sent :
          u.kind = t.kind /\ u.again = t.again /\ u.by = t.by /\ u = [t EXCEPT !.left = TRUE]
    <2>. SUFFICES ASSUME NEW u \in Leave(sent)
                  PROVE  \E t \in sent : /\ u.kind = t.kind /\ u.again = t.again
                                         /\ u.by = t.by /\ u = [t EXCEPT !.left = TRUE]
      OBVIOUS
    <2>1. PICK t \in sent : u = [t EXCEPT !.left = TRUE]
      BY <1>3
    <2>2. u.kind = t.kind /\ u.again = t.again /\ u.by = t.by
      BY <2>1, LeaveOne
    <2>. QED BY <2>1, <2>2, Zenon
  <1>7. \A t \in sent : \E u \in Leave(sent) : u.kind = t.kind /\ u.clientId = t.clientId
    BY <1>4, LeaveOne
  <1>. QED BY <1>2, <1>5, <1>6, <1>7

\* A new submission is well formed and takes the room there was.
LEMMA TapOne ==
  ASSUME TillInv, Room, NEW k \in Kinds, NEW who, NEW f,
         k = "sale" => checkout /\ f \in Entered
  PROVE  /\ Submission(Tap(k, who, f))
         /\ Tap(k, who, f).kind = k /\ Tap(k, who, f).by = who
         /\ Tap(k, who, f).lines = cart /\ Tap(k, who, f).again = reopened
         /\ IsFiniteSet(taps \cup {Tap(k, who, f)})
         /\ Cardinality(taps \cup {Tap(k, who, f)}) <= MaxTaps
  <1>. DEFINE n == NewClientId
              p == PreviewTotal(Subtotal(cart), f)
              t == [kind |-> k, by |-> who, lines |-> cart, entered |-> f, shown |-> p,
                    again |-> reopened, left |-> FALSE, clientId |-> n]
  <1>1. Tap(k, who, f) = t
    BY DEF Tap
  <1>2. cart \in Carts /\ (k = "sale" => cart # Empty)
    BY DEF TillInv, TillTypeOK, Carts
  <1>. HIDE DEF n
  <1>3. Submission(t)
    <2>. HIDE DEF p
    <2>1. t \in [kind : Kinds, by : {t.by}, lines : Carts, entered : {t.entered},
                 shown : {t.shown}, again : BOOLEAN, left : BOOLEAN, clientId : {t.clientId}]
      BY <1>2 DEF TillInv
    <2>2. t.shown = PreviewTotal(Subtotal(t.lines), t.entered)
      BY DEF p
    <2>. QED BY <1>2, <2>1, <2>2 DEF Submission
  <1>4. IsFiniteSet(taps) /\ Cardinality(taps) < MaxTaps /\ Cardinality(taps) \in Nat
    BY FS_CardinalityType DEF TillInv, Room
  <1>5. /\ IsFiniteSet(taps \cup {t})
        /\ Cardinality(taps \cup {t}) \in {Cardinality(taps), Cardinality(taps) + 1}
    BY <1>4, FS_AddElement
  <1>6. Cardinality(taps \cup {t}) <= MaxTaps
    BY <1>4, <1>5, TillBoundsAssumption
  <1>. QED BY <1>1, <1>3, <1>5, <1>6

----------------------------------------------------------------------------
(* The steps of the screens. *)

LEMMA TillInitInv == TillInit => TillInv
  <1>. SUFFICES ASSUME TillInit PROVE TillInv
    OBVIOUS
  <1>. USE TillBoundsAssumption DEF TillInit
  <1>1. IsFiniteSet(taps) /\ Cardinality(taps) <= MaxTaps
    BY FS_EmptySet
  <1>2. form \in [Kinds -> Statuses] /\ \A k \in Kinds : form[k] = "idle"
    BY DEF Idle, Kinds, Statuses
  <1>3. TillTypeOK
    BY <1>1, <1>2 DEF TillTypeOK, Screens, Statuses, Empty, Kinds
  <1>. QED BY <1>1, <1>2, <1>3
       DEF TillInv, SalesAreOfCart, OneIsOut, OneSaleAtATime, ConfirmNotStuck,
           Sales, InFlight, Kinds

\* Whatever was there, the next screen starts afresh.
LEMMA RemountInv == ASSUME NEW to \in Screens, Remount(to) PROVE TillInv'
  <1>. USE TillBoundsAssumption DEF Remount
  <1>1. IsFiniteSet(taps') /\ Cardinality(taps') <= MaxTaps
    BY FS_EmptySet
  <1>2. form' \in [Kinds -> Statuses] /\ \A k \in Kinds : form'[k] = "idle"
    BY DEF Idle, Kinds, Statuses
  <1>3. TillTypeOK'
    BY <1>1, <1>2 DEF TillTypeOK, Screens, Statuses, Empty, Kinds
  <1>. QED BY <1>1, <1>2, <1>3
       DEF TillInv, SalesAreOfCart, OneIsOut, OneSaleAtATime, ConfirmNotStuck,
           Sales, InFlight, Kinds

\* A step that touches neither checkout nor what was submitted.
LEMMA QuietInv ==
  ASSUME TillInv, TillTypeOK', UNCHANGED <<checkout, reopened, form, taps>>,
         checkout => cart' = cart
  PROVE  TillInv'
  BY DEF TillInv, Submission, SalesAreOfCart, OneIsOut, OneSaleAtATime,
         ConfirmNotStuck, Sales, InFlight

\* The expense and adjustment submissions leave the sales as they are.
LEMMA OtherTapInv ==
  ASSUME TillInv, Room, NEW k \in {"expense", "adjustment"}, NEW who,
         form' = [form EXCEPT ![k] = "queued"],
         taps' = taps \cup {Tap(k, who, NoForm)},
         UNCHANGED <<screen, cart, pending, checkout, adjusting, reopened>>
  PROVE  TillInv'
  <1>. DEFINE t == Tap(k, who, NoForm)
  <1>1. /\ Submission(t) /\ t.kind = k
        /\ IsFiniteSet(taps \cup {t}) /\ Cardinality(taps \cup {t}) <= MaxTaps
    BY TapOne DEF Kinds
  <1>. HIDE DEF t
  <1>2. /\ form' \in [Kinds -> Statuses] /\ form'["sale"] = form["sale"]
        /\ \A j \in Kinds \ {k} : form'[j] = form[j]
        /\ form'[k] = "queued"
    BY DEF TillInv, Kinds, Statuses
  <1>3. taps' = taps \cup {t}
    BY DEF t
  <1>4. TillTypeOK'
    BY <1>1, <1>2, <1>3 DEF TillInv, TillTypeOK, Kinds, Statuses
  <1>5. Sales' = Sales /\ (InFlight("sale")' <=> InFlight("sale"))
    BY <1>1, <1>3 DEF Sales, InFlight
  <1>6. \A u \in taps' : Submission(u)
    BY <1>1, <1>3 DEF TillInv
  <1>7. SalesAreOfCart' /\ OneIsOut' /\ OneSaleAtATime' /\ ConfirmNotStuck'
    BY <1>2, <1>5 DEF TillInv, SalesAreOfCart, OneIsOut, OneSaleAtATime, ConfirmNotStuck, Sales
  <1>. QED BY <1>1, <1>2, <1>3, <1>4, <1>6, <1>7 DEF TillInv, Submission

\* A sale is confirmed over the cart, either the only one or one of a checkout
\* that was reopened.
LEMMA ConfirmInv ==
  ASSUME TillInv, NEW who, NEW f \in Entered, Confirm(who, f)
  PROVE  TillInv'
  <1>. DEFINE t == Tap("sale", who, f)
  <1>1. /\ Submission(t) /\ t.kind = "sale" /\ t.lines = cart /\ t.again = reopened
        /\ IsFiniteSet(taps \cup {t}) /\ Cardinality(taps \cup {t}) <= MaxTaps
    BY TapOne DEF Kinds, Confirm, CanConfirm
  <1>2. taps' = taps \cup {t}
    BY DEF Confirm
  <1>. HIDE DEF t
  <1>3. /\ form["sale"] # "submitting" /\ checkout
        /\ UNCHANGED <<screen, cart, pending, checkout, adjusting, reopened>>
    BY DEF Confirm, CanConfirm
  <1>4. /\ form' \in [Kinds -> Statuses] /\ form'["sale"] = "submitting"
        /\ \A j \in Kinds \ {"sale"} : form'[j] = form[j]
    BY DEF TillInv, Kinds, Statuses, Confirm
  <1>5. TillTypeOK'
    BY <1>1, <1>2, <1>3, <1>4 DEF TillInv, TillTypeOK, Kinds, Statuses
  <1>6. Sales' = Sales \cup {t}
    BY <1>1, <1>2 DEF Sales
  <1>7. reopened \/ Sales = {}
    BY <1>3 DEF TillInv, OneIsOut, InFlight, Sales
  <1>8. \A u \in taps' : Submission(u)
    BY <1>1, <1>2 DEF TillInv
  <1>9. SalesAreOfCart'
    BY <1>1, <1>3, <1>6 DEF TillInv, SalesAreOfCart
  <1>10. OneIsOut'
    BY <1>3, <1>4, <1>6, <1>7 DEF OneIsOut
  <1>11. OneSaleAtATime'
    <2>. SUFFICES ASSUME NEW u \in Sales', NEW v \in Sales', u # v PROVE u.again \/ v.again
      BY DEF OneSaleAtATime, Sales
    <2>1. CASE Sales = {}
      BY <1>6, <2>1
    <2>2. CASE reopened /\ (u = t \/ v = t)
      BY <1>1, <2>2
    <2>3. CASE u \in Sales /\ v \in Sales
      BY <2>3 DEF TillInv, OneSaleAtATime, Sales
    <2>. QED BY <1>6, <1>7, <2>1, <2>2, <2>3
  <1>12. ConfirmNotStuck'
    BY <1>1, <1>2 DEF ConfirmNotStuck, InFlight
  <1>. QED BY <1>1, <1>2, <1>3, <1>4, <1>5, <1>8, <1>9, <1>10, <1>11, <1>12 DEF TillInv

\* The dialog opens over a cart with lines, and says so if a sale is out.
LEMMA OpenCheckoutInv == TillInv /\ OpenCheckout => TillInv'
  <1>. SUFFICES ASSUME TillInv, OpenCheckout PROVE TillInv'
    OBVIOUS
  <1>1. /\ UNCHANGED <<screen, cart, pending, adjusting, taps>>
        /\ screen = "pos" /\ cart # Empty /\ ~checkout /\ checkout' = TRUE
    BY DEF OpenCheckout, CanCheckout, OnPos
  <1>2. reopened' \in BOOLEAN /\ (InFlight("sale") => reopened')
    <2>1. reopened' <=> (reopened \/ InFlight("sale"))
      BY Zenon DEF OpenCheckout
    <2>2. reopened' \in BOOLEAN
      BY DEF OpenCheckout, InFlight, TillInv
    <2>. QED BY <2>1, <2>2
  <1>3. /\ form' \in [Kinds -> Statuses] /\ form'["sale"] = "idle"
        /\ \A j \in Kinds \ {"sale"} : form'[j] = form[j]
    BY DEF TillInv, Kinds, Statuses, OpenCheckout
  <1>4. TillTypeOK'
    BY <1>1, <1>3 DEF TillInv, TillTypeOK, Kinds, Statuses
  <1>5. SalesAreOfCart' /\ OneSaleAtATime'
    BY <1>1 DEF TillInv, SalesAreOfCart, OneSaleAtATime, Sales
  <1>6. OneIsOut' /\ ConfirmNotStuck'
    BY <1>1, <1>2, <1>3 DEF OneIsOut, ConfirmNotStuck, InFlight
  <1>7. \A t \in taps' : Submission(t)
    BY <1>1 DEF TillInv
  <1>. QED BY <1>1, <1>2, <1>3, <1>4, <1>5, <1>6, <1>7 DEF TillInv, Submission

\* What the till knows of its submissions once some are gone and the rest left.
LEMMA LeftInv ==
  ASSUME TillInv, NEW sent \in SUBSET taps, taps' = Leave(sent),
         checkout' = FALSE, reopened' \in BOOLEAN, form' \in [Kinds -> Statuses],
         TillTypeOK', form'["sale"] = "submitting" => \E t \in sent : t.kind = "sale"
  PROVE  TillInv'
  <1>1. IsFiniteSet(sent) /\ \A t \in sent : Submission(t)
    BY FS_Subset DEF TillInv
  <1>2. /\ IsFiniteSet(taps') /\ \A u \in taps' : Submission(u) /\ u.left
        /\ \A u \in taps' : \E t \in sent :
             u.kind = t.kind /\ u.again = t.again /\ u = [t EXCEPT !.left = TRUE]
        /\ \A t \in sent : \E u \in taps' : u.kind = t.kind
    BY <1>1, LeaveAll
  <1>3. SalesAreOfCart'
    BY <1>2 DEF SalesAreOfCart, Sales
  <1>4. OneSaleAtATime'
    <2>. SUFFICES ASSUME NEW u \in Sales', NEW v \in Sales', u # v PROVE u.again \/ v.again
      BY DEF OneSaleAtATime, Sales
    <2>1. PICK s \in sent : u.kind = s.kind /\ u.again = s.again /\ u = [s EXCEPT !.left = TRUE]
      BY <1>2 DEF Sales
    <2>2. PICK t \in sent : v.kind = t.kind /\ v.again = t.again /\ v = [t EXCEPT !.left = TRUE]
      BY <1>2 DEF Sales
    <2>3. s # t /\ s \in Sales /\ t \in Sales
      BY <2>1, <2>2 DEF Sales
    <2>4. s.again \/ t.again
      BY <2>3 DEF TillInv, OneSaleAtATime, Sales
    <2>. QED BY <2>1, <2>2, <2>4
  <1>5. ConfirmNotStuck'
    BY <1>2 DEF ConfirmNotStuck, InFlight
  <1>6. OneIsOut'
    BY DEF OneIsOut
  <1>. QED BY <1>2, <1>3, <1>4, <1>5, <1>6 DEF TillInv

LEMMA CloseCheckoutInv == TillInv /\ CloseCheckout => TillInv'
  <1>. SUFFICES ASSUME TillInv, CloseCheckout PROVE TillInv'
    OBVIOUS
  <1>1. /\ checkout' = FALSE /\ taps' = Leave(taps)
        /\ UNCHANGED <<screen, cart, pending, adjusting, form, reopened>>
    BY DEF CloseCheckout
  <1>2. Cardinality(taps') <= MaxTaps
    <2>1. IsFiniteSet(Leave(taps)) /\ Cardinality(Leave(taps)) <= Cardinality(taps)
      BY LeaveAll DEF TillInv
    <2>2. Cardinality(taps) \in Nat /\ Cardinality(Leave(taps)) \in Nat
      BY <2>1, FS_CardinalityType DEF TillInv
    <2>. QED BY <1>1, <2>1, <2>2, TillBoundsAssumption DEF TillInv, TillTypeOK
  <1>3. TillTypeOK'
    BY <1>1, <1>2 DEF TillInv, TillTypeOK
  <1>4. form["sale"] = "submitting" => \E t \in taps : t.kind = "sale"
    BY DEF TillInv, ConfirmNotStuck, InFlight
  <1>. QED BY <1>1, <1>3, <1>4, LeftInv DEF TillInv

\* The outcome of a submission sets its form's status, and only a recorded sale
\* touches the cart.
LEMMA FinishInv ==
  ASSUME TillInv, NEW t \in taps, NEW outcome \in Outcomes(t.kind), Finish(t, outcome)
  PROVE  TillInv'
  <1>1. t.kind \in Kinds /\ outcome \in Statuses \ {"submitting"}
    BY DEF TillInv, Submission, Outcomes, Statuses
  <1>2. /\ form' \in [Kinds -> Statuses] /\ form'[t.kind] = outcome
        /\ \A j \in Kinds \ {t.kind} : form'[j] = form[j]
    BY <1>1 DEF TillInv, Kinds, Statuses, Finish, StatusAfter
  <1>3. /\ form'["sale"] \in Statuses
        /\ form'["expense"] \in Statuses \ {"submitting"}
        /\ form'["adjustment"] \in Statuses \ {"submitting", "storage_full"}
    BY <1>1, <1>2 DEF TillInv, TillTypeOK, Kinds, Statuses, Outcomes
  <1>. DEFINE rest == taps \ {t}
  <1>4. /\ IsFiniteSet(rest) /\ Cardinality(rest) <= MaxTaps /\ Cardinality(rest) \in Nat
    <2>1. IsFiniteSet(rest) /\ Cardinality(rest) <= Cardinality(taps)
      BY FS_Subset DEF TillInv
    <2>2. Cardinality(taps) \in Nat /\ Cardinality(rest) \in Nat
      BY <2>1, FS_CardinalityType DEF TillInv
    <2>. QED BY <2>1, <2>2, TillBoundsAssumption DEF TillInv, TillTypeOK
  <1>5. /\ screen' = screen /\ pending' = pending
        /\ adjusting' \in {NoProduct, adjusting}
    BY DEF Finish
  <1>6. \A s \in rest : Submission(s)
    BY DEF TillInv
  <1>7. CASE SaleEnds(t, outcome)
    <2>1. cart' = Empty /\ checkout' = FALSE /\ reopened' = FALSE /\ taps' = Leave(rest)
      BY <1>7 DEF Finish
    <2>2. Cardinality(taps') <= MaxTaps
      <3>1. IsFiniteSet(taps') /\ Cardinality(taps') <= Cardinality(rest)
        BY <1>4, <1>6, <2>1, LeaveAll
      <3>2. Cardinality(taps') \in Nat
        BY <3>1, FS_CardinalityType
      <3>. QED BY <1>4, <3>1, <3>2, TillBoundsAssumption
    <2>3. TillTypeOK'
      BY <1>3, <1>5, <2>1, <2>2, TillBoundsAssumption DEF TillInv, TillTypeOK, Empty
    <2>4. form'["sale"] # "submitting"
      BY <1>1, <1>2, <1>7 DEF SaleEnds, Statuses
    <2>. QED BY <1>2, <2>1, <2>3, <2>4, LeftInv
  <1>8. CASE ~SaleEnds(t, outcome)
    <2>1. taps' = rest /\ UNCHANGED <<cart, checkout, reopened>>
      BY <1>8 DEF Finish
    <2>2. TillTypeOK'
      BY <1>3, <1>4, <1>5, <2>1 DEF TillInv, TillTypeOK
    <2>3. Sales' = Sales \ {t}
      BY <2>1 DEF Sales
    <2>4. SalesAreOfCart' /\ OneSaleAtATime'
      BY <2>1, <2>3 DEF TillInv, SalesAreOfCart, OneSaleAtATime, Sales
    <2>5. CASE t.kind = "sale"
      <3>1. form'["sale"] # "submitting"
        BY <1>1, <1>2, <2>5
      <3>2. OneIsOut'
        <4>. SUFFICES ASSUME checkout, ~reopened, NEW s \in Sales' PROVE FALSE
          BY <2>1 DEF OneIsOut, InFlight, Sales
        <4>1. s \in Sales /\ t \in Sales /\ s # t
          BY <2>3, <2>5 DEF Sales
        <4>. QED BY <4>1 DEF TillInv, OneIsOut, InFlight, Sales
      <3>. QED BY <1>2, <1>4, <1>6, <2>1, <2>2, <2>4, <3>1, <3>2
           DEF TillInv, ConfirmNotStuck, Submission
    <2>6. CASE t.kind # "sale"
      <3>1. form'["sale"] = form["sale"] /\ (InFlight("sale")' <=> InFlight("sale"))
        BY <1>2, <2>1, <2>6 DEF InFlight, Kinds
      <3>2. OneIsOut' /\ ConfirmNotStuck'
        BY <2>1, <2>3, <3>1 DEF TillInv, OneIsOut, ConfirmNotStuck
      <3>. QED BY <1>2, <1>4, <1>6, <2>1, <2>2, <2>4, <3>2 DEF TillInv, Submission
    <2>. QED BY <2>5, <2>6
  <1>. QED BY <1>7, <1>8

----------------------------------------------------------------------------
(* The steps that only turn the cart and the dialogs. *)

LEMMA SetLineInv ==
  ASSUME TillInv, OnPos, NEW who, NEW p \in Products, NEW quantity, SetLine(who, p, quantity),
         pending' \in Products \cup {NoProduct}
  PROVE  TillInv'
  <1>1. /\ UNCHANGED <<screen, checkout, adjusting, form, taps, reopened>>
        /\ quantity \in 0..MaxQty /\ cart' = [cart EXCEPT ![p] = quantity]
    BY DEF SetLine
  <1>2. TillTypeOK'
    BY <1>1 DEF TillInv, TillTypeOK
  <1>. QED BY <1>1, <1>2, QuietInv DEF OnPos

LEMMA CartInv ==
  ASSUME TillInv, NEW who,
         \/ \E p \in Products : TapTile(who, p) \/ StepLine(who, p)
         \/ AnswerWarning(who)
  PROVE  TillInv'
  <1>1. ASSUME NEW p \in Products, TapTile(who, p) PROVE TillInv'
    <2>1. CASE Warns(p)
      <3>1. pending' = p /\ UNCHANGED <<screen, cart, checkout, adjusting, form, taps, reopened>>
        BY <1>1, <2>1 DEF TapTile
      <3>2. TillTypeOK'
        BY <3>1 DEF TillInv, TillTypeOK
      <3>. QED BY <3>1, <3>2, QuietInv
    <2>2. CASE ~Warns(p)
      <3>1. OnPos /\ SetLine(who, p, cart[p] + 1) /\ pending' = pending
        BY <1>1, <2>2 DEF TapTile
      <3>. QED BY <3>1, SetLineInv DEF TillInv, TillTypeOK
    <2>. QED BY <2>1, <2>2
  <1>2. ASSUME NEW p \in Products, StepLine(who, p) PROVE TillInv'
    BY <1>2, SetLineInv DEF StepLine, TillInv, TillTypeOK
  <1>3. ASSUME AnswerWarning(who) PROVE TillInv'
    <2>1. OnPos /\ pending' = NoProduct /\ pending \in Products
      BY <1>3 DEF AnswerWarning, TillInv, TillTypeOK
    <2>2. \/ SetLine(who, pending, cart[pending])
          \/ SetLine(who, pending, cart[pending] + 1)
      BY <1>3 DEF AnswerWarning
    <2>. QED BY <2>1, <2>2, SetLineInv
  <1>. QED BY <1>1, <1>2, <1>3

\* Every step of a mounted screen.
LEMMA TillStepInv ==
  ASSUME TillInv, NEW who, TillNext(who)
  PROVE  TillInv'
  <1>1. ASSUME NEW to \in Screens, Remount(to) PROVE TillInv'
    BY <1>1, RemountInv
  <1>2. CASE LevelsArrive
    <2>1. UNCHANGED <<screen, cart, pending, checkout, adjusting, form, taps, reopened>>
      BY <1>2 DEF LevelsArrive
    <2>2. TillTypeOK'
      BY <2>1 DEF TillInv, TillTypeOK
    <2>. QED BY <2>1, <2>2, QuietInv
  <1>3. CASE \/ \E p \in Products : TapTile(who, p) \/ StepLine(who, p)
             \/ AnswerWarning(who)
    BY <1>3, CartInv
  <1>4. ASSUME CloseAdjustment \/ \E p \in Products : OpenAdjustment(p) PROVE TillInv'
    <2>1. /\ UNCHANGED <<screen, cart, pending, checkout, form, taps, reopened>>
          /\ adjusting' \in Products \cup {NoProduct}
      BY <1>4 DEF CloseAdjustment, OpenAdjustment
    <2>2. TillTypeOK'
      BY <2>1 DEF TillInv, TillTypeOK
    <2>. QED BY <2>1, <2>2, QuietInv
  <1>5. CASE OpenCheckout \/ CloseCheckout
    BY <1>5, OpenCheckoutInv, CloseCheckoutInv
  <1>6. ASSUME NEW f \in Entered, Confirm(who, f) PROVE TillInv'
    BY <1>6, ConfirmInv
  <1>7. CASE SubmitExpense(who)
    BY <1>7, OtherTapInv DEF SubmitExpense
  <1>8. CASE ConfirmAdjustment(who)
    BY <1>8, OtherTapInv DEF ConfirmAdjustment
  <1>. QED BY <1>1, <1>2, <1>3, <1>4, <1>5, <1>6, <1>7, <1>8 DEF TillNext

LEMMA ReturnsInv == TillInv /\ Returns => TillInv'
  BY FinishInv DEF Returns

LEMMA TillStutterInv == TillInv /\ UNCHANGED tillVars => TillInv'
  BY QuietInv DEF tillVars, TillInv, TillTypeOK

\* A step that empties the cart and forgets a sale has recorded one.
LEMMA FinishStep ==
  ASSUME TillInv, NEW who, TillNext(who) \/ Returns
  PROVE  \A t \in taps :
           (/\ t.kind = "sale" /\ \A x \in taps' : x.clientId # t.clientId
            /\ cart # Empty /\ cart' = Empty /\ form' # Idle)
           => t.left \/ (cart = t.lines /\ form'["sale"] = "queued")
  <1>. SUFFICES ASSUME NEW t \in taps, t.kind = "sale",
                       \A x \in taps' : x.clientId # t.clientId,
                       cart # Empty, cart' = Empty, form' # Idle
                PROVE  t.left \/ (cart = t.lines /\ form'["sale"] = "queued")
    OBVIOUS
  <1>1. t.left \/ cart = t.lines
    BY DEF TillInv, SalesAreOfCart, Sales
  <1>2. t \notin taps' /\ cart' # cart
    OBVIOUS
  <1>3. ASSUME NEW s \in taps, NEW outcome \in Outcomes(s.kind), Finish(s, outcome)
        PROVE  form'["sale"] = "queued"
    BY <1>2, <1>3 DEF Finish, SaleEnds, StatusAfter, TillInv, Kinds
  <1>4. CASE Returns
    BY <1>1, <1>3, <1>4 DEF Returns
  <1>5. ~TillNext(who)
    <2>1. ASSUME NEW to \in Screens, Remount(to) PROVE FALSE
      BY <2>1 DEF Remount
    <2>2. ASSUME NEW p \in Products, TapTile(who, p) \/ StepLine(who, p) \/ OpenAdjustment(p)
          PROVE  FALSE
      BY <1>2, <2>2 DEF TapTile, StepLine, OpenAdjustment, SetLine
    <2>3. ~AnswerWarning(who) /\ ~LevelsArrive /\ ~OpenCheckout /\ ~CloseCheckout
      BY <1>2 DEF AnswerWarning, LevelsArrive, OpenCheckout, CloseCheckout, SetLine
    <2>4. ~CloseAdjustment /\ ~ConfirmAdjustment(who) /\ ~SubmitExpense(who)
          /\ \A f \in Entered : ~Confirm(who, f)
      BY <1>2 DEF CloseAdjustment, ConfirmAdjustment, SubmitExpense, Confirm
    <2>. QED BY <2>1, <2>2, <2>3, <2>4 DEF TillNext
  <1>. QED BY <1>4, <1>5
=============================================================================
