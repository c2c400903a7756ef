-------------------------- MODULE ResolutionProofs --------------------------
(***************************************************************************)
(* The invariants of the sync screen's corrections, for any sales, lines,  *)
(* opening stock and number of clicks: two clicks do not top up one sale   *)
(* at once, and no line of a plan is missed whose levels showed no more    *)
(* than there was.                                                         *)
(***************************************************************************)
EXTENDS Resolution, SumTheorems

States == {"absent", "queued", "failed", "synced", "discarded"}

\* What a click's handler is: it still has to enqueue some of its plan, and is
\* through with that before the sale is queued again.
HandlerOK(h) ==
    /\ h \in [sale : Sales, todo : SUBSET Products, plan : {h.plan},
              at : {"running", "flushing", "done"}, visit : {h.visit}, news : SUBSET Products]
    /\ h.todo \subseteq DOMAIN h.plan
    /\ \A p \in DOMAIN h.plan : h.plan[p] \in Nat \ {0}
    /\ h.at # "running" => h.todo = {}

Adjustment == [product : Products, delta : Nat \ {0}, sale : Sales]

TypeInv ==
    /\ TypeOK
    /\ \A i \in Fixes : fix[i] \in Adjustment \cup {NoFix}
    /\ fix \in [Fixes -> {fix[i] : i \in Fixes}]
    /\ \A i \in Fixes : state[i] = "absent" => i \notin recorded
    /\ \A h \in handlers : HandlerOK(h)
    /\ DOMAIN levels \subseteq Products /\ \A p \in DOMAIN levels : levels[p] \in Nat

\* A sale with a handler has the slot, or has lost it; who kept it is alone.
SlotInv ==
    \A s \in Sales \ disturbed :
        /\ Busy(s) # {} => slot = s
        /\ \A h, k \in Busy(s) : h = k

\* What the records show and what is under way cover the request, or the click
\* that granted the line is still to enqueue what is missing.
Covered(s, p) ==
    \/ stock[p] + UnderWay(s, p) >= Requested(s, p)
    \/ \E h \in Busy(s) :
        /\ p \in h.todo \cap h.news
        /\ stock[p] + UnderWay(s, p) + h.plan[p] >= Requested(s, p)

CoverInv ==
    \A s \in Sales \ recorded : \A p \in Products : <<s, p>> \in granted => Covered(s, p)

----------------------------------------------------------------------------
(* Lemmas about the numbers of entries and the sums of quantities.         *)

LEMMA LeastIn ==
  ASSUME NEW S, S \subseteq Nat, S # {}
  PROVE  (CHOOSE i \in S : \A j \in S : i <= j) \in S
  <1>1. PICK i \in S : \A j \in S : <<j, i>> \notin OpToRel(<, Nat)
    BY NatLessThanWellFounded, WFMin
  <1>2. \A j \in S : ~ (j < i)
    BY <1>1 DEF OpToRel
  <1>3. \A j \in S : i <= j
    BY <1>2
  <1>. QED BY <1>3

LEMMA Numbers ==
  /\ Sales \subseteq Nat /\ Fixes \subseteq Nat /\ Entries \subseteq Nat /\ NoEntry \notin Sales
  /\ Sales \cap Fixes = {} /\ IsFiniteSet(Fixes)
  <1>1. Cardinality(Sales) \in Nat /\ Sales = 1 .. Cardinality(Sales) /\ MaxFixes \in Nat
    BY EntriesAssumption, FS_CardinalityType
  <1>. DEFINE n == Cardinality(Sales)
  <1>2. Fixes = n + 1 .. n + MaxFixes
    BY DEF Fixes
  <1>. HIDE DEF n
  <1>3. n \in Nat /\ Sales = 1 .. n
    BY <1>1 DEF n
  <1>4. IsFiniteSet(Fixes)
    BY <1>1, <1>2, <1>3, FS_Interval
  <1>5. Sales \subseteq Nat /\ Fixes \subseteq Nat /\ 0 \notin Sales /\ Sales \cap Fixes = {}
    BY <1>1, <1>2, <1>3
  <1>. QED BY <1>4, <1>5 DEF Entries, NoEntry

LEMMA RequestedNat ==
  ASSUME NEW s \in Sales, NEW p
  PROVE  Requested(s, p) \in Nat
  <1>. DEFINE w == [l \in Lines[s] |-> IF l.product = p THEN l.quantity ELSE 0]
  <1>1. IsFiniteSet(Lines[s]) /\ \A l \in Lines[s] : w[l] \in Nat
    BY EntriesAssumption
  <1>2. Requested(s, p) = SumFunctionOnSet(w, Lines[s])
    BY DEF Requested, SumFunction
  <1>. HIDE DEF w
  <1>. QED BY <1>1, <1>2, SumNat

\* The share of entry i in what is under way for s.
Share(s, p) == [i \in Fixes |-> IF fix[i].sale = s /\ fix[i].product = p /\ i \notin recorded
                                THEN fix[i].delta ELSE 0]

LEMMA FixTyped ==
  ASSUME TypeInv, NEW i \in Fixes
  PROVE  /\ fix[i].delta \in Nat /\ (fix[i] = NoFix <=> state[i] = "absent")
         /\ state[i] # "absent" => fix[i] \in Adjustment
         /\ state[i] = "absent" => fix[i].sale \notin Sales
  BY Numbers DEF TypeInv, TypeOK, Adjustment, NoFix

LEMMA UnderWayNat ==
  ASSUME TypeInv, NEW s, NEW p
  PROVE  /\ UnderWay(s, p) = SumFunctionOnSet(Share(s, p), Fixes)
         /\ \A i \in Fixes : Share(s, p)[i] \in Nat
         /\ UnderWay(s, p) \in Nat
  <1>1. \A i \in Fixes : Share(s, p)[i] \in Nat
    BY FixTyped DEF Share
  <1>2. UnderWay(s, p) = SumFunctionOnSet(Share(s, p), Fixes)
    BY DEF UnderWay, SumFunction, Share
  <1>. QED BY <1>1, <1>2, SumNat, Numbers

LEMMA FirstIsDue ==
  ASSUME TypeInv, Due # {}
  PROVE  First \in Entries /\ state[First] = "queued"
  <1>1. Due \subseteq Nat
    BY Numbers DEF Due
  <1>2. First \in Due
    BY <1>1, LeastIn DEF First
  <1>. QED BY <1>2 DEF Due

\* What a request leaves at the server.
LEMMA ServeTyped ==
  ASSUME TypeInv, NEW i \in Entries, state[i] = "queued", Serve(i)
  PROVE  /\ stock' \in [Products -> Nat]
         /\ recorded' \subseteq recorded \cup {i} /\ recorded \subseteq recorded'
         /\ granted' \subseteq granted
  <1>1. CASE Verdict(i) = "synced" /\ i \notin recorded
    <2>1. recorded' = recorded \cup {i} /\ stock' = StockAfter(i) /\ granted' \subseteq granted
      BY <1>1 DEF Serve
    <2>2. stock \in [Products -> Nat]
      BY DEF TypeInv, TypeOK
    <2>3. CASE i \in Sales
      <3>1. ~ Overdrawn(i)
        BY <1>1, <2>3, Numbers DEF Verdict
      <3>2. \A p \in Products : Requested(i, p) \in Nat /\ stock[p] \in Nat /\ ~ (Requested(i, p) > stock[p])
        BY <2>2, <2>3, <3>1, RequestedNat DEF Overdrawn
      <3>3. \A p \in Products : stock[p] - Requested(i, p) \in Nat
        BY <3>2
      <3>. QED BY <2>1, <2>3, <3>3 DEF StockAfter
    <2>4. CASE i \in Fixes
      <3>1. fix[i] \in Adjustment
        BY <2>4, FixTyped
      <3>2. fix[i].product \in Products /\ fix[i].delta \in Nat
        BY <3>1 DEF Adjustment
      <3>3. i \notin Sales
        BY <2>4, Numbers
      <3>4. stock[fix[i].product] + fix[i].delta \in Nat
        BY <2>2, <3>2
      <3>. QED BY <2>1, <2>2, <3>2, <3>3, <3>4 DEF StockAfter
    <2>. QED BY <2>1, <2>3, <2>4 DEF Entries
  <1>2. CASE ~ (Verdict(i) = "synced" /\ i \notin recorded)
    BY <1>2 DEF Serve, TypeInv, TypeOK
  <1>. QED BY <1>1, <1>2

----------------------------------------------------------------------------
(* Types. *)

\* A new owner of the slot leaves sales in both places.
LEMMA SlotTyped ==
  ASSUME NEW to \in Sales \cup {NoEntry}, SlotBecomes(to)
  PROVE  slot' \in Sales \cup {NoEntry} /\ disturbed' \subseteq Sales
  BY DEF SlotBecomes

LEMMA TypeInit == Init => TypeInv
  <1>. SUFFICES ASSUME Init
                PROVE  TypeInv
    OBVIOUS
  <1>1. state \in [Entries -> States] /\ \A i \in Fixes : state[i] = "absent"
    <2>1. \A i \in Fixes : i \in Entries /\ i \notin Sales
      BY Numbers DEF Entries
    <2>. QED BY <2>1 DEF Init, States
  <1>2. stock \in [Products -> Nat]
    BY EntriesAssumption DEF Init
  <1>. QED BY <1>1, <1>2 DEF Init, TypeInv, TypeOK, Unread, States

\* The answer to an entry changes its state, and never back to "absent".
LEMMA AnswerTyped ==
  ASSUME TypeInv, NEW i \in Entries, Answered(i)
  PROVE  TypeInv'
  <1>1. state[i] = "queued" /\ Serve(i)
    BY FirstIsDue DEF Answered
  <1>2. /\ stock' \in [Products -> Nat]
        /\ recorded' \subseteq recorded \cup {i}
        /\ granted' \subseteq granted
    BY <1>1, ServeTyped
  <1>3. Verdict(i) \in States \ {"absent"}
    BY DEF Verdict, States
  <1>4. /\ state' \in [Entries -> States]
        /\ \A j \in Entries : state'[j] = "absent" <=> state[j] = "absent"
    BY <1>1, <1>3 DEF Answered, TypeInv, TypeOK, States
  <1>5. tried' \subseteq Entries
    BY DEF Answered, TypeInv, TypeOK
  <1>6. UNCHANGED <<fix, pass, levels, fetching, slot, handlers, disturbed, visit>>
    BY DEF Answered
  <1>7. TypeOK'
    BY <1>2, <1>4, <1>5, <1>6 DEF TypeInv, TypeOK, States, Entries
  <1>8. \A j \in Fixes : state'[j] = "absent" => j \notin recorded'
    BY <1>1, <1>2, <1>4 DEF TypeInv, Entries
  <1>. QED BY <1>6, <1>7, <1>8 DEF TypeInv, HandlerOK

LEMMA UnansweredTyped ==
  ASSUME TypeInv, Unanswered
  PROVE  TypeInv'
  <1>1. First \in Entries /\ state[First] = "queued"
    BY FirstIsDue DEF Unanswered
  <1>2. /\ stock' \in [Products -> Nat]
        /\ recorded' \subseteq recorded \cup {First}
        /\ granted' \subseteq granted
    <2>1. CASE Serve(First)
      BY <1>1, <2>1, ServeTyped
    <2>2. CASE UNCHANGED <<recorded, stock, granted>>
      BY <2>2 DEF TypeInv, TypeOK
    <2>. QED BY <2>1, <2>2 DEF Unanswered
  <1>3. tried' \subseteq Entries
    BY <1>1 DEF Unanswered, TypeInv, TypeOK
  <1>4. UNCHANGED <<state, fix, pass, levels, fetching, slot, handlers, disturbed, visit>>
    BY DEF Unanswered
  <1>5. TypeOK'
    BY <1>1, <1>2, <1>3, <1>4 DEF TypeInv, TypeOK
  <1>6. \A j \in Fixes : state'[j] = "absent" => j \notin recorded'
    BY <1>1, <1>2, <1>4 DEF TypeInv
  <1>. QED BY <1>4, <1>5, <1>6 DEF TypeInv, HandlerOK

\* A plan asks for a positive quantity of each of its products.
LEMMA PlanTyped ==
  ASSUME TypeInv, NEW s \in Sales
  PROVE  /\ \A p \in Products : Available(p) \in Nat /\ Shortfall(s, p) \in Int
         /\ HandlerOK(Handler(s, [p \in Plan(s) |-> Shortfall(s, p)]))
         /\ HandlerOK(Handler(s, Unread))
  <1>1. \A p \in Products : Available(p) \in Nat
    BY DEF Available, TypeInv
  <1>2. \A p \in Products : Requested(s, p) \in Nat /\ Shortfall(s, p) \in Int
    BY <1>1, RequestedNat DEF Shortfall
  <1>3. Plan(s) \subseteq Products /\ \A p \in Plan(s) : Shortfall(s, p) \in Nat \ {0}
    BY <1>2 DEF Plan
  <1>4. HandlerOK(Handler(s, [p \in Plan(s) |-> Shortfall(s, p)]))
    BY <1>3 DEF HandlerOK, Handler
  <1>5. HandlerOK(Handler(s, Unread))
    BY DEF HandlerOK, Handler, Unread
  <1>. QED BY <1>1, <1>2, <1>4, <1>5

\* enqueue() of the first line the plan still has.
LEMMA EnqueueTyped ==
  ASSUME TypeInv, NEW h \in handlers, EnqueueFix(h)
  PROVE  /\ TypeInv'
         /\ \E p \in h.todo, i \in Fixes :
              /\ state[i] = "absent"
              /\ fix' = [fix EXCEPT ![i] = [product |-> p, delta |-> h.plan[p], sale |-> h.sale]]
              /\ handlers' = (handlers \ {h}) \cup {[h EXCEPT !.todo = @ \ {p}]}
  <1>. DEFINE p == CHOOSE q \in h.todo : \A r \in h.todo : q <= r
              k == [h EXCEPT !.todo = @ \ {p}]
  <1>1. HandlerOK(h)
    BY DEF TypeInv
  <1>2. p \in h.todo
    <2>1. h.todo \subseteq Nat /\ h.todo # {}
      BY <1>1, EntriesAssumption DEF HandlerOK, EnqueueFix
    <2>. QED BY <2>1, LeastIn
  <1>3. PICK i \in Fixes :
          /\ state[i] = "absent"
          /\ state' = [state EXCEPT ![i] = "queued"]
          /\ fix' = [fix EXCEPT ![i] = [product |-> p, delta |-> h.plan[p], sale |-> h.sale]]
          /\ handlers' = (handlers \ {h}) \cup {k}
    BY DEF EnqueueFix
  <1>. HIDE DEF p
  <1>4. /\ h.sale \in Sales /\ p \in Products /\ p \in DOMAIN h.plan /\ h.plan[p] \in Nat \ {0}
        /\ k.todo = h.todo \ {p} /\ k.sale = h.sale /\ k.plan = h.plan /\ k.at = h.at
    BY <1>1, <1>2 DEF HandlerOK
  <1>5. HandlerOK(k)
    BY <1>1, <1>2 DEF HandlerOK
  <1>6. \A g \in handlers' : HandlerOK(g)
    BY <1>3, <1>5 DEF TypeInv
  <1>. DEFINE e == [product |-> p, delta |-> h.plan[p], sale |-> h.sale]
  <1>7. e \in Adjustment /\ e # NoFix
    BY <1>4 DEF Adjustment, NoFix
  <1>. HIDE DEF k, e
  <1>8. /\ DOMAIN fix = Fixes
        /\ \A j \in Fixes : fix'[j] = IF j = i THEN e ELSE fix[j]
    BY <1>3 DEF TypeInv, e
  <1>9. /\ \A j \in Fixes : fix'[j] \in Adjustment \cup {NoFix}
        /\ fix' \in [Fixes -> {fix'[j] : j \in Fixes}]
    <2>1. \A j \in Fixes : fix'[j] \in Adjustment \cup {NoFix}
      BY <1>7, <1>8 DEF TypeInv
    <2>2. fix' = [j \in Fixes |-> fix'[j]]
      BY <1>3, <1>8
    <2>. QED BY <2>1, <2>2
  <1>10. /\ state' \in [Entries -> States]
         /\ \A j \in Entries : state'[j] = IF j = i THEN "queued" ELSE state[j]
    BY <1>3 DEF TypeInv, TypeOK, States, Entries
  <1>11. UNCHANGED <<stock, recorded, tried, levels, fetching, slot, granted, disturbed, visit>>
    BY DEF EnqueueFix
  <1>12. \A j \in Fixes : (state'[j] = "absent") <=> (fix'[j] = NoFix)
    BY <1>7, <1>8, <1>10 DEF TypeInv, TypeOK, Entries
  <1>13. TypeOK'
    BY <1>10, <1>11, <1>12 DEF TypeInv, TypeOK, States
  <1>14. \A j \in Fixes : state'[j] = "absent" => j \notin recorded'
    BY <1>10, <1>11 DEF TypeInv, Entries
  <1>15. TypeInv'
    BY <1>6, <1>9, <1>11, <1>13, <1>14 DEF TypeInv
  <1>. QED BY <1>2, <1>3, <1>15 DEF k

LEMMA ClickTyped ==
  ASSUME TypeInv, NEW s \in Sales, NEW plan, Click(s, plan), HandlerOK(Handler(s, plan))
  PROVE  /\ slot' \in Sales \cup {NoEntry} /\ disturbed' \subseteq Sales
         /\ \A g \in handlers' : HandlerOK(g)
  <1>1. SlotBecomes(s) /\ handlers' = handlers \cup {Handler(s, plan)}
    BY DEF Click
  <1>. QED BY <1>1, SlotTyped DEF TypeInv

LEMMA FreesTyped ==
  ASSUME TypeInv, NEW h, Frees(h)
  PROVE  slot' \in Sales \cup {NoEntry} /\ disturbed' \subseteq Sales
  <1>1. (IF h.visit = visit THEN NoEntry ELSE slot) \in Sales \cup {NoEntry}
    BY DEF TypeInv, TypeOK
  <1>. QED BY <1>1, SlotTyped DEF Frees

\* A handler that goes on keeps what it stands for.
Onwards(h, at) == [h EXCEPT !.at = at]

LEMMA OnwardsTyped ==
  ASSUME NEW h, HandlerOK(h), h.todo = {}, NEW at \in {"flushing", "done"}
  PROVE  /\ HandlerOK(Onwards(h, at))
         /\ Onwards(h, at).sale = h.sale /\ Onwards(h, at).todo = {}
  BY DEF HandlerOK, Onwards

LEMMA PassEndsTyped ==
  ASSUME TypeInv, PassEnds
  PROVE  \A g \in handlers' : /\ HandlerOK(g)
                              /\ \E h \in handlers : /\ g.sale = h.sale /\ g.todo = h.todo
                                                     /\ g = IF h.at = "flushing" THEN Onwards(h, "done") ELSE h
  <1>. SUFFICES ASSUME NEW g \in handlers'
                PROVE  /\ HandlerOK(g)
                       /\ \E h \in handlers : /\ g.sale = h.sale /\ g.todo = h.todo
                                              /\ g = IF h.at = "flushing" THEN Onwards(h, "done") ELSE h
    OBVIOUS
  <1>1. PICK h \in handlers : g = IF h.at = "flushing" THEN Onwards(h, "done") ELSE h
    BY DEF PassEnds, Onwards
  <1>2. HandlerOK(h)
    BY DEF TypeInv
  <1>3. CASE h.at = "flushing"
    <2>1. h.todo = {}
      BY <1>2, <1>3 DEF HandlerOK
    <2>. QED BY <1>1, <1>2, <1>3, <2>1, OnwardsTyped
  <1>. QED BY <1>1, <1>2, <1>3

LEMMA TypeStep ==
  ASSUME TypeInv, [Next]_vars
  PROVE  TypeInv'
  <1>1. CASE UNCHANGED vars
    BY <1>1 DEF vars, TypeInv, TypeOK, HandlerOK
  <1>2. CASE PassStarts
    BY <1>2 DEF PassStarts, TypeInv, TypeOK, HandlerOK
  <1>3. CASE Unanswered
    BY <1>3, UnansweredTyped
  <1>4. CASE PassEnds
    <2>1. \A g \in handlers' : HandlerOK(g)
      BY <1>4, PassEndsTyped
    <2>2. /\ tried' = {}
          /\ UNCHANGED <<stock, recorded, state, fix, levels, fetching, slot, granted, disturbed, visit>>
      BY <1>4 DEF PassEnds
    <2>. QED BY <2>1, <2>2 DEF TypeInv, TypeOK
  <1>5. CASE LevelsArrive
    BY <1>5 DEF LevelsArrive, TypeInv, TypeOK, HandlerOK
  <1>6. CASE Remount
    <2>1. slot' \in Sales \cup {NoEntry} /\ disturbed' \subseteq Sales
      BY <1>6, SlotTyped DEF Remount
    <2>2. levels' = Unread /\ UNCHANGED <<stock, recorded, state, fix, pass, tried, granted, handlers>>
      BY <1>6 DEF Remount
    <2>. QED BY <2>1, <2>2 DEF TypeInv, TypeOK, HandlerOK, Unread
  <1>7. ASSUME NEW i \in Entries, Answered(i)
        PROVE  TypeInv'
    BY <1>7, AnswerTyped
  <1>8. ASSUME NEW s \in Sales, TopUp(s)
        PROVE  TypeInv'
    <2>1. Click(s, [p \in Plan(s) |-> Shortfall(s, p)])
      BY <1>8 DEF TopUp
    <2>2. /\ slot' \in Sales \cup {NoEntry} /\ disturbed' \subseteq Sales
          /\ \A g \in handlers' : HandlerOK(g)
      BY <2>1, PlanTyped, ClickTyped
    <2>3. granted' \subseteq Sales \X Products
      BY <1>8 DEF TopUp, Enough, TypeInv, TypeOK
    <2>4. UNCHANGED <<stock, recorded, state, fix, pass, tried, levels, fetching, visit>>
      BY <1>8 DEF TopUp
    <2>. QED BY <2>2, <2>3, <2>4 DEF TypeInv, TypeOK
  <1>9. ASSUME NEW s \in Sales, Retry(s)
        PROVE  TypeInv'
    <2>1. Click(s, Unread)
      BY <1>9 DEF Retry
    <2>2. /\ slot' \in Sales \cup {NoEntry} /\ disturbed' \subseteq Sales
          /\ \A g \in handlers' : HandlerOK(g)
      BY <2>1, PlanTyped, ClickTyped
    <2>3. UNCHANGED <<stock, recorded, state, fix, pass, tried, levels, fetching, granted, visit>>
      BY <1>9 DEF Retry
    <2>. QED BY <2>2, <2>3 DEF TypeInv, TypeOK
  <1>10. ASSUME NEW s \in Sales, Discard(s)
         PROVE  TypeInv'
    <2>1. slot' \in Sales \cup {NoEntry} /\ disturbed' \subseteq Sales
      BY <1>10, SlotTyped DEF Discard
    <2>2. /\ state' = [state EXCEPT ![s] = "discarded"]
          /\ UNCHANGED <<stock, recorded, fix, pass, tried, levels, fetching, granted, visit, handlers>>
      BY <1>10 DEF Discard
    <2>3. /\ state' \in [Entries -> States]
          /\ \A j \in Fixes : state'[j] = state[j]
      BY <2>2, Numbers DEF TypeInv, TypeOK, States, Entries
    <2>4. TypeOK'
      BY <2>1, <2>2, <2>3 DEF TypeInv, TypeOK, States
    <2>. QED BY <2>2, <2>3, <2>4 DEF TypeInv, HandlerOK
  <1>11. ASSUME NEW h \in handlers, EnqueueFix(h)
         PROVE  TypeInv'
    BY <1>11, EnqueueTyped
  <1>12. ASSUME NEW h \in handlers, StorageFails(h)
         PROVE  TypeInv'
    <2>1. handlers' \subseteq handlers /\ granted' \subseteq granted /\ Frees(h)
      BY <1>12 DEF StorageFails, GivesUp
    <2>2. slot' \in Sales \cup {NoEntry} /\ disturbed' \subseteq Sales
      BY <2>1, FreesTyped
    <2>3. UNCHANGED <<stock, recorded, state, fix, pass, tried, levels, fetching, visit>>
      BY <1>12 DEF StorageFails
    <2>. QED BY <2>1, <2>2, <2>3 DEF TypeInv, TypeOK, HandlerOK
  <1>13. ASSUME NEW h \in handlers, Resend(h)
         PROVE  TypeInv'
    <2>1. HandlerOK(h) /\ h.todo = {}
      BY <1>13 DEF TypeInv, Resend
    <2>2. \A g \in handlers' : HandlerOK(g)
      BY <1>13, <2>1, OnwardsTyped DEF Resend, Onwards, TypeInv
    <2>3. h.sale \in Sales
      BY <2>1 DEF HandlerOK
    <2>4. /\ state' = [state EXCEPT ![h.sale] = "queued"]
          /\ UNCHANGED <<stock, recorded, fix, tried, levels, fetching, slot, granted, disturbed, visit>>
      BY <1>13 DEF Resend
    <2>5. /\ state' \in [Entries -> States]
          /\ \A j \in Fixes : state'[j] = state[j]
      BY <2>3, <2>4, Numbers DEF TypeInv, TypeOK, States, Entries
    <2>6. TypeOK'
      BY <2>4, <2>5 DEF TypeInv, TypeOK, States
    <2>. QED BY <2>2, <2>4, <2>5, <2>6 DEF TypeInv
  <1>14. ASSUME NEW h \in handlers, HandlerEnds(h)
         PROVE  TypeInv'
    <2>1. handlers' \subseteq handlers /\ Frees(h)
      BY <1>14 DEF HandlerEnds
    <2>2. slot' \in Sales \cup {NoEntry} /\ disturbed' \subseteq Sales
      BY <2>1, FreesTyped
    <2>3. UNCHANGED <<stock, recorded, state, fix, pass, tried, levels, granted, visit>>
      BY <1>14 DEF HandlerEnds
    <2>. QED BY <2>1, <2>2, <2>3 DEF TypeInv, TypeOK, HandlerOK
  <1>. QED BY <1>1, <1>2, <1>3, <1>4, <1>5, <1>6, <1>7, <1>8, <1>9, <1>10, <1>11, <1>12, <1>13,
              <1>14 DEF Next

----------------------------------------------------------------------------
(* The slot. *)

\* Who has a handler and is not disturbed by the slot's new owner is that owner.
LEMMA OwnerIsAlone ==
  ASSUME NEW to, SlotBecomes(to), NEW s \in Sales, s \notin disturbed', NEW h \in handlers',
         h.sale = s
  PROVE  s = to /\ s \notin disturbed /\ slot' = s
  BY DEF SlotBecomes

LEMMA SlotShrinks ==
  ASSUME SlotInv, NEW to, SlotBecomes(to), handlers' \subseteq handlers
  PROVE  SlotInv'
  <1>. SUFFICES ASSUME NEW s \in Sales, s \notin disturbed', NEW h \in Busy(s)', NEW k \in Busy(s)'
                PROVE  slot' = s /\ h = k
    BY DEF SlotInv
  <1>1. h \in handlers' /\ k \in handlers' /\ h.sale = s /\ k.sale = s
    BY DEF Busy
  <1>2. slot' = s /\ s \notin disturbed
    BY <1>1, OwnerIsAlone
  <1>3. h \in Busy(s) /\ k \in Busy(s)
    BY <1>1 DEF Busy
  <1>. QED BY <1>2, <1>3 DEF SlotInv

LEMMA SlotClicked ==
  ASSUME SlotInv, NEW c \in Sales, NEW plan, Click(c, plan)
  PROVE  SlotInv'
  <1>. SUFFICES ASSUME NEW s \in Sales, s \notin disturbed', NEW h \in Busy(s)', NEW k \in Busy(s)'
                PROVE  slot' = s /\ h = k
    BY DEF SlotInv
  <1>1. h \in handlers' /\ k \in handlers' /\ h.sale = s /\ k.sale = s
    BY DEF Busy
  <1>2. SlotBecomes(c) /\ handlers' = handlers \cup {Handler(c, plan)} /\ slot # c
    BY DEF Click, CanClick
  <1>3. slot' = s /\ s = c /\ s \notin disturbed
    BY <1>1, <1>2, OwnerIsAlone
  <1>4. Busy(s) = {}
    BY <1>2, <1>3 DEF SlotInv
  <1>5. h \notin handlers /\ k \notin handlers
    BY <1>1, <1>4 DEF Busy
  <1>. QED BY <1>1, <1>2, <1>3, <1>5

\* A handler that becomes another of the same sale leaves the slot alone.
LEMMA SlotSwaps ==
  ASSUME SlotInv, UNCHANGED <<slot, disturbed>>, NEW h \in handlers, NEW k, k.sale = h.sale,
         handlers' = (handlers \ {h}) \cup {k}
  PROVE  SlotInv'
  <1>. SUFFICES ASSUME NEW s \in Sales, s \notin disturbed', NEW f \in Busy(s)', NEW g \in Busy(s)'
                PROVE  slot' = s /\ f = g
    BY DEF SlotInv
  <1>1. f \in handlers' /\ g \in handlers' /\ f.sale = s /\ g.sale = s /\ s \notin disturbed
    BY DEF Busy
  <1>2. /\ Busy(s) # {} => slot = s
        /\ \A a, b \in Busy(s) : a = b
    BY <1>1 DEF SlotInv
  <1>3. CASE h.sale = s
    <2>1. h \in Busy(s) /\ Busy(s) = {h}
      BY <1>2, <1>3 DEF Busy
    <2>2. f = k /\ g = k
      BY <1>1, <2>1 DEF Busy
    <2>. QED BY <1>2, <2>1, <2>2
  <1>4. CASE h.sale # s
    <2>1. f \in Busy(s) /\ g \in Busy(s)
      BY <1>1, <1>4 DEF Busy
    <2>. QED BY <1>2, <2>1
  <1>. QED BY <1>3, <1>4

LEMMA SlotPassEnds ==
  ASSUME TypeInv, SlotInv, PassEnds
  PROVE  SlotInv'
  <1>. SUFFICES ASSUME NEW s \in Sales, s \notin disturbed', NEW f \in Busy(s)', NEW g \in Busy(s)'
                PROVE  slot' = s /\ f = g
    BY DEF SlotInv
  <1>1. UNCHANGED <<slot, disturbed>>
    BY DEF PassEnds
  <1>2. f \in handlers' /\ g \in handlers' /\ f.sale = s /\ g.sale = s
    BY DEF Busy
  <1>3. PICK h \in handlers : f.sale = h.sale /\ f = IF h.at = "flushing" THEN Onwards(h, "done") ELSE h
    BY <1>2, PassEndsTyped
  <1>4. PICK k \in handlers : g.sale = k.sale /\ g = IF k.at = "flushing" THEN Onwards(k, "done") ELSE k
    BY <1>2, PassEndsTyped
  <1>5. h \in Busy(s) /\ k \in Busy(s)
    BY <1>2, <1>3, <1>4 DEF Busy
  <1>6. slot = s /\ h = k
    BY <1>1, <1>5 DEF SlotInv
  <1>. QED BY <1>1, <1>3, <1>4, <1>6

LEMMA SlotStep ==
  ASSUME TypeInv, SlotInv, [Next]_vars
  PROVE  SlotInv'
  <1>1. CASE UNCHANGED <<slot, disturbed, handlers>>
    BY <1>1 DEF SlotInv, Busy
  <1>2. CASE PassEnds
    BY <1>2, SlotPassEnds
  <1>3. CASE Remount
    BY <1>3, SlotShrinks DEF Remount
  <1>4. ASSUME NEW s \in Sales, TopUp(s) \/ Retry(s)
        PROVE  SlotInv'
    BY <1>4, SlotClicked DEF TopUp, Retry
  <1>5. ASSUME NEW s \in Sales, Discard(s)
        PROVE  SlotInv'
    BY <1>5, SlotShrinks DEF Discard
  <1>6. ASSUME NEW h \in handlers, EnqueueFix(h)
        PROVE  SlotInv'
    <2>1. PICK p \in h.todo : handlers' = (handlers \ {h}) \cup {[h EXCEPT !.todo = @ \ {p}]}
      BY <1>6, EnqueueTyped
    <2>2. [h EXCEPT !.todo = @ \ {p}].sale = h.sale
      BY DEF TypeInv, HandlerOK
    <2>3. UNCHANGED <<slot, disturbed>>
      BY <1>6 DEF EnqueueFix
    <2>. QED BY <2>1, <2>2, <2>3, SlotSwaps
  <1>7. ASSUME NEW h \in handlers, StorageFails(h) \/ HandlerEnds(h)
        PROVE  SlotInv'
    <2>1. handlers' \subseteq handlers /\ Frees(h)
      BY <1>7 DEF StorageFails, GivesUp, HandlerEnds
    <2>. QED BY <2>1, SlotShrinks DEF Frees
  <1>8. ASSUME NEW h \in handlers, Resend(h)
        PROVE  SlotInv'
    <2>1. handlers' = (handlers \ {h}) \cup {Onwards(h, "flushing")} /\ UNCHANGED <<slot, disturbed>>
      BY <1>8 DEF Resend, Onwards
    <2>2. HandlerOK(h) /\ h.todo = {}
      BY <1>8 DEF TypeInv, Resend
    <2>3. Onwards(h, "flushing").sale = h.sale
      BY <2>2, OnwardsTyped
    <2>. QED BY <2>1, <2>3, SlotSwaps
  <1>9. CASE PassStarts \/ Unanswered \/ LevelsArrive \/ (\E i \in Entries : Answered(i))
    BY <1>1, <1>9 DEF PassStarts, Unanswered, LevelsArrive, Answered
  <1>10. CASE UNCHANGED vars
    BY <1>1, <1>10 DEF vars
  <1>. QED BY <1>2, <1>3, <1>4, <1>5, <1>6, <1>7, <1>8, <1>9, <1>10 DEF Next

LEMMA SlotInit == Init => SlotInv
  BY DEF Init, SlotInv, Busy

----------------------------------------------------------------------------
(* The plans cover. *)

\* A handler that has nothing to enqueue is not what a line is covered by.
LEMMA CoveredStays ==
  ASSUME TypeInv, CoverInv, UNCHANGED <<stock, recorded, fix>>,
         NEW s \in Sales \ recorded, NEW p \in Products, <<s, p>> \in granted,
         \A h \in Busy(s) : p \in h.todo \cap h.news =>
            \E k \in handlers' : /\ k.sale = h.sale /\ k.todo = h.todo
                                 /\ k.plan = h.plan /\ k.news = h.news
  PROVE  Covered(s, p)'
  <1>1. UnderWay(s, p)' = UnderWay(s, p) /\ Requested(s, p)' = Requested(s, p)
    BY DEF UnderWay, Requested
  <1>2. Covered(s, p)
    BY DEF CoverInv
  <1>3. CASE stock[p] + UnderWay(s, p) >= Requested(s, p)
    BY <1>1, <1>3 DEF Covered
  <1>4. ASSUME NEW h \in Busy(s), p \in h.todo \cap h.news,
               stock[p] + UnderWay(s, p) + h.plan[p] >= Requested(s, p)
        PROVE  Covered(s, p)'
    <2>1. PICK k \in handlers' : /\ k.sale = h.sale /\ k.todo = h.todo
                                /\ k.plan = h.plan /\ k.news = h.news
      BY <1>4
    <2>2. k \in Busy(s)'
      BY <1>4, <2>1 DEF Busy
    <2>. QED BY <1>1, <1>4, <2>1, <2>2 DEF Covered
  <1>. QED BY <1>2, <1>3, <1>4 DEF Covered

\* A sale that is recorded takes the others' grants; an adjustment that is
\* recorded moves what was under way into the records.
LEMMA ServeCovers ==
  ASSUME TypeInv, CoverInv, NEW i \in Entries, state[i] = "queued", Serve(i),
         UNCHANGED <<fix, handlers>>
  PROVE  CoverInv'
  <1>. SUFFICES ASSUME NEW s \in Sales \ recorded', NEW p \in Products, <<s, p>> \in granted'
                PROVE  Covered(s, p)'
    BY DEF CoverInv
  <1>1. <<s, p>> \in granted /\ s \in Sales \ recorded
    BY ServeTyped
  <1>2. CASE UNCHANGED <<recorded, stock, granted>>
    BY <1>1, <1>2, CoveredStays DEF Busy
  <1>3. CASE ~ UNCHANGED <<recorded, stock, granted>>
    <2>1. /\ recorded' = recorded \cup {i} /\ stock' = StockAfter(i) /\ i \notin recorded
          /\ granted' = IF i \in Sales THEN granted \cap ({i} \X Products) ELSE granted
      BY <1>3 DEF Serve
    <2>2. i \in Fixes /\ i \notin Sales
      BY <2>1, Numbers DEF Entries
    <2>. DEFINE q == fix[i].product
                d == fix[i].delta
    <2>3. q \in Products /\ d \in Nat /\ fix[i].sale \in Sales
      BY <2>2, FixTyped DEF Adjustment
    <2>4. /\ stock \in [Products -> Nat]
          /\ stock' = [stock EXCEPT ![q] = @ + d]
      BY <2>1, <2>2 DEF StockAfter, TypeInv, TypeOK
    <2>. DEFINE w == Share(s, p)
                v == Share(s, p)'
    <2>5. /\ \A j \in Fixes : w[j] \in Nat
          /\ UnderWay(s, p) = SumFunctionOnSet(w, Fixes)
          /\ UnderWay(s, p) \in Nat
      BY UnderWayNat
    <2>6. UnderWay(s, p)' = SumFunctionOnSet(v, Fixes)
      BY DEF UnderWay, SumFunction, Share
    <2>7. /\ \A j \in Fixes \ {i} : v[j] = w[j]
          /\ v[i] = 0
          /\ w[i] = IF fix[i].sale = s /\ p = q THEN d ELSE 0
      BY <2>1, <2>2 DEF Share
    <2>. HIDE DEF w, v
    <2>8. \A j \in Fixes : w[j] \in Int /\ v[j] \in Int
      BY <2>5, <2>7
    <2>9. UnderWay(s, p)' = UnderWay(s, p) - w[i]
      <3>1. UnderWay(s, p)' = UnderWay(s, p) - w[i] + v[i]
        BY <2>2, <2>5, <2>6, <2>7, <2>8, Numbers, SumUpdate
      <3>. QED BY <2>2, <2>5, <2>7, <2>8, <3>1
    <2>10. stock'[p] + UnderWay(s, p)' >= stock[p] + UnderWay(s, p)
      <3>1. stock[p] \in Nat /\ stock'[p] = IF p = q THEN stock[p] + d ELSE stock[p]
        BY <2>3, <2>4
      <3>. HIDE DEF q, d
      <3>2. w[i] \in Nat /\ (w[i] = 0 \/ (w[i] = d /\ p = q))
        BY <2>2, <2>5, <2>7
      <3>. QED BY <2>3, <2>5, <2>9, <3>1, <3>2
    <2>11. stock'[p] + UnderWay(s, p)' \in Int /\ stock[p] + UnderWay(s, p) \in Int
      <3>1. stock'[p] \in Int /\ stock[p] \in Int
        BY <2>3, <2>4
      <3>2. w[i] \in Int
        BY <2>2, <2>8
      <3>. QED BY <2>5, <2>9, <3>1, <3>2
    <2>12. Requested(s, p)' = Requested(s, p) /\ Requested(s, p) \in Nat
      BY <1>1, RequestedNat DEF Requested
    <2>13. Busy(s)' = Busy(s)
      BY DEF Busy
    <2>14. Covered(s, p)
      BY <1>1 DEF CoverInv
    <2>15. CASE stock[p] + UnderWay(s, p) >= Requested(s, p)
      BY <2>10, <2>11, <2>12, <2>15 DEF Covered
    <2>16. ASSUME NEW h \in Busy(s), p \in h.todo \cap h.news,
                  stock[p] + UnderWay(s, p) + h.plan[p] >= Requested(s, p)
           PROVE  Covered(s, p)'
      <3>1. h.plan[p] \in Nat
        BY <2>16 DEF Busy, TypeInv, HandlerOK
      <3>2. (stock'[p] + UnderWay(s, p)') + h.plan[p] >= Requested(s, p)
        BY <2>10, <2>11, <2>12, <2>16, <3>1
      <3>. QED BY <2>12, <2>13, <2>16, <3>2 DEF Covered
    <2>. QED BY <2>14, <2>15, <2>16 DEF Covered
  <1>. QED BY <1>2, <1>3

\* A plan asks for all that its levels do not show, and so for enough when they
\* show no more than there is.
LEMMA TopUpCovers ==
  ASSUME TypeInv, CoverInv, NEW c \in Sales, TopUp(c)
  PROVE  CoverInv'
  <1>. SUFFICES ASSUME NEW s \in Sales \ recorded', NEW p \in Products, <<s, p>> \in granted'
                PROVE  Covered(s, p)'
    BY DEF CoverInv
  <1>. DEFINE plan == [q \in Plan(c) |-> Shortfall(c, q)]
              h == Handler(c, plan)
  <1>1. /\ handlers' = handlers \cup {h}
        /\ UNCHANGED <<stock, recorded, fix, levels>>
        /\ granted' = granted \cup ({c} \X Enough)
    BY DEF TopUp, Click
  <1>2. CASE <<s, p>> \in granted
    <2>1. \A g \in Busy(s) : g \in handlers'
      BY <1>1 DEF Busy
    <2>2. s \in Sales \ recorded
      BY <1>1
    <2>. QED BY <1>1, <1>2, <2>1, <2>2, CoveredStays
  <1>3. CASE <<s, p>> \notin granted
    <2>1. s = c /\ p \in Enough
      BY <1>1, <1>3
    <2>2. stock[p] \in Nat /\ Available(p) \in Nat
      BY PlanTyped DEF TypeInv, TypeOK
    <2>3. Available(p) <= stock[p]
      BY <2>1 DEF Enough
    <2>4. UnderWay(c, p) \in Nat /\ Requested(c, p) \in Nat
      BY UnderWayNat, RequestedNat
    <2>5. UnderWay(c, p)' = UnderWay(c, p) /\ Requested(c, p)' = Requested(c, p)
      BY <1>1 DEF UnderWay, Requested
    <2>6. CASE p \in Plan(c)
      <3>1. h \in Busy(c)' /\ p \in h.todo \cap h.news /\ h.plan[p] = Shortfall(c, p)
        BY <1>1, <1>3, <2>1, <2>6 DEF Busy, Handler
      <3>2. Shortfall(c, p) = Requested(c, p) - Available(p)
        BY DEF Shortfall
      <3>. HIDE DEF h
      <3>3. stock[p] + UnderWay(c, p) + h.plan[p] >= Requested(c, p)
        BY <2>2, <2>3, <2>4, <3>1, <3>2
      <3>. QED BY <1>1, <2>1, <2>5, <3>1, <3>3 DEF Covered
    <2>7. CASE p \notin Plan(c)
      <3>1. Requested(c, p) <= Available(p)
        BY <2>2, <2>4, <2>7 DEF Plan, Shortfall
      <3>2. stock[p] + UnderWay(c, p) >= Requested(c, p)
        BY <2>2, <2>3, <2>4, <3>1
      <3>. QED BY <1>1, <2>1, <2>5, <3>2 DEF Covered
    <2>. QED BY <2>6, <2>7
  <1>. QED BY <1>2, <1>3

\* An adjustment that is enqueued is under way instead of still to enqueue.
LEMMA EnqueueCovers ==
  ASSUME TypeInv, CoverInv, NEW h \in handlers, EnqueueFix(h)
  PROVE  CoverInv'
  <1>. SUFFICES ASSUME NEW s \in Sales \ recorded', NEW p \in Products, <<s, p>> \in granted'
                PROVE  Covered(s, p)'
    BY DEF CoverInv
  <1>1. UNCHANGED <<stock, recorded, granted>>
    BY DEF EnqueueFix
  <1>2. PICK q \in h.todo, i \in Fixes :
          /\ state[i] = "absent"
          /\ fix' = [fix EXCEPT ![i] = [product |-> q, delta |-> h.plan[q], sale |-> h.sale]]
          /\ handlers' = (handlers \ {h}) \cup {[h EXCEPT !.todo = @ \ {q}]}
    BY EnqueueTyped
  <1>3. HandlerOK(h) /\ s \in Sales \ recorded /\ <<s, p>> \in granted
    BY <1>1 DEF TypeInv
  <1>4. h.plan[q] \in Nat /\ h.todo \subseteq DOMAIN h.plan /\ h.sale \in Sales
    BY <1>3 DEF HandlerOK
  <1>. DEFINE k == [h EXCEPT !.todo = @ \ {q}]
  <1>5. /\ k \in handlers' /\ k.sale = h.sale /\ k.todo = h.todo \ {q}
        /\ k.plan = h.plan /\ k.news = h.news
    BY <1>2, <1>3 DEF HandlerOK
  <1>. HIDE DEF k
  <1>. DEFINE w == Share(s, p)
              v == Share(s, p)'
  <1>6. /\ \A j \in Fixes : w[j] \in Nat
        /\ UnderWay(s, p) = SumFunctionOnSet(w, Fixes)
        /\ UnderWay(s, p) \in Nat
    BY UnderWayNat
  <1>7. UnderWay(s, p)' = SumFunctionOnSet(v, Fixes)
    BY DEF UnderWay, SumFunction, Share
  <1>8. \A j \in Fixes : fix'[j] = IF j = i THEN [product |-> q, delta |-> h.plan[q], sale |-> h.sale]
                                   ELSE fix[j]
    BY <1>2 DEF TypeInv
  <1>9. i \notin recorded /\ fix[i].sale # s
    BY <1>2, <1>3, FixTyped DEF TypeInv
  <1>10. /\ \A j \in Fixes \ {i} : v[j] = w[j]
         /\ w[i] = 0
         /\ v[i] = IF h.sale = s /\ q = p THEN h.plan[q] ELSE 0
    BY <1>1, <1>2, <1>8, <1>9 DEF Share
  <1>. HIDE DEF w, v
  <1>11. \A j \in Fixes : w[j] \in Int /\ v[j] \in Int
    BY <1>4, <1>6, <1>10
  <1>12. UnderWay(s, p)' = UnderWay(s, p) + v[i] /\ v[i] \in Nat
    <2>1. UnderWay(s, p)' = UnderWay(s, p) - w[i] + v[i]
      BY <1>2, <1>6, <1>7, <1>10, <1>11, Numbers, SumUpdate
    <2>2. v[i] \in Nat
      BY <1>4, <1>10
    <2>. QED BY <1>6, <1>10, <2>1, <2>2
  <1>13. Requested(s, p)' = Requested(s, p) /\ Requested(s, p) \in Nat /\ stock[p] \in Nat
    <2>1. Requested(s, p) \in Nat /\ stock[p] \in Nat
      BY RequestedNat DEF TypeInv, TypeOK
    <2>. QED BY <2>1 DEF Requested
  <1>14. Covered(s, p)
    BY <1>3 DEF CoverInv
  <1>15. CASE stock[p] + UnderWay(s, p) >= Requested(s, p)
    <2>1. stock[p] + UnderWay(s, p)' >= Requested(s, p)
      BY <1>6, <1>12, <1>13, <1>15
    <2>. QED BY <1>1, <1>13, <2>1 DEF Covered
  <1>16. ASSUME NEW g \in Busy(s), p \in g.todo \cap g.news,
                stock[p] + UnderWay(s, p) + g.plan[p] >= Requested(s, p)
         PROVE  Covered(s, p)'
    <2>1. g \in handlers /\ g.sale = s /\ g.plan[p] \in Nat
      BY <1>16 DEF Busy, TypeInv, HandlerOK
    <2>2. CASE g = h /\ p = q
      <3>1. v[i] = h.plan[q]
        BY <1>10, <2>1, <2>2
      <3>2. stock[p] + UnderWay(s, p)' >= Requested(s, p)
        BY <1>6, <1>12, <1>13, <1>16, <2>2, <3>1
      <3>. QED BY <1>1, <1>13, <3>2 DEF Covered
    <2>3. stock[p] + UnderWay(s, p)' + g.plan[p] >= Requested(s, p)
      BY <1>6, <1>12, <1>13, <1>16, <2>1
    <2>4. CASE g = h /\ p # q
      <3>1. k \in Busy(s)' /\ p \in k.todo \cap k.news /\ k.plan = g.plan
        BY <1>5, <1>16, <2>1, <2>4 DEF Busy
      <3>. QED BY <1>1, <1>13, <2>3, <3>1 DEF Covered
    <2>5. CASE g # h
      <3>1. g \in Busy(s)'
        BY <1>2, <2>1, <2>5 DEF Busy
      <3>. QED BY <1>1, <1>13, <1>16, <2>3, <3>1 DEF Covered
    <2>. QED BY <2>2, <2>4, <2>5
  <1>. QED BY <1>14, <1>15, <1>16 DEF Covered

LEMMA CoverStep ==
  ASSUME TypeInv, CoverInv, [Next]_vars
  PROVE  CoverInv'
  <1>1. ASSUME UNCHANGED <<stock, recorded, fix>>, granted' \subseteq granted,
               \A s \in Sales, p \in Products : <<s, p>> \in granted' =>
                  \A h \in Busy(s) : p \in h.todo \cap h.news => h \in handlers'
        PROVE  CoverInv'
    <2>. SUFFICES ASSUME NEW s \in Sales \ recorded', NEW p \in Products, <<s, p>> \in granted'
                  PROVE  Covered(s, p)'
      BY DEF CoverInv
    <2>1. s \in Sales \ recorded /\ <<s, p>> \in granted
      BY <1>1
    <2>2. \A h \in Busy(s) : p \in h.todo \cap h.news => h \in handlers'
      BY <1>1
    <2>. QED BY <1>1, <2>1, <2>2, CoveredStays
  <1>2. CASE UNCHANGED <<stock, recorded, fix, granted, handlers>>
    BY <1>1, <1>2 DEF Busy
  <1>3. CASE Unanswered
    <2>1. First \in Entries /\ state[First] = "queued"
      BY <1>3, FirstIsDue DEF Unanswered
    <2>2. UNCHANGED <<fix, handlers>>
      BY <1>3 DEF Unanswered
    <2>3. CASE Serve(First)
      BY <2>1, <2>2, <2>3, ServeCovers
    <2>4. CASE UNCHANGED <<recorded, stock, granted>>
      BY <1>2, <2>2, <2>4
    <2>. QED BY <1>3, <2>3, <2>4 DEF Unanswered
  <1>4. ASSUME NEW i \in Entries, Answered(i)
        PROVE  CoverInv'
    <2>1. state[i] = "queued" /\ Serve(i) /\ UNCHANGED <<fix, handlers>>
      BY <1>4, FirstIsDue DEF Answered
    <2>. QED BY <2>1, ServeCovers
  <1>5. CASE PassEnds
    <2>1. \A h \in handlers : h.todo # {} => h \in handlers'
      BY <1>5 DEF PassEnds, TypeInv, HandlerOK
    <2>2. UNCHANGED <<stock, recorded, fix, granted>>
      BY <1>5 DEF PassEnds
    <2>. QED BY <1>1, <2>1, <2>2 DEF Busy
  <1>6. ASSUME NEW s \in Sales, TopUp(s)
        PROVE  CoverInv'
    BY <1>6, TopUpCovers
  <1>7. ASSUME NEW s \in Sales, Retry(s)
        PROVE  CoverInv'
    <2>1. UNCHANGED <<stock, recorded, fix, granted>> /\ handlers \subseteq handlers'
      BY <1>7 DEF Retry, Click
    <2>. QED BY <1>1, <2>1 DEF Busy
  <1>8. ASSUME NEW h \in handlers, EnqueueFix(h)
        PROVE  CoverInv'
    BY <1>8, EnqueueCovers
  <1>9. ASSUME NEW h \in handlers, StorageFails(h)
        PROVE  CoverInv'
    <2>1. /\ UNCHANGED <<stock, recorded, fix>>
          /\ granted' = granted \ ({h.sale} \X (h.todo \cap h.news)) /\ handlers' = handlers \ {h}
      BY <1>9 DEF StorageFails, GivesUp
    <2>. QED BY <1>1, <2>1 DEF Busy
  <1>10. ASSUME NEW h \in handlers, Resend(h) \/ HandlerEnds(h)
         PROVE  CoverInv'
    <2>1. h.todo = {}
      BY <1>10 DEF Resend, HandlerEnds, TypeInv, HandlerOK
    <2>2. UNCHANGED <<stock, recorded, fix, granted>> /\ handlers \ {h} \subseteq handlers'
      BY <1>10 DEF Resend, HandlerEnds
    <2>. QED BY <1>1, <2>1, <2>2 DEF Busy
  <1>11. CASE PassStarts \/ LevelsArrive \/ Remount \/ (\E s \in Sales : Discard(s))
    BY <1>2, <1>11 DEF PassStarts, LevelsArrive, Remount, Discard
  <1>12. CASE UNCHANGED vars
    BY <1>2, <1>12 DEF vars
  <1>. QED BY <1>3, <1>4, <1>5, <1>6, <1>7, <1>8, <1>9, <1>10, <1>11, <1>12 DEF Next

----------------------------------------------------------------------------
(* The theorems. *)

THEOREM TypeCorrect == Spec => []TypeInv
  BY TypeInit, TypeStep, PTL DEF Spec

\* The stock never goes below zero, an entry is absent exactly until an
\* adjustment takes its number, and the slot is nobody's or a sale's.
THEOREM ResolutionTypes == Spec => []TypeOK
  <1>1. TypeInv => TypeOK
    BY DEF TypeInv
  <1>. QED BY <1>1, TypeCorrect, PTL

\* No sale is topped up by two clicks at once (SyncResolutionScreen.jsx), unless
\* another row took the only slot.
THEOREM OneClickHolds == Spec => []OneClickAtATime
  <1>1. SlotInv => OneClickAtATime
    <2>. SUFFICES ASSUME SlotInv, NEW s \in Sales, s \notin disturbed
                  PROVE  Cardinality(Busy(s)) <= 1
      BY DEF OneClickAtATime
    <2>1. \A h, k \in Busy(s) : h = k
      BY DEF SlotInv
    <2>2. CASE Busy(s) = {}
      BY <2>2, FS_EmptySet
    <2>3. CASE Busy(s) # {}
      <3>1. PICK h : Busy(s) = {h}
        BY <2>1, <2>3
      <3>. QED BY <3>1, FS_Singleton
    <2>. QED BY <2>2, <2>3
  <1>. QED BY <1>1, TypeCorrect, SlotInit, SlotStep, PTL DEF Spec

\* No line of a correction is missed (planStockTopUp.js, onTopUpAndRetry): once it
\* is enqueued, the stock and what is under way cover what the sale asks of that
\* product, whichever other lines fail, are planned again or belong to other sales.
THEOREM PlanSuffices == Spec => []PlanCovers
  <1>1. Init => CoverInv
    BY DEF Init, CoverInv
  <1>2. TypeInv /\ CoverInv => PlanCovers
    <2>. SUFFICES ASSUME TypeInv, CoverInv, NEW s \in Sales \ recorded, NEW p \in Products,
                         <<s, p>> \in granted, \A h \in Busy(s) : p \notin h.todo
                  PROVE  stock[p] + UnderWay(s, p) >= Requested(s, p)
      BY DEF PlanCovers, TypeInv, TypeOK
    <2>1. Covered(s, p)
      BY DEF CoverInv
    <2>. QED BY <2>1 DEF Covered
  <1>. QED BY <1>1, <1>2, TypeCorrect, CoverStep, PTL DEF Spec
=============================================================================
