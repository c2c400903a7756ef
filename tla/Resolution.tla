----------------------------- MODULE Resolution -----------------------------
(***************************************************************************)
(* A manager resolves sales that the server refused for lack of stock:     *)
(* the sync screen (features/sync-status/SyncResolutionScreen.jsx) plans   *)
(* the correction that is missing (planStockTopUp.js), enqueues one stock  *)
(* adjustment per product and sends the sale again.                        *)
(*                                                                         *)
(* The queue is the one of module OfflineQueue at its surface: entries in  *)
(* the order of their numbers, one pass at a time that attempts each entry *)
(* once.  The server is the one of WriteApi: it compares line by line with *)
(* the stock, and its CHECK constraint refuses what the lines together do  *)
(* not have.  A reload of the page is not modelled.                        *)
(***************************************************************************)
EXTENDS Integers, FiniteSets, Functions

CONSTANTS
    Sales,       \* the first entries of the queue, numbers
    Products,    \* numbers, in the order of a plan
    Lines,       \* Lines[s]: its line items, records [line, product, quantity]
    Refused,     \* sales refused for another reason, a deleted product
    Opening,     \* Opening[p]: the stock of the server
    MaxFixes,    \* bound: adjustments of a behaviour
    MaxClicks,   \* bound: clicks whose handlers run at once
    MaxVisits    \* bound: times the screen is entered

ASSUME EntriesAssumption ==
    /\ IsFiniteSet(Sales) /\ Sales = 1 .. Cardinality(Sales) /\ MaxFixes \in Nat
    /\ Refused \subseteq Sales /\ Products \subseteq Nat /\ Opening \in [Products -> Nat]
    /\ \A s \in Sales : /\ Lines[s] \subseteq [line : Nat, product : Products, quantity : Nat \ {0}]
                       /\ IsFiniteSet(Lines[s])

VARIABLES
    stock,       \* stock[p] at the server
    recorded,    \* entries the server has recorded
    state,       \* state[i] of the entry, "absent" before it is enqueued
    fix,         \* fix[i]: the adjustment an entry stands for, and its sale
    pass,        \* a flush() is running
    tried,       \* attemptedThisPass
    levels,      \* stockByProduct of the screen, empty when nothing was read
    fetching,
    slot,        \* pendingClientId: one for the whole screen
    handlers,    \* clicks whose handler has not returned, two in one state counting as one
    granted,     \* <<sale, product>>: a correction was planned that is enough for it
    disturbed,   \* sales whose handler has lost the slot to another click
    visit        \* how often the screen has been entered

vars == <<stock, recorded, state, fix, pass, tried, levels, fetching, slot, handlers,
          granted, disturbed, visit>>

NoEntry == 0
Fixes == LET last == Cardinality(Sales) IN last + 1 .. last + MaxFixes
Entries == Sales \cup Fixes
Unread == [p \in {} |-> 0]
NoFix == [product |-> 0, delta |-> 0, sale |-> NoEntry]

\* The quantity of p the lines of s ask for together.
Requested(s, p) ==
    SumFunction([l \in Lines[s] |-> IF l.product = p THEN l.quantity ELSE 0])

----------------------------------------------------------------------------
(* The plan (planStockTopUp). *)

Available(p) == IF p \in DOMAIN levels THEN levels[p] ELSE 0

\* A bug: each line on its own, the largest one counts.
ShortfallPerLine(s, p) ==
    MapThenFoldSet(LAMBDA a, b : IF a > b THEN a ELSE b, 0,
                   LAMBDA l : IF l.product = p THEN l.quantity - Available(p) ELSE 0,
                   LAMBDA S : CHOOSE l \in S : TRUE, Lines[s])

\* The total per product less what the records show.
Shortfall(s, p) == Requested(s, p) - Available(p)

Plan(s) == {p \in Products : Requested(s, p) > 0 /\ Shortfall(s, p) > 0}

----------------------------------------------------------------------------
(* The server. *)

\* create_sale looks at each line; the constraint looks at the result.
Short(s) == \E l \in Lines[s] : l.quantity > stock[l.product]
Overdrawn(s) == \E p \in Products : Requested(s, p) > stock[p]

StockAfter(i) ==
    IF i \in Sales THEN [p \in Products |-> stock[p] - Requested(i, p)]
    ELSE [stock EXCEPT ![fix[i].product] = @ + fix[i].delta]

\* A bug: the stock is not looked at.
VerdictTrusting(i) == IF i \in Refused \ recorded THEN "failed" ELSE "synced"

Verdict(i) ==
    IF i \in recorded \/ i \in Fixes THEN "synced"
    ELSE IF i \in Refused \/ Short(i) THEN "failed"
    ELSE IF Overdrawn(i) THEN "queued"   \* a 500, retryable
    ELSE "synced"

\* What a request does at the server, answered or not.  A sale spends what
\* others were promised.
Serve(i) ==
    IF Verdict(i) = "synced" /\ i \notin recorded
    THEN /\ recorded' = recorded \cup {i}
         /\ stock' = StockAfter(i)
         /\ granted' = IF i \in Sales THEN granted \cap ({i} \X Products) ELSE granted
    ELSE UNCHANGED <<recorded, stock, granted>>

----------------------------------------------------------------------------
(* Passes of the queue. *)

Due == {i \in Entries : state[i] = "queued" /\ i \notin tried}
First == CHOOSE i \in Due : \A j \in Due : i <= j

\* Timers and the 'online' event call flush() at any time.
PassStarts ==
    /\ ~pass /\ \E i \in Entries : state[i] = "queued"
    /\ pass' = TRUE
    /\ UNCHANGED <<stock, recorded, state, fix, tried, levels, fetching, slot, handlers, granted,
                   disturbed, visit>>

\* The request does not arrive, or its answer does not.
Unanswered ==
    /\ pass /\ Due # {}
    /\ tried' = tried \cup {First}
    /\ Serve(First) \/ UNCHANGED <<recorded, stock, granted>>
    /\ UNCHANGED <<state, fix, pass, levels, fetching, slot, handlers, disturbed, visit>>

Answered(i) ==
    /\ pass /\ Due # {} /\ i = First
    /\ tried' = tried \cup {i}
    /\ Serve(i)
    /\ state' = [state EXCEPT ![i] = Verdict(i)]
    /\ UNCHANGED <<fix, pass, levels, fetching, slot, handlers, disturbed, visit>>

\* Handlers that wait for this pass go on.
PassEnds ==
    /\ pass /\ Due = {}
    /\ pass' = FALSE /\ tried' = {}
    /\ handlers' = {IF h.at = "flushing" THEN [h EXCEPT !.at = "done"] ELSE h : h \in handlers}
    /\ UNCHANGED <<stock, recorded, state, fix, levels, fetching, slot, granted, disturbed,
                   visit>>

----------------------------------------------------------------------------
(* The screen. *)

\* useStockLevels: an error leaves what was read before, as an answer that never comes.
LevelsArrive ==
    /\ fetching
    /\ fetching' = FALSE
    /\ levels' = stock
    /\ UNCHANGED <<stock, recorded, state, fix, pass, tried, slot, handlers, granted,
                   disturbed, visit>>

Busy(s) == {h \in handlers : h.sale = s}

\* setPendingClientId: whoever had the slot runs on without it.
SlotBecomes(to) ==
    /\ slot' = to
    /\ disturbed' = {s \in Sales : (\E h \in handlers' : h.sale = s) /\ (s # to \/ s \in disturbed)}

\* The finally of a handler: the slot of its own screen is free.
Frees(h) == SlotBecomes(IF h.visit = visit THEN NoEntry ELSE slot)

\* The screen is left and entered again: its state is gone, its handlers are not.
Remount ==
    /\ slot # NoEntry /\ visit < MaxVisits /\ visit' = visit + 1
    /\ levels' = Unread /\ fetching' = TRUE
    /\ UNCHANGED handlers
    /\ SlotBecomes(NoEntry)
    /\ UNCHANGED <<stock, recorded, state, fix, pass, tried, granted>>

\* A bug: the row's buttons stay enabled.
CanClickAlways(s) == state[s] = "failed"

CanClick(s) == state[s] = "failed" /\ slot # s

\* What a plan from these levels is enough for: levels that show no more than
\* there is, none at all included.
Enough == {p \in Products : Available(p) <= stock[p]}

\* News are the lines that were not granted before this click.
Handler(s, plan) ==
    [sale |-> s, todo |-> DOMAIN plan, plan |-> plan, at |-> "running", visit |-> visit,
     news |-> {p \in DOMAIN plan \cap Enough : <<s, p>> \notin granted}]

Click(s, plan) ==
    /\ CanClick(s) /\ Cardinality(handlers) < MaxClicks
    /\ handlers' = handlers \cup {Handler(s, plan)}
    /\ SlotBecomes(s)

\* Adjustments enqueued or still to enqueue.
Planned == Cardinality({i \in Fixes : state[i] # "absent"})
           + SumFunction([h \in handlers |-> Cardinality(h.todo)])

TopUp(s) ==
    /\ s \notin Refused /\ Plan(s) # {} /\ Planned + Cardinality(Plan(s)) <= MaxFixes
    /\ Click(s, [p \in Plan(s) |-> Shortfall(s, p)])
    /\ granted' = granted \cup ({s} \X Enough)
    /\ UNCHANGED <<stock, recorded, state, fix, pass, tried, levels, fetching, visit>>

Retry(s) ==
    /\ Click(s, Unread)
    /\ UNCHANGED <<stock, recorded, state, fix, pass, tried, levels, fetching, granted,
                   visit>>

\* discardEntry after the confirmation; it takes the slot and gives it back.
Discard(s) ==
    /\ CanClick(s)
    /\ state' = [state EXCEPT ![s] = "discarded"]
    /\ UNCHANGED handlers
    /\ SlotBecomes(NoEntry)
    /\ UNCHANGED <<stock, recorded, fix, pass, tried, levels, fetching, granted, visit>>

\* submitAdjustment for the next line of the plan; enqueue() calls flush() when
\* the device is online.
EnqueueFix(h) ==
    /\ h \in handlers /\ h.todo # {}
    /\ LET p == CHOOSE q \in h.todo : \A r \in h.todo : q <= r
       IN  \E i \in Fixes :
            /\ state[i] = "absent" /\ \A k \in Fixes : k < i => state[k] # "absent"
            /\ state' = [state EXCEPT ![i] = "queued"]
            /\ fix' = [fix EXCEPT ![i] = [product |-> p, delta |-> h.plan[p], sale |-> h.sale]]
            /\ handlers' = (handlers \ {h}) \cup {[h EXCEPT !.todo = @ \ {p}]}
    /\ pass' \in {pass, TRUE}
    /\ UNCHANGED <<stock, recorded, tried, levels, fetching, slot, granted, disturbed, visit>>

\* The catch and the finally: an error message, and the slot is free.  The lines
\* enqueued before stay in the queue and count; only the rest was not granted.
GivesUp(h) ==
    /\ handlers' = handlers \ {h}
    /\ Frees(h)
    /\ granted' = granted \ ({h.sale} \X (h.todo \cap h.news))

\* A bug: a line that cannot be enqueued is passed over, and the loop goes on.
StorageFailsSkipsLine(h) ==
    /\ h \in handlers /\ h.todo # {}
    /\ \E p \in h.todo : handlers' = (handlers \ {h}) \cup {[h EXCEPT !.todo = @ \ {p}]}
    /\ UNCHANGED <<stock, recorded, state, fix, pass, tried, levels, fetching, slot, granted,
                   disturbed, visit>>

\* enqueue() or retryEntry() fails, the disk is full.  A plain retry that fails
\* is left out: it changes nothing but the slot it took.
StorageFails(h) ==
    /\ h \in handlers /\ h.at = "running" /\ h.plan # Unread
    /\ GivesUp(h)
    /\ UNCHANGED <<stock, recorded, state, fix, pass, tried, levels, fetching, visit>>

\* retryEntry(): whatever the entry has become, it is queued again in its old
\* place, and flush() starts a pass or joins the running one.
Resend(h) ==
    /\ h \in handlers /\ h.todo = {} /\ h.at = "running"
    /\ state' = [state EXCEPT ![h.sale] = "queued"]
    /\ pass' = TRUE
    /\ handlers' = (handlers \ {h}) \cup {[h EXCEPT !.at = "flushing"]}
    /\ UNCHANGED <<stock, recorded, fix, tried, levels, fetching, slot, granted, disturbed, visit>>

\* A topped-up sale is followed by a look at the levels.
HandlerEnds(h) ==
    /\ h \in handlers /\ h.at = "done"
    /\ handlers' = handlers \ {h}
    /\ Frees(h)
    /\ fetching' = (fetching \/ (h.visit = visit /\ h.plan # Unread))
    /\ UNCHANGED <<stock, recorded, state, fix, pass, tried, levels, granted, visit>>

----------------------------------------------------------------------------
Init ==
    /\ stock = Opening /\ recorded = {}
    /\ state = [i \in Entries |-> IF i \in Sales THEN "failed" ELSE "absent"]
    /\ fix = [i \in Fixes |-> NoFix]
    /\ pass = FALSE /\ tried = {}
    /\ levels = Unread /\ fetching = TRUE
    /\ slot = NoEntry /\ handlers = {} /\ granted = {} /\ disturbed = {} /\ visit = 1

Next ==
    \/ PassStarts \/ Unanswered \/ PassEnds \/ LevelsArrive \/ Remount
    \/ \E i \in Entries : Answered(i)
    \/ \E s \in Sales : TopUp(s) \/ Retry(s) \/ Discard(s)
    \/ \E h \in handlers : EnqueueFix(h) \/ StorageFails(h) \/ Resend(h) \/ HandlerEnds(h)

Spec == Init /\ [][Next]_vars

\* Passes are started again and again and every request comes to an end; one of
\* a sale that can be recorded, or of an adjustment, is answered some time when it
\* is repeated.  Handlers run on, and the manager does not leave a failed sale.
FairSpec ==
    /\ Spec
    /\ WF_vars(PassStarts \/ Unanswered \/ (\E i \in Refused : Answered(i)) \/ PassEnds)
    /\ \A i \in Entries \ Refused : SF_vars(Answered(i))
    /\ WF_vars(\E h \in handlers : EnqueueFix(h))
    /\ \A s \in Sales : WF_vars(\E h \in Busy(s) : Resend(h) \/ HandlerEnds(h))
    /\ \A s \in Sales \ Refused : SF_vars(Retry(s))

----------------------------------------------------------------------------
(* Properties. *)

TypeOK ==
    /\ stock \in [Products -> Nat]
    /\ recorded \subseteq Entries /\ tried \subseteq Entries
    /\ state \in [Entries -> {"absent", "queued", "failed", "synced", "discarded"}]
    /\ \A i \in Fixes : (state[i] = "absent") <=> (fix[i] = NoFix)
    /\ slot \in Sales \cup {NoEntry} /\ granted \subseteq Sales \X Products /\ disturbed \subseteq Sales

\* What is still under way to the server for s.
UnderWay(s, p) ==
    SumFunction([i \in Fixes |-> IF fix[i].sale = s /\ fix[i].product = p /\ i \notin recorded
                                 THEN fix[i].delta ELSE 0])

\* No line of a correction is missed: once it is enqueued, or was not needed, the
\* stock and what is under way cover what the sale asks of that product, whether
\* the plan's other lines were enqueued, failed half-way or were planned again
\* from newer or older levels, until another sale takes from the stock.
PlanCovers ==
    \A s \in Sales \ recorded, p \in Products :
        <<s, p>> \in granted /\ (\A h \in Busy(s) : p \notin h.todo)
            => stock[p] + UnderWay(s, p) >= Requested(s, p)

\* A sale is not topped up by two clicks at once, which would record the
\* correction twice, as long as no other row took the screen's only slot.
OneClickAtATime == \A s \in Sales : Cardinality(Busy(s)) <= 1 \/ s \in disturbed

\* All lines of s are granted, by one plan or by several.
Assured(s) == \A p \in Products : Requested(s, p) > 0 => <<s, p>> \in granted

\* A sale whose lines are all granted gets through with plain retries, unless
\* others take from the stock, the rest of a plan fails or it is discarded.
TopUpGoesThrough ==
    \A s \in Sales :
        Assured(s) ~> s \in recorded \/ ~ Assured(s) \/ state[s] = "discarded"

\* "Record the stock the shelf actually held, then resend the sale"
\* (SyncResolutionScreen.jsx): a sale topped up by enough is not refused for
\* lack of stock again.  It is refuted: the sale is queued in its old place,
\* before the adjustments it waits for.
ToppedUpIsNotRefused ==
    [][\A s \in Sales : (Assured(s) /\ Assured(s)' /\ state[s] = "queued")
                            => state'[s] # "failed"]_vars
=============================================================================
