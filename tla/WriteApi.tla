------------------------------ MODULE WriteApi ------------------------------
(***************************************************************************)
(* The three write endpoints of the API: POST /sales, /stock/adjustments   *)
(* and /expenses (apps/api/app/routers), each handler a coroutine with a   *)
(* database session of its own, over one Postgres at READ COMMITTED.       *)
(*                                                                         *)
(* One action stands for one database round trip of a handler; handlers    *)
(* interleave between them.  A row of stock_levels is locked by SELECT     *)
(* ... FOR UPDATE, one row at a time in the order of product_id, until the *)
(* transaction ends; what the statement has locked is read in its latest   *)
(* committed version, and rows inserted since the statement began are not  *)
(* seen.  Flush and commit are one action: Postgres makes the second       *)
(* INSERT of a unique key wait for the first, so the first to insert wins  *)
(* just as if both happened at once.                                       *)
(*                                                                         *)
(* One outlet is modelled.  Prices, totals, authorisation and the answers' *)
(* bodies are left out: an intent is what it does to the stock.            *)
(***************************************************************************)
EXTENDS Integers, FiniteSets

CONSTANTS
    Requests,    \* the requests of a behaviour, repeated deliveries included
    Intents,     \* client_ids of sales, adjustments and expenses
    NoIntent,    \* the intent of a request not sent yet
    Products,    \* product_ids, numbers in the order of the row locks
    Catalog,     \* the products of the outlet's tenant
    Opening,     \* Opening[p]: stock_levels.quantity at the start
    Stocked,     \* products that have a row in stock_levels at the start
    Effect,      \* Effect[c][p]: the sum of the stock movements of c for p
    Need,        \* Need[c][p]: the stock of p the handler asks for
    Slots,       \* connections of the pool: POOL_SIZE + MAX_OVERFLOW
    Unreliable   \* containers, connections and waits for the pool may fail

ASSUME IntentsAssumption == NoIntent \notin Intents
ASSUME ProductsAssumption ==
    /\ Products \subseteq Nat /\ Catalog \subseteq Products /\ Stocked \subseteq Products
    /\ Opening \in [Products -> Nat]
    /\ \A p \in Products \ Stocked : Opening[p] = 0
ASSUME EffectAssumption == Effect \in [Intents -> [Products -> Int]]
\* A sale asks for the quantity of each line separately (sales.py), so for no
\* more than the lines of a product together; an adjustment for -delta.  A
\* line sells at least one piece.
ASSUME NeedAssumption ==
    /\ Need \in [Intents -> [Products -> Int]]
    /\ \A c \in Intents, p \in Products :
         Effect[c][p] < 0 => Need[c][p] > 0 /\ Need[c][p] <= -Effect[c][p]
ASSUME PoolAssumption == Slots \in Nat \ {0} /\ Unreliable \in BOOLEAN

VARIABLES
    level,      \* level[p]: quantity of the stock_levels row of p, 0 without one
    rows,       \* products that have a row in stock_levels
    ledger,     \* ledger[p]: opening stock plus the stock_movements of p
    recorded,   \* client_ids of the committed sales, movements and expenses
    pc,         \* pc[r]: where the handler of request r is
    intent,     \* intent[r]: the client_id in the body of r
    want,       \* want[r]: rows its SELECT ... FOR UPDATE still has to lock
    locked,     \* locked[r]: rows its transaction holds
    seen,       \* seen[r][p]: quantity read from a locked row
    reply       \* reply[r]: what the client is told

dbVars == <<level, rows, ledger, recorded>>
txVars == <<want, locked, seen>>
vars == <<dbVars, txVars, pc, intent, reply>>

Stages == {"unsent", "arrived", "admit", "lock", "write", "conflict", "committed", "done"}
Replies == {"none", "created", "replayed", "refused", "error", "lost"}

\* The products an intent moves: those of a sale's lines, or the one adjusted.
Touches(c) == {p \in Products : Effect[c][p] # 0}

\* Handlers that hold a connection: the session takes one at its first query
\* and gives it back when its transaction ends.
Connected == {r \in Requests : pc[r] \in {"admit", "lock", "write"}}
FreeSlot == Cardinality(Connected) < Slots

TypeOK ==
    /\ level \in [Products -> Nat]
    /\ rows \subseteq Products
    /\ ledger \in [Products -> Int]
    /\ recorded \subseteq Intents
    /\ pc \in [Requests -> Stages]
    /\ intent \in [Requests -> Intents \cup {NoIntent}]
    /\ want \in [Requests -> SUBSET Products]
    /\ locked \in [Requests -> SUBSET Products]
    /\ seen \in [Requests -> [Products -> Nat]]
    /\ reply \in [Requests -> Replies]

Init ==
    /\ level = Opening
    /\ rows = Stocked
    /\ ledger = Opening
    /\ recorded = {}
    /\ pc = [r \in Requests |-> "unsent"]
    /\ intent = [r \in Requests |-> NoIntent]
    /\ want = [r \in Requests |-> {}]
    /\ locked = [r \in Requests |-> {}]
    /\ seen = [r \in Requests |-> [p \in Products |-> 0]]
    /\ reply = [r \in Requests |-> "none"]

-----------------------------------------------------------------------------
(* Shared steps of the handlers                                            *)

\* The client sends, or sends again, an intent; nothing stops it from doing
\* so while an earlier delivery is still being processed.
Arrive(r, c) ==
    /\ pc[r] = "unsent"
    /\ pc' = [pc EXCEPT ![r] = "arrived"]
    /\ intent' = [intent EXCEPT ![r] = c]
    /\ UNCHANGED <<dbVars, txVars, reply>>

\* The transaction ends and its locks are gone; the handler goes on to l.
EndTransaction(r, l) ==
    /\ pc' = [pc EXCEPT ![r] = l]
    /\ locked' = [locked EXCEPT ![r] = {}]
    /\ want' = [want EXCEPT ![r] = {}]

Answer(r, a) ==
    /\ EndTransaction(r, "done")
    /\ reply' = [reply EXCEPT ![r] = a]

\* Authentication and the idempotency check; a known client_id is replayed.
Precheck(r) ==
    /\ pc[r] = "arrived" /\ FreeSlot
    /\ \/ intent[r] \in recorded /\ Answer(r, "replayed")
       \/ /\ intent[r] \notin recorded
          /\ pc' = [pc EXCEPT ![r] = "admit"]
          /\ UNCHANGED <<want, locked, reply>>
    /\ UNCHANGED <<dbVars, seen, intent>>

\* The products must be in the catalogue; then the FOR UPDATE statement takes
\* its snapshot.  An expense has none of this and goes straight to its INSERT.
Admit(r) ==
    /\ pc[r] = "admit"
    /\ \/ ~ Touches(intent[r]) \subseteq Catalog /\ Answer(r, "refused")
       \/ /\ Touches(intent[r]) \subseteq Catalog
          /\ pc' = [pc EXCEPT ![r] = "lock"]
          /\ want' = [want EXCEPT ![r] = Touches(intent[r]) \cap rows]
          /\ UNCHANGED <<locked, reply>>
    /\ UNCHANGED <<dbVars, seen, intent>>

\* Mutants: a plain SELECT, which waits for nobody; no ORDER BY.
LockRowUnlocked(r) ==
    /\ pc[r] = "lock"
    /\ \E p \in want[r] :
         /\ \A q \in want[r] : p <= q
         /\ locked' = [locked EXCEPT ![r] = @ \cup {p}]
         /\ seen' = [seen EXCEPT ![r][p] = level[p]]
         /\ want' = [want EXCEPT ![r] = @ \ {p}]
    /\ UNCHANGED <<dbVars, pc, intent, reply>>
LockRowAnyOrder(r) ==
    /\ pc[r] = "lock"
    /\ \E p \in want[r] :
         /\ \A o \in Requests : p \notin locked[o]
         /\ locked' = [locked EXCEPT ![r] = @ \cup {p}]
         /\ seen' = [seen EXCEPT ![r][p] = level[p]]
         /\ want' = [want EXCEPT ![r] = @ \ {p}]
    /\ UNCHANGED <<dbVars, pc, intent, reply>>

\* The next row, in the order of product_id, once no transaction holds it;
\* the statement re-reads the row it had to wait for.
LockRow(r) ==
    /\ pc[r] = "lock"
    /\ \E p \in want[r] :
         /\ \A q \in want[r] : p <= q
         /\ \A o \in Requests : p \notin locked[o]
         /\ locked' = [locked EXCEPT ![r] = @ \cup {p}]
         /\ seen' = [seen EXCEPT ![r][p] = level[p]]
         /\ want' = [want EXCEPT ![r] = @ \ {p}]
    /\ UNCHANGED <<dbVars, pc, intent, reply>>

\* What the handler believes is in stock: nothing, without a row.
Available(r, p) == IF p \in locked[r] THEN seen[r][p] ELSE 0

Covered(r) == \A p \in Touches(intent[r]) : Available(r, p) >= Need[intent[r]][p]

\* The stock check; a refusal closes the session and frees the rows.
Check(r) ==
    /\ pc[r] = "lock" /\ want[r] = {}
    /\ \/ ~ Covered(r) /\ Answer(r, "refused")
       \/ /\ Covered(r)
          /\ pc' = [pc EXCEPT ![r] = "write"]
          /\ UNCHANGED <<want, locked, reply>>
    /\ UNCHANGED <<dbVars, seen, intent>>

-----------------------------------------------------------------------------
(* Commit                                                                  *)

\* The absolute quantity written to the row of p.
NewLevel(r, p) == Available(r, p) + Effect[intent[r]][p]

\* IntegrityError: the client_id exists, a row for the same product does, or
\* a quantity would be negative.
Duplicate(r) == intent[r] \in recorded
RowClash(r) == \E p \in Touches(intent[r]) : p \notin locked[r] /\ p \in rows
Oversold(r) == \E p \in Touches(intent[r]) : NewLevel(r, p) < 0

\* Mutants: no UNIQUE on client_id; no CHECK on the quantity.
ConflictsNotUnique(r) == RowClash(r) \/ Oversold(r)
ConflictsUnchecked(r) == Duplicate(r) \/ RowClash(r)

Conflicts(r) == Duplicate(r) \/ RowClash(r) \/ Oversold(r)

Commit(r) ==
    /\ pc[r] = "write" /\ ~ Conflicts(r)
    /\ recorded' = recorded \cup {intent[r]}
    /\ level' = [p \in Products |->
                   IF p \in Touches(intent[r]) THEN NewLevel(r, p) ELSE level[p]]
    /\ rows' = rows \cup Touches(intent[r])
    /\ ledger' = [p \in Products |-> ledger[p] + Effect[intent[r]][p]]
    /\ EndTransaction(r, "committed")
    /\ UNCHANGED <<seen, intent, reply>>

\* The commit raised IntegrityError: rollback.
Rollback(r) ==
    /\ pc[r] = "write" /\ Conflicts(r)
    /\ EndTransaction(r, "conflict")
    /\ UNCHANGED <<dbVars, seen, intent, reply>>

\* refresh() in a new transaction, then 201.
Refresh(r) ==
    /\ pc[r] = "committed" /\ FreeSlot
    /\ Answer(r, "created")
    /\ UNCHANGED <<dbVars, seen, intent>>

\* Mutant: takes every IntegrityError for a replay.
FetchWinnerBlindly(r) ==
    /\ pc[r] = "conflict" /\ FreeSlot
    /\ Answer(r, "replayed")
    /\ UNCHANGED <<dbVars, seen, intent>>

\* The winner's row answers as a replay; without one the error is raised
\* again, a 500 that the client may retry.
FetchWinner(r) ==
    /\ pc[r] = "conflict" /\ FreeSlot
    /\ Answer(r, IF intent[r] \in recorded THEN "replayed" ELSE "error")
    /\ UNCHANGED <<dbVars, seen, intent>>

-----------------------------------------------------------------------------
(* Failures                                                                *)

\* The container or its connection dies: an open transaction is rolled back,
\* what is committed stays, and the client hears nothing.
Lose(r) ==
    /\ Unreliable /\ pc[r] \notin {"unsent", "done"}
    /\ Answer(r, "lost")
    /\ UNCHANGED <<dbVars, seen, intent>>

\* The wait for a connection of the pool is given up: a 500.
PoolTimeout(r) ==
    /\ Unreliable /\ pc[r] \in {"arrived", "committed", "conflict"} /\ ~ FreeSlot
    /\ Answer(r, "error")
    /\ UNCHANGED <<dbVars, seen, intent>>

-----------------------------------------------------------------------------
Handle(r) ==
    \/ Precheck(r) \/ Admit(r) \/ LockRow(r) \/ Check(r)
    \/ Commit(r) \/ Rollback(r) \/ Refresh(r) \/ FetchWinner(r)

Next ==
    \E r \in Requests :
        \/ \E c \in Intents : Arrive(r, c)
        \/ Handle(r)
        \/ Lose(r) \/ PoolTimeout(r)

Spec == Init /\ [][Next]_vars

\* Handlers, the database and the pool make progress; clients need not send.
Fairness == \A r \in Requests : WF_vars(Handle(r))

FairSpec == Spec /\ Fairness

-----------------------------------------------------------------------------
(* Properties                                                              *)

\* The cached quantity of every product is the sum of its movements, however
\* requests interleave, repeat or die (the lost update of sales.py and
\* tests/test_stock_concurrency.py).
StockMatchesLedger == level = ledger

\* The books change as Ledger promises: every step of the handlers applies
\* one intent that was not applied before, as a whole, to the stock of that
\* moment, or changes nothing.
Books == INSTANCE Ledger WITH balance <- level
KeepsLedger == Books!Spec

\* Two deliveries of an intent are never both told they recorded it, and no
\* delivery is told so, or that it was a replay, unless it is recorded
\* (the replay contract of sales.py, stock.py and expenses.py).
AnswersAreTrue ==
    /\ \A r \in Requests : reply[r] \in {"created", "replayed"} => intent[r] \in recorded
    /\ \A r, o \in Requests :
         reply[r] = "created" /\ reply[o] = "created" /\ intent[r] = intent[o] => r = o

\* The stock check cannot be raced: whatever other handlers commit between a
\* handler's check and its INSERT, the committed stock, not only what the
\* handler remembers of it, still has what each of its lines asked for, and
\* the absolute quantity it is about to write starts from that stock.  So only
\* the lines of one product together can still meet CHECK (quantity >= 0)
\* (sales.py; models.py, StockLevel).
CheckStillHolds ==
    \A r \in Requests : pc[r] = "write" =>
        \A p \in Touches(intent[r]) : Effect[intent[r]][p] < 0 =>
            /\ level[p] >= Need[intent[r]][p]
            /\ NewLevel(r, p) = level[p] + Effect[intent[r]][p]

\* A request is refused as out of stock or unknown only if its intent is not
\* recorded: a replay never fails differently than the first delivery did
\* (routers/sales.py).
RefusedMeansUnrecorded ==
    [][\A r \in Requests :
         reply[r] # "refused" /\ reply'[r] = "refused" => intent[r] \notin recorded]_vars

\* Every request is answered: rows are locked in one global order, so waits
\* never form a cycle, and a handler waits for a connection only when it
\* holds no row (db.py, sales.py).
EveryRequestAnswered == \A r \in Requests : pc[r] = "arrived" ~> pc[r] = "done"
=============================================================================
