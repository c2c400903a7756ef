--------------------------- MODULE WriteApiProofs ---------------------------
(***************************************************************************)
(* Theorems about WriteApi, for every set of requests, intents and         *)
(* products and every pool.  They rest on one inductive invariant: the     *)
(* row locks are exclusive, what a handler has seen of a row it holds is   *)
(* still there, and the stock equals the ledger.                           *)
(***************************************************************************)
EXTENDS WriteApi, TLAPS

\* A request that was sent carries an intent.
Sent == \A r \in Requests : pc[r] # "unsent" => intent[r] \in Intents

\* Row locks: only of existing rows, only inside the transaction, exclusive.
Locks ==
    /\ \A r \in Requests : locked[r] \subseteq rows /\ want[r] \subseteq rows
    /\ \A r \in Requests : pc[r] \notin {"lock", "write"} => locked[r] = {}
    /\ \A r, o \in Requests : r # o => locked[r] \cap locked[o] = {}

\* What a handler has seen of the rows it holds is still true, and a product
\* without a row has no stock.
Sight ==
    /\ \A r \in Requests : \A p \in locked[r] : seen[r][p] = level[p]
    /\ \A p \in Products \ rows : level[p] = 0

IInv == TypeOK /\ Sent /\ Locks /\ Sight /\ StockMatchesLedger

LEMMA InitIInv == Init => IInv
  BY ProductsAssumption
     DEF Init, IInv, TypeOK, Sent, Locks, Sight, StockMatchesLedger, Stages, Replies

\* A transaction about to commit sees the present stock of what it touches,
\* so that it writes the present stock plus its effect.
LEMMA CommitSees ==
  ASSUME IInv, NEW r \in Requests, pc[r] = "write", ~ Conflicts(r)
  PROVE  /\ intent[r] \in Intents \ recorded
         /\ \A p \in Touches(intent[r]) :
              /\ Available(r, p) = level[p]
              /\ level[p] + Effect[intent[r]][p] \in Nat
         /\ \A p \in Products \ Touches(intent[r]) : Effect[intent[r]][p] = 0
  <1>1. intent[r] \in Intents \ recorded
    BY DEF IInv, Sent, Conflicts, Duplicate
  <1>2. Effect[intent[r]] \in [Products -> Int]
    BY <1>1, EffectAssumption
  <1>3. ASSUME NEW p \in Touches(intent[r])
        PROVE  /\ Available(r, p) = level[p]
               /\ level[p] + Effect[intent[r]][p] \in Nat
    <2>1. p \in Products
      BY DEF Touches
    <2>2. Available(r, p) = level[p]
      <3>1. CASE p \in locked[r]
        BY <3>1 DEF Available, IInv, Sight
      <3>2. CASE p \notin locked[r]
        BY <2>1, <3>2 DEF Available, IInv, Sight, Conflicts, RowClash
      <3>. QED BY <3>1, <3>2
    <2>3. level[p] \in Nat /\ Effect[intent[r]][p] \in Int
      BY <1>2, <2>1 DEF IInv, TypeOK
    <2>4. ~ (NewLevel(r, p) < 0)
      BY DEF Conflicts, Oversold
    <2>. QED BY <2>2, <2>3, <2>4 DEF NewLevel
  <1>4. ASSUME NEW p \in Products \ Touches(intent[r])
        PROVE  Effect[intent[r]][p] = 0
    BY DEF Touches
  <1>. QED BY <1>1, <1>3, <1>4

\* What a committing transaction does to the books.
LEMMA CommitApplies ==
  ASSUME IInv, NEW r \in Requests, Commit(r)
  PROVE  /\ intent[r] \in Intents \ recorded
         /\ \A p \in Products : level[p] + Effect[intent[r]][p] \in Nat
         /\ level' = [p \in Products |-> level[p] + Effect[intent[r]][p]]
         /\ recorded' = recorded \cup {intent[r]}
  <1>1. pc[r] = "write" /\ ~ Conflicts(r)
    BY DEF Commit
  <1>2. level \in [Products -> Nat]
    BY DEF IInv, TypeOK
  <1>3. ASSUME NEW p \in Products
        PROVE  /\ level[p] + Effect[intent[r]][p] \in Nat
               /\ level'[p] = level[p] + Effect[intent[r]][p]
    BY <1>1, <1>2, CommitSees DEF Commit, NewLevel
  <1>4. level' = [p \in Products |-> level[p] + Effect[intent[r]][p]]
    BY <1>3 DEF Commit
  <1>. QED BY <1>1, <1>3, <1>4, CommitSees DEF Commit

-----------------------------------------------------------------------------
(* Every step preserves the invariant                                      *)

\* Ending a transaction that wrote nothing disturbs nothing.
LEMMA EndPreserves ==
  ASSUME IInv, NEW r \in Requests, pc[r] # "unsent",
         NEW l \in Stages \ {"unsent", "lock", "write"}, EndTransaction(r, l),
         NEW a \in Replies, reply' \in {reply, [reply EXCEPT ![r] = a]},
         UNCHANGED <<dbVars, seen, intent>>
  PROVE  IInv'
  <1>. USE DEF IInv, TypeOK, EndTransaction, dbVars
  <1>1. TypeOK'
    OBVIOUS
  <1>2. Sent'
    BY DEF Sent
  <1>3. Locks'
    BY DEF Locks
  <1>4. Sight'
    BY DEF Sight
  <1>5. StockMatchesLedger'
    BY DEF StockMatchesLedger
  <1>. QED BY <1>1, <1>2, <1>3, <1>4, <1>5

\* A committing transaction holds its rows alone, so what others have seen of
\* theirs stays true.
LEMMA CommitPreserves ==
  ASSUME IInv, NEW r \in Requests, Commit(r)
  PROVE  IInv'
  <1>. DEFINE c == intent[r]
  <1>1. /\ c \in Intents
        /\ \A p \in Products : level[p] + Effect[c][p] \in Nat
        /\ level' = [p \in Products |-> level[p] + Effect[c][p]]
    BY CommitApplies
  <1>2. Effect[c] \in [Products -> Int]
    BY <1>1, EffectAssumption
  <1>3. \A p \in Products \ Touches(c) : level'[p] = level[p]
    <2>. SUFFICES ASSUME NEW p \in Products \ Touches(c)
                  PROVE  level'[p] = level[p]
      OBVIOUS
    <2>1. Effect[c][p] = 0 /\ level[p] \in Nat
      BY DEF Touches, IInv, TypeOK
    <2>. QED BY <1>1, <2>1
  <1>4. Touches(c) \subseteq Products
    BY DEF Touches
  <1>5. \A p \in Touches(c) : p \in locked[r] \/ p \notin rows
    BY DEF Commit, Conflicts, RowClash
  <1>6. TypeOK'
    <2>1. level' \in [Products -> Nat] /\ ledger' \in [Products -> Int]
      BY <1>1, <1>2 DEF Commit, IInv, TypeOK
    <2>2. rows' \subseteq Products /\ recorded' \subseteq Intents
      BY <1>1, <1>4 DEF Commit, IInv, TypeOK
    <2>. QED BY <2>1, <2>2 DEF Commit, EndTransaction, Stages, IInv, TypeOK
  <1>7. Sent'
    BY DEF Commit, EndTransaction, Sent, IInv, TypeOK
  <1>8. Locks'
    BY DEF Commit, EndTransaction, Locks, IInv, TypeOK
  <1>9. Sight'
    <2>1. ASSUME NEW o \in Requests, NEW p \in locked'[o]
          PROVE  seen'[o][p] = level'[p]
      <3>1. o # r /\ p \in locked[o]
        BY <2>1 DEF Commit, EndTransaction, IInv, TypeOK
      <3>2. p \in rows /\ p \notin locked[r] /\ p \in Products
        BY <3>1 DEF IInv, TypeOK, Locks
      <3>3. level'[p] = level[p]
        BY <1>3, <1>5, <3>2
      <3>. QED BY <3>1, <3>3 DEF Commit, IInv, Sight
    <2>2. ASSUME NEW p \in Products \ rows'
          PROVE  level'[p] = 0
      BY <1>3 DEF Commit, IInv, Sight
    <2>. QED BY <2>1, <2>2 DEF Sight
  <1>10. StockMatchesLedger'
    BY <1>1 DEF Commit, IInv, StockMatchesLedger
  <1>. QED BY <1>6, <1>7, <1>8, <1>9, <1>10 DEF IInv

LEMMA StepIInv == IInv /\ [Next]_vars => IInv'
  <1>. SUFFICES ASSUME IInv, [Next]_vars PROVE IInv'
    OBVIOUS
  <1>. USE DEF Stages, Replies
  <1>1. ASSUME NEW r \in Requests, NEW c \in Intents, Arrive(r, c)
        PROVE  IInv'
    BY <1>1 DEF Arrive, IInv, TypeOK, Sent, Locks, Sight, StockMatchesLedger,
                dbVars, txVars
  <1>2. ASSUME NEW r \in Requests, Precheck(r)
        PROVE  IInv'
    <2>1. CASE Answer(r, "replayed")
      BY <1>2, <2>1, EndPreserves DEF Precheck, Answer
    <2>2. CASE ~ Answer(r, "replayed")
      BY <1>2, <2>2 DEF Precheck, IInv, TypeOK, Sent, Locks, Sight,
                        StockMatchesLedger, dbVars
    <2>. QED BY <2>1, <2>2
  <1>3. ASSUME NEW r \in Requests, Admit(r)
        PROVE  IInv'
    <2>1. CASE Answer(r, "refused")
      BY <1>3, <2>1, EndPreserves DEF Admit, Answer
    <2>2. CASE ~ Answer(r, "refused")
      <3>. DEFINE w == Touches(intent[r]) \cap rows
      <3>1. /\ pc[r] = "admit" /\ pc' = [pc EXCEPT ![r] = "lock"]
            /\ want' = [want EXCEPT ![r] = w]
            /\ UNCHANGED <<dbVars, locked, seen, intent, reply>>
        BY <1>3, <2>2 DEF Admit
      <3>2. w \subseteq rows /\ w \subseteq Products
        BY DEF Touches
      <3>. HIDE DEF w
      <3>. QED BY <3>1, <3>2 DEF IInv, TypeOK, Sent, Locks, Sight,
                                StockMatchesLedger, dbVars
    <2>. QED BY <2>1, <2>2
  <1>4. ASSUME NEW r \in Requests, LockRow(r)
        PROVE  IInv'
    <2>. PICK p \in want[r] :
           /\ \A o \in Requests : p \notin locked[o]
           /\ locked' = [locked EXCEPT ![r] = @ \cup {p}]
           /\ seen' = [seen EXCEPT ![r][p] = level[p]]
           /\ want' = [want EXCEPT ![r] = @ \ {p}]
      BY <1>4 DEF LockRow
    <2>1. TypeOK'
      BY <1>4 DEF LockRow, IInv, TypeOK, dbVars
    <2>2. Sent' /\ StockMatchesLedger'
      BY <1>4 DEF LockRow, IInv, Sent, StockMatchesLedger, dbVars
    <2>3. Locks'
      BY <1>4 DEF LockRow, IInv, TypeOK, Locks, dbVars
    <2>4. Sight'
      BY <1>4 DEF LockRow, IInv, TypeOK, Sight, dbVars
    <2>. QED BY <2>1, <2>2, <2>3, <2>4 DEF IInv
  <1>5. ASSUME NEW r \in Requests, Check(r)
        PROVE  IInv'
    <2>1. CASE Answer(r, "refused")
      BY <1>5, <2>1, EndPreserves DEF Check, Answer
    <2>2. CASE ~ Answer(r, "refused")
      BY <1>5, <2>2 DEF Check, IInv, TypeOK, Sent, Locks, Sight,
                        StockMatchesLedger, dbVars
    <2>. QED BY <2>1, <2>2
  <1>6. ASSUME NEW r \in Requests, Commit(r)
        PROVE  IInv'
    BY <1>6, CommitPreserves
  <1>7. ASSUME NEW r \in Requests, Rollback(r)
        PROVE  IInv'
    BY <1>7, EndPreserves DEF Rollback
  <1>8. ASSUME NEW r \in Requests,
               Refresh(r) \/ FetchWinner(r) \/ Lose(r) \/ PoolTimeout(r)
        PROVE  IInv'
    BY <1>8, EndPreserves DEF Refresh, FetchWinner, Lose, PoolTimeout, Answer
  <1>9. CASE UNCHANGED vars
    BY <1>9 DEF IInv, TypeOK, Sent, Locks, Sight, StockMatchesLedger, vars,
                dbVars, txVars
  <1>. QED BY <1>1, <1>2, <1>3, <1>4, <1>5, <1>6, <1>7, <1>8, <1>9
           DEF Next, Handle

THEOREM Invariance == Spec => []IInv
  BY InitIInv, StepIInv, PTL DEF Spec

-----------------------------------------------------------------------------
(* Theorems                                                                *)

\* Every variable keeps its type: in particular no stock is ever negative.
THEOREM TypeCorrect == Spec => []TypeOK
  BY Invariance, PTL DEF IInv

\* The stock cached in stock_levels is the sum of the ledger, whatever
\* requests interleave, repeat or die.
THEOREM StockIsLedger == Spec => []StockMatchesLedger
  BY Invariance, PTL DEF IInv

LEMMA BooksInit == Init => Books!Init
  BY DEF Init, Books!Init

LEMMA BooksStep == IInv /\ [Next]_vars => [Books!Next]_(Books!vars)
  <1>. SUFFICES ASSUME IInv, [Next]_vars PROVE [Books!Next]_(Books!vars)
    OBVIOUS
  <1>1. ASSUME NEW r \in Requests, Commit(r)
        PROVE  Books!Next
    <2>1. Books!Apply(intent[r])
      BY <1>1, CommitApplies DEF Books!Apply
    <2>. QED BY <1>1, <2>1, CommitApplies DEF Books!Next
  <1>2. CASE ~ \E r \in Requests : Commit(r)
    <2>1. UNCHANGED <<level, recorded>>
      BY <1>2 DEF Next, Handle, vars, dbVars, Arrive, Precheck, Admit, LockRow,
                  Check, Rollback, Refresh, FetchWinner, Lose, PoolTimeout
    <2>. QED BY <2>1 DEF Books!vars
  <1>. QED BY <1>1, <1>2

\* The handlers, their locks and their races implement the abstract ledger:
\* each intent is applied at most once, as a whole and to the present stock.
THEOREM ImplementsLedger == Spec => KeepsLedger
  <1>1. Spec => [][Books!Next]_(Books!vars)
    BY Invariance, BooksStep, PTL DEF Spec
  <1>2. Spec => Books!Init
    BY BooksInit DEF Spec
  <1>. QED BY <1>1, <1>2 DEF KeepsLedger, Books!Spec

-----------------------------------------------------------------------------
(* What clients are told                                                   *)

\* Request r recorded its intent, answered already or about to be.
Wrote(r) == pc[r] = "committed" \/ reply[r] = "created"

Answers ==
    /\ \A r \in Requests : reply[r] # "none" => pc[r] = "done"
    /\ \A r \in Requests : Wrote(r) \/ reply[r] = "replayed" => intent[r] \in recorded
    /\ \A r, o \in Requests : Wrote(r) /\ Wrote(o) /\ intent[r] = intent[o] => r = o

\* A step of r that records nothing and tells the client no untruth.
LEMMA OtherAnswers ==
  ASSUME TypeOK, Answers, NEW r \in Requests, pc[r] # "done",
         NEW a \in Replies \ {"created"}, a = "replayed" => intent[r] \in recorded,
         Answer(r, a), UNCHANGED <<recorded, intent>>
  PROVE  Answers'
  BY DEF TypeOK, Answers, Wrote, Answer, EndTransaction

LEMMA SilentSteps ==
  ASSUME TypeOK, Answers, NEW r \in Requests, pc[r] # "done",
         pc' = pc \/ \E l \in Stages \ {"committed"} : pc' = [pc EXCEPT ![r] = l],
         UNCHANGED <<recorded, intent, reply>>
  PROVE  Answers'
  BY DEF TypeOK, Answers, Wrote

LEMMA StepAnswers == IInv /\ Answers /\ [Next]_vars => Answers'
  <1>. SUFFICES ASSUME IInv, Answers, [Next]_vars PROVE Answers'
    OBVIOUS
  <1>. USE DEF Stages, Replies, dbVars
  <1>. TypeOK
    BY DEF IInv
  <1>1. ASSUME NEW r \in Requests, NEW c \in Intents, Arrive(r, c)
        PROVE  Answers'
    BY <1>1 DEF Arrive, TypeOK, Answers, Wrote
  <1>2. ASSUME NEW r \in Requests, Precheck(r) PROVE Answers'
    BY <1>2, OtherAnswers, SilentSteps DEF Precheck
  <1>3. ASSUME NEW r \in Requests, Admit(r) \/ Check(r) PROVE Answers'
    <2>1. pc[r] # "done" /\ UNCHANGED <<recorded, intent>>
      BY <1>3 DEF Admit, Check
    <2>2. CASE Answer(r, "refused")
      BY <2>1, <2>2, OtherAnswers
    <2>3. CASE ~ Answer(r, "refused")
      BY <1>3, <2>1, <2>3, SilentSteps DEF Admit, Check
    <2>. QED BY <2>2, <2>3
  <1>4. ASSUME NEW r \in Requests, LockRow(r) PROVE Answers'
    BY <1>4 DEF LockRow, Answers, Wrote
  <1>5. ASSUME NEW r \in Requests, Commit(r) PROVE Answers'
    <2>1. intent[r] \notin recorded
      BY <1>5 DEF Commit, Conflicts, Duplicate
    <2>. QED BY <1>5, <2>1 DEF Commit, EndTransaction, TypeOK, Answers, Wrote
  <1>6. ASSUME NEW r \in Requests, Rollback(r) PROVE Answers'
    BY <1>6, SilentSteps DEF Rollback, EndTransaction
  <1>7. ASSUME NEW r \in Requests, Refresh(r) PROVE Answers'
    BY <1>7 DEF Refresh, Answer, EndTransaction, TypeOK, Answers, Wrote
  <1>8. ASSUME NEW r \in Requests, FetchWinner(r) PROVE Answers'
    <2>1. pc[r] # "done" /\ UNCHANGED <<recorded, intent>>
      BY <1>8 DEF FetchWinner
    <2>2. CASE intent[r] \in recorded
      BY <1>8, <2>1, <2>2, OtherAnswers DEF FetchWinner
    <2>3. CASE intent[r] \notin recorded
      BY <1>8, <2>1, <2>3, OtherAnswers DEF FetchWinner
    <2>. QED BY <2>2, <2>3
  <1>9. ASSUME NEW r \in Requests, Lose(r) \/ PoolTimeout(r) PROVE Answers'
    <2>1. pc[r] # "done" /\ UNCHANGED <<recorded, intent>>
      BY <1>9 DEF Lose, PoolTimeout
    <2>. QED BY <1>9, <2>1, OtherAnswers DEF Lose, PoolTimeout
  <1>10. CASE UNCHANGED vars
    BY <1>10 DEF vars, Answers, Wrote
  <1>. QED BY <1>1, <1>2, <1>3, <1>4, <1>5, <1>6, <1>7, <1>8, <1>9, <1>10
           DEF Next, Handle

\* No two deliveries of an intent are both told they recorded it, and none is
\* told that it is recorded when it is not.
THEOREM AnswersTheorem == Spec => []AnswersAreTrue
  <1>1. Init => Answers
    BY DEF Init, Answers, Wrote
  <1>2. Answers => AnswersAreTrue
    BY DEF Answers, AnswersAreTrue, Wrote
  <1>. QED BY <1>1, <1>2, Invariance, StepAnswers, PTL DEF Spec

-----------------------------------------------------------------------------
(* The locked check cannot be raced                                        *)

Checked == \A r \in Requests : pc[r] = "write" => Covered(r)

\* Once past its check a handler sees the same stock until it commits.
LEMMA StepChecked == IInv /\ Checked /\ [Next]_vars => Checked'
  <1>. SUFFICES ASSUME IInv, Checked, [Next]_vars,
                       NEW r \in Requests, pc'[r] = "write"
                PROVE  Covered(r)'
    BY DEF Checked
  <1>1. CASE pc[r] = "write"
    <2>1. Covered(r)
      BY <1>1 DEF Checked
    <2>2. locked'[r] = locked[r] /\ seen'[r] = seen[r] /\ intent'[r] = intent[r]
      BY <1>1 DEF IInv, TypeOK, Next, Handle, vars, dbVars, txVars, Arrive,
                  Precheck, Admit, LockRow, Check, Commit, Rollback, Refresh,
                  FetchWinner, Lose, PoolTimeout, Answer, EndTransaction
    <2>. QED BY <2>1, <2>2 DEF Covered, Touches, Available
  <1>2. CASE pc[r] # "write"
    <2>1. Check(r)
      BY <1>2 DEF IInv, TypeOK, Next, Handle, vars, dbVars, txVars, Arrive,
                  Precheck, Admit, LockRow, Check, Commit, Rollback, Refresh,
                  FetchWinner, Lose, PoolTimeout, Answer, EndTransaction
    <2>2. Covered(r) /\ UNCHANGED <<seen, intent, locked>>
      BY <2>1 DEF Check, Answer, EndTransaction, IInv, TypeOK
    <2>. QED BY <2>2 DEF Covered, Touches, Available
  <1>. QED BY <1>1, <1>2

\* What a handler checked is still in the committed stock when it writes,
\* whatever commits in between: every row it sells from is locked (one without
\* a lock counts for nothing and covers no line), nobody else writes a locked
\* row, and so what the handler saw is what is committed.
THEOREM CheckCannotBeRaced == Spec => []CheckStillHolds
  <1>1. Init => Checked
    BY DEF Init, Checked
  <1>2. IInv /\ Checked => CheckStillHolds
    <2>. SUFFICES ASSUME IInv, Checked, NEW r \in Requests, pc[r] = "write",
                         NEW p \in Touches(intent[r]), Effect[intent[r]][p] < 0
                  PROVE  /\ level[p] >= Need[intent[r]][p]
                         /\ NewLevel(r, p) = level[p] + Effect[intent[r]][p]
      BY DEF CheckStillHolds
    <2>. DEFINE c == intent[r]
    <2>1. c \in Intents /\ p \in Products
      BY DEF IInv, Sent, Touches
    <2>2. Effect[c][p] \in Int /\ Need[c][p] \in Int /\ Need[c][p] > 0
      BY <2>1, EffectAssumption, NeedAssumption
    <2>3. Available(r, p) >= Need[c][p]
      BY DEF Checked, Covered
    <2>4. p \in locked[r]
      BY <2>2, <2>3 DEF Available
    <2>5. Available(r, p) = level[p]
      BY <2>4 DEF Available, IInv, Sight
    <2>. QED BY <2>3, <2>5 DEF NewLevel
  <1>. QED BY <1>1, <1>2, Invariance, StepChecked, PTL DEF Spec
=============================================================================
