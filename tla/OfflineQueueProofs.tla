------------------------- MODULE OfflineQueueProofs -------------------------
(***************************************************************************)
(* Theorems about OfflineQueue, for any number of tabs, users, entries,    *)
(* crashes and sign-ins: what a cashier recorded is never lost, 'synced'   *)
(* means that the server has it, the queue implements Outbox; and, with    *)
(* one tab that is not killed, only people move an entry out of 'failed'.  *)
(* The invariants behind them say what the asynchronous functions carry    *)
(* across their awaits: a request on its way is for the entry its tab      *)
(* waits with, and a list read for a prune, a reconcile or the screen      *)
(* names only entries that are settled, or accepted, or still in the state *)
(* they were read in.                                                      *)
(***************************************************************************)
EXTENDS OfflineQueue, TLAPS

\* A dispatch or a click is about an entry, and a call that is waited for is about the
\* entry of the dispatch that waits.
Dispatching ==
    /\ \A t \in Tabs : pc[t] \in {"mark", "send", "wait"} => cur[t] \in Ids
    /\ \A t \in Tabs : click[t].kind \in Kinds => click[t].id \in Ids
    /\ \A r \in wire : r.tab # NoTab => pc[r.tab] = "wait" /\ r.id = cur[r.tab]

\* An acknowledgement on its way is true.
AnswersHold == \A r \in wire : r.st = "ok" => r.id \in recorded

\* 'discarded' is what a person gave up; lists read for a prune hold nothing
\* that is still owed to anybody.
DiscardedMeansAbandoned == InState({"discarded"}) \subseteq abandoned
PruneLists ==
    \A t \in Tabs : /\ pc[t] = "delete" => todo[t] \subseteq recorded \cup abandoned
                    /\ boot[t].prune \subseteq recorded \cup abandoned

IInv ==
    /\ TypeOK /\ Dispatching /\ AnswersHold
    /\ SyncedMeansRecorded /\ DiscardedMeansAbandoned /\ PruneLists
    /\ AcceptedNeverLost

LEMMA InitIInv == Init => IInv
  BY BoundsAssumption
     DEF Init, IInv, TypeOK, Dispatching, AnswersHold, SyncedMeansRecorded,
         DiscardedMeansAbandoned, PruneLists, AcceptedNeverLost, InState, Ids,
         States, Unsynced, Resolved, Passing, Kinds, NoClick, EmptyBoot, NoEntry

-----------------------------------------------------------------------------
(* What the operators that write to IndexedDB do                           *)

\* A write replaces the state of its entry; to the others it does at most what
\* the emergency prune does.
LEMMA PersistEffect ==
  ASSUME TypeOK, NEW t \in Tabs, NEW i, NEW s \in States, Persist(t, i, s)
  PROVE  /\ state' \in [Ids -> States] /\ old' \subseteq Ids
         /\ view' \in [Tabs -> SUBSET Ids]
         /\ \A j \in Ids : \/ j = i /\ state'[j] = s
                           \/ j # i /\ state'[j] = state[j]
                           \/ j # i /\ state[j] \in Resolved /\ state'[j] = "absent"
  <1>1. state \in [Ids -> States] /\ old \subseteq Ids /\ view \in [Tabs -> SUBSET Ids]
    BY DEF TypeOK
  <1>2. Emergency \in [Ids -> States]
    BY <1>1 DEF Emergency, States
  <1>. QED BY <1>1, <1>2 DEF Persist, Notify, Emergency

LEMMA PersistFailsEffect ==
  ASSUME TypeOK, NEW t \in Tabs, PersistFails(t)
  PROVE  /\ state' \in [Ids -> States] /\ old' \subseteq Ids
         /\ view' \in [Tabs -> SUBSET Ids]
         /\ \A j \in Ids : \/ state'[j] = state[j]
                           \/ state[j] \in Resolved /\ state'[j] = "absent"
  <1>1. state \in [Ids -> States] /\ old \subseteq Ids /\ view \in [Tabs -> SUBSET Ids]
    BY DEF TypeOK
  <1>2. Emergency \in [Ids -> States]
    BY <1>1 DEF Emergency, States
  <1>. QED BY <1>1, <1>2 DEF PersistFails, Notify, Emergency

\* Forgetting a call keeps the other requests and renames nothing else.
LEMMA ForgetEffect ==
  ASSUME TypeOK, NEW t \in Tabs
  PROVE  /\ Forget(t) \subseteq Request
         /\ \A r \in Forget(t) : r.tab # t
         /\ \A r \in Forget(t) : r \in wire \/ (r.tab = NoTab /\ r.st # "ok")
  BY TabsAssumption DEF TypeOK, Forget, Moved, Calls, Request

-----------------------------------------------------------------------------
(* Types                                                                   *)

LEMMA StepTypeOK == TypeOK /\ Dispatching /\ [Next]_vars => TypeOK'
  <1>. SUFFICES ASSUME TypeOK, Dispatching, [Next]_vars PROVE TypeOK'
    OBVIOUS
  <1>. USE DEF deviceVars, tabVars, authVars, serverVars, historyVars
  <1>1. ASSUME NEW t \in Tabs, Enqueue(t) PROVE TypeOK'
    <2>1. /\ count + 1 \in Ids /\ count' = count + 1 /\ count' \in 0..MaxEntries
          /\ profile \in Users \cup {NoUser}
      BY <1>1, BoundsAssumption DEF Enqueue, TypeOK, Ids
    <2>2. state' \in [Ids -> States] /\ old' \subseteq Ids /\ view' \in [Tabs -> SUBSET Ids]
      <3>. "queued" \in States
        BY DEF States, Unsynced
      <3>. QED BY <1>1, PersistEffect, PersistFailsEffect DEF Enqueue
    <2>3. accepted' \subseteq Ids
      BY <1>1, <2>1 DEF Enqueue, TypeOK
    <2>4. kicks' \in [Tabs -> SUBSET {"enqueue", "retry", "profile"}]
      BY <1>1 DEF Enqueue, TypeOK
    <2>5. creator' \in [Ids -> Users \cup {NoUser}]
      BY <1>1, <2>1 DEF Enqueue, TypeOK
    <2>. QED BY <1>1, <2>1, <2>2, <2>3, <2>4, <2>5 DEF Enqueue, TypeOK
  <1>2. ASSUME NEW t \in Tabs, NEW k \in {"enqueue", "retry", "profile"}, Kick(t, k)
        PROVE  TypeOK'
    BY <1>2 DEF Kick, StartFlush, TypeOK, Passing
  <1>3. ASSUME NEW t \in Tabs, NEW i \in Ids, TimerFires(t, i) PROVE TypeOK'
    BY <1>3 DEF TimerFires, StartFlush, TypeOK, Passing
  <1>4. ASSUME Reconnect \/ GoOffline PROVE TypeOK'
    BY <1>4 DEF Reconnect, GoOffline, TypeOK, Passing
  <1>5. ASSUME NEW t \in Tabs, IdentityRead(t) \/ StaleRead(t) PROVE TypeOK'
    <2>1. CASE IdentityRead(t)
      <3>1. \E S \in SUBSET Ids : todo' = [todo EXCEPT ![t] = S]
        BY <2>1 DEF IdentityRead, InState
      <3>. QED BY <2>1, <3>1 DEF IdentityRead, Goto, TypeOK, Passing
    <2>2. CASE StaleRead(t)
      <3>1. \E S \in SUBSET Ids : todo' = [todo EXCEPT ![t] = S]
        BY <2>2 DEF StaleRead, InState
      <3>. QED BY <2>2, <3>1 DEF StaleRead, Goto, TypeOK, Passing
    <2>. QED BY <1>5, <2>1, <2>2
  <1>6. ASSUME NEW t \in Tabs, ReconcileWrite(t) PROVE TypeOK'
    <2>1. state' \in [Ids -> States] /\ old' \subseteq Ids /\ view' \in [Tabs -> SUBSET Ids]
      <3>. "queued" \in States
        BY DEF States, Unsynced
      <3>. QED BY <1>6, PersistEffect, PersistFailsEffect DEF ReconcileWrite
    <2>2. todo' \in [Tabs -> SUBSET Ids]
      <3>1. \E S \in SUBSET Ids : todo' = [todo EXCEPT ![t] = S]
        BY <1>6 DEF ReconcileWrite, FinishPass, TypeOK
      <3>. QED BY <3>1 DEF TypeOK
    <2>3. /\ pc' \in [Tabs -> Passing \cup {"idle", "closed"}]
          /\ cur' \in [Tabs -> Ids \cup {NoEntry}]
      BY <1>6 DEF ReconcileWrite, FinishPass, Goto, TypeOK
    <2>. QED BY <1>6, <2>1, <2>2, <2>3 DEF ReconcileWrite, TypeOK
  <1>7. ASSUME NEW t \in Tabs, PickNext(t) \/ PruneRead(t) PROVE TypeOK'
    <2>1. CASE PickNext(t)
      <3>1. \E i \in Ids : /\ cur' = [cur EXCEPT ![t] = i]
                           /\ tried' = [tried EXCEPT ![t] = @ \cup {i}]
        BY <2>1 DEF PickNext, Eligible, InState
      <3>. QED BY <2>1, <3>1 DEF PickNext, Goto, TypeOK, Passing
    <2>2. CASE PruneRead(t)
      <3>1. \E S \in SUBSET Ids : todo' = [todo EXCEPT ![t] = S]
        BY <2>2 DEF PruneRead, InState
      <3>. QED BY <2>2, <3>1 DEF PruneRead, Goto, TypeOK, Passing
    <2>. QED BY <1>7, <2>1, <2>2
  <1>8. ASSUME NEW t \in Tabs, PruneDelete(t) PROVE TypeOK'
    BY <1>8 DEF PruneDelete, FinishPass, Goto, Notify, TypeOK, Passing, States
  <1>9. ASSUME NEW t \in Tabs, Mark(t) PROVE TypeOK'
    <2>1. state' \in [Ids -> States] /\ old' \subseteq Ids /\ view' \in [Tabs -> SUBSET Ids]
      <3>. "blocked" \in States /\ "syncing" \in States
        BY DEF States, Unsynced
      <3>. QED BY <1>9, PersistEffect, PersistFailsEffect DEF Mark
    <2>. QED BY <1>9, <2>1 DEF Mark, FinishPass, Goto, TypeOK, Passing
  <1>10. ASSUME NEW t \in Tabs, Send(t) PROVE TypeOK'
    <2>1. cur[t] \in Ids
      BY <1>10 DEF Send, Dispatching
    <2>2. [id |-> cur[t], tab |-> t, as |-> token, st |-> "sent"] \in Request
      BY <2>1 DEF Request, TypeOK
    <2>. QED BY <1>10, <2>2 DEF Send, Goto, TypeOK, Passing
  <1>11. ASSUME NEW t \in Tabs, Accepted(t) \/ Unanswered(t) \/ Rejected(t)
         PROVE  TypeOK'
    <2>1. state' \in [Ids -> States] /\ old' \subseteq Ids /\ view' \in [Tabs -> SUBSET Ids]
      <3>. "synced" \in States /\ "queued" \in States /\ "failed" \in States
        BY DEF States, Unsynced, Resolved
      <3>. QED BY <1>11, PersistEffect, PersistFailsEffect
               DEF Accepted, Unanswered, Rejected, Requeue
    <2>2. wire' \subseteq Request
      BY <1>11, ForgetEffect DEF Accepted, Unanswered, Rejected
    <2>3. timers' \in [Tabs -> SUBSET Ids]
      <3>1. cur[t] \in Ids
        BY <1>11 DEF Accepted, Unanswered, Rejected, Dispatching
      <3>. QED BY <1>11, <3>1 DEF Accepted, Unanswered, Rejected, Requeue, TypeOK
    <2>4. /\ pc' \in [Tabs -> Passing \cup {"idle", "closed"}]
          /\ todo' \in [Tabs -> SUBSET Ids]
          /\ cur' \in [Tabs -> Ids \cup {NoEntry}]
      BY <1>11 DEF Accepted, Unanswered, Rejected, Requeue, FinishPass, Goto,
                   TypeOK, Passing
    <2>. QED BY <1>11, <2>1, <2>2, <2>3, <2>4
             DEF Accepted, Unanswered, Rejected, TypeOK
  <1>12. ASSUME NEW t \in Tabs, NEW kind \in Kinds, NEW i \in Ids, Click(t, kind, i)
         PROVE  TypeOK'
    BY <1>12 DEF Click, TypeOK
  <1>13. ASSUME NEW t \in Tabs, ClickWrites(t) PROVE TypeOK'
    <2>1. state' \in [Ids -> States] /\ old' \subseteq Ids /\ view' \in [Tabs -> SUBSET Ids]
      <3>. "discarded" \in States /\ "queued" \in States
        BY DEF States, Unsynced, Resolved
      <3>. QED BY <1>13, PersistEffect, PersistFailsEffect DEF ClickWrites
    <2>2. abandoned' \subseteq Ids
      BY <1>13 DEF ClickWrites, TypeOK, Dispatching
    <2>3. kicks' \in [Tabs -> SUBSET {"enqueue", "retry", "profile"}]
      BY <1>13 DEF ClickWrites, TypeOK
    <2>4. click' \in [Tabs -> [kind : Kinds \cup {"none"}, id : Ids \cup {NoEntry}]]
      BY <1>13 DEF ClickWrites, TypeOK, NoClick
    <2>. QED BY <1>13, <2>1, <2>2, <2>3, <2>4 DEF ClickWrites, TypeOK
  <1>14. ASSUME ProfileLoads \/ SignOut \/ \E u \in Users : SignIn(u) PROVE TypeOK'
    <2>1. CASE ProfileLoads
      BY <2>1 DEF ProfileLoads, TypeOK
    <2>2. CASE SignOut
      BY <2>2 DEF SignOut, TypeOK
    <2>3. ASSUME NEW u \in Users, SignIn(u) PROVE TypeOK'
      BY <2>3, BoundsAssumption DEF SignIn, TypeOK
    <2>. QED BY <1>14, <2>1, <2>2, <2>3
  <1>15. ASSUME NEW t \in Tabs, Crash(t) PROVE TypeOK'
    BY <1>15, ForgetEffect, BoundsAssumption
       DEF Crash, TypeOK, EmptyBoot, NoClick
  <1>16. ASSUME NEW t \in Tabs, Reopen(t) PROVE TypeOK'
    BY <1>16 DEF Reopen, Goto, InState, TypeOK
  <1>17. ASSUME NEW t \in Tabs, BootPrune(t) PROVE TypeOK'
    BY <1>17 DEF BootPrune, Notify, TypeOK, States
  <1>18. ASSUME NEW t \in Tabs, BootRequeue(t) PROVE TypeOK'
    <2>1. state' \in [Ids -> States] /\ old' \subseteq Ids /\ view' \in [Tabs -> SUBSET Ids]
      <3>. "queued" \in States
        BY DEF States, Unsynced
      <3>. QED BY <1>18, PersistEffect, PersistFailsEffect DEF BootRequeue
    <2>2. boot' \in [Tabs -> [prune : SUBSET Ids, stale : SUBSET Ids]]
      <3>1. \E S \in SUBSET Ids : boot' = [boot EXCEPT ![t] = [prune |-> @.prune, stale |-> S]]
        BY <1>18 DEF BootRequeue, TypeOK
      <3>. QED BY <3>1 DEF TypeOK
    <2>. QED BY <1>18, <2>1, <2>2 DEF BootRequeue, TypeOK
  <1>19. ASSUME NEW i \in Ids, Age(i) PROVE TypeOK'
    BY <1>19 DEF Age, TypeOK
  <1>20. ASSUME NEW r \in wire, ServerStep(r) PROVE TypeOK'
    BY <1>20 DEF ServerStep, ServerReceive, ServerCommit, ServerReject,
                 ServerFails, Reply, Moved, Request, TypeOK
  <1>21. CASE UNCHANGED vars
    BY <1>21 DEF vars, TypeOK
  <1>. QED BY <1>1, <1>2, <1>3, <1>4, <1>5, <1>6, <1>7, <1>8, <1>9, <1>10, <1>11,
              <1>12, <1>13, <1>14, <1>15, <1>16, <1>17, <1>18, <1>19, <1>20, <1>21
           DEF Next, FlushStep

-----------------------------------------------------------------------------
(* What a step may do to the entries                                       *)

\* An entry stays as it is or becomes unsynced; it vanishes only when recorded
\* or given up, and 'synced' and 'discarded' say what is true.
Lawful ==
    \A j \in Ids :
        \/ state'[j] = state[j]
        \/ state'[j] \in Unsynced
        \/ state'[j] = "absent" /\ j \in recorded \cup abandoned
        \/ state'[j] = "synced" /\ j \in recorded
        \/ state'[j] = "discarded" /\ j \in abandoned'

LEMMA ResolvedIsSettled ==
  ASSUME IInv, NEW j \in Ids, state[j] \in Resolved
  PROVE  j \in recorded \cup abandoned
  BY DEF IInv, SyncedMeansRecorded, DiscardedMeansAbandoned, InState, Resolved

LEMMA PersistLawful ==
  ASSUME IInv, NEW t \in Tabs, NEW i, NEW s \in States, Persist(t, i, s),
         s \in Unsynced \/ (s = "synced" /\ i \in recorded) \/ (s = "discarded" /\ i \in abandoned')
  PROVE  Lawful
  <1>. TypeOK
    BY DEF IInv
  <1>. QED BY PersistEffect, ResolvedIsSettled DEF Lawful

LEMMA PersistFailsLawful ==
  ASSUME IInv, NEW t \in Tabs, PersistFails(t)
  PROVE  Lawful
  <1>. TypeOK
    BY DEF IInv
  <1>. QED BY PersistFailsEffect, ResolvedIsSettled DEF Lawful

LEMMA StepLawful == IInv /\ [Next]_vars => Lawful
  <1>. SUFFICES ASSUME IInv, [Next]_vars PROVE Lawful
    OBVIOUS
  <1>. "queued" \in States \cap Unsynced /\ "syncing" \in States \cap Unsynced
       /\ "failed" \in States \cap Unsynced /\ "blocked" \in States \cap Unsynced
       /\ "synced" \in States /\ "discarded" \in States
    BY DEF States, Unsynced, Resolved
  <1>1. ASSUME NEW t \in Tabs, Enqueue(t) PROVE Lawful
    BY <1>1, PersistLawful, PersistFailsLawful DEF Enqueue
  <1>2. ASSUME NEW t \in Tabs, ReconcileWrite(t) PROVE Lawful
    BY <1>2, PersistLawful, PersistFailsLawful DEF ReconcileWrite
  <1>3. ASSUME NEW t \in Tabs, PruneDelete(t) PROVE Lawful
    <2>1. todo[t] \subseteq recorded \cup abandoned
      BY <1>3 DEF PruneDelete, IInv, PruneLists
    <2>. QED BY <1>3, <2>1 DEF PruneDelete, Lawful
  <1>4. ASSUME NEW t \in Tabs, Mark(t) PROVE Lawful
    BY <1>4, PersistLawful, PersistFailsLawful DEF Mark
  <1>5. ASSUME NEW t \in Tabs, Accepted(t) PROVE Lawful
    <2>1. cur[t] \in recorded
      <3>1. PICK r \in wire : r.tab = t /\ r.st = "ok"
        BY <1>5 DEF Accepted, Answered, Calls
      <3>2. r.tab # NoTab
        BY <3>1, TabsAssumption
      <3>3. r.id = cur[t] /\ r.id \in recorded
        BY <3>1, <3>2 DEF IInv, Dispatching, AnswersHold
      <3>. QED BY <3>3
    <2>2. CASE Persist(t, cur[t], "synced")
      BY <2>1, <2>2, PersistLawful
    <2>3. CASE Requeue(t)
      BY <2>3, PersistLawful, PersistFailsLawful DEF Requeue
    <2>. QED BY <1>5, <2>2, <2>3 DEF Accepted
  <1>6. ASSUME NEW t \in Tabs, Unanswered(t) PROVE Lawful
    BY <1>6, PersistLawful, PersistFailsLawful DEF Unanswered, Requeue
  <1>7. ASSUME NEW t \in Tabs, Rejected(t) PROVE Lawful
    BY <1>7, PersistLawful, PersistFailsLawful DEF Rejected
  <1>8. ASSUME NEW t \in Tabs, ClickWrites(t) PROVE Lawful
    <2>1. CASE Persist(t, click[t].id, "queued")
      BY <2>1, PersistLawful
    <2>2. CASE /\ Persist(t, click[t].id, "discarded")
               /\ abandoned' = abandoned \cup {click[t].id}
      BY <2>2, PersistLawful
    <2>3. CASE PersistFails(t)
      BY <2>3, PersistFailsLawful
    <2>. QED BY <1>8, <2>1, <2>2, <2>3 DEF ClickWrites
  <1>9. ASSUME NEW t \in Tabs, BootPrune(t) PROVE Lawful
    <2>1. boot[t].prune \subseteq recorded \cup abandoned
      BY DEF IInv, PruneLists
    <2>. QED BY <1>9, <2>1 DEF BootPrune, Lawful
  <1>10. ASSUME NEW t \in Tabs, BootRequeue(t) PROVE Lawful
    BY <1>10, PersistLawful, PersistFailsLawful DEF BootRequeue
  <1>11. CASE UNCHANGED state
    BY <1>11 DEF Lawful
  <1>12. \/ UNCHANGED state
         \/ \E t \in Tabs :
              \/ Enqueue(t) \/ ReconcileWrite(t) \/ PruneDelete(t) \/ Mark(t)
              \/ Accepted(t) \/ Unanswered(t) \/ Rejected(t) \/ ClickWrites(t)
              \/ BootPrune(t) \/ BootRequeue(t)
    BY DEF Next, FlushStep, ServerStep, vars, deviceVars, Kick, TimerFires,
           Reconnect, GoOffline, IdentityRead, StaleRead, PickNext, PruneRead,
           Send, Click, SignIn, ProfileLoads, SignOut, Crash, Reopen, Age,
           ServerReceive, ServerCommit, ServerReject, ServerFails
  <1>. QED BY <1>1, <1>2, <1>3, <1>4, <1>5, <1>6, <1>7, <1>8, <1>9, <1>10,
              <1>11, <1>12

-----------------------------------------------------------------------------
(* The invariant                                                           *)

\* What is recorded or given up stays so; what is newly accepted is stored.
LEMMA StepKeeps ==
  IInv /\ [Next]_vars =>
    /\ recorded \subseteq recorded' /\ abandoned \subseteq abandoned'
    /\ \A i \in accepted' : i \in accepted \/ state'[i] # "absent"
  <1>. SUFFICES ASSUME IInv, [Next]_vars
                PROVE  /\ recorded \subseteq recorded' /\ abandoned \subseteq abandoned'
                       /\ \A i \in accepted' : i \in accepted \/ state'[i] # "absent"
    OBVIOUS
  <1>1. ASSUME NEW t \in Tabs, Enqueue(t)
        PROVE  /\ recorded \subseteq recorded' /\ abandoned \subseteq abandoned'
               /\ \A i \in accepted' : i \in accepted \/ state'[i] # "absent"
    <2>1. count + 1 \in Ids
      BY <1>1, BoundsAssumption DEF Enqueue, IInv, TypeOK, Ids
    <2>2. CASE PersistFails(t) /\ UNCHANGED <<accepted, kicks>>
      BY <1>1, <2>2 DEF Enqueue, serverVars
    <2>3. CASE Persist(t, count + 1, "queued") /\ accepted' = accepted \cup {count + 1}
      <3>1. state'[count + 1] = "queued"
        BY <2>1, <2>3, PersistEffect DEF IInv, States, Unsynced
      <3>. QED BY <1>1, <2>3, <3>1 DEF Enqueue, serverVars
    <2>. QED BY <1>1, <2>2, <2>3 DEF Enqueue
  <1>2. CASE ~ \E t \in Tabs : Enqueue(t)
    BY <1>2 DEF Next, FlushStep, ServerStep, vars, serverVars, historyVars, Kick,
           TimerFires, Reconnect, GoOffline, IdentityRead, StaleRead,
           ReconcileWrite, PickNext, PruneRead, PruneDelete, Mark, Send, Accepted,
           Unanswered, Rejected, Click, ClickWrites, SignIn, ProfileLoads,
           SignOut, Crash, Reopen, BootPrune, BootRequeue, Age,
           ServerReceive, ServerCommit, ServerReject, ServerFails
  <1>. QED BY <1>1, <1>2

\* A lawful step keeps the promises about entries.
LEMMA StepPromises ==
  IInv /\ [Next]_vars =>
    SyncedMeansRecorded' /\ DiscardedMeansAbandoned' /\ AcceptedNeverLost'
  <1>. SUFFICES ASSUME IInv, [Next]_vars
                PROVE  SyncedMeansRecorded' /\ DiscardedMeansAbandoned' /\ AcceptedNeverLost'
    OBVIOUS
  <1>1. Lawful /\ accepted' \subseteq Ids
    BY StepLawful, StepTypeOK DEF IInv, TypeOK
  <1>2. "synced" \notin Unsynced /\ "discarded" \notin Unsynced /\ "absent" \notin Unsynced
    BY DEF Unsynced
  <1>. QED BY <1>1, <1>2, StepKeeps
           DEF Lawful, IInv, SyncedMeansRecorded, DiscardedMeansAbandoned,
               AcceptedNeverLost, InState

\* A tab that waits for no answer may go on to a dispatch of an entry.
LEMMA PassMoves ==
  ASSUME TypeOK, Dispatching, NEW t \in Tabs, pc[t] # "wait",
         UNCHANGED <<wire, click>>,
         \A u \in Tabs \ {t} : pc'[u] = pc[u] /\ cur'[u] = cur[u],
         pc'[t] \in {"mark", "send", "wait"} => cur'[t] \in Ids
  PROVE  Dispatching'
  BY DEF TypeOK, Dispatching, Request

\* A tab that waited and goes on forgets its call.
LEMMA WaitEnds ==
  ASSUME TypeOK, Dispatching, NEW t \in Tabs, wire' = Forget(t),
         \A u \in Tabs : click'[u] \in {click[u], NoClick},
         \A u \in Tabs \ {t} : pc'[u] = pc[u] /\ cur'[u] = cur[u],
         pc'[t] \notin {"mark", "send", "wait"}
  PROVE  Dispatching'
  <1>1. \A r \in wire' : r.tab # t /\ (r \in wire \/ r.tab = NoTab)
    BY ForgetEffect
  <1>2. \A r \in wire : r.tab \in Tabs \cup {NoTab}
    BY DEF TypeOK, Request
  <1>. QED BY <1>1, <1>2 DEF Dispatching, NoClick, Kinds

LEMMA StepDispatching == IInv /\ [Next]_vars => Dispatching'
  <1>. SUFFICES ASSUME IInv, [Next]_vars PROVE Dispatching'
    OBVIOUS
  <1>. TypeOK /\ Dispatching
    BY DEF IInv
  <1>. USE DEF tabVars, serverVars
  <1>1. ASSUME NEW t \in Tabs, StartFlush(t), UNCHANGED <<cur, wire, click>>
        PROVE  Dispatching'
    <2>1. CASE pc[t] = "idle"
      BY <1>1, <2>1, PassMoves DEF StartFlush, TypeOK
    <2>2. CASE pc[t] # "idle"
      BY <1>1, <2>2 DEF StartFlush, Dispatching
    <2>. QED BY <2>1, <2>2
  <1>2. CASE Reconnect
    BY <1>2 DEF Reconnect, TypeOK, Dispatching, Request
  <1>3. ASSUME NEW t \in Tabs,
               IdentityRead(t) \/ StaleRead(t) \/ PruneRead(t) \/ PruneDelete(t)
                 \/ ReconcileWrite(t)
        PROVE  Dispatching'
    <2>1. /\ pc[t] # "wait" /\ UNCHANGED <<wire, click>>
          /\ pc' = pc \/ \E l \in {"unblock", "requeue", "idle", "delete"} :
                            pc' = [pc EXCEPT ![t] = l]
          /\ cur' = cur \/ cur' = [cur EXCEPT ![t] = NoEntry]
          /\ pc'[t] \in {"mark", "send", "wait"} => FALSE
      BY <1>3 DEF IdentityRead, StaleRead, PruneRead, PruneDelete, ReconcileWrite,
                  FinishPass, Goto, TypeOK
    <2>. QED BY <2>1, PassMoves DEF TypeOK
  <1>4. ASSUME NEW t \in Tabs, PickNext(t) PROVE Dispatching'
    BY <1>4 DEF PickNext, Eligible, InState, Goto, TypeOK, Dispatching
  <1>5. ASSUME NEW t \in Tabs, Mark(t) PROVE Dispatching'
    <2>1. pc[t] = "mark" /\ cur[t] \in Ids /\ UNCHANGED <<wire, click>>
      BY <1>5 DEF Mark, Dispatching
    <2>2. CASE UNCHANGED cur /\ \E l : Goto(t, l)
      BY <2>1, <2>2, PassMoves DEF Goto, TypeOK
    <2>3. CASE FinishPass(t)
      BY <2>1, <2>3, PassMoves DEF FinishPass, Goto, TypeOK
    <2>. QED BY <1>5, <2>2, <2>3 DEF Mark
  <1>6. ASSUME NEW t \in Tabs, Send(t) PROVE Dispatching'
    BY <1>6 DEF Send, Goto, TypeOK, Dispatching
  <1>7. ASSUME NEW t \in Tabs, Accepted(t) \/ Unanswered(t) \/ Rejected(t)
        PROVE  Dispatching'
    <2>1. wire' = Forget(t) /\ UNCHANGED click
      BY <1>7 DEF Accepted, Unanswered, Rejected
    <2>2. (Goto(t, "next") /\ UNCHANGED cur) \/ FinishPass(t)
      BY <1>7 DEF Accepted, Unanswered, Rejected, Requeue
    <2>. QED BY <2>1, <2>2, WaitEnds DEF FinishPass, Goto, TypeOK
  <1>8. ASSUME NEW t \in Tabs, NEW kind \in Kinds, NEW i \in Ids, Click(t, kind, i)
        PROVE  Dispatching'
    BY <1>8 DEF Click, TypeOK, Dispatching
  <1>9. ASSUME NEW t \in Tabs, ClickWrites(t) PROVE Dispatching'
    BY <1>9 DEF ClickWrites, NoClick, Kinds, TypeOK, Dispatching
  <1>10. ASSUME NEW t \in Tabs, Crash(t) PROVE Dispatching'
    BY <1>10, WaitEnds DEF Crash, TypeOK
  <1>11. ASSUME NEW t \in Tabs, Reopen(t) PROVE Dispatching'
    BY <1>11, PassMoves DEF Reopen, Goto, TypeOK, Dispatching
  <1>12. ASSUME NEW r \in wire, ServerStep(r) PROVE Dispatching'
    <2>1. \A q \in wire' : q \in wire \/ (q.id = r.id /\ q.tab = r.tab)
      BY <1>12 DEF ServerStep, ServerReceive, ServerCommit, ServerReject,
                   ServerFails, Reply, Moved
    <2>. QED BY <1>12, <2>1 DEF ServerStep, ServerReceive, ServerCommit,
                   ServerReject, ServerFails, Dispatching
  <1>13. CASE UNCHANGED <<pc, cur, click, wire>>
    BY <1>13 DEF Dispatching
  <1>14. \/ UNCHANGED <<pc, cur, click, wire>>
         \/ Reconnect
         \/ \E t \in Tabs :
              \/ FlushStep(t) \/ ClickWrites(t) \/ Crash(t) \/ Reopen(t)
              \/ StartFlush(t) /\ UNCHANGED <<cur, wire, click>>
              \/ \E kind \in Kinds, i \in Ids : Click(t, kind, i)
         \/ \E r \in wire : ServerStep(r)
    BY DEF Next, vars, GoOffline, Enqueue, Kick, TimerFires, SignIn, ProfileLoads,
           SignOut, BootPrune, BootRequeue, Age
  <1>. QED BY <1>1, <1>2, <1>3, <1>4, <1>5, <1>6, <1>7, <1>8, <1>9, <1>10, <1>11,
              <1>12, <1>13, <1>14 DEF FlushStep

LEMMA StepAnswersHold == IInv /\ [Next]_vars => AnswersHold'
  <1>. SUFFICES ASSUME IInv, [Next]_vars, NEW q \in wire', q.st = "ok"
                PROVE  q.id \in recorded'
    BY DEF AnswersHold
  <1>1. recorded \subseteq recorded'
    BY StepKeeps
  <1>2. CASE q \in wire
    BY <1>1, <1>2 DEF IInv, AnswersHold
  <1>3. CASE q \notin wire
    <2>1. ASSUME NEW r \in wire, ServerStep(r) PROVE q.id \in recorded'
      BY <1>1, <1>3, <2>1 DEF ServerStep, ServerReceive, ServerCommit,
                ServerReject, ServerFails, Reply, Moved
    <2>2. ASSUME NEW t \in Tabs, wire' = Forget(t) PROVE FALSE
      BY <1>3, <2>2, ForgetEffect DEF IInv
    <2>3. ASSUME NEW t \in Tabs, Send(t) PROVE FALSE
      BY <1>3, <2>3 DEF Send
    <2>. QED BY <1>3, <2>1, <2>2, <2>3
         DEF Next, FlushStep, vars, serverVars, Kick, TimerFires, Reconnect,
             GoOffline, IdentityRead, StaleRead, ReconcileWrite, PickNext,
             PruneRead, PruneDelete, Mark, Accepted, Unanswered, Rejected, Click,
             ClickWrites, SignIn, ProfileLoads, SignOut, Crash, Reopen, BootPrune,
             BootRequeue, Age, Enqueue
  <1>. QED BY <1>2, <1>3

LEMMA StepPruneLists == IInv /\ [Next]_vars => PruneLists'
  <1>. SUFFICES ASSUME IInv, [Next]_vars, NEW t \in Tabs
                PROVE  /\ pc'[t] = "delete" => todo'[t] \subseteq recorded \cup abandoned
                       /\ boot'[t].prune \subseteq recorded \cup abandoned
    BY StepKeeps DEF PruneLists
  <1>. TypeOK /\ PruneLists
    BY DEF IInv
  <1>1. InState(Resolved) \subseteq recorded \cup abandoned
    BY ResolvedIsSettled DEF InState
  <1>2. \/ UNCHANGED <<pc, todo>>
        \/ pc'[t] = pc[t] /\ todo'[t] = todo[t]
        \/ pc'[t] # "delete"
        \/ PruneRead(t)
    BY DEF TypeOK, Next, FlushStep, ServerStep, vars, tabVars, Kick, TimerFires, Reconnect,
           GoOffline, IdentityRead, StaleRead, ReconcileWrite, PickNext,
           PruneRead, PruneDelete, Mark, Send, Accepted, Unanswered, Rejected,
           Requeue, Click, ClickWrites, SignIn, ProfileLoads, SignOut, Crash,
           Reopen, BootPrune, BootRequeue, Age, Enqueue, StartFlush, FinishPass,
           Goto, ServerReceive, ServerCommit, ServerReject, ServerFails
  <1>3. pc'[t] = "delete" => todo'[t] \subseteq recorded \cup abandoned
    BY <1>1, <1>2 DEF PruneLists, PruneRead, TypeOK
  <1>4. \/ boot'[t].prune \in {boot[t].prune, {}}
        \/ Reopen(t)
    BY DEF TypeOK, EmptyBoot, Next, FlushStep, ServerStep, vars, tabVars, Kick,
           TimerFires, Reconnect, GoOffline, IdentityRead, StaleRead,
           ReconcileWrite, PickNext, PruneRead, PruneDelete, Mark, Send, Accepted,
           Unanswered, Rejected, Click, ClickWrites, SignIn, ProfileLoads,
           SignOut, Crash, Reopen, BootPrune, BootRequeue, Age, Enqueue,
           ServerReceive, ServerCommit, ServerReject, ServerFails
  <1>5. boot'[t].prune \subseteq recorded \cup abandoned
    BY <1>1, <1>4 DEF PruneLists, Reopen, TypeOK
  <1>. QED BY <1>3, <1>5

LEMMA StepIInv == IInv /\ [Next]_vars => IInv'
  BY StepTypeOK, StepPromises, StepDispatching, StepAnswersHold, StepPruneLists
     DEF IInv

THEOREM Invariance == Spec => []IInv
  BY InitIInv, StepIInv, PTL DEF Spec

\* Every variable keeps its type.
THEOREM TypeCorrect == Spec => []TypeOK
  BY Invariance, PTL DEF IInv

\* What a cashier was told is recorded leaves the device only once the server
\* has it or a person gave it up, whatever crashes, tabs, timers, full disks
\* and lost answers do.
THEOREM NothingIsLost == Spec => []AcceptedNeverLost
  BY Invariance, PTL DEF IInv

\* An entry shown as synced is recorded by the server.
THEOREM SyncedIsTrue == Spec => []SyncedMeansRecorded
  BY Invariance, PTL DEF IInv
-----------------------------------------------------------------------------
(* One tab: only a person moves an entry out of 'failed'                   *)

\* A tab that has the queue to itself acts on what is still true: what a pass
\* read for a reconcile, a dispatch or a prune is in the state it was read in,
\* the screen shows the failed entries, and a click is about one of them.
\* Identifiers above the count are not in use, so that what a prune is about
\* to delete cannot be recorded anew.
Alone(t) ==
    /\ pc[t] # "closed" /\ boot[t] = EmptyBoot
    /\ view[t] = InState({"failed"})
    /\ \A i \in Ids : i > count => state[i] = "absent"
    /\ click[t].kind \in Kinds => state[click[t].id] = "failed"
    /\ pc[t] = "unblock" => todo[t] \subseteq InState({"blocked"})
    /\ pc[t] = "requeue" => todo[t] \subseteq InState({"syncing"})
    /\ pc[t] = "mark" => state[cur[t]] = "queued"
    /\ pc[t] \in {"send", "wait"} => state[cur[t]] = "syncing"
    /\ pc[t] = "delete" =>
         \A i \in todo[t] : i <= count /\ state[i] \in Resolved \cup {"absent"}

\* The step HumanDecides allows.
Decided ==
    \A i \in Ids :
        /\ state[i] = "failed" /\ state'[i] # "failed" =>
             \E t \in Tabs : click[t].id = i /\ click'[t] = NoClick
        /\ state[i] \in Resolved => state'[i] \in {state[i], "absent"}

LEMMA InitAlone == ASSUME NEW t \in Tabs PROVE Init => Alone(t)
  BY DEF Init, Alone, InState, NoClick, Kinds, NoEntry

\* A write that leaves alone what the tab holds: entry i becomes s, resolved
\* entries may be pruned, and the screen is refreshed.
Writes(t, i, s) ==
    /\ \A j \in Ids : \/ j = i /\ state'[j] = s
                      \/ j # i /\ state'[j] = state[j]
                      \/ j # i /\ state[j] \in Resolved /\ state'[j] = "absent"
    /\ view'[t] = {j \in Ids : state'[j] = "failed"}

\* A write that failed, after whatever the emergency prune deleted.
WritesNothing(t) ==
    /\ \A j \in Ids : \/ state'[j] = state[j]
                      \/ state[j] \in Resolved /\ state'[j] = "absent"
    /\ view'[t] = {j \in Ids : state'[j] = "failed"}

LEMMA PersistWrites ==
  ASSUME TypeOK, NEW t \in Tabs, NEW i, NEW s \in States, Persist(t, i, s)
  PROVE  Writes(t, i, s)
  <1>1. view'[t] = {j \in Ids : state'[j] = "failed"}
    BY DEF Persist, Notify, TypeOK
  <1>. QED BY <1>1, PersistEffect DEF Writes

LEMMA PersistFailsWrites ==
  ASSUME TypeOK, NEW t \in Tabs, Alone(t), PersistFails(t)
  PROVE  WritesNothing(t)
  <1>1. view'[t] = {j \in Ids : state'[j] = "failed"}
    <2>1. CASE InState(Resolved) = {}
      BY <2>1 DEF PersistFails, Alone, InState
    <2>2. CASE InState(Resolved) # {}
      BY <2>2 DEF PersistFails, Notify, TypeOK
    <2>. QED BY <2>1, <2>2
  <1>. QED BY <1>1, PersistFailsEffect DEF WritesNothing

LEMMA StepAlone ==
  ASSUME NEW t, Tabs = {t}, MaxCrashes = 0, IInv, Alone(t), [Next]_vars
  PROVE  Alone(t)' /\ Decided
  <1>. t \in Tabs /\ TypeOK /\ Dispatching
    BY DEF IInv
  <1>. USE DEF deviceVars, tabVars, authVars, serverVars, historyVars
  <1>. /\ {"queued", "syncing", "failed", "blocked", "synced", "discarded"} \subseteq States
       /\ Resolved = {"synced", "discarded"}
    BY DEF States, Unsynced, Resolved
  <1>1. ASSUME Enqueue(t) PROVE Alone(t)' /\ Decided
    <2>1. count \in Nat /\ count + 1 \in Ids /\ state[count + 1] = "absent"
      BY <1>1, BoundsAssumption DEF Enqueue, TypeOK, Ids, Alone
    <2>2. /\ count' = count + 1
          /\ UNCHANGED <<pc, boot, click, todo, cur>>
          /\ Writes(t, count + 1, "queued") \/ WritesNothing(t)
      BY <1>1, PersistWrites, PersistFailsWrites DEF Enqueue
    <2>3. \A i \in Ids : i > count + 1 => i > count /\ i # count + 1
      BY <2>1 DEF Ids
    <2>4. \A i \in todo[t] : i \in Ids /\ (i <= count => i <= count + 1 /\ i # count + 1)
      BY <2>1 DEF Ids, TypeOK
    <2>5. /\ cur[t] = count + 1 => pc[t] \notin {"mark", "send", "wait"}
          /\ click[t].id = count + 1 => click[t].kind \notin Kinds
      BY <2>1 DEF Alone
    <2>6. CASE Writes(t, count + 1, "queued")
      BY <2>1, <2>2, <2>3, <2>4, <2>5, <2>6 DEF Alone, Decided, Writes, InState, Dispatching
    <2>7. CASE WritesNothing(t)
      BY <2>1, <2>2, <2>3, <2>4, <2>7 DEF Alone, Decided, WritesNothing, InState, Dispatching
    <2>. QED BY <2>2, <2>6, <2>7
  <1>2. ASSUME ReconcileWrite(t) PROVE Alone(t)' /\ Decided
    <2>1. PICK i \in todo[t] :
             \/ /\ Persist(t, i, "queued")
                /\ todo' = [todo EXCEPT ![t] = @ \ {i}]
                /\ UNCHANGED <<pc, cur>>
             \/ PersistFails(t) /\ FinishPass(t)
      BY <1>2 DEF ReconcileWrite
    <2>2. /\ i \in Ids /\ state[i] \in {"blocked", "syncing"}
          /\ pc[t] \in {"unblock", "requeue"}
          /\ UNCHANGED <<count, boot, click>>
      BY <1>2, <2>1 DEF ReconcileWrite, Alone, InState, TypeOK
    <2>3. CASE /\ Persist(t, i, "queued")
               /\ todo' = [todo EXCEPT ![t] = @ \ {i}]
               /\ UNCHANGED <<pc, cur>>
      <3>1. Writes(t, i, "queued") /\ todo'[t] = todo[t] \ {i}
        BY <2>3, PersistWrites DEF TypeOK
      <3>. QED BY <2>2, <2>3, <3>1 DEF Alone, Decided, Writes, InState, Dispatching, TypeOK
    <2>4. CASE PersistFails(t) /\ FinishPass(t)
      <3>1. WritesNothing(t) /\ pc'[t] = "idle"
        BY <2>4, PersistFailsWrites DEF FinishPass, Goto, TypeOK
      <3>. QED BY <2>2, <3>1 DEF Alone, Decided, WritesNothing, InState, Dispatching, TypeOK
    <2>. QED BY <2>1, <2>3, <2>4
  <1>3. ASSUME PruneDelete(t) PROVE Alone(t)' /\ Decided
    <2>1. /\ pc[t] = "delete" /\ pc'[t] = "idle"
          /\ view'[t] = {j \in Ids : state'[j] = "failed"}
          /\ state' = [i \in Ids |-> IF i \in todo[t] THEN "absent" ELSE state[i]]
          /\ UNCHANGED <<count, boot, click>>
      BY <1>3 DEF PruneDelete, Notify, FinishPass, Goto, TypeOK
    <2>. QED BY <2>1 DEF Alone, Decided, InState, Dispatching
  <1>4. ASSUME Mark(t) PROVE Alone(t)' /\ Decided
    <2>1. pc[t] = "mark" /\ cur[t] \in Ids /\ UNCHANGED <<count, boot, click>>
      BY <1>4 DEF Mark, Dispatching
    <2>2. \/ /\ Writes(t, cur[t], "blocked") /\ pc'[t] = "next" /\ UNCHANGED cur
          \/ /\ Writes(t, cur[t], "syncing") /\ pc'[t] = "send" /\ UNCHANGED cur
          \/ WritesNothing(t) /\ pc'[t] = "idle"
      BY <1>4, PersistWrites, PersistFailsWrites DEF Mark, Goto, FinishPass, TypeOK
    <2>. QED BY <2>1, <2>2 DEF Alone, Decided, Writes, WritesNothing, InState, Dispatching
  <1>5. ASSUME Accepted(t) \/ Unanswered(t) \/ Rejected(t) PROVE Alone(t)' /\ Decided
    <2>1. pc[t] = "wait" /\ cur[t] \in Ids /\ UNCHANGED <<count, boot, click>>
      BY <1>5 DEF Accepted, Unanswered, Rejected, Dispatching
    <2>2. \/ /\ \E s \in {"synced", "queued", "failed"} : Writes(t, cur[t], s)
             /\ pc'[t] = "next"
          \/ WritesNothing(t) /\ pc'[t] = "idle"
      BY <1>5, PersistWrites, PersistFailsWrites
         DEF Accepted, Unanswered, Rejected, Requeue, Goto, FinishPass, TypeOK
    <2>. QED BY <2>1, <2>2 DEF Alone, Decided, Writes, WritesNothing, InState, Dispatching
  <1>6. ASSUME ClickWrites(t) PROVE Alone(t)' /\ Decided
    <2>1. /\ click[t].kind \in Kinds /\ click[t].id \in Ids /\ click'[t] = NoClick
          /\ UNCHANGED <<count, boot, pc, todo, cur>>
      BY <1>6 DEF ClickWrites, Dispatching, TypeOK
    <2>2. \/ \E s \in {"queued", "discarded"} : Writes(t, click[t].id, s)
          \/ WritesNothing(t)
      BY <1>6, PersistWrites, PersistFailsWrites DEF ClickWrites
    <2>3. NoClick.kind \notin Kinds
      BY DEF NoClick, Kinds
    <2>4. todo[t] \subseteq Ids /\ \A i \in Ids : i > count => i # click[t].id
      BY <2>1 DEF Alone, TypeOK
    <2>5. CASE WritesNothing(t)
      BY <2>1, <2>3, <2>4, <2>5 DEF Alone, Decided, WritesNothing, InState, Dispatching
    <2>6. ASSUME NEW s \in {"queued", "discarded"}, Writes(t, click[t].id, s)
          PROVE  Alone(t)' /\ Decided
      BY <2>1, <2>3, <2>4, <2>6 DEF Alone, Decided, Writes, InState, Dispatching
    <2>. QED BY <2>2, <2>5, <2>6
  <1>7. ASSUME UNCHANGED state,
               IdentityRead(t) \/ StaleRead(t) \/ PickNext(t) \/ PruneRead(t) \/ Send(t)
        PROVE Alone(t)' /\ Decided
    <2>1. UNCHANGED <<count, boot, click, view>>
      BY <1>7 DEF IdentityRead, StaleRead, PickNext, PruneRead, Send
    <2>2. CASE IdentityRead(t)
      BY <1>7, <2>1, <2>2 DEF Alone, Decided, IdentityRead, Goto, InState, TypeOK
    <2>3. CASE StaleRead(t)
      BY <1>7, <2>1, <2>3 DEF Alone, Decided, StaleRead, Goto, InState, TypeOK
    <2>4. CASE PickNext(t)
      BY <1>7, <2>1, <2>4 DEF Alone, Decided, PickNext, Eligible, Goto, InState, TypeOK
    <2>5. CASE PruneRead(t)
      <3>1. \A i \in Ids : state[i] \in Resolved => i <= count
        BY DEF Alone, Ids, TypeOK
      <3>. QED BY <1>7, <2>1, <2>5, <3>1 DEF Alone, Decided, PruneRead, Goto, InState, TypeOK
    <2>6. CASE Send(t)
      BY <1>7, <2>1, <2>6 DEF Alone, Decided, Send, Goto, InState, TypeOK
    <2>. QED BY <1>7, <2>2, <2>3, <2>4, <2>5, <2>6
  <1>8. ASSUME UNCHANGED <<state, count, boot, click, view>>,
               pc[t] = "idle", pc'[t] = "identity"
        PROVE Alone(t)' /\ Decided
    BY <1>8 DEF Alone, Decided, InState
  <1>9. ASSUME NEW kind \in Kinds, NEW i \in Ids, Click(t, kind, i) PROVE Alone(t)' /\ Decided
    BY <1>9 DEF Click, Alone, Decided, InState, TypeOK
  <1>10. CASE UNCHANGED <<state, count, pc, boot, view, click, todo, cur>>
    BY <1>10 DEF Alone, Decided, InState
  <1>11. ~ Crash(t) /\ ~ Reopen(t) /\ ~ BootPrune(t) /\ ~ BootRequeue(t)
    BY DEF Crash, Reopen, BootPrune, BootRequeue, Alone, EmptyBoot, TypeOK
  <1>12. \/ UNCHANGED <<state, count, pc, boot, view, click, todo, cur>>
         \/ /\ UNCHANGED <<state, count, boot, click, view>>
            /\ pc[t] = "idle" /\ pc'[t] = "identity"
         \/ /\ UNCHANGED state
            /\ IdentityRead(t) \/ StaleRead(t) \/ PickNext(t) \/ PruneRead(t) \/ Send(t)
         \/ Enqueue(t) \/ ReconcileWrite(t) \/ PruneDelete(t) \/ Mark(t)
         \/ Accepted(t) \/ Unanswered(t) \/ Rejected(t) \/ ClickWrites(t)
         \/ \E kind \in Kinds, i \in Ids : Click(t, kind, i)
    <2>. USE DEF vars
    <2>1. ASSUME StartFlush(t), UNCHANGED <<state, count, boot, click, view, todo, cur>>
          PROVE  \/ UNCHANGED <<state, count, pc, boot, view, click, todo, cur>>
                 \/ /\ UNCHANGED <<state, count, boot, click, view>>
                    /\ pc[t] = "idle" /\ pc'[t] = "identity"
      BY <2>1 DEF StartFlush, TypeOK
    <2>2. ASSUME NEW k, Kick(t, k)
          PROVE  \/ UNCHANGED <<state, count, pc, boot, view, click, todo, cur>>
                 \/ StartFlush(t) /\ UNCHANGED <<state, count, boot, click, view, todo, cur>>
      BY <2>2 DEF Kick
    <2>3. ASSUME NEW i, TimerFires(t, i)
          PROVE  StartFlush(t) /\ UNCHANGED <<state, count, boot, click, view, todo, cur>>
      BY <2>3 DEF TimerFires
    <2>4. ASSUME Reconnect
          PROVE  \/ UNCHANGED <<state, count, pc, boot, view, click, todo, cur>>
                 \/ /\ UNCHANGED <<state, count, boot, click, view>>
                    /\ pc[t] = "idle" /\ pc'[t] = "identity"
      <3>1. pc' = [pc EXCEPT ![t] = IF pc[t] = "idle" THEN "identity" ELSE pc[t]]
        BY <2>4 DEF Reconnect, TypeOK
      <3>. QED BY <2>4, <3>1 DEF Reconnect, TypeOK
    <2>5. IdentityRead(t) \/ StaleRead(t) \/ PickNext(t) \/ PruneRead(t) \/ Send(t)
            => UNCHANGED state
      BY DEF IdentityRead, StaleRead, PickNext, PruneRead, Send
    <2>6. ASSUME \/ GoOffline \/ ProfileLoads \/ SignOut \/ \E u \in Users : SignIn(u)
                 \/ \E i \in Ids : Age(i) \/ UNCHANGED vars
                 \/ \E r \in wire : ServerStep(r)
          PROVE UNCHANGED <<state, count, pc, boot, view, click, todo, cur>>
      BY <2>6 DEF GoOffline, ProfileLoads, SignOut, SignIn, Age, ServerStep,
                  ServerReceive, ServerCommit, ServerReject, ServerFails
    <2>. QED BY <1>11, <2>1, <2>2, <2>3, <2>4, <2>5, <2>6 DEF Next, FlushStep
  <1>. QED BY <1>1, <1>2, <1>3, <1>4, <1>5, <1>6, <1>7, <1>8, <1>9, <1>10, <1>12


\* On a device with one tab that is not killed, only a person moves an entry
\* out of 'failed', and nothing but pruning moves one out of 'synced' or
\* 'discarded': whatever timers, clicks, sign-ins, full disks, lost answers and
\* offline spells do to the passes of that tab, for any number of entries and
\* users.  (A second tab, or a start after a crash, may write what it read before
\* the entry was resolved.)
THEOREM OnlyHumansDecide ==
  ASSUME \E tab : Tabs = {tab}, MaxCrashes = 0
  PROVE  Spec => HumanDecides
  <1>. DEFINE EachAlone == \A t \in Tabs : Alone(t)
  <1>1. Init => EachAlone
    BY InitAlone
  <1>2. IInv /\ EachAlone /\ [Next]_vars => EachAlone' /\ Decided
    <2>1. PICK tab : Tabs = {tab}
      OBVIOUS
    <2>2. (EachAlone <=> Alone(tab)) /\ (EachAlone' <=> Alone(tab)')
      BY <2>1
    <2>. QED BY <2>1, <2>2, StepAlone
  <1>3. Decided => [\A i \in Ids :
         /\ state[i] = "failed" /\ state'[i] # "failed" =>
              \E t \in Tabs : click[t].id = i /\ click'[t] = NoClick
         /\ state[i] \in Resolved => state'[i] \in {state[i], "absent"}]_vars
    BY DEF Decided
  <1>. HIDE DEF EachAlone
  <1>. QED BY <1>1, <1>2, <1>3, Invariance, PTL DEF Spec, HumanDecides

-----------------------------------------------------------------------------
(* The queue implements Outbox                                             *)

\* What the device holds, what its tabs carry across their awaits and what is
\* on its way to the server was accepted; the next identifier was not.
Known ==
    /\ accepted \subseteq 1..count
    /\ Stored \subseteq accepted
    /\ \A r \in wire : r.id \in accepted
    /\ \A t \in Tabs :
         /\ todo[t] \cup boot[t].stale \cup view[t] \subseteq accepted
         /\ cur[t] \in accepted \cup {NoEntry}
         /\ click[t].kind \in Kinds => click[t].id \in accepted

LEMMA InitKnown == Init => Known
  BY DEF Init, Known, Stored, EmptyBoot, NoClick, Kinds, NoEntry

\* A write of an accepted entry stores nothing that was not accepted.
LEMMA PersistKnown ==
  ASSUME TypeOK, NEW t \in Tabs, NEW i, NEW s \in States, Persist(t, i, s)
  PROVE  /\ Stored' \subseteq Stored \cup {i}
         /\ \A u \in Tabs : view'[u] \subseteq view[u] \cup Stored'
  <1>1. \A u \in Tabs : view'[u] = view[u] \/ view'[u] = {j \in Ids : state'[j] = "failed"}
    BY DEF Persist, Notify, TypeOK
  <1>2. Stored' \subseteq Stored \cup {i}
    BY PersistEffect DEF Stored
  <1>. QED BY <1>1, <1>2 DEF Stored

LEMMA PersistFailsKnown ==
  ASSUME TypeOK, NEW t \in Tabs, PersistFails(t)
  PROVE  /\ Stored' \subseteq Stored
         /\ \A u \in Tabs : view'[u] \subseteq view[u] \cup Stored'
  <1>1. \A u \in Tabs : view'[u] = view[u] \/ view'[u] = {j \in Ids : state'[j] = "failed"}
    BY DEF PersistFails, Notify, TypeOK
  <1>2. Stored' \subseteq Stored
    BY PersistFailsEffect DEF Stored
  <1>. QED BY <1>1, <1>2 DEF Stored

\* Only enqueue() accepts, one entry that was not accepted before; and what is
\* stored, and shown, is accepted.
LEMMA StepStored ==
  ASSUME IInv, Known, [Next]_vars
  PROVE  /\ accepted' \subseteq 1..count'
         /\ \/ accepted' = accepted
            \/ \E i \in Ids \ accepted : /\ accepted' = accepted \cup {i}
                                         /\ i \in Stored'
                                         /\ UNCHANGED <<recorded, abandoned>>
         /\ Stored' \subseteq accepted'
         /\ \A t \in Tabs : view'[t] \subseteq accepted'
PROOF
  <1>. DEFINE Goal == /\ accepted' \subseteq 1..count'
                      /\ \/ accepted' = accepted
                         \/ \E i \in Ids \ accepted :
                              /\ accepted' = accepted \cup {i}
                              /\ i \in Stored'
                              /\ UNCHANGED <<recorded, abandoned>>
                      /\ Stored' \subseteq accepted'
                      /\ \A t \in Tabs : view'[t] \subseteq accepted'
  <1>. TypeOK /\ Dispatching
    BY DEF IInv
  <1>. {"queued", "syncing", "failed", "blocked", "synced", "discarded"} \subseteq States
    BY DEF States, Unsynced, Resolved
  <1>. USE DEF deviceVars, tabVars, authVars, serverVars, historyVars
  <1>1. ASSUME NEW t \in Tabs, Enqueue(t) PROVE Goal
    <2>1. /\ count \in Nat /\ count + 1 \in Ids /\ count' = count + 1
          /\ count + 1 \notin accepted /\ 1..count \subseteq 1..count'
          /\ count + 1 \in 1..count' /\ UNCHANGED <<recorded, abandoned>>
      BY <1>1, BoundsAssumption DEF Enqueue, TypeOK, Ids, Known
    <2>2. CASE Persist(t, count + 1, "queued") /\ accepted' = accepted \cup {count + 1}
      <3>1. state'[count + 1] = "queued"
        BY <2>1, <2>2, PersistEffect
      <3>2. count + 1 \in Stored'
        BY <2>1, <3>1 DEF Stored
      <3>. QED BY <2>1, <2>2, <3>2, PersistKnown DEF Known
    <2>3. CASE PersistFails(t) /\ accepted' = accepted
      BY <2>1, <2>3, PersistFailsKnown DEF Known
    <2>. QED BY <1>1, <2>2, <2>3 DEF Enqueue
  <1>2. ASSUME NEW t \in Tabs, NEW i \in accepted, NEW s \in States,
               Persist(t, i, s) \/ PersistFails(t), UNCHANGED <<accepted, count>>
        PROVE  Goal
    <2>1. Stored' \subseteq Stored \cup {i}
      BY <1>2, PersistKnown, PersistFailsKnown
    <2>2. \A u \in Tabs : view'[u] \subseteq view[u] \cup Stored'
      BY <1>2, PersistKnown, PersistFailsKnown
    <2>. QED BY <1>2, <2>1, <2>2 DEF Known
  <1>3. ASSUME NEW t \in Tabs, ReconcileWrite(t) PROVE Goal
    <2>1. PICK i \in todo[t] : Persist(t, i, "queued") \/ PersistFails(t)
      BY <1>3 DEF ReconcileWrite
    <2>2. i \in accepted /\ UNCHANGED <<accepted, count>>
      BY <1>3 DEF ReconcileWrite, Known
    <2>. QED BY <1>2, <2>1, <2>2
  <1>4. ASSUME NEW t \in Tabs, Mark(t) \/ Accepted(t) \/ Unanswered(t) \/ Rejected(t)
        PROVE  Goal
    <2>1. cur[t] \in accepted /\ UNCHANGED <<accepted, count>>
      <3>1. cur[t] # NoEntry
        BY <1>4 DEF Mark, Accepted, Unanswered, Rejected, Dispatching, Ids, NoEntry
      <3>. QED BY <1>4, <3>1 DEF Mark, Accepted, Unanswered, Rejected, Known
    <2>2. (\E s \in States : Persist(t, cur[t], s)) \/ PersistFails(t)
      BY <1>4 DEF Mark, Accepted, Unanswered, Rejected, Requeue
    <2>. QED BY <1>2, <2>1, <2>2
  <1>5. ASSUME NEW t \in Tabs, ClickWrites(t) PROVE Goal
    <2>1. click[t].id \in accepted /\ UNCHANGED <<accepted, count>>
      BY <1>5 DEF ClickWrites, Known
    <2>2. (\E s \in States : Persist(t, click[t].id, s)) \/ PersistFails(t)
      BY <1>5 DEF ClickWrites
    <2>. QED BY <1>2, <2>1, <2>2
  <1>6. ASSUME NEW t \in Tabs, BootRequeue(t) PROVE Goal
    <2>1. PICK i \in boot[t].stale : Persist(t, i, "queued") \/ PersistFails(t)
      BY <1>6 DEF BootRequeue
    <2>2. i \in accepted /\ UNCHANGED <<accepted, count>>
      BY <1>6 DEF BootRequeue, Known
    <2>. QED BY <1>2, <2>1, <2>2
  <1>7. ASSUME NEW t \in Tabs, PruneDelete(t) \/ BootPrune(t) PROVE Goal
    <2>1. UNCHANGED <<accepted, count>> /\ Stored' \subseteq Stored
      BY <1>7 DEF PruneDelete, BootPrune, Stored
    <2>2. \A u \in Tabs : view'[u] = view[u] \/ view'[u] = {j \in Ids : state'[j] = "failed"}
      BY <1>7 DEF PruneDelete, BootPrune, Notify, TypeOK
    <2>. QED BY <2>1, <2>2 DEF Known, Stored
  <1>8. ASSUME NEW t \in Tabs, Crash(t) \/ Reopen(t) PROVE Goal
    <2>1. UNCHANGED <<accepted, count, state>>
      BY <1>8 DEF Crash, Reopen
    <2>2. \A u \in Tabs : view'[u] \subseteq view[u] \cup Stored
      <3>1. InState({"failed"}) \subseteq Stored
        BY DEF InState, Stored
      <3>2. view' = [view EXCEPT ![t] = {}] \/ view' = [view EXCEPT ![t] = InState({"failed"})]
        BY <1>8 DEF Crash, Reopen
      <3>. QED BY <3>1, <3>2 DEF TypeOK
    <2>. QED BY <2>1, <2>2 DEF Known, Stored
  <1>9. CASE UNCHANGED <<accepted, count, state, view>>
    BY <1>9 DEF Known, Stored
  <1>10. \/ UNCHANGED <<accepted, count, state, view>>
         \/ \E t \in Tabs :
              \/ Enqueue(t) \/ ReconcileWrite(t) \/ Mark(t) \/ Accepted(t)
              \/ Unanswered(t) \/ Rejected(t) \/ ClickWrites(t) \/ BootRequeue(t)
              \/ PruneDelete(t) \/ BootPrune(t) \/ Crash(t) \/ Reopen(t)
    BY DEF Next, FlushStep, ServerStep, vars, Kick, TimerFires, Reconnect, GoOffline,
           IdentityRead, StaleRead, PickNext, PruneRead, Send, Click, SignIn,
           ProfileLoads, SignOut, Age, ServerReceive, ServerCommit, ServerReject,
           ServerFails
  <1>. QED BY <1>1, <1>3, <1>4, <1>5, <1>6, <1>7, <1>8, <1>9, <1>10

\* What a tab takes into its hands it reads from the store or from the screen.
LEMMA StepCarried ==
  ASSUME IInv, Known, [Next]_vars, NEW t \in Tabs
  PROVE  /\ todo'[t] \subseteq todo[t] \cup Stored
         /\ boot'[t].stale \subseteq boot[t].stale \cup Stored
         /\ cur'[t] \in {cur[t], NoEntry} \cup Stored
         /\ click'[t].kind \in Kinds => click'[t] = click[t] \/ click'[t].id \in view[t]
  <1>. TypeOK
    BY DEF IInv
  <1>. USE DEF deviceVars, tabVars, authVars, serverVars, historyVars
  <1>1. /\ InState({"blocked"}) \subseteq Stored /\ InState({"syncing"}) \subseteq Stored
        /\ InState({"queued"}) \subseteq Stored /\ InState(Resolved) \subseteq Stored
    BY DEF InState, Stored, Resolved
  <1>3. \/ todo'[t] \subseteq todo[t]
        \/ IdentityRead(t) \/ StaleRead(t) \/ PruneRead(t)
    BY DEF TypeOK, Next, FlushStep, ServerStep, vars, Kick, TimerFires, Reconnect,
           GoOffline, IdentityRead, StaleRead, ReconcileWrite, PickNext,
           PruneRead, PruneDelete, Mark, Send, Accepted, Unanswered, Rejected,
           Requeue, Click, ClickWrites, SignIn, ProfileLoads, SignOut, Crash,
           Reopen, BootPrune, BootRequeue, Age, Enqueue, StartFlush, FinishPass,
           ServerReceive, ServerCommit, ServerReject, ServerFails
  <1>4. todo'[t] \subseteq todo[t] \cup Stored
    <2>1. CASE IdentityRead(t)
      <3>1. todo'[t] \subseteq InState({"blocked"})
        BY <2>1 DEF IdentityRead, TypeOK
      <3>. QED BY <1>1, <3>1
    <2>2. CASE StaleRead(t) \/ PruneRead(t)
      <3>1. todo'[t] \subseteq InState({"syncing"}) \/ todo'[t] \subseteq InState(Resolved)
        BY <2>2 DEF StaleRead, PruneRead, TypeOK
      <3>. QED BY <1>1, <3>1
    <2>. QED BY <1>3, <2>1, <2>2
  <1>5. \/ boot'[t].stale \subseteq boot[t].stale
        \/ Reopen(t)
    <2>1. ASSUME NEW u \in Tabs, BootPrune(u) \/ BootRequeue(u)
          PROVE  boot'[t].stale \subseteq boot[t].stale
      <3>1. boot \in [Tabs -> [prune : SUBSET Ids, stale : SUBSET Ids]]
        BY DEF TypeOK
      <3>2. CASE BootPrune(u)
        BY <3>1, <3>2 DEF BootPrune
      <3>3. CASE BootRequeue(u)
        <4>1. \E S : /\ S \subseteq boot[u].stale
                     /\ boot' = [boot EXCEPT ![u] = [prune |-> boot[u].prune, stale |-> S]]
          BY <3>1, <3>3 DEF BootRequeue
        <4>. QED BY <3>1, <4>1
      <3>. QED BY <2>1, <3>2, <3>3
    <2>2. ASSUME NEW u \in Tabs, Crash(u) PROVE boot'[t].stale \subseteq boot[t].stale
      BY <2>2 DEF Crash, EmptyBoot, TypeOK
    <2>3. ASSUME NEW u \in Tabs, Reopen(u), u # t PROVE boot'[t] = boot[t]
      BY <2>3 DEF Reopen, TypeOK
    <2>. QED BY <2>1, <2>2, <2>3 DEF Next, FlushStep, ServerStep, vars, Kick, TimerFires,
           Reconnect, GoOffline, IdentityRead, StaleRead, ReconcileWrite, PickNext,
           PruneRead, PruneDelete, Mark, Send, Accepted, Unanswered, Rejected,
           Click, ClickWrites, SignIn, ProfileLoads, SignOut, Age, Enqueue,
           ServerReceive, ServerCommit, ServerReject, ServerFails
  <1>6. boot'[t].stale \subseteq boot[t].stale \cup Stored
    <2>1. CASE Reopen(t)
      <3>1. boot'[t].stale \subseteq InState({"syncing"})
        BY <2>1 DEF Reopen, TypeOK
      <3>. QED BY <1>1, <3>1
    <2>. QED BY <1>5, <2>1
  <1>7. cur'[t] \in {cur[t], NoEntry} \/ PickNext(t)
    BY DEF TypeOK, Next, FlushStep, ServerStep, vars, Kick, TimerFires, Reconnect,
           GoOffline, IdentityRead, StaleRead, ReconcileWrite, PickNext,
           PruneRead, PruneDelete, Mark, Send, Accepted, Unanswered, Rejected,
           Requeue, Click, ClickWrites, SignIn, ProfileLoads, SignOut, Crash,
           Reopen, BootPrune, BootRequeue, Age, Enqueue, FinishPass,
           ServerReceive, ServerCommit, ServerReject, ServerFails
  <1>8. cur'[t] \in {cur[t], NoEntry} \cup Stored
    <2>1. Eligible(t) \subseteq Stored
      BY <1>1 DEF Eligible
    <2>. QED BY <1>7, <2>1 DEF PickNext, TypeOK
  <1>9. \/ click'[t] \in {click[t], NoClick}
        \/ \E kind \in Kinds, i \in Ids : Click(t, kind, i)
    BY DEF TypeOK, Next, FlushStep, ServerStep, vars, Kick, TimerFires, Reconnect,
           GoOffline, IdentityRead, StaleRead, ReconcileWrite, PickNext,
           PruneRead, PruneDelete, Mark, Send, Accepted, Unanswered, Rejected,
           Click, ClickWrites, SignIn, ProfileLoads, SignOut, Crash, Reopen,
           BootPrune, BootRequeue, Age, Enqueue,
           ServerReceive, ServerCommit, ServerReject, ServerFails
  <1>10. click'[t].kind \in Kinds => click'[t] = click[t] \/ click'[t].id \in view[t]
    BY <1>9 DEF Click, NoClick, Kinds, TypeOK
  <1>. QED BY <1>4, <1>6, <1>8, <1>10

\* A request names an entry that was on its way already or is being dispatched.
LEMMA StepWire ==
  ASSUME IInv, Known, [Next]_vars, NEW q \in wire'
  PROVE  q.id \in accepted
  <1>. TypeOK /\ Dispatching
    BY DEF IInv
  <1>. USE DEF deviceVars, tabVars, authVars, serverVars, historyVars
  <1>1. CASE wire' = wire
    BY <1>1 DEF Known
  <1>2. ASSUME NEW r \in wire, ServerStep(r) PROVE q.id \in accepted
    <2>1. q \in wire \/ q.id = r.id
      BY <1>2 DEF ServerStep, ServerReceive, ServerCommit, ServerReject,
                  ServerFails, Reply, Moved
    <2>. QED BY <2>1 DEF Known
  <1>3. ASSUME NEW t \in Tabs, wire' = Forget(t) PROVE q.id \in accepted
    <2>1. q \in wire \/ \E r \in wire : q.id = r.id
      BY <1>3 DEF Forget, Moved, Calls
    <2>. QED BY <2>1 DEF Known
  <1>4. ASSUME NEW t \in Tabs, Send(t) PROVE q.id \in accepted
    <2>1. cur[t] \in accepted
      BY <1>4 DEF Send, Dispatching, Known, Ids, NoEntry
    <2>. QED BY <1>4, <2>1 DEF Send, Known
  <1>. QED BY <1>1, <1>2, <1>3, <1>4
       DEF Next, FlushStep, vars, Kick, TimerFires, Reconnect, GoOffline,
           IdentityRead, StaleRead, ReconcileWrite, PickNext, PruneRead,
           PruneDelete, Mark, Accepted, Unanswered, Rejected, Click, ClickWrites,
           SignIn, ProfileLoads, SignOut, Crash, Reopen, BootPrune, BootRequeue,
           Age, Enqueue

LEMMA StepKnown == IInv /\ Known /\ [Next]_vars => Known'
  <1>. SUFFICES ASSUME IInv, Known, [Next]_vars PROVE Known'
    OBVIOUS
  <1>1. accepted \subseteq accepted' /\ Stored \subseteq accepted /\ Known
    BY StepStored DEF Known
  <1>2. \A r \in wire' : r.id \in accepted'
    BY <1>1, StepWire
  <1>3. ASSUME NEW t \in Tabs
        PROVE  /\ todo'[t] \cup boot'[t].stale \cup view'[t] \subseteq accepted'
               /\ cur'[t] \in accepted' \cup {NoEntry}
               /\ click'[t].kind \in Kinds => click'[t].id \in accepted'
    <2>1. /\ todo[t] \cup boot[t].stale \cup view[t] \subseteq accepted'
          /\ cur[t] \in accepted' \cup {NoEntry}
          /\ click[t].kind \in Kinds => click[t].id \in accepted'
          /\ Stored \subseteq accepted' /\ view'[t] \subseteq accepted'
      BY <1>1, StepStored DEF Known
    <2>. QED BY <2>1, StepCarried
  <1>. QED BY <1>2, <1>3, StepStored DEF Known

\* Every step of the queue is a step of Outbox, or changes nothing it speaks of.
LEMMA StepPromise == IInv /\ Known /\ [Next]_vars => Promise!Next
  <1>. SUFFICES ASSUME IInv, Known, [Next]_vars PROVE Promise!Next
    OBVIOUS
  <1>. USE DEF deviceVars, tabVars, authVars, serverVars, historyVars, Promise!Next,
               Promise!Tidy, Promise!Accept, Promise!Deliver, Promise!GiveUp
  <1>1. Promise!Holds
    <2>1. Stored \ Stored' \subseteq recorded \cup abandoned
      BY StepLawful DEF Lawful, Stored, Unsynced
    <2>. QED BY <2>1, StepStored DEF Promise!Holds, Promise!Settled
  <1>2. CASE accepted' # accepted
    <2>1. PICK i \in Ids \ accepted : /\ accepted' = accepted \cup {i} /\ i \in Stored'
                                      /\ UNCHANGED <<recorded, abandoned>>
      BY <1>2, StepStored
    <2>. QED BY <1>1, <2>1
  <1>3. CASE accepted' = accepted /\ UNCHANGED <<recorded, abandoned>>
    BY <1>1, <1>3
  <1>4. ASSUME NEW r \in wire, ServerCommit(r) PROVE Promise!Next
    <2>1. r.id \in Ids \cap accepted
      BY DEF Known, IInv, TypeOK, Request
    <2>2. recorded' = recorded \cup {r.id} /\ UNCHANGED <<accepted, Stored, abandoned>>
      BY <1>4 DEF ServerCommit, Stored
    <2>. QED BY <2>1, <2>2
  <1>5. ASSUME NEW t \in Tabs, ClickWrites(t) PROVE Promise!Next
    <2>1. click[t].id \in Ids \cap accepted
      BY <1>5 DEF ClickWrites, Known, IInv, Dispatching
    <2>2. /\ UNCHANGED <<accepted, recorded>>
          /\ abandoned' \in {abandoned, abandoned \cup {click[t].id}}
      BY <1>5 DEF ClickWrites
    <2>. QED BY <1>1, <2>1, <2>2
  <1>6. \/ UNCHANGED <<recorded, abandoned>>
        \/ \E r \in wire : ServerCommit(r)
        \/ \E t \in Tabs : ClickWrites(t)
    BY DEF Next, FlushStep, ServerStep, vars, Kick, TimerFires, Reconnect,
           GoOffline, IdentityRead, StaleRead, ReconcileWrite, PickNext, PruneRead,
           PruneDelete, Mark, Send, Accepted, Unanswered, Rejected, Click, SignIn,
           ProfileLoads, SignOut, Crash, Reopen, BootPrune, BootRequeue, Age,
           Enqueue, ServerReceive, ServerReject, ServerFails
  <1>. QED BY <1>2, <1>3, <1>4, <1>5, <1>6

\* The device keeps the promises of Outbox, with any number of tabs, users,
\* entries and crashes: a write is accepted once, only accepted writes are
\* stored, recorded or given up, and what leaves the store is settled.
THEOREM ImplementsOutbox == Spec => KeepsOutbox
  <1>1. Init => Promise!Init
    BY DEF Init, Promise!Init, Stored
  <1>2. IInv /\ Known /\ [Next]_vars => [Promise!Next]_(Promise!vars)
    BY StepPromise
  <1>. QED BY <1>1, <1>2, InitKnown, StepKnown, Invariance, PTL
           DEF Spec, KeepsOutbox, Promise!Spec
=============================================================================
