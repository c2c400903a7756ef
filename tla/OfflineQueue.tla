---------------------------- MODULE OfflineQueue ----------------------------
(***************************************************************************)
(* The offline queue of the outlet app (packages/offline-queue): one       *)
(* IndexedDB store shared by every tab of the origin, and in each tab a    *)
(* flush loop, backoff timers and the resolution buttons, all of them      *)
(* asynchronous functions that interleave at their awaits.                 *)
(*                                                                         *)
(* One action stands for the code between two awaits that matter: a read   *)
(* of the store and the write that depends on it are separate steps, so a  *)
(* step may act on a snapshot that is no longer true.  dispatchEntry and   *)
(* the reconcile passes write {...entry, state: s}: the only mutable parts *)
(* of an entry are its state and the timestamp of that state, so a         *)
(* snapshot is the entry's identifier and a write simply replaces the      *)
(* state, whatever it became in the meantime.                              *)
(*                                                                         *)
(* An entry is named by its rank in enqueue order: that order is the pair  *)
(* (enqueued_at, seq) of byFifoOrder, fixed when the entry is built.       *)
(* Clocks are abstracted: an entry is in "old" once the timestamp of its   *)
(* current state has passed the threshold the code compares it with        *)
(* (STALE_SYNCING_MS for a dispatch, RETENTION_WINDOW_MS for a resolved    *)
(* entry).  The tabs share one session, as they share Firebase's: that one *)
(* tab hears of a sign-in later than another is left out.  The server is   *)
(* the one promised by routers/sales.py: a precheck of client_id, then a   *)
(* transaction that records the write or rejects it.                       *)
(***************************************************************************)
EXTENDS Integers, FiniteSets

CONSTANTS
    Tabs,          \* browser tabs of the origin
    NoTab,         \* the tab of a request nobody waits for any more
    Users,         \* users who can sign in on the device
    NoUser,        \* nobody: signed out, or a profile not loaded yet
    MaxEntries,    \* bound on the intents recorded in a behaviour
    MaxCrashes,    \* bound on the tabs killed in a behaviour
    MaxSignIns,    \* bound on the sign-ins in a behaviour
    Flaky,         \* answers may get lost and the server may answer 5xx/429
    Outages,       \* the device may lose its connection
    Aging,         \* time may pass the thresholds of the code
    QuotaErrors    \* an IndexedDB write may fail for lack of storage

ASSUME TabsAssumption == NoTab \notin Tabs /\ IsFiniteSet(Tabs)
ASSUME UsersAssumption == NoUser \notin Users
ASSUME BoundsAssumption == /\ MaxEntries \in Nat /\ MaxCrashes \in Nat
                           /\ MaxSignIns \in Nat
ASSUME SwitchesAssumption == {Flaky, Outages, Aging, QuotaErrors} \subseteq BOOLEAN

VARIABLES
    state,      \* state[i]: the state of entry i in IndexedDB, or "absent"
    old,        \* entries whose state's timestamp passed its threshold
    creator,    \* creator[i]: created_by of entry i
    count,      \* number of intents recorded so far
    pc,         \* pc[t]: where the flush pass of tab t is
    todo,       \* todo[t]: the entries a reconcile or prune pass has read
    cur,        \* cur[t]: the entry dispatchEntry is working on
    tried,      \* tried[t]: attemptedThisPass
    timers,     \* timers[t]: entries with a backoff timer (retryTimers)
    kicks,      \* kicks[t]: calls of flush() that are about to be made
    boot,       \* boot[t]: what the two startup passes of App.jsx have read
    view,       \* view[t]: the failed entries shown by the resolution screen
    click,      \* click[t]: the retry or discard between its read and its write
    token,      \* the user whose token api-client attaches
    profile,    \* the user the currentUserProvider answers
    online,     \* navigator.onLine
    wire,       \* requests sent and not yet forgotten
    recorded,   \* entries the server has recorded
    accepted,   \* history: entries whose enqueue() resolved
    abandoned,  \* history: entries a person discarded
    crashes, signIns

deviceVars == <<state, old, creator, count>>
tabVars == <<pc, todo, cur, tried, timers, kicks, boot, view, click>>
authVars == <<token, profile, signIns>>
serverVars == <<wire, recorded>>
historyVars == <<accepted, abandoned, crashes>>
vars == <<deviceVars, tabVars, authVars, online, serverVars, historyVars>>

Ids == 1..MaxEntries
NoEntry == 0
Nobody(u) == u = NoUser

Unsynced == {"queued", "syncing", "failed", "blocked"}
Resolved == {"synced", "discarded"}
States == Unsynced \cup Resolved \cup {"absent"}
Passing == {"identity", "unblock", "requeue", "next", "mark", "send", "wait",
            "prune", "delete"}
Kinds == {"retry", "discard"}
NoClick == [kind |-> "none", id |-> NoEntry]
EmptyBoot == [prune |-> {}, stale |-> {}]

Request == [id : Ids, tab : Tabs \cup {NoTab}, as : Users \cup {NoUser},
            st : {"sent", "admitted", "ok", "rejected", "retry"}]

InState(S) == {i \in Ids : state[i] \in S}
Open(t) == pc[t] # "closed"
Calls(t) == {r \in wire : r.tab = t}
Answered(t, st) == \E r \in Calls(t) : r.st = st

TypeOK ==
    /\ state \in [Ids -> States]
    /\ old \subseteq Ids
    /\ creator \in [Ids -> Users \cup {NoUser}]
    /\ count \in 0..MaxEntries
    /\ pc \in [Tabs -> Passing \cup {"idle", "closed"}]
    /\ todo \in [Tabs -> SUBSET Ids]
    /\ cur \in [Tabs -> Ids \cup {NoEntry}]
    /\ tried \in [Tabs -> SUBSET Ids]
    /\ timers \in [Tabs -> SUBSET Ids]
    /\ kicks \in [Tabs -> SUBSET {"enqueue", "retry", "profile"}]
    /\ boot \in [Tabs -> [prune : SUBSET Ids, stale : SUBSET Ids]]
    /\ view \in [Tabs -> SUBSET Ids]
    /\ click \in [Tabs -> [kind : Kinds \cup {"none"}, id : Ids \cup {NoEntry}]]
    /\ token \in Users \cup {NoUser}
    /\ profile \in Users \cup {NoUser}
    /\ online \in BOOLEAN
    /\ wire \subseteq Request
    /\ recorded \subseteq Ids
    /\ accepted \subseteq Ids
    /\ abandoned \subseteq Ids
    /\ crashes \in 0..MaxCrashes
    /\ signIns \in 0..MaxSignIns

Init ==
    /\ state = [i \in Ids |-> "absent"]
    /\ old = {}
    /\ creator = [i \in Ids |-> NoUser]
    /\ count = 0
    /\ pc = [t \in Tabs |-> "idle"]
    /\ todo = [t \in Tabs |-> {}]
    /\ cur = [t \in Tabs |-> NoEntry]
    /\ tried = [t \in Tabs |-> {}]
    /\ timers = [t \in Tabs |-> {}]
    /\ kicks = [t \in Tabs |-> {}]
    /\ boot = [t \in Tabs |-> EmptyBoot]
    /\ view = [t \in Tabs |-> {}]
    /\ click = [t \in Tabs |-> NoClick]
    /\ token \in Users
    /\ profile = token
    /\ online = TRUE
    /\ wire = {}
    /\ recorded = {}
    /\ accepted = {}
    /\ abandoned = {}
    /\ crashes = 0
    /\ signIns = 0

-----------------------------------------------------------------------------
(* Writing to IndexedDB: persistAndNotify                                  *)

\* subscribe(): the writing tab's listeners get a fresh snapshot.  Listeners
\* live in the module, so the other tabs are not told.
Notify(t) == view' = [view EXCEPT ![t] = {i \in Ids : state'[i] = "failed"}]

\* Mutants: the emergency measure flags what it should delete, or deletes
\* whatever is not waiting for a dispatch.
EmergencyFlags == [i \in Ids |-> IF state[i] \in Resolved THEN "pruned" ELSE state[i]]
EmergencyDropsFailed ==
    [i \in Ids |-> IF state[i] \in {"queued", "syncing"} THEN state[i] ELSE "absent"]

\* pruneStaleEntries({retentionMs: 0}), the emergency measure.  (Entries
\* resolved within the very same millisecond would survive it; not modelled.)
Emergency == [i \in Ids |-> IF state[i] \in Resolved THEN "absent" ELSE state[i]]

\* The write of one entry succeeds, at once or after the emergency prune.
Persist(t, i, s) ==
    /\ \/ /\ state' = [state EXCEPT ![i] = s]
          /\ old' = old \ {i}
       \/ /\ QuotaErrors
          /\ InState(Resolved) # {}
          /\ state' = [Emergency EXCEPT ![i] = s]
          /\ old' = (old \ InState(Resolved)) \ {i}
    /\ Notify(t)

\* The write throws QuotaExceededStorageError: nothing could be pruned, or
\* the single retry after pruning failed as well.
PersistFails(t) ==
    /\ QuotaErrors
    /\ IF InState(Resolved) = {}
         THEN UNCHANGED <<state, old, view>>
         ELSE /\ state' = Emergency
              /\ old' = old \ InState(Resolved)
              /\ Notify(t)

-----------------------------------------------------------------------------
(* enqueue() and the triggers of flush()                                   *)

\* flush() starts a pass, or returns the promise of the one that runs.
StartFlush(t) ==
    IF pc[t] = "idle"
      THEN /\ pc' = [pc EXCEPT ![t] = "identity"]
           /\ tried' = [tried EXCEPT ![t] = {}]
      ELSE UNCHANGED <<pc, tried>>

\* Mutant: the write landed, and the caller is told that it did not.
EnqueueDenies(t) ==
    /\ Open(t) /\ ~ Nobody(profile)
    /\ count < MaxEntries
    /\ count' = count + 1
    /\ creator' = [creator EXCEPT ![count + 1] = profile]
    /\ Persist(t, count + 1, "queued")
    /\ UNCHANGED <<pc, todo, cur, tried, timers, boot, click, authVars, online,
                   serverVars, abandoned, crashes, accepted, kicks>>

\* A sale, adjustment or expense is recorded by the signed-in user; flush()
\* is called when the write and the snapshot that follows it are done.
Enqueue(t) ==
    /\ Open(t) /\ ~ Nobody(profile)
    /\ count < MaxEntries
    /\ count' = count + 1
    /\ creator' = [creator EXCEPT ![count + 1] = profile]
    /\ \/ /\ Persist(t, count + 1, "queued")
          /\ accepted' = accepted \cup {count + 1}
          /\ kicks' = [kicks EXCEPT ![t] = @ \cup {"enqueue"}]
       \/ /\ PersistFails(t)
          /\ UNCHANGED <<accepted, kicks>>
    /\ UNCHANGED <<pc, todo, cur, tried, timers, boot, click, authVars, online,
                   serverVars, abandoned, crashes>>

\* The pending call is made; enqueue() makes it only when isOnline().
Kick(t, k) ==
    /\ Open(t) /\ k \in kicks[t]
    /\ kicks' = [kicks EXCEPT ![t] = @ \ {k}]
    /\ IF k = "enqueue" /\ ~ online THEN UNCHANGED <<pc, tried>> ELSE StartFlush(t)
    /\ UNCHANGED <<deviceVars, todo, cur, timers, boot, view, click, authVars,
                   online, serverVars, historyVars>>

\* The timer of scheduleRetry fires.
TimerFires(t, i) ==
    /\ i \in timers[t]
    /\ timers' = [timers EXCEPT ![t] = @ \ {i}]
    /\ StartFlush(t)
    /\ UNCHANGED <<deviceVars, todo, cur, kicks, boot, view, click, authVars,
                   online, serverVars, historyVars>>

\* The browser's 'online' event reaches the handler of every open tab.
Reconnect ==
    /\ ~ online
    /\ online' = TRUE
    /\ pc' = [t \in Tabs |-> IF pc[t] = "idle" THEN "identity" ELSE pc[t]]
    /\ tried' = [t \in Tabs |-> IF pc[t] = "idle" THEN {} ELSE tried[t]]
    /\ UNCHANGED <<deviceVars, todo, cur, timers, kicks, boot, view, click,
                   authVars, serverVars, historyVars>>

GoOffline ==
    /\ Outages /\ online
    /\ online' = FALSE
    /\ UNCHANGED <<deviceVars, tabVars, authVars, serverVars, historyVars>>

-----------------------------------------------------------------------------
(* One pass of flush()                                                     *)

Goto(t, l) == pc' = [pc EXCEPT ![t] = l]

\* The promise of the pass settles, by its end or by an exception.
FinishPass(t) ==
    /\ Goto(t, "idle")
    /\ todo' = [todo EXCEPT ![t] = {}]
    /\ cur' = [cur EXCEPT ![t] = NoEntry]

\* Mutant: the comparison with the creator is the wrong way round.
IdentityReadOthers(t) ==
    /\ pc[t] = "identity"
    /\ todo' = [todo EXCEPT ![t] =
                  IF Nobody(profile) THEN {}
                  ELSE {i \in InState({"blocked"}) : creator[i] # profile}]
    /\ Goto(t, "unblock")
    /\ UNCHANGED <<deviceVars, cur, tried, timers, kicks, boot, view, click,
                   authVars, online, serverVars, historyVars>>

\* reconcileIdentityBlocks: who is signed in, and what is held for them.
IdentityRead(t) ==
    /\ pc[t] = "identity"
    /\ todo' = [todo EXCEPT ![t] =
                  IF Nobody(profile) THEN {}
                  ELSE {i \in InState({"blocked"}) : creator[i] = profile}]
    /\ Goto(t, "unblock")
    /\ UNCHANGED <<deviceVars, cur, tried, timers, kicks, boot, view, click,
                   authVars, online, serverVars, historyVars>>

\* Mutant: the heartbeat is compared the wrong way round.
StaleReadFresh(t) ==
    /\ pc[t] = "unblock" /\ todo[t] = {}
    /\ todo' = [todo EXCEPT ![t] = InState({"syncing"}) \ old]
    /\ Goto(t, "requeue")
    /\ UNCHANGED <<deviceVars, cur, tried, timers, kicks, boot, view, click,
                   authVars, online, serverVars, historyVars>>

\* reconcileStaleSyncing, its read, once the first pass has written its last.
StaleRead(t) ==
    /\ pc[t] = "unblock" /\ todo[t] = {}
    /\ todo' = [todo EXCEPT ![t] = InState({"syncing"}) \cap old]
    /\ Goto(t, "requeue")
    /\ UNCHANGED <<deviceVars, cur, tried, timers, kicks, boot, view, click,
                   authVars, online, serverVars, historyVars>>

\* Either reconcile pass returns one entry of its snapshot to 'queued'.
ReconcileWrite(t) ==
    /\ pc[t] \in {"unblock", "requeue"}
    /\ \E i \in todo[t] :
         \/ /\ Persist(t, i, "queued")
            /\ todo' = [todo EXCEPT ![t] = @ \ {i}]
            /\ UNCHANGED <<pc, cur>>
         \/ PersistFails(t) /\ FinishPass(t)
    /\ UNCHANGED <<creator, count, tried, timers, kicks, boot, click, authVars,
                   online, serverVars, historyVars>>

\* Mutant: the pass takes failed entries as well.
EligibleWithFailed(t) == InState({"queued", "failed"}) \ tried[t]

\* nextQueuedEntry: the oldest queued entry this pass has not attempted.
Eligible(t) == InState({"queued"}) \ tried[t]

PickNext(t) ==
    /\ pc[t] = "next" \/ (pc[t] = "requeue" /\ todo[t] = {})
    /\ \E i \in Eligible(t) :
         /\ \A j \in Eligible(t) : i <= j
         /\ cur' = [cur EXCEPT ![t] = i]
         /\ tried' = [tried EXCEPT ![t] = @ \cup {i}]
    /\ Goto(t, "mark")
    /\ UNCHANGED <<deviceVars, todo, timers, kicks, boot, view, click, authVars,
                   online, serverVars, historyVars>>

\* pruneStaleEntries, its read: the loop has found nothing more to dispatch.
PruneRead(t) ==
    /\ pc[t] = "next" \/ (pc[t] = "requeue" /\ todo[t] = {})
    /\ Eligible(t) = {}
    /\ todo' = [todo EXCEPT ![t] = InState(Resolved) \cap old]
    /\ cur' = [cur EXCEPT ![t] = NoEntry]
    /\ Goto(t, IF InState(Resolved) \cap old = {} THEN "idle" ELSE "delete")
    /\ UNCHANGED <<deviceVars, tried, timers, kicks, boot, view, click, authVars,
                   online, serverVars, historyVars>>

\* deleteEntries: by client_id, whatever the entries are by now.
PruneDelete(t) ==
    /\ pc[t] = "delete"
    /\ state' = [i \in Ids |-> IF i \in todo[t] THEN "absent" ELSE state[i]]
    /\ old' = old \ todo[t]
    /\ Notify(t)
    /\ FinishPass(t)
    /\ UNCHANGED <<creator, count, tried, timers, kicks, boot, click, authVars,
                   online, serverVars, historyVars>>

-----------------------------------------------------------------------------
(* dispatchEntry                                                           *)

\* A different, identified user is signed in.
OtherUser(i) == ~ Nobody(creator[i]) /\ ~ Nobody(profile) /\ profile # creator[i]

\* The timer is cleared; the entry is held for its creator or marked
\* 'syncing'.  A write that fails ends the pass with the entry as it was.
Mark(t) ==
    /\ pc[t] = "mark"
    /\ timers' = [timers EXCEPT ![t] = @ \ {cur[t]}]
    /\ \/ /\ Persist(t, cur[t], IF OtherUser(cur[t]) THEN "blocked" ELSE "syncing")
          /\ Goto(t, IF OtherUser(cur[t]) THEN "next" ELSE "send")
          /\ UNCHANGED <<todo, cur>>
       \/ PersistFails(t) /\ FinishPass(t)
    /\ UNCHANGED <<creator, count, tried, kicks, boot, click, authVars, online,
                   serverVars, historyVars>>

\* apiFetch: the token is read now, not when the identity was checked.  A
\* request made offline never leaves the device.
Send(t) ==
    /\ pc[t] = "send"
    /\ Goto(t, "wait")
    /\ wire' = IF online
                 THEN wire \cup {[id |-> cur[t], tab |-> t, as |-> token, st |-> "sent"]}
                 ELSE wire
    /\ UNCHANGED <<deviceVars, todo, cur, tried, timers, kicks, boot, view, click,
                   authVars, online, recorded, historyVars>>

\* Request r, from now on in the hands of tab t and in stage s.
Moved(r, t, s) == [id |-> r.id, tab |-> t, as |-> r.as, st |-> s]

\* The device stops waiting: an answer in hand is consumed, a request still
\* on its way goes on without it.
Forget(t) ==
    (wire \ Calls(t))
      \cup {Moved(r, NoTab, r.st) : r \in {q \in Calls(t) : q.st \in {"sent", "admitted"}}}

\* Mutants: the first retryable failure ends the pass; an attempt nobody
\* answered is taken for a success.
RequeueEndsPass(t) ==
    \/ /\ Persist(t, cur[t], "queued")
       /\ timers' = [timers EXCEPT ![t] = @ \cup {cur[t]}]
       /\ FinishPass(t)
    \/ PersistFails(t) /\ FinishPass(t) /\ UNCHANGED timers
RequeueOptimistic(t) ==
    \/ /\ Persist(t, cur[t], "synced")
       /\ Goto(t, "next")
       /\ UNCHANGED <<todo, cur, timers>>
    \/ PersistFails(t) /\ FinishPass(t) /\ UNCHANGED timers

\* A retryable failure: back to 'queued', with a backoff timer.
Requeue(t) ==
    \/ /\ Persist(t, cur[t], "queued")
       /\ timers' = [timers EXCEPT ![t] = @ \cup {cur[t]}]
       /\ Goto(t, "next")
       /\ UNCHANGED <<todo, cur>>
    \/ PersistFails(t) /\ FinishPass(t) /\ UNCHANGED timers

\* Mutant: any answer that is not retryable counts as a success.
AcceptedIfAnswered(t) ==
    /\ pc[t] = "wait" /\ (Answered(t, "ok") \/ Answered(t, "rejected"))
    /\ wire' = Forget(t)
    /\ \/ /\ Persist(t, cur[t], "synced")
          /\ Goto(t, "next")
          /\ UNCHANGED <<todo, cur, timers>>
       \/ QuotaErrors /\ Requeue(t)
    /\ UNCHANGED <<creator, count, tried, kicks, boot, click, authVars, online,
                   recorded, historyVars>>

\* 2xx: 'synced'.  The write is inside the try block: when it fails, the
\* catch block takes the error for a network failure.
Accepted(t) ==
    /\ pc[t] = "wait" /\ Answered(t, "ok")
    /\ wire' = Forget(t)
    /\ \/ /\ Persist(t, cur[t], "synced")
          /\ Goto(t, "next")
          /\ UNCHANGED <<todo, cur, timers>>
       \/ QuotaErrors /\ Requeue(t)
    /\ UNCHANGED <<creator, count, tried, kicks, boot, click, authVars, online,
                   recorded, historyVars>>

\* A retryable answer, or no answer: the fetch rejected, offline or not.
Unanswered(t) ==
    /\ pc[t] = "wait"
    /\ Answered(t, "retry") \/ Calls(t) = {} \/ Flaky
    /\ wire' = Forget(t)
    /\ Requeue(t)
    /\ UNCHANGED <<creator, count, tried, kicks, boot, click, authVars, online,
                   recorded, historyVars>>

\* A non-retryable answer: 'failed', for a person to resolve.
Rejected(t) ==
    /\ pc[t] = "wait" /\ Answered(t, "rejected")
    /\ wire' = Forget(t)
    /\ \/ /\ Persist(t, cur[t], "failed")
          /\ Goto(t, "next")
          /\ UNCHANGED <<todo, cur>>
       \/ PersistFails(t) /\ FinishPass(t)
    /\ UNCHANGED <<creator, count, tried, timers, kicks, boot, click, authVars,
                   online, recorded, historyVars>>

-----------------------------------------------------------------------------
(* The resolution screen: retryEntry and discardEntry                      *)

\* A button of a row that is shown; getEntry finds the entry or throws.
\* (One click at a time per tab: its read and its write are milliseconds
\* apart.)
Click(t, kind, i) ==
    /\ Open(t) /\ ~ Nobody(profile)
    /\ click[t] = NoClick
    /\ i \in view[t]
    /\ state[i] # "absent"
    /\ click' = [click EXCEPT ![t] = [kind |-> kind, id |-> i]]
    /\ timers' = [timers EXCEPT ![t] = IF kind = "discard" THEN @ \ {i} ELSE @]
    /\ UNCHANGED <<deviceVars, pc, todo, cur, tried, kicks, boot, view, authVars,
                   online, serverVars, historyVars>>

ClickWrites(t) ==
    /\ click[t].kind \in Kinds
    /\ click' = [click EXCEPT ![t] = NoClick]
    /\ \/ /\ click[t].kind = "retry"
          /\ Persist(t, click[t].id, "queued")
          /\ kicks' = [kicks EXCEPT ![t] = @ \cup {"retry"}]
          /\ UNCHANGED abandoned
       \/ /\ click[t].kind = "discard"
          /\ Persist(t, click[t].id, "discarded")
          /\ abandoned' = abandoned \cup {click[t].id}
          /\ UNCHANGED kicks
       \/ PersistFails(t) /\ UNCHANGED <<kicks, abandoned>>
    /\ UNCHANGED <<creator, count, pc, todo, cur, tried, timers, boot, authVars,
                   online, serverVars, accepted, crashes>>

-----------------------------------------------------------------------------
(* Signing in and out (AuthContext)                                        *)

\* onAuthStateChanged: the token provider is set at once, the profile is
\* null until /me answers.
SignIn(u) ==
    /\ Nobody(token) /\ signIns < MaxSignIns
    /\ token' = u
    /\ signIns' = signIns + 1
    /\ UNCHANGED <<deviceVars, tabVars, profile, online, serverVars, historyVars>>

\* /me answers, or the cached profile stands in for it; the effect on the
\* profile calls flush() in every open tab.  When /me is refused, or cannot be
\* reached and nothing is cached, the profile stays null: the step is not taken.
ProfileLoads ==
    /\ ~ Nobody(token) /\ Nobody(profile)
    /\ profile' = token
    /\ kicks' = [t \in Tabs |-> IF Open(t) THEN kicks[t] \cup {"profile"} ELSE kicks[t]]
    /\ UNCHANGED <<deviceVars, pc, todo, cur, tried, timers, boot, view, click,
                   token, signIns, online, serverVars, historyVars>>

\* (Bounded with the sign-ins, so that somebody may come back.)
SignOut ==
    /\ ~ Nobody(token) /\ signIns < MaxSignIns
    /\ token' = NoUser
    /\ profile' = NoUser
    /\ UNCHANGED <<deviceVars, tabVars, signIns, online, serverVars, historyVars>>

-----------------------------------------------------------------------------
(* Crashes, restarts and the passing of time                               *)

\* The tab is closed or killed: everything outside IndexedDB is lost.
Crash(t) ==
    /\ Open(t) /\ crashes < MaxCrashes
    /\ crashes' = crashes + 1
    /\ pc' = [pc EXCEPT ![t] = "closed"]
    /\ todo' = [todo EXCEPT ![t] = {}]
    /\ cur' = [cur EXCEPT ![t] = NoEntry]
    /\ tried' = [tried EXCEPT ![t] = {}]
    /\ timers' = [timers EXCEPT ![t] = {}]
    /\ kicks' = [kicks EXCEPT ![t] = {}]
    /\ boot' = [boot EXCEPT ![t] = EmptyBoot]
    /\ view' = [view EXCEPT ![t] = {}]
    /\ click' = [click EXCEPT ![t] = NoClick]
    /\ wire' = Forget(t)
    /\ UNCHANGED <<deviceVars, authVars, online, recorded, accepted, abandoned>>

\* Mutant: the startup prune goes by age, whatever the state.
ReopenPrunesByAge(t) ==
    /\ pc[t] = "closed"
    /\ Goto(t, "idle")
    /\ boot' = [boot EXCEPT ![t] = [prune |-> old, stale |-> {}]]
    /\ view' = [view EXCEPT ![t] = InState({"failed"})]
    /\ kicks' = [kicks EXCEPT ![t] = IF Nobody(profile) THEN {} ELSE {"profile"}]
    /\ UNCHANGED <<deviceVars, todo, cur, tried, timers, click, authVars, online,
                   serverVars, historyVars>>

\* The app mounts: App.jsx starts pruneStaleEntries and reconcileStaleSyncing
\* next to whatever flush() the session starts, and the screen reads a
\* snapshot.  The restored session flushes when its profile is there.
Reopen(t) ==
    /\ pc[t] = "closed"
    /\ Goto(t, "idle")
    /\ boot' = [boot EXCEPT ![t] = [prune |-> InState(Resolved) \cap old,
                                    stale |-> InState({"syncing"}) \cap old]]
    /\ view' = [view EXCEPT ![t] = InState({"failed"})]
    /\ kicks' = [kicks EXCEPT ![t] = IF Nobody(profile) THEN {} ELSE {"profile"}]
    /\ UNCHANGED <<deviceVars, todo, cur, tried, timers, click, authVars, online,
                   serverVars, historyVars>>

BootPrune(t) ==
    /\ boot[t].prune # {}
    /\ state' = [i \in Ids |-> IF i \in boot[t].prune THEN "absent" ELSE state[i]]
    /\ old' = old \ boot[t].prune
    /\ boot' = [boot EXCEPT ![t] = [prune |-> {}, stale |-> @.stale]]
    /\ Notify(t)
    /\ UNCHANGED <<creator, count, pc, todo, cur, tried, timers, kicks, click,
                   authVars, online, serverVars, historyVars>>

BootRequeue(t) ==
    /\ \E i \in boot[t].stale :
         \/ /\ Persist(t, i, "queued")
            /\ boot' = [boot EXCEPT ![t] = [prune |-> @.prune, stale |-> @.stale \ {i}]]
         \/ /\ PersistFails(t)
            /\ boot' = [boot EXCEPT ![t] = [prune |-> @.prune, stale |-> {}]]
    /\ UNCHANGED <<creator, count, pc, todo, cur, tried, timers, kicks, click,
                   authVars, online, serverVars, historyVars>>

\* Two minutes after a dispatch began, two days after an entry was resolved.
Age(i) ==
    /\ Aging
    /\ state[i] \in Resolved \cup {"syncing"}
    /\ i \notin old
    /\ old' = old \cup {i}
    /\ UNCHANGED <<state, creator, count, tabVars, authVars, online, serverVars,
                   historyVars>>

-----------------------------------------------------------------------------
(* The server, as POST /sales, /stock/adjustments and /expenses promise    *)

\* The reply goes to the tab that waits for it; nobody hears it otherwise.
Reply(r, st) ==
    wire' = (wire \ {r}) \cup (IF r.tab = NoTab THEN {} ELSE {Moved(r, r.tab, st)})

\* Authentication, then the precheck of client_id: a known one is replayed.
ServerReceive(r) ==
    /\ r.st = "sent"
    /\ \/ Nobody(r.as) /\ Reply(r, "rejected")
       \/ ~ Nobody(r.as) /\ r.id \in recorded /\ Reply(r, "ok")
       \/ /\ ~ Nobody(r.as) /\ r.id \notin recorded
          /\ wire' = (wire \ {r}) \cup {Moved(r, r.tab, "admitted")}
    /\ UNCHANGED <<deviceVars, tabVars, authVars, online, recorded, historyVars>>

\* The transaction commits; when another one recorded the client_id first,
\* the UNIQUE constraint turns this one into a replay.
ServerCommit(r) ==
    /\ r.st = "admitted"
    /\ recorded' = recorded \cup {r.id}
    /\ Reply(r, "ok")
    /\ UNCHANGED <<deviceVars, tabVars, authVars, online, historyVars>>

\* A business rejection (no such product, not enough stock): never retryable.
ServerReject(r) ==
    /\ r.st = "admitted"
    /\ Reply(r, "rejected")
    /\ UNCHANGED <<deviceVars, tabVars, authVars, online, recorded, historyVars>>

\* 429, 5xx or an infrastructure failure before the commit.
ServerFails(r) ==
    /\ Flaky /\ r.st \in {"sent", "admitted"}
    /\ Reply(r, "retry")
    /\ UNCHANGED <<deviceVars, tabVars, authVars, online, recorded, historyVars>>

-----------------------------------------------------------------------------
FlushStep(t) ==
    \/ IdentityRead(t) \/ StaleRead(t) \/ ReconcileWrite(t) \/ PickNext(t)
    \/ PruneRead(t) \/ PruneDelete(t) \/ Mark(t) \/ Send(t)
    \/ Accepted(t) \/ Unanswered(t) \/ Rejected(t)

ServerStep(r) ==
    \/ ServerReceive(r) \/ ServerCommit(r) \/ ServerReject(r) \/ ServerFails(r)

Next ==
    \/ \E t \in Tabs :
         \/ FlushStep(t)
         \/ Enqueue(t)
         \/ \E k \in {"enqueue", "retry", "profile"} : Kick(t, k)
         \/ \E i \in Ids : TimerFires(t, i)
         \/ \E kind \in Kinds, i \in Ids : Click(t, kind, i)
         \/ ClickWrites(t)
         \/ Crash(t) \/ Reopen(t) \/ BootPrune(t) \/ BootRequeue(t)
    \/ \E r \in wire : ServerStep(r)
    \/ \E i \in Ids : Age(i)
    \/ Reconnect \/ GoOffline
    \/ ProfileLoads \/ SignOut \/ \E u \in Users : SignIn(u)

Spec == Init /\ [][Next]_vars

-----------------------------------------------------------------------------
(* Safety                                                                  *)

\* A write the cashier was told is recorded never vanishes: it leaves the
\* device only once the server has it or a person gave it up.  The queue
\* prunes in several places from lists read earlier, among crashes, other
\* tabs and full disks (pruneStaleEntries, persistAndNotify).
AcceptedNeverLost ==
    \A i \in accepted : state[i] = "absent" => i \in recorded \cup abandoned

\* 'synced' is shown only for what the server has recorded, whatever answers
\* were lost, repeated or late.
SyncedMeansRecorded == InState({"synced"}) \subseteq recorded

\* Only a person moves an entry out of 'failed', and nothing but pruning
\* moves one out of 'synced' or 'discarded': no pass, timer or late write of
\* the queue does (dispatchEntry: "no further automatic attempts").
HumanDecides ==
    [][\A i \in Ids :
         /\ state[i] = "failed" /\ state'[i] # "failed" =>
              \E t \in Tabs : click[t].id = i /\ click'[t] = NoClick
         /\ state[i] \in Resolved => state'[i] \in {state[i], "absent"}]_vars

\* An entry becomes 'failed' only on an answer the server gave to its author:
\* the work of a cashier who signed out waits for that person (AppHeader).
OnlyTheAuthorIsRefused ==
    [][\A i \in Ids : state[i] # "failed" /\ state'[i] = "failed" =>
         \E r \in wire : r.id = i /\ r.st = "rejected" /\ r.as = creator[i]]_vars

\* The device keeps the promises of Outbox: what IndexedDB accepted, once, and
\* only that, reaches the server or is given up, and nothing else leaves or
\* enters the store (persistAndNotify: of a write refused for a full disk "the
\* write is simply gone", so no list a tab holds may bring it back).
Stored == {i \in Ids : state[i] # "absent"}
Promise == INSTANCE Outbox WITH Writes <- Ids, kept <- Stored
KeepsOutbox == Promise!Spec

-----------------------------------------------------------------------------
(* Liveness                                                                *)

\* What the platform runs by itself: the steps of a pass, calls already
\* queued, timers, the server's answers, the reopening of the app and the
\* passing of time.  People and connectivity are not scheduled.
Fairness ==
    /\ \A t \in Tabs :
         /\ WF_vars(FlushStep(t))
         /\ \A k \in {"enqueue", "retry", "profile"} : WF_vars(Kick(t, k))
         /\ \A i \in Ids : WF_vars(TimerFires(t, i))
         /\ WF_vars(ClickWrites(t)) /\ WF_vars(Reopen(t))
         /\ WF_vars(BootPrune(t)) /\ WF_vars(BootRequeue(t))
         /\ WF_vars(\E r \in Calls(t) : ServerStep(r))
    /\ \A i \in Ids : WF_vars(Age(i))

FairSpec == Spec /\ Fairness

\* flush() keeps being called while the tab is idle.
KeepsFlushing == \A t \in Tabs : []<>(pc[t] = "identity")

\* As long as something keeps calling flush(), every queued entry gets its
\* turn, however many older entries keep failing: each pass attempts an entry
\* at most once (flush: attemptedThisPass) and goes on to the next.
QueueDrains ==
    KeepsFlushing => \A i \in Ids : state[i] = "queued" ~> state[i] # "queued"

\* As long as something keeps calling flush(), no entry is left in 'syncing'
\* by a killed tab: its heartbeat goes stale and a pass takes it back
\* (reconcileStaleSyncing: "it's never stranded").
StrandedIsHealed ==
    KeepsFlushing => \A i \in Ids : state[i] = "syncing" ~> state[i] # "syncing"

\* As long as something keeps calling flush(), an entry held for its creator
\* is released once that user is back to stay (reconcileIdentityBlocks).
HeldIsReleased ==
    \A i \in Ids :
        KeepsFlushing /\ <>[](profile = creator[i]) => <>[](state[i] # "blocked")

\* An entry that is queued on a device that is open, connected and signed in
\* from then on is dispatched without anyone's help: by the pass that is
\* running, or by the capped-backoff timer (flush: "Later" is either the next
\* explicit flush() call or the timer).
RetriedUnaided ==
    <>[](online /\ profile # NoUser) =>
        \A i \in Ids : state[i] = "queued" ~> state[i] # "queued"

=============================================================================
