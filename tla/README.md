# Ultimate Bookkeeping V2: a TLA+ model of the till and its books

The repository is a point-of-sale and bookkeeping system for shops with poor
connectivity: a React application for one outlet (`apps/outlet`) that records
every sale, stock adjustment and expense in an IndexedDB queue first
(`packages/offline-queue`), and a FastAPI service over Postgres (`apps/api`)
that accepts each of them at most once by its `client_id`. What can go wrong
goes wrong along this path: a write the cashier was told is recorded gets lost,
doubled, misattributed, mispriced or stuck. The project models the whole path:
the session that says who is at the till, the screens on which a write begins,
the queue that carries it, the handlers that record it, the screen on which a
manager repairs what was refused, and the catalogue the till reads meanwhile.

## Inventory

| Part | State it keeps | Operations | Talks to |
|---|---|---|---|
| Offline queue (`packages/offline-queue`) | entries in IndexedDB, shared by the tabs; per tab: one flush promise, backoff timers, listeners | `enqueue`, `flush`, `dispatchEntry`, `retryEntry`, `discardEntry`, `reconcileIdentityBlocks`, `reconcileStaleSyncing`, `pruneStaleEntries`, `persistAndNotify`, `onReconnect` | API client, auth context (who is signed in), screens (listeners) |
| API client (`packages/api-client`) | the token provider | `apiFetch`, one function per endpoint | the API |
| Session (`apps/outlet/src/auth`) | the SDK's account, the user the listener heard of, `/me` profile, cached profile per uid | SDK load and notification, `/me` answer or cache, sign-in, sign-out | API client, queue, App shell |
| App shell (`App.jsx`) | the route | the auth gate over the screens; three startup effects: reconnect handler, prune, stale reconcile | session, queue |
| Cart and checkout (`features/pos`) | the cart, the checkout dialog, the status of the submission | add, step, remove, warn, check out, confirm | queue, catalogue, stock levels |
| Stock and expense forms (`features/stock`, `features/expenses`) | levels, dialog, status | adjust, record an expense | queue, API |
| Sync status and resolution (`features/sync-status`) | the last snapshot, the levels, the pending row | retry, discard, top up and retry | queue, stock levels |
| Catalogue and stock reads | pages, levels | paged reads, their cancellation, stock labels | service worker, API |
| Write endpoints (`apps/api/app/routers`) | `sales`, `stock_movements`, `stock_levels`, `expenses` | `create_sale`, `create_stock_adjustment`, `create_expense` | Postgres |
| Pricing (`pricing.py`, `money.js`) | none | totals, discounts, variance flag | |
| Authentication, tenancy, rate limits, error envelopes | limiter counters | token check, outlet resolution | |
| Catalogue import, variance report, seeds, migrations | | scripts of an operator | Postgres |
| Service worker and update prompt | cached pages, waiting worker, prompt state | answer from the cache, refresh, drop; ready, dismiss, reload | API, App shell |

What makes the behaviour hard:

- **Stale snapshots.** Every queue function reads an entry, awaits something and
  writes `{...entry, state}` back. Passes, timers, startup effects, clicks and
  other tabs run in between.
- **At-least-once delivery.** Answers get lost, tabs are killed after a request
  left, containers are killed after a commit. The queue repeats, the API
  deduplicates.
- **One shared promise.** `flush()` joins a pass that runs, so whoever calls it
  at the wrong moment triggers nothing.
- **Two clocks of identity.** The queue asks who is signed in, and the API client
  asks for a token later.
- **Row locks and unique keys.** Handlers interleave between database round
  trips; the stock row may not exist yet; the pool is small.
- **Limits.** A full disk while writing any state; pruning by age from a list
  read earlier; a product cache that drops its pages one by one.
- **Answers out of order.** Nothing cancels `/me`, a background refresh or a
  submission whose user, load or dialog is gone.
- **Work done on a screen that closes.** Dialogs close, carts change and other
  rows are clicked while an `enqueue()` is out.

For each part, what makes it correct: the queue loses nothing that was accepted,
calls nothing synced that is not recorded, leaves failed entries to a person,
starves no entry and heals what a crash stranded; the API keeps stock equal to
its movements, applies an intent once and as a whole, answers truthfully and
always answers; the session never lends one user's work to another, and does
not lock out a cashier who is offline; a cart becomes one sale, at the price that
was shown; a correction is enough and recorded once; the catalogue is there
offline and in the end the server's; a new build is offered.

## Modules

| Module | Models | Extends |
|---|---|---|
| `Outbox` | what the queue promises: a write is accepted once, only accepted writes are sent or given up, and only settled ones leave the device | |
| `OfflineQueue` | the queue in all tabs of a device, the session and the server as the queue sees them | instance of `Outbox` |
| `MCOfflineQueue`, `OfflineQueueProofs` | instances for TLC; theorems | `OfflineQueue` |
| `Ledger` | the abstract books: each intent at most once, as a whole, never below zero | |
| `WriteApi` | the three POST handlers over Postgres | instance of `Ledger` |
| `MCWriteApi`, `WriteApiProofs` | instances; theorems | `WriteApi` |
| `AuthSession` | who is signed in, as the outlet app sees it | |
| `AuthSessionProofs` | theorems about the session | `AuthSession` |
| `Pricing` | the total of a sale, on the till and in the API | |
| `Till` | cart, checkout, expense form, stock adjustment | `Pricing` |
| `SumTheorems` | lemmas: what a sum over a finite set is, whatever the order it is taken in | |
| `TillProofs` | the equality of the two totals; the till's inductive invariant, step by step | `Till`, `SumTheorems` |
| `OutletApp` | the app: screens that come and go with the session | `AuthSession`, `Till` |
| `MCOutletApp`, `OutletAppProofs` | an instance; theorems | `OutletApp` |
| `Resolution` | the resolution screen over the queue's surface and the stock | |
| `MCResolution`, `ResolutionProofs` | an instance; theorems | `Resolution` (the theorems: `SumTheorems` too) |
| `Catalogue` | catalogue loads through the service worker, and the update prompt | |
| `MCCatalogue`, `CatalogueProofs` | an instance; theorems | `Catalogue` |

Definitions whose comment says *Mutant* or *A bug* are deliberately wrong variants of the
definition below them. Nothing refers to them; `PROJECT.json` names, for every
checked property, a variant that breaks it.

### `OfflineQueue`

The entry with rank *i* in the order of `byFifoOrder` is the number *i*.
`state[i]` is its state in IndexedDB. Because the functions of the queue write
back a whole entry of which only the state and its timestamp matter, a snapshot
held across an await is the identifier alone. Per tab: `pc` is the position in
`flush()` (`idle` means `flushPromise` is null), `todo` the list read by the
reconcile or prune step it is in, `cur` and `tried` the entry being dispatched
and `attemptedThisPass`, `timers` is `retryTimers`, `boot` what the startup
effects of `App.jsx` have read, `view` the failed rows on screen, `click` a retry
or discard between its read and its write, `kicks` the calls of `flush()` that
follow a write (after `enqueue`, `retryEntry`, or a profile that loaded).

| Code | Actions |
|---|---|
| `enqueue` | `Enqueue`, then `Kick(t, "enqueue")` |
| `scheduleRetry`'s callback, `onReconnect`'s handler | `TimerFires`, `Reconnect` |
| `flush` | `StartFlush`; `IdentityRead`, `StaleRead`, `ReconcileWrite`; `PickNext`; `PruneRead`, `PruneDelete` |
| `dispatchEntry` | `Mark` (held or syncing), `Send`, then `Accepted`, `Unanswered` or `Rejected` |
| `persistAndNotify` | `Persist`, `PersistFails` inside every action that writes |
| `retryEntry`, `discardEntry` | `Click`, `ClickWrites` |
| `App.jsx` effects | `Reopen`, `BootPrune`, `BootRequeue` |
| AuthContext | `SignIn`, `ProfileLoads`, `SignOut` |
| the API | `ServerReceive`, `ServerCommit`, `ServerReject`, `ServerFails` |

`Crash` closes a tab at any await: its requests go on without it. `Age` lets an
entry pass the threshold its state is compared with. The emergency prune of a
full disk is one step with the write it makes room for. A write that is refused is
refused for lack of space: other errors of IndexedDB, which would surface between
a write and the snapshot that follows it, are left out.

`Promise` instantiates `Outbox` with what the store holds, and `KeepsOutbox` says
the queue implements it. `Outbox` knows four sets: the writes the device accepted
(the moment IndexedDB takes them), those it holds, those the server has and those
a person gave up. It allows a tab to put back what another one dropped, since a
pass writes what it read earlier; it does not allow a write that was refused for a
full disk, and that the cashier will ring up again, to reach the server.

### `WriteApi`

One action per database round trip of a handler: `Precheck`, `Admit` (products,
and the snapshot of the `FOR UPDATE` statement), `LockRow` for each row in the
order of `product_id`, `Check`, `Commit` or `Rollback`, `Refresh` or
`FetchWinner`; `Lose` and `PoolTimeout` may end a request from outside. A sale, an
adjustment and an expense differ in what they touch and how much they ask for:
`Effect[c][p]` is what intent `c` adds to product `p`, `Need[c][p]` the stock the
handler demands, which for a sale is checked per line. `Conflicts` lists the
three constraints a commit can violate. `Books` instantiates `Ledger` with the
cached quantities; `KeepsLedger` says the handlers implement it.

### `AuthSession`

`account` is what the Firebase SDK keeps across page loads and shares among the
tabs; `heard` is the user its listener was last told of. `Notify` is the
`onAuthStateChanged` callback, `MeReturns` the promise chain behind `getMe()` with
`deriveAuthState` and the profile cache, `SignIn`, `SignOut` and `SdkSignsOut` the
two functions of the context (sign-out has an await between clearing the cache
and the SDK), `Reload` everything that starts the page anew. Another tab runs the
same context over the same account and the same localStorage: `OtherTabSwitches`
is its sign-in or sign-out as the SDK shares it, `OtherTabKeeps` its `/me` answer
that writes the profile cache and `OtherTabForgets` its `signOut()` that clears
it. Only an answer of `/me` reads the cache, so what the other tab does to a
user's slot is told while a call for that user is out, or while that user looks
at a screen without the app (`Concerns`); an earlier write is the same as one at
that time. A profile is named by its owner, a token by its account; the API answers
`/me` for the token. A call carries how many notifications came since it left
(`age`), so that a late answer can be told apart: `late` says that the state shown
is one, `mixed` that one was handled since the last notification.

### `Till` and `OutletApp`

`Till` has one action per tap: tiles and the stock warning, the steppers, checkout
with its form, the expense form, the adjustment dialog, and `Finish`, the
continuation after `await enqueue()`, which runs even when the dialog it came from
is closed. What the form fields hold is chosen when the form is sent. `taps` holds
the submissions that are out, with the cart, the estimate and the author each
took along. `Remount` is a screen that unmounts and mounts: all state of its
hooks is gone, and submissions still out touch nothing any more. `OutletApp`
joins the two: the gate of `App.jsx` remounts the screens whenever the session
enters or leaves the app, and steps of the till act for the profile of the moment.

`Pricing` has the preview of `CheckoutModal.jsx` (integer cents, one division and
a look at the remainder) and `pricing.py` (decimals, rounded half up once), both
as numbers of cents.

### `Resolution`

The queue at its surface: entries in FIFO order, one pass that attempts each entry
once, answers that may be lost. `TopUp` is the click on the row's button with the
plan of `planStockTopUp`; `EnqueueFix`, `Resend`, `HandlerEnds` and `StorageFails`
are the stretches of `handleTopUpAndRetry` between its awaits. `slot` is
`pendingClientId`. The server checks line by line and refuses by constraint what
the lines together do not have, as `WriteApi` does. The screen may be left and
entered; a handler runs on. `granted` has the pairs of a sale and a product for
which a plan was made that is enough: its levels showed no more than there was,
levels that were not read included. When an `enqueue()` fails half-way (`GivesUp`),
only the lines that were not enqueued are taken out of it again (`news`: those this
click had put there), so that the others stay accountable, also when the sale is
planned again. Two handlers of one row that are at the same place with
the same plan are one element of `handlers`: they count as one.

### `Catalogue`

`Gets` is one iteration of `fetchAllProducts`; `FromCache`, `FromCacheRefreshed`
and `FromNetwork` are the `StaleWhileRevalidate` route for a page the worker
controls, `FlightLands` the refresh that arrives later, `Put`, `Room` and `Expires`
the cache with its limits. `create_product` and `update_product` are the committed
writes of an administrator, which the import script makes too: a product is its
name and a count of its updates, for the price and the rest, and a new name moves
it and shifts the products between from page to page. No endpoint deletes one. The
code lets two products have one name and leaves their order to the database; the
model keeps names distinct. A load whose hook was unmounted goes on (`mine`). The
prompt is `reduceUpdatePrompt` with the events of the registration; it is rendered
inside what the auth gate chooses, so `GateChanges` starts it anew.

## Runs

Safety of the queue uses `Spec`, without fairness; liveness uses `FairSpec`.

| Run | Instance | Shows |
|---|---|---|
| `QueueSession` | 1 tab, 2 entries, lost answers, outages, ageing, full disk | `TypeOK`, `AcceptedNeverLost`, `SyncedMeansRecorded`, `HumanDecides` |
| `QueueTabs` | 2 tabs, 1 entry, 2 kills, lost answers, ageing, full disk | `AcceptedNeverLost`, `SyncedMeansRecorded`, `KeepsOutbox`: nothing lost, nothing sent that was refused and `synced` true, between tabs and across restarts |
| `QueueLive` | 2 entries, flaky server | `QueueDrains`: no entry is starved |
| `QueueHeal` | 2 users, 2 sign-ins, 1 entry, 1 kill, ageing | `StrandedIsHealed`, `HeldIsReleased` |
| `WriteBooks` | 3 requests, 7 intents, 1 stocked product, 1 without a row, 1 unknown, 2 connections, failures | `StockMatchesLedger`, `CheckStillHolds`, `AnswersAreTrue`, `KeepsLedger`, `EveryRequestAnswered`, `TypeOK` |
| `OutletApp` | 2 users, 2 sign-ins (here or in another tab), the other tab's cache writes and clears, 1 reload, 1 product, 2 pieces, 2 submissions | nobody's profile, cart or sale becomes another's (`CacheIsOwn`, `ShownIsSignedIn`, `CartIsItsCashiers`); nobody is locked out (`NotLockedOut`, `LoadingEnds`); one cart, one sale, at the price shown (`OneSaleAtATime`, `NoEmptySale`, `PreviewIsReceipt`, `FinishTakesOnlyItsOwn`, `ConfirmNotStuck`) |
| `Resolution` | a sale of 2 products, one of them on two lines, 2 corrections, 2 handlers, 2 visits, full disks | `PlanCovers`, `OneClickAtATime`, `TopUpGoesThrough` |
| `Catalogue` | 3 products and a fourth name, pages of 2, a cache of 2 of 3 pages, 1 edit or 1 build, 2 loads | `KeptOffline`, `PriceConverges`, `UpdateIsOffered` |

Runs that are expected to end in a counterexample, each against a sentence of
the repository (quoted in `PROJECT.json`, "findings"):

| Run | Property | What happens |
|---|---|---|
| `QueueTimer` | `RetriedUnaided` | entry A fails, its timer fires while the pass waits for B's answer and only joins that pass; A stays queued with nothing to wake it |
| `QueueSignOut` | `OnlyTheAuthorIsRefused` | a pass runs while nobody is signed in and is answered 401 |
| `WriteReplay` | `RefusedMeansUnrecorded` | the second delivery of a sale waits for the row and is refused for the stock the first one took |
| `ResolveOrder` | `ToppedUpIsNotRefused` | the corrections wait behind the sale they are for, which is sent first and refused again |

### Further observations

Behaviours that the models contain, that have no run of their own, and that a
maintainer may want to know:

- A retry or an enqueue that falls on a pass which will not look at the entry any
  more (after it tried it, or while it deletes old entries) joins that pass and
  leaves the entry without a trigger, as in `QueueTimer`.
- Two tabs may attempt one entry; if one is refused and its user discards the
  entry, the other's retryable failure writes `{...entry, state: "queued"}` over
  the discard.
- Between a sign-in and the answer of `/me` the queue knows no user, and an entry
  of the user before may be sent with the next one's token.
- Two lines of one product, each covered and both together not, pass the stock
  check of `create_sale` and end in the CHECK constraint: a 500 that says
  retryable and fails the same way each time. `CheckStillHolds` says that this is
  the only way a sale meets it: what the lines were compared with is still there
  when the handler writes. Two different first adjustments of a product
  that both insert its row end alike.
- The status of the expense form and of the adjustment dialog is `queued` from the
  first submission on, and their buttons are disabled while it is: after a
  recorded expense the button stays disabled until the screen is left.
- When the catalogue grows so that its last page becomes full, the refreshed cache
  leads to a page that was never fetched; offline, that till has no catalogue
  until it has been online once more. A catalogue of more than 20 pages never fits
  the cache at all. `KeptOffline` excludes both, since the code does not handle
  them.
- A click on a second row of the resolution screen enables the first row's
  buttons while its handler runs, since one `pendingClientId` serves all rows;
  `OneClickAtATime` excludes the rows so disturbed.
- The levels of that screen are read again only after a resend. When an `enqueue()`
  fails half-way, the row's next plan is made from the same levels and repeats
  the lines that are in the queue: nothing is missed (`PlanCovers`), but the stock
  is corrected by more than the shelf held.
- An answer of `/me` that another account has overtaken is shown all the same.
  `ShownIsSignedIn`, `CartIsItsCashiers` and `NotLockedOut` except it (`late`,
  `mixed`), as `OneSaleAtATime` and `FinishTakesOnlyItsOwn` except a checkout that is
  closed over a sale being recorded (`again`, `left`).

### Bounds

`MaxEntries`, `MaxCrashes` and `MaxSignIns` bound the counters of a behaviour;
`Requests` bounds the deliveries. Two entries are enough for order, starvation
and a timer of one entry firing during the dispatch of another; one entry is
enough where two tabs or a restart interfere, since what they corrupt is one
entry's state. Two tabs give every pair of stale snapshots. Two kills allow a
kill during the recovery from the first. Two sign-ins allow the author to come
back after somebody else. Three requests over seven intents allow a repeat
of an intent next to another one, and a container lost among them. `HumanDecides` is
checked for one tab that is not killed: between tabs it does not hold (see the
observations), and the stale write of a
startup reconcile can precede a click only when a prune or a write waits for
minutes.

`MaxSignIns = 2` in `OutletApp` lets a second account appear while the first one's
`/me` is out, and the first come back; a reload in between starts from the SDK's
account and the cache. One product with two pieces gives every cart that differs
from the one submitted, and `MaxTaps = 2` a submission during another. The single
price and discount, 12.5% of 3.64, end in half a cent; `PreviewIsExact` proves the
rest. In `Resolution` one product on two lines is the case the plan exists for, and
the second product lets a plan fail between its two lines: with two corrections, one
of them is in the queue when the disk is full, and the row is planned again for what
its levels still show as missing. Two visits free the slot while a handler runs. A
second row, which takes the slot as well, is in the instance of `ResolveOrder` and in
the theorems; both rows with two products and liveness are beyond TLC's reach here.
In `Catalogue` the last of two pages has one place left: a new product fills it
and makes a third page, one more than the cache keeps, and a new name can move any
product to the other page. An edit and a build do not read each other's state,
so that a behaviour has one of them (`MaxChanges`). The proofs below lift the bounds for the properties they
cover.

`CHECK_DEADLOCK FALSE` in every cfg: a device with an empty queue, or a service
whose clients are done, rests.

### Fairness

`OfflineQueue!Fairness` is weak fairness of what the browser and the server run
by themselves: the steps of a pass, calls already under way, timers, startup
effects, answers and the passing of time. Nothing obliges people to click, sign in
or enqueue, `/me` to answer or the connection to come back, and an answer may be
lost each time. `QueueDrains`,
`StrandedIsHealed` and `HeldIsReleased` therefore assume `KeepsFlushing`, that
passes keep starting, which is what the reconnect event, timers and new entries
do in use; `QueueTimer` shows that the timers alone do not.
`WriteApi!Fairness` is weak fairness of each handler: the event loop schedules
it, Postgres hands a released row to a waiter and the pool a free connection to
one. A handler that waits for a row is disabled until the row is free, and with
finitely many requests that happens for good, so weak fairness suffices.

`OutletApp!FairSpec` is weak fairness of the SDK chunk (loaded or failed), of
notifications and of `/me`; no tap and no sign-in is fair. `Resolution!FairSpec`
starts and ends passes, answers an entry that is attempted again and again
(strong fairness, as each attempt may lose its answer; a sale the server refuses
for another reason is answered or not, as long as the pass goes on), runs handlers on, and has
a manager who does not leave a failed sale alone: `TopUpGoesThrough` needs the
plain retries that `ResolveOrder` shows to be necessary. `Catalogue!FairSpec` has
a cashier who keeps coming back to the screen, requests that are answered if they
are made again and again, refreshes that land, and a registration that reports
the waiting build.

## Proofs

Every safety property a run checks is also a theorem, for every value of the
constants that satisfies the assumptions named `...Assumption`, which TLC evaluates
on every run. Each inductive invariant below was first checked by TLC on the
instance of its run.

**The queue** (`OfflineQueueProofs`). `TypeOK`, `AcceptedNeverLost` and
`SyncedMeansRecorded` hold for every number of tabs, users, entries, kills and
sign-ins, and every switch. `AcceptedNeverLost` is not inductive: an entry may be
deleted from a list read long before. `IInv` adds

- `Dispatching`: a pass between `mark` and its answer has a current entry, and
  the requests of its tab are for that entry;
- `AnswersHold`: a request that was answered positively is recorded;
- `DiscardedMeansAbandoned`: what is `discarded` was given up by a person;
- `PruneLists`: whatever a pass or a startup effect is about to delete is
  recorded or abandoned, whatever its state has become since the list was read.

The last is why deleting by identifier is safe although it ignores the state: an
entry that reached a prune list was resolved once, and *recorded* and *abandoned*
never shrink. `Lawful` is the condition a write must satisfy to keep these;
each action is shown to write lawfully (`StepLawful`), once for all of them.

`ImplementsOutbox` is the refinement of `Outbox`, with any number of tabs and kills.
Removal is `Lawful` again; for the rest, `Known` says that whatever a tab carries
across an await, shows on its screen or has on its way was accepted, and that the
next identifier was not: since every such list is read from the store, an entry
that was refused is in none of them.

`OnlyHumansDecide` proves `HumanDecides` for a device with one tab that is not killed,
with any number of entries, users and sign-ins. These two hypotheses are those of
the run `QueueSession`, and the property needs them (see the observations). With
one tab, what was read is still true when it is acted on: `Alone` says so of each
stage of a pass, of the screen and of a pending click; identifiers above the count
are unused, so that what a prune is about to delete cannot be recorded anew.

**The write API** (`WriteApiProofs`). `TypeOK`, `StockMatchesLedger`, `AnswersAreTrue` and
`KeepsLedger` hold for every set of requests, intents and products and every pool
size. The invariant behind them says that what a transaction read under a lock
is still the committed quantity while it holds the lock, that a lock has one
holder, and that only existing rows are locked. `CheckStillHolds` follows: a product a
sale takes from was found under a lock, the lock is still held when the sale is
written, and no other handler has committed a quantity under it. Without the lock it
fails at once (its mutant), and so does `StockMatchesLedger`.

**The session and the till.** `AuthSessionProofs` proves `CacheIsOwn`, `ShownIsSignedIn`
and `NotLockedOut` of `AuthSpec`. The first two are not inductive: `AuthInv` adds that the token provider follows the
account that was heard (`ProviderFollows`), that every call out carries its own
account's token and that one which no notification has overtaken is the heard
account's (`CallsAreOwn`), and that such a call is back once the app is entered,
unless an overtaken answer came (`AnsweredOnce`). `NotLockedOut` is an action
property, as it must be with a cache that another tab writes: the step that shows the
login screen to an account is justified by the cache as that step finds it. What the
other tab caches later does not take the cashier back into the app, in the code and
in the model, until the page is reloaded.

`TillProofs` shows `TillInv` inductive, one lemma per action. It adds to the
properties what ties a submission to the cart: a sale that is out was left by its
dialog or is of the very cart that checkout still shows (`SalesAreOfCart`), and a
checkout that was not reopened has one sale out at most, with its button disabled
(`OneIsOut`). `OutletAppProofs` proves that the app implements the session
(`Spec => AuthSpec`, the refinement is the identity on the session's variables),
so the session's theorems hold of it, and joins the invariants: without a session
there is no cart and nothing in flight, and what is there is of the profile shown.
From `AppInv` follow `TypeOK`, `CartIsItsCashiers`, `OneSaleAtATime`,
`NoEmptySale`, `ConfirmNotStuck` and `FinishTakesOnlyItsOwn`, for all users,
products, prices, forms and bounds. `PreviewIsReceipt` joins `PreviewIsExact`, the
equality of the two computations for every subtotal and form (`HalfUp` and
`AtMostAll` are its two facts about rounding), with `SubtotalIsNat`: the subtotal of
every cart is a natural number.

**Sums** (`SumTheorems`). The subtotal, the pieces a sale asks for and the corrections
under way are sums over finite sets, which the community modules compute with a
recursive function that removes a chosen element. What it computes is proved
without an induction rule: if a statement failed for some subset, it would fail for
a smallest one (`Smallest`, from the well-foundedness of strict inclusion between
finite sets), and one step of the recursion refutes that. `SumRemove` is the
recursion for any element, not only the chosen one; `SumAgree`, `SumMonotone`,
`SumNat` and `SumUpdate` are what the other modules use.

**The resolution screen** (`ResolutionProofs`). `TypeOK`, `OneClickAtATime` and
`PlanCovers` hold for any products, sales, stock and number of handlers and visits.

- `TypeInv` has the types of the handlers and their plans: a correction that is not
  in the queue yet is not recorded, and a handler that sends the sale again has
  enqueued its whole plan.
- `SlotInv`, for `OneClickAtATime`: a row nobody disturbed that has a handler holds
  the slot, so its buttons are disabled, and the handler is the only one.
- `CoverInv`, for `PlanCovers`: for each line that was granted, the stock and the
  corrections under way cover what the sale asks of that product, or the handler
  that granted it has the line still to enqueue and they do together with it. An
  `enqueue()` moves a number from the plan to what is under way and an answer from
  there to the stock (`SumUpdate`). A handler that gives up on a full disk ends the
  claim for the lines it had not enqueued, and for no other: what it did enqueue
  goes on covering, and so does an earlier plan. Here the sum matters: that the plan
  covers a sale with two lines of one product is a fact about the sum of its lines.

**The catalogue** (`CatalogueProofs`). `TypeOK` and `KeptOffline` hold for any catalogue,
page size, cache size and number of loads.

- `TypeInv`: the server keeps one record per name, the cache keeps to its limit,
  and every page, kept or on its way, fits the page size.
- `SizeInv`: while the catalogue kept its size, a cached or travelling page has as
  many products as that page has now, whichever edit it was cut from. A new name
  changes what is on a page and not how much: the ranks of n names are 1 .. n
  (`RankCounts`), so the size of a page depends on their number alone (`CutSize`).
- `WalkInv`: as long as no page was dropped, a load that passes the worker has full
  pages behind it in the cache, and one that has ended left a chain of cached pages,
  full up to the last. A refresh replaces a page by one of the same size, so it
  breaks no chain.

Only model-checked: the liveness properties (`QueueDrains`, `StrandedIsHealed`,
`HeldIsReleased`, `EveryRequestAnswered`, `LoadingEnds`, `TopUpGoesThrough`,
`PriceConverges`, `UpdateIsOffered`), since the provers do not reason about
fairness here, and the expected violations, which are counterexamples. The Quota,
Flaky, Outages and Aging switches are ordinary constants, so the proofs hold with
all of them on.

## Not modelled

- Attempt counters, payload edits and error texts (nothing above depends on
  them); equal timestamps; a `fetch` that never settles.
- In `OfflineQueue`, the moment between two tabs' notice of a sign-in and the
  profile of a restored session; `AuthSession` has the session in full. The two are
  not composed: their product is out of TLC's reach, and what the queue asks of
  the session is one question, answered by `profile`.
- Likewise `Resolution` uses the queue at its surface: held and stranded entries,
  other tabs and reloads of the page are left to `OfflineQueue`.
- A second outlet or tenant, token verification, tenancy rules: sequential lookups
  that the repository's tests enumerate. The limiter's counters are a library's;
  its 429 is one of the retryable answers.
- The price variance flag, search and filters, field validation, the SKU
  constraint and the refusals of the catalogue's write endpoints, paged reads of sales and expenses.
- Precaching, the manifest and the scripts that verify a build; import, report and
  seed scripts; rendering and styles.

`PROJECT.json` lists each part with its status.
