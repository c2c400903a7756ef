----------------------------- MODULE Catalogue ------------------------------
(***************************************************************************)
(* How the till reads its catalogue, and how a new build reaches it.       *)
(*                                                                         *)
(* The POS loads page after page until a short one (fetchAllProducts.js,   *)
(* useProducts.js).  Each request of a controlled page passes the service  *)
(* worker, which answers a product read from its cache and refreshes the   *)
(* cache in the background (vite.config.js, apiCacheRoutes.js).  The same  *)
(* worker waits with a new build until the cashier accepts the offer of    *)
(* pwa/UpdatePrompt.jsx, or until the app is closed.                       *)
(*                                                                         *)
(* A connection is not a state here: each request may succeed or fail.     *)
(***************************************************************************)
EXTENDS Integers, FiniteSets

CONSTANTS
    Products,     \* names, numbers in their order; two products do not share one
    Start,        \* the products of the catalogue at first
    PageSize,
    MaxPages,
    MaxEntries,   \* of the cache: maxEntries of vite.config.js
    MaxLoads,     \* bound: loads that run at once, cancelled ones too
    MaxChanges    \* bound: changes of the catalogue and new builds, together

ASSUME CatalogueAssumption ==
    /\ Products \subseteq Nat /\ IsFiniteSet(Products) /\ Start \subseteq Products
    /\ {PageSize, MaxPages, MaxEntries} \subseteq Nat \ {0}

VARIABLES
    server,      \* the outlet's products, pairs of a name and its price, a count of updates
    edits,
    resized,     \* the catalogue has got more or fewer products
    controlled,  \* the worker controls the page
    cache,       \* cache[k]: the answer kept for page k
    lost,        \* an answer was dropped, by its age or for room
    flights,     \* answers of background requests that are on their way
    loads,       \* fetchAllProducts() under way, [page, got, whole, mine]
    kept,        \* a load has ended that passed the worker throughout
    grid,        \* products of useProducts
    status,      \* of useProducts: "loading", "ready" or "error"
    prompt,      \* state of updatePromptMachine
    told,        \* this mount of the prompt has heard of the waiting build
    waiting,     \* a new build is installed and waits
    declined,    \* the cashier put the offer off
    builds

readVars == <<server, edits, resized, controlled, cache, lost, flights, loads, kept, grid,
              status>>
promptVars == <<prompt, told, waiting, declined, builds>>
vars == <<readVars, promptVars>>

Pages == 0 .. MaxPages - 1

\* list_products: one slice of the products in the order of their names.
Page(k) ==
    LET rank(x) == Cardinality({y \in server : y[1] <= x[1]})
    IN  {x \in server : k * PageSize < rank(x) /\ rank(x) <= (k + 1) * PageSize}

----------------------------------------------------------------------------
(* The routes of the service worker, and its cache. *)

\* The request of page k as Workbox tests it, with its origin.
Read(k) == [path |-> "/api/v1/products", origin |-> TRUE, page |-> k]

\* A bug: the patterns are anchored at the path.
RouteAnchored(request) ==
    IF request.path = "/api/v1/products" /\ ~request.origin THEN "StaleWhileRevalidate"
    ELSE "NetworkOnly"

\* PRODUCTS_READ_PATTERN, STOCK_LEVELS_READ_PATTERN and OTHER_API_PATTERN.
Route(request) ==
    IF request.path = "/api/v1/products" THEN "StaleWhileRevalidate" ELSE "NetworkOnly"

Cacheable(k) == controlled /\ Route(Read(k)) = "StaleWhileRevalidate"
Hit(k) == Cacheable(k) /\ k \in DOMAIN cache

\* A bug: no bound on the entries.
RoomAll(k) == {DOMAIN cache \cup {k}}

\* What stays when k is put: entries over the limit are dropped.
Room(k) ==
    LET all == DOMAIN cache \cup {k}
    IN  IF Cardinality(all) <= MaxEntries THEN {all} ELSE {all \ {j} : j \in all \ {k}}

Put(k, items) ==
    \E pages \in Room(k) :
        /\ cache' = [j \in pages |-> IF j = k THEN items ELSE cache[j]]
        /\ lost' = (lost \/ ~(DOMAIN cache \subseteq pages))

\* A bug: the cached answer is good until it expires.
RefreshesNever(k) == {flights}

\* The request behind a cached answer: its answer is on its way.
Refreshes(k) == {flights \cup {[page |-> k, items |-> Page(k)]}}

FlightLands(f) ==
    /\ f \in flights
    /\ flights' = flights \ {f}
    /\ Put(f.page, f.items)
    /\ UNCHANGED <<server, edits, resized, controlled, loads, kept, grid, status, promptVars>>

\* maxAgeSeconds.
Expires(k) ==
    /\ k \in DOMAIN cache
    /\ cache' = [j \in DOMAIN cache \ {k} |-> cache[j]]
    /\ lost' = TRUE
    /\ UNCHANGED <<server, edits, resized, controlled, flights, loads, kept, grid, status,
                   promptVars>>

\* clientsClaim: the first worker takes the page that installed it.
Claims ==
    /\ ~controlled
    /\ controlled' = TRUE
    /\ UNCHANGED <<server, edits, resized, cache, lost, flights, loads, kept, grid, status,
                   promptVars>>

----------------------------------------------------------------------------
(* The loads. *)

NewLoad == [page |-> 0, got |-> {}, whole |-> controlled, mine |-> TRUE]

\* A load gets a page: a short one, or the last one of MAX_PAGES, ends it.
Gets(l, items) ==
    IF Cardinality(items) < PageSize \/ l.page + 1 = MaxPages
    THEN /\ loads' = loads \ {l}
         /\ kept' = (kept \/ l.whole)
         /\ IF l.mine THEN grid' = l.got \cup items /\ status' = "ready"
            ELSE UNCHANGED <<grid, status>>
    ELSE /\ loads' = (loads \ {l}) \cup {[l EXCEPT !.page = @ + 1, !.got = IF l.mine THEN @ \cup items ELSE {}]}
         /\ UNCHANGED <<kept, grid, status>>

\* The cached answer, while the request behind it goes out or fails.
FromCache(l) ==
    /\ l \in loads /\ Hit(l.page)
    /\ Gets(l, cache[l.page])
    /\ UNCHANGED <<server, edits, resized, controlled, cache, lost, flights, promptVars>>

FromCacheRefreshed(l) ==
    /\ l \in loads /\ Hit(l.page)
    /\ Gets(l, cache[l.page])
    /\ flights' \in Refreshes(l.page)
    /\ UNCHANGED <<server, edits, resized, controlled, cache, lost, promptVars>>

FromNetwork(l) ==
    /\ l \in loads /\ ~Hit(l.page)
    /\ Gets(l, Page(l.page))
    /\ IF Cacheable(l.page) THEN Put(l.page, Page(l.page)) ELSE UNCHANGED <<cache, lost>>
    /\ UNCHANGED <<server, edits, resized, controlled, flights, promptVars>>

\* Offline, or an answer that is not 200: the whole load fails.
LoadFails(l) ==
    /\ l \in loads /\ ~Hit(l.page)
    /\ loads' = loads \ {l}
    /\ status' = IF l.mine THEN "error" ELSE status
    /\ UNCHANGED <<server, edits, resized, controlled, cache, lost, flights, kept, grid,
                   promptVars>>

\* What a cancelled load gets is shown to nobody.
Cancelled == {[l EXCEPT !.mine = FALSE, !.got = {}] : l \in loads}

LoadsAnew(others) ==
    /\ Cardinality(others) < MaxLoads
    /\ loads' = others \cup {NewLoad}
    /\ grid' = {} /\ status' = "loading"
    /\ UNCHANGED <<server, edits, resized, controlled, cache, lost, flights, kept>>

\* The cashier comes back to a screen that shows products.
Remount == LoadsAnew(Cancelled) /\ UNCHANGED promptVars

\* An administrator's write is committed.  No product is ever deleted.
Edit(items) ==
    /\ edits + builds < MaxChanges /\ edits' = edits + 1
    /\ server' = items
    /\ resized' = (resized \/ Cardinality(items) # Cardinality(server))
    /\ UNCHANGED <<controlled, cache, lost, flights, loads, kept, grid, status, promptVars>>

\* The code refuses a SKU that is taken, and no name: equal names, whose order
\* list_products leaves to the database, are left out.
Free(p, items) == \A x \in items : x[1] # p

\* POST: a product appears among the others, at the place of its name.
create_product(p) == Free(p, server) /\ Edit(server \cup {<<p, 0>>})

\* PATCH: a new name moves the product and shifts the others between, a new price
\* leaves it where it is.
update_product(x, p) ==
    LET others == server \ {x}
    IN  Free(p, others) /\ Edit(others \cup {<<p, x[2] + 1>>})

----------------------------------------------------------------------------
(* The update prompt.  It is rendered inside what the auth gate chooses,   *)
(* so it starts anew when the app is entered or left; registering again    *)
(* tells it of a build that is already waiting.                            *)

\* A bug: an open "ready to work offline" notice hides the offer.
ReducedPolitely(state, event) ==
    CASE event = "OFFLINE_READY" /\ state = "idle" -> "offline-ready"
      [] event = "NEED_REFRESH" /\ state = "idle" -> "update-available"
      [] event = "DISMISS" /\ state # "reloading" -> "idle"
      [] event = "CONFIRM_RELOAD" /\ state = "update-available" -> "reloading"
      [] OTHER -> state

\* reduceUpdatePrompt
Reduced(state, event) ==
    CASE event = "OFFLINE_READY" /\ state = "idle" -> "offline-ready"
      [] event = "NEED_REFRESH" -> "update-available"
      [] event = "DISMISS" /\ state # "reloading" -> "idle"
      [] event = "CONFIRM_RELOAD" /\ state = "update-available" -> "reloading"
      [] OTHER -> state

BuildArrives ==
    /\ edits + builds < MaxChanges /\ ~waiting
    /\ builds' = builds + 1 /\ waiting' = TRUE /\ declined' = FALSE
    /\ UNCHANGED <<readVars, prompt, told>>

NeedRefresh ==
    /\ waiting /\ ~told
    /\ told' = TRUE
    /\ prompt' = Reduced(prompt, "NEED_REFRESH")
    /\ UNCHANGED <<readVars, waiting, declined, builds>>

\* The precache of the first build is complete.
OfflineReady ==
    /\ builds = 0
    /\ prompt' = Reduced(prompt, "OFFLINE_READY")
    /\ UNCHANGED <<readVars, told, waiting, declined, builds>>

Dismiss ==
    /\ prompt \in {"offline-ready", "update-available"}
    /\ prompt' = Reduced(prompt, "DISMISS")
    /\ declined' = (declined \/ prompt = "update-available")
    /\ UNCHANGED <<readVars, told, waiting, builds>>

ConfirmReload ==
    /\ prompt = "update-available"
    /\ prompt' = Reduced(prompt, "CONFIRM_RELOAD")
    /\ UNCHANGED <<readVars, told, waiting, declined, builds>>

\* A user signs in or out: the gate renders the app anew.
GateChanges ==
    /\ LoadsAnew(Cancelled)
    /\ prompt' = "idle" /\ told' = FALSE
    /\ UNCHANGED <<waiting, declined, builds>>

\* The page goes and comes back: the waiting worker takes over when the cashier
\* confirmed, or when the page was the last one to be closed.
PageReloads ==
    /\ LoadsAnew({})
    /\ prompt' = "idle" /\ told' = FALSE /\ declined' = FALSE
    /\ waiting' \in IF prompt = "reloading" THEN {FALSE} ELSE {FALSE, waiting}
    /\ UNCHANGED builds

----------------------------------------------------------------------------
Init ==
    /\ server = {<<p, 0>> : p \in Start} /\ edits = 0 /\ resized = FALSE
    /\ controlled = FALSE
    /\ cache = [k \in {} |-> {}] /\ lost = FALSE /\ flights = {}
    /\ loads = {NewLoad} /\ kept = FALSE /\ grid = {} /\ status = "loading"
    /\ prompt = "idle" /\ told = FALSE /\ waiting = FALSE /\ declined = FALSE /\ builds = 0

Next ==
    \/ Claims \/ Remount \/ GateChanges \/ PageReloads
    \/ BuildArrives \/ NeedRefresh \/ OfflineReady \/ Dismiss \/ ConfirmReload
    \/ \E l \in loads :
        FromCache(l) \/ FromCacheRefreshed(l) \/ FromNetwork(l) \/ LoadFails(l)
    \/ \E f \in flights : FlightLands(f)
    \/ \E k \in Pages : Expires(k)
    \/ \E p \in Products : create_product(p) \/ \E x \in server : update_product(x, p)

Spec == Init /\ [][Next]_vars

Here(k) == {l \in loads : l.mine /\ l.page = k}

\* The cashier comes back again and again, a page that a screen asks for again and
\* again is answered while the cashier stays, answers land, and a worker tells its page of the
\* build that waits.
FairSpec ==
    /\ Spec
    /\ WF_vars(Remount) /\ WF_vars(NeedRefresh)
    /\ \A k \in Pages :
        /\ SF_vars(\E l \in Here(k) : FromNetwork(l) \/ FromCacheRefreshed(l))
        /\ WF_vars(\E f \in flights : f.page = k /\ FlightLands(f))

----------------------------------------------------------------------------
(* Properties. *)

TypeOK ==
    /\ \A x \in server : x[1] \in Products /\ x[2] \in 0 .. edits
    /\ DOMAIN cache \subseteq Pages /\ Cardinality(DOMAIN cache) <= MaxEntries
    /\ \A k \in DOMAIN cache : Cardinality(cache[k]) <= PageSize
    /\ \A l \in loads : l.page \in Pages
    /\ status \in {"loading", "ready", "error"}
    /\ prompt \in {"idle", "offline-ready", "update-available", "reloading"}

\* A load that makes no request at all can end: the cached pages lead to a short
\* one, or to the last.
Walkable ==
    \E n \in Pages :
        /\ 0 .. n \subseteq DOMAIN cache
        /\ \A k \in 0 .. n - 1 : Cardinality(cache[k]) = PageSize
        /\ n + 1 = MaxPages \/ Cardinality(cache[n]) < PageSize

\* Once a load has passed the worker the till works offline, whatever refreshes
\* have landed since, while no entry was dropped and the catalogue kept its size.
\* When it grows, a refresh may find the last page full, and its successor was
\* never asked for.
KeptOffline == kept /\ ~lost /\ ~resized => Walkable

\* A price change reaches the till: the grid ends with the server's catalogue
\* when that no longer changes, however the refreshes were ordered.
PriceConverges ==
    /\ <>[](status = "ready" => grid = server)
    /\ []<>(status = "ready")

\* A build that waits is offered to the cashier, who takes it or puts it off, or
\* it has taken over; remounts of the prompt do not lose it.
UpdateIsOffered ==
    waiting ~> (prompt \in {"update-available", "reloading"} \/ declined \/ ~waiting)
=============================================================================
