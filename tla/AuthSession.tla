---------------------------- MODULE AuthSession ----------------------------
(***************************************************************************)
(* Who is signed in, as the outlet app sees it (auth/AuthContext.jsx,      *)
(* profileCache.js, firebase.js).  The Firebase SDK, loaded as a chunk of  *)
(* its own, keeps an account across page loads and tells its listener when *)
(* the account changes; for each account the listener asks the API who it  *)
(* is (GET /me).  Nothing cancels a question whose account is gone, and no *)
(* answer looks at the account of the moment it arrives.                   *)
(*                                                                         *)
(* A profile is named by the user it belongs to, a token by the account it *)
(* was issued to.  The API answers /me with the profile of the token.      *)
(***************************************************************************)
EXTENDS Naturals, FiniteSets

CONSTANTS
    Users,
    NoUser,      \* nobody: no account, no profile, no token, an empty slot
    MaxSignIns,  \* bound: sign-ins, and changes from another tab
    MaxLoads     \* bound: reloads, kills and cold starts of a behaviour

ASSUME UsersAssumption == {NoUser, "nothing"} \cap Users = {} /\ NoUser # "nothing"
ASSUME BoundsAssumption == MaxSignIns \in Nat /\ MaxLoads \in Nat

VARIABLES
    sdk,        \* the memoized chunk: "loading", "ready", or "broken" for good
    account,    \* the SDK's account, kept across page loads
    heard,      \* the account the listener was told of; "nothing" before
    provider,   \* whose token apiFetch attaches (setTokenProvider)
    status,     \* AuthProvider's state.status
    profile,    \* state.profile: whose it is, and whom the queue takes for the user
    cache,      \* localStorage: the last profile kept under each uid
    calls,      \* requests for /me that are out, with the notifications since
    late,       \* the state shown is the answer to an earlier account's call
    mixed,      \* such an answer was handled since the last notification
    decisive,   \* the last answer handled was a refusal of the server
    leaving,    \* signOut() is between clearing the cache and the SDK
    signIns, loads

authVars == <<sdk, account, heard, provider, status, profile, cache,
              calls, late, mixed, decisive, leaving, signIns, loads>>

Anyone == Users \cup {NoUser}
InApp == {"signed_in", "signed_in_degraded"}
Answers == {"ok", "unprovisioned", "rejected", "unreachable"}

AuthTypeOK ==
    /\ sdk \in {"loading", "ready", "broken"}
    /\ account \in Anyone /\ heard \in Anyone \cup {"nothing"}
    /\ provider \in Anyone /\ profile \in Anyone
    /\ status \in InApp \cup {"loading", "unprovisioned", "signed_out"}
    /\ (profile \in Users) <=> (status \in InApp)
    /\ cache \in [Users -> Anyone]
    /\ calls \subseteq [uid : Users, token : Anyone, age : Nat]
    /\ signIns \in Nat /\ loads \in Nat
    /\ late \in BOOLEAN /\ mixed \in BOOLEAN /\ decisive \in BOOLEAN /\ leaving \in BOOLEAN

----------------------------------------------------------------------------
(* Each page load starts with nothing in memory, the SDK not there yet. *)

AuthInit ==
    /\ sdk = "loading" /\ heard = "nothing" /\ provider = NoUser
    /\ status = "loading" /\ profile = NoUser
    /\ calls = {}
    /\ late = FALSE /\ mixed = FALSE /\ decisive = FALSE /\ leaving = FALSE
    /\ account = NoUser
    /\ cache = [u \in Users |-> NoUser]
    /\ signIns = 0 /\ loads = 0

Reload ==
    /\ loads < MaxLoads
    /\ loads' = loads + 1
    /\ sdk' = "loading" /\ heard' = "nothing" /\ provider' = NoUser
    /\ status' = "loading" /\ profile' = NoUser
    /\ calls' = {}
    /\ late' = FALSE /\ mixed' = FALSE /\ decisive' = FALSE /\ leaving' = FALSE
    /\ UNCHANGED <<account, cache, signIns>>

\* loadFirebaseAuth(): the promise is kept whatever becomes of it.
SdkLoads ==
    /\ sdk = "loading"
    /\ sdk' \in {"ready", "broken"}
    /\ UNCHANGED <<account, heard, provider, status, profile, cache,
                   calls, late, mixed, decisive, leaving, signIns, loads>>

----------------------------------------------------------------------------
(* onAuthStateChanged and the answer of /me. *)

\* A bug the code had: the provider is registered by an effect, after the
\* request has left with the one before.
AskMeEarly(u) == [uid |-> u, token |-> provider, age |-> 0]

AskMe(u) == [uid |-> u, token |-> provider', age |-> 0]

Aged == {[c EXCEPT !.age = c.age + 1] : c \in calls}

\* The SDK tells of an account only when it is another one.
Notify ==
    /\ sdk = "ready" /\ heard # account
    /\ heard' = account
    /\ provider' = account
    /\ profile' = NoUser
    /\ late' = FALSE /\ mixed' = FALSE /\ decisive' = FALSE
    /\ IF account = NoUser
       THEN status' = "signed_out" /\ calls' = Aged
       ELSE status' = "loading" /\ calls' = Aged \cup {AskMe(account)}
    /\ UNCHANGED <<sdk, account, cache, leaving, signIns, loads>>

\* A bug: an unreachable /me is taken for a refusal.
FallbackNone(uid) == NoUser

\* readCachedProfile, which /me falls back on when it cannot be reached.
Fallback(uid) == cache[uid]

\* deriveAuthState
DerivedProfile(c, answer) ==
    CASE answer = "ok"          -> c.token
      [] answer = "unreachable" -> Fallback(c.uid)
      [] OTHER                  -> NoUser

\* A bug: without an answer the splash screen waits for one.
DerivedStatusWaits(c, answer) ==
    CASE answer = "ok"            -> "signed_in"
      [] answer = "unprovisioned" -> "unprovisioned"
      [] answer = "rejected"      -> "signed_out"
      [] OTHER -> IF DerivedProfile(c, answer) = NoUser
                  THEN "loading" ELSE "signed_in_degraded"

DerivedStatus(c, answer) ==
    CASE answer = "ok"            -> "signed_in"
      [] answer = "unprovisioned" -> "unprovisioned"
      [] OTHER -> IF DerivedProfile(c, answer) = NoUser
                  THEN "signed_out" ELSE "signed_in_degraded"

\* The promise chain behind getMe(), one run of microtasks.  The API knows
\* nobody without a token.  localStorage may refuse the write, silently.
MeReturns(c, answer) ==
    /\ c \in calls
    /\ answer = "ok" => c.token # NoUser
    /\ calls' = calls \ {c}
    /\ profile' = DerivedProfile(c, answer)
    /\ status' = DerivedStatus(c, answer)
    /\ late' = (c.age > 0)
    /\ mixed' = (mixed \/ late')
    /\ decisive' = (answer \in {"unprovisioned", "rejected"})
    /\ \/ cache' = cache
       \/ answer = "ok" /\ cache' = [cache EXCEPT ![c.uid] = c.token]
    /\ UNCHANGED <<sdk, account, heard, provider, leaving, signIns, loads>>

----------------------------------------------------------------------------
(* LoginScreen and the header's sign-out button. *)

SignIn(u) ==
    /\ status = "signed_out" /\ sdk = "ready" /\ signIns < MaxSignIns
    /\ account' = u
    /\ signIns' = signIns + 1
    /\ UNCHANGED <<sdk, heard, provider, status, profile, cache, calls,
                   late, mixed, decisive, leaving, loads>>

\* signOut() up to its second await: the closure's firebaseUser is the user
\* the listener was told of.  Asking about unsynced items comes before.
SignOut ==
    /\ status \in InApp /\ ~leaving
    /\ leaving' = TRUE
    /\ cache' = IF heard \in Users THEN [cache EXCEPT ![heard] = NoUser] ELSE cache
    /\ UNCHANGED <<sdk, account, heard, provider, status, profile, calls,
                   late, mixed, decisive, signIns, loads>>

\* The SDK forgets the account, or fails and the user is still here.
SdkSignsOut ==
    /\ leaving
    /\ leaving' = FALSE
    /\ account' \in {NoUser, account}
    /\ UNCHANGED <<sdk, heard, provider, status, profile, cache, calls,
                   late, mixed, decisive, signIns, loads>>

----------------------------------------------------------------------------
(* Another tab of the device runs the same provider, at its own time, over *)
(* the same account and the same localStorage.  What it shows is its own.  *)

\* It signs in, or its signOut() reaches the SDK.
OtherTabSwitches(u) ==
    /\ sdk = "ready" /\ signIns < MaxSignIns /\ u # account
    /\ account' = u
    /\ signIns' = signIns + 1
    /\ UNCHANGED <<sdk, heard, provider, status, profile, cache, calls,
                   late, mixed, decisive, leaving, loads>>

\* Only the answer of a call reads a slot of the cache, so what the other tab
\* does to a slot is told when a call for it is out, or when the user it belongs
\* to looks at a screen without the app; at other times nothing here would know.
Concerns(u) ==
    /\ sdk = "ready"
    /\ \/ \E c \in calls : c.uid = u
       \/ u = heard /\ status \notin InApp

\* Its /me is answered, late or not, and it keeps the profile of its token.
OtherTabKeeps(u) ==
    /\ Concerns(u) /\ cache[u] # u
    /\ cache' = [cache EXCEPT ![u] = u]
    /\ UNCHANGED <<sdk, account, heard, provider, status, profile, calls,
                   late, mixed, decisive, leaving, signIns, loads>>

\* Its signOut() clears the profile of the user it was told of.
OtherTabForgets(u) ==
    /\ Concerns(u) /\ cache[u] # NoUser
    /\ cache' = [cache EXCEPT ![u] = NoUser]
    /\ UNCHANGED <<sdk, account, heard, provider, status, profile, calls,
                   late, mixed, decisive, leaving, signIns, loads>>

Elsewhere ==
    \/ \E u \in Anyone : OtherTabSwitches(u)
    \/ \E u \in Users : OtherTabKeeps(u) \/ OtherTabForgets(u)

AuthNext ==
    \/ Reload \/ SdkLoads \/ Notify \/ SignOut \/ SdkSignsOut
    \/ \E c \in calls, answer \in Answers : MeReturns(c, answer)
    \/ \E u \in Users : SignIn(u)
    \/ Elsewhere

AuthSpec == AuthInit /\ [][AuthNext]_authVars

----------------------------------------------------------------------------
(* Properties. *)

\* A profile is kept under its own uid only, so that the offline fallback of
\* one cashier is never another's, whatever accounts the device saw before and
\* whichever answers came late.
CacheIsOwn == \A u \in Users : cache[u] \in {u, NoUser}

\* Who is shown is who the token is of, so that what is recorded under the
\* profile is also sent by it, except when the answer for an earlier account
\* was handled last.
ShownIsSignedIn == late \/ profile \in {NoUser, provider}

\* A cashier who is signed in and whose profile is on the device at that
\* moment is not sent to the login screen, whatever was lost, late or done in
\* another tab before, unless the server itself refused or an earlier account's
\* answer came in its place (deriveAuthState's degraded branch).
NotLockedOut ==
    [][status' = "signed_out" /\ status # "signed_out" /\ heard' \in Users
         => cache[heard'] = NoUser \/ decisive' \/ late']_authVars

\* The splash screen ends: each account's question is answered or fails, and
\* both lead on; only a chunk that did not load keeps it up.
LoadingEnds == status = "loading" ~> status # "loading" \/ sdk = "broken"
============================================================================
