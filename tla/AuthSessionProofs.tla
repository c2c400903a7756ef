-------------------------- MODULE AuthSessionProofs --------------------------
(***************************************************************************)
(* The invariants of AuthSession, for any set of users and any number of   *)
(* sign-ins, reloads and late answers.                                     *)
(***************************************************************************)
EXTENDS AuthSession, TLAPS

\* The token attached is the heard account's, from the moment it is heard.
ProviderFollows == provider = IF heard \in Users THEN heard ELSE NoUser

\* A call carries its own account's token, and a call that no notification has
\* overtaken is the heard account's.
CallsAreOwn ==
    \A c \in calls : c.token = c.uid /\ (c.age = 0 => c.uid = heard)

\* A notification is answered once: while no overtaken answer came, a state of
\* the app means that the heard account's call is back.
AnsweredOnce == status \in InApp /\ ~mixed => \A c \in calls : c.age # 0

AuthInv ==
    /\ AuthTypeOK
    /\ CacheIsOwn
    /\ ProviderFollows
    /\ CallsAreOwn
    /\ AnsweredOnce
    /\ late => mixed
    /\ ShownIsSignedIn

LEMMA AuthInitInv == AuthInit => AuthInv
  <1>. SUFFICES ASSUME AuthInit PROVE AuthInv
    OBVIOUS
  <1>. USE UsersAssumption DEF AuthInit
  <1>1. AuthTypeOK
    BY DEF AuthTypeOK, Anyone, InApp
  <1>2. CacheIsOwn /\ ProviderFollows /\ CallsAreOwn /\ ShownIsSignedIn
    BY DEF CacheIsOwn, ProviderFollows, CallsAreOwn, ShownIsSignedIn
  <1>3. AnsweredOnce /\ (late => mixed)
    BY DEF AnsweredOnce, InApp
  <1>. QED BY <1>1, <1>2, <1>3 DEF AuthInv

----------------------------------------------------------------------------
(* One lemma for each step that changes more than the account. *)

LEMMA ReloadInv == AuthInv /\ Reload => AuthInv'
  <1>. SUFFICES ASSUME AuthInv, Reload PROVE AuthInv'
    OBVIOUS
  <1>1. /\ account \in Anyone /\ cache \in [Users -> Anyone]
        /\ signIns \in Nat /\ loads \in Nat /\ CacheIsOwn
    BY DEF AuthInv, AuthTypeOK
  <1>. USE UsersAssumption DEF Reload
  <1>2. AuthTypeOK'
    <2>1. loads' \in Nat /\ signIns' \in Nat
      BY <1>1
    <2>2. account' \in Anyone /\ cache' \in [Users -> Anyone]
      BY <1>1
    <2>3. ~(profile' \in Users) /\ ~(status' \in InApp)
      BY DEF InApp
    <2>. QED BY <2>1, <2>2, <2>3 DEF AuthTypeOK, Anyone
  <1>3. CacheIsOwn' /\ ProviderFollows' /\ CallsAreOwn' /\ ShownIsSignedIn'
    BY <1>1 DEF CacheIsOwn, ProviderFollows, CallsAreOwn, ShownIsSignedIn
  <1>4. AnsweredOnce' /\ (late' => mixed')
    BY DEF AnsweredOnce, InApp
  <1>. QED BY <1>2, <1>3, <1>4 DEF AuthInv

\* A notification overtakes every call that is out, and sends one of its own.
LEMMA NotifyInv == AuthInv /\ Notify => AuthInv'
  <1>. SUFFICES ASSUME AuthInv, Notify PROVE AuthInv'
    OBVIOUS
  <1>. USE UsersAssumption DEF AuthInv, Notify
  <1>1. /\ Aged \subseteq [uid : Users, token : Anyone, age : Nat]
        /\ \A c \in Aged : c.token = c.uid /\ c.age # 0
    <2>. SUFFICES ASSUME NEW c \in calls
                  PROVE  LET d == [c EXCEPT !.age = c.age + 1]
                         IN  /\ d \in [uid : Users, token : Anyone, age : Nat]
                             /\ d.token = d.uid /\ d.age # 0
      BY DEF Aged
    <2>1. c \in [uid : Users, token : Anyone, age : Nat] /\ c.token = c.uid
      BY DEF AuthTypeOK, CallsAreOwn
    <2>. QED BY <2>1
  <1>2. CASE account = NoUser
    <2>1. calls' = Aged /\ status' = "signed_out" /\ provider' = NoUser /\ heard' = NoUser
      BY <1>2
    <2>2. AuthTypeOK'
      BY <1>1, <2>1 DEF AuthTypeOK, Anyone, InApp
    <2>. QED BY <1>1, <2>1, <2>2
         DEF CacheIsOwn, ProviderFollows, CallsAreOwn, AnsweredOnce, ShownIsSignedIn,
             InApp
  <1>3. CASE account # NoUser
    <2>. DEFINE call == [uid |-> account, token |-> account, age |-> 0]
    <2>1. /\ calls' = Aged \cup {call}
          /\ status' = "loading" /\ provider' = account /\ heard' = account
      BY <1>3 DEF AskMe
    <2>2. account \in Users /\ account \in Anyone
      BY <1>3 DEF AuthTypeOK, Anyone
    <2>3. call \in [uid : Users, token : Anyone, age : Nat]
      BY <2>2
    <2>4. AuthTypeOK'
      BY <1>1, <2>1, <2>2, <2>3 DEF AuthTypeOK, Anyone, InApp
    <2>5. CallsAreOwn'
      BY <1>1, <2>1 DEF CallsAreOwn
    <2>. QED BY <2>1, <2>2, <2>4, <2>5
         DEF CacheIsOwn, ProviderFollows, AnsweredOnce, ShownIsSignedIn, InApp
  <1>. QED BY <1>2, <1>3

\* An answer of the heard account says who it is; one that was overtaken marks
\* the state as such.
LEMMA MeReturnsInv ==
  ASSUME NEW c \in calls, NEW answer \in Answers, AuthInv, MeReturns(c, answer)
  PROVE  AuthInv'
  <1>. USE UsersAssumption DEF AuthInv, MeReturns
  <1>1. /\ c \in [uid : Users, token : Anyone, age : Nat]
        /\ c.uid \in Users /\ c.token = c.uid /\ c.age \in Nat
        /\ c.age = 0 => c.uid = heard
    BY DEF AuthTypeOK, CallsAreOwn
  <1>0. (~late' <=> c.age = 0) /\ (~mixed' => ~late' /\ ~mixed)
    <2>1. (late' <=> c.age > 0) /\ (mixed' <=> (mixed \/ late'))
      BY Zenon
    <2>. QED BY <1>1, <2>1
  <1>2. Fallback(c.uid) \in {c.uid, NoUser}
    BY <1>1 DEF Fallback, CacheIsOwn
  <1>3. DerivedProfile(c, answer) \in {c.uid, NoUser}
    BY <1>1, <1>2 DEF DerivedProfile, Answers
  <1>4. /\ DerivedStatus(c, answer) \in InApp \cup {"unprovisioned", "signed_out"}
        /\ DerivedProfile(c, answer) \in Users <=> DerivedStatus(c, answer) \in InApp
    BY <1>1, <1>2, <1>3 DEF DerivedStatus, DerivedProfile, InApp, Answers
  <1>5. CacheIsOwn' /\ cache' \in [Users -> Anyone]
    BY <1>1 DEF CacheIsOwn, AuthTypeOK, Anyone
  <1>6. AuthTypeOK'
    BY <1>1, <1>3, <1>4, <1>5 DEF AuthTypeOK, Anyone
  <1>7. ProviderFollows' /\ CallsAreOwn'
    BY DEF ProviderFollows, CallsAreOwn
  <1>8. AnsweredOnce'
    <2>. SUFFICES ASSUME ~mixed', NEW d \in calls', d.age = 0 PROVE FALSE
      BY DEF AnsweredOnce
    <2>1. c.age = 0 /\ c.uid = heard
      BY <1>0, <1>1
    <2>2. d \in [uid : Users, token : Anyone, age : Nat] /\ d.token = d.uid /\ d.uid = heard
      BY DEF AuthTypeOK, CallsAreOwn
    <2>3. d = c
      BY <1>1, <2>1, <2>2
    <2>. QED BY <2>3
  <1>9. ShownIsSignedIn'
    BY <1>0, <1>1, <1>3 DEF ShownIsSignedIn, ProviderFollows
  <1>. QED BY <1>5, <1>6, <1>7, <1>8, <1>9

LEMMA SignOutInv == AuthInv /\ SignOut => AuthInv'
  BY UsersAssumption, SMTT(60)
  DEF SignOut, AuthInv, AuthTypeOK, CacheIsOwn, ProviderFollows, CallsAreOwn,
      AnsweredOnce, ShownIsSignedIn, Anyone, InApp

\* Steps that leave alone what the listener keeps.
LEMMA AccountInv ==
  ASSUME AuthInv,
         UNCHANGED <<heard, provider, status, profile, cache, calls, late, mixed, decisive>>,
         sdk' \in {"loading", "ready", "broken"}, account' \in Anyone,
         leaving' \in BOOLEAN, signIns' \in Nat, loads' \in Nat
  PROVE  AuthInv'
  BY DEF AuthInv, AuthTypeOK, CacheIsOwn, ProviderFollows, CallsAreOwn,
         AnsweredOnce, ShownIsSignedIn

\* What another tab keeps is its token's own profile, and what it clears is gone.
LEMMA OtherTabInv ==
  ASSUME NEW u \in Users, AuthInv, OtherTabKeeps(u) \/ OtherTabForgets(u)
  PROVE  AuthInv'
  <1>. USE DEF AuthInv, OtherTabKeeps, OtherTabForgets
  <1>1. cache' \in [Users -> Anyone] /\ CacheIsOwn'
    BY DEF AuthTypeOK, Anyone, CacheIsOwn
  <1>2. AuthTypeOK'
    BY <1>1 DEF AuthTypeOK
  <1>3. ProviderFollows' /\ CallsAreOwn' /\ AnsweredOnce' /\ ShownIsSignedIn'
    BY DEF ProviderFollows, CallsAreOwn, AnsweredOnce, ShownIsSignedIn
  <1>. QED BY <1>1, <1>2, <1>3

LEMMA AuthStepInv == AuthInv /\ [AuthNext]_authVars => AuthInv'
  <1>. SUFFICES ASSUME AuthInv, [AuthNext]_authVars PROVE AuthInv'
    OBVIOUS
  <1>0. /\ sdk \in {"loading", "ready", "broken"} /\ account \in Anyone
        /\ leaving \in BOOLEAN /\ signIns \in Nat /\ loads \in Nat
        /\ NoUser \in Anyone /\ Users \subseteq Anyone
    BY DEF AuthInv, AuthTypeOK, Anyone
  <1>1. CASE Reload
    BY <1>1, ReloadInv
  <1>2. CASE SdkLoads
    BY <1>0, <1>2, AccountInv DEF SdkLoads
  <1>3. CASE Notify
    BY <1>3, NotifyInv
  <1>4. CASE SignOut
    BY <1>4, SignOutInv
  <1>5. CASE SdkSignsOut
    BY <1>0, <1>5, AccountInv DEF SdkSignsOut
  <1>6. CASE \E c \in calls, answer \in Answers : MeReturns(c, answer)
    BY <1>6, MeReturnsInv
  <1>7. ASSUME NEW u \in Users, SignIn(u) PROVE AuthInv'
    BY <1>0, <1>7, AccountInv DEF SignIn
  <1>8. CASE Elsewhere
    <2>1. ASSUME NEW u \in Anyone, OtherTabSwitches(u) PROVE AuthInv'
      BY <1>0, <2>1, AccountInv DEF OtherTabSwitches
    <2>. QED BY <1>8, <2>1, OtherTabInv DEF Elsewhere
  <1>9. CASE UNCHANGED authVars
    BY <1>0, <1>9, AccountInv DEF authVars
  <1>. QED BY <1>1, <1>2, <1>3, <1>4, <1>5, <1>6, <1>7, <1>8, <1>9 DEF AuthNext

----------------------------------------------------------------------------
\* The session's state is always explained by the accounts it heard of.
THEOREM AuthCorrect == AuthSpec => []AuthInv
  <1>1. AuthInit => AuthInv
    BY AuthInitInv
  <1>2. AuthInv /\ [AuthNext]_authVars => AuthInv'
    BY AuthStepInv
  <1>. QED BY <1>1, <1>2, PTL DEF AuthSpec

\* No uid ever has another user's profile in its cache slot.
THEOREM CacheStaysOwn == AuthSpec => []CacheIsOwn
  <1>1. AuthInv => CacheIsOwn
    BY DEF AuthInv
  <1>. QED BY <1>1, AuthCorrect, PTL

\* The profile shown is the one requests are sent under, but for a late answer.
THEOREM ShownStaysSignedIn == AuthSpec => []ShownIsSignedIn
  <1>1. AuthInv => ShownIsSignedIn
    BY DEF AuthInv
  <1>. QED BY <1>1, AuthCorrect, PTL

\* Only an answer leads a signed-in user to the login screen, and one that was
\* not overtaken is the user's own, so that the slot it falls back on is too.
LEMMA LoginNeedsGrounds ==
  ASSUME AuthInv, AuthNext,
         status' = "signed_out", status # "signed_out", heard' \in Users
  PROVE  cache[heard'] = NoUser \/ decisive' \/ late'
  <1>1. ~Reload /\ ~Notify
    BY UsersAssumption DEF Reload, Notify
  <1>2. PICK c \in calls, answer \in Answers : MeReturns(c, answer)
    BY <1>1 DEF AuthNext, SdkLoads, SignOut, SdkSignsOut, SignIn, Elsewhere,
                OtherTabSwitches, OtherTabKeeps, OtherTabForgets
  <1>. SUFFICES ASSUME ~decisive', ~late' PROVE cache[heard] = NoUser
    BY <1>2 DEF MeReturns
  <1>3. c.age \in Nat /\ ~(c.age > 0)
    <2>1. late' <=> c.age > 0
      BY <1>2, Zenon DEF MeReturns
    <2>. QED BY <2>1 DEF AuthInv, AuthTypeOK
  <1>4. c.uid = heard
    BY <1>3 DEF AuthInv, CallsAreOwn
  <1>5. answer = "unreachable" /\ DerivedProfile(c, answer) = NoUser
    BY <1>2 DEF MeReturns, DerivedStatus, Answers, InApp
  <1>. QED BY <1>4, <1>5 DEF DerivedProfile, Fallback

\* A signed-in user whose profile the device keeps is not sent to the login
\* screen, unless the server refused or an answer was late: in every step, with
\* any number of accounts, and whatever other tabs write and clear.
THEOREM NeverLockedOut == AuthSpec => NotLockedOut
  <1>1. AuthInv /\ [AuthNext]_authVars
        => [status' = "signed_out" /\ status # "signed_out" /\ heard' \in Users
              => cache[heard'] = NoUser \/ decisive' \/ late']_authVars
    BY LoginNeedsGrounds
  <1>. QED BY <1>1, AuthCorrect, PTL DEF AuthSpec, NotLockedOut
=============================================================================
