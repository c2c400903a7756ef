--------------------------- MODULE OutletAppProofs ---------------------------
(***************************************************************************)
(* The outlet app's properties, for any users, products, checkout forms,   *)
(* stock answers and bounds.  The session's invariant and the till's are   *)
(* lemmas of their own modules; what joins them is that the screens come   *)
(* and go with the session.                                                *)
(***************************************************************************)
EXTENDS OutletApp, AuthSessionProofs, TillProofs

\* Without a session there is no screen that could hold a cart.
NothingUnmounted == ~Mounted => cart = Empty /\ ringer = {} /\ taps = {} /\ ~checkout

AppInv ==
    /\ AuthInv
    /\ TillInv
    /\ NothingUnmounted
    /\ CartIsItsCashiers

----------------------------------------------------------------------------
\* The app does to the session only what the session's own module allows.
LEMMA StepOfSession == [Next]_vars => [AuthNext]_authVars
  BY DEF Next, vars, Session, Restart, AuthNext

\* A fresh screen is nobody's.
LEMMA RemountFresh ==
  ASSUME NEW to, Remount(to)
  PROVE  cart' = Empty /\ ringer' = {} /\ taps' = {} /\ checkout' = FALSE
  BY DEF Remount

LEMMA AppInitInv == Init => AppInv
  <1>. SUFFICES ASSUME Init PROVE AppInv
    OBVIOUS
  <1>1. AuthInv /\ TillInv
    BY AuthInitInv, TillInitInv DEF Init
  <1>2. ringer = {} /\ taps = {} /\ cart = Empty /\ ~checkout
    BY DEF Init, TillInit
  <1>. QED BY <1>1, <1>2 DEF AppInv, NothingUnmounted, CartIsItsCashiers

\* While the gate stays where it is, a mounted screen keeps its profile, or an
\* overtaken answer came.
LEMMA SessionInv ==
  ASSUME AppInv, AuthInv',
         \/ SdkLoads \/ Notify \/ SignOut \/ SdkSignsOut
         \/ \E c \in calls, answer \in Answers : MeReturns(c, answer)
         \/ \E u \in Users : SignIn(u)
         \/ Elsewhere,
         IF (status' \in InApp) = Mounted THEN UNCHANGED tillVars ELSE Remount(screen)
  PROVE  AppInv'
  <1>1. screen \in Screens
    BY DEF AppInv, TillInv, TillTypeOK
  <1>2. CASE Remount(screen)
    <2>1. TillInv'
      BY <1>1, <1>2, RemountInv
    <2>2. cart' = Empty /\ ringer' = {} /\ taps' = {} /\ checkout' = FALSE
      BY <1>2, RemountFresh
    <2>. QED BY <2>1, <2>2 DEF AppInv, NothingUnmounted, CartIsItsCashiers
  <1>3. CASE UNCHANGED tillVars /\ (status' \in InApp <=> Mounted)
    <2>1. TillInv'
      BY <1>3, TillStutterInv DEF AppInv
    <2>2. UNCHANGED <<cart, ringer, taps, checkout>>
      BY <1>3 DEF tillVars
    <2>3. NothingUnmounted'
      BY <1>3, <2>2 DEF AppInv, NothingUnmounted, Mounted
    <2>4. CASE ~Mounted
      BY <2>1, <2>2, <2>3, <2>4 DEF AppInv, NothingUnmounted, CartIsItsCashiers
    <2>5. CASE Mounted
      <3>1. ~Notify
        BY <1>3, <2>5 DEF Notify, Mounted, InApp
      <3>2. ASSUME NEW c \in calls, NEW answer \in Answers, MeReturns(c, answer)
            PROVE  mixed'
        <4>1. c.age \in Nat
          BY DEF AppInv, AuthInv, AuthTypeOK
        <4>2. (late' <=> c.age > 0) /\ (mixed' <=> (mixed \/ late'))
          BY <3>2, Zenon DEF MeReturns
        <4>3. mixed \/ c.age # 0
          BY <2>5 DEF AppInv, AuthInv, AnsweredOnce, Mounted
        <4>. QED BY <4>1, <4>2, <4>3
      <3>3. CASE \E c \in calls, answer \in Answers : MeReturns(c, answer)
        BY <2>1, <2>3, <3>2, <3>3 DEF AppInv, CartIsItsCashiers
      <3>4. CASE UNCHANGED <<profile, mixed>>
        BY <2>1, <2>2, <2>3, <3>4 DEF AppInv, CartIsItsCashiers
      <3>. QED BY <3>1, <3>3, <3>4 DEF SdkLoads, SignOut, SdkSignsOut, SignIn, Elsewhere,
                OtherTabSwitches, OtherTabKeeps, OtherTabForgets
    <2>. QED BY <2>4, <2>5
  <1>. QED BY <1>2, <1>3

\* What a mounted screen adds to its cart or submits is the profile's.
LEMMA RungByProfile ==
  ASSUME AppInv, TillNext(profile)
  PROVE  \/ ringer' \cup {t.by : t \in taps'} \subseteq {profile}
         \/ mixed
  <1>. SUFFICES ASSUME ~mixed PROVE ringer' \cup {t.by : t \in taps'} \subseteq {profile}
    OBVIOUS
  <1>1. ringer \subseteq {profile} /\ \A t \in taps : t.by = profile
    BY DEF AppInv, CartIsItsCashiers
  <1>2. ASSUME NEW p \in Products, NEW quantity, SetLine(profile, p, quantity)
        PROVE  ringer' \subseteq {profile} /\ taps' = taps
    BY <1>1, <1>2 DEF SetLine
  <1>3. ASSUME NEW k, NEW f, taps' = taps \cup {Tap(k, profile, f)}
        PROVE  \A t \in taps' : t.by = profile
    BY <1>1, <1>3 DEF Tap
  <1>4. ASSUME taps' = Leave(taps)
        PROVE  \A t \in taps' : t.by = profile
    <2>1. IsFiniteSet(taps) /\ \A t \in taps : Submission(t)
      BY DEF AppInv, TillInv
    <2>. QED BY <1>1, <1>4, <2>1, LeaveAll
  <1>5. ASSUME NEW to \in Screens, Remount(to)
        PROVE  ringer' \cup {t.by : t \in taps'} \subseteq {profile}
    BY <1>5, RemountFresh
  <1>6. ASSUME NEW p \in Products, TapTile(profile, p) \/ StepLine(profile, p)
        PROVE  ringer' \subseteq {profile} /\ taps' = taps
    BY <1>1, <1>2, <1>6 DEF TapTile, StepLine
  <1>7. CASE AnswerWarning(profile)
    <2>1. pending \in Products
      BY <1>7 DEF AnswerWarning, AppInv, TillInv, TillTypeOK
    <2>. QED BY <1>1, <1>2, <1>7, <2>1 DEF AnswerWarning
  <1>8. CASE \/ LevelsArrive \/ OpenCheckout \/ CloseAdjustment
             \/ \E p \in Products : OpenAdjustment(p)
    <2>1. UNCHANGED <<ringer, taps>>
      BY <1>8 DEF LevelsArrive, OpenCheckout, CloseAdjustment, OpenAdjustment
    <2>. QED BY <1>1, <2>1
  <1>9. CASE CloseCheckout
    BY <1>1, <1>4, <1>9 DEF CloseCheckout
  <1>10. ASSUME NEW f \in Entered, Confirm(profile, f)
         PROVE  ringer' \cup {t.by : t \in taps'} \subseteq {profile}
    BY <1>1, <1>3, <1>10 DEF Confirm
  <1>11. CASE SubmitExpense(profile) \/ ConfirmAdjustment(profile)
    BY <1>1, <1>3, <1>11 DEF SubmitExpense, ConfirmAdjustment
  <1>. QED BY <1>1, <1>5, <1>6, <1>7, <1>8, <1>9, <1>10, <1>11 DEF TillNext

LEMMA ReturnsKeepOwners ==
  ASSUME AppInv, Returns
  PROVE  /\ Mounted
         /\ ringer' \subseteq ringer /\ \A u \in taps' : \E t \in taps : u.by = t.by
  <1>1. PICK t \in taps : \E outcome \in Outcomes(t.kind) : Finish(t, outcome)
    BY DEF Returns
  <1>2. Mounted
    BY <1>1 DEF AppInv, NothingUnmounted
  <1>3. IsFiniteSet(taps \ {t}) /\ \A s \in taps \ {t} : Submission(s)
    BY FS_Subset DEF AppInv, TillInv
  <1>4. ringer' \in {{}, ringer} /\ taps' \in {taps \ {t}, Leave(taps \ {t})}
    BY <1>1 DEF Finish
  <1>5. \A u \in Leave(taps \ {t}) : \E s \in taps : u.by = s.by
    BY <1>3, LeaveAll
  <1>. QED BY <1>2, <1>4, <1>5

LEMMA AppStepInv == AppInv /\ [Next]_vars => AppInv'
  <1>. SUFFICES ASSUME AppInv, [Next]_vars PROVE AppInv'
    OBVIOUS
  <1>1. AuthInv'
    BY StepOfSession, AuthStepInv DEF AppInv
  <1>2. CASE \/ Session(SdkLoads \/ Notify \/ SignOut \/ SdkSignsOut)
             \/ Session(\E c \in calls, answer \in Answers : MeReturns(c, answer))
             \/ Session(\E u \in Users : SignIn(u))
             \/ Session(Elsewhere)
    BY <1>1, <1>2, SessionInv DEF Session
  <1>3. CASE Restart
    <2>1. PICK to \in Screens : Remount(to)
      BY <1>3 DEF Restart, Screens, AppInv, TillInv, TillTypeOK
    <2>2. TillInv'
      BY <2>1, RemountInv
    <2>3. cart' = Empty /\ ringer' = {} /\ taps' = {} /\ checkout' = FALSE
      BY <2>1, RemountFresh
    <2>. QED BY <1>1, <2>2, <2>3 DEF AppInv, NothingUnmounted, CartIsItsCashiers
  <1>4. CASE Mounted /\ TillNext(profile) /\ UNCHANGED authVars
    <2>1. TillInv'
      BY <1>4, TillStepInv DEF AppInv
    <2>2. UNCHANGED <<profile, mixed, status>>
      BY <1>4 DEF authVars
    <2>3. CartIsItsCashiers'
      BY <1>4, <2>2, RungByProfile DEF CartIsItsCashiers
    <2>4. NothingUnmounted'
      BY <1>4, <2>2 DEF NothingUnmounted, Mounted
    <2>. QED BY <1>1, <2>1, <2>3, <2>4 DEF AppInv
  <1>5. CASE Returns /\ UNCHANGED authVars
    <2>1. TillInv'
      BY <1>5, ReturnsInv DEF AppInv
    <2>2. UNCHANGED <<profile, mixed, status>>
      BY <1>5 DEF authVars
    <2>3. CartIsItsCashiers' /\ NothingUnmounted'
      BY <1>5, <2>2, ReturnsKeepOwners DEF AppInv, CartIsItsCashiers, NothingUnmounted, Mounted
    <2>. QED BY <1>1, <2>1, <2>3 DEF AppInv
  <1>6. CASE UNCHANGED vars
    <2>1. TillInv'
      BY <1>6, TillStutterInv DEF AppInv, vars
    <2>2. UNCHANGED <<profile, mixed, status, cart, ringer, taps, checkout>>
      BY <1>6 DEF vars, authVars, tillVars
    <2>. QED BY <1>1, <2>1, <2>2 DEF AppInv, CartIsItsCashiers, NothingUnmounted, Mounted
  <1>. QED BY <1>2, <1>3, <1>4, <1>5, <1>6 DEF Next

----------------------------------------------------------------------------
(* Theorems. *)

\* The inductive invariant: the session, the till, and how they hang together.
THEOREM AppCorrect == Spec => []AppInv
  <1>1. Init => AppInv
    BY AppInitInv
  <1>2. AppInv /\ [Next]_vars => AppInv'
    BY AppStepInv
  <1>. QED BY <1>1, <1>2, PTL DEF Spec

\* The app implements the session: nothing a screen does, a submission's return
\* included, is a step that AuthProvider does not take by itself.
THEOREM AppImplementsSession == Spec => AuthSpec
  <1>1. Init => AuthInit
    BY DEF Init
  <1>2. [Next]_vars => [AuthNext]_authVars
    BY StepOfSession
  <1>. QED BY <1>1, <1>2, PTL DEF Spec, AuthSpec

\* Types, and no screen without a session (App.jsx).
THEOREM AppTypes == Spec => []TypeOK
  <1>1. AppInv => TypeOK
    BY DEF AppInv, AuthInv, TillInv, NothingUnmounted, TypeOK
  <1>. QED BY <1>1, AppCorrect, PTL

\* What a cashier rang up is recorded in nobody else's name.
THEOREM CartStaysItsCashiers == Spec => []CartIsItsCashiers
  <1>1. AppInv => CartIsItsCashiers
    BY DEF AppInv
  <1>. QED BY <1>1, AppCorrect, PTL

\* The profile cache holds each user's own profile only.
THEOREM AppCacheIsOwn == Spec => []CacheIsOwn
  BY AppImplementsSession, CacheStaysOwn, PTL

\* The profile shown is the one that requests are sent under.
THEOREM AppShownIsSignedIn == Spec => []ShownIsSignedIn
  BY AppImplementsSession, ShownStaysSignedIn, PTL

\* No step of the app sends a signed-in cashier whose profile is kept to the
\* login screen, unless the server refused or an answer was late.
THEOREM AppNeverLocksOut == Spec => NotLockedOut
  BY AppImplementsSession, NeverLockedOut, PTL

\* useSubmitSale's double-tap guard makes one sale of one cart.
THEOREM OneSaleOfOneCart == Spec => []OneSaleAtATime
  <1>1. AppInv => OneSaleAtATime
    BY DEF AppInv, TillInv
  <1>. QED BY <1>1, AppCorrect, PTL

\* Every sale submitted has a line.
THEOREM EverySaleHasALine == Spec => []NoEmptySale
  <1>1. AppInv => NoEmptySale
    BY DEF AppInv, TillInv, Submission, NoEmptySale
  <1>. QED BY <1>1, AppCorrect, PTL

\* The confirm button is disabled only while a sale is out.
THEOREM ConfirmComesBack == Spec => []ConfirmNotStuck
  <1>1. AppInv => ConfirmNotStuck
    BY DEF AppInv, TillInv
  <1>. QED BY <1>1, AppCorrect, PTL

\* Only a recorded sale empties the cart, and only of what it recorded.
THEOREM FinishIsExact == Spec => FinishTakesOnlyItsOwn
  <1>. DEFINE A == \A t \in taps :
         (/\ t.kind = "sale" /\ \A x \in taps' : x.clientId # t.clientId
          /\ cart # Empty /\ cart' = Empty /\ form' # Idle)
         => t.left \/ (cart = t.lines /\ form'["sale"] = "queued")
  <1>1. AppInv /\ [Next]_vars => [A]_tillVars
    <2>. SUFFICES ASSUME AppInv, Next, ~UNCHANGED tillVars PROVE A
      BY DEF vars
    <2>1. CASE Remount(screen) \/ Remount("pos")
      BY <2>1 DEF Remount
    <2>2. CASE TillNext(profile) \/ Returns
      BY <2>2, FinishStep DEF AppInv
    <2>. QED BY <2>1, <2>2 DEF Next, Session, Restart
  <1>. QED BY <1>1, AppCorrect, PTL DEF Spec, FinishTakesOnlyItsOwn

\* The estimate at checkout is the receipt's total.
THEOREM EstimateIsReceipt == Spec => []PreviewIsReceipt
  <1>1. AppInv => PreviewIsReceipt
    <2>. SUFFICES ASSUME AppInv, NEW t \in taps, t.kind = "sale"
                  PROVE  t.shown = ReceiptTotal(Subtotal(t.lines), t.entered)
      BY DEF PreviewIsReceipt
    <2>1. /\ t.lines \in Carts /\ t.entered \in Entered
          /\ t.shown = PreviewTotal(Subtotal(t.lines), t.entered)
      BY DEF AppInv, TillInv, Submission
    <2>2. Subtotal(t.lines) \in Nat /\ t.entered \in CheckoutForms
      BY <2>1, EnteredAssumption, SubtotalIsNat
    <2>. QED BY <2>1, <2>2, PreviewIsExact
  <1>. QED BY <1>1, AppCorrect, PTL
=============================================================================
