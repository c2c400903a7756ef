------------------------------ MODULE OutletApp ------------------------------
(***************************************************************************)
(* The outlet app as a cashier holds it (App.jsx): the session decides     *)
(* whether the screens are there, and the screens record what is done on   *)
(* them in the name of the profile.  The offline queue behind enqueue() is *)
(* module OfflineQueue; what the screens read is module Catalogue.         *)
(***************************************************************************)
EXTENDS AuthSession, Till

vars == <<authVars, tillVars>>

Mounted == status \in InApp

----------------------------------------------------------------------------
(* The app. *)

Init == AuthInit /\ TillInit

\* A step of the session; the gate may open or close over it.
Session(step) ==
    /\ step
    /\ IF (status' \in InApp) = Mounted THEN UNCHANGED tillVars
       ELSE Remount(screen)

\* A reload, a kill or a cold start, the cashier's or an update's.
Restart ==
    /\ Reload
    /\ Remount(screen) \/ Remount("pos")

Next ==
    \/ Session(SdkLoads \/ Notify \/ SignOut \/ SdkSignsOut)
    \/ Session(\E c \in calls, answer \in Answers : MeReturns(c, answer))
    \/ Session(\E u \in Users : SignIn(u))
    \/ Session(Elsewhere)
    \/ Restart
    \/ Mounted /\ TillNext(profile) /\ UNCHANGED authVars
    \/ Returns /\ UNCHANGED authVars

Spec == Init /\ [][Next]_vars

\* The browser loads the chunk or fails to, the SDK notifies, requests end:
\* none of this waits for a person.  What the cashier does, here or in another
\* tab, is not fair.
FairSpec ==
    /\ Spec
    /\ WF_authVars(\/ SdkLoads \/ Notify
                   \/ \E c \in calls, answer \in Answers : MeReturns(c, answer))

----------------------------------------------------------------------------
(* Properties. *)

TypeOK ==
    /\ AuthTypeOK /\ TillTypeOK
    /\ ~Mounted => cart = Empty /\ ~checkout

\* A cart never passes from one cashier to the next: the screens go with the
\* session, so what is in the cart was rung up by the one in whose name it will
\* be recorded, unless an earlier account's answer came since the last sign-in.
CartIsItsCashiers == mixed \/ ringer \cup {t.by : t \in taps} \subseteq {profile}
=============================================================================
