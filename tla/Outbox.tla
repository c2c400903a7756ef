------------------------------- MODULE Outbox -------------------------------
(***************************************************************************)
(* What the offline queue promises about the writes of a device, whatever  *)
(* its tabs, timers, clicks, crashes and full disks do: a write is         *)
(* accepted once, the moment IndexedDB takes it (index.js#enqueue); only   *)
(* accepted writes reach the server or can be given up, so that a cashier  *)
(* who is told that the storage is full may ring the sale up again; and    *)
(* the device drops a write only once it is settled.                       *)
(***************************************************************************)
CONSTANT Writes     \* the writes a cashier may make

VARIABLES
    accepted,       \* writes the device took
    kept,           \* writes the device holds
    recorded,       \* writes the server has
    abandoned       \* writes a person gave up

vars == <<accepted, kept, recorded, abandoned>>

Settled == recorded \cup abandoned

Init ==
    /\ accepted = {} /\ kept = {}
    /\ recorded = {} /\ abandoned = {}

\* In any step of its own the device may drop what is settled; a tab that acts
\* on what it read earlier may put back a write that another one dropped.
Holds ==
    /\ kept \ kept' \subseteq Settled
    /\ kept' \subseteq accepted'

Accept(w) ==
    /\ w \notin accepted
    /\ accepted' = accepted \cup {w}
    /\ w \in kept' /\ Holds
    /\ UNCHANGED <<recorded, abandoned>>

Deliver(w) ==
    /\ w \in accepted
    /\ recorded' = recorded \cup {w}
    /\ UNCHANGED <<accepted, kept, abandoned>>

GiveUp(w) ==
    /\ w \in accepted
    /\ abandoned' = abandoned \cup {w}
    /\ Holds
    /\ UNCHANGED <<accepted, recorded>>

Tidy == Holds /\ UNCHANGED <<accepted, recorded, abandoned>>

Next == Tidy \/ \E w \in Writes : Accept(w) \/ Deliver(w) \/ GiveUp(w)

Spec == Init /\ [][Next]_vars
=============================================================================
