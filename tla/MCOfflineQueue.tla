--------------------------- MODULE MCOfflineQueue ---------------------------
(* Small instances of OfflineQueue for TLC. *)
EXTENDS OfflineQueue, TLC

CONSTANTS t1, t2, ama, kofi

OneTab == {t1}
TwoTabs == {t1, t2}
OneUser == {ama}
TwoUsers == {ama, kofi}

Symmetry == Permutations(Tabs) \cup Permutations(Users)
=============================================================================
