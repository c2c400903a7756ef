---------------------------- MODULE MCCatalogue -----------------------------
(* Small instances of Catalogue for TLC: pages of two products, a catalogue  *)
(* of three that may get a fourth name, and a cache of two pages.            *)
EXTENDS Catalogue, TLC

FourProducts == {1, 2, 3, 4}
ThreeProducts == {1, 2, 3}
=============================================================================
