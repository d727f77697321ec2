---------------------------- MODULE MCSearchPage ----------------------------
(***************************************************************************)
(* Two tabs of one browser.                                                *)
(***************************************************************************)
EXTENDS SearchPage, TLC

CONSTANTS tab1, tab2, none

Symmetric == Permutations(Tabs)
=============================================================================
