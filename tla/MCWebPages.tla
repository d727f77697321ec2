----------------------------- MODULE MCWebPages -----------------------------
(***************************************************************************)
(* Two tabs of an administrator and a user; two names on each page.        *)
(***************************************************************************)
EXTENDS WebPages

CONSTANTS root, ada, tab1, tab2, name1, name2, none
=============================================================================
