---------------------------- MODULE MCTaskBoard ----------------------------
(* Names for up to two searches, two agents and the administrator.         *)
EXTENDS TaskBoard

CONSTANTS s1, s2, n1, n2, admin
=============================================================================
