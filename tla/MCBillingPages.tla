--------------------------- MODULE MCBillingPages ---------------------------
(***************************************************************************)
(* Five steps reach a third failed verification, or a cancellation after a *)
(* checkout; two deliveries make one of them a repetition.                 *)
(***************************************************************************)
EXTENDS BillingPages

CONSTANT none
=============================================================================
