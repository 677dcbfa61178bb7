--------------------------- MODULE MCProvisioning ---------------------------
(***************************************************************************)
(* One row and two operations on it.                                       *)
(***************************************************************************)
EXTENDS Provisioning

CONSTANTS k1, k2
=============================================================================
