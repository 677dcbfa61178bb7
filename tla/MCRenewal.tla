----------------------------- MODULE MCRenewal -----------------------------
(***************************************************************************)
(* One user, who may order, redeem a code, be rewarded for joining the     *)
(* channel, try the service, and be granted days.                          *)
(***************************************************************************)
EXTENDS Renewal

CONSTANTS o1, promo, reward, grant

MCDays == [o \in Orders |-> 1]
=============================================================================
