-------------------------- MODULE MCOrderPayments --------------------------
(* Instances of OrderPayments for TLC. *)
EXTENDS OrderPayments, TLC

CONSTANTS a, b, t, c, u, v

\* everything is bought by one user
SameOwner == [k \in Keys |-> u]

\* b is bought by another user: the limits of the promo code are shared
OtherOwner == [k \in Keys |-> IF k = b THEN v ELSE u]
=============================================================================
