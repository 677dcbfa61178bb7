------------------------------ MODULE MCWallet ------------------------------
(***************************************************************************)
(* u tops up, and the webhook and the check button confirm it; he has an   *)
(* order with a promo code confirmed by the webhook; he pays another one   *)
(* at YooKassa, checks it, and buys it from the balance as well; and he is *)
(* credited for inviting v.                                                *)
(***************************************************************************)
EXTENDS Wallet, TLC

CONSTANTS u, v, topUp, first, second, code

MCKind == ("top" :> "topup") @@ ("again" :> "checked") @@ ("hook" :> "payment")
          @@ ("paid" :> "check") @@ ("buy" :> "purchase") @@ ("ref" :> "referral")

MCJobs == DOMAIN MCKind

MCHolder == [j \in MCJobs |-> u]

MCGuard == ("top" :> topUp) @@ ("again" :> topUp) @@ ("hook" :> first)
           @@ ("paid" :> second) @@ ("buy" :> second) @@ ("ref" :> v)

MCAmount == [j \in MCJobs |-> IF j \in {"top", "again", "ref"} THEN 1 ELSE 2]

MCCreditKey == [j \in MCJobs |-> <<"credit", IF j = "again" THEN "top" ELSE j>>]
MCDebitKey == [j \in MCJobs |-> <<"debit", IF j = "paid" THEN "buy" ELSE j>>]

MCPromo == [j \in MCJobs |-> IF j = "hook" THEN code ELSE None]

MCKeys == {MCCreditKey[j] : j \in MCJobs} \cup {MCDebitKey[j] : j \in MCJobs}
=============================================================================
