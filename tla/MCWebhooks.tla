----------------------------- MODULE MCWebhooks -----------------------------
(* Two payments with different payment ids, a spend of the first, and hooks *)
(* that ask for one and three confirmations. *)
EXTENDS Webhooks, TLC

CONSTANTS p1, p2, s1, h1, h2, hs, v1, v2

MCPaymentId == p1 :> 1 @@ p2 :> 2 @@ h1 :> 1 @@ h2 :> 2
MCSpendOf == s1 :> p1
MCRequested == h1 :> 1 @@ h2 :> 3

(* The scanners are interchangeable. *)
MCSymmetry == Permutations({v1, v2})
=============================================================================
