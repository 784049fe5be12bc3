----------------------------- MODULE EconomyMC -----------------------------
(***************************************************************************)
(* Small instances of Economy.                                             *)
(***************************************************************************)
EXTENDS Economy, TLC

Charge(k, u, a, d) == [kind |-> k, uid |-> u, amount |-> a, deposit |-> d,
                       goods |-> k = "purchase"]
Reward(u, a, goods) == [kind |-> "reward", uid |-> u, amount |-> a,
                        deposit |-> 0, goods |-> goods]

\* A player who cannot always pay: a purchase by instalments (1 then 1 of a
\* purse of 2), and a reward of money and an item.
PlayerA == CHOOSE u \in Players : TRUE
InstalmentTerms == {Charge("purchase", PlayerA, 2, 1), Reward(PlayerA, 1, TRUE)}

OfferSymmetry == Permutations(Offers)
=============================================================================
