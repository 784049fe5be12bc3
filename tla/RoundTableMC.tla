---------------------------- MODULE RoundTableMC ----------------------------
(***************************************************************************)
(* Small instances of RoundTable.                                          *)
(***************************************************************************)
EXTENDS RoundTable, TLC

PlayerA == CHOOSE u \in Players : TRUE

\* A purchase by instalments, a payment that blocks the table, a reward.
TableTerms ==
    {[kind |-> "purchase", uid |-> PlayerA, amount |-> 2, deposit |-> 1, goods |-> TRUE],
     [kind |-> "payment",  uid |-> PlayerA, amount |-> 1, deposit |-> 0, goods |-> FALSE],
     [kind |-> "reward",   uid |-> PlayerA, amount |-> 1, deposit |-> 0, goods |-> FALSE]}

AllTasks == Tasks
NoTasks  == {}
=============================================================================
