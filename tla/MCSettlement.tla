---------------------------- MODULE MCSettlement ----------------------------
(***************************************************************************)
(* Settlement for TLC: o1 owes 2 and o2 owes 1, both due at one time.      *)
(* Payment p1, half of o1, is made through the first of two attempts on    *)
(* it, and reported by webhook and by pull, after or before the webhook of *)
(* its first, failed, authorization and after or before the second         *)
(* attempt; p2 is a transfer to the virtual account of o1 and o2.          *)
(***************************************************************************)
EXTENDS Settlement

Blank ==
  [channel |-> "direct", entity |-> "", paid |-> TRUE, id |-> "", payment |-> "", amount |-> 1,
   through |-> Nothing, noted |-> FALSE, byAccount |-> {}, byReference |-> Nothing]

Push(payment) ==
  [Blank EXCEPT !.channel = "webhook", !.entity = payment, !.id = payment \o "-pushed",
                !.payment = payment, !.through = "k1", !.noted = TRUE]

Said ==
  [push     |-> Push("p1"),
   failed   |-> [Push("p1") EXCEPT !.paid = FALSE, !.id = ""],
   pull     |-> [Blank EXCEPT !.channel = "pull", !.id = "k1-pulled", !.payment = "p1",
                              !.through = "k1"],
   transfer |-> [Blank EXCEPT !.id = "p2", !.payment = "p2", !.byAccount = {"o1", "o2"}]]

MCReport == [d \in Deliveries |-> Said[d]]

MCOwed == [o1 |-> 2, o2 |-> 1]
MCDueAt == [o1 |-> 1, o2 |-> 1]
MCObligationOf == [k1 |-> "o1", k2 |-> "o1"]
MCSentAt == [k1 |-> 0, k2 |-> 1]
=============================================================================
