------------------------------ MODULE Purchase ------------------------------
(***************************************************************************)
(* What the points ledger promises about money: an item is ordered at most *)
(* once; an order that went wrong in a way nobody can tell is frozen, and  *)
(* nothing more is ordered then.  VocalLab implements this specification.  *)
(***************************************************************************)
CONSTANT Item

VARIABLE stage  \* per item

PurchaseInit == stage = [i \in Item |-> "open"]

Move(i, from, to) == stage[i] = from /\ stage' = [stage EXCEPT ![i] = to]

Order(i) ==
  /\ \A j \in Item : stage[j] # "frozen"
  /\ Move(i, "open", "ordered")

Deliver(i) == Move(i, "ordered", "delivered")

Freeze(i) == Move(i, "ordered", "frozen")

PurchaseNext == \E i \in Item : Order(i) \/ Deliver(i) \/ Freeze(i)

PurchaseSpec == PurchaseInit /\ [][PurchaseNext]_stage
=============================================================================
