----------------------------- MODULE RecycleBin -----------------------------
(***************************************************************************)
(* What the recycle bin promises about the items of one table: an item is  *)
(* created once, may go to the bin and come back any number of times, and  *)
(* is purged only out of the bin, for good.                                *)
(***************************************************************************)
CONSTANT Item
VARIABLE state

ItemState == {"none", "live", "binned", "purged"}

Init == state \in [Item -> {"none", "live"}]

Become(S, from, to) ==
  /\ \A i \in S : state[i] = from
  /\ state' = [i \in Item |-> IF i \in S THEN to ELSE state[i]]

Next == \E S \in SUBSET Item :
          \/ Become(S, "none", "live")
          \/ Become(S, "live", "binned")
          \/ Become(S, "binned", "live")
          \/ Become(S, "binned", "purged")

Spec == Init /\ [][Next]_state
=============================================================================
