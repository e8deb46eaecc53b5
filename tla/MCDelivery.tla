----------------------------- MODULE MCDelivery -----------------------------
(* Delivery for TLC: users and answering threads are interchangeable.      *)
EXTENDS Delivery, TLC

UserSymmetry == Permutations(User) \cup Permutations(Slot)

=============================================================================
