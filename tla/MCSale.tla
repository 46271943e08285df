------------------------------- MODULE MCSale -------------------------------
(* Small instances of a sale for TLC.                                      *)
EXTENDS SaleRefinement

CONSTANTS t1, alice, bob, d1, k1, k2, k3, e1

(* One buyer, one payment of 1 to alice.                                   *)
OnePayment ==
  [t \in Tx |-> [u \in Ufvk |->
    IF u = alice THEN <<[memo |-> "payment", drop |-> d1, ePub |-> e1, value |-> 1]>>
                 ELSE <<>>]]

offer(u, key) == [drop |-> d1, ufvk |-> u, price |-> 1, key |-> key]

(* alice may fill in her form twice; bob wants the same drop id.           *)
TwoForms == {offer(alice, k1), offer(alice, k2), offer(bob, k3)}
=============================================================================
