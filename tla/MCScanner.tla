----------------------------- MODULE MCScanner ------------------------------
(* Small instances of the scanner for TLC.                                 *)
EXTENDS ScannerInv

CONSTANTS t1, t2, t3, alice, bob, d1, d2, k1, k2, k3, e1, e2

pay(d, e, v) == [memo |-> "payment", drop |-> d, ePub |-> e, value |-> v]
noMemo == [memo |-> "none", drop |-> d1, ePub |-> e1, value |-> 1]

(* t1: one payment at the high price.  t2: change without memo, then a     *)
(* payment to alice, and one to bob in the same transaction.  t3: change,  *)
(* a note that underpays at the high price, then one that pays.            *)
MCNotes ==
  [t \in Tx |-> [u \in Ufvk |->
    CASE t = t1 /\ u = alice -> <<pay(d1, e1, 2)>>
      [] t = t2 /\ u = alice -> <<noMemo, pay(d1, e2, 2)>>
      [] t = t2 /\ u = bob   -> <<pay(d2, e2, 1)>>
      [] t = t3 /\ u = alice -> <<noMemo, pay(d1, e1, 1), pay(d1, e2, 2)>>
      [] OTHER -> <<>>]]

offer(d, u, p, key) == [drop |-> d, ufvk |-> u, price |-> p, key |-> key]

(* alice sells d1, and later changes its price and key; bob sells d2, and  *)
(* tries to claim d1.                                                      *)
MCOffers == {offer(d1, alice, 2, k1), offer(d1, alice, 1, k2),
             offer(d2, bob, 1, k3), offer(d1, bob, 1, k3)}

(* alice alone, at one price.                                              *)
AliceOffers == {offer(d1, alice, 2, k1)}
Repriced == AliceOffers \cup {offer(d1, alice, 1, k2)}
TwoSellers == {offer(d1, alice, 2, k1), offer(d2, bob, 1, k3)}
(* Both sell, and both want d1.                                            *)
Contested == TwoSellers \cup {offer(d1, bob, 1, k3)}
=============================================================================
