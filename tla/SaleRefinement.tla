--------------------------- MODULE SaleRefinement ---------------------------
(* The indexer of a sale keeps the same ledger as the scanner's loop: the  *)
(* catalog behind POST /provision promises, and an answer of this life is  *)
(* a release, whose seal is for the buyer.                                 *)
EXTENDS Sale

Receipt(a) ==
  [tx |-> a.tx, ufvk |-> a.ufvk, drop |-> a.drop, key |-> a.key, ek |-> a.to]

Ledger == INSTANCE DispatchLedger WITH
  confirmed <- chain,
  promised  <- accepted,
  released  <- {Receipt(a) : a \in {b \in answers : b.life = life}}

(***************************************************************************)
(* Whatever creators, late requests, redeployments and buyers do, the      *)
(* indexer they meet releases keys as the ledger says: for a payment on    *)
(* the chain, at a price it promised since it started, once per            *)
(* transaction and creator.                                                *)
(***************************************************************************)
SaleKeepsLedger == Ledger!Spec
=============================================================================
