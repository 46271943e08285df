------------------------- MODULE ScannerRefinement --------------------------
(* The scanner implements the ledger: a release is the write of a whole    *)
(* blob, and every other step of the loop changes nothing the ledger sees. *)
EXTENDS Scanner

Receipt(b) ==
  [tx |-> b.tx, ufvk |-> b.ufvk, drop |-> b.drop, key |-> b.key, ek |-> b.ek]

Ledger == INSTANCE DispatchLedger WITH
  confirmed <- {t \in Tx : mined[t] # 0},
  promised  <- accepted,
  released  <- {Receipt(b) : b \in {c \in bucket : c.life = life /\ c.form = "whole"}}

(* Every behaviour of the scanner, its faults, re-scans and restarts       *)
(* included, is one of the ledger.                                         *)
ImplementsLedger == Ledger!Spec
=============================================================================
