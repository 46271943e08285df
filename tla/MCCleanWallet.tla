--------------------------- MODULE MCCleanWallet ----------------------------
(***************************************************************************)
(* The two scanners of clean wallet that screen an account, side by side:  *)
(* the side-car of week 6 (with the tools that read a range as it does)    *)
(* and the service of week 5.  They share no state, so that a behaviour    *)
(* exercises one or the other.                                             *)
(***************************************************************************)
EXTENDS MCBlockScan, MCScreening

VARIABLE which  \* the one this behaviour exercises

CleanWalletInit == ScanInit /\ Init /\ which \in {"sidecar", "service"}
CleanWalletNext ==
  /\ \/ which = "sidecar" /\ BlockScanNext /\ UNCHANGED vars
     \/ which = "service" /\ Next /\ UNCHANGED scanVars
  /\ UNCHANGED which

CleanWalletSpec == CleanWalletInit /\ [][CleanWalletNext]_<<scanVars, vars, which>>
=============================================================================
