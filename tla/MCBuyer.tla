------------------------------ MODULE MCBuyer -------------------------------
(* Small instances of the buyer's page for TLC.                            *)
EXTENDS Buyer

CONSTANTS p, q

(* The indexer restarts, and answers the payment of p again; q, bought     *)
(* before or after, is not answered.                                       *)
TwiceForP == {<<p, 1>>, <<p, 2>>}
=============================================================================
