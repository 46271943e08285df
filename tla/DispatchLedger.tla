--------------------------- MODULE DispatchLedger ---------------------------
(***************************************************************************)
(* What the indexer promises, without saying how: keys are released for    *)
(* confirmed payments, at an offered price, once per transaction and       *)
(* creator for as long as the process remembers.  Cursors, passes, replay  *)
(* guards, lightwalletd and its failures do not appear.                    *)
(***************************************************************************)
EXTENDS Market

VARIABLES
  confirmed,   \* transactions in a block
  promised,    \* offers accepted from creators
  released     \* the blobs released: [tx, ufvk, drop, key, ek]

Init ==
  /\ confirmed = {}
  /\ promised = {}
  /\ released = {}

Confirm ==
  /\ \E S \in SUBSET Tx : confirmed' = confirmed \cup S
  /\ UNCHANGED <<promised, released>>

(* A drop never has offers of two creators.                                *)
Promise(o) ==
  /\ \A p \in promised : p.drop = o.drop => p.ufvk = o.ufvk
  /\ promised' = promised \cup {o}
  /\ UNCHANGED <<confirmed, released>>

(* One blob is added, sealed under an ephemeral key of its own.            *)
Release(t, o) ==
  /\ t \in confirmed
  /\ o \in promised
  /\ Pays(t, o.ufvk, o)
  /\ \A r \in released : ~ (r.tx = t /\ r.ufvk = o.ufvk)
  /\ \E r \in released' :
       /\ released' = released \cup {r}
       /\ r = [tx |-> t, ufvk |-> o.ufvk, drop |-> o.drop, key |-> o.key,
              ek |-> r.ek]
  /\ UNCHANGED <<confirmed, promised>>

(* The process forgets what it promised and what it released.              *)
Forget ==
  /\ promised' = {}
  /\ released' = {}
  /\ UNCHANGED confirmed

Next ==
  \/ Confirm
  \/ \E o \in Offers : Promise(o) \/ \E t \in Tx : Release(t, o)
  \/ Forget

Spec == Init /\ [][Next]_<<confirmed, promised, released>>
=============================================================================
