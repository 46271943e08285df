------------------------------- MODULE MCLive -------------------------------
(***************************************************************************)
(* The two uses of the indexer library outside its server, side by side:   *)
(* the tool scan-live with its state file, and the in-memory store with an *)
(* engine per creator.  They read the same transactions and share no       *)
(* state, so that a behaviour exercises one or the other.                  *)
(***************************************************************************)
EXTENDS ScanLive, ApiVectors

(* "good" pays drop 1; "both" pays each creator, one of them after a note  *)
(* without a memo.  At the price of 3 neither pays enough.                 *)
MCTx == {"good", "both"}
MCUfvk == {"alice", "bob"}
Payment(d, v) == [memo |-> "payment", drop |-> d, ePub |-> "e", value |-> v]
NoMemo == [memo |-> "none", drop |-> 1, ePub |-> "e", value |-> 5]
MCNotes ==
  [t \in MCTx |-> [u \in MCUfvk |->
     CASE t = "good" /\ u = "alice" -> <<Payment(1, 2)>>
       [] t = "both" /\ u = "alice" -> <<NoMemo, Payment(1, 2)>>
       [] t = "both" /\ u = "bob"   -> <<Payment(2, 2)>>
       [] OTHER -> <<>>]]

(* Invocations: one resumes, one reads again from the start, one jumps     *)
(* ahead, maybe past the tip, one holds another state key, one has no      *)
(* state file and a dearer drop.                                           *)
DemoOffer(p) == [drop |-> 1, ufvk |-> "alice", price |-> p, key |-> "k1"]
Invoked(start, end, price, file, key) ==
  [ufvk |-> "alice", offer |-> DemoOffer(price), start |-> start, end |-> end,
   file |-> file, key |-> key]
MCInvocation ==
  {Invoked(0, 0, 2, TRUE, "state"), Invoked(1, 2, 2, TRUE, "state"),
   Invoked(3, 3, 2, TRUE, "state"), Invoked(0, 0, 2, TRUE, "other"),
   Invoked(1, 2, 3, FALSE, "state")}

Register(u, addr, p, k) ==
  [creator |-> "named", ufvk |-> u, addr |-> addr, price |-> p, key |-> k,
   content |-> "hash"]
MCRegistration ==
  {Register("alice", "shielded", 2, "k1"), Register("alice", "tm", 3, "k1"),
   Register("bob", "shielded", 2, "k2"),
   Register("alice", "t1", 2, "k1"), Register("alice", "shielded", 0, "k1")}

VARIABLE which  \* the one this behaviour exercises

LiveAndApiInit == LiveInit /\ ApiInit /\ which \in {"tool", "store"}
LiveAndApiNext ==
  /\ \/ which = "tool" /\ LiveNext /\ UNCHANGED apiVars
     \/ which = "store" /\ ApiNext /\ UNCHANGED liveVars
  /\ UNCHANGED which

LiveAndApiSpec == LiveAndApiInit /\ [][LiveAndApiNext]_<<liveVars, apiVars, which>>
=============================================================================
