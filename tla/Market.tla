------------------------------- MODULE Market -------------------------------
(***************************************************************************)
(* The data of the Unlockable Drop market (week7/drop): what a creator     *)
(* provisions, what a buyer's shielded transaction pays, and when a note   *)
(* of a transaction pays for an offer.                                     *)
(*                                                                         *)
(* A transaction is named by its txid, which commits to its contents, so   *)
(* the notes it pays are a constant function of it: Notes[t][u] is the     *)
(* sequence detect_incoming finds in t with the viewing key u, in the      *)
(* order it finds them.  A memo is abstracted to what decode_memo makes of *)
(* it: "payment" (a drop id and the buyer's ephemeral key, whether the     *)
(* bytes were meant so or only long enough to be read so), "none" (ZIP-302 *)
(* 0xF6) or "junk" (under 40 bytes: no memo of a shielded note is).        *)
(***************************************************************************)
EXTENDS Integers, Sequences

CONSTANTS
  Tx,       \* transaction ids
  Ufvk,     \* creators, named by their unified full viewing key
  Drop,     \* drop ids
  Key,      \* content keys k_drop (each stands for the pair k_drop, h_content)
  EPub,     \* buyers' ephemeral public keys
  Notes,    \* Notes[t][u]: the notes of t that viewing key u detects
  Offers    \* the provision payloads creators submit

Memo == {"payment", "none", "junk"}
Note == [memo : Memo, drop : Drop, ePub : EPub, value : Nat]
Offer == [drop : Drop, ufvk : Ufvk, price : Nat, key : Key]

ASSUME NotesAssumption == Notes \in [Tx -> [Ufvk -> Seq(Note)]]
ASSUME OffersAssumption == Offers \subseteq Offer

(* Positions of the notes of t that creator u receives.                    *)
NoteIdx(t, u) == DOMAIN Notes[t][u]

(* The note at position i passes the engine's checks against offer o.      *)
NotePays(t, u, i, o) ==
  /\ Notes[t][u][i].memo = "payment"
  /\ Notes[t][u][i].drop = o.drop
  /\ o.ufvk = u
  /\ Notes[t][u][i].value >= o.price

(* Some note that t sends to u pays for offer o.                           *)
Pays(t, u, o) == \E i \in NoteIdx(t, u) : NotePays(t, u, i, o)

(* Position i holds the first note of t for u whose memo decodes: the only *)
(* one the engine's replay guard, keyed by txid alone, lets through.       *)
FirstPayment(t, u, i) ==
  /\ i \in NoteIdx(t, u)
  /\ Notes[t][u][i].memo = "payment"
  /\ \A j \in NoteIdx(t, u) : j < i => Notes[t][u][j].memo # "payment"
=============================================================================
