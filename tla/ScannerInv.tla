----------------------------- MODULE ScannerInv -----------------------------
(***************************************************************************)
(* The inductive invariant behind the safety properties of the scanner:    *)
(* what the catalog, the bucket, the two replay guards, the transaction in *)
(* hand, the range in hand and the cursors say of one another.             *)
(***************************************************************************)
EXTENDS ScannerRefinement

InTx == pc \in {"notes", "put"}
InBlocks == pc \in {"scan", "notes", "put"}
InRange == pc \in {"range", "scan", "notes", "put"}

(* What is on sale was accepted in this life, and every drop accepted      *)
(* still is on sale.                                                       *)
CatalogInv ==
  /\ catalog \subseteq accepted
  /\ \A o \in accepted : Listed(o.drop)
  /\ DropKeepsOwner
  /\ \A d \in Drop : listedAt[d] <= tip

(* No blob is of a later life, and each has its payment.                   *)
BucketInv ==
  /\ \A b \in bucket : b.life <= life
  /\ DispatchIsPaid

(* A dispatched transaction is in seen, or about to be.                    *)
ReplayInv ==
  /\ SeenMeansDispatched
  /\ \A u \in Ufvk, t \in Tx :
       Dispatched(t, u) => t \in seen[u] \/ (pc = "notes" /\ at = t /\ cur = u)
  /\ DispatchedOncePerLife

(* The transaction in hand is a mined one of the range, not seen before,   *)
(* and no note of it was dispatched unless this visit did it.              *)
TxInv ==
  /\ ~ InTx => at = None
  /\ InTx => /\ at \notin seen[cur]
             /\ at \notin rest
             /\ mined[at] \in start .. last
  /\ pc = "notes" => /\ paid => Dispatched(at, cur)
                     /\ at \notin engineSeen => ~ Dispatched(at, cur)
                     /\ Dispatched(at, cur) => paid
  /\ pc = "put" => /\ at \in engineSeen
                   /\ ~ Dispatched(at, cur)
                   /\ \E o \in accepted :
                        /\ held = {o}
                        /\ NotePays(at, cur, k, o)

(* The range in hand starts behind the cursor and ends at or below the tip.*)
RangeInv ==
  /\ InRange => /\ cursor[cur] # 0 => start = cursor[cur] + 1
                /\ last <= tip
  /\ pc = "range" => engineSeen = {}
  /\ ~ InBlocks => rest = {}
  /\ \A t \in rest : mined[t] \in start .. last /\ t \notin engineSeen

(* Nothing owed is behind the cursor, nor, in the range in hand, behind    *)
(* the place the loop is at.                                               *)
CoverInv ==
  /\ \A u \in Ufvk : cursor[u] <= tip /\ (covered[u] = 0 <=> cursor[u] = 0)
  /\ NothingOwedIsPassed
  /\ InBlocks => \A t \in Tx :
       mined[t] \in start .. last /\ t \notin rest /\ t # at /\ Owed(t, cur)
         => Dispatched(t, cur)

(* The first payment of the transaction in hand is either still ahead, the *)
(* engine's guard open for it, or was judged.                              *)
JudgeInv ==
  /\ pc = "notes" => \A i \in NoteIdx(at, cur) :
       /\ at \notin engineSeen /\ i < k => Notes[at][cur][i].memo # "payment"
       /\ FirstPayment(at, cur, i) =>
            /\ i >= k => at \notin engineSeen
            /\ i < k /\ PaidInFull(at, cur, i) => Dispatched(at, cur)
  /\ pc = "put" => FirstPayment(at, cur, k)

IInv ==
  /\ TypeOK
  /\ CatalogInv
  /\ BucketInv
  /\ ReplayInv
  /\ TxInv
  /\ RangeInv
  /\ CoverInv
  /\ JudgeInv
=============================================================================
