--------------------------- MODULE ScannerProofs ----------------------------
(* Proofs about the scanner, for every set of transactions, creators and   *)
(* offers, every batch size, start height and bound.                       *)
EXTENDS ScannerInv, TLAPS

LEMMA OfferFields ==
  \A o \in Offers : /\ o.drop \in Drop /\ o.ufvk \in Ufvk
                    /\ o.price \in Nat /\ o.key \in Key
  BY OffersAssumption DEF Offer

(***************************************************************************)
(* Every reachable state is well typed (all variables of Scanner).         *)
(***************************************************************************)
LEMMA TypeInit == Init => TypeOK
<1> SUFFICES ASSUME Init PROVE TypeOK
  OBVIOUS
<1> USE DEF Init, CatalogInit
<1>2. mined \in [Tx -> 0 .. tip]
  OBVIOUS
<1>3. TxTypeOK
  BY DEF TxTypeOK
<1> QED
  BY <1>2, <1>3 DEF TypeOK, CatalogTypeOK, ChainTypeOK, BucketTypeOK,
       StateTypeOK, RangeTypeOK, HistTypeOK

(* What on_note writes is a blob.                                          *)
LEMMA BlobTyped ==
  ASSUME TypeOK, pc = "put", k \in NoteIdx(at, cur),
         NEW o \in Offers, NEW w \in Form
  PROVE  BlobFor(o, w) \in Blob
<1>1. Notes[at][cur] \in Seq(Note)
  BY NotesAssumption DEF TypeOK, RangeTypeOK, TxTypeOK
<1>2. ThisNote \in Note
  BY <1>1 DEF ThisNote, NoteIdx
<1> QED
  BY <1>2, OfferFields
     DEF BlobFor, Blob, Note, TypeOK, RangeTypeOK, TxTypeOK, BucketTypeOK

LEMMA TypeNext == TypeOK /\ [Next]_vars => TypeOK'
<1> SUFFICES ASSUME TypeOK, [Next]_vars PROVE TypeOK'
  OBVIOUS
<1> USE NoneAssumption, BoundsAssumption, OfferFields
<1> USE DEF TypeOK, catalogVars, chainVars, bucketVars,
        stateVars, passVars, rangeVars, txVars, histVars, Abort, DropTx,
        DropRange, Fault
<1>1. ASSUME NEW S \in SUBSET Tx, Mine(S) PROVE TypeOK'
  <2>1. ChainTypeOK'
    BY <1>1 DEF Mine, ChainTypeOK, RangeTypeOK
  <2> QED
    BY <1>1, <2>1 DEF Mine, CatalogTypeOK, BucketTypeOK, StateTypeOK,
       RangeTypeOK, TxTypeOK, HistTypeOK
<1>2. ASSUME NEW o \in Offers, Provision(o) PROVE TypeOK'
  <2>1. CatalogTypeOK'
    BY <1>2 DEF Provision, Insert, CatalogTypeOK, RangeTypeOK
  <2>2. HistTypeOK'
    BY <1>2 DEF Provision, ChainTypeOK, HistTypeOK, RangeTypeOK
  <2> QED
    BY <1>2, <2>1, <2>2 DEF Provision, ChainTypeOK, BucketTypeOK,
       StateTypeOK, RangeTypeOK, TxTypeOK, Insert
<1>3. ASSUME Restart PROVE TypeOK'
  <2>1. CatalogTypeOK'
    BY <1>3 DEF Restart, CatalogRestart, CatalogTypeOK, RangeTypeOK
  <2>2. BucketTypeOK'
    BY <1>3 DEF Restart, BucketTypeOK, RangeTypeOK
  <2>3. StateTypeOK'
    BY <1>3 DEF Restart, StateTypeOK, RangeTypeOK
  <2>4. RangeTypeOK'
    BY <1>3 DEF Restart, RangeTypeOK
  <2>5. TxTypeOK'
    BY <1>3 DEF Restart, TxTypeOK, RangeTypeOK
  <2>6. HistTypeOK'
    BY <1>3 DEF Restart, HistTypeOK, RangeTypeOK
  <2> QED
    BY <1>3, <2>1, <2>2, <2>3, <2>4, <2>5, <2>6 DEF Restart, ChainTypeOK,
       CatalogRestart
<1>4. ASSUME BeginPass PROVE TypeOK'
  <2>1. RangeTypeOK'
    BY <1>4 DEF BeginPass, ListedUfvks, CatalogTypeOK, RangeTypeOK
  <2>2. TxTypeOK'
    BY <1>4 DEF BeginPass, TxTypeOK, RangeTypeOK
  <2> QED
    BY <1>4, <2>1, <2>2 DEF BeginPass, CatalogTypeOK, ChainTypeOK,
       BucketTypeOK, StateTypeOK, HistTypeOK
<1>5. ASSUME NEW u \in Ufvk, NEW h \in Int, OpenRange(u, h) PROVE TypeOK'
  <2>1. RangeTypeOK'
    BY <1>5 DEF OpenRange, FirstHeight, LastHeight, StateTypeOK,
       ChainTypeOK, RangeTypeOK
  <2>2. TxTypeOK'
    BY <1>5 DEF OpenRange, TxTypeOK, RangeTypeOK
  <2>3. HistTypeOK'
    BY <1>5 DEF OpenRange, FirstHeight, StateTypeOK, ChainTypeOK,
       HistTypeOK, RangeTypeOK
  <2> QED
    BY <1>5, <2>1, <2>2, <2>3 DEF OpenRange, CatalogTypeOK, ChainTypeOK,
       BucketTypeOK, StateTypeOK
<1>6. ASSUME EndPass PROVE TypeOK'
  <2>1. RangeTypeOK'
    BY <1>6 DEF EndPass, RangeTypeOK
  <2>2. TxTypeOK'
    BY <1>6 DEF EndPass, TxTypeOK, RangeTypeOK
  <2> QED
    BY <1>6, <2>1, <2>2 DEF EndPass, CatalogTypeOK, ChainTypeOK,
       BucketTypeOK, StateTypeOK, HistTypeOK
<1>7. ASSUME CallFails PROVE TypeOK'
  <2>1. RangeTypeOK'
    BY <1>7 DEF CallFails, RangeTypeOK
  <2>2. TxTypeOK'
    BY <1>7 DEF CallFails, TxTypeOK, RangeTypeOK
  <2>3. HistTypeOK'
    BY <1>7 DEF CallFails, HistTypeOK, RangeTypeOK
  <2> QED
    BY <1>7, <2>1, <2>2, <2>3 DEF CallFails, CatalogTypeOK, ChainTypeOK,
       BucketTypeOK, StateTypeOK
<1>8. ASSUME NEW h \in Int, FetchRange(h) PROVE TypeOK'
  <2>1. RangeTypeOK'
    BY <1>8 DEF FetchRange, RangeTypeOK
  <2>2. TxTypeOK'
    BY <1>8 DEF FetchRange, TxTypeOK, RangeTypeOK
  <2>3. HistTypeOK'
    BY <1>8 DEF FetchRange, HistTypeOK, RangeTypeOK
  <2> QED
    BY <1>8, <2>1, <2>2, <2>3 DEF FetchRange, CatalogTypeOK, ChainTypeOK,
       BucketTypeOK, StateTypeOK
<1>9. ASSUME NEW t \in Tx, SkipSeen(t) PROVE TypeOK'
  <2>1. RangeTypeOK'
    BY <1>9 DEF SkipSeen, IsNext, RangeTypeOK
  <2>2. TxTypeOK'
    BY <1>9 DEF SkipSeen, IsNext, TxTypeOK, RangeTypeOK
  <2> QED
    BY <1>9, <2>1, <2>2 DEF SkipSeen, CatalogTypeOK, ChainTypeOK,
       BucketTypeOK, StateTypeOK, HistTypeOK
<1>10. ASSUME NEW t \in Tx, SkipEmpty(t) PROVE TypeOK'
  <2>1. RangeTypeOK'
    BY <1>10 DEF SkipEmpty, IsNext, RangeTypeOK
  <2>2. TxTypeOK'
    BY <1>10 DEF SkipEmpty, IsNext, TxTypeOK, RangeTypeOK
  <2>3. HistTypeOK'
    BY <1>10 DEF SkipEmpty, IsNext, HistTypeOK, RangeTypeOK
  <2> QED
    BY <1>10, <2>1, <2>2, <2>3 DEF SkipEmpty, CatalogTypeOK, ChainTypeOK,
       BucketTypeOK, StateTypeOK
<1>11. ASSUME NEW t \in Tx, DetectFails(t) PROVE TypeOK'
  <2>1. RangeTypeOK'
    BY <1>11 DEF DetectFails, RangeTypeOK
  <2>2. TxTypeOK'
    BY <1>11 DEF DetectFails, TxTypeOK, RangeTypeOK
  <2> QED
    BY <1>11, <2>1, <2>2 DEF DetectFails, CatalogTypeOK, ChainTypeOK,
       BucketTypeOK, StateTypeOK, HistTypeOK
<1>12. ASSUME NEW t \in Tx, FetchTx(t) PROVE TypeOK'
  <2>1. RangeTypeOK'
    BY <1>12 DEF FetchTx, IsNext, RangeTypeOK
  <2>2. TxTypeOK'
    <3>1. pc' # "put"
      BY <1>12 DEF FetchTx
    <3>2. at' \in Tx \cup {None} /\ at' \in Tx
      BY <1>12 DEF FetchTx
    <3>3. k' \in Nat /\ k' > 0
      BY <1>12 DEF FetchTx
    <3>4. paid' \in BOOLEAN
      BY <1>12 DEF FetchTx
    <3>5. held' \subseteq Offers
      BY <1>12 DEF FetchTx
    <3> QED
      BY <3>1, <3>2, <3>3, <3>4, <3>5 DEF TxTypeOK
  <2> QED
    BY <1>12, <2>1, <2>2 DEF FetchTx, CatalogTypeOK, ChainTypeOK,
       BucketTypeOK, StateTypeOK, HistTypeOK
<1>13. ASSUME FinishRange PROVE TypeOK'
  <2>1. StateTypeOK'
    BY <1>13 DEF FinishRange, StateTypeOK, RangeTypeOK
  <2>2. RangeTypeOK'
    BY <1>13 DEF FinishRange, RangeTypeOK
  <2>3. TxTypeOK'
    BY <1>13 DEF FinishRange, TxTypeOK, RangeTypeOK
  <2>4. HistTypeOK'
    BY <1>13 DEF FinishRange, HistTypeOK, RangeTypeOK
  <2> QED
    BY <1>13, <2>1, <2>2, <2>3, <2>4 DEF FinishRange, CatalogTypeOK,
       ChainTypeOK, BucketTypeOK
<1>14. ASSUME SkipNote PROVE TypeOK'
  <2>1. RangeTypeOK'
    BY <1>14 DEF SkipNote, HasNote, RangeTypeOK
  <2>2. TxTypeOK'
    BY <1>14 DEF SkipNote, HasNote, TxTypeOK, RangeTypeOK
  <2> QED
    BY <1>14, <2>1, <2>2 DEF SkipNote, CatalogTypeOK, ChainTypeOK,
       BucketTypeOK, StateTypeOK, HistTypeOK
<1>15. ASSUME RefuseNote PROVE TypeOK'
  <2>1. RangeTypeOK'
    BY <1>15 DEF RefuseNote, HasNote, TxTypeOK, RangeTypeOK
  <2>2. TxTypeOK'
    BY <1>15 DEF RefuseNote, HasNote, TxTypeOK, RangeTypeOK
  <2> QED
    BY <1>15, <2>1, <2>2 DEF RefuseNote, CatalogTypeOK, ChainTypeOK,
       BucketTypeOK, StateTypeOK, HistTypeOK
<1>16. ASSUME NEW o \in Offers, AcceptNote(o) PROVE TypeOK'
  <2>1. RangeTypeOK'
    BY <1>16 DEF AcceptNote, HasNote, TxTypeOK, RangeTypeOK
  <2>2. TxTypeOK'
    BY <1>16 DEF AcceptNote, HasNote, TxTypeOK, RangeTypeOK
  <2> QED
    BY <1>16, <2>1, <2>2 DEF AcceptNote, CatalogTypeOK, ChainTypeOK,
       BucketTypeOK, StateTypeOK, HistTypeOK
<1>17. ASSUME NEW o \in Offers, Put(o) PROVE TypeOK'
  <2>1. BucketTypeOK'
    <3>1. /\ BlobFor(o, "whole") \in Blob
          /\ BlobFor(o, "torn") \in Blob
      BY <1>17, BlobTyped DEF Put, TxTypeOK, Form
    <3> QED
      BY <1>17, <3>1 DEF Put, BucketTypeOK
  <2>2. RangeTypeOK'
    BY <1>17 DEF Put, RangeTypeOK
  <2>3. TxTypeOK'
    BY <1>17 DEF Put, TxTypeOK, Form, RangeTypeOK
  <2> QED
    BY <1>17, <2>1, <2>2, <2>3 DEF Put, CatalogTypeOK, ChainTypeOK,
       StateTypeOK, HistTypeOK
<1>18. ASSUME NEW o \in Offers, PutFails(o) PROVE TypeOK'
  <2>1. BucketTypeOK'
    <3>1. /\ BlobFor(o, "whole") \in Blob
          /\ BlobFor(o, "torn") \in Blob
      BY <1>18, BlobTyped DEF PutFails, TxTypeOK, Form
    <3> QED
      BY <1>18, <3>1 DEF PutFails, BucketTypeOK
  <2>2. RangeTypeOK'
    BY <1>18 DEF PutFails, RangeTypeOK
  <2>3. TxTypeOK'
    BY <1>18 DEF PutFails, TxTypeOK, Form, RangeTypeOK
  <2>4. HistTypeOK'
    BY <1>18 DEF PutFails, HistTypeOK, RangeTypeOK
  <2> QED
    BY <1>18, <2>1, <2>2, <2>3, <2>4 DEF PutFails, CatalogTypeOK,
       ChainTypeOK, StateTypeOK
<1>19. ASSUME FinishTx PROVE TypeOK'
  <2>1. StateTypeOK'
    BY <1>19 DEF FinishTx, TxTypeOK, StateTypeOK, RangeTypeOK
  <2>2. RangeTypeOK'
    BY <1>19 DEF FinishTx, RangeTypeOK
  <2>3. TxTypeOK'
    BY <1>19 DEF FinishTx, TxTypeOK, RangeTypeOK
  <2> QED
    BY <1>19, <2>1, <2>2, <2>3 DEF FinishTx, CatalogTypeOK, ChainTypeOK,
       BucketTypeOK, HistTypeOK
<1>20. CASE UNCHANGED vars
  BY <1>20 DEF vars, CatalogTypeOK, ChainTypeOK, BucketTypeOK, StateTypeOK,
     RangeTypeOK, TxTypeOK, HistTypeOK
<1> QED
  BY <1>1, <1>2, <1>3, <1>4, <1>5, <1>6, <1>7, <1>8, <1>9, <1>10, <1>11,
     <1>12, <1>13, <1>14, <1>15, <1>16, <1>17, <1>18, <1>19, <1>20 DEF
     Next, Progress, Trouble, Environment, ChainTypeOK, RangeTypeOK

(***************************************************************************)
(* TypeOK holds in every state of every behaviour.                         *)
(***************************************************************************)
THEOREM TypeCorrect == Spec => []TypeOK
  BY TypeInit, TypeNext, PTL DEF Spec

-----------------------------------------------------------------------------
(* What each kind of step leaves alone, and what a write adds.             *)

LEMMA StepKinds ==
  ASSUME [Next]_vars
  PROVE  \/ \E S \in SUBSET Tx : Mine(S)
         \/ \E o \in Offers : Provision(o)
         \/ Restart
         \/ \E o \in Offers : Put(o) \/ PutFails(o)
         \/ UNCHANGED <<catalog, accepted, tip, mined, life, listedAt, bucket>>
  BY DEF Next, Progress, Trouble, Environment, vars, catalogVars, chainVars,
         bucketVars, histVars, BeginPass, OpenRange, EndPass, CallFails,
         FetchRange, SkipSeen, SkipEmpty, DetectFails, FetchTx, FinishRange,
         SkipNote, RefuseNote, AcceptNote, FinishTx

LEMMA SameDispatched ==
  ASSUME UNCHANGED <<bucket, life>>, NEW t \in Tx, NEW u \in Ufvk
  PROVE  Dispatched(t, u)' <=> Dispatched(t, u)
  BY DEF Dispatched

LEMMA PutDispatches ==
  ASSUME NEW o \in Offers, Put(o), NEW t \in Tx, NEW u \in Ufvk
  PROVE  Dispatched(t, u)' <=> Dispatched(t, u) \/ (t = at /\ u = cur)
<1> DEFINE new == BlobFor(o, "whole")
<1>1. bucket' = bucket \cup {new} /\ life' = life
  BY DEF Put
<1>2. new.tx = at /\ new.ufvk = cur /\ new.life = life /\ new.form = "whole"
  BY DEF BlobFor
<1> HIDE DEF new
<1> QED
  BY <1>1, <1>2 DEF Dispatched

LEMMA TornDispatchesNothing ==
  ASSUME NEW o \in Offers, PutFails(o), NEW t \in Tx, NEW u \in Ufvk
  PROVE  Dispatched(t, u)' <=> Dispatched(t, u)
  BY DEF PutFails, Dispatched, BlobFor

-----------------------------------------------------------------------------
(* The catalog.                                                            *)

LEMMA CatalogNext == IInv /\ [Next]_vars => CatalogInv'
<1> SUFFICES ASSUME IInv, [Next]_vars PROVE CatalogInv'
  OBVIOUS
<1> USE DEF IInv, TypeOK
<1>1. ASSUME NEW S \in SUBSET Tx, Mine(S) PROVE CatalogInv'
  BY <1>1 DEF Mine, CatalogInv, DropKeepsOwner, Listed, ChainTypeOK,
              HistTypeOK, catalogVars, histVars
<1>2. ASSUME NEW o \in Offers, Provision(o) PROVE CatalogInv'
  <2> USE DEF Provision, Insert
  <2>1. catalog' \subseteq accepted'
    BY <1>2 DEF CatalogInv
  <2>2. \A a \in accepted' : Listed(a.drop)'
    BY <1>2 DEF CatalogInv, Listed
  <2>3. DropKeepsOwner'
    <3> SUFFICES ASSUME NEW a \in accepted, a.drop = o.drop
                 PROVE  a.ufvk = o.ufvk
      BY <1>2 DEF CatalogInv, DropKeepsOwner
    <3>1. PICK c \in catalog : c.drop = o.drop
      BY DEF CatalogInv, Listed
    <3> QED
      BY <1>2, <3>1 DEF CatalogInv, DropKeepsOwner, OwnedBy
  <2>4. \A d \in Drop : listedAt'[d] <= tip'
    BY <1>2, OfferFields DEF CatalogInv, HistTypeOK, ChainTypeOK, chainVars
  <2> QED
    BY <2>1, <2>2, <2>3, <2>4 DEF CatalogInv
<1>3. CASE Restart
  BY <1>3 DEF Restart, CatalogRestart, CatalogInv, DropKeepsOwner, ChainTypeOK,
              chainVars
<1>4. ASSUME NEW o \in Offers, Put(o) \/ PutFails(o) PROVE CatalogInv'
  BY <1>4 DEF Put, PutFails, CatalogInv, DropKeepsOwner, Listed, catalogVars,
              chainVars, histVars
<1>5. CASE UNCHANGED <<catalog, accepted, tip, mined, life, listedAt, bucket>>
  BY <1>5 DEF CatalogInv, DropKeepsOwner, Listed
<1> QED
  BY <1>1, <1>2, <1>3, <1>4, <1>5, StepKinds

-----------------------------------------------------------------------------
(* The bucket.                                                             *)

(* The blob about to be written, whole or in part, has its payment.        *)
LEMMA BlobIsPaid ==
  ASSUME IInv, pc = "put", NEW o \in held, NEW f \in Form,
         NEW b, b = BlobFor(o, f)
  PROVE  /\ b.life = life
         /\ mined[b.tx] # 0
         /\ \E a \in accepted, i \in NoteIdx(b.tx, b.ufvk) :
              /\ NotePays(b.tx, b.ufvk, i, a)
              /\ b.drop = a.drop
              /\ b.key = a.key
              /\ b.to = Notes[b.tx][b.ufvk][i].ePub
<1>1. b.tx = at /\ b.ufvk = cur /\ b.drop = o.drop /\ b.key = o.key
      /\ b.to = Notes[at][cur][k].ePub /\ b.life = life
  BY DEF BlobFor, ThisNote
<1>2. o \in accepted /\ NotePays(at, cur, k, o)
  BY DEF IInv, TxInv
<1>3. k \in NoteIdx(at, cur)
  BY DEF IInv, TypeOK, TxTypeOK
<1>4. mined[at] # 0
  BY DEF IInv, TypeOK, TxInv, InTx, RangeTypeOK, TxTypeOK, ChainTypeOK
<1> QED
  BY <1>1, <1>2, <1>3, <1>4

LEMMA BucketNext == IInv /\ [Next]_vars => BucketInv'
<1> SUFFICES ASSUME IInv, [Next]_vars PROVE BucketInv'
  OBVIOUS
<1> USE DEF BucketInv
<1>1. ASSUME NEW S \in SUBSET Tx, Mine(S) PROVE BucketInv'
  BY <1>1 DEF IInv, TypeOK, BucketTypeOK, Blob, ChainTypeOK, Mine,
              DispatchIsPaid, catalogVars, bucketVars
<1>2. ASSUME NEW o \in Offers, Provision(o) PROVE BucketInv'
  BY <1>2 DEF IInv, Provision, Insert, DispatchIsPaid, chainVars, bucketVars
<1>3. CASE Restart
  BY <1>3 DEF IInv, TypeOK, BucketTypeOK, Blob, Restart, DispatchIsPaid,
              bucketVars
<1>4. ASSUME NEW o \in Offers, Put(o) PROVE BucketInv'
  <2> DEFINE new == BlobFor(o, "whole")
  <2>1. pc = "put" /\ o \in held /\ "whole" \in Form
    BY <1>4 DEF Put, Form
  <2>2. /\ bucket' = bucket \cup {new}
        /\ UNCHANGED <<life, mined, accepted>>
    BY <1>4 DEF Put, chainVars, catalogVars
  <2>3. /\ new.life = life
        /\ mined[new.tx] # 0
        /\ \E a \in accepted, i \in NoteIdx(new.tx, new.ufvk) :
              /\ NotePays(new.tx, new.ufvk, i, a)
              /\ new.drop = a.drop
              /\ new.key = a.key
              /\ new.to = Notes[new.tx][new.ufvk][i].ePub
    BY <2>1, BlobIsPaid
  <2> HIDE DEF new
  <2>4. \A b \in bucket' : b.life <= life'
    BY <2>2, <2>3 DEF IInv, TypeOK, BucketTypeOK
  <2> QED
    BY <2>2, <2>3, <2>4 DEF IInv, DispatchIsPaid
<1>5. ASSUME NEW o \in Offers, PutFails(o) PROVE BucketInv'
  <2> DEFINE new == BlobFor(o, "torn")
  <2>1. pc = "put" /\ o \in held /\ "torn" \in Form
    BY <1>5 DEF PutFails, Form
  <2>2. /\ bucket' \subseteq bucket \cup {new}
        /\ UNCHANGED <<life, mined, accepted>>
    BY <1>5 DEF PutFails, chainVars, catalogVars
  <2>3. /\ new.life = life
        /\ mined[new.tx] # 0
        /\ \E a \in accepted, i \in NoteIdx(new.tx, new.ufvk) :
              /\ NotePays(new.tx, new.ufvk, i, a)
              /\ new.drop = a.drop
              /\ new.key = a.key
              /\ new.to = Notes[new.tx][new.ufvk][i].ePub
    BY <2>1, BlobIsPaid
  <2> HIDE DEF new
  <2>4. \A b \in bucket' : b.life <= life'
    BY <2>2, <2>3 DEF IInv, TypeOK, BucketTypeOK
  <2> QED
    BY <2>2, <2>3, <2>4 DEF IInv, DispatchIsPaid
<1>6. CASE UNCHANGED <<catalog, accepted, tip, mined, life, listedAt, bucket>>
  BY <1>6 DEF IInv, DispatchIsPaid
<1> QED
  BY <1>1, <1>2, <1>3, <1>4, <1>5, <1>6, StepKinds

-----------------------------------------------------------------------------
(* The replay guards.                                                      *)

(* A step outside the transaction's notes changes no replay guard.         *)
LEMMA QuietForReplay ==
  ASSUME IInv, [Next]_vars
  PROVE  \/ Restart
         \/ FinishTx
         \/ \E o \in Offers : Put(o) \/ PutFails(o)
         \/ \E o \in Offers : AcceptNote(o)
         \/ /\ UNCHANGED <<bucket, life, seen>>
            /\ pc = "notes" => UNCHANGED <<pc, at, cur>>
  BY DEF Next, Progress, Trouble, Environment, vars, bucketVars, stateVars,
         passVars, rangeVars, txVars, Mine, Provision, BeginPass, OpenRange,
         EndPass, CallFails, FetchRange, SkipSeen, SkipEmpty, DetectFails,
         FetchTx, FinishRange, SkipNote, RefuseNote, IsNext

LEMMA ReplayNext == IInv /\ [Next]_vars => ReplayInv'
<1> SUFFICES ASSUME IInv, [Next]_vars PROVE ReplayInv'
  OBVIOUS
<1>1. CASE Restart
  <2>1. \A t \in Tx, u \in Ufvk : ~ Dispatched(t, u)'
    BY <1>1 DEF Restart, Dispatched, bucketVars, IInv, BucketInv, TypeOK,
                BucketTypeOK, Blob
  <2>2. \A u \in Ufvk : seen'[u] = {}
    BY <1>1 DEF Restart
  <2>3. DispatchedOncePerLife'
    BY <1>1 DEF Restart, DispatchedOncePerLife, bucketVars, IInv, BucketInv,
                TypeOK, BucketTypeOK, Blob
  <2> QED
    BY <2>1, <2>2, <2>3 DEF ReplayInv, SeenMeansDispatched
<1>2. CASE FinishTx
  <2>1. \A t \in Tx, u \in Ufvk : Dispatched(t, u)' <=> Dispatched(t, u)
    BY <1>2, SameDispatched DEF FinishTx, bucketVars
  <2>2. /\ at \in Tx /\ cur \in Ufvk /\ seen \in [Ufvk -> SUBSET Tx]
        /\ pc = "notes"
        /\ paid <=> Dispatched(at, cur)
    BY <1>2 DEF FinishTx, IInv, TypeOK, TxTypeOK, RangeTypeOK, StateTypeOK,
                TxInv
  <2>3. seen' = IF paid THEN [seen EXCEPT ![cur] = @ \cup {at}] ELSE seen
    BY <1>2 DEF FinishTx
  <2>4. SeenMeansDispatched'
    <3> SUFFICES ASSUME NEW u \in Ufvk, NEW t \in seen'[u]
                 PROVE  Dispatched(t, u)'
      BY DEF SeenMeansDispatched
    <3>1. t \in Tx
      BY <2>2, <2>3
    <3>2. CASE t \in seen[u]
      BY <3>1, <3>2, <2>1 DEF IInv, ReplayInv, SeenMeansDispatched
    <3>3. CASE t \notin seen[u]
      <4>1. t = at /\ u = cur /\ paid
        BY <3>3, <2>2, <2>3
      <4> QED
        BY <4>1, <2>1, <2>2
    <3> QED
      BY <3>2, <3>3
  <2>5. ASSUME NEW u \in Ufvk, NEW t \in Tx, Dispatched(t, u)
        PROVE  t \in seen'[u]
    <3>1. CASE t \in seen[u]
      BY <3>1, <2>2, <2>3
    <3>2. CASE t \notin seen[u]
      <4>1. t = at /\ u = cur
        BY <3>2, <2>5 DEF IInv, ReplayInv
      <4>2. paid
        BY <4>1, <2>2, <2>5
      <4> QED
        BY <4>1, <4>2, <2>2, <2>3
    <3> QED
      BY <3>1, <3>2
  <2>6. DispatchedOncePerLife'
    BY <1>2 DEF FinishTx, bucketVars, DispatchedOncePerLife, IInv, ReplayInv
  <2> QED
    BY <2>1, <2>4, <2>5, <2>6 DEF ReplayInv
<1>3. ASSUME NEW o \in Offers, Put(o) PROVE ReplayInv'
  <2> DEFINE new == BlobFor(o, "whole")
  <2>1. /\ bucket' = bucket \cup {new}
        /\ UNCHANGED <<life, seen, at, cur>>
        /\ pc = "put" /\ pc' = "notes"
    BY <1>3 DEF Put, stateVars, rangeVars
  <2>2. new.tx = at /\ new.ufvk = cur
    BY DEF BlobFor
  <2>3. ~ Dispatched(at, cur)
    BY <2>1 DEF IInv, TxInv
  <2>4. \A t \in Tx, u \in Ufvk :
          Dispatched(t, u)' <=> Dispatched(t, u) \/ (t = at /\ u = cur)
    BY <1>3, PutDispatches
  <2> HIDE DEF new
  <2>5. DispatchedOncePerLife'
    BY <2>1, <2>2, <2>3 DEF DispatchedOncePerLife, Dispatched, IInv, ReplayInv
  <2>6. seen \in [Ufvk -> SUBSET Tx]
    BY DEF IInv, TypeOK, StateTypeOK
  <2>7. SeenMeansDispatched'
    BY <2>1, <2>4, <2>6 DEF SeenMeansDispatched, IInv, ReplayInv
  <2>8. \A u \in Ufvk, t \in Tx : Dispatched(t, u)' =>
           t \in seen'[u] \/ (pc' = "notes" /\ at' = t /\ cur' = u)
    BY <2>1, <2>4 DEF IInv, ReplayInv
  <2> QED
    BY <2>5, <2>7, <2>8 DEF ReplayInv
<1>4. ASSUME NEW o \in Offers, PutFails(o) PROVE ReplayInv'
  <2> DEFINE new == BlobFor(o, "torn")
  <2>1. /\ bucket' \subseteq bucket \cup {new}
        /\ UNCHANGED <<life, seen>>
        /\ pc = "put"
    BY <1>4 DEF PutFails, stateVars
  <2>2. new.form = "torn"
    BY DEF BlobFor
  <2>3. \A t \in Tx, u \in Ufvk : Dispatched(t, u)' <=> Dispatched(t, u)
    BY <1>4, TornDispatchesNothing
  <2> HIDE DEF new
  <2>4. DispatchedOncePerLife'
    BY <2>1, <2>2 DEF DispatchedOncePerLife, IInv, ReplayInv
  <2>5. seen \in [Ufvk -> SUBSET Tx]
    BY DEF IInv, TypeOK, StateTypeOK
  <2> QED
    BY <2>1, <2>3, <2>4, <2>5 DEF SeenMeansDispatched, IInv, ReplayInv
<1>5. ASSUME NEW o \in Offers, AcceptNote(o) PROVE ReplayInv'
  <2>1. /\ UNCHANGED <<bucket, life, seen>>
        /\ pc = "notes" /\ at \notin engineSeen
    BY <1>5 DEF AcceptNote, HasNote, bucketVars, stateVars
  <2>2. ~ Dispatched(at, cur)
    BY <2>1 DEF IInv, TxInv
  <2>3. \A t \in Tx, u \in Ufvk : Dispatched(t, u)' <=> Dispatched(t, u)
    BY <2>1, SameDispatched
  <2>4. DispatchedOncePerLife'
    BY <2>1 DEF DispatchedOncePerLife, IInv, ReplayInv
  <2>5. seen \in [Ufvk -> SUBSET Tx]
    BY DEF IInv, TypeOK, StateTypeOK
  <2> QED
    BY <2>1, <2>2, <2>3, <2>4, <2>5 DEF SeenMeansDispatched, IInv, ReplayInv
<1>6. CASE /\ UNCHANGED <<bucket, life, seen>>
           /\ pc = "notes" => UNCHANGED <<pc, at, cur>>
  <2>1. \A t \in Tx, u \in Ufvk : Dispatched(t, u)' <=> Dispatched(t, u)
    BY <1>6, SameDispatched
  <2>2. DispatchedOncePerLife'
    BY <1>6 DEF DispatchedOncePerLife, IInv, ReplayInv
  <2>3. seen \in [Ufvk -> SUBSET Tx]
    BY DEF IInv, TypeOK, StateTypeOK
  <2> QED
    BY <1>6, <2>1, <2>2, <2>3 DEF SeenMeansDispatched, IInv, ReplayInv
<1> QED
  BY <1>1, <1>2, <1>3, <1>4, <1>5, <1>6, QuietForReplay

-----------------------------------------------------------------------------
(* The transaction in hand.                                                *)

(* A step that leaves the loop outside any transaction.                    *)
LEMMA OutsideTx ==
  ASSUME IInv, [Next]_vars
  PROVE  \/ pc' \notin {"notes", "put"} /\ at' = None
         \/ \E S \in SUBSET Tx : Mine(S)
         \/ \E o \in Offers : Provision(o)
         \/ \E t \in Tx : FetchTx(t)
         \/ SkipNote
         \/ RefuseNote
         \/ \E o \in Offers : AcceptNote(o) \/ Put(o)
         \/ UNCHANGED vars
<1> USE DEF IInv, TxInv, InTx, txVars, Abort, DropTx
<1>1. CASE Progress
  BY <1>1 DEF Progress, BeginPass, OpenRange, EndPass, FetchRange, SkipSeen,
              DetectFails, FinishRange, FinishTx, IsNext
<1>2. CASE Trouble
  BY <1>2 DEF Trouble, CallFails, OpenRange, FetchRange, SkipEmpty, PutFails,
              Restart, IsNext
<1>3. CASE Environment
  BY <1>3 DEF Environment
<1> QED
  BY <1>1, <1>2, <1>3 DEF Next

LEMMA TxNext == IInv /\ [Next]_vars => TxInv'
<1> SUFFICES ASSUME IInv, [Next]_vars PROVE TxInv'
  OBVIOUS
<1> USE DEF InTx
<1>1. CASE pc' \notin {"notes", "put"} /\ at' = None
  BY <1>1 DEF TxInv
<1>2. ASSUME NEW S \in SUBSET Tx, Mine(S) PROVE TxInv'
  <2>1. InTx => mined'[at] = mined[at]
    BY <1>2 DEF Mine, IInv, TxInv, TypeOK, TxTypeOK, RangeTypeOK, ChainTypeOK
  <2>2. /\ UNCHANGED <<catalog, accepted, bucket, life, seen, pc, cur, start>>
        /\ UNCHANGED <<last, rest, engineSeen, at, k, paid, held>>
    BY <1>2 DEF Mine, catalogVars, bucketVars, stateVars, passVars, rangeVars,
                txVars
  <2>3. Dispatched(at, cur)' <=> Dispatched(at, cur)
    BY <2>2 DEF Dispatched
  <2> QED
    BY <2>1, <2>2, <2>3 DEF IInv, TxInv
<1>3. ASSUME NEW o \in Offers, Provision(o) PROVE TxInv'
  <2>1. /\ UNCHANGED <<mined, bucket, life, seen, pc, cur, start>>
        /\ UNCHANGED <<last, rest, engineSeen, at, k, paid, held>>
        /\ accepted \subseteq accepted'
    BY <1>3 DEF Provision, Insert, chainVars, bucketVars, stateVars, passVars,
                rangeVars, txVars
  <2>2. Dispatched(at, cur)' <=> Dispatched(at, cur)
    BY <2>1 DEF Dispatched
  <2> QED
    BY <2>1, <2>2 DEF IInv, TxInv
<1>4. ASSUME NEW t \in Tx, FetchTx(t) PROVE TxInv'
  <2>1. /\ UNCHANGED <<mined, bucket, life, seen, cur, start, last>>
        /\ pc = "scan" /\ pc' = "notes"
        /\ t \in rest /\ rest' = rest \ {t}
        /\ t \notin seen[cur]
        /\ at' = t /\ paid' = FALSE
    BY <1>4 DEF FetchTx, IsNext, chainVars, bucketVars, stateVars
  <2>2. cur \in Ufvk
    BY <2>1 DEF IInv, TypeOK, RangeTypeOK
  <2>3. ~ Dispatched(t, cur)
    BY <2>1, <2>2 DEF IInv, ReplayInv
  <2>4. ~ Dispatched(at, cur)'
    BY <2>1, <2>3 DEF Dispatched
  <2>5. mined[t] \in start .. last
    BY <2>1 DEF IInv, RangeInv
  <2> QED
    BY <2>1, <2>4, <2>5 DEF TxInv
<1>5. CASE SkipNote \/ RefuseNote
  <2>1. /\ UNCHANGED <<mined, bucket, life, seen, cur, start, last, rest>>
        /\ UNCHANGED <<at, paid, pc>>
        /\ pc = "notes"
        /\ engineSeen \subseteq engineSeen'
    BY <1>5 DEF SkipNote, RefuseNote, HasNote, chainVars, bucketVars,
                stateVars, rangeVars
  <2>2. Dispatched(at, cur)' <=> Dispatched(at, cur)
    BY <2>1 DEF Dispatched
  <2> QED
    BY <2>1, <2>2 DEF IInv, TxInv
<1>6. ASSUME NEW o \in Offers, AcceptNote(o) PROVE TxInv'
  <2>1. /\ UNCHANGED <<mined, bucket, life, seen, cur, start, last, rest>>
        /\ UNCHANGED <<at, k, accepted>>
        /\ pc = "notes" /\ pc' = "put"
        /\ engineSeen' = engineSeen \cup {at} /\ at \notin engineSeen
        /\ held' = {o}
        /\ o \in catalog /\ NotePays(at, cur, k, o)
    BY <1>6 DEF AcceptNote, Accepts, HasNote, chainVars, bucketVars,
                stateVars, catalogVars
  <2>2. ~ Dispatched(at, cur)'
    BY <2>1 DEF Dispatched, IInv, TxInv
  <2>3. o \in accepted'
    BY <2>1 DEF IInv, CatalogInv
  <2>4. NotePays(at, cur, k, o)'
    BY <2>1 DEF NotePays
  <2> QED
    BY <2>1, <2>2, <2>3, <2>4 DEF IInv, TxInv
<1>7. ASSUME NEW o \in Offers, Put(o) PROVE TxInv'
  <2>1. /\ UNCHANGED <<mined, seen, cur, start, last, rest, engineSeen, at>>
        /\ pc = "put" /\ pc' = "notes" /\ paid' = TRUE
    BY <1>7 DEF Put, chainVars, stateVars, rangeVars
  <2>2. at \in Tx /\ cur \in Ufvk
    BY <2>1 DEF IInv, TypeOK, TxTypeOK, RangeTypeOK
  <2>3. Dispatched(at, cur)'
    <3> DEFINE new == BlobFor(o, "whole")
    <3>1. new \in bucket' /\ life' = life
      BY <1>7 DEF Put
    <3>2. new.tx = at /\ new.ufvk = cur /\ new.life = life
          /\ new.form = "whole"
      BY DEF BlobFor
    <3> HIDE DEF new
    <3> QED
      BY <2>1, <3>1, <3>2 DEF Dispatched
  <2> QED
    BY <2>1, <2>3 DEF IInv, TxInv
<1>8. CASE UNCHANGED vars
  <2>1. /\ UNCHANGED <<accepted, mined, bucket, life, seen, pc, cur, start>>
        /\ UNCHANGED <<last, rest, engineSeen, at, k, paid, held>>
    BY <1>8 DEF vars, catalogVars, chainVars, bucketVars, stateVars, passVars,
                rangeVars, txVars
  <2>2. Dispatched(at, cur)' <=> Dispatched(at, cur)
    BY <2>1 DEF Dispatched
  <2> QED
    BY <2>1, <2>2 DEF IInv, TxInv
<1> QED
  BY <1>1, <1>2, <1>3, <1>4, <1>5, <1>6, <1>7, <1>8, OutsideTx

-----------------------------------------------------------------------------
(* The range in hand.                                                      *)

LEMMA RangeNext == IInv /\ [Next]_vars => RangeInv'
<1> SUFFICES ASSUME IInv, [Next]_vars PROVE RangeInv'
  OBVIOUS
<1> USE DEF RangeInv, InRange, InBlocks, InTx
<1>1. ASSUME NEW S \in SUBSET Tx, Mine(S) PROVE RangeInv'
  <2>1. \A t \in rest : mined'[t] = mined[t]
    BY <1>1 DEF Mine, IInv, TypeOK, RangeTypeOK, ChainTypeOK
  <2> QED
    BY <1>1, <2>1 DEF Mine, IInv, TypeOK, ChainTypeOK, RangeTypeOK, stateVars,
                      passVars, rangeVars
<1>2. ASSUME NEW o \in Offers, Provision(o) PROVE RangeInv'
  BY <1>2 DEF Provision, IInv, chainVars, stateVars, passVars, rangeVars
<1>3. CASE Abort
  BY <1>3 DEF Abort, DropRange
<1>4. ASSUME NEW u \in Ufvk, NEW h \in 1 .. tip, OpenRange(u, h)
      PROVE  RangeInv'
  <2>1. CASE FirstHeight(u, h) > h
    BY <1>4, <2>1 DEF OpenRange, IInv, chainVars, stateVars, rangeVars
  <2>2. CASE ~ (FirstHeight(u, h) > h)
    <3>1. /\ pc' = "range" /\ cur' = u /\ rest' = {} /\ engineSeen' = {}
          /\ start' = FirstHeight(u, h)
          /\ last' = LastHeight(start', h)
          /\ UNCHANGED <<tip, mined, cursor>>
      BY <1>4, <2>2 DEF OpenRange, chainVars, stateVars
    <3>2. start' \in Nat /\ tip \in Nat
      BY <3>1, BoundsAssumption
         DEF FirstHeight, IInv, TypeOK, StateTypeOK, ChainTypeOK
    <3>3. last' <= tip
      BY <3>1, <3>2, BoundsAssumption DEF LastHeight
    <3> QED
      BY <3>1, <3>3 DEF FirstHeight
  <2> QED
    BY <2>1, <2>2
<1>5. ASSUME NEW h \in Int, FetchRange(h) PROVE RangeInv'
  <2>1. h <= last
    BY <1>5 DEF FetchRange, IInv, TypeOK, RangeTypeOK
  <2>2. /\ pc = "range" /\ pc' = "scan" /\ last' = h
        /\ rest' = {t \in Tx : mined[t] \in start .. h}
        /\ UNCHANGED <<cur, start, engineSeen, tip, mined, cursor>>
    BY <1>5 DEF FetchRange, chainVars, stateVars
  <2>3. engineSeen = {}
    BY <2>2 DEF IInv
  <2> QED
    BY <2>1, <2>2, <2>3 DEF IInv, TypeOK, RangeTypeOK, ChainTypeOK
<1>6. ASSUME NEW t \in Tx, SkipSeen(t) \/ SkipEmpty(t) PROVE RangeInv'
  BY <1>6 DEF SkipSeen, SkipEmpty, IsNext, IInv, chainVars, stateVars
<1>7. ASSUME NEW t \in Tx, FetchTx(t) PROVE RangeInv'
  BY <1>7 DEF FetchTx, IsNext, IInv, chainVars, stateVars
<1>8. CASE FinishRange
  BY <1>8 DEF FinishRange, DropRange
<1>9. CASE RefuseNote \/ \E o \in Offers : AcceptNote(o)
  <2>1. /\ UNCHANGED <<tip, mined, cursor, cur, start, last, rest>>
        /\ pc = "notes" /\ pc' \in {"notes", "put"}
        /\ engineSeen' = engineSeen \cup {at}
    BY <1>9 DEF RefuseNote, AcceptNote, HasNote, chainVars, stateVars
  <2>2. at \notin rest
    BY <2>1 DEF IInv, TxInv
  <2> QED
    BY <2>1, <2>2 DEF IInv
<1>10. CASE /\ UNCHANGED <<tip, mined, cursor, cur, start, last, rest>>
            /\ UNCHANGED engineSeen
            /\ \/ UNCHANGED pc
               \/ pc \notin {"range", "scan", "notes", "put"}
                  /\ pc' \notin {"range", "scan", "notes", "put"}
               \/ pc \in {"scan", "notes", "put"} /\ pc' \in {"scan", "notes", "put"}
  BY <1>10 DEF IInv
<1>11. \/ \E S \in SUBSET Tx : Mine(S)
       \/ \E o \in Offers : Provision(o)
       \/ Abort
       \/ \E u \in Ufvk, h \in 1 .. tip : OpenRange(u, h)
       \/ \E h \in Int : FetchRange(h)
       \/ \E t \in Tx : SkipSeen(t) \/ SkipEmpty(t) \/ FetchTx(t)
       \/ FinishRange
       \/ RefuseNote \/ \E o \in Offers : AcceptNote(o)
       \/ BeginPass \/ EndPass \/ SkipNote \/ FinishTx
       \/ \E o \in Offers : Put(o)
       \/ UNCHANGED vars
  BY DEF Next, Progress, Trouble, Environment, CallFails, DetectFails,
         PutFails, Restart, IInv, TypeOK, ChainTypeOK, RangeTypeOK
<1>12. CASE \/ BeginPass \/ EndPass \/ SkipNote \/ FinishTx
            \/ \E o \in Offers : Put(o)
            \/ UNCHANGED vars
  BY <1>10, <1>12 DEF BeginPass, EndPass, SkipNote, HasNote, FinishTx, Put, vars,
     chainVars, stateVars, passVars, rangeVars
<1> QED
  BY <1>1, <1>2, <1>3, <1>4, <1>5, <1>6, <1>7, <1>8, <1>9, <1>11, <1>12

-----------------------------------------------------------------------------
(* What is owed.  No step makes a transaction mined before newly owed: a   *)
(* drop listed now is listed too late for it.                              *)

LEMMA NoteFields ==
  ASSUME NEW t \in Tx, NEW u \in Ufvk, NEW i \in NoteIdx(t, u)
  PROVE  Notes[t][u][i].drop \in Drop /\ i \in Nat \ {0}
<1>1. Notes[t][u] \in Seq(Note)
  BY NotesAssumption
<1>2. i \in 1 .. Len(Notes[t][u])
  BY <1>1 DEF NoteIdx
<1>3. Notes[t][u][i] \in Note
  BY <1>1, <1>2
<1> QED
  BY <1>2, <1>3 DEF Note

(* Only Mine, Provision and Restart touch the chain and the listings.      *)
LEMMA MarketSteps ==
  ASSUME [Next]_vars
  PROVE  \/ \E S \in SUBSET Tx : Mine(S)
         \/ \E o \in Offers : Provision(o)
         \/ Restart
         \/ UNCHANGED <<catalog, accepted, tip, mined, listedAt>>
  BY DEF Next, Progress, Trouble, Environment, vars, catalogVars, chainVars,
         histVars, BeginPass, OpenRange, EndPass, CallFails, FetchRange,
         SkipSeen, SkipEmpty, DetectFails, FetchTx, FinishRange, SkipNote,
         RefuseNote, AcceptNote, FinishTx, Put, PutFails

LEMMA MinedOnce ==
  ASSUME IInv, [Next]_vars, NEW t \in Tx
  PROVE  /\ mined[t] # 0 => mined'[t] = mined[t]
         /\ mined[t] = 0 => mined'[t] = 0 \/ mined'[t] = tip + 1
<1>1. ASSUME NEW S \in SUBSET Tx, Mine(S)
      PROVE  mined'[t] = IF t \in S THEN tip + 1 ELSE mined[t]
  BY <1>1 DEF Mine
<1>2. ASSUME NEW S \in SUBSET Tx, Mine(S)
      PROVE  t \in S => mined[t] = 0
  BY <1>2 DEF Mine
<1> QED
  BY <1>1, <1>2, MarketSteps DEF Provision, Restart, chainVars

LEMMA PaidShrinks ==
  ASSUME IInv, [Next]_vars, ~ Restart,
         NEW t \in Tx, NEW u \in Ufvk, NEW i \in NoteIdx(t, u),
         mined[t] # 0, PaidInFull(t, u, i)'
  PROVE  PaidInFull(t, u, i)
<1> DEFINE d == Notes[t][u][i].drop
<1>1. d \in Drop
  BY NoteFields
<1>2. mined'[t] = mined[t]
  BY MinedOnce
<1>3. ASSUME NEW S \in SUBSET Tx, Mine(S) PROVE PaidInFull(t, u, i)
  BY <1>2, <1>3 DEF Mine, PaidInFull, Listed, catalogVars, histVars
<1>4. ASSUME NEW o \in Offers, Provision(o) PROVE PaidInFull(t, u, i)
  <2>1. listedAt' = [listedAt EXCEPT ![o.drop] =
                       IF Listed(o.drop) THEN @ ELSE tip]
    BY <1>4 DEF Provision
  <2>2. listedAt'[d] < mined[t] /\ mined[t] <= tip
    BY <1>2 DEF PaidInFull, IInv, TypeOK, ChainTypeOK
  <2>3. Listed(d)' /\ catalog' = {c \in catalog : c.drop # o.drop} \cup {o}
    BY <1>4 DEF PaidInFull, Provision, Insert
  <2>4. tip \in Nat /\ listedAt \in [Drop -> Nat] /\ o.drop \in Drop
        /\ mined[t] \in Nat
    BY OfferFields DEF IInv, TypeOK, ChainTypeOK, HistTypeOK
  <2>5. Listed(d)
    BY <1>1, <2>1, <2>2, <2>3, <2>4 DEF Listed
  <2>6. listedAt[d] < mined[t]
    BY <1>1, <2>1, <2>2, <2>4, <2>5
  <2>7. accepted \subseteq accepted'
    BY <1>4 DEF Provision, Insert
  <2> QED
    BY <2>5, <2>6, <2>7 DEF PaidInFull
<1>5. CASE UNCHANGED <<catalog, accepted, tip, mined, listedAt>>
  BY <1>5 DEF PaidInFull, Listed
<1> QED
  BY <1>3, <1>4, <1>5, MarketSteps

LEMMA BlankGrows ==
  ASSUME IInv, [Next]_vars, ~ Restart, NEW u \in Ufvk
  PROVE  blank[u] \subseteq blank'[u]
<1>1. ASSUME NEW t \in Tx, SkipEmpty(t) PROVE blank[u] \subseteq blank'[u]
  BY <1>1 DEF SkipEmpty, IInv, TypeOK, HistTypeOK
<1> QED
  BY <1>1 DEF Next, Progress, Trouble, Environment, vars, Mine, Provision,
         histVars, BeginPass, OpenRange, EndPass, CallFails, FetchRange,
         SkipSeen, DetectFails, FetchTx, FinishRange, SkipNote,
         RefuseNote, AcceptNote, FinishTx, Put, PutFails

LEMMA OwedShrinks ==
  ASSUME IInv, [Next]_vars, ~ Restart,
         NEW t \in Tx, NEW u \in Ufvk, mined[t] # 0, Owed(t, u)'
  PROVE  Owed(t, u)
<1>1. PICK i \in NoteIdx(t, u) : FirstPayment(t, u, i) /\ PaidInFull(t, u, i)'
  BY DEF Owed
<1>2. PaidInFull(t, u, i)
  BY <1>1, PaidShrinks
<1>3. t \notin blank[u]
  BY BlankGrows DEF Owed
<1> QED
  BY <1>1, <1>2, <1>3 DEF Owed

(* While the process lives, what is dispatched stays dispatched.           *)
LEMMA DispatchedStays ==
  ASSUME [Next]_vars, ~ Restart, NEW t \in Tx, NEW u \in Ufvk,
         Dispatched(t, u)
  PROVE  Dispatched(t, u)'
<1>1. life' = life /\ bucket \subseteq bucket'
  <2>1. CASE \E o \in Offers : Put(o) \/ PutFails(o)
    BY <2>1 DEF Put, PutFails
  <2> QED
    BY <2>1, StepKinds DEF Mine, Provision, bucketVars
<1> QED
  BY <1>1 DEF Dispatched

-----------------------------------------------------------------------------
(* The cursors.                                                            *)

LEMMA CursorSteps ==
  ASSUME [Next]_vars
  PROVE  Restart \/ FinishRange \/ UNCHANGED <<cursor, covered>>
  BY DEF Next, Progress, Trouble, Environment, vars, Mine, Provision,
         stateVars, histVars, BeginPass, OpenRange, EndPass, CallFails,
         FetchRange, SkipSeen, SkipEmpty, DetectFails, FetchTx, SkipNote,
         RefuseNote, AcceptNote, FinishTx, Put, PutFails

LEMMA TipGrows ==
  ASSUME IInv, [Next]_vars
  PROVE  tip <= tip' /\ tip' \in Nat
  BY MarketSteps DEF IInv, TypeOK, ChainTypeOK, Mine, Provision, Restart,
                     chainVars

(* A completed range: what it adds to the cursor's past was dispatched.    *)
LEMMA FinishRangeCovers ==
  ASSUME IInv, FinishRange
  PROVE  /\ \A u \in Ufvk : /\ cursor'[u] <= tip
                            /\ covered'[u] = 0 <=> cursor'[u] = 0
         /\ \A u \in Ufvk, t \in Tx :
              Owed(t, u) /\ Passed(t, u)' => Dispatched(t, u)
<1>1. /\ cur \in Ufvk /\ start \in Nat /\ start > 0 /\ last \in Nat
      /\ tip \in Nat /\ last <= tip
      /\ cursor \in [Ufvk -> Nat] /\ covered \in [Ufvk -> Nat]
      /\ mined \in [Tx -> Nat]
      /\ rest = {} /\ at = None
      /\ cursor[cur] # 0 => start = cursor[cur] + 1
      /\ UNCHANGED mined
  BY DEF FinishRange, IInv, TypeOK, RangeTypeOK, StateTypeOK, HistTypeOK,
         ChainTypeOK, RangeInv, InRange, TxInv, InTx, chainVars
<1>2. \A u \in Ufvk : cursor[u] <= tip /\ (covered[u] = 0 <=> cursor[u] = 0)
  BY DEF IInv, CoverInv
<1>3. CASE last >= start
  <2>1. /\ cursor' = [cursor EXCEPT ![cur] = last]
        /\ covered' = [covered EXCEPT ![cur] = IF @ = 0 THEN start ELSE @]
    BY <1>3 DEF FinishRange
  <2>2. ASSUME NEW u \in Ufvk
        PROVE  cursor'[u] <= tip /\ (covered'[u] = 0 <=> cursor'[u] = 0)
    BY <1>1, <1>2, <1>3, <2>1
  <2>3. ASSUME NEW u \in Ufvk, NEW t \in Tx, Owed(t, u), Passed(t, u)'
        PROVE  Dispatched(t, u)
    <3>1. covered'[u] # 0 /\ covered'[u] <= mined[t] /\ mined[t] <= cursor'[u]
      BY <1>1, <2>3 DEF Passed
    <3>2. CASE Passed(t, u)
      BY <2>3, <3>2 DEF IInv, CoverInv, NothingOwedIsPassed
    <3>3. CASE ~ Passed(t, u)
      <4>1. u = cur
        BY <1>1, <2>1, <3>1, <3>3 DEF Passed
      <4>2. mined[t] <= last
        BY <1>1, <2>1, <3>1, <4>1
      <4>3. mined[t] >= start
        <5>1. CASE covered[cur] = 0
          BY <1>1, <2>1, <3>1, <4>1, <5>1
        <5>2. CASE covered[cur] # 0
          <6>1. covered[cur] <= mined[t]
            BY <1>1, <2>1, <3>1, <4>1, <5>2
          <6>2. cursor[cur] # 0 /\ start = cursor[cur] + 1
            BY <1>1, <1>2, <5>2
          <6> QED
            BY <1>1, <3>3, <4>1, <5>2, <6>1, <6>2 DEF Passed
        <5> QED
          BY <5>1, <5>2
      <4>4. pc = "scan" /\ t # at /\ mined[t] \in start .. last
        BY <1>1, <4>2, <4>3, NoneAssumption DEF FinishRange
      <4> QED
        BY <1>1, <2>3, <4>1, <4>4 DEF IInv, CoverInv, InBlocks
    <3> QED
      BY <3>2, <3>3
  <2> QED
    BY <2>2, <2>3
<1>4. CASE ~ (last >= start)
  BY <1>1, <1>2, <1>4
     DEF FinishRange, IInv, CoverInv, NothingOwedIsPassed, Passed
<1> QED
  BY <1>3, <1>4

LEMMA PassedNext ==
  ASSUME IInv, [Next]_vars
  PROVE  /\ \A u \in Ufvk : /\ cursor'[u] <= tip'
                            /\ covered'[u] = 0 <=> cursor'[u] = 0
         /\ NothingOwedIsPassed'
<1>1. CASE Restart
  <2>1. /\ \A u \in Ufvk : cursor'[u] = 0 /\ covered'[u] = 0
        /\ tip' = tip /\ tip \in Nat
    BY <1>1 DEF Restart, chainVars, IInv, TypeOK, ChainTypeOK
  <2> QED
    BY <2>1 DEF NothingOwedIsPassed, Passed
<1>2. CASE ~ Restart
  <2>1. \A u \in Ufvk : /\ cursor'[u] <= tip
                        /\ covered'[u] = 0 <=> cursor'[u] = 0
    BY <1>2, CursorSteps, FinishRangeCovers DEF IInv, CoverInv
  <2>2. tip \in Nat /\ tip <= tip' /\ tip' \in Nat
    BY TipGrows DEF IInv, TypeOK, ChainTypeOK
  <2>3. TypeOK'
    BY TypeNext DEF IInv
  <2>4. cursor' \in [Ufvk -> Nat] /\ covered' \in [Ufvk -> Nat]
    BY <2>3 DEF TypeOK, StateTypeOK, HistTypeOK
  <2>5. ASSUME NEW u \in Ufvk, NEW t \in Tx, Owed(t, u)', Passed(t, u)'
        PROVE  Dispatched(t, u)'
    <3>1. mined[t] # 0
      <4>1. mined'[t] # 0
        BY <2>5 DEF Owed, PaidInFull
      <4>2. mined'[t] <= tip
        BY <2>1, <2>2, <2>3, <2>4, <2>5 DEF Passed, TypeOK, ChainTypeOK
      <4> QED
        BY <2>2, <4>1, <4>2, MinedOnce
    <3>2. Owed(t, u)
      BY <1>2, <2>5, <3>1, OwedShrinks
    <3>3. mined'[t] = mined[t]
      BY <3>1, MinedOnce
    <3>4. Dispatched(t, u)
      <4>1. CASE FinishRange
        BY <2>5, <3>2, <4>1, FinishRangeCovers
      <4>2. CASE UNCHANGED <<cursor, covered>>
        BY <2>5, <3>2, <3>3, <4>2
           DEF Passed, IInv, CoverInv, NothingOwedIsPassed
      <4> QED
        BY <1>2, <4>1, <4>2, CursorSteps
    <3> QED
      BY <1>2, <3>4, DispatchedStays
  <2>6. \A u \in Ufvk : cursor'[u] <= tip'
    BY <2>1, <2>2, <2>4
  <2> QED
    BY <2>1, <2>5, <2>6 DEF NothingOwedIsPassed
<1> QED
  BY <1>1, <1>2

-----------------------------------------------------------------------------
(* The part of the range in hand that is behind the loop.                  *)

LEMMA BlockSteps ==
  ASSUME IInv, [Next]_vars, pc' \in {"scan", "notes", "put"}
  PROVE  /\ ~ Restart
         /\ \/ \E h \in Int : FetchRange(h)
            \/ \E t \in Tx : SkipSeen(t) \/ SkipEmpty(t) \/ FetchTx(t)
            \/ FinishTx
            \/ /\ pc \in {"scan", "notes", "put"}
               /\ UNCHANGED <<start, last, rest, at, cur>>
<1> USE DEF Abort
<1>1. ~ Restart
  BY DEF Restart
<1>2. CASE Progress
  <2>1. last \in Int
    BY DEF IInv, TypeOK, RangeTypeOK
  <2>2. ASSUME NEW u \in Ufvk, NEW h, OpenRange(u, h) PROVE FALSE
    BY <2>2 DEF OpenRange
  <2>3. CASE SkipNote \/ RefuseNote \/ \E o \in Offers : AcceptNote(o) \/ Put(o)
    BY <1>1, <2>3 DEF SkipNote, HasNote, RefuseNote, AcceptNote, Put, rangeVars
  <2>4. ~ BeginPass /\ ~ EndPass /\ ~ FinishRange
        /\ \A t \in Tx : ~ DetectFails(t)
    BY DEF BeginPass, EndPass, FinishRange, DetectFails
  <2> QED
    BY <1>1, <1>2, <2>1, <2>2, <2>3, <2>4 DEF Progress
<1>3. CASE Trouble
  <2>1. start \in Int /\ last \in Int
    BY DEF IInv, TypeOK, RangeTypeOK
  <2>2. ASSUME NEW u \in Ufvk, NEW h, OpenRange(u, h) PROVE FALSE
    BY <2>2 DEF OpenRange
  <2>3. ~ CallFails /\ \A o \in Offers : ~ PutFails(o)
    BY DEF CallFails, PutFails
  <2> QED
    BY <1>1, <1>3, <2>1, <2>2, <2>3 DEF Trouble
<1>4. CASE Environment \/ UNCHANGED vars
  BY <1>1, <1>4 DEF Environment, Mine, Provision, vars, passVars, rangeVars, txVars
<1> QED
  BY <1>1, <1>2, <1>3, <1>4 DEF Next

LEMMA BehindNext ==
  ASSUME IInv, [Next]_vars, pc' \in {"scan", "notes", "put"},
         NEW t \in Tx, mined'[t] \in start' .. last', t \notin rest',
         t # at', Owed(t, cur)'
  PROVE  Dispatched(t, cur)'
<1>1. ~ Restart
  BY BlockSteps
<1>2. TypeOK'
  BY TypeNext DEF IInv
<1>3. cur' \in Ufvk /\ start' \in Nat /\ last' \in Nat /\ start' > 0
      /\ tip \in Nat /\ mined \in [Tx -> Nat] /\ mined'[t] \in Nat
  BY <1>2 DEF IInv, TypeOK, RangeTypeOK, ChainTypeOK
<1>4. cur' = cur /\ last' <= tip
  <2>1. ASSUME NEW h \in Int, FetchRange(h) PROVE cur' = cur /\ last' <= tip
    BY <2>1, <1>3 DEF FetchRange, IInv, RangeInv, InRange, TypeOK, RangeTypeOK
  <2>2. CASE pc \in {"scan", "notes", "put"} /\ UNCHANGED <<last, cur>>
    BY <2>2 DEF IInv, RangeInv, InRange
  <2> QED
    BY <2>1, <2>2, BlockSteps DEF SkipSeen, SkipEmpty, FetchTx, IsNext,
       FinishTx, rangeVars
<1>5. mined[t] # 0 /\ mined'[t] = mined[t]
  BY <1>3, <1>4, MinedOnce
<1>6. cur \in Ufvk
  BY <1>3, <1>4
<1>7. Owed(t, cur)
  <2>1. PICK u \in Ufvk : u = cur /\ u = cur'
    BY <1>4, <1>6
  <2>2. Owed(t, u)'
    BY <2>1 DEF Owed, PaidInFull
  <2> QED
    BY <1>1, <1>5, <2>1, <2>2, OwedShrinks
<1>8. Dispatched(t, cur)
  <2>1. ASSUME NEW h \in Int, FetchRange(h) PROVE FALSE
    BY <2>1, <1>5 DEF FetchRange
  <2>2. ASSUME NEW s \in Tx, SkipSeen(s) PROVE Dispatched(t, cur)
    <3>1. CASE t = s
      BY <2>2, <3>1, <1>6 DEF SkipSeen, IInv, ReplayInv, SeenMeansDispatched
    <3>2. CASE t # s
      BY <2>2, <3>2, <1>5, <1>7 DEF SkipSeen, IsNext, txVars, IInv, CoverInv,
         InBlocks
    <3> QED
      BY <3>1, <3>2
  <2>3. ASSUME NEW s \in Tx, SkipEmpty(s) PROVE Dispatched(t, cur)
    <3>1. t # s
      BY <2>3, <1>4, <1>6 DEF SkipEmpty, Owed, IInv, TypeOK, HistTypeOK
    <3> QED
      BY <2>3, <3>1, <1>5, <1>7 DEF SkipEmpty, IsNext, txVars, IInv, CoverInv,
         InBlocks
  <2>4. ASSUME NEW s \in Tx, FetchTx(s) PROVE Dispatched(t, cur)
    <3>1. /\ t # s /\ pc = "scan" /\ rest' = rest \ {s}
          /\ UNCHANGED <<start, last>>
      BY <2>4 DEF FetchTx, IsNext
    <3>2. t # at
      BY <3>1, NoneAssumption DEF IInv, TxInv, InTx
    <3> QED
      BY <3>1, <3>2, <1>5, <1>7 DEF IInv, CoverInv, InBlocks
  <2>5. CASE FinishTx
    <3>1. /\ pc = "notes" /\ k \notin NoteIdx(at, cur)
          /\ UNCHANGED <<start, last, rest>>
      BY <2>5 DEF FinishTx, rangeVars
    <3>2. CASE t # at
      BY <3>1, <3>2, <1>5, <1>7 DEF IInv, CoverInv, InBlocks
    <3>3. CASE t = at
      <4>1. PICK i \in NoteIdx(at, cur) :
              FirstPayment(at, cur, i) /\ PaidInFull(at, cur, i)
        BY <3>3, <1>7 DEF Owed
      <4>2. Notes[at][cur] \in Seq(Note)
        BY <3>3, <1>6, NotesAssumption
      <4>3. i < k
        BY <3>1, <4>1, <4>2 DEF NoteIdx, IInv, TypeOK, TxTypeOK
      <4> QED
        BY <3>1, <3>3, <4>1, <4>3 DEF IInv, JudgeInv
    <3> QED
      BY <3>2, <3>3
  <2>6. CASE /\ pc \in {"scan", "notes", "put"}
             /\ UNCHANGED <<start, last, rest, at, cur>>
    BY <2>6, <1>5, <1>7 DEF IInv, CoverInv, InBlocks
  <2> QED
    BY <2>1, <2>2, <2>3, <2>4, <2>5, <2>6, BlockSteps
<1>9. Dispatched(t, cur)'
  <2>1. bucket \subseteq bucket' /\ life' = life
    <3>1. CASE \E o \in Offers : Put(o) \/ PutFails(o)
      BY <3>1 DEF Put, PutFails
    <3> QED
      BY <1>1, <3>1, StepKinds DEF Mine, Provision, bucketVars
  <2> QED
    BY <1>4, <1>8, <2>1 DEF Dispatched
<1> QED
  BY <1>9

LEMMA CoverNext == IInv /\ [Next]_vars => CoverInv'
<1> SUFFICES ASSUME IInv, [Next]_vars PROVE CoverInv'
  OBVIOUS
<1>1. /\ \A u \in Ufvk : cursor'[u] <= tip' /\ (covered'[u] = 0 <=> cursor'[u] = 0)
      /\ NothingOwedIsPassed'
  BY PassedNext
<1>2. InBlocks' => \A t \in Tx :
        mined'[t] \in start' .. last' /\ t \notin rest' /\ t # at'
          /\ Owed(t, cur)' => Dispatched(t, cur)'
  BY BehindNext DEF InBlocks
<1> QED
  BY <1>1, <1>2 DEF CoverInv

-----------------------------------------------------------------------------
(* The first payment of the transaction in hand.                           *)

LEMMA JudgeNext == IInv /\ [Next]_vars => JudgeInv'
<1> SUFFICES ASSUME IInv, [Next]_vars PROVE JudgeInv'
  OBVIOUS
<1>1. CASE pc' \notin {"notes", "put"}
  BY <1>1 DEF JudgeInv
<1>2. ASSUME NEW t \in Tx, FetchTx(t) PROVE JudgeInv'
  <2>1. /\ t \in rest /\ at' = t /\ k' = 1 /\ pc' = "notes"
        /\ UNCHANGED <<cur, engineSeen>> /\ pc = "scan"
    BY <1>2 DEF FetchTx, IsNext
  <2>2. t \notin engineSeen
    BY <2>1 DEF IInv, RangeInv
  <2>3. cur \in Ufvk
    BY <2>1 DEF IInv, TypeOK, RangeTypeOK
  <2>4. \A i \in NoteIdx(at, cur)' : i >= k' /\ ~ (i < k')
    BY <2>1, <2>3, NoteFields DEF NoteIdx
  <2> QED
    BY <2>1, <2>2, <2>4 DEF JudgeInv
<1>3. CASE InTx /\ pc' \in {"notes", "put"} /\ UNCHANGED <<at, cur>> /\ ~ Restart
  <2>1. /\ at \in Tx /\ cur \in Ufvk /\ k \in Nat /\ mined[at] # 0
    BY <1>3 DEF IInv, TypeOK, TxTypeOK, RangeTypeOK, ChainTypeOK, InTx, TxInv
  <2>2. NoteIdx(at, cur)' = NoteIdx(at, cur)
        /\ \A i \in NoteIdx(at, cur) : i \in Nat
    BY <1>3, <2>1, NoteFields DEF NoteIdx
  <2>3. ASSUME NEW i \in NoteIdx(at, cur), PaidInFull(at, cur, i)'
        PROVE  PaidInFull(at, cur, i)
    BY <1>3, <2>1, <2>3, PaidShrinks DEF PaidInFull
  <2>4. Dispatched(at, cur) => Dispatched(at, cur)'
    <3>1. bucket \subseteq bucket' /\ life' = life
      <4>1. CASE \E o \in Offers : Put(o) \/ PutFails(o)
        BY <4>1 DEF Put, PutFails
      <4> QED
        BY <1>3, <4>1, StepKinds DEF Mine, Provision, bucketVars
    <3> QED
      BY <1>3, <3>1 DEF Dispatched
  <2>5. CASE UNCHANGED <<pc, engineSeen, k>>
    BY <1>3, <2>2, <2>3, <2>4, <2>5 DEF IInv, JudgeInv, FirstPayment
  <2>6. CASE SkipNote
    <3>1. /\ pc = "notes" /\ pc' = "notes" /\ k' = k + 1
          /\ UNCHANGED engineSeen
          /\ Notes[at][cur][k].memo # "payment" \/ at \in engineSeen
      BY <2>6 DEF SkipNote, HasNote, ThisNote, rangeVars
    <3>2. SUFFICES ASSUME NEW i \in NoteIdx(at, cur)
          PROVE  /\ at \notin engineSeen /\ i < k + 1 =>
                      Notes[at][cur][i].memo # "payment"
                 /\ FirstPayment(at, cur, i) =>
                      /\ i >= k + 1 => at \notin engineSeen
                      /\ i < k + 1 /\ PaidInFull(at, cur, i) =>
                           Dispatched(at, cur)
      BY <1>3, <2>2, <2>3, <2>4, <3>1 DEF JudgeInv, FirstPayment
    <3>3. i \in Nat
      BY <2>2
    <3>4. CASE i = k
      BY <2>1, <3>1, <3>4 DEF IInv, JudgeInv, FirstPayment
    <3>5. CASE i # k
      BY <2>1, <3>1, <3>3, <3>5 DEF IInv, JudgeInv
    <3> QED
      BY <3>4, <3>5
  <2>7. CASE RefuseNote
    <3>1. /\ pc = "notes" /\ pc' = "notes" /\ k' = k + 1
          /\ engineSeen' = engineSeen \cup {at}
          /\ Notes[at][cur][k].memo = "payment"
          /\ k \in NoteIdx(at, cur)
          /\ ~ \E o \in catalog : NotePays(at, cur, k, o)
      BY <2>7 DEF RefuseNote, HasNote, ThisNote, Accepts
    <3>2. SUFFICES ASSUME NEW i \in NoteIdx(at, cur), FirstPayment(at, cur, i)
          PROVE  /\ ~ (i >= k + 1)
                 /\ i < k + 1 /\ PaidInFull(at, cur, i) => Dispatched(at, cur)
      BY <1>3, <2>2, <2>3, <2>4, <3>1 DEF JudgeInv, FirstPayment
    <3>3. i \in Nat
      BY <2>2
    <3>4. ~ (i >= k + 1)
      BY <2>1, <3>1, <3>2, <3>3 DEF FirstPayment
    <3>5. ~ PaidInFull(at, cur, k)
      BY <3>1 DEF PaidInFull, Listed, IInv, CatalogInv
    <3>6. i < k /\ PaidInFull(at, cur, i) => Dispatched(at, cur)
      BY <3>1, <3>2 DEF IInv, JudgeInv
    <3> QED
      BY <2>1, <3>3, <3>4, <3>5, <3>6
  <2>8. ASSUME NEW o \in Offers, AcceptNote(o) PROVE JudgeInv'
    <3>1. /\ pc = "notes" /\ pc' = "put" /\ at \notin engineSeen
          /\ k' = k /\ k \in NoteIdx(at, cur)
          /\ Notes[at][cur][k].memo = "payment"
      BY <2>8 DEF AcceptNote, HasNote, Accepts, NotePays
    <3>2. FirstPayment(at, cur, k)
      BY <3>1 DEF IInv, JudgeInv, FirstPayment
    <3> QED
      BY <1>3, <2>2, <3>1, <3>2 DEF JudgeInv, FirstPayment
  <2>9. ASSUME NEW o \in Offers, Put(o) PROVE JudgeInv'
    <3>1. /\ pc = "put" /\ pc' = "notes" /\ k' = k + 1
          /\ UNCHANGED engineSeen
      BY <2>9 DEF Put, rangeVars
    <3>2. FirstPayment(at, cur, k) /\ at \in engineSeen
      BY <3>1 DEF IInv, JudgeInv, TxInv
    <3>3. Dispatched(at, cur)'
      <4> DEFINE new == BlobFor(o, "whole")
      <4>1. new \in bucket' /\ life' = life
        BY <2>9 DEF Put
      <4>2. new.tx = at /\ new.ufvk = cur /\ new.life = life
            /\ new.form = "whole"
        BY DEF BlobFor
      <4> HIDE DEF new
      <4> QED
        BY <1>3, <4>1, <4>2 DEF Dispatched
    <3>4. \A i \in NoteIdx(at, cur) :
             FirstPayment(at, cur, i) => ~ (i >= k + 1)
      BY <2>1, <2>2, <3>2 DEF FirstPayment
    <3> QED
      BY <1>3, <2>2, <3>1, <3>2, <3>3, <3>4 DEF JudgeInv, FirstPayment
  <2>10. \/ UNCHANGED <<pc, engineSeen, k>>
         \/ SkipNote \/ RefuseNote
         \/ \E o \in Offers : AcceptNote(o) \/ Put(o)
    <3> USE <1>3 DEF InTx, Abort
    <3>1. CASE Progress
      BY <3>1 DEF Progress, BeginPass, OpenRange, EndPass, FetchRange,
         SkipSeen, IsNext, FetchTx, DetectFails, FinishRange, FinishTx
    <3>2. CASE Trouble
      BY <3>2 DEF Trouble, CallFails, OpenRange, FetchRange, SkipEmpty,
         IsNext, PutFails
    <3>3. CASE Environment \/ UNCHANGED vars
      BY <3>3 DEF Environment, Mine, Provision, vars, passVars, rangeVars,
         txVars
    <3> QED
      BY <3>1, <3>2, <3>3 DEF Next
  <2> QED
    BY <2>5, <2>6, <2>7, <2>8, <2>9, <2>10
<1>4. \/ pc' \notin {"notes", "put"}
      \/ \E t \in Tx : FetchTx(t)
      \/ InTx /\ UNCHANGED <<at, cur>> /\ ~ Restart
  <2> USE DEF InTx, Abort
  <2>1. CASE Progress
    BY <2>1 DEF Progress, BeginPass, OpenRange, EndPass, FetchRange, Restart,
       SkipSeen, IsNext, DetectFails, FinishRange, FinishTx, SkipNote,
       RefuseNote, AcceptNote, Put, HasNote, rangeVars
  <2>2. CASE Trouble
    BY <2>2 DEF Trouble, CallFails, OpenRange, FetchRange, SkipEmpty,
       IsNext, PutFails, Restart
  <2>3. CASE Environment \/ UNCHANGED vars
    BY <2>3 DEF Environment, Mine, Provision, vars, passVars, rangeVars,
       txVars, Restart
  <2> QED
    BY <2>1, <2>2, <2>3 DEF Next
<1> QED
  BY <1>1, <1>2, <1>3, <1>4

-----------------------------------------------------------------------------
(* The inductive invariant, and what follows from it.                      *)

LEMMA InvInit == Init => IInv
<1> SUFFICES ASSUME Init PROVE IInv
  OBVIOUS
<1>1. TypeOK
  BY TypeInit
<1>2. CatalogInv
  BY DEF Init, CatalogInit, CatalogInv, DropKeepsOwner
<1>3. BucketInv
  BY DEF Init, BucketInv, DispatchIsPaid
<1>4. ReplayInv
  BY DEF Init, ReplayInv, SeenMeansDispatched, Dispatched,
         DispatchedOncePerLife
<1>5. TxInv
  BY DEF Init, TxInv, InTx
<1>6. RangeInv
  BY DEF Init, RangeInv, InRange, InBlocks
<1>7. CoverInv
  BY DEF Init, CoverInv, NothingOwedIsPassed, Passed, InBlocks
<1>8. JudgeInv
  BY DEF Init, JudgeInv
<1> QED
  BY <1>1, <1>2, <1>3, <1>4, <1>5, <1>6, <1>7, <1>8 DEF IInv

LEMMA InvNext == IInv /\ [Next]_vars => IInv'
<1> SUFFICES ASSUME IInv, [Next]_vars PROVE IInv'
  OBVIOUS
<1>1. TypeOK'
  BY TypeNext DEF IInv
<1> QED
  BY <1>1, CatalogNext, BucketNext, ReplayNext, TxNext, RangeNext, CoverNext,
     JudgeNext DEF IInv

(***************************************************************************)
(* The inductive invariant IInv holds in every state of the scanner.       *)
(***************************************************************************)
THEOREM Inductive == Spec => []IInv
  BY InvInit, InvNext, PTL DEF Spec

(***************************************************************************)
(* No sequence of provisions moves a drop to another creator.              *)
(***************************************************************************)
THEOREM OwnersKept == Spec => []DropKeepsOwner
<1>1. IInv => DropKeepsOwner
  BY DEF IInv, CatalogInv
<1> QED
  BY <1>1, Inductive, PTL

(***************************************************************************)
(* Every key in the bucket has a mined payment that buys it, whatever      *)
(* provisions, errors and new blocks came between detection and write.     *)
(***************************************************************************)
THEOREM KeysArePaidFor == Spec => []DispatchIsPaid
<1>1. IInv => DispatchIsPaid
  BY DEF IInv, BucketInv
<1> QED
  BY <1>1, Inductive, PTL

(***************************************************************************)
(* No retry of a failed pass dispatches a transaction twice to a creator.  *)
(***************************************************************************)
THEOREM NoDoubleDispatch == Spec => []DispatchedOncePerLife
<1>1. IInv => DispatchedOncePerLife
  BY DEF IInv, ReplayInv
<1> QED
  BY <1>1, Inductive, PTL

(***************************************************************************)
(* The txids marked seen are dispatched ones.                              *)
(***************************************************************************)
THEOREM SeenIsDispatched == Spec => []SeenMeansDispatched
<1>1. IInv => SeenMeansDispatched
  BY DEF IInv, ReplayInv
<1> QED
  BY <1>1, Inductive, PTL

(***************************************************************************)
(* No cursor passes a block with an owed payment that is not dispatched.   *)
(***************************************************************************)
THEOREM NoPaymentLost == Spec => []NothingOwedIsPassed
<1>1. IInv => NothingOwedIsPassed
  BY DEF IInv, CoverInv
<1> QED
  BY <1>1, Inductive, PTL

(***************************************************************************)
(* When no transaction pays a creator with two notes, every note that pays *)
(* in full is answered once its block is passed: the replay guard, marked  *)
(* before the note is judged (engine.rs:82), is the only thing that breaks *)
(* what its comment says.                                                  *)
(***************************************************************************)
THEOREM SingleNotesAreDispatched ==
  ASSUME \A t \in Tx, u \in Ufvk : \A i, j \in NoteIdx(t, u) :
           Notes[t][u][i].memo = "payment" /\ Notes[t][u][j].memo = "payment" => i = j
  PROVE  Spec => []EveryPaidNoteDispatched
<1>1. IInv => EveryPaidNoteDispatched
  <2> SUFFICES ASSUME IInv, NEW u \in Ufvk, NEW t \in Tx, t \notin blank[u], Passed(t, u),
                      NEW i \in NoteIdx(t, u), PaidInFull(t, u, i)
               PROVE  \E b \in bucket : /\ b.tx = t /\ b.ufvk = u /\ b.form = "whole"
                                        /\ b.drop = Notes[t][u][i].drop
                                        /\ b.to = Notes[t][u][i].ePub
    BY DEF EveryPaidNoteDispatched
  <2>1. i \in Int /\ \A j \in NoteIdx(t, u) : j \in Int
    BY NotesAssumption DEF NoteIdx
  <2>2. FirstPayment(t, u, i)
    BY <2>1 DEF FirstPayment, PaidInFull
  <2>3. PICK b \in bucket : b.tx = t /\ b.ufvk = u /\ b.life = life /\ b.form = "whole"
    BY <2>2 DEF Owed, IInv, CoverInv, NothingOwedIsPassed, Dispatched
  <2>4. PICK o \in accepted, j \in NoteIdx(t, u) :
          NotePays(t, u, j, o) /\ b.drop = o.drop /\ b.to = Notes[t][u][j].ePub
    BY <2>3 DEF IInv, BucketInv, DispatchIsPaid
  <2>5. j = i  BY <2>4 DEF NotePays, PaidInFull
  <2>6. QED  BY <2>3, <2>4, <2>5 DEF NotePays
<1>2. QED  BY <1>1, Inductive, PTL

-----------------------------------------------------------------------------
(* The scanner implements the ledger.                                      *)

Released == {Receipt(b) : b \in {c \in bucket : c.life = life /\ c.form = "whole"}}
Confirmed == {t \in Tx : mined[t] # 0}

(* The write of a blob is the release of its key.                          *)
LEMMA PutReleases ==
  ASSUME IInv, NEW o \in Offers, Put(o)
  PROVE  \E t \in Tx, a \in Offers : Ledger!Release(t, a)
<1> DEFINE new == BlobFor(o, "whole")
<1>1. /\ bucket' = bucket \cup {new}
      /\ UNCHANGED <<life, mined, accepted>>
      /\ pc = "put" /\ o \in held
  BY DEF Put, chainVars, catalogVars
<1>2. /\ new.life = life /\ new.form = "whole"
      /\ Receipt(new) = [tx |-> at, ufvk |-> cur, drop |-> o.drop,
                         key |-> o.key, ek |-> nextEk]
  BY DEF BlobFor, Receipt
<1>3. /\ at \in Tx /\ cur \in Ufvk /\ k \in NoteIdx(at, cur)
      /\ o \in accepted /\ NotePays(at, cur, k, o) /\ ~ Dispatched(at, cur)
  BY <1>1 DEF IInv, TypeOK, TxTypeOK, RangeTypeOK, TxInv
<1>4. mined[at] # 0
  BY <1>1 DEF IInv, TypeOK, TxInv, InTx, RangeTypeOK, TxTypeOK, ChainTypeOK
<1>5. o.ufvk = cur
  BY <1>3 DEF NotePays
<1> HIDE DEF new
<1>6. Released' = Released \cup {Receipt(new)}
  BY <1>1, <1>2 DEF Released, Receipt
<1>7. \A r \in Released : ~ (r.tx = at /\ r.ufvk = cur)
  BY <1>3 DEF Released, Receipt, Dispatched
<1>8. Ledger!Pays(at, o.ufvk, o)
  BY <1>3, <1>5 DEF Ledger!Pays, Ledger!NotePays, Ledger!NoteIdx, NotePays,
                    NoteIdx
<1>9. \E r \in Released' :
        /\ Released' = Released \cup {r}
        /\ r = [tx |-> at, ufvk |-> o.ufvk, drop |-> o.drop, key |-> o.key,
               ek |-> r.ek]
  <2>1. Receipt(new) \in Released'
    BY <1>6
  <2>2. Receipt(new).ek = nextEk
    BY <1>2
  <2> QED
    BY <1>2, <1>5, <1>6, <2>1, <2>2
<1> QED
  BY <1>1, <1>3, <1>4, <1>5, <1>7, <1>8, <1>9 DEF Ledger!Release, Released

LEMMA StepRefines ==
  IInv /\ [Next]_vars =>
    [Ledger!Next]_<<Confirmed, accepted, Released>>
<1> SUFFICES ASSUME IInv, [Next]_vars
             PROVE  \/ Ledger!Next
                    \/ UNCHANGED <<Confirmed, accepted, Released>>
  OBVIOUS
<1>1. ASSUME NEW S \in SUBSET Tx, Mine(S) PROVE Ledger!Next
  <2>1. Confirmed' = Confirmed \cup S
    BY <1>1 DEF Mine, Confirmed, IInv, TypeOK, ChainTypeOK
  <2>2. UNCHANGED <<accepted, Released>>
    BY <1>1 DEF Mine, Released, Receipt, catalogVars, bucketVars
  <2> QED
    BY <2>1, <2>2 DEF Ledger!Next, Ledger!Confirm, Confirmed, Released
<1>2. ASSUME NEW o \in Offers, Provision(o) PROVE Ledger!Next
  <2>1. UNCHANGED <<Confirmed, Released>>
    BY <1>2 DEF Provision, Confirmed, Released, Receipt, chainVars, bucketVars
  <2>2. CatalogInv'
    BY CatalogNext
  <2>3. accepted' = accepted \cup {o}
    BY <1>2 DEF Provision, Insert
  <2>4. \A p \in accepted : p.drop = o.drop => p.ufvk = o.ufvk
    BY <2>2, <2>3 DEF CatalogInv, DropKeepsOwner
  <2> QED
    BY <2>1, <2>3, <2>4
       DEF Ledger!Next, Ledger!Promise, Confirmed, Released
<1>3. CASE Restart
  <2>1. UNCHANGED Confirmed /\ accepted' = {}
    BY <1>3 DEF Restart, CatalogRestart, Confirmed, chainVars
  <2>2. Released' = {}
    BY <1>3 DEF Restart, Released, bucketVars, IInv, BucketInv, TypeOK,
                BucketTypeOK, Blob
  <2> QED
    BY <2>1, <2>2 DEF Ledger!Next, Ledger!Forget, Confirmed, Released
<1>4. ASSUME NEW o \in Offers, Put(o) PROVE Ledger!Next
  BY <1>4, PutReleases DEF Ledger!Next
<1>5. ASSUME NEW o \in Offers, PutFails(o)
      PROVE  UNCHANGED <<Confirmed, accepted, Released>>
  <2> DEFINE new == BlobFor(o, "torn")
  <2>1. /\ bucket \subseteq bucket' /\ bucket' \subseteq bucket \cup {new}
        /\ UNCHANGED <<life, mined, accepted>>
    BY <1>5 DEF PutFails, chainVars, catalogVars
  <2>2. new.form = "torn"
    BY DEF BlobFor
  <2> HIDE DEF new
  <2> QED
    BY <2>1, <2>2 DEF Confirmed, Released, Receipt
<1>6. CASE UNCHANGED <<catalog, accepted, tip, mined, life, listedAt, bucket>>
  BY <1>6 DEF Confirmed, Released, Receipt
<1> QED
  BY <1>1, <1>2, <1>3, <1>4, <1>5, <1>6, StepKinds

(***************************************************************************)
(* Every behaviour of the scanner is a behaviour of the abstract ledger:   *)
(* a key is released at most once per transaction, creator and life of the *)
(* process, for a confirmed payment that covers an offered price.          *)
(***************************************************************************)
THEOREM Refinement == Spec => ImplementsLedger
<1>1. Init => Ledger!Init
  BY DEF Init, CatalogInit, Ledger!Init
<1>2. IInv /\ [Next]_vars =>
        [Ledger!Next]_<<Confirmed, accepted, Released>>
  BY StepRefines
<1> QED
  BY <1>1, <1>2, Inductive, PTL
     DEF Spec, ImplementsLedger, Ledger!Spec, Confirmed, Released

-----------------------------------------------------------------------------
(***************************************************************************)
(* Two more facts about the cursors of the scanner: what a failed pass     *)
(* leaves behind is read again from the first block on, and a transaction  *)
(* nobody can read holds the cursor.                                       *)
(***************************************************************************)

(* Nothing unreadable was taken in hand, and what is unreadable in the     *)
(* blocks received is still to be visited, or came without bytes.          *)
UnreadInv ==
  /\ UnreadableNeverPassed
  /\ \A u \in Ufvk : seen[u] \cap Unparsable = {}
  /\ at \notin Unparsable
  /\ InBlocks => \A t \in Unparsable :
       mined[t] \in start .. last /\ t \notin rest => t \in blank[cur]

(* Until a first range is completed, every range starts at StartHeight.    *)
FirstInv ==
  /\ FirstRangeKept
  /\ \A u \in Ufvk : cursor[u] = 0 => opened[u] \in {0, StartHeight}
  /\ InRange => /\ opened[cur] # 0
                /\ cursor[cur] = 0 => start = StartHeight

-----------------------------------------------------------------------------
(* Unreadable transactions.                                                *)

LEMMA SeenSteps ==
  ASSUME [Next]_vars
  PROVE  Restart \/ FinishTx \/ UNCHANGED seen
  BY DEF Next, Progress, Trouble, Environment, vars, Mine, Provision,
         stateVars, BeginPass, OpenRange, EndPass, CallFails, FetchRange,
         SkipSeen, SkipEmpty, DetectFails, FetchTx, FinishRange, SkipNote,
         RefuseNote, AcceptNote, Put, PutFails

LEMMA AtSteps ==
  ASSUME [Next]_vars
  PROVE  at' \in {at, None} \/ \E t \in Tx : FetchTx(t)
  BY DEF Next, Progress, Trouble, Environment, vars, Mine, Provision,
         passVars, txVars, BeginPass, OpenRange, EndPass, CallFails,
         FetchRange, SkipSeen, SkipEmpty, DetectFails, FinishRange, SkipNote,
         RefuseNote, AcceptNote, FinishTx, Put, PutFails, Restart, Abort,
         DropTx

LEMMA UnreadBehind ==
  ASSUME IInv, UnreadInv, [Next]_vars, InBlocks',
         NEW t \in Unparsable, mined'[t] \in (start' .. last'), t \notin rest'
  PROVE  t \in blank'[cur']
<1>1. t \in Tx
  BY BoundsAssumption
<1>2. ~ Restart /\ pc' \in {"scan", "notes", "put"}
  BY BlockSteps DEF InBlocks
<1>3. cur' \in Ufvk
  BY <1>2, TypeNext DEF IInv, TypeOK, RangeTypeOK
<1>4. ASSUME NEW h \in Int, FetchRange(h) PROVE FALSE
  <2>1. /\ start' = start /\ last' = h /\ mined' = mined
        /\ rest' = {s \in Tx : mined[s] \in start .. h}
    BY <1>4 DEF FetchRange, chainVars
  <2> QED
    BY <1>1, <2>1
<1>5. ASSUME InBlocks, UNCHANGED <<start, last, cur>>,
             t \notin rest \/ t \in blank'[cur]
      PROVE  t \in blank'[cur']
  <2>1. mined'[t] # tip + 1 /\ mined'[t] # 0
    BY <1>5 DEF IInv, RangeInv, InRange, InBlocks, TypeOK, RangeTypeOK,
                ChainTypeOK
  <2>2. mined'[t] = mined[t]
    BY <1>1, <2>1, MinedOnce
  <2>3. blank[cur] \subseteq blank'[cur]
    BY <1>2, <1>3, <1>5, BlankGrows
  <2> QED
    BY <1>5, <2>2, <2>3 DEF UnreadInv
<1>6. ASSUME NEW s \in Tx, SkipSeen(s) \/ SkipEmpty(s) \/ FetchTx(s)
      PROVE  t \in blank'[cur']
  <2>1. /\ pc = "scan" /\ rest' = rest \ {s}
        /\ UNCHANGED <<start, last, cur>>
    BY <1>6 DEF SkipSeen, SkipEmpty, FetchTx, IsNext, rangeVars
  <2>2. cur \in Ufvk
    BY <1>3, <2>1
  <2>3. CASE t = s
    <3>1. ~ FetchTx(s)
      BY <2>3 DEF FetchTx
    <3>2. ~ SkipSeen(s)
      BY <2>2, <2>3 DEF SkipSeen, UnreadInv
    <3>3. s \in blank'[cur]
      BY <1>6, <2>2, <3>1, <3>2 DEF SkipEmpty, IInv, TypeOK, HistTypeOK
    <3> QED
      BY <2>1, <2>3, <3>3
  <2>4. CASE t # s
    BY <1>5, <2>1, <2>4 DEF InBlocks
  <2> QED
    BY <2>3, <2>4
<1>7. CASE FinishTx
  BY <1>5, <1>7 DEF FinishTx, rangeVars, InBlocks
<1>8. CASE pc \in {"scan", "notes", "put"} /\ UNCHANGED <<start, last, rest, at, cur>>
  BY <1>5, <1>8 DEF InBlocks
<1> QED
  BY <1>2, <1>4, <1>6, <1>7, <1>8, BlockSteps

LEMMA UnreadPassed ==
  ASSUME IInv, UnreadInv, [Next]_vars
  PROVE  UnreadableNeverPassed'
<1>1. CASE Restart
  BY <1>1 DEF Restart, UnreadableNeverPassed, Passed
<1>2. ASSUME ~ Restart, NEW u \in Ufvk, NEW t \in Unparsable,
             t \notin blank'[u], Passed(t, u)'
      PROVE  FALSE
  <2>1. t \in Tx /\ t \notin blank[u]
    BY <1>2, BoundsAssumption, BlankGrows
  <2>2. ~ Passed(t, u)
    BY <2>1 DEF UnreadInv, UnreadableNeverPassed
  <2>3. /\ covered'[u] # 0 /\ covered'[u] <= mined'[t]
        /\ mined'[t] <= cursor'[u]
    BY <1>2 DEF Passed
  <2>4. TypeOK /\ TypeOK'
    BY TypeNext DEF IInv
  <2>5. cursor'[u] <= tip
    <3>1. CASE FinishRange
      BY <3>1, FinishRangeCovers
    <3>2. CASE UNCHANGED <<cursor, covered>>
      BY <3>2 DEF IInv, CoverInv
    <3> QED
      BY <1>2, <3>1, <3>2, CursorSteps
  <2>6. /\ covered'[u] \in Nat /\ cursor'[u] \in Nat /\ tip \in Nat
        /\ mined'[t] \in Nat
    BY <2>1, <2>4 DEF TypeOK, StateTypeOK, HistTypeOK, ChainTypeOK
  <2>7. mined'[t] # 0 /\ mined'[t] # tip + 1
    BY <2>3, <2>5, <2>6
  <2>8. mined'[t] = mined[t]
    BY <2>1, <2>7, MinedOnce
  <2>9. FinishRange /\ ~ UNCHANGED <<cursor, covered>>
    BY <1>2, <2>2, <2>3, <2>8, CursorSteps DEF Passed
  <2>10. /\ pc = "scan" /\ rest = {} /\ last >= start
         /\ cursor' = [cursor EXCEPT ![cur] = last]
         /\ covered' = [covered EXCEPT ![cur] = IF @ = 0 THEN start ELSE @]
    BY <2>9 DEF FinishRange
  <2>11. /\ cur \in Ufvk /\ start \in Nat /\ last \in Nat
         /\ cursor \in [Ufvk -> Nat] /\ covered \in [Ufvk -> Nat]
    BY <2>4, <2>10 DEF TypeOK, RangeTypeOK, StateTypeOK, HistTypeOK
  <2>12. u = cur
    BY <2>2, <2>3, <2>8, <2>10, <2>11 DEF Passed
  <2>13. mined[t] <= last
    BY <2>3, <2>8, <2>10, <2>11, <2>12
  <2>14. mined[t] >= start
    <3>1. CASE covered[cur] = 0
      BY <2>3, <2>8, <2>10, <2>11, <2>12, <3>1
    <3>2. CASE covered[cur] # 0
      <4>1. covered[cur] <= mined[t]
        BY <2>3, <2>8, <2>10, <2>11, <2>12, <3>2
      <4>2. start = cursor[cur] + 1
        BY <2>10, <2>11, <3>2 DEF IInv, CoverInv, RangeInv, InRange
      <4>3. ~ (mined[t] <= cursor[cur])
        BY <2>2, <2>12, <3>2, <4>1 DEF Passed
      <4> QED
        BY <2>6, <2>8, <2>11, <4>2, <4>3
    <3> QED
      BY <3>1, <3>2
  <2>15. mined[t] \in start .. last
    BY <2>6, <2>8, <2>11, <2>13, <2>14
  <2> QED
    BY <2>1, <2>10, <2>12, <2>15 DEF UnreadInv, InBlocks
<1> QED
  BY <1>1, <1>2 DEF UnreadableNeverPassed

LEMMA UnreadNext == IInv /\ UnreadInv /\ [Next]_vars => UnreadInv'
<1> SUFFICES ASSUME IInv, UnreadInv, [Next]_vars PROVE UnreadInv'
  OBVIOUS
<1>1. \A u \in Ufvk : seen'[u] \cap Unparsable = {}
  <2>1. CASE Restart
    BY <2>1 DEF Restart
  <2>2. CASE FinishTx
    BY <2>2 DEF FinishTx, UnreadInv, IInv, TypeOK, StateTypeOK
  <2> QED
    BY <2>1, <2>2, SeenSteps DEF UnreadInv
<1>2. at' \notin Unparsable
  BY AtSteps, NoneAssumption, BoundsAssumption DEF UnreadInv, FetchTx
<1> QED
  BY <1>1, <1>2, UnreadBehind, UnreadPassed DEF UnreadInv

(***************************************************************************)
(* No cursor passes a block with a transaction the indexer cannot read,    *)
(* however often its pass is repeated.                                     *)
(***************************************************************************)
THEOREM UnreadableHoldsCursor == Spec => []UnreadableNeverPassed
<1>1. Init => UnreadInv
  BY NoneAssumption, BoundsAssumption
     DEF Init, UnreadInv, UnreadableNeverPassed, Passed, InBlocks
<1>2. UnreadInv => UnreadableNeverPassed
  BY DEF UnreadInv
<1> QED
  BY <1>1, <1>2, UnreadNext, Inductive, PTL DEF Spec

-----------------------------------------------------------------------------
(* The first range.                                                        *)

LEMMA OpenedSteps ==
  ASSUME IInv, [Next]_vars
  PROVE  \/ Restart
         \/ \E u \in Ufvk, h \in Int : OpenRange(u, h)
         \/ FinishRange
         \/ /\ UNCHANGED <<cursor, covered, opened>>
            /\ InRange' => InRange /\ UNCHANGED <<cur, start>>
<1> USE DEF vars, passVars, rangeVars, stateVars, histVars, InRange, Abort
<1>1. CASE \E S \in SUBSET Tx : Mine(S)
  BY <1>1 DEF Mine
<1>2. CASE \E o \in Offers : Provision(o)
  BY <1>2 DEF Provision
<1>3. CASE Progress
  <2>1. tip \in Int
    BY DEF IInv, TypeOK, ChainTypeOK
  <2>2. \A u \in Ufvk : OpenRange(u, tip) => \E h \in Int : OpenRange(u, h)
    BY <2>1
  <2> QED
    BY <1>3, <2>2 DEF Progress, BeginPass, EndPass, FetchRange, SkipSeen, IsNext,
       FetchTx, DetectFails, SkipNote, HasNote, RefuseNote, AcceptNote, Put,
       FinishTx
<1>4. CASE Trouble
  <2>1. \A u \in Ufvk, h \in 1 .. (tip - 1) : h \in Int
    BY DEF IInv, TypeOK, ChainTypeOK
  <2> QED
    BY <1>4, <2>1 DEF Trouble, CallFails, FetchRange, SkipEmpty, IsNext, PutFails
<1> QED
  BY <1>1, <1>2, <1>3, <1>4 DEF Next, Environment

LEMMA FirstNext ==
  ASSUME StartHeight # 0, IInv, FirstInv, [Next]_vars
  PROVE  FirstInv'
<1> USE BoundsAssumption
<1>1. CASE Restart
  BY <1>1 DEF Restart, Abort, FirstInv, FirstRangeKept, InRange
<1>2. ASSUME NEW u \in Ufvk, NEW h \in Int, OpenRange(u, h) PROVE FirstInv'
  <2>1. /\ UNCHANGED <<cursor, covered>> /\ pc = "pick"
        /\ cursor \in [Ufvk -> Nat] /\ opened \in [Ufvk -> Nat]
    BY <1>2 DEF OpenRange, stateVars, IInv, TypeOK, StateTypeOK, HistTypeOK
  <2>2. CASE FirstHeight(u, h) > h
    BY <1>2, <2>1, <2>2 DEF OpenRange, FirstInv, FirstRangeKept, InRange
  <2>3. CASE ~ (FirstHeight(u, h) > h)
    <3>1. /\ cur' = u /\ start' = FirstHeight(u, h)
          /\ opened' = [opened EXCEPT ![u] = IF @ = 0 THEN start' ELSE @]
      BY <1>2, <2>3 DEF OpenRange
    <3>2. /\ cursor[u] = 0 => start' = StartHeight
          /\ start' # 0
      BY <2>1, <3>1 DEF FirstHeight
    <3>3. opened'[u] # 0
      BY <2>1, <3>1, <3>2
    <3>4. \A v \in Ufvk : cursor[v] = 0 => opened'[v] \in {0, StartHeight}
      BY <2>1, <3>1, <3>2 DEF FirstInv
    <3>5. \A v \in Ufvk : covered[v] # 0 => opened'[v] = opened[v]
      BY <2>1, <3>1 DEF FirstInv, FirstRangeKept
    <3> QED
      BY <2>1, <3>1, <3>2, <3>3, <3>4, <3>5 DEF FirstInv, FirstRangeKept
  <2> QED
    BY <2>2, <2>3
<1>3. CASE FinishRange
  <2>1. /\ pc = "scan" /\ pc' = "pick" /\ UNCHANGED opened
        /\ \/ UNCHANGED <<cursor, covered>>
           \/ /\ last >= start
              /\ cursor' = [cursor EXCEPT ![cur] = last]
              /\ covered' = [covered EXCEPT ![cur] = IF @ = 0 THEN start ELSE @]
    BY <1>3 DEF FinishRange
  <2>2. /\ cur \in Ufvk /\ start \in Nat /\ start > 0 /\ last \in Nat
        /\ cursor \in [Ufvk -> Nat] /\ covered \in [Ufvk -> Nat]
    BY <2>1 DEF IInv, TypeOK, RangeTypeOK, StateTypeOK, HistTypeOK
  <2>3. covered[cur] = 0 => start = opened[cur]
    BY <2>1, <2>2 DEF FirstInv, InRange, IInv, CoverInv
  <2>4. \A u \in Ufvk : covered'[u] # 0 => covered'[u] = opened[u]
    BY <2>1, <2>2, <2>3 DEF FirstInv, FirstRangeKept
  <2>5. \A u \in Ufvk : cursor'[u] = 0 => cursor[u] = 0
    BY <2>1, <2>2
  <2> QED
    BY <2>1, <2>4, <2>5 DEF FirstInv, FirstRangeKept, InRange
<1>4. CASE /\ UNCHANGED <<cursor, covered, opened>>
           /\ InRange' => InRange /\ UNCHANGED <<cur, start>>
  BY <1>4 DEF FirstInv, FirstRangeKept
<1> QED
  BY <1>1, <1>2, <1>3, <1>4, OpenedSteps

(***************************************************************************)
(* With a start height, the first range a creator's scan asked for is the  *)
(* one its coverage starts from, whatever failed before it was completed.  *)
(***************************************************************************)
THEOREM FirstRangeIsKept ==
  ASSUME StartHeight # 0
  PROVE  Spec => []FirstRangeKept
<1>1. Init => FirstInv
  BY DEF Init, FirstInv, FirstRangeKept, InRange
<1>2. FirstInv => FirstRangeKept
  BY DEF FirstInv
<1>3. IInv /\ FirstInv /\ [Next]_vars => FirstInv'
  BY FirstNext
<1> QED
  BY <1>1, <1>2, <1>3, Inductive, PTL DEF Spec

-----------------------------------------------------------------------------
(* Cursors move forward only.                                              *)

(* A finished range begins behind the cursor it moves.                     *)
LEMMA CursorsMoveOn ==
  ASSUME IInv, [Next]_vars, life' = life, NEW u \in Ufvk, covered[u] # 0
  PROVE  covered'[u] = covered[u] /\ cursor'[u] >= cursor[u]
<1>1. /\ cursor \in [Ufvk -> Nat] /\ covered \in [Ufvk -> Nat] /\ life \in Nat
      /\ cursor[u] # 0
  BY DEF IInv, TypeOK, StateTypeOK, HistTypeOK, BucketTypeOK, CoverInv
<1>2. CASE FinishRange
  <2>1. /\ pc = "scan"
        /\ \/ UNCHANGED <<cursor, covered>>
           \/ /\ last >= start
              /\ cursor' = [cursor EXCEPT ![cur] = last]
              /\ covered' = [covered EXCEPT ![cur] = IF @ = 0 THEN start ELSE @]
    BY <1>2 DEF FinishRange
  <2>2. cur \in Ufvk /\ start \in Nat /\ last \in Nat
    BY <2>1 DEF IInv, TypeOK, RangeTypeOK
  <2>3. cursor[cur] # 0 => start = cursor[cur] + 1
    BY <2>1 DEF IInv, RangeInv, InRange
  <2>4. QED  BY <1>1, <2>1, <2>2, <2>3
<1>3. CASE \E v \in Ufvk, h \in Int : OpenRange(v, h)
  BY <1>1, <1>3 DEF OpenRange, stateVars
<1>4. ~ Restart  BY <1>1 DEF Restart
<1>5. QED  BY <1>1, <1>2, <1>3, <1>4, OpenedSteps

(* A mined transaction stays where it is.                                  *)
LEMMA MinedStays ==
  ASSUME IInv, [Next]_vars, NEW t \in Tx, mined[t] # 0
  PROVE  mined'[t] = mined[t]
<1>1. ASSUME NEW S \in SUBSET Tx, Mine(S) PROVE mined'[t] = mined[t]
  BY <1>1 DEF Mine
<1>2. QED
  BY <1>1, StepKinds DEF Provision, Restart, Put, PutFails, chainVars

(***************************************************************************)
(* While the process lives, no step takes a scanned block or a seen txid   *)
(* back, whatever tips and ranges lightwalletd answers with.               *)
(***************************************************************************)
THEOREM NothingIsUnscanned == Spec => ScannedStaysScanned
<1>1. ASSUME IInv, [Next]_vars, life' = life, NEW u \in Ufvk, NEW t \in Tx
      PROVE  /\ Passed(t, u) => Passed(t, u)'
             /\ t \in seen[u] => t \in seen'[u]
  <2>1. /\ covered \in [Ufvk -> Nat] /\ cursor \in [Ufvk -> Nat] /\ mined[t] \in Nat
        /\ seen \in [Ufvk -> SUBSET Tx] /\ life \in Nat
    BY <1>1 DEF IInv, TypeOK, StateTypeOK, HistTypeOK, ChainTypeOK, BucketTypeOK
  <2>2. ASSUME Passed(t, u) PROVE Passed(t, u)'
    <3>1. covered[u] # 0 /\ covered[u] <= mined[t] /\ mined[t] <= cursor[u]
      BY <2>2 DEF Passed
    <3>2. covered'[u] = covered[u] /\ cursor'[u] >= cursor[u] /\ mined'[t] = mined[t]
      BY <1>1, <2>1, <3>1, CursorsMoveOn, MinedStays
    <3>3. cursor'[u] \in Nat
      <4>1. TypeOK'  BY <1>1, TypeNext DEF IInv
      <4>2. QED  BY <4>1 DEF TypeOK, StateTypeOK
    <3>4. QED  BY <2>1, <3>1, <3>2, <3>3 DEF Passed
  <2>3. ASSUME t \in seen[u] PROVE t \in seen'[u]
    <3>1. ~ Restart  BY <1>1, <2>1 DEF Restart
    <3>2. QED  BY <1>1, <2>1, <2>3, <3>1, SeenSteps DEF FinishTx
  <2>4. QED  BY <2>2, <2>3
<1>2. IInv /\ [Next]_vars =>
        [life' = life => \A u \in Ufvk, t \in Tx :
           /\ Passed(t, u) => Passed(t, u)'
           /\ t \in seen[u] => t \in seen'[u]]_vars
  BY <1>1
<1>3. QED  BY <1>2, Inductive, PTL DEF Spec, ScannedStaysScanned
=============================================================================
