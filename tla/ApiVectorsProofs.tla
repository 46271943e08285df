--------------------------- MODULE ApiVectorsProofs ---------------------------
(***************************************************************************)
(* Why what a buyer has read of the in-memory store stays true.  Ids are   *)
(* given out once and drops stay listed, so that an entry read long ago is *)
(* still the one its id looks up; every sealed box has a key of its own,   *)
(* so that the bucket only grows.                                          *)
(***************************************************************************)
EXTENDS ApiVectors, FiniteSetTheorems, TLAPS

Entry == [id : 1 .. (IdSpace - 1), reg : Registration, active : {TRUE}]
Blob == [key : Nat \X Tx, drop : Drop, kDrop : Key, to : EPub]

StoreInv ==
  /\ nextDropId \in 1 .. (IdSpace - 1) /\ drops \in Seq(Entry) /\ dispatches \in Seq(Blob)
  /\ engineSeen \in [Ufvk -> SUBSET Tx] /\ putting \in [Ufvk -> SUBSET Blob]
  /\ fresh \in 0 .. MaxBlobs
  /\ shown \in [Buyer -> SUBSET Entry] /\ listed \in [Buyer -> Seq(Blob)]
  /\ \A n \in DOMAIN drops : Valid(drops[n].reg)

(* No id is given out twice.                                               *)
IdInv ==
  /\ \A n \in DOMAIN drops : drops[n].id < nextDropId
  /\ \A n, m \in DOMAIN drops : drops[n].id = drops[m].id => n = m

(* What a buyer has seen is listed, and what is or will be in the bucket   *)
(* is of a drop that is.                                                   *)
IsListed(x) == \E n \in DOMAIN drops : drops[n] = x
Sells(blob) == \E n \in DOMAIN drops : drops[n].id = blob.drop /\ drops[n].reg.key = blob.kDrop
SellInv ==
  /\ \A b \in Buyer : \A x \in shown[b] : IsListed(x)
  /\ \A m \in DOMAIN dispatches : Sells(dispatches[m])
  /\ \A u \in Ufvk : \A blob \in putting[u] : Sells(blob)

(* The key of a box was drawn before, and for no other box.                *)
KeyInv ==
  /\ \A u \in Ufvk : \A x, y \in putting[u] : x = y
  /\ \A u \in Ufvk : \A x \in putting[u] :
       /\ x.key[1] < fresh
       /\ \A m \in DOMAIN dispatches : dispatches[m].key # x.key
       /\ \A v \in Ufvk : \A y \in putting[v] : x.key = y.key => u = v
  /\ \A m \in DOMAIN dispatches : dispatches[m].key[1] < fresh
  /\ \A n, m \in DOMAIN dispatches : dispatches[n].key = dispatches[m].key => n = m

(* What a buyer has listed is in the bucket.                               *)
ListedInv ==
  \A b \in Buyer : \A n \in DOMAIN listed[b] :
    \E m \in DOMAIN dispatches : dispatches[m] = listed[b][n]

ApiInv == StoreInv /\ IdInv /\ SellInv /\ KeyInv /\ ListedInv

-----------------------------------------------------------------------------
(* find, where only one position matches.                                  *)
LEMMA FirstOfOne ==
  ASSUME NEW n \in Nat
  PROVE  First({n}) = {n} /\ First({}) = {}
BY DEF First

LEMMA Bounds ==
  /\ IdSpace \in Nat /\ IdSpace > 1 /\ MaxBlobs \in Nat
  /\ \A r \in Registration : r.price \in Nat /\ r.key \in Key
<1>1. {IdSpace, MaxDrops, MaxBlobs} \subseteq Nat /\ IdSpace > 1  BY ApiAssumption
<1>2. \A r \in Registration : r.price \in Nat /\ r.key \in Key  BY ApiAssumption
<1>3. QED  BY <1>1, <1>2

LEMMA EntryTyped ==
  ASSUME NEW x \in Entry
  PROVE  x.id \in 1 .. (IdSpace - 1) /\ x.active /\ x.reg \in Registration
BY DEF Entry

(* Positions are numbers, and hold what they should.                       *)
LEMMA Records ==
  ASSUME StoreInv
  PROVE  /\ DOMAIN drops \subseteq Nat /\ \A n \in DOMAIN drops : drops[n] \in Entry
         /\ DOMAIN dispatches \subseteq Nat
         /\ \A n \in DOMAIN dispatches : dispatches[n] \in Blob
         /\ \A b \in Buyer : \A n \in DOMAIN listed[b] : listed[b][n] \in Blob
<1>1. /\ drops \in Seq(Entry) /\ dispatches \in Seq(Blob)
      /\ \A b \in Buyer : listed[b] \in Seq(Blob)
  BY DEF StoreInv
<1>2. ASSUME NEW T, NEW q \in Seq(T)
      PROVE  DOMAIN q \subseteq Nat /\ \A n \in DOMAIN q : q[n] \in T
  OBVIOUS
<1>3. QED  BY <1>1, <1>2

(* An id looks up the one drop that has it.                                *)
LEMMA LookupOne ==
  ASSUME StoreInv, IdInv, NEW n \in DOMAIN drops
  PROVE  Lookup(drops[n].id) = {drops[n].reg}
<1>1. n \in Nat /\ drops[n].active  BY Records DEF Entry
<1>2. PICK ns : ns = {k \in DOMAIN drops : drops[k].id = drops[n].id /\ drops[k].active}
  OBVIOUS
<1>3. ns = {n}  BY <1>1, <1>2 DEF IdInv
<1>4. First(ns) = {n}  BY <1>1, <1>3, FirstOfOne
<1>5. Lookup(drops[n].id) = {drops[k].reg : k \in First(ns)}  BY <1>2 DEF Lookup
<1>6. QED  BY <1>4, <1>5

LEMMA LookupListed ==
  ASSUME StoreInv, IdInv, NEW d, NEW r \in Lookup(d)
  PROVE  /\ r \in Registration /\ Lookup(d) = {r}
         /\ \E n \in DOMAIN drops : drops[n].id = d /\ drops[n].reg = r
<1>1. PICK n \in DOMAIN drops : drops[n].id = d /\ drops[n].reg = r
  BY DEF Lookup, First
<1>2. r \in Registration  BY <1>1, Records DEF Entry
<1>3. QED  BY <1>1, <1>2, LookupOne

LEMMA ApiStart == ApiInit => ApiInv
<1> SUFFICES ASSUME ApiInit PROVE ApiInv  OBVIOUS
<1> USE DEF ApiInit
<1>1. \A T : <<>> \in Seq(T)  OBVIOUS
<1>2. StoreInv  BY <1>1, Bounds DEF StoreInv
<1>3. IdInv /\ SellInv  BY DEF IdInv, SellInv
<1>4. KeyInv /\ ListedInv  BY DEF KeyInv, ListedInv
<1>5. QED  BY <1>2, <1>3, <1>4 DEF ApiInv

LEMMA RegisterKeeps ==
  ASSUME ApiInv, NEW r \in Registration, RegisterCreatorDrop(r)
  PROVE  ApiInv'
<1> USE DEF ApiInv
<1>0. UNCHANGED <<dispatches, engineSeen, putting, fresh, shown, listed>>
  BY DEF RegisterCreatorDrop, engineVars, buyerVars
<1>1. CASE ~(Valid(r) /\ nextDropId + 1 < IdSpace)
  BY <1>0, <1>1
  DEF RegisterCreatorDrop, StoreInv, IdInv, SellInv, KeyInv, ListedInv, IsListed, Sells
<1>2. CASE Valid(r) /\ nextDropId + 1 < IdSpace
  <2>1. PICK x : x = [id |-> nextDropId, reg |-> r, active |-> TRUE]  OBVIOUS
  <2>2. x \in Entry /\ drops \in Seq(Entry)  BY <2>1 DEF StoreInv, Entry
  <2>3. nextDropId' = nextDropId + 1 /\ drops' = Append(drops, x)
    BY <1>2, <2>1 DEF RegisterCreatorDrop
  <2>4. /\ DOMAIN drops' = DOMAIN drops \cup {Len(drops) + 1} /\ drops'[Len(drops) + 1] = x
        /\ \A n \in DOMAIN drops : drops'[n] = drops[n]
        /\ drops' \in Seq(Entry)
    BY <2>2, <2>3
  <2>5. StoreInv'
    <3>1. nextDropId' \in 1 .. (IdSpace - 1)
      BY <1>2, <2>3, Bounds DEF StoreInv
    <3>2. \A n \in DOMAIN drops' : Valid(drops'[n].reg)
      BY <1>2, <2>1, <2>4 DEF StoreInv
    <3>3. QED  BY <1>0, <2>4, <3>1, <3>2 DEF StoreInv
  <2>6. IdInv'
    <3>1. nextDropId \in Int /\ \A n \in DOMAIN drops : drops[n].id \in Int
      <4>1. \A n \in DOMAIN drops : drops[n].id \in 1 .. (IdSpace - 1)
        BY Records, EntryTyped
      <4>2. nextDropId \in 1 .. (IdSpace - 1) /\ IdSpace \in Int  BY Bounds DEF StoreInv
      <4>3. \A k \in 1 .. (IdSpace - 1) : k \in Int  BY <4>2
      <4>4. QED  BY <4>1, <4>2, <4>3
    <3>2. \A n \in DOMAIN drops : drops'[n].id < nextDropId  BY <2>4 DEF IdInv
    <3>3. QED  BY <2>1, <2>3, <2>4, <3>1, <3>2 DEF IdInv
  <2>7. /\ \A e : IsListed(e) => IsListed(e)'
        /\ \A blob : Sells(blob) => Sells(blob)'
    BY <2>4 DEF IsListed, Sells
  <2>8. SellInv'  BY <1>0, <2>7 DEF SellInv
  <2>9. KeyInv' /\ ListedInv'  BY <1>0 DEF KeyInv, ListedInv
  <2>10. QED  BY <2>5, <2>6, <2>8, <2>9
<1>3. QED  BY <1>1, <1>2

(* The blob on_note makes has the next fresh key, and sells a listed drop. *)
LEMMA OnNoteKeeps ==
  ASSUME ApiInv, NEW u \in Ufvk, NEW t \in Tx, NEW i \in NoteIdx(t, u), OnNote(u, t, i)
  PROVE  ApiInv'
<1> USE DEF ApiInv
<1>0. /\ UNCHANGED <<nextDropId, drops, dispatches, shown, listed>>
      /\ engineSeen' \in [Ufvk -> SUBSET Tx] /\ fresh < MaxBlobs /\ fresh \in Nat
      /\ putting[u] = {}
  BY DEF OnNote, StoreInv, storeVars, buyerVars
<1>1. CASE t \in engineSeen[u]
  <2>1. UNCHANGED <<putting, fresh>>  BY <1>1 DEF OnNote
  <2>2. QED
    BY <1>0, <2>1 DEF StoreInv, IdInv, SellInv, KeyInv, ListedInv, IsListed, Sells
<1>2. CASE t \notin engineSeen[u]
  <2>1. PICK d : d = Notes[t][u][i].drop  OBVIOUS
  <2>2. PICK sold : sold = PaysFor(u, t, i, d)  OBVIOUS
  <2>3. PICK B : B = {[key |-> BlobKey(t), drop |-> d, kDrop |-> r.key,
                       to |-> Notes[t][u][i].ePub] : r \in sold}
    OBVIOUS
  <2>4. putting' = [putting EXCEPT ![u] = B] /\ fresh' = fresh + Cardinality(sold)
    BY <1>2, <2>1, <2>2, <2>3 DEF OnNote
  <2>5. Notes[t][u][i] \in Note
    <3>1. Notes[t][u] \in Seq(Note)  BY NotesAssumption
    <3>2. QED  BY <3>1 DEF NoteIdx
  <2>6. d \in Drop /\ Notes[t][u][i].ePub \in EPub  BY <2>1, <2>5 DEF Note
  <2>7. CASE sold = {}
    <3>1. B = {} /\ fresh' = fresh /\ putting' = putting
      BY <1>0, <2>3, <2>4, <2>7, FS_EmptySet DEF StoreInv
    <3>2. QED
      BY <1>0, <3>1 DEF StoreInv, IdInv, SellInv, KeyInv, ListedInv, IsListed, Sells
  <2>8. CASE sold # {}
    <3>1. PICK r : r \in sold  BY <2>8
    <3>2. r \in Lookup(d) /\ sold \subseteq Lookup(d)  BY <2>2, <3>1 DEF PaysFor
    <3>3. /\ r \in Registration /\ sold = {r}
          /\ \E n \in DOMAIN drops : drops[n].id = d /\ drops[n].reg = r
      BY <3>1, <3>2, LookupListed
    <3>4. fresh' = fresh + 1  BY <2>4, <3>3, FS_Singleton
    <3>5. PICK blob : blob = [key |-> <<fresh, t>>, drop |-> d, kDrop |-> r.key,
                              to |-> Notes[t][u][i].ePub]
      OBVIOUS
    <3>6. B = {blob}  BY <2>3, <3>3, <3>5 DEF BlobKey
    <3>7. blob \in Blob /\ blob.key[1] = fresh
      BY <1>0, <2>6, <3>3, <3>5, Bounds DEF Blob
    <3>8. Sells(blob)  BY <3>3, <3>5 DEF Sells
    <3>9. putting'[u] = {blob} /\ \A v \in Ufvk : v # u => putting'[v] = putting[v]
      BY <2>4, <3>6 DEF StoreInv
    <3>10. StoreInv'
      <4>1. putting' \in [Ufvk -> SUBSET Blob]  BY <2>4, <3>6, <3>7 DEF StoreInv
      <4>2. fresh' \in 0 .. MaxBlobs  BY <1>0, <3>4, Bounds
      <4>3. QED  BY <1>0, <4>1, <4>2 DEF StoreInv
    <3>11. IdInv' /\ ListedInv'  BY <1>0 DEF IdInv, ListedInv
    <3>12. SellInv'
      BY <1>0, <3>8, <3>9 DEF SellInv, IsListed, Sells
    <3>13. KeyInv'
      <4>1. \A v \in Ufvk : \A y \in putting[v] : y.key[1] < fresh /\ y.key[1] \in Nat
        BY DEF StoreInv, KeyInv, Blob
      <4>2. \A m \in DOMAIN dispatches :
              dispatches[m].key[1] < fresh /\ dispatches[m].key[1] \in Nat
        BY Records DEF KeyInv, Blob
      <4>3. /\ \A v \in Ufvk : v # u => \A y \in putting[v] : y.key # blob.key
            /\ \A m \in DOMAIN dispatches : dispatches[m].key # blob.key
        BY <1>0, <3>7, <4>1, <4>2
      <4>4. QED  BY <1>0, <3>4, <3>7, <3>9, <4>1, <4>2, <4>3 DEF KeyInv
    <3>14. QED  BY <3>10, <3>11, <3>12, <3>13
  <2>9. QED  BY <2>7, <2>8
<1>3. QED  BY <1>1, <1>2

(* No record of the bucket has that key: put appends.                      *)
LEMMA PutKeeps ==
  ASSUME ApiInv, NEW u \in Ufvk, PutDispatch(u)
  PROVE  ApiInv'
<1> USE DEF ApiInv
<1>1. PICK blob \in putting[u] :
        /\ dispatches' = PutAt(blob)
        /\ putting' = [putting EXCEPT ![u] = {}]
        /\ UNCHANGED <<nextDropId, drops, engineSeen, fresh, shown, listed>>
  BY DEF PutDispatch, buyerVars
<1>2. blob \in Blob /\ dispatches \in Seq(Blob)  BY DEF StoreInv
<1>3. dispatches' = Append(dispatches, blob)  BY <1>1 DEF PutAt, KeyInv
<1>4. /\ DOMAIN dispatches' = DOMAIN dispatches \cup {Len(dispatches) + 1}
      /\ dispatches'[Len(dispatches) + 1] = blob
      /\ \A n \in DOMAIN dispatches : dispatches'[n] = dispatches[n]
      /\ dispatches' \in Seq(Blob)
  BY <1>2, <1>3
<1>5. putting'[u] = {} /\ \A v \in Ufvk : v # u => putting'[v] = putting[v]
  BY <1>1 DEF StoreInv
<1>6. StoreInv'  BY <1>1, <1>4 DEF StoreInv
<1>7. IdInv' /\ ListedInv'  BY <1>1, <1>4 DEF IdInv, ListedInv
<1>8. SellInv'  BY <1>1, <1>4, <1>5 DEF SellInv, IsListed, Sells
<1>9. KeyInv'  BY <1>1, <1>4, <1>5 DEF KeyInv
<1>10. QED  BY <1>6, <1>7, <1>8, <1>9

LEMMA OthersKeep ==
  ASSUME ApiInv,
         \/ \E u \in Ufvk : NewEngine(u)
         \/ \E b \in Buyer : ListPublicCatalog(b) \/ ListDispatchKeys(b)
         \/ UNCHANGED apiVars
  PROVE  ApiInv'
<1> USE DEF ApiInv
<1>1. ASSUME NEW u \in Ufvk, NewEngine(u) PROVE ApiInv'
  <2>1. /\ UNCHANGED <<nextDropId, drops, dispatches, fresh, shown, listed>>
        /\ engineSeen' \in [Ufvk -> SUBSET Tx] /\ putting' \in [Ufvk -> SUBSET Blob]
        /\ \A v \in Ufvk : putting'[v] \subseteq putting[v]
    BY <1>1 DEF NewEngine, StoreInv, storeVars, buyerVars
  <2>2. StoreInv' /\ IdInv' /\ ListedInv'  BY <2>1 DEF StoreInv, IdInv, ListedInv
  <2>3. SellInv'  BY <2>1 DEF SellInv, IsListed, Sells
  <2>4. KeyInv'  BY <2>1 DEF KeyInv
  <2>5. QED  BY <2>2, <2>3, <2>4
<1>2. ASSUME NEW b \in Buyer, ListPublicCatalog(b) PROVE ApiInv'
  <2>1. /\ UNCHANGED <<nextDropId, drops, dispatches, engineSeen, putting, fresh, listed>>
        /\ shown' = [shown EXCEPT ![b] = PublicCatalog]
    BY <1>2 DEF ListPublicCatalog, storeVars, engineVars
  <2>2. /\ PublicCatalog \subseteq Entry /\ \A x \in PublicCatalog : IsListed(x)
    BY DEF PublicCatalog, StoreInv, IsListed
  <2>3. StoreInv' /\ IdInv' /\ ListedInv' /\ KeyInv'
    BY <2>1, <2>2 DEF StoreInv, IdInv, ListedInv, KeyInv
  <2>4. SellInv'  BY <2>1, <2>2 DEF SellInv, IsListed, Sells, StoreInv
  <2>5. QED  BY <2>3, <2>4
<1>3. ASSUME NEW b \in Buyer, ListDispatchKeys(b) PROVE ApiInv'
  <2>1. /\ UNCHANGED <<nextDropId, drops, dispatches, engineSeen, putting, fresh, shown>>
        /\ listed' = [listed EXCEPT ![b] = dispatches]
    BY <1>3 DEF ListDispatchKeys, storeVars, engineVars
  <2>2. StoreInv' /\ IdInv' /\ SellInv' /\ KeyInv'
    BY <2>1 DEF StoreInv, IdInv, SellInv, KeyInv, IsListed, Sells
  <2>3. ListedInv'  BY <2>1 DEF ListedInv, StoreInv
  <2>4. QED  BY <2>2, <2>3
<1>4. CASE UNCHANGED apiVars
  BY <1>4 DEF apiVars, storeVars, engineVars, buyerVars, StoreInv, IdInv, SellInv, KeyInv,
              ListedInv, IsListed, Sells
<1>5. QED  BY <1>1, <1>2, <1>3, <1>4

LEMMA ApiAlways == ApiSpec => []ApiInv
<1>1. ApiInv /\ [ApiNext]_apiVars => ApiInv'
  BY RegisterKeeps, OnNoteKeeps, PutKeeps, OthersKeep DEF ApiNext
<1>2. QED  BY <1>1, ApiStart, PTL DEF ApiSpec

-----------------------------------------------------------------------------
(***************************************************************************)
(* Ids stay within the counter, no drop is listed without a price or at an *)
(* address of a kind validate_deposit_addr refuses, and no box is put for  *)
(* a drop that is not listed, for every number of registrations and        *)
(* engines (register_creator_drop, validate_registration, Engine::on_note).*)
(***************************************************************************)
THEOREM StoreTypeCorrect == ApiSpec => []ApiTypeOK
<1>1. ApiInv => ApiTypeOK
  <2> SUFFICES ASSUME ApiInv PROVE ApiTypeOK  OBVIOUS
  <2> USE DEF ApiInv
  <2>1. ASSUME NEW n \in DOMAIN drops
        PROVE  /\ drops[n].id \in 1 .. (IdSpace - 1) /\ drops[n].active
               /\ drops[n].reg \in Registration
               /\ drops[n].reg.addr \in {"shielded", "tm", "t2"} /\ drops[n].reg.price > 0
    <3>1. drops[n] \in Entry /\ Valid(drops[n].reg)  BY Records DEF StoreInv
    <3>2. /\ drops[n].id \in 1 .. (IdSpace - 1) /\ drops[n].active
          /\ drops[n].reg \in Registration
      BY <3>1, EntryTyped
    <3>3. /\ drops[n].reg.price \in Nat /\ drops[n].reg.price # 0
          /\ drops[n].reg.addr \notin {"t1", "t3", "blank"}
      BY <3>1, <3>2, Bounds DEF Valid
    <3>4. drops[n].reg.addr \in {"shielded", "t1", "t3", "tm", "t2", "blank"}
      BY <3>2, ApiAssumption
    <3>5. QED  BY <3>2, <3>3, <3>4
  <2>2. ASSUME NEW n \in DOMAIN dispatches PROVE Lookup(dispatches[n].drop) # {}
    BY LookupOne DEF SellInv, Sells
  <2>3. ASSUME NEW u \in Ufvk PROVE Cardinality(putting[u]) <= 1
    <3>1. CASE putting[u] = {}  BY <3>1, FS_EmptySet
    <3>2. CASE putting[u] # {}
      <4>1. PICK x \in putting[u] : TRUE  BY <3>2
      <4>2. putting[u] = {x}  BY <4>1 DEF KeyInv
      <4>3. Cardinality({x}) = 1  BY FS_Singleton
      <4>4. QED  BY <4>2, <4>3
    <3>3. QED  BY <3>1, <3>2
  <2>4. QED  BY <2>1, <2>2, <2>3 DEF StoreInv, ApiTypeOK
<1>2. QED  BY <1>1, ApiAlways, PTL

(***************************************************************************)
(* A payment for an entry, however old the catalog it was read from, is    *)
(* answered with that entry's key (Catalog::lookup, checked_add).          *)
(***************************************************************************)
THEOREM EntriesStayTrue == ApiSpec => []AnsweredAsShown
<1>1. ApiInv => AnsweredAsShown
  BY DEF ApiInv, IdInv, SellInv, IsListed, Sells, AnsweredAsShown
<1>2. QED  BY <1>1, ApiAlways, PTL

(***************************************************************************)
(* A listed key looks up the blob it stood for, for any number of engines  *)
(* and payments (Bucket::put, lookup_dispatch, blob_key).                  *)
(***************************************************************************)
THEOREM KeysStayTrue == ApiSpec => []ListedCanBeLookedUp
<1>1. ApiInv => ListedCanBeLookedUp
  <2>1. SUFFICES ASSUME ApiInv, NEW b \in Buyer, NEW n \in DOMAIN listed[b]
                 PROVE  LookupDispatch(listed[b][n].key) = {listed[b][n]}
    BY DEF ListedCanBeLookedUp
  <2>2. ListedInv /\ KeyInv /\ StoreInv  BY <2>1 DEF ApiInv
  <2>3. PICK m \in DOMAIN dispatches : dispatches[m] = listed[b][n]
    BY <2>2 DEF ListedInv
  <2>4. PICK ns : ns = {k \in DOMAIN dispatches : dispatches[k].key = listed[b][n].key}
    OBVIOUS
  <2>5. ns = {m}  BY <2>2, <2>3, <2>4 DEF KeyInv
  <2>6. m \in Nat  BY <2>2, Records
  <2>7. First(ns) = {m}  BY <2>5, <2>6, FirstOfOne
  <2>8. LookupDispatch(listed[b][n].key) = {dispatches[k] : k \in First(ns)}
    BY <2>4 DEF LookupDispatch
  <2>9. QED  BY <2>3, <2>7, <2>8
<1>2. QED  BY <1>1, ApiAlways, PTL
=============================================================================
