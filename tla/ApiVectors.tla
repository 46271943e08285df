----------------------------- MODULE ApiVectors -----------------------------
(***************************************************************************)
(* The in-memory service of the indexer library (api.rs): creators         *)
(* register drops and are given ids, buyers read the catalog, an Engine    *)
(* per creator that has the store as its catalog and its bucket answers    *)
(* payments, and buyers list the dispatches and look each one up.          *)
(*                                                                         *)
(* Each handler holds the one mutex from its first to its last access, so  *)
(* it is one step.  on_note takes the mutex twice, once to look the drop   *)
(* up and once to put the blob: two steps.                                 *)
(***************************************************************************)
EXTENDS Market, FiniteSets

CONSTANTS
  Buyer,         \* buyers, each reading the store at her own pace
  Registration,  \* [creator, ufvk, addr, price, key, content]
  IdSpace,       \* drop ids are below this: 2^64 for a u64
  MaxDrops,      \* bound: registrations taken
  MaxBlobs       \* bound: dispatches published

ASSUME ApiAssumption ==
  /\ {IdSpace, MaxDrops, MaxBlobs} \subseteq Nat /\ IdSpace > 1
  /\ \A r \in Registration :
       /\ r.creator \in {"named", "blank"} /\ r.ufvk \in Ufvk \cup {""}
       /\ r.addr \in {"shielded", "t1", "t3", "tm", "t2", "blank"}
       /\ r.price \in Nat /\ r.key \in Key /\ r.content \in {"hash", "blank"}

VARIABLES
  nextDropId,   \* next_drop_id
  drops,        \* the registered drops, in order
  dispatches,   \* the dispatch records, in order
  engineSeen,   \* Engine.seen of the engine of a creator
  putting,      \* of each engine: the blob on_note is about to put, if any
  fresh,        \* ephemeral keys of sealed boxes drawn so far
  shown,        \* buyer -> the public catalog she has read
  listed        \* buyer -> the records behind the keys she has listed

storeVars == <<nextDropId, drops, dispatches>>
engineVars == <<engineSeen, putting, fresh>>
buyerVars == <<shown, listed>>
apiVars == <<storeVars, engineVars, buyerVars>>

ApiInit ==
  /\ nextDropId = 1 /\ drops = <<>> /\ dispatches = <<>>
  /\ engineSeen = [u \in Ufvk |-> {}] /\ putting = [u \in Ufvk |-> {}]
  /\ fresh = 0
  /\ shown = [b \in Buyer |-> {}] /\ listed = [b \in Buyer |-> <<>>]

-----------------------------------------------------------------------------
\* Faulty: a drop may be given away.
ValidFree(r) ==
  /\ r.creator # "blank" /\ r.ufvk # ""
  /\ r.addr \notin {"t1", "t3", "blank"}
  /\ r.content # "blank"

(* validate_registration, validate_deposit_addr: of the transparent        *)
(* addresses those of the main network are refused; tm and t2, of the test *)
(* network, pass (open_provision refuses all four).                        *)
Valid(r) ==
  /\ r.creator # "blank" /\ r.ufvk # ""
  /\ r.addr \notin {"t1", "t3", "blank"}
  /\ r.price # 0
  /\ r.content # "blank"

\* Faulty: the counter starts over at its end.
RegisterCreatorDropWraps(r) ==
  /\ Len(drops) < MaxDrops
  /\ IF Valid(r)
       THEN /\ nextDropId' = IF nextDropId + 1 < IdSpace THEN nextDropId + 1 ELSE 1
            /\ drops' = Append(drops, [id |-> nextDropId, reg |-> r, active |-> TRUE])
       ELSE UNCHANGED <<nextDropId, drops>>
  /\ UNCHANGED <<dispatches, engineVars, buyerVars>>

(* POST /api/creators/{creator_id}/drops: a valid registration takes the   *)
(* next id; at the last id the counter cannot move and it is refused.      *)
RegisterCreatorDrop(r) ==
  /\ Len(drops) < MaxDrops
  /\ IF Valid(r) /\ nextDropId + 1 < IdSpace
       THEN /\ nextDropId' = nextDropId + 1
            /\ drops' = Append(drops, [id |-> nextDropId, reg |-> r, active |-> TRUE])
       ELSE UNCHANGED <<nextDropId, drops>>
  /\ UNCHANGED <<dispatches, engineVars, buyerVars>>

(* Iterator::find: the first of the positions ns, if there is one.         *)
First(ns) == {n \in ns : \A k \in ns : n <= k}

(* Catalog::lookup: the first active record of the id, if there is one.    *)
Lookup(d) ==
  {drops[n].reg : n \in First({k \in DOMAIN drops : drops[k].id = d /\ drops[k].active})}

(* GET /api/catalog; the order of the entries tells a buyer nothing.       *)
PublicCatalog == {drops[n] : n \in {k \in DOMAIN drops : drops[k].active}}
ListPublicCatalog(b) ==
  /\ shown' = [shown EXCEPT ![b] = PublicCatalog]
  /\ UNCHANGED <<storeVars, engineVars, listed>>

-----------------------------------------------------------------------------
(* What the engine sells for the note at i: the drop its memo names, when  *)
(* it is the creator's own and the value covers the price.                 *)
PaysFor(u, t, i, d) ==
  {r \in Lookup(d) : /\ Notes[t][u][i].memo = "payment"
                     /\ r.ufvk = u /\ Notes[t][u][i].value >= r.price}

\* Faulty: a blob goes by the transaction it answers.
BlobKeyOfTx(t) == <<0, t>>

(* The key of a blob is drawn from the box sealed in it, fresh each time.  *)
BlobKey(t) == <<fresh, t>>

(* on_note with the store as catalog: the txid is marked, then the drop    *)
(* looked up.                                                              *)
OnNote(u, t, i) ==
  /\ putting[u] = {} /\ fresh < MaxBlobs
  /\ i \in NoteIdx(t, u) /\ Notes[t][u][i].memo = "payment"
  /\ engineSeen' = [engineSeen EXCEPT ![u] = @ \cup {t}]
  /\ IF t \in engineSeen[u] THEN UNCHANGED <<putting, fresh>>
     ELSE LET d == Notes[t][u][i].drop
              sold == PaysFor(u, t, i, d)
          IN /\ putting' = [putting EXCEPT ![u] =
                  {[key |-> BlobKey(t), drop |-> d, kDrop |-> r.key,
                    to |-> Notes[t][u][i].ePub] : r \in sold}]
             /\ fresh' = fresh + Cardinality(sold)
  /\ UNCHANGED <<storeVars, buyerVars>>

(* Bucket::put: a record of that key keeps its place.                      *)
PutAt(blob) ==
  IF \E n \in DOMAIN dispatches : dispatches[n].key = blob.key
    THEN [n \in DOMAIN dispatches |->
            IF dispatches[n].key = blob.key THEN blob ELSE dispatches[n]]
    ELSE Append(dispatches, blob)
PutDispatch(u) ==
  \E blob \in putting[u] :
    /\ dispatches' = PutAt(blob)
    /\ putting' = [putting EXCEPT ![u] = {}]
    /\ UNCHANGED <<nextDropId, drops, engineSeen, fresh, buyerVars>>

(* A new engine for the creator: a scan starts over.                       *)
NewEngine(u) ==
  /\ engineSeen' = [engineSeen EXCEPT ![u] = {}]
  /\ putting' = [putting EXCEPT ![u] = {}]
  /\ UNCHANGED <<storeVars, fresh, buyerVars>>

-----------------------------------------------------------------------------
(* GET /api/buyers/dispatch, and /{bucket_key} for each key of the list.   *)
ListDispatchKeys(b) ==
  /\ listed' = [listed EXCEPT ![b] = dispatches]
  /\ UNCHANGED <<storeVars, engineVars, shown>>
LookupDispatch(key) ==
  {dispatches[n] : n \in First({k \in DOMAIN dispatches : dispatches[k].key = key})}

ApiNext ==
  \/ \E r \in Registration : RegisterCreatorDrop(r)
  \/ \E u \in Ufvk : PutDispatch(u) \/ NewEngine(u)
  \/ \E u \in Ufvk, t \in Tx : \E i \in NoteIdx(t, u) : OnNote(u, t, i)
  \/ \E b \in Buyer : ListPublicCatalog(b) \/ ListDispatchKeys(b)

ApiSpec == ApiInit /\ [][ApiNext]_apiVars

-----------------------------------------------------------------------------
(* Ids stay within the counter, what is listed has a price and no address  *)
(* of the kinds refused, and a record of the bucket answers a listed drop. *)
ApiTypeOK ==
  /\ nextDropId \in 1 .. (IdSpace - 1)
  /\ \A n \in DOMAIN drops :
       /\ drops[n].id \in 1 .. (IdSpace - 1) /\ drops[n].active
       /\ drops[n].reg \in Registration
       /\ drops[n].reg.addr \in {"shielded", "tm", "t2"} /\ drops[n].reg.price > 0
  /\ \A n \in DOMAIN dispatches : Lookup(dispatches[n].drop) # {}
  /\ \A u \in Ufvk : engineSeen[u] \subseteq Tx /\ Cardinality(putting[u]) <= 1
  /\ fresh \in 0 .. MaxBlobs

(***************************************************************************)
(* A buyer who pays what the catalog showed her, whenever she read it, is  *)
(* answered with the key of that entry: no later registration, and no id   *)
(* at the end of the counter, stands between the entry and the answer.     *)
(***************************************************************************)
AnsweredAsShown ==
  \A b \in Buyer : \A x \in shown[b], m \in DOMAIN dispatches :
    dispatches[m].drop = x.id => dispatches[m].kDrop = x.reg.key

(***************************************************************************)
(* A key a buyer has listed looks up, however late, the blob that stood    *)
(* behind it when she listed it: no answer to another payment, of the same *)
(* transaction or of one read again by a new engine, takes its place.      *)
(***************************************************************************)
ListedCanBeLookedUp ==
  \A b \in Buyer : \A n \in DOMAIN listed[b] :
    LookupDispatch(listed[b][n].key) = {listed[b][n]}
=============================================================================
