------------------------------ MODULE Scanner -------------------------------
(***************************************************************************)
(* The payment scanner of the drop indexer: run_catalog_loop and what it   *)
(* calls (scan_loop.rs, engine.rs, state.rs MemoryScanState), running      *)
(* beside POST /provision and reading a growing chain through lightwalletd *)
(* (lightwalletd.rs), whose calls may fail, lag or answer in part.         *)
(*                                                                         *)
(* One step of the model is what the loop does between two awaits: the tip *)
(* query, the block-range query, one transaction's query with the          *)
(* detection of its notes, one note, one bucket write.  Provisions, new    *)
(* blocks and a restart of the process interleave with those steps.        *)
(* Blocks are numbered from 1; the height 0 stands for "none".             *)
(***************************************************************************)
EXTENDS CatalogStore

CONSTANTS
  None,          \* no UFVK, no transaction
  BatchSize,     \* A1_SCAN_BATCH_BLOCKS
  StartHeight,   \* A1_SCAN_START, 0 when it is not set
  Unparsable,    \* transactions detect_incoming cannot read
  MaxHeight,     \* bound: blocks mined
  MaxFaults,     \* bound: failed, late or partial answers
  MaxRestarts    \* bound: restarts of the process

ASSUME NoneAssumption == None \notin Tx /\ None \notin Ufvk
ASSUME BoundsAssumption ==
  /\ BatchSize \in Nat \ {0}
  /\ StartHeight \in Nat
  /\ Unparsable \subseteq Tx
  /\ MaxHeight \in Nat
  /\ MaxFaults \in Nat
  /\ MaxRestarts \in Nat

VARIABLES
  \* the chain, behind lightwalletd
  tip,         \* height of the best block
  mined,       \* height of the block a transaction is in, 0 when in none
  \* the dispatch bucket, on disk
  bucket,      \* the dispatch blobs
  nextEk,      \* the next fresh ephemeral key of a sealed box
  life,        \* how often the process has started
  \* states: HashMap<String, MemoryScanState>, one entry per UFVK
  cursor,      \* last_scanned_height, 0 for None
  seen,        \* seen_txids
  \* the pass under way
  pc,          \* where the loop is
  todo,        \* UFVKs of the snapshot this pass has still to visit
  cur,         \* the UFVK being scanned
  start, last, \* the range asked for; then the blocks received
  rest,        \* transactions of the blocks received, still to visit
  engineSeen,  \* Engine.seen
  at,          \* the transaction being processed
  k,           \* the position of its next note
  paid,        \* its summary.dispatches is not empty
  held,        \* the config on_note looked up, as a set of at most one
  \* history
  listedAt,    \* tip when a drop was first provisioned in this life
  opened,      \* first height the first scan of a UFVK asked for, 0 before
  covered,     \* first height a completed scan of a UFVK started from, 0 before
  blank,       \* transactions whose full bytes came back empty
  faults       \* misbehaviours of lightwalletd and the disk so far

chainVars == <<tip, mined>>
bucketVars == <<bucket, nextEk>>
stateVars == <<cursor, seen>>
txVars == <<at, k, paid, held>>
rangeVars == <<cur, start, last, rest, engineSeen>>
passVars == <<pc, todo, rangeVars, txVars>>
histVars == <<listedAt, opened, covered, blank>>
vars == <<catalogVars, chainVars, bucketVars, life, stateVars, passVars,
          histVars, faults>>

Form == {"whole", "torn"}
Blob == [tx : Tx, ufvk : Ufvk, drop : Drop, key : Key, to : EPub,
         ek : Nat, life : Nat, form : Form]

ChainTypeOK ==
  /\ tip \in Nat \ {0}
  /\ mined \in [Tx -> 0 .. tip]

BucketTypeOK ==
  /\ bucket \subseteq Blob
  /\ nextEk \in Nat
  /\ life \in Nat

StateTypeOK ==
  /\ cursor \in [Ufvk -> Nat]
  /\ seen \in [Ufvk -> SUBSET Tx]

RangeTypeOK ==
  /\ pc \in {"idle", "pick", "range", "scan", "notes", "put"}
  /\ todo \subseteq Ufvk
  /\ cur \in Ufvk \cup {None}
  /\ pc \in {"range", "scan", "notes", "put"} => cur \in Ufvk /\ start > 0
  /\ start \in Nat
  /\ last \in Nat
  /\ rest \subseteq Tx
  /\ engineSeen \subseteq Tx

TxTypeOK ==
  /\ at \in Tx \cup {None}
  /\ pc \in {"notes", "put"} => at \in Tx /\ k > 0
  /\ pc = "put" => k \in NoteIdx(at, cur)
  /\ k \in Nat
  /\ paid \in BOOLEAN
  /\ held \subseteq Offers

HistTypeOK ==
  /\ listedAt \in [Drop -> Nat]
  /\ opened \in [Ufvk -> Nat]
  /\ covered \in [Ufvk -> Nat]
  /\ blank \in [Ufvk -> SUBSET Tx]
  /\ faults \in Nat

(***************************************************************************)
(* Every variable has its type, and the locals of the loop are set where   *)
(* the loop uses them.                                                     *)
(***************************************************************************)
TypeOK ==
  /\ CatalogTypeOK
  /\ ChainTypeOK
  /\ BucketTypeOK
  /\ StateTypeOK
  /\ RangeTypeOK
  /\ TxTypeOK
  /\ HistTypeOK

Init ==
  /\ CatalogInit
  /\ tip = 1
  /\ mined = [t \in Tx |-> 0]
  /\ bucket = {}
  /\ nextEk = 0
  /\ life = 0
  /\ cursor = [u \in Ufvk |-> 0]
  /\ seen = [u \in Ufvk |-> {}]
  /\ pc = "idle"
  /\ todo = {}
  /\ cur = None
  /\ start = 0
  /\ last = 0
  /\ rest = {}
  /\ engineSeen = {}
  /\ at = None
  /\ k = 0
  /\ paid = FALSE
  /\ held = {}
  /\ listedAt = [d \in Drop |-> 0]
  /\ opened = [u \in Ufvk |-> 0]
  /\ covered = [u \in Ufvk |-> 0]
  /\ blank = [u \in Ufvk |-> {}]
  /\ faults = 0

-----------------------------------------------------------------------------
(* The environment.                                                        *)

(* A block is mined with some of the transactions not mined yet.           *)
Mine(S) ==
  /\ tip < MaxHeight
  /\ \A t \in S : mined[t] = 0
  /\ tip' = tip + 1
  /\ mined' = [t \in Tx |-> IF t \in S THEN tip + 1 ELSE mined[t]]
  /\ UNCHANGED <<catalogVars, bucketVars, life, stateVars, passVars, histVars,
                 faults>>

(* POST /provision reaches the catalog, whatever the scanner is doing.     *)
Provision(o) ==
  /\ Insert(o)
  /\ listedAt' = [listedAt EXCEPT ![o.drop] = IF Listed(o.drop) THEN @ ELSE tip]
  /\ UNCHANGED <<chainVars, bucketVars, life, stateVars, passVars, opened,
                 covered, blank, faults>>

(* One more fault of lightwalletd or of the disk.                          *)
Fault ==
  /\ faults < MaxFaults
  /\ faults' = faults + 1

(* The loop has nothing of a transaction, or of a range, in its locals.    *)
DropTx ==
  /\ at' = None
  /\ k' = 0
  /\ paid' = FALSE
  /\ held' = {}

DropRange ==
  /\ cur' = None
  /\ start' = 0
  /\ last' = 0
  /\ rest' = {}
  /\ engineSeen' = {}

\* Faulty: the error ends the task of run_catalog_loop as well.
AbortLoop ==
  /\ pc' = "stopped"
  /\ todo' = {}
  /\ DropRange
  /\ DropTx

(* An error leaves scan_catalog_once through `?`: the creators not visited *)
(* yet wait for the next pass; cursor and seen keep what they hold.        *)
Abort ==
  /\ pc' = "idle"
  /\ todo' = {}
  /\ DropRange
  /\ DropTx

(* The process stops and starts again: what is not in the bucket is lost.  *)
Restart ==
  /\ life < MaxRestarts
  /\ life' = life + 1
  /\ CatalogRestart
  /\ cursor' = [u \in Ufvk |-> 0]
  /\ seen' = [u \in Ufvk |-> {}]
  /\ Abort
  /\ listedAt' = [d \in Drop |-> 0]
  /\ opened' = [u \in Ufvk |-> 0]
  /\ covered' = [u \in Ufvk |-> 0]
  /\ blank' = [u \in Ufvk |-> {}]
  /\ UNCHANGED <<chainVars, bucketVars, faults>>

-----------------------------------------------------------------------------
(* scan_catalog_once.                                                      *)

(* run_catalog_loop wakes up; catalog.configs() is read once.              *)
BeginPass ==
  /\ pc = "idle"
  /\ pc' = "pick"
  /\ todo' = ListedUfvks
  /\ UNCHANGED <<catalogVars, chainVars, bucketVars, life, stateVars,
                 rangeVars, txVars, histVars, faults>>

\* Faulty: A1_SCAN_START is not read.
FirstHeightFromTip(u, h) == IF cursor[u] # 0 THEN cursor[u] + 1 ELSE h

\* Faulty: a configured start height wins over the cursor.
FirstHeightFromConfig(u, h) ==
  IF StartHeight # 0 THEN StartHeight
  ELSE IF cursor[u] # 0 THEN cursor[u] + 1 ELSE h

(* The height a scan of u starts from when the tip is h.                   *)
FirstHeight(u, h) ==
  IF cursor[u] # 0 THEN cursor[u] + 1
  ELSE IF StartHeight # 0 THEN StartHeight
  ELSE h

LastHeight(first, h) == IF first + BatchSize - 1 <= h
                        THEN first + BatchSize - 1 ELSE h

(* The next creator in the map's order; current_chain_tip answers with h,  *)
(* below the best block when the server that answers lags.                 *)
OpenRange(u, h) ==
  /\ pc = "pick"
  /\ u \in todo
  /\ \/ h = tip /\ UNCHANGED faults
     \/ h \in 1 .. (tip - 1) /\ Fault
  /\ todo' = todo \ {u}
  /\ IF FirstHeight(u, h) > h
     THEN UNCHANGED <<pc, rangeVars, opened>>
     ELSE /\ pc' = "range"
          /\ cur' = u
          /\ start' = FirstHeight(u, h)
          /\ last' = LastHeight(FirstHeight(u, h), h)
          /\ rest' = {}
          /\ engineSeen' = {}
          /\ opened' = [opened EXCEPT ![u] = IF @ = 0 THEN start' ELSE @]
  /\ UNCHANGED <<catalogVars, chainVars, bucketVars, life, stateVars, txVars,
                 listedAt, covered, blank>>

EndPass ==
  /\ pc = "pick"
  /\ todo = {}
  /\ pc' = "idle"
  /\ UNCHANGED <<catalogVars, chainVars, bucketVars, life, stateVars, todo,
                 rangeVars, txVars, histVars, faults>>

(* current_chain_tip, fetch_block_range or fetch_transaction fails on the  *)
(* primary and on the backup, or with no backup configured.                *)
CallFails ==
  /\ \/ pc = "pick" /\ todo # {}
     \/ pc = "range"
     \/ pc = "scan" /\ rest \ seen[cur] # {}
  /\ Fault
  /\ Abort
  /\ UNCHANGED <<catalogVars, chainVars, bucketVars, life, stateVars,
                 histVars>>

-----------------------------------------------------------------------------
(* scan_once_with_state.                                                   *)

\* Faulty: the range counts as received up to the height asked for.
FetchRangeAssumed(h) ==
  /\ pc = "range"
  /\ \/ h = last /\ UNCHANGED faults
     \/ h \in (start - 1) .. (last - 1) /\ Fault
  /\ pc' = "scan"
  /\ rest' = {t \in Tx : mined[t] \in start .. h}
  /\ UNCHANGED <<catalogVars, chainVars, bucketVars, life, stateVars, todo,
                 cur, start, last, engineSeen, txVars, histVars>>

(* fetch_block_range answers with the blocks start..h: all of the range,   *)
(* or a first part of it, even none, when the stream ends early.           *)
FetchRange(h) ==
  /\ pc = "range"
  /\ \/ h = last /\ UNCHANGED faults
     \/ h \in (start - 1) .. (last - 1) /\ Fault
  /\ pc' = "scan"
  /\ last' = h
  /\ rest' = {t \in Tx : mined[t] \in start .. h}
  /\ UNCHANGED <<catalogVars, chainVars, bucketVars, life, stateVars, todo,
                 cur, start, engineSeen, txVars, histVars>>

(* t is the next transaction: blocks are visited in order of height (the   *)
(* order inside a block is the miner's, any).                              *)
IsNext(t) ==
  /\ pc = "scan"
  /\ t \in rest
  /\ \A s \in rest : mined[t] <= mined[s]

(* has_seen_txid: the transaction is not fetched again.                    *)
SkipSeen(t) ==
  /\ IsNext(t)
  /\ t \in seen[cur]
  /\ rest' = rest \ {t}
  /\ UNCHANGED <<catalogVars, chainVars, bucketVars, life, stateVars, pc,
                 todo, cur, start, last, engineSeen, txVars, histVars, faults>>

(* fetch_transaction answers with no bytes: skipped, like a transaction    *)
(* with no notes, and the cursor will pass it.                             *)
SkipEmpty(t) ==
  /\ IsNext(t)
  /\ t \notin seen[cur]
  /\ Fault
  /\ rest' = rest \ {t}
  /\ blank' = [blank EXCEPT ![cur] = @ \cup {t}]
  /\ UNCHANGED <<catalogVars, chainVars, bucketVars, life, stateVars, pc,
                 todo, cur, start, last, engineSeen, txVars, listedAt, opened,
                 covered>>

\* Faulty: an unreadable transaction is logged and skipped.
DetectSkips(t) ==
  /\ IsNext(t)
  /\ t \notin seen[cur]
  /\ t \in Unparsable
  /\ rest' = rest \ {t}
  /\ UNCHANGED <<catalogVars, chainVars, bucketVars, life, stateVars, pc,
                 todo, cur, start, last, engineSeen, txVars, histVars, faults>>

(* detect_incoming cannot read the transaction: the whole pass fails.      *)
DetectFails(t) ==
  /\ IsNext(t)
  /\ t \notin seen[cur]
  /\ t \in Unparsable
  /\ Abort
  /\ UNCHANGED <<catalogVars, chainVars, bucketVars, life, stateVars,
                 histVars, faults>>

\* Faulty: the notes are counted from 0.
FetchTxFromZero(t) ==
  /\ IsNext(t)
  /\ t \notin seen[cur]
  /\ t \notin Unparsable
  /\ pc' = "notes"
  /\ rest' = rest \ {t}
  /\ at' = t
  /\ k' = 0
  /\ paid' = FALSE
  /\ held' = {}
  /\ UNCHANGED <<catalogVars, chainVars, bucketVars, life, stateVars, todo,
                 cur, start, last, engineSeen, histVars, faults>>

(* fetch_transaction and detect_incoming succeed.                          *)
FetchTx(t) ==
  /\ IsNext(t)
  /\ t \notin seen[cur]
  /\ t \notin Unparsable
  /\ pc' = "notes"
  /\ rest' = rest \ {t}
  /\ at' = t
  /\ k' = 1
  /\ paid' = FALSE
  /\ held' = {}
  /\ UNCHANGED <<catalogVars, chainVars, bucketVars, life, stateVars, todo,
                 cur, start, last, engineSeen, histVars, faults>>

\* Faulty: the cursor moves to the tip.
FinishRangeToTip ==
  /\ pc = "scan"
  /\ rest = {}
  /\ pc' = "pick"
  /\ cursor' = [cursor EXCEPT ![cur] = tip]
  /\ covered' = [covered EXCEPT ![cur] = IF @ = 0 THEN start ELSE @]
  /\ DropRange
  /\ UNCHANGED <<catalogVars, chainVars, bucketVars, life, seen, todo, txVars,
                 listedAt, opened, blank, faults>>

(* The range completed without error: the cursor moves to the highest      *)
(* block received, and stays where it was when none was.                   *)
FinishRange ==
  /\ pc = "scan"
  /\ rest = {}
  /\ pc' = "pick"
  /\ IF last >= start
     THEN /\ cursor' = [cursor EXCEPT ![cur] = last]
          /\ covered' = [covered EXCEPT ![cur] = IF @ = 0 THEN start ELSE @]
     ELSE UNCHANGED <<cursor, covered>>
  /\ DropRange
  /\ UNCHANGED <<catalogVars, chainVars, bucketVars, life, seen, todo, txVars,
                 listedAt, opened, blank, faults>>

-----------------------------------------------------------------------------
(* process_incoming_notes and Engine::on_note.                             *)

HasNote == pc = "notes" /\ k \in NoteIdx(at, cur)
ThisNote == Notes[at][cur][k]

\* Faulty: the value is not compared with the price.
AcceptsUnderpaid(o) ==
  /\ o \in catalog
  /\ ThisNote.memo = "payment"
  /\ ThisNote.drop = o.drop
  /\ o.ufvk = cur

(* The checks of on_note against the config the catalog holds now.         *)
Accepts(o) == o \in catalog /\ NotePays(at, cur, k, o)

(* No memo, a memo that does not decode, or a txid this engine has seen.   *)
SkipNote ==
  /\ HasNote
  /\ ThisNote.memo # "payment" \/ at \in engineSeen
  /\ k' = k + 1
  /\ UNCHANGED <<catalogVars, chainVars, bucketVars, life, stateVars, pc,
                 todo, rangeVars, at, paid, held, histVars, faults>>

(* Unknown drop, another creator's drop, or less than the price: on_note   *)
(* answers None, and the txid is marked in the engine all the same.        *)
RefuseNote ==
  /\ HasNote
  /\ ThisNote.memo = "payment"
  /\ at \notin engineSeen
  /\ ~ \E o \in catalog : Accepts(o)
  /\ engineSeen' = engineSeen \cup {at}
  /\ k' = k + 1
  /\ UNCHANGED <<catalogVars, chainVars, bucketVars, life, stateVars, pc,
                 todo, cur, start, last, rest, at, paid, held, histVars,
                 faults>>

(* The note pays: k_drop is wrapped for the buyer and the write begins.    *)
AcceptNote(o) ==
  /\ HasNote
  /\ at \notin engineSeen
  /\ Accepts(o)
  /\ engineSeen' = engineSeen \cup {at}
  /\ held' = {o}
  /\ pc' = "put"
  /\ UNCHANGED <<catalogVars, chainVars, bucketVars, life, stateVars, todo,
                 cur, start, last, rest, at, k, paid, histVars, faults>>

(* The blob for the note, under a name no other blob has.                  *)
BlobFor(o, w) ==
  [tx |-> at, ufvk |-> cur, drop |-> o.drop, key |-> o.key,
   to |-> ThisNote.ePub, ek |-> nextEk, life |-> life, form |-> w]

Put(o) ==
  /\ pc = "put"
  /\ o \in held
  /\ bucket' = bucket \cup {BlobFor(o, "whole")}
  /\ nextEk' = nextEk + 1
  /\ pc' = "notes"
  /\ k' = k + 1
  /\ paid' = TRUE
  /\ held' = {}
  /\ UNCHANGED <<catalogVars, chainVars, life, stateVars, todo, rangeVars, at,
                 histVars, faults>>

\* Faulty: an error is reported after the blob is in place.
PutFailsLate(o) ==
  /\ pc = "put"
  /\ o \in held
  /\ Fault
  /\ bucket' = bucket \cup {BlobFor(o, "whole")}
  /\ nextEk' = nextEk + 1
  /\ Abort
  /\ UNCHANGED <<catalogVars, chainVars, life, stateVars, histVars>>

(* The write fails, leaving no file or a part of one, and the pass with it.*)
PutFails(o) ==
  /\ pc = "put"
  /\ o \in held
  /\ Fault
  /\ \E B \in {{}, {BlobFor(o, "torn")}} : bucket' = bucket \cup B
  /\ nextEk' = nextEk + 1
  /\ Abort
  /\ UNCHANGED <<catalogVars, chainVars, life, stateVars, histVars>>

\* Faulty: the txid is never marked seen.
FinishTxForgets ==
  /\ pc = "notes"
  /\ k \notin NoteIdx(at, cur)
  /\ pc' = "scan"
  /\ DropTx
  /\ UNCHANGED <<catalogVars, chainVars, bucketVars, life, stateVars, todo,
                 rangeVars, histVars, faults>>

\* Faulty: the txid is marked seen whether or not it was dispatched.
FinishTxAlwaysSeen ==
  /\ pc = "notes"
  /\ k \notin NoteIdx(at, cur)
  /\ seen' = [seen EXCEPT ![cur] = @ \cup {at}]
  /\ pc' = "scan"
  /\ DropTx
  /\ UNCHANGED <<catalogVars, chainVars, bucketVars, life, cursor, todo,
                 rangeVars, histVars, faults>>

(* The notes are done: the txid is marked seen if one was dispatched.      *)
FinishTx ==
  /\ pc = "notes"
  /\ k \notin NoteIdx(at, cur)
  /\ seen' = IF paid THEN [seen EXCEPT ![cur] = @ \cup {at}] ELSE seen
  /\ pc' = "scan"
  /\ DropTx
  /\ UNCHANGED <<catalogVars, chainVars, bucketVars, life, cursor, todo,
                 rangeVars, histVars, faults>>

-----------------------------------------------------------------------------
(* What the loop does when lightwalletd and the disk serve it.             *)
Progress ==
  \/ BeginPass
  \/ \E u \in Ufvk : OpenRange(u, tip)
  \/ EndPass
  \/ FetchRange(last)
  \/ \E t \in Tx : SkipSeen(t) \/ FetchTx(t) \/ DetectFails(t)
  \/ FinishRange
  \/ SkipNote
  \/ RefuseNote
  \/ \E o \in Offers : AcceptNote(o) \/ Put(o)
  \/ FinishTx

(* What goes wrong around it.                                              *)
Trouble ==
  \/ CallFails
  \/ \E u \in Ufvk, h \in 1 .. (tip - 1) : OpenRange(u, h)
  \/ \E h \in (start - 1) .. (last - 1) : FetchRange(h)
  \/ \E t \in Tx : SkipEmpty(t)
  \/ \E o \in Offers : PutFails(o)
  \/ Restart

Environment ==
  \/ \E S \in SUBSET Tx : Mine(S)
  \/ \E o \in Offers : Provision(o)

Next == Progress \/ Trouble \/ Environment

Spec == Init /\ [][Next]_vars

(* The loop is never stopped for good: after an error it sleeps and tries  *)
(* again (run_catalog_loop), so a step it can take it eventually takes.    *)
FairSpec == Spec /\ WF_vars(Progress)

-----------------------------------------------------------------------------
(* What the scanner promises.                                              *)

(* The dispatch of t to creator u was written whole in this life.          *)
Dispatched(t, u) ==
  \E b \in bucket : b.tx = t /\ b.ufvk = u /\ b.life = life /\ b.form = "whole"

(* Note i of t, received by u, pays every price its drop has had since the *)
(* process started, and its drop was on sale before t was mined.           *)
PaidInFull(t, u, i) ==
  /\ mined[t] # 0
  /\ Notes[t][u][i].memo = "payment"
  /\ Listed(Notes[t][u][i].drop)
  /\ listedAt[Notes[t][u][i].drop] < mined[t]
  /\ \A o \in accepted : o.drop = Notes[t][u][i].drop => NotePays(t, u, i, o)

(* The buyer of t is owed a key by creator u.                              *)
Owed(t, u) ==
  /\ t \notin blank[u]
  /\ \E i \in NoteIdx(t, u) : FirstPayment(t, u, i) /\ PaidInFull(t, u, i)

(* The block of t is one the cursor of u says was scanned.                 *)
Passed(t, u) == covered[u] # 0 /\ covered[u] <= mined[t] /\ mined[t] <= cursor[u]

(***************************************************************************)
(* A key is released only for a mined transaction with a note that pays,   *)
(* to the creator who made the offer and at its price at the time, and it  *)
(* is the key of that offer, sealed to the buyer of that note              *)
(* (Engine::on_note), whatever provisions came between lookup and write.   *)
(***************************************************************************)
DispatchIsPaid ==
  \A b \in bucket : b.life = life =>
    /\ mined[b.tx] # 0
    /\ \E o \in accepted, i \in NoteIdx(b.tx, b.ufvk) :
         /\ NotePays(b.tx, b.ufvk, i, o)
         /\ b.drop = o.drop
         /\ b.key = o.key
         /\ b.to = Notes[b.tx][b.ufvk][i].ePub

(***************************************************************************)
(* While the process lives, a transaction gets one whole blob per creator, *)
(* however often passes fail and ranges are scanned again (the two replay  *)
(* guards, ScanState.seen_txids and Engine.seen).                          *)
(***************************************************************************)
DispatchedOncePerLife ==
  \A b, c \in bucket :
    /\ b.life = life /\ c.life = life /\ b.form = "whole" /\ c.form = "whole"
    /\ b.tx = c.tx /\ b.ufvk = c.ufvk
    => b = c

(***************************************************************************)
(* The replay guard never swallows a payment: a txid is marked seen only   *)
(* after a dispatch was produced for it (scan_once_with_state).            *)
(***************************************************************************)
SeenMeansDispatched == \A u \in Ufvk : \A t \in seen[u] : Dispatched(t, u)

(***************************************************************************)
(* The cursor never passes a payment that is owed: failed passes, partial  *)
(* ranges and failed writes leave it behind the block, to be read again.   *)
(***************************************************************************)
NothingOwedIsPassed ==
  \A u \in Ufvk, t \in Tx : Owed(t, u) /\ Passed(t, u) => Dispatched(t, u)

(***************************************************************************)
(* A transaction the indexer cannot read is never counted as scanned: it   *)
(* holds every creator's cursor below its block (the `?` after             *)
(* detect_incoming), so that a later build can still find its payments.    *)
(***************************************************************************)
UnreadableNeverPassed ==
  \A u \in Ufvk, t \in Unparsable : t \notin blank[u] => ~ Passed(t, u)

(***************************************************************************)
(* The first range a creator's scan asks for is the one its coverage       *)
(* starts from: an error on the first pass skips no block.                 *)
(***************************************************************************)
FirstRangeKept == \A u \in Ufvk : covered[u] # 0 => covered[u] = opened[u]

(***************************************************************************)
(* While the process lives, a block once scanned for a creator stays so,   *)
(* and a txid once seen: no lagging server (the backup's tip may be below  *)
(* the one the primary gave), empty range or failed pass moves a cursor    *)
(* back (FirstHeight, set_last_scanned_height).                            *)
(***************************************************************************)
ScannedStaysScanned ==
  [][life' = life => \A u \in Ufvk, t \in Tx :
       /\ Passed(t, u) => Passed(t, u)'
       /\ t \in seen[u] => t \in seen'[u]]_vars

(***************************************************************************)
(* The engine's comment: a blob is published iff the payment is fresh, the *)
(* drop exists and the value is at least the price, for every note.        *)
(***************************************************************************)
EveryPaidNoteDispatched ==
  \A u \in Ufvk, t \in Tx : t \notin blank[u] /\ Passed(t, u) =>
    \A i \in NoteIdx(t, u) : PaidInFull(t, u, i) =>
      \E b \in bucket : /\ b.tx = t /\ b.ufvk = u /\ b.form = "whole"
                        /\ b.drop = Notes[t][u][i].drop
                        /\ b.to = Notes[t][u][i].ePub

(***************************************************************************)
(* With a configured start height, a payment that stays owed is dispatched *)
(* eventually: the loop comes back to it after every error.                *)
(***************************************************************************)
OwedIsDispatched ==
  \A u \in Ufvk, t \in Tx :
    (Owed(t, u) /\ mined[t] >= StartHeight) ~> (Dispatched(t, u) \/ ~ Owed(t, u))
=============================================================================
