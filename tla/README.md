# A verification project for the Unlockable Drop market and its predecessors

The repository is a course log: weeks 1 to 4, `docs/` and `drop_process/` are
text; week 5 and week 6 hold prototypes of a "clean wallet" (an attested scan
of a wallet's history); week 7 holds the program the course ends with, the
Unlockable Drop market, and week 8 its deployment. This project models the
market (`src/week7/drop`), where the concurrency, the crashes and the money are,
and the scanners of the clean wallet (`src/week5`, `src/week6`), which decide
what an account is said to have paid. Paths below are relative to
`src/week7/drop` unless they start with `src/` or `week`.

**The market.** A creator encrypts a file under a fresh key `k_drop`, uploads the
ciphertext, and hands the key to an enclave. A buyer pays the creator in a
shielded Zcash transaction whose memo names the drop and the buyer's one-time
public key. The enclave watches the chain with the creator's viewing key (UFVK),
and for each payment publishes `k_drop` sealed to the buyer's one-time key. The
buyer polls, opens the blob and decrypts the file.

**The clean wallet.** An exchange names a policy (a range of blocks, a set of
sanctioned addresses, a code measurement). A wallet gives its viewing key to a
scanner in an enclave, which reads the range, finds whom the account paid, and
signs PASS or FAIL for one deposit; the exchange checks what was signed.

## 1. Inventory

| Part | State it keeps | Operations | What is hard about it |
|---|---|---|---|
| Payment scanner, `indexer/src/scan_loop.rs`, `engine.rs` | per creator: cursor and seen txids (memory); per pass: range, engine guard | a pass: tip, range, transaction, note, bucket write | a pass can fail between any two awaits and is repeated from the cursor; the catalog changes under it; a restart forgets everything |
| Scan state, `state.rs` | last height, seen txids; an encrypted file for `scan-live` | load, save (temporary file and rename) | a run ends between dispatch, write and rename; runs with different ranges share the file |
| `bin/scan-live.rs` | one run: range, transactions left | read a range, dispatch, save | explicit ranges against the cursor, late and partial answers |
| API vectors, `api.rs` | id counter, drops, dispatches, under one mutex; engines beside it | register, list, look up, put | `on_note` takes the mutex twice; the counter at its end |
| Catalog, `catalog.rs` | drop id -> offer, in memory | insert, lookup, configs, public_entries | two creators race for an id; re-provision at another price or key |
| Provisioning, `provision.rs`, `attest.rs`, `dstack.rs`, `server.rs` | the sealing key of the build | `/attest`, `/provision`, `/bucket`, `/dispatch`, `/catalog` | requests handled after their sender gave up; redeployment in between |
| Buckets, `bucket.rs` | files | put (in place), get, list | a reader meets a half-written file |
| Detection and memos, `detect.rs`, `memo.rs` | none | decrypt notes, decode memos | several notes in one transaction |
| lightwalletd client, `lightwalletd.rs` (weeks 5 and 7) | none | tip, block range, transaction, fail-over | lagging tips, streams that end early, empty answers, a second attempt |
| Buyer's page, `buyer/src` | React state, `localStorage`, the poller's `tried` set | buy, cancel, keep, poll, unlock, reload | overlapping polls, results that outlive their purchase, two tabs, a reload |
| Creator's page, `creator/src` | stage of the form | encrypt and upload, attest, provision | time-outs without recall, sending again, redeployment |
| Side-car of week 6, `zcash-scanner-rs` | the checker's next height and hash, the account's coins, the records | stream, check, fetch, decrypt, record; `scan-incoming` | the chain moves, the stream skips or repeats; compact targets at the ends of the exponent; coins followed across transactions |
| Scanner service of week 5, `clean-wallet-mvp/apps/scanner` (repeated in mvp3) | the scan lock | screen, evaluate, quote, attestation | a lock across awaits and lost connections; a second attempt at the backup; redeployment between scan and quote |
| Exchange of week 5, `clean-wallet-mvp3/apps/web` | none (records of a table) | verify-quote, verify-bundle | artifacts altered or out of another context |
| Readers of a range: mvp2 `zcash_scanner`, `ivk-incoming-probe`, `probe-ufvk` | none | fetch a range, print what was received | as the side-car, with fewer checks |
| Deployment, quote library, week 6's service, artifact and web | | | not modelled (section 8) |

How they interact: the creator's page calls `PUT /bucket/:h`, `GET /attest`,
`POST /provision` in this order. The catalog is shared, under a lock, by the
HTTP handlers and the scanner task. The scanner reads lightwalletd and writes
the dispatch bucket. The buyer's page only reads: `GET /catalog`,
`GET /dispatch`, `GET /dispatch/:key`, `GET /bucket/:h`. `scan-live` and
`probe-ufvk` are run by hand against the same lightwalletd. The clean wallets
share nothing with the market but the design.

What makes each part correct: the scanner releases a key only for a payment,
loses none it owes and repeats none; the state file always opens and never
forgets; the catalog never moves a drop to another creator; provisioning tells a
key to no build but the pinned one and lists nothing whose content is missing;
the buyer's page shows only its own unlock, and gets to it; a scan that answers
has read its whole range on one chain; an accepted artifact was computed, for
this deposit, by a build of the measurement the policy expects. `PROJECT.json` lists, under "hazards", where
each of these can go wrong, and which property watches the place.

## 2. Modules

| Module | Models | Extends |
|---|---|---|
| `Market` | the data: transactions and their notes, offers, when a note pays | |
| `CatalogStore` | `catalog.rs` | `Market` |
| `Scanner` | `run_catalog_loop` down to `Engine::on_note` and `FsBucket::put`, beside provisions, a growing chain and restarts | `CatalogStore` |
| `DispatchLedger` | the abstract promise: one release per confirmed, paid transaction and creator | `Market` |
| `ScannerRefinement` | the refinement mapping from `Scanner` to `DispatchLedger` | `Scanner` |
| `ScannerInv`, `ScannerProofs` | the inductive invariant `IInv`, and the proofs about `Scanner` | `ScannerRefinement` |
| `ScanLive` | `scan-live` and `EncryptedFileScanState` | `Market` |
| `ScanLiveProofs` | the proofs about `ScanLive` | `ScanLive` |
| `ApiVectors` | `api.rs`, with the engines that use it | `Market` |
| `ApiVectorsProofs` | the proofs about `ApiVectors` | `ApiVectors` |
| `Buyer` | `App.tsx`, `poller.ts`, `persist.ts` and the bucket they read | |
| `BuyerProofs` | the proofs about `Buyer` | `Buyer` |
| `Sale` | creator's page, `/bucket`, `/attest`, `/provision`, redeployment, and a sale to its end; the scanner as what it promises | `CatalogStore` |
| `SaleRefinement` | the refinement mapping from `Sale` to the same `DispatchLedger` | `Sale` |
| `SaleProofs` | the proofs about `Sale` | `SaleRefinement` |
| `CompactTarget` | the arithmetic of `PowVerifier`: a hash against a compact target | |
| `CompactTargetProofs` | what that arithmetic stands for, proved | `CompactTarget` |
| `BlockScan` | the week 6 side-car and `scan-incoming`; mvp2's scanner; the two probes | `CompactTarget` |
| `BlockScanProofs` | the proofs about `BlockScan` | `BlockScan`, `CompactTargetProofs` |
| `Screening` | the scanner service of week 5 and the exchange's checks | |
| `ScreeningProofs` | the proofs about `Screening` | `Screening` |
| `MCScanner`, `MCBuyer`, `MCSale`, `MCBlockScan`, `MCScreening` | instances for TLC | their module |
| `MCLive`, `MCCleanWallet` | two instances side by side: `ScanLive` and `ApiVectors`, `BlockScan` and `Screening` | |

`MCLive` and `MCCleanWallet` pair two components that share no state; `which`
picks the one a behaviour exercises, so that the states add up and do not
multiply.

Operators under a comment that begins "Faulty:" are not part of any
specification: each is a definition with a plausible bug in it, kept to show
that a property notices.

### Market and CatalogStore

A transaction is its txid, which commits to its contents; so the notes a viewing
key finds in it are a constant, `Notes[t][u]`. A memo is what `decode_memo`
makes of it. An offer is a provision payload `[drop, ufvk, price, key]`; `key`
stands for the pair of `k_drop` and content hash. The catalog's `HashMap` is the
set of the offers in force. `Insert` carries the ownership rule of
`CatalogStore::insert`; a restart empties the map (`catalog.rs:14`).

### Scanner

A step is what the task does between two awaits:

| Action | Code |
|---|---|
| `BeginPass`, `EndPass` | `run_catalog_loop` wakes, `catalog.configs()` is read once / the pass is over |
| `OpenRange(u, h)` | `current_chain_tip` answers `h` (lagging: a fault), the range of creator `u` is computed |
| `FetchRange(h)` | `fetch_block_range` answers blocks up to `h` (short: a fault) |
| `SkipSeen`, `SkipEmpty`, `DetectFails`, `FetchTx` | the four ways the loop goes on with the next transaction |
| `SkipNote`, `RefuseNote`, `AcceptNote` | one note: no payment memo or guarded; refused; accepted |
| `Put`, `PutFails` | the bucket write, which may fail leaving nothing or a torn file |
| `FinishTx`, `FinishRange` | `mark_seen_txid` / `set_last_scanned_height` |
| `CallFails` | an error of lightwalletd on both endpoints ends the pass |
| `Mine`, `Provision`, `Restart` | the environment, at any moment |

The replay guard of the engine is marked before the catalog is consulted, as in
`engine.rs:82`; `AcceptNote` looks the offer up, `Put` writes later, and
provisions come in between. `listedAt`, `opened`, `covered`, `blank` are history
variables: they record, for the properties, when a drop was first listed, where
a creator's scan began, and which transactions lightwalletd answered with no
bytes (the code skips those, `scan_loop.rs:186`).

### Buyer

One tab is a purchase, an unlock, a polling flag and "keep on this device"; the
polls under way (`tick`) each carry the purchase they captured, whether the
effect that started them is still mounted (`alive`), and whether their poller is
still the tab's (`mine`). A poll's steps are its awaits: the list, one blob, the
content. Tabs share `stored` (`localStorage`). A file of the bucket is absent,
partial or whole. A state update of React and the effects that depend on it are
one step. `late` in `Reload` means that 24 hours have passed since the save.

### Sale

An offer is one run of the creator's form, which draws its own key. Uploads and
posts leave the page and may be handled at any later time, or never. `Submit`,
`Uploaded`, `Attested`, `Provisioned`, `StageFails` are the stages of `submit()`
in `main.tsx`; `HandleUpload`, `HandlePost`, `RefusePost` the handlers, which
answer posts with 200, 400 or 409 (`replies`). `RefusePost` may refuse any post:
one that opens is answered with 400 when its address or viewing key is not
taken, and the model does not tell which are. A build is an image with its own measurement and sealing key; `Restart` may deploy the
next. `trusted` and `known` are histories: which build a creator pinned for a
key, and which build has opened it. The scanner appears as `AnswerPayment`: the
first payment note of a transaction, judged against the catalog of the moment,
at most once a life. It need not get to every payment: `ScannerMisses` puts one
into `unread` that this life of the process will not answer, because without a
start height the range may begin above it (`scan_loop.rs:303-307`), lightwalletd
answers with no bytes (`scan_loop.rs:186`), a transaction before it does not
parse (`scan_loop.rs:190`), or its drop was not listed when it was read;
`Restart` either reads the chain again (a start height is configured) or misses
all that is on it. A blob is put in place, so that a page which polls at that
moment may mark it tried (`skipped`, as `Buyer` shows in detail); `Reload` makes
a new poller. That the scanner gets to what it can read, and the page to what it
has not skipped, is what `Scanner` and `Buyer` show; that both keep the same
ledger of releases is what `SaleRefinement` and `ScannerRefinement` state.

### ScanLive

A run of the tool goes through the stages `tip`, `range`, `scan`, `save`,
`rename`. `disk` is the state file and `tmp` the temporary one beside it; a file
is what it says, the key it was sealed with and whether it is whole.
`RunStops` ends the run at any stage: an error leaves `main`, or the process
dies; what `bucket.put` has printed stays. `FirstOf` and `LastOf` are the
defaults of `A1_SCAN_START` and `A1_SCAN_END`. `jumped` records what an
explicit start passed over, `empty` what came back with no bytes.

### ApiVectors

Each handler is one step under the store's mutex. `Engine::on_note` takes it
twice: `OnNote` marks the txid and looks the drop up, `PutDispatch` stores the
blob. `IdSpace` is 2^64 in the code and 4 in the instance, so that the counter
meets its end. An address is one of its kinds: shielded, `t1`, `t3`, `tm`, `t2`,
blank; `Valid` refuses what `validate_deposit_addr` does, which lets the testnet's
transparent `tm` and `t2` through. `shown` and `listed` are what a buyer has read, and may be
arbitrarily old.

### BlockScan and CompactTarget

Two chains share their blocks below `ForkAt`; `Reorg` moves lightwalletd from one
to the other, `Arrives` lets its stream skip or repeat a block, with its header,
none, or another's. A process serves one request: `Start`, the `Open...` of its
tool, `Receive` (`CompletenessChecker::add_block`) or `Keep`, the end of the
stream, `Fetch...` for each transaction in the order of the chain, `Finish...`.
mvp2 keeps the blocks and links them afterwards (`LinkBlock`); the probes check
nothing but that there are blocks at all. A transaction is what decryption and
parsing tell of it (`Body`): whether its bytes parse, with the branch id of a
later upgrade or not at all, its shielded outputs, coins in and scripts out.
`ScanError` is any `?` on the way.

`CompactTarget` is byte arithmetic over `Base` and `Width` (256 and 32 in the
code); 4 and 4 in the instance bring the exponents below, at and above the
mantissa's three bytes and beyond the array into reach. `NumberOf` and
`CompactNumber` are the reference: the numbers the two encodings stand for.
`Power` is a function and not `^`, so that it can be reasoned about.

### Screening

`Screen` is `scan_lock.try_lock` and the checks before the first await; then one
action per await: `TipArrives`, `RangeArrives`, `TxArrives`, `QuoteArrives`.
`CallFails` is `with_failover`: the first failure moves the call to the backup,
which lags and for which `fetch_block_range` starts anew; the second is the
answer. `Disconnect` drops the handler, and its guard, at an await; `Redeploy`
starts the next image. The wallet may present any artifact it received, altered
or not (`Edited`), with any quote that was ever signed, for any policy and
deposit; `VerifyBundle` is what the exchange checks. The measurement of a quote is
its MRTD (`verify-quote/route.ts:25`), which images on one base have in common, so
that `Measure` maps two builds of the instance to one value; it is compared only
if the policy has one (`expected`, else `None`; `verify-bundle/route.ts:45-48`).
An outgoing payment is named by its place, `<<<<h, j>>, k>>` for the `k`-th
recipient of the `j`-th transaction of block `h`; `PaymentsIn` is the set of the
places whose recipients `extract_outgoing_recipients` finds, and an artifact
counts them.

## 3. Runs

| Run | States | Asks | Shows |
|---|---|---|---|
| `rescan` | 203 589 | two faults of any kind, a payment and an underpayment followed by one, a price that is lowered, three blocks, fairness of the loop | no double dispatch, every key paid for, seen only what was dispatched, nothing owed passed, the first range kept, nothing scanned is unscanned, what stays owed is dispatched |
| `restart` | 342 669 | a restart, a fault, a transaction nobody can parse, two creators paid by one transaction who both want one drop | types, ownership, unreadable transactions hold the cursor, refinement of `DispatchLedger` |
| `page` | 112 156 | two overlapping polls, reload, fault, blobs read half-written, a payment answered twice | the page's four invariants, and that it unlocks |
| `sale` | 357 608 | two forms, a rival, a restart or redeployment, one buyer, refused and late posts, payments the scan misses, blobs read half-written | types, content stored, key only to the pinned build, reported drops stay listed, paid is opened and nothing else is, refinement of `DispatchLedger` |
| `live` | 234 474 | three runs of `scan-live` out of five kinds, ending anywhere, one lagging, partial or empty answer; four registrations, two engines, an id counter at its end | the state file opens and never forgets, nothing good is passed, saved runs are not repeated; buyers are answered as the catalog showed, and what they listed can be looked up |
| `screening` | 521 405 | the side-car and its relatives with two breaks of the stream or the chain; the service with two connections, two faults, three builds on two bases, policies with and without a measurement | complete on one chain, accepted blocks have their work, records are what is owed; lock, counts and what the exchange accepts |
| `twonotes`, `latestart` | | violations in `Scanner` | section 5 |
| `tabs`, `torn` | | violations in `Buyer` | section 5 |
| `resend` | | violation in `Sale` | section 5 |
| `transparent` | | violation in `BlockScan` | section 5 |

Deadlock is checked in the runs of `Scanner`, whose loop never stops, and in
`screening` and `transparent`, where a tool can always be started again.
`Buyer`, `Sale` and `live` switch the check off: a page whose purchase is
unlocked, a sale whose clicks are spent, a tool run as often as its bound
allows, has nothing to do.

**Bounds.** `MaxHeight`, `MaxFaults`, `MaxRestarts`, `MaxBuilds`, `MaxTicks`,
`MaxStarts`, `MaxReloads`, `MaxRuns`, `MaxDrops`, `MaxBlobs`, `MaxBreaks`,
`MaxClock`, `MaxTip`, `MaxRequests` are guards of the actions that count up.
Three blocks with a batch of two give ranges that are full, cut short and empty,
and a second range behind a failed first one. Two faults let a retry fail as
well, at both endpoints. One restart separates two lives, which is all that
properties about "this life" and the last one can tell apart. Two polls overlap
as any number does: a poll acts on the others only through `tried`, `alive` and
`stored`. Three offers let an owner replace her own drop and a rival try. Three
runs of `scan-live` let one end early, one repeat it and one judge both. Two
breaks let a block be lost and another make up the count, or the chain move and
move back. Two requests are enough for one to meet the other's lock and for an
artifact to be presented with the other's quote. The proofs hold without any of
these bounds being small.

`MaxStarts = 1` matters: with two clicks on Buy under way, `StoredIsActive` is
false, because the second `startPurchase` replaces the first purchase and saves
it only if `remember` was set at its own click (`App.tsx:128`); and
`NoBlobWrittenOff` is false, because no click drops the poller between the two
purchases, so that a poll begun for the first may try the second one's blob with
the wrong key and mark it tried. `OnlyOwnUnlock` fails then as well, but only
with two tabs, when the second reloads and pays for a purchase that the first is
about to replace. No document claims otherwise; it is listed as a
hazard.

## 4. Properties

* `DispatchIsPaid`, `DispatchedOncePerLife`, `SeenMeansDispatched`,
  `NothingOwedIsPassed`: the scanner's safety. "Owed" is precise: the first note
  of the transaction with a payment memo names a drop that was listed before
  the block was mined, and pays every price the drop has had since the process
  started.
* `FirstRangeKept`, `UnreadableNeverPassed`: what a failed pass leaves behind.
* `DropKeepsOwner`: no sequence of provisions moves a drop to another creator.
* `ImplementsLedger`: all of the above as one abstract machine; retries, faults
  and torn writes are stutters of it.
* `ScannedStaysScanned`: an action property. No step of a life moves a cursor
  back or forgets a txid, although the tip is asked for anew in each pass and the
  backup's may be lower.
* `OwedIsDispatched`: liveness, with a configured start height.
* `StateNeverForgets`, `SavedNotRepeated`, `NothingGoodIsPassed`: `scan-live`
  over several runs. The second names its exception: a run that published and
  ended before its rename is repeated, as `scan-live.rs` puts before it saves.
  The third excludes heights an explicit start jumped over.
* `AnsweredAsShown`, `ListedCanBeLookedUp`: what a buyer read of the in-memory
  store, however old, stays true.
* `UnlockIsOfPurchase`, `NoBlobWrittenOff`, `StoredIsActive`, `PaidIsUnlocked`:
  the buyer's page.
* `ListedContentIsStored`, `KeyOnlyToPinnedBuild`: the order of upload and post,
  and who learns a key. `ReportedStaysListed`: what the page reports as provisioned
  is listed as its creator's while the process that answered lives, although
  rivals and late posts of the same drop come after it.
* `PaidIsOpened`: the end of a sale for the buyer. Its exceptions are those of the
  code: the offer is replaced, the scan misses her payment in this life
  (`Missed`), or her page has marked the blob as tried and is not loaded again
  (`Skipped`). `OpenedIsPaid` is its end seen from the creator: who
  opens content has confirmed payment of its price to its creator, for the very
  offer she bought. `SaleKeepsLedger`: the indexer the two pages meet is the
  abstract ledger.
* `CompleteOnOneChain`, `AcceptedHaveWork`, `RecordsAreOwed`: the readers of a
  range. `RecordsAreOwed` compares the tracker's running set of coins with a
  second look at the whole range.
* `ScanHoldsLock`, `CountsEachPaymentOnce`, `AcceptedWasScanned`: the service of
  week 5 and the exchange.

**Fairness.** `run_catalog_loop` catches every error of a pass, sleeps and
starts again, so `WF(Progress)` in `Scanner`: a step the loop can take without a
fault it eventually takes. `setInterval` starts polls for ever and a request is
answered or fails, so `WF(PollStep)` for each poll of a tab in `Buyer`. In
`Sale`, `WF` of `AnswerPayment`, for each transaction and creator, is what
`OwedIsDispatched` gives for a payment the scan comes to read, and `WF` of `Open`,
for each buyer, what `PaidIsUnlocked` gives for a blob she does not skip. Either is
cut off at any time by `ScannerMisses`, or a `Put` that is read half-written, which
disable the action; the runs `latestart` and `torn` show that both happen. No
fairness is assumed of `Reload`, which a buyer need not do. No fairness is assumed of clicks, payments,
blocks, provisions or requests. Faults are finite in number; that is what
`MaxFaults` says in a liveness run. `ScanLive`, `BlockScan` and `Screening` have
no liveness property: a tool may end in an error at any step, and no call of the
service has a time limit.

## 5. Where the code and its documents disagree

* `twonotes`: `engine.rs:79` says a blob is published iff the payment is fresh,
  the drop exists and the value is enough. The guard is per txid and is taken by
  the first note that decodes; if that note underpays, a later one that pays in
  full is dropped, and the cursor passes the block.
* `latestart`: `scan_loop.rs:43` says a new creator's scan starts at the current
  tip. As nothing remembers that height until a range has completed, each
  failed first pass moves the start forward, and the blocks in between are
  never read although the log says that the pass is retried.
* `tabs`: `persist.ts:1` says a refresh does not forfeit the active purchase.
  All tabs share one key, so a second tab's purchase, cancel or unlock removes
  the first tab's.
* `torn`: `seal.ts:5` takes a blob that does not open for a blob of someone
  else. `FsBucket::put` writes in place; a poll that reads the buyer's own blob
  half-written marks it tried, and the page unlocks only after a reload.
  (`PaidIsUnlocked` and `NoBlobWrittenOff` name this exception, `short`.)
* `resend`: `provision.rs:11` says that sending a drop again is safe because the
  catalog overwrites. The form draws a new key each time; a buyer who bought
  from the earlier listing is answered with the new key, which does not open
  what she bought.
* `transparent`: `week6/clean-wallet/docs/architecture.md:260` says that a
  payment from a transparent coin of the account counts as outgoing. The range
  is asked for without pool types, and such a stream names no transaction
  without a shielded part; that payment is never fetched.

Observed while modelling, and no claim of a document against them, so no run:
the side-car records nothing for a shielded-to-transparent payment whose only
shielded output is change, unless it spends a coin it knows; coins received
before the range are unknown (`lib.rs:328` says so); week 5's range may end one
block above the tip (`apps/scanner/src/scan.rs:74`), and `completedAtUnix` is
the time the request began; the probes never ask whether the range they print is
complete; week 6's service screens against an overriding list of addresses while
the policy hash names the demo list.

Three more are disagreements of wording, found where a definition had to choose.
`api.rs:313` says that a deposit address "must be shielded" but refuses the
prefixes `t1` and `t3` only; `provision.rs:30` names `tm` and `t2` transparent as
well, and refuses all four. `verify-bundle/route.ts:56` reports "code measurement
matches policy" also when the policy expects none; and what it compares is MRTD,
which `spike3/RUNBOOK.md:12` calls the shared dstack base image, so that a match
does not tell the builds on one base apart. `indexer/DEPLOY.md:53` and
`provision.rs:12-13` tell creators to compare the `Mrtd`, while `qvl-verifier.ts:50`
and `:61` return RTMR3 (as `DEPLOY.md:13` has it): a creator who pins what these documents say is refused by
`verifyAttestationOrThrow`; with RTMR3 pinned, `KeyOnlyToPinnedBuild` holds.

## 6. Proofs

The theorems hold for every value of the constants, under the named assumptions
of the modules: `NotesAssumption`, `OffersAssumption` (notes and offers have
their types), `NoneAssumption` (`None` is nothing else), `BoundsAssumption` (the
bounds are natural numbers, the batch is not zero), `BlobAssumption` (a blob is
an answer to a purchase), `LiveAssumption`, `ApiAssumption`,
`ScreeningAssumption` and `BlockScanAssumption` (types of the inputs, of the
chain and of addresses), and `ChainAssumption` (on one chain no coin is spent
twice, and none before the transaction that makes it: what consensus
guarantees). No constant is assumed finite or small, but for `MaxStarts` and
`Tab` where a theorem about `Buyer` says so. The theorems with a hypothesis of
their own (`ASSUME` in their statement) are named below with it.

**Scanner.** `TypeCorrect` is inductive as it stands. The safety properties are
not. `NothingOwedIsPassed`, for one, says nothing of a range half scanned; the
step that moves the cursor needs to know that every owed transaction of the
range that is neither in `rest` nor in hand has been dispatched (`CoverInv`).
That needs, of the transaction in hand, that the notes before position `k` were
judged: if the engine's guard is open, none of them was a payment
(`JudgeInv`), and between lookup and write the offer held is one that was
accepted and is paid by this note (`TxInv`). `DispatchedOncePerLife` needs
that a dispatched transaction is in `seen`, or is the one in hand (`ReplayInv`).
`RangeInv` ties the range to the cursor, `CatalogInv` the catalog to its
history. `IInv` is their conjunction: `InvInit`, `InvNext` (one lemma per part,
one step per action), and `Inductive` by temporal induction. From it follow
`OwnersKept`, `KeysArePaidFor`, `NoDoubleDispatch`, `SeenIsDispatched`,
`NoPaymentLost`. Owed-ness can only shrink as prices change and drops come to
be listed later (`OwedShrinks`); that is what carries `CoverInv` across a
provision.

`IInv` was checked with TLC in the instance of `restart` before it was proved;
it is no property of a run, since it says more than any of them and a fault
would be reported there first.

**The cursors.** `ScannerProofs` adds two parts to `IInv`. `UnreadInv`:
what nobody can parse is never taken in hand, so it is never in `seen`, and
behind the point a range has been scanned to it came with no bytes; then
`UnreadableHoldsCursor`. `FirstInv`: until a first range is completed every range
starts at the configured height; then `FirstRangeIsKept`, under the assumption
that a start height is configured. Without one the first range starts at the
tip, which moves while passes fail: that is the run `latestart`.

`NothingIsUnscanned` is `ScannedStaysScanned`. By `RangeInv` a range of a creator
who has a cursor begins just above it, and the cursor is moved only to the end of a
range that is not empty (`CursorsMoveOn`); with that, and a chain that only grows
(`MinedStays`), what was passed stays passed.

**Refinement.** `Refinement` proves `Spec => ImplementsLedger`: initial states
map to initial states, `Mine` to `Confirm`, `Provision` to `Promise`, `Restart`
to `Forget`, `Put` to `Release` (it needs `IInv`: paid, not released before),
every other step to a stutter.

**Sale.** `SaleInv` follows the form: one past its upload has its content
stored, one under way is trusted to the build it expects, and so is every post
in flight, for ever (`FormInv`, `PostInv`). Those two carry
`ListedContentIsStored` and `KeyOnlyToPinnedBuild` through late requests and
redeployments. `ReportedDropsStayListed` is `ReportedStaysListed`: `ReplyInv` says
that a 200 of this life, in flight or reported, is for a drop its creator holds
(`Holds`); no insertion takes a drop from its holder, whoever's post it is
(`InsertHolds`), and a restart begins a life no reply is of. `SaleTypeCorrect` is
the type invariant.

`SaleImplementsLedger` maps `Sale` to the ledger that `Refinement` maps
`Scanner` to: a payment is `Confirm`, an accepted post `Promise`, a restart
`Forget`, an answer `Release`, and every click, upload and redeployment a
stutter. `LedgerInv` says that what is listed was accepted since the process started,
that every drop accepted is listed still, under one owner, and that answers
are of this life or an earlier one; so the owner the handler reads off the catalog
is the owner the ledger remembers (`InsertPromises`).

`OnlyPaidIsOpened` is `OpenedIsPaid`. A key is drawn for one run of the form, so
it names its offer among all that a form holds, a post carries or the catalog
ever took (`KeyInv`); a buyer wants only what was listed once, and every answer
has its payment on the chain (`BuyInv`). So a key that opens a purchase is the key of the offer that was
bought, and somebody paid for it under this buyer's key. Prices, rivals, late
posts and lost memory do not enter the argument.

**BlockScan.** `ScanIsComplete` is `CompleteOnOneChain`. The inductive invariant
`CheckerInv` says of what the checker has accepted that it lies on one chain
from the start of the range on, that `expected` counts it and `prev` is its last
block. Below the fork the two chains agree, so which one is not settled until a
block above it arrives: `FittingBlock` shows that the branch the next block came
from serves for all the others, because chains that agree on a block agree on
every one below it (`SharedBelow`). `finalize` counts the blocks, which with the
heights makes the range complete.

`RecordsAreComplete` is `RecordsAreOwed`. `RecordInv` says, at any point of the
walk over the range, that the records are what the transactions already read owe
(`OwedBy(Done)`), that the tracker's coins are those they made and did not spend
(`Coins(Done)`), and that they come before all that is left. The definition looks
at a transaction's own inputs across the whole range, the code at the set of
coins it has left; the two agree (`PlacesOnChain`) only because a coin is not
spent twice nor before it is made, which is `ChainAssumption`.
`ScanTypeCorrect` is `ScanTypeOK`.

**Work.** `AcceptedBlocksHaveWork` is `AcceptedHaveWork`: the number a header's
hash stands for is not above the number its `nBits` stands for. Its invariant,
`WorkInv`, only says that what was accepted passed `PowVerifier`; the substance
is the arithmetic, in `CompactTargetProofs`, for every base above one and every
width of at least three bytes. `TargetStandsForBits`: the bytes that
`compact_to_target` writes, shifted by the exponent and cut off where the array
ends, are the mantissa times the base to the exponent less three.
`LessComparesNumbers`: comparing two arrays from the top byte down is comparing
the numbers. Both are sums over the bytes and need induction, which the library
states only with an operator for the property. `LeastNumber` replaces it: a
non-empty set of naturals has a least element, so that the set of the lengths for
which a claim fails is empty if it has no least one (`InductUpTo`); `Recursion`
unfolds the functions.

**ScanLive.** `StateIsKept` is `StateNeverForgets`. `FileInv` carries it: a run
with a state file holds the file's key, what it has in memory contains what the
file lists, and at `rename` the temporary file is the memory, sealed whole. It
rests on the authenticated cipher: a run under another key gets no further than
`load_or_default`. `NoGoodPaymentPassed` needs `PassedInv`: what a run with a
file has loaded or visited is published, and at the end of its range nothing is
left to visit; `BoundInv` keeps the cursor on the chain. `SavedRunsNotRepeated`
needs `RepeatInv`: what saved runs published is in the file, and what the run
under way published is in its memory. `LiveTypeCorrect` is `LiveTypeOK`.

**ApiVectors.** An entry read long ago stays true because ids are given out once
(`IdInv`, up to the end of the counter, where registration fails), drops are
never removed, and every box, written or about to be, is of a listed drop and
holds its key (`SellInv`): `EntriesStayTrue`. A listed key stays good because
the key of a box was drawn for it alone (`KeyInv`) and the bucket only grows
(`ListedInv`): `KeysStayTrue`. `StoreTypeCorrect` is `ApiTypeOK`.

**Buyer.** `PageInv`: a mounted poll is of the pending purchase of its tab, what
has been opened was paid for, and a click on Buy is under way only while the
catalog is shown. It gives `OnlyOwnUnlock` for any number of tabs, polls and
faults. `CareInv` gives `NothingWrittenOff`: of the whole blobs of a pending
purchase one is untried, or was read too early, or is in the hands of a mounted
poll, and such a poll never ends without showing it. Both assume one click under
way at a time. `KeptWhilePending` assumes also that there is one tab: tabs share
`localStorage`, and with two the run `tabs` shows what is lost.
`PageTypeCorrect` is the type invariant and assumes neither.

**Screening.** `LockIsHeld` is `ScanHoldsLock`, `AcceptedArtifactsScanned` is
`AcceptedWasScanned`. Every action of a handler is one of two kinds: it moves on
and keeps the lock, or answers and frees it (`MovesKeep`, `AnsweredKeeps`).
`QuoteInv`: a handler that waits for its quote holds what the running build has
computed, because a redeployment drops the handlers with their build.
`SignedInv`: hence a quote that names an artifact has the measurement of the build
that computed it; report data of the other kinds name none.

`ArtifactsCountOnce` is `CountsEachPaymentOnce`. `CountInv` says of a handler
that its blocks are the policy's range in ascending heights (`InOrder`), and that
`raw` holds exactly the places of it that were fetched and did not come back
empty (`Read`). When nothing is left to fetch, the records of the artifact and
the payments of the range are two sets named differently, by height and by
place; since a height occurs at one place only, they are the same in number, and
one lists a sanctioned address exactly if the other does (`CountedOnce`).
`TypeCorrect` is `TypeOK`.

**What the disagreements depend on.** Each run that expects a violation breaks a
claim of a document. For these the claim is proved once its cause is taken away,
so that the theorem names the cause and shows that there is no other:

| Run | Claim | Holds when | Theorem |
|---|---|---|---|
| `twonotes` | `EveryPaidNoteDispatched` | no transaction holds two payment notes for one creator | `SingleNotesAreDispatched` |
| `latestart` | `FirstRangeKept` | a start height is configured | `FirstRangeIsKept` |
| `tabs` | `KeptForReload` | there is one tab, and one click on Buy under way | `OneTabForfeitsNothing` |
| `torn` | `SkippedIsForeign` | blobs are written whole (`~InPlace`) | `WholeFilesAreForeign` |
| `resend` | `ResendIsSafe` | no creator has two offers for a drop, no transaction two payment notes | `OneOfferIsSafe` |
| `transparent` | `EveryPaymentRecorded` | who is paid in the clear is paid by a shielded transaction with an outgoing output | `ShieldedPaymentsRecorded` |

`SingleNotesAreDispatched` follows from `IInv`, `OneTabForfeitsNothing` from
`KeptWhilePending`, and `ShieldedPaymentsRecorded` from `RecordsAreComplete`.
`OneOfferIsSafe` needs `ChainInv`: a buyer wants one offer, and every payment on
the chain carries the drop, the creator and the key of her purchase.
`WholeFilesAreForeign` needs `WholeInv`: no file is half-written, so that no poll
was too early; the exception `short` in `NoBlobWrittenOff` and `PaidIsUnlocked`
is void then. The condition of
`resend` is not one an operator can keep, since a form that times out must be
sent again; the others can be met by configuration or by a small change of the code.

**Only model-checked:** the liveness properties `OwedIsDispatched`,
`PaidIsUnlocked` and `PaidIsOpened` (fairness and ENABLED are out of the prover's
reach). Every other property of a passing run is a theorem.

## 7. What the abstraction leaves out

Cryptography is perfect: a sealed box opens with its key and no other, a quote
shows the measurement of the build that made it (RTMR3 in `Sale`, where each image
has its own; MRTD in `Screening`, where it has not), a hash names its content, an Equihash solution is
one or is an error. Byte formats and amounts as text are not modelled.
In `Scanner` the chain only grows: the code dispatches with no confirmations and
never reads a block twice, so a reorganisation breaks the ledger's promise by
design of the code (hazard at `engine.rs:114`). A payment mined before its drop
was listed is refused and passed; "owed" excludes it (hazard at
`scan_loop.rs:198`). Without a start height a restart skips what was mined while
the process was down; `rescan` sets a start height (hazard at
`scan_loop.rs:307`). `with_failover` is modelled in `Screening`, where an
attempt has state of its own; in `Scanner` a call that fails has failed at both
endpoints. The buyer's manual unlock and the memo form are left out. In
`Screening` the lightwalletd calls have no time limit, as in the code, and the
lock is held until they end.

## 8. Not modelled

The status of each component is in `PROJECT.json`. Left out are:

* `check-lightwalletd` and `zecscope-scan`, which print one answer and keep no
  state;
* `qvl-verifier.ts`, a wrapper of a library whose verdict is `Attests` in `Sale`;
* URIs, memo bytes and price formatting: conversions of one value, with unit
  tests of their own;
* `src/week8`: a proxy, a start script and a script that runs the creator's
  stages once from the command line;
* week 6's `packages/core` (a pure function from records to an artifact, and
  equality checks back; the same binding is modelled for week 5 in `Screening`),
  its service (which runs the side-car once per request and keeps nothing) and
  its web application (single records of an external table);
* the pages of the week 5 web applications, and mvp2's Python service, which
  calls the modelled scanner and formats its answer;
* weeks 1 to 4, `docs/` and `drop_process/`: text.

What could follow: `Scanner` over a chain with reorganisations, whose ledger may
revoke; two clicks on Buy (`App.tsx:128`) once the code states what it intends.

## 9. Running

    tlc -workers 2 -config MCScanner_rescan.cfg MCScanner.tla
    tlc -workers 2 -config MCBuyer_page.cfg MCBuyer.tla
    tlc -workers 2 -config MCSale_sale.cfg MCSale.tla
    tlc -workers 2 -config MCLive_live.cfg MCLive.tla
    tlc -workers 2 -config MCCleanWallet_screening.cfg MCCleanWallet.tla
    tlc -workers 2 -config MCBlockScan_transparent.cfg MCBlockScan.tla
    tlapm ScannerProofs.tla

and so for the other configurations and `...Proofs` modules. Each passing run
takes between a quarter of a minute and three minutes on two workers, the proofs
of a module at most a few minutes.
