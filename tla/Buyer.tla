------------------------------- MODULE Buyer --------------------------------
(***************************************************************************)
(* The buyer's page (App.tsx, poller.ts, persist.ts, purchase.ts): a       *)
(* purchase is made, paid, polled for in the dispatch bucket, unlocked;    *)
(* a reload resumes the one kept in localStorage.                          *)
(*                                                                         *)
(* The bucket is read while the indexer writes it (bucket.rs), polls       *)
(* overlap (a tick starts every POLL_MS whether or not the last one is     *)
(* over), and the tabs of one browser share localStorage.  A step is what  *)
(* runs between two awaits; a state update and the effects that depend on  *)
(* it are one step.                                                        *)
(***************************************************************************)
EXTENDS Naturals, Sequences, FiniteSets

CONSTANTS
  Tab,          \* tabs of one browser
  Purchase,     \* key pairs, each made at most once
  None,         \* no purchase
  Blob,         \* the blobs payments may get, as pairs <<purchase, copy>>
  InPlace,      \* a blob can be read while it is written
  MaxTicks,     \* bound: polls of one tab under way at once
  MaxStarts,    \* bound: clicks on Buy under way at once in a tab
  MaxReloads,   \* bound: reloads of a tab
  MaxFaults     \* bound: requests that fail

ASSUME NoneAssumption == None \notin Purchase
ASSUME BlobAssumption == Blob \subseteq Purchase \X Nat
ASSUME BoundsAssumption ==
  /\ InPlace \in BOOLEAN
  /\ {MaxTicks, MaxStarts, MaxReloads, MaxFaults} \subseteq Nat

VARIABLES
  \* the indexer and the wallet
  paid,        \* purchases whose payment is on the chain
  file,        \* the bucket's files: "absent", "partial" or "whole"
  \* localStorage, shared by the tabs
  stored,      \* the purchase kept for a reload
  \* React state of each tab
  purchase, unlock, polling, remember,
  \* and what is under way in it
  starts,      \* startPurchase calls under way: `remember` at the click
  tick,        \* polls under way
  tried,       \* DispatchPoller.tried of the tab's poller
  \* history
  made,        \* key pairs generated
  short,       \* blobs a tab's poller read before they were whole
  reloads, faults

worldVars == <<paid, file>>
stateVars == <<purchase, unlock, polling, remember>>
workVars == <<starts, tick, tried, short>>
boundVars == <<made, reloads, faults>>
vars == <<worldVars, stored, stateVars, workVars, boundVars>>

BuyerOf(b) == b[1]

Slot == 1 .. MaxTicks
Idle == [at |-> "idle", who |-> None, keys |-> {}, key |-> {}, got |-> FALSE,
         alive |-> FALSE, mine |-> FALSE]

(* A poll: what it awaits, the purchase it captured, the keys it has still *)
(* to visit, the one it is fetching, whether it opened one, whether its    *)
(* effect is still mounted and its poller still the tab's.                 *)
Tick == [at : {"idle", "list", "blob", "content"},
         who : Purchase \cup {None}, keys : SUBSET Blob, key : SUBSET Blob,
         got : BOOLEAN, alive : BOOLEAN, mine : BOOLEAN]

(***************************************************************************)
(* Every variable has its type, and a poll fetches at most one key.        *)
(***************************************************************************)
TypeOK ==
  /\ paid \subseteq made
  /\ made \subseteq Purchase
  /\ file \in [Blob -> {"absent", "partial", "whole"}]
  /\ stored \in Purchase \cup {None}
  /\ purchase \in [Tab -> Purchase \cup {None}]
  /\ unlock \in [Tab -> Purchase \cup {None}]
  /\ polling \in [Tab -> BOOLEAN]
  /\ remember \in [Tab -> BOOLEAN]
  /\ starts \in [Tab -> Seq(BOOLEAN)]
  /\ tick \in [Tab -> [Slot -> Tick]]
  /\ \A t \in Tab, i \in Slot :
       Cardinality(tick[t][i].key) = IF tick[t][i].at \in {"blob", "content"}
                                     THEN 1 ELSE 0
  /\ tried \in [Tab -> SUBSET Blob]
  /\ short \in [Tab -> SUBSET Blob]
  /\ reloads \in [Tab -> Nat]
  /\ faults \in Nat

NoTicks == [i \in Slot |-> Idle]

Init ==
  /\ paid = {}
  /\ file = [b \in Blob |-> "absent"]
  /\ stored = None
  /\ purchase = [t \in Tab |-> None]
  /\ unlock = [t \in Tab |-> None]
  /\ polling = [t \in Tab |-> FALSE]
  /\ remember = [t \in Tab |-> TRUE]
  /\ starts = [t \in Tab |-> <<>>]
  /\ tick = [t \in Tab |-> NoTicks]
  /\ tried = [t \in Tab |-> {}]
  /\ made = {}
  /\ short = [t \in Tab |-> {}]
  /\ reloads = [t \in Tab |-> 0]
  /\ faults = 0

Pending(t) == purchase[t] # None /\ unlock[t] = None
Settled(t) == Pending(t) /\ starts[t] = <<>>

-----------------------------------------------------------------------------
(* The world outside the page.                                             *)

(* The buyer pays what the page shows.  A click on Buy takes milliseconds  *)
(* and a payment a block, so no click is under way.                        *)
Pay(t) ==
  /\ Settled(t)
  /\ purchase[t] \notin paid
  /\ paid' = paid \cup {purchase[t]}
  /\ UNCHANGED <<file, stored, stateVars, workVars, boundVars>>

(* FsBucket::put creates the file, then fills it; the process may stop     *)
(* between the two and write another copy when it is back.                 *)
CreateBlob(b) ==
  /\ BuyerOf(b) \in paid
  /\ file[b] = "absent"
  /\ \A c \in Blob :
       BuyerOf(c) = BuyerOf(b) /\ c[2] < b[2] => file[c] # "absent"
  /\ file' = [file EXCEPT ![b] = IF InPlace THEN "partial" ELSE "whole"]
  /\ UNCHANGED <<paid, stored, stateVars, workVars, boundVars>>

FillBlob(b) ==
  /\ file[b] = "partial"
  /\ \A c \in Blob :
       BuyerOf(c) = BuyerOf(b) /\ c[2] > b[2] => file[c] = "absent"
  /\ file' = [file EXCEPT ![b] = "whole"]
  /\ UNCHANGED <<paid, stored, stateVars, workVars, boundVars>>

-----------------------------------------------------------------------------
(* The buttons of the page.                                                *)

(* Effects of t that depend on its purchase or its unlock are torn down.   *)
Unmounted(t) == [i \in Slot |-> [tick[t][i] EXCEPT !.alive = FALSE]]

(* ... and pollerRef.current is null: the next effect makes a poller.      *)
Detached(t) == [i \in Slot |-> [tick[t][i] EXCEPT !.mine = FALSE]]
Dropped(t) ==
  [i \in Slot |-> [tick[t][i] EXCEPT !.alive = FALSE, !.mine = FALSE]]

savePurchase(p) == stored' = p
clearPurchase == stored' = None

(* startPurchase up to its await: the catalog is shown, so no purchase is. *)
Buy(t) ==
  /\ purchase[t] = None
  /\ Len(starts[t]) < MaxStarts
  /\ starts' = [starts EXCEPT ![t] = Append(@, remember[t])]
  /\ unlock' = [unlock EXCEPT ![t] = None]
  /\ tick' = [tick EXCEPT ![t] = Detached(t)]
  /\ tried' = [tried EXCEPT ![t] = {}]
  /\ short' = [short EXCEPT ![t] = {}]
  /\ UNCHANGED <<worldVars, stored, purchase, polling, remember, boundVars>>

\* Faulty: the purchase is not saved.
BoughtUnsaved(t, p) ==
  /\ starts[t] # <<>>
  /\ p \notin made
  /\ made' = made \cup {p}
  /\ starts' = [starts EXCEPT ![t] = Tail(@)]
  /\ purchase' = [purchase EXCEPT ![t] = p]
  /\ polling' = [polling EXCEPT ![t] = TRUE]
  /\ tick' = [tick EXCEPT ![t] = Unmounted(t)]
  /\ UNCHANGED <<worldVars, stored, unlock, remember, tried, short, reloads,
                 faults>>

(* startPurchase after its await: p is fresh, shown, polled and saved.     *)
Bought(t, p) ==
  /\ starts[t] # <<>>
  /\ p \notin made
  /\ made' = made \cup {p}
  /\ starts' = [starts EXCEPT ![t] = Tail(@)]
  /\ purchase' = [purchase EXCEPT ![t] = p]
  /\ polling' = [polling EXCEPT ![t] = TRUE]
  /\ tick' = [tick EXCEPT ![t] = Unmounted(t)]
  /\ IF Head(starts[t]) THEN savePurchase(p) ELSE UNCHANGED stored
  /\ UNCHANGED <<worldVars, unlock, remember, tried, short, reloads, faults>>

(* createPurchase throws: the entry has no deposit address.                *)
BuyFails(t) ==
  /\ starts[t] # <<>>
  /\ starts' = [starts EXCEPT ![t] = Tail(@)]
  /\ UNCHANGED <<worldVars, stored, stateVars, tick, tried, short, boundVars>>

(* Cancel, and "Back to catalog" once it is unlocked.                      *)
reset(t) ==
  /\ purchase[t] # None
  /\ purchase' = [purchase EXCEPT ![t] = None]
  /\ unlock' = [unlock EXCEPT ![t] = None]
  /\ polling' = [polling EXCEPT ![t] = FALSE]
  /\ tick' = [tick EXCEPT ![t] = Dropped(t)]
  /\ tried' = [tried EXCEPT ![t] = {}]
  /\ short' = [short EXCEPT ![t] = {}]
  /\ clearPurchase
  /\ UNCHANGED <<worldVars, remember, starts, boundVars>>

(* "Keep on this device for 24h".                                          *)
toggleRemember(t) ==
  /\ Pending(t)
  /\ remember' = [remember EXCEPT ![t] = ~ @]
  /\ IF remember[t] THEN clearPurchase ELSE savePurchase(purchase[t])
  /\ UNCHANGED <<worldVars, purchase, unlock, polling, workVars, boundVars>>

(* The tab is closed or reloaded, and opened: loadPurchase, which removes  *)
(* what was saved more than TTL_MS ago.                                    *)
Reload(t, late) ==
  /\ reloads[t] < MaxReloads
  /\ reloads' = [reloads EXCEPT ![t] = @ + 1]
  /\ stored' = IF late THEN None ELSE stored
  /\ purchase' = [purchase EXCEPT ![t] = stored']
  /\ polling' = [polling EXCEPT ![t] = stored' # None]
  /\ unlock' = [unlock EXCEPT ![t] = None]
  /\ remember' = [remember EXCEPT ![t] = TRUE]
  /\ starts' = [starts EXCEPT ![t] = <<>>]
  /\ tick' = [tick EXCEPT ![t] = NoTicks]
  /\ tried' = [tried EXCEPT ![t] = {}]
  /\ short' = [short EXCEPT ![t] = {}]
  /\ UNCHANGED <<worldVars, made, faults>>

-----------------------------------------------------------------------------
(* The polling effect and DispatchPoller.poll([purchase]).                 *)

tickVars == <<worldVars, purchase, remember, starts, made, reloads>>

Set(t, i, r) == tick' = [tick EXCEPT ![t][i] = r]

Fault ==
  /\ faults < MaxFaults
  /\ faults' = faults + 1

(* setInterval, or the effect itself, starts a poll.                       *)
Poll(t, i) ==
  /\ polling[t]
  /\ Pending(t)
  /\ tick[t][i].at = "idle"
  /\ Set(t, i, [Idle EXCEPT !.at = "list", !.who = purchase[t],
                            !.alive = TRUE, !.mine = TRUE])
  /\ UNCHANGED <<tickVars, stored, unlock, polling, tried, short, faults>>

(* The keys that r has still to visit and its poller has not tried.        *)
Untried(r, done) == IF r.mine THEN r.keys \ done ELSE r.keys

FetchNext(t, i, r, done) ==
  /\ \E b \in Untried(r, done) :
       Set(t, i, [r EXCEPT !.at = "blob", !.key = {b},
                           !.keys = Untried(r, done) \ {b}])
  /\ UNCHANGED <<stored, unlock, polling>>

\* Faulty: the result is shown without asking `alive`.
PollEndsAlways(t, i, r, done) ==
  /\ Untried(r, done) = {}
  /\ IF r.got
     THEN /\ unlock' = [unlock EXCEPT ![t] = r.who]
          /\ polling' = [polling EXCEPT ![t] = FALSE]
          /\ clearPurchase
          /\ tick' = [tick EXCEPT ![t] = [Unmounted(t) EXCEPT ![i] = Idle]]
     ELSE Set(t, i, Idle) /\ UNCHANGED <<stored, unlock, polling>>

(* The poll returns; an effect still mounted shows what it unlocked.       *)
PollEnds(t, i, r, done) ==
  /\ Untried(r, done) = {}
  /\ IF r.alive /\ r.got
     THEN /\ unlock' = [unlock EXCEPT ![t] = r.who]
          /\ polling' = [polling EXCEPT ![t] = FALSE]
          /\ clearPurchase
          /\ tick' = [tick EXCEPT ![t] = [Unmounted(t) EXCEPT ![i] = Idle]]
     ELSE Set(t, i, Idle) /\ UNCHANGED <<stored, unlock, polling>>

(* The poll, in state r and with its poller's `tried` now done, runs on to *)
(* its next await: the fetch of one more key, or its end.                  *)
RunOn(t, i, r, done) ==
  \/ FetchNext(t, i, r, done)
  \/ PollEnds(t, i, r, done)

(* GET /dispatch answers with the names of the files there are.            *)
listDispatch(t, i) ==
  /\ tick[t][i].at = "list"
  /\ LET listed == {b \in Blob : file[b] # "absent"}
     IN  RunOn(t, i, [tick[t][i] EXCEPT !.keys = listed], tried[t])
  /\ UNCHANGED <<tickVars, tried, short, faults>>

(* The poller's `tried` once the key of poll i is added to it.             *)
WithKey(t, i) ==
  IF tick[t][i].mine THEN tried[t] \cup tick[t][i].key ELSE tried[t]

\* Faulty: a key is marked tried when its fetch fails, too.
BlobFailsTried(t, i) ==
  /\ tick[t][i].at = "blob"
  /\ Fault
  /\ tried' = [tried EXCEPT ![t] = WithKey(t, i)]
  /\ RunOn(t, i, [tick[t][i] EXCEPT !.key = {}], WithKey(t, i))
  /\ UNCHANGED <<tickVars, short>>

(* The fetch fails: the key is left for the next poll.                     *)
BlobFails(t, i) ==
  /\ tick[t][i].at = "blob"
  /\ Fault
  /\ RunOn(t, i, [tick[t][i] EXCEPT !.key = {}], tried[t])
  /\ UNCHANGED <<tickVars, tried, short>>

(* trySealOpen: only a whole blob sealed to this purchase opens.           *)
Opens(t, i) ==
  \A b \in tick[t][i].key : BuyerOf(b) = tick[t][i].who /\ file[b] = "whole"

\* Faulty: the key is let go before the content is there.
BlobOpensEarly(t, i) ==
  /\ tick[t][i].at = "blob"
  /\ Opens(t, i)
  /\ Set(t, i, [tick[t][i] EXCEPT !.at = "content", !.key = {}])
  /\ UNCHANGED <<tickVars, stored, unlock, polling, tried, short, faults>>

(* The blob opens: K_drop is known, and the content is asked for.          *)
BlobOpens(t, i) ==
  /\ tick[t][i].at = "blob"
  /\ Opens(t, i)
  /\ Set(t, i, [tick[t][i] EXCEPT !.at = "content"])
  /\ UNCHANGED <<tickVars, stored, unlock, polling, tried, short, faults>>

(* Not ours, or not whole yet: marked tried all the same.                  *)
BlobDoesNotOpen(t, i) ==
  /\ tick[t][i].at = "blob"
  /\ ~ Opens(t, i)
  /\ tried' = [tried EXCEPT ![t] = WithKey(t, i)]
  /\ short' = [short EXCEPT ![t] = @ \cup {b \in tick[t][i].key :
                                     tick[t][i].mine /\ file[b] = "partial"}]
  /\ RunOn(t, i, [tick[t][i] EXCEPT !.key = {}], WithKey(t, i))
  /\ UNCHANGED <<tickVars, faults>>

(* getContent, the hash check and decryptContent succeed.                  *)
ContentArrives(t, i) ==
  /\ tick[t][i].at = "content"
  /\ tried' = [tried EXCEPT ![t] = WithKey(t, i)]
  /\ RunOn(t, i, [tick[t][i] EXCEPT !.key = {}, !.got = TRUE], WithKey(t, i))
  /\ UNCHANGED <<tickVars, short, faults>>

\* Faulty: an error stops the polling.
PollThrowsStops(t, i) ==
  /\ tick[t][i].at \in {"list", "content"}
  /\ Fault
  /\ Set(t, i, Idle)
  /\ polling' = [polling EXCEPT ![t] = FALSE]
  /\ UNCHANGED <<tickVars, stored, unlock, tried, short>>

(* listDispatch, getContent, the hash check or decryptContent throws: the  *)
(* poll ends, with what it had opened.                                     *)
PollThrows(t, i) ==
  /\ tick[t][i].at \in {"list", "content"}
  /\ Fault
  /\ Set(t, i, Idle)
  /\ UNCHANGED <<tickVars, stored, unlock, polling, tried, short>>

-----------------------------------------------------------------------------
(* The steps of a poll, when its requests are answered.                    *)
PollStep(t, i) ==
  \/ Poll(t, i)
  \/ listDispatch(t, i)
  \/ BlobOpens(t, i)
  \/ BlobDoesNotOpen(t, i)
  \/ ContentArrives(t, i)

Buttons(t) ==
  \/ Buy(t)
  \/ \E p \in Purchase : Bought(t, p)
  \/ BuyFails(t)
  \/ reset(t)
  \/ toggleRemember(t)
  \/ \E late \in BOOLEAN : Reload(t, late)

World ==
  \/ \E t \in Tab : Pay(t)
  \/ \E b \in Blob : CreateBlob(b) \/ FillBlob(b)

Next ==
  \/ World
  \/ \E t \in Tab : Buttons(t)
  \/ \E t \in Tab, i \in Slot :
       PollStep(t, i) \/ BlobFails(t, i) \/ PollThrows(t, i)

Spec == Init /\ [][Next]_vars

(* setInterval keeps polling, and a request is answered or fails.          *)
FairSpec == Spec /\ \A t \in Tab, i \in Slot : WF_vars(PollStep(t, i))

-----------------------------------------------------------------------------
(* What the page promises.                                                 *)

(***************************************************************************)
(* What is shown as unlocked is the purchase of the page, paid for, and    *)
(* the page has stopped polling for it: a poll that outlives the purchase  *)
(* it was started for changes nothing (the `alive` flag of the effect).    *)
(***************************************************************************)
UnlockIsOfPurchase ==
  \A t \in Tab : unlock[t] # None =>
    unlock[t] = purchase[t] /\ unlock[t] \in paid /\ ~ polling[t]

(* A poll of t carries the answer to its purchase, and will show it.       *)
Carried(t) == \E i \in Slot : /\ tick[t][i].alive /\ tick[t][i].got
                              /\ tick[t][i].who = purchase[t]

WholeBlobs(p) == {b \in Blob : BuyerOf(b) = p /\ file[b] = "whole"}

(***************************************************************************)
(* A blob that would open the pending purchase is never written off: of    *)
(* the whole blobs of the purchase one is still to be tried, or a poll     *)
(* carries the answer (poller.ts: a key is marked tried after its attempt, *)
(* an error leaves it for the next poll).  The exception is a blob read    *)
(* while the indexer was writing it.                                       *)
(***************************************************************************)
NoBlobWrittenOff ==
  \A t \in Tab : Pending(t) /\ WholeBlobs(purchase[t]) # {} =>
    \/ \E b \in WholeBlobs(purchase[t]) : b \notin tried[t] \/ b \in short[t]
    \/ Carried(t)

(***************************************************************************)
(* localStorage holds the purchase of the page exactly while it is pending *)
(* and the buyer wants it kept: a reload forfeits nothing, and nothing is  *)
(* left behind on unlock, cancel or opt-out (persist.ts).                  *)
(***************************************************************************)
StoredIsActive ==
  \A t \in Tab :
    stored = IF Pending(t) /\ remember[t] THEN purchase[t] ELSE None

(***************************************************************************)
(* persist.ts: a tab close or a refresh does not forfeit the active        *)
(* purchase, if the buyer wants it kept.                                   *)
(***************************************************************************)
KeptForReload ==
  \A t \in Tab : Settled(t) /\ remember[t] => stored = purchase[t]

(***************************************************************************)
(* seal.ts: a blob that does not open is a blob not meant for us.          *)
(***************************************************************************)
SkippedIsForeign ==
  \A t \in Tab : Pending(t) =>
    \A b \in tried[t] : BuyerOf(b) = purchase[t] => b \notin short[t]

(***************************************************************************)
(* Once the blob is there whole, a purchase that stays on the page is      *)
(* unlocked, unless its poller read that blob before it was whole: failed  *)
(* requests are retried (the setInterval of the polling effect).           *)
(***************************************************************************)
PaidIsUnlocked ==
  \A t \in Tab, p \in Purchase :
    (purchase[t] = p /\ WholeBlobs(p) # {}) ~>
      (unlock[t] = p \/ purchase[t] # p \/ short[t] # {})
=============================================================================
