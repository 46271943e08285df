----------------------------- MODULE BuyerProofs ------------------------------
(***************************************************************************)
(* Why the buyer's page shows only its own unlock, and why localStorage    *)
(* holds its purchase exactly while it is pending: a mounted poll is of    *)
(* the pending purchase of its tab, and a click on Buy is under way only   *)
(* while the catalog is shown.                                             *)
(***************************************************************************)
EXTENDS Buyer, FiniteSetTheorems, SequenceTheorems, TLAPS

(* A poll fetches one key while it fetches, and none before or after.      *)
OneKey(r) == Cardinality(r.key) = IF r.at \in {"blob", "content"} THEN 1 ELSE 0
Poller == {r \in Tick : OneKey(r)}
TicksOK == tick \in [Tab -> [Slot -> Poller]]

(* What a page shows, and what is kept for it, was made on a page.         *)
MadeInv ==
  /\ stored \in made \cup {None}
  /\ \A t \in Tab : purchase[t] \in made \cup {None}

TypeInv == TypeOK /\ MadeInv

LEMMA TicksTyped == TypeOK => TicksOK
BY DEF TypeOK, TicksOK, Poller, OneKey

LEMMA IdleTyped == Idle \in Poller
BY FS_EmptySet DEF Idle, Poller, Tick, OneKey

(* One poll moves on to r; the others stay where they are.                 *)
LEMMA SetTyped ==
  ASSUME TicksOK, NEW t \in Tab, NEW i \in Slot, NEW r \in Poller, Set(t, i, r)
  PROVE  /\ TicksOK'
         /\ tick'[t][i] = r
         /\ \A s \in Tab, j \in Slot : s # t \/ j # i => tick'[s][j] = tick[s][j]
BY DEF TicksOK, Set

(* A tab is given the polls N, and the other tabs keep theirs.             *)
LEMMA GiveTyped ==
  ASSUME TicksOK, NEW t \in Tab, NEW N \in [Slot -> Poller],
         tick' = [tick EXCEPT ![t] = N]
  PROVE  /\ TicksOK'
         /\ tick'[t] = N
         /\ \A s \in Tab : s # t => tick'[s] = tick[s]
BY DEF TicksOK

LEMMA FieldsTyped ==
  ASSUME TicksOK, NEW t \in Tab
  PROVE  /\ Unmounted(t) \in [Slot -> Poller]
         /\ Detached(t) \in [Slot -> Poller]
         /\ Dropped(t) \in [Slot -> Poller]
         /\ NoTicks \in [Slot -> Poller]
<1>1. \A i \in Slot : tick[t][i] \in Poller
  BY DEF TicksOK
<1>2. ASSUME NEW r \in Poller, NEW a \in BOOLEAN, NEW m \in BOOLEAN
      PROVE  [r EXCEPT !.alive = a, !.mine = m] \in Poller
  BY DEF Poller, Tick, OneKey
<1>3. ASSUME NEW r \in Poller
      PROVE  [r EXCEPT !.alive = FALSE] \in Poller /\ [r EXCEPT !.mine = FALSE] \in Poller
  BY DEF Poller, Tick, OneKey
<1>4. Unmounted(t) \in [Slot -> Poller]  BY <1>1, <1>3 DEF Unmounted
<1>5. Detached(t) \in [Slot -> Poller]  BY <1>1, <1>3 DEF Detached
<1>6. Dropped(t) \in [Slot -> Poller]  BY <1>1, <1>2 DEF Dropped
<1>7. NoTicks \in [Slot -> Poller]  BY IdleTyped DEF NoTicks
<1>8. QED  BY <1>4, <1>5, <1>6, <1>7

-----------------------------------------------------------------------------
(* A poll that runs on: it fetches the next key, ends with nothing to      *)
(* show, or shows what it unlocked.                                        *)

Fetches(t, i, r) ==
  \E b \in Blob, K \in SUBSET Blob :
    /\ Set(t, i, [r EXCEPT !.at = "blob", !.key = {b}, !.keys = K])
    /\ UNCHANGED <<stored, unlock, polling>>

Ends(t, i) == Set(t, i, Idle) /\ UNCHANGED <<stored, unlock, polling>>

Shows(t, i, r) ==
  /\ r.alive /\ r.got
  /\ unlock' = [unlock EXCEPT ![t] = r.who]
  /\ polling' = [polling EXCEPT ![t] = FALSE]
  /\ stored' = None
  /\ tick' = [tick EXCEPT ![t] = [Unmounted(t) EXCEPT ![i] = Idle]]

LEMMA RunsOn ==
  ASSUME NEW t \in Tab, NEW i \in Slot, NEW r \in Tick, NEW done, RunOn(t, i, r, done)
  PROVE  Fetches(t, i, r) \/ Ends(t, i) \/ Shows(t, i, r)
<1>1. CASE FetchNext(t, i, r, done)
  <2>1. Untried(r, done) \subseteq Blob  BY DEF Untried, Tick
  <2>2. PICK b \in Untried(r, done) :
          Set(t, i, [r EXCEPT !.at = "blob", !.key = {b},
                              !.keys = Untried(r, done) \ {b}])
    BY <1>1 DEF FetchNext
  <2>3. b \in Blob /\ Untried(r, done) \ {b} \in SUBSET Blob  BY <2>1
  <2>4. UNCHANGED <<stored, unlock, polling>>  BY <1>1 DEF FetchNext
  <2>5. QED  BY <2>2, <2>3, <2>4 DEF Fetches
<1>2. CASE PollEnds(t, i, r, done)
  BY <1>2 DEF PollEnds, Ends, Shows, clearPurchase
<1>3. QED  BY <1>1, <1>2 DEF RunOn

LEMMA RunOnTyped ==
  ASSUME TicksOK, NEW t \in Tab, NEW i \in Slot, NEW r \in Tick, NEW done,
         RunOn(t, i, r, done), stored \in made \cup {None},
         unlock \in [Tab -> Purchase \cup {None}], polling \in [Tab -> BOOLEAN]
  PROVE  /\ TicksOK' /\ stored' \in made \cup {None}
         /\ unlock' \in [Tab -> Purchase \cup {None}] /\ polling' \in [Tab -> BOOLEAN]
<1>1. CASE Fetches(t, i, r)
  <2>1. PICK b \in Blob, K \in SUBSET Blob :
          Set(t, i, [r EXCEPT !.at = "blob", !.key = {b}, !.keys = K])
    BY <1>1 DEF Fetches
  <2>2. Cardinality({b}) = 1  BY FS_Singleton
  <2>3. [r EXCEPT !.at = "blob", !.key = {b}, !.keys = K] \in Poller
    BY <2>2 DEF Poller, Tick, OneKey
  <2>4. TicksOK'  BY <2>1, <2>3, SetTyped
  <2>5. QED  BY <1>1, <2>4 DEF Fetches
<1>2. CASE Ends(t, i)
  BY <1>2, IdleTyped, SetTyped DEF Ends
<1>3. CASE Shows(t, i, r)
  <2>1. [Unmounted(t) EXCEPT ![i] = Idle] \in [Slot -> Poller]
    BY FieldsTyped, IdleTyped
  <2>2. TicksOK'  BY <1>3, <2>1, GiveTyped DEF Shows
  <2>3. r.who \in Purchase \cup {None}  BY DEF Tick
  <2>4. QED  BY <1>3, <2>2, <2>3 DEF Shows
<1>4. QED  BY <1>1, <1>2, <1>3, RunsOn

(* The records from which a poll runs on.                                  *)
LEMMA PollTyped ==
  ASSUME TicksOK, NEW t \in Tab, NEW i \in Slot
  PROVE  /\ tick[t][i] \in Tick
         /\ \A K \in SUBSET Blob : [tick[t][i] EXCEPT !.keys = K] \in Tick
         /\ [tick[t][i] EXCEPT !.key = {}] \in Tick
         /\ [tick[t][i] EXCEPT !.key = {}, !.got = TRUE] \in Tick
<1>1. tick[t][i] \in Tick  BY DEF TicksOK, Poller
<1>2. ASSUME NEW r \in Tick
      PROVE  /\ \A K \in SUBSET Blob : [r EXCEPT !.keys = K] \in Tick
             /\ [r EXCEPT !.key = {}] \in Tick
             /\ [r EXCEPT !.key = {}, !.got = TRUE] \in Tick
  BY DEF Tick
<1>3. QED  BY <1>1, <1>2

-----------------------------------------------------------------------------
(* Types.                                                                  *)

PlainTypes ==
  /\ paid \subseteq made
  /\ made \subseteq Purchase
  /\ file \in [Blob -> {"absent", "partial", "whole"}]
  /\ stored \in made \cup {None}
  /\ purchase \in [Tab -> made \cup {None}]
  /\ unlock \in [Tab -> Purchase \cup {None}]
  /\ polling \in [Tab -> BOOLEAN]
  /\ remember \in [Tab -> BOOLEAN]
  /\ starts \in [Tab -> Seq(BOOLEAN)]
  /\ tried \in [Tab -> SUBSET Blob]
  /\ short \in [Tab -> SUBSET Blob]
  /\ reloads \in [Tab -> Nat]
  /\ faults \in Nat

LEMMA TypeParts == TypeInv <=> PlainTypes /\ TicksOK
<1>1. TicksOK <=>
        /\ tick \in [Tab -> [Slot -> Tick]]
        /\ \A t \in Tab, i \in Slot :
             Cardinality(tick[t][i].key) = IF tick[t][i].at \in {"blob", "content"}
                                           THEN 1 ELSE 0
  BY DEF TicksOK, Poller, OneKey
<1>2. QED  BY <1>1 DEF TypeInv, TypeOK, MadeInv, PlainTypes

LEMMA WorldTyped ==
  ASSUME TypeInv, World
  PROVE  PlainTypes' /\ TicksOK'
<1>1. PlainTypes /\ TicksOK  BY TypeParts
<1>2. UNCHANGED <<stateVars, workVars, boundVars, stored>>
  BY DEF World, Pay, CreateBlob, FillBlob
<1>3. paid' \subseteq made'
  BY <1>1, <1>2, NoneAssumption
  DEF World, Pay, Settled, Pending, CreateBlob, FillBlob, PlainTypes, boundVars
<1>4. file' \in [Blob -> {"absent", "partial", "whole"}]
  BY <1>1 DEF World, Pay, CreateBlob, FillBlob, PlainTypes
<1>5. QED
  BY <1>1, <1>2, <1>3, <1>4 DEF PlainTypes, TicksOK, stateVars, workVars, boundVars

LEMMA ButtonsTyped ==
  ASSUME TypeInv, NEW t \in Tab, Buttons(t)
  PROVE  PlainTypes' /\ TicksOK'
<1>1. PlainTypes /\ TicksOK  BY TypeParts
<1> USE DEF PlainTypes, worldVars, stateVars, workVars, boundVars, savePurchase,
        clearPurchase
<1>2. CASE Buy(t)
  <2>1. TicksOK'  BY <1>1, <1>2, FieldsTyped, GiveTyped DEF Buy
  <2>2. PlainTypes'  BY <1>1, <1>2 DEF Buy
  <2>3. QED  BY <2>1, <2>2
<1>3. ASSUME NEW p \in Purchase, Bought(t, p) PROVE PlainTypes' /\ TicksOK'
  <2>1. TicksOK'  BY <1>1, <1>3, FieldsTyped, GiveTyped DEF Bought
  <2>2. Tail(starts[t]) \in Seq(BOOLEAN)
    BY <1>1, <1>3, HeadTailProperties DEF Bought
  <2>3. starts' \in [Tab -> Seq(BOOLEAN)]  BY <1>1, <1>3, <2>2 DEF Bought
  <2>4. stored' \in made' \cup {None}  BY <1>1, <1>3 DEF Bought
  <2>5. purchase' \in [Tab -> made' \cup {None}]  BY <1>1, <1>3 DEF Bought
  <2>6. PlainTypes'  BY <1>1, <1>3, <2>3, <2>4, <2>5 DEF Bought
  <2>7. QED  BY <2>1, <2>6
<1>4. CASE BuyFails(t)
  BY <1>1, <1>4 DEF BuyFails, TicksOK
<1>5. CASE reset(t)
  BY <1>1, <1>5, FieldsTyped, GiveTyped DEF reset
<1>6. CASE toggleRemember(t)
  BY <1>1, <1>6 DEF toggleRemember, TicksOK
<1>7. ASSUME NEW late \in BOOLEAN, Reload(t, late) PROVE PlainTypes' /\ TicksOK'
  <2>1. TicksOK'  BY <1>1, <1>7, FieldsTyped, GiveTyped DEF Reload
  <2>2. stored' \in made \cup {None}  BY <1>1, <1>7 DEF Reload
  <2>3. (stored' # None) \in BOOLEAN  OBVIOUS
  <2>4. PlainTypes'  BY <1>1, <1>7, <2>2, <2>3 DEF Reload
  <2>5. QED  BY <2>1, <2>4
<1>8. QED  BY <1>2, <1>3, <1>4, <1>5, <1>6, <1>7 DEF Buttons

LEMMA PollsTyped ==
  ASSUME TypeInv, NEW t \in Tab, NEW i \in Slot,
         PollStep(t, i) \/ BlobFails(t, i) \/ PollThrows(t, i)
  PROVE  PlainTypes' /\ TicksOK'
<1>1. PlainTypes /\ TicksOK  BY TypeParts
<1>2. /\ TicksOK' /\ stored' \in made \cup {None}
      /\ unlock' \in [Tab -> Purchase \cup {None}] /\ polling' \in [Tab -> BOOLEAN]
  <2> USE DEF PlainTypes
  <2>1. CASE Poll(t, i)
    <3>1. [Idle EXCEPT !.at = "list", !.who = purchase[t], !.alive = TRUE,
                       !.mine = TRUE] \in Poller
      BY <1>1, FS_EmptySet DEF Idle, Poller, Tick, OneKey
    <3>2. TicksOK'  BY <1>1, <2>1, <3>1, SetTyped DEF Poll
    <3>3. QED  BY <1>1, <2>1, <3>2 DEF Poll
  <2>2. CASE listDispatch(t, i)
    BY <1>1, <2>2, PollTyped, RunOnTyped DEF listDispatch
  <2>3. CASE BlobOpens(t, i)
    <3>1. [tick[t][i] EXCEPT !.at = "content"] \in Poller
      <4>1. PICK r \in Poller : r = tick[t][i]  BY <1>1 DEF TicksOK
      <4>2. r.at = "blob"  BY <2>3, <4>1 DEF BlobOpens
      <4>3. [r EXCEPT !.at = "content"] \in Tick  BY DEF Poller, Tick
      <4>4. OneKey([r EXCEPT !.at = "content"])  BY <4>2 DEF Poller, Tick, OneKey
      <4>5. QED  BY <4>1, <4>3, <4>4 DEF Poller
    <3>2. TicksOK'  BY <1>1, <2>3, <3>1, SetTyped DEF BlobOpens
    <3>3. QED  BY <1>1, <2>3, <3>2 DEF BlobOpens
  <2>4. CASE BlobDoesNotOpen(t, i)
    BY <1>1, <2>4, PollTyped, RunOnTyped DEF BlobDoesNotOpen
  <2>5. CASE ContentArrives(t, i)
    BY <1>1, <2>5, PollTyped, RunOnTyped DEF ContentArrives
  <2>6. CASE BlobFails(t, i)
    BY <1>1, <2>6, PollTyped, RunOnTyped DEF BlobFails
  <2>7. CASE PollThrows(t, i)
    BY <1>1, <2>7, IdleTyped, SetTyped DEF PollThrows
  <2>8. QED  BY <2>1, <2>2, <2>3, <2>4, <2>5, <2>6, <2>7 DEF PollStep
<1>3. UNCHANGED tickVars
  BY DEF PollStep, Poll, listDispatch, BlobOpens, BlobDoesNotOpen, ContentArrives,
     BlobFails, PollThrows
<1>4. WithKey(t, i) \subseteq Blob /\ {b \in tick[t][i].key :
                                     tick[t][i].mine /\ file[b] = "partial"} \subseteq Blob
  BY <1>1 DEF WithKey, PlainTypes, TicksOK, Poller, Tick
<1>5. tried' \in [Tab -> SUBSET Blob]
  BY <1>1, <1>4 DEF PlainTypes, PollStep, Poll, listDispatch, BlobOpens,
     BlobDoesNotOpen, ContentArrives, BlobFails, PollThrows
<1>6. short' \in [Tab -> SUBSET Blob]
  BY <1>1, <1>4 DEF PlainTypes, PollStep, Poll, listDispatch, BlobOpens,
     BlobDoesNotOpen, ContentArrives, BlobFails, PollThrows
<1>7. faults' \in Nat
  BY <1>1 DEF PlainTypes, PollStep, Poll, listDispatch, BlobOpens,
     BlobDoesNotOpen, ContentArrives, BlobFails, PollThrows, Fault
<1>8. QED
  BY <1>1, <1>2, <1>3, <1>5, <1>6, <1>7 DEF PlainTypes, tickVars, worldVars

LEMMA TypeInvInit == Init => TypeInv
<1>1. Init => PlainTypes  BY DEF Init, PlainTypes
<1>2. Init => TicksOK  BY IdleTyped DEF Init, TicksOK, NoTicks
<1>3. QED  BY <1>1, <1>2, TypeParts

LEMMA TypeInvNext == TypeInv /\ [Next]_vars => TypeInv'
<1> SUFFICES ASSUME TypeInv, [Next]_vars PROVE TypeInv'
  OBVIOUS
<1>1. CASE Next
  <2>1. PlainTypes' /\ TicksOK'
    BY <1>1, WorldTyped, ButtonsTyped, PollsTyped DEF Next
  <2>2. (TypeInv <=> PlainTypes /\ TicksOK)'  BY TypeParts, PTL
  <2>3. QED  BY <2>1, <2>2
<1>2. CASE UNCHANGED vars
  BY <1>2 DEF TypeInv, TypeOK, MadeInv, vars, worldVars, stateVars, workVars, boundVars
<1>3. QED  BY <1>1, <1>2

(***************************************************************************)
(* Every reachable state of the page is well typed, and a poll fetches at  *)
(* most one key.                                                           *)
(***************************************************************************)
THEOREM PageTypeCorrect == Spec => []TypeOK
<1>1. Spec => []TypeInv  BY TypeInvInit, TypeInvNext, PTL DEF Spec
<1>2. TypeInv => TypeOK  BY DEF TypeInv
<1>3. QED  BY <1>1, <1>2, PTL

-----------------------------------------------------------------------------
(* What the page shows.                                                    *)

(* A file in the bucket answers a payment.                                 *)
FileInv == \A b \in Blob : file[b] # "absent" => BuyerOf(b) \in paid

(* A click on Buy is under way only while the catalog is shown.            *)
StartsInv ==
  \A t \in Tab : starts[t] # <<>> =>
    purchase[t] = None /\ starts[t] = <<Head(starts[t])>>

(* A mounted poll is of the pending purchase of its tab; what has opened   *)
(* was paid for.                                                           *)
PollOf(r, t) ==
  /\ r.alive => Pending(t) /\ r.who = purchase[t]
  /\ r.got \/ r.at = "content" => r.who \in paid
PollInv == \A t \in Tab, i \in Slot : PollOf(tick[t][i], t)

(* Polls none of which is mounted.                                         *)
Still(r) == ~ r.alive /\ (r.got \/ r.at = "content" => r.who \in paid)
Quiet(N) == \A i \in Slot : Still(N[i])

PageInv == TypeInv /\ FileInv /\ StartsInv /\ PollInv /\ UnlockIsOfPurchase

LEMMA TailOfOne == ASSUME NEW x PROVE Tail(<<x>>) = <<>>
<1>1. <<x>> \in Seq({x}) /\ Len(<<x>>) = 1 /\ <<x>> # <<>>  OBVIOUS
<1>2. Tail(<<x>>) \in Seq({x}) /\ Len(Tail(<<x>>)) = 0
  BY <1>1, HeadTailProperties
<1>3. QED  BY <1>2, EmptySeq

LEMMA PagePoll ==
  ASSUME PageInv, NEW t \in Tab, NEW i \in Slot,
         PollStep(t, i) \/ BlobFails(t, i) \/ PollThrows(t, i)
  PROVE  PollInv' /\ UnlockIsOfPurchase'
<1> USE DEF PageInv
<1>0. TicksOK /\ TypeOK  BY TicksTyped DEF TypeInv
<1>1. UNCHANGED <<paid, purchase>>
  BY DEF PollStep, Poll, listDispatch, BlobOpens, BlobDoesNotOpen, ContentArrives,
     BlobFails, PollThrows, tickVars, worldVars
<1>2. ASSUME NEW r, Set(t, i, r), UNCHANGED <<unlock, polling>>, PollOf(r, t)
      PROVE  PollInv' /\ UnlockIsOfPurchase'
  <2>1. /\ tick'[t][i] = r
        /\ \A s \in Tab, j \in Slot : s # t \/ j # i => tick'[s][j] = tick[s][j]
    BY <1>0, <1>2 DEF Set, TicksOK
  <2>2. PollInv'
    BY <1>1, <1>2, <2>1 DEF PollInv, PollOf, Pending
  <2>3. UnlockIsOfPurchase'
    BY <1>1, <1>2 DEF UnlockIsOfPurchase
  <2>4. QED  BY <2>2, <2>3
<1>3. PollOf(Idle, t)  BY DEF PollOf, Idle
<1>4. ASSUME NEW r \in Tick, NEW done, RunOn(t, i, r, done), PollOf(r, t)
      PROVE  PollInv' /\ UnlockIsOfPurchase'
  <2>1. CASE Fetches(t, i, r)
    <3>1. PICK b \in Blob, K \in SUBSET Blob :
            Set(t, i, [r EXCEPT !.at = "blob", !.key = {b}, !.keys = K])
      BY <2>1 DEF Fetches
    <3>2. PollOf([r EXCEPT !.at = "blob", !.key = {b}, !.keys = K], t)
      BY <1>4 DEF PollOf, Tick
    <3>3. QED  BY <1>2, <2>1, <3>1, <3>2 DEF Fetches
  <2>2. CASE Ends(t, i)
    BY <1>2, <1>3, <2>2 DEF Ends
  <2>3. CASE Shows(t, i, r)
    <3>1. [Unmounted(t) EXCEPT ![i] = Idle] \in [Slot -> Poller]
      BY <1>0, FieldsTyped, IdleTyped
    <3>2. /\ tick'[t] = [Unmounted(t) EXCEPT ![i] = Idle]
          /\ \A s \in Tab : s # t => tick'[s] = tick[s]
      BY <1>0, <2>3, <3>1, GiveTyped DEF Shows
    <3>3. ASSUME NEW j \in Slot PROVE PollOf(tick[t][j], t)'
      <4>1. CASE j = i
        BY <3>2, <4>1, <1>0, FieldsTyped DEF PollOf, Idle
      <4>2. CASE j # i
        <5>1. tick'[t][j] = [tick[t][j] EXCEPT !.alive = FALSE]
          BY <3>2, <4>2 DEF Unmounted
        <5>2. PICK q \in Tick : q = tick[t][j]  BY <1>0 DEF TicksOK, Poller
        <5>3. PollOf(q, t)  BY <5>2 DEF PollInv
        <5>4. QED  BY <1>1, <5>1, <5>2, <5>3 DEF PollOf, Tick
      <4>3. QED  BY <4>1, <4>2
    <3>4. ASSUME NEW s \in Tab, NEW j \in Slot, s # t PROVE PollOf(tick[s][j], s)'
      BY <1>0, <1>1, <2>3, <3>2, <3>4 DEF Shows, PollInv, PollOf, Pending, TypeOK
    <3>5. PollInv'  BY <3>3, <3>4 DEF PollInv
    <3>6. r.who = purchase[t] /\ r.who \in paid  BY <1>4, <2>3 DEF Shows, PollOf
    <3>7. UnlockIsOfPurchase'
      BY <1>0, <1>1, <2>3, <3>6 DEF Shows, UnlockIsOfPurchase, TypeOK
    <3>8. QED  BY <3>5, <3>7
  <2>4. QED  BY <1>4, <2>1, <2>2, <2>3, RunsOn
<1> DEFINE q == tick[t][i]
<1>5. q \in Poller /\ q \in Tick /\ PollOf(q, t)  BY <1>0 DEF TicksOK, Poller, PollInv
<1>6. /\ \A K \in SUBSET Blob : PollOf([q EXCEPT !.keys = K], t)
      /\ PollOf([q EXCEPT !.key = {}], t)
      /\ q.at = "content" => PollOf([q EXCEPT !.key = {}, !.got = TRUE], t)
  <2>1. PICK r \in Tick : r = q  BY <1>5
  <2>2. /\ \A K \in SUBSET Blob : PollOf([r EXCEPT !.keys = K], t)
        /\ PollOf([r EXCEPT !.key = {}], t)
        /\ r.at = "content" => PollOf([r EXCEPT !.key = {}, !.got = TRUE], t)
    BY <1>5, <2>1 DEF PollOf, Tick
  <2>3. QED  BY <2>1, <2>2
<1>7. CASE Poll(t, i)
  <2>1. PollOf([Idle EXCEPT !.at = "list", !.who = purchase[t], !.alive = TRUE,
                            !.mine = TRUE], t)
    BY <1>7 DEF Poll, PollOf, Idle
  <2>2. QED  BY <1>2, <1>7, <2>1 DEF Poll
<1>8. CASE listDispatch(t, i)
  BY <1>0, <1>4, <1>6, <1>8, PollTyped DEF listDispatch
<1>9. CASE BlobOpens(t, i)
  <2>1. q.key # {}
    <3>1. PICK r \in Poller : r = q  BY <1>5
    <3>2. r.at = "blob"  BY <1>9, <3>1 DEF BlobOpens
    <3>3. Cardinality(r.key) = 1  BY <3>2 DEF Poller, OneKey
    <3>4. Cardinality({}) = 0  BY FS_EmptySet
    <3>5. r.key # {}  BY <3>3, <3>4
    <3>6. QED  BY <3>1, <3>5
  <2>2. PICK b \in q.key : BuyerOf(b) = q.who /\ file[b] = "whole"
    BY <1>9, <2>1 DEF BlobOpens, Opens
  <2>3. q.who \in paid  BY <1>5, <2>2 DEF FileInv, Tick
  <2>4. PICK r \in Tick : r = q  BY <1>5
  <2>5. PollOf([r EXCEPT !.at = "content"], t)
    BY <1>5, <2>3, <2>4 DEF PollOf, Tick
  <2>6. QED  BY <1>2, <1>9, <2>4, <2>5 DEF BlobOpens
<1>10. CASE BlobDoesNotOpen(t, i)
  BY <1>0, <1>4, <1>6, <1>10, PollTyped DEF BlobDoesNotOpen
<1>11. CASE ContentArrives(t, i)
  BY <1>0, <1>4, <1>6, <1>11, PollTyped DEF ContentArrives
<1>12. CASE BlobFails(t, i)
  BY <1>0, <1>4, <1>6, <1>12, PollTyped DEF BlobFails
<1>13. CASE PollThrows(t, i)
  BY <1>2, <1>3, <1>13 DEF PollThrows
<1>14. QED
  BY <1>7, <1>8, <1>9, <1>10, <1>11, <1>12, <1>13 DEF PollStep

(* Each step of a poll lets it be, or runs on from a record of its tab.    *)
LEMMA PollRuns ==
  ASSUME PageInv, NEW t \in Tab, NEW i \in Slot,
         PollStep(t, i) \/ BlobFails(t, i) \/ PollThrows(t, i)
  PROVE  \/ UNCHANGED <<stored, unlock>>
         \/ \E r \in Tick : \E done : RunOn(t, i, r, done) /\ PollOf(r, t)
<1> USE DEF PageInv
<1>1. TicksOK  BY TicksTyped DEF TypeInv
<1>2. PICK q \in Tick : q = tick[t][i]  BY <1>1 DEF TicksOK, Poller
<1>3. PollOf(q, t)  BY <1>2 DEF PollInv
<1>4. CASE listDispatch(t, i)
  <2>1. PICK K \in SUBSET Blob : RunOn(t, i, [q EXCEPT !.keys = K], tried[t])
    BY <1>2, <1>4 DEF listDispatch
  <2>2. [q EXCEPT !.keys = K] \in Tick /\ PollOf([q EXCEPT !.keys = K], t)
    BY <1>3 DEF Tick, PollOf
  <2>3. QED  BY <2>1, <2>2
<1>5. CASE BlobDoesNotOpen(t, i) \/ BlobFails(t, i)
  <2>1. PICK done : RunOn(t, i, [q EXCEPT !.key = {}], done)
    BY <1>2, <1>5 DEF BlobDoesNotOpen, BlobFails
  <2>2. [q EXCEPT !.key = {}] \in Tick /\ PollOf([q EXCEPT !.key = {}], t)
    BY <1>3 DEF Tick, PollOf
  <2>3. QED  BY <2>1, <2>2
<1>6. CASE ContentArrives(t, i)
  <2>1. /\ q.at = "content"
        /\ RunOn(t, i, [q EXCEPT !.key = {}, !.got = TRUE], WithKey(t, i))
    BY <1>2, <1>6 DEF ContentArrives
  <2>2. /\ [q EXCEPT !.key = {}, !.got = TRUE] \in Tick
        /\ PollOf([q EXCEPT !.key = {}, !.got = TRUE], t)
    BY <1>3, <2>1 DEF Tick, PollOf
  <2>3. QED  BY <2>1, <2>2
<1>7. CASE Poll(t, i) \/ BlobOpens(t, i) \/ PollThrows(t, i)
  BY <1>7 DEF Poll, BlobOpens, PollThrows
<1>8. QED  BY <1>4, <1>5, <1>6, <1>7 DEF PollStep

LEMMA PageButtons ==
  ASSUME MaxStarts <= 1, PageInv, NEW t \in Tab, Buttons(t)
  PROVE  FileInv' /\ StartsInv' /\ PollInv' /\ UnlockIsOfPurchase'
<1> USE DEF PageInv, worldVars, stateVars, workVars, boundVars
<1>0. TicksOK /\ TypeOK  BY TicksTyped DEF TypeInv
<1>1. FileInv'
  BY DEF Buttons, Buy, Bought, BuyFails, reset, toggleRemember, Reload, FileInv
<1>2. \A s \in Tab : s # t => UNCHANGED <<starts[s], purchase[s], unlock[s], polling[s]>>
  BY <1>0 DEF Buttons, Buy, Bought, BuyFails, reset, toggleRemember, Reload, TypeOK
<1>3. UNCHANGED paid
  BY DEF Buttons, Buy, Bought, BuyFails, reset, toggleRemember, Reload
(* Every button that touches the polls of t leaves none of them mounted.   *)
<1>4. ASSUME NEW N \in [Slot -> Poller], tick' = [tick EXCEPT ![t] = N], Quiet(N)
      PROVE  PollInv'
  <2>1. tick'[t] = N /\ \A s \in Tab : s # t => tick'[s] = tick[s]
    BY <1>0, <1>4, GiveTyped
  <2>2. ASSUME NEW i \in Slot PROVE PollOf(tick[t][i], t)'
    BY <1>3, <1>4, <2>1 DEF PollOf, Quiet, Still
  <2>3. ASSUME NEW s \in Tab, NEW i \in Slot, s # t PROVE PollOf(tick[s][i], s)'
    <3>1. PollOf(tick[s][i], s)  BY DEF PollInv
    <3>2. QED  BY <1>2, <1>3, <2>1, <2>3, <3>1 DEF PollOf, Pending
  <2>4. QED  BY <2>2, <2>3 DEF PollInv
<1>5. ASSUME UNCHANGED <<tick, purchase, unlock>> PROVE PollInv'
  BY <1>3, <1>5 DEF PollInv, PollOf, Pending
<1>6. /\ Quiet(Unmounted(t)) /\ Quiet(Dropped(t)) /\ Quiet(NoTicks)
      /\ purchase[t] = None => Quiet(Detached(t))
  <2>1. ASSUME NEW i \in Slot
        PROVE  /\ Still(Unmounted(t)[i]) /\ Still(Dropped(t)[i]) /\ Still(NoTicks[i])
               /\ purchase[t] = None => Still(Detached(t)[i])
    <3>1. PICK q \in Tick : q = tick[t][i]  BY <1>0 DEF TicksOK, Poller
    <3>2. /\ Unmounted(t)[i] = [q EXCEPT !.alive = FALSE]
          /\ Dropped(t)[i] = [q EXCEPT !.alive = FALSE, !.mine = FALSE]
          /\ Detached(t)[i] = [q EXCEPT !.mine = FALSE]
          /\ NoTicks[i] = Idle
      BY <3>1 DEF Unmounted, Dropped, Detached, NoTicks
    <3>3. PollOf(q, t)  BY <3>1 DEF PollInv
    <3>4. QED  BY <3>2, <3>3 DEF Tick, PollOf, Pending, Still, Idle
  <2>2. QED  BY <2>1 DEF Quiet
<1>7. ASSUME starts'[t] # <<>> => purchase'[t] = None /\ starts'[t] = <<Head(starts'[t])>>,
             unlock'[t] # None => /\ unlock'[t] = purchase'[t] /\ unlock'[t] \in paid
                                  /\ ~ polling'[t]
      PROVE  StartsInv' /\ UnlockIsOfPurchase'
  BY <1>2, <1>3, <1>7 DEF UnlockIsOfPurchase, StartsInv
<1>8. CASE Buy(t)
  <2>1. unlock[t] = None
    BY <1>8, NoneAssumption DEF Buy, UnlockIsOfPurchase
  <2>2. PollInv'  BY <1>0, <1>4, <1>6, <1>8, FieldsTyped DEF Buy
  <2>3. starts[t] = <<>>
    <3>1. starts[t] \in Seq(BOOLEAN) /\ Len(starts[t]) < MaxStarts  BY <1>0, <1>8 DEF Buy, TypeOK
    <3>2. MaxStarts \in Nat  BY BoundsAssumption
    <3>3. QED  BY <3>1, <3>2, EmptySeq
  <2>4. starts'[t] = <<remember[t]>>  BY <1>0, <1>8, <2>3 DEF Buy, TypeOK
  <2>5. unlock'[t] = None /\ purchase'[t] = None  BY <1>0, <1>8 DEF Buy, TypeOK
  <2>6. Head(<<remember[t]>>) = remember[t]  OBVIOUS
  <2>7. QED  BY <1>1, <1>7, <2>2, <2>4, <2>5, <2>6
<1>9. ASSUME NEW p \in Purchase, Bought(t, p)
      PROVE  FileInv' /\ StartsInv' /\ PollInv' /\ UnlockIsOfPurchase'
  <2>1. purchase[t] = None /\ starts[t] = <<Head(starts[t])>>
    BY <1>9 DEF Bought, StartsInv
  <2>2. starts'[t] = <<>>
    <3>1. starts'[t] = Tail(starts[t])  BY <1>0, <1>9 DEF Bought, TypeOK
    <3>2. QED  BY <2>1, <3>1, TailOfOne
  <2>3. unlock'[t] = None
    BY <1>0, <1>9, <2>1, NoneAssumption DEF Bought, UnlockIsOfPurchase, TypeOK
  <2>4. PollInv'  BY <1>0, <1>4, <1>6, <1>9, FieldsTyped DEF Bought
  <2>5. QED  BY <1>1, <1>7, <2>2, <2>3, <2>4
<1>10. CASE BuyFails(t)
  <2>1. starts'[t] = <<>>
    <3>1. starts[t] = <<Head(starts[t])>>  BY <1>10 DEF BuyFails, StartsInv
    <3>2. starts'[t] = Tail(starts[t])  BY <1>0, <1>10 DEF BuyFails, TypeOK
    <3>3. QED  BY <3>1, <3>2, TailOfOne
  <2>2. QED  BY <1>1, <1>5, <1>7, <1>10, <2>1 DEF BuyFails, UnlockIsOfPurchase
<1>11. CASE reset(t)
  <2>1. starts[t] = <<>>  BY <1>11 DEF reset, StartsInv
  <2>2. starts'[t] = <<>> /\ unlock'[t] = None  BY <1>0, <1>11, <2>1 DEF reset, TypeOK
  <2>3. PollInv'  BY <1>0, <1>4, <1>6, <1>11, FieldsTyped DEF reset
  <2>4. QED  BY <1>1, <1>7, <2>2, <2>3
<1>12. CASE toggleRemember(t)
  <2>1. UNCHANGED <<starts, purchase, unlock, polling, tick>>  BY <1>12 DEF toggleRemember
  <2>2. QED
    BY <1>1, <1>3, <1>5, <2>1 DEF StartsInv, UnlockIsOfPurchase
<1>13. ASSUME NEW late \in BOOLEAN, Reload(t, late)
       PROVE  FileInv' /\ StartsInv' /\ PollInv' /\ UnlockIsOfPurchase'
  <2>1. starts'[t] = <<>> /\ unlock'[t] = None
    BY <1>0, <1>13 DEF Reload, TypeOK
  <2>3. PollInv'  BY <1>0, <1>4, <1>6, <1>13, FieldsTyped DEF Reload
  <2>4. QED  BY <1>1, <1>7, <2>1, <2>3
<1>14. QED
  BY <1>8, <1>9, <1>10, <1>11, <1>12, <1>13 DEF Buttons

LEMMA PageWorld ==
  ASSUME PageInv, World
  PROVE  FileInv' /\ StartsInv' /\ PollInv' /\ UnlockIsOfPurchase'
<1> USE DEF PageInv
<1>1. UNCHANGED <<purchase, unlock, polling, starts, tick>> /\ paid \subseteq paid'
  BY DEF World, Pay, CreateBlob, FillBlob, stateVars, workVars
<1>2. PollInv'  BY <1>1 DEF PollInv, PollOf, Pending
<1>3. StartsInv' /\ UnlockIsOfPurchase'  BY <1>1 DEF StartsInv, UnlockIsOfPurchase
<1>4. FileInv'
  BY <1>1 DEF World, Pay, CreateBlob, FillBlob, FileInv, TypeInv, TypeOK
<1>5. QED  BY <1>2, <1>3, <1>4

LEMMA PageInit == Init => PageInv
BY TypeInvInit
DEF Init, PageInv, FileInv, StartsInv, PollInv, PollOf, NoTicks, Idle, UnlockIsOfPurchase

LEMMA PageNext ==
  ASSUME MaxStarts <= 1, PageInv, [Next]_vars
  PROVE  PageInv'
<1>1. TypeInv'  BY TypeInvNext DEF PageInv
<1>2. CASE World  BY <1>1, <1>2, PageWorld DEF PageInv
<1>3. ASSUME NEW t \in Tab, Buttons(t) PROVE PageInv'
  BY <1>1, <1>3, PageButtons DEF PageInv
<1>4. ASSUME NEW t \in Tab, NEW i \in Slot,
             PollStep(t, i) \/ BlobFails(t, i) \/ PollThrows(t, i)
      PROVE  PageInv'
  <2>1. PollInv' /\ UnlockIsOfPurchase'  BY <1>4, PagePoll
  <2>2. UNCHANGED <<file, paid, starts, purchase>>
    BY <1>4 DEF PollStep, Poll, listDispatch, BlobOpens, BlobDoesNotOpen,
       ContentArrives, BlobFails, PollThrows, tickVars, worldVars
  <2>3. FileInv' /\ StartsInv'  BY <2>2 DEF PageInv, FileInv, StartsInv
  <2>4. QED  BY <1>1, <2>1, <2>3 DEF PageInv
<1>5. CASE UNCHANGED vars
  BY <1>1, <1>5 DEF PageInv, FileInv, StartsInv, PollInv, PollOf, Pending,
     UnlockIsOfPurchase, vars, worldVars, stateVars, workVars
<1>6. QED  BY <1>2, <1>3, <1>4, <1>5 DEF Next

(***************************************************************************)
(* With one click on Buy under way at a time, a page shows no unlock but   *)
(* that of its own, paid purchase, in any number of tabs and with any      *)
(* number of polls that overlap.                                           *)
(***************************************************************************)
THEOREM OnlyOwnUnlock ==
  ASSUME MaxStarts <= 1
  PROVE  Spec => []UnlockIsOfPurchase
<1>1. PageInv => UnlockIsOfPurchase  BY DEF PageInv
<1>2. PageInv /\ [Next]_vars => PageInv'  BY PageNext
<1>3. QED  BY <1>1, <1>2, PageInit, PTL DEF Spec

-----------------------------------------------------------------------------
(* What is kept for a reload.                                              *)

(* A click on Buy carries the box's state, which cannot change under it.   *)
KeepInv ==
  /\ StoredIsActive
  /\ \A t \in Tab : starts[t] # <<>> => starts[t] = <<remember[t]>>

LEMMA KeepNext ==
  ASSUME MaxStarts <= 1, NEW t \in Tab, Tab = {t}, PageInv, KeepInv, [Next]_vars
  PROVE  KeepInv'
<1> USE DEF PageInv, KeepInv, worldVars, stateVars, workVars, boundVars, savePurchase,
        clearPurchase
<1>0. TypeOK  BY DEF TypeInv
<1>1. ASSUME stored' = IF Pending(t)' /\ remember'[t] THEN purchase'[t] ELSE None,
             starts'[t] # <<>> => starts'[t] = <<remember'[t]>>
      PROVE  KeepInv'
  BY <1>1 DEF StoredIsActive
<1>2. stored = IF Pending(t) /\ remember[t] THEN purchase[t] ELSE None
  BY DEF StoredIsActive
<1>3. starts[t] # <<>> => purchase[t] = None  BY DEF StartsInv
<1>4. CASE World \/ UNCHANGED vars
  <2>1. UNCHANGED <<stored, purchase, unlock, remember, starts>>
    BY <1>4 DEF World, Pay, CreateBlob, FillBlob, vars
  <2>2. QED  BY <1>1, <1>2, <2>1 DEF Pending
<1>5. CASE Buy(t)
  <2>1. starts[t] = <<>>
    <3>1. starts[t] \in Seq(BOOLEAN) /\ Len(starts[t]) < MaxStarts  BY <1>0, <1>5 DEF Buy, TypeOK
    <3>2. MaxStarts \in Nat  BY BoundsAssumption
    <3>3. QED  BY <3>1, <3>2, EmptySeq
  <2>2. starts'[t] = <<remember[t]>>  BY <1>0, <1>5, <2>1 DEF Buy, TypeOK
  <2>3. UNCHANGED <<stored, purchase, remember>> /\ purchase[t] = None  BY <1>5 DEF Buy
  <2>4. QED  BY <1>1, <1>2, <2>2, <2>3 DEF Pending
<1>6. ASSUME NEW p \in Purchase, Bought(t, p) PROVE KeepInv'
  <2>1. starts[t] = <<remember[t]>> /\ purchase[t] = None
    BY <1>3, <1>6 DEF Bought
  <2>2. Head(starts[t]) = remember[t] /\ Tail(starts[t]) = <<>>
    BY <2>1, TailOfOne
  <2>3. /\ starts'[t] = <<>> /\ purchase'[t] = p /\ UNCHANGED <<unlock, remember>>
        /\ stored' = IF remember[t] THEN p ELSE stored
    BY <1>0, <1>6, <2>2 DEF Bought, TypeOK
  <2>4. stored = None  BY <1>2, <2>1 DEF Pending
  <2>5. p # None  BY NoneAssumption
  <2>6. unlock[t] = None  BY <2>1 DEF UnlockIsOfPurchase
  <2>7. QED  BY <1>1, <2>3, <2>4, <2>5, <2>6 DEF Pending
<1>7. CASE BuyFails(t)
  <2>1. starts'[t] = <<>>
    BY <1>0, <1>7, TailOfOne DEF BuyFails, TypeOK
  <2>2. UNCHANGED <<stored, purchase, unlock, remember>>  BY <1>7 DEF BuyFails
  <2>3. QED  BY <1>1, <1>2, <2>1, <2>2 DEF Pending
<1>8. CASE reset(t)
  <2>1. starts[t] = <<>>  BY <1>3, <1>8 DEF reset
  <2>2. /\ UNCHANGED starts /\ stored' = None /\ purchase'[t] = None
    BY <1>0, <1>8 DEF reset, TypeOK
  <2>3. QED  BY <1>1, <2>1, <2>2 DEF Pending
<1>9. CASE toggleRemember(t)
  <2>1. /\ UNCHANGED <<purchase, unlock, starts>> /\ Pending(t)
        /\ remember'[t] = ~ remember[t]
        /\ stored' = IF remember[t] THEN None ELSE purchase[t]
    BY <1>0, <1>9 DEF toggleRemember, TypeOK
  <2>2. starts[t] = <<>>  BY <1>3, <2>1 DEF Pending
  <2>3. remember[t] \in BOOLEAN  BY <1>0 DEF TypeOK
  <2>4. QED  BY <1>1, <2>1, <2>2, <2>3 DEF Pending
<1>10. ASSUME NEW late \in BOOLEAN, Reload(t, late) PROVE KeepInv'
  <2>1. /\ starts'[t] = <<>> /\ purchase'[t] = stored' /\ unlock'[t] = None
        /\ remember'[t] = TRUE
    BY <1>0, <1>10 DEF Reload, TypeOK
  <2>2. QED  BY <1>1, <2>1 DEF Pending
<1>11. ASSUME NEW i \in Slot, PollStep(t, i) \/ BlobFails(t, i) \/ PollThrows(t, i)
       PROVE  KeepInv'
  <2>1. UNCHANGED <<purchase, remember, starts>>
    BY <1>11 DEF PollStep, Poll, listDispatch, BlobOpens, BlobDoesNotOpen,
       ContentArrives, BlobFails, PollThrows, tickVars
  <2>2. UNCHANGED <<stored, unlock>> \/ (stored' = None /\ unlock'[t] # None)
    <3>1. CASE \E r \in Tick : \E done : RunOn(t, i, r, done) /\ PollOf(r, t)
      <4>1. PICK r \in Tick : \E done : RunOn(t, i, r, done) /\ PollOf(r, t)  BY <3>1
      <4>2. CASE Fetches(t, i, r) \/ Ends(t, i)  BY <4>2 DEF Fetches, Ends
      <4>3. CASE Shows(t, i, r)
        BY <1>0, <4>1, <4>3 DEF Shows, PollOf, Pending, TypeOK
      <4>4. QED  BY <4>1, <4>2, <4>3, RunsOn
    <3>2. QED  BY <1>11, <3>1, PollRuns
  <2>3. QED  BY <1>1, <1>2, <2>1, <2>2 DEF Pending
<1>12. QED
  BY <1>4, <1>5, <1>6, <1>7, <1>8, <1>9, <1>10, <1>11 DEF Next, Buttons

(***************************************************************************)
(* One tab, one click at a time: localStorage holds the purchase of the    *)
(* page exactly while it is pending and the buyer wants it kept.           *)
(***************************************************************************)
THEOREM KeptWhilePending ==
  ASSUME MaxStarts <= 1, NEW t, Tab = {t}
  PROVE  Spec => []StoredIsActive
<1>1. Init => KeepInv  BY DEF Init, KeepInv, StoredIsActive, Pending
<1>2. PageInv /\ KeepInv /\ [Next]_vars => KeepInv'  BY KeepNext
<1>3. PageInv /\ [Next]_vars => PageInv'  BY PageNext
<1>4. KeepInv => StoredIsActive  BY DEF KeepInv
<1>5. QED  BY <1>1, <1>2, <1>3, <1>4, PageInit, PTL DEF Spec

(***************************************************************************)
(* In one tab a reload forfeits nothing the buyer wants kept, as persist.ts*)
(* says: it takes a second tab to lose the purchase.                       *)
(***************************************************************************)
THEOREM OneTabForfeitsNothing ==
  ASSUME MaxStarts <= 1, NEW t, Tab = {t}
  PROVE  Spec => []KeptForReload
<1>1. StoredIsActive => KeptForReload  BY DEF StoredIsActive, KeptForReload, Settled
<1>2. QED  BY <1>1, KeptWhilePending, PTL

-----------------------------------------------------------------------------
(* No blob is written off.                                                 *)

Own(t) == WholeBlobs(purchase[t])

(* Something is left to try, or was read too early to count as tried.      *)
Open(t) == \E b \in Own(t) : b \notin tried[t] \/ b \in short[t]

(* Poll i has opened a blob and will say so: what it is fetching now would *)
(* not open, so it cannot fail on the content of another.                  *)
Carrier(t, i) ==
  LET r == tick[t][i] IN r.alive /\ r.got /\ r.at = "blob" /\ r.key \cap Own(t) = {}

CarryInv ==
  \A t \in Tab : Pending(t) => Own(t) = {} \/ Open(t) \/ \E i \in Slot : Carrier(t, i)

(* What was tried exists; an own blob tried before it was whole is noted.  *)
TriedInv ==
  \A t \in Tab : \A b \in tried[t] :
    /\ file[b] # "absent"
    /\ Pending(t) /\ BuyerOf(b) = purchase[t] /\ file[b] # "whole" => b \in short[t]

(* A poll visits files there are, one at a time; its poller is the tab's   *)
(* as long as it is mounted.                                               *)
CareOf(r, t) ==
  /\ \A b \in r.keys \cup r.key : file[b] # "absent"
  /\ \A b, c \in r.key : b = c
  /\ r.at = "content" => \A b \in r.key : file[b] = "whole"
  /\ purchase[t] = None => ~ r.mine
  /\ Pending(t) => (r.mine <=> r.alive)
VisitInv == \A t \in Tab, i \in Slot : CareOf(tick[t][i], t)

CareInv == CarryInv /\ TriedInv /\ VisitInv

LEMMA CareInit == Init => CareInv
BY DEF Init, CareInv, CarryInv, TriedInv, VisitInv, CareOf, Pending, NoTicks, Idle

(* A mounted poll that has opened a blob and runs on shows it, or carries  *)
(* it to the fetch of a blob that is not tried yet.                        *)
LEMMA CarriesOn ==
  ASSUME TicksOK, NEW t \in Tab, NEW i \in Slot, NEW r \in Tick,
         r.alive, r.got, r.mine, RunOn(t, i, r, tried'[t]),
         r.who # None, unlock \in [Tab -> Purchase \cup {None}], UNCHANGED <<file, purchase>>
  PROVE  ~ Pending(t)' \/ Open(t)' \/ Carrier(t, i)'
<1>1. CASE FetchNext(t, i, r, tried'[t])
  <2>1. PICK b \in r.keys \ tried'[t] :
          Set(t, i, [r EXCEPT !.at = "blob", !.key = {b},
                              !.keys = (r.keys \ tried'[t]) \ {b}])
    BY <1>1 DEF FetchNext, Untried
  <2>2. tick'[t][i] = [r EXCEPT !.at = "blob", !.key = {b},
                                !.keys = (r.keys \ tried'[t]) \ {b}]
    BY <2>1 DEF Set, TicksOK
  <2>3. /\ tick'[t][i].alive /\ tick'[t][i].got /\ tick'[t][i].at = "blob"
        /\ tick'[t][i].key = {b}
    BY <2>2 DEF Tick
  <2>4. CASE b \in Own(t)'  BY <2>1, <2>4 DEF Open
  <2>5. CASE b \notin Own(t)'  BY <2>3, <2>5 DEF Carrier
  <2>6. QED  BY <2>4, <2>5
<1>2. CASE PollEnds(t, i, r, tried'[t])
  <2>1. unlock'[t] = r.who  BY <1>2 DEF PollEnds
  <2>2. QED  BY <2>1 DEF Pending
<1>3. QED  BY <1>1, <1>2 DEF RunOn

LEMMA VisitPoll ==
  ASSUME PageInv, CareInv, NEW t \in Tab, NEW i \in Slot,
         PollStep(t, i) \/ BlobFails(t, i) \/ PollThrows(t, i)
  PROVE  /\ VisitInv'
         /\ UNCHANGED <<file, purchase>>
         /\ \A s \in Tab : s # t => UNCHANGED <<tick[s], unlock[s], tried[s], short[s]>>
         /\ Pending(t)' => Pending(t) /\ \A j \in Slot : j # i => tick'[t][j] = tick[t][j]
<1> USE DEF PageInv, CareInv
<1>0. TicksOK /\ TypeOK  BY TicksTyped DEF TypeInv
<1>1. UNCHANGED <<file, purchase>>
  BY DEF PollStep, Poll, listDispatch, BlobOpens, BlobDoesNotOpen, ContentArrives,
     BlobFails, PollThrows, tickVars, worldVars
<1>2. \A s \in Tab : s # t => UNCHANGED <<tried[s], short[s]>>
  BY <1>0 DEF PollStep, Poll, listDispatch, BlobOpens, BlobDoesNotOpen, ContentArrives,
     BlobFails, PollThrows, TypeOK
<1> DEFINE Moved == /\ VisitInv'
                    /\ \A s \in Tab : s # t => UNCHANGED <<tick[s], unlock[s]>>
                    /\ Pending(t)' => /\ Pending(t)
                                      /\ \A j \in Slot : j # i => tick'[t][j] = tick[t][j]
<1>3. ASSUME NEW r, Set(t, i, r), UNCHANGED unlock, CareOf(r, t)  PROVE Moved
  <2>1. /\ tick'[t][i] = r
        /\ \A s \in Tab, j \in Slot : s # t \/ j # i => tick'[s][j] = tick[s][j]
        /\ \A s \in Tab : s # t => tick'[s] = tick[s]
    BY <1>0, <1>3 DEF Set, TicksOK
  <2>2. VisitInv'  BY <1>1, <1>3, <2>1 DEF VisitInv, CareOf, Pending
  <2>3. QED  BY <1>1, <1>3, <2>1, <2>2 DEF Pending
<1>4. CareOf(Idle, t)  BY DEF CareOf, Idle, Pending
<1>5. ASSUME NEW r \in Tick, NEW done, RunOn(t, i, r, done), CareOf(r, t), PollOf(r, t)
      PROVE  Moved
  <2>1. CASE FetchNext(t, i, r, done)
    <3>1. Untried(r, done) \subseteq r.keys  BY DEF Untried
    <3>2. PICK b \in Untried(r, done) :
            Set(t, i, [r EXCEPT !.at = "blob", !.key = {b},
                                !.keys = Untried(r, done) \ {b}])
      BY <2>1 DEF FetchNext
    <3>3. CareOf([r EXCEPT !.at = "blob", !.key = {b},
                           !.keys = Untried(r, done) \ {b}], t)
      BY <1>5, <3>1 DEF CareOf, Tick
    <3>4. QED  BY <1>3, <2>1, <3>2, <3>3 DEF FetchNext
  <2>2. CASE PollEnds(t, i, r, done) /\ ~ (r.alive /\ r.got)
    BY <1>3, <1>4, <2>2 DEF PollEnds
  <2>3. CASE PollEnds(t, i, r, done) /\ r.alive /\ r.got
    <3>1. Shows(t, i, r)  BY <2>3 DEF PollEnds, Shows, clearPurchase
    <3>2. [Unmounted(t) EXCEPT ![i] = Idle] \in [Slot -> Poller]
      BY <1>0, FieldsTyped, IdleTyped
    <3>3. /\ tick'[t] = [Unmounted(t) EXCEPT ![i] = Idle]
          /\ \A s \in Tab : s # t => tick'[s] = tick[s]
      BY <1>0, <3>1, <3>2, GiveTyped DEF Shows
    <3>4. unlock'[t] # None /\ \A s \in Tab : s # t => unlock'[s] = unlock[s]
      BY <1>0, <1>5, <2>3, <3>1 DEF Shows, PollOf, Pending, TypeOK
    <3>5. ASSUME NEW j \in Slot PROVE CareOf(tick[t][j], t)'
      <4>1. CASE j = i
        BY <1>0, <3>3, <3>4, <4>1, FieldsTyped DEF CareOf, Idle, Pending
      <4>2. CASE j # i
        <5>1. PICK q \in Tick : q = tick[t][j]  BY <1>0 DEF TicksOK, Poller
        <5>2. CareOf(q, t)  BY <5>1 DEF VisitInv
        <5>3. tick'[t][j] = [q EXCEPT !.alive = FALSE]
          BY <3>3, <4>2, <5>1 DEF Unmounted
        <5>4. QED  BY <1>1, <3>4, <5>2, <5>3 DEF CareOf, Tick, Pending
      <4>3. QED  BY <4>1, <4>2
    <3>6. ASSUME NEW s \in Tab, NEW j \in Slot, s # t PROVE CareOf(tick[s][j], s)'
      <4>1. CareOf(tick[s][j], s)  BY DEF VisitInv
      <4>2. QED  BY <1>1, <3>3, <3>4, <3>6, <4>1 DEF CareOf, Pending
    <3>7. VisitInv'  BY <3>5, <3>6 DEF VisitInv
    <3>8. QED  BY <3>3, <3>4, <3>7 DEF Pending
  <2>4. QED  BY <1>5, <2>1, <2>2, <2>3 DEF RunOn
<1>6. PICK q \in Tick : q = tick[t][i]  BY <1>0 DEF TicksOK, Poller
<1>7. PollOf(q, t) /\ CareOf(q, t)  BY <1>6 DEF PollInv, VisitInv
<1>8. Moved
  <2>1. CASE Poll(t, i)
    <3>1. CareOf([Idle EXCEPT !.at = "list", !.who = purchase[t], !.alive = TRUE,
                              !.mine = TRUE], t)
      BY <2>1 DEF Poll, CareOf, Idle, Pending
    <3>2. QED  BY <1>3, <2>1, <3>1 DEF Poll
  <2>2. CASE listDispatch(t, i)
    <3>1. PICK K : /\ K = {b \in Blob : file[b] # "absent"}
                   /\ RunOn(t, i, [q EXCEPT !.keys = K], tried[t])
      BY <1>6, <2>2 DEF listDispatch
    <3>2. /\ [q EXCEPT !.keys = K] \in Tick
          /\ CareOf([q EXCEPT !.keys = K], t) /\ PollOf([q EXCEPT !.keys = K], t)
      BY <1>7, <3>1 DEF Tick, CareOf, PollOf
    <3>3. QED  BY <1>5, <3>1, <3>2
  <2>3. CASE BlobOpens(t, i)
    <3>1. \A b \in q.key : file[b] = "whole"  BY <1>6, <2>3 DEF BlobOpens, Opens
    <3>2. CareOf([q EXCEPT !.at = "content"], t)  BY <1>7, <3>1 DEF CareOf, Tick
    <3>3. QED  BY <1>3, <1>6, <2>3, <3>2 DEF BlobOpens
  <2>4. CASE BlobDoesNotOpen(t, i) \/ BlobFails(t, i)
    <3>1. PICK done : RunOn(t, i, [q EXCEPT !.key = {}], done)
      BY <1>6, <2>4 DEF BlobDoesNotOpen, BlobFails
    <3>2. /\ [q EXCEPT !.key = {}] \in Tick
          /\ CareOf([q EXCEPT !.key = {}], t) /\ PollOf([q EXCEPT !.key = {}], t)
      BY <1>7 DEF Tick, CareOf, PollOf
    <3>3. QED  BY <1>5, <3>1, <3>2
  <2>5. CASE ContentArrives(t, i)
    <3>1. /\ q.at = "content"
          /\ RunOn(t, i, [q EXCEPT !.key = {}, !.got = TRUE], WithKey(t, i))
      BY <1>6, <2>5 DEF ContentArrives
    <3>2. /\ [q EXCEPT !.key = {}, !.got = TRUE] \in Tick
          /\ CareOf([q EXCEPT !.key = {}, !.got = TRUE], t)
          /\ PollOf([q EXCEPT !.key = {}, !.got = TRUE], t)
      BY <1>7, <3>1 DEF Tick, CareOf, PollOf
    <3>3. QED  BY <1>5, <3>1, <3>2
  <2>6. CASE PollThrows(t, i)
    BY <1>3, <1>4, <2>6 DEF PollThrows
  <2>7. QED  BY <2>1, <2>2, <2>3, <2>4, <2>5, <2>6 DEF PollStep
<1>9. QED  BY <1>1, <1>2, <1>8

(* A step of poll i of t keeps CarryInv if it keeps what t has open, and   *)
(* what i carries.                                                         *)
LEMMA CarryKept ==
  ASSUME CareInv, NEW t \in Tab, NEW i \in Slot, UNCHANGED <<file, purchase>>,
         \A s \in Tab : s # t => UNCHANGED <<tick[s], unlock[s], tried[s], short[s]>>,
         Pending(t)' => Pending(t) /\ \A j \in Slot : j # i => tick'[t][j] = tick[t][j],
         Pending(t)' /\ Open(t) => Open(t)' \/ Carrier(t, i)',
         Pending(t)' /\ Carrier(t, i) => Open(t)' \/ Carrier(t, i)'
  PROVE  CarryInv'
<1>1. \A s \in Tab : Own(s)' = Own(s)  BY DEF Own, WholeBlobs
<1>2. ASSUME NEW s \in Tab, s # t, Pending(s)'
      PROVE  (Own(s) = {} \/ Open(s) \/ \E j \in Slot : Carrier(s, j))'
  <2>1. Pending(s)  BY <1>2 DEF Pending
  <2>2. CASE Own(s) = {}  BY <1>1, <2>2
  <2>3. CASE Open(s)  BY <1>1, <1>2, <2>3 DEF Open
  <2>4. ASSUME NEW j \in Slot, Carrier(s, j) PROVE Carrier(s, j)'
    BY <1>1, <1>2, <2>4 DEF Carrier
  <2>5. QED  BY <2>1, <2>2, <2>3, <2>4 DEF CareInv, CarryInv
<1>3. ASSUME Pending(t)'
      PROVE  (Own(t) = {} \/ Open(t) \/ \E j \in Slot : Carrier(t, j))'
  <2>1. CASE Own(t) = {}  BY <1>1, <2>1
  <2>2. CASE Open(t)  BY <1>3, <2>2
  <2>3. ASSUME NEW j \in Slot, Carrier(t, j), j # i PROVE Carrier(t, j)'
    BY <1>1, <1>3, <2>3 DEF Carrier
  <2>4. QED  BY <1>3, <2>1, <2>2, <2>3 DEF CareInv, CarryInv
<1>4. QED  BY <1>2, <1>3 DEF CarryInv

LEMMA CarePoll ==
  ASSUME PageInv, CareInv, NEW t \in Tab, NEW i \in Slot,
         PollStep(t, i) \/ BlobFails(t, i) \/ PollThrows(t, i)
  PROVE  CareInv'
<1> USE DEF PageInv, CareInv
<1>0. TicksOK /\ TypeOK  BY TicksTyped DEF TypeInv
<1>1. /\ VisitInv'
      /\ UNCHANGED <<file, purchase>>
      /\ \A s \in Tab : s # t => UNCHANGED <<tick[s], unlock[s], tried[s], short[s]>>
      /\ Pending(t)' => Pending(t) /\ \A j \in Slot : j # i => tick'[t][j] = tick[t][j]
  BY VisitPoll
<1>2. PICK q \in Poller : q = tick[t][i]  BY <1>0 DEF TicksOK
<1>3. q \in Tick /\ PollOf(q, t) /\ CareOf(q, t)
  BY <1>2 DEF Poller, PollInv, VisitInv
(* What is tried now, and what was read too early.                         *)
<1> DEFINE K == IF q.mine THEN q.key ELSE {}
<1>4. CASE BlobDoesNotOpen(t, i)
  <2>1. /\ tried'[t] = tried[t] \cup K
        /\ short'[t] = short[t] \cup {b \in K : file[b] = "partial"}
    BY <1>0, <1>2, <1>4 DEF BlobDoesNotOpen, WithKey, TypeOK
  <2>2. \A b \in K : b \in Blob /\ file[b] \in {"partial", "whole"}
    BY <1>0, <1>3 DEF CareOf, TypeOK, Tick
  <2>3. Pending(t) => \A b \in K : ~ (BuyerOf(b) = purchase[t] /\ file[b] = "whole")
    <3>1. SUFFICES ASSUME Pending(t), q.mine, NEW b \in q.key,
                          BuyerOf(b) = purchase[t], file[b] = "whole"
                   PROVE  FALSE
      OBVIOUS
    <3>2. q.who = purchase[t]  BY <1>3, <3>1 DEF CareOf, PollOf
    <3>3. PICK c \in q.key : ~ (BuyerOf(c) = q.who /\ file[c] = "whole")
      BY <1>2, <1>4 DEF BlobDoesNotOpen, Opens
    <3>4. c = b  BY <1>3, <3>1, <3>3 DEF CareOf
    <3>5. QED  BY <3>1, <3>2, <3>3, <3>4
  <2>4. TriedInv'  BY <1>1, <2>1, <2>2, <2>3 DEF TriedInv, Pending
  <2>5. ASSUME Pending(t)', Open(t) PROVE Open(t)'
    BY <1>1, <2>1, <2>3, <2>5 DEF Open, WholeBlobs, Own
  <2>6. ASSUME Pending(t)', Carrier(t, i) PROVE Open(t)' \/ Carrier(t, i)'
    <3>1. q.alive /\ q.got /\ q.mine  BY <1>1, <1>2, <1>3, <2>6 DEF Carrier, CareOf
    <3>2. RunOn(t, i, [q EXCEPT !.key = {}], tried'[t])
      BY <1>2, <1>4, <2>1, <3>1 DEF BlobDoesNotOpen, WithKey
    <3>3. PICK r \in Tick : r = [q EXCEPT !.key = {}]  BY <1>3 DEF Tick
    <3>4. r.alive /\ r.got /\ r.mine /\ r.who # None
      BY <1>3, <3>1, <3>3 DEF Tick, PollOf, Pending
    <3>5. QED  BY <1>0, <1>1, <2>6, <3>2, <3>3, <3>4, CarriesOn DEF TypeOK
  <2>7. QED  BY <1>1, <2>4, <2>5, <2>6, CarryKept
<1>5. CASE ContentArrives(t, i)
  <2>1. tried'[t] = tried[t] \cup K /\ short'[t] = short[t] /\ q.at = "content"
    BY <1>0, <1>2, <1>5 DEF ContentArrives, WithKey, TypeOK
  <2>2. \A b \in K : file[b] = "whole"  BY <1>3, <2>1 DEF CareOf
  <2>3. TriedInv'  BY <1>1, <2>1, <2>2, <1>3 DEF TriedInv, Pending
  <2>4. ~ Carrier(t, i)  BY <1>2, <2>1 DEF Carrier
  <2>5. CASE q.mine
    <3>1. ASSUME Pending(t)' PROVE Open(t)' \/ Carrier(t, i)'
      <4>1. q.alive  BY <1>1, <1>3, <2>5, <3>1 DEF CareOf
      <4>2. RunOn(t, i, [q EXCEPT !.key = {}, !.got = TRUE], tried'[t])
        BY <1>2, <1>5, <2>1, <2>5 DEF ContentArrives, WithKey
      <4>3. PICK r \in Tick : r = [q EXCEPT !.key = {}, !.got = TRUE]
        BY <1>3 DEF Tick
      <4>4. r.alive /\ r.got /\ r.mine /\ r.who # None
        BY <1>3, <2>5, <4>1, <4>3 DEF Tick, PollOf, Pending
      <4>5. QED  BY <1>0, <1>1, <3>1, <4>2, <4>3, <4>4, CarriesOn DEF TypeOK
    <3>2. QED  BY <1>1, <2>3, <3>1, CarryKept
  <2>6. CASE ~ q.mine
    <3>1. tried'[t] = tried[t]  BY <2>1, <2>6
    <3>2. Open(t) => Open(t)'  BY <1>1, <2>1, <3>1 DEF Open, Own, WholeBlobs
    <3>3. QED  BY <1>1, <2>3, <2>4, <3>2, CarryKept
  <2>7. QED  BY <2>5, <2>6
<1>6. ASSUME UNCHANGED <<tried, short>>  PROVE TriedInv' /\ (Open(t) => Open(t)')
  BY <1>1, <1>6 DEF TriedInv, Pending, Open, Own, WholeBlobs
<1>7. CASE BlobFails(t, i)
  <2>1. UNCHANGED <<tried, short>>  BY <1>7 DEF BlobFails
  <2>2. ASSUME Pending(t)', Carrier(t, i) PROVE Open(t)' \/ Carrier(t, i)'
    <3>1. q.alive /\ q.got /\ q.mine  BY <1>1, <1>2, <1>3, <2>2 DEF Carrier, CareOf
    <3>2. RunOn(t, i, [q EXCEPT !.key = {}], tried'[t])
      BY <1>2, <1>7, <2>1 DEF BlobFails
    <3>3. PICK r \in Tick : r = [q EXCEPT !.key = {}]  BY <1>3 DEF Tick
    <3>4. r.alive /\ r.got /\ r.mine /\ r.who # None
      BY <1>3, <3>1, <3>3 DEF Tick, PollOf, Pending
    <3>5. QED  BY <1>0, <1>1, <2>2, <3>2, <3>3, <3>4, CarriesOn DEF TypeOK
  <2>3. QED  BY <1>1, <1>6, <2>1, <2>2, CarryKept
<1>8. CASE Poll(t, i) \/ listDispatch(t, i) \/ PollThrows(t, i)
  <2>1. UNCHANGED <<tried, short>> /\ tick[t][i].at # "blob"
    BY <1>8 DEF Poll, listDispatch, PollThrows
  <2>2. ~ Carrier(t, i)  BY <2>1 DEF Carrier
  <2>3. QED  BY <1>1, <1>6, <2>1, <2>2, CarryKept
<1>9. CASE BlobOpens(t, i)
  <2>1. UNCHANGED <<tried, short>>  BY <1>9 DEF BlobOpens
  <2>2. ~ (Pending(t)' /\ Carrier(t, i))
    <3>1. SUFFICES ASSUME Pending(t)', Carrier(t, i) PROVE FALSE  OBVIOUS
    <3>2. q.who = purchase[t] /\ q.at = "blob"
      BY <1>2, <1>3, <3>1 DEF Carrier, PollOf
    <3>3. q.key # {}
      <4>1. Cardinality(q.key) = 1  BY <3>2 DEF Poller, OneKey
      <4>2. Cardinality({}) = 0  BY FS_EmptySet
      <4>3. QED  BY <4>1, <4>2
    <3>4. PICK b \in q.key : BuyerOf(b) = purchase[t] /\ file[b] = "whole" /\ b \in Blob
      BY <1>2, <1>3, <1>9, <3>2, <3>3 DEF BlobOpens, Opens, Tick
    <3>5. QED  BY <1>2, <3>1, <3>4 DEF Carrier, Own, WholeBlobs
  <2>3. QED  BY <1>1, <1>6, <2>1, <2>2, CarryKept
<1>10. QED
  BY <1>4, <1>5, <1>7, <1>8, <1>9 DEF PollStep

(* A blob becomes whole: if it is of a pending purchase, it is untried, or *)
(* was read too early.                                                     *)
LEMMA CareWorld ==
  ASSUME PageInv, CareInv, World
  PROVE  CareInv'
<1> USE DEF PageInv, CareInv
<1>0. TypeOK  BY DEF TypeInv
<1>1. UNCHANGED <<purchase, unlock, tick, tried, short>>
  BY DEF World, Pay, CreateBlob, FillBlob, stateVars, workVars
<1>2. \A b \in Blob : /\ file[b] # "absent" => file'[b] # "absent"
                      /\ file[b] = "whole" => file'[b] = "whole"
  BY <1>0 DEF World, Pay, CreateBlob, FillBlob, TypeOK
<1>3. TicksOK  BY TicksTyped DEF TypeInv
<1>4. ASSUME NEW t \in Tab, NEW i \in Slot PROVE CareOf(tick[t][i], t)'
  <2>1. tick[t][i] \in Tick /\ CareOf(tick[t][i], t)
    BY <1>3 DEF TicksOK, Poller, VisitInv
  <2>2. tick[t][i].keys \subseteq Blob /\ tick[t][i].key \subseteq Blob  BY <2>1 DEF Tick
  <2>3. QED  BY <1>1, <1>2, <2>1, <2>2 DEF CareOf, Pending
<1>5. TriedInv'
  <2>1. \A t \in Tab : tried[t] \subseteq Blob  BY <1>0 DEF TypeOK
  <2>2. QED  BY <1>1, <1>2, <2>1 DEF TriedInv, Pending
<1>6. ASSUME NEW t \in Tab, Pending(t)'
      PROVE  (Own(t) = {} \/ Open(t) \/ \E i \in Slot : Carrier(t, i))'
  <2>1. Pending(t)  BY <1>1, <1>6 DEF Pending
  <2>2. Own(t) \subseteq Own(t)'  BY <1>1, <1>2 DEF Own, WholeBlobs
  <2>3. ASSUME NEW b \in Own(t)', b \notin Own(t) PROVE Open(t)'
    <3>1. BuyerOf(b) = purchase[t] /\ file[b] # "whole"
      BY <1>1, <2>3 DEF Own, WholeBlobs
    <3>2. b \notin tried[t] \/ b \in short[t]  BY <2>1, <3>1 DEF TriedInv
    <3>3. QED  BY <1>1, <2>3, <3>2 DEF Open
  <2>4. CASE Open(t)  BY <1>1, <2>2, <2>4 DEF Open
  <2>5. CASE Own(t)' = Own(t)
    BY <1>1, <2>1, <2>4, <2>5 DEF CarryInv, Carrier
  <2>6. QED  BY <2>2, <2>3, <2>5
<1>7. QED  BY <1>4, <1>5, <1>6 DEF VisitInv, CarryInv

LEMMA CareButtons ==
  ASSUME PageInv, CareInv, NEW t \in Tab, Buttons(t)
  PROVE  CareInv'
<1> USE DEF PageInv, CareInv, worldVars, stateVars, workVars, boundVars
<1>0. TicksOK /\ TypeOK  BY TicksTyped DEF TypeInv
<1>1. UNCHANGED file
  BY DEF Buttons, Buy, Bought, BuyFails, reset, toggleRemember, Reload
<1>2. \A s \in Tab : s # t =>
        UNCHANGED <<purchase[s], unlock[s], tick[s], tried[s], short[s]>>
  BY <1>0 DEF Buttons, Buy, Bought, BuyFails, reset, toggleRemember, Reload, TypeOK
(* Nothing changes for the other tabs; what is left is to show it for t.   *)
<1>3. ASSUME \A i \in Slot : CareOf(tick[t][i], t)',
             (\A b \in tried[t] :
                /\ file[b] # "absent"
                /\ Pending(t) /\ BuyerOf(b) = purchase[t] /\ file[b] # "whole"
                     => b \in short[t])',
             (Pending(t) => Own(t) = {} \/ Open(t) \/ \E i \in Slot : Carrier(t, i))'
      PROVE  CareInv'
  <2>1. ASSUME NEW s \in Tab, s # t
        PROVE  /\ \A i \in Slot : CareOf(tick[s][i], s)'
               /\ (Pending(s) => Own(s) = {} \/ Open(s) \/ \E i \in Slot : Carrier(s, i))'
    <3>1. UNCHANGED <<purchase[s], unlock[s], tick[s], tried[s], short[s]>>
      BY <1>2, <2>1
    <3>2. \A i \in Slot : CareOf(tick[s][i], s)'
      BY <1>1, <3>1 DEF VisitInv, CareOf, Pending
    <3>3. /\ Pending(s)' <=> Pending(s)
          /\ Own(s)' = Own(s)
          /\ Open(s)' <=> Open(s)
          /\ \A i \in Slot : Carrier(s, i)' <=> Carrier(s, i)
      BY <1>1, <3>1 DEF Pending, Own, WholeBlobs, Open, Carrier
    <3>4. QED  BY <3>2, <3>3 DEF CarryInv
  <2>2. VisitInv' /\ CarryInv'  BY <1>3, <2>1 DEF VisitInv, CarryInv
  <2>3. TriedInv'  BY <1>1, <1>2, <1>3 DEF TriedInv, Pending
  <2>4. QED  BY <2>2, <2>3
<1>4. CASE UNCHANGED <<purchase, unlock, tick, tried, short>>
  BY <1>1, <1>4 DEF CarryInv, TriedInv, VisitInv, CareOf, Pending, Own, WholeBlobs, Open,
     Carrier
<1>5. CASE BuyFails(t) \/ toggleRemember(t)
  BY <1>4, <1>5 DEF BuyFails, toggleRemember
(* The polls of t as its buttons leave them.                               *)
<1>6. ASSUME NEW i \in Slot
      PROVE  /\ purchase'[t] = None /\ (tick'[t] = Detached(t) \/ tick'[t] = Dropped(t))
                  => CareOf(tick[t][i], t)'
             /\ purchase[t] = None /\ tick'[t] = Unmounted(t) => CareOf(tick[t][i], t)'
             /\ tick'[t] = NoTicks => CareOf(tick[t][i], t)'
  <2>1. PICK q \in Tick : q = tick[t][i]  BY <1>0 DEF TicksOK, Poller
  <2>2. CareOf(q, t)  BY <2>1 DEF VisitInv
  <2>3. /\ Unmounted(t)[i] = [q EXCEPT !.alive = FALSE]
        /\ Dropped(t)[i] = [q EXCEPT !.alive = FALSE, !.mine = FALSE]
        /\ Detached(t)[i] = [q EXCEPT !.mine = FALSE]
        /\ NoTicks[i] = Idle
    BY <2>1 DEF Unmounted, Dropped, Detached, NoTicks
  <2>4. CASE purchase'[t] = None /\ (tick'[t] = Detached(t) \/ tick'[t] = Dropped(t))
    <3>1. /\ tick'[t][i].keys = q.keys /\ tick'[t][i].key = q.key
          /\ tick'[t][i].at = q.at /\ ~ tick'[t][i].mine
      <4>1. \/ tick'[t][i] = [q EXCEPT !.alive = FALSE, !.mine = FALSE]
            \/ tick'[t][i] = [q EXCEPT !.mine = FALSE]
        BY <2>3, <2>4
      <4>2. QED  BY <4>1 DEF Tick
    <3>2. QED  BY <1>1, <2>2, <2>4, <3>1 DEF CareOf, Pending
  <2>5. CASE purchase[t] = None /\ tick'[t] = Unmounted(t)
    BY <1>1, <2>2, <2>3, <2>5 DEF CareOf, Tick, Pending
  <2>6. CASE tick'[t] = NoTicks
    BY <2>3, <2>6 DEF CareOf, Idle
  <2>7. QED  BY <2>4, <2>5, <2>6
<1>7. CASE Buy(t)
  <2>1. tick'[t] = Detached(t) /\ purchase'[t] = None /\ tried'[t] = {}
    BY <1>0, <1>7 DEF Buy, TypeOK
  <2>2. QED  BY <1>3, <1>6, <2>1 DEF Pending
<1>8. CASE reset(t)
  <2>1. tick'[t] = Dropped(t) /\ purchase'[t] = None /\ tried'[t] = {}
    BY <1>0, <1>8 DEF reset, TypeOK
  <2>2. QED  BY <1>3, <1>6, <2>1 DEF Pending
<1>9. ASSUME NEW late \in BOOLEAN, Reload(t, late) PROVE CareInv'
  <2>1. tick'[t] = NoTicks /\ tried'[t] = {}
    BY <1>0, <1>9 DEF Reload, TypeOK
  <2>2. Own(t)' = {} \/ Open(t)'  BY <2>1 DEF Open
  <2>3. QED  BY <1>3, <1>6, <2>1, <2>2
<1>10. ASSUME NEW p \in Purchase, Bought(t, p) PROVE CareInv'
  <2>1. /\ tick'[t] = Unmounted(t) /\ purchase'[t] = p /\ UNCHANGED <<tried, short>>
        /\ p \notin made /\ purchase[t] = None
    BY <1>0, <1>10 DEF Bought, StartsInv, TypeOK
  <2>2. p \notin paid  BY <1>0, <2>1 DEF TypeOK
  <2>3. \A b \in Blob : file[b] # "absent" => BuyerOf(b) # p
    BY <2>2 DEF FileInv
  <2>4. Own(t)' = {}  BY <1>1, <2>1, <2>3 DEF Own, WholeBlobs
  <2>5. \A b \in tried[t] : b \in Blob /\ file[b] # "absent"
    BY <1>0 DEF TriedInv, TypeOK
  <2>6. QED  BY <1>1, <1>3, <1>6, <2>1, <2>3, <2>4, <2>5
<1>11. QED  BY <1>5, <1>7, <1>8, <1>9, <1>10 DEF Buttons

LEMMA CareNext == PageInv /\ CareInv /\ [Next]_vars => CareInv'
<1> SUFFICES ASSUME PageInv, CareInv, [Next]_vars PROVE CareInv'
  OBVIOUS
<1>1. CASE Next  BY <1>1, CareWorld, CareButtons, CarePoll DEF Next
<1>2. CASE UNCHANGED vars
  BY <1>2 DEF CareInv, CarryInv, TriedInv, VisitInv, CareOf, Pending, Own, WholeBlobs,
     Open, Carrier, vars, worldVars, stateVars, workVars
<1>3. QED  BY <1>1, <1>2

(***************************************************************************)
(* With one click on Buy under way at a time, no blob that would open a    *)
(* pending purchase is written off, however polls overlap, fail and meet   *)
(* half-written files, but for one that was read before it was whole.      *)
(***************************************************************************)
THEOREM NothingWrittenOff ==
  ASSUME MaxStarts <= 1
  PROVE  Spec => []NoBlobWrittenOff
<1>1. PageInv /\ CareInv => NoBlobWrittenOff
  <2>1. ASSUME PageInv, CareInv, NEW t \in Tab, NEW i \in Slot, Carrier(t, i)
        PROVE  Carried(t)
    BY <2>1 DEF Carrier, Carried, PageInv, PollInv, PollOf
  <2>2. QED  BY <2>1 DEF CareInv, CarryInv, NoBlobWrittenOff, Own, Open
<1>2. PageInv /\ [Next]_vars => PageInv'  BY PageNext
<1>3. QED  BY <1>1, <1>2, PageInit, CareInit, CareNext, PTL DEF Spec

-----------------------------------------------------------------------------
(* Files that appear whole are never read short.                           *)
WholeInv ==
  /\ \A b \in Blob : file[b] # "partial"
  /\ \A t \in Tab : short[t] = {}

LEMMA WholeNext ==
  ASSUME ~ InPlace, TypeOK, WholeInv, [Next]_vars
  PROVE  WholeInv'
<1> USE DEF TypeOK, WholeInv
<1>1. CASE World
  <2>1. UNCHANGED short  BY <1>1 DEF World, Pay, CreateBlob, FillBlob, workVars
  <2>2. \A b \in Blob : file'[b] # "partial"
    BY <1>1 DEF World, Pay, CreateBlob, FillBlob
  <2>3. QED  BY <2>1, <2>2
<1>2. ASSUME NEW t \in Tab, Buttons(t) PROVE WholeInv'
  <2>1. UNCHANGED file
    BY <1>2 DEF Buttons, Buy, Bought, BuyFails, reset, toggleRemember, Reload, worldVars
  <2>2. UNCHANGED short \/ short' = [short EXCEPT ![t] = {}]
    BY <1>2 DEF Buttons, Buy, Bought, BuyFails, reset, toggleRemember, Reload, workVars
  <2>3. QED  BY <2>1, <2>2
<1>3. ASSUME NEW t \in Tab, NEW i \in Slot,
             PollStep(t, i) \/ BlobFails(t, i) \/ PollThrows(t, i)
      PROVE  WholeInv'
  <2>1. UNCHANGED file
    BY <1>3 DEF PollStep, Poll, listDispatch, BlobOpens, BlobDoesNotOpen, ContentArrives,
       BlobFails, PollThrows, tickVars, worldVars
  <2>2. tick[t][i].key \subseteq Blob
    BY TicksTyped DEF TicksOK, Poller, Tick
  <2>3. {b \in tick[t][i].key : tick[t][i].mine /\ file[b] = "partial"} = {}
    BY <2>2
  <2>4. \/ UNCHANGED short
        \/ short' = [short EXCEPT ![t] = @ \cup
                       {b \in tick[t][i].key : tick[t][i].mine /\ file[b] = "partial"}]
    BY <1>3 DEF PollStep, Poll, listDispatch, BlobOpens, BlobDoesNotOpen, ContentArrives,
       BlobFails, PollThrows
  <2>5. QED  BY <2>1, <2>3, <2>4
<1>4. CASE UNCHANGED vars
  BY <1>4 DEF vars, worldVars, workVars
<1>5. QED  BY <1>1, <1>2, <1>3, <1>4 DEF Next

(***************************************************************************)
(* Were a blob written under another name and then renamed, no poll would  *)
(* read one half-written: what does not open would be foreign, as seal.ts  *)
(* says, and the exception that NoBlobWrittenOff and PaidIsUnlocked make   *)
(* would be void.                                                          *)
(***************************************************************************)
THEOREM WholeFilesAreForeign ==
  ASSUME ~ InPlace
  PROVE  Spec => [](SkippedIsForeign /\ \A t \in Tab : short[t] = {})
<1>1. Init => WholeInv  BY DEF Init, WholeInv
<1>2. WholeInv => SkippedIsForeign /\ \A t \in Tab : short[t] = {}
  BY DEF WholeInv, SkippedIsForeign
<1>3. TypeOK /\ WholeInv /\ [Next]_vars => WholeInv'  BY WholeNext
<1>4. QED  BY <1>1, <1>2, <1>3, PageTypeCorrect, PTL DEF Spec
=============================================================================
