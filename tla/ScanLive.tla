------------------------------ MODULE ScanLive ------------------------------
(***************************************************************************)
(* The scanner of week 7 as a tool run by hand (bin/scan-live.rs): each    *)
(* invocation reads one range of blocks for one viewing key and publishes  *)
(* a dispatch for what it finds paid.  With A1_STATE_FILE the cursor and   *)
(* the transactions dispatched outlive the invocation in an encrypted file *)
(* (state.rs), read at its start and replaced after the whole range.       *)
(*                                                                         *)
(* An invocation may end at any step: a call fails, or the process dies.   *)
(* What it published stays published (bucket.put prints at once).  Blocks  *)
(* are numbered from 1; in memory the cursor 0 stands for None.            *)
(***************************************************************************)
EXTENDS Market, FiniteSets

CONSTANTS
  None,        \* no file, no invocation
  Invocation,  \* [ufvk, offer, start, end (0 when absent), file, key]
  NoHeight,    \* NO_HEIGHT: what stands for no cursor on disk
  MaxHeight,   \* bound: blocks mined
  MaxFaults,   \* bound: late and partial answers of lightwalletd
  MaxRuns      \* bound: invocations

StateKeys == {i.key : i \in Invocation}
(* What a run holds in memory, and what it leaves on disk.                 *)
State == [cursor : 0 .. MaxHeight, seen : SUBSET Tx]
File == [plain : [last : Nat, txids : SUBSET Tx], key : StateKeys, whole : BOOLEAN]

ASSUME LiveAssumption ==
  /\ MaxHeight \in Nat \ {0} /\ MaxFaults \in Nat /\ MaxRuns \in Nat
  /\ NoHeight \in Nat /\ NoHeight > MaxHeight
  /\ None \notin Invocation /\ None \notin File
  /\ \A i \in Invocation :
       /\ i.ufvk \in Ufvk /\ i.offer \in Offer /\ i.offer.ufvk = i.ufvk
       /\ i.start \in 0 .. MaxHeight /\ i.end \in 0 .. MaxHeight
       /\ i.file \in BOOLEAN

VARIABLES
  height,     \* the best block
  minedAt,    \* block of a transaction, 0 when in none
  disk,       \* the state file, or None
  tmp,        \* the temporary file beside it, or None
  runs,       \* invocations so far; the present one has this number
  stage,      \* "idle", "tip", "range", "scan", "save" or "rename"
  inv,        \* the arguments and environment of the present one
  from, to,   \* the range; then the blocks received
  left,       \* transactions of those blocks, still to visit
  mem,        \* [cursor, seen]: EncryptedFileScanState.inner
  printed,    \* every dispatch published: bucket.put
  \* history
  saved,      \* the invocations that replaced the file
  jumped,     \* heights an explicit start passed over
  empty,      \* transactions whose bytes came back empty
  trouble     \* late, partial and empty answers so far

blockVars == <<height, minedAt>>
fileVars == <<disk, tmp>>
runVars == <<stage, inv, from, to, left, mem>>
doneVars == <<printed, saved, jumped, empty>>
liveVars == <<blockVars, fileVars, runs, runVars, doneVars, trouble>>

NewState == [cursor |-> 0, seen |-> {}]

LiveInit ==
  /\ height = 1 /\ minedAt = [t \in Tx |-> 0]
  /\ disk = None /\ tmp = None /\ runs = 0
  /\ stage = "idle" /\ inv = None /\ from = 0 /\ to = 0 /\ left = {}
  /\ mem = NewState
  /\ printed = {} /\ saved = {} /\ jumped = {} /\ empty = {} /\ trouble = 0

-----------------------------------------------------------------------------
(* state.rs: what is on disk.                                              *)

(* serialize_state: a height or the sentinel, and the ids.                 *)
Serialize(st) ==
  [last |-> IF st.cursor = 0 THEN NoHeight ELSE st.cursor, txids |-> st.seen]

\* Faulty: the sentinel is taken for a height.
DeserializeHeight(p) == [cursor |-> p.last, seen |-> p.txids]

(* deserialize_state.                                                      *)
Deserialize(p) ==
  [cursor |-> IF p.last = NoHeight THEN 0 ELSE p.last, seen |-> p.txids]

(* SecretboxStateCipher: authenticated, so what opens was sealed whole.    *)
Seal(p, key) == [plain |-> p, key |-> key, whole |-> TRUE]
Opens(file, key) == file.whole /\ file.key = key
Torn(file) == [file EXCEPT !.whole = FALSE]

\* Faulty: a file that does not open counts as absent.
LoadOrDefaultLenient(key) ==
  IF disk # None /\ Opens(disk, key) THEN {Deserialize(disk.plain)} ELSE {NewState}

(* load_or_default: the states it may return; none is an error.            *)
LoadOrDefault(key) ==
  IF disk = None THEN {NewState}
  ELSE IF Opens(disk, key) THEN {Deserialize(disk.plain)}
  ELSE {}

-----------------------------------------------------------------------------
(* The environment.                                                        *)
MineBlock(S) ==
  /\ height < MaxHeight
  /\ \A t \in S : minedAt[t] = 0
  /\ height' = height + 1
  /\ minedAt' = [t \in Tx |-> IF t \in S THEN height + 1 ELSE minedAt[t]]
  /\ UNCHANGED <<fileVars, runs, runVars, doneVars, trouble>>

Mishap == trouble < MaxFaults /\ trouble' = trouble + 1

(* The process is gone, with its memory.                                   *)
Exit ==
  /\ stage' = "idle" /\ inv' = None /\ from' = 0 /\ to' = 0 /\ left' = {}
  /\ mem' = NewState

-----------------------------------------------------------------------------
(* main of scan-live.                                                      *)
Invoke(i) ==
  /\ stage = "idle" /\ runs < MaxRuns
  /\ runs' = runs + 1
  /\ stage' = "tip" /\ inv' = i
  /\ UNCHANGED <<blockVars, fileVars, from, to, left, mem, doneVars, trouble>>

(* Where the range starts and ends, the tip being h.                       *)
FirstOf(i, st, h) ==
  IF i.start # 0 THEN i.start
  ELSE IF i.file /\ st.cursor # 0 THEN st.cursor + 1
  ELSE h
LastOf(i, first, h) ==
  IF i.end # 0 THEN i.end ELSE IF i.file THEN h ELSE first

(* The tip arrives, from a server that lags as the case may be; the state  *)
(* is loaded; an empty range ends the run (an error without a state file). *)
TipKnown(h) ==
  /\ stage = "tip"
  /\ \/ h = height /\ UNCHANGED trouble
     \/ h \in 1 .. (height - 1) /\ Mishap
  /\ LET states == IF inv.file THEN LoadOrDefault(inv.key) ELSE {NewState} IN
       \/ /\ states = {}
          /\ Exit
       \/ \E st \in states :
            LET first == FirstOf(inv, st, h)
                last  == LastOf(inv, first, h)
            IN IF first > last THEN Exit
               ELSE /\ stage' = "range" /\ from' = first /\ to' = last
                    /\ mem' = st
                    /\ UNCHANGED <<inv, left>>
  /\ UNCHANGED <<blockVars, fileVars, runs, doneVars>>

\* Faulty: the range counts as received to its end.
RangeKnownAssumed(h) ==
  /\ stage = "range"
  /\ h \in (from - 1) .. to /\ h <= height
  /\ \/ (h = to \/ h = height) /\ UNCHANGED trouble
     \/ h < to /\ h < height /\ Mishap
  /\ stage' = "scan"
  /\ left' = {t \in Tx : minedAt[t] \in from .. h}
  /\ UNCHANGED <<blockVars, fileVars, runs, inv, from, to, mem, doneVars>>

(* fetch_block_range: the blocks there are, or a first part of them.       *)
RangeKnown(h) ==
  /\ stage = "range"
  /\ h \in (from - 1) .. to /\ h <= height
  /\ \/ (h = to \/ h = height) /\ UNCHANGED trouble
     \/ h < to /\ h < height /\ Mishap
  /\ stage' = "scan" /\ to' = h
  /\ left' = {t \in Tx : minedAt[t] \in from .. h}
  /\ UNCHANGED <<blockVars, fileVars, runs, inv, from, mem, doneVars>>

(* A range wholly above the tip yields no block.                           *)
RangeAbove ==
  /\ stage = "range" /\ from > height + 1
  /\ stage' = "scan" /\ to' = from - 1
  /\ UNCHANGED <<blockVars, fileVars, runs, inv, from, left, mem, doneVars,
                 trouble>>

(* What on_note publishes for t: its first readable payment, if it pays.   *)
Answer(t) ==
  {[run |-> runs, tx |-> t, key |-> inv.offer.key, to |-> Notes[t][inv.ufvk][i].ePub] :
     i \in {j \in NoteIdx(t, inv.ufvk) :
              FirstPayment(t, inv.ufvk, j) /\ NotePays(t, inv.ufvk, j, inv.offer)}}

NextTx(t) == stage = "scan" /\ t \in left /\ \A s \in left : minedAt[t] <= minedAt[s]
Known(t) == inv.file /\ t \in mem.seen

\* Faulty: the transaction is not marked seen.
VisitTxForgets(t) ==
  /\ NextTx(t)
  /\ left' = left \ {t}
  /\ printed' = IF Known(t) THEN printed ELSE printed \cup Answer(t)
  /\ UNCHANGED <<blockVars, fileVars, runs, stage, inv, from, to, mem, saved,
                 jumped, empty, trouble>>

(* One transaction: skipped when it was dispatched before, else fetched,   *)
(* decrypted, answered, and marked when there was an answer.               *)
VisitTx(t) ==
  /\ NextTx(t)
  /\ left' = left \ {t}
  /\ IF Known(t) THEN UNCHANGED <<printed, mem>>
     ELSE /\ printed' = printed \cup Answer(t)
          /\ mem' = IF inv.file /\ Answer(t) # {}
                      THEN [mem EXCEPT !.seen = @ \cup {t}] ELSE mem
  /\ UNCHANGED <<blockVars, fileVars, runs, stage, inv, from, to, saved,
                 jumped, empty, trouble>>

(* Its bytes come back empty: passed over.                                 *)
VisitEmpty(t) ==
  /\ NextTx(t) /\ ~Known(t)
  /\ Mishap
  /\ left' = left \ {t} /\ empty' = empty \cup {t}
  /\ UNCHANGED <<blockVars, fileVars, runs, stage, inv, from, to, mem, printed,
                 saved, jumped>>

(* The range is through: the cursor goes to the last block received, also  *)
(* backwards; without a state file the run is over.                        *)
RangeDone ==
  /\ stage = "scan" /\ left = {}
  /\ IF inv.file
       THEN /\ stage' = "save"
            /\ mem' = IF to >= from THEN [mem EXCEPT !.cursor = to] ELSE mem
            /\ UNCHANGED <<inv, from, to, left>>
       ELSE Exit
  /\ UNCHANGED <<blockVars, fileVars, runs, doneVars, trouble>>

(* save: the temporary file is written, whole or, as the run ends in the   *)
(* middle of it, in part.                                                  *)
WriteTmp ==
  /\ stage = "save"
  /\ LET file == Seal(Serialize(mem), inv.key) IN
       \/ tmp' = file /\ stage' = "rename" /\ UNCHANGED <<inv, from, to, left, mem>>
       \/ tmp' = Torn(file) /\ Exit
  /\ UNCHANGED <<blockVars, disk, runs, doneVars, trouble>>

CursorOf(file) ==
  IF file = None THEN 0
  ELSE IF file.plain.last = NoHeight THEN 0 ELSE file.plain.last
Passed == IF CursorOf(disk) = 0 THEN 1 .. (from - 1)
                                ELSE (CursorOf(disk) + 1) .. (from - 1)

(* rename puts it in the place of the old one, and the run is over.        *)
Rename ==
  /\ stage = "rename"
  /\ disk' = tmp /\ tmp' = None
  /\ saved' = saved \cup {runs}
  /\ jumped' = IF to >= from THEN (jumped \cup Passed) \ (from .. to) ELSE jumped
  /\ Exit
  /\ UNCHANGED <<blockVars, runs, printed, empty, trouble>>

(* An error on the way out of main, or the end of the process, anywhere.   *)
RunStops ==
  /\ stage # "idle"
  /\ Exit
  /\ UNCHANGED <<blockVars, fileVars, runs, doneVars, trouble>>

LiveNext ==
  \/ \E S \in SUBSET Tx : MineBlock(S)
  \/ \E i \in Invocation : Invoke(i)
  \/ \E h \in 1 .. height : TipKnown(h)
  \/ \E h \in 0 .. height : RangeKnown(h)
  \/ RangeAbove
  \/ \E t \in Tx : VisitTx(t) \/ VisitEmpty(t)
  \/ RangeDone \/ WriteTmp \/ Rename \/ RunStops

LiveSpec == LiveInit /\ [][LiveNext]_liveVars

-----------------------------------------------------------------------------
LiveTypeOK ==
  /\ height \in Nat /\ minedAt \in [Tx -> 0 .. height]
  /\ disk \in File \cup {None} /\ tmp \in File \cup {None}
  /\ runs \in Nat /\ saved \subseteq 1 .. runs
  /\ stage \in {"idle", "tip", "range", "scan", "save", "rename"}
  /\ IF stage = "idle" THEN inv = None ELSE inv \in Invocation
  /\ from \in Nat /\ to \in Nat /\ left \subseteq Tx
  /\ mem \in State
  /\ stage = "rename" => tmp = Seal(Serialize(mem), inv.key)
  /\ \A p \in printed : p.run \in 1 .. runs /\ p.tx \in Tx /\ minedAt[p.tx] # 0
  /\ trouble \in Nat

(***************************************************************************)
(* Nothing an invocation does, wherever it ends, loses what the state file *)
(* knows: the file on disk always opens under the key that sealed the      *)
(* first, and no transaction it lists as dispatched ever leaves it.        *)
(***************************************************************************)
StateNeverForgets ==
  [][disk # None =>
       /\ Opens(disk', disk.key)
       /\ disk.plain.txids \subseteq disk'.plain.txids]_liveVars

(***************************************************************************)
(* An invocation whose state was saved is never repeated by a later one:   *)
(* among the invocations with a state file only those that ended before    *)
(* rename may have published what another publishes, whatever range the    *)
(* later one is told to read again.                                        *)
(***************************************************************************)
SavedNotRepeated ==
  \A p, q \in printed :
    (p.run \in saved /\ q.run \in saved /\ p.tx = q.tx) => p = q

(***************************************************************************)
(* A transaction whose payment is good under every demo drop the tool was  *)
(* given, in a block at or below the cursor on disk that no explicit start *)
(* jumped over, was published: partial ranges, lagging tips and runs that  *)
(* ended early hold the cursor back.                                       *)
(***************************************************************************)
Good(t) ==
  \A i \in Invocation : i.file =>
    \E j \in NoteIdx(t, i.ufvk) :
      FirstPayment(t, i.ufvk, j) /\ NotePays(t, i.ufvk, j, i.offer)
NothingGoodIsPassed ==
  \A t \in Tx \ empty :
    (/\ Good(t)
     /\ minedAt[t] \in (1 .. CursorOf(disk)) \ jumped) =>
      \E p \in printed : p.tx = t
=============================================================================
