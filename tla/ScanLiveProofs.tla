--------------------------- MODULE ScanLiveProofs ---------------------------
(***************************************************************************)
(* Why the state file of scan-live can be trusted, however its runs end.   *)
(* Only one run is under way at a time, and it changes the file in one     *)
(* step; so what the run holds in memory is what the file says and what it *)
(* has done since, and the invariant says what that is at each stage.      *)
(***************************************************************************)
EXTENDS ScanLive, TLAPS

(* What the file says, or would if there were one.                         *)
OnDisk == IF disk = None THEN NewState ELSE Deserialize(disk.plain)

Loaded == stage \in {"range", "scan", "save", "rename"}
Visiting == stage \in {"scan", "save", "rename"}

BoundInv ==
  /\ height \in 1 .. MaxHeight
  /\ OnDisk \in State /\ OnDisk.cursor <= height
  /\ Loaded => from \in Nat \ {0}
  /\ (Visiting /\ to >= from) => to <= height
  /\ stage \in {"save", "rename"} => inv.file
  /\ \A t \in left : minedAt[t] # 0
  /\ stage # "idle" => runs # 0

(* The file opens, and the run under way has loaded it.                    *)
FileInv ==
  /\ disk # None => disk.whole
  /\ (Loaded /\ inv.file) =>
       /\ disk # None => disk.key = inv.key
       /\ OnDisk.seen \subseteq mem.seen
  /\ (stage \in {"range", "scan"} /\ inv.file) => mem.cursor = OnDisk.cursor
  /\ stage \in {"save", "rename"} =>
       mem.cursor = IF to >= from THEN to ELSE OnDisk.cursor

Published(t) == \E p \in printed : p.tx = t

(* Nothing good is passed, by the file or by the run up to where it is.    *)
PassedInv ==
  /\ NothingGoodIsPassed
  /\ \A t \in OnDisk.seen \cup mem.seen : Published(t)
  /\ (Visiting /\ inv.file) =>
       \A t \in Tx \ (empty \cup left) :
         (Good(t) /\ minedAt[t] \in from .. to) => Published(t)
  /\ stage \in {"save", "rename"} => left = {}

(* What saved runs published is in the file, and the run under way has not *)
(* published it again.                                                     *)
RepeatInv ==
  /\ SavedNotRepeated
  /\ \A p \in printed : p.run \in saved => p.tx \in OnDisk.seen
  /\ stage # "idle" => runs \notin saved
  /\ stage \in {"tip", "range"} => \A p \in printed : p.run # runs
  /\ (Visiting /\ inv.file) =>
       \A p \in printed : p.run = runs =>
         /\ p.tx \in mem.seen
         /\ \A q \in printed : (q.run \in saved \cup {runs} /\ q.tx = p.tx) => p = q

-----------------------------------------------------------------------------
(* Saving and loading a state gives it back.                               *)
LEMMA RoundTrip ==
  ASSUME NEW st \in State
  PROVE  Deserialize(Serialize(st)) = st
BY LiveAssumption DEF Serialize, Deserialize, State

LEMMA SealedIsFile ==
  ASSUME NEW st \in State, NEW i \in Invocation
  PROVE  Seal(Serialize(st), i.key) \in File /\ Seal(Serialize(st), i.key) # None
<1>1. Serialize(st) \in [last : Nat, txids : SUBSET Tx]
  BY LiveAssumption DEF Serialize, State
<1>2. i.key \in StateKeys  BY DEF StateKeys
<1>3. Seal(Serialize(st), i.key) \in File  BY <1>1, <1>2 DEF Seal, File
<1>4. None \notin File  BY LiveAssumption
<1>5. QED  BY <1>3, <1>4

LEMMA LoadGivesDisk ==
  ASSUME NEW key, BoundInv, FileInv, LiveTypeOK,
         NEW st \in LoadOrDefault(key)
  PROVE  /\ st = OnDisk
         /\ disk # None => disk.key = key
BY DEF LoadOrDefault, OnDisk, Opens

LEMMA AnswerUnique ==
  ASSUME NEW t \in Tx, NEW a \in Answer(t), NEW b \in Answer(t), inv \in Invocation
  PROVE  a = b
<1>1. PICK i \in NoteIdx(t, inv.ufvk) :
        /\ FirstPayment(t, inv.ufvk, i)
        /\ a = [run |-> runs, tx |-> t, key |-> inv.offer.key, to |-> Notes[t][inv.ufvk][i].ePub]
  BY DEF Answer
<1>2. PICK j \in NoteIdx(t, inv.ufvk) :
        /\ FirstPayment(t, inv.ufvk, j)
        /\ b = [run |-> runs, tx |-> t, key |-> inv.offer.key, to |-> Notes[t][inv.ufvk][j].ePub]
  BY DEF Answer
<1>3. i \in Int /\ j \in Int
  BY NotesAssumption, LiveAssumption DEF NoteIdx
<1>4. i = j  BY <1>1, <1>2, <1>3 DEF FirstPayment
<1>5. QED  BY <1>1, <1>2, <1>4

LEMMA AnswerOfRun ==
  ASSUME NEW t, NEW a \in Answer(t)
  PROVE  a.run = runs /\ a.tx = t
BY DEF Answer

LEMMA GoodAnswered ==
  ASSUME NEW t, Good(t), inv \in Invocation, inv.file
  PROVE  Answer(t) # {}
BY DEF Good, Answer

-----------------------------------------------------------------------------
LiveInv == LiveTypeOK /\ BoundInv /\ FileInv /\ PassedInv /\ RepeatInv

LEMMA LiveInvInit == LiveInit => LiveInv
<1> SUFFICES ASSUME LiveInit PROVE LiveInv  OBVIOUS
<1> USE LiveAssumption DEF LiveInit
<1>1. LiveTypeOK  BY DEF LiveTypeOK, NewState, State
<1>2. BoundInv  BY DEF BoundInv, OnDisk, NewState, State, Loaded, Visiting
<1>3. FileInv  BY DEF FileInv, Loaded
<1>4. PassedInv
  BY DEF PassedInv, NothingGoodIsPassed, CursorOf, OnDisk, NewState, Visiting
<1>5. RepeatInv  BY DEF RepeatInv, SavedNotRepeated, Visiting
<1>6. QED  BY <1>1, <1>2, <1>3, <1>4, <1>5 DEF LiveInv

-----------------------------------------------------------------------------
(* One lemma per part of the invariant; in each, one step per action.      *)
LEMMA TypesKept ==
  ASSUME LiveInv, [LiveNext]_liveVars
  PROVE  LiveTypeOK'
<1> USE LiveAssumption
<1> USE DEF LiveInv, LiveTypeOK, BoundInv, Loaded, Visiting
<1>1. CASE UNCHANGED liveVars
  BY <1>1 DEF liveVars, blockVars, fileVars, runVars, doneVars
<1>2. ASSUME NEW S \in SUBSET Tx, MineBlock(S)  PROVE LiveTypeOK'
  BY <1>2 DEF MineBlock, fileVars, runVars, doneVars
<1>3. ASSUME NEW i \in Invocation, Invoke(i)  PROVE LiveTypeOK'
  BY <1>3 DEF Invoke, blockVars, fileVars, doneVars
<1>4. ASSUME Exit  PROVE stage' = "idle" /\ inv' = None /\ mem' \in State
                         /\ from' = 0 /\ to' = 0 /\ left' = {}
  BY <1>4 DEF Exit, NewState, State
<1>5. ASSUME NEW h \in 1 .. height, TipKnown(h)  PROVE LiveTypeOK'
  <2>1. trouble' \in Nat  BY <1>5 DEF TipKnown, Mishap
  <2>2. UNCHANGED <<blockVars, fileVars, runs, doneVars>>  BY <1>5 DEF TipKnown
  <2>3. CASE Exit
    BY <2>1, <2>2, <2>3, <1>4 DEF blockVars, fileVars, doneVars
  <2>4. CASE ~Exit
    <3>1. PICK st \in IF inv.file THEN LoadOrDefault(inv.key) ELSE {NewState} :
            LET first == FirstOf(inv, st, h)
                last  == LastOf(inv, first, h)
            IN IF first > last THEN Exit
               ELSE /\ stage' = "range" /\ from' = first /\ to' = last
                    /\ mem' = st
                    /\ UNCHANGED <<inv, left>>
      BY <1>5, <2>4 DEF TipKnown
    <3>2. st \in State
      BY <3>1, LoadGivesDisk DEF NewState, State
    <3>3. stage = "tip" /\ inv \in Invocation  BY <1>5 DEF TipKnown
    <3>4. FirstOf(inv, st, h) \in Nat /\ LastOf(inv, FirstOf(inv, st, h), h) \in Nat
      BY <3>2, <3>3 DEF FirstOf, LastOf, State
    <3>5. QED
      BY <2>1, <2>2, <2>4, <3>1, <3>2, <3>3, <3>4 DEF blockVars, fileVars, doneVars
  <2>5. QED  BY <2>3, <2>4
<1>6. ASSUME NEW h \in 0 .. height, RangeKnown(h)  PROVE LiveTypeOK'
  BY <1>6 DEF RangeKnown, Mishap, blockVars, fileVars, doneVars
<1>7. ASSUME RangeAbove  PROVE LiveTypeOK'
  BY <1>7 DEF RangeAbove, blockVars, fileVars, doneVars
<1>8. ASSUME NEW t \in Tx, VisitTx(t)  PROVE LiveTypeOK'
  <2>1. mem' \in State
    BY <1>8 DEF VisitTx, State
  <2>2. \A p \in Answer(t) : p.run = runs /\ p.tx = t  BY AnswerOfRun
  <2>3. stage = "scan" /\ t \in left /\ runs \in 1 .. runs /\ minedAt[t] # 0
    BY <1>8 DEF VisitTx, NextTx
  <2>4. printed' \subseteq printed \cup Answer(t)  BY <1>8 DEF VisitTx
  <2>5. \A p \in printed' : p.run \in 1 .. runs /\ p.tx \in Tx /\ minedAt[p.tx] # 0
    BY <2>2, <2>3, <2>4
  <2>6. QED  BY <1>8, <2>1, <2>5, <2>3 DEF VisitTx, blockVars, fileVars
<1>9. ASSUME NEW t \in Tx, VisitEmpty(t)  PROVE LiveTypeOK'
  BY <1>9 DEF VisitEmpty, NextTx, Mishap, blockVars, fileVars
<1>10. ASSUME RangeDone  PROVE LiveTypeOK'
  <2>1. CASE inv.file
    <3>1. mem' \in State  BY <1>10, <2>1 DEF RangeDone, State
    <3>2. QED  BY <1>10, <2>1, <3>1 DEF RangeDone, blockVars, fileVars, doneVars
  <2>2. CASE ~inv.file
    BY <1>10, <2>2, <1>4 DEF RangeDone, blockVars, fileVars, doneVars
  <2>3. QED  BY <2>1, <2>2
<1>11. ASSUME WriteTmp  PROVE LiveTypeOK'
  <2> DEFINE file == Seal(Serialize(mem), inv.key)
  <2>1. file \in File  BY <1>11, SealedIsFile DEF WriteTmp
  <2>2. Torn(file) \in File  BY <2>1 DEF Torn, File
  <2>3. CASE tmp' = file /\ stage' = "rename" /\ UNCHANGED <<inv, from, to, left, mem>>
    BY <1>11, <2>1, <2>3 DEF WriteTmp, blockVars, doneVars
  <2>4. CASE tmp' = Torn(file) /\ Exit
    BY <1>11, <2>2, <2>4, <1>4 DEF WriteTmp, blockVars, doneVars
  <2>5. QED  BY <1>11, <2>3, <2>4 DEF WriteTmp
<1>12. ASSUME Rename  PROVE LiveTypeOK'
  <2>1. saved' \subseteq 1 .. runs'  BY <1>12 DEF Rename
  <2>2. QED  BY <1>12, <1>4, <2>1 DEF Rename, blockVars
<1>13. ASSUME RunStops  PROVE LiveTypeOK'
  BY <1>13, <1>4 DEF RunStops, blockVars, fileVars, doneVars
<1>14. QED
  BY <1>1, <1>2, <1>3, <1>5, <1>6, <1>7, <1>8, <1>9, <1>10, <1>11, <1>12, <1>13
  DEF LiveNext

(* A rename makes what the run has in memory what the file says.           *)
LEMMA RenameGives ==
  ASSUME LiveInv, Rename
  PROVE  /\ OnDisk' = mem
         /\ CursorOf(disk') = mem.cursor
         /\ disk' # None /\ disk'.whole /\ disk'.key = inv.key
<1> USE DEF LiveInv, LiveTypeOK, Rename
<1>1. disk' = Seal(Serialize(mem), inv.key) /\ mem \in State /\ inv \in Invocation
  OBVIOUS
<1>2. disk' # None /\ Deserialize(Serialize(mem)) = mem
  BY <1>1, SealedIsFile, RoundTrip
<1>3. disk'.plain = Serialize(mem) /\ disk'.whole /\ disk'.key = inv.key
  BY <1>1 DEF Seal
<1>4. CursorOf(disk') = Deserialize(Serialize(mem)).cursor
  BY <1>2, <1>3 DEF CursorOf, Deserialize
<1>5. QED  BY <1>2, <1>3, <1>4 DEF OnDisk

LEMMA CursorOnDisk == CursorOf(disk) = OnDisk.cursor
BY DEF CursorOf, OnDisk, NewState, Deserialize

LEMMA BoundsKept ==
  ASSUME LiveInv, [LiveNext]_liveVars, LiveTypeOK'
  PROVE  BoundInv'
<1> USE LiveAssumption
<1> USE DEF LiveInv, LiveTypeOK, BoundInv, Loaded, Visiting
<1>0. ASSUME disk' = disk  PROVE OnDisk' = OnDisk
  BY <1>0 DEF OnDisk
<1>1. CASE UNCHANGED liveVars
  BY <1>1, <1>0 DEF liveVars, blockVars, fileVars, runVars, doneVars
<1>2. ASSUME NEW S \in SUBSET Tx, MineBlock(S)  PROVE BoundInv'
  <2>1. OnDisk' = OnDisk /\ OnDisk.cursor \in Nat
    BY <1>2, <1>0 DEF MineBlock, fileVars, State
  <2>2. QED  BY <1>2, <2>1 DEF MineBlock, fileVars, runVars, doneVars
<1>3. ASSUME NEW i \in Invocation, Invoke(i)  PROVE BoundInv'
  BY <1>3, <1>0 DEF Invoke, blockVars, fileVars, doneVars
<1>4. ASSUME Exit, height' = height, OnDisk' \in State, OnDisk'.cursor <= height
       PROVE  BoundInv'
  BY <1>4 DEF Exit
<1>5. ASSUME NEW h \in 1 .. height, TipKnown(h)  PROVE BoundInv'
  <2>1. UNCHANGED <<blockVars, fileVars, runs, doneVars>>  BY <1>5 DEF TipKnown
  <2>2. CASE Exit
    BY <2>1, <2>2, <1>0, <1>4 DEF blockVars, fileVars
  <2>3. CASE ~Exit
    <3>1. PICK st \in IF inv.file THEN LoadOrDefault(inv.key) ELSE {NewState} :
            LET first == FirstOf(inv, st, h)
                last  == LastOf(inv, first, h)
            IN IF first > last THEN Exit
               ELSE /\ stage' = "range" /\ from' = first /\ to' = last
                    /\ mem' = st
                    /\ UNCHANGED <<inv, left>>
      BY <1>5, <2>3 DEF TipKnown
    <3>2. st \in State
      BY <3>1, LoadGivesDisk DEF NewState, State
    <3>3. stage = "tip" /\ inv \in Invocation  BY <1>5 DEF TipKnown
    <3>4. FirstOf(inv, st, h) \in Nat \ {0}
      BY <3>2, <3>3 DEF FirstOf, State
    <3>5. QED
      BY <2>1, <2>3, <3>1, <3>3, <3>4, <1>0 DEF blockVars, fileVars, doneVars
  <2>4. QED  BY <2>2, <2>3
<1>6. ASSUME NEW h \in 0 .. height, RangeKnown(h)  PROVE BoundInv'
  BY <1>6, <1>0 DEF RangeKnown, Mishap, blockVars, fileVars, doneVars
<1>7. ASSUME RangeAbove  PROVE BoundInv'
  BY <1>7, <1>0 DEF RangeAbove, blockVars, fileVars, doneVars
<1>8. ASSUME NEW t \in Tx, VisitTx(t)  PROVE BoundInv'
  BY <1>8, <1>0 DEF VisitTx, NextTx, blockVars, fileVars
<1>9. ASSUME NEW t \in Tx, VisitEmpty(t)  PROVE BoundInv'
  BY <1>9, <1>0 DEF VisitEmpty, NextTx, blockVars, fileVars
<1>10. ASSUME RangeDone  PROVE BoundInv'
  BY <1>10, <1>0, <1>4 DEF RangeDone, blockVars, fileVars, doneVars
<1>11. ASSUME WriteTmp  PROVE BoundInv'
  BY <1>11, <1>0, <1>4 DEF WriteTmp, blockVars, doneVars
<1>12. ASSUME Rename  PROVE BoundInv'
  <2>1. OnDisk' \in State /\ OnDisk'.cursor <= height
    BY <1>12, RenameGives DEF Rename, FileInv
  <2>2. QED  BY <1>12, <1>4, <2>1 DEF Rename, blockVars
<1>13. ASSUME RunStops  PROVE BoundInv'
  BY <1>13, <1>0, <1>4 DEF RunStops, blockVars, fileVars, doneVars
<1>14. QED
  BY <1>1, <1>2, <1>3, <1>5, <1>6, <1>7, <1>8, <1>9, <1>10, <1>11, <1>12, <1>13
  DEF LiveNext

LEMMA FileKept ==
  ASSUME LiveInv, [LiveNext]_liveVars
  PROVE  FileInv'
<1> USE DEF LiveInv, LiveTypeOK, FileInv, Loaded
<1>0. ASSUME disk' = disk  PROVE OnDisk' = OnDisk
  BY <1>0 DEF OnDisk
<1>1. CASE UNCHANGED liveVars
  BY <1>1, <1>0 DEF liveVars, fileVars, runVars
<1>2. ASSUME NEW S \in SUBSET Tx, MineBlock(S)  PROVE FileInv'
  BY <1>2, <1>0 DEF MineBlock, fileVars, runVars
<1>3. ASSUME NEW i \in Invocation, Invoke(i)  PROVE FileInv'
  BY <1>3, <1>0 DEF Invoke, fileVars
<1>4. ASSUME Exit, disk' # None => disk'.whole  PROVE FileInv'
  BY <1>4 DEF Exit
<1>5. ASSUME NEW h \in 1 .. height, TipKnown(h)  PROVE FileInv'
  <2>1. UNCHANGED fileVars  BY <1>5 DEF TipKnown
  <2>2. CASE Exit
    BY <2>1, <2>2, <1>4 DEF fileVars
  <2>3. CASE ~Exit
    <3>1. PICK st \in IF inv.file THEN LoadOrDefault(inv.key) ELSE {NewState} :
            stage' = "range" /\ mem' = st /\ inv' = inv
      BY <1>5, <2>3 DEF TipKnown
    <3>2. inv.file => st = OnDisk /\ (disk # None => disk.key = inv.key)
      BY <3>1, LoadGivesDisk
    <3>3. QED  BY <2>1, <3>1, <3>2, <1>0 DEF fileVars
  <2>4. QED  BY <2>2, <2>3
<1>6. ASSUME NEW h \in 0 .. height, RangeKnown(h)  PROVE FileInv'
  BY <1>6, <1>0 DEF RangeKnown, fileVars
<1>7. ASSUME RangeAbove  PROVE FileInv'
  BY <1>7, <1>0 DEF RangeAbove, fileVars
<1>8. ASSUME NEW t \in Tx, VisitTx(t)  PROVE FileInv'
  <2>1. mem.seen \subseteq mem'.seen /\ mem'.cursor = mem.cursor
    BY <1>8 DEF VisitTx, State
  <2>2. stage = "scan"  BY <1>8 DEF VisitTx, NextTx
  <2>3. QED  BY <1>8, <1>0, <2>1, <2>2 DEF VisitTx, fileVars
<1>9. ASSUME NEW t \in Tx, VisitEmpty(t)  PROVE FileInv'
  BY <1>9, <1>0 DEF VisitEmpty, NextTx, fileVars
<1>10. ASSUME RangeDone  PROVE FileInv'
  <2>1. CASE inv.file
    <3>1. mem'.seen = mem.seen /\ mem'.cursor = IF to >= from THEN to ELSE OnDisk.cursor
      BY <1>10, <2>1 DEF RangeDone, State
    <3>2. QED  BY <1>10, <1>0, <2>1, <3>1 DEF RangeDone, fileVars
  <2>2. CASE ~inv.file
    BY <1>10, <2>2, <1>4 DEF RangeDone, fileVars
  <2>3. QED  BY <2>1, <2>2
<1>11. ASSUME WriteTmp  PROVE FileInv'
  BY <1>11, <1>0, <1>4 DEF WriteTmp
<1>12. ASSUME Rename  PROVE FileInv'
  BY <1>12, <1>4, RenameGives DEF Rename
<1>13. ASSUME RunStops  PROVE FileInv'
  BY <1>13, <1>4 DEF RunStops, fileVars
<1>14. QED
  BY <1>1, <1>2, <1>3, <1>5, <1>6, <1>7, <1>8, <1>9, <1>10, <1>11, <1>12, <1>13
  DEF LiveNext

LEMMA PassedKept ==
  ASSUME LiveInv, [LiveNext]_liveVars
  PROVE  PassedInv'
<1> USE LiveAssumption
<1> USE DEF LiveInv, LiveTypeOK, PassedInv, NothingGoodIsPassed, Published, Loaded, Visiting
<1>0. ASSUME disk' = disk  PROVE OnDisk' = OnDisk /\ CursorOf(disk') = CursorOf(disk)
  BY <1>0 DEF OnDisk
<1>c. CursorOf(disk) = OnDisk.cursor /\ OnDisk.cursor \in 0 .. height
  BY CursorOnDisk DEF BoundInv, State
<1>1. CASE UNCHANGED liveVars
  BY <1>1, <1>0 DEF liveVars, blockVars, fileVars, runVars, doneVars, Good
<1>2. ASSUME NEW S \in SUBSET Tx, MineBlock(S)  PROVE PassedInv'
  <2>1. \A t \in Tx : minedAt'[t] # minedAt[t] => minedAt'[t] = height + 1
    BY <1>2 DEF MineBlock
  <2>2. disk' = disk /\ UNCHANGED <<runVars, doneVars>>
    BY <1>2 DEF MineBlock, fileVars
  <2>3. \A t \in Tx : minedAt'[t] \in (1 .. CursorOf(disk)) => minedAt'[t] = minedAt[t]
    BY <2>1, <1>c
  <2>4. NothingGoodIsPassed'
    BY <1>0, <2>2, <2>3 DEF runVars, doneVars
  <2>5. ASSUME Visiting, NEW t \in Tx, minedAt'[t] \in from .. to
        PROVE  minedAt'[t] = minedAt[t]
    BY <2>1, <2>5 DEF BoundInv
  <2>6. QED  BY <2>2, <2>4, <2>5, <1>0 DEF runVars, doneVars
<1>3. ASSUME NEW i \in Invocation, Invoke(i)  PROVE PassedInv'
  BY <1>3, <1>0 DEF Invoke, blockVars, fileVars, doneVars
<1>4. ASSUME Exit, UNCHANGED <<minedAt, disk, doneVars>>  PROVE PassedInv'
  BY <1>4, <1>0 DEF Exit, doneVars, NewState
<1>5. ASSUME NEW h \in 1 .. height, TipKnown(h)  PROVE PassedInv'
  <2>1. UNCHANGED <<blockVars, fileVars, doneVars>>  BY <1>5 DEF TipKnown
  <2>2. CASE Exit
    BY <2>1, <2>2, <1>4 DEF fileVars, blockVars
  <2>3. CASE ~Exit
    <3>1. PICK st \in IF inv.file THEN LoadOrDefault(inv.key) ELSE {NewState} :
            stage' = "range" /\ mem' = st
      BY <1>5, <2>3 DEF TipKnown
    <3>2. st = OnDisk \/ st.seen = {}
      BY <3>1, LoadGivesDisk DEF NewState
    <3>3. QED  BY <2>1, <3>1, <3>2, <1>0 DEF fileVars, blockVars, doneVars
  <2>4. QED  BY <2>2, <2>3
<1>6. ASSUME NEW h \in 0 .. height, RangeKnown(h)  PROVE PassedInv'
  <2>1. \A t \in Tx \ left' : minedAt[t] \notin from .. to'
    BY <1>6 DEF RangeKnown
  <2>2. QED  BY <1>6, <1>0, <2>1 DEF RangeKnown, fileVars, blockVars, doneVars
<1>7. ASSUME RangeAbove  PROVE PassedInv'
  <2>1. \A n \in Int : n \notin from' .. to'
    BY <1>7 DEF RangeAbove
  <2>2. QED  BY <1>7, <1>0, <2>1 DEF RangeAbove, fileVars, blockVars, doneVars
<1>8. ASSUME NEW t \in Tx, VisitTx(t)  PROVE PassedInv'
  <2>1. /\ stage = "scan" /\ stage' = "scan" /\ left' = left \ {t} /\ disk' = disk
        /\ UNCHANGED <<minedAt, inv, from, to, saved, jumped, empty>>
    BY <1>8 DEF VisitTx, NextTx, fileVars, blockVars
  <2>2. printed \subseteq printed'  BY <1>8 DEF VisitTx
  <2>3. \A s \in mem'.seen : Published(s)'
    <3>1. mem'.seen \subseteq mem.seen \cup {s \in {t} : Answer(t) # {} /\ ~Known(t)}
      BY <1>8 DEF VisitTx, State
    <3>2. (Answer(t) # {} /\ ~Known(t)) => Published(t)'
      BY <1>8, AnswerOfRun DEF VisitTx
    <3>3. QED  BY <3>1, <3>2, <2>2
  <2>4. (inv.file /\ Good(t)) => Published(t)'
    <3>1. CASE Known(t)  BY <3>1, <2>2 DEF Known
    <3>2. CASE ~Known(t)
      BY <1>8, <3>2, <2>1, GoodAnswered, AnswerOfRun DEF VisitTx
    <3>3. QED  BY <3>1, <3>2
  <2>5. QED  BY <2>1, <2>2, <2>3, <2>4, <1>0
<1>9. ASSUME NEW t \in Tx, VisitEmpty(t)  PROVE PassedInv'
  BY <1>9, <1>0 DEF VisitEmpty, NextTx, fileVars, blockVars
<1>10. ASSUME RangeDone  PROVE PassedInv'
  <2>1. CASE inv.file
    <3>1. mem'.seen = mem.seen  BY <1>10, <2>1 DEF RangeDone, State
    <3>2. QED
      BY <1>10, <1>0, <2>1, <3>1 DEF RangeDone, fileVars, blockVars, doneVars
  <2>2. CASE ~inv.file
    BY <1>10, <2>2, <1>4 DEF RangeDone, fileVars, blockVars
  <2>3. QED  BY <2>1, <2>2
<1>11. ASSUME WriteTmp  PROVE PassedInv'
  BY <1>11, <1>0, <1>4 DEF WriteTmp, blockVars, doneVars
<1>12. ASSUME Rename  PROVE PassedInv'
  <2>1. /\ OnDisk' = mem /\ CursorOf(disk') = mem.cursor
    BY <1>12, RenameGives
  <2>2. /\ stage = "rename" /\ stage' = "idle" /\ mem'.seen = {} /\ left = {} /\ inv.file
        /\ UNCHANGED <<minedAt, printed, empty>>
        /\ jumped' = IF to >= from THEN (jumped \cup Passed) \ (from .. to) ELSE jumped
    BY <1>12 DEF Rename, Exit, NewState, blockVars, BoundInv
  <2>3. mem.cursor = IF to >= from THEN to ELSE OnDisk.cursor
    BY <2>2 DEF FileInv
  <2>4. from \in Nat /\ to \in Nat  OBVIOUS
  <2>5. ASSUME NEW t \in Tx \ empty, Good(t), minedAt[t] \in 1 .. mem.cursor,
               minedAt[t] \notin jumped'
        PROVE  Published(t)
    <3>1. minedAt[t] \in Nat  OBVIOUS
    <3>2. CASE to < from
      <4>1. minedAt[t] \in (1 .. CursorOf(disk)) \ jumped
        BY <2>2, <2>3, <2>4, <2>5, <3>2, <1>c
      <4>2. QED  BY <2>5, <4>1
    <3>3. CASE to >= from /\ minedAt[t] \in from .. to
      BY <2>2, <2>5, <3>3
    <3>4. CASE to >= from /\ minedAt[t] \notin from .. to
      <4>1. minedAt[t] < from /\ minedAt[t] >= 1
        BY <2>3, <2>4, <2>5, <3>1, <3>4
      <4>2. minedAt[t] \notin jumped /\ minedAt[t] \notin Passed
        BY <2>2, <2>5, <3>4
      <4>3. minedAt[t] \in 1 .. CursorOf(disk)
        BY <4>1, <4>2, <3>1, <2>4, <1>c DEF Passed
      <4>4. QED  BY <2>5, <4>2, <4>3
    <3>5. QED  BY <2>4, <3>2, <3>3, <3>4
  <2>6. NothingGoodIsPassed'
    BY <2>1, <2>2, <2>5 DEF Good
  <2>7. QED  BY <2>1, <2>2, <2>6
<1>13. ASSUME RunStops  PROVE PassedInv'
  BY <1>13, <1>4 DEF RunStops, fileVars, blockVars
<1>14. QED
  BY <1>1, <1>2, <1>3, <1>5, <1>6, <1>7, <1>8, <1>9, <1>10, <1>11, <1>12, <1>13
  DEF LiveNext

LEMMA RepeatKept ==
  ASSUME LiveInv, [LiveNext]_liveVars
  PROVE  RepeatInv'
<1> USE DEF LiveInv, LiveTypeOK, RepeatInv, SavedNotRepeated, Visiting
<1>0. ASSUME disk' = disk  PROVE OnDisk' = OnDisk
  BY <1>0 DEF OnDisk
<1>1. CASE UNCHANGED liveVars
  BY <1>1, <1>0 DEF liveVars, fileVars, runVars, doneVars
<1>2. ASSUME NEW S \in SUBSET Tx, MineBlock(S)  PROVE RepeatInv'
  BY <1>2, <1>0 DEF MineBlock, fileVars, runVars, doneVars
<1>3. ASSUME NEW i \in Invocation, Invoke(i)  PROVE RepeatInv'
  <2>1. runs' \notin saved /\ \A p \in printed : p.run # runs'
    BY <1>3 DEF Invoke
  <2>2. QED  BY <1>3, <1>0, <2>1 DEF Invoke, fileVars, doneVars
<1>4. ASSUME Exit, UNCHANGED <<disk, doneVars>>  PROVE RepeatInv'
  BY <1>4, <1>0 DEF Exit, doneVars
<1>5. ASSUME NEW h \in 1 .. height, TipKnown(h)  PROVE RepeatInv'
  <2>1. UNCHANGED <<fileVars, runs, doneVars>> /\ stage = "tip"  BY <1>5 DEF TipKnown
  <2>2. Exit \/ stage' = "range"  BY <1>5 DEF TipKnown
  <2>3. CASE Exit  BY <2>1, <2>3, <1>4 DEF fileVars
  <2>4. CASE stage' = "range"  BY <2>1, <2>4, <1>0 DEF fileVars, doneVars
  <2>5. QED  BY <2>2, <2>3, <2>4
<1>6. ASSUME NEW h \in 0 .. height, RangeKnown(h)  PROVE RepeatInv'
  BY <1>6, <1>0 DEF RangeKnown, fileVars, doneVars
<1>7. ASSUME RangeAbove  PROVE RepeatInv'
  BY <1>7, <1>0 DEF RangeAbove, fileVars, doneVars
<1>8. ASSUME NEW t \in Tx, VisitTx(t)  PROVE RepeatInv'
  <2>1. /\ stage = "scan" /\ stage' = "scan" /\ runs' = runs /\ saved' = saved
        /\ inv' = inv /\ disk' = disk /\ inv \in Invocation
    BY <1>8 DEF VisitTx, NextTx, fileVars
  <2>2. CASE Known(t)
    BY <1>8, <1>0, <2>1, <2>2 DEF VisitTx
  <2>3. CASE ~Known(t)
    <3>1. printed' = printed \cup Answer(t)  BY <1>8, <2>3 DEF VisitTx
    <3>2. \A a \in Answer(t) : a.run = runs /\ a.tx = t  BY AnswerOfRun
    <3>3. \A a, b \in Answer(t) : a = b  BY <2>1, AnswerUnique
    <3>4. runs \notin saved  BY <2>1
    <3>5. \A p \in printed' : p.run \in saved => p \in printed
      BY <3>1, <3>2, <3>4
    <3>6. SavedNotRepeated'  BY <3>5, <2>1
    <3>7. ASSUME inv.file  PROVE \A p \in printed : p.run \in saved \cup {runs} => p.tx # t
      <4>1. t \notin mem.seen  BY <2>3, <3>7 DEF Known
      <4>2. OnDisk.seen \subseteq mem.seen  BY <2>1, <3>7 DEF FileInv, Loaded
      <4>3. QED  BY <3>7, <4>1, <4>2, <2>1
    <3>8. ASSUME inv.file, NEW p \in printed', p.run = runs
          PROVE  p.tx \in mem'.seen
      <4>1. mem'.seen = mem.seen \cup {x \in {t} : Answer(t) # {}}
        BY <1>8, <2>3, <3>8 DEF VisitTx, State
      <4>2. CASE p \in printed  BY <4>1, <4>2, <3>8, <2>1
      <4>3. CASE p \in Answer(t)  BY <4>1, <4>3, <3>2
      <4>4. QED  BY <4>2, <4>3, <3>1
    <3>9. ASSUME inv.file, NEW p \in printed', p.run = runs, NEW q \in printed',
                 q.run \in saved \cup {runs}, q.tx = p.tx
          PROVE  p = q
      <4>1. CASE p \in printed /\ q \in printed  BY <4>1, <3>9, <2>1
      <4>2. CASE p \in printed /\ q \in Answer(t)  BY <4>2, <3>9, <3>2, <3>7
      <4>3. CASE p \in Answer(t) /\ q \in printed  BY <4>3, <3>9, <3>2, <3>7
      <4>4. CASE p \in Answer(t) /\ q \in Answer(t)  BY <4>4, <3>3
      <4>5. QED  BY <4>1, <4>2, <4>3, <4>4, <3>1
    <3>10. \A p \in printed' : p.run \in saved => p.tx \in OnDisk.seen
      BY <3>5
    <3>11. QED  BY <2>1, <3>6, <3>8, <3>9, <3>10, <1>0
  <2>4. QED  BY <2>2, <2>3
<1>9. ASSUME NEW t \in Tx, VisitEmpty(t)  PROVE RepeatInv'
  BY <1>9, <1>0 DEF VisitEmpty, NextTx, fileVars
<1>10. ASSUME RangeDone  PROVE RepeatInv'
  <2>1. CASE inv.file
    <3>1. mem'.seen = mem.seen  BY <1>10, <2>1 DEF RangeDone, State
    <3>2. QED  BY <1>10, <1>0, <2>1, <3>1 DEF RangeDone, fileVars, doneVars
  <2>2. CASE ~inv.file
    BY <1>10, <2>2, <1>4 DEF RangeDone, fileVars
  <2>3. QED  BY <2>1, <2>2
<1>11. ASSUME WriteTmp  PROVE RepeatInv'
  BY <1>11, <1>0, <1>4 DEF WriteTmp, doneVars
<1>12. ASSUME Rename  PROVE RepeatInv'
  <2>1. OnDisk' = mem  BY <1>12, RenameGives
  <2>2. /\ stage = "rename" /\ stage' = "idle" /\ inv.file
        /\ printed' = printed /\ saved' = saved \cup {runs}
    BY <1>12 DEF Rename, Exit, BoundInv
  <2>3. OnDisk.seen \subseteq mem.seen  BY <2>2 DEF FileInv, Loaded
  <2>4. \A p \in printed : p.run \in saved' => p.tx \in mem.seen
    BY <2>2, <2>3
  <2>5. SavedNotRepeated'
    <3>1. ASSUME NEW p \in printed, NEW q \in printed,
                 p.run \in saved', q.run \in saved', p.tx = q.tx
          PROVE  p = q
      <4>1. CASE p.run \in saved /\ q.run \in saved  BY <3>1, <4>1
      <4>2. CASE p.run = runs  BY <3>1, <4>2, <2>2
      <4>3. CASE q.run = runs  BY <3>1, <4>3, <2>2
      <4>4. QED  BY <3>1, <4>1, <4>2, <4>3, <2>2
    <3>2. QED  BY <3>1, <2>2
  <2>6. QED  BY <2>1, <2>2, <2>4, <2>5
<1>13. ASSUME RunStops  PROVE RepeatInv'
  BY <1>13, <1>4 DEF RunStops, fileVars
<1>14. QED
  BY <1>1, <1>2, <1>3, <1>5, <1>6, <1>7, <1>8, <1>9, <1>10, <1>11, <1>12, <1>13
  DEF LiveNext

-----------------------------------------------------------------------------
(* The invariant is inductive: it holds in every reachable state.          *)
THEOREM LiveInductive == LiveSpec => []LiveInv
<1>1. ASSUME LiveInv, [LiveNext]_liveVars  PROVE LiveInv'
  <2>1. LiveTypeOK'  BY <1>1, TypesKept
  <2>2. QED  BY <1>1, <2>1, BoundsKept, FileKept, PassedKept, RepeatKept DEF LiveInv
<1>2. QED  BY <1>1, LiveInvInit, PTL DEF LiveSpec

(* Every state of scan-live, its file and its temporary file is well typed. *)
THEOREM LiveTypeCorrect == LiveSpec => []LiveTypeOK
<1>1. LiveInv => LiveTypeOK  BY DEF LiveInv
<1>2. QED  BY <1>1, LiveInductive, PTL

(* However runs with a state file end, and whatever ranges they are given, *)
(* no good payment at or below the saved cursor is unpublished.            *)
THEOREM NoGoodPaymentPassed == LiveSpec => []NothingGoodIsPassed
<1>1. LiveInv => NothingGoodIsPassed  BY DEF LiveInv, PassedInv
<1>2. QED  BY <1>1, LiveInductive, PTL

(* Two saved runs never publish the same transaction.                      *)
THEOREM SavedRunsNotRepeated == LiveSpec => []SavedNotRepeated
<1>1. LiveInv => SavedNotRepeated  BY DEF LiveInv, RepeatInv
<1>2. QED  BY <1>1, LiveInductive, PTL

(* No step makes the state file unreadable under its key, or drops a       *)
(* transaction from it.                                                    *)
THEOREM StateIsKept == LiveSpec => StateNeverForgets
<1>1. ASSUME LiveInv, [LiveNext]_liveVars
      PROVE  [disk # None => /\ Opens(disk', disk.key)
                             /\ disk.plain.txids \subseteq disk'.plain.txids]_liveVars
  <2> SUFFICES ASSUME disk # None
               PROVE  /\ Opens(disk', disk.key)
                      /\ disk.plain.txids \subseteq disk'.plain.txids
    OBVIOUS
  <2>1. disk.whole  BY <1>1 DEF LiveInv, FileInv
  <2>2. CASE disk' = disk  BY <2>1, <2>2 DEF Opens
  <2>3. CASE Rename
    <3>1. inv.file /\ stage = "rename"  BY <1>1, <2>3 DEF Rename, LiveInv, BoundInv
    <3>2. disk.key = inv.key /\ OnDisk.seen \subseteq mem.seen
      BY <1>1, <3>1 DEF LiveInv, FileInv, Loaded
    <3>3. OnDisk' = mem /\ disk' # None /\ disk'.whole /\ disk'.key = inv.key
      BY <1>1, <2>3, RenameGives
    <3>4. OnDisk.seen = disk.plain.txids /\ OnDisk'.seen = disk'.plain.txids
      BY <3>3 DEF OnDisk, Deserialize
    <3>5. QED  BY <3>2, <3>3, <3>4 DEF Opens
  <2>4. disk' = disk \/ Rename
    BY <1>1 DEF LiveNext, liveVars, fileVars, MineBlock, Invoke, TipKnown, RangeKnown,
       RangeAbove, VisitTx, VisitEmpty, RangeDone, WriteTmp, RunStops
  <2>5. QED  BY <2>2, <2>3, <2>4
<1>2. QED  BY <1>1, LiveInductive, PTL DEF LiveSpec, StateNeverForgets
=============================================================================
