-------------------------- MODULE BlockScanProofs ---------------------------
(***************************************************************************)
(* Why a finished scan is one chain, and why its records are what that     *)
(* chain owes.  The first invariant says what a tool that checks knows     *)
(* after any number of blocks: they lie on one chain from the start of the *)
(* range on (the blocks below the fork lie on both), `expected` is their   *)
(* number past the start, `prev` the last of them, and the first one       *)
(* continues the anchor.  The second says what it knows after any number   *)
(* of transactions; the third, that every accepted block passed the        *)
(* comparison of bytes, which CompactTargetProofs turns into numbers.      *)
(***************************************************************************)
EXTENDS BlockScan, CompactTargetProofs

OnChain(b) ==
  /\ \A i \in 1 .. Len(got) : got[i] = Hash(req.start + i - 1, b)
  /\ (req.anchor # Absent /\ req.start > 0 /\ got # <<>>)
       => Hash(req.start - 1, b) = req.anchor

CheckerInv ==
  /\ got \in Seq(Hashes) /\ fetched \in Seq(Hashes) /\ branch \in Branch
  /\ req.start \in Nat /\ req.end \in Nat
  /\ stage \in {"idle", "connect", "stream", "link", "fetch", "ok", "error"}
  /\ (req.anchor # Absent /\ stage \notin {"idle", "error"}) => req.start <= req.end
  /\ stage = "connect" => got = <<>> /\ prev = Absent /\ expected = req.start
  /\ stage \in {"stream", "link", "fetch", "ok"} /\ req.tool \in Checked =>
       /\ expected = req.start + Len(got)
       /\ prev = IF got = <<>> THEN Absent ELSE got[Len(got)]
       /\ \E b \in Branch : OnChain(b)
  /\ stage \in {"fetch", "ok"} /\ req.tool \in Checked =>
       Len(got) = req.end - req.start + 1
  /\ stage = "link" => /\ req.tool = "owned"
                       /\ Len(fetched) = req.end - req.start + 1

(* Two chains that agree on a block agree on every block below it.         *)
LEMMA SharedBelow ==
  ASSUME NEW h \in Nat, NEW a \in Branch, NEW b \in Branch,
         Hash(h, a) = Hash(h, b), NEW k \in Int, k <= h
  PROVE  Hash(k, a) = Hash(k, b)
<1> USE BlockScanAssumption DEF Hash, Branch
<1>1. CASE h < ForkAt  BY <1>1
<1>2. CASE ~(h < ForkAt)
  <2>1. a = b  BY <1>2
  <2> QED  BY <2>1
<1> QED  BY <1>1, <1>2

LEMMA HashInHashes ==
  ASSUME NEW h \in 0 .. Tip, NEW b \in Branch
  PROVE  Hash(h, b) \in Hashes /\ Hash(h, b) # Absent
BY BlockScanAssumption DEF Hashes

LEMMA InitChecker == ScanInit => CheckerInv
BY DEF ScanInit, CheckerInv, AnyRequest, Branch

LEMMA RequestTyped ==
  ASSUME NEW r \in ScanRequest
  PROVE  r.start \in Nat /\ r.end \in Nat
BY BlockScanAssumption DEF ScanRequest, Height

(* A block that fits extends the chain: the branch it came from serves for *)
(* all the blocks, because it agrees with the old one on the last block.   *)
LEMMA FittingBlock ==
  ASSUME CheckerInv, stage \in {"stream", "link"}, req.tool \in Checked,
         NEW h \in 0 .. Tip, NEW c \in Branch, NEW header, Fits(Compact(Hash(h, c), c, header)),
         got' = Append(got, Hash(h, c)), req' = req
  PROVE  /\ h = req.start + Len(got)
         /\ OnChain(c)'
<1> DEFINE hash == Hash(h, c)
           cb == Compact(hash, c, header)
<1>1. hash \in Hashes  BY HashInHashes DEF CheckerInv
<1>2. cb.height = h /\ cb.hash = hash
      /\ cb.prev = IF h = 0 THEN Absent ELSE Hash(h - 1, c)
  BY DEF Compact, Hash
<1>3. h = req.start + Len(got)
  BY <1>2 DEF Fits, CheckerInv
<1>4. /\ got' = Append(got, hash) /\ Len(got') = Len(got) + 1
      /\ got'[Len(got) + 1] = hash
      /\ \A i \in 1 .. Len(got) : got'[i] = got[i]
  BY <1>1 DEF CheckerInv
<1>5. PICK b \in Branch : OnChain(b)  BY DEF CheckerInv
<1>6. Continues(cb)  BY DEF Fits
<1>7. CASE got = <<>>
  <2>1. prev = Absent /\ Len(got) = 0  BY <1>7 DEF CheckerInv
  <2>2. req.anchor # Absent => cb.prev = req.anchor  BY <1>6, <2>1 DEF Continues
  <2>3. \A i \in 1 .. Len(got') : got'[i] = Hash(req.start + i - 1, c)
    BY <1>3, <1>4, <2>1 DEF CheckerInv
  <2>4. (req.anchor # Absent /\ req.start > 0) => Hash(req.start - 1, c) = req.anchor
    BY <1>2, <1>3, <2>1, <2>2 DEF CheckerInv
  <2> QED  BY <1>3, <2>3, <2>4 DEF OnChain
<1>8. CASE got # <<>>
  <2>1. Len(got) \in Nat \ {0}  BY <1>8 DEF CheckerInv
  <2>2. prev = got[Len(got)] /\ prev \in Hashes
    BY <1>8, <2>1 DEF CheckerInv
  <2>3. cb.prev = prev
    BY <1>6, <2>2, BlockScanAssumption DEF Continues
  <2>4. got[Len(got)] = Hash(h - 1, b)
    <3>1. Len(got) \in 1 .. Len(got)  BY <2>1
    <3>2. got[Len(got)] = Hash(req.start + Len(got) - 1, b)
      BY <3>1, <1>5 DEF OnChain
    <3>3. req.start + Len(got) - 1 = h - 1  BY <1>3, <2>1 DEF CheckerInv
    <3> QED  BY <3>2, <3>3
  <2>5. h # 0 /\ h - 1 \in Nat /\ c \in Branch
    BY <1>3, <2>1 DEF CheckerInv
  <2>6. Hash(h - 1, c) = Hash(h - 1, b)
    BY <1>2, <2>2, <2>3, <2>4, <2>5
  <2>7. \A k \in Int : k <= h - 1 => Hash(k, c) = Hash(k, b)
    BY <2>5, <2>6, SharedBelow
  <2>8. \A i \in 1 .. Len(got) : got[i] = Hash(req.start + i - 1, c)
    <3>1. SUFFICES ASSUME NEW i \in 1 .. Len(got)
                   PROVE  got[i] = Hash(req.start + i - 1, c)
      OBVIOUS
    <3>2. req.start + i - 1 \in Int /\ req.start + i - 1 <= h - 1
      BY <1>3, <2>1 DEF CheckerInv
    <3> QED  BY <3>2, <2>7, <1>5 DEF OnChain
  <2>9. \A i \in 1 .. Len(got') : got'[i] = Hash(req.start + i - 1, c)
    <3>1. SUFFICES ASSUME NEW i \in 1 .. Len(got')
                   PROVE  got'[i] = Hash(req.start + i - 1, c)
      OBVIOUS
    <3>2. CASE i \in 1 .. Len(got)  BY <3>2, <2>8, <1>4
    <3>3. CASE i = Len(got) + 1
      <4>1. req.start + i - 1 = h  BY <1>3, <3>3, <2>1 DEF CheckerInv
      <4> QED  BY <4>1, <3>3, <1>4
    <3> QED  BY <3>2, <3>3, <1>4, <2>1
  <2>10. (req.anchor # Absent /\ req.start > 0) => Hash(req.start - 1, c) = req.anchor
    <3>1. req.start - 1 \in Int /\ req.start - 1 <= h - 1
      BY <1>3, <2>1 DEF CheckerInv
    <3> QED  BY <3>1, <2>7, <1>5, <1>8 DEF OnChain
  <2> QED  BY <1>3, <2>9, <2>10 DEF OnChain
<1> QED  BY <1>7, <1>8

(* A block added keeps the invariant; one that is not is an error.         *)
LEMMA AddKeeps ==
  ASSUME CheckerInv, stage \in {"stream", "link"}, req.tool \in Checked,
         NEW h \in 0 .. Tip, NEW c \in Branch, NEW header, AddBlock(Compact(Hash(h, c), c, header)),
         req' = req, branch' = branch, fetched' = fetched
  PROVE  CheckerInv'
<1> DEFINE hash == Hash(h, c)
           cb == Compact(hash, c, header)
<1>1. hash \in Hashes /\ hash # Absent  BY HashInHashes
<1>2. CASE Fits(cb)
  <2>1. /\ prev' = hash /\ got' = Append(got, hash)
        /\ expected' = expected + 1 /\ stage' = stage
    BY <1>2 DEF AddBlock, Compact
  <2>2. h = req.start + Len(got) /\ OnChain(c)'
    BY <1>2, <2>1, FittingBlock
  <2>3. /\ got' \in Seq(Hashes) /\ got' # <<>> /\ Len(got') = Len(got) + 1
        /\ got'[Len(got')] = hash
    <3>1. got \in Seq(Hashes)  BY DEF CheckerInv
    <3> HIDE DEF hash
    <3> QED  BY <1>1, <2>1, <3>1
  <2>4. expected' = req.start + Len(got')
    <3>1. expected = req.start + Len(got) /\ Len(got) \in Nat /\ req.start \in Nat
      BY DEF CheckerInv
    <3> QED  BY <3>1, <2>1, <2>3
  <2>5. \E b \in Branch : OnChain(b)'
    BY <2>2
  <2> QED  BY <2>1, <2>3, <2>4, <2>5 DEF CheckerInv
<1>3. CASE ~Fits(cb)
  <2>1. stage' = "error" /\ UNCHANGED <<prev, got, expected>>
    BY <1>3 DEF AddBlock
  <2> QED  BY <2>1 DEF CheckerInv
<1> QED  BY <1>2, <1>3

LEMMA ReceiveKeeps ==
  ASSUME CheckerInv, NEW h \in 0 .. Tip, NEW header, Receive(h, header)
  PROVE  CheckerInv'
<1>1. /\ stage = "stream" /\ branch \in Branch /\ req.tool \in Checked
      /\ branch' = branch /\ req' = req /\ fetched' = fetched
      /\ AddBlock(Compact(Hash(h, branch), branch, header))
  BY DEF Receive, Arrives, CheckerInv, Checked
<1> QED  BY <1>1, AddKeeps

(* The scanner of mvp2 adds the blocks it was given by the same rule.      *)
LEMMA LinkKeeps ==
  ASSUME CheckerInv, LinkBlock
  PROVE  CheckerInv'
<1> DEFINE hash == fetched[Len(got) + 1]
<1>1. /\ stage = "link" /\ Len(got) < Len(fetched) /\ req.tool \in Checked
      /\ branch' = branch /\ req' = req /\ fetched' = fetched
      /\ AddBlock(Compact(hash, BranchOf(hash), Absent))
  BY DEF LinkBlock, MapCompactBlock, chainVars, CheckerInv, Checked
<1>2. Len(got) + 1 \in 1 .. Len(fetched) /\ hash \in Hashes
  BY <1>1 DEF CheckerInv
<1>3. PICK h \in 0 .. Tip, b \in Branch : hash = Hash(h, b)
  BY <1>2 DEF Hashes
<1>4. BranchOf(hash) \in Branch /\ hash = Hash(h, BranchOf(hash))
  BY <1>3, BlockScanAssumption DEF BranchOf, Hash, Branch
<1> QED  BY <1>1, <1>4, AddKeeps

LEMMA StepKeeps ==
  ASSUME CheckerInv, [BlockScanNext]_scanVars
  PROVE  CheckerInv'
<1> USE DEF CheckerInv, OnChain
<1>1. ASSUME NEW r \in ScanRequest,
             StartScan(r) \/ StartIncoming(r) \/ StartOwned(r) \/ StartProbe(r)
      PROVE  CheckerInv'
  <2>1. /\ req' = r /\ got' = <<>> /\ fetched' = <<>>
        /\ prev' = Absent /\ expected' = r.start
        /\ stage' \in {"error", "connect"} /\ branch' = branch
        /\ (r.anchor # Absent /\ stage' # "error") => r.start <= r.end
    BY <1>1, RequestTyped
    DEF StartScan, StartIncoming, StartOwned, StartProbe, NewChecker, NewTracker, chainVars
  <2>2. CASE stage' = "error"  BY <2>1, <2>2, RequestTyped
  <2>3. CASE stage' = "connect"  BY <2>1, <2>3, RequestTyped
  <2> QED  BY <2>1, <2>2, <2>3
<1>2. CASE OpenStream \/ OpenIncoming \/ OpenOwned \/ OpenProbe
  BY <1>2, BlockScanAssumption
  DEF OpenStream, OpenIncoming, OpenOwned, OpenProbe, chainVars, checkVars, recordVars, Branch
<1>3. ASSUME NEW h \in 0 .. Tip, NEW header, Receive(h, header)
      PROVE  CheckerInv'
  BY <1>3, ReceiveKeeps
<1>4. ASSUME NEW h \in 0 .. Tip, Keep(h)
      PROVE  CheckerInv'
  <2>1. branch \in Branch /\ Hash(h, branch) \in Hashes  BY HashInHashes
  <2>2. fetched' \in Seq(Hashes)  BY <1>4, <2>1 DEF Keep
  <2> QED  BY <1>4, <2>2 DEF Keep, Arrives
<1>5. CASE EndStream
  BY <1>5 DEF EndStream, StreamEnds, checkVars
<1>6. CASE EndKeep
  BY <1>6 DEF EndKeep, StreamEnds, checkVars
<1>7. CASE LinkBlock
  BY <1>7, LinkKeeps
<1>8. CASE FinishOwned
  BY <1>8 DEF FinishOwned, chainVars, checkVars
<1>9. ASSUME NEW p \in rest,
             FetchTx(p) \/ FetchIncoming(p) \/ FetchProbe(p) \/ FetchInspect(p)
      PROVE  CheckerInv'
  BY <1>9 DEF FetchTx, FetchIncoming, FetchProbe, FetchInspect, chainVars, checkVars
<1>10. CASE Finish \/ FinishIncoming \/ FinishProbe
  BY <1>10 DEF Finish, FinishIncoming, FinishProbe, chainVars, checkVars
<1>11. CASE ScanError
  BY <1>11 DEF ScanError, chainVars, checkVars
<1>12. CASE Leave
  BY <1>12 DEF Leave, NewChecker, AnyRequest, chainVars
<1>13. CASE Reorg
  BY <1>13 DEF Reorg, Break, checkVars, Branch
<1>14. CASE EndProbe
  <2>1. /\ req' = req /\ branch' = branch /\ fetched' = fetched /\ got' = fetched
        /\ stage = "stream" /\ stage' \in {"error", "fetch"}
        /\ req.tool \notin Checked
    BY <1>14 DEF EndProbe, StreamEnds, Checked, Probing
  <2> QED  BY <2>1
<1>15. CASE UNCHANGED scanVars
  BY <1>15 DEF scanVars, chainVars, checkVars
<1> QED
  BY <1>1, <1>2, <1>3, <1>4, <1>5, <1>6, <1>7, <1>8, <1>9, <1>10, <1>11,
     <1>12, <1>13, <1>14, <1>15
  DEF BlockScanNext, ScanStep, Start

(***************************************************************************)
(* Whatever the stream loses or repeats and however often the chain moves  *)
(* under it, a scan that passed its checks holds all the blocks of its     *)
(* range, of one chain, continuing the anchor if one was given.            *)
(***************************************************************************)
LEMMA CheckerComplete == CheckerInv => CompleteOnOneChain
<1> SUFFICES ASSUME CheckerInv, stage \in {"fetch", "ok"}, req.tool \in Checked
             PROVE  \E b \in Branch :
                      /\ got = ChainOf(b)
                      /\ (req.anchor # Absent /\ req.start > 0)
                           => Hash(req.start - 1, b) = req.anchor
  BY DEF CompleteOnOneChain
<1>1. PICK b \in Branch : OnChain(b)  BY DEF CheckerInv
<1>2. /\ Len(got) = req.end - req.start + 1 /\ got \in Seq(Hashes)
      /\ DOMAIN got = 1 .. (req.end - req.start + 1)
  BY DEF CheckerInv
<1>3. got = ChainOf(b)
  BY <1>1, <1>2 DEF OnChain, ChainOf
<1>4. req.anchor # Absent => got # <<>>
  BY <1>2 DEF CheckerInv
<1> QED  BY <1>1, <1>3, <1>4 DEF OnChain

THEOREM ScanIsComplete == BlockScanSpec => []CompleteOnOneChain
<1>1. CheckerInv /\ [BlockScanNext]_scanVars => CheckerInv'
  BY StepKeeps
<1> QED  BY <1>1, InitChecker, CheckerComplete, PTL DEF BlockScanSpec

-----------------------------------------------------------------------------
(***************************************************************************)
(* Why the records are what the range owes.  While transactions are being  *)
(* fetched, those that are done come before the rest in the chain; what is *)
(* recorded is what the done ones owe; and the account's coins are the     *)
(* outputs made to it by the done ones and spent by none of them.          *)
(***************************************************************************)
Of(p, A) == {[tx |-> TxAt(p), to |-> a] : a \in A}
OwedBy(D) == UNION {Of(p, Owed(p)) : p \in D}
Coins(D) ==
  {c \in UNION {AddVouts(TxAt(p)) : p \in D} : \A q \in D : c \notin Body[TxAt(q)].vin}
Done == Places(got) \ rest

RecordInv ==
  /\ stage \in {"connect", "stream"} => records = {} /\ utxos = {}
  /\ (stage = "stream" /\ req.tool = "owned") => got = <<>>
  /\ stage = "fetch" =>
       /\ req.tool # "owned" /\ rest \subseteq Places(got)
       /\ \A p \in Done, q \in rest : Before(p, q)
       /\ records = OwedBy(Done)
       /\ req.tool = "scan" => utxos = Coins(Done)
  /\ stage = "link" => records = OwedBy(Places(got))
  /\ RecordsAreOwed

LEMMA PlaceTyped ==
  ASSUME got \in Seq(Hashes), NEW p \in Places(got)
  PROVE  /\ p[1] \in 1 .. Len(got) /\ p[2] \in Nat
         /\ p = <<p[1], p[2]>>
         /\ got[p[1]] \in Hashes /\ p[2] \in Vtx(got[p[1]])
<1>1. PICK i \in 1 .. Len(got) : p \in {i} \X Vtx(got[i])  BY DEF Places
<1>2. got[i] \in Hashes  OBVIOUS
<1>3. Content[got[i]] \in Seq(TxId)  BY <1>2, BlockScanAssumption
<1>4. Vtx(got[i]) \subseteq Nat  BY <1>3 DEF Vtx
<1>5. QED  BY <1>1, <1>2, <1>4

LEMMA BeforeIsStrict ==
  ASSUME got \in Seq(Hashes), NEW p \in Places(got), NEW q \in Places(got), Before(p, q)
  PROVE  ~Before(q, p) /\ p # q
BY PlaceTyped DEF Before

(* What comes before the next transaction is exactly what is done.         *)
LEMMA DoneIsBefore ==
  ASSUME CheckerInv, RecordInv, stage = "fetch", NEW p \in rest, IsNext(p),
         NEW q \in Places(got)
  PROVE  Before(q, p) <=> q \in Done
<1>1. got \in Seq(Hashes) /\ p \in Places(got)  BY DEF CheckerInv, RecordInv
<1>2. ASSUME q \in Done PROVE Before(q, p)  BY <1>2 DEF RecordInv
<1>3. ASSUME q \notin Done, Before(q, p) PROVE FALSE
  <2>1. q \in rest  BY <1>3 DEF Done
  <2>2. q # p  BY <1>1, <1>3, BeforeIsStrict
  <2>3. Before(p, q)  BY <2>1, <2>2 DEF IsNext
  <2>4. QED  BY <1>1, <1>3, <2>3, BeforeIsStrict
<1>4. QED  BY <1>2, <1>3

(* The rules of the chain, for the places of a side-car's scan.            *)
LEMMA PlacesOnChain ==
  ASSUME CheckerInv, stage \in {"fetch", "ok"}, req.tool = "scan",
         NEW p \in Places(got), NEW q \in Places(got)
  PROVE  /\ Body[TxAt(p)].vin \cap Body[TxAt(q)].vin # {} => p = q
         /\ (\E c \in Body[TxAt(q)].vin : c[1] = TxAt(p)) => Before(p, q)
<1>0. req.tool \in Checked /\ got \in Seq(Hashes) /\ req.start \in Nat
  BY DEF Checked, CheckerInv
<1>1. PICK b \in Branch : OnChain(b)  BY <1>0 DEF CheckerInv
<1> DEFINE height(r) == req.start + r[1] - 1
<1>2. \A r \in Places(got) :
        /\ r[1] \in 1 .. Len(got) /\ r[2] \in Nat /\ r = <<r[1], r[2]>>
        /\ got[r[1]] = Hash(height(r), b) /\ r[2] \in Vtx(Hash(height(r), b))
  BY <1>0, <1>1, PlaceTyped DEF OnChain
<1>3. \A r \in Places(got) : height(r) \in 0 .. Tip
  <2>1. SUFFICES ASSUME NEW r \in Places(got) PROVE height(r) \in 0 .. Tip  OBVIOUS
  <2>2. got[r[1]] \in Hashes  BY <1>0, PlaceTyped
  <2>3. PICK k \in 0 .. Tip, c \in Branch : got[r[1]] = Hash(k, c)  BY <2>2 DEF Hashes
  <2>4. height(r) = k
    <3>1. \A h, d : Hash(h, d)[1] = h  BY DEF Hash
    <3>2. Hash(height(r), b)[1] = height(r) /\ Hash(k, c)[1] = k  BY <3>1
    <3>3. Hash(height(r), b) = Hash(k, c)  BY <1>2, <2>3
    <3> HIDE DEF height
    <3>4. QED  BY <3>2, <3>3
  <2>5. QED  BY <2>3, <2>4
<1>4. /\ TxAt(p) = Content[Hash(height(p), b)][p[2]]
      /\ TxAt(q) = Content[Hash(height(q), b)][q[2]]
  BY <1>2 DEF TxAt
<1>5. /\ Body[TxAt(p)].vin \cap Body[TxAt(q)].vin # {} => height(p) = height(q) /\ p[2] = q[2]
      /\ (\E c \in Body[TxAt(q)].vin : c[1] = TxAt(p)) =>
            height(p) < height(q) \/ (height(p) = height(q) /\ p[2] < q[2])
  <2>1. ASSUME NEW h \in 0 .. Tip, NEW k \in 0 .. Tip,
               NEW i \in Vtx(Hash(h, b)), NEW j \in Vtx(Hash(k, b)),
               Content[Hash(h, b)][i] = TxAt(p), Content[Hash(k, b)][j] = TxAt(q)
        PROVE  /\ Body[TxAt(p)].vin \cap Body[TxAt(q)].vin # {} => h = k /\ i = j
               /\ (\E c \in Body[TxAt(q)].vin : c[1] = TxAt(p)) =>
                     h < k \/ (h = k /\ i < j)
    BY <2>1, ChainAssumption
  <2>2. /\ height(p) \in 0 .. Tip /\ p[2] \in Vtx(Hash(height(p), b))
        /\ height(q) \in 0 .. Tip /\ q[2] \in Vtx(Hash(height(q), b))
    BY <1>2, <1>3
  <2> HIDE DEF height
  <2>3. QED  BY <1>4, <2>1, <2>2
<1>6. p[1] \in Int /\ q[1] \in Int /\ req.start \in Int  BY <1>0, <1>2
<1>7. /\ height(p) = height(q) <=> p[1] = q[1]
      /\ height(p) < height(q) <=> p[1] < q[1]
  BY <1>6
<1>8. QED  BY <1>2, <1>5, <1>7 DEF Before

(* The next transaction spends a known coin just if it spends an output    *)
(* the account received before it.                                         *)
LEMMA CoinsTell ==
  ASSUME CheckerInv, RecordInv, stage = "fetch", req.tool = "scan", NEW p \in rest, IsNext(p)
  PROVE  AnyOurs(TxAt(p)) <=> SpendsOwn(p)
<1> DEFINE t == TxAt(p)
<1>0. p \in Places(got) /\ utxos = Coins(Done) /\ Done \subseteq Places(got)
  BY DEF RecordInv, Done
<1>1. ASSUME AnyOurs(t) PROVE SpendsOwn(p)
  <2>1. PICK c \in utxos : c \in Body[t].vin  BY <1>1 DEF AnyOurs
  <2>2. PICK q \in Done : c \in AddVouts(TxAt(q))  BY <1>0, <2>1 DEF Coins
  <2>3. PICK n \in DOMAIN Taddrs(TxAt(q)) : Taddrs(TxAt(q))[n] \in Own /\ c = <<TxAt(q), n>>
    BY <2>2 DEF AddVouts, IsOurs
  <2>4. Before(q, p)  BY <2>2, <1>0, DoneIsBefore
  <2>5. QED  BY <2>1, <2>3, <2>4, <2>2, <1>0 DEF SpendsOwn
<1>2. ASSUME SpendsOwn(p) PROVE AnyOurs(t)
  <2>0. PICK q \in Places(got) :
          /\ Before(q, p)
          /\ \E n \in DOMAIN Taddrs(TxAt(q)) :
               Taddrs(TxAt(q))[n] \in Own /\ <<TxAt(q), n>> \in Body[t].vin
    BY <1>2 DEF SpendsOwn
  <2>1. PICK n \in DOMAIN Taddrs(TxAt(q)) :
          Taddrs(TxAt(q))[n] \in Own /\ <<TxAt(q), n>> \in Body[t].vin
    BY <2>0
  <2>2. q \in Done  BY <2>0, <1>0, DoneIsBefore
  <2>3. <<TxAt(q), n>> \in AddVouts(TxAt(q))  BY <2>1 DEF AddVouts, IsOurs
  <2>4. ASSUME NEW r \in Done, <<TxAt(q), n>> \in Body[TxAt(r)].vin PROVE FALSE
    <3>1. r = p  BY <2>1, <2>4, <1>0, PlacesOnChain
    <3>2. QED  BY <3>1, <2>4 DEF Done
  <2>5. <<TxAt(q), n>> \in utxos  BY <1>0, <2>2, <2>3, <2>4 DEF Coins
  <2>6. QED  BY <2>1, <2>5 DEF AnyOurs
<1>3. QED  BY <1>1, <1>2

(* The tracker's step keeps its coins.                                     *)
LEMMA CoinsFollow ==
  ASSUME CheckerInv, RecordInv, stage = "fetch", req.tool = "scan", NEW p \in rest, IsNext(p)
  PROVE  ConsumeVins(TxAt(p)) \cup AddVouts(TxAt(p)) = Coins(Done \cup {p})
<1> DEFINE t == TxAt(p)
<1>0. p \in Places(got) /\ utxos = Coins(Done) /\ Done \subseteq Places(got)
  BY DEF RecordInv, Done
<1>1. ASSUME NEW c \in AddVouts(t), NEW q \in Done \cup {p} PROVE c \notin Body[TxAt(q)].vin
  <2>1. c[1] = t  BY DEF AddVouts
  <2>2. SUFFICES ASSUME c \in Body[TxAt(q)].vin PROVE FALSE  OBVIOUS
  <2>3. q \in Places(got)  BY <1>0
  <2>4. Before(p, q)  BY <2>1, <2>2, <2>3, <1>0, PlacesOnChain
  <2>5. got \in Seq(Hashes) /\ p # q /\ ~Before(q, p)
    BY <2>3, <2>4, <1>0, BeforeIsStrict DEF CheckerInv
  <2>6. QED  BY <2>3, <2>5, DoneIsBefore
<1>2. ConsumeVins(t) = {c \in Coins(Done) : c \notin Body[t].vin}  BY <1>0 DEF ConsumeVins
<1>3. QED  BY <1>1, <1>2 DEF Coins
(* What each kind of scan owes for a transaction, as it records it.        *)
LEMMA OwedFor ==
  ASSUME NEW p
  PROVE  /\ req.tool = "scan" /\ (AnyOurs(TxAt(p)) <=> SpendsOwn(p)) =>
              Owed(p) = RecipientsOf(TxAt(p))
         /\ req.tool = "incoming" =>
              Owed(p) = IF Body[TxAt(p)].bytes = "plain" THEN OutputsOf(TxAt(p), "Incoming")
                        ELSE {}
         /\ req.tool = "probe" =>
              Owed(p) = IF ReadLenient(TxAt(p)) THEN OutputsOf(TxAt(p), "Incoming") ELSE {}
         /\ req.tool = "inspect" =>
              Owed(p) = IF ReadLenient(TxAt(p)) THEN ReceivedOrChange(TxAt(p)) ELSE {}
         /\ req.tool = "owned" => Owed(p) = OutputsOf(TxAt(p), "Incoming")
BY DEF Owed, RecipientsOf

(* What is owed depends on the blocks and the request alone.               *)
LEMMA OwedStays ==
  ASSUME got' = got, req' = req
  PROVE  \A D : OwedBy(D)' = OwedBy(D) /\ Coins(D)' = Coins(D)
BY DEF OwedBy, Coins, Of, Owed, SpendsOwn, TxAt, Places

LEMMA OwedIsAll == RecordsAreOwed <=> (stage = "ok" => records = OwedBy(Places(got)))
BY DEF RecordsAreOwed, OwedBy, Of

(* A transaction fetched and recorded joins those that are done.           *)
LEMMA FetchKeeps ==
  ASSUME CheckerInv, RecordInv, stage = "fetch", NEW p \in rest, IsNext(p),
         rest' = rest \ {p}, got' = got, req' = req, stage' = stage,
         records' = records \cup Of(p, Owed(p)),
         req.tool = "scan" => utxos' = Coins(Done \cup {p})
  PROVE  RecordInv'
<1>1. p \in Places(got) /\ p \notin Done /\ Done' = Done \cup {p}
  BY DEF RecordInv, Done, Places
<1>2. rest' \subseteq Places(got') /\ \A a \in Done', q \in rest' : Before(a, q)
  BY <1>1 DEF RecordInv, IsNext
<1>3. \A D : OwedBy(D)' = OwedBy(D) /\ Coins(D)' = Coins(D)
  BY OwedStays
<1>4. records' = OwedBy(Done')
  BY <1>1 DEF RecordInv, OwedBy
<1>5. QED
  BY <1>1, <1>2, <1>3, <1>4 DEF RecordInv, RecordsAreOwed

LEMMA FetchTxKeeps ==
  ASSUME CheckerInv, RecordInv, NEW p \in rest, FetchTx(p)
  PROVE  RecordInv'
<1> DEFINE t == TxAt(p)
<1>1. /\ stage = "fetch" /\ IsNext(p) /\ req.tool = "scan" /\ rest' = rest \ {p}
      /\ got' = got /\ req' = req /\ stage' = stage
      /\ records' = records \cup Of(p, RecipientsOf(t))
      /\ utxos' = ConsumeVins(t) \cup AddVouts(t)
  BY DEF FetchTx, checkVars, Of
<1>2. Owed(p) = RecipientsOf(t)  BY <1>1, CoinsTell, OwedFor
<1>3. utxos' = Coins(Done \cup {p})  BY <1>1, CoinsFollow
<1>4. QED  BY <1>1, <1>2, <1>3, FetchKeeps

LEMMA FetchOthersKeep ==
  ASSUME CheckerInv, RecordInv, NEW p \in rest,
         FetchIncoming(p) \/ FetchProbe(p) \/ FetchInspect(p)
  PROVE  RecordInv'
<1> DEFINE t == TxAt(p)
<1>1. /\ stage = "fetch" /\ IsNext(p) /\ req.tool # "scan" /\ rest' = rest \ {p}
      /\ got' = got /\ req' = req
  BY DEF FetchIncoming, FetchProbe, FetchInspect, checkVars
<1>2. ASSUME NEW A, Owed(p) = A, stage' = stage, records' = records \cup Of(p, A)
      PROVE  RecordInv'
  BY <1>1, <1>2, FetchKeeps
<1>3. Of(p, {}) = {} /\ \A A : Of(p, A) = {[tx |-> t, to |-> a] : a \in A}  BY DEF Of
<1>4. CASE FetchIncoming(p)
  <2>1. req.tool = "incoming" /\ stage' = stage
        /\ records' = records \cup
             Of(p, IF Body[t].bytes = "plain" THEN OutputsOf(t, "Incoming") ELSE {})
    BY <1>3, <1>4 DEF FetchIncoming
  <2>2. QED  BY <1>2, <2>1, OwedFor
<1>5. CASE FetchProbe(p)
  <2>1. req.tool = "probe" /\ stage' = stage
        /\ records' = records \cup
             Of(p, IF ReadLenient(t) THEN OutputsOf(t, "Incoming") ELSE {})
    BY <1>3, <1>5 DEF FetchProbe
  <2>2. QED  BY <1>2, <2>1, OwedFor
<1>6. CASE FetchInspect(p)
  <2>1. CASE stage' = "error"  BY <2>1 DEF RecordInv, RecordsAreOwed
  <2>2. CASE stage' # "error"
    <3>1. /\ req.tool = "inspect" /\ stage' = stage
          /\ records' = records \cup
               Of(p, IF ReadLenient(t) THEN ReceivedOrChange(t) ELSE {})
      BY <1>3, <1>6, <2>2 DEF FetchInspect, ReadLenient
    <3>2. QED  BY <1>2, <3>1, OwedFor
  <2>3. QED  BY <2>1, <2>2
<1>7. QED  BY <1>4, <1>5, <1>6

(* The scanner of mvp2 records a block's transactions as it links it.      *)
LEMMA AppendedOwes ==
  ASSUME got \in Seq(Hashes), NEW hash \in Hashes, NEW n, n = Len(got) + 1,
         got' = Append(got, hash), req' = req, req.tool = "owned"
  PROVE  OwedBy(Places(got))' = OwedBy(Places(got)) \cup Received(hash)
<1>1. /\ Len(got) \in Nat /\ Len(got') = n /\ got'[n] = hash
      /\ \A i \in 1 .. Len(got) : got'[i] = got[i]
  OBVIOUS
<1>2. Places(got') = Places(got) \cup ({n} \X Vtx(hash))
  <2>1. 1 .. n = (1 .. Len(got)) \cup {n}  BY <1>1
  <2>2. QED  BY <1>1, <2>1 DEF Places
<1>3. \A p : Owed(p)' = OutputsOf(TxAt(p)', "Incoming")
  BY DEF Owed
<1>4. ASSUME NEW p \in Places(got) PROVE Of(p, Owed(p))' = Of(p, Owed(p))
  <2>1. TxAt(p)' = TxAt(p)  BY <1>1, PlaceTyped DEF TxAt
  <2>2. QED  BY <1>3, <2>1, OwedFor DEF Of
<1>5. ASSUME NEW j \in Vtx(hash), NEW p, p = <<n, j>>
      PROVE  Of(p, Owed(p))' = ReceivedBy(Content[hash][j])
  <2>1. TxAt(p)' = Content[hash][j]  BY <1>1, <1>5 DEF TxAt
  <2>2. ReceivedBy(Content[hash][j]) =
          {[tx |-> Content[hash][j], to |-> a] : a \in OutputsOf(Content[hash][j], "Incoming")}
    BY DEF ReceivedBy, OwnedOutputs, MapCompactTx, OutputsOf
  <2>3. QED  BY <1>3, <2>1, <2>2 DEF Of
<1>6. ASSUME NEW x \in OwedBy(Places(got))'
      PROVE  x \in OwedBy(Places(got)) \cup Received(hash)
  <2>1. PICK p \in Places(got') : x \in Of(p, Owed(p))'  BY DEF OwedBy
  <2>2. CASE p \in Places(got)  BY <1>4, <2>1, <2>2 DEF OwedBy
  <2>3. CASE p \in {n} \X Vtx(hash)
    <3>1. PICK j \in Vtx(hash) : p = <<n, j>>  BY <2>3
    <3>2. QED  BY <1>5, <2>1, <3>1 DEF Received
  <2>4. QED  BY <1>2, <2>2, <2>3
<1>7. ASSUME NEW x \in OwedBy(Places(got))
      PROVE  x \in OwedBy(Places(got))'
  <2>1. PICK p \in Places(got) : x \in Of(p, Owed(p))  BY DEF OwedBy
  <2>2. p \in Places(got') /\ x \in Of(p, Owed(p))'  BY <1>2, <1>4, <2>1
  <2>3. QED  BY <2>2 DEF OwedBy
<1>8. ASSUME NEW x \in Received(hash)
      PROVE  x \in OwedBy(Places(got))'
  <2>1. PICK j \in Vtx(hash) : x \in ReceivedBy(Content[hash][j])  BY DEF Received
  <2>2. PICK p : p = <<n, j>>  OBVIOUS
  <2>3. p \in Places(got') /\ x \in Of(p, Owed(p))'  BY <1>2, <1>5, <2>1, <2>2
  <2>4. QED  BY <2>3 DEF OwedBy
<1>9. QED  BY <1>6, <1>7, <1>8

LEMMA LinkRecords ==
  ASSUME CheckerInv, RecordInv, LinkBlock
  PROVE  RecordInv'
<1>1. PICK hash : hash = fetched[Len(got) + 1]  OBVIOUS
<1>2. CASE ~Fits(MapCompactBlock(hash))
  BY <1>1, <1>2 DEF LinkBlock, AddBlock, RecordInv, RecordsAreOwed
<1>3. CASE Fits(MapCompactBlock(hash))
  <2>1. /\ stage = "link" /\ stage' = "link" /\ req' = req /\ got' = Append(got, hash)
        /\ records' = records \cup Received(hash) /\ hash \in Hashes /\ req.tool = "owned"
    BY <1>1, <1>3 DEF LinkBlock, AddBlock, MapCompactBlock, Compact, CheckerInv
  <2>2. OwedBy(Places(got))' = OwedBy(Places(got)) \cup Received(hash)
    BY <2>1, AppendedOwes DEF CheckerInv
  <2>3. QED  BY <2>1, <2>2 DEF RecordInv, RecordsAreOwed
<1>4. QED  BY <1>2, <1>3

LEMMA RecordStep ==
  ASSUME CheckerInv, RecordInv, [BlockScanNext]_scanVars
  PROVE  RecordInv'
<1>0. Places(<<>>) = {} /\ OwedBy({})' = {} /\ Coins({})' = {}
  BY DEF Places, OwedBy, Coins
<1>1. ASSUME NEW r \in ScanRequest,
             StartScan(r) \/ StartIncoming(r) \/ StartOwned(r) \/ StartProbe(r)
      PROVE  RecordInv'
  BY <1>1 DEF StartScan, StartIncoming, StartOwned, StartProbe, NewTracker, RecordInv,
              RecordsAreOwed
<1>2. CASE OpenStream \/ OpenIncoming \/ OpenOwned \/ OpenProbe
  BY <1>2 DEF OpenStream, OpenIncoming, OpenOwned, OpenProbe, checkVars, recordVars,
              RecordInv, RecordsAreOwed, CheckerInv
<1>3. ASSUME NEW h \in 0 .. Tip, NEW header, Receive(h, header)
      PROVE  RecordInv'
  BY <1>3 DEF Receive, Arrives, AddBlock, recordVars, RecordInv, RecordsAreOwed
<1>4. ASSUME NEW h \in 0 .. Tip, Keep(h)
      PROVE  RecordInv'
  BY <1>4 DEF Keep, Arrives, recordVars, RecordInv, RecordsAreOwed
<1>5. CASE EndStream
  <2>1. CASE stage' = "error"  BY <2>1 DEF RecordInv, RecordsAreOwed
  <2>2. CASE stage' # "error"
    <3>1. /\ stage = "stream" /\ stage' = "fetch" /\ rest' = Places(got) /\ got' = got
          /\ UNCHANGED <<req, utxos, records>> /\ req.tool # "owned"
      BY <1>5, <2>2 DEF EndStream, StreamEnds, checkVars
    <3>2. Done' = {}  BY <3>1 DEF Done
    <3>3. QED  BY <1>0, <3>1, <3>2 DEF RecordInv, RecordsAreOwed
  <2>3. QED  BY <2>1, <2>2
<1>6. CASE EndProbe
  <2>1. CASE stage' = "error"  BY <2>1 DEF RecordInv, RecordsAreOwed
  <2>2. CASE stage' # "error"
    <3>1. /\ stage = "stream" /\ stage' = "fetch" /\ rest' = Places(got')
          /\ UNCHANGED <<req, utxos, records>> /\ req.tool # "owned"
      BY <1>6, <2>2 DEF EndProbe, StreamEnds, Probing
    <3>2. Done' = {}  BY <3>1 DEF Done
    <3>3. QED  BY <1>0, <3>1, <3>2 DEF RecordInv, RecordsAreOwed
  <2>3. QED  BY <2>1, <2>2
<1>7. CASE EndKeep
  <2>1. CASE stage' = "error"  BY <2>1 DEF RecordInv, RecordsAreOwed
  <2>2. CASE stage' # "error"
    <3>1. /\ stage = "stream" /\ stage' = "link" /\ req.tool = "owned" /\ req' = req
          /\ got' = got /\ records' = records
      BY <1>7, <2>2 DEF EndKeep, StreamEnds, checkVars, recordVars
    <3>2. Places(got)' = {} /\ records' = {}  BY <1>0, <3>1 DEF RecordInv
    <3>3. QED  BY <1>0, <3>1, <3>2 DEF RecordInv, RecordsAreOwed
  <2>3. QED  BY <2>1, <2>2
<1>8. CASE LinkBlock
  BY <1>8, LinkRecords
<1>9. CASE FinishOwned
  <2>1. /\ stage = "link" /\ stage' = "ok" /\ UNCHANGED <<req, got, records>>
    BY <1>9 DEF FinishOwned, checkVars, recordVars
  <2>2. records' = OwedBy(Places(got))'  BY <2>1, OwedStays DEF RecordInv, Places
  <2>3. QED  BY <2>1, <2>2, OwedIsAll DEF RecordInv, RecordsAreOwed, OwedBy, Of
<1>10. ASSUME NEW p \in rest,
              FetchTx(p) \/ FetchIncoming(p) \/ FetchProbe(p) \/ FetchInspect(p)
       PROVE  RecordInv'
  BY <1>10, FetchTxKeeps, FetchOthersKeep
<1>11. CASE Finish \/ FinishIncoming \/ FinishProbe
  <2>1. /\ stage = "fetch" /\ rest = {} /\ stage' \in {"ok", "error"}
        /\ UNCHANGED <<req, checkVars, recordVars>>
    BY <1>11 DEF Finish, FinishIncoming, FinishProbe
  <2>2. records = OwedBy(Places(got))  BY <2>1 DEF RecordInv, Done
  <2>3. records' = OwedBy(Places(got))'
    BY <2>1, <2>2, OwedStays DEF Places, checkVars, recordVars
  <2>4. QED  BY <2>1, <2>3 DEF RecordInv, RecordsAreOwed, OwedBy, Of
<1>12. CASE ScanError
  BY <1>12 DEF ScanError, RecordInv, RecordsAreOwed
<1>13. CASE Leave
  BY <1>13 DEF Leave, RecordInv, RecordsAreOwed
<1>14. CASE Reorg \/ UNCHANGED scanVars
  <2>1. UNCHANGED <<stage, req, checkVars, recordVars>>
    BY <1>14 DEF Reorg, scanVars
  <2>2. QED
    <3>1. UNCHANGED <<stage, req, got, rest, utxos, records, Places(got), Done>>
      BY <2>1 DEF checkVars, recordVars, Places, Done
    <3>2. RecordsAreOwed'
      <4>1. \A p : UNCHANGED Owed(p) /\ UNCHANGED TxAt(p)
        BY <3>1 DEF Owed, SpendsOwn, TxAt, Places
      <4>2. QED  BY <3>1, <4>1 DEF RecordInv, RecordsAreOwed
    <3>3. QED  BY <3>1, <3>2, OwedStays DEF RecordInv
<1> QED
  BY <1>1, <1>2, <1>3, <1>4, <1>5, <1>6, <1>7, <1>8, <1>9, <1>10, <1>11, <1>12, <1>13, <1>14
  DEF BlockScanNext, ScanStep, Start

(***************************************************************************)
(* What every tool prints is what the blocks it read owe, for every chain  *)
(* on which no coin is spent twice or before it is made (OurTransparent-   *)
(* Tracker, the loops over tx_locations, scan_owned_commitments).          *)
(***************************************************************************)
THEOREM RecordsAreComplete == BlockScanSpec => []RecordsAreOwed
<1>1. ScanInit => RecordInv
  BY DEF ScanInit, RecordInv, RecordsAreOwed
<1>2. CheckerInv /\ RecordInv /\ [BlockScanNext]_scanVars => RecordInv'
  BY RecordStep
<1>3. CheckerInv /\ [BlockScanNext]_scanVars => CheckerInv'
  BY StepKeeps
<1>4. RecordInv => RecordsAreOwed
  BY DEF RecordInv
<1>5. QED  BY <1>1, <1>2, <1>3, <1>4, InitChecker, PTL DEF BlockScanSpec

(***************************************************************************)
(* The side-car misses payments in the clear for one reason only: if every *)
(* payment of the account to such addresses is of a transaction that is    *)
(* shielded and has an outgoing output, all of them are in the records     *)
(* (the loop over tx_locations of scan).                                   *)
(***************************************************************************)
PaysFromTheShield ==
  \A t \in TxId :
    (Body[t].paidBy /\ TaddrsPaid(t) # {}) =>
      Body[t].shielded /\ OutputsOf(t, "Outgoing") # {}

LEMMA ShieldedIsOwed ==
  ASSUME CheckerInv, RecordsAreOwed, PaysFromTheShield, stage = "ok", req.tool = "scan",
         NEW i \in 1 .. Len(got), NEW j \in DOMAIN Content[got[i]],
         Body[Content[got[i]][j]].paidBy,
         NEW a \in TaddrsPaid(Content[got[i]][j])
  PROVE  [tx |-> Content[got[i]][j], to |-> a] \in records
<1> DEFINE t == Content[got[i]][j]
           p == <<i, j>>
<1>1. got[i] \in Hashes  BY DEF CheckerInv
<1>2. t \in TxId  BY <1>1, BlockScanAssumption
<1>3. Body[t].shielded /\ OutputsOf(t, "Outgoing") # {}
  BY <1>2 DEF PaysFromTheShield
<1>4. p \in Places(got)
  <2>1. j \in Vtx(got[i])  BY <1>3 DEF Vtx
  <2>2. QED  BY <2>1 DEF Places
<1>5. TxAt(p) = t  BY DEF TxAt
<1>6. a \in Owed(p)
  BY <1>3, <1>5 DEF Owed
<1>7. [tx |-> TxAt(p), to |-> a] \in records
  BY <1>4, <1>6 DEF RecordsAreOwed
<1>8. QED  BY <1>5, <1>7

THEOREM ShieldedPaymentsRecorded ==
  ASSUME PaysFromTheShield
  PROVE  BlockScanSpec => []EveryPaymentRecorded
<1>1. CheckerInv /\ RecordsAreOwed => EveryPaymentRecorded
  BY ShieldedIsOwed DEF EveryPaymentRecorded
<1>2. CheckerInv /\ [BlockScanNext]_scanVars => CheckerInv'
  BY StepKeeps
<1>3. QED  BY <1>1, <1>2, InitChecker, RecordsAreComplete, PTL DEF BlockScanSpec

-----------------------------------------------------------------------------
(* Types.                                                                  *)
LEMMA TxTyped ==
  ASSUME NEW t \in TxId
  PROVE  /\ \A kind : OutputsOf(t, kind) \subseteq Addr
         /\ RecipientsOf(t) \subseteq Addr
         /\ AddVouts(t) \subseteq OutPoint
<1>1. /\ Body[t].outputs \subseteq Output /\ Body[t].vout \in Seq(Script)
  BY BlockScanAssumption
<1>2. \A kind : OutputsOf(t, kind) \subseteq Addr  BY <1>1 DEF OutputsOf, Output
<1>3. DOMAIN Taddrs(t) \subseteq Nat
      /\ \A n \in DOMAIN Taddrs(t) : Taddrs(t)[n] \in Addr \cup {Absent}
  <2>1. \A s \in Script : ExtractTaddr(s) \in Addr \cup {Absent}
    BY DEF ExtractTaddr, Script
  <2>2. /\ DOMAIN Body[t].vout \subseteq Nat
        /\ \A n \in DOMAIN Body[t].vout : Body[t].vout[n] \in Script
    BY <1>1
  <2>3. QED  BY <2>1, <2>2 DEF Taddrs
<1>4. TaddrsPaid(t) \subseteq Addr  BY <1>3 DEF TaddrsPaid
<1>5. RecipientsOf(t) \subseteq Addr  BY <1>2, <1>4 DEF RecipientsOf
<1>6. AddVouts(t) \subseteq OutPoint  BY <1>3 DEF AddVouts, OutPoint
<1>7. QED  BY <1>2, <1>5, <1>6

LEMMA TxAtTyped ==
  ASSUME got \in Seq(Hashes), NEW p \in Places(got)
  PROVE  TxAt(p) \in TxId /\ p \in Nat \X Nat
<1>1. p[1] \in Nat /\ p[2] \in Nat /\ p = <<p[1], p[2]>> /\ got[p[1]] \in Hashes
      /\ p[2] \in Vtx(got[p[1]])
  BY PlaceTyped
<1>2. Content[got[p[1]]] \in Seq(TxId)  BY <1>1, BlockScanAssumption
<1>3. TxAt(p) \in TxId  BY <1>1, <1>2 DEF TxAt, Vtx
<1>4. QED  BY <1>1, <1>3

LEMMA ReceivedTyped ==
  ASSUME NEW hash \in Hashes
  PROVE  Received(hash) \subseteq Record
<1>1. Content[hash] \in Seq(TxId)  BY BlockScanAssumption
<1>2. \A j \in Vtx(hash) : Content[hash][j] \in TxId  BY <1>1 DEF Vtx
<1>3. \A t \in TxId : ReceivedBy(t) \subseteq Record
  BY BlockScanAssumption DEF ReceivedBy, OwnedOutputs, MapCompactTx, Record, Output
<1>4. QED  BY <1>2, <1>3 DEF Received

LEMMA FetchTyped ==
  ASSUME CheckerInv, RecordInv, ScanTypeOK, NEW p \in rest,
         FetchTx(p) \/ FetchIncoming(p) \/ FetchProbe(p) \/ FetchInspect(p)
  PROVE  ScanTypeOK'
<1>1. stage = "fetch" /\ rest' = rest \ {p}
  BY DEF FetchTx, FetchIncoming, FetchProbe, FetchInspect
<1>2. got \in Seq(Hashes) /\ p \in Places(got)  BY <1>1 DEF CheckerInv, RecordInv
<1>3. TxAt(p) \in TxId  BY <1>2, TxAtTyped
<1>4. PICK t \in TxId : t = TxAt(p)  BY <1>3
<1>5. /\ \A kind : OutputsOf(t, kind) \subseteq Addr
      /\ RecipientsOf(t) \subseteq Addr /\ AddVouts(t) \subseteq OutPoint
  BY TxTyped
<1>6. \A A \in SUBSET Addr : {[tx |-> t, to |-> a] : a \in A} \subseteq Record
  BY DEF Record
<1>7. records' \subseteq Record
  BY <1>4, <1>5, <1>6
  DEF ScanTypeOK, FetchTx, FetchIncoming, FetchProbe, FetchInspect, ReceivedOrChange
<1>8. utxos' \subseteq OutPoint
  BY <1>4, <1>5
  DEF ScanTypeOK, FetchTx, FetchIncoming, FetchProbe, FetchInspect, ConsumeVins
<1>9. stage' \in {"fetch", "error"} /\ UNCHANGED <<chainVars, req, checkVars>>
  BY <1>1 DEF FetchTx, FetchIncoming, FetchProbe, FetchInspect
<1>10. QED
  BY <1>1, <1>7, <1>8, <1>9 DEF ScanTypeOK, chainVars, checkVars

LEMMA AddTyped ==
  ASSUME ScanTypeOK, stage \in {"stream", "link"}, NEW cb, cb.hash \in Hashes, AddBlock(cb)
  PROVE  /\ prev' \in Hashes \cup {Absent} /\ got' \in Seq(Hashes) /\ expected' \in Int
         /\ stage' \in {"stream", "link", "error"}
<1>1. got \in Seq(Hashes) /\ prev \in Hashes \cup {Absent} /\ expected \in Int
  BY DEF ScanTypeOK
<1>2. CASE Fits(cb)  BY <1>1, <1>2 DEF AddBlock
<1>3. CASE ~Fits(cb)  BY <1>1, <1>3 DEF AddBlock
<1>4. QED  BY <1>2, <1>3

LEMMA TypeStep ==
  ASSUME CheckerInv, RecordInv, ScanTypeOK, [BlockScanNext]_scanVars
  PROVE  ScanTypeOK'
<1> USE DEF ScanTypeOK, chainVars, checkVars, recordVars
<1>1. ASSUME NEW r \in ScanRequest,
             StartScan(r) \/ StartIncoming(r) \/ StartOwned(r) \/ StartProbe(r)
      PROVE  ScanTypeOK'
  <2>1. r.start \in Nat  BY RequestTyped
  <2>2. /\ req' = r /\ stage' \in {"error", "connect"} /\ UNCHANGED chainVars
        /\ NewChecker(r) /\ NewTracker
    BY <1>1 DEF StartScan, StartIncoming, StartOwned, StartProbe
  <2>3. QED  BY <2>1, <2>2 DEF NewChecker, NewTracker
<1>2. CASE OpenStream \/ OpenIncoming \/ OpenOwned \/ OpenProbe
  BY <1>2 DEF OpenStream, OpenIncoming, OpenOwned, OpenProbe
<1>3. ASSUME NEW h \in 0 .. Tip, NEW header, Receive(h, header)
      PROVE  ScanTypeOK'
  <2>1. PICK cb : cb = Compact(Hash(h, branch), branch, header)  OBVIOUS
  <2>2. cb.hash \in Hashes  BY <2>1, HashInHashes DEF Compact
  <2>3. stage = "stream" /\ AddBlock(cb) /\ UNCHANGED <<branch, req, fetched, rest, utxos, records>>
        /\ breaks' \in 0 .. MaxBreaks /\ sending' \in Int
    BY <1>3, <2>1, BlockScanAssumption DEF Receive, Arrives, Break, Following
  <2>4. QED  BY <2>2, <2>3, AddTyped
<1>4. ASSUME NEW h \in 0 .. Tip, Keep(h)
      PROVE  ScanTypeOK'
  <2>1. Hash(h, branch) \in Hashes  BY HashInHashes
  <2>2. QED  BY <1>4, <2>1, BlockScanAssumption DEF Keep, Arrives, Break, Following
<1>5. CASE EndStream
  <2>1. Places(got) \subseteq Nat \X Nat  BY TxAtTyped
  <2>2. QED  BY <1>5, <2>1, BlockScanAssumption DEF EndStream, StreamEnds, Break
<1>6. CASE EndProbe
  <2>1. Places(fetched) \subseteq Nat \X Nat
    <3>1. SUFFICES ASSUME NEW p \in Places(fetched) PROVE p \in Nat \X Nat  OBVIOUS
    <3>2. PICK i \in 1 .. Len(fetched) : p \in {i} \X Vtx(fetched[i])  BY DEF Places
    <3>3. Content[fetched[i]] \in Seq(TxId)  BY BlockScanAssumption
    <3>4. QED  BY <3>2, <3>3 DEF Vtx
  <2>2. QED  BY <1>6, <2>1, BlockScanAssumption DEF EndProbe, StreamEnds, Break
<1>7. CASE EndKeep
  BY <1>7, BlockScanAssumption DEF EndKeep, StreamEnds, Break
<1>8. CASE LinkBlock
  <2>1. PICK hash : hash = fetched[Len(got) + 1]  OBVIOUS
  <2>2. PICK cb : cb = MapCompactBlock(hash)  OBVIOUS
  <2>3. hash \in Hashes /\ cb.hash = hash
    BY <1>8, <2>1, <2>2 DEF LinkBlock, MapCompactBlock, Compact
  <2>4. stage = "link" /\ AddBlock(cb)
        /\ UNCHANGED <<branch, breaks, req, sending, fetched, rest, utxos>>
        /\ records' \subseteq records \cup Received(hash)
    BY <1>8, <2>1, <2>2 DEF LinkBlock
  <2>5. QED  BY <2>3, <2>4, AddTyped, ReceivedTyped
<1>9. CASE FinishOwned \/ Finish \/ FinishIncoming \/ FinishProbe \/ ScanError
  BY <1>9 DEF FinishOwned, Finish, FinishIncoming, FinishProbe, ScanError
<1>10. ASSUME NEW p \in rest,
              FetchTx(p) \/ FetchIncoming(p) \/ FetchProbe(p) \/ FetchInspect(p)
       PROVE  ScanTypeOK'
  BY <1>10, FetchTyped
<1>11. CASE Leave
  <2>1. AnyRequest \in ScanRequest
    BY BlockScanAssumption DEF AnyRequest, ScanRequest, Height, Tool, Checked
  <2>2. QED  BY <1>11, <2>1 DEF Leave, NewChecker, NewTracker, AnyRequest
<1>12. CASE Reorg
  BY <1>12, BlockScanAssumption DEF Reorg, Break, Branch
<1>13. CASE UNCHANGED scanVars
  BY <1>13 DEF scanVars
<1> QED
  BY <1>1, <1>2, <1>3, <1>4, <1>5, <1>6, <1>7, <1>8, <1>9, <1>10, <1>11, <1>12, <1>13
  DEF BlockScanNext, ScanStep, Start

(***************************************************************************)
(* Every variable of the readers has its type; in particular, what is      *)
(* recorded is an address and never the lack of one (extract_taddr).       *)
(***************************************************************************)
THEOREM ScanTypeCorrect == BlockScanSpec => []ScanTypeOK
<1>1. ScanInit => ScanTypeOK /\ RecordInv
  <2>1. AnyRequest \in ScanRequest
    BY BlockScanAssumption DEF AnyRequest, ScanRequest, Height, Tool, Checked
  <2>2. QED
    BY <2>1, BlockScanAssumption DEF ScanInit, ScanTypeOK, Branch, RecordInv, RecordsAreOwed
<1>2. CheckerInv /\ RecordInv /\ [BlockScanNext]_scanVars => RecordInv'
  BY RecordStep
<1>3. CheckerInv /\ [BlockScanNext]_scanVars => CheckerInv'
  BY StepKeeps
<1>4. CheckerInv /\ RecordInv /\ ScanTypeOK /\ [BlockScanNext]_scanVars => ScanTypeOK'
  BY TypeStep
<1>5. QED  BY <1>1, <1>2, <1>3, <1>4, InitChecker, PTL DEF BlockScanSpec

-----------------------------------------------------------------------------
(* Only the side-car asks for proof of work, and every block it accepted   *)
(* was compared with its target.                                           *)
WorkInv ==
  /\ got \in Seq(Hashes) /\ fetched \in Seq(Hashes)
  /\ req.pow => req.tool \in {"scan"}
  /\ req.pow => \A i \in 1 .. Len(got) : VerifyHeader(got[i])

LEMMA AddProven ==
  ASSUME WorkInv, NEW cb, cb.hash \in Hashes, AddBlock(cb), UNCHANGED <<req, fetched>>
  PROVE  WorkInv'
<1>1. CASE ~Fits(cb)
  <2>1. got' = got  BY <1>1 DEF AddBlock
  <2> QED  BY <2>1 DEF WorkInv, VerifyHeader
<1>2. CASE Fits(cb)
  <2>1. got' = Append(got, cb.hash) /\ got \in Seq(Hashes)
    BY <1>2 DEF AddBlock, WorkInv
  <2>2. /\ got' \in Seq(Hashes) /\ Len(got') = Len(got) + 1
        /\ got'[Len(got) + 1] = cb.hash /\ \A i \in 1 .. Len(got) : got'[i] = got[i]
    BY <2>1
  <2>3. req.pow => VerifyHeader(cb.hash)
    BY <1>2 DEF Fits, Proven
  <2>4. ASSUME req.pow, NEW i \in 1 .. Len(got') PROVE VerifyHeader(got'[i])
    <3>1. CASE i = Len(got) + 1  BY <2>2, <2>3, <2>4, <3>1
    <3>2. CASE i # Len(got) + 1
      <4>1. i \in 1 .. Len(got)  BY <2>1, <2>2, <3>2
      <4> QED  BY <2>2, <2>4, <4>1 DEF WorkInv
    <3> QED  BY <3>1, <3>2
  <2> QED  BY <2>2, <2>4 DEF WorkInv, VerifyHeader
<1> QED  BY <1>1, <1>2

LEMMA WorkStep ==
  ASSUME WorkInv, branch \in Branch, [BlockScanNext]_scanVars
  PROVE  WorkInv'
<1>1. ASSUME NEW r \in ScanRequest,
             StartScan(r) \/ StartIncoming(r) \/ StartOwned(r) \/ StartProbe(r)
      PROVE  WorkInv'
  <2>1. req' = r /\ NewChecker(r) /\ (r.pow => r.tool \in {"scan"})
    BY <1>1 DEF StartScan, StartIncoming, StartOwned, StartProbe
  <2>2. got' = <<>> /\ fetched' = <<>>  BY <2>1 DEF NewChecker
  <2> QED  BY <2>1, <2>2 DEF WorkInv
<1>2. CASE \/ OpenStream \/ OpenIncoming \/ OpenOwned \/ OpenProbe \/ EndStream \/ EndKeep
           \/ Finish \/ FinishIncoming \/ FinishOwned \/ FinishProbe \/ ScanError \/ Reorg
           \/ UNCHANGED scanVars
  <2>1. UNCHANGED <<req, got, fetched>>
    BY <1>2
    DEF OpenStream, OpenIncoming, OpenOwned, OpenProbe, EndStream, EndKeep, Finish,
        FinishIncoming, FinishOwned, FinishProbe, ScanError, Reorg, scanVars, checkVars
  <2> QED  BY <2>1 DEF WorkInv, VerifyHeader
<1>3. ASSUME NEW h \in 0 .. Tip, NEW header, Receive(h, header)
      PROVE  WorkInv'
  <2>1. PICK cb : cb = Compact(Hash(h, branch), branch, header)  OBVIOUS
  <2>2. cb.hash \in Hashes  BY <2>1, HashInHashes DEF Compact
  <2>3. AddBlock(cb) /\ UNCHANGED <<req, fetched>>  BY <1>3, <2>1 DEF Receive
  <2> QED  BY <2>2, <2>3, AddProven
<1>4. ASSUME NEW h \in 0 .. Tip, Keep(h)
      PROVE  WorkInv'
  <2>1. Hash(h, branch) \in Hashes  BY HashInHashes
  <2>2. fetched' \in Seq(Hashes) /\ UNCHANGED <<req, got>>
    BY <1>4, <2>1 DEF Keep, WorkInv
  <2> QED  BY <2>2 DEF WorkInv, VerifyHeader
<1>5. CASE EndProbe
  <2>1. req.tool \in Probing /\ UNCHANGED <<req, fetched>> /\ got' = fetched
    BY <1>5 DEF EndProbe
  <2>2. ~req.pow  BY <2>1 DEF WorkInv, Probing
  <2> QED  BY <2>1, <2>2 DEF WorkInv
<1>6. CASE LinkBlock
  <2>1. PICK hash : hash = fetched[Len(got) + 1]  OBVIOUS
  <2>2. PICK cb : cb = MapCompactBlock(hash)  OBVIOUS
  <2>3. hash \in Hashes /\ cb.hash = hash
    BY <1>6, <2>1, <2>2 DEF LinkBlock, MapCompactBlock, Compact, WorkInv
  <2>4. AddBlock(cb) /\ UNCHANGED <<req, fetched>>
    BY <1>6, <2>1, <2>2 DEF LinkBlock
  <2> QED  BY <2>3, <2>4, AddProven
<1>7. ASSUME NEW p \in rest,
             FetchTx(p) \/ FetchIncoming(p) \/ FetchProbe(p) \/ FetchInspect(p)
      PROVE  WorkInv'
  <2>1. UNCHANGED <<req, got, fetched>>
    BY <1>7 DEF FetchTx, FetchIncoming, FetchProbe, FetchInspect, checkVars
  <2> QED  BY <2>1 DEF WorkInv, VerifyHeader
<1>8. CASE Leave
  <2>1. req' = AnyRequest /\ got' = <<>> /\ fetched' = <<>>
    BY <1>8 DEF Leave, NewChecker
  <2> QED  BY <2>1 DEF WorkInv, AnyRequest
<1> QED
  BY <1>1, <1>2, <1>3, <1>4, <1>5, <1>6, <1>7, <1>8 DEF BlockScanNext, ScanStep, Start

(* What the comparison of bytes says of the numbers.                       *)
LEMMA WorkIsNumber == WorkInv => AcceptedHaveWork
<1> SUFFICES ASSUME WorkInv, req.pow, NEW i \in 1 .. Len(got)
             PROVE  NumberOf(Work[got[i]].digest) < CompactNumber(Work[got[i]].bits)
  BY DEF AcceptedHaveWork
<1>1. got[i] \in Hashes /\ VerifyHeader(got[i])  BY DEF WorkInv
<1>2. Work[got[i]] \in [bits : Bits, digest : Digits]  BY <1>1, BlockScanAssumption
<1>3. PICK bits \in Bits, digest \in Digits :
        Work[got[i]].bits = bits /\ Work[got[i]].digest = digest
  BY <1>2
<1>4. Less(digest, Target(bits))  BY <1>1, <1>3 DEF VerifyHeader
<1>5. NumberOf(digest) < NumberOf(Target(bits))
  BY <1>4, TargetTyped, LessComparesNumbers
<1>6. NumberOf(Target(bits)) = CompactNumber(bits)  BY TargetStandsForBits
<1> QED  BY <1>3, <1>5, <1>6

(***************************************************************************)
(* With proof of work asked for, the hash of every accepted block is a     *)
(* number below the one its header's compact target stands for, for every  *)
(* chain, every width of the arrays and every stream (add_block,           *)
(* verify_header, target_from_bits, le_bytes_lt).                          *)
(***************************************************************************)
THEOREM AcceptedBlocksHaveWork == BlockScanSpec => []AcceptedHaveWork
<1>1. ScanInit => WorkInv
  BY DEF ScanInit, WorkInv, AnyRequest
<1>2. CheckerInv /\ WorkInv /\ [BlockScanNext]_scanVars => WorkInv'
  BY WorkStep DEF CheckerInv
<1>3. CheckerInv /\ [BlockScanNext]_scanVars => CheckerInv'
  BY StepKeeps
<1>4. QED  BY <1>1, <1>2, <1>3, InitChecker, WorkIsNumber, PTL DEF BlockScanSpec
=============================================================================
