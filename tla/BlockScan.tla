----------------------------- MODULE BlockScan ------------------------------
(***************************************************************************)
(* The Zcash side-car of clean wallet (week 6, apps/zcash-scanner-rs): one *)
(* request asks for the payments an account made in a range of blocks.  It *)
(* reads the compact blocks from lightwalletd, checks that they are one    *)
(* unbroken chain (CompletenessChecker), fetches every transaction they    *)
(* name and records whom the account paid; transparent coins of the        *)
(* account are followed from the output that creates them to the input     *)
(* that spends them (OurTransparentTracker).                               *)
(*                                                                         *)
(* Four other tools read a range of blocks for a viewing key: scan-        *)
(* incoming, beside the side-car, with the same checker; the scanner of    *)
(* week 5 (mvp2), which is given all the blocks at once and links them     *)
(* itself; and ivk-incoming-probe (week 5, mvp) and probe-ufvk (week 7),   *)
(* which take the blocks as they come.                                     *)
(*                                                                         *)
(* Blocks are identified by their hash.  Two chains share their blocks     *)
(* below ForkAt; lightwalletd may move from one to the other at any time,  *)
(* and its stream may skip, repeat or end.  Keys and ciphertexts are       *)
(* abstracted to what decryption tells: the kind and the address of the    *)
(* shielded outputs it opens, beside the inputs and the scripts that are   *)
(* in the clear.                                                           *)
(***************************************************************************)
EXTENDS Integers, Sequences, CompactTarget

CONSTANTS
  TxId,        \* transaction ids
  Addr,      \* addresses
  Own,       \* the account's transparent addresses, as derived from its key
  Absent,    \* no hash, no address, no header
  Body,      \* TxId -> what decryption and parsing tell of a transaction
  Content,   \* hash of a block -> its transactions, in order
  Work,      \* hash of a block -> the bits its header states and its digest
  Tip,       \* height of the chain
  ForkAt,    \* first height at which the two chains differ
  MaxBreaks  \* bound: breaks

Branch == {1, 2}
Hash(h, b) == <<h, IF h < ForkAt THEN 1 ELSE b>>
Hashes == {Hash(h, b) : h \in 0 .. Tip, b \in Branch}
Height == 0 .. (Tip + 1)
OutPoint == TxId \X Nat
(* A shielded output that a key opens: sent, received, or change.          *)
Output == [kind : {"Outgoing", "Incoming", "WalletInternal"}, to : Addr]
Script == [form : {"P2PKH", "P2SH", "other"}, to : Addr]
Record == [tx : TxId, to : Addr]
(* What GetTransaction gives: bytes the parser reads, bytes of a later     *)
(* network upgrade, bytes it cannot read, or none.                         *)
Bytes == {"plain", "newer", "odd", "none"}

ASSUME BlockScanAssumption ==
  /\ Tip \in Nat /\ ForkAt \in Nat /\ MaxBreaks \in Nat
  /\ Own \subseteq Addr /\ Absent \notin Addr /\ Absent \notin Hashes
  /\ Body \in [TxId -> [bytes : Bytes, shielded : BOOLEAN, outputs : SUBSET Output,
                        vin : SUBSET OutPoint, vout : Seq(Script), paidBy : BOOLEAN]]
  /\ Content \in [Hashes -> Seq(TxId)]
  /\ Work \in [Hashes -> [bits : Bits, digest : Digits]]

(* What a tool is asked: the side-car by its request on stdin ("scan"),    *)
(* scan-incoming by its command line ("incoming"), the scanner of mvp2 by  *)
(* the service around it ("owned"), the two probes by command line and     *)
(* environment ("probe", "inspect").                                       *)
Checked == {"scan", "incoming", "owned"}
Probing == {"probe", "inspect"}
Tool == Checked \cup Probing
ScanRequest == [tool : Tool, start : Height, end : Height,
                anchor : Hashes \cup {Absent}, pow : BOOLEAN,
                key : {"full", "incoming", "other"}]

(* A compact block names the transactions with a shielded part, by their   *)
(* place (service.proto: the legacy behaviour when no pool type is asked   *)
(* for).                                                                   *)
Vtx(hash) == {j \in DOMAIN Content[hash] : Body[Content[hash][j]].shielded}

(* The rules of the chain: on one branch no coin is spent twice, and none  *)
(* before the transaction that makes it.                                   *)
ASSUME ChainAssumption ==
  \A b \in Branch, h, k \in 0 .. Tip :
    \A i \in Vtx(Hash(h, b)), j \in Vtx(Hash(k, b)) :
      LET t == Content[Hash(h, b)][i]
          u == Content[Hash(k, b)][j]
      IN /\ Body[t].vin \cap Body[u].vin # {} => h = k /\ i = j
         /\ (\E c \in Body[u].vin : c[1] = t) => h < k \/ (h = k /\ i < j)

(* A block as the stream carries it: header is Absent when the server      *)
(* leaves it out, else the hash of the header it sends.                    *)
Compact(hash, b, header) ==
  [height |-> hash[1], hash |-> hash, header |-> header,
   prev |-> IF hash[1] = 0 THEN Absent ELSE Hash(hash[1] - 1, b)]
(* The branch a block is of; below the fork either will do.                *)
BranchOf(hash) == hash[2]

VARIABLES
  branch,    \* the chain lightwalletd follows
  breaks,    \* blocks lost or repeated, streams cut short, changes of chain
  stage,     \* "idle", "connect", "stream", "link", "fetch", "ok" or "error"
  req,       \* the request being served
  sending,   \* next height the server sends
  expected,  \* expected_height
  prev,      \* prev_hash_opt
  got,       \* the blocks accepted, in order (blocks_seen, tx_locations)
  fetched,   \* the blocks the stream carried, for a tool that checks none
  rest,      \* places <<block, index>> of the transactions still to fetch
  utxos,     \* our_utxos
  records    \* outgoing_records

chainVars == <<branch, breaks>>
checkVars == <<sending, expected, prev, got, fetched>>
recordVars == <<rest, utxos, records>>
scanVars == <<chainVars, stage, req, checkVars, recordVars>>

AnyRequest ==
  [tool |-> "scan", start |-> 0, end |-> 0, anchor |-> Absent, pow |-> FALSE,
   key |-> "full"]

ScanInit ==
  /\ branch = 1 /\ breaks = 0
  /\ stage = "idle" /\ req = AnyRequest
  /\ sending = 0 /\ expected = 0 /\ prev = Absent /\ got = <<>> /\ fetched = <<>>
  /\ rest = {} /\ utxos = {} /\ records = {}

ScanTypeOK ==
  /\ branch \in Branch /\ breaks \in 0 .. MaxBreaks
  /\ stage \in {"idle", "connect", "stream", "link", "fetch", "ok", "error"}
  /\ req \in ScanRequest
  /\ sending \in Int /\ expected \in Int
  /\ prev \in Hashes \cup {Absent}
  /\ got \in Seq(Hashes) /\ fetched \in Seq(Hashes)
  /\ rest \subseteq (Nat \X Nat) /\ utxos \subseteq OutPoint
  /\ records \subseteq Record

Break == breaks < MaxBreaks /\ breaks' = breaks + 1

(* lightwalletd follows the other chain.                                   *)
Reorg ==
  /\ Break
  /\ branch' = 3 - branch
  /\ UNCHANGED <<stage, req, checkVars, recordVars>>

(* Any error leaves run through `?`: main prints ok = false and exits 1.   *)
ScanError ==
  /\ stage \in {"connect", "stream", "link", "fetch"}
  /\ stage' = "error"
  /\ UNCHANGED <<chainVars, req, checkVars, recordVars>>

(* CompletenessChecker::new, with_start_anchor, with_pow_verifier.         *)
NewChecker(r) ==
  /\ sending' = r.start /\ expected' = r.start /\ prev' = Absent /\ got' = <<>>
  /\ fetched' = <<>>
(* OurTransparentTracker::new: no coin is known, and nothing recorded.     *)
NewTracker == rest' = {} /\ utxos' = {} /\ records' = {}

(* A process answers one request; the next one starts from nothing.        *)
Leave ==
  /\ stage \in {"ok", "error"}
  /\ stage' = "idle" /\ req' = AnyRequest
  /\ NewChecker(AnyRequest) /\ NewTracker
  /\ UNCHANGED chainVars

(* The request is read: a range that ends before it starts is refused, so  *)
(* is a key of another kind, and the account's addresses are derived.      *)
StartScan(r) ==
  /\ r.tool = "scan" /\ r.key # "incoming"
  /\ req' = r
  /\ stage' = IF r.end < r.start \/ r.key # "full" THEN "error" ELSE "connect"
  /\ NewChecker(r) /\ NewTracker
  /\ UNCHANGED chainVars

(* parse_args: scan-incoming knows neither anchor nor proof of work, and   *)
(* does not look at the order of its two heights.                          *)
StartIncoming(r) ==
  /\ r.tool = "incoming" /\ r.anchor = Absent /\ ~r.pow /\ r.key # "incoming"
  /\ req' = r /\ stage' = "connect"
  /\ NewChecker(r) /\ NewTracker
  /\ UNCHANGED chainVars

(* The service of mvp2 refuses an inverted range; its scanner never sees   *)
(* a header.                                                               *)
StartOwned(r) ==
  /\ r.tool = "owned" /\ r.anchor = Absent /\ ~r.pow
  /\ req' = r
  /\ stage' = IF r.end < r.start THEN "error" ELSE "connect"
  /\ NewChecker(r) /\ NewTracker
  /\ UNCHANGED chainVars

(* The probes infer the network from the prefix of a full viewing key.     *)
StartProbe(r) ==
  /\ r.tool \in Probing /\ r.anchor = Absent /\ ~r.pow
  /\ req' = r
  /\ stage' = IF r.key = "incoming" THEN "error" ELSE "connect"
  /\ NewChecker(r) /\ NewTracker
  /\ UNCHANGED chainVars

(* A tool is started when the last one has ended.                          *)
Start ==
  /\ stage = "idle"
  /\ \E r \in ScanRequest :
       StartScan(r) \/ StartIncoming(r) \/ StartOwned(r) \/ StartProbe(r)

(* GetLatestBlock, and GetBlockRange without pool types.                   *)
OpenStream ==
  /\ stage = "connect" /\ req.tool = "scan"
  /\ stage' = IF req.end > Tip THEN "error" ELSE "stream"
  /\ UNCHANGED <<chainVars, req, checkVars, recordVars>>

(* The same, with the key decoded in between.                              *)
OpenIncoming ==
  /\ stage = "connect" /\ req.tool = "incoming"
  /\ stage' = IF req.end > Tip \/ req.key # "full" THEN "error" ELSE "stream"
  /\ UNCHANGED <<chainVars, req, checkVars, recordVars>>

(* mvp2 asks for the range without asking for the tip.                     *)
OpenOwned ==
  /\ stage = "connect" /\ req.tool = "owned"
  /\ stage' = "stream"
  /\ UNCHANGED <<chainVars, req, checkVars, recordVars>>

(* fetch_block_range of the client: an inverted range is refused.  (When   *)
(* the primary fails, the backup's stream starts anew, with no blocks.)    *)
OpenProbe ==
  /\ stage = "connect" /\ req.tool \in Probing
  /\ stage' = IF req.start > req.end THEN "error" ELSE "stream"
  /\ UNCHANGED <<chainVars, req, checkVars, recordVars>>

\* Faulty: only the first block is linked, to the anchor.
ContinuesAnchor(cb) ==
  (prev = Absent /\ req.anchor # Absent) => cb.prev = req.anchor

(* add_block: the height is the next one, the block continues the previous *)
(* one (or the anchor, for the first), and its header proves its hash.     *)
Continues(cb) ==
  IF prev # Absent THEN cb.prev = prev
                 ELSE req.anchor # Absent => cb.prev = req.anchor
(* verify_header: the digest is below the target the header states.  (One  *)
(* that does not parse, or whose solution is not one, is a ScanError.)     *)
VerifyHeader(header) == Less(Work[header].digest, Target(Work[header].bits))
(* add_block wants it to be the hash the block goes by.                    *)
Proven(cb) ==
  req.pow => cb.header # Absent /\ VerifyHeader(cb.header) /\ cb.header = cb.hash
Fits(cb) == cb.height = expected /\ Continues(cb) /\ Proven(cb)

AddBlock(cb) ==
  /\ IF Fits(cb)
       THEN /\ prev' = cb.hash
            /\ got' = Append(got, cb.hash)
            /\ expected' = expected + 1
            /\ UNCHANGED stage
       ELSE stage' = "error" /\ UNCHANGED <<prev, got, expected>>

(* The server sends the blocks of the range upwards, or downwards when the *)
(* range is inverted (service.proto).                                      *)
Upwards == req.start <= req.end
Following(h) == IF Upwards THEN h + 1 ELSE h - 1
ToSend(h) == IF Upwards THEN h <= req.end ELSE h >= req.end

(* The stream carries the block of height h of the chain of the moment:    *)
(* the next one, or, as a fault, one it has just sent or the one after,    *)
(* with its header, without one or, as the chain moves, with another's.    *)
Arrives(h) ==
  /\ stage = "stream" /\ ToSend(h)
  /\ \/ h = sending /\ UNCHANGED breaks
     \/ h \in {sending - 1, sending + 1} /\ Break
  /\ sending' = Following(h)
Receive(h, header) ==
  /\ req.tool \in {"scan", "incoming"} /\ Arrives(h)
  /\ AddBlock(Compact(Hash(h, branch), branch, header))
  /\ UNCHANGED <<branch, req, fetched, recordVars>>

(* fetch_compact_blocks of mvp2, and fetch_block_range of the probes, keep *)
(* what the stream carries.                                                *)
Keep(h) ==
  /\ req.tool \notin {"scan", "incoming"} /\ Arrives(h)
  /\ fetched' = Append(fetched, Hash(h, branch))
  /\ UNCHANGED <<branch, stage, req, expected, prev, got, recordVars>>

(* tx_locations.                                                           *)
Places(blocks) == UNION {{i} \X Vtx(blocks[i]) : i \in 1 .. Len(blocks)}
TxAt(p) == Content[got[p[1]]][p[2]]
Before(p, q) == p[1] < q[1] \/ (p[1] = q[1] /\ p[2] < q[2])

(* The stream ends, early as a fault; finalize counts the blocks.          *)
StreamEnds ==
  /\ stage = "stream"
  /\ \/ ~ToSend(sending) /\ UNCHANGED breaks
     \/ ToSend(sending) /\ Break
EndStream ==
  /\ req.tool \in {"scan", "incoming"} /\ StreamEnds
  /\ IF Len(got) = req.end - req.start + 1
       THEN stage' = "fetch" /\ rest' = Places(got)
       ELSE stage' = "error" /\ UNCHANGED rest
  /\ UNCHANGED <<branch, req, checkVars, utxos, records>>

(* The addresses of the outputs of t of one kind (transfer_type).          *)
OutputsOf(t, kind) == {o.to : o \in {x \in Body[t].outputs : x.kind = kind}}

(* extract_taddr: the two standard forms of script.                        *)
ExtractTaddr(script) == IF script.form = "other" THEN Absent ELSE script.to
Taddrs(t) == [n \in DOMAIN Body[t].vout |-> ExtractTaddr(Body[t].vout[n])]
IsOurs(addr) == addr \in Own

\* Faulty: is_ours is negated.
AddVoutsForeign(t) == {<<t, n>> : n \in {m \in DOMAIN Taddrs(t) : ~IsOurs(Taddrs(t)[m])}}

(* OurTransparentTracker: inputs first, then the outputs to the account.   *)
ConsumeVins(t) == utxos \ Body[t].vin
AnyOurs(t) == utxos \cap Body[t].vin # {}
AddVouts(t) == {<<t, n>> : n \in {m \in DOMAIN Taddrs(t) : IsOurs(Taddrs(t)[m])}}

\* Faulty: an output with a script of no standard form yields a recipient.
TaddrsPaidAnyScript(t) == {Taddrs(t)[n] : n \in DOMAIN Taddrs(t)} \ Own

(* The recipients of t: the shielded ones; and, when there is one or t     *)
(* spends a coin of the account, the standard addresses that are not ours. *)
TaddrsPaid(t) == {Taddrs(t)[n] : n \in DOMAIN Taddrs(t)} \ (Own \cup {Absent})
RecipientsOf(t) ==
  LET sent == OutputsOf(t, "Outgoing")
  IN sent \cup (IF sent # {} \/ AnyOurs(t) THEN TaddrsPaid(t) ELSE {})

(* The transactions are fetched in the order of the chain.                 *)
IsNext(p) == p \in rest /\ \A q \in rest \ {p} : Before(p, q)

(* GetTransaction, decryption and the records of the next transaction; one *)
(* that does not parse ends the run.                                       *)
FetchTx(p) ==
  /\ stage = "fetch" /\ req.tool = "scan" /\ IsNext(p)
  /\ Body[TxAt(p)].bytes = "plain"
  /\ LET t == TxAt(p) IN
       /\ records' = records \cup {[tx |-> t, to |-> a] : a \in RecipientsOf(t)}
       /\ utxos' = ConsumeVins(t) \cup AddVouts(t)
  /\ rest' = rest \ {p}
  /\ UNCHANGED <<chainVars, stage, req, checkVars>>

(* scan-incoming prints what the account received, and goes on after a     *)
(* transaction it cannot parse.                                            *)
FetchIncoming(p) ==
  /\ stage = "fetch" /\ req.tool = "incoming" /\ IsNext(p)
  /\ LET t == TxAt(p) IN
       records' = IF Body[t].bytes = "plain"
                    THEN records \cup {[tx |-> t, to |-> a] : a \in OutputsOf(t, "Incoming")}
                    ELSE records
  /\ rest' = rest \ {p}
  /\ UNCHANGED <<chainVars, stage, req, checkVars, utxos>>

(* fetch_compact_blocks returns: a block for each height of the range, in  *)
(* order, or an error.                                                     *)
EndKeep ==
  /\ req.tool = "owned" /\ StreamEnds
  /\ stage' = IF /\ Len(fetched) = req.end - req.start + 1
                 /\ \A i \in 1 .. Len(fetched) : fetched[i][1] = req.start + i - 1
              THEN "link" ELSE "error"
  /\ UNCHANGED <<branch, req, checkVars, recordVars>>

(* map_compact_block, map_compact_tx: what is handed to scan_block has no  *)
(* header, and of a transaction neither inputs nor outputs in the clear.   *)
MapCompactBlock(hash) == Compact(hash, BranchOf(hash), Absent)
MapCompactTx(t) == [tx |-> t, outputs |-> Body[t].outputs]

(* decode_scanning_keys: a full or an incoming viewing key will do.        *)
DecodeScanningKeys == req.key \in {"full", "incoming"}

(* The keys of either are the incoming ones of the external scope, which   *)
(* open neither what is sent nor change.                                   *)
OwnedOutputs(ctx) == {o \in ctx.outputs : o.kind = "Incoming"}
ReceivedBy(t) == {[tx |-> t, to |-> o.to] : o \in OwnedOutputs(MapCompactTx(t))}
Received(hash) == UNION {ReceivedBy(Content[hash][j]) : j \in Vtx(hash)}

(* scan_owned_commitments: scan_block wants the next block to continue the *)
(* one before it, and yields what the account received there.              *)
LinkBlock ==
  /\ stage = "link" /\ Len(got) < Len(fetched) /\ DecodeScanningKeys
  /\ LET hash == fetched[Len(got) + 1] IN
       /\ AddBlock(MapCompactBlock(hash))
       /\ records' = IF Fits(MapCompactBlock(hash)) THEN records \cup Received(hash)
                                                    ELSE records
  /\ UNCHANGED <<chainVars, req, sending, fetched, rest, utxos>>
(* The commitments are printed, sorted and each once.                      *)
FinishOwned ==
  /\ stage = "link" /\ Len(got) = Len(fetched) /\ DecodeScanningKeys
  /\ stage' = "ok"
  /\ UNCHANGED <<chainVars, req, checkVars, recordVars>>

(* fetch_block_range returns whatever came.  ivk-incoming-probe decodes    *)
(* its key only now; probe-ufvk wants a transaction to look at.            *)
EndProbe ==
  /\ req.tool \in Probing /\ StreamEnds
  /\ got' = fetched /\ rest' = Places(fetched)
  /\ stage' = IF \/ req.tool = "probe" /\ req.key # "full"
                 \/ req.tool = "inspect" /\ rest' = {}
              THEN "error" ELSE "fetch"
  /\ UNCHANGED <<branch, req, sending, expected, prev, fetched, utxos, records>>

(* read_tx_lenient: bytes of a later upgrade are read with its branch id   *)
(* patched.                                                                *)
ReadLenient(t) == Body[t].bytes \in {"plain", "newer"}

(* ivk-incoming-probe passes over what it cannot read.                     *)
FetchProbe(p) ==
  /\ stage = "fetch" /\ req.tool = "probe" /\ IsNext(p)
  /\ LET t == TxAt(p) IN
       records' = IF ReadLenient(t)
                    THEN records \cup {[tx |-> t, to |-> a] : a \in OutputsOf(t, "Incoming")}
                    ELSE records
  /\ rest' = rest \ {p}
  /\ UNCHANGED <<chainVars, stage, req, checkVars, utxos>>

(* detect_incoming, of probe-ufvk, opens change too, and what it cannot    *)
(* decode or read ends the run.                                            *)
ReceivedOrChange(t) == OutputsOf(t, "Incoming") \cup OutputsOf(t, "WalletInternal")
FetchInspect(p) ==
  /\ stage = "fetch" /\ req.tool = "inspect" /\ IsNext(p)
  /\ LET t == TxAt(p) IN
       \/ /\ Body[t].bytes = "none"
          /\ UNCHANGED <<stage, records>>
       \/ /\ ReadLenient(t) /\ req.key = "full"
          /\ records' = records \cup {[tx |-> t, to |-> a] : a \in ReceivedOrChange(t)}
          /\ UNCHANGED stage
       \/ /\ Body[t].bytes = "odd" \/ (Body[t].bytes # "none" /\ req.key # "full")
          /\ stage' = "error"
          /\ UNCHANGED records
  /\ rest' = rest \ {p}
  /\ UNCHANGED <<chainVars, req, checkVars, utxos>>

(* ivk-incoming-probe fails when it has found nothing.                     *)
FinishProbe ==
  /\ stage = "fetch" /\ rest = {} /\ req.tool \in Probing
  /\ stage' = IF req.tool = "probe" /\ records = {} THEN "error" ELSE "ok"
  /\ UNCHANGED <<chainVars, req, checkVars, recordVars>>

(* The response is printed, or the number of notes.                        *)
Finish ==
  /\ stage = "fetch" /\ rest = {} /\ req.tool = "scan"
  /\ stage' = "ok"
  /\ UNCHANGED <<chainVars, req, checkVars, recordVars>>
FinishIncoming ==
  /\ stage = "fetch" /\ rest = {} /\ req.tool = "incoming"
  /\ stage' = "ok"
  /\ UNCHANGED <<chainVars, req, checkVars, recordVars>>

ScanStep ==
  \/ OpenStream \/ OpenIncoming \/ OpenOwned \/ OpenProbe
  \/ \E h \in 0 .. Tip : \E header \in {Absent} \cup {Hash(h, b) : b \in Branch} :
       Receive(h, header)
  \/ \E h \in 0 .. Tip : Keep(h)
  \/ EndStream \/ EndKeep \/ EndProbe \/ LinkBlock
  \/ \E p \in rest : FetchTx(p) \/ FetchIncoming(p) \/ FetchProbe(p) \/ FetchInspect(p)
  \/ Finish \/ FinishIncoming \/ FinishOwned \/ FinishProbe
  \/ ScanError
  \/ Leave

BlockScanNext ==
  \/ Start
  \/ ScanStep
  \/ Reorg

BlockScanSpec == ScanInit /\ [][BlockScanNext]_scanVars

-----------------------------------------------------------------------------
(***************************************************************************)
(* A scan that answers (of the tools that check) read every block of the   *)
(* range, each once, and all of one chain, whatever the stream lost or     *)
(* repeated and however the chain moved meanwhile; with an anchor, of the  *)
(* chain that continues it.                                                *)
(***************************************************************************)
ChainOf(b) == [i \in 1 .. (req.end - req.start + 1) |-> Hash(req.start + i - 1, b)]
CompleteOnOneChain ==
  (stage \in {"fetch", "ok"} /\ req.tool \in Checked) =>
    \E b \in Branch :
      /\ got = ChainOf(b)
      /\ (req.anchor # Absent /\ req.start > 0) => Hash(req.start - 1, b) = req.anchor

(***************************************************************************)
(* With proof of work asked for, the number each accepted hash stands for  *)
(* is below the number its header's compact target stands for, at both     *)
(* ends of the exponent.                                                   *)
(***************************************************************************)
AcceptedHaveWork ==
  req.pow =>
    \A i \in 1 .. Len(got) :
      NumberOf(Work[got[i]].digest) < CompactNumber(Work[got[i]].bits)

(***************************************************************************)
(* What a tool prints is exactly what a second look at the blocks gives:   *)
(* for the side-car the recipients of each transaction with a shielded     *)
(* recipient, and of each one that spends an output an earlier one made to *)
(* the account; for the others what the account received, also after       *)
(* transactions they could not read.                                       *)
(***************************************************************************)
SpendsOwn(p) ==
  \E q \in Places(got) :
    /\ Before(q, p)
    /\ \E n \in DOMAIN Taddrs(TxAt(q)) :
         Taddrs(TxAt(q))[n] \in Own /\ <<TxAt(q), n>> \in Body[TxAt(p)].vin
Owed(p) ==
  LET t        == TxAt(p)
      sent     == OutputsOf(t, "Outgoing")
      received == OutputsOf(t, "Incoming")
  IN CASE req.tool = "scan" ->
            sent \cup (IF sent # {} \/ SpendsOwn(p) THEN TaddrsPaid(t) ELSE {})
       [] req.tool = "incoming" -> IF Body[t].bytes = "plain" THEN received ELSE {}
       [] req.tool = "probe" -> IF ReadLenient(t) THEN received ELSE {}
       [] req.tool = "inspect" -> IF ReadLenient(t) THEN ReceivedOrChange(t) ELSE {}
       [] req.tool = "owned" -> received
RecordsAreOwed ==
  stage = "ok" =>
    records = UNION {{[tx |-> TxAt(p), to |-> a] : a \in Owed(p)} : p \in Places(got)}

(***************************************************************************)
(* The claim of the documents: whom the account paid in the range is in    *)
(* the records, for payments without a shielded part too.                  *)
(***************************************************************************)
EveryPaymentRecorded ==
  (stage = "ok" /\ req.tool = "scan") =>
    \A i \in 1 .. Len(got) : \A j \in DOMAIN Content[got[i]] :
      LET t == Content[got[i]][j] IN
        Body[t].paidBy => \A a \in TaddrsPaid(t) : [tx |-> t, to |-> a] \in records
=============================================================================
