----------------------------- MODULE Screening ------------------------------
(***************************************************************************)
(* Clean wallet of week 5 (mvp and mvp3, whose scanners are one program):  *)
(* a scanner in an enclave screens the outgoing payments of a viewing key  *)
(* against the sanctioned set of a policy and signs what it found for one  *)
(* deposit; the exchange checks the signed artifact.  Requests are served  *)
(* concurrently but scan one at a time, every call to lightwalletd is made *)
(* at the primary endpoint and then at the backup, and the process may be  *)
(* deployed anew between any two steps.                                    *)
(*                                                                         *)
(* Hashes are the values hashed.  A transaction is what fetching, reading  *)
(* and decrypting it yields under each viewing key.  A payment is named by *)
(* its place: the block, the transaction in it, the recipient in that; a   *)
(* vector of payments is the set of the places its elements came from.     *)
(***************************************************************************)
EXTENDS Integers, Sequences, FiniteSets, Functions

CONSTANTS
  Client,     \* connections to the scanner
  Request,    \* bodies of POST /screen that parse
  Ufvk,       \* viewing keys: [prefixed, decodes, name]
  Tx,         \* transaction ids
  Payee,      \* addresses payments go to
  TxOf,       \* height -> the transactions of its compact block, in order
  Full,       \* Tx -> [empty, readable, paid : name of the key -> recipients]
  Network,    \* NETWORK of the scanner
  Measure,    \* build -> MRTD, which images on one base have in common
  MaxRange,   \* MAX_RANGE_BLOCKS
  HasBackup,  \* LIGHTWALLETD_BACKUP is set
  Lag,        \* blocks by which the backup is behind
  None,       \* nobody, nothing
  FirstTip, MaxTip, MaxClock, MaxFaults, MaxRequests  \* bounds

Policy == {r.policy : r \in Request}
Intent == {r.intent : r \in Request}

ASSUME ScreeningAssumption ==
  /\ None \notin Client /\ FirstTip \in Nat /\ MaxTip \in Nat /\ MaxClock \in Nat
  /\ MaxFaults \in Nat /\ MaxRequests \in Nat /\ HasBackup \in BOOLEAN
  /\ Lag \in Nat /\ FirstTip <= MaxTip /\ 1 \in DOMAIN Measure
  /\ TxOf \in [0 .. MaxTip -> Seq(Tx)]
  /\ Full \in [Tx -> [empty : BOOLEAN, readable : BOOLEAN,
                      paid : [{u.name : u \in Ufvk} -> Seq(Payee)]]]
  /\ \A r \in Request : r.ufvk \in Ufvk
  /\ \A p \in Policy : p.start \in Nat /\ p.end \in Nat
  /\ \A i \in Intent : i.expiry \in Nat

VARIABLES
  tip,       \* height of the chain
  clock,     \* unix time, coarsely
  faults,    \* failed calls and lost connections so far
  build,     \* the image that runs
  requests,  \* requests received so far
  lock,      \* scan_lock: the connection whose handler holds it, or None
  task,      \* connection -> the handler of its request, at its last await
  scans,     \* every artifact computed, with what it was computed from
  quotes,    \* every quote the attestation hardware has signed
  verdict    \* the last bundle the exchange accepted, or None

worldVars == <<tip, clock, faults, build>>
serverVars == <<requests, lock, task>>
signedVars == <<scans, quotes>>
vars == <<worldVars, serverVars, signedVars, verdict>>

Idle == [pc |-> "idle"]

Init ==
  /\ tip = FirstTip /\ clock = 0 /\ faults = 0 /\ build = 1
  /\ requests = 0 /\ lock = None /\ task = [c \in Client |-> Idle]
  /\ scans = {} /\ quotes = {} /\ verdict = None

(* Every error of the handler is an answer that drops the guard.           *)
Answered(c) ==
  /\ task' = [task EXCEPT ![c] = Idle]
  /\ lock' = None
  /\ UNCHANGED <<requests, build, tip, clock>>

-----------------------------------------------------------------------------
(* The guards of scan_and_screen before its first await.                   *)
Span(p) == IF p.end >= p.start THEN p.end - p.start ELSE 0
Admissible(r) ==
  /\ r.policy.network = Network
  /\ Span(r.policy) <= MaxRange
  /\ clock <= r.intent.expiry

\* Faulty: a handler that finds the lock taken goes on without it.
ScreenUnlocked(c, r) ==
  /\ task[c].pc = "idle" /\ requests < MaxRequests
  /\ requests' = requests + 1
  /\ IF Admissible(r)
       THEN /\ lock' = c
            /\ task' = [task EXCEPT ![c] =
                 [pc |-> "tip", req |-> r, at |-> "primary", now |-> clock,
                  blocks |-> <<>>, todo |-> {}, raw |-> {}]]
       ELSE UNCHANGED <<lock, task>>
  /\ UNCHANGED <<worldVars, signedVars, verdict>>

(* screen: a second request is refused while one scans (429); one that is  *)
(* not admissible is refused and frees the lock at once (400).             *)
Screen(c, r) ==
  /\ task[c].pc = "idle" /\ requests < MaxRequests
  /\ requests' = requests + 1
  /\ IF lock = None /\ Admissible(r)
       THEN /\ lock' = c
            /\ task' = [task EXCEPT ![c] =
                 [pc |-> "tip", req |-> r, at |-> "primary", now |-> clock,
                  blocks |-> <<>>, todo |-> {}, raw |-> {}]]
       ELSE UNCHANGED <<lock, task>>
  /\ UNCHANGED <<worldVars, signedVars, verdict>>

-----------------------------------------------------------------------------
Fault == faults < MaxFaults /\ faults' = faults + 1
Least(a, b) == IF a <= b THEN a ELSE b
TipOf(endpoint) == IF endpoint = "primary" THEN tip ELSE tip - Lag

\* Faulty: the vector of blocks outlives the attempt.
BlocksKept(seen) == seen

(* fetch_block_range makes the vector in the closure: each attempt anew.   *)
BlocksOf(seen) == <<>>

(* with_failover: a call that fails at the primary, for a range after some *)
(* of its blocks, is made again at the backup; then its error is final.    *)
CallFails(c) ==
  /\ task[c].pc \in {"tip", "range", "txs"}
  /\ task[c].pc = "txs" => task[c].todo # {}
  /\ Fault
  /\ IF task[c].at = "primary" /\ HasBackup
       THEN /\ LET p == task[c].req.policy IN
                 \E h \in (p.start - 1) .. Least(p.end, tip) :
                   task' = [task EXCEPT ![c].at = "backup",
                     ![c].blocks = IF task[c].pc = "range"
                       THEN BlocksOf([i \in 1 .. (h - p.start + 1) |-> p.start + i - 1])
                       ELSE @]
            /\ UNCHANGED <<requests, lock, build, tip, clock>>
       ELSE Answered(c)
  /\ UNCHANGED <<signedVars, verdict>>

(* current_chain_tip: the range may end one above the tip; then the prefix *)
(* of the key, and an inverted range, which fetch_block_range refuses.     *)
TipArrives(c) ==
  LET r == task[c].req IN
  /\ task[c].pc = "tip"
  /\ IF /\ r.policy.end <= TipOf(task[c].at) + 1
        /\ r.ufvk.prefixed
        /\ r.policy.start <= r.policy.end
       THEN /\ task' = [task EXCEPT ![c].pc = "range", ![c].at = "primary"]
            /\ UNCHANGED <<requests, lock, build, tip, clock>>
       ELSE Answered(c)
  /\ UNCHANGED <<faults, signedVars, verdict>>

(* The j-th transaction of the i-th of the blocks read.                    *)
Listed(blocks) == UNION {{i} \X DOMAIN TxOf[blocks[i]] : i \in DOMAIN blocks}
TxIn(blocks, p) == TxOf[blocks[p[1]]][p[2]]
Earlier(p, q) == p[1] < q[1] \/ (p[1] = q[1] /\ p[2] < q[2])

\* Faulty: the blocks of the range are taken to be there.
RangeArrivesAssumed(c) ==
  LET p   == task[c].req.policy
      got == [i \in 1 .. (p.end - p.start + 1) |-> p.start + i - 1]
  IN
  /\ task[c].pc = "range"
  /\ task' = [task EXCEPT ![c].pc = "txs", ![c].at = "primary", ![c].blocks = got,
               ![c].todo = Listed(got)]
  /\ UNCHANGED <<worldVars, requests, lock, signedVars, verdict>>

(* The stream ends with the last block of the range the endpoint has; then *)
(* its blocks name the transactions to fetch.                              *)
RangeArrives(c) ==
  LET p    == task[c].req.policy
      last == Least(p.end, TipOf(task[c].at))
      got  == task[c].blocks \o [i \in 1 .. (last - p.start + 1) |-> p.start + i - 1]
  IN
  /\ task[c].pc = "range"
  /\ task' = [task EXCEPT ![c].pc = "txs", ![c].at = "primary", ![c].blocks = got,
               ![c].todo = Listed(got)]
  /\ UNCHANGED <<worldVars, requests, lock, signedVars, verdict>>

(* fetch_transaction, one by one in the order of the blocks; an empty      *)
(* answer is passed over.                                                  *)
TxArrives(c) ==
  /\ task[c].pc = "txs"
  /\ \E p \in task[c].todo :
       /\ \A q \in task[c].todo \ {p} : Earlier(p, q)
       /\ task' = [task EXCEPT ![c].todo = @ \ {p}, ![c].at = "primary",
            ![c].raw = IF Full[TxIn(task[c].blocks, p)].empty THEN @ ELSE @ \cup {p}]
  /\ UNCHANGED <<worldVars, requests, lock, signedVars, verdict>>

-----------------------------------------------------------------------------
(* extract_outgoing_recipients: the key is decoded only if there is        *)
(* something to read, a transaction that does not parse is passed over.    *)
Unreadable(t) == ~Full[t].readable
PaidBy(t, ufvk) == IF Unreadable(t) THEN <<>> ELSE Full[t].paid[ufvk.name]
Recipients(blocks, raw, ufvk) ==
  UNION {{p} \X DOMAIN PaidBy(TxIn(blocks, p), ufvk) : p \in raw}
Hits(blocks, recipients, ufvk, policy) ==
  {x \in recipients : PaidBy(TxIn(blocks, x[1]), ufvk)[x[2]] \in policy.sanctioned}

ArtifactOf(t) ==
  LET found == Recipients(t.blocks, t.raw, t.req.ufvk)
      hits  == Cardinality(Hits(t.blocks, found, t.req.ufvk, t.req.policy))
  IN [result |-> IF hits = 0 THEN "PASS" ELSE "FAIL",
      network |-> t.req.policy.network,
      start |-> t.req.policy.start, end |-> t.req.policy.end,
      policy |-> t.req.policy, intent |-> t.req.intent, scope |-> t.req.ufvk,
      count |-> Cardinality(found), hits |-> hits,
      measurement |-> Measure[build], completed |-> t.now]

(* The artifact is computed; what remains is its quote.                    *)
Evaluate(c) ==
  /\ task[c].pc = "txs" /\ task[c].todo = {}
  /\ IF task[c].raw = {} \/ task[c].req.ufvk.decodes
       THEN /\ task' = [task EXCEPT ![c] =
                 [pc |-> "quote", artifact |-> ArtifactOf(task[c])]]
            /\ scans' = scans \cup
                 {[artifact |-> ArtifactOf(task[c]), blocks |-> task[c].blocks,
                   build |-> build]}
            /\ UNCHANGED <<requests, lock, build, tip, clock>>
       ELSE Answered(c) /\ UNCHANGED scans
  /\ UNCHANGED <<faults, quotes, verdict>>

Quote(report) == [measurement |-> Measure[build], report |-> report]

(* get_quote over the artifact's hash, then the answer; or 503.            *)
QuoteArrives(c) ==
  /\ task[c].pc = "quote"
  /\ quotes' = quotes \cup {Quote(task[c].artifact)}
  /\ Answered(c)
  /\ UNCHANGED <<faults, scans, verdict>>

QuoteFails(c) ==
  /\ task[c].pc = "quote"
  /\ Fault
  /\ Answered(c)
  /\ UNCHANGED <<signedVars, verdict>>

(* GET /attestation: a quote over zeros, without the lock.                 *)
Attestation ==
  /\ quotes' = quotes \cup {Quote(None)}
  /\ UNCHANGED <<worldVars, serverVars, scans, verdict>>

(* The connection is lost: the server drops the handler at its await, and  *)
(* the guard with it.                                                      *)
Disconnect(c) ==
  /\ task[c].pc # "idle"
  /\ Fault
  /\ Answered(c)
  /\ UNCHANGED <<signedVars, verdict>>

(* The process ends, and the next image starts.                            *)
Redeploy ==
  /\ build + 1 \in DOMAIN Measure
  /\ build' = build + 1
  /\ lock' = None /\ task' = [c \in Client |-> Idle]
  /\ UNCHANGED <<tip, clock, faults, requests, signedVars, verdict>>

-----------------------------------------------------------------------------
(* The exchange: verify-quote tells whether the hardware signed the quote, *)
(* over what and for which measurement; verify-bundle makes three checks.  *)
(* A policy may leave the measurement out: then it is not compared.        *)
QuoteGenuine(q, p) == p.expected \in {None, q.measurement}

\* Faulty: the report data is not looked at.
BindsAny(q, a) == TRUE
(* The zeros of GET /attestation are the hash of nothing.                  *)
QuoteBinds(q, a) == q.report # None /\ q.report = a
BindsContext(a, p, i) ==
  /\ a.policy = p /\ a.intent = i
  /\ a.network = p.network /\ a.start = p.start /\ a.end = p.end
  /\ clock <= i.expiry

(* The wallet hands over an artifact, its own or one it altered, with any  *)
(* genuine quote it has; the exchange holds the policy and the intent.     *)
Edited(a) == [a EXCEPT !.result = "PASS", !.hits = 0]
Presented == {s.artifact : s \in scans} \cup {Edited(s.artifact) : s \in scans}
VerifyBundle(a, q, p, i) ==
  /\ QuoteGenuine(q, p) /\ QuoteBinds(q, a) /\ BindsContext(a, p, i)
  /\ verdict' = [artifact |-> a, policy |-> p, intent |-> i, at |-> clock]
  /\ UNCHANGED <<worldVars, serverVars, signedVars>>

Tick ==
  /\ clock < MaxClock /\ clock' = clock + 1
  /\ UNCHANGED <<tip, faults, build, serverVars, signedVars, verdict>>
Mine ==
  /\ tip < MaxTip /\ tip' = tip + 1
  /\ UNCHANGED <<clock, faults, build, serverVars, signedVars, verdict>>

Handler(c) ==
  \/ TipArrives(c) \/ RangeArrives(c) \/ TxArrives(c) \/ Evaluate(c)
  \/ QuoteArrives(c) \/ CallFails(c) \/ QuoteFails(c) \/ Disconnect(c)

Next ==
  \/ \E c \in Client : Handler(c) \/ \E r \in Request : Screen(c, r)
  \/ Attestation \/ Redeploy \/ Tick \/ Mine
  \/ \E a \in Presented, q \in quotes, p \in Policy, i \in Intent :
       VerifyBundle(a, q, p, i)

Spec == Init /\ [][Next]_vars

-----------------------------------------------------------------------------
TypeOK ==
  /\ tip \in FirstTip .. MaxTip /\ clock \in 0 .. MaxClock
  /\ faults \in 0 .. MaxFaults /\ build \in DOMAIN Measure
  /\ requests \in 0 .. MaxRequests
  /\ lock \in Client \cup {None}
  /\ \A c \in Client :
       task[c].pc \in {"tip", "range", "txs"} =>
         /\ task[c].req \in Request /\ task[c].at \in {"primary", "backup"}
         /\ Range(task[c].blocks) \subseteq
              task[c].req.policy.start .. Least(task[c].req.policy.end, tip)
         /\ task[c].todo \cup task[c].raw \subseteq Listed(task[c].blocks)
  /\ verdict # None => verdict.policy \in Policy /\ verdict.intent \in Intent

(***************************************************************************)
(* The lock is held exactly while a handler scans: every early answer,     *)
(* lost connection and redeployment frees it, and no second handler gets   *)
(* past try_lock.                                                          *)
(***************************************************************************)
ScanHoldsLock == \A c \in Client : (lock = c) <=> (task[c].pc # "idle")

(***************************************************************************)
(* An artifact counts each recipient of each transaction of each block     *)
(* that was read once, whatever endpoint answered after how many failures, *)
(* and says PASS when none of them is sanctioned.                          *)
(***************************************************************************)
PaidAt(s, x) ==
  LET t == TxOf[x[1]][x[2]]
  IN IF Full[t].empty \/ ~Full[t].readable THEN <<>>
                                          ELSE Full[t].paid[s.artifact.scope.name]
PaymentsIn(s) ==
  UNION {{x} \X DOMAIN PaidAt(s, x) :
           x \in UNION {{h} \X DOMAIN TxOf[h] : h \in Range(s.blocks)}}
CountsEachPaymentOnce ==
  \A s \in scans :
    /\ s.artifact.count = Cardinality(PaymentsIn(s))
    /\ (s.artifact.result = "PASS") <=>
         (\A x \in PaymentsIn(s) : PaidAt(s, x[1])[x[2]] \notin s.artifact.policy.sanctioned)

(***************************************************************************)
(* What the exchange accepts is an artifact some scan computed, unaltered, *)
(* for the policy and the deposit the exchange asked about, while the      *)
(* deposit had not expired; none of the quotes of other answers and of     *)
(* GET /attestation can stand in.  Where the policy has a measurement, the *)
(* build that scanned has it too: it need not be the build the policy was  *)
(* written for, as images on one base measure the same (verify-bundle).    *)
(***************************************************************************)
AcceptedWasScanned ==
  verdict # None =>
    /\ verdict.at <= verdict.intent.expiry
    /\ \E s \in scans :
         /\ s.artifact = verdict.artifact
         /\ s.artifact.policy = verdict.policy /\ s.artifact.intent = verdict.intent
         /\ verdict.policy.expected \in {None, Measure[s.build]}
=============================================================================
