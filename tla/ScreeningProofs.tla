-------------------------- MODULE ScreeningProofs ---------------------------
(***************************************************************************)
(* Why the lock of the scanner service serialises its scans, and why an    *)
(* accepted artifact was scanned: every quote that names an artifact was   *)
(* signed by the build that computed it, because a handler that waits for  *)
(* its quote does not outlive its build.  And why an artifact counts each  *)
(* payment once: the vector of blocks is the range in order, so that the   *)
(* place of a block in it and its height name each other.                  *)
(***************************************************************************)
EXTENDS Screening, FiniteSetTheorems, TLAPS

(* Handlers are records that say where they are.                           *)
TaskInv ==
  /\ task = [c \in Client |-> task[c]]
  /\ \A c \in Client : "pc" \in DOMAIN task[c]

(* A handler that waits for a quote holds what this build has computed.    *)
Computed(a, m) == \E s \in scans : s.artifact = a /\ Measure[s.build] = m
QuoteInv ==
  \A c \in Client : task[c].pc = "quote" => Computed(task[c].artifact, Measure[build])

(* A quote that names an artifact is of the build that computed it.        *)
SignedInv == \A q \in quotes : q.report # None => Computed(q.report, q.measurement)

ScreenInv == TaskInv /\ ScanHoldsLock /\ QuoteInv /\ SignedInv /\ AcceptedWasScanned

LEMMA ScreenInit == Init => ScreenInv
BY ScreeningAssumption
DEF Init, ScreenInv, TaskInv, ScanHoldsLock, QuoteInv, SignedInv, AcceptedWasScanned, Idle

-----------------------------------------------------------------------------
(* Only the last action of a handler and VerifyBundle touch what has been  *)
(* signed and accepted; what was computed once stays computed.             *)
LEMMA ComputedStays ==
  ASSUME NEW a, NEW m, Computed(a, m), scans \subseteq scans'
  PROVE  Computed(a, m)'
BY DEF Computed

LEMMA AcceptedStays ==
  ASSUME AcceptedWasScanned, verdict' = verdict, scans \subseteq scans'
  PROVE  AcceptedWasScanned'
BY DEF AcceptedWasScanned

(* An answer frees the lock, which the handler alone held.                 *)
LEMMA AnsweredKeeps ==
  ASSUME ScreenInv, NEW c \in Client, task[c].pc # "idle", Answered(c)
  PROVE  /\ TaskInv' /\ ScanHoldsLock'
         /\ \A d \in Client : task'[d].pc = "idle"
<1> USE DEF Answered, ScreenInv
<1>1. task' = [task EXCEPT ![c] = Idle] /\ lock' = None  OBVIOUS
<1>2. \A d \in Client : d # c => task[d].pc = "idle"
  BY DEF ScanHoldsLock
<1>3. TaskInv'  BY <1>1 DEF TaskInv, Idle
<1>4. \A d \in Client : task'[d].pc = "idle"
  BY <1>1, <1>2 DEF TaskInv, Idle
<1>5. ScanHoldsLock'
  BY <1>1, <1>4, ScreeningAssumption DEF ScanHoldsLock
<1>6. QED  BY <1>3, <1>4, <1>5

(* An action that leaves every handler where it is keeps the lock right.   *)
LEMMA MovesKeep ==
  ASSUME ScreenInv, NEW c \in Client, task[c].pc # "idle", lock' = lock,
         task' = [task EXCEPT ![c] = task'[c]],
         "pc" \in DOMAIN task'[c], task'[c].pc # "idle"
  PROVE  /\ TaskInv' /\ ScanHoldsLock'
         /\ \A d \in Client : d # c => task'[d] = task[d]
<1> USE DEF ScreenInv, TaskInv
<1>1. \A d \in Client : d # c => task'[d] = task[d]  OBVIOUS
<1>2. TaskInv'  BY <1>1
<1>3. ScanHoldsLock'  BY <1>1 DEF ScanHoldsLock
<1>4. QED  BY <1>1, <1>2, <1>3

(* The parts that speak of what was computed, when it is left alone.       *)
LEMMA SignedStays ==
  ASSUME ScreenInv, build' = build, scans' = scans, quotes' = quotes, verdict' = verdict,
         \A c \in Client : task'[c].pc = "quote" =>
           task[c].pc = "quote" /\ task'[c].artifact = task[c].artifact
  PROVE  QuoteInv' /\ SignedInv' /\ AcceptedWasScanned'
<1> USE DEF ScreenInv
<1>1. AcceptedWasScanned'  BY AcceptedStays
<1>2. \A a, m : Computed(a, m)' <=> Computed(a, m)  BY DEF Computed
<1>3. QuoteInv'  BY <1>2 DEF QuoteInv
<1>4. SignedInv'  BY <1>2 DEF SignedInv
<1>5. QED  BY <1>1, <1>3, <1>4

LEMMA HandlerKeeps ==
  ASSUME ScreenInv, NEW c \in Client, Handler(c)
  PROVE  ScreenInv'
<1>0. UNCHANGED build /\ scans \subseteq scans'
  BY DEF Handler, TipArrives, RangeArrives, TxArrives, Evaluate, QuoteArrives, CallFails,
     QuoteFails, Disconnect, Answered, worldVars, signedVars
<1>a. ASSUME task[c].pc # "idle", Answered(c), UNCHANGED <<signedVars, verdict>>
      PROVE  ScreenInv'
  <2>1. TaskInv' /\ ScanHoldsLock' /\ \A d \in Client : task'[d].pc = "idle"
    BY <1>a, AnsweredKeeps
  <2>2. QuoteInv' /\ SignedInv' /\ AcceptedWasScanned'
    BY <1>a, <1>0, <2>1, SignedStays DEF signedVars
  <2>3. QED  BY <2>1, <2>2 DEF ScreenInv
<1>m. ASSUME task[c].pc \notin {"idle", "quote"}, lock' = lock,
             task' = [task EXCEPT ![c] = task'[c]], "pc" \in DOMAIN task'[c],
             task'[c].pc \notin {"idle", "quote"}, UNCHANGED <<signedVars, verdict>>
      PROVE  ScreenInv'
  <2>1. TaskInv' /\ ScanHoldsLock' /\ \A d \in Client : d # c => task'[d] = task[d]
    BY <1>m, MovesKeep
  <2>2. QuoteInv' /\ SignedInv' /\ AcceptedWasScanned'
    BY <1>m, <1>0, <2>1, SignedStays DEF signedVars
  <2>3. QED  BY <2>1, <2>2 DEF ScreenInv
<1> USE DEF ScreenInv, TaskInv
<1>1. CASE TipArrives(c)
  <2>1. CASE Answered(c)  BY <1>1, <2>1, <1>a DEF TipArrives
  <2>2. CASE ~Answered(c)
    <3>1. task' = [task EXCEPT ![c].pc = "range", ![c].at = "primary"] /\ lock' = lock
      BY <1>1, <2>2 DEF TipArrives
    <3>2. /\ task' = [task EXCEPT ![c] = task'[c]]
          /\ "pc" \in DOMAIN task'[c] /\ task'[c].pc = "range"
      BY <3>1
    <3>3. QED  BY <1>1, <1>m, <3>1, <3>2 DEF TipArrives
  <2>3. QED  BY <2>1, <2>2
<1>2. CASE RangeArrives(c)
  <2>1. PICK b, r : task' = [task EXCEPT ![c].pc = "txs", ![c].at = "primary",
                                         ![c].blocks = b, ![c].todo = r]
    BY <1>2 DEF RangeArrives
  <2>2. /\ task' = [task EXCEPT ![c] = task'[c]]
        /\ "pc" \in DOMAIN task'[c] /\ task'[c].pc = "txs"
    BY <2>1
  <2>3. QED  BY <1>2, <1>m, <2>2 DEF RangeArrives
<1>3. CASE TxArrives(c)
  <2>1. PICK p \in task[c].todo :
          task' = [task EXCEPT ![c].todo = @ \ {p}, ![c].at = "primary",
            ![c].raw = IF Full[TxIn(task[c].blocks, p)].empty THEN @ ELSE @ \cup {p}]
    BY <1>3 DEF TxArrives
  <2>2. /\ task' = [task EXCEPT ![c] = task'[c]]
        /\ "pc" \in DOMAIN task'[c] /\ task'[c].pc = task[c].pc
    BY <2>1
  <2>3. QED  BY <1>3, <1>m, <2>2 DEF TxArrives
<1>4. CASE CallFails(c)
  <2>1. CASE Answered(c)  BY <1>4, <2>1, <1>a DEF CallFails
  <2>2. CASE ~Answered(c)
    <3>1. lock' = lock /\ \E b : task' = [task EXCEPT ![c].at = "backup", ![c].blocks = b]
      BY <1>4, <2>2 DEF CallFails
    <3>2. PICK b : task' = [task EXCEPT ![c].at = "backup", ![c].blocks = b]
      BY <3>1
    <3>3. /\ task' = [task EXCEPT ![c] = task'[c]]
          /\ "pc" \in DOMAIN task'[c] /\ task'[c].pc = task[c].pc
      BY <3>2
    <3>4. QED  BY <1>4, <1>m, <3>1, <3>3 DEF CallFails
  <2>3. QED  BY <2>1, <2>2
<1>5. CASE Evaluate(c)
  <2>1. CASE Answered(c) /\ UNCHANGED scans
    BY <1>5, <2>1, <1>a DEF Evaluate, signedVars
  <2>2. CASE ~(Answered(c) /\ UNCHANGED scans)
    <3>a. PICK a : a = ArtifactOf(task[c])  OBVIOUS
    <3>0. /\ task' = [task EXCEPT ![c] = [pc |-> "quote", artifact |-> a]]
          /\ scans' = scans \cup
               {[artifact |-> a, blocks |-> task[c].blocks, build |-> build]}
          /\ lock' = lock /\ quotes' = quotes /\ verdict' = verdict
      BY <1>5, <2>2, <3>a DEF Evaluate
    <3>s. PICK s : s = [artifact |-> a, blocks |-> task[c].blocks, build |-> build]
      OBVIOUS
    <3>1. /\ task' = [task EXCEPT ![c] = [pc |-> "quote", artifact |-> a]]
          /\ s \in scans' /\ s.artifact = a /\ s.build = build
          /\ lock' = lock /\ quotes' = quotes /\ verdict' = verdict
      BY <3>0, <3>s
    <3>2. /\ task' = [task EXCEPT ![c] = task'[c]] /\ "pc" \in DOMAIN task'[c]
          /\ task'[c].pc = "quote" /\ task'[c].artifact = a
      BY <3>1
    <3>3. task[c].pc # "idle"  BY <1>5 DEF Evaluate
    <3>4. TaskInv' /\ ScanHoldsLock' /\ \A d \in Client : d # c => task'[d] = task[d]
      BY <3>1, <3>2, <3>3, MovesKeep
    <3>5. Computed(a, Measure[build])'  BY <3>1, <1>0 DEF Computed
    <3>6. QuoteInv'  BY <3>2, <3>4, <3>5, <1>0, ComputedStays DEF QuoteInv
    <3>7. SignedInv'  BY <3>1, <1>0, ComputedStays DEF SignedInv
    <3>8. AcceptedWasScanned'  BY <3>1, <1>0, AcceptedStays
    <3>9. QED  BY <3>4, <3>6, <3>7, <3>8 DEF ScreenInv
  <2>3. QED  BY <2>1, <2>2
<1>6. CASE QuoteArrives(c)
  <2> DEFINE a == task[c].artifact
  <2>1. /\ task[c].pc = "quote" /\ scans' = scans /\ verdict' = verdict
        /\ quotes' = quotes \cup {Quote(a)} /\ Answered(c)
    BY <1>6 DEF QuoteArrives
  <2>2. TaskInv' /\ ScanHoldsLock' /\ \A d \in Client : task'[d].pc = "idle"
    BY <2>1, AnsweredKeeps
  <2>3. Computed(a, Measure[build])  BY <2>1 DEF QuoteInv
  <2>4. SignedInv'  BY <2>1, <2>3, ComputedStays DEF SignedInv, Quote
  <2>5. QuoteInv'  BY <2>2 DEF QuoteInv
  <2>6. AcceptedWasScanned'  BY <2>1, AcceptedStays
  <2>7. QED  BY <2>2, <2>4, <2>5, <2>6 DEF ScreenInv
<1>7. CASE QuoteFails(c)  BY <1>7, <1>a DEF QuoteFails
<1>8. CASE Disconnect(c)  BY <1>8, <1>a DEF Disconnect
<1>9. QED  BY <1>1, <1>2, <1>3, <1>4, <1>5, <1>6, <1>7, <1>8 DEF Handler

LEMMA StepKeeps ==
  ASSUME ScreenInv, [Next]_vars
  PROVE  ScreenInv'
<1>u. ASSUME UNCHANGED <<lock, task, signedVars, verdict, build>>  PROVE ScreenInv'
  <2>1. TaskInv' /\ ScanHoldsLock'  BY <1>u DEF ScreenInv, TaskInv, ScanHoldsLock
  <2>2. QuoteInv' /\ SignedInv' /\ AcceptedWasScanned'
    BY <1>u, SignedStays DEF signedVars
  <2>3. QED  BY <2>1, <2>2 DEF ScreenInv
<1>1. CASE UNCHANGED vars  BY <1>1, <1>u DEF vars, worldVars, serverVars
<1>2. ASSUME NEW c \in Client, Handler(c)  PROVE ScreenInv'
  BY <1>2, HandlerKeeps
<1>3. ASSUME NEW c \in Client, NEW r \in Request, Screen(c, r)  PROVE ScreenInv'
  <2>1. CASE lock = None /\ Admissible(r)
    <3>a. PICK t : t = [pc |-> "tip", req |-> r, at |-> "primary", now |-> clock,
                        blocks |-> <<>>, todo |-> {}, raw |-> {}]
      OBVIOUS
    <3>1. /\ task' = [task EXCEPT ![c] = t] /\ lock' = c
          /\ "pc" \in DOMAIN t /\ t.pc = "tip"
      BY <1>3, <2>1, <3>a DEF Screen
    <3>2. UNCHANGED <<build, scans, quotes, verdict>>
      BY <1>3 DEF Screen, worldVars, signedVars
    <3>3. \A d \in Client : task[d].pc = "idle"
      BY <2>1, ScreeningAssumption DEF ScreenInv, ScanHoldsLock
    <3>4. task'[c] = t /\ \A d \in Client : d # c => task'[d] = task[d]
      BY <3>1 DEF ScreenInv, TaskInv
    <3>5. TaskInv'  BY <3>1, <3>4 DEF ScreenInv, TaskInv
    <3>6. ScanHoldsLock'  BY <3>1, <3>3, <3>4 DEF ScanHoldsLock
    <3>7. QuoteInv' /\ SignedInv' /\ AcceptedWasScanned'
      BY <3>1, <3>2, <3>4, SignedStays
    <3>8. QED  BY <3>5, <3>6, <3>7 DEF ScreenInv
  <2>2. CASE ~(lock = None /\ Admissible(r))
    BY <1>3, <2>2, <1>u DEF Screen, worldVars
  <2>3. QED  BY <2>1, <2>2
<1>4. CASE Attestation
  <2>1. /\ UNCHANGED <<lock, task, scans, verdict, build>>
        /\ quotes' = quotes \cup {Quote(None)}
    BY <1>4 DEF Attestation, worldVars, serverVars
  <2>2. TaskInv' /\ ScanHoldsLock'  BY <2>1 DEF ScreenInv, TaskInv, ScanHoldsLock
  <2>3. QuoteInv'  BY <2>1, ComputedStays DEF ScreenInv, QuoteInv
  <2>4. SignedInv'  BY <2>1, ComputedStays DEF ScreenInv, SignedInv, Quote
  <2>5. AcceptedWasScanned'  BY <2>1, AcceptedStays DEF ScreenInv
  <2>6. QED  BY <2>2, <2>3, <2>4, <2>5 DEF ScreenInv
<1>5. CASE Redeploy
  <2>1. /\ UNCHANGED <<scans, quotes, verdict>>
        /\ lock' = None /\ task' = [c \in Client |-> Idle]
    BY <1>5 DEF Redeploy, signedVars
  <2>2. \A c \in Client : task'[c] = Idle  BY <2>1
  <2>3. TaskInv' /\ ScanHoldsLock' /\ QuoteInv'
    BY <2>1, <2>2, ScreeningAssumption DEF TaskInv, ScanHoldsLock, QuoteInv, Idle
  <2>4. SignedInv'  BY <2>1, ComputedStays DEF ScreenInv, SignedInv
  <2>5. AcceptedWasScanned'  BY <2>1, AcceptedStays DEF ScreenInv
  <2>6. QED  BY <2>3, <2>4, <2>5 DEF ScreenInv
<1>6. CASE Tick  BY <1>6, <1>u DEF Tick, serverVars
<1>7. CASE Mine  BY <1>7, <1>u DEF Mine, serverVars
<1>8. ASSUME NEW a \in Presented, NEW q \in quotes, NEW p \in Policy, NEW i \in Intent,
             VerifyBundle(a, q, p, i)
      PROVE  ScreenInv'
  <2>1. UNCHANGED <<lock, task, scans, quotes, build>>
    BY <1>8 DEF VerifyBundle, worldVars, serverVars, signedVars
  <2>2. TaskInv' /\ ScanHoldsLock'  BY <2>1 DEF ScreenInv, TaskInv, ScanHoldsLock
  <2>3. QuoteInv'  BY <2>1, ComputedStays DEF ScreenInv, QuoteInv
  <2>4. SignedInv'  BY <2>1, ComputedStays DEF ScreenInv, SignedInv
  <2>5. verdict' = [artifact |-> a, policy |-> p, intent |-> i, at |-> clock]
    BY <1>8 DEF VerifyBundle
  <2>6. PICK s \in scans : s.artifact = a /\ Measure[s.build] = q.measurement
    BY <1>8 DEF VerifyBundle, QuoteBinds, ScreenInv, SignedInv, Computed
  <2>7. p.expected \in {None, q.measurement} /\ a.policy = p /\ a.intent = i /\ clock <= i.expiry
    BY <1>8 DEF VerifyBundle, QuoteGenuine, BindsContext
  <2>8. AcceptedWasScanned'  BY <2>1, <2>5, <2>6, <2>7 DEF AcceptedWasScanned
  <2>9. QED  BY <2>2, <2>3, <2>4, <2>8 DEF ScreenInv
<1>9. QED  BY <1>1, <1>2, <1>3, <1>4, <1>5, <1>6, <1>7, <1>8 DEF Next

-----------------------------------------------------------------------------
(* The invariant is inductive.                                             *)
THEOREM ScreenInductive == Spec => []ScreenInv
BY ScreenInit, StepKeeps, PTL DEF Spec

(* The lock is held exactly while a handler scans, whatever fails and      *)
(* however many connections there are.                                     *)
THEOREM LockIsHeld == Spec => []ScanHoldsLock
<1>1. ScreenInv => ScanHoldsLock  BY DEF ScreenInv
<1>2. QED  BY <1>1, ScreenInductive, PTL

(* What the exchange accepts was computed by a scan, unaltered, for the    *)
(* policy and the deposit the exchange asked about, in time; by a build of *)
(* the policy's measurement, where it has one (POST verify-bundle).        *)
THEOREM AcceptedArtifactsScanned == Spec => []AcceptedWasScanned
<1>1. ScreenInv => AcceptedWasScanned  BY DEF ScreenInv
<1>2. QED  BY <1>1, ScreenInductive, PTL

-----------------------------------------------------------------------------
(* What a handler has read by the time the chain is h blocks high.         *)
Scanning ==
  [pc : {"tip", "range", "txs"}, req : Request, at : {"primary", "backup"},
   now : 0 .. MaxClock, blocks : Seq(Nat), todo : SUBSET (Nat \X Nat),
   raw : SUBSET (Nat \X Nat)]
InOrder(blocks, p, h) ==
  \A i \in 1 .. Len(blocks) :
    blocks[i] = p.start + i - 1 /\ blocks[i] <= p.end /\ blocks[i] <= h
Read(t, h) ==
  /\ t.pc \in {"tip", "range"} => t.blocks = <<>>
  /\ InOrder(t.blocks, t.req.policy, h)
  /\ t.todo \subseteq Listed(t.blocks)
  /\ t.raw = {p \in Listed(t.blocks) \ t.todo : ~Full[TxIn(t.blocks, p)].empty}

WorldOK ==
  /\ tip \in FirstTip .. MaxTip /\ clock \in 0 .. MaxClock
  /\ faults \in 0 .. MaxFaults /\ build \in DOMAIN Measure
  /\ requests \in 0 .. MaxRequests /\ lock \in Client \cup {None}
  /\ verdict # None => verdict.policy \in Policy /\ verdict.intent \in Intent
HandlerOK(t, h) ==
  /\ "pc" \in DOMAIN t /\ t.pc \in {"idle", "tip", "range", "txs", "quote"}
  /\ t.pc \in {"tip", "range", "txs"} => t \in Scanning /\ Read(t, h)
CountInv ==
  /\ WorldOK
  /\ task = [c \in Client |-> task[c]]
  /\ \A c \in Client : HandlerOK(task[c], tip)
  /\ CountsEachPaymentOnce

(* A finite union of finite sets, given by a function.                     *)
Spread(S, f) == UNION {f[x] : x \in S}

LEMMA FiniteUnion ==
  ASSUME NEW S, IsFiniteSet(S), NEW f, \A x \in S : IsFiniteSet(f[x])
  PROVE  IsFiniteSet(Spread(S, f))
<1> DEFINE T == {f[x] : x \in S}
           g == [x \in S |-> f[x]]
<1>1. g \in Surjection(S, T)  BY DEF Surjection
<1>2. IsFiniteSet(T)
  <2> HIDE DEF g, T
  <2> QED  BY <1>1, FS_Surjection
<1>3. \A X \in T : IsFiniteSet(X)  OBVIOUS
<1> HIDE DEF T
<1>4. IsFiniteSet(UNION T)  BY <1>2, <1>3, FS_UNION
<1> QED  BY <1>4 DEF T, Spread

LEMMA FiniteSeq ==
  ASSUME NEW X, NEW q \in Seq(X), NEW p
  PROVE  IsFiniteSet({p} \X DOMAIN q)
<1>1. DOMAIN q = 1 .. Len(q) /\ Len(q) \in Int /\ 1 \in Int  OBVIOUS
<1>2. IsFiniteSet(DOMAIN q)  BY <1>1, FS_Interval
<1>3. IsFiniteSet({p})  BY FS_Singleton
<1> QED  BY <1>2, <1>3, FS_Product

(* The transactions of a block of the range, and what is paid in them.     *)
LEMMA TxTyped ==
  ASSUME NEW h \in Nat, h <= MaxTip
  PROVE  /\ TxOf[h] \in Seq(Tx)
         /\ DOMAIN TxOf[h] \subseteq Nat
         /\ \A j \in DOMAIN TxOf[h] : TxOf[h][j] \in Tx
<1>1. TxOf[h] \in Seq(Tx)  BY ScreeningAssumption
<1> QED  BY <1>1

LEMMA PaidTyped ==
  ASSUME NEW t \in Tx, NEW r \in Request
  PROVE  PaidBy(t, r.ufvk) \in Seq(Payee)
<1>1. r.ufvk.name \in {u.name : u \in Ufvk}  BY ScreeningAssumption
<1>2. Full[t].paid[r.ufvk.name] \in Seq(Payee)  BY <1>1, ScreeningAssumption
<1> QED  BY <1>2 DEF PaidBy

LEMMA ListedIs ==
  ASSUME NEW blocks \in Seq(Nat), NEW p \in Policy, NEW h \in 0 .. MaxTip,
         InOrder(blocks, p, h)
  PROVE  /\ \A i \in 1 .. Len(blocks) : blocks[i] \in Nat /\ blocks[i] <= MaxTip
         /\ \A x : x \in Listed(blocks) <=>
              \E i \in 1 .. Len(blocks) : \E j \in DOMAIN TxOf[blocks[i]] : x = <<i, j>>
         /\ Listed(blocks) \subseteq Nat \X Nat
         /\ IsFiniteSet(Listed(blocks))
<1>1. \A i \in 1 .. Len(blocks) : blocks[i] \in Nat /\ blocks[i] <= MaxTip
  BY ScreeningAssumption DEF InOrder
<1>2. DOMAIN blocks = 1 .. Len(blocks) /\ Len(blocks) \in Nat  OBVIOUS
<1>3. \A x : x \in Listed(blocks) <=>
        \E i \in 1 .. Len(blocks) : \E j \in DOMAIN TxOf[blocks[i]] : x = <<i, j>>
  BY <1>2 DEF Listed
<1> USE ScreeningAssumption
<1>4. Listed(blocks) \subseteq Nat \X Nat
  <2>1. \A i \in 1 .. Len(blocks) : DOMAIN TxOf[blocks[i]] \subseteq Nat
    BY <1>1, TxTyped
  <2> QED  BY <1>3, <2>1
<1>5. IsFiniteSet(Listed(blocks))
  <2> DEFINE n == 1 .. Len(blocks)
             f == [i \in n |-> {i} \X DOMAIN TxOf[blocks[i]]]
  <2>1. IsFiniteSet(n)
    <3>1. 1 \in Int /\ Len(blocks) \in Int  BY <1>2
    <3> QED  BY <3>1, FS_Interval
  <2>2. ASSUME NEW i \in n PROVE IsFiniteSet(f[i])
    <3>1. TxOf[blocks[i]] \in Seq(Tx)  BY <1>1, TxTyped
    <3>2. IsFiniteSet({i} \X DOMAIN TxOf[blocks[i]])  BY <3>1, FiniteSeq
    <3> QED  BY <3>2
  <2>3. Listed(blocks) = Spread(n, f)  BY <1>2 DEF Listed, Spread
  <2> HIDE DEF n, f
  <2> QED  BY <2>1, <2>2, <2>3, FiniteUnion
<1> QED  BY <1>1, <1>3, <1>4, <1>5

(* The payments of an artifact and the places they were found at are the   *)
(* same in number: x |-> the height of its block, and the rest of it.      *)
LEMMA CountedOnce ==
  ASSUME NEW blocks \in Seq(Nat), NEW r \in Request, NEW h \in 0 .. MaxTip,
         InOrder(blocks, r.policy, h), NEW raw,
         raw = {p \in Listed(blocks) : ~Full[TxIn(blocks, p)].empty},
         NEW s, s.blocks = blocks, s.artifact.scope = r.ufvk
  PROVE  LET found == Recipients(blocks, raw, r.ufvk)
         IN /\ IsFiniteSet(found) /\ Cardinality(found) = Cardinality(PaymentsIn(s))
            /\ Hits(blocks, found, r.ufvk, r.policy) = {} <=>
                 \A y \in PaymentsIn(s) : PaidAt(s, y[1])[y[2]] \notin r.policy.sanctioned
<1> DEFINE found == Recipients(blocks, raw, r.ufvk)
           n == 1 .. Len(blocks)
           Tr(i, j) == TxOf[blocks[i]][j]
           Paid(i, j) == PaidBy(Tr(i, j), r.ufvk)
           AtPlace(i, j, k) == <<<<i, j>>, k>>
           AtHeight(i, j, k) == <<<<blocks[i], j>>, k>>
           Here(i, j, k) == i \in n /\ j \in DOMAIN TxOf[blocks[i]]
                            /\ ~Full[Tr(i, j)].empty /\ k \in DOMAIN Paid(i, j)
<1>1. r.policy \in Policy  BY DEF Policy
<1>2. /\ \A i \in n : blocks[i] \in Nat /\ blocks[i] <= MaxTip
      /\ \A x : x \in Listed(blocks) <=>
           \E i \in n : \E j \in DOMAIN TxOf[blocks[i]] : x = <<i, j>>
      /\ IsFiniteSet(Listed(blocks))
  BY <1>1, ListedIs
<1>3. \A x : x \in found <=> \E i, j, k : Here(i, j, k) /\ x = AtPlace(i, j, k)
  BY <1>2 DEF Recipients, TxIn
<1>4. \A y : y \in PaymentsIn(s) <=> \E i, j, k : Here(i, j, k) /\ y = AtHeight(i, j, k)
  <2>1. Range(blocks) = {blocks[i] : i \in n}  BY DEF Range
  <2>2. ASSUME NEW i \in n, NEW j \in DOMAIN TxOf[blocks[i]]
        PROVE  PaidAt(s, <<blocks[i], j>>) = IF Full[Tr(i, j)].empty THEN <<>> ELSE Paid(i, j)
    BY DEF PaidAt, PaidBy, Unreadable
  <2>3. DOMAIN <<>> = {}  OBVIOUS
  <2> DEFINE T == UNION {{b} \X DOMAIN TxOf[b] : b \in Range(blocks)}
  <2>4. \A x : x \in T <=> \E b \in Range(blocks) : \E j \in DOMAIN TxOf[b] : x = <<b, j>>
    OBVIOUS
  <2>5. PaymentsIn(s) = UNION {{x} \X DOMAIN PaidAt(s, x) : x \in T}
    BY DEF PaymentsIn
  <2> HIDE DEF T
  <2>6. ASSUME NEW y \in PaymentsIn(s)
        PROVE  \E i, j, k : Here(i, j, k) /\ y = AtHeight(i, j, k)
    <3>1. PICK x \in T : y \in {x} \X DOMAIN PaidAt(s, x)  BY <2>5
    <3>2. PICK k \in DOMAIN PaidAt(s, x) : y = <<x, k>>  BY <3>1
    <3>3. PICK b \in Range(blocks) : \E j \in DOMAIN TxOf[b] : x = <<b, j>>  BY <2>4
    <3>4. PICK j \in DOMAIN TxOf[b] : x = <<b, j>>  BY <3>3
    <3>5. PICK i \in n : b = blocks[i]  BY <2>1
    <3>6. Here(i, j, k)  BY <2>2, <2>3, <3>2, <3>4, <3>5
    <3>7. y = AtHeight(i, j, k)  BY <3>2, <3>4, <3>5
    <3> HIDE DEF Here, AtHeight
    <3> QED  BY <3>6, <3>7
  <2>7. ASSUME NEW i, NEW j, NEW k, Here(i, j, k)
        PROVE  AtHeight(i, j, k) \in PaymentsIn(s)
    <3>1. <<blocks[i], j>> \in T  BY <2>1, <2>4, <2>7
    <3>2. k \in DOMAIN PaidAt(s, <<blocks[i], j>>)  BY <2>2, <2>7
    <3>3. PICK x \in T : x = <<blocks[i], j>>  BY <3>1
    <3>4. <<x, k>> \in {x} \X DOMAIN PaidAt(s, x)  BY <3>2, <3>3
    <3> QED  BY <2>5, <3>3, <3>4
  <2> HIDE DEF Here, AtHeight
  <2> QED  BY <2>6, <2>7
<1>5. IsFiniteSet(found)
  <2> DEFINE f == [p \in raw |-> {p} \X DOMAIN PaidBy(TxIn(blocks, p), r.ufvk)]
  <2>1. IsFiniteSet(raw)  BY <1>2, FS_Subset
  <2>2. ASSUME NEW p \in raw PROVE IsFiniteSet(f[p])
    <3>1. TxIn(blocks, p) \in Tx
      <4>1. PICK i \in n : \E j \in DOMAIN TxOf[blocks[i]] : p = <<i, j>>  BY <1>2
      <4>2. PICK j \in DOMAIN TxOf[blocks[i]] : p = <<i, j>>  BY <4>1
      <4>3. TxOf[blocks[i]][j] \in Tx  BY <1>2, TxTyped
      <4> QED  BY <4>2, <4>3 DEF TxIn
    <3>2. PaidBy(TxIn(blocks, p), r.ufvk) \in Seq(Payee)  BY <3>1, PaidTyped
    <3>3. IsFiniteSet({p} \X DOMAIN PaidBy(TxIn(blocks, p), r.ufvk))
      BY <3>2, FiniteSeq
    <3> QED  BY <3>3
  <2>3. found = Spread(raw, f)  BY DEF Recipients, Spread
  <2> HIDE DEF f, found
  <2> QED  BY <2>1, <2>2, <2>3, FiniteUnion
<1>6. ASSUME NEW i \in n, NEW k \in n, blocks[i] = blocks[k]  PROVE i = k
  <2>1. blocks[i] = r.policy.start + i - 1 /\ blocks[k] = r.policy.start + k - 1
    BY DEF InOrder
  <2> DEFINE a == r.policy.start
  <2>2. a \in Int  BY <1>1, ScreeningAssumption
  <2>3. i \in Int /\ k \in Int  OBVIOUS
  <2>4. a + i - 1 = a + k - 1  BY <1>6, <2>1
  <2> HIDE DEF a, n
  <2> QED  BY <2>2, <2>3, <2>4
<1>7. Cardinality(found) = Cardinality(PaymentsIn(s))
  <2> DEFINE g == [x \in found |-> AtHeight(x[1][1], x[1][2], x[2])]
  <2>1. ASSUME NEW i, NEW j, NEW k, Here(i, j, k)
        PROVE  AtPlace(i, j, k) \in found /\ g[AtPlace(i, j, k)] = AtHeight(i, j, k)
    <3>1. AtPlace(i, j, k) \in found  BY <1>3, <2>1
    <3>2. g[AtPlace(i, j, k)] =
            AtHeight(AtPlace(i, j, k)[1][1], AtPlace(i, j, k)[1][2], AtPlace(i, j, k)[2])
      BY <3>1
    <3>3. AtPlace(i, j, k)[1][1] = i /\ AtPlace(i, j, k)[1][2] = j
          /\ AtPlace(i, j, k)[2] = k
      OBVIOUS
    <3> QED  BY <3>1, <3>2, <3>3
  <2>2. g \in [found -> PaymentsIn(s)]
    <3>1. ASSUME NEW x \in found PROVE g[x] \in PaymentsIn(s)
      <4>1. PICK i, j, k : Here(i, j, k) /\ x = AtPlace(i, j, k)  BY <1>3
      <4>2. g[x] = AtHeight(i, j, k)
        <5> HIDE DEF g, Here, AtPlace, AtHeight
        <5> QED  BY <2>1, <4>1
      <4> QED  BY <1>4, <4>1, <4>2
    <3> HIDE DEF found, AtHeight
    <3> QED  BY <3>1 DEF g
  <2>3. ASSUME NEW x \in found, NEW y \in found, g[x] = g[y]  PROVE x = y
    <3>1. PICK i, j, k : Here(i, j, k) /\ x = AtPlace(i, j, k)  BY <1>3
    <3>2. PICK u, v, w : Here(u, v, w) /\ y = AtPlace(u, v, w)  BY <1>3
    <3>3. AtHeight(i, j, k) = AtHeight(u, v, w)
      <4> HIDE DEF g, Here, AtPlace, AtHeight
      <4> QED  BY <2>1, <2>3, <3>1, <3>2
    <3>4. blocks[i] = blocks[u] /\ j = v /\ k = w  BY <3>3
    <3>5. i = u  BY <1>6, <3>1, <3>2, <3>4
    <3> QED  BY <3>1, <3>2, <3>4, <3>5
  <2>4. ASSUME NEW y \in PaymentsIn(s)  PROVE \E x \in found : g[x] = y
    <3>1. PICK i, j, k : Here(i, j, k) /\ y = AtHeight(i, j, k)  BY <1>4
    <3> HIDE DEF g, Here, AtPlace, AtHeight
    <3> QED  BY <2>1, <3>1
  <2>5. ExistsBijection(found, PaymentsIn(s))
    <3> HIDE DEF g, found
    <3>1. g \in Injection(found, PaymentsIn(s))  BY <2>2, <2>3 DEF Injection, IsInjective
    <3>2. g \in Surjection(found, PaymentsIn(s))  BY <2>2, <2>4 DEF Surjection
    <3> QED  BY <3>1, <3>2 DEF ExistsBijection, Bijection
  <2> HIDE DEF found
  <2> QED  BY <1>5, <2>5, FS_Bijection
<1>8. Hits(blocks, found, r.ufvk, r.policy) = {} <=>
        \A y \in PaymentsIn(s) : PaidAt(s, y[1])[y[2]] \notin r.policy.sanctioned
  <2>1. ASSUME NEW i, NEW j, NEW k, Here(i, j, k)
        PROVE  /\ PaidBy(TxIn(blocks, AtPlace(i, j, k)[1]), r.ufvk)[AtPlace(i, j, k)[2]]
                    = Paid(i, j)[k]
               /\ PaidAt(s, AtHeight(i, j, k)[1])[AtHeight(i, j, k)[2]] = Paid(i, j)[k]
    <3>1. PaidAt(s, <<blocks[i], j>>) = Paid(i, j)
      BY <2>1 DEF PaidAt, PaidBy, Unreadable
    <3>2. TxIn(blocks, <<i, j>>) = Tr(i, j)  BY DEF TxIn
    <3> QED  BY <3>1, <3>2
  <2>2. Hits(blocks, found, r.ufvk, r.policy) = {} <=>
          \A i, j, k : Here(i, j, k) => Paid(i, j)[k] \notin r.policy.sanctioned
    <3> HIDE DEF found, AtPlace, AtHeight, Here, Paid
    <3> QED  BY <1>3, <2>1 DEF Hits
  <2>3. (\A y \in PaymentsIn(s) : PaidAt(s, y[1])[y[2]] \notin r.policy.sanctioned) <=>
          \A i, j, k : Here(i, j, k) => Paid(i, j)[k] \notin r.policy.sanctioned
    <3> HIDE DEF AtPlace, AtHeight, Here, Paid
    <3> QED  BY <1>4, <2>1
  <2> QED  BY <2>2, <2>3
<1> QED  BY <1>5, <1>7, <1>8

(* The artifact of a handler that has read everything counts right.        *)
CountsRight(s) ==
  /\ s.artifact.count = Cardinality(PaymentsIn(s))
  /\ (s.artifact.result = "PASS") <=>
       (\A x \in PaymentsIn(s) : PaidAt(s, x[1])[x[2]] \notin s.artifact.policy.sanctioned)

LEMMA ArtifactCounts ==
  ASSUME NEW t \in Scanning, NEW h \in 0 .. MaxTip, Read(t, h), t.todo = {},
         NEW s, s.artifact = ArtifactOf(t), s.blocks = t.blocks
  PROVE  CountsRight(s)
<1> DEFINE r == t.req
           found == Recipients(t.blocks, t.raw, r.ufvk)
           hits == Hits(t.blocks, found, r.ufvk, r.policy)
<1>1. r \in Request /\ t.blocks \in Seq(Nat)  BY DEF Scanning
<1>2. t.raw = {p \in Listed(t.blocks) : ~Full[TxIn(t.blocks, p)].empty}
      /\ InOrder(t.blocks, r.policy, h)
  BY DEF Read
<1>3. s.artifact.scope = r.ufvk /\ s.artifact.policy = r.policy
      /\ s.artifact.count = Cardinality(found)
      /\ s.artifact.result = IF Cardinality(hits) = 0 THEN "PASS" ELSE "FAIL"
  BY DEF ArtifactOf
<1> HIDE DEF found, hits, r
<1>4. /\ IsFiniteSet(found) /\ Cardinality(found) = Cardinality(PaymentsIn(s))
      /\ hits = {} <=>
           \A y \in PaymentsIn(s) : PaidAt(s, y[1])[y[2]] \notin r.policy.sanctioned
  BY <1>1, <1>2, <1>3, CountedOnce DEF found, hits
<1>5. hits \subseteq found  BY DEF hits, Hits
<1>6. Cardinality(hits) = 0 <=> hits = {}
  <2>1. IsFiniteSet(hits)  BY <1>4, <1>5, FS_Subset
  <2> QED  BY <2>1, FS_EmptySet
<1> QED  BY <1>3, <1>4, <1>6 DEF CountsRight

-----------------------------------------------------------------------------
LEMMA InitCounts == Init => CountInv
BY ScreeningAssumption
DEF Init, CountInv, WorldOK, HandlerOK, CountsEachPaymentOnce, Idle

(* What was read stays in the chain as it grows.                           *)
LEMMA HandlerStays ==
  ASSUME WorldOK, NEW t, HandlerOK(t, tip), NEW h \in 0 .. MaxTip, tip <= h
  PROVE  HandlerOK(t, h)
<1>1. ASSUME t \in Scanning, Read(t, tip)  PROVE Read(t, h)
  <2>1. ASSUME NEW i \in 1 .. Len(t.blocks), t.blocks[i] <= tip PROVE t.blocks[i] <= h
    <3>1. t.blocks \in Seq(Nat)  BY <1>1 DEF Scanning
    <3>2. tip \in Int /\ h \in Int  BY ScreeningAssumption DEF WorldOK
    <3>3. t.blocks[i] \in Nat  BY <2>1, <3>1
    <3> QED  BY <2>1, <3>2, <3>3
  <2> QED  BY <1>1, <2>1 DEF Read, InOrder
<1> QED  BY <1>1 DEF HandlerOK

(* A step of one handler to a state that is right keeps the rest right.    *)
LEMMA OneHandler ==
  ASSUME CountInv, NEW c \in Client, NEW t, HandlerOK(t, tip),
         task' = [task EXCEPT ![c] = t], tip' = tip, WorldOK',
         \A s \in scans' : s \in scans \/ CountsRight(s)
  PROVE  CountInv'
<1>1. task' = [d \in Client |-> task'[d]] /\ \A d \in Client : HandlerOK(task'[d], tip')
  BY DEF CountInv
<1>2. \A s \in scans' : CountsRight(s)
  BY DEF CountInv, CountsEachPaymentOnce, CountsRight
<1>3. CountsEachPaymentOnce'
  BY <1>2 DEF CountsEachPaymentOnce, CountsRight, PaymentsIn, PaidAt
<1> QED  BY <1>1, <1>3 DEF CountInv

LEMMA Drops ==
  ASSUME CountInv, NEW c \in Client, Answered(c), scans' = scans,
         faults' \in 0 .. MaxFaults, verdict' = verdict
  PROVE  CountInv'
<1>1. HandlerOK(Idle, tip)  BY DEF HandlerOK, Idle
<1>2. WorldOK'  BY DEF Answered, WorldOK, CountInv
<1> QED  BY <1>1, <1>2, OneHandler DEF Answered

LEMMA FaultTyped == ASSUME WorldOK, Fault PROVE faults' \in 0 .. MaxFaults
BY ScreeningAssumption DEF WorldOK, Fault

(* The blocks of the range the endpoint has, in order.                     *)
LEMMA RangeInOrder ==
  ASSUME NEW p \in Policy, NEW h \in Nat, NEW last \in Int, last <= p.end, last <= h,
         NEW got, got = <<>> \o [i \in 1 .. (last - p.start + 1) |-> p.start + i - 1]
  PROVE  got \in Seq(Nat) /\ InOrder(got, p, h)
<1> DEFINE n == last - p.start + 1
           m == IF n >= 0 THEN n ELSE 0
           g == [i \in 1 .. m |-> p.start + i - 1]
<1>1. p.start \in Nat /\ p.end \in Nat  BY ScreeningAssumption
<1>2. m \in Nat /\ 1 .. n = 1 .. m  BY <1>1
<1>3. g \in Seq(Nat) /\ Len(g) = m
  <2>1. \A i \in 1 .. m : p.start + i - 1 \in Nat  BY <1>1
  <2> HIDE DEF m
  <2> QED  BY <1>2, <2>1
<1>4. got = g  BY <1>2, <1>3
<1>5. ASSUME NEW i \in 1 .. m
      PROVE  g[i] = p.start + i - 1 /\ g[i] <= p.end /\ g[i] <= h
  <2>1. i <= last - p.start + 1 /\ i \in Int  BY <1>1, <1>5
  <2> QED  BY <1>1, <2>1
<1> HIDE DEF g, m
<1> QED  BY <1>3, <1>4, <1>5 DEF InOrder

LEMMA ListedTyped ==
  ASSUME NEW t \in Scanning, NEW h \in 0 .. MaxTip, InOrder(t.blocks, t.req.policy, h)
  PROVE  Listed(t.blocks) \subseteq Nat \X Nat
<1>1. t.blocks \in Seq(Nat) /\ t.req \in Request  BY DEF Scanning
<1>2. t.req.policy \in Policy  BY <1>1 DEF Policy
<1> QED  BY <1>1, <1>2, ListedIs

LEMMA HandlerCounts ==
  ASSUME CountInv, NEW c \in Client, Handler(c)
  PROVE  CountInv'
<1> DEFINE t == task[c]
<1>1. t.pc \in {"tip", "range", "txs"} => t \in Scanning /\ Read(t, tip)
  BY DEF CountInv, HandlerOK
<1>2. WorldOK /\ tip \in 0 .. MaxTip /\ tip \in Nat
  BY ScreeningAssumption DEF CountInv, WorldOK
<1>3. \A u : task' = [task EXCEPT ![c] = u] => task'[c] = u
  BY DEF CountInv
<1>4. CASE TipArrives(c)
  <2>1. CASE Answered(c)
    BY <1>2, <1>4, <2>1, Drops DEF TipArrives, WorldOK, signedVars
  <2>2. CASE ~Answered(c)
    <3> DEFINE u == [t EXCEPT !.pc = "range", !.at = "primary"]
    <3>1. /\ task' = [task EXCEPT ![c].pc = "range", ![c].at = "primary"]
          /\ UNCHANGED <<requests, lock, build, tip, clock, faults, scans, verdict>>
          /\ t.pc = "tip"
      BY <1>4, <2>2 DEF TipArrives, signedVars
    <3>2. task' = [task EXCEPT ![c] = u]  BY <3>1
    <3>3. u \in Scanning /\ Read(u, tip)  BY <1>1, <3>1 DEF Scanning, Read
    <3>4. HandlerOK(u, tip)  BY <3>1, <3>3 DEF HandlerOK, Scanning
    <3>5. WorldOK'  BY <1>2, <3>1 DEF WorldOK
    <3> HIDE DEF u
    <3> QED  BY <3>1, <3>2, <3>4, <3>5, OneHandler
  <2> QED  BY <2>1, <2>2
<1>5. CASE RangeArrives(c)
  <2> DEFINE p == t.req.policy
             last == Least(p.end, TipOf(t.at))
             got == t.blocks \o [i \in 1 .. (last - p.start + 1) |-> p.start + i - 1]
             u == [t EXCEPT !.pc = "txs", !.at = "primary", !.blocks = got,
                            !.todo = Listed(got)]
  <2>1. t.pc = "range" /\ t \in Scanning /\ Read(t, tip)  BY <1>1, <1>5 DEF RangeArrives
  <2>2. task' = [task EXCEPT ![c].pc = "txs", ![c].at = "primary", ![c].blocks = got,
                             ![c].todo = Listed(got)]
        /\ UNCHANGED <<worldVars, requests, lock, scans, verdict>>
    BY <1>5 DEF RangeArrives, signedVars
  <2>3. task' = [task EXCEPT ![c] = u]  BY <2>2
  <2>4. p \in Policy /\ p.end \in Nat
    BY <2>1, ScreeningAssumption DEF Scanning, Policy
  <2>5. TipOf(t.at) \in Int /\ TipOf(t.at) <= tip
    BY <1>2, ScreeningAssumption DEF TipOf
  <2>6. last \in Int /\ last <= p.end /\ last <= tip
    BY <1>2, <2>4, <2>5 DEF Least
  <2>7. t.blocks = <<>>  BY <2>1 DEF Read
  <2>8. got \in Seq(Nat) /\ InOrder(got, p, tip)
    <3> HIDE DEF p, last
    <3> QED  BY <1>2, <2>4, <2>6, <2>7, RangeInOrder
  <2>9. Listed(got) \subseteq Nat \X Nat
    <3> HIDE DEF got, p
    <3> QED  BY <1>2, <2>4, <2>8, ListedIs
  <2> HIDE DEF got, last
  <2>10. Listed(<<>>) = {}  BY DEF Listed
  <2>11. t.raw = {}  BY <2>1, <2>7, <2>10 DEF Read
  <2>12. u.pc = "txs" /\ u.req = t.req /\ u.blocks = got /\ u.todo = Listed(got) /\ u.raw = t.raw
    BY <2>1 DEF Scanning
  <2>13. u \in Scanning  BY <2>1, <2>8, <2>9 DEF Scanning
  <2> HIDE DEF u
  <2>14. Read(u, tip)  BY <2>8, <2>11, <2>12 DEF Read
  <2>15. HandlerOK(u, tip)  BY <2>12, <2>13, <2>14 DEF HandlerOK, Scanning
  <2>16. WorldOK'  BY <1>2, <2>2 DEF WorldOK, worldVars
  <2> QED  BY <2>2, <2>3, <2>15, <2>16, OneHandler DEF worldVars
<1>6. CASE TxArrives(c)
  <2>1. t.pc = "txs" /\ t \in Scanning /\ Read(t, tip)  BY <1>1, <1>6 DEF TxArrives
  <2>2. PICK p \in t.todo :
          task' = [task EXCEPT ![c].todo = @ \ {p}, ![c].at = "primary",
            ![c].raw = IF Full[TxIn(task[c].blocks, p)].empty THEN @ ELSE @ \cup {p}]
    BY <1>6 DEF TxArrives
  <2> DEFINE raw == IF Full[TxIn(t.blocks, p)].empty THEN t.raw ELSE t.raw \cup {p}
             u == [t EXCEPT !.todo = t.todo \ {p}, !.at = "primary", !.raw = raw]
  <2>3. task' = [task EXCEPT ![c] = u]  BY <2>2
  <2>4. UNCHANGED <<worldVars, requests, lock, scans, verdict>>
    BY <1>6 DEF TxArrives, signedVars
  <2>5. u.pc = "txs" /\ u.req = t.req /\ u.blocks = t.blocks /\ u.todo = t.todo \ {p}
        /\ u.raw = raw
    BY <2>1 DEF Scanning
  <2>6. u \in Scanning
    <3>1. t.todo \subseteq Nat \X Nat /\ raw \subseteq Nat \X Nat  BY <2>1 DEF Scanning
    <3> HIDE DEF raw
    <3> QED  BY <2>1, <3>1 DEF Scanning
  <2> HIDE DEF u
  <2>7. Read(u, tip)
    <3>1. p \in Listed(t.blocks) /\ t.todo \subseteq Listed(t.blocks)  BY <2>1 DEF Read
    <3>2. raw = {q \in Listed(t.blocks) \ (t.todo \ {p}) : ~Full[TxIn(t.blocks, q)].empty}
      BY <2>1, <3>1 DEF Read
    <3> HIDE DEF raw
    <3> QED  BY <2>1, <2>5, <3>1, <3>2 DEF Read
  <2>8. HandlerOK(u, tip)  BY <2>5, <2>6, <2>7 DEF HandlerOK, Scanning
  <2>9. WorldOK'  BY <1>2, <2>4 DEF WorldOK, worldVars
  <2> QED  BY <2>3, <2>4, <2>8, <2>9, OneHandler DEF worldVars
<1>7. CASE CallFails(c)
  <2>1. t \in Scanning /\ Read(t, tip) /\ faults' \in 0 .. MaxFaults
    BY <1>1, <1>2, <1>7, FaultTyped DEF CallFails
  <2>2. CASE Answered(c)
    BY <1>7, <2>1, <2>2, Drops DEF CallFails, signedVars
  <2>3. CASE ~Answered(c)
    <3>1. PICK h : task' = [task EXCEPT ![c].at = "backup",
                     ![c].blocks = IF task[c].pc = "range"
                       THEN BlocksOf([i \in 1 .. (h - task[c].req.policy.start + 1) |->
                                        task[c].req.policy.start + i - 1])
                       ELSE @]
      BY <1>7, <2>3 DEF CallFails
    <3>2. UNCHANGED <<requests, lock, build, tip, clock, scans, verdict>>
      BY <1>7, <2>3 DEF CallFails, signedVars
    <3>3. t.pc = "range" => t.blocks = <<>>  BY <2>1 DEF Read
    <3> DEFINE u == [t EXCEPT !.at = "backup"]
    <3>4. u = [t EXCEPT !.at = "backup", !.blocks = t.blocks]
          /\ u \in Scanning /\ u.pc = t.pc /\ u.req = t.req /\ u.blocks = t.blocks
          /\ u.todo = t.todo /\ u.raw = t.raw
      BY <2>1 DEF Scanning
    <3>5. task' = [task EXCEPT ![c] = u]
      BY <3>1, <3>3, <3>4 DEF BlocksOf
    <3> HIDE DEF u
    <3>6. Read(u, tip)  BY <2>1, <3>4 DEF Read
    <3>7. HandlerOK(u, tip)  BY <3>4, <3>6 DEF HandlerOK, Scanning
    <3>8. WorldOK'  BY <1>2, <2>1, <3>2 DEF WorldOK
    <3> QED  BY <3>2, <3>5, <3>7, <3>8, OneHandler
  <2> QED  BY <2>2, <2>3
<1>8. CASE Evaluate(c)
  <2>1. t.pc = "txs" /\ t.todo = {} /\ t \in Scanning /\ Read(t, tip)
    BY <1>1, <1>8 DEF Evaluate
  <2>2. CASE Answered(c) /\ UNCHANGED scans
    BY <1>2, <1>8, <2>2, Drops DEF Evaluate, WorldOK
  <2>3. CASE ~(Answered(c) /\ UNCHANGED scans)
    <3>1. PICK a, s : /\ a = ArtifactOf(t)
                      /\ s = [artifact |-> a, blocks |-> t.blocks, build |-> build]
      OBVIOUS
    <3>2. /\ task' = [task EXCEPT ![c] = [pc |-> "quote", artifact |-> a]]
          /\ scans' = scans \cup {s}
          /\ UNCHANGED <<requests, lock, build, tip, clock, faults, verdict>>
      BY <1>8, <2>3, <3>1 DEF Evaluate
    <3>3. CountsRight(s)  BY <1>2, <2>1, <3>1, ArtifactCounts
    <3>4. HandlerOK([pc |-> "quote", artifact |-> a], tip)  BY DEF HandlerOK
    <3>5. WorldOK'  BY <1>2, <3>2 DEF WorldOK
    <3> QED  BY <3>2, <3>3, <3>4, <3>5, OneHandler
  <2> QED  BY <2>2, <2>3
<1>9. CASE QuoteArrives(c)
  BY <1>2, <1>9, Drops DEF QuoteArrives, WorldOK
<1>10. CASE QuoteFails(c) \/ Disconnect(c)
  BY <1>2, <1>10, FaultTyped, Drops DEF QuoteFails, Disconnect, signedVars
<1> QED
  BY <1>4, <1>5, <1>6, <1>7, <1>8, <1>9, <1>10 DEF Handler

LEMMA StepCounts ==
  ASSUME CountInv, [Next]_vars
  PROVE  CountInv'
<1>u. ASSUME WorldOK', tip' \in 0 .. MaxTip, tip <= tip', UNCHANGED <<task, scans>>
      PROVE  CountInv'
  <2>1. \A c \in Client : HandlerOK(task'[c], tip')
    BY <1>u, HandlerStays DEF CountInv
  <2>2. CountsEachPaymentOnce'
    BY <1>u DEF CountInv, CountsEachPaymentOnce, PaymentsIn, PaidAt
  <2> QED  BY <1>u, <2>1, <2>2 DEF CountInv
<1>w. WorldOK /\ tip \in 0 .. MaxTip /\ tip \in Nat
  BY ScreeningAssumption DEF CountInv, WorldOK
<1>1. CASE UNCHANGED vars
  <2>1. WorldOK'  BY <1>1, <1>w DEF vars, worldVars, serverVars, WorldOK
  <2> QED  BY <1>1, <1>u, <1>w, <2>1 DEF vars, worldVars, serverVars, signedVars
<1>2. ASSUME NEW c \in Client, Handler(c)  PROVE CountInv'
  BY <1>2, HandlerCounts
<1>3. ASSUME NEW c \in Client, NEW r \in Request, Screen(c, r)  PROVE CountInv'
  <2>1. requests' \in 0 .. MaxRequests
    BY <1>3, <1>w, ScreeningAssumption DEF Screen, WorldOK
  <2>2. CASE lock = None /\ Admissible(r)
    <3> DEFINE t == [pc |-> "tip", req |-> r, at |-> "primary", now |-> clock,
                     blocks |-> <<>>, todo |-> {}, raw |-> {}]
    <3>1. /\ task' = [task EXCEPT ![c] = t] /\ lock' = c
          /\ UNCHANGED <<worldVars, scans, verdict>>
      BY <1>3, <2>2 DEF Screen, signedVars
    <3>2. t \in Scanning /\ Read(t, tip)
      <4>1. Listed(<<>>) = {}  BY DEF Listed
      <4> QED  BY <1>w, <4>1 DEF Scanning, Read, InOrder, WorldOK
    <3>3. HandlerOK(t, tip)  BY <3>2 DEF HandlerOK
    <3>4. WorldOK'  BY <1>w, <2>1, <3>1 DEF WorldOK, worldVars
    <3> HIDE DEF t
    <3> QED  BY <3>1, <3>3, <3>4, OneHandler DEF worldVars
  <2>3. CASE ~(lock = None /\ Admissible(r))
    <3>1. UNCHANGED <<worldVars, lock, task, signedVars, verdict>>
      BY <1>3, <2>3 DEF Screen
    <3>2. WorldOK'  BY <1>w, <2>1, <3>1 DEF WorldOK, worldVars
    <3> QED  BY <1>u, <1>w, <3>1, <3>2 DEF worldVars, signedVars
  <2> QED  BY <2>2, <2>3
<1>4. CASE Attestation
  <2>1. WorldOK'  BY <1>4, <1>w DEF Attestation, worldVars, serverVars, WorldOK
  <2> QED  BY <1>4, <1>u, <1>w, <2>1 DEF Attestation, worldVars, serverVars
<1>5. CASE Redeploy
  <2>1. WorldOK'  BY <1>5, <1>w DEF Redeploy, signedVars, WorldOK
  <2>2. task' = [c \in Client |-> task'[c]] /\ \A c \in Client : HandlerOK(task'[c], tip')
    BY <1>5 DEF Redeploy, HandlerOK, Idle
  <2>3. CountsEachPaymentOnce'
    BY <1>5 DEF Redeploy, signedVars, CountInv, CountsEachPaymentOnce, PaymentsIn, PaidAt
  <2> QED  BY <2>1, <2>2, <2>3 DEF CountInv
<1>6. CASE Tick
  <2>1. WorldOK'
    BY <1>6, <1>w, ScreeningAssumption DEF Tick, serverVars, WorldOK
  <2> QED  BY <1>6, <1>u, <1>w, <2>1 DEF Tick, serverVars, signedVars
<1>7. CASE Mine
  <2>1. tip' \in FirstTip .. MaxTip /\ tip' \in 0 .. MaxTip /\ tip <= tip'
    BY <1>7, <1>w, ScreeningAssumption DEF Mine, WorldOK
  <2>2. WorldOK'  BY <1>7, <1>w, <2>1 DEF Mine, serverVars, WorldOK
  <2> QED  BY <1>7, <1>u, <2>1, <2>2 DEF Mine, serverVars, signedVars
<1>8. ASSUME NEW a \in Presented, NEW q \in quotes, NEW p \in Policy, NEW i \in Intent,
             VerifyBundle(a, q, p, i)
      PROVE  CountInv'
  <2>1. UNCHANGED <<tip, clock, faults, build, requests, lock, task, scans>>
        /\ verdict'.policy = p /\ verdict'.intent = i
    BY <1>8 DEF VerifyBundle, worldVars, serverVars, signedVars
  <2>2. WorldOK'  BY <1>w, <2>1 DEF WorldOK
  <2> QED  BY <1>u, <1>w, <2>1, <2>2
<1> QED
  BY <1>1, <1>2, <1>3, <1>4, <1>5, <1>6, <1>7, <1>8 DEF Next

(* What a handler has read by now has the types the model gives it.        *)
LEMMA CountTyped == CountInv => TypeOK
<1> SUFFICES ASSUME CountInv PROVE TypeOK
  OBVIOUS
<1>1. ASSUME NEW c \in Client, task[c].pc \in {"tip", "range", "txs"}
      PROVE  /\ task[c].req \in Request /\ task[c].at \in {"primary", "backup"}
             /\ Range(task[c].blocks) \subseteq
                  task[c].req.policy.start .. Least(task[c].req.policy.end, tip)
             /\ task[c].todo \cup task[c].raw \subseteq Listed(task[c].blocks)
  <2> DEFINE t == task[c]
             p == t.req.policy
  <2>1. t \in Scanning /\ Read(t, tip)  BY <1>1 DEF CountInv, HandlerOK
  <2>2. p.start \in Nat /\ p.end \in Nat
    BY <2>1, ScreeningAssumption DEF Scanning, Policy
  <2>3. tip \in Int  BY ScreeningAssumption DEF CountInv, WorldOK
  <2>4. t.blocks \in Seq(Nat) /\ t.req \in Request /\ t.at \in {"primary", "backup"}
    BY <2>1 DEF Scanning
  <2>5. ASSUME NEW i \in 1 .. Len(t.blocks)
        PROVE  t.blocks[i] \in p.start .. Least(p.end, tip)
    <3>1. t.blocks[i] = p.start + i - 1 /\ t.blocks[i] <= p.end /\ t.blocks[i] <= tip
      BY <2>1 DEF Read, InOrder
    <3>2. i \in Nat /\ i >= 1  BY <2>4
    <3> HIDE DEF t, p
    <3> QED  BY <2>2, <2>3, <3>1, <3>2 DEF Least
  <2>6. Range(t.blocks) = {t.blocks[i] : i \in 1 .. Len(t.blocks)}
    BY <2>4 DEF Range
  <2>7. t.todo \cup t.raw \subseteq Listed(t.blocks)  BY <2>1 DEF Read
  <2> QED  BY <2>4, <2>5, <2>6, <2>7
<1> QED  BY <1>1 DEF CountInv, WorldOK, TypeOK

-----------------------------------------------------------------------------
(***************************************************************************)
(* Types; in particular no handler holds a block outside its range or      *)
(* above the tip, or a transaction no block of it names.                   *)
(***************************************************************************)
THEOREM TypeCorrect == Spec => []TypeOK
<1>1. CountInv /\ [Next]_vars => CountInv'  BY StepCounts
<1>2. QED  BY <1>1, InitCounts, CountTyped, PTL DEF Spec

(***************************************************************************)
(* Every artifact counts each payment of each block that was read once,    *)
(* and says PASS exactly when none of them is sanctioned, for every chain, *)
(* range and policy, whatever endpoint answered after how many failures.   *)
(***************************************************************************)
THEOREM ArtifactsCountOnce == Spec => []CountsEachPaymentOnce
<1>1. CountInv /\ [Next]_vars => CountInv'  BY StepCounts
<1>2. CountInv => CountsEachPaymentOnce  BY DEF CountInv
<1>3. QED  BY <1>1, <1>2, InitCounts, PTL DEF Spec
=============================================================================
