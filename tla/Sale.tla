-------------------------------- MODULE Sale --------------------------------
(***************************************************************************)
(* A sale from end to end: the creator's page (creator/src/main.tsx) makes *)
(* a drop, uploads the encrypted content, attests the enclave and posts    *)
(* the sealed key; the indexer opens it into the catalog; the buyer's page *)
(* reads the catalog, the buyer pays, the scanner answers with the key of  *)
(* the drop, and the page opens the content it was shown.                  *)
(*                                                                         *)
(* An offer stands for one run of the creator's form: encryptContent draws *)
(* a fresh k_drop and nonce, so that a key names its content as well.      *)
(* A request may be handled long after its sender gave up on it, or never. *)
(* The scanner is what it promises (Scanner, DispatchLedger): a confirmed  *)
(* payment is judged by its first note against the catalog of the moment,  *)
(* if it comes to read it.                                                 *)
(***************************************************************************)
EXTENDS CatalogStore

CONSTANTS
  None,         \* no form under way
  MaxBuilds,    \* bound: images deployed, each with its own measurement
  MaxRestarts   \* bound: restarts of the process

ASSUME NoneAssumption == None \notin Offers
ASSUME BoundsAssumption == {MaxBuilds, MaxRestarts} \subseteq Nat

VARIABLES
  \* the indexer
  build,      \* the image that runs: its measurement and its sealing key
  life,       \* how often the process has started
  content,    \* content bucket, on disk: keys of the contents stored
  known,      \* history: <<k_drop, build>> of every payload opened
  unread,     \* <<t, u>>: u's scan has passed t by, or is stuck before it
  \* requests on their way to it
  uploads,    \* PUT /bucket/h_content, as the key of the content
  posts,      \* POST /provision: [offer, to], `to` the build it is sealed to
  replies,    \* answers to posts: [offer, status, life]
  \* the creators' pages
  pin,        \* the measurement each creator expects
  stage,      \* the stage of the form
  expected,   \* the measurement the form was sent with
  draft,      \* the drop being provisioned
  used,       \* keys drawn so far
  trusted,    \* history: <<k_drop, build pinned when the form was sent>>
  reported,   \* history: replies a page reported as "provisioned"
  taken,      \* history: offers the catalog ever accepted
  \* buyers, named by their ephemeral keys
  view,       \* the catalog as the buyer's page last read it
  want,       \* the offer each one bought, as a set of at most one
  chain,      \* confirmed payments
  answers,    \* dispatch blobs: [tx, ufvk, drop, to, key, life]
  opened,     \* buyers whose content is decrypted
  skipped     \* blobs a page read half-written, and will not read again

indexerVars == <<build, life, content, known, unread>>
netVars == <<uploads, posts, replies>>
formVars == <<pin, stage, expected, draft, used, trusted, reported>>
buyerVars == <<view, want, opened, skipped>>
vars == <<catalogVars, taken, indexerVars, netVars, formVars, buyerVars, chain,
          answers>>

Build == 0 .. MaxBuilds
Post == [offer : Offers, to : Build]
Reply == [offer : Offers, status : {200, 400, 409}, life : Nat]
Answer ==
  [tx : Tx, ufvk : Ufvk, drop : Drop, to : EPub, key : Key, life : Nat]

(***************************************************************************)
(* Every variable has its type; a form under way has a draft.              *)
(***************************************************************************)
TypeOK ==
  /\ CatalogTypeOK
  /\ taken \subseteq Offers
  /\ build \in Build
  /\ life \in Nat
  /\ content \subseteq Key
  /\ known \subseteq Key \X Build
  /\ unread \subseteq Tx \X Ufvk
  /\ uploads \subseteq Key
  /\ posts \subseteq Post
  /\ replies \subseteq Reply
  /\ pin \in [Ufvk -> Build]
  /\ stage \in [Ufvk -> {"idle", "upload", "attest", "provision"}]
  /\ expected \in [Ufvk -> Build]
  /\ draft \in [Ufvk -> Offers \cup {None}]
  /\ \A c \in Ufvk : stage[c] # "idle" => draft[c] \in Offers
  /\ used \subseteq Key
  /\ trusted \subseteq Key \X Build
  /\ reported \subseteq Reply
  /\ view \in [EPub -> SUBSET Offers]
  /\ want \in [EPub -> SUBSET Offers]
  /\ chain \subseteq Tx
  /\ answers \subseteq Answer
  /\ opened \subseteq EPub
  /\ skipped \subseteq answers

Init ==
  /\ CatalogInit
  /\ taken = {}
  /\ build = 0
  /\ life = 0
  /\ content = {}
  /\ known = {}
  /\ unread = {}
  /\ uploads = {}
  /\ posts = {}
  /\ replies = {}
  /\ pin = [c \in Ufvk |-> 0]
  /\ stage = [c \in Ufvk |-> "idle"]
  /\ expected = [c \in Ufvk |-> 0]
  /\ draft = [c \in Ufvk |-> None]
  /\ used = {}
  /\ trusted = {}
  /\ reported = {}
  /\ view = [b \in EPub |-> {}]
  /\ want = [b \in EPub |-> {}]
  /\ chain = {}
  /\ answers = {}
  /\ opened = {}
  /\ skipped = {}

-----------------------------------------------------------------------------
(* The creator's page: submit().                                           *)

Goto(c, s) == stage' = [stage EXCEPT ![c] = s]

(* submit() returns: its locals are gone.                                  *)
Leave(c) == Goto(c, "idle") /\ draft' = [draft EXCEPT ![c] = None]

(* The form is sent: the content is encrypted under a fresh key, and its   *)
(* upload leaves.  The expected measurement is the one in the form now.    *)
Submit(c, o) ==
  /\ stage[c] = "idle"
  /\ o \in Offers /\ o.ufvk = c /\ o.key \notin used
  /\ Goto(c, "upload")
  /\ draft' = [draft EXCEPT ![c] = o]
  /\ expected' = [expected EXCEPT ![c] = pin[c]]
  /\ used' = used \cup {o.key}
  /\ trusted' = trusted \cup {<<o.key, pin[c]>>}
  /\ uploads' = uploads \cup {o.key}
  /\ UNCHANGED <<catalogVars, taken, indexerVars, posts, replies, pin,
                 reported, buyerVars, chain, answers>>

\* Faulty: the answer to the upload is not awaited.
UploadUnawaited(c) ==
  /\ stage[c] = "upload"
  /\ Goto(c, "attest")
  /\ UNCHANGED <<catalogVars, taken, indexerVars, netVars, pin, draft,
                 expected, used, trusted, reported, buyerVars, chain,
                 answers>>

\* Faulty: the form is cleared when its upload is answered.
UploadedClears(c) ==
  /\ stage[c] = "upload"
  /\ draft[c].key \in content
  /\ Goto(c, "attest")
  /\ draft' = [draft EXCEPT ![c] = None]
  /\ UNCHANGED <<catalogVars, taken, indexerVars, netVars, pin, expected,
                 used, trusted, reported, buyerVars, chain, answers>>

(* The upload is answered with 200.                                        *)
Uploaded(c) ==
  /\ stage[c] = "upload"
  /\ draft[c].key \in content
  /\ Goto(c, "attest")
  /\ UNCHANGED <<catalogVars, taken, indexerVars, netVars, pin, draft,
                 expected, used, trusted, reported, buyerVars, chain,
                 answers>>

\* Faulty: the measurement of the quote is not compared with the pinned one.
AttestsAny(c) == build \in Build

(* verifyAttestationOrThrow: the quote of the build that runs shows the    *)
(* measurement the form expected (its report_data binds the build's key).  *)
Attests(c) == expected[c] = build

(* The payload is sealed to the attested key, and its post leaves.         *)
Attested(c) ==
  /\ stage[c] = "attest"
  /\ Attests(c)
  /\ Goto(c, "provision")
  /\ posts' = posts \cup {[offer |-> draft[c], to |-> build]}
  /\ UNCHANGED <<catalogVars, taken, indexerVars, uploads, replies, pin,
                 draft, expected, used, trusted, reported, buyerVars, chain,
                 answers>>

\* Faulty: any answer to the post counts as success.
ProvisionedAnyhow(c) ==
  /\ stage[c] = "provision"
  /\ \E r \in replies :
       /\ r.offer = draft[c]
       /\ reported' = reported \cup {r}
  /\ Leave(c)
  /\ UNCHANGED <<catalogVars, taken, indexerVars, netVars, pin, expected,
                 used, trusted, buyerVars, chain, answers>>

(* The post is answered with 200: the page reports the drop provisioned.   *)
Provisioned(c) ==
  /\ stage[c] = "provision"
  /\ \E r \in replies :
       /\ r.offer = draft[c] /\ r.status = 200
       /\ reported' = reported \cup {r}
  /\ Leave(c)
  /\ UNCHANGED <<catalogVars, taken, indexerVars, netVars, pin, expected,
                 used, trusted, buyerVars, chain, answers>>

(* A stage fails: no answer within 15 s, an error status, a quote that     *)
(* does not verify.  The page reports it; what was sent is not recalled.   *)
StageFails(c) ==
  /\ stage[c] # "idle"
  /\ Leave(c)
  /\ UNCHANGED <<catalogVars, taken, indexerVars, netVars, pin, expected,
                 used, trusted, reported, buyerVars, chain, answers>>

(* The creator pins the measurement published with the image that runs.    *)
Repin(c) ==
  /\ pin[c] # build
  /\ pin' = [pin EXCEPT ![c] = build]
  /\ UNCHANGED <<catalogVars, taken, indexerVars, netVars, stage, draft,
                 expected, used, trusted, reported, buyerVars, chain,
                 answers>>

-----------------------------------------------------------------------------
(* The indexer.                                                            *)

(* bucket_put_h.                                                           *)
HandleUpload(x) ==
  /\ x \in uploads
  /\ uploads' = uploads \ {x}
  /\ content' = content \cup {x}
  /\ UNCHANGED <<catalogVars, taken, build, life, known, unread, posts,
                 replies, formVars, buyerVars, chain, answers>>

(* open_provision: only the build the payload is sealed to can open it.    *)
CanOpen(m) == m.to = build

ReplyTo(m, code) ==
  replies' = replies \cup {[offer |-> m.offer, status |-> code, life |-> life]}

(* provision_h: the payload opens, the catalog takes the offer; 200.       *)
HandlePost(m) ==
  /\ m \in posts
  /\ CanOpen(m)
  /\ posts' = posts \ {m}
  /\ known' = known \cup {<<m.offer.key, build>>}
  /\ Insert(m.offer)
  /\ taken' = taken \cup {m.offer}
  /\ ReplyTo(m, 200)
  /\ UNCHANGED <<build, life, content, unread, uploads, formVars, buyerVars,
                 chain, answers>>

(* provision_h: 400 when the payload does not open, or opens and holds an  *)
(* address or a viewing key that is refused (the model does not tell which *)
(* do); 409 when the drop is another creator's.  Open, its key is known.   *)
RefusePost(m) ==
  /\ m \in posts
  /\ \/ ReplyTo(m, 400)
     \/ CanOpen(m) /\ ~ OwnedBy(m.offer) /\ ReplyTo(m, 409)
  /\ posts' = posts \ {m}
  /\ known' = IF CanOpen(m) THEN known \cup {<<m.offer.key, build>>} ELSE known
  /\ UNCHANGED <<catalogVars, taken, build, life, content, unread, uploads,
                 formVars, buyerVars, chain, answers>>

(* The payments on the chain, with the creators they go to.                *)
Incoming == {p \in chain \X Ufvk : NoteIdx(p[1], p[2]) # {}}

(* The process starts again, with the same image or with the next one: the *)
(* catalog is lost, the buckets stay.  The chain is read again from the    *)
(* height configured or, when none is, from the tip on.                    *)
Restart ==
  /\ life < MaxRestarts
  /\ life' = life + 1
  /\ build' \in {build, build + 1} \cap Build
  /\ CatalogRestart
  /\ unread' \in {{}, Incoming}
  /\ UNCHANGED <<taken, content, known, netVars, formVars, buyerVars, chain,
                 answers>>

(* The page of b looks for blobs: some purchase of hers is not open yet.   *)
Polls(b) == want[b] # {} /\ b \notin opened

Unanswered(t, u) ==
  ~ \E a \in answers : a.tx = t /\ a.ufvk = u /\ a.life = life

(* The blob with key k for the i-th note of t to the creator of o.         *)
Blob(t, o, i, k) ==
  [tx |-> t, ufvk |-> o.ufvk, drop |-> o.drop, key |-> k,
   to |-> Notes[t][o.ufvk][i].ePub, life |-> life]

(* The blob is put in the bucket, in place: a page that polls may read it  *)
(* half-written, opens nothing, and marks it as tried.                     *)
Put(a) ==
  /\ answers' = answers \cup {a}
  /\ \/ UNCHANGED skipped
     \/ Polls(a.to) /\ skipped' = skipped \cup {a}

\* Faulty: the key may be the one of an offer replaced since.
AnswerStale(t, o) ==
  /\ t \in chain /\ <<t, o.ufvk>> \notin unread
  /\ o \in catalog
  /\ Unanswered(t, o.ufvk)
  /\ \E i \in NoteIdx(t, o.ufvk), p \in accepted :
       /\ FirstPayment(t, o.ufvk, i)
       /\ NotePays(t, o.ufvk, i, p)
       /\ Put(Blob(t, o, i, p.key))
  /\ UNCHANGED <<catalogVars, taken, indexerVars, netVars, formVars, view,
                 want, opened, chain>>

\* Faulty: what has been answered in this life is not remembered.
AnswerAgain(t, o) ==
  /\ t \in chain /\ <<t, o.ufvk>> \notin unread
  /\ o \in catalog
  /\ \E i \in NoteIdx(t, o.ufvk) :
       /\ FirstPayment(t, o.ufvk, i)
       /\ NotePays(t, o.ufvk, i, o)
       /\ Put(Blob(t, o, i, o.key))
  /\ UNCHANGED <<catalogVars, taken, indexerVars, netVars, formVars, view,
                 want, opened, chain>>

\* Faulty: a payment is answered before it is in a block.
AnswerUnconfirmed(t, o) ==
  /\ <<t, o.ufvk>> \notin unread
  /\ o \in catalog
  /\ Unanswered(t, o.ufvk)
  /\ \E i \in NoteIdx(t, o.ufvk) :
       /\ FirstPayment(t, o.ufvk, i)
       /\ NotePays(t, o.ufvk, i, o)
       /\ Put(Blob(t, o, i, o.key))
  /\ UNCHANGED <<catalogVars, taken, indexerVars, netVars, formVars, view,
                 want, opened, chain>>

(* The scanner answers the payment t with the key of o, once a life.       *)
AnswerPayment(t, o) ==
  /\ t \in chain /\ <<t, o.ufvk>> \notin unread
  /\ o \in catalog
  /\ Unanswered(t, o.ufvk)
  /\ \E i \in NoteIdx(t, o.ufvk) :
       /\ FirstPayment(t, o.ufvk, i)
       /\ NotePays(t, o.ufvk, i, o)
       /\ Put(Blob(t, o, i, o.key))
  /\ UNCHANGED <<catalogVars, taken, indexerVars, netVars, formVars, view,
                 want, opened, chain>>

(* The scan of creator u passes the transaction t by in this life: with no *)
(* start height it may begin after it, lightwalletd answers it with an     *)
(* empty transaction, or what t pays for is not listed when it is read; or *)
(* the scan is stuck before it, at a transaction that does not parse.      *)
ScannerMisses(t, u) ==
  /\ <<t, u>> \in Incoming
  /\ Unanswered(t, u)
  /\ unread' = unread \cup {<<t, u>>}
  /\ UNCHANGED <<catalogVars, taken, build, life, content, known, netVars,
                 formVars, buyerVars, chain, answers>>

-----------------------------------------------------------------------------
(* The buyer.                                                              *)

(* GET /catalog, on loading the page or by "Refresh".                      *)
LoadCatalog(b) ==
  /\ view[b] # catalog
  /\ view' = [view EXCEPT ![b] = catalog]
  /\ UNCHANGED <<catalogVars, taken, indexerVars, netVars, formVars, want,
                 opened, skipped, chain, answers>>

(* The page is loaded again: a new poller has tried no blob yet.           *)
Reload(b) ==
  /\ \E a \in skipped : a.to = b
  /\ skipped' = {a \in skipped : a.to # b}
  /\ view' = [view EXCEPT ![b] = catalog]
  /\ UNCHANGED <<catalogVars, taken, indexerVars, netVars, formVars, want,
                 opened, chain, answers>>

(* createPurchase: the purchase keeps the entry as the page showed it.     *)
Buy(b, o) ==
  /\ want[b] = {}
  /\ o \in view[b]
  /\ want' = [want EXCEPT ![b] = {o}]
  /\ UNCHANGED <<catalogVars, taken, indexerVars, netVars, formVars, view,
                 opened, skipped, chain, answers>>

(* The wallet pays what the QR says: the shown price, to the creator of    *)
(* the drop, with the drop id and the buyer's key in the memo.             *)
PayFor(b, o, t) ==
  /\ o \in want[b]
  /\ t \notin chain
  /\ \E i \in NoteIdx(t, o.ufvk) :
       /\ FirstPayment(t, o.ufvk, i)
       /\ Notes[t][o.ufvk][i].ePub = b
       /\ Notes[t][o.ufvk][i].drop = o.drop
       /\ Notes[t][o.ufvk][i].value = o.price
  /\ chain' = chain \cup {t}
  /\ UNCHANGED <<catalogVars, taken, indexerVars, netVars, formVars,
                 buyerVars, answers>>

(* The blob opens with the buyer's key, the content bought is fetched, and *)
(* the key in the blob decrypts it.                                        *)
Open(b, o) ==
  /\ o \in want[b]
  /\ b \notin opened
  /\ o.key \in content
  /\ \E a \in answers \ skipped : a.to = b /\ a.key = o.key
  /\ opened' = opened \cup {b}
  /\ UNCHANGED <<catalogVars, taken, indexerVars, netVars, formVars, view,
                 want, skipped, chain, answers>>

-----------------------------------------------------------------------------
Creators ==
  \E c \in Ufvk :
    \/ \E o \in Offers : Submit(c, o)
    \/ Uploaded(c) \/ Attested(c) \/ Provisioned(c)
    \/ StageFails(c) \/ Repin(c)

Serve ==
  \/ \E x \in Key : HandleUpload(x)
  \/ \E m \in Post : HandlePost(m) \/ RefusePost(m)

Scan ==
  \E t \in Tx :
    \/ \E o \in Offers : AnswerPayment(t, o)
    \/ \E u \in Ufvk : ScannerMisses(t, u)

Buyers ==
  \E b \in EPub :
    \/ LoadCatalog(b) \/ Reload(b)
    \/ \E o \in Offers : Buy(b, o) \/ \E t \in Tx : PayFor(b, o, t)

Unlock == \E b \in EPub, o \in Offers : Open(b, o)

Next == Creators \/ Serve \/ Restart \/ Scan \/ Buyers \/ Unlock

Spec == Init /\ [][Next]_vars

(* The scanner's loop never stops, and answers what it comes to read       *)
(* (OwedIsDispatched of Scanner); the polling never stops, and opens what  *)
(* it does not mark as tried (PaidIsUnlocked of Buyer).  Nothing else need *)
(* ever happen: no reload, no retry of a creator; and a payment may be     *)
(* missed or a blob skipped at any time.                                   *)
FairSpec ==
  /\ Spec
  /\ \A t \in Tx, u \in Ufvk :
       WF_vars(\E o \in Offers : o.ufvk = u /\ AnswerPayment(t, o))
  /\ \A b \in EPub : WF_vars(\E o \in Offers : Open(b, o))

-----------------------------------------------------------------------------
(* What a sale promises.                                                   *)

(***************************************************************************)
(* A drop that is listed has its content in the bucket: the page uploads   *)
(* first and posts the key only once the upload is answered, whatever      *)
(* order late requests arrive in (submit in main.tsx).                     *)
(***************************************************************************)
ListedContentIsStored == \A o \in catalog : o.key \in content

(***************************************************************************)
(* A content key is known to no build but the one whose measurement its    *)
(* creator pinned, across redeployments between the attestation, the post  *)
(* and its handling (verifyAttestationOrThrow, open_provision, C4).        *)
(***************************************************************************)
KeyOnlyToPinnedBuild == known \subseteq trusted

(***************************************************************************)
(* A drop the creator's page reports as provisioned is listed, as a drop   *)
(* of that creator, for as long as the process lives that answered: a      *)
(* refusal is not taken for success, and neither rivals for the drop id    *)
(* nor late posts and forms sent again take it off the catalog             *)
(* (provisionDrop in main.tsx, provision_h, CatalogStore::insert).         *)
(***************************************************************************)
ReportedStaysListed ==
  \A r \in reported : r.life = life =>
    \E o \in catalog : o.drop = r.offer.drop /\ o.ufvk = r.offer.ufvk

(* t holds the payment of b for o.                                         *)
IsPayment(t, b, o) ==
  \E i \in NoteIdx(t, o.ufvk) :
    /\ FirstPayment(t, o.ufvk, i)
    /\ Notes[t][o.ufvk][i].ePub = b
    /\ NotePays(t, o.ufvk, i, o)

(* The payment of b for o is on the chain.                                 *)
PaidFor(b, o) ==
  /\ o \in want[b]
  /\ \E t \in chain : IsPayment(t, b, o)

(***************************************************************************)
(* Content is opened only by who paid for it: for that very offer, at its  *)
(* price or more, to its creator, confirmed, and under the buyer's own     *)
(* key, however often the drop was provisioned anew, and by whom           *)
(* (encryptContent draws a key per form, Engine::on_note).                 *)
(***************************************************************************)
OpenedIsPaid == \A b \in opened : \E o \in want[b] : PaidFor(b, o)

(* The scan has passed the payment of b for o by.                          *)
Missed(b, o) == \E t \in chain : IsPayment(t, b, o) /\ <<t, o.ufvk>> \in unread

(* The page of b has marked as tried the blob that opens o.                *)
Skipped(b, o) == \E a \in skipped : a.to = b /\ a.key = o.key

(***************************************************************************)
(* A buyer who paid for an offer that stays listed gets to the content she *)
(* was shown, unless the scan misses her payment in this life or her page  *)
(* reads the blob half-written and is not loaded again: the key she is     *)
(* sent, the content stored and the hash in her purchase come from one run *)
(* of the creator's form (Engine::on_note, DispatchPoller.poll).           *)
(***************************************************************************)
PaidIsOpened ==
  \A b \in EPub, o \in Offers :
    (PaidFor(b, o) /\ o \in catalog) ~>
      (b \in opened \/ o \notin catalog \/ Missed(b, o) \/ Skipped(b, o))

(***************************************************************************)
(* provision.rs: re-provisioning is idempotent per drop, so that sending a *)
(* drop again is safe: a buyer who is answered can open what she bought.   *)
(***************************************************************************)
ResendIsSafe ==
  \A a \in answers : \A o \in want[a.to] : a.key = o.key
=============================================================================
