----------------------------- MODULE SaleProofs -----------------------------
(* What the creator's form and the indexer keep, for every set of          *)
(* creators, offers and builds: proofs of the safety properties of Sale.   *)
EXTENDS SaleRefinement, TLAPS

(* A form past its upload has its content stored; one under way is trusted *)
(* to the build it expects.                                                *)
FormInv ==
  \A c \in Ufvk : stage[c] # "idle" =>
    /\ draft[c] \in Offers
    /\ <<draft[c].key, expected[c]>> \in trusted
    /\ stage[c] # "upload" => draft[c].key \in content

(* So has every key on its way to the indexer.                             *)
PostInv ==
  \A m \in posts :
    /\ m.offer \in Offers
    /\ m.offer.key \in content
    /\ <<m.offer.key, m.to>> \in trusted

(* The form is typed as far as the proofs need it.                         *)
Shape ==
  /\ build \in Build
  /\ pin \in [Ufvk -> Build]
  /\ stage \in [Ufvk -> {"idle", "upload", "attest", "provision"}]
  /\ draft \in [Ufvk -> Offers \cup {None}]
  /\ expected \in [Ufvk -> Build]

SaleInv ==
  /\ Shape
  /\ FormInv
  /\ PostInv
  /\ ListedContentIsStored
  /\ KeyOnlyToPinnedBuild

(* The steps that leave the form, the posts and what is known alone.       *)
Elsewhere ==
  /\ UNCHANGED <<formVars, content, known, posts>>
  /\ build' \in Build
  /\ catalog' \subseteq catalog

LEMMA ElsewhereKeeps == SaleInv /\ Elsewhere => SaleInv'
  BY DEF SaleInv, Elsewhere, Shape, FormInv, PostInv, ListedContentIsStored,
         KeyOnlyToPinnedBuild, formVars

LEMMA SaleInvInit == Init => SaleInv
  BY BoundsAssumption
     DEF Init, CatalogInit, SaleInv, Shape, FormInv, PostInv, Build,
         ListedContentIsStored, KeyOnlyToPinnedBuild

(* The creator's form.  A step of one creator's form leaves the forms of   *)
(* the others alone.                                                       *)
LEMMA SubmitKeeps ==
  ASSUME NEW c \in Ufvk, NEW o \in Offers, SaleInv, Submit(c, o)
  PROVE  SaleInv'
<1>1. Shape'
  BY DEF SaleInv, Shape, Submit, Goto, indexerVars
<1>2. FormInv'
  BY DEF SaleInv, Shape, Submit, Goto, FormInv, indexerVars
<1>3. PostInv'
  BY DEF SaleInv, Submit, PostInv, indexerVars
<1>4. ListedContentIsStored'
  BY DEF SaleInv, Submit, ListedContentIsStored, indexerVars, catalogVars
<1>5. KeyOnlyToPinnedBuild'
  BY DEF SaleInv, Submit, KeyOnlyToPinnedBuild, indexerVars
<1> QED
  BY <1>1, <1>2, <1>3, <1>4, <1>5 DEF SaleInv

LEMMA UploadedKeeps ==
  ASSUME NEW c \in Ufvk, SaleInv, Uploaded(c)
  PROVE  SaleInv'
<1>1. Shape'
  BY DEF SaleInv, Shape, Uploaded, Goto, indexerVars
<1>2. FormInv'
  BY DEF SaleInv, Shape, Uploaded, Goto, FormInv, indexerVars
<1>3. PostInv'
  BY DEF SaleInv, Uploaded, PostInv, indexerVars, netVars
<1>4. ListedContentIsStored' /\ KeyOnlyToPinnedBuild'
  BY DEF SaleInv, Uploaded, ListedContentIsStored, KeyOnlyToPinnedBuild,
         indexerVars, catalogVars
<1> QED
  BY <1>1, <1>2, <1>3, <1>4 DEF SaleInv

(* The post carries the draft, whose content is stored by now, to the      *)
(* build that runs, which is the one the form expected.                    *)
LEMMA AttestedKeeps ==
  ASSUME NEW c \in Ufvk, SaleInv, Attested(c)
  PROVE  SaleInv'
<1>1. Shape'
  BY DEF SaleInv, Shape, Attested, Goto, indexerVars
<1>2. FormInv'
  BY DEF SaleInv, Shape, Attested, Goto, FormInv, indexerVars
<1>3. PostInv'
  <2>1. /\ draft[c] \in Offers
        /\ draft[c].key \in content
        /\ <<draft[c].key, build>> \in trusted
    BY DEF SaleInv, FormInv, Attested, Attests
  <2>2. UNCHANGED <<content, trusted>>
    BY DEF Attested, indexerVars
  <2>3. ASSUME NEW m \in posts'
        PROVE  m \in posts \/ (m.offer = draft[c] /\ m.to = build)
    BY DEF Attested
  <2> QED
    BY <2>1, <2>2, <2>3 DEF SaleInv, PostInv
<1>4. ListedContentIsStored' /\ KeyOnlyToPinnedBuild'
  BY DEF SaleInv, Attested, ListedContentIsStored, KeyOnlyToPinnedBuild,
         indexerVars, catalogVars
<1> QED
  BY <1>1, <1>2, <1>3, <1>4 DEF SaleInv

LEMMA ProvisionedKeeps ==
  ASSUME NEW c \in Ufvk, SaleInv, Provisioned(c)
  PROVE  SaleInv'
<1>1. Shape'
  BY DEF SaleInv, Shape, Provisioned, Leave, Goto, indexerVars
<1>2. FormInv'
  BY DEF SaleInv, Shape, Provisioned, Leave, Goto, FormInv, indexerVars
<1>3. PostInv'
  BY DEF SaleInv, Provisioned, PostInv, indexerVars, netVars
<1>4. ListedContentIsStored' /\ KeyOnlyToPinnedBuild'
  BY DEF SaleInv, Provisioned, ListedContentIsStored, KeyOnlyToPinnedBuild,
         indexerVars, catalogVars
<1> QED
  BY <1>1, <1>2, <1>3, <1>4 DEF SaleInv

LEMMA StageFailsKeeps ==
  ASSUME NEW c \in Ufvk, SaleInv, StageFails(c)
  PROVE  SaleInv'
<1>1. Shape'
  BY DEF SaleInv, Shape, StageFails, Leave, Goto, indexerVars
<1>2. FormInv'
  BY DEF SaleInv, Shape, StageFails, Leave, Goto, FormInv, indexerVars
<1>3. PostInv'
  BY DEF SaleInv, StageFails, PostInv, indexerVars, netVars
<1>4. ListedContentIsStored' /\ KeyOnlyToPinnedBuild'
  BY DEF SaleInv, StageFails, ListedContentIsStored, KeyOnlyToPinnedBuild,
         indexerVars, catalogVars
<1> QED
  BY <1>1, <1>2, <1>3, <1>4 DEF SaleInv

LEMMA RepinKeeps ==
  ASSUME NEW c \in Ufvk, SaleInv, Repin(c)
  PROVE  SaleInv'
  BY DEF SaleInv, Shape, FormInv, PostInv, ListedContentIsStored,
         KeyOnlyToPinnedBuild, Repin, indexerVars,
         netVars, catalogVars

(* The indexer.                                                            *)
LEMMA HandleUploadKeeps ==
  ASSUME NEW x \in Key, SaleInv, HandleUpload(x)
  PROVE  SaleInv'
  BY DEF SaleInv, Shape, FormInv, PostInv, ListedContentIsStored,
         KeyOnlyToPinnedBuild, HandleUpload, formVars,
         catalogVars

(* The catalog gains the offer of a post, whose content is stored.         *)
LEMMA HandlePostKeeps ==
  ASSUME NEW m \in Post, SaleInv, HandlePost(m)
  PROVE  SaleInv'
<1>1. Shape' /\ FormInv'
  BY DEF SaleInv, Shape, FormInv, HandlePost, formVars
<1>2. PostInv'
  BY DEF SaleInv, HandlePost, PostInv, formVars
<1>3. m.offer.key \in content /\ <<m.offer.key, build>> \in trusted
  BY DEF SaleInv, PostInv, HandlePost, CanOpen
<1>4. ListedContentIsStored'
  BY <1>3 DEF SaleInv, HandlePost, Insert, ListedContentIsStored
<1>5. KeyOnlyToPinnedBuild'
  BY <1>3 DEF SaleInv, HandlePost, KeyOnlyToPinnedBuild, formVars
<1> QED
  BY <1>1, <1>2, <1>4, <1>5 DEF SaleInv

LEMMA RefusePostKeeps ==
  ASSUME NEW m \in Post, SaleInv, RefusePost(m)
  PROVE  SaleInv'
<1>1. Shape' /\ FormInv'
  BY DEF SaleInv, Shape, FormInv, RefusePost, formVars
<1>2. PostInv'
  BY DEF SaleInv, RefusePost, PostInv, formVars
<1>3. CanOpen(m) => <<m.offer.key, build>> \in trusted
  BY DEF SaleInv, PostInv, RefusePost, CanOpen
<1>4. KeyOnlyToPinnedBuild'
  BY <1>3 DEF SaleInv, RefusePost, KeyOnlyToPinnedBuild, formVars
<1>5. ListedContentIsStored'
  BY DEF SaleInv, RefusePost, ListedContentIsStored, formVars, catalogVars
<1> QED
  BY <1>1, <1>2, <1>4, <1>5 DEF SaleInv

(* The other steps change neither forms, nor posts, nor what is known.     *)
LEMMA RestartElsewhere == SaleInv /\ Restart => Elsewhere
  BY DEF SaleInv, Restart, CatalogRestart, Elsewhere, netVars

LEMMA BuyersElsewhere ==
  SaleInv /\ (Scan \/ Buyers \/ Unlock \/ UNCHANGED vars) => Elsewhere
<1> SUFFICES ASSUME SaleInv, Scan \/ Buyers \/ Unlock \/ UNCHANGED vars
             PROVE  UNCHANGED <<catalogVars, build, content, known, netVars,
                                formVars>>
  BY DEF SaleInv, Shape, Elsewhere, catalogVars, netVars
<1>1. CASE Scan
  BY <1>1 DEF Scan, AnswerPayment, ScannerMisses, indexerVars
<1>2. CASE Buyers
  BY <1>2 DEF Buyers, LoadCatalog, Reload, Buy, PayFor, indexerVars
<1>3. CASE Unlock
  BY <1>3 DEF Unlock, Open, indexerVars
<1>4. CASE UNCHANGED vars
  BY <1>4 DEF vars, indexerVars
<1> QED
  BY <1>1, <1>2, <1>3, <1>4

LEMMA SaleInvNext == SaleInv /\ [Next]_vars => SaleInv'
<1> SUFFICES ASSUME SaleInv, [Next]_vars PROVE SaleInv'
  OBVIOUS
<1>1. CASE Creators
  BY <1>1, SubmitKeeps, UploadedKeeps, AttestedKeeps, ProvisionedKeeps,
     StageFailsKeeps, RepinKeeps DEF Creators
<1>2. CASE Serve
  BY <1>2, HandleUploadKeeps, HandlePostKeeps, RefusePostKeeps DEF Serve
<1>3. CASE Restart
  BY <1>3, RestartElsewhere, ElsewhereKeeps
<1>4. CASE Scan \/ Buyers \/ Unlock \/ UNCHANGED vars
  BY <1>4, BuyersElsewhere, ElsewhereKeeps
<1> QED
  BY <1>1, <1>2, <1>3, <1>4 DEF Next

LEMMA SaleInvAlways == Spec => []SaleInv
  BY SaleInvInit, SaleInvNext, PTL DEF Spec

(***************************************************************************)
(* A drop that is listed has its content in the bucket, whatever the order *)
(* in which uploads and posts arrive and however often creators give up    *)
(* and send again.                                                         *)
(***************************************************************************)
THEOREM ListedContentStored == Spec => []ListedContentIsStored
<1>1. SaleInv => ListedContentIsStored
  BY DEF SaleInv
<1> QED
  BY <1>1, SaleInvAlways, PTL

(***************************************************************************)
(* No build learns a content key but the one its creator pinned, through   *)
(* any number of redeployments.                                            *)
(***************************************************************************)
THEOREM KeyStaysWithPinnedBuild == Spec => []KeyOnlyToPinnedBuild
<1>1. SaleInv => KeyOnlyToPinnedBuild
  BY DEF SaleInv
<1> QED
  BY <1>1, SaleInvAlways, PTL
-----------------------------------------------------------------------------
(* Types.  The notes a payment is read from have theirs by assumption.     *)
LEMMA NoteTyped ==
  ASSUME NEW t \in Tx, NEW u \in Ufvk, NEW i \in NoteIdx(t, u)
  PROVE  Notes[t][u][i] \in Note
<1>1. Notes[t][u] \in Seq(Note)  BY NotesAssumption
<1>2. QED  BY <1>1 DEF NoteIdx

LEMMA OfferTyped == \A o \in Offers : o.drop \in Drop /\ o.ufvk \in Ufvk /\ o.key \in Key
BY OffersAssumption DEF Offer

LEMMA CreatorsTyped == TypeOK /\ Creators => TypeOK'
<1> SUFFICES ASSUME TypeOK, Creators PROVE TypeOK'  OBVIOUS
<1> USE OfferTyped DEF TypeOK, CatalogTypeOK, Build, Goto, catalogVars, indexerVars, netVars,
                       formVars, buyerVars
<1>1. PICK c \in Ufvk :
        \/ \E o \in Offers : Submit(c, o)
        \/ Uploaded(c) \/ Attested(c) \/ Provisioned(c) \/ StageFails(c) \/ Repin(c)
  BY DEF Creators
<1>2. ASSUME NEW o \in Offers, Submit(c, o) PROVE TypeOK'  BY <1>2 DEF Submit
<1>3. CASE Uploaded(c)  BY <1>3 DEF Uploaded
<1>4. CASE Attested(c)  BY <1>4 DEF Attested, Post
<1>5. CASE Provisioned(c)  BY <1>5 DEF Provisioned, Leave
<1>6. CASE StageFails(c)  BY <1>6 DEF StageFails, Leave
<1>7. CASE Repin(c)  BY <1>7 DEF Repin
<1>8. QED  BY <1>1, <1>2, <1>3, <1>4, <1>5, <1>6, <1>7

LEMMA ServeTyped == TypeOK /\ (Serve \/ Restart) => TypeOK'
<1> SUFFICES ASSUME TypeOK, Serve \/ Restart PROVE TypeOK'  OBVIOUS
<1> USE OfferTyped DEF TypeOK, CatalogTypeOK, catalogVars, indexerVars, netVars, formVars,
                       buyerVars
<1>1. ASSUME NEW x \in Key, HandleUpload(x) PROVE TypeOK'  BY <1>1 DEF HandleUpload
<1>2. ASSUME NEW m \in Post, HandlePost(m) PROVE TypeOK'
  BY <1>2 DEF HandlePost, Insert, ReplyTo, Post, Reply
<1>3. ASSUME NEW m \in Post, RefusePost(m) PROVE TypeOK'
  BY <1>3 DEF RefusePost, ReplyTo, Post, Reply
<1>4. CASE Restart  BY <1>4 DEF Restart, CatalogRestart, Incoming
<1>5. QED  BY <1>1, <1>2, <1>3, <1>4 DEF Serve

(* An answer goes to the buyer its payment names.                          *)
LEMMA BuyersTyped == TypeOK /\ (Scan \/ Buyers \/ Unlock) => TypeOK'
<1> SUFFICES ASSUME TypeOK, Scan \/ Buyers \/ Unlock PROVE TypeOK'  OBVIOUS
<1> USE DEF TypeOK, CatalogTypeOK, catalogVars, indexerVars, netVars, formVars, buyerVars
<1>1. ASSUME NEW t \in Tx, NEW o \in Offers, AnswerPayment(t, o) PROVE TypeOK'
  <2>1. PICK i \in NoteIdx(t, o.ufvk) : Put(Blob(t, o, i, o.key))
    BY <1>1 DEF AnswerPayment
  <2>2. Notes[t][o.ufvk][i].ePub \in EPub  BY NoteTyped, OfferTyped DEF Note
  <2>3. Blob(t, o, i, o.key) \in Answer  BY <2>2, OfferTyped DEF Blob, Answer
  <2>4. answers' \subseteq Answer /\ skipped' \subseteq answers'
    BY <2>1, <2>3 DEF Put
  <2>5. QED  BY <1>1, <2>4 DEF AnswerPayment
<1>2. ASSUME NEW b \in EPub, LoadCatalog(b) PROVE TypeOK'  BY <1>2 DEF LoadCatalog
<1>3. ASSUME NEW b \in EPub, NEW o \in Offers, Buy(b, o) PROVE TypeOK'  BY <1>3 DEF Buy
<1>4. ASSUME NEW b \in EPub, NEW o \in Offers, NEW t \in Tx, PayFor(b, o, t) PROVE TypeOK'
  BY <1>4 DEF PayFor
<1>5. ASSUME NEW b \in EPub, NEW o \in Offers, Open(b, o) PROVE TypeOK'  BY <1>5 DEF Open
<1>6. ASSUME NEW t \in Tx, NEW u \in Ufvk, ScannerMisses(t, u) PROVE TypeOK'
  BY <1>6 DEF ScannerMisses
<1>7. ASSUME NEW b \in EPub, Reload(b) PROVE TypeOK'  BY <1>7 DEF Reload
<1>8. QED
  BY <1>1, <1>2, <1>3, <1>4, <1>5, <1>6, <1>7 DEF Scan, Buyers, Unlock

(***************************************************************************)
(* Type correctness of the sale: a form under way has its draft, a post    *)
(* carries an offer, and an answer is sealed to a buyer (main.tsx,         *)
(* server.rs), for any number of creators, builds and restarts.            *)
(***************************************************************************)
THEOREM SaleTypeCorrect == Spec => []TypeOK
<1>1. Init => TypeOK
  BY BoundsAssumption DEF Init, CatalogInit, TypeOK, CatalogTypeOK, Build
<1>2. TypeOK /\ [Next]_vars => TypeOK'
  <2>1. TypeOK /\ UNCHANGED vars => TypeOK'
    BY DEF TypeOK, CatalogTypeOK, vars, catalogVars, indexerVars, netVars, formVars, buyerVars
  <2>2. QED  BY <2>1, CreatorsTyped, ServeTyped, BuyersTyped DEF Next
<1>3. QED  BY <1>1, <1>2, PTL DEF Spec
-----------------------------------------------------------------------------
(* The sale keeps the ledger.  What is listed was accepted in this life,   *)
(* every accepted drop is still listed, by its creator, and no answer is   *)
(* of a life to come.                                                      *)
LedgerInv ==
  /\ catalog \subseteq accepted
  /\ \A o \in accepted : Listed(o.drop)
  /\ DropKeepsOwner
  /\ life \in Nat
  /\ \A a \in answers : a.life \in 0 .. life

Released == {Receipt(a) : a \in {b \in answers : b.life = life}}

(* The catalog takes an offer as the ledger promises it: that the owner of *)
(* the drop as listed now may replace it makes it the owner ever since the *)
(* process started.                                                        *)
LEMMA InsertPromises ==
  ASSUME LedgerInv, NEW o \in Offers, Insert(o), UNCHANGED <<life, chain, answers>>
  PROVE  LedgerInv' /\ Ledger!Promise(o)
<1>1. \A p \in accepted : p.drop = o.drop => p.ufvk = o.ufvk
  <2> SUFFICES ASSUME NEW p \in accepted, p.drop = o.drop PROVE p.ufvk = o.ufvk
    OBVIOUS
  <2>1. PICK c \in catalog : c.drop = p.drop  BY DEF LedgerInv, Listed
  <2>2. c \in accepted /\ c.ufvk = o.ufvk
    BY <2>1 DEF LedgerInv, Insert, OwnedBy
  <2>3. QED  BY <2>1, <2>2 DEF LedgerInv, DropKeepsOwner
<1>2. \A p \in accepted' : Listed(p.drop)'
  <2> SUFFICES ASSUME NEW p \in accepted' PROVE \E c \in catalog' : c.drop = p.drop
    BY DEF Listed
  <2>1. CASE p.drop = o.drop  BY <2>1 DEF Insert
  <2>2. CASE p.drop # o.drop
    <3>1. PICK c \in catalog : c.drop = p.drop  BY <2>2 DEF LedgerInv, Listed, Insert
    <3>2. QED  BY <2>2, <3>1 DEF Insert
  <2>3. QED  BY <2>1, <2>2
<1>3. DropKeepsOwner'  BY <1>1 DEF LedgerInv, DropKeepsOwner, Insert
<1>4. LedgerInv'  BY <1>2, <1>3 DEF LedgerInv, Insert
<1>5. Ledger!Promise(o)
  BY <1>1 DEF Ledger!Promise, Insert
<1>6. QED  BY <1>4, <1>5

(* The answer to a payment is its release.                                 *)
LEMMA AnswerReleases ==
  ASSUME LedgerInv, NEW t \in Tx, NEW o \in Offers, AnswerPayment(t, o)
  PROVE  LedgerInv' /\ Ledger!Release(t, o)
<1>1. PICK i \in NoteIdx(t, o.ufvk) :
        NotePays(t, o.ufvk, i, o) /\ Put(Blob(t, o, i, o.key))
  BY DEF AnswerPayment
<1> DEFINE new == Blob(t, o, i, o.key)
<1>2. /\ answers' = answers \cup {new} /\ new.life = life
      /\ Receipt(new) = [tx |-> t, ufvk |-> o.ufvk, drop |-> o.drop, key |-> o.key,
                         ek |-> Receipt(new).ek]
  BY <1>1 DEF Receipt, Blob, Put
<1>3. UNCHANGED <<catalog, accepted, life, chain>>
  BY DEF AnswerPayment, catalogVars, indexerVars
<1> HIDE DEF new
<1>4. LedgerInv'
  BY <1>2, <1>3 DEF LedgerInv, DropKeepsOwner, Listed
<1>5. Released' = Released \cup {Receipt(new)}
  BY <1>2, <1>3 DEF Released, Receipt
<1>6. \A r \in Released : ~ (r.tx = t /\ r.ufvk = o.ufvk)
  BY DEF AnswerPayment, Unanswered, Released, Receipt
<1>7. Ledger!Pays(t, o.ufvk, o)
  BY <1>1 DEF Ledger!Pays, Ledger!NotePays, Ledger!NoteIdx, NotePays, NoteIdx
<1>8. \E r \in Released' :
        /\ Released' = Released \cup {r}
        /\ r = [tx |-> t, ufvk |-> o.ufvk, drop |-> o.drop, key |-> o.key, ek |-> r.ek]
  BY <1>2, <1>5
<1>9. t \in chain /\ o \in accepted  BY DEF AnswerPayment, LedgerInv
<1>10. QED  BY <1>3, <1>4, <1>6, <1>7, <1>8, <1>9 DEF Ledger!Release, Released

(* The process forgets; answers of its earlier lives do not count.         *)
LEMMA RestartForgets == LedgerInv /\ Restart => LedgerInv' /\ Ledger!Forget
<1> SUFFICES ASSUME LedgerInv, Restart PROVE LedgerInv' /\ Ledger!Forget  OBVIOUS
<1>1. /\ accepted' = {} /\ catalog' = {} /\ life' = life + 1
      /\ UNCHANGED <<answers, chain>>
  BY DEF Restart, CatalogRestart
<1>2. LedgerInv'  BY <1>1 DEF LedgerInv, DropKeepsOwner
<1>3. \A a \in answers' : a.life # life'  BY <1>1 DEF LedgerInv
<1>4. Released' = {}  BY <1>3 DEF Released
<1>5. QED  BY <1>1, <1>2, <1>4 DEF Ledger!Forget, Released

(* A payment reaches the chain.                                            *)
LEMMA PaymentConfirms ==
  ASSUME LedgerInv, NEW b \in EPub, NEW o \in Offers, NEW t \in Tx, PayFor(b, o, t)
  PROVE  LedgerInv' /\ Ledger!Confirm
<1>1. /\ chain' = chain \cup {t}
      /\ UNCHANGED <<catalog, accepted, life, answers>>
  BY DEF PayFor, catalogVars, indexerVars
<1>2. LedgerInv'  BY <1>1 DEF LedgerInv, DropKeepsOwner, Listed
<1>3. Released' = Released  BY <1>1 DEF Released, Receipt
<1>4. {t} \in SUBSET Tx  OBVIOUS
<1>5. QED  BY <1>1, <1>2, <1>3, <1>4 DEF Ledger!Confirm, Released

(* The other steps change nothing the ledger sees.                         *)
Unseen == UNCHANGED <<catalog, accepted, life, chain, answers>>

LEMMA UnseenStutters ==
  LedgerInv /\ Unseen => LedgerInv' /\ UNCHANGED <<chain, accepted, Released>>
  BY DEF Unseen, LedgerInv, DropKeepsOwner, Listed, Released, Receipt

LEMMA FormsUnseen == Creators => Unseen
<1> SUFFICES ASSUME NEW c \in Ufvk,
                    \/ \E o \in Offers : Submit(c, o)
                    \/ Uploaded(c) \/ Attested(c) \/ Provisioned(c)
                    \/ StageFails(c) \/ Repin(c)
             PROVE  Unseen
  BY DEF Creators
<1> USE DEF Unseen, catalogVars, indexerVars
<1>1. ASSUME NEW o \in Offers, Submit(c, o) PROVE Unseen  BY <1>1 DEF Submit
<1>2. CASE Uploaded(c)  BY <1>2 DEF Uploaded
<1>3. CASE Attested(c)  BY <1>3 DEF Attested
<1>4. CASE Provisioned(c)  BY <1>4 DEF Provisioned, Leave
<1>5. CASE StageFails(c)  BY <1>5 DEF StageFails, Leave
<1>6. CASE Repin(c)  BY <1>6 DEF Repin
<1>7. QED  BY <1>1, <1>2, <1>3, <1>4, <1>5, <1>6

LEMMA SaleStepRefines ==
  ASSUME LedgerInv, [Next]_vars
  PROVE  LedgerInv' /\ [Ledger!Next]_<<chain, accepted, Released>>
<1>1. CASE Unseen
  BY <1>1, UnseenStutters
<1>2. CASE Serve
  <2>1. ASSUME NEW x \in Key, HandleUpload(x) PROVE Unseen
    BY <2>1 DEF HandleUpload, Unseen, catalogVars
  <2>2. ASSUME NEW m \in Post, RefusePost(m) PROVE Unseen
    BY <2>2 DEF RefusePost, Unseen, catalogVars
  <2>3. ASSUME NEW m \in Post, HandlePost(m) PROVE LedgerInv' /\ Ledger!Next
    <3>1. m.offer \in Offers /\ Insert(m.offer) /\ UNCHANGED <<life, chain, answers>>
      BY <2>3 DEF HandlePost, Post
    <3>2. QED  BY <3>1, InsertPromises DEF Ledger!Next
  <2>4. QED  BY <1>1, <1>2, <2>1, <2>2, <2>3 DEF Serve, Released
<1>3. CASE Restart
  BY <1>3, RestartForgets DEF Ledger!Next, Released
<1>4. CASE Scan
  <2>1. ASSUME NEW t \in Tx, NEW u \in Ufvk, ScannerMisses(t, u) PROVE Unseen
    BY <2>1 DEF ScannerMisses, Unseen, catalogVars
  <2>2. QED  BY <1>1, <1>4, <2>1, AnswerReleases DEF Scan, Ledger!Next, Released
<1>5. CASE Buyers
  <2>1. ASSUME NEW b \in EPub, LoadCatalog(b) PROVE Unseen
    BY <2>1 DEF LoadCatalog, Unseen, catalogVars, indexerVars
  <2>2. ASSUME NEW b \in EPub, NEW o \in Offers, Buy(b, o) PROVE Unseen
    BY <2>2 DEF Buy, Unseen, catalogVars, indexerVars
  <2>3. ASSUME NEW b \in EPub, NEW o \in Offers, NEW t \in Tx, PayFor(b, o, t)
        PROVE  LedgerInv' /\ Ledger!Next
    BY <2>3, PaymentConfirms DEF Ledger!Next
  <2>4. ASSUME NEW b \in EPub, Reload(b) PROVE Unseen
    BY <2>4 DEF Reload, Unseen, catalogVars, indexerVars
  <2>5. QED  BY <1>1, <1>5, <2>1, <2>2, <2>3, <2>4 DEF Buyers, Released
<1>6. CASE Unlock
  <2>1. ASSUME NEW b \in EPub, NEW o \in Offers, Open(b, o) PROVE Unseen
    BY <2>1 DEF Open, Unseen, catalogVars, indexerVars
  <2>2. QED  BY <1>1, <1>6, <2>1 DEF Unlock
<1>7. CASE UNCHANGED vars
  <2>1. Unseen  BY <1>7 DEF vars, Unseen, catalogVars, indexerVars
  <2>2. QED  BY <1>1, <2>1
<1>8. QED  BY <1>1, <1>2, <1>3, <1>4, <1>5, <1>6, <1>7, FormsUnseen DEF Next

(***************************************************************************)
(* The indexer that creators and buyers meet in a sale keeps the promise   *)
(* the scanner's loop keeps (Engine::on_note, catalog.rs): no key without  *)
(* a payment on the chain that covers a promised price, none twice in a    *)
(* life, and no drop promised for two creators.                            *)
(***************************************************************************)
THEOREM SaleImplementsLedger == Spec => SaleKeepsLedger
<1>1. Init => LedgerInv /\ Ledger!Init
  BY DEF Init, CatalogInit, LedgerInv, DropKeepsOwner, Ledger!Init
<1>2. LedgerInv /\ [Next]_vars =>
        LedgerInv' /\ [Ledger!Next]_<<chain, accepted, Released>>
  BY SaleStepRefines
<1>3. QED  BY <1>1, <1>2, PTL DEF Spec, SaleKeepsLedger, Ledger!Spec, Released
-----------------------------------------------------------------------------
(* What is reported stays listed.                                          *)

(* The creator of o has o's drop in the catalog.                           *)
Holds(o) == \E c \in catalog : c.drop = o.drop /\ c.ufvk = o.ufvk

(* No reply is of a life to come, whoever was answered 200 in this life    *)
(* holds the drop, and only such replies are reported as provisioned.      *)
ReplyInv ==
  /\ life \in Nat
  /\ \A r \in replies : r.life \in 0 .. life
  /\ \A r \in replies : r.status = 200 /\ r.life = life => Holds(r.offer)
  /\ \A r \in reported : r \in replies /\ r.status = 200

(* An offer enters the catalog in the place of its creator's own.          *)
LEMMA InsertHolds ==
  ASSUME NEW o, NEW p, Insert(o), Holds(p)
  PROVE  Holds(o)' /\ Holds(p)'
<1>1. o \in catalog' /\ Holds(o)'  BY DEF Insert, Holds
<1>2. PICK c \in catalog : c.drop = p.drop /\ c.ufvk = p.ufvk  BY DEF Holds
<1>3. CASE p.drop = o.drop
  <2>1. o.ufvk = p.ufvk  BY <1>2, <1>3 DEF Insert, OwnedBy
  <2>2. QED  BY <1>1, <1>3, <2>1 DEF Holds
<1>4. CASE p.drop # o.drop
  <2>1. c \in catalog'  BY <1>2, <1>4 DEF Insert
  <2>2. QED  BY <1>1, <1>2, <2>1 DEF Holds
<1>5. QED  BY <1>3, <1>4

LEMMA PostReplies ==
  ASSUME ReplyInv, NEW m \in Post, HandlePost(m) \/ RefusePost(m)
  PROVE  ReplyInv'
<1>1. UNCHANGED <<life, reported>>
  BY DEF HandlePost, RefusePost, formVars
<1>2. CASE HandlePost(m)
  <2> DEFINE r == [offer |-> m.offer, status |-> 200, life |-> life]
  <2>1. Insert(m.offer) /\ replies' = replies \cup {r}
    BY <1>2 DEF HandlePost, ReplyTo
  <2>2. Holds(m.offer)'  BY <2>1 DEF Insert, Holds
  <2>3. \A q \in replies : q.status = 200 /\ q.life = life => Holds(q.offer)'
    BY <2>1, InsertHolds DEF ReplyInv
  <2>4. r.offer = m.offer /\ r.life = life  OBVIOUS
  <2> HIDE DEF r
  <2>5. \A q \in replies' : q.status = 200 /\ q.life = life => Holds(q.offer)'
    BY <2>1, <2>2, <2>3, <2>4
  <2>6. QED  BY <1>1, <2>1, <2>4, <2>5 DEF ReplyInv
<1>3. CASE RefusePost(m)
  <2>1. PICK code \in {400, 409} : ReplyTo(m, code)  BY <1>3 DEF RefusePost
  <2> DEFINE r == [offer |-> m.offer, status |-> code, life |-> life]
  <2>2. replies' = replies \cup {r} /\ r.status # 200 /\ r.life = life
    BY <2>1 DEF ReplyTo
  <2>3. UNCHANGED catalog  BY <1>3 DEF RefusePost, catalogVars
  <2> HIDE DEF r
  <2>4. QED  BY <1>1, <2>2, <2>3 DEF ReplyInv, Holds
<1>4. QED  BY <1>2, <1>3

LEMMA ReplyNext == ReplyInv /\ [Next]_vars => ReplyInv'
<1> SUFFICES ASSUME ReplyInv, [Next]_vars PROVE ReplyInv'  OBVIOUS
<1>1. CASE UNCHANGED <<catalog, life, replies, reported>>
  BY <1>1 DEF ReplyInv, Holds
<1>2. CASE Creators
  <2>1. UNCHANGED <<catalog, life, replies>>
    BY <1>2 DEF Creators, Submit, Uploaded, Attested, Provisioned, StageFails, Repin,
       catalogVars, indexerVars, netVars
  <2>2. \A r \in reported' : r \in replies /\ r.status = 200
    BY <1>2 DEF Creators, Submit, Uploaded, Attested, Provisioned, StageFails, Repin,
       ReplyInv
  <2>3. QED  BY <2>1, <2>2 DEF ReplyInv, Holds
<1>3. CASE Serve
  <2>1. ASSUME NEW x \in Key, HandleUpload(x)
        PROVE  UNCHANGED <<catalog, life, replies, reported>>
    BY <2>1 DEF HandleUpload, catalogVars, formVars
  <2>2. QED  BY <1>1, <1>3, <2>1, PostReplies DEF Serve
<1>4. CASE Restart
  <2>1. life' = life + 1 /\ UNCHANGED <<replies, reported>>
    BY <1>4 DEF Restart, netVars, formVars
  <2>2. QED  BY <2>1 DEF ReplyInv
<1>5. CASE Scan \/ Buyers \/ Unlock
  <2>1. UNCHANGED <<catalog, life, replies, reported>>
    BY <1>5 DEF Scan, AnswerPayment, ScannerMisses, Buyers, LoadCatalog, Reload, Buy, PayFor,
       Unlock, Open, catalogVars, indexerVars, netVars, formVars
  <2>2. QED  BY <1>1, <2>1
<1>6. CASE UNCHANGED vars
  <2>1. UNCHANGED <<catalog, life, replies, reported>>
    BY <1>6 DEF vars, catalogVars, indexerVars, netVars, formVars
  <2>2. QED  BY <1>1, <2>1
<1>7. QED  BY <1>2, <1>3, <1>4, <1>5, <1>6 DEF Next

(***************************************************************************)
(* For any number of creators, forms, rivals, late posts and restarts: a   *)
(* drop reported to its creator as provisioned is listed as hers for as    *)
(* long as the process that said so lives (provision_h,                    *)
(* CatalogStore::insert).                                                  *)
(***************************************************************************)
THEOREM ReportedDropsStayListed == Spec => []ReportedStaysListed
<1>1. Init => ReplyInv  BY DEF Init, ReplyInv
<1>2. ReplyInv => ReportedStaysListed
  BY DEF ReplyInv, Holds, ReportedStaysListed
<1>3. QED  BY <1>1, <1>2, ReplyNext, PTL DEF Spec
-----------------------------------------------------------------------------
(* Content is opened only by who paid for it.                              *)

(* An offer that has left its creator's form.                              *)
IsSent(o) ==
  \/ \E c \in Ufvk : stage[c] # "idle" /\ draft[c] = o
  \/ \E m \in posts : m.offer = o
  \/ o \in taken

(* A key is drawn for one form, so that it names its offer.                *)
KeyInv ==
  /\ \A o \in Offers : IsSent(o) => o.key \in used
  /\ \A o, p \in Offers : IsSent(o) /\ IsSent(p) /\ o.key = p.key => o = p

(* The key of o was released for a payment of b that is on the chain.      *)
ReleasedFor(o, a) ==
  /\ a.key = o.key
  /\ a.tx \in chain
  /\ IsPayment(a.tx, a.to, o)

(* What a buyer sees and wants was in the catalog once, and every answer   *)
(* has its payment.                                                        *)
BuyInv ==
  /\ catalog \subseteq taken
  /\ \A b \in EPub : view[b] \subseteq taken /\ want[b] \subseteq taken
  /\ \A a \in answers : \E o \in taken : ReleasedFor(o, a)
  /\ OpenedIsPaid

OpenInv == TypeOK /\ KeyInv /\ BuyInv

LEMMA KeysKept ==
  ASSUME KeyInv, used \subseteq used', \A o \in Offers : IsSent(o)' => IsSent(o)
  PROVE  KeyInv'
BY DEF KeyInv

(* The chain and the catalog's history only grow, and what is wanted stays.*)
LEMMA PaidStays ==
  ASSUME NEW b, NEW o, PaidFor(b, o), o \in want'[b], chain \subseteq chain'
  PROVE  PaidFor(b, o)'
BY DEF PaidFor

LEMMA ReleaseStays ==
  ASSUME NEW o, NEW a, ReleasedFor(o, a), chain \subseteq chain'
  PROVE  ReleasedFor(o, a)'
BY DEF ReleasedFor

LEMMA BuyKept ==
  ASSUME BuyInv, taken \subseteq taken', catalog' \subseteq taken', chain \subseteq chain',
         UNCHANGED <<view, want, answers, opened>>
  PROVE  BuyInv'
<1>1. \A a \in answers' : \E o \in taken' : ReleasedFor(o, a)'
  BY ReleaseStays DEF BuyInv
<1>2. OpenedIsPaid'
  <2> SUFFICES ASSUME NEW b \in opened' PROVE \E o \in want'[b] : PaidFor(b, o)'
    BY DEF OpenedIsPaid
  <2>1. PICK o \in want[b] : PaidFor(b, o)  BY DEF BuyInv, OpenedIsPaid
  <2>2. QED  BY <2>1, PaidStays
<1>3. QED  BY <1>1, <1>2 DEF BuyInv

LEMMA CreatorsOpen == OpenInv /\ Creators => KeyInv' /\ BuyInv'
<1> SUFFICES ASSUME OpenInv, NEW c \in Ufvk,
                    \/ \E o \in Offers : Submit(c, o)
                    \/ Uploaded(c) \/ Attested(c) \/ Provisioned(c)
                    \/ StageFails(c) \/ Repin(c)
             PROVE  KeyInv' /\ BuyInv'
  BY DEF Creators
<1>1. BuyInv'
  <2>1. UNCHANGED <<taken, catalog, chain, view, want, answers, opened>>
    BY DEF Submit, Uploaded, Attested, Provisioned, StageFails, Repin, catalogVars, buyerVars
  <2>2. QED  BY <2>1, BuyKept DEF OpenInv, BuyInv
<1>2. /\ stage \in [Ufvk -> {"idle", "upload", "attest", "provision"}]
      /\ draft \in [Ufvk -> Offers \cup {None}]
  BY DEF OpenInv, TypeOK
<1>3. ASSUME NEW o \in Offers, Submit(c, o) PROVE KeyInv'
  <2>1. /\ o.key \notin used /\ used' = used \cup {o.key}
        /\ draft' = [draft EXCEPT ![c] = o] /\ UNCHANGED <<posts, taken>>
        /\ stage' = [stage EXCEPT ![c] = "upload"]
    BY <1>3 DEF Submit, Goto
  <2>2. \A p \in Offers : IsSent(p)' => IsSent(p) \/ p = o
    BY <1>2, <2>1 DEF IsSent
  <2>3. QED  BY <2>1, <2>2 DEF OpenInv, KeyInv
<1>4. CASE Attested(c)
  <2>1. stage[c] = "attest" /\ posts' = posts \cup {[offer |-> draft[c], to |-> build]}
        /\ stage' = [stage EXCEPT ![c] = "provision"] /\ UNCHANGED <<draft, taken, used>>
    BY <1>4 DEF Attested, Goto
  <2>2. \A p \in Offers : IsSent(p)' => IsSent(p)
    BY <1>2, <2>1 DEF IsSent
  <2>3. QED  BY <1>1, <2>1, <2>2, KeysKept DEF OpenInv
<1>5. CASE Uploaded(c) \/ Provisioned(c) \/ StageFails(c) \/ Repin(c)
  <2>1. /\ UNCHANGED <<taken, used, posts>>
        /\ \A d \in Ufvk : stage'[d] # "idle" => stage[d] # "idle" /\ draft'[d] = draft[d]
    BY <1>2, <1>5 DEF Uploaded, Provisioned, StageFails, Repin, Leave, Goto, netVars
  <2>2. \A p \in Offers : IsSent(p)' => IsSent(p)  BY <2>1 DEF IsSent
  <2>3. QED  BY <1>1, <2>1, <2>2, KeysKept DEF OpenInv
<1>6. QED  BY <1>1, <1>3, <1>4, <1>5

LEMMA ServeOpen == OpenInv /\ (Serve \/ Restart) => KeyInv' /\ BuyInv'
<1> SUFFICES ASSUME OpenInv, Serve \/ Restart PROVE KeyInv' /\ BuyInv'  OBVIOUS
<1>1. UNCHANGED <<stage, draft, used, chain, view, want, answers, opened>>
  BY DEF Serve, HandleUpload, HandlePost, RefusePost, Restart, formVars, buyerVars
<1>2. /\ posts' \subseteq posts
      /\ \A o \in taken' : o \in taken \/ \E m \in posts : m.offer = o
      /\ taken \subseteq taken' /\ catalog' \subseteq taken'
  <2> USE DEF OpenInv, BuyInv
  <2>1. ASSUME NEW x \in Key, HandleUpload(x) PROVE <1>2!:
    BY <2>1 DEF HandleUpload, catalogVars
  <2>2. ASSUME NEW m \in Post, HandlePost(m) PROVE <1>2!:
    BY <2>2 DEF HandlePost, Insert
  <2>3. ASSUME NEW m \in Post, RefusePost(m) PROVE <1>2!:
    BY <2>3 DEF RefusePost, catalogVars
  <2>4. CASE Restart  BY <2>4 DEF Restart, CatalogRestart, netVars
  <2>5. QED  BY <2>1, <2>2, <2>3, <2>4 DEF Serve
<1>3. \A o \in Offers : IsSent(o)' => IsSent(o)  BY <1>1, <1>2 DEF IsSent
<1>4. KeyInv'  BY <1>1, <1>3, KeysKept DEF OpenInv
<1>5. BuyInv'  BY <1>1, <1>2, BuyKept DEF OpenInv
<1>6. QED  BY <1>4, <1>5

(* The answer that opens the content carries its key, which names the      *)
(* offer: so the payment it was given for was for this offer.              *)
LEMMA OpensPaid ==
  ASSUME OpenInv, NEW b \in EPub, NEW o \in Offers, Open(b, o)
  PROVE  PaidFor(b, o)
<1>1. PICK a \in answers : a.to = b /\ a.key = o.key  BY DEF Open
<1>2. PICK p \in taken : ReleasedFor(p, a)  BY DEF OpenInv, BuyInv
<1>3. o \in want[b] /\ o \in taken  BY DEF Open, OpenInv, BuyInv
<1>4. p \in Offers /\ p.key = o.key  BY <1>1, <1>2 DEF OpenInv, TypeOK, ReleasedFor
<1>5. p = o  BY <1>3, <1>4 DEF OpenInv, KeyInv, IsSent
<1>6. QED  BY <1>1, <1>2, <1>3, <1>5 DEF ReleasedFor, PaidFor

LEMMA BuyersOpen == OpenInv /\ (Scan \/ Buyers \/ Unlock) => KeyInv' /\ BuyInv'
<1> SUFFICES ASSUME OpenInv, Scan \/ Buyers \/ Unlock PROVE KeyInv' /\ BuyInv'  OBVIOUS
<1>1. UNCHANGED <<stage, draft, posts, taken, used, catalog>>
  BY DEF Scan, Buyers, Unlock, AnswerPayment, ScannerMisses, LoadCatalog, Reload, Buy,
         PayFor, Open, formVars, netVars, catalogVars
<1>2. KeyInv'  BY <1>1, KeysKept DEF OpenInv, IsSent
<1>3. view \in [EPub -> SUBSET Offers] /\ want \in [EPub -> SUBSET Offers]
      /\ opened \subseteq EPub
  BY DEF OpenInv, TypeOK
<1>4. ASSUME NEW t \in Tx, NEW o \in Offers, AnswerPayment(t, o) PROVE BuyInv'
  <2>1. PICK i \in NoteIdx(t, o.ufvk) :
          /\ FirstPayment(t, o.ufvk, i) /\ NotePays(t, o.ufvk, i, o)
          /\ Put(Blob(t, o, i, o.key))
    BY <1>4 DEF AnswerPayment
  <2> DEFINE new == Blob(t, o, i, o.key)
  <2>2. /\ t \in chain /\ o \in taken
        /\ UNCHANGED <<chain, view, want, opened>>
    BY <1>4 DEF AnswerPayment, OpenInv, BuyInv
  <2>3. /\ answers' = answers \cup {new} /\ new.tx = t /\ new.key = o.key
        /\ new.to = Notes[t][o.ufvk][i].ePub
    BY <2>1 DEF Put, Blob
  <2>4. ReleasedFor(o, new)
    <3> HIDE DEF new
    <3>1. QED  BY <2>1, <2>2, <2>3 DEF ReleasedFor, IsPayment
  <2> HIDE DEF new
  <2>5. \A a \in answers' : \E p \in taken' : ReleasedFor(p, a)'
    <3>1. \A a \in answers' : \E p \in taken : ReleasedFor(p, a)
      BY <2>2, <2>3, <2>4 DEF OpenInv, BuyInv
    <3>2. QED  BY <1>1, <2>2, <3>1, ReleaseStays
  <2>6. OpenedIsPaid'
    BY <2>2 DEF OpenInv, BuyInv, OpenedIsPaid, PaidFor, IsPayment
  <2>7. QED  BY <1>1, <2>2, <2>5, <2>6 DEF OpenInv, BuyInv
<1>5. ASSUME NEW b \in EPub, LoadCatalog(b) PROVE BuyInv'
  BY <1>1, <1>3, <1>5
  DEF LoadCatalog, OpenInv, BuyInv, ReleasedFor, OpenedIsPaid, PaidFor, IsPayment
<1>6. ASSUME NEW b \in EPub, NEW o \in Offers, Buy(b, o) PROVE BuyInv'
  <2>1. /\ want[b] = {} /\ o \in view[b] /\ want' = [want EXCEPT ![b] = {o}]
        /\ UNCHANGED <<view, opened, chain, answers>>
    BY <1>6 DEF Buy
  <2>2. \A a \in answers' : \E p \in taken' : ReleasedFor(p, a)'
    BY <1>1, <2>1 DEF OpenInv, BuyInv, ReleasedFor
  <2>3. b \notin opened  BY <2>1 DEF OpenInv, BuyInv, OpenedIsPaid
  <2>4. OpenedIsPaid'
    <3> SUFFICES ASSUME NEW e \in opened PROVE \E p \in want'[e] : PaidFor(e, p)'
      BY <2>1 DEF OpenedIsPaid
    <3>1. PICK p \in want[e] : PaidFor(e, p)  BY DEF OpenInv, BuyInv, OpenedIsPaid
    <3>2. want'[e] = want[e]  BY <1>3, <2>1, <2>3
    <3>3. QED  BY <2>1, <3>1, <3>2, PaidStays
  <2>5. \A e \in EPub : view'[e] \subseteq taken' /\ want'[e] \subseteq taken'
    BY <1>1, <1>3, <2>1 DEF OpenInv, BuyInv
  <2>6. QED  BY <1>1, <2>2, <2>4, <2>5 DEF OpenInv, BuyInv
<1>7. ASSUME NEW b \in EPub, NEW o \in Offers, NEW t \in Tx, PayFor(b, o, t) PROVE BuyInv'
  BY <1>1, <1>7, BuyKept DEF PayFor, OpenInv, BuyInv, buyerVars
<1>8. ASSUME NEW b \in EPub, NEW o \in Offers, Open(b, o) PROVE BuyInv'
  <2>1. /\ o \in want[b] /\ opened' = opened \cup {b}
        /\ UNCHANGED <<view, want, chain, answers>>
    BY <1>8 DEF Open
  <2>2. PaidFor(b, o)  BY <1>8, OpensPaid
  <2>3. OpenedIsPaid'
    <3> SUFFICES ASSUME NEW e \in opened' PROVE \E p \in want'[e] : PaidFor(e, p)'
      BY DEF OpenedIsPaid
    <3>1. PICK p \in want[e] : PaidFor(e, p)
      BY <2>1, <2>2 DEF OpenInv, BuyInv, OpenedIsPaid
    <3>2. QED  BY <2>1, <3>1, PaidStays
  <2>4. \A a \in answers' : \E p \in taken' : ReleasedFor(p, a)'
    BY <1>1, <2>1 DEF OpenInv, BuyInv, ReleasedFor
  <2>5. QED  BY <1>1, <2>1, <2>3, <2>4 DEF OpenInv, BuyInv
<1>9. ASSUME NEW t \in Tx, NEW u \in Ufvk, ScannerMisses(t, u) PROVE BuyInv'
  BY <1>1, <1>9, BuyKept DEF ScannerMisses, OpenInv, BuyInv, buyerVars
<1>10. ASSUME NEW b \in EPub, Reload(b) PROVE BuyInv'
  BY <1>1, <1>3, <1>10 DEF Reload, OpenInv, BuyInv, ReleasedFor, OpenedIsPaid, PaidFor, IsPayment
<1>11. QED
  BY <1>2, <1>4, <1>5, <1>6, <1>7, <1>8, <1>9, <1>10 DEF Scan, Buyers, Unlock

LEMMA OpenInvAlways == Spec => []OpenInv
<1>1. Init => KeyInv /\ BuyInv
  BY DEF Init, CatalogInit, KeyInv, BuyInv, IsSent, OpenedIsPaid
<1>2. OpenInv /\ [Next]_vars => KeyInv' /\ BuyInv'
  <2>1. OpenInv /\ UNCHANGED vars => KeyInv' /\ BuyInv'
    BY DEF OpenInv, KeyInv, IsSent, BuyInv, ReleasedFor, OpenedIsPaid, PaidFor, vars,
           catalogVars, indexerVars, netVars, formVars, buyerVars
  <2>2. QED  BY <2>1, CreatorsOpen, ServeOpen, BuyersOpen DEF Next
<1>3. TypeOK /\ KeyInv /\ BuyInv <=> OpenInv  BY DEF OpenInv
<1>4. QED  BY <1>1, <1>2, <1>3, SaleTypeCorrect, PTL DEF Spec

(***************************************************************************)
(* No buyer opens content that was not paid for, at the price and to the   *)
(* creator of the offer she bought: in any number of sales, provisions,    *)
(* redeployments and lives of the process.                                 *)
(***************************************************************************)
THEOREM OnlyPaidIsOpened == Spec => []OpenedIsPaid
<1>1. OpenInv => OpenedIsPaid  BY DEF OpenInv, BuyInv
<1>2. QED  BY <1>1, OpenInvAlways, PTL
-----------------------------------------------------------------------------
(* Why ResendIsSafe fails: only because a creator sends another key for a  *)
(* drop, or a wallet pays for two things at once.                          *)

(* What is on the chain was paid for what its buyer wants.                 *)
ChainInv ==
  /\ \A b \in EPub : \A o, p \in want[b] : o = p
  /\ \A t \in chain : \E b \in EPub : \E o \in want[b] : \E i \in NoteIdx(t, o.ufvk) :
       /\ Notes[t][o.ufvk][i].memo = "payment"
       /\ Notes[t][o.ufvk][i].ePub = b
       /\ Notes[t][o.ufvk][i].drop = o.drop

LEMMA ChainNext == TypeOK /\ ChainInv /\ [Next]_vars => ChainInv'
<1> SUFFICES ASSUME TypeOK, ChainInv, [Next]_vars PROVE ChainInv'  OBVIOUS
<1>1. CASE Creators \/ Serve \/ Restart \/ Scan \/ Unlock \/ UNCHANGED vars
  <2>1. UNCHANGED <<want, chain>>
    BY <1>1 DEF Creators, Submit, Uploaded, Attested, Provisioned, StageFails, Repin, Serve,
       HandleUpload, HandlePost, RefusePost, Restart, Scan, AnswerPayment, ScannerMisses,
       Unlock, Open, vars, buyerVars
  <2>2. QED  BY <2>1 DEF ChainInv
<1>2. want \in [EPub -> SUBSET Offers]  BY DEF TypeOK
<1>3. ASSUME NEW b \in EPub, LoadCatalog(b) PROVE ChainInv'
  <2>1. UNCHANGED <<want, chain>>  BY <1>3 DEF LoadCatalog
  <2>2. QED  BY <2>1 DEF ChainInv
<1>4. ASSUME NEW b \in EPub, NEW o \in Offers, Buy(b, o) PROVE ChainInv'
  <2>1. want[b] = {} /\ want' = [want EXCEPT ![b] = {o}] /\ UNCHANGED chain
    BY <1>4 DEF Buy
  <2>2. \A e \in EPub : \A p, q \in want'[e] : p = q
    BY <1>2, <2>1 DEF ChainInv
  <2>3. \A e \in EPub : want[e] \subseteq want'[e]  BY <1>2, <2>1
  <2>4. QED  BY <2>1, <2>2, <2>3 DEF ChainInv
<1>5. ASSUME NEW b \in EPub, NEW o \in Offers, NEW t \in Tx, PayFor(b, o, t) PROVE ChainInv'
  <2>1. /\ o \in want[b] /\ chain' = chain \cup {t} /\ UNCHANGED want
        /\ \E i \in NoteIdx(t, o.ufvk) :
             /\ Notes[t][o.ufvk][i].memo = "payment"
             /\ Notes[t][o.ufvk][i].ePub = b
             /\ Notes[t][o.ufvk][i].drop = o.drop
    BY <1>5 DEF PayFor, FirstPayment, buyerVars
  <2>2. QED  BY <2>1 DEF ChainInv
<1>6. ASSUME NEW b \in EPub, Reload(b) PROVE ChainInv'
  <2>1. UNCHANGED <<want, chain>>  BY <1>6 DEF Reload
  <2>2. QED  BY <2>1 DEF ChainInv
<1>7. QED  BY <1>1, <1>3, <1>4, <1>5, <1>6 DEF Next, Buyers

(***************************************************************************)
(* When no creator has two offers for one drop, and no transaction two     *)
(* payment notes, whoever is answered gets the key of what she bought:     *)
(* neither late or lost requests, nor rivals for the drop id, nor          *)
(* redeployments and restarts can send her another.                        *)
(***************************************************************************)
THEOREM OneOfferIsSafe ==
  ASSUME \A o, p \in Offers : o.drop = p.drop /\ o.ufvk = p.ufvk => o = p,
         \A t \in Tx, u, v \in Ufvk : \A i \in NoteIdx(t, u), j \in NoteIdx(t, v) :
           Notes[t][u][i].memo = "payment" /\ Notes[t][v][j].memo = "payment"
             => u = v /\ i = j
  PROVE  Spec => []ResendIsSafe
<1>1. Init => ChainInv  BY DEF Init, ChainInv
<1>2. OpenInv => TypeOK  BY DEF OpenInv
<1>3. OpenInv /\ ChainInv => ResendIsSafe
  <2> SUFFICES ASSUME OpenInv, ChainInv, NEW a \in answers, NEW p \in want[a.to]
               PROVE  a.key = p.key
    BY DEF ResendIsSafe
  <2>1. a.tx \in Tx /\ a.to \in EPub  BY DEF OpenInv, TypeOK, Answer
  <2>2. PICK o \in taken : ReleasedFor(o, a)  BY DEF OpenInv, BuyInv
  <2>3. PICK i \in NoteIdx(a.tx, o.ufvk) :
          /\ Notes[a.tx][o.ufvk][i].ePub = a.to
          /\ NotePays(a.tx, o.ufvk, i, o)
    BY <2>2 DEF ReleasedFor, IsPayment
  <2>4. PICK b \in EPub : \E q \in want[b] : \E j \in NoteIdx(a.tx, q.ufvk) :
          /\ Notes[a.tx][q.ufvk][j].memo = "payment"
          /\ Notes[a.tx][q.ufvk][j].ePub = b
          /\ Notes[a.tx][q.ufvk][j].drop = q.drop
    BY <2>2 DEF ReleasedFor, ChainInv
  <2>5. PICK q \in want[b] : \E j \in NoteIdx(a.tx, q.ufvk) :
          /\ Notes[a.tx][q.ufvk][j].memo = "payment"
          /\ Notes[a.tx][q.ufvk][j].ePub = b
          /\ Notes[a.tx][q.ufvk][j].drop = q.drop
    BY <2>4
  <2>6. o \in Offers /\ q \in Offers /\ p \in Offers
    BY <2>1 DEF OpenInv, TypeOK
  <2>7. q.ufvk = o.ufvk /\ b = a.to /\ q.drop = o.drop
    BY <2>1, <2>3, <2>5, <2>6, OfferTyped DEF NotePays
  <2>8. p = q  BY <2>7, <2>1 DEF ChainInv
  <2>9. p = o  BY <2>6, <2>7, <2>8
  <2>10. QED  BY <2>2, <2>9 DEF ReleasedFor
<1>4. QED  BY <1>1, <1>2, <1>3, ChainNext, OpenInvAlways, PTL DEF Spec
=============================================================================
