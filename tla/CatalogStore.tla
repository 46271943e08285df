---------------------------- MODULE CatalogStore ----------------------------
(***************************************************************************)
(* CatalogStore (indexer/src/catalog.rs) behind POST /provision: the drops *)
(* the enclave sells.  The HashMap drop_id -> (DropConfig, title) is the   *)
(* set of the offers in force, at most one per drop.  The map lives in     *)
(* memory: a restart of the process empties it.                            *)
(***************************************************************************)
EXTENDS Market

VARIABLES
  catalog,   \* the offers in force
  accepted   \* history: every offer accepted since the process started

catalogVars == <<catalog, accepted>>

CatalogTypeOK ==
  /\ catalog \subseteq Offers
  /\ accepted \subseteq Offers

CatalogInit ==
  /\ catalog = {}
  /\ accepted = {}

(* lookup(drop_id) is Some.                                                *)
Listed(d) == \E o \in catalog : o.drop = d

\* Faulty: the last creator to provision a drop owns it.
OwnedByAnyone(o) == o \in Offers

(* The creator who holds drop d now, if any, is the one who made offer o.  *)
OwnedBy(o) == \A c \in catalog : c.drop = o.drop => c.ufvk = o.ufvk

(* insert: the first UFVK to claim a drop owns it; the same UFVK replaces  *)
(* its own offer; any other gets OwnershipMismatch (409) and changes       *)
(* nothing.                                                                *)
Insert(o) ==
  /\ OwnedBy(o)
  /\ catalog' = {c \in catalog : c.drop # o.drop} \cup {o}
  /\ accepted' = accepted \cup {o}

(* The map is lost with the process.                                       *)
CatalogRestart ==
  /\ catalog' = {}
  /\ accepted' = {}

(* The UFVKs configs() returns, each of which a pass scans once.           *)
ListedUfvks == {o.ufvk : o \in catalog}

(***************************************************************************)
(* As long as the process lives, a drop has one creator: no sequence of    *)
(* provisions and re-provisions moves a drop id to another UFVK, which     *)
(* would redirect the payments for it (catalog.rs insert, C4).             *)
(***************************************************************************)
DropKeepsOwner ==
  \A o1, o2 \in accepted : o1.drop = o2.drop => o1.ufvk = o2.ufvk
=============================================================================
