----------------------------- MODULE DesktopData -----------------------------
(***************************************************************************)
(* The services of the desktop that write its data directory, the stores   *)
(* behind them and the readers of their data.  They share the directory    *)
(* and nothing else: each keeps the variables of its own module.  The      *)
(* corpus catalog, the smallest of the stores, is here.                    *)
(*                                                                         *)
(* storage/corpus.py: ingesting manifests into the corpus catalog.  The    *)
(* item id is a digest of content and semantic identity; the status, the   *)
(* source and the claimed time are outside it.  A manifest whose validation*)
(* fails, and one that contradicts the status of a known item, goes to the *)
(* quarantine in a transaction of its own.                                 *)
(***************************************************************************)
EXTENDS DesktopService, SnapshotStore, AnalyticsComparison

CONSTANTS
  Ingesters,   \* processes calling ingest
  CcItems,     \* [content, semantic] pairs
  CcSources,   \* source URIs
  CcTimes,     \* claimed ingest times
  CcIngests    \* bound: ingest calls

VARIABLES
  corpus,   \* items, sources and quarantine tables
  ingest    \* a process's call: its manifest and how far it is

ccVars == <<corpus, ingest>>

CorpusItemStatus == {"complete", "incomplete", "quarantined"}

(* CorpusItemManifest; ok is what validate_corpus_manifest finds.          *)
CorpusManifests ==
  [item : CcItems, status : CorpusItemStatus, source : CcSources,
   at : CcTimes, ok : BOOLEAN]
NoCorpusManifest == [item |-> <<0, 0>>, none |-> TRUE]

CcInit ==
  /\ corpus = [items |-> {}, sources |-> {}, quarantine |-> {}, calls |-> 0,
               returned |-> {}]
  /\ ingest = [p \in Ingesters |-> [phase |-> "idle", manifest |-> NoCorpusManifest]]

ItemOf(i) == {x \in corpus.items : x.item = i}
Return(p) ==
  ingest' = [ingest EXCEPT ![p] = [phase |-> "idle", manifest |-> NoCorpusManifest]]

Ingest(p, m) ==
  /\ ingest[p].phase = "idle" /\ corpus.calls < CcIngests
  /\ ingest' = [ingest EXCEPT ![p] =
       [phase |-> IF m.ok THEN "transaction" ELSE "quarantine",
        manifest |-> m]]
  /\ corpus' = [corpus EXCEPT !.calls = @ + 1]

(* The BEGIN IMMEDIATE transaction of ingest: a known item with the same   *)
(* status gets one more source, one with another status is rolled back.    *)
Commit(p) ==
  LET m == ingest[p].manifest
      known == ItemOf(m.item)
  IN /\ ingest[p].phase = "transaction"
     /\ \A x \in known : x.status = m.status
     /\ corpus' = [corpus EXCEPT
          !.sources = @ \cup {<<m.item, m.source>>},
          !.items = IF known # {} THEN @
                    ELSE @ \cup {[item |-> m.item, status |-> m.status,
                                  at |-> m.at]},
          !.returned = @ \cup {m}]
     /\ Return(p)

RollBack(p) ==
  LET m == ingest[p].manifest IN
  /\ ingest[p].phase = "transaction"
  /\ \E x \in ItemOf(m.item) : x.status # m.status
  /\ ingest' = [ingest EXCEPT ![p].phase = "quarantine"]
  /\ UNCHANGED corpus

(* _quarantine: INSERT OR IGNORE under a digest of manifest and source.    *)
QuarantineManifest(p) ==
  LET m == ingest[p].manifest IN
  /\ ingest[p].phase = "quarantine"
  /\ corpus' = [corpus EXCEPT !.quarantine = @ \cup {m},
                              !.returned = @ \cup {m}]
  /\ Return(p)

(* The process is lost inside a call.                                      *)
IngestLost(p) == ingest[p].phase # "idle" /\ Return(p) /\ UNCHANGED corpus

CcNext ==
  \E p \in Ingesters :
    \/ \E m \in CorpusManifests : Ingest(p, m)
    \/ Commit(p) \/ RollBack(p) \/ QuarantineManifest(p) \/ IngestLost(p)

CcSpec == CcInit /\ [][CcNext]_ccVars

(***************************************************************************)
(* Properties                                                              *)
(***************************************************************************)
(* docs/spec/v0.5.0/10_analytics_contracts.md:32 -- raw items are kept and *)
(* an exact duplicate is idempotent.  No call loses its manifest: after a  *)
(* return it is an item of that status with that source on record, or it   *)
(* is quarantined, whatever other processes ingest in between and whatever *)
(* is claimed of the item later; and no item has two rows.                 *)
NothingLost ==
  /\ \A m \in corpus.returned :
       \/ m \in corpus.quarantine
       \/ /\ m.ok /\ <<m.item, m.source>> \in corpus.sources
          /\ \E x \in corpus.items : x.item = m.item /\ x.status = m.status
  /\ \A x, y \in corpus.items : x.item = y.item => x = y


(* What the storage was given it keeps: the rows of ingest files through   *)
(* every snapshot, and the manifests of the corpus through every conflict. *)
StorageKept == RowsKept /\ NothingLost

=============================================================================
