---------------------------- MODULE DatasetView ----------------------------
(***************************************************************************)
(* What the aggregation dataset promises its readers, with no snapshot,    *)
(* pointer or staging directory in sight: a set of ingested files, and a   *)
(* view that is always the exact union of some of them.  A row of a view   *)
(* carries the core metrics of its ingested row; only the nullable derived *)
(* metric may differ (docs/storage/20_parquet_backend.md).                 *)
(***************************************************************************)
EXTENDS Naturals, FiniteSets

CONSTANTS Batches  \* ingestable files: [run, rows], rows a function from record identities to core metrics

VARIABLES ingested,  \* the files the dataset holds
          view       \* the file set behind the rows a reader is given, and those rows

Ids(b) == DOMAIN b.rows

Disjoint(F) == \A b, c \in F : b # c => Ids(b) \cap Ids(c) = {}

IdsOf(F) == UNION {Ids(b) : b \in F}

(***************************************************************************)
(* The core metrics of the rows of the files F.                            *)
(***************************************************************************)
CoreOf(F) == [i \in IdsOf(F) |-> (CHOOSE b \in F : i \in Ids(b)).rows[i]]

ViewInit == ingested = {} /\ view = <<>>

Ingest(b) == /\ ingested' = ingested \cup {b}
             /\ UNCHANGED view

(***************************************************************************)
(* The view moves, forwards or back, to the rows of a set of ingested      *)
(* files in which no identity occurs twice.                                *)
(***************************************************************************)
Switch(F) == /\ F # {} /\ F \subseteq ingested /\ Disjoint(F)
             /\ view' = CoreOf(F)
             /\ UNCHANGED ingested

ViewNext == \/ \E b \in Batches : Ingest(b)
            \/ \E F \in SUBSET ingested : Switch(F)

ViewSpec == ViewInit /\ [][ViewNext]_<<ingested, view>>
=============================================================================
