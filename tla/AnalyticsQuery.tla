---------------------------- MODULE AnalyticsQuery ----------------------------
(***************************************************************************)
(* storage/query.py: rows of the analytics data, the store of immutable    *)
(* snapshots, and the two readers of it: clients that page through a query *)
(* result with a cursor, and exports bound to a snapshot, both while       *)
(* ingest registers new snapshots.                                         *)
(*                                                                         *)
(* Of the contract's fields there are one or two of each type.  A JSON     *)
(* value is a pair <<kind, content>>; strings are numbers in their order,  *)
(* 0 the empty one, a string that parses as a timestamp has the kind       *)
(* "date".  Digests (snapshot_id, fingerprint, the checksum of a cursor)   *)
(* are what they are digests of.                                           *)
(***************************************************************************)
EXTENDS Integers, Sequences, FiniteSets

CONSTANTS
  QClients,     \* callers that page
  QExports,     \* export requests
  QSources,     \* what ingest may register: sets of [id, record, dimensions]
  QRequests,    \* the query documents clients send
  QMaxLimit,    \* MAX_QUERY_LIMIT
  MaxSyncRows,  \* max_sync_scan_rows
  MaxScanRows, MaxOutputRows,  \* max_scan_rows, max_output_rows of an export
  QCalls        \* bound: calls of a client

ASSUME QueryAssumption ==
  /\ QMaxLimit \in Nat /\ MaxSyncRows \in Nat \ {0}

VARIABLES
  qstore,   \* AnalyticsSnapshotStore: registered snapshots, the current one
  qclient,  \* a client's series of pages
  qexport   \* an export: its bound request, then its rows

qVars == <<qstore, qclient, qexport>>

(***************************************************************************)
(* Values                                                                  *)
(***************************************************************************)
AnalyticsValueState ==
  <<"value", "empty", "missing", "unknown", "redacted", "not_applicable",
    "quarantined">>
StateOrder(s) == CHOOSE i \in 1..7 : AnalyticsValueState[i] = s

FieldType ==
  [run |-> "string", deck |-> "string", card |-> "string_list",
   success |-> "boolean", score |-> "number", time |-> "timestamp",
   resource_consumption |-> "number"]
Fields == DOMAIN FieldType

Operators(field) ==
  CASE FieldType[field] \in {"string", "boolean"} -> {"eq", "in", "state_is"}
    [] FieldType[field] = "string_list" ->
         {"contains", "contains_any", "contains_all", "state_is"}
    [] OTHER -> {"eq", "in", "gte", "lte", "between", "state_is"}
Sortable(field) == FieldType[field] # "string_list"

Distinct(s) == \A i, j \in DOMAIN s : s[i] = s[j] => i = j

(* The scalar a field, or the operand of a filter on it, may hold.         *)
ScalarOK(field, raw) ==
  CASE FieldType[field] \in {"string", "string_list"} ->
         raw[1] \in {"string", "date"} /\ raw[2] # 0
    [] FieldType[field] = "timestamp" -> raw[1] = "date"
    [] FieldType[field] = "boolean" -> raw[1] = "boolean"
    [] OTHER -> raw[1] = "number"

Blank == {<<"string", 0>>, <<"list", <<>>>>, <<"object", {}>>}
Without(state) == [state |-> state, raw |-> <<"null", 0>>]
Present(raw) == [state |-> "value", raw |-> raw]

(* AnalyticsValue.__post_init__ and _validate_field_value.                 *)
FieldValueOK(field, v) ==
  CASE v.state = "value" ->
         IF FieldType[field] = "string_list"
         THEN v.raw[1] = "list" /\ v.raw[2] # <<>> /\ Distinct(v.raw[2])
                /\ \A i \in DOMAIN v.raw[2] : v.raw[2][i] # 0
         ELSE ScalarOK(field, v.raw)
    [] v.state = "empty" ->
         \/ FieldType[field] = "string" /\ v.raw = <<"string", 0>>
         \/ FieldType[field] = "string_list" /\ v.raw = <<"list", <<>>>>
    [] OTHER -> v.raw = <<"null", 0>>

(* AnalyticsQueryRow.build: what is supplied is a raw value, or a state    *)
(* that withholds one.                                                     *)
Wrapped(x) ==
  IF x[1] = "state" THEN Without(x[2])
  ELSE [state |-> IF x \in Blank THEN "empty" ELSE "value", raw |-> x]
BuildRow(id, supplied) ==
  [id |-> id,
   values |-> [field \in Fields |->
     IF field \in DOMAIN supplied THEN Wrapped(supplied[field])
     ELSE Without("missing")]]
RowOK(row) == \A field \in Fields : FieldValueOK(field, row.values[field])

(* analytics_row_from_aggregation: dimensions cannot replace what the      *)
(* record says; a consumption the record does not have is missing.         *)
Protected == {"run", "success", "score", "time", "resource_consumption"}
FromAggregation(s) ==
  BuildRow(s.id, [field \in Protected \cup DOMAIN s.dimensions |->
    IF field \notin Protected THEN s.dimensions[field]
    ELSE IF s.record[field] = <<"null", 0>> THEN <<"state", "missing">>
    ELSE s.record[field]])
SourceOK(s) == DOMAIN s.dimensions \subseteq Fields \ Protected

(* AnalyticsSnapshot: its rows, no two with one id.                        *)
SnapshotOK(rows) ==
  /\ \A row \in rows : RowOK(row)
  /\ \A row, other \in rows : row.id = other.id => row = other

(***************************************************************************)
(* What ingest and clients send are JSON documents: a number, a string and *)
(* a timestamp have a place in their order, a state is one of the seven,   *)
(* and a list is a sequence.                                               *)
JsonOK(x) ==
  /\ x[1] \in {"number", "string", "date"} => x[2] \in Int
  /\ x[1] = "boolean" => x[2] \in BOOLEAN
  /\ x[1] = "state" => \E i \in 1..7 : x[2] = AnalyticsValueState[i]

ASSUME DocumentAssumption ==
  /\ \A source \in QSources :
       /\ IsFiniteSet(source)
       /\ \A s \in source :
            /\ s.id \in Int
            /\ \A f \in Protected : JsonOK(s.record[f])
            /\ \A f \in DOMAIN s.dimensions : JsonOK(s.dimensions[f])
  /\ \A r \in QRequests : r.sort \in Seq({r.sort[i] : i \in DOMAIN r.sort})

(***************************************************************************)
(* Requests                                                                *)
(***************************************************************************)
(* AnalyticsFilter and _validate_filter_operand; an operand is a sequence. *)
FilterOK(f) ==
  /\ f.field \in Fields /\ f.operator \in Operators(f.field)
  /\ IF f.operator = "state_is"
     THEN \E i \in 1..7 : f.value = <<<<"state", AnalyticsValueState[i]>>>>
     ELSE /\ \A i \in DOMAIN f.value : ScalarOK(f.field, f.value[i])
          /\ CASE f.operator \in {"in", "contains_any", "contains_all"} ->
                    f.value # <<>> /\ Distinct(f.value)
               [] f.operator = "between" ->
                    Len(f.value) = 2 /\ f.value[1][2] <= f.value[2][2]
               [] OTHER -> Len(f.value) = 1

(* AnalyticsSort and AnalyticsQueryRequest.__post_init__.                  *)
RequestOK(r) ==
  /\ r.fields # <<>> /\ Distinct(r.fields)
  /\ \A i \in DOMAIN r.fields : r.fields[i] \in Fields
  /\ \A i \in DOMAIN r.filters : FilterOK(r.filters[i])
  /\ \A i \in DOMAIN r.sort : /\ r.sort[i].field \in Fields
                               /\ Sortable(r.sort[i].field)
                               /\ r.sort[i].direction \in {"asc", "desc"}
  /\ \A i, j \in DOMAIN r.sort : r.sort[i].field = r.sort[j].field => i = j
  /\ r.limit \in 1..QMaxLimit

(* _matches: only an observed value can match an operand.                  *)
Matches(row, f) ==
  LET v == row.values[f.field]
      is == v.raw[2]
      operand == {f.value[i][2] : i \in DOMAIN f.value}
      items == {is[i] : i \in DOMAIN is}
  IN IF f.operator = "state_is" THEN v.state = f.value[1][2]
     ELSE v.state = "value" /\
          CASE f.operator \in {"eq", "in"} -> is \in operand
            [] f.operator = "gte" -> is >= f.value[1][2]
            [] f.operator = "lte" -> is <= f.value[1][2]
            [] f.operator = "between" -> is \in f.value[1][2]..f.value[2][2]
            [] f.operator \in {"contains", "contains_all"} -> operand \subseteq items
            [] f.operator = "contains_any" -> operand \cap items # {}

(* _sort_token; a value that is withheld has only its state.               *)
SortToken(v) ==
  <<StateOrder(v.state), IF v.raw[1] # "boolean" THEN v.raw[2]
                         ELSE IF v.raw[2] THEN 1 ELSE 0>>
TokenLess(a, b) == a[1] < b[1] \/ (a[1] = b[1] /\ a[2] < b[2])

(* _compare_rows: the first sort field that differs, the row id last.      *)
RowBefore(left, right, sorts) ==
  LET token(row, i) == SortToken(row.values[sorts[i].field])
      differ == {i \in DOMAIN sorts : token(left, i) # token(right, i)}
  IN \/ differ = {} /\ left.id < right.id
     \/ \E i \in differ :
          /\ \A j \in differ : i <= j
          /\ IF sorts[i].direction = "asc"
             THEN TokenLess(token(left, i), token(right, i))
             ELSE TokenLess(token(right, i), token(left, i))

(* _select_rows: the rows that match, each at the place its rank gives it. *)
Selected(rows, request) ==
  {row \in rows : \A i \in DOMAIN request.filters :
                    Matches(row, request.filters[i])}
Rank(row, rows, sorts) ==
  Cardinality({other \in rows : RowBefore(other, row, sorts)})
SelectRows(snapshot, request) ==
  LET found == Selected(snapshot.rows, request)
  IN [i \in 1..Cardinality(found) |->
        CHOOSE row \in found : Rank(row, found, request.sort) = i - 1]

(***************************************************************************)
(* The store                                                               *)
(***************************************************************************)
NoSnapshot == [none |-> 0]
NoCursor == [last |-> 0]

QInit ==
  /\ qstore = [registered |-> {}, current |-> NoSnapshot]
  /\ qclient = [c \in QClients |->
       [phase |-> "idle", request |-> 0, cursor |-> NoCursor, got |-> <<>>,
        snapshot |-> NoSnapshot, calls |-> 0]]
  /\ qexport = [e \in QExports |->
       [phase |-> "new", request |-> 0, snapshot |-> NoSnapshot, rows |-> <<>>]]

(* Ingest builds a snapshot of aggregation records and registers it; what  *)
(* is refused leaves the store alone.                                      *)
Register(source, makeCurrent) ==
  LET snapshot == [rows |-> {FromAggregation(s) : s \in source}]
  IN /\ \A s \in source : SourceOK(s)
     /\ SnapshotOK(snapshot.rows)
     /\ qstore' = [registered |-> qstore.registered \cup {snapshot},
                   current |-> IF makeCurrent THEN snapshot
                               ELSE qstore.current]
     /\ UNCHANGED <<qclient, qexport>>

(* _resolve_snapshot; NoSnapshot when it is not available.                 *)
ResolveSnapshot(sid) ==
  IF sid = NoSnapshot THEN qstore.current
  ELSE IF sid \in qstore.registered THEN sid ELSE NoSnapshot

(***************************************************************************)
(* Pages                                                                   *)
(***************************************************************************)
SortValues(row, request) ==
  [i \in DOMAIN request.sort |-> row.values[request.sort[i].field]]

Nowhere(code) == [error |-> code, start |-> 0]

(* mutant: the page starts at the row the last one ended with *)
CursorStartAt(rows, request, cursor) ==
  LET here == {i \in DOMAIN rows : rows[i].id = cursor.last}
      at == CHOOSE i \in here : \A j \in here : i <= j
  IN IF Len(cursor.sort_values) # Len(request.sort)
     THEN Nowhere("invalid_cursor")
     ELSE IF here = {} THEN Nowhere("cursor_position_unavailable")
     ELSE IF SortValues(rows[at], request) # cursor.sort_values
     THEN Nowhere("invalid_cursor")
     ELSE [error |-> "none", start |-> at - 1]

(* _cursor_start: after the first row with the cursor's id, if that row    *)
(* still shows the sort values the cursor was given.                       *)
CursorStart(rows, request, cursor) ==
  LET here == {i \in DOMAIN rows : rows[i].id = cursor.last}
      at == CHOOSE i \in here : \A j \in here : i <= j
  IN IF Len(cursor.sort_values) # Len(request.sort)
     THEN Nowhere("invalid_cursor")
     ELSE IF here = {} THEN Nowhere("cursor_position_unavailable")
     ELSE IF SortValues(rows[at], request) # cursor.sort_values
     THEN Nowhere("invalid_cursor")
     ELSE [error |-> "none", start |-> at]

Refused(code) ==
  [error |-> code, rows |-> <<>>, snapshot |-> NoSnapshot, next |-> NoCursor]

(* _encode_cursor: the position after a page, with its checksum.           *)
EncodeCursor(last, request, snapshot) ==
  [last |-> last.id, fingerprint |-> request, snapshot |-> snapshot,
   sort_values |-> SortValues(last, request), intact |-> TRUE]

(* _decode_cursor: what was altered is malformed.                          *)
Decoded(cursor) == cursor.intact

(* The page from a start on, with a cursor when more rows follow.          *)
Page(request, snapshot, start) ==
  LET rows == SelectRows(snapshot, request)
      end == IF start + request.limit < Len(rows)
             THEN start + request.limit ELSE Len(rows)
      page == SubSeq(rows, start + 1, end)
  IN [error |-> "none", rows |-> page, snapshot |-> snapshot,
      next |-> IF end < Len(rows) /\ page # <<>>
               THEN EncodeCursor(rows[end], request, snapshot)
               ELSE NoCursor]

(* AnalyticsQueryService.execute                                           *)
Execute(request, sid, cursor) ==
  LET bound == cursor # NoCursor
      wanted == IF sid # NoSnapshot \/ ~bound THEN sid ELSE cursor.snapshot
      snapshot == ResolveSnapshot(wanted)
      from == CursorStart(SelectRows(snapshot, request), request, cursor)
  IN IF bound /\ ~Decoded(cursor) THEN Refused("invalid_cursor")
     ELSE IF bound /\ sid # NoSnapshot /\ sid # cursor.snapshot
     THEN Refused("cursor_snapshot_mismatch")
     ELSE IF snapshot = NoSnapshot THEN Refused("snapshot_unavailable")
     ELSE IF bound /\ cursor.fingerprint # request
     THEN Refused("cursor_query_mismatch")
     ELSE IF Cardinality(snapshot.rows) > MaxSyncRows
     THEN Refused("sync_scan_limit_exceeded")
     ELSE IF ~bound THEN Page(request, snapshot, 0)
     ELSE IF from.error # "none" THEN Refused(from.error)
     ELSE Page(request, snapshot, from.start)

(* A client asks for its first page, or for the next one with the cursor   *)
(* it holds, which may have been damaged on the way, and with the query of *)
(* its series or another.  An error leaves the series as it is, and so     *)
(* does an answer that is lost.                                            *)
Ask(c, request, sid) ==
  LET me == qclient[c]
      held == IF me.cursor = NoCursor THEN {NoCursor}
              ELSE {me.cursor, [me.cursor EXCEPT !.intact = FALSE]}
  IN /\ me.calls < QCalls /\ me.phase # "done"
     /\ RequestOK(request)
     /\ \E cursor \in held, lost \in BOOLEAN :
          \E answer \in {Execute(request, sid, cursor)} :
            qclient' = [qclient EXCEPT ![c] =
              IF lost \/ answer.error # "none" THEN [me EXCEPT !.calls = @ + 1]
              ELSE [phase |-> IF answer.next = NoCursor THEN "done"
                              ELSE "paging",
                    request |-> request, cursor |-> answer.next,
                    got |-> me.got \o answer.rows,
                    snapshot |-> answer.snapshot, calls |-> me.calls + 1]]
     /\ UNCHANGED <<qstore, qexport>>

(***************************************************************************)
(* Exports                                                                 *)
(***************************************************************************)
(* bind_snapshot, when the export is queued: a request without a cursor is *)
(* given the snapshot it will read.                                        *)
BindSnapshot(e, request, sid) ==
  LET snapshot == ResolveSnapshot(sid)
  IN /\ qexport[e].phase = "new"
     /\ RequestOK(request)
     /\ qexport' = [qexport EXCEPT ![e] =
          IF snapshot = NoSnapshot THEN [@ EXCEPT !.phase = "refused"]
          ELSE [@ EXCEPT !.phase = "bound", !.request = request,
                         !.snapshot = snapshot]]
     /\ UNCHANGED <<qstore, qclient>>

(* select_for_export, when a worker runs it: it reads the snapshot of the  *)
(* bound request, all of it or, past a limit or cancelled, nothing.        *)
SelectForExport(e, cancelled) ==
  LET me == qexport[e]
      snapshot == ResolveSnapshot(me.snapshot)
      rows == SelectRows(snapshot, me.request)
      refused == \/ snapshot = NoSnapshot
                 \/ Cardinality(snapshot.rows) > MaxScanRows
                 \/ snapshot.rows # {} /\ cancelled
                 \/ Len(rows) > MaxOutputRows
  IN /\ me.phase = "bound"
     /\ qexport' = [qexport EXCEPT ![e] =
          IF refused THEN [@ EXCEPT !.phase = "refused"]
          ELSE [@ EXCEPT !.phase = "done", !.rows = rows]]
     /\ UNCHANGED <<qstore, qclient>>

QNext ==
  \/ \E source \in QSources, cur \in BOOLEAN : Register(source, cur)
  \/ \E c \in QClients, r \in QRequests,
        s \in qstore.registered \cup {NoSnapshot} : Ask(c, r, s)
  \/ \E e \in QExports, r \in QRequests,
        s \in qstore.registered \cup {NoSnapshot} : BindSnapshot(e, r, s)
  \/ \E e \in QExports, cancelled \in BOOLEAN : SelectForExport(e, cancelled)

QSpec == QInit /\ [][QNext]_qVars

(***************************************************************************)
(* Properties                                                              *)
(***************************************************************************)
(* The contract document's consistency promise ("all pages remain bound to *)
(* the cursor snapshot"): whatever is ingested between two pages, whatever *)
(* other query the cursor is presented with and however often a page is    *)
(* asked for, the pages of a series are without gap or repetition the head *)
(* of the selection of its snapshot, all of it when no cursor is left; an  *)
(* export of the same request, bound to the same snapshot and run at any   *)
(* later time, has the same rows.                                          *)
PagesAreExport ==
  /\ \A c \in QClients :
       LET me == qclient[c]
           all == SelectRows(me.snapshot, me.request) IN
       me.phase # "idle" =>
         /\ Len(me.got) <= Len(all) /\ me.got = SubSeq(all, 1, Len(me.got))
         /\ me.phase = "done" => me.got = all
  /\ \A c \in QClients, e \in QExports :
       qclient[c].phase = "done" /\ qexport[e].phase = "done"
         /\ qexport[e].snapshot = qclient[c].snapshot
         /\ qexport[e].request = qclient[c].request
         => qexport[e].rows = qclient[c].got

(* A selection is what the contract says of its order: every row that      *)
(* matches, once, and no row before one that precedes it.                  *)
SelectionOrdered ==
  \A c \in QClients :
    qclient[c].phase = "done" =>
      LET me == qclient[c] IN
      /\ {me.got[i] : i \in DOMAIN me.got} = Selected(me.snapshot.rows, me.request)
      /\ \A i, j \in DOMAIN me.got :
           RowBefore(me.got[j], me.got[i], me.request.sort) => j < i

(* A retained position never gets lost: as long as a client holds a        *)
(* cursor its own next request is answered, not refused.                   *)
CursorStaysUsable ==
  \A c \in QClients :
    LET me == qclient[c] IN
    me.phase = "paging" =>
      Execute(me.request, NoSnapshot, me.cursor).error = "none"

=============================================================================
