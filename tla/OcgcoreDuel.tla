---------------------------- MODULE OcgcoreDuel ----------------------------
(***************************************************************************)
(* engine/bridge/ocgcore/session.py and binding.py: the duels of one       *)
(* OcgcoreLibrary.  A public call runs a native function, which calls back *)
(* (data, script and log readers, a script reader loading further scripts  *)
(* from inside) before it returns.  The native core is external: it may    *)
(* call back in any order and return anything.                             *)
(***************************************************************************)
EXTENDS Integers, Sequences, FiniteSets
LOCAL INSTANCE FiniteSetsExt

CONSTANTS
  Duels,      \* the sessions a program opens on the library
  OdSteps,    \* max_steps of process
  OdCalls,    \* bound: public calls of all sessions
  OdCallbacks \* bound: callbacks of all sessions

ASSUME DuelsAssumption == IsFiniteSet(Duels)

VARIABLES
  library,  \* the OcgcoreLibrary: state and _active_sessions
  duel      \* duel[d]: the OcgcoreDuel d

odVars == <<library, duel>>

DuelStates == {"absent", "version_checked", "duel_created", "cards_loaded",
               "started", "processing", "awaiting_response", "ended",
               "failed", "destroyed"}

Absent ==
  [state |-> "absent", op |-> "idle", frames |-> <<>>, native |-> "none",
   destroys |-> 0, registered |-> FALSE, errors |-> 0, pending |-> <<>>,
   delivered |-> <<>>, next_log |-> 0, audit |-> <<>>, next_script |-> 0,
   setcodes |-> {}, step |-> 0, calls |-> 0, callbacks |-> 0]

OdInit ==
  /\ library = [state |-> "version_checked", active |-> 0]
  /\ duel = [d \in Duels |-> Absent]

CallsMade == MapThenSumSet(LAMBDA d : duel[d].calls, Duels)
CallbacksMade == MapThenSumSet(LAMBDA d : duel[d].callbacks, Duels)

(* The states _require names for a call; query is _assert_usable_for_query *)
Requires(op) ==
  CASE op \in {"add_card", "load_script", "start"} ->
         {"duel_created", "cards_loaded"}
    [] op = "process" -> {"started", "processing"}
    [] op \in {"respond", "scan"} -> {"awaiting_response"}
    [] op = "query" -> DuelStates \ {"absent", "version_checked", "failed",
                                     "destroyed"}

(* A public call reaches its native function.  load_script takes its place *)
(* in the script audit before; the duel is in the library's hands until    *)
(* OdReturn.                                                               *)
OdCall(d, op) ==
  LET x == duel[d] IN
  /\ x.op = "idle" /\ CallsMade < OdCalls
  /\ x.state \in Requires(op)
  /\ duel' = [duel EXCEPT ![d] =
       [x EXCEPT !.op = op, !.calls = @ + 1, !.step = 1,
                 !.state = IF op = "process" THEN "processing" ELSE @,
                 !.frames = IF op = "load_script" THEN <<x.next_script>>
                            ELSE <<>>,
                 !.next_script = IF op = "load_script" THEN @ + 1 ELSE @]]
  /\ UNCHANGED library

OdCreate(d) ==
  /\ duel[d].state = "absent" /\ library.state = "version_checked"
  /\ duel' = [duel EXCEPT ![d].state = "version_checked", ![d].op = "create"]
  /\ UNCHANGED library

(***************************************************************************)
(* Callbacks, while a native function runs.                                *)
(***************************************************************************)
CallsBack(d) == duel[d].op # "idle" /\ CallbacksMade < OdCallbacks
Called(x) == [x EXCEPT !.callbacks = @ + 1]
CaptureError(x) == [x EXCEPT !.errors = @ + 1]

(* _on_log: every log gets the next sequence number and waits for a batch. *)
OdLog(d) ==
  /\ CallsBack(d)
  /\ duel' = [duel EXCEPT ![d] =
       [Called(duel[d]) EXCEPT !.pending = Append(@, duel[d].next_log),
                               !.next_log = @ + 1]]
  /\ UNCHANGED library

(* _on_data_reader and _on_data_reader_done for the card buffer at a; a    *)
(* provider that raises is captured.                                       *)
OdData(d, a, ok) ==
  LET x == Called(duel[d]) IN
  /\ CallsBack(d)
  /\ duel' = [duel EXCEPT ![d] =
                IF ok THEN [x EXCEPT !.setcodes = @ \cup {a}]
                ELSE CaptureError(x)]
  /\ UNCHANGED library

OdDataDone(d, a) ==
  /\ CallsBack(d) /\ a \in duel[d].setcodes
  /\ duel' = [duel EXCEPT ![d] =
                [Called(duel[d]) EXCEPT !.setcodes = @ \ {a}]]
  /\ UNCHANGED library

(* A callback on another thread than the owner's is refused and captured.  *)
OdForeign(d) ==
  /\ CallsBack(d)
  /\ duel' = [duel EXCEPT ![d] = CaptureError(Called(duel[d]))]
  /\ UNCHANGED library

(* _on_script_reader: a sequence number, then OCG_LoadScript, which may    *)
(* call back again before it returns.                                      *)
OdScript(d) ==
  /\ CallsBack(d)
  /\ duel' = [duel EXCEPT ![d] =
       [Called(duel[d]) EXCEPT !.frames = Append(@, duel[d].next_script),
                               !.next_script = @ + 1]]
  /\ UNCHANGED library

Recorded(x, outcome) ==
  LET n == Len(x.frames) IN
  [x EXCEPT !.frames = SubSeq(@, 1, n - 1),
            !.audit = Append(@, [sequence |-> x.frames[n],
                                 outcome |-> outcome])]

(* missing, rejected, asset_error, invalid_encoding and provider_error     *)
(* differ in the record's wording only.                                    *)
ScriptOutcomes == {"loaded", "not_loaded"}
Nested(x) == Len(x.frames) > (IF x.op = "load_script" THEN 1 ELSE 0)

OdScriptDone(d, outcome) ==
  LET x == duel[d] IN
  /\ x.op # "idle" /\ Nested(x)
  /\ duel' = [duel EXCEPT ![d] =
       IF outcome = "loaded" THEN Recorded(x, outcome)
       ELSE CaptureError(Recorded(x, outcome))]
  /\ UNCHANGED library

(***************************************************************************)
(* The native function returns and the call ends.                          *)
(***************************************************************************)
Idle(x) == [x EXCEPT !.op = "idle", !.step = 0]
Failed(x) == Idle([x EXCEPT !.state = "failed"])

(* _raise_callback_error: the first error captured is raised, the session  *)
(* is failed.                                                              *)
RaisesCallbackErrorLater(x) == x.errors > 0 /\ x.op # "start"  \* mutant: start does not look
RaisesCallbackError(x) == x.errors > 0
RaiseCallbackError(x) == Failed([x EXCEPT !.errors = @ - 1])

Drained(x) == [x EXCEPT !.delivered = @ \o x.pending, !.pending = <<>>]

(* destroy; the second part of it for a session that was registered.       *)
Destroyed(x) ==
  [Idle(x) EXCEPT !.state = "destroyed", !.setcodes = {}, !.pending = <<>>,
                  !.registered = FALSE,
                  !.native = IF @ = "live" THEN "destroyed" ELSE @,
                  !.destroys = IF x.native = "live" THEN @ + 1 ELSE @]

(* The constructor: a native failure destroys a half-created duel without  *)
(* opening a session; a callback error during creation destroys it.        *)
OdCreated(d, success) ==
  LET x == duel[d] IN
  /\ x.op = "create" /\ ~Nested(x)
  /\ \/ /\ ~success
        /\ \E made \in BOOLEAN :
             duel' = [duel EXCEPT ![d] =
               [Failed(x) EXCEPT !.native = IF made THEN "destroyed" ELSE @,
                                 !.destroys = IF made THEN 1 ELSE 0]]
        /\ UNCHANGED library
     \/ /\ success /\ RaisesCallbackError(x)
        /\ duel' = [duel EXCEPT ![d] =
             Destroyed(RaiseCallbackError([x EXCEPT !.native = "live"]))]
        /\ UNCHANGED library
     \/ /\ success /\ ~RaisesCallbackError(x)
        /\ duel' = [duel EXCEPT ![d] =
             Idle([x EXCEPT !.native = "live", !.registered = TRUE,
                            !.state = "duel_created"])]
        /\ library' = [library EXCEPT !.active = @ + 1]

(* Calls that end with _raise_callback_error; query stands for query,      *)
(* query_location and query_field.  query_count does not look for an error *)
(* and is no step: its native function, external, counts the cards of a    *)
(* place and is taken to call nothing back, so the session is as it was.   *)
CheckedCall(x) ==
  x.op \in {"add_card", "load_script", "scan", "start", "respond", "query"}

After(x) ==
  CASE x.op = "add_card" ->
         Idle([x EXCEPT !.state = IF @ = "duel_created" THEN "cards_loaded"
                                  ELSE @])
    [] x.op = "start" -> Idle([x EXCEPT !.state = "started"])
    [] x.op = "respond" -> Idle([x EXCEPT !.state = "processing"])
    [] x.op = "scan" -> Idle(Drained(x))
    [] OTHER -> Idle(x)

(* OCG_LoadScript rejected the script of load_script or of the scan: a     *)
(* callback error is raised first by load_script, the scan leaves it.      *)
Rejected(x) ==
  IF x.op = "scan" THEN Failed(x)
  ELSE LET y == Recorded(x, "not_loaded")
       IN IF RaisesCallbackError(y) THEN RaiseCallbackError(y) ELSE Failed(y)

OdReturn(d, ok) ==
  LET x == duel[d]
      y == IF x.op = "load_script" THEN Recorded(x, "loaded") ELSE x
  IN /\ CheckedCall(x) /\ ~Nested(x)
     /\ ~ok => x.op \in {"load_script", "scan"}
     /\ duel' = [duel EXCEPT ![d] =
          IF ~ok THEN Rejected(x)
          ELSE IF RaisesCallbackError(y) THEN RaiseCallbackError(y)
          ELSE After(y)]
     /\ UNCHANGED library

(* One OCG_DuelProcess of process: callback errors, an unknown status, an  *)
(* unreadable message, the deadline, then the status.                      *)
Statuses == {"continue", "awaiting", "end", "unknown", "bad_buffer", "late"}
OdProcess(d, status) ==
  LET x == duel[d] IN
  /\ x.op = "process" /\ ~Nested(x)
  /\ duel' = [duel EXCEPT ![d] =
       IF RaisesCallbackError(x) THEN RaiseCallbackError(x)
       ELSE IF status \in {"unknown", "late"} THEN Failed(x)
       ELSE IF status = "bad_buffer" THEN Idle(x)
       ELSE IF status = "awaiting"
       THEN Idle(Drained([x EXCEPT !.state = "awaiting_response"]))
       ELSE IF status = "end" THEN Idle(Drained([x EXCEPT !.state = "ended"]))
       ELSE IF x.step = OdSteps THEN Failed(x)
       ELSE [x EXCEPT !.step = @ + 1]]
  /\ UNCHANGED library

OdDestroy(d) ==
  LET x == duel[d] IN
  /\ x.op = "idle" /\ x.state \notin {"absent", "destroyed"}
  /\ duel' = [duel EXCEPT ![d] = Destroyed(x)]
  /\ library' = [library EXCEPT !.active = IF x.registered THEN @ - 1 ELSE @]

(* OcgcoreLibrary.close refuses while sessions are open.                   *)
OdClose ==
  /\ library.state = "version_checked" /\ library.active = 0
  /\ \A d \in Duels : duel[d].op = "idle"
  /\ library' = [library EXCEPT !.state = "closed"]
  /\ UNCHANGED duel

OdNext ==
  \/ \E d \in Duels :
       \/ OdCreate(d) \/ OdDestroy(d)
       \/ \E op \in {"add_card", "load_script", "start", "process",
                     "respond", "scan", "query"} : OdCall(d, op)
       \/ OdLog(d) \/ OdForeign(d) \/ OdScript(d)
       \/ \E ok \in BOOLEAN :
            OdData(d, 1, ok) \/ OdCreated(d, ok) \/ OdReturn(d, ok)
       \/ OdDataDone(d, 1)
       \/ \E o \in ScriptOutcomes : OdScriptDone(d, o)
       \/ \E s \in Statuses : OdProcess(d, s)
  \/ OdClose

OdSpec == OdInit /\ [][OdNext]_odVars

(***************************************************************************)
(* Properties                                                              *)
(***************************************************************************)
(* docs/bridge/20_ocgcore_lifecycle.md:71 -- the native handle is          *)
(* destroyed exactly once whatever failed on the way, the library's count  *)
(* is that of the sessions still alive, and a closed library has none.     *)
HandleOwned ==
  /\ \A d \in Duels :
       /\ duel[d].destroys <= 1
       /\ duel[d].native = "destroyed" <=> duel[d].destroys = 1
       /\ duel[d].state = "destroyed" =>
            duel[d].native # "live" /\ duel[d].setcodes = {}
  /\ library.active = Cardinality({d \in Duels : duel[d].native = "live"})
  /\ library.state = "closed" => library.active = 0

(* No callback error is swallowed: between calls a session with a captured *)
(* error is failed or destroyed, so nothing runs on a core whose card or   *)
(* script reader has failed.                                               *)
ErrorsSurface ==
  \A d \in Duels :
    duel[d].op = "idle" /\ duel[d].errors > 0
      => duel[d].state \in {"failed", "destroyed"}

(* Every log reaches exactly one batch and in order: what was delivered    *)
(* and what waits is the numbering of the log handler without a gap.       *)
LogsOnce ==
  \A d \in Duels :
    LET x == duel[d]
        all == x.delivered \o x.pending
    IN /\ \A i \in 1..Len(all) : all[i] = i - 1
       /\ x.state # "destroyed" => Len(all) = x.next_log

(* The script audit is complete: between calls every number handed out has *)
(* one record, however deeply the loads were nested and whatever failed.   *)
AuditComplete ==
  \A d \in Duels :
    LET x == duel[d]
        seqs == {x.audit[i].sequence : i \in 1..Len(x.audit)}
    IN /\ Cardinality(seqs) = Len(x.audit)
       /\ x.op = "idle" => seqs = 0..(x.next_script - 1)

(* Nothing of a native duel is lost or counted twice, whatever fails       *)
(* inside a callback: not its handle, an error, a log or a script request. *)
SessionAccounted ==
  HandleOwned /\ ErrorsSurface /\ LogsOnce /\ AuditComplete

=============================================================================
