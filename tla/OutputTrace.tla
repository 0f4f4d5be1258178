----------------------------- MODULE OutputTrace -----------------------------
(***************************************************************************)
(* The input/output trace of a replay.  After every native call the worker *)
(* turns the frames and log records of the batch into a core output trace  *)
(* (ocgcore/trace.py, ocgcore/random_trace.py), chains the traces into a   *)
(* replay history (replay/v03a.py), and every reader of the document - the *)
(* worker itself first - runs assert_complete_io_trace over it             *)
(* (replay/io_trace.py).                                                   *)
(*                                                                         *)
(* The core (external) calls Duel.GetRandomNumber any number of times per  *)
(* native call; each call increments one counter for the whole duel and is *)
(* reported by one script log record.  Coin tosses and shuffles arrive as  *)
(* frames.  A digest is the value it is taken of; an identifier is right   *)
(* when it equals the content it names.                                    *)
(***************************************************************************)
EXTENDS Integers, Sequences, FiniteSets, SequencesExt

CONSTANTS StateHashes,    \* the observable states a native call may end in
          FrameBatches,   \* the frame sequences a native call may produce
          Seeded(_),      \* the result of the n-th draw: the core is seeded
          MaxDraws,       \* bound: draws of one native call
          MaxOutputs      \* bound: native calls of one duel

ASSUME TraceAssumption ==
    /\ MaxDraws \in Nat
    /\ MaxOutputs \in Nat \ {0}
    /\ IsFiniteSet(StateHashes)

VARIABLES drawCount,   \* draws the wrapper script has counted
          drawn,       \* every draw the core made, in order (not recorded)
          outputs,     \* the output traces recorded so far, first the initial
          replay,      \* <<>> or <<the replay document>>
          damage       \* what happened to the stored document, "none" at first

otVars == <<drawCount, drawn, outputs, replay, damage>>

-----------------------------------------------------------------------------
(* What one native call leaves behind.                                     *)

RandomTypes == {"shuffle_deck", "toss_coin", "toss_dice"}
ProgressTypes == {"new_turn", "new_phase"}

\* Readers of a frame refuse values outside the message's range.
InRange(frame) ==
    CASE frame.type = "toss_coin" -> frame.value \in {0, 1}
      [] frame.type = "toss_dice" -> frame.value \in 1..6
      [] frame.type = "new_turn" -> frame.value \in {0, 1}
      [] frame.type = "new_phase" -> frame.value \in 0..9
      [] frame.type = "win" -> frame.value \in 0..2
      [] OTHER -> TRUE

DrawOf(log) == log.draw[1]
DrawLogs(logs) == SelectSeq([i \in 1..Len(logs) |-> [log |-> logs[i], at |-> i]],
                            LAMBDA r : r.log.draw # <<>>)

\* extract_direct_random_log_draws: within a batch the indices follow on.
DrawsWellFormed(logs) ==
    LET ls == DrawLogs(logs)
    IN  \A i \in 1..Len(ls) :
            LET d == DrawOf(ls[i].log)
            IN  /\ d.index >= 1
                /\ d.result \in d.minimum..d.maximum
                /\ i > 1 => d.index = DrawOf(ls[i - 1].log).index + 1

\* Legacy hint packets are malformed or forbidden: an output trace of the
\* current version never holds one.
NoLegacyPackets(frames) == \A i \in 1..Len(frames) : frames[i].type # "trace_hint"

RandomIdentity(at, frame, draw, state) ==
    [at |-> at, kind |-> frame, outcome |-> draw, state |-> state]
Identified(identity) == [identity |-> identity, id |-> identity]

DirectEvents(logs, state) ==
    LET ls == DrawLogs(logs)
    IN  [i \in 1..Len(ls) |->
            Identified(RandomIdentity(<<"log", ls[i].at, ls[i].log.sequence>>,
                                      "direct_lua_random", ls[i].log.draw, state))]

FrameEvents(frames, types, state) ==
    LET at == SelectSeq([i \in 1..Len(frames) |-> i],
                        LAMBDA i : frames[i].type \in types)
    IN  [i \in 1..Len(at) |->
            Identified(RandomIdentity(<<"frame", at[i]>>, frames[at[i]].type,
                                      <<frames[at[i]].value>>, state))]

TraceContent(o) == <<o.frames, o.logs, o.random, o.progress, o.terminal, o.state>>

\* build_core_output_trace: script draws first, then the frames in order.
BuildOutput(frames, logs, state) ==
    LET o == [frames |-> frames, logs |-> logs,
              random |-> DirectEvents(logs, state) \o FrameEvents(frames, RandomTypes, state),
              progress |-> FrameEvents(frames, ProgressTypes, state),
              terminal |-> FrameEvents(frames, {"win"}, state),
              state |-> state, batchId |-> <<>>]
    IN  [o EXCEPT !.batchId = TraceContent(o)]

BuildAccepts(frames, logs) ==
    /\ \A i \in 1..Len(frames) : InRange(frames[i])
    /\ NoLegacyPackets(frames)
    /\ DrawsWellFormed(logs)

-----------------------------------------------------------------------------
(* Reading the document back.                                              *)

References(event, o) ==
    IF event.identity.kind = "direct_lua_random"
    THEN event.identity.at[2] \in 1..Len(o.logs)
    ELSE event.identity.at[2] \in 1..Len(o.frames)

Directs(events) == SelectSeq(events, LAMBDA e : e.identity.kind = "direct_lua_random")

\* _output_trace
OutputAccepted(o) ==
    /\ \A i \in 2..Len(o.logs) : o.logs[i].sequence > o.logs[i - 1].sequence
    /\ \A i \in 1..Len(o.random) :
           /\ References(o.random[i], o)
           /\ o.random[i].id = o.random[i].identity
           /\ o.random[i].identity.state = o.state
    /\ NoLegacyPackets(o.frames)
    /\ DrawsWellFormed(o.logs)
    /\ Directs(o.random) = DirectEvents(o.logs, o.state)
    /\ \A i \in 1..Len(o.progress) :
           /\ References(o.progress[i], o)
           /\ o.progress[i].id = o.progress[i].identity
           /\ o.progress[i].identity.state = o.state
    /\ o.batchId = TraceContent(o)

\* The responses of the document: entry i of the history and the output after it.
TraceOutputs(doc) == <<doc.initial>> \o [i \in 1..Len(doc.events) |-> doc.events[i].output]
RandomIndex(doc) ==
    LET os == TraceOutputs(doc)
    IN  FlattenSeq([i \in 1..Len(os) |->
            [j \in 1..Len(os[i].random) |-> [after |-> i - 1, event |-> os[i].random[j]]]])
AllRandom(doc) ==
    LET es == RandomIndex(doc) IN [i \in 1..Len(es) |-> es[i].event]

RandomIdsUnique(doc) ==
    LET es == AllRandom(doc)
    IN  Cardinality({es[i].id : i \in 1..Len(es)}) = Len(es)

\* collect_random_ids: one count runs over all outputs, from 1.
DrawIndicesFollow(doc) ==
    LET ds == Directs(AllRandom(doc))
    IN  \A i \in 1..Len(ds) : ds[i].identity.outcome[1].index = i

\* Mutant: the state after the response is not compared with the output.
EventWithoutState(event, step) ==
    /\ event.step = step
    /\ event.response.request = event.request
    /\ event.inputRef = event.response
    /\ OutputAccepted(event.output)

\* One event of the history: its place, the response it records, its output.
EventAccepted(event, step) ==
    /\ event.step = step
    /\ event.response.request = event.request
    /\ event.inputRef = event.response
    /\ OutputAccepted(event.output)
    /\ event.output.state = event.stateAfter

\* assert_complete_io_trace
CompleteIoTrace(doc) ==
    /\ OutputAccepted(doc.initial)
    /\ \A i \in 1..Len(doc.events) : EventAccepted(doc.events[i], i - 1)
    /\ RandomIdsUnique(doc)
    /\ DrawIndicesFollow(doc)
    /\ doc.randomEvents = RandomIndex(doc)

-----------------------------------------------------------------------------
(* The worker.                                                             *)

OtInit ==
    /\ drawCount = 0
    /\ drawn = <<>>
    /\ outputs = <<>>
    /\ replay = <<>>
    /\ damage = "none"

\* The wrapper script numbers the n draws of a native call.
ScriptLogs(n) ==
    [i \in 1..n |-> [sequence |-> drawCount + i,
                     draw |-> <<[index |-> drawCount + i, minimum |-> 0,
                                 maximum |-> 1, result |-> Seeded(drawCount + i)]>>]]

\* One native call and the trace built from it; a batch the builder refuses
\* ends the worker.
Process ==
    /\ replay = <<>>
    /\ damage = "none"
    /\ Len(outputs) < MaxOutputs
    /\ \E n \in 0..MaxDraws, frames \in FrameBatches, state \in StateHashes :
          LET logs == ScriptLogs(n)
          IN  /\ drawCount' = drawCount + n
              /\ drawn' = drawn \o [i \in 1..n |-> Seeded(drawCount + i)]
              /\ IF BuildAccepts(frames, logs)
                 THEN /\ outputs' = Append(outputs, BuildOutput(frames, logs, state))
                      /\ UNCHANGED damage
                 ELSE /\ damage' = "refused"
                      /\ UNCHANGED outputs
    /\ UNCHANGED replay

\* ReplayHistoryV03a.to_dict over the outputs the worker kept.
History(os) ==
    LET event(i) == [step |-> i - 1, request |-> i, response |-> [request |-> i],
                     inputRef |-> [request |-> i], output |-> os[i + 1],
                     stateAfter |-> os[i + 1].state]
        doc == [initial |-> os[1], events |-> [i \in 1..(Len(os) - 1) |-> event(i)],
                randomEvents |-> <<>>]
    IN  [doc EXCEPT !.randomEvents = RandomIndex(doc)]

Record ==
    /\ replay = <<>>
    /\ damage = "none"
    /\ outputs # <<>>
    /\ replay' = <<History(outputs)>>
    /\ UNCHANGED <<drawCount, drawn, outputs, damage>>

-----------------------------------------------------------------------------
(* A stored document may be damaged, with every identifier it carries      *)
(* brought in line again: the outputs are rebuilt from altered batches.    *)

\* Drop or repeat the script record at j of output k.
WithoutLog(o, j) == BuildOutput(o.frames, RemoveAt(o.logs, j), o.state)
WithLogTwice(o, j) ==
    BuildOutput(o.frames, Append(o.logs, [o.logs[j] EXCEPT !.sequence = o.logs[Len(o.logs)].sequence + 1]),
                o.state)

Rebuilt(os, index) ==
    [History(os) EXCEPT !.randomEvents = IF index = <<>> THEN @ ELSE index[1]]

Damage ==
    /\ replay # <<>>
    /\ damage = "none"
    /\ \/ \E k \in 1..Len(outputs), reindexed \in BOOLEAN :
          \E j \in 1..Len(outputs[k].logs) :
             /\ damage' = "record lost"
             /\ replay' = <<Rebuilt([outputs EXCEPT ![k] = WithoutLog(@, j)],
                                    IF reindexed THEN <<>>
                                    ELSE <<replay[1].randomEvents>>)>>
       \/ \E k \in 1..Len(outputs) : \E j \in 1..Len(outputs[k].logs) :
             /\ damage' = "record repeated"
             /\ replay' = <<Rebuilt([outputs EXCEPT ![k] = WithLogTwice(@, j)], <<>>)>>
       \/ \E k \in 2..Len(outputs) :
             /\ damage' = "batches swapped"
             /\ replay' = <<Rebuilt([outputs EXCEPT ![k] = outputs[k - 1],
                                                    ![k - 1] = outputs[k]], <<>>)>>
       \/ \E k \in 1..Len(outputs), s \in StateHashes :
             /\ s # outputs[k].state
             /\ k > 1
             /\ damage' = "state replaced"
             /\ replay' = <<[replay[1] EXCEPT !.events[k - 1].stateAfter = s]>>
    /\ UNCHANGED <<drawCount, drawn, outputs>>

OtNext == Process \/ Record \/ Damage

-----------------------------------------------------------------------------
DrawResults(doc) ==
    LET ds == Directs(AllRandom(doc))
    IN  [i \in 1..Len(ds) |-> ds[i].identity.outcome[1].result]

\* Two batches that end in the same observable state may carry the same random
\* event: nothing in its identity names the step it follows.
EventRepeats == ~ RandomIdsUnique(History(outputs))

\* What the worker records from the core's own output is refused by its own
\* completeness check (real_core.py:4112) only when a random event repeats: the
\* direct draws, the references and the index of a faithful trace always pass.
RecordingAccepted ==
    replay # <<>> /\ damage = "none" => (CompleteIoTrace(replay[1]) <=> ~ EventRepeats)

\* The draws of an accepted document are a beginning of the draws the core made,
\* whatever was lost, repeated or reordered in the file: a gap anywhere but at
\* the end is found, across batches as within one.
DrawsAccounted ==
    replay # <<>> /\ CompleteIoTrace(replay[1]) => IsPrefix(DrawResults(replay[1]), drawn)

\* Of the damages a file can suffer with all its identifiers brought in line
\* again, only two pass: losing the last draw of the duel from a batch and from
\* the index together, and exchanging two batches of which one made no draw.
DamageFound ==
    replay # <<>> /\ damage # "none" /\ CompleteIoTrace(replay[1]) =>
        \/ /\ damage = "record lost"
           /\ Len(DrawResults(replay[1])) = Len(drawn) - 1
           /\ replay[1].randomEvents = RandomIndex(replay[1])
        \/ /\ damage = "batches swapped"
           /\ DrawResults(replay[1]) = drawn

\* A stored trace is believed exactly when it may be: a faithful one passes, a
\* damaged one is found or means the same, and its draws are those of the core.
TraceTrusted == RecordingAccepted /\ DrawsAccounted /\ DamageFound

=============================================================================
