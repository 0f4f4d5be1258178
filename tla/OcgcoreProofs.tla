--------------------------- MODULE OcgcoreProofs ---------------------------
(***************************************************************************)
(* Proofs about OcgcoreDuel for every finite set of duels, any number of   *)
(* public calls, process steps and callbacks, and any nesting of scripts;  *)
(* then about CoreBootstrap for any binaries and asset repositories and    *)
(* any number of runs, failures and edits; then about                      *)
(* InterruptionFrontier for any definitions and whatever the core offers   *)
(* and asks, along prefixes of any length; and about CardInstance for any  *)
(* cards, any moves and batches of any length.                             *)
(***************************************************************************)
EXTENDS OcgcoreDuel, CoreBootstrap, InterruptionFrontier, CardInstance,
        FiniteSetTheorems, TLAPS

Ops == {"idle", "create", "add_card", "load_script", "start", "process",
        "respond", "scan", "query"}
Records == [sequence : Nat, outcome : ScriptOutcomes]

DuelRecord ==
  [state : DuelStates, op : Ops, frames : Seq(Nat),
   native : {"none", "live", "destroyed"}, destroys : Nat,
   registered : BOOLEAN, errors : Nat, pending : Seq(Nat),
   delivered : Seq(Nat), next_log : Nat, audit : Seq(Records),
   next_script : Nat, setcodes : SUBSET {1}, step : Nat, calls : Nat,
   callbacks : Nat]

LiveStates == DuelStates \ {"absent", "version_checked", "failed", "destroyed"}

\* A call runs on a live duel only, and a duel outside creation in a state
\* that accepts calls is live.
Control(x) ==
  /\ x.op = "create" <=> x.state = "version_checked"
  /\ x.op # "idle" => x.state \notin {"absent", "failed", "destroyed"}
  /\ x.state \in {"absent", "version_checked"} => x.native = "none"
  /\ x.state \in LiveStates => x.native = "live"

Handle(x) ==
  /\ x.destroys = IF x.native = "destroyed" THEN 1 ELSE 0
  /\ x.native = "live" <=> x.registered = TRUE
  /\ x.state = "destroyed" => x.native # "live" /\ x.setcodes = {}

Errors(x) ==
  x.op = "idle" /\ x.errors > 0 => x.state \in {"failed", "destroyed"}

\* Delivered and waiting logs continue one numbering.
Logs(x) ==
  /\ \A i \in 1..Len(x.delivered) : x.delivered[i] = i - 1
  /\ \A i \in 1..Len(x.pending) : x.pending[i] = Len(x.delivered) + i - 1
  /\ x.state # "destroyed" => Len(x.delivered) + Len(x.pending) = x.next_log

\* The numbers handed out so far are either on the stack of scripts being
\* loaded or in one audit record each.
Numbered(frames, audit, n) ==
  /\ \A i \in 1..Len(frames) : frames[i] < n
  /\ \A i \in 1..Len(audit) : audit[i].sequence < n
  /\ \A i, j \in 1..Len(frames) : frames[i] = frames[j] => i = j
  /\ \A i, j \in 1..Len(audit) : audit[i].sequence = audit[j].sequence => i = j
  /\ \A i \in 1..Len(frames), j \in 1..Len(audit) : frames[i] # audit[j].sequence
  /\ \A k \in 0..(n - 1) : \/ \E i \in 1..Len(frames) : frames[i] = k
                           \/ \E i \in 1..Len(audit) : audit[i].sequence = k

Scripts(x) ==
  /\ x.op = "idle" => Len(x.frames) = 0
  /\ x.op = "load_script" => Len(x.frames) > 0
  /\ Numbered(x.frames, x.audit, x.next_script)

DuelInv(x) ==
  x \in DuelRecord /\ Control(x) /\ Handle(x) /\ Errors(x) /\ Logs(x) /\ Scripts(x)

Live == {d \in Duels : duel[d].native = "live"}

OdInv ==
  /\ duel \in [Duels -> DuelRecord]
  /\ \A d \in Duels : DuelInv(duel[d])
  /\ library \in [state : {"version_checked", "closed"}, active : Int]
  /\ library.active = Cardinality(Live)
  /\ library.state = "closed" => \A d \in Duels : duel[d].op = "idle"
  /\ library.state = "closed" => library.active = 0

----------------------------------------------------------------------------
\* Entries of the stack and of the audit are numbers.
LEMMA EntryTypes ==
  ASSUME NEW frames \in Seq(Nat), NEW audit \in Seq(Records)
  PROVE  /\ Len(frames) \in Nat /\ Len(audit) \in Nat
         /\ \A i \in 1..Len(frames) : frames[i] \in Nat
         /\ \A i \in 1..Len(audit) : audit[i].sequence \in Nat
<1>1. ASSUME NEW i \in 1..Len(audit) PROVE audit[i].sequence \in Nat
  <2>1. audit[i] \in Records BY <1>1
  <2> QED BY <2>1 DEF Records
<1>2. ASSUME NEW i \in 1..Len(frames) PROVE frames[i] \in Nat BY <1>2
<1> QED BY <1>1, <1>2

\* _on_script_reader takes the next number and puts it on the stack.
LEMMA NumberedPush ==
  ASSUME NEW frames \in Seq(Nat), NEW audit \in Seq(Records), NEW n \in Nat,
         Numbered(frames, audit, n)
  PROVE  Numbered(Append(frames, n), audit, n + 1)
<1> DEFINE new == Append(frames, n)
           m == Len(frames) + 1
<1>1. /\ Len(new) = m /\ m \in Nat /\ new[m] = n
      /\ \A i \in 1..Len(new) : i = m \/ (i \in 1..Len(frames) /\ new[i] = frames[i])
      /\ \A i \in 1..Len(frames) : i \in 1..Len(new) /\ new[i] = frames[i]
  BY EntryTypes
<1> HIDE DEF new, m
<1>2. ASSUME NEW i \in 1..Len(new), i # m
      PROVE  i \in 1..Len(frames) /\ new[i] = frames[i] /\ new[i] \in Nat /\ new[i] < n
  BY <1>1, <1>2, EntryTypes DEF Numbered
<1>3. ASSUME NEW i \in 1..Len(audit)
      PROVE  audit[i].sequence \in Nat /\ audit[i].sequence < n
  BY <1>3, EntryTypes DEF Numbered
<1>4. ASSUME NEW i \in 1..Len(new), NEW j \in 1..Len(new), new[i] = new[j]
      PROVE  i = j
  <2>1. CASE i # m /\ j # m BY <1>2, <1>4, <2>1 DEF Numbered
  <2>2. CASE i = m \/ j = m BY <1>1, <1>2, <1>4, <2>2
  <2> QED BY <2>1, <2>2
<1>5. ASSUME NEW i \in 1..Len(new), NEW j \in 1..Len(audit)
      PROVE  new[i] # audit[j].sequence
  <2>1. CASE i = m BY <1>1, <1>3, <2>1
  <2>2. CASE i # m BY <1>2, <2>2, SMTT(30) DEF Numbered
  <2> QED BY <2>1, <2>2
<1>6. ASSUME NEW k \in 0..n
      PROVE  \/ \E i \in 1..Len(new) : new[i] = k
             \/ \E i \in 1..Len(audit) : audit[i].sequence = k
  <2>1. CASE k = n
    <3>1. m \in 1..Len(new) BY <1>1, EntryTypes DEF m
    <3> QED BY <1>1, <2>1, <3>1
  <2>2. CASE k # n
    <3>1. k \in 0..(n - 1) BY <2>2
    <3>2. CASE \E i \in 1..Len(frames) : frames[i] = k BY <1>1, <3>2
    <3> QED BY <3>1, <3>2 DEF Numbered
  <2> QED BY <2>1, <2>2
<1>7. \A i \in 1..Len(new) : new[i] < n + 1
  <2> TAKE i \in 1..Len(new)
  <2> QED BY <1>1, <1>2
<1>8. \A i \in 1..Len(audit) : audit[i].sequence < n + 1
  <2> TAKE i \in 1..Len(audit)
  <2> QED BY <1>3
<1>9. \A i, j \in 1..Len(audit) : audit[i].sequence = audit[j].sequence => i = j
  BY DEF Numbered
<1>10. (n + 1) - 1 = n OBVIOUS
<1>11. Numbered(new, audit, n + 1)
  BY <1>4, <1>5, <1>6, <1>7, <1>8, <1>9, <1>10, Zenon DEF Numbered
<1> QED BY <1>11 DEF new

\* A finished script leaves the stack with one record.
LEMMA NumberedPop ==
  ASSUME NEW frames \in Seq(Nat), NEW audit \in Seq(Records), NEW n \in Nat,
         NEW outcome \in ScriptOutcomes, Len(frames) > 0,
         Numbered(frames, audit, n)
  PROVE  Numbered(SubSeq(frames, 1, Len(frames) - 1),
                  Append(audit, [sequence |-> frames[Len(frames)], outcome |-> outcome]),
                  n)
<1> DEFINE m == Len(frames)
           q == Len(audit) + 1
           top == frames[m]
           rest == SubSeq(frames, 1, m - 1)
           rec == [sequence |-> top, outcome |-> outcome]
           new == Append(audit, rec)
<1>1. /\ m \in Nat /\ m \in 1..m
      /\ \A i \in 1..Len(rest) : i \in 1..m /\ rest[i] = frames[i] /\ i # m
      /\ \A i \in 1..m : i # m => i \in 1..Len(rest) /\ rest[i] = frames[i]
  BY EntryTypes
<1>2. /\ q \in 1..Len(new) /\ new[q].sequence = top
      /\ \A i \in 1..Len(new) : i = q \/ (i \in 1..Len(audit) /\ new[i] = audit[i])
      /\ \A i \in 1..Len(audit) : i \in 1..Len(new) /\ new[i] = audit[i] BY EntryTypes
<1> HIDE DEF rest, new, rec, q
<1>3. top < n BY <1>1 DEF Numbered
<1>4. ASSUME NEW i \in 1..Len(rest) PROVE rest[i] < n /\ rest[i] # top
  BY <1>1, <1>4 DEF Numbered
<1>5. ASSUME NEW i \in 1..Len(new), i # q
      PROVE  /\ i \in 1..Len(audit) /\ new[i].sequence = audit[i].sequence
             /\ new[i].sequence < n /\ new[i].sequence # top
  <2>1. i \in 1..Len(audit) /\ new[i] = audit[i] BY <1>2, <1>5
  <2>2. audit[i].sequence < n /\ audit[i].sequence # top BY <1>1, <2>1 DEF Numbered
  <2> QED BY <2>1, <2>2
<1> HIDE DEF top, m
<1>6. ASSUME NEW i \in 1..Len(rest), NEW j \in 1..Len(rest), rest[i] = rest[j]
      PROVE  i = j BY <1>1, <1>6 DEF Numbered, m
<1>7. ASSUME NEW i \in 1..Len(new), NEW j \in 1..Len(new),
             new[i].sequence = new[j].sequence
      PROVE  i = j
  <2>1. CASE i # q /\ j # q BY <1>5, <1>7, <2>1 DEF Numbered
  <2>2. CASE i = q \/ j = q BY <1>2, <1>5, <1>7, <2>2
  <2> QED BY <2>1, <2>2
<1>8. ASSUME NEW i \in 1..Len(rest), NEW j \in 1..Len(new)
      PROVE  rest[i] # new[j].sequence
  <2>1. CASE j = q BY <1>2, <1>4, <2>1
  <2>2. CASE j # q BY <1>1, <1>5, <2>2 DEF Numbered, m
  <2> QED BY <2>1, <2>2
<1>9. ASSUME NEW k \in 0..(n - 1)
      PROVE  \/ \E i \in 1..Len(rest) : rest[i] = k
             \/ \E i \in 1..Len(new) : new[i].sequence = k
  <2>1. CASE \E i \in 1..Len(audit) : audit[i].sequence = k BY <1>2, <2>1
  <2>2. CASE \E i \in 1..m : frames[i] = k
    <3>1. PICK i \in 1..m : frames[i] = k BY <2>2
    <3>2. CASE i = m BY <1>2, <3>1, <3>2 DEF top
    <3>3. CASE i # m BY <1>1, <3>1, <3>3
    <3> QED BY <3>2, <3>3
  <2> QED BY <2>1, <2>2 DEF Numbered, m
<1>10. \A i \in 1..Len(new) : new[i].sequence < n
  <2> TAKE i \in 1..Len(new)
  <2> QED BY <1>2, <1>3, <1>5
<1>11. Numbered(rest, new, n)
  BY <1>4, <1>6, <1>7, <1>8, <1>9, <1>10, Zenon DEF Numbered
<1> QED BY <1>11 DEF new, rest, rec, top, m

----------------------------------------------------------------------------
\* The types of the fields the invariants are about.
LEMMA FieldTypes ==
  ASSUME NEW x \in DuelRecord
  PROVE  /\ x.state \in DuelStates /\ x.op \in Ops
         /\ x.native \in {"none", "live", "destroyed"} /\ x.registered \in BOOLEAN
         /\ x.errors \in Nat /\ x.next_log \in Nat /\ x.next_script \in Nat
         /\ x.calls \in Nat /\ x.callbacks \in Nat /\ x.step \in Nat
         /\ x.destroys \in Nat /\ x.setcodes \in SUBSET {1}
         /\ x.frames \in Seq(Nat) /\ x.audit \in Seq(Records)
         /\ x.pending \in Seq(Nat) /\ x.delivered \in Seq(Nat)
         /\ Len(x.frames) \in Nat /\ Len(x.audit) \in Nat
         /\ Len(x.pending) \in Nat /\ Len(x.delivered) \in Nat
<1>1. /\ x.frames \in Seq(Nat) /\ x.audit \in Seq(Records)
      /\ x.pending \in Seq(Nat) /\ x.delivered \in Seq(Nat) BY DEF DuelRecord
<1> QED BY <1>1 DEF DuelRecord

\* What a batch does to the logs: nothing, one more, all delivered, or the
\* waiting ones dropped with the duel.
LEMMA LogsKept ==
  ASSUME NEW x \in DuelRecord, NEW y \in DuelRecord, Logs(x), x.state # "destroyed",
         y.delivered = x.delivered, y.next_log = x.next_log,
         \/ y.pending = x.pending
         \/ y.pending = <<>> /\ y.state = "destroyed"
  PROVE  Logs(y)
<1>1. CASE y.pending = x.pending BY <1>1 DEF Logs
<1>2. CASE y.pending = <<>> /\ y.state = "destroyed"
  <2>1. Len(y.pending) = 0 BY <1>2
  <2> QED BY <1>2, <2>1 DEF Logs
<1> QED BY <1>1, <1>2

LEMMA LogsAppended ==
  ASSUME NEW x \in DuelRecord, NEW y \in DuelRecord, Logs(x), x.state # "destroyed",
         y.delivered = x.delivered, y.next_log = x.next_log + 1,
         y.pending = Append(x.pending, x.next_log)
  PROVE  Logs(y)
<1> DEFINE p == x.pending
           q == y.pending
           n == Len(x.delivered)
<1>1. p \in Seq(Nat) /\ Len(p) \in Nat /\ n \in Nat /\ x.next_log \in Nat BY FieldTypes
<1>2. q = Append(p, x.next_log) /\ n = Len(y.delivered) OBVIOUS
<1>3. x.next_log = n + Len(p) BY DEF Logs
<1>4. /\ \A i \in 1..Len(x.delivered) : x.delivered[i] = i - 1
      /\ \A i \in 1..Len(p) : p[i] = n + i - 1 BY DEF Logs
<1> HIDE DEF p, q, n
<1>5. Len(q) = Len(p) + 1 /\ q[Len(p) + 1] = x.next_log BY <1>1, <1>2
<1>6. ASSUME NEW i \in 1..Len(q) PROVE q[i] = n + i - 1
  <2>1. CASE i = Len(p) + 1 BY <1>1, <1>3, <1>5, <2>1
  <2>2. CASE i # Len(p) + 1
    <3>1. i \in 1..Len(p) BY <1>1, <1>5, <2>2
    <3>2. q[i] = p[i] BY <1>1, <1>2, <3>1
    <3> QED BY <1>4, <3>1, <3>2
  <2> QED BY <2>1, <2>2
<1>7. n + Len(q) = y.next_log BY <1>1, <1>3, <1>5
<1> QED BY <1>2, <1>4, <1>6, <1>7 DEF Logs, q

LEMMA LogsDelivered ==
  ASSUME NEW x \in DuelRecord, NEW y \in DuelRecord, Logs(x), x.state # "destroyed",
         y.delivered = x.delivered \o x.pending, y.next_log = x.next_log,
         y.pending = <<>>
  PROVE  Logs(y)
<1> DEFINE p == x.pending
           d == x.delivered
           e == y.delivered
<1>1. p \in Seq(Nat) /\ d \in Seq(Nat) /\ Len(p) \in Nat /\ Len(d) \in Nat
  BY FieldTypes
<1>2. e = d \o p OBVIOUS
<1>3. x.next_log = Len(d) + Len(p) /\ x.next_log \in Nat BY FieldTypes DEF Logs
<1>4. /\ \A i \in 1..Len(d) : d[i] = i - 1
      /\ \A i \in 1..Len(p) : p[i] = Len(d) + i - 1 BY DEF Logs
<1>5. y.pending = <<>> /\ y.next_log = x.next_log OBVIOUS
<1> HIDE DEF p, d, e
<1>6. Len(e) = Len(d) + Len(p) BY <1>1, <1>2
<1>7. ASSUME NEW i \in 1..Len(e) PROVE e[i] = i - 1
  <2>1. CASE i <= Len(d)
    <3>1. i \in 1..Len(d) /\ e[i] = d[i] BY <1>1, <1>2, <1>6, <2>1
    <3> QED BY <1>4, <3>1
  <2>2. CASE ~(i <= Len(d))
    <3>1. i - Len(d) \in 1..Len(p) BY <1>1, <1>6, <2>2
    <3>2. e[i] = p[i - Len(d)] BY <1>1, <1>2, <1>6, <2>2
    <3>3. p[i - Len(d)] = Len(d) + (i - Len(d)) - 1 BY <1>4, <3>1
    <3> QED BY <1>1, <3>1, <3>2, <3>3
  <2> QED BY <2>1, <2>2
<1>8. Len(y.pending) = 0 /\ \A i \in 1..Len(y.pending) : FALSE BY <1>5
<1>9. Len(e) + Len(y.pending) = y.next_log BY <1>1, <1>3, <1>5, <1>6, <1>8
<1> QED BY <1>7, <1>8, <1>9 DEF Logs, e

----------------------------------------------------------------------------
\* A step of duel d that leaves the library and the native handle alone.
Quiet(d) ==
  /\ library' = library
  /\ duel' = [duel EXCEPT ![d] = duel'[d]]
  /\ DuelInv(duel'[d])
  /\ duel'[d].native = duel[d].native
  /\ duel[d].op # "idle" \/ duel[d].native = "live"

\* A public call that begins.
LEMMA CallQuiet ==
  ASSUME OdInv, NEW d \in Duels, NEW op \in Ops \ {"idle", "create"}, OdCall(d, op)
  PROVE  Quiet(d)
<1> DEFINE x == duel[d]
           y == duel'[d]
<1>1. x \in DuelRecord /\ DuelInv(x) /\ duel \in [Duels -> DuelRecord]
  BY DEF OdInv, DuelInv
<1>2. /\ y = [x EXCEPT !.op = op, !.calls = @ + 1, !.step = 1,
                       !.state = IF op = "process" THEN "processing" ELSE @,
                       !.frames = IF op = "load_script" THEN <<x.next_script>>
                                  ELSE <<>>,
                       !.next_script = IF op = "load_script" THEN @ + 1 ELSE @]
      /\ x.op = "idle" /\ x.state \in Requires(op) /\ library' = library
      /\ duel' = [duel EXCEPT ![d] = y] BY <1>1 DEF OdCall
<1>3. x.state \in LiveStates
  BY <1>1, <1>2 DEF Requires, LiveStates, DuelStates, Ops, DuelRecord
<1>4. x.next_script \in Nat /\ x.frames \in Seq(Nat) /\ x.audit \in Seq(Records)
  BY <1>1, FieldTypes
<1> DEFINE calls == x.calls + 1
           state == IF op = "process" THEN "processing" ELSE x.state
           frames == IF op = "load_script" THEN <<x.next_script>> ELSE <<>>
           next == IF op = "load_script" THEN x.next_script + 1 ELSE x.next_script
<1>a. /\ calls \in Nat /\ state \in DuelStates /\ frames \in Seq(Nat) /\ next \in Nat
      /\ y = [x EXCEPT !.op = op, !.calls = calls, !.step = 1, !.state = state,
                       !.frames = frames, !.next_script = next]
  <2>1. calls \in Nat /\ state \in DuelStates /\ frames \in Seq(Nat) /\ next \in Nat
    BY <1>1, <1>4, FieldTypes DEF DuelStates
  <2>2. y = [x EXCEPT !.op = op, !.calls = calls, !.step = 1, !.state = state,
                     !.frames = frames, !.next_script = next] BY <1>2, Zenon
  <2> QED BY <2>1, <2>2
<1> HIDE DEF x, y, calls, state, frames, next
<1>b. y \in DuelRecord BY <1>1, <1>a DEF DuelRecord
<1>c. /\ y.op = op /\ y.state = state /\ y.frames = frames /\ y.next_script = next
      /\ y.native = x.native /\ y.destroys = x.destroys
      /\ y.registered = x.registered /\ y.setcodes = x.setcodes
      /\ y.delivered = x.delivered /\ y.pending = x.pending
      /\ y.next_log = x.next_log /\ y.audit = x.audit BY <1>1, <1>a DEF DuelRecord
<1>5. /\ y.op = op
      /\ y.state = IF op = "process" THEN "processing" ELSE x.state
      /\ y.native = x.native /\ y.destroys = x.destroys
      /\ y.registered = x.registered /\ y.setcodes = x.setcodes
      /\ y.delivered = x.delivered /\ y.pending = x.pending
      /\ y.next_log = x.next_log /\ y.audit = x.audit
      /\ y.frames = IF op = "load_script" THEN <<x.next_script>> ELSE <<>>
      /\ y.next_script = IF op = "load_script" THEN x.next_script + 1 ELSE x.next_script
  BY <1>c DEF state, frames, next
<1>6. y.state \in LiveStates /\ x.state # "destroyed"
  BY <1>3, <1>5 DEF LiveStates, DuelStates
<1>7. Control(y) BY <1>1, <1>3, <1>5, <1>6 DEF DuelInv, Control, LiveStates
<1>8. Handle(y) /\ Errors(y)
  BY <1>1, <1>5, <1>6 DEF DuelInv, Handle, Errors, LiveStates
<1>9. Logs(y) BY <1>1, <1>5, <1>6, <1>b, LogsKept DEF DuelInv
<1>10. Scripts(y)
  <2>1. Len(x.frames) = 0 /\ Numbered(x.frames, x.audit, x.next_script)
    BY <1>1, <1>2 DEF DuelInv, Scripts
  <2>2. x.frames = <<>> BY <1>4, <2>1
  <2>3. Append(x.frames, x.next_script) = <<x.next_script>> BY <2>2
  <2>4. Numbered(<<x.next_script>>, x.audit, x.next_script + 1)
    BY <1>4, <2>1, <2>3, NumberedPush
  <2>5. op # "idle" OBVIOUS
  <2> QED BY <1>5, <2>1, <2>2, <2>4, <2>5 DEF Scripts
<1> QED
  BY <1>1, <1>2, <1>3, <1>5, <1>7, <1>8, <1>9, <1>10, <1>b DEF Quiet, DuelInv, Control,
    x, y

----------------------------------------------------------------------------
\* What most steps leave alone.
SameHandle(x, y) ==
  y.native = x.native /\ y.destroys = x.destroys /\ y.registered = x.registered
SameLogs(x, y) ==
  y.delivered = x.delivered /\ y.pending = x.pending /\ y.next_log = x.next_log
SameScripts(x, y) ==
  y.frames = x.frames /\ y.audit = x.audit /\ y.next_script = x.next_script

\* A callback changes neither the call nor the handle.
LEMMA CallbackInv ==
  ASSUME NEW x, DuelInv(x), x.op # "idle", NEW y \in DuelRecord,
         y.state = x.state, y.op = x.op, SameHandle(x, y),
         Logs(y), Scripts(y)
  PROVE  DuelInv(y)
<1>1. x.state \notin {"absent", "failed", "destroyed"} BY DEF DuelInv, Control
<1>2. Control(y) /\ Handle(y) /\ Errors(y)
  BY <1>1 DEF DuelInv, Control, Handle, Errors, SameHandle
<1> QED BY <1>2 DEF DuelInv

\* A call that ends leaves an idle duel, failed or in a state that takes calls.
LEMMA EndInv ==
  ASSUME NEW x, DuelInv(x), x.op \notin {"idle", "create"}, NEW y \in DuelRecord,
         y.op = "idle", y.state \in LiveStates \cup {"failed"}, SameHandle(x, y),
         y.errors > 0 => y.state = "failed", Logs(y), Len(y.frames) = 0,
         Numbered(y.frames, y.audit, y.next_script)
  PROVE  DuelInv(y)
<1>1. x.state \in LiveStates BY FieldTypes DEF DuelInv, Control, LiveStates
<1>2. x.native = "live" BY <1>1 DEF DuelInv, Control
<1>3. y.state \notin {"absent", "version_checked", "destroyed"} BY DEF LiveStates
<1>4. Control(y) /\ Handle(y) /\ Errors(y)
  BY <1>2, <1>3 DEF DuelInv, Control, Handle, Errors, SameHandle
<1>5. Scripts(y) BY DEF Scripts
<1> QED BY <1>4, <1>5 DEF DuelInv

\* The records Idle, Failed, RaiseCallbackError, Drained and Recorded make.
LEMMA IdleFields ==
  ASSUME NEW x \in DuelRecord
  PROVE  /\ Idle(x) \in DuelRecord /\ Idle(x).op = "idle"
         /\ Idle(x).state = x.state /\ Idle(x).errors = x.errors
         /\ Idle(x).setcodes = x.setcodes
         /\ SameHandle(x, Idle(x)) /\ SameLogs(x, Idle(x)) /\ SameScripts(x, Idle(x))
<1>1. Idle(x) \in DuelRecord BY DEF Idle, DuelRecord, Ops
<1> QED BY <1>1 DEF Idle, DuelRecord, SameHandle, SameLogs, SameScripts

LEMMA StateFields ==
  ASSUME NEW x \in DuelRecord, NEW s \in DuelStates
  PROVE  LET y == [x EXCEPT !.state = s] IN
         /\ y \in DuelRecord /\ y.state = s /\ y.op = x.op /\ y.errors = x.errors
         /\ y.setcodes = x.setcodes
         /\ SameHandle(x, y) /\ SameLogs(x, y) /\ SameScripts(x, y)
<1>1. [x EXCEPT !.state = s] \in DuelRecord BY DEF DuelRecord
<1> QED BY <1>1 DEF DuelRecord, SameHandle, SameLogs, SameScripts

LEMMA FailedFields ==
  ASSUME NEW x \in DuelRecord
  PROVE  /\ Failed(x) \in DuelRecord /\ Failed(x).op = "idle"
         /\ Failed(x).state = "failed" /\ Failed(x).setcodes = x.setcodes
         /\ SameHandle(x, Failed(x)) /\ SameLogs(x, Failed(x))
         /\ SameScripts(x, Failed(x))
<1> DEFINE y == [x EXCEPT !.state = "failed"]
<1>1. "failed" \in DuelStates BY DEF DuelStates
<1>2. /\ y \in DuelRecord /\ y.state = "failed" /\ y.setcodes = x.setcodes
      /\ SameHandle(x, y) /\ SameLogs(x, y) /\ SameScripts(x, y) BY <1>1, StateFields
<1>3. Failed(x) = Idle(y) BY DEF Failed
<1> HIDE DEF y
<1> QED BY <1>2, <1>3, IdleFields DEF SameHandle, SameLogs, SameScripts

LEMMA RaiseFields ==
  ASSUME NEW x \in DuelRecord, RaisesCallbackError(x)
  PROVE  LET y == RaiseCallbackError(x) IN
         /\ y \in DuelRecord /\ y.op = "idle" /\ y.state = "failed"
         /\ y.setcodes = x.setcodes
         /\ SameHandle(x, y) /\ SameLogs(x, y) /\ SameScripts(x, y)
<1> DEFINE e == x.errors - 1
           y == [x EXCEPT !.errors = e]
<1>1. e \in Nat BY FieldTypes DEF RaisesCallbackError
<1>2. RaiseCallbackError(x) = Failed(y) BY DEF RaiseCallbackError
<1> HIDE DEF e
<1>3. y \in DuelRecord BY <1>1 DEF DuelRecord
<1>4. /\ y.setcodes = x.setcodes
      /\ SameHandle(x, y) /\ SameLogs(x, y) /\ SameScripts(x, y)
  BY <1>1 DEF DuelRecord, SameHandle, SameLogs, SameScripts
<1> HIDE DEF y
<1> QED BY <1>2, <1>3, <1>4, FailedFields DEF SameHandle, SameLogs, SameScripts

LEMMA DrainedFields ==
  ASSUME NEW x \in DuelRecord
  PROVE  LET y == Drained(x) IN
         /\ y \in DuelRecord /\ y.op = x.op /\ y.state = x.state
         /\ y.errors = x.errors /\ y.setcodes = x.setcodes
         /\ SameHandle(x, y) /\ SameScripts(x, y)
         /\ y.delivered = x.delivered \o x.pending /\ y.pending = <<>>
         /\ y.next_log = x.next_log
<1> DEFINE all == x.delivered \o x.pending
           none == <<>>
<1>1. all \in Seq(Nat) /\ none \in Seq(Nat) BY FieldTypes
<1>2. Drained(x) = [x EXCEPT !.delivered = all, !.pending = none] BY DEF Drained
<1> HIDE DEF all, none
<1>3. Drained(x) \in DuelRecord BY <1>1, <1>2 DEF DuelRecord
<1>4. /\ Drained(x).op = x.op /\ Drained(x).state = x.state
      /\ Drained(x).errors = x.errors /\ Drained(x).setcodes = x.setcodes
      /\ SameHandle(x, Drained(x)) /\ SameScripts(x, Drained(x))
      /\ Drained(x).delivered = all /\ Drained(x).pending = none
      /\ Drained(x).next_log = x.next_log
  BY <1>1, <1>2 DEF DuelRecord, SameHandle, SameScripts
<1> QED BY <1>3, <1>4 DEF all, none

LEMMA RecordedFields ==
  ASSUME NEW x \in DuelRecord, NEW outcome \in ScriptOutcomes, Len(x.frames) > 0,
         Numbered(x.frames, x.audit, x.next_script)
  PROVE  LET y == Recorded(x, outcome) IN
         /\ y \in DuelRecord /\ y.op = x.op /\ y.state = x.state
         /\ y.errors = x.errors /\ y.setcodes = x.setcodes
         /\ SameHandle(x, y) /\ SameLogs(x, y)
         /\ Len(y.frames) = Len(x.frames) - 1
         /\ Numbered(y.frames, y.audit, y.next_script)
<1> DEFINE fr == SubSeq(x.frames, 1, Len(x.frames) - 1)
           rec == [sequence |-> x.frames[Len(x.frames)], outcome |-> outcome]
           au == Append(x.audit, rec)
<1>1. /\ x.frames \in Seq(Nat) /\ x.audit \in Seq(Records) /\ x.next_script \in Nat
      /\ Len(x.frames) \in Nat BY FieldTypes
<1>2. fr \in Seq(Nat) /\ Len(fr) = Len(x.frames) - 1 BY <1>1
<1>3. rec \in Records
  <2>1. x.frames[Len(x.frames)] \in Nat BY <1>1
  <2> QED BY <2>1 DEF Records
<1>4. au \in Seq(Records) BY <1>1, <1>3
<1>5. Numbered(fr, au, x.next_script) BY <1>1, NumberedPop
<1>6. Recorded(x, outcome) = [x EXCEPT !.frames = fr, !.audit = au] BY DEF Recorded
<1> HIDE DEF fr, au
<1>7. Recorded(x, outcome) \in DuelRecord BY <1>2, <1>4, <1>6 DEF DuelRecord
<1>8. LET y == Recorded(x, outcome) IN
      /\ y.op = x.op /\ y.state = x.state /\ y.errors = x.errors
      /\ y.setcodes = x.setcodes /\ SameHandle(x, y) /\ SameLogs(x, y)
      /\ y.frames = fr /\ y.audit = au /\ y.next_script = x.next_script
  BY <1>2, <1>4, <1>6 DEF DuelRecord, SameHandle, SameLogs
<1> QED BY <1>2, <1>5, <1>7, <1>8

LEMMA CalledFields ==
  ASSUME NEW x \in DuelRecord
  PROVE  LET y == Called(x) IN
         /\ y \in DuelRecord /\ y.op = x.op /\ y.state = x.state
         /\ y.errors = x.errors /\ y.setcodes = x.setcodes
         /\ SameHandle(x, y) /\ SameLogs(x, y) /\ SameScripts(x, y)
<1> DEFINE c == x.callbacks + 1
<1>1. c \in Nat BY FieldTypes
<1>2. Called(x) = [x EXCEPT !.callbacks = c] BY DEF Called
<1> HIDE DEF c
<1>3. Called(x) \in DuelRecord BY <1>1, <1>2 DEF DuelRecord
<1> QED BY <1>1, <1>2, <1>3 DEF DuelRecord, SameHandle, SameLogs, SameScripts

LEMMA CaptureFields ==
  ASSUME NEW x \in DuelRecord
  PROVE  LET y == CaptureError(x) IN
         /\ y \in DuelRecord /\ y.op = x.op /\ y.state = x.state
         /\ y.setcodes = x.setcodes
         /\ SameHandle(x, y) /\ SameLogs(x, y) /\ SameScripts(x, y)
<1> DEFINE e == x.errors + 1
<1>1. e \in Nat BY FieldTypes
<1>2. CaptureError(x) = [x EXCEPT !.errors = e] BY DEF CaptureError
<1> HIDE DEF e
<1>3. CaptureError(x) \in DuelRecord BY <1>1, <1>2 DEF DuelRecord
<1> QED BY <1>1, <1>2, <1>3 DEF DuelRecord, SameHandle, SameLogs, SameScripts

LEMMA ScriptsKept ==
  ASSUME NEW x, NEW y, Scripts(x), SameScripts(x, y), y.op = x.op
  PROVE  Scripts(y)
BY DEF Scripts, SameScripts

\* Callbacks that only count, capture an error or move a card buffer.
LEMMA SimpleCallback ==
  ASSUME NEW x, DuelInv(x), x.op # "idle", NEW y \in DuelRecord,
         y.state = x.state, y.op = x.op, SameHandle(x, y), SameLogs(x, y),
         SameScripts(x, y)
  PROVE  DuelInv(y)
<1>1. x.state # "destroyed" /\ x \in DuelRecord BY DEF DuelInv, Control
<1>2. Logs(y) BY <1>1, LogsKept DEF DuelInv, SameLogs
<1>3. Scripts(y) BY ScriptsKept DEF DuelInv
<1> QED BY <1>2, <1>3, CallbackInv

LEMMA QuietStep ==
  ASSUME OdInv, NEW d \in Duels, NEW y, duel' = [duel EXCEPT ![d] = y],
         UNCHANGED library, DuelInv(y), y.native = duel[d].native,
         duel[d].op # "idle"
  PROVE  Quiet(d)
<1>1. duel'[d] = y BY DEF OdInv
<1> QED BY <1>1 DEF Quiet

LEMMA LogQuiet ==
  ASSUME OdInv, NEW d \in Duels, OdLog(d) PROVE Quiet(d)
<1> DEFINE x == duel[d]
           z == Called(x)
           p == Append(z.pending, x.next_log)
           n == z.next_log + 1
           y == [z EXCEPT !.pending = p, !.next_log = n]
<1>1. DuelInv(x) /\ x \in DuelRecord /\ x.op # "idle"
  BY DEF OdInv, DuelInv, OdLog, CallsBack
<1>2. duel' = [duel EXCEPT ![d] = y] /\ UNCHANGED library BY DEF OdLog
<1>3. /\ z \in DuelRecord /\ z.op = x.op /\ z.state = x.state
      /\ SameHandle(x, z) /\ SameLogs(x, z) /\ SameScripts(x, z) BY <1>1, CalledFields
<1>4. p \in Seq(Nat) /\ n \in Nat /\ p = Append(x.pending, x.next_log) /\ n = x.next_log + 1
  <2>1. x.pending \in Seq(Nat) /\ x.next_log \in Nat BY <1>1, FieldTypes
  <2>2. z.pending = x.pending /\ z.next_log = x.next_log BY <1>3 DEF SameLogs
  <2> QED BY <2>1, <2>2
<1> HIDE DEF x, z, p, n
<1>5. y \in DuelRecord BY <1>3, <1>4 DEF DuelRecord
<1>6. /\ y.op = x.op /\ y.state = x.state /\ SameHandle(x, y) /\ SameScripts(x, y)
      /\ y.delivered = x.delivered /\ y.pending = p /\ y.next_log = n
  BY <1>3, <1>4 DEF DuelRecord, SameHandle, SameScripts, SameLogs
<1> HIDE DEF y
<1>7. x.state # "destroyed" BY <1>1 DEF DuelInv, Control
<1>8. Logs(y) BY <1>1, <1>4, <1>5, <1>6, <1>7, LogsAppended DEF DuelInv
<1>9. Scripts(y) BY <1>1, <1>6, ScriptsKept DEF DuelInv
<1>10. DuelInv(y) BY <1>1, <1>5, <1>6, <1>8, <1>9, CallbackInv
<1> QED BY <1>1, <1>2, <1>6, <1>10, QuietStep DEF x, SameHandle

LEMMA ForeignQuiet ==
  ASSUME OdInv, NEW d \in Duels, OdForeign(d) PROVE Quiet(d)
<1> DEFINE x == duel[d]
           y == CaptureError(Called(x))
<1>1. DuelInv(x) /\ x \in DuelRecord /\ x.op # "idle"
  BY DEF OdInv, DuelInv, OdForeign, CallsBack
<1>2. duel' = [duel EXCEPT ![d] = y] /\ UNCHANGED library BY DEF OdForeign
<1>3. /\ y \in DuelRecord /\ y.op = x.op /\ y.state = x.state
      /\ SameHandle(x, y) /\ SameLogs(x, y) /\ SameScripts(x, y)
  BY <1>1, CalledFields, CaptureFields DEF SameHandle, SameLogs, SameScripts
<1> HIDE DEF y
<1>4. DuelInv(y) BY <1>1, <1>3, SimpleCallback
<1> QED BY <1>1, <1>2, <1>3, <1>4, QuietStep DEF SameHandle

LEMMA DataQuiet ==
  ASSUME OdInv, NEW d \in Duels, NEW ok \in BOOLEAN, OdData(d, 1, ok) PROVE Quiet(d)
<1> DEFINE x == duel[d]
           z == Called(x)
           buffers == z.setcodes \cup {1}
           y == IF ok THEN [z EXCEPT !.setcodes = buffers] ELSE CaptureError(z)
<1>1. DuelInv(x) /\ x \in DuelRecord /\ x.op # "idle"
  BY DEF OdInv, DuelInv, OdData, CallsBack
<1>2. duel' = [duel EXCEPT ![d] = y] /\ UNCHANGED library BY DEF OdData
<1>3. /\ z \in DuelRecord /\ z.op = x.op /\ z.state = x.state
      /\ SameHandle(x, z) /\ SameLogs(x, z) /\ SameScripts(x, z) BY <1>1, CalledFields
<1>4. buffers \in SUBSET {1} BY <1>3, FieldTypes
<1> HIDE DEF x, z, buffers
<1>5. CASE ok
  <2>1. /\ y \in DuelRecord /\ y.op = x.op /\ y.state = x.state
        /\ SameHandle(x, y) /\ SameLogs(x, y) /\ SameScripts(x, y)
    BY <1>3, <1>4, <1>5 DEF DuelRecord, SameHandle, SameLogs, SameScripts
  <2> HIDE DEF y
  <2>2. DuelInv(y) BY <1>1, <2>1, SimpleCallback
  <2> QED BY <1>1, <1>2, <2>1, <2>2, QuietStep DEF SameHandle, x
<1>6. CASE ~ok
  <2>1. /\ y \in DuelRecord /\ y.op = x.op /\ y.state = x.state
        /\ SameHandle(x, y) /\ SameLogs(x, y) /\ SameScripts(x, y)
    BY <1>3, <1>6, CaptureFields DEF SameHandle, SameLogs, SameScripts
  <2> HIDE DEF y
  <2>2. DuelInv(y) BY <1>1, <2>1, SimpleCallback
  <2> QED BY <1>1, <1>2, <2>1, <2>2, QuietStep DEF SameHandle, x
<1> QED BY <1>5, <1>6

LEMMA DataDoneQuiet ==
  ASSUME OdInv, NEW d \in Duels, OdDataDone(d, 1) PROVE Quiet(d)
<1> DEFINE x == duel[d]
           z == Called(x)
           buffers == z.setcodes \ {1}
           y == [z EXCEPT !.setcodes = buffers]
<1>1. DuelInv(x) /\ x \in DuelRecord /\ x.op # "idle"
  BY DEF OdInv, DuelInv, OdDataDone, CallsBack
<1>2. duel' = [duel EXCEPT ![d] = y] /\ UNCHANGED library BY DEF OdDataDone
<1>3. /\ z \in DuelRecord /\ z.op = x.op /\ z.state = x.state
      /\ SameHandle(x, z) /\ SameLogs(x, z) /\ SameScripts(x, z) BY <1>1, CalledFields
<1>4. buffers \in SUBSET {1} BY <1>3, FieldTypes
<1> HIDE DEF x, z, buffers
<1>5. /\ y \in DuelRecord /\ y.op = x.op /\ y.state = x.state
      /\ SameHandle(x, y) /\ SameLogs(x, y) /\ SameScripts(x, y)
  BY <1>3, <1>4 DEF DuelRecord, SameHandle, SameLogs, SameScripts
<1> HIDE DEF y
<1>6. DuelInv(y) BY <1>1, <1>5, SimpleCallback
<1> QED BY <1>1, <1>2, <1>5, <1>6, QuietStep DEF SameHandle, x

\* A nested script load takes the next number and goes on the stack.
LEMMA ScriptQuiet ==
  ASSUME OdInv, NEW d \in Duels, OdScript(d) PROVE Quiet(d)
<1> DEFINE x == duel[d]
           z == Called(x)
           fr == Append(z.frames, x.next_script)
           n == z.next_script + 1
           y == [z EXCEPT !.frames = fr, !.next_script = n]
<1>1. DuelInv(x) /\ x \in DuelRecord /\ x.op # "idle"
  BY DEF OdInv, DuelInv, OdScript, CallsBack
<1>2. duel' = [duel EXCEPT ![d] = y] /\ UNCHANGED library BY DEF OdScript
<1>3. /\ z \in DuelRecord /\ z.op = x.op /\ z.state = x.state
      /\ SameHandle(x, z) /\ SameLogs(x, z) /\ SameScripts(x, z) BY <1>1, CalledFields
<1>4. /\ fr \in Seq(Nat) /\ n \in Nat /\ fr = Append(x.frames, x.next_script)
      /\ n = x.next_script + 1 /\ Len(fr) > 0
  <2>1. x.frames \in Seq(Nat) /\ x.next_script \in Nat BY <1>1, FieldTypes
  <2>2. z.frames = x.frames /\ z.next_script = x.next_script BY <1>3 DEF SameScripts
  <2>3. Len(Append(x.frames, x.next_script)) = Len(x.frames) + 1 /\ Len(x.frames) \in Nat
    BY <2>1
  <2> QED BY <2>1, <2>2, <2>3
<1>5. Numbered(fr, x.audit, n)
  <2>1. x.frames \in Seq(Nat) /\ x.next_script \in Nat /\ x.audit \in Seq(Records)
    BY <1>1, FieldTypes
  <2>2. Numbered(x.frames, x.audit, x.next_script) BY <1>1 DEF DuelInv, Scripts
  <2>3. fr = Append(x.frames, x.next_script) /\ n = x.next_script + 1 BY <1>4
  <2>4. Numbered(Append(x.frames, x.next_script), x.audit, x.next_script + 1)
    BY <2>1, <2>2, NumberedPush
  <2> HIDE DEF fr, n, x
  <2> QED BY <2>3, <2>4
<1> HIDE DEF x, z, fr, n
<1>6. y \in DuelRecord BY <1>3, <1>4 DEF DuelRecord
<1>7. /\ y.op = x.op /\ y.state = x.state /\ SameHandle(x, y) /\ SameLogs(x, y)
      /\ y.frames = fr /\ y.audit = x.audit /\ y.next_script = n
  BY <1>3, <1>4 DEF DuelRecord, SameHandle, SameScripts, SameLogs
<1> HIDE DEF y
<1>8. Logs(y) BY <1>1, <1>6, <1>7, LogsKept DEF DuelInv, SameLogs, Control
<1>9. Scripts(y) BY <1>1, <1>4, <1>5, <1>7 DEF Scripts
<1>10. DuelInv(y) BY <1>1, <1>6, <1>7, <1>8, <1>9, CallbackInv
<1> QED BY <1>1, <1>2, <1>7, <1>10, QuietStep DEF x, SameHandle

\* A script that was loaded from inside a callback is recorded.
LEMMA ScriptDoneQuiet ==
  ASSUME OdInv, NEW d \in Duels, NEW outcome \in ScriptOutcomes,
         OdScriptDone(d, outcome)
  PROVE  Quiet(d)
<1> DEFINE x == duel[d]
           z == Recorded(x, outcome)
           y == IF outcome = "loaded" THEN z ELSE CaptureError(z)
<1>1. DuelInv(x) /\ x \in DuelRecord /\ x.op # "idle" /\ Nested(x)
  BY DEF OdInv, DuelInv, OdScriptDone
<1>2. duel' = [duel EXCEPT ![d] = y] /\ UNCHANGED library BY DEF OdScriptDone
<1>3. Len(x.frames) \in Nat /\ Numbered(x.frames, x.audit, x.next_script)
  BY <1>1, FieldTypes DEF DuelInv, Scripts
<1>4. Len(x.frames) > 0 /\ (x.op = "load_script" => Len(x.frames) - 1 > 0)
  BY <1>1, <1>3 DEF Nested
<1> HIDE DEF x
<1>5. /\ z \in DuelRecord /\ z.op = x.op /\ z.state = x.state
      /\ SameHandle(x, z) /\ SameLogs(x, z)
      /\ Len(z.frames) = Len(x.frames) - 1
      /\ Numbered(z.frames, z.audit, z.next_script) BY <1>1, <1>3, <1>4, RecordedFields
<1> HIDE DEF z
<1>6. /\ y \in DuelRecord /\ y.op = x.op /\ y.state = x.state
      /\ SameHandle(x, y) /\ SameLogs(x, y) /\ SameScripts(z, y)
  <2>1. CASE outcome = "loaded" BY <1>5, <2>1 DEF SameScripts
  <2>2. CASE outcome # "loaded"
    BY <1>5, <2>2, CaptureFields DEF SameHandle, SameLogs, SameScripts
  <2> QED BY <2>1, <2>2
<1> HIDE DEF y
<1>7. Logs(y) BY <1>1, <1>6, LogsKept DEF DuelInv, SameLogs, Control
<1>8. Scripts(y) BY <1>1, <1>4, <1>5, <1>6 DEF Scripts, SameScripts
<1>9. DuelInv(y) BY <1>1, <1>6, <1>7, <1>8, CallbackInv
<1> QED BY <1>1, <1>2, <1>6, <1>9, QuietStep DEF x, SameHandle

----------------------------------------------------------------------------
\* Raising the captured error, or failing, ends a call on any record that
\* differs from the duel in its books only.
LEMMA RaiseInv ==
  ASSUME NEW x, DuelInv(x), x.op \notin {"idle", "create"}, NEW y \in DuelRecord,
         SameHandle(x, y), SameLogs(x, y), Len(y.frames) = 0,
         Numbered(y.frames, y.audit, y.next_script)
  PROVE  /\ DuelInv(Failed(y)) /\ Failed(y).native = x.native
         /\ RaisesCallbackError(y) =>
              DuelInv(RaiseCallbackError(y)) /\ RaiseCallbackError(y).native = x.native
<1>1. x \in DuelRecord /\ x.state # "destroyed" /\ Logs(x) BY DEF DuelInv, Control
<1>2. ASSUME NEW z \in DuelRecord, z.op = "idle", z.state = "failed",
             SameHandle(y, z), SameLogs(y, z), SameScripts(y, z)
      PROVE  DuelInv(z) /\ z.native = x.native
  <2>1. SameHandle(x, z) /\ SameLogs(x, z) BY <1>2 DEF SameHandle, SameLogs
  <2>2. Logs(z) BY <1>1, <1>2, <2>1, LogsKept DEF SameLogs
  <2>3. Len(z.frames) = 0 /\ Numbered(z.frames, z.audit, z.next_script)
    BY <1>2 DEF SameScripts
  <2> QED BY <1>2, <2>1, <2>2, <2>3, EndInv DEF SameHandle
<1>3. DuelInv(Failed(y)) /\ Failed(y).native = x.native BY <1>2, FailedFields
<1>4. ASSUME RaisesCallbackError(y)
      PROVE  DuelInv(RaiseCallbackError(y)) /\ RaiseCallbackError(y).native = x.native
  <2> DEFINE z == RaiseCallbackError(y)
  <2>1. /\ z \in DuelRecord /\ z.op = "idle" /\ z.state = "failed"
        /\ SameHandle(y, z) /\ SameLogs(y, z) /\ SameScripts(y, z) BY <1>4, RaiseFields
  <2> HIDE DEF z
  <2>2. DuelInv(z) /\ z.native = x.native BY <1>2, <2>1
  <2> QED BY <2>2 DEF z
<1> QED BY <1>3, <1>4

\* A call that ends without a captured error, its logs kept or delivered.
LEMMA EndedInv ==
  ASSUME NEW x, DuelInv(x), x.op \notin {"idle", "create"}, NEW y \in DuelRecord,
         SameHandle(x, y), Len(y.frames) = 0, ~RaisesCallbackError(y),
         Numbered(y.frames, y.audit, y.next_script), Logs(y),
         NEW s \in LiveStates, NEW z \in DuelRecord, z.op = "idle", z.state = s,
         z.errors = y.errors, SameHandle(y, z), SameScripts(y, z), Logs(z)
  PROVE  DuelInv(z) /\ z.native = x.native
<1>1. SameHandle(x, z) /\ Len(z.frames) = 0 /\ Numbered(z.frames, z.audit, z.next_script)
  BY DEF SameHandle, SameScripts
<1>2. ~(z.errors > 0) BY DEF RaisesCallbackError
<1> QED BY <1>1, <1>2, EndInv DEF SameHandle

\* Draining keeps the numbering of the logs.
LEMMA DrainedLogs ==
  ASSUME NEW x \in DuelRecord, Logs(x), x.state # "destroyed"
  PROVE  Logs(Drained(x))
<1> DEFINE y == Drained(x)
<1>1. /\ y \in DuelRecord /\ y.delivered = x.delivered \o x.pending
      /\ y.pending = <<>> /\ y.next_log = x.next_log BY DrainedFields
<1> HIDE DEF y
<1>2. Logs(y) BY <1>1, LogsDelivered
<1> QED BY <1>2 DEF y

\* The idle record in a given state, its logs kept or delivered.
LEMMA IdleInState ==
  ASSUME NEW y \in DuelRecord, NEW s \in DuelStates, Logs(y), y.state # "destroyed"
  PROVE  LET z == Idle([y EXCEPT !.state = s])
             w == Idle(Drained([y EXCEPT !.state = s]))
         IN /\ z \in DuelRecord /\ z.op = "idle" /\ z.state = s /\ z.errors = y.errors
            /\ SameHandle(y, z) /\ SameScripts(y, z)
            /\ s # "destroyed" => Logs(z) /\ Logs(w)
            /\ w \in DuelRecord /\ w.op = "idle" /\ w.state = s /\ w.errors = y.errors
            /\ SameHandle(y, w) /\ SameScripts(y, w)
<1> DEFINE v == [y EXCEPT !.state = s]
           u == Drained(v)
           z == Idle(v)
           w == Idle(u)
<1>1. /\ v \in DuelRecord /\ v.state = s /\ v.errors = y.errors
      /\ SameHandle(y, v) /\ SameLogs(y, v) /\ SameScripts(y, v) BY StateFields
<1> HIDE DEF v
<1>2. /\ u \in DuelRecord /\ u.state = s /\ u.errors = y.errors
      /\ SameHandle(v, u) /\ SameScripts(v, u) BY <1>1, DrainedFields
<1>3. /\ z \in DuelRecord /\ z.op = "idle" /\ z.state = s /\ z.errors = y.errors
      /\ SameHandle(v, z) /\ SameScripts(v, z) /\ SameLogs(v, z) BY <1>1, IdleFields
<1>4. Logs(v) BY <1>1, LogsKept DEF SameLogs
<1>5. s # "destroyed" => Logs(u) BY <1>1, <1>4, DrainedLogs
<1> HIDE DEF u, z
<1>6. /\ w \in DuelRecord /\ w.op = "idle" /\ w.state = s /\ w.errors = y.errors
      /\ SameHandle(u, w) /\ SameScripts(u, w) /\ SameLogs(u, w) BY <1>2, IdleFields
<1> HIDE DEF w
<1>7. s # "destroyed" => Logs(z) BY <1>1, <1>3, <1>4, LogsKept DEF SameLogs
<1>8. s # "destroyed" => Logs(w) BY <1>2, <1>5, <1>6, LogsKept DEF SameLogs
<1>9. SameHandle(y, z) /\ SameScripts(y, z) /\ SameHandle(y, w) /\ SameScripts(y, w)
  BY <1>1, <1>2, <1>3, <1>6 DEF SameHandle, SameScripts
<1> QED BY <1>3, <1>6, <1>7, <1>8, <1>9 DEF u, v, w, z

LEMMA SameState ==
  ASSUME NEW x \in DuelRecord PROVE [x EXCEPT !.state = x.state] = x
BY DEF DuelRecord

\* A call that ends well leaves the duel in the state its code assigns.
LEMMA AfterInv ==
  ASSUME NEW x, DuelInv(x), CheckedCall(x), NEW y \in DuelRecord,
         y.op = x.op, y.state = x.state, SameHandle(x, y), SameLogs(x, y),
         Len(y.frames) = 0, ~RaisesCallbackError(y),
         Numbered(y.frames, y.audit, y.next_script)
  PROVE  DuelInv(After(y)) /\ After(y).native = x.native
<1>1. /\ x \in DuelRecord /\ x.op \notin {"idle", "create"}
      /\ x.state \in LiveStates /\ y.state # "destroyed"
  <2>1. x \in DuelRecord /\ x.op \notin {"idle", "create"} BY DEF DuelInv, CheckedCall
  <2>2. x.state \in LiveStates BY <2>1, FieldTypes DEF DuelInv, Control, LiveStates
  <2> QED BY <2>1, <2>2 DEF LiveStates
<1>2. Logs(y) BY <1>1, LogsKept DEF DuelInv, SameLogs, LiveStates
<1> DEFINE Z(s) == Idle([y EXCEPT !.state = s])
           W(s) == Idle(Drained([y EXCEPT !.state = s]))
<1>3. ASSUME NEW s \in LiveStates
      PROVE  /\ DuelInv(Z(s)) /\ Z(s).native = x.native
             /\ DuelInv(W(s)) /\ W(s).native = x.native
  <2>1. s \in DuelStates /\ s # "destroyed" BY <1>3 DEF LiveStates
  <2>2. /\ Z(s) \in DuelRecord /\ Z(s).op = "idle" /\ Z(s).state = s
        /\ Z(s).errors = y.errors
        /\ SameHandle(y, Z(s)) /\ SameScripts(y, Z(s)) /\ Logs(Z(s)) /\ Logs(W(s))
        /\ W(s) \in DuelRecord /\ W(s).op = "idle" /\ W(s).state = s
        /\ W(s).errors = y.errors
        /\ SameHandle(y, W(s)) /\ SameScripts(y, W(s)) BY <1>1, <1>2, <2>1, IdleInState
  <2> HIDE DEF Z, W
  <2> QED BY <1>1, <1>2, <1>3, <2>2, EndedInv
<1>4. CASE y.op = "add_card"
  <2> DEFINE s == IF y.state = "duel_created" THEN "cards_loaded" ELSE y.state
  <2>1. s \in LiveStates BY <1>1 DEF LiveStates, DuelStates
  <2>2. After(y) = Z(s) BY <1>4 DEF After
  <2> HIDE DEF s, Z
  <2> QED BY <1>3, <2>1, <2>2
<1>5. CASE y.op = "start"
  <2>1. "started" \in LiveStates /\ After(y) = Z("started")
    BY <1>5 DEF After, LiveStates, DuelStates
  <2> HIDE DEF Z
  <2> QED BY <1>3, <2>1
<1>6. CASE y.op = "respond"
  <2>1. "processing" \in LiveStates /\ After(y) = Z("processing")
    BY <1>6 DEF After, LiveStates, DuelStates
  <2> HIDE DEF Z
  <2> QED BY <1>3, <2>1
<1>7. CASE y.op = "scan"
  <2>1. After(y) = W(y.state) BY <1>7, SameState DEF After
  <2> HIDE DEF W
  <2> QED BY <1>1, <1>3, <2>1
<1>8. CASE y.op \in {"load_script", "query"}
  <2>1. After(y) = Z(y.state) BY <1>8, SameState DEF After
  <2> HIDE DEF Z
  <2> QED BY <1>1, <1>3, <2>1
<1> QED BY <1>4, <1>5, <1>6, <1>7, <1>8 DEF CheckedCall

\* load_script pops its own script when it ends; other calls have none left.
LEMMA OwnScript ==
  ASSUME NEW x, DuelInv(x), x.op # "idle", ~Nested(x), NEW outcome \in ScriptOutcomes
  PROVE  /\ x.op = "load_script" =>
              LET y == Recorded(x, outcome) IN
              /\ y \in DuelRecord /\ y.op = x.op /\ y.state = x.state
              /\ SameHandle(x, y) /\ SameLogs(x, y) /\ Len(y.frames) = 0
              /\ Numbered(y.frames, y.audit, y.next_script)
         /\ x.op # "load_script" =>
              /\ x \in DuelRecord /\ SameHandle(x, x) /\ SameLogs(x, x)
              /\ Len(x.frames) = 0 /\ Numbered(x.frames, x.audit, x.next_script)
<1>1. x \in DuelRecord /\ Numbered(x.frames, x.audit, x.next_script) /\ Len(x.frames) \in Nat
  BY FieldTypes DEF DuelInv, Scripts
<1>2. ASSUME x.op = "load_script"
      PROVE  LET y == Recorded(x, outcome) IN
             /\ y \in DuelRecord /\ y.op = x.op /\ y.state = x.state
             /\ SameHandle(x, y) /\ SameLogs(x, y) /\ Len(y.frames) = 0
             /\ Numbered(y.frames, y.audit, y.next_script)
  <2>0. Len(x.frames) > 0 BY <1>2 DEF DuelInv, Scripts
  <2>1. Len(x.frames) = 1
    <3> DEFINE n == Len(x.frames)
    <3>1. ~(n > 1) BY <1>2 DEF Nested
    <3>2. n \in Nat /\ n > 0 BY <1>1, <2>0
    <3> HIDE DEF n
    <3>3. n = 1 BY <3>1, <3>2
    <3> QED BY <3>3 DEF n
  <2> DEFINE y == Recorded(x, outcome)
  <2>2. /\ y \in DuelRecord /\ y.op = x.op /\ y.state = x.state
        /\ SameHandle(x, y) /\ SameLogs(x, y) /\ Len(y.frames) = Len(x.frames) - 1
        /\ Numbered(y.frames, y.audit, y.next_script) BY <1>1, <2>0, RecordedFields
  <2> HIDE DEF y
  <2>3. Len(y.frames) = 0 BY <2>1, <2>2
  <2> QED BY <2>2, <2>3 DEF y
<1>3. ASSUME x.op # "load_script"
      PROVE  /\ x \in DuelRecord /\ SameHandle(x, x) /\ SameLogs(x, x)
             /\ Len(x.frames) = 0 /\ Numbered(x.frames, x.audit, x.next_script)
  <2>1. Len(x.frames) = 0 BY <1>1, <1>3 DEF Nested
  <2> QED BY <1>1, <2>1 DEF SameHandle, SameLogs
<1> QED BY <1>2, <1>3

LEMMA ReturnQuiet ==
  ASSUME OdInv, NEW d \in Duels, NEW ok \in BOOLEAN, OdReturn(d, ok)
  PROVE  Quiet(d)
<1> DEFINE x == duel[d]
           y == IF x.op = "load_script" THEN Recorded(x, "loaded") ELSE x
           z == IF ~ok THEN Rejected(x)
                ELSE IF RaisesCallbackError(y) THEN RaiseCallbackError(y) ELSE After(y)
<1>1. /\ DuelInv(x) /\ CheckedCall(x) /\ ~Nested(x)
      /\ ~ok => x.op \in {"load_script", "scan"}
      /\ duel' = [duel EXCEPT ![d] = z] /\ UNCHANGED library BY DEF OdInv, OdReturn
<1>2. x.op \notin {"idle", "create"} BY <1>1 DEF CheckedCall
<1>3. "loaded" \in ScriptOutcomes /\ "not_loaded" \in ScriptOutcomes
  BY DEF ScriptOutcomes
<1> HIDE DEF x
<1>4. /\ y \in DuelRecord /\ y.op = x.op /\ y.state = x.state
      /\ SameHandle(x, y) /\ SameLogs(x, y) /\ Len(y.frames) = 0
      /\ Numbered(y.frames, y.audit, y.next_script) BY <1>1, <1>2, <1>3, OwnScript
<1> HIDE DEF y
<1>5. DuelInv(z) /\ z.native = x.native
  <2>1. CASE ~ok /\ x.op = "scan"
    <3>1. z = Failed(x) BY <2>1 DEF Rejected
    <3>2. /\ x \in DuelRecord /\ SameHandle(x, x) /\ SameLogs(x, x)
          /\ Len(x.frames) = 0 /\ Numbered(x.frames, x.audit, x.next_script)
      BY <1>1, <1>2, <1>3, <2>1, OwnScript
    <3> HIDE DEF z
    <3> QED BY <1>1, <1>2, <3>1, <3>2, RaiseInv
  <2>2. CASE ~ok /\ x.op = "load_script"
    <3> DEFINE v == Recorded(x, "not_loaded")
    <3>1. /\ v \in DuelRecord /\ SameHandle(x, v) /\ SameLogs(x, v)
          /\ Len(v.frames) = 0 /\ Numbered(v.frames, v.audit, v.next_script)
      BY <1>1, <1>2, <1>3, <2>2, OwnScript
    <3>2. z = IF RaisesCallbackError(v) THEN RaiseCallbackError(v) ELSE Failed(v)
      BY <2>2 DEF Rejected
    <3> HIDE DEF v, z
    <3>3. /\ DuelInv(Failed(v)) /\ Failed(v).native = x.native
          /\ RaisesCallbackError(v) =>
               DuelInv(RaiseCallbackError(v)) /\ RaiseCallbackError(v).native = x.native
      BY <1>1, <1>2, <3>1, RaiseInv
    <3> QED BY <3>2, <3>3
  <2>3. CASE ok /\ RaisesCallbackError(y)
    <3>1. z = RaiseCallbackError(y) BY <2>3
    <3> HIDE DEF z
    <3> QED BY <1>1, <1>2, <1>4, <2>3, <3>1, RaiseInv
  <2>4. CASE ok /\ ~RaisesCallbackError(y)
    <3>1. z = After(y) BY <2>4
    <3> HIDE DEF z
    <3> QED BY <1>1, <1>4, <2>4, <3>1, AfterInv
  <2> QED BY <1>1, <2>1, <2>2, <2>3, <2>4
<1> HIDE DEF z
<1> QED BY <1>1, <1>2, <1>5, QuietStep DEF x

\* One round of process.
LEMMA ProcessQuiet ==
  ASSUME OdInv, NEW d \in Duels, NEW status \in Statuses, OdProcess(d, status)
  PROVE  Quiet(d)
<1> DEFINE x == duel[d]
           again == x.step + 1
           z == IF RaisesCallbackError(x) THEN RaiseCallbackError(x)
                ELSE IF status \in {"unknown", "late"} THEN Failed(x)
                ELSE IF status = "bad_buffer" THEN Idle(x)
                ELSE IF status = "awaiting"
                THEN Idle(Drained([x EXCEPT !.state = "awaiting_response"]))
                ELSE IF status = "end" THEN Idle(Drained([x EXCEPT !.state = "ended"]))
                ELSE IF x.step = OdSteps THEN Failed(x)
                ELSE [x EXCEPT !.step = again]
<1>1. /\ DuelInv(x) /\ x.op = "process" /\ ~Nested(x)
      /\ duel' = [duel EXCEPT ![d] = z] /\ UNCHANGED library BY DEF OdInv, OdProcess
<1>2. "loaded" \in ScriptOutcomes BY DEF ScriptOutcomes
<1> HIDE DEF x
<1>3. /\ x \in DuelRecord /\ SameHandle(x, x) /\ SameLogs(x, x)
      /\ Len(x.frames) = 0 /\ Numbered(x.frames, x.audit, x.next_script)
      /\ x.op \notin {"idle", "create"} /\ again \in Nat
  BY <1>1, <1>2, OwnScript, FieldTypes
<1>4. x.state \in LiveStates /\ x.state # "destroyed" /\ Logs(x)
  BY <1>1, <1>3, FieldTypes DEF DuelInv, Control, LiveStates
<1>5. /\ DuelInv(Failed(x)) /\ Failed(x).native = x.native
      /\ RaisesCallbackError(x) =>
           DuelInv(RaiseCallbackError(x)) /\ RaiseCallbackError(x).native = x.native
  BY <1>1, <1>3, RaiseInv
<1> DEFINE Z(s) == Idle([x EXCEPT !.state = s])
           W(s) == Idle(Drained([x EXCEPT !.state = s]))
<1>6. ASSUME ~RaisesCallbackError(x), NEW s \in LiveStates
      PROVE  /\ DuelInv(Z(s)) /\ Z(s).native = x.native
             /\ DuelInv(W(s)) /\ W(s).native = x.native
  <2>1. s \in DuelStates /\ s # "destroyed" BY <1>6 DEF LiveStates
  <2>2. /\ Z(s) \in DuelRecord /\ Z(s).op = "idle" /\ Z(s).state = s
        /\ Z(s).errors = x.errors
        /\ SameHandle(x, Z(s)) /\ SameScripts(x, Z(s)) /\ Logs(Z(s)) /\ Logs(W(s))
        /\ W(s) \in DuelRecord /\ W(s).op = "idle" /\ W(s).state = s
        /\ W(s).errors = x.errors
        /\ SameHandle(x, W(s)) /\ SameScripts(x, W(s)) BY <1>3, <1>4, <2>1, IdleInState
  <2> HIDE DEF Z, W
  <2> QED BY <1>1, <1>3, <1>4, <1>6, <2>2, EndedInv
<1>7. Z(x.state) = Idle(x) BY <1>3, SameState
<1>8. DuelInv([x EXCEPT !.step = again]) /\ [x EXCEPT !.step = again].native = x.native
  <2> DEFINE y == [x EXCEPT !.step = again]
  <2> HIDE DEF again
  <2>1. /\ y \in DuelRecord /\ y.op = x.op /\ y.state = x.state
        /\ SameHandle(x, y) /\ SameLogs(x, y) /\ SameScripts(x, y)
    BY <1>3 DEF DuelRecord, SameHandle, SameLogs, SameScripts
  <2> HIDE DEF y
  <2>2. DuelInv(y) /\ y.native = x.native
    BY <1>1, <1>3, <2>1, SimpleCallback DEF SameHandle
  <2> QED BY <2>2 DEF y
<1>9. "awaiting_response" \in LiveStates /\ "ended" \in LiveStates
  BY DEF LiveStates, DuelStates
<1>10. ASSUME ~RaisesCallbackError(x)
       PROVE  /\ DuelInv(Idle(x)) /\ Idle(x).native = x.native
              /\ DuelInv(W("awaiting_response")) /\ W("awaiting_response").native = x.native
              /\ DuelInv(W("ended")) /\ W("ended").native = x.native
  <2> HIDE DEF Z, W
  <2> QED BY <1>4, <1>6, <1>7, <1>9, <1>10
<1>11. DuelInv(z) /\ z.native = x.native
  <2>1. \/ z = RaiseCallbackError(x) /\ RaisesCallbackError(x)
        \/ z = Failed(x)
        \/ ~RaisesCallbackError(x) /\ z \in {Idle(x), W("awaiting_response"), W("ended")}
        \/ z = [x EXCEPT !.step = again] OBVIOUS
  <2> HIDE DEF z, W, again
  <2> QED BY <1>5, <1>8, <1>10, <2>1
<1> HIDE DEF z
<1> QED BY <1>1, <1>3, <1>11, QuietStep DEF x

----------------------------------------------------------------------------
\* Steps that create, lose or destroy a native handle, or close the library.

\* A step of duel d that leaves the native handles alone keeps the library's
\* books.
LEMMA QuietKeeps ==
  ASSUME OdInv, NEW d \in Duels, Quiet(d)
  PROVE  OdInv'
<1>1. /\ duel' \in [Duels -> DuelRecord]
      /\ \A e \in Duels : DuelInv(duel'[e]) /\ duel'[e].native = duel[e].native
      /\ \A e \in Duels : e # d => duel'[e] = duel[e]
  <2>1. duel'[d] \in DuelRecord /\ DuelInv(duel'[d]) /\ duel'[d].native = duel[d].native
    BY DEF Quiet, DuelInv
  <2>2. duel' = [duel EXCEPT ![d] = duel'[d]] /\ duel \in [Duels -> DuelRecord]
    BY DEF Quiet, OdInv
  <2>3. \A e \in Duels : e # d => duel'[e] = duel[e] BY <2>2
  <2>4. duel' \in [Duels -> DuelRecord] BY <2>1, <2>2
  <2>5. ASSUME NEW e \in Duels
        PROVE  DuelInv(duel'[e]) /\ duel'[e].native = duel[e].native
    <3>1. CASE e = d BY <2>1, <3>1
    <3>2. CASE e # d BY <2>3, <3>2 DEF OdInv
    <3> QED BY <3>1, <3>2
  <2> QED BY <2>3, <2>4, <2>5
<1>2. Live' = Live BY <1>1 DEF Live
<1>3. library' = library BY DEF Quiet
<1>4. library.state # "closed"
  <2> SUFFICES ASSUME library.state = "closed" PROVE FALSE OBVIOUS
  <2>1. duel[d].op = "idle" /\ Cardinality(Live) = 0 BY DEF OdInv
  <2>2. d \in Live BY <2>1 DEF Quiet, Live
  <2>3. IsFiniteSet(Live) BY DuelsAssumption, FS_Subset DEF Live
  <2> QED BY <2>1, <2>2, <2>3, FS_EmptySet
<1> QED BY <1>1, <1>2, <1>3, <1>4 DEF OdInv

\* Any other step that replaces one duel.
LEMMA OneDuel ==
  ASSUME OdInv, NEW d \in Duels, NEW y, duel' = [duel EXCEPT ![d] = y], DuelInv(y)
  PROVE  /\ duel' \in [Duels -> DuelRecord]
         /\ \A e \in Duels : DuelInv(duel'[e])
         /\ duel'[d] = y
         /\ \A e \in Duels : e # d => duel'[e] = duel[e]
         /\ Live' = IF y.native = "live" THEN Live \cup {d} ELSE Live \ {d}
         /\ Cardinality(Live') =
              Cardinality(Live) + (IF y.native = "live" THEN 1 ELSE 0)
                                - (IF duel[d].native = "live" THEN 1 ELSE 0)
<1>1. y \in DuelRecord /\ duel \in [Duels -> DuelRecord] BY DEF DuelInv, OdInv
<1>2. /\ duel' \in [Duels -> DuelRecord] /\ duel'[d] = y
      /\ \A e \in Duels : e # d => duel'[e] = duel[e] BY <1>1
<1>3. \A e \in Duels : DuelInv(duel'[e]) BY <1>2 DEF OdInv
<1>4. Live' = IF y.native = "live" THEN Live \cup {d} ELSE Live \ {d} BY <1>2 DEF Live
<1>5. IsFiniteSet(Live) /\ Cardinality(Live) \in Nat
  BY DuelsAssumption, FS_Subset, FS_CardinalityType DEF Live
<1>6. d \in Live <=> duel[d].native = "live" BY DEF Live
<1>7. Cardinality(Live') = Cardinality(Live) + (IF y.native = "live" THEN 1 ELSE 0)
                                             - (IF duel[d].native = "live" THEN 1 ELSE 0)
  <2>1. CASE y.native = "live"
    <3>1. Cardinality(Live \cup {d}) = IF d \in Live THEN Cardinality(Live)
                                       ELSE Cardinality(Live) + 1
      BY <1>5, FS_AddElement
    <3> QED BY <1>4, <1>5, <1>6, <2>1, <3>1
  <2>2. CASE y.native # "live"
    <3>1. Cardinality(Live \ {d}) = IF d \in Live THEN Cardinality(Live) - 1
                                    ELSE Cardinality(Live) BY <1>5, FS_RemoveElement
    <3> QED BY <1>4, <1>5, <1>6, <2>2, <3>1
  <2> QED BY <2>1, <2>2
<1> QED BY <1>2, <1>3, <1>4, <1>7

\* The record destroy leaves.
LEMMA DestroyedInv ==
  ASSUME NEW x \in DuelRecord, Logs(x), x.state # "destroyed", Len(x.frames) = 0,
         Numbered(x.frames, x.audit, x.next_script),
         x.destroys = IF x.native = "destroyed" THEN 1 ELSE 0
  PROVE  DuelInv(Destroyed(x)) /\ Destroyed(x).native # "live"
<1> DEFINE native == IF x.native = "live" THEN "destroyed" ELSE x.native
           destroys == IF x.native = "live" THEN x.destroys + 1 ELSE x.destroys
           z == Idle(x)
           none == <<>>
           y == [z EXCEPT !.state = "destroyed", !.setcodes = {}, !.pending = none,
                          !.registered = FALSE, !.native = native,
                          !.destroys = destroys]
<1>1. /\ z \in DuelRecord /\ z.op = "idle" /\ z.errors = x.errors
      /\ SameHandle(x, z) /\ SameLogs(x, z) /\ SameScripts(x, z) BY IdleFields
<1>2. Destroyed(x) = y BY <1>1 DEF Destroyed, SameHandle
<1>3. /\ native \in {"none", "destroyed"}
      /\ destroys = IF native = "destroyed" THEN 1 ELSE 0
      /\ destroys \in Nat /\ none \in Seq(Nat) /\ "destroyed" \in DuelStates
      /\ {} \in SUBSET {1} /\ FALSE \in BOOLEAN BY FieldTypes DEF DuelStates
<1> HIDE DEF native, destroys, none, z
<1>4. y \in DuelRecord BY <1>1, <1>3, ZenonT(40) DEF DuelRecord
<1>5. /\ y.state = "destroyed" /\ y.op = "idle" /\ y.setcodes = {}
      /\ y.native = native /\ y.destroys = destroys /\ y.registered = FALSE
      /\ y.delivered = x.delivered /\ y.pending = none /\ y.next_log = x.next_log
      /\ SameScripts(x, y) BY <1>1, <1>3 DEF DuelRecord, SameLogs, SameScripts
<1> HIDE DEF y
<1>6. Control(y) BY <1>3, <1>5 DEF Control, LiveStates
<1>7. Handle(y) /\ Errors(y) BY <1>3, <1>5 DEF Handle, Errors
<1>8. Logs(y) BY <1>4, <1>5, LogsKept DEF none
<1>9. Scripts(y) BY <1>5 DEF Scripts, SameScripts
<1> QED BY <1>2, <1>3, <1>4, <1>5, <1>6, <1>7, <1>8, <1>9 DEF DuelInv

LEMMA CreateKeeps ==
  ASSUME OdInv, NEW d \in Duels, OdCreate(d) PROVE OdInv'
<1> DEFINE x == duel[d]
           y == [x EXCEPT !.state = "version_checked", !.op = "create"]
<1>1. /\ DuelInv(x) /\ x \in DuelRecord /\ x.state = "absent" /\ library' = library
      /\ library.state = "version_checked" /\ duel \in [Duels -> DuelRecord]
  BY DEF OdInv, DuelInv, OdCreate
<1>2. duel' = [duel EXCEPT ![d] = y] BY <1>1 DEF OdCreate
<1>3. x.op = "idle" /\ x.native = "none" BY <1>1 DEF DuelInv, Control
<1> HIDE DEF x
<1>4. y \in DuelRecord BY <1>1 DEF DuelRecord, DuelStates, Ops
<1>5. /\ y.state = "version_checked" /\ y.op = "create" /\ y.setcodes = x.setcodes
      /\ SameHandle(x, y) /\ SameLogs(x, y) /\ SameScripts(x, y)
  BY <1>1 DEF DuelRecord, SameHandle, SameLogs, SameScripts
<1> HIDE DEF y
<1>6. Control(y) /\ Handle(y) /\ Errors(y)
  BY <1>1, <1>3, <1>5 DEF DuelInv, Control, Handle, Errors, SameHandle, LiveStates
<1>7. Logs(y) BY <1>1, <1>4, <1>5, LogsKept DEF DuelInv, SameLogs
<1>8. Scripts(y) BY <1>1, <1>5 DEF DuelInv, Scripts, SameScripts
<1>9. DuelInv(y) /\ y.native # "live"
  BY <1>3, <1>4, <1>5, <1>6, <1>7, <1>8 DEF DuelInv, SameHandle
<1>10. /\ duel' \in [Duels -> DuelRecord] /\ \A e \in Duels : DuelInv(duel'[e])
       /\ Cardinality(Live') = Cardinality(Live) + 0 - 0
  BY <1>2, <1>3, <1>9, OneDuel DEF x
<1>11. Cardinality(Live) \in Int BY DEF OdInv
<1> QED BY <1>1, <1>10, <1>11 DEF OdInv

LEMMA DestroyKeeps ==
  ASSUME OdInv, NEW d \in Duels, OdDestroy(d) PROVE OdInv'
<1> DEFINE x == duel[d]
           y == Destroyed(x)
           n == IF x.registered THEN library.active - 1 ELSE library.active
<1>1. /\ DuelInv(x) /\ x \in DuelRecord /\ x.op = "idle"
      /\ x.state \notin {"absent", "destroyed"}
      /\ duel' = [duel EXCEPT ![d] = y] /\ duel \in [Duels -> DuelRecord]
      /\ library' = [library EXCEPT !.active = n] BY DEF OdInv, DuelInv, OdDestroy
<1>2. DuelInv(y) /\ y.native # "live"
  <2>1. /\ Logs(x) /\ Len(x.frames) = 0 /\ Numbered(x.frames, x.audit, x.next_script)
        /\ x.destroys = IF x.native = "destroyed" THEN 1 ELSE 0
    BY <1>1 DEF DuelInv, Scripts, Handle
  <2> QED BY <1>1, <2>1, DestroyedInv
<1>3. x.native = "live" <=> x.registered = TRUE BY <1>1 DEF DuelInv, Handle
<1>4. x.registered \in BOOLEAN BY <1>1, FieldTypes
<1> HIDE DEF y
<1>5. /\ duel' \in [Duels -> DuelRecord] /\ \A e \in Duels : DuelInv(duel'[e])
      /\ duel'[d] = y /\ \A e \in Duels : e # d => duel'[e] = duel[e]
      /\ Cardinality(Live') = Cardinality(Live) + 0
                              - (IF x.native = "live" THEN 1 ELSE 0)
  BY <1>1, <1>2, OneDuel
<1>6. library.active = Cardinality(Live) /\ Cardinality(Live) \in Int BY DEF OdInv
<1>7. n \in Int /\ n = Cardinality(Live')
  <2>1. CASE x.registered BY <1>3, <1>5, <1>6, <2>1
  <2>2. CASE ~x.registered BY <1>3, <1>4, <1>5, <1>6, <2>2
  <2> QED BY <2>1, <2>2
<1> HIDE DEF n
<1>8. /\ library' \in [state : {"version_checked", "closed"}, active : Int]
      /\ library'.active = n /\ library'.state = library.state BY <1>1, <1>7 DEF OdInv
<1>9. library.state = "closed" => n = 0 /\ \A e \in Duels : duel'[e].op = "idle"
  <2> SUFFICES ASSUME library.state = "closed"
               PROVE  n = 0 /\ \A e \in Duels : duel'[e].op = "idle" OBVIOUS
  <2>1. Cardinality(Live) = 0 /\ IsFiniteSet(Live)
    BY <1>6, DuelsAssumption, FS_Subset DEF OdInv, Live
  <2>2. d \notin Live BY <2>1, FS_EmptySet
  <2>3. x.native # "live" BY <2>2 DEF Live
  <2>4. n = 0
    <3>1. Cardinality(Live') = Cardinality(Live) + 0 - 0 BY <1>5, <2>3
    <3> QED BY <1>7, <2>1, <3>1
  <2>5. y.op = "idle"
    BY <1>2, FieldTypes, IdleFields, <1>1 DEF y, Destroyed, DuelRecord
  <2> QED BY <1>5, <2>4, <2>5 DEF OdInv
<1> QED BY <1>5, <1>7, <1>8, <1>9 DEF OdInv

LEMMA CloseKeeps ==
  ASSUME OdInv, OdClose PROVE OdInv'
<1>1. /\ duel' = duel /\ library.active = 0 /\ \A d \in Duels : duel[d].op = "idle"
      /\ library' = [library EXCEPT !.state = "closed"] BY DEF OdClose
<1>2. Live' = Live BY <1>1 DEF Live
<1>3. /\ library' \in [state : {"version_checked", "closed"}, active : Int]
      /\ library'.active = library.active BY <1>1 DEF OdInv
<1> QED BY <1>1, <1>2, <1>3 DEF OdInv

\* The constructor returns.  Nothing but the duel being created changes, and
\* only a session that opens is counted.
LEMMA CreatedDuel ==
  ASSUME NEW x, DuelInv(x), x.op = "create", ~Nested(x)
  PROVE  /\ x \in DuelRecord /\ x.native = "none" /\ x.destroys = 0
         /\ x.registered = FALSE /\ x.state = "version_checked" /\ Logs(x)
         /\ Len(x.frames) = 0 /\ Numbered(x.frames, x.audit, x.next_script)
<1>1. /\ x \in DuelRecord /\ x.state = "version_checked" /\ Logs(x)
      /\ Numbered(x.frames, x.audit, x.next_script) BY DEF DuelInv, Control, Scripts
<1>2. x.native = "none" BY <1>1 DEF DuelInv, Control
<1>3. x.destroys = 0 /\ x.registered = FALSE
  BY <1>1, <1>2, FieldTypes DEF DuelInv, Handle
<1>4. Len(x.frames) = 0
  <2> DEFINE n == Len(x.frames)
  <2>1. n \in Nat BY <1>1, FieldTypes
  <2>2. ~(n > 0) BY DEF Nested
  <2> HIDE DEF n
  <2>3. n = 0 BY <2>1, <2>2
  <2> QED BY <2>3 DEF n
<1> QED BY <1>1, <1>2, <1>3, <1>4

\* The half-created duel of a native failure is destroyed, if there is one.
LEMMA CreationFailedInv ==
  ASSUME NEW x, DuelInv(x), x.op = "create", ~Nested(x), NEW made \in BOOLEAN
  PROVE  LET y == [Failed(x) EXCEPT !.native = IF made THEN "destroyed" ELSE @,
                                    !.destroys = IF made THEN 1 ELSE 0]
         IN  DuelInv(y) /\ y.native # "live"
<1> DEFINE native == IF made THEN "destroyed" ELSE "none"
           destroys == IF made THEN 1 ELSE 0
           z == Failed(x)
           y == [z EXCEPT !.native = native, !.destroys = destroys]
<1>1. /\ x \in DuelRecord /\ x.native = "none" /\ x.registered = FALSE
      /\ x.state = "version_checked" /\ Logs(x) /\ Len(x.frames) = 0
      /\ Numbered(x.frames, x.audit, x.next_script) BY CreatedDuel
<1>2. /\ z \in DuelRecord /\ z.op = "idle" /\ z.state = "failed"
      /\ z.native = "none" /\ z.registered = FALSE
      /\ SameLogs(x, z) /\ SameScripts(x, z) BY <1>1, FailedFields DEF SameHandle
<1>3. [Failed(x) EXCEPT !.native = IF made THEN "destroyed" ELSE @,
                        !.destroys = IF made THEN 1 ELSE 0] = y BY <1>2
<1>4. /\ native \in {"none", "destroyed"} /\ destroys \in Nat
      /\ destroys = IF native = "destroyed" THEN 1 ELSE 0 OBVIOUS
<1> HIDE DEF native, destroys, z
<1>5. y \in DuelRecord BY <1>2, <1>4 DEF DuelRecord
<1>6. /\ y.op = "idle" /\ y.state = "failed" /\ y.native = native
      /\ y.destroys = destroys /\ y.registered = FALSE
      /\ SameLogs(x, y) /\ SameScripts(x, y)
  BY <1>2, <1>4 DEF DuelRecord, SameLogs, SameScripts
<1> HIDE DEF y
<1>7. Control(y) /\ Handle(y) /\ Errors(y)
  BY <1>4, <1>6 DEF Control, Handle, Errors, LiveStates
<1>8. Logs(y) BY <1>1, <1>5, <1>6, LogsKept DEF SameLogs
<1>9. Scripts(y) BY <1>1, <1>6 DEF Scripts, SameScripts
<1>10. DuelInv(y) /\ y.native # "live"
  BY <1>4, <1>5, <1>6, <1>7, <1>8, <1>9 DEF DuelInv
<1> QED BY <1>3, <1>10

\* A callback failed while the native duel was made: it is destroyed again.
LEMMA CreationRaisedInv ==
  ASSUME NEW x, DuelInv(x), x.op = "create", ~Nested(x), RaisesCallbackError(x)
  PROVE  LET y == Destroyed(RaiseCallbackError([x EXCEPT !.native = "live"]))
         IN  DuelInv(y) /\ y.native # "live"
<1> DEFINE v == [x EXCEPT !.native = "live"]
           w == RaiseCallbackError(v)
<1>1. /\ x \in DuelRecord /\ x.destroys = 0 /\ x.state = "version_checked"
      /\ Logs(x) /\ Len(x.frames) = 0
      /\ Numbered(x.frames, x.audit, x.next_script) BY CreatedDuel
<1>2. v \in DuelRecord BY <1>1 DEF DuelRecord
<1>3. /\ v.native = "live" /\ v.destroys = 0 /\ v.errors = x.errors
      /\ SameLogs(x, v) /\ SameScripts(x, v)
  BY <1>1 DEF DuelRecord, SameLogs, SameScripts
<1> HIDE DEF v
<1>4. RaisesCallbackError(v) BY <1>3 DEF RaisesCallbackError
<1>5. /\ w \in DuelRecord /\ w.state = "failed" /\ w.native = "live"
      /\ w.destroys = 0 /\ SameLogs(v, w) /\ SameScripts(v, w)
  BY <1>2, <1>3, <1>4, RaiseFields DEF SameHandle
<1> HIDE DEF w
<1>6. Len(w.frames) = 0 /\ Numbered(w.frames, w.audit, w.next_script)
  BY <1>1, <1>3, <1>5 DEF SameScripts
<1>7. Logs(w) BY <1>1, <1>3, <1>5, LogsKept DEF SameLogs
<1>8. DuelInv(Destroyed(w)) /\ Destroyed(w).native # "live"
  BY <1>5, <1>6, <1>7, DestroyedInv
<1> QED BY <1>8 DEF v, w

\* The session opens.
LEMMA CreationOpensInv ==
  ASSUME NEW x, DuelInv(x), x.op = "create", ~Nested(x), ~RaisesCallbackError(x)
  PROVE  LET y == Idle([x EXCEPT !.native = "live", !.registered = TRUE,
                                 !.state = "duel_created"])
         IN  DuelInv(y) /\ y.native = "live"
<1> DEFINE v == [x EXCEPT !.native = "live", !.registered = TRUE,
                          !.state = "duel_created"]
           y == Idle(v)
<1>1. /\ x \in DuelRecord /\ x.destroys = 0 /\ x.state = "version_checked"
      /\ Logs(x) /\ Len(x.frames) = 0
      /\ Numbered(x.frames, x.audit, x.next_script) BY CreatedDuel
<1>2. v \in DuelRecord BY <1>1 DEF DuelRecord, DuelStates
<1>3. /\ v.native = "live" /\ v.destroys = 0 /\ v.errors = x.errors
      /\ v.registered = TRUE /\ v.state = "duel_created"
      /\ SameLogs(x, v) /\ SameScripts(x, v)
  BY <1>1 DEF DuelRecord, SameLogs, SameScripts
<1> HIDE DEF v
<1>4. /\ y \in DuelRecord /\ y.op = "idle" /\ y.state = "duel_created"
      /\ y.native = "live" /\ y.destroys = 0 /\ y.registered = TRUE
      /\ y.errors = x.errors /\ SameLogs(x, y) /\ SameScripts(x, y)
  BY <1>2, <1>3, IdleFields DEF SameHandle, SameLogs, SameScripts
<1> HIDE DEF y
<1>5. ~(y.errors > 0) BY <1>4 DEF RaisesCallbackError
<1>6. Control(y) /\ Handle(y) /\ Errors(y)
  BY <1>4, <1>5 DEF Control, Handle, Errors, LiveStates
<1>7. Logs(y) BY <1>1, <1>4, LogsKept DEF SameLogs
<1>8. Scripts(y) BY <1>1, <1>4 DEF Scripts, SameScripts
<1>9. DuelInv(y) /\ y.native = "live" BY <1>4, <1>6, <1>7, <1>8 DEF DuelInv
<1> QED BY <1>9 DEF v, y

LEMMA CreatedKeeps ==
  ASSUME OdInv, NEW d \in Duels, NEW success \in BOOLEAN, OdCreated(d, success)
  PROVE  OdInv'
<1> DEFINE x == duel[d]
<1>1. /\ DuelInv(x) /\ x.op = "create" /\ ~Nested(x) /\ x.native = "none"
      /\ library.state # "closed" /\ Cardinality(Live) \in Int
      /\ library.active = Cardinality(Live)
      /\ library \in [state : {"version_checked", "closed"}, active : Int]
  <2>1. DuelInv(x) /\ x.op = "create" /\ ~Nested(x) BY DEF OdInv, OdCreated
  <2>2. x.native = "none" BY <2>1, CreatedDuel
  <2> QED BY <2>1, <2>2 DEF OdInv
\* Creation that fails leaves no live duel and no session.
<1>2. ASSUME NEW y, duel' = [duel EXCEPT ![d] = y], UNCHANGED library,
             DuelInv(y), y.native # "live"
      PROVE  OdInv'
  <2>1. /\ duel' \in [Duels -> DuelRecord] /\ \A e \in Duels : DuelInv(duel'[e])
        /\ Cardinality(Live') = Cardinality(Live) + 0 - 0 BY <1>1, <1>2, OneDuel
  <2> QED BY <1>1, <1>2, <2>1 DEF OdInv
<1>3. ASSUME NEW y, duel' = [duel EXCEPT ![d] = y],
             library' = [library EXCEPT !.active = @ + 1],
             DuelInv(y), y.native = "live"
      PROVE  OdInv'
  <2> DEFINE n == library.active + 1
  <2>1. /\ duel' \in [Duels -> DuelRecord] /\ \A e \in Duels : DuelInv(duel'[e])
        /\ Cardinality(Live') = Cardinality(Live) + 1 - 0 BY <1>1, <1>3, OneDuel
  <2>2. n \in Int /\ n = Cardinality(Live') BY <1>1, <2>1
  <2>3. library' = [library EXCEPT !.active = n] BY <1>3
  <2> HIDE DEF n
  <2>4. /\ library' \in [state : {"version_checked", "closed"}, active : Int]
        /\ library'.active = n /\ library'.state = library.state BY <1>1, <2>2, <2>3
  <2> QED BY <1>1, <2>1, <2>2, <2>4 DEF OdInv
<1>4. ASSUME NEW made \in BOOLEAN, UNCHANGED library,
             duel' = [duel EXCEPT ![d] =
               [Failed(x) EXCEPT !.native = IF made THEN "destroyed" ELSE @,
                                 !.destroys = IF made THEN 1 ELSE 0]]
      PROVE  OdInv'
  <2> DEFINE y == [Failed(x) EXCEPT !.native = IF made THEN "destroyed" ELSE @,
                                    !.destroys = IF made THEN 1 ELSE 0]
  <2>1. DuelInv(y) /\ y.native # "live" BY <1>1, CreationFailedInv
  <2>2. duel' = [duel EXCEPT ![d] = y] BY <1>4
  <2> HIDE DEF y
  <2> QED BY <1>2, <1>4, <2>1, <2>2
<1>5. ASSUME RaisesCallbackError(x), UNCHANGED library,
             duel' = [duel EXCEPT ![d] =
               Destroyed(RaiseCallbackError([x EXCEPT !.native = "live"]))]
      PROVE  OdInv'
  <2> DEFINE y == Destroyed(RaiseCallbackError([x EXCEPT !.native = "live"]))
  <2>1. DuelInv(y) /\ y.native # "live" BY <1>1, <1>5, CreationRaisedInv
  <2>2. duel' = [duel EXCEPT ![d] = y] BY <1>5
  <2> HIDE DEF y
  <2> QED BY <1>2, <1>5, <2>1, <2>2
<1>6. ASSUME ~RaisesCallbackError(x),
             library' = [library EXCEPT !.active = @ + 1],
             duel' = [duel EXCEPT ![d] =
               Idle([x EXCEPT !.native = "live", !.registered = TRUE,
                              !.state = "duel_created"])]
      PROVE  OdInv'
  <2> DEFINE y == Idle([x EXCEPT !.native = "live", !.registered = TRUE,
                                 !.state = "duel_created"])
  <2>1. DuelInv(y) /\ y.native = "live" BY <1>1, <1>6, CreationOpensInv
  <2>2. duel' = [duel EXCEPT ![d] = y] BY <1>6
  <2> HIDE DEF y
  <2> QED BY <1>3, <1>6, <2>1, <2>2
<1> QED BY <1>4, <1>5, <1>6 DEF OdCreated

----------------------------------------------------------------------------
\* The invariant holds of every reachable state.
LEMMA OdInitially == OdInit => OdInv
<1> SUFFICES ASSUME OdInit PROVE OdInv OBVIOUS
<1> DEFINE none == <<>>
<1>1. none \in Seq(Nat) /\ none \in Seq(Records) /\ Len(none) = 0 OBVIOUS
<1> HIDE DEF none
<1>2. Absent \in DuelRecord BY <1>1 DEF Absent, DuelRecord, DuelStates, Ops, none
<1>3. /\ Absent.state = "absent" /\ Absent.op = "idle" /\ Absent.native = "none"
      /\ Absent.destroys = 0 /\ Absent.registered = FALSE /\ Absent.errors = 0
      /\ Absent.frames = none /\ Absent.audit = none /\ Absent.next_script = 0
      /\ Absent.pending = none /\ Absent.delivered = none /\ Absent.next_log = 0
  BY DEF Absent, none
<1>4. Control(Absent) /\ Handle(Absent) /\ Errors(Absent)
  BY <1>3 DEF Control, Handle, Errors, LiveStates
<1>5. Logs(Absent) BY <1>1, <1>3 DEF Logs
<1>6. Scripts(Absent) BY <1>1, <1>3 DEF Scripts, Numbered
<1>7. DuelInv(Absent) BY <1>2, <1>4, <1>5, <1>6 DEF DuelInv
<1>8. duel \in [Duels -> DuelRecord] /\ \A d \in Duels : duel[d] = Absent
  BY <1>2 DEF OdInit
<1>9. Live = {} BY <1>3, <1>8 DEF Live
<1>10. Cardinality(Live) = 0 BY <1>9, FS_EmptySet
<1> QED BY <1>7, <1>8, <1>10 DEF OdInit, OdInv

LEMMA OdStep == OdInv /\ [OdNext]_odVars => OdInv'
<1> SUFFICES ASSUME OdInv, [OdNext]_odVars PROVE OdInv' OBVIOUS
<1>1. ASSUME NEW d \in Duels, OdCreate(d) PROVE OdInv' BY <1>1, CreateKeeps
<1>2. ASSUME NEW d \in Duels, OdDestroy(d) PROVE OdInv' BY <1>2, DestroyKeeps
<1>3. ASSUME NEW d \in Duels,
             NEW op \in {"add_card", "load_script", "start", "process",
                         "respond", "scan", "query"},
             OdCall(d, op)
      PROVE  OdInv'
  <2>1. op \in Ops \ {"idle", "create"} BY DEF Ops
  <2> QED BY <1>3, <2>1, CallQuiet, QuietKeeps
<1>4. ASSUME NEW d \in Duels, OdLog(d) PROVE OdInv' BY <1>4, LogQuiet, QuietKeeps
<1>5. ASSUME NEW d \in Duels, OdForeign(d) PROVE OdInv'
  BY <1>5, ForeignQuiet, QuietKeeps
<1>6. ASSUME NEW d \in Duels, OdScript(d) PROVE OdInv' BY <1>6, ScriptQuiet, QuietKeeps
<1>7. ASSUME NEW d \in Duels, NEW ok \in BOOLEAN, OdData(d, 1, ok) PROVE OdInv'
  BY <1>7, DataQuiet, QuietKeeps
<1>8. ASSUME NEW d \in Duels, NEW ok \in BOOLEAN, OdCreated(d, ok) PROVE OdInv'
  BY <1>8, CreatedKeeps
<1>9. ASSUME NEW d \in Duels, NEW ok \in BOOLEAN, OdReturn(d, ok) PROVE OdInv'
  BY <1>9, ReturnQuiet, QuietKeeps
<1>10. ASSUME NEW d \in Duels, OdDataDone(d, 1) PROVE OdInv'
  BY <1>10, DataDoneQuiet, QuietKeeps
<1>11. ASSUME NEW d \in Duels, NEW o \in ScriptOutcomes, OdScriptDone(d, o)
       PROVE  OdInv' BY <1>11, ScriptDoneQuiet, QuietKeeps
<1>12. ASSUME NEW d \in Duels, NEW s \in Statuses, OdProcess(d, s) PROVE OdInv'
  BY <1>12, ProcessQuiet, QuietKeeps
<1>13. CASE OdClose BY <1>13, CloseKeeps
<1>14. CASE UNCHANGED odVars
  <2>1. duel' = duel /\ library' = library /\ Live' = Live BY <1>14 DEF odVars, Live
  <2> QED BY <2>1 DEF OdInv
<1> QED BY <1>1, <1>2, <1>3, <1>4, <1>5, <1>6, <1>7, <1>8, <1>9, <1>10, <1>11, <1>12,
     <1>13, <1>14 DEF OdNext

----------------------------------------------------------------------------
\* What the invariant says of the logs and of the audit.
LEMMA LogsNumbered ==
  ASSUME NEW x \in DuelRecord, Logs(x)
  PROVE  LET all == x.delivered \o x.pending
         IN  /\ \A i \in 1..Len(all) : all[i] = i - 1
             /\ x.state # "destroyed" => Len(all) = x.next_log
<1> DEFINE p == x.delivered
           q == x.pending
           all == p \o q
<1>1. p \in Seq(Nat) /\ q \in Seq(Nat) /\ Len(p) \in Nat /\ Len(q) \in Nat
  BY FieldTypes
<1>2. /\ \A i \in 1..Len(p) : p[i] = i - 1
      /\ \A i \in 1..Len(q) : q[i] = Len(p) + i - 1
      /\ x.state # "destroyed" => Len(p) + Len(q) = x.next_log BY DEF Logs
<1> HIDE DEF p, q
<1>3. Len(all) = Len(p) + Len(q) BY <1>1
<1>4. ASSUME NEW i \in 1..Len(all) PROVE all[i] = i - 1
  <2>1. CASE i \in 1..Len(p) BY <1>1, <1>2, <2>1
  <2>2. CASE i \notin 1..Len(p)
    <3>1. i - Len(p) \in 1..Len(q) BY <1>1, <1>3, <2>2
    <3>2. all[i] = q[i - Len(p)] BY <1>1, <1>3, <2>2
    <3>3. q[i - Len(p)] = Len(p) + (i - Len(p)) - 1 BY <1>2, <3>1
    <3> QED BY <1>1, <3>2, <3>3
  <2> QED BY <2>1, <2>2
<1> QED BY <1>2, <1>3, <1>4 DEF p, q

LEMMA AuditNumbered ==
  ASSUME NEW x \in DuelRecord, Scripts(x)
  PROVE  LET seqs == {x.audit[i].sequence : i \in 1..Len(x.audit)}
         IN  /\ Cardinality(seqs) = Len(x.audit)
             /\ x.op = "idle" => seqs = 0..(x.next_script - 1)
<1> DEFINE n == Len(x.audit)
           seqs == {x.audit[i].sequence : i \in 1..n}
           f == [i \in 1..n |-> x.audit[i].sequence]
<1>1. /\ n \in Nat /\ x.next_script \in Nat
      /\ \A i \in 1..n : x.audit[i].sequence \in Nat
      /\ Numbered(x.frames, x.audit, x.next_script)
  BY FieldTypes, EntryTypes DEF Scripts
<1>2. /\ \A i \in 1..n : x.audit[i].sequence < x.next_script
      /\ \A i, j \in 1..n : x.audit[i].sequence = x.audit[j].sequence => i = j
  BY <1>1 DEF Numbered
<1>3. f \in Surjection(1..n, seqs) BY DEF Surjection
<1>4. f \in Injection(1..n, seqs) BY <1>2 DEF Injection, IsInjective
<1>5. IsFiniteSet(1..n) /\ Cardinality(1..n) = n
  <2>1. 1 \in Int /\ n \in Int BY <1>1
  <2> HIDE DEF n
  <2>2. Cardinality(1..n) = (IF 1 > n THEN 0 ELSE n - 1 + 1) /\ IsFiniteSet(1..n)
    BY <2>1, FS_Interval, Zenon
  <2> QED BY <1>1, <2>2
<1>6. Cardinality(seqs) = Cardinality(1..n)
  <2> HIDE DEF f, seqs
  <2> QED BY <1>3, <1>4, <1>5, FS_Surjection
<1>7. ASSUME x.op = "idle" PROVE seqs = 0..(x.next_script - 1)
  <2>1. Len(x.frames) = 0 BY <1>7 DEF Scripts
  <2>2. \A k \in 0..(x.next_script - 1) : \E i \in 1..n : x.audit[i].sequence = k
    BY <1>1, <2>1 DEF Numbered
  <2>3. \A i \in 1..n : x.audit[i].sequence \in 0..(x.next_script - 1) BY <1>1, <1>2
  <2> QED BY <2>2, <2>3
<1> QED BY <1>5, <1>6, <1>7

LEMMA OdInvImplies == OdInv => SessionAccounted
<1> SUFFICES ASSUME OdInv PROVE SessionAccounted OBVIOUS
<1>1. \A d \in Duels : DuelInv(duel[d]) /\ duel[d] \in DuelRecord BY DEF OdInv, DuelInv
<1>2. HandleOwned
  <2>1. ASSUME NEW d \in Duels
        PROVE  /\ duel[d].destroys <= 1
               /\ duel[d].native = "destroyed" <=> duel[d].destroys = 1
               /\ duel[d].state = "destroyed" =>
                    duel[d].native # "live" /\ duel[d].setcodes = {}
    BY <1>1 DEF DuelInv, Handle
  <2> QED BY <2>1 DEF HandleOwned, OdInv, Live
<1>3. ErrorsSurface BY <1>1 DEF ErrorsSurface, DuelInv, Errors
<1>4. LogsOnce BY <1>1, LogsNumbered DEF LogsOnce, DuelInv
<1>5. AuditComplete BY <1>1, AuditNumbered DEF AuditComplete, DuelInv
<1> QED BY <1>2, <1>3, <1>4, <1>5 DEF SessionAccounted

\* Whatever the native core calls back and in whatever order, in every state of
\* any number of duels: the library counts its live handles and each is
\* destroyed at most once, a callback error leaves no session usable, every log
\* is delivered in order, and every script number has one audit record.
THEOREM SessionSafety == OdSpec => []SessionAccounted
<1>1. OdSpec => []OdInv BY OdInitially, OdStep, PTL DEF OdSpec
<1> QED BY <1>1, OdInvImplies, PTL

-----------------------------------------------------------------------------
(* The bootstrap of the core. *)
\* A tree, a build product and the flags of a run.
TreeStates == {"absent", "broken", "locked"}
Builds == {"absent", "broken"} \cup Binaries
Flags == BOOLEAN

\* The install directory.
InstallRecord ==
  [source : TreeStates, sourcePartial : TreeStates, archive : TreeStates,
   download : TreeStates, premake : TreeStates, premakePartial : TreeStates,
   work : TreeStates, staged : Builds, build : TreeStates, runtime : Builds,
   manifest : Builds \cup {"source only"}, drive : {"free", "mapped"},
   assets : [Repos -> TreeStates], assetPartial : [Repos -> TreeStates],
   assetManifest : Flags]

\* The stages of a run: those that use the tools, those of a core run and of
\* an asset run, and its ends.
ToolStages == {"archive", "download", "tool", "extract", "workspace", "map",
               "compile", "stage", "build", "runtime"}
Resumable == {"source", "clone", "copy", "manifest"} \cup ToolStages
AssetStages == {"asset", "fetch", "asset manifest"}
Ends == {"idle", "done", "refused", "killed"}

\* A run.
RunRecord ==
  [at : Resumable \cup AssetStages \cup Ends, kind : {"core", "assets"},
   offline : Flags, only : Flags,
   next : 1..Len(Repositories), cloned : Flags, built : Binaries \cup {"none"},
   reason : {"none", "fault", "source mismatch", "offline", "in the way", "drive",
             "asset mismatch", "release refused"},
   last : Resumable \cup AssetStages \cup {"idle"}, had : Flags]

\* The types of the directory and the run.
CbTypeOK == disk \in InstallRecord /\ run \in RunRecord

\* What each stage of a run has found or made so far.
StagePlaces ==
  /\ run.at \in Resumable => run.kind = "core"
  /\ run.at \in AssetStages => run.kind = "assets"
  /\ run.at \in {"clone", "copy"} => disk.source = NoTree
  /\ run.at \in ToolStages \cup {"manifest"} => disk.source = "locked"
  /\ run.at \in ToolStages => ~run.only
  /\ run.at \in {"build", "runtime"} => run.built \in Binaries /\ disk.staged = run.built
  /\ run.at = "manifest" /\ ~run.only => run.built \in Binaries /\ disk.runtime = run.built

\* What blocks a later run goes back to a recorded cause.
CausesKnown ==
  /\ disk.source = "broken" => "source" \in causes
  /\ \A r \in Repos : disk.assets[r] = "broken" => "asset" \in causes

\* A core run that began on an installation that verified never clones,
\* and keeps that installation until it publishes a runtime.
InstallKept ==
  run.had /\ run.kind = "core" =>
    /\ run.at \notin {"clone", "copy"}
    /\ run.at \in {"source"} \cup ToolStages => VerifiesCore(disk)

\* The repositories before the one a run is at are locked.
AssetsReached ==
  /\ run.at \in {"asset", "fetch"} =>
       \A i \in 1..Len(Repositories) : i < run.next => disk.assets[Repositories[i]] = "locked"
  /\ run.at = "asset manifest" => \A r \in Repos : disk.assets[r] = "locked"

\* The inductive invariant: the four parts above make the stated ones
\* inductive.
BootstrapInv ==
  /\ CbTypeOK /\ StagePlaces /\ CausesKnown /\ InstallKept /\ AssetsReached
  /\ FinishedVerifies /\ BlockedOnlyByKnown /\ InstallSurvives /\ DriveReleased
  /\ FreeAfterCompile

\* The stages of a run under way, and the reasons it is refused for.
Working == Resumable \cup AssetStages
Reasons == {"none", "fault", "source mismatch", "offline", "in the way", "drive",
            "asset mismatch", "release refused"}

\* The run goes on or stops, the same run.
SameRun ==
  /\ run'.kind = run.kind /\ run'.built = run.built /\ run'.next = run.next
  /\ run'.offline <=> run.offline
  /\ run'.only <=> run.only
  /\ run'.had <=> run.had

\* A run for the source only goes straight to the manifest.
LEMMA AfterSourceCases ==
  /\ AfterSource \in {"manifest", "archive"}
  /\ AfterSource = "archive" => ~run.only
BY DEF AfterSource

\* A step of a run changes its stage and what it records, nothing else of it.
LEMMA SameRunFields ==
  ASSUME run \in RunRecord, NEW to, NEW reason, NEW last, NEW cloned, NEW built,
         \/ run' = [run EXCEPT !.at = to]
         \/ run' = [run EXCEPT !.at = to, !.cloned = cloned]
         \/ run' = [run EXCEPT !.at = to, !.reason = reason, !.last = last]
         \/ run' = [run EXCEPT !.last = last, !.at = to]
  PROVE  SameRun /\ run'.at = to
  <1>1. run'.kind = run.kind /\ run'.built = run.built /\ run'.next = run.next /\ run'.at = to
    BY DEF RunRecord
  <1>2. run'.offline = run.offline BY DEF RunRecord
  <1>3. run'.only = run.only BY DEF RunRecord
  <1>4. run'.had = run.had BY DEF RunRecord
  <1> QED BY <1>1, <1>2, <1>3, <1>4, Zenon DEF SameRun

\* What Goes does to a well-typed state.
LEMMA GoneOn ==
  ASSUME BootstrapInv, NEW from \in Working, NEW to \in Working, NEW d \in InstallRecord,
         Goes(from, to, d)
  PROVE  /\ CbTypeOK' /\ run'.at = to /\ run.at = from /\ disk' = d /\ causes' = causes
         /\ SameRun
  <1>1. disk' \in InstallRecord BY DEF Goes
  <1>2. run \in RunRecord /\ run' = [run EXCEPT !.at = to] /\ run.at = from /\ disk' = d
           /\ causes' = causes BY DEF Goes, BootstrapInv, CbTypeOK
  <1>3. to \in Resumable \cup AssetStages \cup Ends BY DEF Working
  <1>4. run' \in RunRecord BY <1>2, <1>3 DEF RunRecord
  <1> QED BY <1>1, <1>2, <1>4, SameRunFields DEF CbTypeOK

\* What RefuseRun does to a well-typed state.
LEMMA RefusedAt ==
  ASSUME BootstrapInv, NEW reason \in Reasons, NEW d \in InstallRecord, run.at \in Working,
         RefuseRun(reason, d)
  PROVE  /\ CbTypeOK' /\ run'.at = "refused" /\ disk' = d /\ run'.reason = reason
         /\ run'.last = run.at /\ SameRun
  <1>1. disk' \in InstallRecord /\ disk' = d BY DEF RefuseRun
  <1>2. run \in RunRecord /\ run' = [run EXCEPT !.at = "refused", !.reason = reason, !.last = run.at]
    BY DEF RefuseRun, BootstrapInv, CbTypeOK
  <1>3. PICK place \in Working : place = run.at OBVIOUS
  <1>4. run' = [run EXCEPT !.at = "refused", !.reason = reason, !.last = place]
    BY <1>2, <1>3
  <1>5. run' \in RunRecord /\ run'.reason = reason /\ run'.last = place
    BY <1>2, <1>3, <1>4 DEF RunRecord, Working, Ends, Reasons
  <1> QED
    <2>1. SameRun /\ run'.at = "refused" BY <1>2, SameRunFields
    <2> QED BY <1>1, <1>3, <1>5, <2>1 DEF CbTypeOK

\* A run that is refused keeps the invariant when it tears no tree that is in
\* use and its reason goes back to a cause.
LEMMA RefusedKeeps ==
  ASSUME BootstrapInv, NEW reason \in Reasons, NEW d \in InstallRecord, run.at \in Working,
         RefuseRun(reason, d), causes \subseteq causes',
         d.source = disk.source \/ (run.at = "copy" /\ (d.source = "broken" => "source" \in causes')),
         d.manifest = disk.manifest,
         d.assets = disk.assets,
         run.at # "runtime" => d.runtime = disk.runtime,
         d.drive = "mapped" => "drive" \in causes', d.drive = disk.drive \/ d.drive = "free",
         \/ run.offline
         \/ reason = "fault"
         \/ reason = "source mismatch" /\ disk.source = "broken"
         \/ reason = "drive" /\ "drive" \in causes
         \/ reason = "release refused" /\ run.at = "compile" /\ "drive" \in causes'
         \/ reason = "asset mismatch" /\ \E r \in Repos : disk.assets[r] = "broken"
  PROVE  BootstrapInv' /\ SourceKept
  <1>1. /\ CbTypeOK' /\ run'.at = "refused" /\ disk' = d /\ run'.reason = reason
        /\ run'.last = run.at /\ SameRun BY RefusedAt
  <1>2. StagePlaces' BY <1>1 DEF StagePlaces, Resumable, AssetStages, ToolStages
  <1>3. CausesKnown' BY <1>1 DEF CausesKnown, BootstrapInv
  <1>4. InstallKept' /\ AssetsReached' /\ FinishedVerifies'
    BY <1>1 DEF InstallKept, AssetsReached, FinishedVerifies, ToolStages
  <1>5. BlockedOnlyByKnown'
    BY <1>1 DEF BlockedOnlyByKnown, BootstrapInv, CausesKnown, SameRun
  <1>6. InstallSurvives'
    BY <1>1 DEF InstallSurvives, BootstrapInv, InstallKept, VerifiesCore, Working,
      Resumable, ToolStages, AssetStages, StagePlaces, SameRun
  <1>7. DriveReleased' BY <1>1 DEF DriveReleased
  <1>8. SourceKept BY <1>1 DEF SourceKept, BootstrapInv, StagePlaces, NoTree
  <1>9. FreeAfterCompile'
    BY <1>1 DEF FreeAfterCompile, PastCompile, BootstrapInv, SameRun, Working, Resumable,
      AssetStages, ToolStages
  <1> QED BY <1>1, <1>2, <1>3, <1>4, <1>5, <1>6, <1>7, <1>8, <1>9 DEF BootstrapInv

\* The run goes on to the next stage of the same command.
Continues(from, to, d) ==
  run.at = from /\ run'.at = to /\ disk' = d /\ causes' = causes /\ SameRun

\* A core run that goes from one stage to the next keeps the invariant when
\* the next stage finds what it relies on.
LEMMA ContinueKeeps ==
  ASSUME BootstrapInv, CbTypeOK', NEW from \in Resumable, NEW to \in Resumable, NEW d,
         Continues(from, to, d),
         d.source = disk.source \/ (from = "copy" /\ d.source = "locked"),
         d.manifest = disk.manifest, d.assets = disk.assets,
         d.runtime = disk.runtime \/ from = "runtime",
         (d.drive = disk.drive /\ from # "compile") \/ d.drive = "free" \/ to = "compile",
         to # "source", from # "manifest", from = "runtime" => to = "manifest",
         to \in {"clone", "copy"} => from \in {"source", "clone"} /\ d.source = NoTree,
         to \in ToolStages \cup {"manifest"} => d.source = "locked",
         to \in ToolStages => ~run.only,
         to # "build", to = "stage" => d.drive = "free",
         to = "runtime" => from = "build" /\ d.staged = disk.staged,
         to = "manifest" => run.only \/ (from = "runtime" /\ d.runtime = disk.staged)
  PROVE  BootstrapInv' /\ SourceKept
  <1>1. run.at = from /\ run'.at = to /\ disk' = d /\ causes' = causes /\ SameRun
    BY DEF Continues
  <1>2. StagePlaces'
    <2>1. run'.kind = "core" BY <1>1 DEF BootstrapInv, StagePlaces, SameRun
    <2>2. to \notin AssetStages BY DEF Resumable, AssetStages, ToolStages
    <2>3. to = "runtime" => run'.built \in Binaries /\ disk'.staged = run'.built
      BY <1>1 DEF BootstrapInv, StagePlaces, SameRun
    <2>4. to = "manifest" /\ ~run'.only => run'.built \in Binaries /\ disk'.runtime = run'.built
      BY <1>1 DEF BootstrapInv, StagePlaces, SameRun
    <2> QED BY <1>1, <2>1, <2>2, <2>3, <2>4 DEF StagePlaces, SameRun
  <1>3. CausesKnown' BY <1>1 DEF CausesKnown, BootstrapInv
  <1>4. InstallKept'
    <2>1. run.had /\ run.kind = "core" => VerifiesCore(disk) /\ from \notin {"clone", "copy"}
      BY <1>1 DEF InstallKept, BootstrapInv, Resumable, ToolStages
    <2>2. run.had /\ run.kind = "core" /\ from # "runtime" => VerifiesCore(disk')
      BY <1>1, <2>1 DEF VerifiesCore
    <2>3. run.had /\ run.kind = "core" => to \notin {"clone", "copy"}
      BY <1>1, <2>1 DEF VerifiesCore, NoTree
    <2>4. to \in {"source"} \cup ToolStages => from # "runtime" BY DEF ToolStages
    <2> QED BY <1>1, <2>2, <2>3, <2>4 DEF InstallKept, SameRun
  <1>5. AssetsReached' /\ FinishedVerifies' /\ BlockedOnlyByKnown'
    BY <1>1 DEF AssetsReached, FinishedVerifies, BlockedOnlyByKnown, Resumable,
      ToolStages
  <1>6. InstallSurvives'
    BY <1>1, <1>4 DEF InstallSurvives, InstallKept, Resumable, ToolStages
  <1>7. DriveReleased' BY <1>1 DEF DriveReleased, BootstrapInv
  <1>8. SourceKept BY <1>1 DEF SourceKept, BootstrapInv, StagePlaces, NoTree
  <1>9. FreeAfterCompile'
    <2>1. from = "build" \/ (from = "runtime" /\ ~run.only) => disk.drive = "free"
      BY <1>1 DEF BootstrapInv, FreeAfterCompile, PastCompile
    <2>2. from = "runtime" => run.kind = "core" /\ ~run.only
      BY <1>1 DEF BootstrapInv, StagePlaces, Resumable, ToolStages
    <2>3. to \notin {"refused", "killed", "done"} BY DEF Resumable, ToolStages
    <2> QED BY <1>1, <2>1, <2>2, <2>3 DEF FreeAfterCompile, PastCompile, SameRun
  <1> QED BY <1>1, <1>2, <1>3, <1>4, <1>5, <1>6, <1>7, <1>8, <1>9 DEF BootstrapInv

-----------------------------------------------------------------------------
(* The stages of the core's bootstrap. *)

\* A stage that fails, its cleanup included, keeps the invariant.
LEMMA FailKeeps ==
  ASSUME BootstrapInv, NEW from \in Working, NEW d \in InstallRecord, Fails(from, d),
         d.source = disk.source, d.manifest = disk.manifest, d.assets = disk.assets,
         from # "runtime" => d.runtime = disk.runtime,
         d.drive = disk.drive, from # "compile"
  PROVE  BootstrapInv' /\ SourceKept
  <1>1. run.at = from /\ RefuseRun("fault", d) /\ causes' = causes BY DEF Fails
  <1>2. d.drive = "mapped" => "drive" \in causes'
    BY <1>1 DEF BootstrapInv, DriveReleased
  <1>3. "fault" \in Reasons BY DEF Reasons
  <1> QED BY <1>1, <1>2, <1>3, RefusedKeeps

\* A stage that refuses what it finds keeps the invariant.
LEMMA RejectKeeps ==
  ASSUME BootstrapInv, NEW from \in Working, NEW reason \in Reasons, Rejects(from, reason),
         from # "compile",
         \/ run.offline
         \/ reason = "source mismatch" /\ disk.source = "broken"
         \/ reason = "asset mismatch" /\ \E r \in Repos : disk.assets[r] = "broken"
  PROVE  BootstrapInv' /\ SourceKept
  <1>1. run.at = from /\ RefuseRun(reason, disk) /\ causes' = causes /\ disk \in InstallRecord
    BY DEF Rejects, BootstrapInv, CbTypeOK
  <1>2. disk.drive = "mapped" => "drive" \in causes'
    BY <1>1 DEF BootstrapInv, DriveReleased
  <1> QED BY <1>1, <1>2, RefusedKeeps

\* ContinueKeeps for a stage that is Goes.
LEMMA GoKeeps ==
  ASSUME BootstrapInv, NEW from \in Resumable, NEW to \in Resumable, NEW d \in InstallRecord,
         Goes(from, to, d),
         d.source = disk.source \/ (from = "copy" /\ d.source = "locked"),
         d.manifest = disk.manifest, d.assets = disk.assets,
         d.runtime = disk.runtime \/ from = "runtime",
         (d.drive = disk.drive /\ from # "compile") \/ d.drive = "free" \/ to = "compile",
         to # "source", from # "manifest", from = "runtime" => to = "manifest",
         to \in {"clone", "copy"} => from \in {"source", "clone"} /\ d.source = NoTree,
         to \in ToolStages \cup {"manifest"} => d.source = "locked",
         to \in ToolStages => ~run.only,
         to # "build", to = "stage" => d.drive = "free",
         to = "runtime" => from = "build" /\ d.staged = disk.staged,
         to = "manifest" => run.only \/ (from = "runtime" /\ d.runtime = disk.staged)
  PROVE  BootstrapInv' /\ SourceKept
  <1>1. from \in Working /\ to \in Working BY DEF Working
  <1>2. CbTypeOK' /\ Continues(from, to, d) BY <1>1, GoneOn DEF Continues
  <1> QED BY <1>2, ContinueKeeps

\* Moves inside the build touch neither the source, the runtime nor the manifest.
ToolsOnly(d) ==
  /\ d.source = disk.source /\ d.manifest = disk.manifest /\ d.assets = disk.assets
  /\ d.runtime = disk.runtime /\ d.drive = disk.drive

\* A stage between the archive and the runtime that touches tool and build
\* trees only.
LEMMA ToolKeeps ==
  ASSUME BootstrapInv, NEW from \in ToolStages, NEW to \in ToolStages, NEW d \in InstallRecord,
         Goes(from, to, d), ToolsOnly(d), from \notin {"compile", "runtime"}, to \notin {"build", "stage"},
         to = "runtime" => from = "build" /\ d.staged = disk.staged
  PROVE  BootstrapInv' /\ SourceKept
  <1>1. from \in Resumable /\ to \in Resumable /\ to \notin {"source", "clone", "copy", "manifest"}
        /\ from # "manifest" /\ from # "copy" /\ from # "clone" /\ from # "source"
    BY DEF Resumable, ToolStages
  <1>2. d.source = "locked" /\ ~run.only
    BY DEF ToolsOnly, BootstrapInv, StagePlaces, Goes
  <1> QED BY <1>1, <1>2, GoKeeps DEF ToolsOnly

\* acquire_source keeps the invariant and a checkout it finds.
LEMMA AcquireSourceKeeps ==
  ASSUME BootstrapInv, AcquireSource
  PROVE  BootstrapInv' /\ SourceKept
  <1>t. disk \in InstallRecord /\ "source" \in Working /\ "source" \in Resumable
    BY DEF BootstrapInv, CbTypeOK, Working, Resumable
  <1>1. ASSUME disk.source = "locked", Goes("source", AfterSource, disk)
        PROVE  BootstrapInv' /\ SourceKept
    <2>1. AfterSource \in Resumable /\ AfterSource \notin {"source", "build", "stage", "compile", "runtime", "clone", "copy"}
      BY AfterSourceCases DEF Resumable, ToolStages
    <2>2. AfterSource \in ToolStages => ~run.only BY AfterSourceCases DEF ToolStages
    <2>3. AfterSource = "manifest" => run.only BY DEF AfterSource
    <2> QED BY <1>t, <1>1, <2>1, <2>2, <2>3, GoKeeps
  <1>2. ASSUME disk.source = "broken", run.at = "source",
               RefuseRun("source mismatch", disk), causes' = causes
        PROVE  BootstrapInv' /\ SourceKept
    <2>1. "source mismatch" \in Reasons BY DEF Reasons
    <2>2. Rejects("source", "source mismatch") BY <1>2 DEF Rejects
    <2> QED BY <1>t, <1>2, <2>1, <2>2, RejectKeeps
  <1>3. ASSUME run.offline, Rejects("source", "offline")
        PROVE  BootstrapInv' /\ SourceKept
    <2>1. "offline" \in Reasons BY DEF Reasons
    <2> QED BY <1>t, <1>3, <2>1, RejectKeeps
  <1>4. ASSUME disk.source = NoTree, Goes("source", "copy", disk)
        PROVE  BootstrapInv' /\ SourceKept
    <2>1. "copy" \in Resumable /\ "copy" \notin ToolStages BY DEF Resumable, ToolStages
    <2> QED BY <1>t, <1>4, <2>1, GoKeeps
  <1>5. ASSUME disk.source = NoTree,
               Goes("source", "clone", [disk EXCEPT !.sourcePartial = NoTree])
        PROVE  BootstrapInv' /\ SourceKept
    <2> DEFINE d == [disk EXCEPT !.sourcePartial = NoTree]
    <2>1. d \in InstallRecord /\ d.source = disk.source /\ d.manifest = disk.manifest
          /\ d.assets = disk.assets /\ d.runtime = disk.runtime /\ d.drive = disk.drive
      BY <1>t DEF InstallRecord, TreeStates, NoTree
    <2>2. "clone" \in Resumable /\ "clone" \notin ToolStages
      BY DEF Resumable, ToolStages
    <2>3. Goes("source", "clone", d) BY <1>5
    <2> HIDE DEF d
    <2> QED BY <1>t, <1>5, <2>1, <2>2, <2>3, GoKeeps
  <1> QED BY <1>1, <1>2, <1>3, <1>4, <1>5 DEF AcquireSource, OnMismatch

\* The clone of the source into its partial tree.
LEMMA CloneKeeps ==
  ASSUME BootstrapInv, Clone
  PROVE  BootstrapInv' /\ SourceKept
  <1>t. disk \in InstallRecord /\ run \in RunRecord /\ "clone" \in Working
    BY DEF BootstrapInv, CbTypeOK, Working, Resumable
  <1>1. ASSUME run.at = "clone", run' = [run EXCEPT !.at = "copy", !.cloned = TRUE],
               disk' = [disk EXCEPT !.sourcePartial = "locked"], causes' = causes
        PROVE  BootstrapInv' /\ SourceKept
    <2> DEFINE d == [disk EXCEPT !.sourcePartial = "locked"]
    <2>1. d \in InstallRecord /\ d.source = disk.source /\ d.manifest = disk.manifest
          /\ d.assets = disk.assets /\ d.runtime = disk.runtime /\ d.drive = disk.drive
      BY <1>t DEF InstallRecord, TreeStates
    <2>2. disk' = d BY <1>1
    <2> HIDE DEF d
    <2>3. SameRun /\ run'.at = "copy" BY <1>t, <1>1, SameRunFields
    <2>4. run' \in RunRecord BY <1>t, <1>1 DEF RunRecord, Resumable, Flags
    <2>5. CbTypeOK' /\ Continues("clone", "copy", d)
      BY <1>1, <2>1, <2>2, <2>3, <2>4 DEF CbTypeOK, Continues
    <2>6. "clone" \in Resumable /\ "copy" \in Resumable /\ "copy" \notin ToolStages
      BY DEF Resumable, ToolStages
    <2>7. d.source = NoTree BY <1>1, <2>1 DEF BootstrapInv, StagePlaces
    <2> QED BY <2>1, <2>5, <2>6, <2>7, ContinueKeeps
  <1>2. ASSUME NEW x \in Left, Fails("clone", [disk EXCEPT !.sourcePartial = x])
        PROVE  BootstrapInv' /\ SourceKept
    <2> DEFINE d == [disk EXCEPT !.sourcePartial = x]
    <2>1. d \in InstallRecord /\ d.source = disk.source /\ d.manifest = disk.manifest
          /\ d.assets = disk.assets /\ d.runtime = disk.runtime /\ d.drive = disk.drive
      BY <1>t DEF InstallRecord, TreeStates, Left
    <2>2. Fails("clone", d) BY <1>2
    <2> HIDE DEF d
    <2> QED BY <1>t, <2>1, <2>2, FailKeeps
  <1> QED BY <1>1, <1>2 DEF Clone

\* _finalize_source, whose failure may leave a source that blocks later runs.
LEMMA FinalizeSourceKeeps ==
  ASSUME BootstrapInv, FinalizeSource
  PROVE  BootstrapInv' /\ SourceKept
  <1>t. disk \in InstallRecord /\ "copy" \in Working /\ "copy" \in Resumable
    BY DEF BootstrapInv, CbTypeOK, Working, Resumable
  <1>1. ASSUME Goes("copy", AfterSource, [disk EXCEPT !.source = "locked", !.sourcePartial = NoTree])
        PROVE  BootstrapInv' /\ SourceKept
    <2> DEFINE d == [disk EXCEPT !.source = "locked", !.sourcePartial = NoTree]
    <2>0. d \in InstallRecord /\ d.source = "locked" /\ d.manifest = disk.manifest
          /\ d.assets = disk.assets /\ d.runtime = disk.runtime /\ d.drive = disk.drive
      BY <1>t DEF InstallRecord, TreeStates, NoTree
    <2>1. AfterSource \in Resumable /\ AfterSource \notin {"source", "build", "stage", "compile", "runtime", "clone", "copy"}
      BY AfterSourceCases DEF Resumable, ToolStages
    <2>2. AfterSource \in ToolStages => ~run.only BY AfterSourceCases DEF ToolStages
    <2>3. AfterSource = "manifest" => run.only BY DEF AfterSource
    <2>4. Goes("copy", AfterSource, d) BY <1>1
    <2> HIDE DEF d
    <2> QED BY <1>t, <2>0, <2>1, <2>2, <2>3, <2>4, GoKeeps
  <1>2. ASSUME NEW x \in Left, NEW y \in Left, run.at = "copy",
               RefuseRun("fault", [disk EXCEPT !.source = x,
                                  !.sourcePartial = IF run.cloned THEN y ELSE @]),
               causes' = IF x = "broken" THEN causes \cup {"source"} ELSE causes
        PROVE  BootstrapInv' /\ SourceKept
    <2> DEFINE z == IF run.cloned THEN y ELSE disk.sourcePartial
               d == [disk EXCEPT !.source = x, !.sourcePartial = z]
    <2>1. z \in TreeStates BY <1>t DEF InstallRecord, TreeStates, Left
    <2>2. RefuseRun("fault", d) BY <1>2
    <2> HIDE DEF z
    <2>3. d \in InstallRecord /\ d.source = x /\ d.manifest = disk.manifest
          /\ d.assets = disk.assets /\ d.runtime = disk.runtime /\ d.drive = disk.drive
      BY <1>t, <2>1 DEF InstallRecord, TreeStates, Left
    <2> HIDE DEF d
    <2>4. causes \subseteq causes' /\ (x = "broken" => "source" \in causes') BY <1>2
    <2>5. d.drive = "mapped" => "drive" \in causes'
      BY <1>2, <2>3, <2>4 DEF BootstrapInv, DriveReleased
    <2>6. "fault" \in Reasons BY DEF Reasons
    <2> QED BY <1>t, <1>2, <2>2, <2>3, <2>4, <2>5, <2>6, RefusedKeeps
  <1> QED BY <1>1, <1>2 DEF FinalizeSource

\* A tool stage that fails.
LEMMA ToolFailKeeps ==
  ASSUME BootstrapInv, NEW from \in ToolStages, NEW d \in InstallRecord, Fails(from, d),
         ToolsOnly(d), from # "compile"
  PROVE  BootstrapInv' /\ SourceKept
  <1>1. from \in Working BY DEF Working, Resumable
  <1> QED BY <1>1, FailKeeps DEF ToolsOnly

\* A tool stage that needs the network and has none.
LEMMA ToolRejectKeeps ==
  ASSUME BootstrapInv, NEW from \in ToolStages, Rejects(from, "offline"), run.offline,
         from # "compile"
  PROVE  BootstrapInv' /\ SourceKept
  <1>1. from \in Working /\ "offline" \in Reasons BY DEF Working, Resumable, Reasons
  <1> QED BY <1>1, RejectKeeps

\* The Premake archive, cached or downloaded.
LEMMA ArchiveKeeps ==
  ASSUME BootstrapInv, CachedArchive \/ Download
  PROVE  BootstrapInv' /\ SourceKept
  <1>t. disk \in InstallRecord /\ {"archive", "download", "tool"} \subseteq ToolStages
        /\ NoTree \in TreeStates /\ "locked" \in TreeStates /\ ToolsOnly(disk)
    BY DEF BootstrapInv, CbTypeOK, ToolStages, TreeStates, NoTree, ToolsOnly
  <1>1. CASE Goes("archive", "tool", disk) BY <1>1, <1>t, ToolKeeps
  <1>2. CASE run.offline /\ Rejects("archive", "offline")
    BY <1>2, <1>t, ToolRejectKeeps
  <1>3. ASSUME Goes("archive", "download", [disk EXCEPT !.archive = NoTree, !.download = NoTree])
        PROVE  BootstrapInv' /\ SourceKept
    <2> DEFINE d == [disk EXCEPT !.archive = NoTree, !.download = NoTree]
    <2>1. d \in InstallRecord /\ ToolsOnly(d) BY <1>t DEF ToolsOnly, InstallRecord
    <2>2. Goes("archive", "download", d) BY <1>3
    <2> HIDE DEF d
    <2> QED BY <1>t, <2>1, <2>2, ToolKeeps
  <1>4. ASSUME Goes("download", "tool", [disk EXCEPT !.archive = "locked", !.download = NoTree])
        PROVE  BootstrapInv' /\ SourceKept
    <2> DEFINE d == [disk EXCEPT !.archive = "locked", !.download = NoTree]
    <2>1. d \in InstallRecord /\ ToolsOnly(d) BY <1>t DEF ToolsOnly, InstallRecord
    <2>2. Goes("download", "tool", d) BY <1>4
    <2> HIDE DEF d
    <2> QED BY <1>t, <2>1, <2>2, ToolKeeps
  <1>5. ASSUME Fails("download", [disk EXCEPT !.download = NoTree])
        PROVE  BootstrapInv' /\ SourceKept
    <2> DEFINE d == [disk EXCEPT !.download = NoTree]
    <2>1. d \in InstallRecord /\ ToolsOnly(d) BY <1>t DEF ToolsOnly, InstallRecord
    <2>2. Fails("download", d) BY <1>5
    <2> HIDE DEF d
    <2> QED BY <1>t, <2>1, <2>2, ToolFailKeeps
  <1> QED BY <1>1, <1>2, <1>3, <1>4, <1>5 DEF CachedArchive, Download

\* The Premake tool, cached or extracted.
LEMMA ToolsKeep ==
  ASSUME BootstrapInv, CachedTool \/ Extract
  PROVE  BootstrapInv' /\ SourceKept
  <1>t. disk \in InstallRecord /\ {"tool", "extract", "workspace"} \subseteq ToolStages
        /\ NoTree \in TreeStates /\ "locked" \in TreeStates /\ ToolsOnly(disk) /\ Left \subseteq TreeStates
    BY DEF BootstrapInv, CbTypeOK, ToolStages, TreeStates, NoTree, ToolsOnly, Left
  <1>1. CASE Goes("tool", "workspace", disk) BY <1>1, <1>t, ToolKeeps
  <1>2. CASE run.offline /\ Rejects("tool", "offline") BY <1>2, <1>t, ToolRejectKeeps
  <1>3. ASSUME Goes("tool", "extract", [disk EXCEPT !.premakePartial = NoTree, !.premake = NoTree])
        PROVE  BootstrapInv' /\ SourceKept
    <2> DEFINE d == [disk EXCEPT !.premakePartial = NoTree, !.premake = NoTree]
    <2>1. d \in InstallRecord /\ ToolsOnly(d) BY <1>t DEF ToolsOnly, InstallRecord
    <2>2. Goes("tool", "extract", d) BY <1>3
    <2> HIDE DEF d
    <2> QED BY <1>t, <2>1, <2>2, ToolKeeps
  <1>4. ASSUME Goes("extract", "workspace", [disk EXCEPT !.premake = "locked", !.premakePartial = NoTree])
        PROVE  BootstrapInv' /\ SourceKept
    <2> DEFINE d == [disk EXCEPT !.premake = "locked", !.premakePartial = NoTree]
    <2>1. d \in InstallRecord /\ ToolsOnly(d) BY <1>t DEF ToolsOnly, InstallRecord
    <2>2. Goes("extract", "workspace", d) BY <1>4
    <2> HIDE DEF d
    <2> QED BY <1>t, <2>1, <2>2, ToolKeeps
  <1>5. ASSUME NEW x \in Left, Fails("extract", [disk EXCEPT !.premakePartial = x])
        PROVE  BootstrapInv' /\ SourceKept
    <2> DEFINE d == [disk EXCEPT !.premakePartial = x]
    <2>1. d \in InstallRecord /\ ToolsOnly(d) BY <1>t DEF ToolsOnly, InstallRecord
    <2>2. Fails("extract", d) BY <1>5
    <2> HIDE DEF d
    <2> QED BY <1>t, <2>1, <2>2, ToolFailKeeps
  <1> QED BY <1>1, <1>2, <1>3, <1>4, <1>5 DEF CachedTool, Extract

\* _prepare_build_workspace, over what an earlier run left.
LEMMA PrepareKeeps ==
  ASSUME BootstrapInv, PrepareWorkspace
  PROVE  BootstrapInv' /\ SourceKept
  <1>t. disk \in InstallRecord /\ {"workspace", "map"} \subseteq ToolStages
        /\ NoTree \in TreeStates /\ "locked" \in TreeStates /\ "broken" \in TreeStates /\ ToolsOnly(disk)
        /\ NoTree \in Builds
    BY DEF BootstrapInv, CbTypeOK, ToolStages, TreeStates, NoTree, ToolsOnly, Builds
  <1>1. CASE Fails("workspace", disk) BY <1>1, <1>t, ToolFailKeeps
  <1>2. ASSUME Fails("workspace", [disk EXCEPT !.work = "broken"])
        PROVE  BootstrapInv' /\ SourceKept
    <2> DEFINE d == [disk EXCEPT !.work = "broken"]
    <2>1. d \in InstallRecord /\ ToolsOnly(d) BY <1>t DEF ToolsOnly, InstallRecord
    <2>2. Fails("workspace", d) BY <1>2
    <2> HIDE DEF d
    <2> QED BY <1>t, <2>1, <2>2, ToolFailKeeps
  <1>3. ASSUME NEW c, c = ClearWorkspace(disk), run.at = "workspace",
               IF c.work = NoTree /\ c.staged = NoTree
               THEN Goes("workspace", "map", [c EXCEPT !.work = "locked"])
               ELSE RefuseRun("in the way", c) /\ UNCHANGED causes
        PROVE  BootstrapInv' /\ SourceKept
    <2>1. c \in InstallRecord /\ ToolsOnly(c) /\ c.work = NoTree /\ c.staged = NoTree
      BY <1>t, <1>3 DEF ToolsOnly, InstallRecord, ClearWorkspace
    <2> DEFINE d == [c EXCEPT !.work = "locked"]
    <2>2. d \in InstallRecord /\ ToolsOnly(d)
      BY <1>t, <2>1 DEF ToolsOnly, InstallRecord
    <2>3. Goes("workspace", "map", d) BY <1>3, <2>1
    <2> HIDE DEF d
    <2> QED BY <1>t, <2>2, <2>3, ToolKeeps
  <1> QED BY <1>1, <1>2, <1>3 DEF PrepareWorkspace

\* The cleanup of a build touches build trees only.
LEMMA CleanedTrees ==
  ASSUME NEW c \in InstallRecord, NEW d \in CleanedUp(c)
  PROVE  d \in InstallRecord /\ d.source = c.source /\ d.manifest = c.manifest
         /\ d.assets = c.assets /\ d.runtime = c.runtime /\ d.drive = c.drive
  <1>1. PICK x \in {NoTree, IF c.work = NoTree THEN NoTree ELSE "broken"},
             y \in {NoTree, IF c.staged = NoTree THEN NoTree ELSE "broken"} :
               d = [c EXCEPT !.work = x, !.staged = y] BY DEF CleanedUp
  <1>2. x \in TreeStates /\ y \in Builds BY DEF TreeStates, Builds, NoTree
  <1> QED BY <1>1, <1>2 DEF InstallRecord

\* The mapping of the build drive.
LEMMA MapKeeps ==
  ASSUME BootstrapInv, MapDrive
  PROVE  BootstrapInv' /\ SourceKept
  <1>t. disk \in InstallRecord /\ {"map", "compile"} \subseteq ToolStages /\ run.at = "map"
        /\ "map" \in Working
    BY DEF BootstrapInv, CbTypeOK, ToolStages, MapDrive, Working, Resumable
  <1>1. ASSUME Goes("map", "compile", [disk EXCEPT !.drive = "mapped"])
        PROVE  BootstrapInv' /\ SourceKept
    <2> DEFINE d == [disk EXCEPT !.drive = "mapped"]
    <2>1. d \in InstallRecord /\ d.source = disk.source /\ d.manifest = disk.manifest
          /\ d.assets = disk.assets /\ d.runtime = disk.runtime
      BY <1>t DEF InstallRecord
    <2>2. Goes("map", "compile", d) BY <1>1
    <2> HIDE DEF d
    <2>3. disk.source = "locked" /\ ~run.only BY <1>t DEF BootstrapInv, StagePlaces
    <2>4. "map" \in Resumable /\ "compile" \in Resumable BY DEF Resumable, ToolStages
    <2> QED BY <2>1, <2>2, <2>3, <2>4, GoKeeps
  <1>2. ASSUME NEW reason \in {"drive", "fault"}, NEW d \in CleanedUp(disk), UNCHANGED causes,
               RefuseRun(reason, d), reason = "drive" => disk.drive # "free"
        PROVE  BootstrapInv' /\ SourceKept
    <2>1. d \in InstallRecord /\ d.source = disk.source /\ d.manifest = disk.manifest
          /\ d.assets = disk.assets /\ d.runtime = disk.runtime /\ d.drive = disk.drive
      BY <1>t, CleanedTrees
    <2>2. disk.drive = "mapped" => "drive" \in causes
      BY <1>t DEF BootstrapInv, DriveReleased
    <2>3. disk.drive \in {"free", "mapped"} /\ reason \in Reasons
      BY <1>t DEF InstallRecord, Reasons
    <2> QED BY <1>t, <1>2, <2>1, <2>2, <2>3, RefusedKeeps
  <1> QED BY <1>1, <1>2 DEF MapDrive

\* The compilation: whatever its end, the drive is free or recorded as a
\* cause.
LEMMA CompileKeeps ==
  ASSUME BootstrapInv, Compile
  PROVE  BootstrapInv' /\ SourceKept
  <1>t. disk \in InstallRecord /\ {"stage", "compile"} \subseteq ToolStages
        /\ "compile" \in Working /\ {"fault", "release refused"} \subseteq Reasons
    BY DEF BootstrapInv, CbTypeOK, ToolStages, Working, Resumable, Reasons
  <1>1. ASSUME Goes("compile", "stage", [disk EXCEPT !.drive = "free"])
        PROVE  BootstrapInv' /\ SourceKept
    <2> DEFINE d == [disk EXCEPT !.drive = "free"]
    <2>1. d \in InstallRecord /\ d.source = disk.source /\ d.manifest = disk.manifest
          /\ d.assets = disk.assets /\ d.runtime = disk.runtime /\ d.drive = "free"
      BY <1>t DEF InstallRecord
    <2>2. Goes("compile", "stage", d) BY <1>1
    <2> HIDE DEF d
    <2>3. disk.source = "locked" /\ ~run.only
      BY <1>t, <2>2 DEF BootstrapInv, StagePlaces, Goes
    <2>4. "stage" \in Resumable /\ "compile" \in Resumable BY DEF Resumable, ToolStages
    <2> QED BY <2>1, <2>2, <2>3, <2>4, GoKeeps
  <1>2. ASSUME NEW c \in CleanedUp(disk), NEW d \in {c, ReleasedAfterFailure(c)},
               run.at = "compile", causes \subseteq causes', d = c => "drive" \in causes',
               NEW reason \in {"fault", "release refused"}, RefuseRun(reason, d),
               reason = "fault" \/ d = c
        PROVE  BootstrapInv' /\ SourceKept
    <2>1. c \in InstallRecord /\ c.source = disk.source /\ c.manifest = disk.manifest
          /\ c.assets = disk.assets /\ c.runtime = disk.runtime /\ c.drive = disk.drive
      BY <1>t, CleanedTrees
    <2>2. d \in InstallRecord /\ d.source = c.source /\ d.manifest = c.manifest
          /\ d.assets = c.assets /\ d.runtime = c.runtime /\ (d = c \/ d.drive = "free")
      BY <1>2, <2>1 DEF InstallRecord, ReleasedAfterFailure
    <2> QED BY <1>t, <1>2, <2>1, <2>2, RefusedKeeps
  <1>3. ASSUME NEW c \in CleanedUp(disk), run.at = "compile",
               RefuseRun("fault", ReleasedAfterFailure(c)), causes' = causes
        PROVE  BootstrapInv' /\ SourceKept
    <2>1. c \in InstallRecord BY <1>t, CleanedTrees
    <2>2. ReleasedAfterFailure(c) # c \/ c.drive = "free"
      BY <2>1 DEF ReleasedAfterFailure, InstallRecord
    <2>3. CASE ReleasedAfterFailure(c) # c BY <1>2, <1>3, <2>3
    <2>4. CASE ReleasedAfterFailure(c) = c /\ c.drive = "free"
      <3>1. c.source = disk.source /\ c.manifest = disk.manifest
            /\ c.assets = disk.assets /\ c.runtime = disk.runtime BY <1>t, CleanedTrees
      <3>2. RefuseRun("fault", c) BY <1>3, <2>4
      <3> QED BY <1>t, <1>3, <2>1, <2>4, <3>1, <3>2, RefusedKeeps
    <2> QED BY <2>2, <2>3, <2>4
  <1>4. ASSUME NEW c \in CleanedUp(disk), run.at = "compile",
               NEW reason \in {"fault", "release refused"}, RefuseRun(reason, c),
               causes' = causes \cup {"drive"}
        PROVE  BootstrapInv' /\ SourceKept BY <1>2, <1>4
  <1> QED BY <1>1, <1>3, <1>4 DEF Compile

\* The staging of the binary that was built.
LEMMA StageKeeps ==
  ASSUME BootstrapInv, Stage
  PROVE  BootstrapInv' /\ SourceKept
  <1>t. disk \in InstallRecord /\ run \in RunRecord /\ run.at = "stage" /\ "stage" \in Working
        /\ "fault" \in Reasons /\ run.kind = "core" /\ disk.source = "locked" /\ ~run.only
    BY DEF BootstrapInv, CbTypeOK, Working, Resumable, ToolStages, Reasons, Stage,
      StagePlaces
  <1>1. ASSUME NEW b \in Binaries, Staged(b)
        PROVE  BootstrapInv' /\ SourceKept
    <2>1. run' = [run EXCEPT !.at = "build", !.built = b] /\ disk' = [disk EXCEPT !.staged = b]
          /\ causes' = causes BY <1>1 DEF Staged
    <2>2. disk' \in InstallRecord /\ disk'.source = disk.source /\ disk'.manifest = disk.manifest
          /\ disk'.assets = disk.assets /\ disk'.runtime = disk.runtime
          /\ disk'.drive = disk.drive /\ disk'.staged = b
      BY <1>t, <2>1 DEF InstallRecord, Builds
    <2>3. run' \in RunRecord BY <1>t, <2>1 DEF RunRecord, Resumable, ToolStages
    <2>4. run'.at = "build" /\ run'.kind = "core" /\ run'.built = b
      BY <1>t, <2>1 DEF RunRecord
    <2>5. (run'.only <=> run.only) /\ (run'.had <=> run.had)
      <3>1. run'.only = run.only BY <1>t, <2>1 DEF RunRecord
      <3>2. run'.had = run.had BY <1>t, <2>1 DEF RunRecord
      <3> QED BY <3>1, <3>2
    <2>6. StagePlaces'
      BY <1>t, <2>2, <2>4, <2>5 DEF StagePlaces, ToolStages, AssetStages
    <2>11. FreeAfterCompile'
      BY <1>t, <2>2, <2>4 DEF BootstrapInv, FreeAfterCompile, PastCompile
    <2>7. CausesKnown' /\ DriveReleased'
      BY <1>t, <2>1, <2>2 DEF BootstrapInv, CausesKnown, DriveReleased
    <2>8. InstallKept'
      BY <1>t, <2>2, <2>4, <2>5 DEF InstallKept, BootstrapInv, VerifiesCore, ToolStages
    <2>9. InstallSurvives' BY <2>4, <2>8 DEF InstallKept, InstallSurvives, ToolStages
    <2>10. AssetsReached' /\ FinishedVerifies' /\ BlockedOnlyByKnown'
      BY <2>4 DEF AssetsReached, FinishedVerifies, BlockedOnlyByKnown
    <2> QED
      BY <2>2, <2>3, <2>6, <2>7, <2>8, <2>9, <2>10, <2>11 DEF BootstrapInv, CbTypeOK,
        SourceKept
  <1>2. ASSUME NEW c, c = [disk EXCEPT !.staged = "broken"], NEW d \in CleanedUp(c),
               RefuseRun("fault", d), UNCHANGED causes
        PROVE  BootstrapInv' /\ SourceKept
    <2>1. c \in InstallRecord /\ c.source = disk.source /\ c.manifest = disk.manifest
          /\ c.assets = disk.assets /\ c.runtime = disk.runtime /\ c.drive = disk.drive
      BY <1>t, <1>2 DEF InstallRecord, Builds
    <2>2. d \in InstallRecord /\ d.source = disk.source /\ d.manifest = disk.manifest
          /\ d.assets = disk.assets /\ d.runtime = disk.runtime /\ d.drive = disk.drive
      BY <2>1, CleanedTrees
    <2>3. disk.drive = "mapped" => "drive" \in causes'
      BY <1>t, <1>2 DEF BootstrapInv, DriveReleased
    <2> QED BY <1>t, <1>2, <2>2, <2>3, RefusedKeeps
  <1> QED BY <1>1, <1>2 DEF Stage

\* The publication of the build tree.
LEMMA PublishBuildKeeps ==
  ASSUME BootstrapInv, PublishBuild
  PROVE  BootstrapInv' /\ SourceKept
  <1>t. disk \in InstallRecord /\ {"build", "runtime"} \subseteq ToolStages
        /\ NoTree \in TreeStates /\ Left \subseteq TreeStates
    BY DEF BootstrapInv, CbTypeOK, ToolStages, TreeStates, NoTree, Left
  <1>1. ASSUME Goes("build", "runtime",
                    [disk EXCEPT !.build = PublishTree(@, disk.work), !.work = NoTree])
        PROVE  BootstrapInv' /\ SourceKept
    <2> DEFINE w == disk.work
               d == [disk EXCEPT !.build = w, !.work = NoTree]
    <2>1. w \in TreeStates BY <1>t DEF InstallRecord
    <2>2. Goes("build", "runtime", d) BY <1>1 DEF PublishTree
    <2> HIDE DEF w
    <2>3. d \in InstallRecord /\ ToolsOnly(d) /\ d.staged = disk.staged
      BY <1>t, <2>1 DEF ToolsOnly, InstallRecord
    <2> HIDE DEF d
    <2> QED BY <1>t, <2>2, <2>3, ToolKeeps
  <1>2. ASSUME NEW x \in Left, Fails("build", [disk EXCEPT !.build = x])
        PROVE  BootstrapInv' /\ SourceKept
    <2> DEFINE d == [disk EXCEPT !.build = x]
    <2>1. d \in InstallRecord /\ ToolsOnly(d) BY <1>t DEF ToolsOnly, InstallRecord
    <2>2. Fails("build", d) BY <1>2
    <2> HIDE DEF d
    <2> QED BY <1>t, <2>1, <2>2, ToolFailKeeps
  <1> QED BY <1>1, <1>2 DEF PublishBuild

\* The publication of the runtime.
LEMMA PublishRuntimeKeeps ==
  ASSUME BootstrapInv, PublishRuntime
  PROVE  BootstrapInv' /\ SourceKept
  <1>t. disk \in InstallRecord /\ {"runtime", "manifest"} \subseteq Resumable
        /\ NoTree \in Builds /\ Left \subseteq Builds /\ "runtime" \in Working
        /\ "runtime" \in ToolStages /\ "manifest" \notin ToolStages
    BY DEF BootstrapInv, CbTypeOK, ToolStages, Resumable, Builds, NoTree, Left, Working
  <1>1. ASSUME Goes("runtime", "manifest",
                    [disk EXCEPT !.runtime = PublishTree(@, disk.staged), !.staged = NoTree])
        PROVE  BootstrapInv' /\ SourceKept
    <2> DEFINE w == disk.staged
               d == [disk EXCEPT !.runtime = w, !.staged = NoTree]
    <2>1. w \in Builds BY <1>t DEF InstallRecord
    <2>2. Goes("runtime", "manifest", d) BY <1>1 DEF PublishTree
    <2> HIDE DEF w
    <2>3. d \in InstallRecord /\ d.source = disk.source /\ d.manifest = disk.manifest
          /\ d.assets = disk.assets /\ d.drive = disk.drive /\ d.runtime = w
      BY <1>t, <2>1 DEF InstallRecord
    <2> HIDE DEF d
    <2>4. d.runtime = disk.staged BY <2>3 DEF w
    <2>5. disk.source = "locked" BY <1>t, <2>2 DEF BootstrapInv, StagePlaces, Goes
    <2> QED BY <1>t, <2>2, <2>3, <2>4, <2>5, GoKeeps
  <1>2. ASSUME NEW x \in Left, Fails("runtime", [disk EXCEPT !.runtime = x])
        PROVE  BootstrapInv' /\ SourceKept
    <2> DEFINE d == [disk EXCEPT !.runtime = x]
    <2>1. d \in InstallRecord /\ d.source = disk.source /\ d.manifest = disk.manifest
          /\ d.assets = disk.assets /\ d.drive = disk.drive BY <1>t DEF InstallRecord
    <2>2. Fails("runtime", d) BY <1>2
    <2> HIDE DEF d
    <2> QED BY <1>t, <2>1, <2>2, FailKeeps
  <1> QED BY <1>1, <1>2 DEF PublishRuntime

\* The manifest is written last, so that a run that ends well verifies.
LEMMA WriteManifestKeeps ==
  ASSUME BootstrapInv, WriteManifest
  PROVE  BootstrapInv' /\ SourceKept
  <1>t. disk \in InstallRecord /\ run \in RunRecord /\ "manifest" \in Working
    BY DEF BootstrapInv, CbTypeOK, Working, Resumable
  <1>1. CASE Fails("manifest", disk) BY <1>1, <1>t, FailKeeps
  <1>2. ASSUME NEW w, w = (IF run.only THEN "source only" ELSE disk.runtime),
               Goes("manifest", "done", [disk EXCEPT !.manifest = w])
        PROVE  BootstrapInv' /\ SourceKept
    <2>1. run.at = "manifest" /\ run' = [run EXCEPT !.at = "done"] /\ causes' = causes
          /\ disk' = [disk EXCEPT !.manifest = w] BY <1>2 DEF Goes
    <2>2. w \in Builds \cup {"source only"} BY <1>t, <1>2 DEF InstallRecord
    <2>3. disk' \in InstallRecord /\ disk'.source = disk.source /\ disk'.manifest = w
          /\ disk'.assets = disk.assets /\ disk'.runtime = disk.runtime
          /\ disk'.drive = disk.drive BY <1>t, <2>1, <2>2 DEF InstallRecord
    <2>4. SameRun /\ run'.at = "done" BY <1>t, <2>1, SameRunFields
    <2>5. run' \in RunRecord BY <1>t, <2>1 DEF RunRecord, Ends
    <2>6. FinishedVerifies'
      <3>1. run.kind = "core" /\ disk.source = "locked"
            /\ (~run.only => run.built \in Binaries /\ disk.runtime = run.built)
        BY <2>1 DEF BootstrapInv, StagePlaces, Resumable
      <3> QED BY <1>2, <2>3, <2>4, <3>1 DEF FinishedVerifies, VerifiesCore, SameRun
    <2>7. StagePlaces' /\ InstallKept' /\ AssetsReached' /\ BlockedOnlyByKnown' /\ InstallSurvives'
      BY <2>4 DEF StagePlaces, InstallKept, AssetsReached, BlockedOnlyByKnown,
        InstallSurvives, Resumable, ToolStages, AssetStages
    <2>9. FreeAfterCompile'
      <3>1. run.kind = "core" /\ ~run.only => disk.drive = "free"
        BY <2>1 DEF BootstrapInv, FreeAfterCompile, PastCompile
      <3> QED BY <2>3, <2>4, <3>1 DEF FreeAfterCompile, PastCompile, SameRun
    <2>8. CausesKnown' /\ DriveReleased' /\ SourceKept
      BY <2>1, <2>3, <2>4 DEF BootstrapInv, CausesKnown, DriveReleased, SourceKept
    <2> QED BY <2>3, <2>5, <2>6, <2>7, <2>8, <2>9 DEF BootstrapInv, CbTypeOK
  <1> QED BY <1>1, <1>2 DEF WriteManifest

-----------------------------------------------------------------------------
(* The asset repositories. *)

\* The repository of the run is locked in d: it goes to the next one.
LEMMA NextRepoKeeps ==
  ASSUME BootstrapInv, run.at \in {"asset", "fetch"}, NEW d \in InstallRecord, NextRepo(d),
         d.source = disk.source, d.manifest = disk.manifest, d.drive = disk.drive,
         d.assets[Repo] = "locked",
         \A r \in Repos : d.assets[r] = disk.assets[r] \/ d.assets[r] = "locked"
  PROVE  BootstrapInv' /\ SourceKept
  <1>t. run \in RunRecord /\ run.next \in 1..Len(Repositories) /\ Len(Repositories) \in Nat
        /\ run.kind = "assets" /\ disk' = d /\ causes' = causes
    BY BootstrapAssumption DEF BootstrapInv, CbTypeOK, NextRepo, StagePlaces,
      AssetStages, RunRecord
  <1>r. \A i \in 1..Len(Repositories) : Repositories[i] \in Repos BY DEF Repos
  <1>1. \A i \in 1..Len(Repositories) : i <= run.next => d.assets[Repositories[i]] = "locked"
    <2> SUFFICES ASSUME NEW i \in 1..Len(Repositories), i <= run.next
                 PROVE  d.assets[Repositories[i]] = "locked" OBVIOUS
    <2>1. CASE i = run.next BY <2>1 DEF Repo
    <2>2. CASE i < run.next
      <3>1. disk.assets[Repositories[i]] = "locked"
        BY <2>2 DEF BootstrapInv, AssetsReached
      <3>2. Repositories[i] \in Repos BY <1>r
      <3> QED BY <3>1, <3>2
    <2> QED BY <1>t, <2>1, <2>2
  <1>2. CausesKnown' /\ SourceKept BY <1>t DEF BootstrapInv, CausesKnown, SourceKept
  <1>3. DriveReleased' BY <1>t DEF BootstrapInv, DriveReleased
  <1>4. CASE run.next = Len(Repositories) /\ run' = [run EXCEPT !.at = "asset manifest"]
    <2>1. run' \in RunRecord /\ run'.at = "asset manifest" /\ run'.kind = "assets"
      BY <1>t, <1>4 DEF RunRecord, AssetStages
    <2>2. \A r \in Repos : d.assets[r] = "locked"
      <3> SUFFICES ASSUME NEW r \in Repos
                   PROVE  d.assets[r] = "locked" OBVIOUS
      <3>1. PICK i \in 1..Len(Repositories) : r = Repositories[i] BY DEF Repos
      <3>2. i <= run.next
        <4>1. \A n \in Nat : \A j \in 1..n : j <= n OBVIOUS
        <4>2. Len(Repositories) \in Nat /\ run.next = Len(Repositories) BY <1>t, <1>4
        <4> QED BY <4>1, <4>2, Zenon
      <3> QED BY <1>1, <3>1, <3>2
    <2>3. StagePlaces' /\ InstallKept' /\ AssetsReached' /\ FinishedVerifies'
          /\ BlockedOnlyByKnown' /\ InstallSurvives' /\ FreeAfterCompile'
      BY <1>t, <2>1, <2>2 DEF StagePlaces, InstallKept, AssetsReached, FinishedVerifies,
        BlockedOnlyByKnown, InstallSurvives, FreeAfterCompile, PastCompile, Resumable,
        ToolStages, AssetStages
    <2> QED BY <1>t, <1>2, <1>3, <2>1, <2>3 DEF BootstrapInv, CbTypeOK
  <1>5. ASSUME run.next # Len(Repositories), NEW n, n = run.next + 1,
               run' = [run EXCEPT !.at = "asset", !.next = n]
        PROVE  BootstrapInv' /\ SourceKept
    <2>0. n \in 1..Len(Repositories) BY <1>t, <1>5
    <2>1. run' \in RunRecord /\ run'.at = "asset" /\ run'.kind = "assets" /\ run'.next = n
      BY <1>t, <1>5, <2>0 DEF RunRecord, AssetStages
    <2>2. \A i \in 1..Len(Repositories) : i < n => d.assets[Repositories[i]] = "locked"
      BY <1>t, <1>1, <1>5
    <2>3. StagePlaces' /\ InstallKept' /\ AssetsReached' /\ FinishedVerifies'
          /\ BlockedOnlyByKnown' /\ InstallSurvives' /\ FreeAfterCompile'
      BY <1>t, <2>1, <2>2 DEF StagePlaces, InstallKept, AssetsReached, FinishedVerifies,
        BlockedOnlyByKnown, InstallSurvives, FreeAfterCompile, PastCompile, Resumable,
        ToolStages, AssetStages
    <2> QED BY <1>t, <1>2, <1>3, <2>1, <2>3 DEF BootstrapInv, CbTypeOK
  <1> QED BY <1>4, <1>5 DEF NextRepo

\* acquire of one asset repository.
LEMMA AcquireAssetKeeps ==
  ASSUME BootstrapInv, AcquireAsset
  PROVE  BootstrapInv' /\ SourceKept
  <1>t. disk \in InstallRecord /\ run \in RunRecord /\ run.at = "asset" /\ "asset" \in Working
    BY DEF BootstrapInv, CbTypeOK, Working, AssetStages, AcquireAsset
  <1>r. Repo \in Repos BY <1>t DEF Repo, Repos, RunRecord
  <1>1. CASE disk.assets[Repo] = "locked" /\ NextRepo(disk)
    <2>1. \A r \in Repos : disk.assets[r] = disk.assets[r] OBVIOUS
    <2> QED BY <1>1, <1>t, NextRepoKeeps
  <1>2. CASE disk.assets[Repo] = "broken" /\ Rejects("asset", "asset mismatch")
    <2>1. "asset mismatch" \in Reasons BY DEF Reasons
    <2> QED BY <1>2, <1>t, <1>r, <2>1, RejectKeeps
  <1>3. CASE run.offline /\ Rejects("asset", "offline")
    <2>1. "offline" \in Reasons BY DEF Reasons
    <2> QED BY <1>3, <1>t, <2>1, RejectKeeps
  <1>4. ASSUME Goes("asset", "fetch", [disk EXCEPT !.assetPartial[Repo] = NoTree])
        PROVE  BootstrapInv' /\ SourceKept
    <2>1. PICK u : u = [disk.assetPartial EXCEPT ![Repo] = NoTree] OBVIOUS
    <2>2. disk' = [disk EXCEPT !.assetPartial = u] BY <1>4, <2>1 DEF Goes
    <2>3. u \in [Repos -> TreeStates]
      BY <1>t, <1>r, <2>1 DEF InstallRecord, TreeStates, NoTree
    <2>4. disk' \in InstallRecord /\ disk'.source = disk.source /\ disk'.manifest = disk.manifest
          /\ disk'.assets = disk.assets /\ disk'.drive = disk.drive
      BY <1>t, <2>2, <2>3 DEF InstallRecord
    <2>5. run' = [run EXCEPT !.at = "fetch"] /\ causes' = causes BY <1>4 DEF Goes
    <2>6. run' \in RunRecord BY <1>t, <2>5 DEF RunRecord, AssetStages
    <2>7. SameRun /\ run'.at = "fetch" BY <1>t, <2>5, SameRunFields
    <2>8. StagePlaces' /\ InstallKept' /\ FinishedVerifies' /\ BlockedOnlyByKnown' /\ InstallSurvives'
          /\ FreeAfterCompile'
      <3>1. run'.kind = "assets"
        BY <1>t, <2>7 DEF SameRun, BootstrapInv, StagePlaces, AssetStages
      <3> QED
        BY <2>7, <3>1 DEF StagePlaces, InstallKept, FinishedVerifies,
          BlockedOnlyByKnown, InstallSurvives, FreeAfterCompile, PastCompile,
          Resumable, ToolStages, AssetStages
    <2>9. AssetsReached' BY <1>t, <2>4, <2>7 DEF AssetsReached, BootstrapInv, SameRun
    <2>10. CausesKnown' /\ DriveReleased' /\ SourceKept
      BY <1>t, <2>4, <2>5 DEF BootstrapInv, CausesKnown, DriveReleased, SourceKept
    <2> QED BY <2>4, <2>6, <2>8, <2>9, <2>10 DEF BootstrapInv, CbTypeOK
  <1> QED BY <1>1, <1>2, <1>3, <1>4 DEF AcquireAsset

\* The fetch of one asset repository.
LEMMA FetchKeeps ==
  ASSUME BootstrapInv, Fetch
  PROVE  BootstrapInv' /\ SourceKept
  <1>t. disk \in InstallRecord /\ run \in RunRecord /\ run.at = "fetch" /\ "fetch" \in Working
    BY DEF BootstrapInv, CbTypeOK, Working, AssetStages, Fetch
  <1>r. Repo \in Repos /\ "locked" \in TreeStates /\ NoTree \in TreeStates
        /\ Left \subseteq TreeStates /\ disk.assets \in [Repos -> TreeStates]
        /\ disk.assetPartial \in [Repos -> TreeStates]
    BY <1>t DEF Repo, Repos, RunRecord, TreeStates, NoTree, Left, InstallRecord
  <1>1. ASSUME NextRepo([disk EXCEPT !.assets[Repo] = "locked", !.assetPartial[Repo] = NoTree])
        PROVE  BootstrapInv' /\ SourceKept
    <2>1. PICK u, w : u = [disk.assets EXCEPT ![Repo] = "locked"]
                      /\ w = [disk.assetPartial EXCEPT ![Repo] = NoTree] OBVIOUS
    <2> DEFINE d == [disk EXCEPT !.assets = u, !.assetPartial = w]
    <2>2. d = [disk EXCEPT !.assets[Repo] = "locked", !.assetPartial[Repo] = NoTree]
      BY <1>t, <2>1 DEF InstallRecord
    <2>3. u \in [Repos -> TreeStates] /\ w \in [Repos -> TreeStates] BY <1>r, <2>1
    <2>4. d \in InstallRecord /\ d.source = disk.source /\ d.manifest = disk.manifest
          /\ d.assets = u /\ d.drive = disk.drive BY <1>t, <2>3 DEF InstallRecord
    <2>5. NextRepo(d) BY <1>1, <2>2
    <2> HIDE DEF d
    <2>6. u[Repo] = "locked" /\ \A r \in Repos : u[r] = disk.assets[r] \/ u[r] = "locked"
      BY <1>r, <2>1
    <2>7. d.assets[Repo] = "locked"
          /\ \A r \in Repos : d.assets[r] = disk.assets[r] \/ d.assets[r] = "locked"
      BY <2>4, <2>6
    <2> QED BY <1>t, <2>4, <2>5, <2>7, NextRepoKeeps
  <1>2. ASSUME NEW x \in Left, Fails("fetch", [disk EXCEPT !.assetPartial[Repo] = x])
        PROVE  BootstrapInv' /\ SourceKept
    <2>1. PICK w : w = [disk.assetPartial EXCEPT ![Repo] = x] OBVIOUS
    <2> DEFINE d == [disk EXCEPT !.assetPartial = w]
    <2>2. d = [disk EXCEPT !.assetPartial[Repo] = x] BY <1>t, <2>1 DEF InstallRecord
    <2>3. w \in [Repos -> TreeStates] BY <1>r, <2>1
    <2>4. d \in InstallRecord /\ d.source = disk.source /\ d.manifest = disk.manifest
          /\ d.assets = disk.assets /\ d.drive = disk.drive /\ d.runtime = disk.runtime
      BY <1>t, <2>3 DEF InstallRecord
    <2>5. Fails("fetch", d) BY <1>2, <2>2
    <2> HIDE DEF d
    <2> QED BY <1>t, <2>4, <2>5, FailKeeps
  <1> QED BY <1>1, <1>2 DEF Fetch

\* The asset manifest is written when every repository is locked.
LEMMA WriteAssetManifestKeeps ==
  ASSUME BootstrapInv, WriteAssetManifest
  PROVE  BootstrapInv' /\ SourceKept
  <1>t. disk \in InstallRecord /\ run \in RunRecord /\ "asset manifest" \in Working
    BY DEF BootstrapInv, CbTypeOK, Working, AssetStages
  <1>1. CASE Fails("asset manifest", disk) BY <1>1, <1>t, FailKeeps
  <1>2. ASSUME Goes("asset manifest", "done", [disk EXCEPT !.assetManifest = TRUE])
        PROVE  BootstrapInv' /\ SourceKept
    <2>1. run.at = "asset manifest" /\ run' = [run EXCEPT !.at = "done"] /\ causes' = causes
          /\ disk' = [disk EXCEPT !.assetManifest = TRUE] BY <1>2 DEF Goes
    <2>2. disk' \in InstallRecord BY <1>t, <2>1 DEF InstallRecord, Flags
    <2>3. disk'.source = disk.source /\ disk'.assets = disk.assets /\ disk'.drive = disk.drive
      BY <1>t, <2>1 DEF InstallRecord
    <2>m. disk'.assetManifest BY <1>t, <2>1 DEF InstallRecord
    <2>4. SameRun /\ run'.at = "done" BY <1>t, <2>1, SameRunFields
    <2>5. run' \in RunRecord BY <1>t, <2>1 DEF RunRecord, Ends
    <2>6. FinishedVerifies'
      <3>1. run'.kind = "assets" /\ \A r \in Repos : disk.assets[r] = "locked"
        BY <2>1, <2>4 DEF BootstrapInv, StagePlaces, AssetStages, AssetsReached, SameRun
      <3>2. \A r \in Repos : disk'.assets[r] = "locked" BY <2>3, <3>1
      <3> QED BY <2>m, <3>1, <3>2 DEF FinishedVerifies, VerifiesAssets
    <2>7. StagePlaces' /\ InstallKept' /\ AssetsReached' /\ BlockedOnlyByKnown' /\ InstallSurvives'
      BY <2>4 DEF StagePlaces, InstallKept, AssetsReached, BlockedOnlyByKnown,
        InstallSurvives, Resumable, ToolStages, AssetStages
    <2>9. FreeAfterCompile'
      <3>1. run'.kind = "assets"
        BY <2>1, <2>4 DEF BootstrapInv, StagePlaces, AssetStages, SameRun
      <3> QED BY <2>4, <3>1 DEF FreeAfterCompile, PastCompile
    <2>8. CausesKnown' /\ DriveReleased' /\ SourceKept
      BY <2>1, <2>3, <2>4 DEF BootstrapInv, CausesKnown, DriveReleased, SourceKept
    <2> QED BY <2>2, <2>5, <2>6, <2>7, <2>8, <2>9 DEF BootstrapInv, CbTypeOK
  <1> QED BY <1>1, <1>2 DEF WriteAssetManifest

-----------------------------------------------------------------------------
(* Runs begin, are killed and are edited between. *)

\* A run begins on whatever the runs before it left.
LEMMA BeginKeeps ==
  ASSUME BootstrapInv, Begin
  PROVE  BootstrapInv' /\ SourceKept
  <1>1. PICK kind \in {"core", "assets"}, offline \in BOOLEAN, only \in BOOLEAN :
          run' = [at |-> IF kind = "core" THEN "source" ELSE "asset", kind |-> kind,
                  offline |-> offline, only |-> only, next |-> 1, cloned |-> FALSE,
                  built |-> "none", reason |-> "none", last |-> "idle",
                  had |-> IF kind = "core" THEN VerifiesCore(disk) ELSE VerifiesAssets(disk)]
    BY DEF Begin
  <1>2. disk' = disk /\ causes' = causes /\ disk \in InstallRecord
        /\ run.at \in {"idle", "done", "refused", "killed"}
    BY DEF Begin, Resting, BootstrapInv, CbTypeOK
  <1>3. PICK had \in BOOLEAN :
          /\ had = IF kind = "core" THEN VerifiesCore(disk) ELSE VerifiesAssets(disk)
    BY DEF VerifiesCore, VerifiesAssets
  <1>4. PICK at \in {"source", "asset"} :
          at = (IF kind = "core" THEN "source" ELSE "asset") OBVIOUS
  <1>5. run' = [at |-> at, kind |-> kind,
                offline |-> offline, only |-> only, next |-> 1, cloned |-> FALSE,
                built |-> "none", reason |-> "none", last |-> "idle", had |-> had]
    BY <1>1, <1>3, <1>4
  <1>6. 1 \in 1..Len(Repositories)
    <2>1. \A n \in Nat \ {0} : 1 \in 1..n OBVIOUS
    <2> QED BY <2>1, BootstrapAssumption, Zenon
  <1>7. run' \in RunRecord BY <1>5, <1>6 DEF RunRecord, Resumable, AssetStages, Flags
  <1>8. run'.at = at /\ run'.kind = kind /\ run'.next = 1 BY <1>5
  <1>9. run'.had <=> had BY <1>5
  <1>10. StagePlaces' BY <1>4, <1>8 DEF StagePlaces, Resumable, AssetStages, ToolStages
  <1>11. InstallKept' BY <1>2, <1>3, <1>8, <1>9, <1>4 DEF InstallKept
  <1>12. InstallSurvives' BY <1>2, <1>3, <1>8, <1>9, <1>4 DEF InstallSurvives
  <1>13. AssetsReached'
    <2>1. \A j \in 1..Len(Repositories) : ~(j < 1)
      <3>1. \A n \in Nat : \A j \in 1..n : ~(j < 1) OBVIOUS
      <3> QED BY <3>1, BootstrapAssumption, Zenon
    <2> QED BY <1>8, <2>1 DEF AssetsReached
  <1>14. FinishedVerifies' /\ BlockedOnlyByKnown'
    BY <1>8 DEF FinishedVerifies, BlockedOnlyByKnown
  <1>15. CausesKnown' /\ DriveReleased' /\ SourceKept
    BY <1>2 DEF BootstrapInv, CausesKnown, DriveReleased, SourceKept
  <1>16. FreeAfterCompile' BY <1>4, <1>8 DEF FreeAfterCompile, PastCompile
  <1> QED
    BY <1>2, <1>7, <1>10, <1>11, <1>12, <1>13, <1>14, <1>15, <1>16
    DEF BootstrapInv, CbTypeOK

\* A killed run tears the trees of its stage only: only a copy tears the
\* source, only the publication of a runtime tears the runtime.
LEMMA TornTrees ==
  ASSUME disk \in InstallRecord, run \in RunRecord, NEW d \in TornInstall
  PROVE  /\ d \in InstallRecord
         /\ d.source = disk.source \/ run.at = "copy"
         /\ d.manifest = disk.manifest /\ d.assets = disk.assets
         /\ d.runtime = disk.runtime \/ run.at = "runtime"
         /\ d.drive = disk.drive \/ d.drive = "free"
  <1>l. Left \subseteq TreeStates /\ Left \subseteq Builds /\ "locked" \in TreeStates
    BY DEF Left, TreeStates, Builds, NoTree
  <1>1. CASE run.at = "clone"
    <2>1. PICK x \in Left : d = [disk EXCEPT !.sourcePartial = x]
      BY <1>1 DEF TornInstall
    <2> QED BY <1>l, <2>1 DEF InstallRecord
  <1>2. CASE run.at = "copy"
    <2>1. PICK x \in Left \cup {"locked"} : d = [disk EXCEPT !.source = x]
      BY <1>2 DEF TornInstall
    <2> QED BY <1>l, <1>2, <2>1 DEF InstallRecord
  <1>3. CASE run.at = "download"
    <2>1. PICK x \in Left : d = [disk EXCEPT !.download = x] BY <1>3 DEF TornInstall
    <2> QED BY <1>l, <2>1 DEF InstallRecord
  <1>4. CASE run.at = "extract"
    <2>1. PICK x \in Left : d = [disk EXCEPT !.premakePartial = x]
      BY <1>4 DEF TornInstall
    <2> QED BY <1>l, <2>1 DEF InstallRecord
  <1>5. CASE run.at = "workspace"
    <2>1. PICK x \in Left : d = [disk EXCEPT !.work = x] BY <1>5 DEF TornInstall
    <2> QED BY <1>l, <2>1 DEF InstallRecord
  <1>6. CASE run.at = "compile"
    <2>1. d = disk \/ d = [disk EXCEPT !.drive = "free"] BY <1>6 DEF TornInstall
    <2> QED BY <2>1 DEF InstallRecord
  <1>7. CASE run.at = "stage"
    <2>1. PICK x \in Left : d = [disk EXCEPT !.staged = x] BY <1>7 DEF TornInstall
    <2> QED BY <1>l, <2>1 DEF InstallRecord
  <1>8. CASE run.at = "build"
    <2>1. PICK x \in Left : d = [disk EXCEPT !.build = x] BY <1>8 DEF TornInstall
    <2> QED BY <1>l, <2>1 DEF InstallRecord
  <1>9. CASE run.at = "runtime"
    <2>1. PICK x \in Left \cup {disk.runtime, disk.staged} : d = [disk EXCEPT !.runtime = x]
      BY <1>9 DEF TornInstall
    <2>2. x \in Builds BY <1>l, <2>1 DEF InstallRecord
    <2> QED BY <1>9, <2>1, <2>2 DEF InstallRecord
  <1>10. CASE run.at = "fetch"
    <2>1. PICK x \in Left : d = [disk EXCEPT !.assetPartial[Repo] = x]
      BY <1>10 DEF TornInstall
    <2>2. PICK w : w = [disk.assetPartial EXCEPT ![Repo] = x] OBVIOUS
    <2>3. Repo \in Repos BY DEF Repo, Repos, RunRecord
    <2>4. w \in [Repos -> TreeStates] BY <1>l, <2>2, <2>3 DEF InstallRecord
    <2>5. d = [disk EXCEPT !.assetPartial = w] BY <2>1, <2>2 DEF InstallRecord
    <2> QED BY <2>4, <2>5 DEF InstallRecord
  <1>11. CASE run.at \notin {"clone", "copy", "download", "extract", "workspace", "compile",
                             "stage", "build", "runtime", "fetch"}
    <2>1. d = disk BY <1>11 DEF TornInstall
    <2> QED BY <2>1
  <1> QED BY <1>1, <1>2, <1>3, <1>4, <1>5, <1>6, <1>7, <1>8, <1>9, <1>10, <1>11

\* A run that is killed at any stage.
LEMMA KillKeeps ==
  ASSUME BootstrapInv, Kill
  PROVE  BootstrapInv' /\ SourceKept
  <1>1. PICK d \in TornInstall : d = disk' BY DEF Kill
  <1>2. disk \in InstallRecord /\ run \in RunRecord BY DEF BootstrapInv, CbTypeOK
  <1>3. /\ d \in InstallRecord
        /\ d.source = disk.source \/ run.at = "copy"
        /\ d.manifest = disk.manifest /\ d.assets = disk.assets
        /\ d.runtime = disk.runtime \/ run.at = "runtime"
        /\ d.drive = disk.drive \/ d.drive = "free" BY <1>2, TornTrees
  <1>4. PICK place \in Working : place = run.at
    BY <1>2 DEF Kill, Resting, RunRecord, Working, Ends
  <1>5. run' = [run EXCEPT !.last = place, !.at = "killed"] BY <1>4 DEF Kill
  <1>6. run' \in RunRecord /\ run'.last = place
    BY <1>2, <1>5 DEF RunRecord, Working, Ends
  <1>7. SameRun /\ run'.at = "killed" BY <1>2, <1>5, SameRunFields
  <1>8. /\ causes \subseteq causes'
        /\ d.drive = "mapped" /\ run.at = "compile" => "drive" \in causes'
        /\ run.at = "copy" /\ d.source = "broken" => "source" \in causes'
    BY <1>1 DEF Kill
  <1>9. StagePlaces' /\ InstallKept' /\ AssetsReached' /\ FinishedVerifies' /\ BlockedOnlyByKnown'
    BY <1>7 DEF StagePlaces, InstallKept, AssetsReached, FinishedVerifies,
      BlockedOnlyByKnown, Resumable, ToolStages, AssetStages
  <1>10. CausesKnown' BY <1>1, <1>3, <1>8 DEF BootstrapInv, CausesKnown
  <1>11. InstallSurvives'
    <2>1. run.had /\ run.kind = "core" /\ run.at # "manifest" /\ run.at # "runtime"
            => VerifiesCore(disk) /\ run.at # "copy"
      BY <1>4 DEF BootstrapInv, InstallKept, StagePlaces, Working, Resumable,
        AssetStages, ToolStages
    <2>2. VerifiesCore(disk) /\ run.at # "copy" /\ run.at # "runtime" => VerifiesCore(disk')
      BY <1>1, <1>3 DEF VerifiesCore
    <2> QED BY <1>4, <1>6, <1>7, <2>1, <2>2 DEF InstallSurvives, SameRun
  <1>12. DriveReleased' BY <1>1, <1>3, <1>7, <1>8 DEF BootstrapInv, DriveReleased
  <1>14. FreeAfterCompile'
    BY <1>1, <1>3, <1>4, <1>6, <1>7 DEF BootstrapInv, FreeAfterCompile, PastCompile,
      SameRun, Working, Resumable, AssetStages, ToolStages
  <1>13. SourceKept BY <1>1, <1>3 DEF SourceKept, BootstrapInv, StagePlaces, NoTree
  <1> QED
    BY <1>1, <1>3, <1>6, <1>9, <1>10, <1>11, <1>12, <1>13, <1>14 DEF BootstrapInv, CbTypeOK

\* What an edit changes is known to the causes.
Edited ==
  /\ disk' \in InstallRecord /\ disk'.drive = disk.drive /\ causes \subseteq causes'
  /\ disk'.source = "broken" => "source" \in causes'
  /\ disk.source = "broken" => disk'.source = "broken"
  /\ \A r \in Repos : disk'.assets[r] = disk.assets[r] \/ "asset" \in causes'

\* A change of the directory between runs.
LEMMA EditKeeps ==
  ASSUME BootstrapInv, Edit
  PROVE  BootstrapInv' /\ SourceKept
  <1>1. disk \in InstallRecord /\ run \in RunRecord /\ run' = [run EXCEPT !.at = "idle"]
    BY DEF BootstrapInv, CbTypeOK, Edit
  <1>2. run' \in RunRecord /\ run'.at = "idle" BY <1>1 DEF RunRecord, Ends
  <1>r. run.at # "compile" BY DEF Edit, Resting
  <1>3. Edited
    <2>1. CASE disk.source = "locked" /\ disk' = [disk EXCEPT !.source = "broken"]
                 /\ causes' = causes \cup {"source"}
      <3>1. disk' \in InstallRecord /\ disk'.drive = disk.drive /\ disk'.assets = disk.assets
        BY <1>1, <2>1 DEF InstallRecord, TreeStates
      <3> QED BY <2>1, <3>1 DEF Edited
    <2>2. CASE disk' = [disk EXCEPT !.archive = "broken"] /\ causes' = causes
      <3>1. disk' \in InstallRecord /\ disk'.drive = disk.drive /\ disk'.assets = disk.assets
            /\ disk'.source = disk.source BY <1>1, <2>2 DEF InstallRecord, TreeStates
      <3> QED BY <2>2, <3>1 DEF BootstrapInv, CausesKnown, Edited
    <2>3. CASE disk' = [disk EXCEPT !.premake = "broken"] /\ causes' = causes
      <3>1. disk' \in InstallRecord /\ disk'.drive = disk.drive /\ disk'.assets = disk.assets
            /\ disk'.source = disk.source BY <1>1, <2>3 DEF InstallRecord, TreeStates
      <3> QED BY <2>3, <3>1 DEF BootstrapInv, CausesKnown, Edited
    <2>4. CASE disk' = [disk EXCEPT !.runtime = "broken"] /\ causes' = causes
      <3>1. disk' \in InstallRecord /\ disk'.drive = disk.drive /\ disk'.assets = disk.assets
            /\ disk'.source = disk.source BY <1>1, <2>4 DEF InstallRecord, Builds
      <3> QED BY <2>4, <3>1 DEF BootstrapInv, CausesKnown, Edited
    <2>5. ASSUME NEW r \in Repos, disk' = [disk EXCEPT !.assets[r] = "broken"],
                 causes' = causes \cup {"asset"}
          PROVE  Edited
      <3>1. PICK u : u = [disk.assets EXCEPT ![r] = "broken"] OBVIOUS
      <3>2. disk' = [disk EXCEPT !.assets = u] BY <1>1, <2>5, <3>1 DEF InstallRecord
      <3>3. u \in [Repos -> TreeStates]
        BY <1>1, <2>5, <3>1 DEF InstallRecord, TreeStates
      <3>4. disk' \in InstallRecord /\ disk'.drive = disk.drive /\ disk'.source = disk.source
        BY <1>1, <3>2, <3>3 DEF InstallRecord
      <3> QED BY <2>5, <3>4 DEF BootstrapInv, CausesKnown, Edited
    <2> QED BY <2>1, <2>2, <2>3, <2>4, <2>5 DEF Edit
  <1>4. StagePlaces' /\ InstallKept' /\ AssetsReached' /\ FinishedVerifies'
        /\ BlockedOnlyByKnown' /\ InstallSurvives' /\ FreeAfterCompile'
    BY <1>2 DEF StagePlaces, InstallKept, AssetsReached, FinishedVerifies,
      BlockedOnlyByKnown, InstallSurvives, FreeAfterCompile, PastCompile, Resumable,
      ToolStages, AssetStages
  <1>5. CausesKnown' /\ SourceKept
    BY <1>3 DEF BootstrapInv, CausesKnown, SourceKept, Edited
  <1>6. DriveReleased' BY <1>r, <1>3 DEF BootstrapInv, DriveReleased, Edited
  <1> QED BY <1>2, <1>3, <1>4, <1>5, <1>6 DEF BootstrapInv, CbTypeOK, Edited

\* The empty directory.
LEMMA BootstrapInitially == CbInit => BootstrapInv
  <1> SUFFICES ASSUME CbInit PROVE BootstrapInv OBVIOUS
  <1>1. disk \in InstallRecord
    BY DEF CbInit, InstallRecord, TreeStates, Builds, NoTree, Flags
  <1>2. 1 \in 1..Len(Repositories)
    <2>1. \A n \in Nat \ {0} : 1 \in 1..n OBVIOUS
    <2> QED BY <2>1, BootstrapAssumption, Zenon
  <1>3. run \in RunRecord BY <1>2 DEF CbInit, RunRecord, Ends, Flags
  <1>4. run.at = "idle" /\ disk.source = NoTree /\ disk.drive = "free"
        /\ \A r \in Repos : disk.assets[r] = NoTree BY DEF CbInit
  <1>5. StagePlaces /\ InstallKept /\ AssetsReached /\ FinishedVerifies
        /\ BlockedOnlyByKnown /\ InstallSurvives
    BY <1>4 DEF StagePlaces, InstallKept, AssetsReached, FinishedVerifies,
      BlockedOnlyByKnown, InstallSurvives, Resumable, ToolStages, AssetStages
  <1>6. CausesKnown /\ DriveReleased /\ FreeAfterCompile
    BY <1>4 DEF CausesKnown, DriveReleased, FreeAfterCompile, NoTree
  <1> QED BY <1>1, <1>3, <1>5, <1>6 DEF BootstrapInv, CbTypeOK

\* Every step keeps the invariant, and no step touches a source it finds
\* mismatched.
LEMMA BootstrapStep ==
  BootstrapInv /\ [CbNext]_cbVars => BootstrapInv' /\ (SourceKept \/ UNCHANGED cbVars)
  <1> SUFFICES ASSUME BootstrapInv, [CbNext]_cbVars
               PROVE  BootstrapInv' /\ (SourceKept \/ UNCHANGED cbVars) OBVIOUS
  <1>1. CASE CbNext
    BY <1>1, BeginKeeps, AcquireSourceKeeps, CloneKeeps, FinalizeSourceKeeps,
      ArchiveKeeps, ToolsKeep, PrepareKeeps, MapKeeps, CompileKeeps, StageKeeps,
      PublishBuildKeeps, PublishRuntimeKeeps, WriteManifestKeeps, AcquireAssetKeeps,
      FetchKeeps, WriteAssetManifestKeeps, KillKeeps, EditKeeps, Zenon DEF CbNext
  <1>2. CASE UNCHANGED cbVars
    <2>1. disk' = disk /\ run' = run /\ causes' = causes BY <1>2 DEF cbVars
    <2>2. CbTypeOK' /\ StagePlaces' /\ CausesKnown' /\ DriveReleased' /\ FreeAfterCompile'
      BY <2>1 DEF BootstrapInv, CbTypeOK, StagePlaces, CausesKnown, DriveReleased,
        FreeAfterCompile, PastCompile
    <2>3. InstallKept' /\ InstallSurvives'
      BY <2>1 DEF BootstrapInv, InstallKept, InstallSurvives, VerifiesCore
    <2>4. AssetsReached' /\ BlockedOnlyByKnown'
      BY <2>1 DEF BootstrapInv, AssetsReached, BlockedOnlyByKnown
    <2>5. FinishedVerifies'
      BY <2>1 DEF BootstrapInv, FinishedVerifies, VerifiesCore, VerifiesAssets
    <2> QED BY <1>2, <2>2, <2>3, <2>4, <2>5 DEF BootstrapInv
  <1> QED BY <1>1, <1>2

\* For any number of runs, edits, failures and kills: a run that returns verifies; what
\* blocks a later run is an edit, a source whose copy was cut off or a drive that a killed
\* build or a failed release left mapped; the drive is mapped only then and while a build
\* runs, and free in every run past its compilation; an installation that worked survives
\* until a run publishes its runtime; and no run touches a mismatched source.
THEOREM BootstrapSafety == CbSpec => BootstrapRecovers
  <1>1. CbInit => BootstrapInv BY BootstrapInitially
  <1>2. BootstrapInv /\ [CbNext]_cbVars => BootstrapInv' BY BootstrapStep
  <1>3. BootstrapInv /\ BootstrapInv' /\ [CbNext]_cbVars =>
          [/\ FinishedVerifies' /\ BlockedOnlyByKnown' /\ InstallSurvives' /\ DriveReleased'
           /\ FreeAfterCompile' /\ SourceKept]_cbVars BY BootstrapStep DEF BootstrapInv
  <1> QED BY <1>1, <1>2, <1>3, PTL DEF CbSpec, BootstrapRecovers

(* InterruptionFrontier: what the search was offered at a request of the core, and the
   trace rebuilt from the finished Route. First, lists: a prefix is a sequence of
   whatever it holds. *)
IsList(s) == s \in Seq({s[i] : i \in DOMAIN s})

LEMMA ListLength == ASSUME NEW s, IsList(s) PROVE Len(s) \in Nat /\ DOMAIN s = 1..Len(s)
BY DEF IsList

LEMMA ListIs == ASSUME NEW s, IsList(s) PROVE Len(s) \in Nat /\ s = [n \in 1..Len(s) |-> s[n]]
BY DEF IsList

LEMMA NoElements == ASSUME NEW S PROVE <<>> \in Seq(S)
OBVIOUS

LEMMA EmptyList == IsList(<<>>) /\ Len(<<>>) = 0
<1>1. <<>> \in Seq({<<>>[i] : i \in DOMAIN <<>>}) OBVIOUS
<1> QED BY <1>1 DEF IsList

LEMMA AppendList ==
  ASSUME NEW s, IsList(s), NEW e
  PROVE  /\ IsList(Append(s, e)) /\ Len(Append(s, e)) = Len(s) + 1
         /\ Append(s, e)[Len(s) + 1] = e /\ Append(s, e) # <<>>
         /\ \A i \in 1..Len(s) : Append(s, e)[i] = s[i]
<1> DEFINE S == {s[i] : i \in DOMAIN s} \cup {e}
           t == Append(s, e)
<1>1. s \in Seq(S)
  <2>1. Len(s) \in Nat /\ s \in [1..Len(s) -> {s[i] : i \in DOMAIN s}] BY DEF IsList
  <2> QED BY <2>1
<1>2. t \in Seq(S) /\ Len(t) = Len(s) + 1 /\ t[Len(s) + 1] = e /\ \A i \in 1..Len(s) : t[i] = s[i]
  <2> e \in S OBVIOUS
  <2> HIDE DEF S
  <2> QED BY <1>1
<1>3. IsList(t)
  <2>1. Len(t) \in Nat /\ t \in [1..Len(t) -> S] /\ DOMAIN t = 1..Len(t)
    <3> HIDE DEF S, t
    <3> QED BY <1>2
  <2> HIDE DEF t, S
  <2>2. t \in [1..Len(t) -> {t[i] : i \in DOMAIN t}] BY <2>1
  <2> QED BY <2>1, <2>2 DEF IsList
<1>4. t # <<>>
  <2>1. Len(s) \in Nat BY DEF IsList
  <2>2. Len(t) # 0 BY <1>2, <2>1
  <2> HIDE DEF t
  <2> QED BY <2>2
<1> QED BY <1>2, <1>3, <1>4
LEMMA FunctionList ==
  ASSUME NEW n \in Nat, NEW T, NEW t \in [1..n -> T]
  PROVE  t \in Seq(T) /\ Len(t) = n
OBVIOUS

LEMMA ReplaceList ==
  ASSUME NEW s, IsList(s), NEW k \in 1..Len(s), NEW e
  PROVE  IsList([s EXCEPT ![k] = e]) /\ Len([s EXCEPT ![k] = e]) = Len(s)
<1> DEFINE S == {s[i] : i \in DOMAIN s} \cup {e}
           t == [s EXCEPT ![k] = e]
<1>1. s \in Seq(S) /\ Len(s) \in Nat /\ DOMAIN s = 1..Len(s)
  <2> DEFINE T == {s[i] : i \in DOMAIN s}
  <2>1. s \in Seq(T) /\ T \subseteq S BY DEF IsList
  <2> HIDE DEF S, T
  <2> QED BY <2>1
<1>2. e \in S OBVIOUS
<1> HIDE DEF S
<1>3. t \in [1..Len(s) -> S] /\ DOMAIN t = 1..Len(s) BY <1>1, <1>2
<1> HIDE DEF t
<1>4. t \in [1..Len(s) -> {t[i] : i \in DOMAIN t}] BY <1>3
<1>5. IsList(t) /\ Len(t) = Len(s)
  <2> DEFINE T == {t[i] : i \in DOMAIN t}
  <2>1. PICK n \in Nat : n = Len(s) BY <1>1
  <2>2. t \in [1..n -> T] /\ DOMAIN t = 1..n BY <1>3, <1>4, <2>1
  <2> HIDE DEF T
  <2>3. t \in Seq(T) /\ Len(t) = n BY <2>2, FunctionList
  <2> QED BY <2>1, <2>3 DEF T, IsList
<1> QED BY <1>5 DEF t

LEMMA LastOfList ==
  ASSUME NEW s, IsList(s), s # <<>>
  PROVE  Len(s) \in 1..Len(s) /\ DOMAIN s = 1..Len(s) /\ Len(s) \in Nat \ {0}
<1>1. Len(s) \in Nat /\ Len(s) # 0 /\ DOMAIN s = 1..Len(s) BY ListLength DEF IsList
<1> QED BY <1>1

LEMMA EarlierPart ==
  ASSUME NEW p, IsList(p), NEW a
  PROVE  /\ \A i \in 1..Len(p) : SubSeq(Append(p, a), 1, i - 1) = SubSeq(p, 1, i - 1)
         /\ SubSeq(Append(p, a), 1, Len(p)) = p
<1> DEFINE q == Append(p, a)
<1>1. IsList(q) /\ Len(q) = Len(p) + 1 /\ \A i \in 1..Len(p) : q[i] = p[i] BY AppendList
<1>2. Len(p) \in Nat /\ p = [j \in 1..Len(p) |-> p[j]] BY DEF IsList
<1> HIDE DEF q
<1>3. ASSUME NEW n \in 0..Len(p) PROVE SubSeq(q, 1, n) = [j \in 1..n |-> p[j]]
  <2>1. SubSeq(q, 1, n) = [j \in 1..(1 + n - 1) |-> q[j + 1 - 1]] OBVIOUS
  <2>2. \A j \in 1..(1 + n - 1) : j + 1 - 1 = j /\ j \in 1..Len(p) /\ q[j + 1 - 1] = p[j]
    BY <1>1, <1>2
  <2>3. 1..(1 + n - 1) = 1..n BY <1>2
  <2> QED BY <2>1, <2>2, <2>3
<1>4. ASSUME NEW n \in 0..Len(p) PROVE SubSeq(p, 1, n) = [j \in 1..n |-> p[j]]
  <2>1. SubSeq(p, 1, n) = [j \in 1..(1 + n - 1) |-> p[j + 1 - 1]] OBVIOUS
  <2>2. \A j \in 1..(1 + n - 1) : j + 1 - 1 = j BY <1>2
  <2>3. 1..(1 + n - 1) = 1..n BY <1>2
  <2> QED BY <2>1, <2>2, <2>3
<1>5. \A i \in 1..Len(p) : i - 1 \in 0..Len(p) BY <1>2
<1>6. \A i \in 1..Len(p) : SubSeq(q, 1, i - 1) = SubSeq(p, 1, i - 1)
  <2> TAKE i \in 1..Len(p)
  <2>1. SubSeq(q, 1, i - 1) = [j \in 1..i - 1 |-> p[j]] BY <1>3, <1>5
  <2>2. SubSeq(p, 1, i - 1) = [j \in 1..i - 1 |-> p[j]] BY <1>4, <1>5
  <2> QED BY <2>1, <2>2
<1>7. SubSeq(q, 1, Len(p)) = p BY <1>2, <1>3
<1> QED BY <1>6, <1>7 DEF q

Hits(defs, a, id) == a.kind = "activate_effect" /\ Resolve(defs, a.cand.ref).ids = {id}
LEMMA ActivationsGrow ==
  ASSUME NEW p, IsList(p), NEW a, NEW defs, NEW id
  PROVE  /\ a.kind = "activate_effect" =>
              Activations(Append(p, a)) = Activations(p) \cup {Len(p) + 1}
         /\ a.kind # "activate_effect" => Activations(Append(p, a)) = Activations(p)
         /\ Hits(defs, a, id) =>
              ActivationsOf(defs, Append(p, a), id) = ActivationsOf(defs, p, id) \cup {Len(p) + 1}
         /\ ~ Hits(defs, a, id) =>
              ActivationsOf(defs, Append(p, a), id) = ActivationsOf(defs, p, id)
<1> DEFINE q == Append(p, a)
<1>1. Len(q) = Len(p) + 1 /\ q[Len(p) + 1] = a /\ \A i \in 1..Len(p) : q[i] = p[i] BY AppendList
<1>2. Len(p) \in Nat BY ListLength
<1> HIDE DEF q
<1>3. Activations(q) = Activations(p) \cup (IF a.kind = "activate_effect" THEN {Len(p) + 1} ELSE {})
  BY <1>1, <1>2 DEF Activations
<1>4. \A i \in Activations(p) : i \in 1..Len(p) /\ RefAt(q, i) = RefAt(p, i)
  BY <1>1 DEF Activations, RefAt
<1>5. RefAt(q, Len(p) + 1) = a.cand.ref BY <1>1 DEF RefAt
<1>6. Hits(defs, a, id) => ActivationsOf(defs, q, id) = ActivationsOf(defs, p, id) \cup {Len(p) + 1}
  BY <1>3, <1>4, <1>5 DEF ActivationsOf, Hits
<1>7. ~ Hits(defs, a, id) => ActivationsOf(defs, q, id) = ActivationsOf(defs, p, id)
  BY <1>3, <1>4, <1>5 DEF ActivationsOf, Hits
<1> QED BY <1>3, <1>6, <1>7 DEF q

\* How often a definition was activated.
LEMMA CountGrows ==
  ASSUME NEW p, IsList(p), NEW a, NEW defs, NEW id
  PROVE  /\ Count(defs, p, id) \in Nat
         /\ Hits(defs, a, id) => Count(defs, Append(p, a), id) = Count(defs, p, id) + 1
         /\ ~ Hits(defs, a, id) => Count(defs, Append(p, a), id) = Count(defs, p, id)
<1> DEFINE S == ActivationsOf(defs, p, id)
           T == ActivationsOf(defs, Append(p, a), id)
<1>1. Len(p) \in Nat BY ListLength
<1>2. S \subseteq 1..Len(p) BY DEF ActivationsOf, Activations
<1>3. IsFiniteSet(S) /\ Cardinality(S) \in Nat
  <2>1. IsFiniteSet(1..Len(p)) BY <1>1, FS_Interval
  <2> HIDE DEF S
  <2>2. IsFiniteSet(S) BY <1>2, <2>1, FS_Subset
  <2> QED BY <2>2, FS_CardinalityType
<1>4. Len(p) + 1 \notin S BY <1>1, <1>2
<1>5. Cardinality(S \cup {Len(p) + 1}) = Cardinality(S) + 1
  <2> HIDE DEF S
  <2> QED BY <1>3, <1>4, FS_AddElement
<1>6. /\ Hits(defs, a, id) => T = S \cup {Len(p) + 1}
      /\ ~ Hits(defs, a, id) => T = S BY ActivationsGrow
<1>7. Count(defs, p, id) = Cardinality(S) /\ Count(defs, Append(p, a), id) = Cardinality(T)
  BY DEF Count
<1> HIDE DEF S, T
<1> QED BY <1>3, <1>5, <1>6, <1>7

(* The inductive invariant. i is the position of an activation in the prefix, k its
   record in the history of the search. *)
CodeAt(p, i) == RefAt(p, i).code
Window(r) == r.type \in {"select_chain", "select_idle_cmd"}
Asking == request # NoRequest /\ ~ Window(request)
Waiting == IF Asking THEN 1 ELSE 0

OpportunityAt(defs, p, i, id) ==
  LET before == SubSeq(p, 1, i - 1)
  IN Opportunity(id, Count(defs, before, id) + 1, p[i].sig, p[i].cand, ActionIds(before))

(* What the search was offered for the activation it chose. *)
OffersAt(defs, p, i) ==
  IF FromIdle(p, i) THEN {}
  ELSE {OpportunityAt(defs, p, i, id) : id \in Matches(defs, RefAt(p, i))}

\* Each activation of the prefix was chosen at a request that offers some,
\* and one definition matches it unless a main-phase request offered it.
ActivationsKnown ==
  \A i \in Activations(prefix) :
    /\ CodeAt(prefix, i) \in DOMAIN Asks
    /\ prefix[i].sig[1] \in {"select_chain", "select_idle_cmd"}
    /\ FromIdle(prefix, i) \/ \E id : Matches(definitions, RefAt(prefix, i)) = {id}

\* A pending request has its frontier, and no activation's requests are left
\* when a window opens.
RequestShape ==
  /\ request # NoRequest => frontier = FrontierDocument(definitions, request, prefix)
  /\ (request # NoRequest /\ Window(request)) =>
        /\ asks = <<>> /\ request.role = ""
        /\ \A c \in request.cands : c.ref.code \in DOMAIN Asks
  /\ taken = <<>> => asks = <<>> /\ ~ Asking

(* The replies are the actions after the activation. *)
Follows(p, i, replies) ==
  /\ IsList(replies) /\ i + Len(replies) <= Len(p)
  /\ \A n \in 1..Len(replies) : replies[n] = p[i + n]

(* Of the last activation: what the core still asks is what is left. *)
StillAsked(i, replies) ==
  LET all == Asks[CodeAt(prefix, i)]
  IN /\ \A j \in Activations(prefix) : j <= i
     /\ Len(replies) + Waiting + Len(asks) = Len(all)
     /\ \A n \in 1..Len(asks) : asks[n] = all[Len(replies) + Waiting + n]
     /\ Asking => request.role = all[Len(replies) + 1].role
     /\ (Asking \/ asks # <<>>) => i + Len(replies) = Len(prefix)

\* Entry k of the history is about activation i.
Paired(i, k) ==
  /\ taken[k].offers = OffersAt(definitions, prefix, i)
  /\ Follows(prefix, i, taken[k].replies)
  /\ IF k = Len(taken) THEN StillAsked(i, taken[k].replies)
     ELSE Len(taken[k].replies) = Len(Asks[CodeAt(prefix, i)])

HistoryPaired ==
  /\ \A k \in 1..Len(taken) : \E i \in Activations(prefix) : Paired(i, k)
  /\ \A i \in Activations(prefix) : \E k \in 1..Len(taken) : Paired(i, k)

OffersExact ==
  \A o \in frontier.opportunities : Matches(definitions, o.cand.ref) = {o.definition}

AskedRequests == UNION {{Asks[code][n] : n \in DOMAIN Asks[code]} : code \in DOMAIN Asks}

ListsInv ==
  /\ definitions \in Interruptions /\ Valid(definitions)
  /\ IsList(prefix) /\ IsList(taken) /\ asks \in Seq(AskedRequests)
  /\ \A k \in 1..Len(taken) : "replies" \in DOMAIN taken[k]

(* The inductive invariant.  The trace knows the prefix only; HistoryPaired *)
(* connects each of its activations with what was offered then, and with  *)
(* the replies that came since.                                            *)
OffersInv ==
  /\ ListsInv /\ RequestShape /\ ActivationsKnown
  /\ LimitsKept /\ OffersExact /\ TaxonomyMatchesOffers
  /\ HistoryPaired

(* Frontiers. *)
LEMMA Resolved1 ==
  ASSUME NEW defs, NEW ref, NEW id, Matches(defs, ref) = {id}
  PROVE  Resolve(defs, ref) = [code |-> "ok", ids |-> {id}]
<1>1. Cardinality({id}) = 1 BY FS_Singleton
<1>2. ~ (1 > 1) OBVIOUS
<1>3. ~ (Cardinality(Matches(defs, ref)) > 1) BY <1>1, <1>2
<1> QED BY <1>3 DEF Resolve

LEMMA ResolvedIds ==
  ASSUME NEW defs, NEW ref, NEW id
  PROVE  Resolve(defs, ref).ids = {id} <=> Matches(defs, ref) = {id}
<1>1. CASE Matches(defs, ref) = {id}
  <2>1. Resolve(defs, ref) = [code |-> "ok", ids |-> {id}] BY <1>1, Resolved1
  <2> QED BY <1>1, <2>1
<1>2. CASE Matches(defs, ref) # {id}
  <2>1. Resolve(defs, ref).ids \in {{}, Matches(defs, ref)} BY DEF Resolve
  <2> QED BY <1>2, <2>1
<1> QED BY <1>1, <1>2

LEMMA ResolvedCode ==
  ASSUME NEW defs, NEW ref, Resolve(defs, ref).code = "ok"
  PROVE  Resolve(defs, ref).ids = Matches(defs, ref)
BY DEF Resolve

LEMMA TakeFields ==
  ASSUME NEW r, NEW c
  PROVE  /\ Take(r, c).kind = "activate_effect" /\ Take(r, c).cand = c
         /\ Take(r, c).sig = Signature(r) /\ Take(r, c).sig[1] = r.type
         /\ Reply(r, c).kind = "select" /\ Pass(r).kind = "pass"
BY DEF Take, Reply, Pass, Signature

\* The fields of a frontier document.
LEMMA PublishedCode ==
  ASSUME NEW a, NEW b, NEW c, NEW d PROVE Published(a, b, c, d).code = "ok"
BY DEF Published

LEMMA FailedCode ==
  ASSUME NEW a, NEW b PROVE FrontierFailed(a, b).code = a
BY DEF FrontierFailed

LEMMA FailedOffers ==
  ASSUME NEW a, NEW b PROVE FrontierFailed(a, b).opportunities = {}
BY DEF FrontierFailed

LEMMA FailedSupported ==
  ASSUME NEW a, NEW b PROVE FrontierFailed(a, b).supported = {}
BY DEF FrontierFailed

\* What a chain window publishes.
LEMMA ChainPublished ==
  ASSUME NEW defs, NEW r, NEW p, r.type = "select_chain", NEW f,
         f = FrontierDocument(defs, r, p)
  PROVE  /\ f.code = "ok" =>
              /\ f.opportunities = Opportunities(defs, r, p)
              /\ \A a \in f.actions :
                   a = Pass(r) \/ \E o \in f.opportunities : a = Take(r, o.cand)
              /\ f.role = ""
         /\ f.opportunities \subseteq Opportunities(defs, r, p)
         /\ f.supported = {<<o.definition, o.cand>> : o \in f.opportunities}
<1> DEFINE opps == Opportunities(defs, r, p)
           offered(id) == {o.cand : o \in {q \in opps : q.definition = id}}
           outcome(i) == ClassifyCandidates(r, defs[i], "activation", offered(defs[i].id))
           asked == {i \in 1..Len(defs) : offered(defs[i].id) # {}}
           bad == {i \in asked : outcome(i).status # "supported"}
           first == CHOOSE i \in bad : \A k \in bad : i <= k
           kept == UNION {{<<defs[i].id, c>> : c \in outcome(i).ids} : i \in asked}
           acts == {Pass(r)} \cup {Take(r, o.cand) : o \in opps}
<1>1. f = IF r.forced THEN FrontierFailed("shared_pass_shape_mismatch", TRUE)
          ELSE IF CountError(defs, p) # "ok"
          THEN FrontierFailed(CountError(defs, p), CountError(defs, p) = "activation_limit_exceeded")
          ELSE IF \E c \in r.cands : Resolve(defs, c.ref).code # "ok"
          THEN FrontierFailed("ambiguous_definition_match", FALSE)
          ELSE IF bad # {}
          THEN FrontierFailed("unsupported_activation_taxonomy", outcome(first).status = "path_failure")
          ELSE Published(acts, opps, kept, "") BY DEF FrontierDocument, ChainFrontier
<1>2. bad = {} => kept = {<<o.definition, o.cand>> : o \in opps}
  <2> SUFFICES ASSUME bad = {} PROVE kept = {<<o.definition, o.cand>> : o \in opps} OBVIOUS
  <2>1. ASSUME NEW i \in asked PROVE outcome(i).ids = offered(defs[i].id)
    <3> DEFINE E == offered(defs[i].id)
    <3>1. ClassifyCandidates(r, defs[i], "activation", E).status = "supported" /\ E # {}
      BY <2>1
    <3> HIDE DEF offered
    <3> HIDE DEF E
    <3>2. ClassifyCandidates(r, defs[i], "activation", E).ids = E
      BY <3>1 DEF ClassifyCandidates, Outcome
    <3> QED BY <3>2 DEF E
  <2>2. \A o \in opps : \E i \in 1..Len(defs) : o.definition = defs[i].id
    BY DEF Opportunities, Opportunity, DefinitionIds
  <2>3. \A o \in opps : \E i \in asked : o.definition = defs[i].id /\ o.cand \in offered(defs[i].id)
    BY <2>2
  <2>4. \A i \in asked : \A c \in offered(defs[i].id) : \E o \in opps : o.definition = defs[i].id /\ o.cand = c
    OBVIOUS
  <2> HIDE DEF opps, outcome, asked, offered
  <2>5. \A x \in kept : x \in {<<o.definition, o.cand>> : o \in opps} BY <2>1, <2>4
  <2>6. \A o \in opps : <<o.definition, o.cand>> \in kept BY <2>1, <2>3
  <2> QED BY <2>5, <2>6
<1>0. opps = Opportunities(defs, r, p) /\ acts = {Pass(r)} \cup {Take(r, o.cand) : o \in opps}
  OBVIOUS
<1> HIDE DEF opps, bad, kept, outcome, first, acts
<1>3. CASE f.code = "ok"
  <2>1. bad = {} /\ f = Published(acts, opps, kept, "")
    <3>1. ~ r.forced
      <4>1. FrontierFailed("shared_pass_shape_mismatch", TRUE).code # "ok" BY FailedCode
      <4> QED BY <1>1, <1>3, <4>1
    <3>2. CountError(defs, p) = "ok"
      <4> SUFFICES ASSUME CountError(defs, p) # "ok" PROVE FALSE OBVIOUS
      <4> DEFINE code == CountError(defs, p)
                 limit == code = "activation_limit_exceeded"
      <4>1. f = FrontierFailed(code, limit) BY <1>1, <3>1
      <4>2. FrontierFailed(code, limit).code = code BY FailedCode
      <4> QED BY <1>3, <4>1, <4>2
    <3>3. ~ \E c \in r.cands : Resolve(defs, c.ref).code # "ok"
      <4>1. FrontierFailed("ambiguous_definition_match", FALSE).code # "ok" BY FailedCode
      <4> QED BY <1>1, <1>3, <3>1, <3>2, <4>1
    <3>4. bad = {}
      <4>1. \A x : FrontierFailed("unsupported_activation_taxonomy", x).code # "ok"
        BY FailedCode
      <4> QED BY <1>1, <1>3, <3>1, <3>2, <3>3, <4>1
    <3> QED BY <1>1, <3>1, <3>2, <3>3, <3>4
  <2>2. f.opportunities = opps
    <3>1. Published(acts, opps, kept, "").opportunities = opps BY DEF Published
    <3> QED BY <2>1, <3>1
  <2>3. f.supported = kept
    <3>1. Published(acts, opps, kept, "").supported = kept BY DEF Published
    <3> QED BY <2>1, <3>1
  <2>4. f.role = ""
    <3>1. Published(acts, opps, kept, "").role = "" BY DEF Published
    <3> QED BY <2>1, <3>1
  <2>5. f.actions = acts
    <3>1. Published(acts, opps, kept, "").actions = acts BY DEF Published
    <3> QED BY <2>1, <3>1
  <2> QED BY <1>0, <1>2, <2>1, <2>2, <2>3, <2>4, <2>5
<1>4. CASE f.code # "ok"
  <2>1. f # Published(acts, opps, kept, "") BY <1>4, PublishedCode
  <2>2. \/ f = FrontierFailed("shared_pass_shape_mismatch", TRUE)
        \/ f = FrontierFailed(CountError(defs, p), CountError(defs, p) = "activation_limit_exceeded")
        \/ f = FrontierFailed("ambiguous_definition_match", FALSE)
        \/ f = FrontierFailed("unsupported_activation_taxonomy", outcome(first).status = "path_failure")
    BY <1>1, <2>1
  <2>3. PICK x, y : f = FrontierFailed(x, y) BY <2>2
  <2>4. f.opportunities = {} /\ f.supported = {} BY <2>3, FailedOffers, FailedSupported
  <2> QED BY <1>4, <2>4
<1> QED BY <1>3, <1>4

LEMMA ChainActions ==
  ASSUME NEW defs, NEW r, NEW p, r.type = "select_chain", NEW f,
         f = FrontierDocument(defs, r, p), f.code = "ok", NEW a \in f.actions
  PROVE  a = Pass(r) \/ \E o \in f.opportunities : a = Take(r, o.cand)
<1> DEFINE opps == Opportunities(defs, r, p)
           acts == {Pass(r)} \cup {Take(r, o.cand) : o \in opps}
<1>1. \/ \E x, y : x # "ok" /\ f = FrontierFailed(x, y)
      \/ \E s : f = Published(acts, opps, s, "") BY DEF FrontierDocument, ChainFrontier
<1>2. \A x, y : FrontierFailed(x, y).code = x BY FailedCode
<1> HIDE DEF opps, acts
<1>3. PICK s : f = Published(acts, opps, s, "")
  <2>1. ~ \E x, y : x # "ok" /\ f = FrontierFailed(x, y) BY <1>2
  <2> QED BY <1>1, <2>1
<1>4. Published(acts, opps, s, "").actions = acts BY DEF Published
<1>5. Published(acts, opps, s, "").opportunities = opps BY DEF Published
<1>6. f.actions = acts /\ f.opportunities = opps BY <1>3, <1>4, <1>5
<1>7. a \in acts BY <1>6
<1> QED BY <1>6, <1>7 DEF acts

LEMMA OtherPublished ==
  ASSUME NEW defs, NEW r, NEW p, r.type # "select_chain", NEW f,
         f = FrontierDocument(defs, r, p)
  PROVE  f.opportunities = {} /\ f.supported = {}
BY DEF FrontierDocument, OtherFrontier, FrontierFailed, Published

LEMMA OtherActions ==
  ASSUME NEW defs, NEW r, NEW p, r.type # "select_chain", NEW f,
         f = FrontierDocument(defs, r, p), f.code = "ok", NEW a \in f.actions
  PROVE  \/ r.type = "select_idle_cmd" /\ (a = Pass(r) \/ \E c \in r.cands : a = Take(r, c))
         \/ r.type # "select_idle_cmd" /\ \E c \in r.cands : a = Reply(r, c)
BY DEF FrontierDocument, OtherFrontier, FrontierFailed, Published

\* The role bound to a request after an activation that resolved.
RoleAt(defs, p, i, id) ==
  IF Len(p) - i >= Len(Definition(defs, id).roles) THEN ""
  ELSE Definition(defs, id).roles[Len(p) - i + 1]

LEMMA RoleBound ==
  ASSUME NEW defs, NEW r, NEW p, IsList(p), r.type # "select_chain", NEW f,
         f = FrontierDocument(defs, r, p), f.code = "ok",
         NEW i \in Activations(p), \A j \in Activations(p) : j <= i,
         NEW id, Matches(defs, RefAt(p, i)) = {id}
  PROVE  f.role = RoleAt(defs, p, i, id)
<1> DEFINE matched == {j \in Activations(p) : Matches(defs, RefAt(p, j)) # {}}
           at == CHOOSE j \in matched : \A k \in matched : k <= j
           d(x) == Definition(defs, CHOOSE y \in Resolve(defs, RefAt(p, x)).ids : TRUE)
<1>1. i \in matched /\ \A k \in matched : k \in Int /\ k <= i
  BY ListLength DEF Activations
<1>2. at = i
  <2>1. at \in matched /\ \A k \in matched : k <= at BY <1>1
  <2> QED BY <1>1, <2>1
<1>3. Resolve(defs, RefAt(p, i)) = [code |-> "ok", ids |-> {id}] BY Resolved1
<1>4. d(i) = Definition(defs, id)
  <2>1. (CHOOSE y \in {id} : TRUE) = id OBVIOUS
  <2> QED BY <1>3, <2>1
<1> DEFINE D == d(at)
           role == D.roles[ResponseIndex(p, at) + 1]
           status == ClassifyCandidates(r, D, role, {}).status
           acts == IF r.type = "select_idle_cmd"
                   THEN {Take(r, c) : c \in r.cands} \cup {Pass(r)}
                   ELSE {Reply(r, c) : c \in r.cands}
<1>5. f = IF matched # {} /\ Resolve(defs, RefAt(p, at)).code # "ok"
          THEN FrontierFailed("ambiguous_definition_match", FALSE)
          ELSE IF matched = {} \/ ResponseIndex(p, at) >= Len(D.roles)
          THEN Published(acts, {}, {}, "")
          ELSE IF status = "supported"
          THEN Published(acts, {}, {}, role)
          ELSE FrontierFailed("unsupported_response_taxonomy", status = "path_failure")
  BY DEF FrontierDocument, OtherFrontier
<1>6. matched # {} BY <1>1
<1> HIDE DEF matched, at, status, acts, d
<1>7. ResponseIndex(p, at) = Len(p) - i /\ D = Definition(defs, id)
  BY <1>2, <1>4 DEF ResponseIndex
<1> HIDE DEF D
<1>8. f.role = IF ResponseIndex(p, at) >= Len(D.roles) THEN "" ELSE role
  <2>1. Resolve(defs, RefAt(p, at)).code = "ok" BY <1>2, <1>3
  <2>2. CASE ResponseIndex(p, at) >= Len(D.roles)
    <3>1. f = Published(acts, {}, {}, "") BY <1>5, <1>6, <2>1, <2>2
    <3>2. Published(acts, {}, {}, "").role = "" BY DEF Published
    <3> QED BY <2>2, <3>1, <3>2
  <2>3. CASE ~ (ResponseIndex(p, at) >= Len(D.roles))
    <3>1. status = "supported"
      <4>1. \A x : FrontierFailed("unsupported_response_taxonomy", x).code # "ok"
        BY FailedCode
      <4> QED BY <1>5, <1>6, <2>1, <2>3, <4>1
    <3> HIDE DEF role
    <3>2. f = Published(acts, {}, {}, role) BY <1>5, <1>6, <2>1, <2>3, <3>1
    <3>3. Published(acts, {}, {}, role).role = role BY DEF Published
    <3> QED BY <2>3, <3>2, <3>3
  <2> QED BY <2>2, <2>3
<1> QED BY <1>7, <1>8 DEF RoleAt

(* The requests of the core. *)
LEMMA AskedTypes ==
  \A q \in AskedRequests : q.type \notin {"none", "select_chain", "select_idle_cmd"}
<1> SUFFICES ASSUME NEW code \in DOMAIN Asks, NEW n \in DOMAIN Asks[code]
             PROVE  Asks[code][n].type \notin {"none", "select_chain", "select_idle_cmd"}
  BY DEF AskedRequests
<1>1. Asks[code] \in Seq({Asks[code][m] : m \in DOMAIN Asks[code]}) BY CoreAssumption
<1>2. DOMAIN Asks[code] = 1..Len(Asks[code]) BY <1>1
<1> QED BY <1>2, CoreAssumption

LEMMA AskLists ==
  ASSUME NEW code \in DOMAIN Asks
  PROVE  Asks[code] \in Seq(AskedRequests) /\ Len(Asks[code]) \in Nat
<1>1. Asks[code] \in Seq({Asks[code][n] : n \in DOMAIN Asks[code]}) BY CoreAssumption
<1>2. {Asks[code][n] : n \in DOMAIN Asks[code]} \subseteq AskedRequests BY DEF AskedRequests
<1> DEFINE T == {Asks[code][n] : n \in DOMAIN Asks[code]}
<1> HIDE DEF T
<1>3. Asks[code] \in Seq(T) /\ T \subseteq AskedRequests BY <1>1, <1>2 DEF T
<1> QED BY <1>3

LEMMA NextAsk ==
  ASSUME NEW s \in Seq(AskedRequests), s # <<>>
  PROVE  /\ Tail(s) \in Seq(AskedRequests) /\ Len(s) \in Nat \ {0} /\ Len(Tail(s)) = Len(s) - 1
         /\ \A n \in 1..Len(Tail(s)) : Tail(s)[n] = s[n + 1]
         /\ Head(s) = s[1] /\ Head(s) \in AskedRequests
OBVIOUS

\* The request presented by a window, and by an activation under way.
LEMMA WindowPresented ==
  ASSUME OffersInv, CoreChain \/ CoreIdle
  PROVE  /\ request = NoRequest /\ asks = <<>> /\ asks' = <<>>
         /\ request' # NoRequest /\ Window(request') /\ request'.role = ""
         /\ \A c \in request'.cands : c.ref.code \in DOMAIN Asks
         /\ Present(request')
<1>1. CASE CoreChain
  <2>1. PICK w \in ChainWindows :
          /\ Ready /\ asks = <<>> /\ UNCHANGED asks
          /\ Present([NoRequest EXCEPT !.type = "select_chain", !.cands = w.cands,
                                       !.forced = w.forced, !.markers = w.markers])
    BY <1>1 DEF CoreChain
  <2>2. request' = [NoRequest EXCEPT !.type = "select_chain", !.cands = w.cands,
                                     !.forced = w.forced, !.markers = w.markers]
    BY <2>1 DEF Present
  <2>3. /\ request'.type = "select_chain" /\ request'.role = "" /\ request'.cands = w.cands
        /\ request' # NoRequest BY <2>2 DEF NoRequest
  <2>4. \A c \in w.cands : c.ref.code \in DOMAIN Asks
    <3>1. w.cands \in {v.cands : v \in ChainWindows} \cup IdleWindows OBVIOUS
    <3> QED BY <3>1, CoreAssumption
  <2>5. Present(request') BY <2>1, <2>2
  <2> QED BY <2>1, <2>3, <2>4, <2>5 DEF Ready, Window
<1>2. CASE CoreIdle
  <2>1. PICK cs \in IdleWindows :
          /\ Ready /\ asks = <<>> /\ UNCHANGED asks
          /\ Present([NoRequest EXCEPT !.type = "select_idle_cmd", !.cands = cs])
    BY <1>2 DEF CoreIdle
  <2>2. request' = [NoRequest EXCEPT !.type = "select_idle_cmd", !.cands = cs]
    BY <2>1 DEF Present
  <2>3. /\ request'.type = "select_idle_cmd" /\ request'.role = "" /\ request'.cands = cs
        /\ request' # NoRequest BY <2>2 DEF NoRequest
  <2>4. \A c \in cs : c.ref.code \in DOMAIN Asks
    <3>1. cs \in {v.cands : v \in ChainWindows} \cup IdleWindows OBVIOUS
    <3> QED BY <3>1, CoreAssumption
  <2>5. Present(request') BY <2>1, <2>2
  <2> QED BY <2>1, <2>3, <2>4, <2>5 DEF Ready, Window
<1> QED BY <1>1, <1>2

LEMMA AskPresented ==
  ASSUME OffersInv, CoreAsk
  PROVE  /\ request = NoRequest /\ asks # <<>> /\ asks' = Tail(asks)
         /\ request' # NoRequest /\ ~ Window(request') /\ request'.role = Head(asks).role
         /\ Present(request')
<1>1. request' = [NoRequest EXCEPT !.type = Head(asks).type, !.max = 1,
                                   !.cands = Head(asks).cands, !.role = Head(asks).role]
  BY DEF CoreAsk, Present
<1>2. Present(request') BY <1>1 DEF CoreAsk
<1>3. request'.type = Head(asks).type /\ request'.role = Head(asks).role
  BY <1>1 DEF NoRequest
<1>4. asks # <<>> /\ request = NoRequest /\ asks' = Tail(asks) BY DEF CoreAsk, Ready
<1>5. Head(asks).type \notin {"none", "select_chain", "select_idle_cmd"}
  BY <1>4, NextAsk, AskedTypes DEF OffersInv, ListsInv
<1>6. NoRequest.type = "none" BY DEF NoRequest
<1> QED BY <1>2, <1>3, <1>4, <1>5, <1>6 DEF Window

\* A frontier offers single definitions, and the taxonomy what it offers.
LEMMA OffersSingle ==
  ASSUME NEW defs, NEW r, NEW p, NEW f, f = FrontierDocument(defs, r, p), NEW o \in f.opportunities
  PROVE  Matches(defs, o.cand.ref) = {o.definition}
<1>1. r.type = "select_chain" /\ o \in Opportunities(defs, r, p)
  BY ChainPublished, OtherPublished
<1>2. PICK c, id : /\ Resolve(defs, c.ref).ids = {id}
                   /\ o = Opportunity(id, Count(defs, p, id) + 1, Signature(r), c, ActionIds(p))
  BY <1>1 DEF Opportunities
<1>3. o.cand = c /\ o.definition = id BY <1>2 DEF Opportunity
<1>4. Matches(defs, c.ref) = {id}
  <2> DEFINE ref == c.ref
  <2>1. Resolve(defs, ref).ids = {id} BY <1>2
  <2> HIDE DEF ref
  <2>2. Matches(defs, ref) = {id} BY <2>1, ResolvedIds
  <2> QED BY <2>2 DEF ref
<1> QED BY <1>3, <1>4

LEMMA SupportedOffers ==
  ASSUME NEW defs, NEW r, NEW p, NEW f, f = FrontierDocument(defs, r, p)
  PROVE  f.supported = {<<o.definition, o.cand>> : o \in f.opportunities}
<1>1. CASE r.type = "select_chain" BY <1>1, ChainPublished
<1>2. CASE r.type # "select_chain"
  <2>1. f.opportunities = {} /\ f.supported = {} BY <1>2, OtherPublished
  <2> QED BY <2>1
<1> QED BY <1>1, <1>2

(* Presenting a request keeps the invariant. *)
LEMMA PresentKeeps ==
  ASSUME OffersInv, Present(request'), request = NoRequest, request' # NoRequest
  PROVE  /\ frontier' = FrontierDocument(definitions, request', prefix)
         /\ (ActivationsKnown /\ LimitsKept /\ OffersExact /\ TaxonomyMatchesOffers)'
         /\ definitions' \in Interruptions /\ Valid(definitions') /\ IsList(prefix)' /\ IsList(taken)'
<1>1. /\ frontier' = FrontierDocument(definitions, request', prefix)
      /\ definitions' = definitions /\ prefix' = prefix /\ taken' = taken
  BY DEF Present
<1>2. /\ \A o \in frontier'.opportunities : Matches(definitions, o.cand.ref) = {o.definition}
      /\ frontier'.supported = {<<o.definition, o.cand>> : o \in frontier'.opportunities}
  <2> DEFINE f == frontier'  r == request'
  <2>1. f = FrontierDocument(definitions, r, prefix) BY <1>1
  <2> HIDE DEF f, r
  <2>2. \A o \in f.opportunities : Matches(definitions, o.cand.ref) = {o.definition}
    <3> TAKE o \in f.opportunities
    <3> QED BY <2>1, OffersSingle
  <2>3. f.supported = {<<o.definition, o.cand>> : o \in f.opportunities}
    BY <2>1, SupportedOffers
  <2> QED BY <2>2, <2>3 DEF f
<1>3. OffersExact' /\ TaxonomyMatchesOffers'
  BY <1>1, <1>2 DEF OffersExact, TaxonomyMatchesOffers
<1>4. ActivationsKnown' BY <1>1 DEF OffersInv, ActivationsKnown
<1>5. LimitsKept' BY <1>1 DEF OffersInv, LimitsKept
<1> QED BY <1>1, <1>3, <1>4, <1>5 DEF OffersInv, ListsInv, IsList

LEMMA WindowKeeps ==
  ASSUME OffersInv, CoreChain \/ CoreIdle
  PROVE  OffersInv'
<1>1. /\ request = NoRequest /\ asks = <<>> /\ asks' = <<>>
      /\ request' # NoRequest /\ Window(request') /\ request'.role = ""
      /\ \A c \in request'.cands : c.ref.code \in DOMAIN Asks
      /\ Present(request') BY WindowPresented
<1>2. /\ frontier' = FrontierDocument(definitions, request', prefix)
      /\ (ActivationsKnown /\ LimitsKept /\ OffersExact /\ TaxonomyMatchesOffers)'
      /\ definitions' \in Interruptions /\ Valid(definitions') /\ IsList(prefix)' /\ IsList(taken)'
  BY <1>1, PresentKeeps
<1>3. definitions' = definitions /\ prefix' = prefix /\ taken' = taken
  BY <1>1 DEF Present
<1>4. ~ Asking /\ ~ Asking' /\ Waiting' = Waiting BY <1>1 DEF Asking, Waiting
<1>5. ListsInv' BY <1>1, <1>2, <1>3 DEF ListsInv, OffersInv
<1>6. RequestShape' BY <1>1, <1>2, <1>3, <1>4 DEF RequestShape
<1>7. HistoryPaired'
  <2>1. ASSUME NEW i, NEW k, Paired(i, k) PROVE Paired(i, k)'
    BY <1>1, <1>3, <1>4, <2>1 DEF Paired, StillAsked
  <2> QED BY <1>3, <2>1 DEF HistoryPaired, OffersInv
<1> QED BY <1>2, <1>5, <1>6, <1>7 DEF OffersInv

LEMMA AskKeeps ==
  ASSUME OffersInv, CoreAsk
  PROVE  OffersInv'
<1>1. /\ request = NoRequest /\ asks # <<>> /\ asks' = Tail(asks)
      /\ request' # NoRequest /\ ~ Window(request') /\ request'.role = Head(asks).role
      /\ Present(request') BY AskPresented
<1>2. /\ frontier' = FrontierDocument(definitions, request', prefix)
      /\ (ActivationsKnown /\ LimitsKept /\ OffersExact /\ TaxonomyMatchesOffers)'
      /\ definitions' \in Interruptions /\ Valid(definitions') /\ IsList(prefix)' /\ IsList(taken)'
  BY <1>1, PresentKeeps
<1>3. definitions' = definitions /\ prefix' = prefix /\ taken' = taken
  BY <1>1 DEF Present
<1>4. ~ Asking /\ Asking' /\ Waiting = 0 /\ Waiting' = 1 BY <1>1 DEF Asking, Waiting
<1>5. /\ asks' \in Seq(AskedRequests) /\ Len(asks) \in Nat \ {0} /\ Len(asks') = Len(asks) - 1
      /\ \A n \in 1..Len(asks') : asks'[n] = asks[n + 1]
      /\ Head(asks) = asks[1] BY <1>1, NextAsk DEF OffersInv, ListsInv
<1>6. ListsInv' BY <1>2, <1>3, <1>5 DEF ListsInv, OffersInv
<1>7. taken # <<>> BY <1>1 DEF OffersInv, RequestShape
<1>8. RequestShape' BY <1>1, <1>2, <1>3, <1>7 DEF RequestShape
<1>9. HistoryPaired'
  <2>1. ASSUME NEW i, NEW k, Paired(i, k) PROVE Paired(i, k)'
    <3> DEFINE replies == taken[k].replies
               all == Asks[CodeAt(prefix, i)]
    <3>1. Len(replies) \in Nat BY <2>1, ListLength DEF Paired, Follows
    <3>2. StillAsked(i, replies) => StillAsked(i, replies)'
      <4> SUFFICES ASSUME StillAsked(i, replies) PROVE StillAsked(i, replies)' OBVIOUS
      <4> HIDE DEF replies
      <4>1. /\ \A j \in Activations(prefix) : j <= i
            /\ Len(replies) + 0 + Len(asks) = Len(all)
            /\ \A n \in 1..Len(asks) : asks[n] = all[Len(replies) + 0 + n]
            /\ i + Len(replies) = Len(prefix) BY <1>1, <1>4 DEF StillAsked
      <4>2. Len(replies) + 1 + Len(asks') = Len(all)
        <5>1. Len(asks) \in Nat /\ Len(asks') = Len(asks) - 1 BY <1>5
        <5>2. Len(replies) + 1 + (Len(asks) - 1) = Len(replies) + 0 + Len(asks) BY <3>1, <5>1
        <5> QED BY <4>1, <5>1, <5>2
      <4>3. ASSUME NEW n \in 1..Len(asks') PROVE asks'[n] = all[Len(replies) + 1 + n]
        <5>1. n + 1 \in 1..Len(asks) /\ asks'[n] = asks[n + 1] BY <1>5
        <5>2. Len(replies) + 0 + (n + 1) = Len(replies) + 1 + n BY <3>1
        <5> QED BY <4>1, <5>1, <5>2
      <4>4. request'.role = all[Len(replies) + 1].role
        <5>1. 1 \in 1..Len(asks) /\ Len(replies) + 0 + 1 = Len(replies) + 1 BY <1>5, <3>1
        <5> QED BY <1>1, <1>5, <4>1, <5>1
      <4>5. replies' = replies BY <1>3 DEF replies
      <4> QED BY <1>3, <1>4, <4>1, <4>2, <4>3, <4>4, <4>5 DEF StillAsked
    <3> QED BY <1>3, <2>1, <3>2 DEF Paired
  <2> QED BY <1>3, <2>1 DEF HistoryPaired, OffersInv
<1> QED BY <1>2, <1>6, <1>8, <1>9 DEF OffersInv

(* Definitions, and how a prefix grows. *)
LEMMA DefinitionFound ==
  ASSUME NEW defs \in Interruptions, Valid(defs), NEW i \in 1..Len(defs)
  PROVE  /\ defs[i].id \in DefinitionIds(defs) /\ Definition(defs, defs[i].id) = defs[i]
         /\ defs[i].max \in Nat
<1> DEFINE S == {defs[j] : j \in 1..Len(defs)}
<1>1. defs[i] \in S /\ \A d \in S : d.id = defs[i].id => d = defs[i] BY DEF Valid
<1>2. (CHOOSE d \in S : d.id = defs[i].id) = defs[i] BY <1>1
<1>3. defs[i].max \in Nat BY CoreAssumption
<1> QED BY <1>2, <1>3 DEF Definition, DefinitionIds

\* The one definition a source matches asks what the card asks.
LEMMA MatchFound ==
  ASSUME NEW defs \in Interruptions, Valid(defs), NEW ref, NEW id, Matches(defs, ref) = {id}
  PROVE  /\ id \in DefinitionIds(defs)
         /\ Len(Definition(defs, id).roles) = Len(Asks[ref.code])
         /\ \A n \in 1..Len(Asks[ref.code]) : Definition(defs, id).roles[n] = Asks[ref.code][n].role
<1>1. id \in Matches(defs, ref) OBVIOUS
<1>2. PICK i \in 1..Len(defs) : SourceMatches(defs[i], ref) /\ id = defs[i].id
  BY <1>1 DEF Matches
<1>3. Definition(defs, id) = defs[i] /\ id \in DefinitionIds(defs) BY <1>2, DefinitionFound
<1>4. defs[i].code = ref.code BY <1>2 DEF SourceMatches
<1>5. /\ Len(defs[i].roles) = Len(Asks[defs[i].code])
      /\ \A n \in 1..Len(defs[i].roles) : defs[i].roles[n] = Asks[defs[i].code][n].role
  BY CoreAssumption
<1> QED BY <1>3, <1>4, <1>5

LimitsOf(defs, p) ==
  \A id \in DefinitionIds(defs) :
    \/ Count(defs, p, id) <= Definition(defs, id).max
    \/ \E i \in ActivationsOf(defs, p, id) : FromIdle(p, i)

LEMMA LimitsGrow ==
  ASSUME NEW defs \in Interruptions, Valid(defs), NEW p, IsList(p), NEW a, LimitsOf(defs, p),
         \A id \in DefinitionIds(defs) : Hits(defs, a, id) =>
           a.sig[1] = "select_idle_cmd" \/ ~ UsedUp(defs, p, id)
  PROVE  LimitsOf(defs, Append(p, a))
<1> DEFINE q == Append(p, a)
<1>1. ASSUME NEW id \in DefinitionIds(defs)
      PROVE  \/ Count(defs, q, id) <= Definition(defs, id).max
             \/ \E i \in ActivationsOf(defs, q, id) : FromIdle(q, i)
  <2>1. /\ Count(defs, p, id) \in Nat
        /\ Hits(defs, a, id) => Count(defs, q, id) = Count(defs, p, id) + 1
        /\ ~ Hits(defs, a, id) => Count(defs, q, id) = Count(defs, p, id) BY CountGrows
  <2>2. /\ Hits(defs, a, id) => ActivationsOf(defs, q, id) = ActivationsOf(defs, p, id) \cup {Len(p) + 1}
        /\ ~ Hits(defs, a, id) => ActivationsOf(defs, q, id) = ActivationsOf(defs, p, id)
    BY ActivationsGrow
  <2>3. q[Len(p) + 1] = a /\ \A i \in ActivationsOf(defs, p, id) : q[i] = p[i]
    BY AppendList DEF ActivationsOf, Activations
  <2>4. Definition(defs, id).max \in Nat
    <3>1. PICK i \in 1..Len(defs) : id = defs[i].id BY DEF DefinitionIds
    <3> QED BY <3>1, DefinitionFound
  <2> HIDE DEF q
  <2>5. CASE \E i \in ActivationsOf(defs, p, id) : FromIdle(p, i)
    BY <2>2, <2>3, <2>5 DEF FromIdle
  <2>6. CASE Count(defs, p, id) <= Definition(defs, id).max
    <3>1. CASE ~ Hits(defs, a, id) BY <2>1, <2>6, <3>1
    <3>2. CASE Hits(defs, a, id) /\ a.sig[1] = "select_idle_cmd"
      BY <2>2, <2>3, <3>2 DEF FromIdle
    <3>3. CASE Hits(defs, a, id) /\ ~ UsedUp(defs, p, id)
      BY <2>1, <2>4, <3>3 DEF UsedUp
    <3> QED BY <3>1, <3>2, <3>3
  <2> QED BY <2>5, <2>6 DEF LimitsOf
<1> QED BY <1>1 DEF LimitsOf

\* What was offered for an activation, and its replies, do not change.
LEMMA PairsGrow ==
  ASSUME NEW defs, NEW p, IsList(p), NEW a, NEW i \in Activations(p)
  PROVE  /\ i \in Activations(Append(p, a)) /\ i \in 1..Len(p)
         /\ Append(p, a)[i] = p[i]
         /\ CodeAt(Append(p, a), i) = CodeAt(p, i)
         /\ OffersAt(defs, Append(p, a), i) = OffersAt(defs, p, i)
         /\ \A replies : Follows(p, i, replies) => Follows(Append(p, a), i, replies)
<1> DEFINE q == Append(p, a)
<1>1. /\ IsList(q) /\ Len(q) = Len(p) + 1 /\ Len(p) \in Nat
      /\ \A j \in 1..Len(p) : q[j] = p[j] BY AppendList, ListLength
<1>2. i \in 1..Len(p) /\ q[i] = p[i] /\ SubSeq(q, 1, i - 1) = SubSeq(p, 1, i - 1)
  BY <1>1, EarlierPart DEF Activations
<1> HIDE DEF q
<1>3. i \in Activations(q) BY <1>1, <1>2 DEF Activations
<1>4. RefAt(q, i) = RefAt(p, i) /\ CodeAt(q, i) = CodeAt(p, i) /\ (FromIdle(q, i) <=> FromIdle(p, i))
  BY <1>2 DEF RefAt, CodeAt, FromIdle
<1>5. \A id : OpportunityAt(defs, q, i, id) = OpportunityAt(defs, p, i, id)
  BY <1>2 DEF OpportunityAt
<1>6. OffersAt(defs, q, i) = OffersAt(defs, p, i) BY <1>4, <1>5 DEF OffersAt
<1>7. ASSUME NEW replies, Follows(p, i, replies) PROVE Follows(q, i, replies)
  <2>1. Len(replies) \in Nat BY <1>7, ListLength DEF Follows
  <2>2. \A n \in 1..Len(replies) : i + n \in 1..Len(p) BY <1>1, <1>2, <1>7, <2>1 DEF Follows
  <2> QED BY <1>1, <1>2, <1>7, <2>1, <2>2 DEF Follows
<1> QED BY <1>2, <1>3, <1>4, <1>6, <1>7 DEF q

\* In particular what an earlier window offered.
LEMMA OffersGrow ==
  ASSUME NEW defs, NEW p, IsList(p), NEW a, NEW i \in Activations(p)
  PROVE  OffersAt(defs, Append(p, a), i) = OffersAt(defs, p, i)
BY PairsGrow

(* Choosing an action keeps the invariant. *)
\* The offer of a chain window for a candidate is a single one.
LEMMA OfferIs ==
  ASSUME NEW defs, NEW r, NEW p, NEW o \in Opportunities(defs, r, p)
  PROVE  o = Opportunity(o.definition, Count(defs, p, o.definition) + 1, Signature(r), o.cand,
                         ActionIds(p))
<1>1. PICK c, id : o = Opportunity(id, Count(defs, p, id) + 1, Signature(r), c, ActionIds(p))
  BY DEF Opportunities
<1>2. o.cand = c /\ o.definition = id BY <1>1 DEF Opportunity
<1> QED BY <1>1, <1>2

LEMMA HitMatches ==
  ASSUME NEW defs, NEW a, NEW id, Hits(defs, a, id) PROVE Matches(defs, a.cand.ref) = {id}
<1>1. PICK ref : ref = a.cand.ref OBVIOUS
<1>2. Resolve(defs, ref).ids = {id} BY <1>1 DEF Hits
<1>3. Matches(defs, ref) = {id} BY <1>2, ResolvedIds
<1> QED BY <1>1, <1>3

LEMMA OfferFree ==
  ASSUME NEW defs, NEW r, NEW p, NEW o \in Opportunities(defs, r, p)
  PROVE  ~ UsedUp(defs, p, o.definition)
<1>1. PICK c, id : /\ ~ UsedUp(defs, p, id)
                   /\ o = Opportunity(id, Count(defs, p, id) + 1, Signature(r), c, ActionIds(p))
  BY DEF Opportunities
<1>2. o.definition = id BY <1>1 DEF Opportunity
<1> QED BY <1>1, <1>2

LEMMA OfferCandidate ==
  ASSUME NEW defs, NEW r, NEW p, NEW o \in Opportunities(defs, r, p)
  PROVE  o.cand \in r.cands
<1>1. PICK c, id : c \in r.cands /\ o = Opportunity(id, Count(defs, p, id) + 1, Signature(r), c, ActionIds(p))
  BY DEF Opportunities
<1>2. o.cand = c BY <1>1 DEF Opportunity
<1> QED BY <1>1, <1>2

LEMMA OfferMatches ==
  ASSUME NEW defs, NEW r, NEW p, NEW o \in Opportunities(defs, r, p)
  PROVE  Matches(defs, o.cand.ref) = {o.definition}
<1>1. PICK c, id : /\ Resolve(defs, c.ref).ids = {id}
                   /\ o = Opportunity(id, Count(defs, p, id) + 1, Signature(r), c, ActionIds(p))
  BY DEF Opportunities
<1>2. o.cand = c /\ o.definition = id BY <1>1 DEF Opportunity
<1>3. PICK ref : ref = c.ref OBVIOUS
<1>4. Resolve(defs, ref).ids = {id} BY <1>1, <1>3
<1>5. Matches(defs, ref) = {id} BY <1>4, ResolvedIds
<1> QED BY <1>2, <1>3, <1>5

\* All that a chain window offers for a candidate.
OfferedOnly(defs, r, p, c, offers) ==
  \E o \in Opportunities(defs, r, p) : o.cand = c /\ offers = {o}

SettledFor(defs, p, ref) ==
  \E id : Matches(defs, ref) = {id} /\ ~ UsedUp(defs, p, id)

LEMMA OfferSettles ==
  ASSUME NEW defs, NEW r, NEW p, NEW c, NEW offers, OfferedOnly(defs, r, p, c, offers)
  PROVE  SettledFor(defs, p, c.ref)
<1>1. PICK o \in Opportunities(defs, r, p) : o.cand = c BY DEF OfferedOnly
<1>2. Matches(defs, o.cand.ref) = {o.definition} BY OfferMatches
<1>3. ~ UsedUp(defs, p, o.definition) BY OfferFree
<1>4. Matches(defs, c.ref) = {o.definition} BY <1>1, <1>2
<1> QED BY <1>3, <1>4 DEF SettledFor

LEMMA OfferedActions ==
  ASSUME OffersInv, request # NoRequest, frontier.code = "ok", NEW a \in frontier.actions
  PROVE  \/ a.kind = "pass" /\ Window(request)
         \/ a.kind = "select" /\ ~ Window(request)
         \/ /\ request.type = "select_idle_cmd" /\ frontier.opportunities = {}
            /\ \E c \in request.cands : a = Take(request, c)
         \/ /\ request.type = "select_chain"
            /\ frontier.opportunities = Opportunities(definitions, request, prefix)
            /\ \E o \in frontier.opportunities : a = Take(request, o.cand)
<1>1. frontier = FrontierDocument(definitions, request, prefix)
  BY DEF OffersInv, RequestShape
<1>2. CASE request.type = "select_chain"
  <2>1. frontier.opportunities = Opportunities(definitions, request, prefix)
    BY <1>1, <1>2, ChainPublished
  <2>2. a = Pass(request) \/ \E o \in frontier.opportunities : a = Take(request, o.cand)
    BY <1>1, <1>2, ChainActions
  <2>3. CASE a = Pass(request) BY <1>2, <2>3 DEF Window, Pass
  <2>4. CASE \E o \in frontier.opportunities : a = Take(request, o.cand)
    BY <1>2, <2>1, <2>4
  <2> QED BY <2>2, <2>3, <2>4
<1>3. CASE request.type = "select_idle_cmd"
  <2>1. frontier.opportunities = {} BY <1>1, <1>3, OtherPublished
  <2>2. a = Pass(request) \/ \E c \in request.cands : a = Take(request, c)
    BY <1>1, <1>3, OtherActions
  <2>3. CASE a = Pass(request) BY <1>3, <2>3 DEF Window, Pass
  <2>4. CASE \E c \in request.cands : a = Take(request, c) BY <1>3, <2>1, <2>4
  <2> QED BY <2>2, <2>3, <2>4
<1>4. CASE ~ Window(request)
  <2>1. request.type # "select_chain" /\ request.type # "select_idle_cmd" BY <1>4 DEF Window
  <2>2. PICK c \in request.cands : a = Reply(request, c) BY <1>1, <2>1, OtherActions
  <2>3. a.kind = "select" BY <2>2 DEF Reply
  <2> QED BY <1>4, <2>3
<1> QED BY <1>2, <1>3, <1>4 DEF Window

\* What a choice that is not an activation keeps.
LEMMA OtherChosen ==
  ASSUME OffersInv, NEW a, a.kind # "activate_effect",
         prefix' = Append(prefix, a), definitions' = definitions, frontier' = frontier
  PROVE  /\ Activations(prefix') = Activations(prefix)
         /\ definitions' \in Interruptions /\ Valid(definitions') /\ IsList(prefix)'
         /\ (ActivationsKnown /\ LimitsKept /\ OffersExact /\ TaxonomyMatchesOffers)'
<1> USE DEF OffersInv, ListsInv
<1>1. IsList(prefix) /\ IsList(prefix') BY AppendList
<1>2. Activations(prefix') = Activations(prefix) BY ActivationsGrow
<1>3. \A i \in Activations(prefix) : prefix'[i] = prefix[i] BY PairsGrow
<1>4. ActivationsKnown'
  <2>1. ActivationsKnown OBVIOUS
  <2> SUFFICES ASSUME NEW i \in Activations(prefix)
               PROVE  /\ CodeAt(prefix', i) \in DOMAIN Asks
                      /\ prefix'[i].sig[1] \in {"select_chain", "select_idle_cmd"}
                      /\ FromIdle(prefix', i)
                         \/ \E id : Matches(definitions, RefAt(prefix', i)) = {id}
    BY <1>2 DEF ActivationsKnown
  <2>2. prefix'[i] = prefix[i] BY <1>3
  <2>3. /\ RefAt(prefix', i) = RefAt(prefix, i) /\ CodeAt(prefix', i) = CodeAt(prefix, i)
        /\ (FromIdle(prefix', i) <=> FromIdle(prefix, i))
    BY <2>2 DEF RefAt, CodeAt, FromIdle
  <2> QED BY <2>1, <2>2, <2>3 DEF ActivationsKnown
<1>5. LimitsKept'
  <2>1. LimitsOf(definitions, prefix) BY DEF LimitsKept, LimitsOf
  <2>2. \A id : ~ Hits(definitions, a, id) BY DEF Hits
  <2>3. LimitsOf(definitions, Append(prefix, a)) BY <2>1, <2>2, LimitsGrow
  <2> QED BY <2>3 DEF LimitsKept, LimitsOf
<1>6. OffersExact' /\ TaxonomyMatchesOffers' BY DEF OffersExact, TaxonomyMatchesOffers
<1> QED BY <1>1, <1>2, <1>4, <1>5, <1>6 DEF IsList

\* PASS of a window.
LEMMA PassKeeps ==
  ASSUME OffersInv, NEW a, a.kind = "pass", request # NoRequest, Window(request),
         request' = NoRequest, prefix' = Append(prefix, a), asks' = asks, taken' = taken,
         definitions' = definitions, frontier' = frontier
  PROVE  OffersInv'
<1>1. /\ Activations(prefix') = Activations(prefix)
      /\ definitions' \in Interruptions /\ Valid(definitions') /\ IsList(prefix)'
      /\ (ActivationsKnown /\ LimitsKept /\ OffersExact /\ TaxonomyMatchesOffers)'
  BY OtherChosen
<1>2. ~ Asking /\ ~ Asking' /\ Waiting' = Waiting /\ asks = <<>>
  BY DEF Asking, Waiting, OffersInv, RequestShape
<1>3. ListsInv' BY <1>1 DEF ListsInv, OffersInv, IsList
<1>4. RequestShape' BY <1>2 DEF RequestShape
<1>5. ASSUME NEW i \in Activations(prefix), NEW k, Paired(i, k) PROVE Paired(i, k)'
  <2>1. /\ CodeAt(prefix', i) = CodeAt(prefix, i)
        /\ OffersAt(definitions, prefix', i) = OffersAt(definitions, prefix, i)
        /\ \A replies : Follows(prefix, i, replies) => Follows(prefix', i, replies)
    BY PairsGrow DEF OffersInv, ListsInv
  <2>2. StillAsked(i, taken[k].replies) => StillAsked(i, taken[k].replies)'
    BY <1>1, <1>2, <2>1 DEF StillAsked
  <2> QED BY <1>5, <2>1, <2>2 DEF Paired
<1>6. HistoryPaired' BY <1>1, <1>5 DEF HistoryPaired, OffersInv
<1> QED BY <1>1, <1>3, <1>4, <1>6 DEF OffersInv

\* A reply extends what follows its activation.
LEMMA ReplyFollows ==
  ASSUME NEW p, IsList(p), NEW a, NEW i \in Activations(p), NEW old, Follows(p, i, old),
         i + Len(old) = Len(p)
  PROVE  /\ Follows(Append(p, a), i, Append(old, a)) /\ Len(Append(old, a)) = Len(old) + 1
         /\ Len(old) \in Nat /\ i + (Len(old) + 1) = Len(Append(p, a))
<1>1. IsList(old) /\ Len(old) \in Nat /\ Len(p) \in Nat /\ i \in 1..Len(p) /\ i \in Int
  BY ListLength DEF Follows, Activations
<1>2. PICK new : new = Append(old, a) OBVIOUS
<1>3. PICK q : q = Append(p, a) OBVIOUS
<1>4. /\ IsList(new) /\ Len(new) = Len(old) + 1 /\ new[Len(old) + 1] = a
      /\ \A n \in 1..Len(old) : new[n] = old[n] BY <1>1, <1>2, AppendList
<1>5. Len(q) = Len(p) + 1 /\ q[Len(p) + 1] = a BY <1>3, AppendList
<1>6. \A n \in 1..Len(old) : old[n] = q[i + n]
  <2>1. Follows(q, i, old) BY <1>3, PairsGrow
  <2> QED BY <2>1 DEF Follows
<1>7. i + (Len(old) + 1) = Len(p) + 1 BY <1>1
<1>8. \A n \in 1..Len(new) : new[n] = q[i + n]
  <2> TAKE n \in 1..Len(new)
  <2>1. n \in 1..(Len(old) + 1) BY <1>4
  <2>2. n \in 1..Len(old) \/ n = Len(old) + 1 BY <1>1, <2>1
  <2>3. CASE n \in 1..Len(old) BY <1>4, <1>6, <2>3
  <2>4. CASE n = Len(old) + 1
    <3>1. i + n = Len(p) + 1 BY <1>7, <2>4
    <3> QED BY <1>4, <1>5, <2>4, <3>1
  <2> QED BY <2>2, <2>3, <2>4
<1>9. i + Len(new) = Len(q) BY <1>4, <1>5, <1>7
<1>10. i + Len(new) <= Len(q) BY <1>1, <1>5, <1>9
<1> QED BY <1>1, <1>2, <1>3, <1>4, <1>5, <1>7, <1>8, <1>10 DEF Follows

\* A reply goes to the activation that asked.
LEMMA ReplyKeeps ==
  ASSUME OffersInv, NEW a, a.kind = "select", request # NoRequest, ~ Window(request),
         request' = NoRequest, prefix' = Append(prefix, a), asks' = asks,
         NEW e, e.offers = taken[Len(taken)].offers,
         e.replies = Append(taken[Len(taken)].replies, a),
         "replies" \in DOMAIN e,
         taken' = [taken EXCEPT ![Len(taken)] = e], definitions' = definitions, frontier' = frontier
  PROVE  OffersInv'
<1> DEFINE last == Len(taken)
<1>1. /\ Activations(prefix') = Activations(prefix)
      /\ definitions' \in Interruptions /\ Valid(definitions') /\ IsList(prefix)'
      /\ (ActivationsKnown /\ LimitsKept /\ OffersExact /\ TaxonomyMatchesOffers)'
  BY OtherChosen
<1>2. Asking /\ ~ Asking' /\ Waiting = 1 /\ Waiting' = 0 BY DEF Asking, Waiting
<1>3. IsList(taken) /\ IsList(prefix) /\ asks \in Seq(AskedRequests) /\ taken # <<>>
  BY <1>2 DEF OffersInv, ListsInv, RequestShape
<1>6. /\ IsList(taken') /\ Len(taken') = last /\ taken' # <<>>
      /\ \A k \in 1..last : k # last => taken'[k] = taken[k]
      /\ taken'[last] = e
  <2>1. last \in 1..last /\ DOMAIN taken = 1..last /\ last \in Nat \ {0} BY <1>3, LastOfList
  <2>2. IsList(taken') BY <1>3, <2>1, ReplaceList
  <2>3. Len(taken') = last BY <1>3, <2>1, ReplaceList
  <2>4. taken'[last] = e BY <2>1
  <2>5. \A k \in 1..last : k # last => taken'[k] = taken[k] BY <2>1
  <2>6. taken' # <<>> BY <2>1, <2>3, EmptyList
  <2> QED BY <2>2, <2>3, <2>4, <2>5, <2>6
<1> HIDE DEF last
<1>7. ListsInv'
  <2>1. \A k \in 1..last : "replies" \in DOMAIN taken[k] BY DEF OffersInv, ListsInv, last
  <2>2. \A k \in 1..last : "replies" \in DOMAIN taken'[k] BY <1>6, <2>1
  <2> QED BY <1>1, <1>3, <1>6, <2>2 DEF ListsInv
<1>8. RequestShape' BY <1>2, <1>6 DEF RequestShape
<1>9. ASSUME NEW i \in Activations(prefix), NEW k \in 1..last, Paired(i, k) PROVE Paired(i, k)'
  <2>1. /\ i \in 1..Len(prefix) /\ CodeAt(prefix', i) = CodeAt(prefix, i)
        /\ OffersAt(definitions, prefix', i) = OffersAt(definitions, prefix, i)
        /\ \A replies : Follows(prefix, i, replies) => Follows(prefix', i, replies)
    <3>1. i \in 1..Len(prefix) BY <1>3, PairsGrow
    <3>2. CodeAt(prefix', i) = CodeAt(prefix, i) BY <1>3, PairsGrow
    <3>3. OffersAt(definitions, prefix', i) = OffersAt(definitions, prefix, i)
      <4>1. OffersAt(definitions, Append(prefix, a), i) = OffersAt(definitions, prefix, i)
        <5>1. IsList(prefix) BY <1>3
        <5> QED BY <5>1, OffersGrow
      <4> QED BY <4>1
    <3>4. ASSUME NEW replies, Follows(prefix, i, replies) PROVE Follows(prefix', i, replies)
      <4>1. Follows(Append(prefix, a), i, replies) BY <1>3, <3>4, PairsGrow
      <4> QED BY <4>1
    <3> QED BY <3>1, <3>2, <3>3, <3>4
  <2>2. CASE k # last BY <1>6, <1>9, <2>1, <2>2 DEF Paired, last
  <2>3. CASE k = last
    <3> DEFINE old == taken[last].replies
               new == Append(old, a)
               all == Asks[CodeAt(prefix, i)]
    <3>1. taken'[k].offers = taken[k].offers /\ taken'[k].replies = new
      BY <1>6, <2>3 DEF last
    <3>2. Follows(prefix, i, old) /\ StillAsked(i, old) BY <1>9, <2>3 DEF Paired, last
    <3> HIDE DEF old
    <3>3. i + Len(old) = Len(prefix) BY <1>2, <3>2 DEF StillAsked
    <3>4. /\ Follows(prefix', i, new) /\ Len(new) = Len(old) + 1
          /\ Len(old) \in Nat /\ i + (Len(old) + 1) = Len(prefix')
      BY <1>3, <3>2, <3>3, ReplyFollows
    <3> HIDE DEF new
    <3>6. StillAsked(i, taken[k].replies)'
      <4>1. /\ \A j \in Activations(prefix) : j <= i
            /\ Len(old) + 1 + Len(asks) = Len(all)
            /\ \A n \in 1..Len(asks) : asks[n] = all[Len(old) + 1 + n]
        BY <1>2, <3>2 DEF StillAsked
      <4>2. i + Len(taken'[k].replies) = Len(prefix') BY <3>1, <3>4
      <4>3. Len(taken'[k].replies) + 0 = Len(old) + 1 BY <3>1, <3>4
      <4>4. \A j \in Activations(prefix') : j <= i BY <1>1, <4>1
      <4>5. Len(taken'[k].replies) + Waiting' + Len(asks') = Len(Asks[CodeAt(prefix', i)])
        BY <1>2, <2>1, <4>1, <4>3
      <4>6. \A n \in 1..Len(asks') :
              asks'[n] = Asks[CodeAt(prefix', i)][Len(taken'[k].replies) + Waiting' + n]
        BY <1>2, <2>1, <4>1, <4>3
      <4> QED BY <1>2, <4>2, <4>4, <4>5, <4>6 DEF StillAsked
    <3>7. Follows(prefix', i, taken'[k].replies) BY <3>1, <3>4
    <3>8. taken'[k].offers = OffersAt(definitions', prefix', i)
      BY <1>9, <2>1, <3>1 DEF Paired
    <3>9. k = Len(taken') BY <1>6, <2>3
    <3> QED BY <3>6, <3>7, <3>8, <3>9 DEF Paired
  <2> QED BY <2>2, <2>3
<1>10. HistoryPaired' BY <1>1, <1>6, <1>9 DEF HistoryPaired, OffersInv, last
<1> QED BY <1>1, <1>7, <1>8, <1>10 DEF OffersInv

\* The record of a new activation is what its window offered.
LEMMA NewIdleOffers ==
  ASSUME NEW defs, NEW p, IsList(p), NEW r, NEW c, r.type = "select_idle_cmd"
  PROVE  OffersAt(defs, Append(p, Take(r, c)), Len(p) + 1) = {}
<1>1. PICK q, n : q = Append(p, Take(r, c)) /\ n = Len(p) + 1 OBVIOUS
<1>2. q[n] = Take(r, c) BY <1>1, AppendList
<1>3. q[n].sig[1] = r.type BY <1>2, TakeFields
<1>4. FromIdle(q, n) BY <1>3 DEF FromIdle
<1> QED BY <1>1, <1>4 DEF OffersAt

LEMMA NewChainOffers ==
  ASSUME NEW defs, NEW p, IsList(p), NEW r, r.type = "select_chain", NEW c, NEW offers,
         OfferedOnly(defs, r, p, c, offers)
  PROVE  OffersAt(defs, Append(p, Take(r, c)), Len(p) + 1) = offers
<1>0. PICK o \in Opportunities(defs, r, p) : o.cand = c /\ offers = {o} BY DEF OfferedOnly
<1>1. PICK q, n : q = Append(p, Take(r, c)) /\ n = Len(p) + 1 OBVIOUS
<1>2. q[n] = Take(r, c) BY <1>1, AppendList
<1>3. SubSeq(q, 1, n - 1) = p
  <2>1. SubSeq(q, 1, Len(p)) = p BY <1>1, EarlierPart
  <2>2. n - 1 = Len(p) BY <1>1, ListLength
  <2> QED BY <2>1, <2>2
<1>4. q[n].sig = Signature(r) /\ q[n].cand = c /\ q[n].sig[1] = r.type BY <1>2, TakeFields
<1>5. ~ FromIdle(q, n) BY <1>4 DEF FromIdle
<1>6. PICK id : id = o.definition OBVIOUS
<1>7. Matches(defs, o.cand.ref) = {o.definition} BY OfferMatches
<1>8. Matches(defs, RefAt(q, n)) = {id} BY <1>0, <1>1, <1>4, <1>6, <1>7 DEF RefAt
<1>9. o = Opportunity(o.definition, Count(defs, p, o.definition) + 1, Signature(r), o.cand,
                      ActionIds(p)) BY OfferIs
<1>10. OpportunityAt(defs, q, n, id) = o
  BY <1>0, <1>1, <1>3, <1>4, <1>6, <1>9 DEF OpportunityAt
<1>11. OffersAt(defs, q, n) = {OpportunityAt(defs, q, n, x) : x \in {id}}
  BY <1>5, <1>8 DEF OffersAt
<1> QED BY <1>0, <1>1, <1>10, <1>11

\* An activation chosen in a window.
LEMMA ActivationKeeps ==
  ASSUME OffersInv, NEW c, c.ref.code \in DOMAIN Asks, request # NoRequest, Window(request),
         NEW offers,
         \/ request.type = "select_idle_cmd" /\ offers = {}
         \/ request.type = "select_chain" /\ OfferedOnly(definitions, request, prefix, c, offers),
         request' = NoRequest, prefix' = Append(prefix, Take(request, c)),
         asks' = Asks[c.ref.code], NEW e, e.offers = offers, e.replies = <<>>,
         "replies" \in DOMAIN e,
         taken' = Append(taken, e), definitions' = definitions, frontier' = frontier
  PROVE  OffersInv'
<1> DEFINE a == Take(request, c)
<1>0. PICK n, m : n = Len(prefix) + 1 /\ m = Len(taken) + 1 OBVIOUS
<1>1. /\ IsList(prefix) /\ IsList(taken) /\ definitions \in Interruptions /\ Valid(definitions)
      /\ asks = <<>> /\ ~ Asking /\ ~ Asking' /\ Waiting = 0 /\ Waiting' = 0
  BY DEF OffersInv, ListsInv, RequestShape, Asking, Waiting
<1>2. /\ IsList(prefix') /\ Len(prefix') = n /\ prefix'[n] = a
      /\ IsList(taken') /\ Len(taken') = Len(taken) + 1 /\ taken' # <<>>
      /\ taken'[Len(taken) + 1] = e /\ \A k \in 1..Len(taken) : taken'[k] = taken[k]
  BY <1>0, <1>1, AppendList
<1>3. Len(prefix) \in Nat /\ Len(taken) \in Nat BY <1>1, ListLength
<1>4. a.kind = "activate_effect" /\ a.cand = c /\ a.sig[1] = request.type BY TakeFields
<1>5. Activations(prefix') = Activations(prefix) \cup {n} BY <1>0, <1>1, <1>4, ActivationsGrow
<1> HIDE DEF a
<1>6. RefAt(prefix', n) = c.ref /\ CodeAt(prefix', n) = c.ref.code /\ (FromIdle(prefix', n) <=> request.type = "select_idle_cmd")
  BY <1>2, <1>4 DEF RefAt, CodeAt, FromIdle
<1>7. OffersAt(definitions, prefix', n) = offers
  <2>1. CASE request.type = "select_idle_cmd" /\ offers = {}
    BY <1>0, <1>1, <2>1, NewIdleOffers
  <2>2. CASE request.type = "select_chain" /\ OfferedOnly(definitions, request, prefix, c, offers)
    BY <1>0, <1>1, <2>2, NewChainOffers
  <2> QED BY <2>1, <2>2
<1>8. asks' \in Seq(AskedRequests) /\ Len(asks') \in Nat BY AskLists
<1>9. ListsInv'
  <2>1. \A k \in 1..Len(taken) : "replies" \in DOMAIN taken[k] BY DEF OffersInv, ListsInv
  <2>2. \A k \in 1..Len(taken') : k \in 1..Len(taken) \/ k = Len(taken) + 1 BY <1>2, <1>3
  <2>3. \A k \in 1..Len(taken') : "replies" \in DOMAIN taken'[k] BY <1>2, <2>1, <2>2
  <2> QED BY <1>1, <1>2, <1>8, <2>3 DEF ListsInv
<1>10. RequestShape' BY <1>2 DEF RequestShape
<1>11. \A i \in Activations(prefix) : i \in 1..Len(prefix) /\ prefix'[i] = prefix[i]
  <2>1. \A i \in 1..Len(prefix) : prefix'[i] = prefix[i] BY <1>1, AppendList
  <2> QED BY <2>1 DEF Activations
<1>12. ActivationsKnown'
  <2>1. request.type \in {"select_chain", "select_idle_cmd"} BY DEF Window
  <2>2. request.type = "select_idle_cmd" \/ \E id : Matches(definitions, c.ref) = {id}
    <3>1. CASE OfferedOnly(definitions, request, prefix, c, offers)
      <4>1. SettledFor(definitions, prefix, c.ref) BY <3>1, OfferSettles
      <4> QED BY <4>1 DEF SettledFor
    <3> QED BY <3>1
  <2>3. \A i \in Activations(prefix) :
          /\ CodeAt(prefix', i) \in DOMAIN Asks
          /\ prefix'[i].sig[1] \in {"select_chain", "select_idle_cmd"}
          /\ FromIdle(prefix', i) \/ \E id : Matches(definitions, RefAt(prefix', i)) = {id}
    BY <1>11 DEF OffersInv, ActivationsKnown, CodeAt, RefAt, FromIdle
  <2>4. prefix'[n].sig[1] \in {"select_chain", "select_idle_cmd"} BY <1>2, <1>4, <2>1
  <2>5. FromIdle(prefix', n) \/ \E id : Matches(definitions, RefAt(prefix', n)) = {id}
    BY <1>6, <2>2
  <2>6. CodeAt(prefix', n) \in DOMAIN Asks BY <1>6
  <2> QED BY <1>5, <2>3, <2>4, <2>5, <2>6 DEF ActivationsKnown
<1>13. LimitsKept'
  <2>1. LimitsOf(definitions, prefix) BY DEF OffersInv, LimitsKept, LimitsOf
  <2>2. ASSUME NEW id \in DefinitionIds(definitions), Hits(definitions, a, id)
        PROVE  a.sig[1] = "select_idle_cmd" \/ ~ UsedUp(definitions, prefix, id)
    <3>1. CASE request.type = "select_idle_cmd" BY <1>4, <3>1
    <3>2. CASE OfferedOnly(definitions, request, prefix, c, offers)
      <4>0. SettledFor(definitions, prefix, c.ref) BY <3>2, OfferSettles
      <4>1. PICK x : Matches(definitions, c.ref) = {x} /\ ~ UsedUp(definitions, prefix, x)
        BY <4>0 DEF SettledFor
      <4>2. Matches(definitions, a.cand.ref) = {id} BY <2>2, HitMatches
      <4>3. {id} = {x} BY <1>4, <4>1, <4>2
      <4>4. id = x BY <4>3
      <4> QED BY <4>1, <4>4
    <3> QED BY <3>1, <3>2
  <2>3. LimitsOf(definitions, Append(prefix, a)) BY <1>1, <2>1, <2>2, LimitsGrow
  <2> QED BY <2>3 DEF LimitsKept, LimitsOf, a
<1>14. OffersExact' /\ TaxonomyMatchesOffers'
  BY DEF OffersInv, OffersExact, TaxonomyMatchesOffers
<1>15. Paired(n, m)'
  <2>1. taken'[m].offers = OffersAt(definitions', prefix', n) BY <1>0, <1>2, <1>7
  <2>2. taken'[m].replies = <<>> BY <1>0, <1>2
  <2>3. Follows(prefix', n, <<>>)
    <3>1. n \in Nat /\ n + 0 <= n BY <1>0, <1>3
    <3> QED BY <1>2, <3>1, EmptyList DEF Follows
  <2>4. StillAsked(n, taken[m].replies)'
    <3>1. \A j \in Activations(prefix') : j <= n BY <1>0, <1>3, <1>5, <1>11
    <3>2. asks' = Asks[CodeAt(prefix', n)] BY <1>6
    <3>3. Len(taken'[m].replies) = 0 BY <2>2, EmptyList
    <3>4. Len(taken'[m].replies) + Waiting' + Len(asks') = Len(Asks[CodeAt(prefix', n)])
      BY <1>1, <1>8, <3>2, <3>3
    <3>5. \A j \in 1..Len(asks') :
            asks'[j] = Asks[CodeAt(prefix', n)][Len(taken'[m].replies) + Waiting' + j]
      <4> TAKE j \in 1..Len(asks')
      <4>1. 0 + 0 + j = j BY <1>8
      <4> QED BY <1>1, <3>2, <3>3, <4>1
    <3>6. n + Len(taken'[m].replies) = Len(prefix')
      <4>1. n \in Nat BY <1>0, <1>3
      <4>2. n + 0 = n BY <4>1
      <4>3. Len(prefix') = n BY <1>2
      <4> QED BY <3>3, <4>2, <4>3
    <3> QED BY <1>1, <3>1, <3>4, <3>5, <3>6 DEF StillAsked
  <2>5. m = Len(taken') BY <1>0, <1>2
  <2> QED BY <2>1, <2>2, <2>3, <2>4, <2>5 DEF Paired
<1>16. ASSUME NEW i \in Activations(prefix), NEW k \in 1..Len(taken), Paired(i, k)
       PROVE  Paired(i, k)'
  <2>1. /\ CodeAt(prefix', i) = CodeAt(prefix, i)
        /\ OffersAt(definitions, prefix', i) = OffersAt(definitions, prefix, i)
        /\ \A replies : Follows(prefix, i, replies) => Follows(prefix', i, replies)
    BY <1>1, PairsGrow DEF a
  <2>2. taken'[k] = taken[k] /\ k # Len(taken') BY <1>2, <1>3
  <2>3. Len(taken[k].replies) = Len(Asks[CodeAt(prefix, i)])
    <3>1. CASE k # Len(taken) BY <1>16, <3>1 DEF Paired
    <3>2. CASE k = Len(taken)
      <4>1. StillAsked(i, taken[k].replies) BY <1>16, <3>2 DEF Paired
      <4>2. Len(taken[k].replies) \in Nat BY <1>16, ListLength DEF Paired, Follows
      <4> QED BY <1>1, <4>1, <4>2, EmptyList DEF StillAsked
    <3> QED BY <3>1, <3>2
  <2> QED BY <1>16, <2>1, <2>2, <2>3 DEF Paired
<1>17. HistoryPaired'
  <2>1. \A k \in 1..Len(taken') : \E i \in Activations(prefix') : Paired(i, k)'
    <3> TAKE k \in 1..Len(taken')
    <3>1. CASE k = m BY <1>5, <1>15, <3>1
    <3>2. CASE k \in 1..Len(taken)
      <4>1. PICK i \in Activations(prefix) : Paired(i, k)
        BY <3>2 DEF OffersInv, HistoryPaired
      <4> QED BY <1>5, <1>16, <3>2, <4>1
    <3> QED BY <1>0, <1>2, <1>3, <3>1, <3>2
  <2>2. \A i \in Activations(prefix') : \E k \in 1..Len(taken') : Paired(i, k)'
    <3> TAKE i \in Activations(prefix')
    <3>1. CASE i = n
      <4>1. m \in 1..Len(taken') BY <1>0, <1>2, <1>3
      <4> QED BY <1>15, <3>1, <4>1
    <3>2. CASE i \in Activations(prefix)
      <4>1. PICK k \in 1..Len(taken) : Paired(i, k)
        BY <3>2 DEF OffersInv, HistoryPaired
      <4>2. k \in 1..Len(taken') BY <1>2, <1>3
      <4> QED BY <1>16, <3>2, <4>1, <4>2
    <3> QED BY <1>5, <3>1, <3>2
  <2> QED BY <2>1, <2>2 DEF HistoryPaired
<1> QED BY <1>9, <1>10, <1>12, <1>13, <1>14, <1>17 DEF OffersInv

LEMMA OfferUnique ==
  ASSUME NEW defs, NEW r, NEW p, NEW o \in Opportunities(defs, r, p)
  PROVE  OfferedOnly(defs, r, p, o.cand, {x \in Opportunities(defs, r, p) : x.cand = o.cand})
<1>1. ASSUME NEW x \in Opportunities(defs, r, p), x.cand = o.cand PROVE x = o
  <2>1. Matches(defs, o.cand.ref) = {o.definition} BY OfferMatches
  <2>2. Matches(defs, x.cand.ref) = {x.definition} BY OfferMatches
  <2>3. {o.definition} = {x.definition} BY <1>1, <2>1, <2>2
  <2>4. x.definition = o.definition BY <2>3
  <2>5. o = Opportunity(o.definition, Count(defs, p, o.definition) + 1, Signature(r), o.cand,
                        ActionIds(p)) BY OfferIs
  <2>6. x = Opportunity(x.definition, Count(defs, p, x.definition) + 1, Signature(r), x.cand,
                        ActionIds(p)) BY OfferIs
  <2> QED BY <1>1, <2>4, <2>5, <2>6
<1>2. {x \in Opportunities(defs, r, p) : x.cand = o.cand} = {o} BY <1>1
<1> QED BY <1>2 DEF OfferedOnly

LEMMA ChooseKeeps ==
  ASSUME OffersInv, ChooseAction
  PROVE  OffersInv'
<1>1. PICK a \in frontier.actions :
        /\ request # NoRequest /\ frontier.code = "ok"
        /\ prefix' = Append(prefix, a)
        /\ asks' = IF a.kind = "activate_effect" THEN Asks[a.cand.ref.code] ELSE asks
        /\ taken' = CASE a.kind = "activate_effect" ->
                           Append(taken, [offers |-> {o \in frontier.opportunities : o.cand = a.cand},
                                          replies |-> <<>>])
                      [] a.kind = "select" ->
                           [taken EXCEPT ![Len(taken)].replies = Append(@, a)]
                      [] OTHER -> taken
        /\ request' = NoRequest /\ UNCHANGED <<definitions, frontier>>
  BY DEF ChooseAction
<1>2. CASE a.kind = "pass" /\ Window(request)
  <2>1. asks' = asks /\ taken' = taken BY <1>1, <1>2
  <2> QED BY <1>1, <1>2, <2>1, PassKeeps
<1>3. CASE a.kind = "select" /\ ~ Window(request)
  <2>1. asks' = asks /\ taken' = [taken EXCEPT ![Len(taken)].replies = Append(@, a)]
    BY <1>1, <1>3
  <2> DEFINE last == Len(taken)
  <2>2. taken # <<>> /\ IsList(taken)
    BY <1>1, <1>3 DEF OffersInv, ListsInv, RequestShape, Asking
  <2>3. last \in DOMAIN taken BY <2>2, LastOfList
  <2>4. PICK e : e = [taken[last] EXCEPT !.replies = Append(taken[last].replies, a)] OBVIOUS
  <2>5. taken' = [taken EXCEPT ![last] = e] BY <2>1, <2>4
  <2>6. "replies" \in DOMAIN taken[last] BY <2>2, LastOfList DEF OffersInv, ListsInv
  <2>7. e.offers = taken[last].offers BY <2>4
  <2>8. e.replies = Append(taken[last].replies, a) /\ "replies" \in DOMAIN e BY <2>4, <2>6
  <2> QED BY <1>1, <1>3, <2>1, <2>5, <2>7, <2>8, ReplyKeeps
<1>4. CASE /\ request.type = "select_idle_cmd" /\ frontier.opportunities = {}
           /\ \E c \in request.cands : a = Take(request, c)
  <2>1. PICK c \in request.cands : a = Take(request, c) BY <1>4
  <2>2. a.kind = "activate_effect" /\ a.cand = c BY <2>1, TakeFields
  <2>3. Window(request) /\ c.ref.code \in DOMAIN Asks
    BY <1>1, <1>4 DEF Window, OffersInv, RequestShape
  <2>4. PICK e : e = [offers |-> {o \in frontier.opportunities : o.cand = a.cand}, replies |-> <<>>]
    OBVIOUS
  <2>5. e.offers = {} /\ e.replies = <<>> /\ "replies" \in DOMAIN e BY <1>4, <2>4
  <2>6. taken' = Append(taken, e) /\ asks' = Asks[c.ref.code] BY <1>1, <2>2, <2>4
  <2> QED BY <1>1, <1>4, <2>1, <2>3, <2>5, <2>6, ActivationKeeps
<1>5. CASE /\ request.type = "select_chain"
           /\ frontier.opportunities = Opportunities(definitions, request, prefix)
           /\ \E o \in frontier.opportunities : a = Take(request, o.cand)
  <2>1. PICK o \in Opportunities(definitions, request, prefix) : a = Take(request, o.cand)
    BY <1>5
  <2>2. PICK c : c = o.cand OBVIOUS
  <2>3. a.kind = "activate_effect" /\ a.cand = c BY <2>1, <2>2, TakeFields
  <2>4. c \in request.cands BY <2>1, <2>2, OfferCandidate
  <2>5. Window(request) /\ c.ref.code \in DOMAIN Asks
    BY <1>1, <1>5, <2>4 DEF Window, OffersInv, RequestShape
  <2>6. PICK e : e = [offers |-> {x \in frontier.opportunities : x.cand = a.cand}, replies |-> <<>>]
    OBVIOUS
  <2>7. /\ e.offers = {x \in Opportunities(definitions, request, prefix) : x.cand = o.cand}
        /\ e.replies = <<>> /\ "replies" \in DOMAIN e BY <1>5, <2>2, <2>3, <2>6
  <2>8. OfferedOnly(definitions, request, prefix, c, e.offers)
    <3>1. OfferedOnly(definitions, request, prefix, o.cand,
                      {x \in Opportunities(definitions, request, prefix) : x.cand = o.cand})
      BY OfferUnique
    <3> QED BY <2>2, <2>7, <3>1
  <2>9. taken' = Append(taken, e) /\ asks' = Asks[c.ref.code] BY <1>1, <2>3, <2>6
  <2>10. prefix' = Append(prefix, Take(request, c)) BY <1>1, <2>1, <2>2
  <2> QED BY <1>1, <1>5, <2>5, <2>7, <2>8, <2>9, <2>10, ActivationKeeps
<1> QED BY <1>1, <1>2, <1>3, <1>4, <1>5, OfferedActions

LEMMA OffersInit == ASSUME IfInit PROVE OffersInv
<1>1. /\ definitions \in Interruptions /\ Valid(definitions)
      /\ request = NoRequest /\ asks = <<>> /\ prefix = <<>> /\ taken = <<>>
      /\ frontier = Published({}, {}, {}, "") BY DEF IfInit
<1>2. 1..Len(prefix) = {} /\ 1..Len(taken) = {} /\ Activations(prefix) = {}
  <2>1. Len(prefix) = 0 /\ Len(taken) = 0 BY <1>1, EmptyList
  <2>2. 1..Len(prefix) = {} /\ 1..Len(taken) = {} BY <2>1
  <2> QED BY <2>2 DEF Activations
<1>3. ListsInv
  <2>1. IsList(prefix) /\ IsList(taken) BY <1>1, EmptyList
  <2>2. asks \in Seq(AskedRequests) BY <1>1, NoElements
  <2> QED BY <1>1, <1>2, <2>1, <2>2 DEF ListsInv
<1>4. RequestShape BY <1>1 DEF RequestShape, Asking
<1>5. ActivationsKnown /\ HistoryPaired BY <1>2 DEF ActivationsKnown, HistoryPaired
<1>6. LimitsKept
  <2> SUFFICES ASSUME NEW id \in DefinitionIds(definitions)
               PROVE  Count(definitions, prefix, id) <= Definition(definitions, id).max
    BY DEF LimitsKept
  <2>1. ActivationsOf(definitions, prefix, id) = {} BY <1>2 DEF ActivationsOf
  <2>2. Count(definitions, prefix, id) = 0 BY <2>1, FS_EmptySet DEF Count
  <2>3. Definition(definitions, id).max \in Nat
    <3>1. PICK i \in 1..Len(definitions) : id = definitions[i].id BY DEF DefinitionIds
    <3> QED BY <1>1, <3>1, DefinitionFound
  <2> QED BY <2>2, <2>3
<1>7. frontier.opportunities = {} /\ frontier.supported = {} BY <1>1 DEF Published
<1>8. OffersExact /\ TaxonomyMatchesOffers BY <1>7 DEF OffersExact, TaxonomyMatchesOffers
<1> QED BY <1>3, <1>4, <1>5, <1>6, <1>8 DEF OffersInv

LEMMA OffersUnchanged == ASSUME OffersInv, UNCHANGED ifVars PROVE OffersInv'
<1>1. /\ definitions' = definitions /\ request' = request /\ asks' = asks /\ prefix' = prefix
      /\ frontier' = frontier /\ taken' = taken BY DEF ifVars
<1>2. Asking' = Asking /\ Waiting' = Waiting BY <1>1 DEF Asking, Waiting
<1>3. ListsInv' /\ RequestShape' /\ ActivationsKnown' /\ LimitsKept' /\ OffersExact'
      /\ TaxonomyMatchesOffers'
  BY <1>1, <1>2 DEF OffersInv, ListsInv, RequestShape, ActivationsKnown, LimitsKept,
    OffersExact, TaxonomyMatchesOffers, IsList
<1>4. ASSUME NEW i, NEW k, Paired(i, k) PROVE Paired(i, k)'
  BY <1>1, <1>2, <1>4 DEF Paired, StillAsked
<1>5. HistoryPaired' BY <1>1, <1>4 DEF OffersInv, HistoryPaired
<1> QED BY <1>3, <1>5 DEF OffersInv

LEMMA OffersInductive == ASSUME OffersInv, [IfNext]_ifVars PROVE OffersInv'
<1>1. CASE CoreChain \/ CoreIdle BY <1>1, WindowKeeps
<1>2. CASE CoreAsk BY <1>2, AskKeeps
<1>3. CASE ChooseAction BY <1>3, ChooseKeeps
<1>4. CASE UNCHANGED ifVars BY <1>4, OffersUnchanged
<1> QED BY <1>1, <1>2, <1>3, <1>4 DEF IfNext

(* The trace of a Route is what was offered and taken. *)
LEMMA TracedOpportunity ==
  ASSUME NEW defs, NEW p, NEW i, NEW id
  PROVE  TraceRecord(defs, p, i, id).opportunity = OpportunityAt(defs, p, i, id)
BY DEF TraceRecord, OpportunityAt

LEMMA TracedSignature ==
  ASSUME NEW defs, NEW p, NEW i, NEW id
  PROVE  OpportunityAt(defs, p, i, id).sig = p[i].sig
BY DEF OpportunityAt, Opportunity

LEMMA TracedActivation ==
  ASSUME NEW defs, NEW p, NEW x \in Resolved(defs, p)
  PROVE  x[1] \in Activations(p) /\ Matches(defs, RefAt(p, x[1])) = {x[2]}
<1>1. x[1] \in Activations(p) /\ Resolve(defs, RefAt(p, x[1])).ids = {x[2]} BY DEF Resolved
<1>2. PICK ref, id : ref = RefAt(p, x[1]) /\ id = x[2] OBVIOUS
<1>3. Resolve(defs, ref).ids = {id} BY <1>1, <1>2
<1>4. Matches(defs, ref) = {id} BY <1>3, ResolvedIds
<1> QED BY <1>1, <1>2, <1>4

\* An activation of a chain window has its record in the history.
LEMMA ChainActivation ==
  ASSUME OffersInv, NEW i \in Activations(prefix), NEW id,
         Matches(definitions, RefAt(prefix, i)) = {id}, ~ FromIdle(prefix, i)
  PROVE  \E k \in 1..Len(taken) :
           Paired(i, k) /\ taken[k].offers = {OpportunityAt(definitions, prefix, i, id)}
<1>1. PICK k \in 1..Len(taken) : Paired(i, k) BY DEF OffersInv, HistoryPaired
<1>2. OffersAt(definitions, prefix, i) = {OpportunityAt(definitions, prefix, i, y) : y \in {id}}
  BY DEF OffersAt
<1>3. taken[k].offers = {OpportunityAt(definitions, prefix, i, id)}
  BY <1>1, <1>2 DEF Paired
<1> QED BY <1>1, <1>3

LEMMA TakenOffers ==
  ASSUME OffersInv, NEW k \in 1..Len(taken), taken[k].offers # {}
  PROVE  \E i \in Activations(prefix) : \E id :
           /\ Paired(i, k) /\ ~ FromIdle(prefix, i)
           /\ Matches(definitions, RefAt(prefix, i)) = {id}
           /\ taken[k].offers = {OpportunityAt(definitions, prefix, i, id)}
<1>1. PICK i \in Activations(prefix) : Paired(i, k) BY DEF OffersInv, HistoryPaired
<1>2. taken[k].offers = OffersAt(definitions, prefix, i) BY <1>1 DEF Paired
<1>3. ~ FromIdle(prefix, i) BY <1>2 DEF OffersAt
<1>4. PICK id : Matches(definitions, RefAt(prefix, i)) = {id}
  BY <1>3 DEF OffersInv, ActivationsKnown
<1>5. OffersAt(definitions, prefix, i) = {OpportunityAt(definitions, prefix, i, y) : y \in {id}}
  BY <1>3, <1>4 DEF OffersAt
<1>6. taken[k].offers = {OpportunityAt(definitions, prefix, i, id)} BY <1>2, <1>5
<1> QED BY <1>1, <1>3, <1>4, <1>6

LEMMA TraceExact == ASSUME OffersInv PROVE TraceMatchesOffers
<1> DEFINE L == {r.opportunity : r \in {q \in Trace(definitions, prefix) :
                                          q.opportunity.sig[1] = "select_chain"}}
           R == UNION {taken[i].offers : i \in 1..Len(taken)}
<1>1. ASSUME NEW o \in L PROVE o \in R
  <2>1. PICK x \in Resolved(definitions, prefix) :
          /\ o = TraceRecord(definitions, prefix, x[1], x[2]).opportunity
          /\ o.sig[1] = "select_chain" BY <1>1 DEF Trace
  <2>2. PICK i, id : i = x[1] /\ id = x[2] OBVIOUS
  <2>3. /\ i \in Activations(prefix) /\ Matches(definitions, RefAt(prefix, i)) = {id}
        /\ o = OpportunityAt(definitions, prefix, i, id) /\ o.sig = prefix[i].sig
    <3>1. o = TraceRecord(definitions, prefix, i, id).opportunity BY <2>1, <2>2
    <3>2. o = OpportunityAt(definitions, prefix, i, id) BY <3>1, TracedOpportunity
    <3>3. o.sig = prefix[i].sig BY <3>2, TracedSignature
    <3>4. x[1] \in Activations(prefix) /\ Matches(definitions, RefAt(prefix, x[1])) = {x[2]}
      BY TracedActivation
    <3> QED BY <2>2, <3>2, <3>3, <3>4
  <2>4. ~ FromIdle(prefix, i) BY <2>1, <2>3 DEF FromIdle
  <2>5. PICK k \in 1..Len(taken) : taken[k].offers = {OpportunityAt(definitions, prefix, i, id)}
    BY <2>3, <2>4, ChainActivation
  <2>6. o \in taken[k].offers BY <2>3, <2>5
  <2> QED BY <2>6
<1>2. ASSUME NEW o \in R PROVE o \in L
  <2>1. PICK k \in 1..Len(taken) : o \in taken[k].offers BY <1>2
  <2>2. taken[k].offers # {} BY <2>1
  <2>3. PICK i, id :
          /\ i \in Activations(prefix)
          /\ ~ FromIdle(prefix, i) /\ Matches(definitions, RefAt(prefix, i)) = {id}
          /\ taken[k].offers = {OpportunityAt(definitions, prefix, i, id)}
    BY <2>2, TakenOffers
  <2>4. id \in DefinitionIds(definitions) BY <2>3, MatchFound DEF OffersInv, ListsInv
  <2>5. Resolve(definitions, RefAt(prefix, i)).ids = {id}
    <3>1. PICK ref : ref = RefAt(prefix, i) OBVIOUS
    <3>2. Resolve(definitions, ref) = [code |-> "ok", ids |-> {id}] BY <2>3, <3>1, Resolved1
    <3> QED BY <3>1, <3>2
  <2>6. PICK x : x = <<i, id>> OBVIOUS
  <2>7. x \in Resolved(definitions, prefix) /\ x[1] = i /\ x[2] = id
    BY <2>3, <2>4, <2>5, <2>6 DEF Resolved
  <2>8. PICK r : r = TraceRecord(definitions, prefix, i, id) OBVIOUS
  <2>9. r \in Trace(definitions, prefix) BY <2>7, <2>8 DEF Trace
  <2>10. r.opportunity = OpportunityAt(definitions, prefix, i, id) /\ r.opportunity.sig = prefix[i].sig
    <3>1. r.opportunity = OpportunityAt(definitions, prefix, i, id) BY <2>8, TracedOpportunity
    <3>2. r.opportunity.sig = prefix[i].sig BY <3>1, TracedSignature
    <3> QED BY <3>1, <3>2
  <2>11. prefix[i].sig[1] = "select_chain"
    BY <2>3 DEF OffersInv, ActivationsKnown, FromIdle
  <2>12. o = r.opportunity BY <2>1, <2>3, <2>10
  <2> QED BY <2>9, <2>10, <2>11, <2>12
<1> HIDE DEF L, R
<1>3. L = R BY <1>1, <1>2
<1> QED BY <1>3 DEF L, R, TraceMatchesOffers

\* The role of a request is the one its activation asks for.
LEMMA RoleOwned ==
  ASSUME OffersInv, request # NoRequest, frontier.code = "ok", taken # <<>>,
         taken[Len(taken)].offers # {}
  PROVE  frontier.role = request.role
<1> DEFINE k == Len(taken)
<1>1. frontier = FrontierDocument(definitions, request, prefix) BY DEF OffersInv, RequestShape
<1>2. CASE request.type = "select_chain"
  <2>1. request.role = "" BY <1>2 DEF OffersInv, RequestShape, Window
  <2>2. frontier.role = "" BY <1>1, <1>2, ChainPublished
  <2> QED BY <2>1, <2>2
<1>3. CASE request.type # "select_chain"
  <2>1. k \in 1..Len(taken) BY LastOfList DEF OffersInv, ListsInv
  <2>2. PICK i, id : /\ i \in Activations(prefix) /\ Paired(i, k)
                     /\ Matches(definitions, RefAt(prefix, i)) = {id}
    BY <2>1, TakenOffers
  <2> DEFINE d == Definition(definitions, id)
             all == Asks[CodeAt(prefix, i)]
             n == Len(taken[k].replies)
  <2>3. Follows(prefix, i, taken[k].replies) /\ StillAsked(i, taken[k].replies)
    BY <2>2 DEF Paired
  <2>4. /\ \A j \in Activations(prefix) : j <= i
        /\ n + Waiting + Len(asks) = Len(all)
        /\ Asking => request.role = all[n + 1].role
        /\ Asking => i + n = Len(prefix)
        /\ n \in Nat /\ i + n <= Len(prefix)
    BY <2>3, ListLength DEF StillAsked, Follows
  <2>5. Len(d.roles) = Len(all) /\ \A m \in 1..Len(all) : d.roles[m] = all[m].role
    BY <2>2, MatchFound DEF OffersInv, ListsInv, CodeAt
  <2>6. frontier.role = IF Len(prefix) - i >= Len(d.roles) THEN "" ELSE d.roles[Len(prefix) - i + 1]
    <3>1. IsList(prefix) /\ \A j \in Activations(prefix) : j <= i BY <2>4 DEF OffersInv, ListsInv
    <3>2. frontier.role = RoleAt(definitions, prefix, i, id)
      BY <1>1, <1>3, <2>2, <3>1, RoleBound
    <3> QED BY <3>2 DEF RoleAt
  <2>7. i \in Int /\ Len(prefix) \in Nat /\ Len(asks) \in Nat
    BY <2>2, ListLength DEF OffersInv, ListsInv, Activations
  <2> HIDE DEF d, all, n
  <2>8. CASE Window(request)
    <3>1. ~ Asking /\ Waiting = 0 /\ asks = <<>> /\ request.role = ""
      BY <2>8 DEF Asking, Waiting, OffersInv, RequestShape
    <3>2. Len(asks) = 0 BY <3>1, EmptyList
    <3>3. n = Len(all)
      <4>1. n \in Nat /\ n + 0 + 0 = Len(all) BY <2>4, <3>1, <3>2
      <4> QED BY <4>1
    <3>4. Len(prefix) - i >= Len(d.roles) BY <2>4, <2>5, <2>7, <3>3
    <3> QED BY <2>6, <3>1, <3>4
  <2>9. CASE ~ Window(request)
    <3>1. Asking /\ Waiting = 1 BY <2>9 DEF Asking, Waiting
    <3>2. Len(prefix) - i = n BY <2>4, <2>7, <3>1
    <3>3. n + 1 + Len(asks) = Len(all) BY <2>4, <3>1
    <3>4. n + 1 \in 1..Len(all) /\ ~ (n >= Len(all)) BY <2>4, <2>7, <3>3
    <3>5. frontier.role = d.roles[n + 1] BY <2>5, <2>6, <3>2, <3>4
    <3> QED BY <2>4, <2>5, <3>1, <3>4, <3>5
  <2> QED BY <2>8, <2>9
<1> QED BY <1>2, <1>3

\* The replies of a record are those its activation got.
LEMMA RepliesOwned ==
  ASSUME OffersInv, request = NoRequest, asks = <<>>, NEW r \in Trace(definitions, prefix)
  PROVE  \E k \in 1..Len(taken) :
           \/ r.opportunity \in taken[k].offers /\ r.replies = taken[k].replies
           \/ r.opportunity.sig[1] = "select_idle_cmd"
<1>1. PICK x \in Resolved(definitions, prefix) : r = TraceRecord(definitions, prefix, x[1], x[2])
  BY DEF Trace
<1>2. PICK i, id : i = x[1] /\ id = x[2] OBVIOUS
<1>3. /\ i \in Activations(prefix) /\ Matches(definitions, RefAt(prefix, i)) = {id}
      /\ r.opportunity = OpportunityAt(definitions, prefix, i, id) /\ r.opportunity.sig = prefix[i].sig
  <2>1. r = TraceRecord(definitions, prefix, i, id) BY <1>1, <1>2
  <2>2. r.opportunity = OpportunityAt(definitions, prefix, i, id) BY <2>1, TracedOpportunity
  <2>3. r.opportunity.sig = prefix[i].sig BY <2>2, TracedSignature
  <2>4. x[1] \in Activations(prefix) /\ Matches(definitions, RefAt(prefix, x[1])) = {x[2]}
    BY TracedActivation
  <2> QED BY <1>2, <2>2, <2>3, <2>4
<1>4. CASE FromIdle(prefix, i)
  <2>1. PICK k \in 1..Len(taken) : Paired(i, k) BY <1>3 DEF OffersInv, HistoryPaired
  <2>2. r.opportunity.sig[1] = "select_idle_cmd" BY <1>3, <1>4 DEF FromIdle
  <2> QED BY <2>1, <2>2
<1>5. CASE ~ FromIdle(prefix, i)
  <2>1. PICK k \in 1..Len(taken) :
          Paired(i, k) /\ taken[k].offers = {OpportunityAt(definitions, prefix, i, id)}
    BY <1>3, <1>5, ChainActivation
  <2> DEFINE got == taken[k].replies
             all == Asks[CodeAt(prefix, i)]
             roles == Definition(definitions, id).roles
  <2>2. Follows(prefix, i, got) BY <2>1 DEF Paired
  <2>3. Len(got) \in Nat /\ got = [n \in 1..Len(got) |-> got[n]]
    BY <2>2, ListIs DEF Follows
  <2>4. Len(got) = Len(all)
    <3>1. CASE k # Len(taken) BY <2>1, <3>1 DEF Paired
    <3>2. CASE k = Len(taken)
      <4>1. StillAsked(i, got) BY <2>1, <3>2 DEF Paired
      <4>2. Waiting = 0 /\ Len(asks) = 0 BY EmptyList DEF Waiting, Asking
      <4> HIDE DEF got
      <4>3. Len(got) + 0 + 0 = Len(all) BY <4>1, <4>2 DEF StillAsked
      <4> QED BY <2>3, <4>3
    <3> QED BY <3>1, <3>2
  <2>5. Len(roles) = Len(all) BY <1>3, MatchFound DEF OffersInv, ListsInv, CodeAt
  <2>6. r.replies = [n \in 1..Len(roles) |-> prefix[i + n]]
    BY <1>1, <1>2 DEF TraceRecord
  <2>7. \A n \in 1..Len(got) : got[n] = prefix[i + n] BY <2>2 DEF Follows
  <2> HIDE DEF got, all, roles
  <2>8. r.replies = got BY <2>3, <2>4, <2>5, <2>6, <2>7
  <2> QED BY <1>3, <2>1, <2>8 DEF got
<1> QED BY <1>4, <1>5

LEMMA OffersImply == ASSUME OffersInv PROVE OffersTraced
<1>1. ResponsesOwned BY RoleOwned, RepliesOwned DEF ResponsesOwned
<1>2. AmbiguityFailsClosed
  <2>1. \A i \in Activations(prefix) :
          FromIdle(prefix, i) \/ \E id : Matches(definitions, RefAt(prefix, i)) = {id}
    BY DEF OffersInv, ActivationsKnown
  <2>2. \A id : Cardinality({id}) = 1 BY FS_Singleton
  <2>3. \A i \in Activations(prefix) :
          FromIdle(prefix, i) \/ Cardinality(Matches(definitions, RefAt(prefix, i))) = 1
    BY <2>1, <2>2
  <2> QED BY <2>3 DEF OffersInv, OffersExact, AmbiguityFailsClosed
<1>3. TraceMatchesOffers BY TraceExact
<1> QED BY <1>1, <1>2, <1>3 DEF OffersInv, OffersTraced

(* Whatever windows the core opens and however the search answers them,    *)
(* limits hold along the offered frontiers, a candidate of two definitions *)
(* stops the frontier, replies are bound to the activation that asked, and *)
(* the trace that real_core.py rebuilds from the finished Route names the  *)
(* opportunities that were offered and taken, with the replies they got.   *)
THEOREM OffersSafety == IfSpec => []OffersTraced
<1>1. IfInit => OffersInv BY OffersInit
<1>2. OffersInv /\ [IfNext]_ifVars => OffersInv' BY OffersInductive
<1>3. OffersInv => OffersTraced BY OffersImply
<1> QED BY <1>1, <1>2, <1>3, PTL DEF IfSpec

(* CardInstance: the tracker reads its scans late, in batches. First, a set of numbers
   that holds 0 and with n < m also n + 1 holds 0..m. *)
LEMMA LeastNumber ==
  ASSUME NEW m \in Nat, NEW S, 0 \in S, \A n \in 0..(m - 1) : n \in S => n + 1 \in S
  PROVE  \A n \in 0..m : n \in S
<1> SUFFICES ASSUME NEW z \in 0..m, z \notin S PROVE FALSE OBVIOUS
<1> DEFINE missing == {n \in 0..m : n \notin S}
           below == {ss \in Nat \X Nat : ss[1] < ss[2]}
<1>1. missing \in SUBSET Nat /\ missing # {} OBVIOUS
<1>2. IsWellFoundedOn(below, Nat) BY NatLessThanWellFounded DEF OpToRel
<1>3. PICK x \in missing : \A y \in missing : ~ (<<y, x>> \in below)
  <2> HIDE DEF missing, below
  <2> QED BY <1>1, <1>2, WFMin
<1>4. x # 0 /\ x \in 1..m OBVIOUS
<1>5. x - 1 \in 0..(m - 1) /\ x - 1 \in 0..m /\ (x - 1) + 1 = x /\ <<x - 1, x>> \in below BY <1>4
<1>6. x - 1 \in S BY <1>3, <1>5
<1>7. (x - 1) + 1 \in S BY <1>5, <1>6
<1> QED BY <1>5, <1>7

CardPlaces == [CiCards -> Spots \cup {Gone}]
ScanRecords == [id : Int, place : CardPlaces]
MoveKinds == {"generated_token", "control_change", "deck_to_hand_pending", "salvage",
              "sequence_change", "location_move", "draw", "search"}
CardMoves == [card : CiCards, to : {s.at : s \in Spots \cup {Gone}}, scan : Int,
              kind : MoveKinds]
TrackerRecords ==
  [state : {"ok", "raised", "ended"}, last : Int, latest : CardPlaces, current : CardPlaces,
   visible : [Keys -> BOOLEAN], epoch : [Keys -> Int], moves : Seq(CardMoves), synced : Int]

\* Movements are only added.
Grows(t, u) ==
  /\ u.state = t.state /\ u.synced = t.synced
  /\ Len(t.moves) <= Len(u.moves)
  /\ \A i \in 1..Len(t.moves) : u.moves[i] = t.moves[i]

\* The last movement of a card ends where it was last seen.
MovesLead(t) ==
  \A c \in CiCards : \A i \in 1..Len(t.moves) : t.moves[i].card = c =>
    /\ t.latest[c] # Gone
    /\ (\A j \in 1..Len(t.moves) : t.moves[j].card = c => j <= i) =>
         t.moves[i].to = t.latest[c].at

SameSight(t, u) == u.visible = t.visible /\ u.epoch = t.epoch

\* From t to u the cards of C were met at their place.
Met(t, place, C, u) ==
  \A e \in CiCards :
    u.latest[e] = IF e \in C /\ place[e] # Gone THEN place[e] ELSE t.latest[e]

\* So the cards of C were applied, and nothing else happened.
Applied(t, place, C, u) ==
  /\ u \in TrackerRecords /\ Grows(t, u) /\ SameSight(t, u) /\ Met(t, place, C, u)
  /\ MovesLead(t) => MovesLead(u)

\* A scan brings t to v.
Scanned(t, place, v) ==
  /\ v \in TrackerRecords /\ Grows(t, v) /\ v.current = place
  /\ Met(t, place, CiCards, v)
  /\ \A k \in Keys :
       LET sight == Visible(k[2], place[k[2]], k[1])
       IN /\ v.visible[k] = sight
          /\ v.epoch[k] = IF sight /\ ~t.visible[k] THEN t.epoch[k] + 1 ELSE t.epoch[k]
  /\ MovesLead(t) => MovesLead(v)

LEMMA GrowsTransitive ==
  ASSUME NEW t \in TrackerRecords, NEW u \in TrackerRecords, NEW v \in TrackerRecords,
         Grows(t, u), Grows(u, v)
  PROVE  Grows(t, v)
<1>1. Len(t.moves) \in Nat /\ Len(u.moves) \in Nat /\ Len(v.moves) \in Nat
  BY DEF TrackerRecords
<1> QED BY <1>1 DEF Grows

LEMMA CardMoved ==
  ASSUME NEW t \in TrackerRecords, NEW c \in CiCards, NEW after \in Spots \cup {Gone},
         NEW id \in Int
  PROVE  [card |-> c, to |-> after.at, scan |-> id,
          kind |-> MoveKind(c, t.latest[c], after)] \in CardMoves
<1>1. MoveKind(c, t.latest[c], after) \in MoveKinds BY DEF MoveKind, MoveKinds
<1> QED BY <1>1 DEF CardMoves

\* One card of a scan.
LEMMA CardApplied ==
  ASSUME NEW t \in TrackerRecords, NEW c \in CiCards, NEW place \in CardPlaces,
         NEW id \in Int, NEW scan, scan = [id |-> id, place |-> place]
  PROVE  Applied(t, place, {c}, ApplyCard(t, c, scan))
<1> DEFINE u == ApplyCard(t, c, scan)
           after == place[c]
           before == t.latest[c]
           quiet == \/ before = Gone /\ c \notin CiTokens
                    \/ before # Gone /\ before.at = after.at
           new == [card |-> c, to |-> after.at, scan |-> id,
                   kind |-> MoveKind(c, before, after)]
<1>1. after \in Spots \cup {Gone} BY DEF CardPlaces
<1>2. t.moves \in Seq(CardMoves) /\ t.latest \in CardPlaces /\ Len(t.moves) \in Nat
  BY DEF TrackerRecords
<1>3. CASE after = Gone
  <2>1. u = t BY <1>3 DEF ApplyCard
  <2>2. Grows(t, u) BY <1>2, <2>1 DEF Grows
  <2> QED BY <1>3, <2>1, <2>2 DEF Applied, SameSight, Met
<1>4. CASE after # Gone
  <2>1. u = [t EXCEPT !.moves = IF quiet THEN t.moves ELSE Append(t.moves, new),
                      !.latest[c] = after] BY <1>4 DEF ApplyCard, Transition
  <2>2. new \in CardMoves BY <1>1, CardMoved
  <2> DEFINE moves == IF quiet THEN t.moves ELSE Append(t.moves, new)
  <2>4. moves \in Seq(CardMoves) BY <1>2, <2>2
  <2>5. /\ quiet => moves = t.moves
        /\ ~ quiet => moves = Append(t.moves, new) OBVIOUS
  <2>6. quiet => (before # Gone /\ before.at = after.at) \/ before = Gone OBVIOUS
  <2>7. new.card = c /\ new.to = after.at OBVIOUS
  <2> HIDE DEF moves, quiet, new, after, before
  <2>8. /\ u \in TrackerRecords /\ u.moves = moves
        /\ u.state = t.state /\ u.synced = t.synced /\ SameSight(t, u)
        /\ \A e \in CiCards : u.latest[e] = IF e = c THEN after ELSE t.latest[e]
    <3>1. [t.latest EXCEPT ![c] = after] \in CardPlaces BY <1>1, <1>2 DEF CardPlaces
    <3>2. u = [t EXCEPT !.moves = moves, !.latest = [t.latest EXCEPT ![c] = after]]
      BY <2>1 DEF moves, TrackerRecords
    <3>3. \A e \in CiCards :
            [t.latest EXCEPT ![c] = after][e] = IF e = c THEN after ELSE t.latest[e]
      BY <1>2 DEF CardPlaces
    <3> HIDE DEF u
    <3>4. PICK latest : latest = [t.latest EXCEPT ![c] = after] OBVIOUS
    <3>5. u = [t EXCEPT !.moves = moves, !.latest = latest] /\ latest \in CardPlaces
      BY <3>1, <3>2, <3>4
    <3>6. u \in TrackerRecords /\ u.moves = moves /\ u.latest = latest
          /\ u.state = t.state /\ u.synced = t.synced /\ u.visible = t.visible /\ u.epoch = t.epoch
      BY <2>4, <3>5 DEF TrackerRecords
    <3> QED BY <3>3, <3>4, <3>6 DEF SameSight
  <2> HIDE DEF u
  <2>9. Grows(t, u)
    <3>1. CASE quiet BY <1>2, <2>5, <2>8, <3>1 DEF Grows
    <3>2. CASE ~ quiet BY <1>2, <2>2, <2>5, <2>8, <3>2 DEF Grows
    <3> QED BY <3>1, <3>2
  <2>10. Met(t, place, {c}, u)
    <3>1. \A e \in CiCards :
            u.latest[e] = IF e \in {c} /\ place[e] # Gone THEN place[e] ELSE t.latest[e]
      BY <1>4, <2>8 DEF after
    <3> QED BY <3>1 DEF Met
  <2>11. ASSUME MovesLead(t), NEW e \in CiCards, NEW i \in 1..Len(u.moves), u.moves[i].card = e
         PROVE  /\ u.latest[e] # Gone
                /\ (\A j \in 1..Len(u.moves) : u.moves[j].card = e => j <= i) =>
                     u.moves[i].to = u.latest[e].at
    <3>1. CASE quiet
      <4>1. u.moves = t.moves BY <2>5, <2>8, <3>1
      <4>2. /\ t.latest[e] # Gone
            /\ (\A j \in 1..Len(t.moves) : t.moves[j].card = e => j <= i) =>
                     t.moves[i].to = t.latest[e].at BY <2>11, <4>1 DEF MovesLead
      <4>3. CASE e = c
        <5>1. before # Gone /\ before.at = after.at BY <2>6, <3>1, <4>2, <4>3 DEF before
        <5>2. t.latest[e].at = after.at BY <4>3, <5>1 DEF before
        <5>3. u.latest[e] = after BY <2>8, <4>3
        <5> QED BY <1>4, <4>1, <4>2, <5>2, <5>3
      <4>4. CASE e # c
        <5>1. u.latest[e] = t.latest[e] BY <2>8, <4>4
        <5> QED BY <4>1, <4>2, <5>1
      <4> QED BY <4>3, <4>4
    <3>2. CASE ~ quiet
      <4>1. /\ Len(u.moves) = Len(t.moves) + 1 /\ u.moves[Len(t.moves) + 1] = new
            /\ \A j \in 1..Len(t.moves) : u.moves[j] = t.moves[j]
        BY <1>2, <2>2, <2>5, <2>8, <3>2
      <4>2. CASE i = Len(t.moves) + 1
        <5>1. e = c /\ u.moves[i].to = after.at BY <2>7, <2>11, <4>1, <4>2
        <5>2. u.latest[e] = after BY <2>8, <5>1
        <5> QED BY <1>4, <5>1, <5>2
      <4>3. CASE i # Len(t.moves) + 1
        <5>1. i \in 1..Len(t.moves) /\ t.moves[i].card = e /\ u.moves[i] = t.moves[i]
          BY <1>2, <2>11, <4>1, <4>3
        <5>2. /\ t.latest[e] # Gone
              /\ (\A j \in 1..Len(t.moves) : t.moves[j].card = e => j <= i) =>
                     t.moves[i].to = t.latest[e].at BY <2>11, <5>1 DEF MovesLead
        <5>3. CASE e = c
          <6>1. ~ (\A j \in 1..Len(u.moves) : u.moves[j].card = e => j <= i)
            <7>1. Len(t.moves) + 1 \in 1..Len(u.moves) BY <1>2, <4>1
            <7>2. u.moves[Len(t.moves) + 1].card = e BY <2>7, <4>1, <5>3
            <7>3. ~ (Len(t.moves) + 1 <= i) BY <1>2, <5>1
            <7> QED BY <7>1, <7>2, <7>3
          <6>2. u.latest[e] = after BY <2>8, <5>3
          <6> QED BY <1>4, <6>1, <6>2
        <5>4. CASE e # c
          <6>1. u.latest[e] = t.latest[e] BY <2>8, <5>4
          <6>2. \A j \in 1..Len(t.moves) : j \in 1..Len(u.moves) BY <1>2, <4>1
          <6>3. (\A j \in 1..Len(u.moves) : u.moves[j].card = e => j <= i) =>
                  (\A j \in 1..Len(t.moves) : t.moves[j].card = e => j <= i)
            BY <4>1, <6>2
          <6> QED BY <5>1, <5>2, <6>1, <6>3
        <5> QED BY <5>3, <5>4
      <4> QED BY <4>2, <4>3
    <3> QED BY <3>1, <3>2
  <2>12. MovesLead(t) => MovesLead(u) BY <2>11 DEF MovesLead
  <2> QED BY <2>8, <2>9, <2>10, <2>12 DEF Applied, u
<1> QED BY <1>3, <1>4

\* One card more.
LEMMA CardsApplied ==
  ASSUME NEW t \in TrackerRecords, NEW u, NEW C, NEW c \in CiCards, NEW place \in CardPlaces,
         NEW id \in Int, NEW scan, scan = [id |-> id, place |-> place],
         Applied(t, place, C, u)
  PROVE  Applied(t, place, C \cup {c}, ApplyCard(u, c, scan))
<1> DEFINE v == ApplyCard(u, c, scan)
<1>1. u \in TrackerRecords /\ Grows(t, u) /\ SameSight(t, u) /\ Met(t, place, C, u)
      /\ (MovesLead(t) => MovesLead(u)) BY DEF Applied
<1>2. Applied(u, place, {c}, v) BY <1>1, CardApplied
<1> HIDE DEF v
<1>3. v \in TrackerRecords /\ Grows(u, v) /\ SameSight(u, v) /\ Met(u, place, {c}, v)
      /\ (MovesLead(u) => MovesLead(v)) BY <1>2 DEF Applied
<1>4. Grows(t, v) BY <1>1, <1>3, GrowsTransitive
<1>5. SameSight(t, v) BY <1>1, <1>3 DEF SameSight
<1>6. Met(t, place, C \cup {c}, v) BY <1>1, <1>3 DEF Met
<1>7. Applied(t, place, C \cup {c}, v) BY <1>1, <1>3, <1>4, <1>5, <1>6 DEF Applied
<1> QED BY <1>7 DEF v

(* One scan. *)
\* The recursive function of ApplyScan.
IsSweep(t, scan, order, n, f) ==
  f = [k \in 0..n |-> IF k = 0 THEN Aliases(t, scan.place)
                      ELSE ApplyCard(f[k - 1], order[k], scan)]

\* It exists for every number of cards.
LEMMA SweepExists ==
  ASSUME NEW t, NEW scan, NEW order, NEW n \in Nat
  PROVE  \E f : IsSweep(t, scan, order, n, f)
<1> DEFINE ok(k) == \E f : IsSweep(t, scan, order, k, f)
           S == {k \in 0..n : ok(k)}
           first == Aliases(t, scan.place)
<1>1. ok(0)
  <2> DEFINE f == [i \in 0..0 |-> first]
  <2>1. f = [i \in 0..0 |-> IF i = 0 THEN first ELSE ApplyCard(f[i - 1], order[i], scan)]
    OBVIOUS
  <2> QED BY <2>1 DEF IsSweep
<1>2. ASSUME NEW k \in 0..(n - 1), ok(k) PROVE ok(k + 1)
  <2>1. PICK f : f = [i \in 0..k |-> IF i = 0 THEN first ELSE ApplyCard(f[i - 1], order[i], scan)]
    BY <1>2 DEF IsSweep
  <2> DEFINE last == ApplyCard(f[k], order[k + 1], scan)
             g == [i \in 0..(k + 1) |-> IF i = k + 1 THEN last ELSE f[i]]
  <2> HIDE DEF first
  <2>2. \A i \in 0..k : f[i] = IF i = 0 THEN first ELSE ApplyCard(f[i - 1], order[i], scan)
    BY <2>1
  <2>3. ASSUME NEW i \in 0..(k + 1)
        PROVE  g[i] = IF i = 0 THEN first ELSE ApplyCard(g[i - 1], order[i], scan)
    <3>1. CASE i = k + 1
      <4>1. i - 1 = k /\ k # k + 1 /\ i # 0 /\ k \in 0..(k + 1) BY <3>1
      <4>2. g[i - 1] = f[k] BY <4>1
      <4> QED BY <3>1, <4>1, <4>2
    <3>2. CASE i # k + 1
      <4>1. i \in 0..k BY <3>2
      <4>2. i # 0 => i - 1 \in 0..k /\ i - 1 \in 0..(k + 1) /\ i - 1 # k + 1 BY <4>1
      <4>3. i # 0 => g[i - 1] = f[i - 1] BY <4>2
      <4>4. g[i] = f[i] BY <3>2
      <4> QED BY <2>2, <4>1, <4>3, <4>4
    <3> QED BY <3>1, <3>2
  <2>4. g = [i \in 0..(k + 1) |-> g[i]] OBVIOUS
  <2> HIDE DEF g
  <2>5. g = [i \in 0..(k + 1) |-> IF i = 0 THEN first ELSE ApplyCard(g[i - 1], order[i], scan)]
    BY <2>3, <2>4
  <2> QED BY <2>5 DEF IsSweep, first
<1> HIDE DEF ok
<1>3. \A k \in 0..n : k \in S
  <2>1. 0 \in S BY <1>1
  <2>2. \A k \in 0..(n - 1) : k \in S => k + 1 \in S BY <1>2
  <2> HIDE DEF S
  <2> QED BY <2>1, <2>2, LeastNumber
<1>4. ok(n) BY <1>3
<1> QED BY <1>4 DEF ok

Sweep(t, scan, order, n) == CHOOSE f : IsSweep(t, scan, order, n, f)

\* What a viewer is shown of a card it comes to see.
LEMMA SightUpdated ==
  ASSUME NEW t \in TrackerRecords, NEW place \in CardPlaces
  PROVE  LET u == Aliases(t, place)
         IN /\ u \in TrackerRecords /\ Grows(t, u) /\ u.latest = t.latest
            /\ \A k \in Keys :
                 LET sight == Visible(k[2], place[k[2]], k[1])
                 IN /\ u.visible[k] = sight
                    /\ u.epoch[k] = IF sight /\ ~t.visible[k] THEN t.epoch[k] + 1 ELSE t.epoch[k]
            /\ MovesLead(t) => MovesLead(u)
<1> DEFINE u == Aliases(t, place)
           vis(k) == Visible(k[2], place[k[2]], k[1])
           epoch == [k \in Keys |-> IF vis(k) /\ ~t.visible[k] THEN t.epoch[k] + 1
                                    ELSE t.epoch[k]]
           visible == [k \in Keys |-> vis(k)]
<1>1. u = [t EXCEPT !.epoch = epoch, !.visible = visible] BY DEF Aliases, TrackerRecords
<1>2. \A k \in Keys : vis(k) \in BOOLEAN BY DEF Visible
<1>3. visible \in [Keys -> BOOLEAN] BY <1>2
<1>4. epoch \in [Keys -> Int]
  <2>1. t.epoch \in [Keys -> Int] BY DEF TrackerRecords
  <2> QED BY <2>1
<1>5. \A k \in Keys : visible[k] = vis(k) OBVIOUS
<1>6. \A k \in Keys : epoch[k] = IF vis(k) /\ ~t.visible[k] THEN t.epoch[k] + 1 ELSE t.epoch[k]
  OBVIOUS
<1> HIDE DEF visible, epoch, u, vis
<1>7. /\ u \in TrackerRecords /\ u.epoch = epoch /\ u.visible = visible /\ u.latest = t.latest
      /\ u.moves = t.moves /\ u.state = t.state /\ u.synced = t.synced
  BY <1>1, <1>3, <1>4 DEF TrackerRecords
<1>8. Grows(t, u)
  <2>1. Len(t.moves) \in Nat BY DEF TrackerRecords
  <2> QED BY <1>7, <2>1 DEF Grows
<1>9. MovesLead(t) => MovesLead(u) BY <1>7 DEF MovesLead
<1> QED BY <1>5, <1>6, <1>7, <1>8, <1>9 DEF u, vis

\* A scan applies all cards.
LEMMA ScanApplied ==
  ASSUME NEW t \in TrackerRecords, NEW place \in CardPlaces, NEW id \in Int,
         NEW scan, scan = [id |-> id, place |-> place]
  PROVE  Scanned(t, place, ApplyScan(t, scan))
<1> DEFINE n == Cardinality(CiCards)
           order == CHOOSE s \in [1..n -> CiCards] : \A c \in CiCards : \E i \in DOMAIN s : s[i] = c
           f == Sweep(t, scan, order, n)
           first == Aliases(t, place)
           v == ApplyScan(t, scan)
<1>1. n \in Nat /\ \E s \in [1..n -> CiCards] : \A c \in CiCards : \E i \in DOMAIN s : s[i] = c
  <2>1. n \in Nat BY CardsAssumption, FS_CardinalityType
  <2>2. ExistsBijection(1..n, CiCards) BY CardsAssumption, <2>1, FS_NatBijection, FS_CardinalityType
  <2>3. PICK s \in Bijection(1..n, CiCards) : TRUE BY <2>2 DEF ExistsBijection
  <2>4. s \in [1..n -> CiCards] /\ \A c \in CiCards : \E i \in 1..n : s[i] = c
    BY <2>3 DEF Bijection, Injection, Surjection
  <2> QED BY <2>1, <2>4
<1>2. order \in [1..n -> CiCards] /\ \A c \in CiCards : \E i \in 1..n : order[i] = c
  BY <1>1
<1>3. Len(order) = n BY <1>1, <1>2
<1>4. v = [f[n] EXCEPT !.current = place, !.last = id]
  <2>1. v = [f[Len(order)] EXCEPT !.current = place, !.last = id]
    BY <1>3 DEF ApplyScan, Sweep, IsSweep, CurrentPlaces
  <2> QED BY <1>3, <2>1
<1> HIDE DEF order, v, n
<1>5. IsSweep(t, scan, order, n, f) BY <1>1, SweepExists, Zenon DEF Sweep
<1> HIDE DEF f
<1>6. /\ first \in TrackerRecords /\ Grows(t, first) /\ first.latest = t.latest
      /\ \A k \in Keys :
           LET sight == Visible(k[2], place[k[2]], k[1])
           IN /\ first.visible[k] = sight
              /\ first.epoch[k] = IF sight /\ ~t.visible[k] THEN t.epoch[k] + 1 ELSE t.epoch[k]
      /\ MovesLead(t) => MovesLead(first) BY SightUpdated
<1> HIDE DEF first
<1>7. f[0] = first /\ \A k \in 1..n : f[k] = ApplyCard(f[k - 1], order[k], scan)
  <2>1. 0 \in 0..n /\ \A k \in 1..n : k \in 0..n /\ k # 0 BY <1>1
  <2> QED BY <1>5, <2>1 DEF IsSweep, first
<1> DEFINE done(k) == {order[i] : i \in 1..k}
           S == {k \in 0..n : Applied(first, place, done(k), f[k])}
<1>8. 0 \in S
  <2>1. Grows(first, first)
    <3>1. Len(first.moves) \in Nat BY <1>6 DEF TrackerRecords
    <3> QED BY <3>1 DEF Grows
  <2>2. done(0) = {} OBVIOUS
  <2>3. Applied(first, place, {}, first) BY <1>6, <2>1 DEF Applied, SameSight, Met
  <2>4. Applied(first, place, done(0), f[0]) BY <1>7, <2>2, <2>3
  <2> HIDE DEF done
  <2> QED BY <1>1, <2>4
<1>9. ASSUME NEW k \in 0..(n - 1), k \in S PROVE k + 1 \in S
  <2>1. k + 1 \in 1..n /\ (k + 1) - 1 = k /\ k + 1 \in 0..n BY <1>1
  <2>2. order[k + 1] \in CiCards BY <1>2, <2>1
  <2>3. done(k + 1) = done(k) \cup {order[k + 1]}
    <3>1. 1..(k + 1) = 1..k \cup {k + 1} OBVIOUS
    <3> QED BY <3>1
  <2>4. f[k + 1] = ApplyCard(f[k], order[k + 1], scan) BY <1>7, <2>1
  <2>5. Applied(first, place, done(k), f[k]) BY <1>9
  <2> HIDE DEF done, S
  <2>6. Applied(first, place, done(k) \cup {order[k + 1]}, ApplyCard(f[k], order[k + 1], scan))
    BY <1>6, <2>2, <2>5, CardsApplied
  <2>7. Applied(first, place, done(k + 1), f[k + 1]) BY <2>3, <2>4, <2>6
  <2> QED BY <2>1, <2>7 DEF S
<1>10. Applied(first, place, CiCards, f[n])
  <2> HIDE DEF S
  <2>1. n \in S
    <3>1. \A k \in 0..n : k \in S BY <1>1, <1>8, <1>9, LeastNumber
    <3> QED BY <1>1, <3>1
  <2>2. Applied(first, place, done(n), f[n]) BY <2>1 DEF S
  <2>3. done(n) = CiCards BY <1>2
  <2> QED BY <2>2, <2>3
<1> DEFINE last == f[n]
<1>11. last \in TrackerRecords /\ Grows(first, last) /\ SameSight(first, last)
       /\ Met(first, place, CiCards, last) /\ (MovesLead(first) => MovesLead(last))
  BY <1>10 DEF Applied
<1>12. v = [last EXCEPT !.current = place, !.last = id] BY <1>4
<1> HIDE DEF last
<1>13. /\ v \in TrackerRecords /\ v.current = place /\ v.latest = last.latest
       /\ v.moves = last.moves /\ v.state = last.state /\ v.synced = last.synced
       /\ v.visible = last.visible /\ v.epoch = last.epoch
  BY <1>11, <1>12 DEF TrackerRecords
<1>14. Grows(t, v)
  <2>1. Grows(t, last) BY <1>6, <1>11, GrowsTransitive
  <2> QED BY <1>13, <2>1 DEF Grows
<1>15. Met(t, place, CiCards, v) BY <1>6, <1>11, <1>13 DEF Met
<1>16. MovesLead(t) => MovesLead(v)
  <2>1. MovesLead(last) => MovesLead(v) BY <1>13 DEF MovesLead
  <2> QED BY <1>6, <1>11, <2>1
<1>17. \A k \in Keys :
         LET sight == Visible(k[2], place[k[2]], k[1])
         IN /\ v.visible[k] = sight
            /\ v.epoch[k] = IF sight /\ ~t.visible[k] THEN t.epoch[k] + 1 ELSE t.epoch[k]
  BY <1>6, <1>11, <1>13 DEF SameSight
<1> QED BY <1>13, <1>14, <1>15, <1>16, <1>17 DEF Scanned, v

(* A batch of scans. *)
\* The recursive function of Consume.
IsRun(t, scans, n, f) ==
  f = [k \in 0..n |-> IF k = 0 THEN t ELSE ApplyScan(f[k - 1], scans[k])]

\* It exists for every batch.
LEMMA RunExists ==
  ASSUME NEW t, NEW scans, NEW n \in Nat PROVE \E f : IsRun(t, scans, n, f)
<1> DEFINE ok(k) == \E f : IsRun(t, scans, k, f)
           S == {k \in 0..n : ok(k)}
<1>1. ok(0)
  <2> DEFINE f == [i \in 0..0 |-> t]
  <2>1. f = [i \in 0..0 |-> IF i = 0 THEN t ELSE ApplyScan(f[i - 1], scans[i])] OBVIOUS
  <2> QED BY <2>1 DEF IsRun
<1>2. ASSUME NEW k \in 0..(n - 1), ok(k) PROVE ok(k + 1)
  <2>1. PICK f : f = [i \in 0..k |-> IF i = 0 THEN t ELSE ApplyScan(f[i - 1], scans[i])]
    BY <1>2 DEF IsRun
  <2> DEFINE last == ApplyScan(f[k], scans[k + 1])
             g == [i \in 0..(k + 1) |-> IF i = k + 1 THEN last ELSE f[i]]
  <2>2. \A i \in 0..k : f[i] = IF i = 0 THEN t ELSE ApplyScan(f[i - 1], scans[i])
    BY <2>1
  <2>3. ASSUME NEW i \in 0..(k + 1)
        PROVE  g[i] = IF i = 0 THEN t ELSE ApplyScan(g[i - 1], scans[i])
    <3>1. CASE i = k + 1
      <4>1. i - 1 = k /\ k # k + 1 /\ i # 0 /\ k \in 0..(k + 1) BY <3>1
      <4>2. g[i - 1] = f[k] BY <4>1
      <4> QED BY <3>1, <4>1, <4>2
    <3>2. CASE i # k + 1
      <4>1. i \in 0..k BY <3>2
      <4>2. i # 0 => i - 1 \in 0..k /\ i - 1 \in 0..(k + 1) /\ i - 1 # k + 1 BY <4>1
      <4>3. i # 0 => g[i - 1] = f[i - 1] BY <4>2
      <4>4. g[i] = f[i] BY <3>2
      <4> QED BY <2>2, <4>1, <4>3, <4>4
    <3> QED BY <3>1, <3>2
  <2>4. g = [i \in 0..(k + 1) |-> g[i]] OBVIOUS
  <2> HIDE DEF g
  <2>5. g = [i \in 0..(k + 1) |-> IF i = 0 THEN t ELSE ApplyScan(g[i - 1], scans[i])]
    BY <2>3, <2>4
  <2> QED BY <2>5 DEF IsRun
<1> HIDE DEF ok
<1>3. \A k \in 0..n : k \in S
  <2>1. 0 \in S BY <1>1
  <2>2. \A k \in 0..(n - 1) : k \in S => k + 1 \in S BY <1>2
  <2> HIDE DEF S
  <2> QED BY <2>1, <2>2, LeastNumber
<1>4. ok(n) BY <1>3
<1> QED BY <1>4 DEF ok

BatchRun(t, scans, n) == CHOOSE f : IsRun(t, scans, n, f)

LEMMA RunSteps ==
  ASSUME NEW t, NEW scans, NEW n \in Nat
  PROVE  /\ BatchRun(t, scans, n)[0] = t
         /\ \A i \in 1..n : BatchRun(t, scans, n)[i] = ApplyScan(BatchRun(t, scans, n)[i - 1], scans[i])
<1>1. PICK f : f = BatchRun(t, scans, n) OBVIOUS
<1>2. IsRun(t, scans, n, f) BY <1>1, RunExists, Zenon DEF BatchRun
<1>3. 0 \in 0..n /\ \A i \in 1..n : i \in 0..n /\ i # 0 OBVIOUS
<1> QED BY <1>1, <1>2, <1>3 DEF IsRun

LEMMA ConsumeRun ==
  ASSUME NEW t, NEW scans, Len(scans) \in Nat
  PROVE  Consume(t, scans) = BatchRun(t, scans, Len(scans))[Len(scans)]
BY DEF Consume, BatchRun, IsRun

LEMMA ConsumeNone == ASSUME NEW t PROVE Consume(t, <<>>) = t
<1>1. Len(<<>>) = 0 OBVIOUS
<1>2. PICK e : e = <<>> OBVIOUS
<1>3. Consume(t, e) = BatchRun(t, e, 0)[0] BY <1>1, <1>2, ConsumeRun
<1> QED BY <1>2, <1>3, RunSteps

\* A batch with one scan more.
LEMMA ConsumeStep ==
  ASSUME NEW t, NEW scans \in Seq(ScanRecords), NEW s \in ScanRecords
  PROVE  Consume(t, Append(scans, s)) = ApplyScan(Consume(t, scans), s)
<1> DEFINE n == Len(scans)
           more == Append(scans, s)
           f == BatchRun(t, scans, n)
           g == BatchRun(t, more, n + 1)
           S == {i \in 0..n : f[i] = g[i]}
<1>1. n \in Nat /\ Len(more) = n + 1 /\ more[n + 1] = s /\ \A i \in 1..n : more[i] = scans[i]
  OBVIOUS
<1> HIDE DEF n, more
<1>2. f[0] = t /\ \A i \in 1..n : f[i] = ApplyScan(f[i - 1], scans[i]) BY <1>1, RunSteps
<1>3. g[0] = t /\ \A i \in 1..(n + 1) : g[i] = ApplyScan(g[i - 1], more[i])
  <2>1. n + 1 \in Nat BY <1>1
  <2> QED BY <2>1, RunSteps
<1> HIDE DEF f, g
<1>4. 0 \in S BY <1>1, <1>2, <1>3
<1>5. ASSUME NEW i \in 0..(n - 1), i \in S PROVE i + 1 \in S
  <2>1. i + 1 \in 1..n /\ i + 1 \in 1..(n + 1) /\ i + 1 \in 0..n /\ (i + 1) - 1 = i BY <1>1
  <2>2. f[i + 1] = ApplyScan(f[i], scans[i + 1]) BY <1>2, <2>1
  <2>3. g[i + 1] = ApplyScan(g[i], more[i + 1]) BY <1>3, <2>1
  <2>4. more[i + 1] = scans[i + 1] BY <1>1, <2>1
  <2>5. f[i] = g[i] BY <1>5
  <2> QED BY <2>1, <2>2, <2>3, <2>4, <2>5
<1>6. f[n] = g[n]
  <2> HIDE DEF S
  <2>1. \A i \in 0..n : i \in S BY <1>1, <1>4, <1>5, LeastNumber
  <2> QED BY <1>1, <2>1 DEF S
<1>7. g[n + 1] = ApplyScan(g[n], s)
  <2>1. n + 1 \in 1..(n + 1) /\ (n + 1) - 1 = n BY <1>1
  <2>2. g[n + 1] = ApplyScan(g[n], more[n + 1]) BY <1>3, <2>1
  <2> QED BY <1>1, <2>2
<1>8. Consume(t, scans) = f[n] BY <1>1, ConsumeRun DEF f, n
<1>9. Consume(t, more) = g[n + 1]
  <2>1. Len(more) \in Nat BY <1>1
  <2>2. Consume(t, more) = BatchRun(t, more, Len(more))[Len(more)] BY <2>1, ConsumeRun
  <2> QED BY <1>1, <2>2 DEF g
<1> QED BY <1>6, <1>7, <1>8, <1>9 DEF more

(* The invariant: what the tracker will know when it has read the scans that wait for
   it. *)
CaughtUp(T, t, k, s) ==
  /\ T \in TrackerRecords /\ Grows(t, T) /\ MovesLead(T)
  /\ k.emitted > 0 =>
       /\ T.current = k.place
       /\ \A c \in On(k.place) : T.latest[c] = k.place[c]
       /\ \A q \in Keys : s[q].now = Visible(q[2], k.place[q[2]], q[1])
  /\ \A q \in Keys : T.visible[q] = s[q].now /\ T.epoch[q] + 1 = s[q].epochs

\* At a request no movement waits for its name.
MovesSettled(t) ==
  /\ t.synced = Len(t.moves)
  /\ \A i \in 1..Len(t.moves) : t.moves[i].kind # "deck_to_hand_pending"

CoreRecords == [place : CardPlaces, scans : Seq(ScanRecords), emitted : Nat, used : SUBSET CiCards]
SightRecords == [now : BOOLEAN, epochs : Int]

CardTypes ==
  /\ core \in CoreRecords /\ Distinct(core.place)
  /\ tracker \in TrackerRecords /\ seen \in [Keys -> SightRecords]

CardInv ==
  /\ CardTypes
  /\ tracker.state = "ok" =>
       /\ MovesSettled(tracker)
       /\ CaughtUp(Consume(tracker, core.scans), tracker, core, seen)

\* What the viewers have seen after a scan.
SightsAfter(s, place) ==
  [k \in Keys |->
     LET v == Visible(k[2], place[k[2]], k[1])
     IN [now |-> v, epochs |-> s[k].epochs + IF v /\ ~s[k].now THEN 1 ELSE 0]]

LEMMA SightsAre ==
  ASSUME NEW s \in [Keys -> SightRecords], NEW place \in CardPlaces
  PROVE  /\ SightsAfter(s, place) \in [Keys -> SightRecords]
         /\ \A q \in Keys :
              /\ SightsAfter(s, place)[q].now = Visible(q[2], place[q[2]], q[1])
              /\ SightsAfter(s, place)[q].epochs =
                   IF Visible(q[2], place[q[2]], q[1]) /\ ~s[q].now
                   THEN s[q].epochs + 1 ELSE s[q].epochs
<1> DEFINE vis(q) == Visible(q[2], place[q[2]], q[1])
           new(q) == [now |-> vis(q), epochs |-> s[q].epochs + IF vis(q) /\ ~s[q].now THEN 1 ELSE 0]
<1>1. \A q \in Keys : vis(q) \in BOOLEAN BY DEF Visible
<1>2. SightsAfter(s, place) = [q \in Keys |-> new(q)] BY DEF SightsAfter
<1> HIDE DEF vis
<1>3. ASSUME NEW q \in Keys
      PROVE /\ new(q) \in SightRecords /\ new(q).now = vis(q)
            /\ new(q).epochs = IF vis(q) /\ ~s[q].now THEN s[q].epochs + 1 ELSE s[q].epochs
  <2>1. s[q] \in SightRecords /\ s[q].epochs \in Int BY DEF SightRecords
  <2>2. new(q).now = vis(q) OBVIOUS
  <2>3. new(q).epochs = s[q].epochs + IF vis(q) /\ ~s[q].now THEN 1 ELSE 0 OBVIOUS
  <2>4. new(q) \in SightRecords BY <1>1, <2>1 DEF SightRecords
  <2>5. CASE vis(q) /\ ~s[q].now BY <2>1, <2>2, <2>3, <2>4, <2>5
  <2>6. CASE ~ (vis(q) /\ ~s[q].now)
    <3>1. new(q).epochs = s[q].epochs + 0 BY <2>3, <2>6
    <3> QED BY <2>1, <2>2, <2>4, <2>6, <3>1
  <2> QED BY <2>5, <2>6
<1> HIDE DEF new
<1>4. SightsAfter(s, place) \in [Keys -> SightRecords] BY <1>2, <1>3
<1>5. \A q \in Keys : SightsAfter(s, place)[q] = new(q) BY <1>2
<1> QED BY <1>3, <1>4, <1>5 DEF vis

\* A scan is seen by the viewers and by the tracker alike.
LEMMA ScanCaught ==
  ASSUME NEW T, NEW t \in TrackerRecords, NEW k \in CoreRecords, NEW s \in [Keys -> SightRecords],
         CaughtUp(T, t, k, s), NEW place \in CardPlaces, NEW id \in Int,
         NEW scan, scan = [id |-> id, place |-> place],
         NEW j \in CoreRecords, j.place = place
  PROVE  CaughtUp(ApplyScan(T, scan), t, j, SightsAfter(s, place))
<1> DEFINE V == ApplyScan(T, scan)
           r == SightsAfter(s, place)
<1>1. /\ T \in TrackerRecords /\ Grows(t, T) /\ MovesLead(T)
      /\ \A q \in Keys : T.visible[q] = s[q].now /\ T.epoch[q] + 1 = s[q].epochs
  BY DEF CaughtUp
<1>2. Scanned(T, place, V) BY <1>1, ScanApplied
<1>3. \A q \in Keys :
        /\ r[q].now = Visible(q[2], place[q[2]], q[1])
        /\ r[q].epochs = IF Visible(q[2], place[q[2]], q[1]) /\ ~s[q].now
                         THEN s[q].epochs + 1 ELSE s[q].epochs BY SightsAre
<1> HIDE DEF V, r
<1>4. /\ V \in TrackerRecords /\ Grows(T, V) /\ V.current = place
      /\ Met(T, place, CiCards, V) /\ MovesLead(V)
      /\ \A q \in Keys :
           LET sight == Visible(q[2], place[q[2]], q[1])
           IN /\ V.visible[q] = sight
              /\ V.epoch[q] = IF sight /\ ~T.visible[q] THEN T.epoch[q] + 1 ELSE T.epoch[q]
  BY <1>1, <1>2 DEF Scanned
<1>5. Grows(t, V) BY <1>1, <1>4, GrowsTransitive
<1>6. \A c \in On(place) : V.latest[c] = place[c] BY <1>4 DEF Met, On
<1>7. \A q \in Keys : V.visible[q] = r[q].now BY <1>3, <1>4
<1>8. ASSUME NEW q \in Keys PROVE V.epoch[q] + 1 = r[q].epochs
  <2>1. T.epoch[q] \in Int /\ s[q].epochs = T.epoch[q] + 1 /\ T.visible[q] = s[q].now
    BY <1>1 DEF TrackerRecords
  <2>2. CASE Visible(q[2], place[q[2]], q[1]) /\ ~s[q].now
    <3>1. V.epoch[q] = T.epoch[q] + 1 /\ r[q].epochs = s[q].epochs + 1
      BY <1>3, <1>4, <2>1, <2>2
    <3> QED BY <2>1, <3>1
  <2>3. CASE ~ (Visible(q[2], place[q[2]], q[1]) /\ ~s[q].now)
    <3>1. V.epoch[q] = T.epoch[q] /\ r[q].epochs = s[q].epochs
      BY <1>3, <1>4, <2>1, <2>3
    <3> QED BY <2>1, <3>1
  <2> QED BY <2>2, <2>3
<1> QED BY <1>3, <1>4, <1>5, <1>6, <1>7, <1>8 DEF CaughtUp, V, r

\* Renaming movements leaves them where they lead.
LEMMA LeadSame ==
  ASSUME NEW V, NEW R, MovesLead(V), R.latest = V.latest, Len(R.moves) = Len(V.moves),
         \A i \in 1..Len(V.moves) :
           R.moves[i].card = V.moves[i].card /\ R.moves[i].to = V.moves[i].to
  PROVE  MovesLead(R)
<1> SUFFICES ASSUME NEW c \in CiCards, NEW i \in 1..Len(R.moves), R.moves[i].card = c
             PROVE  /\ R.latest[c] # Gone
                    /\ (\A j \in 1..Len(R.moves) : R.moves[j].card = c => j <= i) =>
                         R.moves[i].to = R.latest[c].at BY DEF MovesLead
<1>1. i \in 1..Len(V.moves) /\ V.moves[i].card = c /\ V.moves[i].to = R.moves[i].to OBVIOUS
<1>2. /\ V.latest[c] # Gone
      /\ (\A j \in 1..Len(V.moves) : V.moves[j].card = c => j <= i) =>
           V.moves[i].to = V.latest[c].at BY <1>1 DEF MovesLead
<1>3. ASSUME \A j \in 1..Len(R.moves) : R.moves[j].card = c => j <= i
      PROVE  R.moves[i].to = R.latest[c].at
  <2>1. \A j \in 1..Len(V.moves) : V.moves[j].card = c => j <= i BY <1>3
  <2> QED BY <1>1, <1>2, <2>1
<1> QED BY <1>2, <1>3

\* What a request settles about the movements since the last one.
LEMMA MovesResolved ==
  ASSUME NEW t \in TrackerRecords, MovesSettled(t), NEW V \in TrackerRecords, Grows(t, V),
         NEW draw \in BOOLEAN
  PROVE  LET R == ResolveMoves(V, draw)
         IN /\ R \in TrackerRecords /\ MovesSettled(R)
            /\ R.latest = V.latest /\ R.current = V.current /\ R.state = V.state
            /\ R.visible = V.visible /\ R.epoch = V.epoch
            /\ Len(R.moves) = Len(V.moves)
            /\ \A i \in 1..Len(V.moves) :
                 R.moves[i].card = V.moves[i].card /\ R.moves[i].to = V.moves[i].to
            /\ \A i \in 1..Len(t.moves) : R.moves[i] = t.moves[i]
<1> DEFINE R == ResolveMoves(V, draw)
           n == Len(V.moves)
           pending(i) == i > V.synced /\ V.moves[i].kind = "deck_to_hand_pending"
           named == IF draw THEN "draw" ELSE "search"
           one(i) == IF pending(i) THEN [V.moves[i] EXCEPT !.kind = named] ELSE V.moves[i]
           moves == [i \in 1..n |-> one(i)]
<1>1. /\ V.moves \in Seq(CardMoves) /\ n \in Nat /\ t.moves \in Seq(CardMoves)
      /\ Len(t.moves) \in Nat /\ Len(t.moves) <= n /\ V.synced = Len(t.moves)
      /\ \A i \in 1..Len(t.moves) : V.moves[i] = t.moves[i]
      /\ \A i \in 1..Len(t.moves) : t.moves[i].kind # "deck_to_hand_pending"
  BY DEF TrackerRecords, Grows, MovesSettled
<1>2. R = [V EXCEPT !.synced = n, !.moves = moves] BY DEF ResolveMoves, TrackerRecords
<1>3. named \in MoveKinds /\ named # "deck_to_hand_pending" BY DEF MoveKinds
<1> HIDE DEF named
<1>4. ASSUME NEW i \in 1..n
      PROVE /\ one(i) \in CardMoves /\ one(i).card = V.moves[i].card /\ one(i).to = V.moves[i].to
            /\ one(i).kind # "deck_to_hand_pending"
  <2>1. V.moves[i] \in CardMoves BY <1>1
  <2>2. CASE pending(i)
    <3>1. one(i) = [V.moves[i] EXCEPT !.kind = named] BY <2>2
    <3> HIDE DEF one, pending
    <3> QED BY <1>3, <2>1, <3>1 DEF CardMoves
  <2>3. CASE ~ pending(i)
    <3>1. one(i) = V.moves[i] BY <2>3
    <3>2. V.moves[i].kind # "deck_to_hand_pending"
      <4>1. CASE i > V.synced BY <2>3, <4>1
      <4>2. CASE ~ (i > V.synced)
        <5>1. i \in 1..Len(t.moves) BY <1>1, <4>2
        <5> QED BY <1>1, <5>1
      <4> QED BY <4>1, <4>2
    <3> QED BY <2>1, <3>1, <3>2
  <2> QED BY <2>2, <2>3
<1>5. \A i \in 1..Len(t.moves) : i \in 1..n /\ one(i) = t.moves[i]
  <2> SUFFICES ASSUME NEW i \in 1..Len(t.moves) PROVE i \in 1..n /\ one(i) = t.moves[i] OBVIOUS
  <2>1. i \in 1..n /\ ~ (i > V.synced) BY <1>1
  <2>2. V.moves[i] = t.moves[i] BY <1>1
  <2> QED BY <2>1, <2>2
<1> HIDE DEF one
<1>6. moves \in Seq(CardMoves) /\ Len(moves) = n /\ \A i \in 1..n : moves[i] = one(i)
  BY <1>1, <1>4
<1> HIDE DEF moves, n, R
<1>7. /\ R \in TrackerRecords /\ R.moves = moves /\ R.synced = n
      /\ R.latest = V.latest /\ R.current = V.current /\ R.state = V.state
      /\ R.visible = V.visible /\ R.epoch = V.epoch
  <2>1. n \in Int /\ moves \in Seq(CardMoves) BY <1>1, <1>6
  <2> QED BY <1>2, <2>1 DEF TrackerRecords
<1>8. MovesSettled(R) BY <1>4, <1>6, <1>7 DEF MovesSettled
<1> QED BY <1>4, <1>5, <1>6, <1>7, <1>8 DEF R, n

(* Every step keeps the invariant. *)
LEMMA CardInitially == ASSUME CiInit PROVE CardInv
<1>1. PICK p \in [CiCards -> Spots \cup {Gone}] :
        Distinct(p) /\ core = [place |-> p, scans |-> <<>>, emitted |-> 0, used |-> On(p)]
  BY DEF CiInit
<1>2. core \in CoreRecords /\ core.scans = <<>> /\ core.place = p /\ core.emitted = 0
  <2>1. <<>> \in Seq(ScanRecords) /\ p \in CardPlaces /\ On(p) \subseteq CiCards BY DEF CardPlaces, On
  <2> QED BY <1>1, <2>1 DEF CoreRecords
<1>3. tracker = [state |-> "ok", last |-> 0,
                latest |-> [c \in CiCards |-> Gone],
                current |-> [c \in CiCards |-> Gone],
                visible |-> [k \in Keys |-> FALSE],
                epoch |-> [k \in Keys |-> -1],
                moves |-> <<>>, synced |-> 0]
      /\ seen = [k \in Keys |-> [now |-> FALSE, epochs |-> 0]] BY DEF CiInit
<1>4. tracker \in TrackerRecords /\ tracker.moves = <<>> /\ tracker.synced = 0
      /\ (\A k \in Keys : tracker.visible[k] = FALSE /\ tracker.epoch[k] = -1)
  <2> DEFINE gone == [c \in CiCards |-> Gone]
             unseen == [k \in Keys |-> FALSE]
             epochs == [k \in Keys |-> -1]
  <2>1. gone \in CardPlaces BY DEF CardPlaces
  <2>2. unseen \in [Keys -> BOOLEAN] /\ \A k \in Keys : unseen[k] = FALSE OBVIOUS
  <2>3. epochs \in [Keys -> Int] /\ \A k \in Keys : epochs[k] = -1 OBVIOUS
  <2>4. <<>> \in Seq(CardMoves) OBVIOUS
  <2>5. tracker = [state |-> "ok", last |-> 0, latest |-> gone, current |-> gone,
                   visible |-> unseen, epoch |-> epochs, moves |-> <<>>, synced |-> 0]
    BY <1>3
  <2> HIDE DEF gone, unseen, epochs
  <2>6. tracker \in TrackerRecords BY <2>1, <2>2, <2>3, <2>4, <2>5 DEF TrackerRecords
  <2> QED BY <2>2, <2>3, <2>5, <2>6
<1>5. seen \in [Keys -> SightRecords] /\ \A k \in Keys : seen[k].now = FALSE /\ seen[k].epochs = 0
  BY <1>3 DEF SightRecords
<1>6. Len(tracker.moves) = 0 BY <1>4
<1>7. MovesSettled(tracker) /\ MovesLead(tracker) /\ Grows(tracker, tracker)
  BY <1>4, <1>6 DEF MovesSettled, MovesLead, Grows
<1>8. Consume(tracker, core.scans) = tracker BY <1>2, ConsumeNone
<1>9. CaughtUp(tracker, tracker, core, seen)
  <2>1. ASSUME NEW k \in Keys
        PROVE  tracker.visible[k] = seen[k].now /\ tracker.epoch[k] + 1 = seen[k].epochs
    <3>1. tracker.epoch[k] + 1 = 0 BY <1>4
    <3> QED BY <1>4, <1>5, <3>1
  <2>2. ~ (core.emitted > 0) BY <1>2
  <2> QED BY <1>4, <1>7, <2>1, <2>2 DEF CaughtUp
<1> QED BY <1>1, <1>2, <1>4, <1>5, <1>7, <1>8, <1>9 DEF CardInv, CardTypes

\* A move and its scan.
LEMMA MoveKeeps ==
  ASSUME CardInv, NEW c \in CiCards, NEW spot \in Spots \cup {Gone}, CoreMove(c, spot)
  PROVE  CardInv'
<1> DEFINE place == [core.place EXCEPT ![c] = spot]
           id == core.emitted + 1
           scan == [id |-> id, place |-> place]
           T == Consume(tracker, core.scans)
<1>1. core \in CoreRecords /\ tracker \in TrackerRecords /\ seen \in [Keys -> SightRecords]
  BY DEF CardInv, CardTypes
<1>2. place \in CardPlaces /\ id \in Int /\ core.emitted \in Nat /\ core.scans \in Seq(ScanRecords)
  BY <1>1 DEF CoreRecords, CardPlaces
<1>3. /\ tracker.state = "ok" /\ tracker' = tracker /\ Distinct(place)
      /\ core' = [core EXCEPT !.place = place, !.emitted = id, !.used = core.used \cup On(place),
                              !.scans = Append(core.scans, scan)]
      /\ seen' = SightsAfter(seen, place) BY DEF CoreMove, CoreScan, Sees, SightsAfter
<1>4. CaughtUp(T, tracker, core, seen) /\ MovesSettled(tracker) BY <1>3 DEF CardInv
<1> HIDE DEF place, id
<1>5. scan \in ScanRecords BY <1>2 DEF ScanRecords
<1>6. core' \in CoreRecords /\ core'.place = place /\ core'.scans = Append(core.scans, scan)
  <2>1. Append(core.scans, scan) \in Seq(ScanRecords) BY <1>2, <1>5
  <2>2. core.used \cup On(place) \subseteq CiCards BY <1>1 DEF CoreRecords, On
  <2>3. id \in Nat BY <1>2 DEF id
  <2> HIDE DEF scan
  <2> QED BY <1>1, <1>2, <1>3, <2>1, <2>2, <2>3 DEF CoreRecords
<1>7. seen' \in [Keys -> SightRecords] BY <1>1, <1>2, <1>3, SightsAre
<1>8. CaughtUp(ApplyScan(T, scan), tracker, core', SightsAfter(seen, place))
  BY <1>1, <1>2, <1>4, <1>6, ScanCaught
<1>9. Consume(tracker, Append(core.scans, scan)) = ApplyScan(T, scan)
  BY <1>2, <1>5, ConsumeStep
<1> HIDE DEF T, scan
<1>10. CaughtUp(Consume(tracker', core'.scans), tracker', core', seen')
  BY <1>3, <1>6, <1>8, <1>9
<1>11. CardTypes' BY <1>1, <1>3, <1>6, <1>7 DEF CardTypes
<1> QED BY <1>3, <1>4, <1>10, <1>11 DEF CardInv

\* What the properties say of a request, for a tracker, a core and viewers.
IdentityAt(t, k) ==
  /\ \A c \in On(k.place) :
       /\ InstanceAt(t, k.place[c].at) = {c}
       /\ Enriched(t, k.place[c].at) =
            {[card |-> c, aliases |-> {v \in Viewers : Visible(c, k.place[c], v)}]}
       /\ t.latest[c] = k.place[c]
  /\ \A c \in CiCards \ On(k.place) : t.current[c] = Gone

AliasAt(t, s) ==
  \A q \in Keys : t.visible[q] = s[q].now /\ t.epoch[q] + 1 = s[q].epochs

MovesAt(t, k) ==
  \A c \in On(k.place) :
    LET mine == {i \in 1..Len(t.moves) : t.moves[i].card = c}
    IN /\ \A i \in mine : t.moves[i].kind = "deck_to_hand_pending" =>
            t.state = "ended" /\ i > t.synced
       /\ \A i \in mine : (\A j \in mine : j <= i) => t.moves[i].to = k.place[c].at

PendingAtEnd(t) ==
  \A i \in 1..Len(t.moves) : t.moves[i].kind = "deck_to_hand_pending" =>
    t.state = "ended" /\ i > t.synced

\* What the t says at a request or at the end, once it has caught up.
LEMMA CardsExact ==
  ASSUME NEW t, NEW k, NEW s, Distinct(k.place), k.emitted > 0, CaughtUp(t, t, k, s),
         PendingAtEnd(t)
  PROVE  IdentityAt(t, k) /\ AliasAt(t, s) /\ MovesAt(t, k)
<1>2. /\ t.current = k.place
      /\ \A c \in On(k.place) : t.latest[c] = k.place[c]
      /\ \A q \in Keys : s[q].now = Visible(q[2], k.place[q[2]], q[1])
      /\ \A q \in Keys : t.visible[q] = s[q].now /\ t.epoch[q] + 1 = s[q].epochs
      /\ MovesLead(t) BY DEF CaughtUp
<1>3. AliasAt(t, s) BY <1>2 DEF AliasAt
<1>4. ASSUME NEW c \in On(k.place)
      PROVE  /\ InstanceAt(t, k.place[c].at) = {c}
             /\ Enriched(t, k.place[c].at) =
                  {[card |-> c, aliases |-> {v \in Viewers : Visible(c, k.place[c], v)}]}
  <2>1. c \in CiCards /\ k.place[c] # Gone BY DEF On
  <2>2. \A e \in CiCards : k.place[e] # Gone /\ k.place[e].at = k.place[c].at => e = c
    BY DEF Distinct, On
  <2>3. InstanceAt(t, k.place[c].at) = {c} BY <1>2, <2>1, <2>2 DEF InstanceAt
  <2>4. \A v \in Viewers : t.visible[<<v, c>>] <=> Visible(c, k.place[c], v)
    <3> SUFFICES ASSUME NEW v \in Viewers
                 PROVE t.visible[<<v, c>>] <=> Visible(c, k.place[c], v) OBVIOUS
    <3>1. <<v, c>> \in Keys BY <2>1 DEF Keys
    <3>2. t.visible[<<v, c>>] = Visible(<<v, c>>[2], k.place[<<v, c>>[2]], <<v, c>>[1])
      BY <1>2, <3>1
    <3> QED BY <3>2
  <2>5. {v \in Viewers : t.visible[<<v, c>>]} = {v \in Viewers : Visible(c, k.place[c], v)}
    BY <2>4
  <2> DEFINE at == k.place[c].at
             aliases(e) == {v \in Viewers : t.visible[<<v, e>>]}
             known == {e \in CiCards : t.latest[e] # Gone /\ t.latest[e].at = at}
             found == IF InstanceAt(t, at) # {} THEN InstanceAt(t, at)
                      ELSE IF Cardinality(known) = 1 THEN known ELSE {}
  <2>6. Enriched(t, at) = {[card |-> e, aliases |-> aliases(e)] : e \in found}
    BY DEF Enriched
  <2>7. found = {c} BY <2>3
  <2> HIDE DEF found, aliases
  <2>8. Enriched(t, at) = {[card |-> c, aliases |-> aliases(c)]} BY <2>6, <2>7
  <2> QED BY <2>3, <2>5, <2>8 DEF aliases
<1>5. \A c \in CiCards \ On(k.place) : t.current[c] = Gone BY <1>2 DEF On
<1>6. IdentityAt(t, k) BY <1>2, <1>4, <1>5 DEF IdentityAt
<1>7. MovesAt(t, k)
  <2> SUFFICES ASSUME NEW c \in On(k.place)
               PROVE LET mine == {i \in 1..Len(t.moves) : t.moves[i].card = c}
                     IN /\ \A i \in mine : t.moves[i].kind = "deck_to_hand_pending" =>
                             t.state = "ended" /\ i > t.synced
                        /\ \A i \in mine : (\A j \in mine : j <= i) =>
                             t.moves[i].to = k.place[c].at BY DEF MovesAt
  <2> DEFINE mine == {i \in 1..Len(t.moves) : t.moves[i].card = c}
  <2>1. c \in CiCards /\ t.latest[c] = k.place[c] BY <1>2 DEF On
  <2>2. ASSUME NEW i \in mine, \A j \in mine : j <= i
        PROVE  t.moves[i].to = k.place[c].at BY <1>2, <2>1, <2>2 DEF MovesLead
  <2> QED BY <2>2 DEF PendingAtEnd
<1> QED BY <1>3, <1>6, <1>7

\* After a step.
LEMMA CardsExactNext ==
  ASSUME CardTypes', CaughtUp(tracker', tracker', core', seen'), PendingAtEnd(tracker')
  PROVE  (IdentityExact /\ AliasAfterLoss /\ MovesReachPlace)'
<1> SUFFICES ASSUME Synchronized' PROVE (IdentityExact /\ AliasAfterLoss /\ MovesReachPlace)'
  BY DEF IdentityExact, AliasAfterLoss, MovesReachPlace
<1>1. core'.emitted > 0 /\ Distinct(core'.place) BY DEF Synchronized, CardTypes
<1>2. IdentityAt(tracker', core') /\ AliasAt(tracker', seen') /\ MovesAt(tracker', core')
  BY <1>1, CardsExact
<1>3. IdentityExact' BY <1>2 DEF IdentityAt, IdentityExact
<1>4. AliasAfterLoss' BY <1>2 DEF AliasAt, AliasAfterLoss
<1>5. MovesReachPlace' BY <1>2 DEF MovesAt, MovesReachPlace
<1> QED BY <1>3, <1>4, <1>5

\* A request: the last scan is read and the movements are named.
LEMMA RequestKeeps ==
  ASSUME CardInv, NEW draw \in BOOLEAN, Synchronize(draw)
  PROVE  CardInv' /\ (IdentityExact /\ AliasAfterLoss /\ MovesReachPlace)' /\ MovesKept
<1> DEFINE place == core.place
           id == core.emitted + 1
           scan == [id |-> id, place |-> place]
           T == Consume(tracker, core.scans)
           V == ApplyScan(T, scan)
           R == ResolveMoves(V, draw)
<1>1. core \in CoreRecords /\ tracker \in TrackerRecords /\ seen \in [Keys -> SightRecords]
      /\ Distinct(place) BY DEF CardInv, CardTypes
<1>2. place \in CardPlaces /\ id \in Int /\ id \in Nat /\ core.scans \in Seq(ScanRecords)
  BY <1>1 DEF CoreRecords
<1>3. /\ tracker.state = "ok" /\ core' = [core EXCEPT !.scans = <<>>, !.emitted = id]
      /\ tracker' = ResolveMoves(Consume(tracker, Append(core.scans, scan)), draw)
      /\ seen' = SightsAfter(seen, place) BY DEF Synchronize, Sees, SightsAfter
<1>4. CaughtUp(T, tracker, core, seen) /\ MovesSettled(tracker) BY <1>3 DEF CardInv
<1>5. scan \in ScanRecords BY <1>2 DEF ScanRecords
<1>6. tracker' = R
  <2>1. Consume(tracker, Append(core.scans, scan)) = ApplyScan(T, scan)
    BY <1>2, <1>5, ConsumeStep
  <2> QED BY <1>3, <2>1
<1> HIDE DEF place, id
<1>7. /\ core' \in CoreRecords /\ core'.place = place /\ core'.scans = <<>>
      /\ core'.emitted = id
  <2>1. <<>> \in Seq(ScanRecords) OBVIOUS
  <2> QED BY <1>1, <1>2, <1>3, <2>1 DEF CoreRecords, place
<1>8. CaughtUp(V, tracker, core', seen')
  <2>1. CaughtUp(ApplyScan(T, scan), tracker, core', SightsAfter(seen, place))
    BY <1>1, <1>2, <1>4, <1>7, ScanCaught
  <2> QED BY <1>3, <2>1
<1> HIDE DEF V
<1>9. V \in TrackerRecords /\ Grows(tracker, V) /\ MovesLead(V) BY <1>8 DEF CaughtUp
<1>10. /\ R \in TrackerRecords /\ MovesSettled(R)
       /\ R.latest = V.latest /\ R.current = V.current /\ R.state = V.state
       /\ R.visible = V.visible /\ R.epoch = V.epoch
       /\ Len(R.moves) = Len(V.moves)
       /\ \A i \in 1..Len(V.moves) :
            R.moves[i].card = V.moves[i].card /\ R.moves[i].to = V.moves[i].to
       /\ \A i \in 1..Len(tracker.moves) : R.moves[i] = tracker.moves[i]
  BY <1>1, <1>4, <1>9, MovesResolved
<1> HIDE DEF R
<1>11. MovesLead(R)
  <2>1. R.latest = V.latest /\ Len(R.moves) = Len(V.moves) BY <1>10
  <2>2. \A i \in 1..Len(V.moves) :
          R.moves[i].card = V.moves[i].card /\ R.moves[i].to = V.moves[i].to BY <1>10
  <2> QED BY <1>9, <2>1, <2>2, LeadSame
<1>12. Grows(R, R)
  <2>1. Len(R.moves) \in Nat BY <1>10 DEF TrackerRecords
  <2> QED BY <2>1 DEF Grows
<1>13. CaughtUp(R, R, core', seen') BY <1>8, <1>10, <1>11, <1>12 DEF CaughtUp
<1>14. CardTypes'
  <2>1. seen' \in [Keys -> SightRecords] BY <1>1, <1>2, <1>3, SightsAre
  <2> QED BY <1>1, <1>6, <1>7, <1>10, <2>1 DEF CardTypes
<1>15. CaughtUp(Consume(tracker', core'.scans), tracker', core', seen')
  BY <1>6, <1>7, <1>13, ConsumeNone
<1>16. CardInv' BY <1>6, <1>10, <1>14, <1>15 DEF CardInv
<1>17. (IdentityExact /\ AliasAfterLoss /\ MovesReachPlace)'
  <2>1. CaughtUp(tracker', tracker', core', seen') BY <1>6, <1>13
  <2>2. PendingAtEnd(R) BY <1>10 DEF MovesSettled, PendingAtEnd
  <2> QED BY <1>6, <1>14, <2>1, <2>2, CardsExactNext
<1>18. MovesKept
  <2>1. Len(tracker.moves) <= Len(R.moves) BY <1>9, <1>10 DEF Grows
  <2> QED BY <1>6, <1>10, <2>1 DEF MovesKept
<1> QED BY <1>16, <1>17, <1>18

\* The end of the duel: what is pending keeps its kind.
LEMMA EndKeeps ==
  ASSUME CardInv, EndDuel
  PROVE  CardInv' /\ (IdentityExact /\ AliasAfterLoss /\ MovesReachPlace)' /\ MovesKept
<1> DEFINE T == Consume(tracker, core.scans)
           E == [T EXCEPT !.state = "ended"]
<1>1. core \in CoreRecords /\ tracker \in TrackerRecords /\ seen \in [Keys -> SightRecords]
      /\ Distinct(core.place) BY DEF CardInv, CardTypes
<1>2. tracker.state = "ok" /\ core' = [core EXCEPT !.scans = <<>>] /\ tracker' = E /\ seen' = seen
  BY DEF EndDuel
<1>3. CaughtUp(T, tracker, core, seen) /\ MovesSettled(tracker) BY <1>2 DEF CardInv
<1>4. /\ core' \in CoreRecords /\ core'.place = core.place /\ core'.scans = <<>>
      /\ core'.emitted = core.emitted
  <2>1. <<>> \in Seq(ScanRecords) OBVIOUS
  <2> QED BY <1>1, <1>2, <2>1 DEF CoreRecords
<1> HIDE DEF T
<1>5. T \in TrackerRecords /\ Grows(tracker, T) /\ MovesLead(T) BY <1>3 DEF CaughtUp
<1>6. /\ E \in TrackerRecords /\ E.state = "ended" /\ E.latest = T.latest /\ E.current = T.current
      /\ E.visible = T.visible /\ E.epoch = T.epoch /\ E.moves = T.moves /\ E.synced = T.synced
  BY <1>5 DEF TrackerRecords
<1> HIDE DEF E
<1>7. MovesLead(E) BY <1>5, <1>6 DEF MovesLead
<1>8. Grows(E, E)
  <2>1. Len(E.moves) \in Nat BY <1>6 DEF TrackerRecords
  <2> QED BY <2>1 DEF Grows
<1>9. CaughtUp(E, E, core', seen') BY <1>2, <1>3, <1>4, <1>6, <1>7, <1>8 DEF CaughtUp
<1>10. CardTypes' BY <1>1, <1>2, <1>4, <1>6 DEF CardTypes
<1>11. CardInv' BY <1>2, <1>6, <1>10 DEF CardInv
<1>12. \A i \in 1..Len(E.moves) : E.moves[i].kind = "deck_to_hand_pending" => i > E.synced
  <2> SUFFICES ASSUME NEW i \in 1..Len(T.moves), T.moves[i].kind = "deck_to_hand_pending",
                      ~ (i > T.synced)
               PROVE FALSE BY <1>6
  <2>1. /\ Len(tracker.moves) \in Nat /\ T.synced = Len(tracker.moves)
        /\ \A j \in 1..Len(tracker.moves) : T.moves[j] = tracker.moves[j]
        /\ \A j \in 1..Len(tracker.moves) : tracker.moves[j].kind # "deck_to_hand_pending"
    BY <1>1, <1>3, <1>5 DEF Grows, MovesSettled, TrackerRecords
  <2>2. i \in 1..Len(tracker.moves) BY <2>1
  <2> QED BY <2>1, <2>2
<1>13. (IdentityExact /\ AliasAfterLoss /\ MovesReachPlace)'
  <2>1. CaughtUp(tracker', tracker', core', seen') BY <1>2, <1>9
  <2>2. PendingAtEnd(E) BY <1>6, <1>12 DEF PendingAtEnd
  <2> QED BY <1>2, <1>10, <2>1, <2>2, CardsExactNext
<1>14. MovesKept BY <1>2, <1>5, <1>6 DEF MovesKept, Grows
<1> QED BY <1>11, <1>13, <1>14

LEMMA CardsStep ==
  ASSUME CardInv, CiNext
  PROVE  CardInv' /\ (IdentityExact /\ AliasAfterLoss /\ MovesReachPlace)' /\ MovesKept
<1>1. ASSUME NEW c \in CiCards, NEW spot \in Spots \cup {Gone}, CoreMove(c, spot)
      PROVE CardInv' /\ (IdentityExact /\ AliasAfterLoss /\ MovesReachPlace)' /\ MovesKept
  <2>1. CardInv' BY <1>1, MoveKeeps
  <2>2. tracker' = tracker /\ core' = [core EXCEPT !.place = [core.place EXCEPT ![c] = spot],
                        !.emitted = core.emitted + 1,
                        !.used = core.used \cup On([core.place EXCEPT ![c] = spot]),
                        !.scans = Append(core.scans, [id |-> core.emitted + 1,
                                               place |-> [core.place EXCEPT ![c] = spot]])]
    BY <1>1 DEF CoreMove, CoreScan
  <2>3. core \in CoreRecords BY DEF CardInv, CardTypes
  <2>4. PICK scan : core'.scans = Append(core.scans, scan) BY <2>2, <2>3 DEF CoreRecords
  <2>5. ~ Synchronized'
    <3>1. core.scans \in Seq(ScanRecords) BY <2>3 DEF CoreRecords
    <3>2. core'.scans # <<>> BY <2>4, <3>1
    <3> QED BY <3>2 DEF Synchronized
  <2>6. MovesKept
    <3>1. Len(tracker.moves) \in Nat BY DEF CardInv, CardTypes, TrackerRecords
    <3> QED BY <2>2, <3>1 DEF MovesKept
  <2> QED BY <2>1, <2>5, <2>6 DEF IdentityExact, AliasAfterLoss, MovesReachPlace
<1>2. ASSUME NEW draw \in BOOLEAN, Synchronize(draw)
      PROVE CardInv' /\ (IdentityExact /\ AliasAfterLoss /\ MovesReachPlace)' /\ MovesKept
  BY <1>2, RequestKeeps
<1>3. ASSUME BrokenBatch
      PROVE CardInv' /\ (IdentityExact /\ AliasAfterLoss /\ MovesReachPlace)' /\ MovesKept
  <2>1. core \in CoreRecords /\ tracker \in TrackerRecords /\ seen \in [Keys -> SightRecords]
        /\ Distinct(core.place) BY DEF CardInv, CardTypes
  <2>2. tracker' = [tracker EXCEPT !.state = "raised"] /\ core' = [core EXCEPT !.scans = <<>>]
        /\ seen' = seen BY <1>3 DEF BrokenBatch
  <2>3. /\ tracker' \in TrackerRecords /\ tracker'.state = "raised"
        /\ tracker'.moves = tracker.moves /\ Len(tracker.moves) \in Nat
    <3>1. tracker' \in TrackerRecords BY <2>1, <2>2 DEF TrackerRecords
    <3>2. tracker'.state = "raised" /\ tracker'.moves = tracker.moves
      BY <2>1, <2>2 DEF TrackerRecords
    <3>3. Len(tracker.moves) \in Nat BY <2>1 DEF TrackerRecords
    <3> QED BY <3>1, <3>2, <3>3
  <2>4. core' \in CoreRecords /\ core'.place = core.place
    <3>1. <<>> \in Seq(ScanRecords) OBVIOUS
    <3> QED BY <2>1, <2>2, <3>1 DEF CoreRecords
  <2>5. CardTypes' BY <2>1, <2>2, <2>3, <2>4 DEF CardTypes
  <2>6. CardInv' BY <2>3, <2>5 DEF CardInv
  <2>7. ~ Synchronized' BY <2>3 DEF Synchronized
  <2>8. MovesKept BY <2>3 DEF MovesKept
  <2> QED BY <2>6, <2>7, <2>8 DEF IdentityExact, AliasAfterLoss, MovesReachPlace
<1>4. ASSUME EndDuel
      PROVE CardInv' /\ (IdentityExact /\ AliasAfterLoss /\ MovesReachPlace)' /\ MovesKept
  BY <1>4, EndKeeps
<1> QED BY <1>1, <1>2, <1>3, <1>4 DEF CiNext

(* However the cards move between two requests and however many scans one  *)
(* batch brings, CardInstanceTrackerV2 knows at the request and at the end *)
(* which card is where, gives a viewer a new alias exactly for a card that *)
(* came into its view, leads the movements of a card to its place, and     *)
(* never renames a movement of an earlier request.                         *)
THEOREM CardsSafety == CiSpec => CardsFollowed
<1>1. CiInit => CardInv BY CardInitially
<1>2. CardInv /\ [CiNext]_ciVars => CardInv'
  <2>1. CASE CiNext BY <2>1, CardsStep
  <2>2. CASE UNCHANGED ciVars
    <3>1. core' = core /\ tracker' = tracker /\ seen' = seen BY <2>2 DEF ciVars
    <3> QED BY <3>1 DEF CardInv, CardTypes
  <2> QED BY <2>1, <2>2
<1>3. CardInv /\ [CiNext]_ciVars =>
        [IdentityExact' /\ AliasAfterLoss' /\ MovesReachPlace' /\ MovesKept]_ciVars
  BY CardsStep
<1> QED BY <1>1, <1>2, <1>3, PTL DEF CiSpec, CardsFollowed

=============================================================================
