---------------------- MODULE ReplayVerificationProofs ----------------------
(***************************************************************************)
(* Proofs about what leaves a run: the reports of its verification, for    *)
(* any number of verifiers of one report path, any experiments and any     *)
(* number of environment changes; its route document, for any runs and     *)
(* edits; the view a player has of it, for any cards and layouts; the      *)
(* groups its answers are shown in, for any longest chain; the replay loop *)
(* it comes from, for any core, scripts and recorded prefixes; and the     *)
(* plan of many replays with the caller that retries one, for any pools.   *)
(***************************************************************************)
EXTENDS ReplayVerification, RouteDocument, PlayerView, ActionAggregation, RealCoreWorker,
        ParallelPlan,
        FiniteSetTheorems, SequenceTheorems, WellFoundedInduction, TLAPS

Stages == {"idle", "manifest", "replay", "compare", "write", "flush", "replace",
           "done", "refused", "failed", "crashed"}
Categories == {"none", "worker_timeout", "worker_protocol", "reported failure",
               "worker_crash", "disk", "denied"}
Documents == {<<>>} \cup {<<d>> : d \in RouteFiles}

VerifierRecord ==
  [at : Stages, doc : Documents, fresh : Documents,
   ending : Endings \cup {NoEnding}, category : Categories, denials : Nat]

\* A document a fresh worker delivered, which names its environment itself.
Earned(doc, delivered) == doc \in delivered /\ doc.manifest = doc.body[1]

\* Only a document that is the fresh one gets past the comparison.
Compared(x, delivered) ==
  /\ x.at # "idle" => x.doc # <<>>
  /\ x.at = "compare" => x.fresh # <<>> /\ Earned(x.fresh[1], delivered)
  /\ x.at \in {"write", "flush", "replace"} => Earned(x.doc[1], delivered)

\* Until the replay ended nothing is named, and after a good one only the
\* disk or a denial is.
Named(x) ==
  /\ x.at \in {"idle", "manifest", "replay"} => x.ending = NoEnding
  /\ x.at \in {"idle", "manifest", "replay", "compare", "write", "flush", "replace"}
       => x.category = "none"
  /\ x.ending.timedOut <=> x.category = "worker_timeout"
  /\ x.category = "worker_crash" => ~ x.ending.ok
  /\ x.at \in {"compare", "write"} => x.ending.out = "document"

\* A temporary file is its owner's, and whole before it is renamed.
TempOwned(t) ==
  /\ t.owner \in Verifiers
  /\ verifier[t.owner].at \in {"flush", "replace", "crashed"}
  /\ verifier[t.owner].at = "replace" => t.content = Whole(Content(t.owner))

FileTrusted ==
  file # <<>> => /\ file[1].whole
                 /\ Earned(file[1].report.route, replayed)
                 /\ file[1].report.runtime = file[1].report.route.manifest

RvfInv ==
  /\ env \in Environments
  /\ verifier \in [Verifiers -> VerifierRecord]
  /\ \A v \in Verifiers : Compared(verifier[v], replayed) /\ Named(verifier[v])
  /\ \A t \in temps : TempOwned(t)
  /\ FileTrusted

----------------------------------------------------------------------------
\* What invoke_real_core_worker_process makes of an ending.
LEMMA CategoryNames ==
  ASSUME NEW x \in Endings
  PROVE  /\ Category(x) \in Categories
         /\ x.timedOut <=> Category(x) = "worker_timeout"
         /\ Category(x) = "worker_crash" => ~ x.ok
         /\ Category(x) = "none" => x.out = "document"
<1>1. ASSUME NEW late, NEW ok, NEW outputs, x \in EndedWith(late, ok, outputs)
      PROVE  x.timedOut = late /\ x.ok = ok BY <1>1 DEF EndedWith
<1>2. \/ x \in EndedWith(FALSE, TRUE, WorkerOutputs \ {"envelope", "bad envelope"})
      \/ x \in EndedWith(FALSE, FALSE, WorkerOutputs \ {"document"})
      \/ \E ok \in BOOLEAN : x \in EndedWith(TRUE, ok, {"document", "nothing"})
  BY DEF Endings
<1>3. \/ x.timedOut = FALSE /\ x.ok = TRUE
      \/ x.timedOut = FALSE /\ x.ok = FALSE
      \/ x.timedOut = TRUE BY <1>1, <1>2
<1> QED BY <1>3 DEF Category, Categories

\* A fresh worker's document names the environment it was made in.
LEMMA FreshDocument ==
  ASSUME NEW doc \in RouteFiles, env \in Environments
  PROVE  LET fresh == WorkerDocument(doc.experiment, env)
         IN  fresh \in RouteFiles /\ fresh.manifest = fresh.body[1]
<1>1. doc.experiment \in Experiments
  <2>1. PICK e \in Experiments, x \in Environments :
          \/ doc = WorkerDocument(e, x)
          \/ doc = [WorkerDocument(e, x) EXCEPT !.body = <<"edited">>]
    BY DEF RouteFiles
  <2>2. WorkerDocument(e, x).experiment = e BY DEF WorkerDocument
  <2>3. [WorkerDocument(e, x) EXCEPT !.body = <<"edited">>].experiment = e
    BY DEF WorkerDocument
  <2> QED BY <2>1, <2>2, <2>3
<1>2. WorkerDocument(doc.experiment, env) \in RouteFiles BY <1>1 DEF RouteFiles
<1>3. WorkerDocument(doc.experiment, env).manifest
        = WorkerDocument(doc.experiment, env).body[1] BY DEF WorkerDocument
<1> QED BY <1>2, <1>3

\* A record of the type has a document to read once it has one at all.
LEMMA DocumentRead ==
  ASSUME NEW docs \in Documents, docs # <<>>
  PROVE  docs[1] \in RouteFiles /\ docs = <<docs[1]>> BY DEF Documents

\* A step of one verifier that touches neither the files nor the documents
\* delivered, and keeps the verifier's place if it owns a temporary file.
LEMMA QuietStep ==
  ASSUME RvfInv, NEW v \in Verifiers, NEW x \in VerifierRecord,
         verifier' = [verifier EXCEPT ![v] = x],
         env' = env, file' = file, temps' = temps, replayed \subseteq replayed',
         Compared(x, replayed'), Named(x),
         \/ verifier[v].at \notin {"flush", "replace", "crashed"}
         \/ x.at = verifier[v].at /\ x.doc = verifier[v].doc
         \/ x.at = "crashed"
  PROVE  RvfInv'
<1>1. /\ verifier' \in [Verifiers -> VerifierRecord] /\ verifier'[v] = x
      /\ \A w \in Verifiers : w # v => verifier'[w] = verifier[w] BY DEF RvfInv
<1>2. ASSUME NEW w \in Verifiers
      PROVE  Compared(verifier[w], replayed)' /\ Named(verifier[w])'
  <2>1. CASE w = v BY <1>1, <2>1 DEF Compared, Named, Earned
  <2>2. CASE w # v BY <1>1, <2>2 DEF RvfInv, Compared, Earned, Named
  <2> QED BY <2>1, <2>2
<1>3. ASSUME NEW t \in temps'
      PROVE  TempOwned(t)' BY <1>3, <1>1 DEF RvfInv, TempOwned, Content
<1>4. FileTrusted' /\ (env \in Environments)' BY DEF RvfInv, FileTrusted, Earned
<1> QED BY <1>1, <1>2, <1>3, <1>4 DEF RvfInv

LEMMA RvfInitially == RvfInit => RvfInv
<1> SUFFICES ASSUME RvfInit PROVE RvfInv OBVIOUS
<1>1. IdleVerifier \in VerifierRecord
  BY DEF IdleVerifier, VerifierRecord, Stages, Documents, Categories
<1>2. Compared(IdleVerifier, replayed) /\ Named(IdleVerifier)
  BY DEF IdleVerifier, Compared, Named, NoEnding
<1> QED BY <1>1, <1>2 DEF RvfInit, RvfInv, FileTrusted

----------------------------------------------------------------------------
\* Steps that leave the report and the temporary files alone.
LEMMA LoadKeeps ==
  ASSUME RvfInv, NEW v \in Verifiers, Load(v) PROVE RvfInv'
<1> DEFINE x == verifier[v]
<1>1. PICK doc \in RouteFiles :
        Step(v, "idle", [x EXCEPT !.doc = <<doc>>,
                            !.at = IF doc.experiment.strategy = "random_search_v1"
                                   THEN "replay" ELSE "manifest"]) BY DEF Load
<1> DEFINE at == IF doc.experiment.strategy = "random_search_v1"
                 THEN "replay" ELSE "manifest"
           docs == <<doc>>
           y == [x EXCEPT !.doc = docs, !.at = at]
<1>2. /\ x \in VerifierRecord /\ Compared(x, replayed) /\ Named(x) /\ x.at = "idle"
      /\ verifier' = [verifier EXCEPT ![v] = y]
      /\ env' = env /\ file' = file /\ temps' = temps /\ replayed' = replayed
  BY <1>1 DEF RvfInv, Load, Step
<1>3. at \in {"replay", "manifest"} /\ docs \in Documents /\ docs # <<>>
  BY DEF Documents
<1> HIDE DEF x, at, docs
<1>4. y \in VerifierRecord BY <1>2, <1>3 DEF VerifierRecord, Stages
<1>5. /\ y.at = at /\ y.doc = docs /\ y.ending = x.ending
      /\ y.category = x.category BY <1>2, <1>3 DEF VerifierRecord
<1> HIDE DEF y
<1>6. Compared(y, replayed') /\ Named(y) BY <1>2, <1>3, <1>5 DEF Compared, Named
<1> QED BY <1>2, <1>4, <1>6, QuietStep DEF x

LEMMA CheckManifestKeeps ==
  ASSUME RvfInv, NEW v \in Verifiers, CheckManifest(v) PROVE RvfInv'
<1> DEFINE x == verifier[v]
           at == IF ManifestMatches(x.doc[1], env) THEN "replay" ELSE "refused"
           y == [x EXCEPT !.at = at]
<1>1. /\ x \in VerifierRecord /\ Compared(x, replayed) /\ Named(x) /\ x.at = "manifest"
      /\ verifier' = [verifier EXCEPT ![v] = y]
      /\ env' = env /\ file' = file /\ temps' = temps /\ replayed' = replayed
  BY DEF RvfInv, CheckManifest, Step
<1>2. at \in {"replay", "refused"} OBVIOUS
<1> HIDE DEF x, at
<1>3. y \in VerifierRecord BY <1>1, <1>2 DEF VerifierRecord, Stages
<1>4. /\ y.at = at /\ y.doc = x.doc /\ y.ending = x.ending
      /\ y.category = x.category BY <1>1, <1>2 DEF VerifierRecord
<1> HIDE DEF y
<1>5. Compared(y, replayed') /\ Named(y) BY <1>1, <1>2, <1>4 DEF Compared, Named
<1> QED BY <1>1, <1>3, <1>5, QuietStep DEF x

\* A document that arrives is delivered by a fresh worker and names its
\* environment; any other ending is named after what happened.
LEMMA ReplayKeeps ==
  ASSUME RvfInv, NEW v \in Verifiers, Replay(v) PROVE RvfInv'
<1> DEFINE x == verifier[v]
           doc == WorkerDocument(x.doc[1].experiment, env)
<1>1. PICK e \in Endings :
        /\ Step(v, "replay",
             [x EXCEPT !.ending = e, !.category = Category(e),
                       !.fresh = IF Category(e) = "none" THEN <<doc>> ELSE <<>>,
                       !.at = IF Category(e) = "none" THEN "compare" ELSE "failed"])
        /\ replayed' = IF e.out = "document" THEN replayed \cup {doc} ELSE replayed
  BY DEF Replay
<1> DEFINE category == Category(e)
           fresh == IF category = "none" THEN <<doc>> ELSE <<>>
           at == IF category = "none" THEN "compare" ELSE "failed"
           y == [x EXCEPT !.ending = e, !.category = category,
                          !.fresh = fresh, !.at = at]
<1>2. /\ x \in VerifierRecord /\ Compared(x, replayed) /\ x.at = "replay"
      /\ verifier' = [verifier EXCEPT ![v] = y]
      /\ env \in Environments /\ env' = env /\ file' = file /\ temps' = temps
  BY <1>1 DEF RvfInv, Replay, Step
<1>3. /\ category \in Categories
      /\ e.timedOut <=> category = "worker_timeout"
      /\ category = "worker_crash" => ~ e.ok
      /\ category = "none" => e.out = "document" BY CategoryNames
<1>4. doc \in RouteFiles /\ doc.manifest = doc.body[1]
  BY <1>2, DocumentRead, FreshDocument DEF VerifierRecord, Compared
<1> HIDE DEF x, doc, category
<1>5. replayed \subseteq replayed' /\ (category = "none" => doc \in replayed')
  BY <1>1, <1>3
<1>6. /\ fresh \in Documents /\ at \in {"compare", "failed"}
      /\ at = "compare" => category = "none" /\ fresh # <<>> /\ fresh[1] = doc
  BY <1>4 DEF Documents
<1> HIDE DEF fresh, at
<1>7. y \in VerifierRecord BY <1>2, <1>3, <1>6 DEF VerifierRecord, Stages
<1>8. /\ y.at = at /\ y.doc = x.doc /\ y.ending = e
      /\ y.category = category /\ y.fresh = fresh
  BY <1>2, <1>3, <1>6 DEF VerifierRecord
<1> HIDE DEF y
<1>9. Compared(y, replayed') BY <1>2, <1>4, <1>5, <1>6, <1>8 DEF Compared, Earned
<1>10. Named(y) BY <1>3, <1>6, <1>8 DEF Named
<1> QED BY <1>2, <1>5, <1>7, <1>9, <1>10, QuietStep DEF x

\* What passes the comparison is the document of the fresh worker itself.
LEMMA CompareKeeps ==
  ASSUME RvfInv, NEW v \in Verifiers, Compare(v) PROVE RvfInv'
<1> DEFINE x == verifier[v]
           at == IF /\ SameDocument(x.doc[1], x.fresh[1])
                    /\ ReportValid(BuildReport(v, x.doc[1]))
                 THEN "write" ELSE "refused"
           y == [x EXCEPT !.at = at]
<1>1. /\ x \in VerifierRecord /\ Compared(x, replayed) /\ Named(x) /\ x.at = "compare"
      /\ verifier' = [verifier EXCEPT ![v] = y]
      /\ env' = env /\ file' = file /\ temps' = temps /\ replayed' = replayed
  BY DEF RvfInv, Compare, Step
<1>2. /\ at \in {"write", "refused"}
      /\ at = "write" => x.doc[1] = x.fresh[1] BY DEF SameDocument
<1> HIDE DEF x, at
<1>3. y \in VerifierRecord BY <1>1, <1>2 DEF VerifierRecord, Stages
<1>4. /\ y.at = at /\ y.doc = x.doc /\ y.ending = x.ending
      /\ y.category = x.category BY <1>1, <1>2 DEF VerifierRecord
<1> HIDE DEF y
<1>5. Compared(y, replayed') /\ Named(y)
  BY <1>1, <1>2, <1>4 DEF Compared, Named, Earned
<1> QED BY <1>1, <1>3, <1>5, QuietStep DEF x

\* A killed verifier leaves its temporary file behind.
LEMMA CrashKeeps ==
  ASSUME RvfInv, NEW v \in Verifiers, Crash(v) PROVE RvfInv'
<1> DEFINE x == verifier[v]
           y == [x EXCEPT !.at = "crashed"]
<1>1. /\ x \in VerifierRecord /\ Compared(x, replayed) /\ Named(x)
      /\ x.at \in {"manifest", "replay", "compare", "write", "flush", "replace"}
      /\ verifier' = [verifier EXCEPT ![v] = y]
      /\ env' = env /\ file' = file /\ temps' = temps /\ replayed' = replayed
  BY DEF RvfInv, Crash
<1> HIDE DEF x
<1>2. y \in VerifierRecord BY <1>1 DEF VerifierRecord, Stages
<1>3. /\ y.at = "crashed" /\ y.doc = x.doc /\ y.ending = x.ending
      /\ y.category = x.category BY <1>1 DEF VerifierRecord
<1> HIDE DEF y
<1>4. Compared(y, replayed') /\ Named(y) BY <1>1, <1>3 DEF Compared, Named
<1> QED BY <1>1, <1>2, <1>3, <1>4, QuietStep DEF x

LEMMA UpgradeKeeps ==
  ASSUME RvfInv, Upgrade PROVE RvfInv'
<1>1. /\ env' \in Environments /\ verifier' = verifier /\ file' = file
      /\ temps' = temps /\ replayed' = replayed BY DEF Upgrade
<1>2. ASSUME NEW v \in Verifiers
      PROVE  Compared(verifier[v], replayed)' /\ Named(verifier[v])'
  BY <1>1 DEF RvfInv, Compared, Named, Earned
<1>3. ASSUME NEW t \in temps' PROVE TempOwned(t)'
  BY <1>1, <1>3 DEF RvfInv, TempOwned, Content
<1>4. FileTrusted' BY <1>1 DEF RvfInv, FileTrusted, Earned
<1> QED BY <1>1, <1>2, <1>3, <1>4 DEF RvfInv

----------------------------------------------------------------------------
\* Steps on the temporary file of one verifier.

\* A step of one verifier that replaces or removes its own temporary file.
LEMMA FileStep ==
  ASSUME RvfInv, NEW v \in Verifiers, NEW x \in VerifierRecord,
         verifier' = [verifier EXCEPT ![v] = x],
         env' = env, replayed' = replayed, FileTrusted',
         Compared(x, replayed'), Named(x),
         \A t \in temps' : t.owner = v =>
           /\ x.at \in {"flush", "replace"}
           /\ x.at = "replace" => t.content = Whole(BuildReport(v, x.doc[1])),
         \A t \in temps' : t.owner # v => t \in temps
  PROVE  RvfInv'
<1>1. /\ verifier' \in [Verifiers -> VerifierRecord] /\ verifier'[v] = x
      /\ \A w \in Verifiers : w # v => verifier'[w] = verifier[w] BY DEF RvfInv
<1>2. ASSUME NEW w \in Verifiers
      PROVE  Compared(verifier[w], replayed)' /\ Named(verifier[w])'
  <2>1. CASE w = v BY <1>1, <2>1 DEF Compared, Named, Earned
  <2>2. CASE w # v BY <1>1, <2>2 DEF RvfInv, Compared, Earned, Named
  <2> QED BY <2>1, <2>2
<1>3. ASSUME NEW t \in temps'
      PROVE  TempOwned(t)'
  <2>1. CASE t.owner = v BY <1>1, <1>3, <2>1 DEF TempOwned, Content
  <2>2. CASE t.owner # v BY <1>3, <1>1, <2>2 DEF RvfInv, TempOwned, Content
  <2> QED BY <2>1, <2>2
<1>4. (env \in Environments)' BY DEF RvfInv
<1> QED BY <1>1, <1>2, <1>3, <1>4 DEF RvfInv

\* A verifier that is about to write owns no file yet; Create makes one.
LEMMA CreateKeeps ==
  ASSUME RvfInv, NEW v \in Verifiers, Create(v) PROVE RvfInv'
<1> DEFINE x == verifier[v]
           y == [x EXCEPT !.at = "flush"]
<1>1. /\ x \in VerifierRecord /\ Compared(x, replayed) /\ Named(x) /\ x.at = "write"
      /\ verifier' = [verifier EXCEPT ![v] = y]
      /\ env' = env /\ file' = file /\ replayed' = replayed
      /\ temps' = temps \cup {[owner |-> v, content |-> Torn(Content(v))]}
  BY DEF RvfInv, Create, Creates, Step
<1> HIDE DEF x
<1>2. y \in VerifierRecord BY <1>1 DEF VerifierRecord, Stages
<1>3. /\ y.at = "flush" /\ y.doc = x.doc /\ y.ending = x.ending
      /\ y.category = x.category BY <1>1 DEF VerifierRecord
<1> HIDE DEF y
<1>4. Compared(y, replayed') /\ Named(y) BY <1>1, <1>3 DEF Compared, Named
<1>5. FileTrusted' BY <1>1 DEF RvfInv, FileTrusted
<1>6. \A t \in temps' : t.owner # v => t \in temps BY <1>1
<1> QED BY <1>1, <1>2, <1>3, <1>4, <1>5, <1>6, FileStep

\* What the handler of a failure and the writer leave of the temporary files.
LEMMA RemovedOthers ==
  ASSUME NEW v, NEW t \in Removed(v) PROVE t.owner # v /\ t \in temps
  BY DEF Removed, Mine

LEMMA FlushKeeps ==
  ASSUME RvfInv, NEW v \in Verifiers, Flush(v) PROVE RvfInv'
<1> DEFINE x == verifier[v]
<1>1. /\ x \in VerifierRecord /\ Compared(x, replayed) /\ Named(x) /\ x.at = "flush"
      /\ env' = env /\ file' = file /\ replayed' = replayed BY DEF RvfInv, Flush, Step
<1>2. FileTrusted' BY <1>1 DEF RvfInv, FileTrusted
<1>3. ASSUME verifier' = [verifier EXCEPT ![v] = [x EXCEPT !.at = "replace"]],
             temps' = Removed(v) \cup {[owner |-> v, content |-> Whole(Content(v))]}
      PROVE  RvfInv'
  <2> DEFINE y == [x EXCEPT !.at = "replace"]
             c == Whole(Content(v))
             new == [owner |-> v, content |-> c]
  <2>1. c = Whole(BuildReport(v, x.doc[1])) /\ verifier' = [verifier EXCEPT ![v] = y]
    BY <1>3 DEF Content
  <2>2. new.owner = v /\ new.content = c /\ temps' = Removed(v) \cup {new} BY <1>3
  <2> HIDE DEF x, c, new
  <2>3. y \in VerifierRecord BY <1>1 DEF VerifierRecord, Stages
  <2>4. /\ y.at = "replace" /\ y.doc = x.doc /\ y.ending = x.ending
        /\ y.category = x.category BY <1>1 DEF VerifierRecord
  <2> HIDE DEF y
  <2>5. Compared(y, replayed') /\ Named(y) BY <1>1, <2>4 DEF Compared, Named
  <2>6. ASSUME NEW t \in temps'
        PROVE  /\ t.owner = v => t.content = Whole(BuildReport(v, y.doc[1]))
               /\ t.owner # v => t \in temps BY <2>1, <2>2, <2>4, <2>6, RemovedOthers
  <2> QED BY <1>1, <1>2, <2>1, <2>3, <2>4, <2>5, <2>6, FileStep
<1>4. ASSUME verifier' = [verifier EXCEPT ![v] =
                            [x EXCEPT !.at = "failed", !.category = "disk"]],
             temps' = Removed(v)
      PROVE  RvfInv'
  <2> DEFINE y == [x EXCEPT !.at = "failed", !.category = "disk"]
  <2>1. verifier' = [verifier EXCEPT ![v] = y] BY <1>4
  <2> HIDE DEF x
  <2>2. y \in VerifierRecord BY <1>1 DEF VerifierRecord, Stages, Categories
  <2>3. /\ y.at = "failed" /\ y.doc = x.doc /\ y.ending = x.ending
        /\ y.category = "disk" BY <1>1 DEF VerifierRecord
  <2> HIDE DEF y
  <2>4. Compared(y, replayed') /\ Named(y) BY <1>1, <2>3 DEF Compared, Named
  <2>5. ASSUME NEW t \in temps' PROVE t.owner # v /\ t \in temps
    BY <1>4, <2>5, RemovedOthers
  <2> QED BY <1>1, <1>2, <2>1, <2>2, <2>4, <2>5, FileStep
<1> QED BY <1>3, <1>4 DEF Flush, Step

\* What is renamed to the report path is whole and earned.
LEMMA ReplaceKeeps ==
  ASSUME RvfInv, NEW v \in Verifiers, Replace(v) PROVE RvfInv'
<1> DEFINE x == verifier[v]
<1>1. /\ x \in VerifierRecord /\ Compared(x, replayed) /\ Named(x) /\ x.at = "replace"
      /\ env' = env /\ replayed' = replayed BY DEF RvfInv, Replace, Step
<1>2. ASSUME verifier' = [verifier EXCEPT ![v] = [x EXCEPT !.at = "done"]],
             NEW t \in Mine(v), file' = <<t.content>>, temps' = Removed(v)
      PROVE  RvfInv'
  <2> DEFINE y == [x EXCEPT !.at = "done"]
  <2>1. verifier' = [verifier EXCEPT ![v] = y] BY <1>2
  <2>2. t.content = Whole(BuildReport(v, x.doc[1]))
    BY <1>1, <1>2 DEF RvfInv, Mine, TempOwned, Content
  <2>3. FileTrusted'
    <3> DEFINE d == x.doc[1]
               r == BuildReport(v, d)
    <3>1. r.route = d /\ r.runtime = d.manifest BY DEF BuildReport
    <3>2. Earned(d, replayed) BY <1>1 DEF Compared
    <3> HIDE DEF r, d
    <3>3. Whole(r).whole = TRUE /\ Whole(r).report = r BY DEF Whole
    <3>4. file'[1] = Whole(r) BY <1>2, <2>2 DEF r, d
    <3> QED BY <1>1, <3>1, <3>2, <3>3, <3>4 DEF FileTrusted, Earned
  <2> HIDE DEF x
  <2>4. y \in VerifierRecord BY <1>1 DEF VerifierRecord, Stages
  <2>5. /\ y.at = "done" /\ y.doc = x.doc /\ y.ending = x.ending
        /\ y.category = x.category BY <1>1 DEF VerifierRecord
  <2> HIDE DEF y
  <2>6. Compared(y, replayed') /\ Named(y) BY <1>1, <2>5 DEF Compared, Named
  <2>7. ASSUME NEW s \in temps' PROVE s.owner # v /\ s \in temps
    BY <1>2, <2>7, RemovedOthers
  <2> QED BY <1>1, <2>1, <2>3, <2>4, <2>6, <2>7, FileStep
<1>3. ASSUME verifier' = [verifier EXCEPT ![v] = [x EXCEPT !.denials = @ + 1]],
             UNCHANGED <<file, temps>>
      PROVE  RvfInv'
  <2> DEFINE n == x.denials + 1
             y == [x EXCEPT !.denials = n]
  <2>1. verifier' = [verifier EXCEPT ![v] = y] BY <1>3
  <2>2. n \in Nat BY <1>1 DEF VerifierRecord
  <2> HIDE DEF x, n
  <2>3. y \in VerifierRecord BY <1>1, <2>2 DEF VerifierRecord
  <2>4. /\ y.at = x.at /\ y.doc = x.doc /\ y.ending = x.ending
        /\ y.category = x.category BY <1>1, <2>2 DEF VerifierRecord
  <2> HIDE DEF y
  <2>5. Compared(y, replayed') /\ Named(y) BY <1>1, <2>4 DEF Compared, Named
  <2> QED BY <1>1, <1>3, <2>1, <2>3, <2>4, <2>5, QuietStep DEF x
<1>4. ASSUME verifier' = [verifier EXCEPT ![v] =
                            [x EXCEPT !.at = "failed", !.category = "denied"]],
             temps' = AfterDenial(v), UNCHANGED file
      PROVE  RvfInv'
  <2> DEFINE y == [x EXCEPT !.at = "failed", !.category = "denied"]
  <2>1. verifier' = [verifier EXCEPT ![v] = y] BY <1>4
  <2> HIDE DEF x
  <2>2. y \in VerifierRecord BY <1>1 DEF VerifierRecord, Stages, Categories
  <2>3. /\ y.at = "failed" /\ y.doc = x.doc /\ y.ending = x.ending
        /\ y.category = "denied" BY <1>1 DEF VerifierRecord
  <2> HIDE DEF y
  <2>4. Compared(y, replayed') /\ Named(y) BY <1>1, <2>3 DEF Compared, Named
  <2>5. ASSUME NEW t \in temps' PROVE t.owner # v /\ t \in temps
    BY <1>4, <2>5, RemovedOthers DEF AfterDenial
  <2>6. FileTrusted' BY <1>1, <1>4 DEF RvfInv, FileTrusted
  <2> QED BY <1>1, <2>1, <2>2, <2>4, <2>5, <2>6, FileStep
<1> QED BY <1>2, <1>3, <1>4 DEF Replace, Step

----------------------------------------------------------------------------
LEMMA RvfStep == RvfInv /\ [RvfNext]_rvfVars => RvfInv'
<1> SUFFICES ASSUME RvfInv, [RvfNext]_rvfVars PROVE RvfInv' OBVIOUS
<1>1. CASE Upgrade BY <1>1, UpgradeKeeps
<1>2. ASSUME NEW v \in Verifiers,
             \/ Load(v) \/ CheckManifest(v) \/ Replay(v) \/ Compare(v)
             \/ Create(v) \/ Flush(v) \/ Replace(v) \/ Crash(v)
      PROVE  RvfInv'
  BY <1>2, LoadKeeps, CheckManifestKeeps, ReplayKeeps, CompareKeeps, CreateKeeps,
    FlushKeeps, ReplaceKeeps, CrashKeeps
<1>3. CASE UNCHANGED rvfVars
  <2>1. /\ env' = env /\ verifier' = verifier /\ file' = file
        /\ temps' = temps /\ replayed' = replayed BY <1>3 DEF rvfVars
  <2>2. ASSUME NEW t \in temps' PROVE TempOwned(t)'
    BY <2>1, <2>2 DEF RvfInv, TempOwned, Content
  <2> QED BY <2>1, <2>2 DEF RvfInv, Compared, Named, Earned, FileTrusted
<1> QED BY <1>1, <1>2, <1>3 DEF RvfNext

LEMMA RvfInvImplies == RvfInv => ReportsTrusted
<1> SUFFICES ASSUME RvfInv PROVE ReportsTrusted OBVIOUS
<1>1. ReportEarned /\ ReportWhole
  BY DEF RvfInv, FileTrusted, Earned, ReportEarned, ReportWhole
<1>2. TemporariesOwned BY DEF RvfInv, TempOwned, TemporariesOwned
<1>3. OutcomeNamed BY DEF RvfInv, Named, OutcomeNamed
<1> QED BY <1>1, <1>2, <1>3 DEF ReportsTrusted

\* However many verifiers write the same report, fail and are killed, and
\* however often the environment changes under them: a report that can be read
\* is whole, describes a document a fresh worker delivered in the environment
\* it names, and a failure is named after what happened to the worker.
THEOREM ReportSafety == RvfSpec => []ReportsTrusted
<1>1. RvfSpec => []RvfInv BY RvfInitially, RvfStep, PTL DEF RvfSpec
<1> QED BY <1>1, RvfInvImplies, PTL

-----------------------------------------------------------------------------
(* Route documents. *)
\* What the loader makes of a YAML file: its lists are lists, and a
\* checkpoint has a hash or Null for one.
Listed(s) == s \in Seq({s[i] : i \in DOMAIN s})
Shaped(d) ==
  /\ Listed(d.replay.events)
  /\ d.interruptions # Null => Listed(d.interruptions)
  /\ d.experiment.interruption # Null => Listed(d.experiment.interruption.definitions)
  /\ \A k \in DOMAIN d.checkpoints : "hash" \in DOMAIN d.checkpoints[k]

LEMMA ListedIs ==
  ASSUME NEW s, Listed(s)
  PROVE  Len(s) \in Nat /\ DOMAIN s = 1..Len(s)
BY DEF Listed

\* A set of numbers has a least one.
LEMMA LeastIndex ==
  ASSUME NEW S \in SUBSET Nat, S # {}
  PROVE  \E x \in S : \A y \in S : x <= y
<1> DEFINE R == {ss \in Nat \X Nat : ss[1] < ss[2]}
<1>1. IsWellFoundedOn(R, Nat) BY NatLessThanWellFounded DEF OpToRel
<1> HIDE DEF R
<1>2. PICK x \in S : \A y \in S : ~ (<<y, x>> \in R) BY <1>1, WFMin
<1>3. ASSUME NEW y \in S PROVE x <= y
  <2>1. <<y, x>> \in Nat \X Nat => ~ (y < x) BY <1>2 DEF R
  <2> QED BY <2>1
<1> QED BY <1>3

\* A set of positions in a list has a last one.
LEMMA LastOfIs ==
  ASSUME NEW n \in Nat, NEW S \in SUBSET (1..n), S # {}
  PROVE  LastOf(S) \in S /\ \A j \in S : j <= LastOf(S)
<1> DEFINE back == {n - k : k \in S}
<1>1. back \in SUBSET Nat /\ back # {}
  <2>1. \A k \in S : k \in Int /\ k <= n OBVIOUS
  <2>2. \A k \in S : n - k \in Nat BY <2>1
  <2> QED BY <2>2
<1>2. PICK b \in back : \A c \in back : b <= c
  <2> HIDE DEF back
  <2> QED BY <1>1, LeastIndex
<1>3. PICK k \in S : b = n - k OBVIOUS
<1>4. \A j \in S : j <= k
  <2> TAKE j \in S
  <2>1. b <= n - j BY <1>2
  <2> QED BY <2>1, <1>3
<1> QED BY <1>3, <1>4 DEF LastOf

(* Boards. *)
\* A result board, or a side of a durability report, names a checkpoint,
\* and that checkpoint an event of the same state.
LEMMA BoardOfIs ==
  ASSUME NEW c, "hash" \in DOMAIN c
  PROVE  BoardOf(c).hash = c.hash
BY DEF BoardOf

LEMMA BoardsReachedWhenAccepted ==
  ASSUME NEW d, Accepted(d), Shaped(d)
  PROVE  BoardsReached(d)
<1> DEFINE events == d.replay.events
           cs == d.checkpoints
           report == d.result.durability
<1>1. \A k \in DOMAIN cs : CheckpointOK(cs[k], events) BY DEF Accepted, CheckpointsOK
<1>2. \A step : \A c \in At(cs, step) :
        /\ c.step = step /\ step \in DOMAIN events
        /\ events[step].after \in {Null, c.hash} /\ "hash" \in DOMAIN c
  BY <1>1 DEF At, CheckpointOK, Shaped
<1>3. ASSUME NEW b \in {d.result.peak, d.result.terminal}, b # Null
      PROVE  b.step \in DOMAIN events /\ events[b.step].after \in {Null, b.hash}
  BY <1>3, <1>2 DEF Accepted, ResultOK, BoardOK
<1>4. ASSUME report # Null, NEW b \in {report.before, report.after}
      PROVE  b.step \in DOMAIN events /\ events[b.step].after \in {Null, b.hash}
  <2>1. DurabilityOK(report, cs) BY DEF Accepted, ResultOK
  <2>2. PICK before \in At(cs, report.before.step), after \in At(cs, report.after.step) :
          report = DurabilityReport(before, after) BY <2>1, <1>4 DEF DurabilityOK
  <2>3. report.before = BoardOf(before) /\ report.after = BoardOf(after)
    BY <2>2 DEF DurabilityReport
  <2>4. report.before.hash = before.hash /\ report.after.hash = after.hash
    BY <2>3, <1>2, BoardOfIs
  <2> QED BY <2>4, <1>2, <1>4
<1> QED BY <1>3, <1>4 DEF BoardsReached

(* Interruptions. *)
LEMMA InterruptedWhenAccepted ==
  ASSUME NEW d, Accepted(d), Shaped(d)
  PROVE  InterruptedAsDefined(d)
<1> DEFINE xs == d.interruptions
           applied == Applied(d)
           events == d.replay.events
           config == d.experiment.interruption
           defs == IF config = Null THEN {} ELSE
                     {config.definitions[k] : k \in DOMAIN config.definitions} \ {Null}
           ids == [k \in DOMAIN config.definitions |-> config.definitions[k].id]
<1> SUFFICES ASSUME xs # Null, applied # {}
             PROVE  /\ config.mode = "scripted" =>
                         Cardinality(applied) = Len(config.definitions)
                    /\ \A k \in applied :
                         /\ xs[k].at <= d.lineage.fork
                         /\ events[xs[k].at].before = xs[k].target.before
                         /\ events[xs[k].at].action.player = xs[k].target.player
                         /\ xs[k].responses # Null => \A j \in DOMAIN xs[k].responses :
                              xs[k].responses[j].step \in xs[k].at + 1..Len(events)
  BY Zenon DEF InterruptedAsDefined
<1>1. InterruptionsOK(d) BY DEF Accepted
<1>2. \A k \in applied : k \in DOMAIN xs /\ xs[k].at \in DOMAIN events
  BY <1>1 DEF InterruptionsOK, Applied
<1>3. \A k \in applied : \E def \in defs : AppliedOK(xs[k], d, def)
  BY <1>1, Zenon DEF InterruptionsOK
<1>4. \A j, k \in applied : j < k => xs[j].at < xs[k].at
  BY <1>1, Zenon DEF InterruptionsOK
<1>5. config # Null BY <1>3
<1>6. config.mode = "scripted" => Cardinality(applied) = Len(ids)
  BY <1>1, <1>5 DEF InterruptionsOK
<1>7. d.lineage.fork = xs[LastOf(applied)].at BY <1>1, Zenon DEF InterruptionsOK
<1>8. Len(events) \in Nat /\ DOMAIN events = 1..Len(events) BY ListedIs DEF Shaped
<1>9. Len(ids) = Len(config.definitions) BY <1>5, ListedIs DEF Shaped
<1>10. LastOf(applied) \in applied /\ \A j \in applied : j <= LastOf(applied)
       /\ applied \subseteq Int
  <2>1. Len(xs) \in Nat /\ DOMAIN xs = 1..Len(xs) BY ListedIs DEF Shaped
  <2>2. applied \in SUBSET (1..Len(xs)) BY <2>1, <1>2
  <2> HIDE DEF applied
  <2>3. LastOf(applied) \in applied /\ \A j \in applied : j <= LastOf(applied)
    BY <2>1, <2>2, LastOfIs
  <2> QED BY <2>2, <2>3
<1>11. ASSUME NEW k \in applied
       PROVE  /\ xs[k].at <= d.lineage.fork
              /\ events[xs[k].at].before = xs[k].target.before
              /\ events[xs[k].at].action.player = xs[k].target.player
              /\ xs[k].responses # Null => \A j \in DOMAIN xs[k].responses :
                   xs[k].responses[j].step \in xs[k].at + 1..Len(events)
  <2> DEFINE x == xs[k]
  <2>1. PICK def \in defs : AppliedOK(x, d, def) BY <1>3
  <2>2. x.at \in Nat /\ xs[LastOf(applied)].at \in Nat BY <1>2, <1>8, <1>10
  <2>3. x.at <= d.lineage.fork
    <3>1. CASE k = LastOf(applied) BY <3>1, <2>2, <1>7
    <3>2. CASE k # LastOf(applied) BY <1>10, <1>4, <1>7, <2>2, <3>2
    <3> QED BY <3>1, <3>2
  <2>4. OpportunityOK(x.target, events[x.at], x.at) BY <2>1 DEF AppliedOK
  <2>5. /\ x.target.before = events[x.at].before
        /\ x.target.player = events[x.at].action.player
    BY <2>4 DEF OpportunityOK, TargetOf
  <2>6. AnswersOK(x, events) BY <2>1 DEF AppliedOK
  <2>7. ASSUME x.responses # Null, NEW j \in DOMAIN x.responses
        PROVE  x.responses[j].step \in x.at + 1..Len(events)
    <3>1. ResponseOK(x.responses[j], j, x.at, events) BY <2>6, <2>7 DEF AnswersOK
    <3>2. x.responses[j].step \in DOMAIN events /\ x.responses[j].step > x.at
      BY <3>1 DEF ResponseOK
    <3> QED BY <3>2, <2>2, <1>8
  <2> QED BY <2>3, <2>5, <2>7
<1> QED BY <1>6, <1>9, <1>11

(* Groups of moves. *)
\* A group has the steps from its first one up to the next lifecycle.
LEMMA GroupStepsAre ==
  ASSUME NEW events, NEW n \in Nat, DOMAIN events = 1..n,
         NEW s \in GroupStarts(events), NEW i \in 1..n
  PROVE  (\E k \in DOMAIN GroupFrom(events, s).steps : GroupFrom(events, s).steps[k] = i)
           <=> s <= i /\ \A t \in GroupStarts(events) : s < t => i < t
<1> DEFINE starts == GroupStarts(events)
           later == {t \in starts : s < t}
           steps == {j \in DOMAIN events : s <= j /\ \A t \in starts : s < t => j < t}
           at == [k \in 1..Cardinality(steps) |-> s + k - 1]
<1>1. starts \subseteq 1..n /\ s \in 1..n BY DEF GroupStarts
<1>2. GroupFrom(events, s).steps = at BY Zenon DEF GroupFrom
<1>3. PICK e \in s..n : steps = s..e
  <2>1. CASE later = {} BY <1>1, <2>1
  <2>2. CASE later # {}
    <3>1. later \in SUBSET Nat BY <1>1
    <3>2. PICK t \in later : \A u \in later : t <= u
      <4> HIDE DEF later
      <4> QED BY <3>1, <2>2, LeastIndex
    <3>3. t \in 1..n /\ s < t BY <1>1
    <3>4. \A j \in 1..n : j < t => \A u \in starts : s < u => j < u
      <4> TAKE j \in 1..n
      <4> SUFFICES ASSUME j < t, NEW u \in starts, s < u PROVE j < u OBVIOUS
      <4>1. t <= u BY <3>2
      <4> QED BY <4>1, <3>3, <1>1
    <3>5. steps = s..(t - 1) BY <3>3, <3>4, <1>1
    <3>6. t - 1 \in s..n BY <3>3, <1>1
    <3> HIDE DEF steps
    <3> QED BY <3>5, <3>6
  <2> QED BY <2>1, <2>2
<1>4. Cardinality(steps) = e - s + 1
  <2>1. Cardinality(s..e) = IF s > e THEN 0 ELSE e - s + 1 BY <1>1, FS_Interval
  <2>2. s \in Int /\ e \in Int /\ s <= e BY <1>1
  <2>3. Cardinality(steps) = Cardinality(s..e) BY <1>3
  <2> HIDE DEF steps
  <2> QED BY <2>1, <2>2, <2>3
<1>5. (\E k \in DOMAIN at : at[k] = i) <=> i \in s..e
  <2>1. DOMAIN at = 1..(e - s + 1) BY <1>4
  <2>2. \A k \in DOMAIN at : at[k] = s + k - 1 OBVIOUS
  <2> HIDE DEF at
  <2>3. ASSUME NEW k \in DOMAIN at, at[k] = i PROVE i \in s..e
    BY <2>1, <2>2, <2>3, <1>1
  <2>4. ASSUME i \in s..e PROVE \E k \in DOMAIN at : at[k] = i
    <3>1. i - s + 1 \in DOMAIN at BY <2>1, <2>4, <1>1
    <3>2. at[i - s + 1] = i BY <3>1, <2>2, <1>1
    <3> QED BY <3>1, <3>2
  <2> QED BY <2>3, <2>4
<1>6. i \in steps <=> s <= i /\ \A t \in starts : s < t => i < t OBVIOUS
<1> QED BY <1>2, <1>3, <1>5, <1>6

LEMMA MovesGroupedWhenAccepted ==
  ASSUME NEW d, Accepted(d), Shaped(d)
  PROVE  MovesGrouped(d)
<1> DEFINE events == d.replay.events
           groups == d.presentation.aggregation.groups
           starts == GroupStarts(events)
           of(i) == {g \in DOMAIN groups : \E k \in DOMAIN groups[g].steps : groups[g].steps[k] = i}
<1> SUFFICES ASSUME d.presentation # Null
             PROVE  /\ \A i \in DOMAIN events : Cardinality(of(i)) = 1
                    /\ d.presentation.status = "validated" =>
                         \A i \in DOMAIN events \ {1} :
                           of(i) = of(i - 1) <=> ~events[i].output.batch.opens
  BY Zenon DEF MovesGrouped
<1>1. PresentationOK(d.presentation, events) BY DEF Accepted
<1>2. \A i \in DOMAIN events : Cardinality(of(i)) = 1
  BY <1>1 DEF PresentationOK, AggregationOK
<1>3. Len(events) \in Nat /\ DOMAIN events = 1..Len(events) BY ListedIs DEF Shaped
<1>4. ASSUME d.presentation.status = "validated", NEW i \in DOMAIN events \ {1}
      PROVE  of(i) = of(i - 1) <=> ~events[i].output.batch.opens
  <2>1. d.presentation.aggregation = Aggregation(events)
    BY <1>1, <1>4 DEF PresentationOK
  <2>2. groups = [s \in starts |-> GroupFrom(events, s)] BY <2>1 DEF Aggregation
  <2>3. \A j \in DOMAIN events : of(j) =
          {s \in starts : s <= j /\ \A t \in starts : s < t => j < t}
    <3> TAKE j \in DOMAIN events
    <3>1. \A s \in starts : groups[s] = GroupFrom(events, s) BY <2>2
    <3>2. \A s \in starts : (\E k \in DOMAIN groups[s].steps : groups[s].steps[k] = j)
            <=> s <= j /\ \A t \in starts : s < t => j < t BY <1>3, <3>1, GroupStepsAre
    <3> QED BY <2>2, <3>2
  <2>4. i \in 1..Len(events) /\ i - 1 \in DOMAIN events BY <1>3, <1>4
  <2>5. starts \subseteq 1..Len(events) /\ (i \in starts <=> events[i].output.batch.opens)
    BY <1>3, <1>4, <2>4 DEF GroupStarts
  <2> HIDE DEF starts, of
  <2>6. CASE i \in starts BY <1>3, <2>3, <2>4, <2>5, <2>6
  <2>7. CASE i \notin starts
    <3>1. \A s \in starts : (s <= i <=> s <= i - 1) /\ (i < s <=> i - 1 < s)
      BY <2>4, <2>5, <2>7
    <3>2. of(i) = of(i - 1) BY <2>3, <2>4, <3>1, <1>3
    <3> QED BY <3>2, <2>5, <2>7
  <2> QED BY <2>6, <2>7
<1> QED BY <1>2, <1>4

(* What a reader is let read. *)
\* Nothing is read before a worker ended, and a document that was let pass
\* has not been edited since.
RdInv ==
  /\ made.outcome = "none" => document = Null /\ verdict = "none"
  /\ verdict \in {"read", "verified"} => Accepted(document)

\* Whatever runs and edits there are, a document that is read or verified
\* shows only boards its replay reached, interruptions that happened as the
\* experiment defines them, and every move in one group, a new one where
\* the core opened a lifecycle (validate_route_document as its readers use
\* it, in route_dsl/validator.py).
THEOREM RouteDocumentsSafety ==
  RdSpec => [](verdict \in {"read", "verified"} /\ Shaped(document) =>
                 /\ BoardsReached(document) /\ InterruptedAsDefined(document)
                 /\ MovesGrouped(document))
<1>1. RdInit => RdInv BY DEF RdInit, RdInv
<1>2. RdInv /\ [RdNext]_rdVars => RdInv'
  <2> SUFFICES ASSUME RdInv, [RdNext]_rdVars PROVE RdInv' OBVIOUS
  <2>1. ASSUME NEW r \in RdRuns, RecordRoute(r) PROVE RdInv'
    BY <2>1 DEF RecordRoute, RdInv
  <2>2. CASE EditDocument BY <2>2 DEF EditDocument, RdInv
  <2>3. ASSUME NEW fresh \in BOOLEAN, Read(fresh) PROVE RdInv' BY <2>3 DEF Read, RdInv
  <2>4. CASE UNCHANGED rdVars BY <2>4 DEF rdVars, RdInv
  <2> QED BY <2>1, <2>2, <2>3, <2>4 DEF RdNext
<1>3. RdInv => (verdict \in {"read", "verified"} /\ Shaped(document) =>
                 /\ BoardsReached(document) /\ InterruptedAsDefined(document)
                 /\ MovesGrouped(document))
  BY BoardsReachedWhenAccepted, InterruptedWhenAccepted, MovesGroupedWhenAccepted DEF
    RdInv
<1> QED BY <1>1, <1>2, <1>3, PTL DEF RdSpec

-----------------------------------------------------------------------------
(* Player views. *)
\* What two worlds have in common when they differ in no code the viewer
\* may know.
Agree(seen) == \A c \in seen : pvCodes[c] = RealCode[c]

\* A card that is shown, listed or not hidden is one the viewer may know.
LEMMA ShownIsEntitled ==
  ASSUME NEW p, NEW viewer
  PROVE  /\ ShowsCard(p, viewer) => Entitled(p, viewer)
         /\ VisibleTo(p, viewer) => Entitled(p, viewer)
         /\ ~ CardHidden(p, viewer) => Entitled(p, viewer)
BY DEF ShowsCard, CountOnly, IsHidden, FaceDown, Position, Entitled, VisibleTo,
  CardHidden, FieldZones

\* The access policy allows what the observation shows.
LEMMA PolicyIsView ==
  ASSUME NEW p, NEW viewer, NEW order
  PROVE  ShowsCard(p, viewer) <=>
           (p.loc # "deck" /\ DecideAccess(InformationField(p), p.ctrl, viewer, order) = "allowed")
<1>1. CASE p.loc = "deck" BY <1>1 DEF ShowsCard, CountOnly
<1>2. CASE p.loc \in {"hand", "extra_deck"}
  BY <1>2 DEF InformationField, DecideAccess, ShowsCard, CountOnly
<1>3. CASE p.loc \notin {"deck", "hand", "extra_deck"}
  BY <1>3 DEF InformationField, DecideAccess, ShowsCard, CountOnly
<1> QED BY <1>1, <1>2, <1>3

\* Worlds that agree on what the viewer may know are told in the same words.
LEMMA SameObservation ==
  ASSUME NEW layout, NEW code, NEW other, NEW viewer, NEW request, NEW asked,
         \A c \in ViewCards : Entitled(layout[c], viewer) => other[c] = code[c],
         asked.player = request.player,
         request.player = viewer => asked.kinds = request.kinds
  PROVE  ProjectObservation(layout, code, viewer, request)
           = ProjectObservation(layout, other, viewer, asked)
<1> DEFINE field(g) == [c \in {d \in ViewCards : layout[d].loc \in FieldZones} |->
                [place |-> [ctrl |-> layout[c].ctrl, loc |-> layout[c].loc, position |-> Position(layout[c])],
                 code |-> IF ShowsCard(layout[c], viewer) THEN g[c] ELSE 0]]
           like(g, p, loc, k) == Cardinality({c \in ViewCards : layout[c].ctrl = p /\ layout[c].loc = loc
                               /\ ShowsCard(layout[c], viewer) /\ g[c] = k})
           piles(g) == [p \in {0, 1} |-> [loc \in Locations \ FieldZones |-> [k \in CardCodes |->
                like(g, p, loc, k)]]]
           told(r) == IF r.player = viewer THEN r.kinds ELSE {}
           counts == [p \in {0, 1} |-> [loc \in Locations |-> ZoneCount(layout, p, loc)]]
<1>1. \A c \in ViewCards : ShowsCard(layout[c], viewer) => other[c] = code[c]
  BY ShownIsEntitled
<1>2. field(code) = field(other) BY <1>1
<1>3. \A p, loc, k : {c \in ViewCards : layout[c].ctrl = p /\ layout[c].loc = loc
                               /\ ShowsCard(layout[c], viewer) /\ code[c] = k}
                      = {c \in ViewCards : layout[c].ctrl = p /\ layout[c].loc = loc
                               /\ ShowsCard(layout[c], viewer) /\ other[c] = k} BY <1>1
<1>4. piles(code) = piles(other)
  <2>1. \A p, loc, k : like(code, p, loc, k) = like(other, p, loc, k) BY <1>3
  <2> HIDE DEF like
  <2> QED BY <2>1
<1>5. told(request) = told(asked) OBVIOUS
<1>6. /\ ProjectObservation(layout, code, viewer, request)
           = [counts |-> counts, field |-> field(code), piles |-> piles(code), request |-> told(request)]
      /\ ProjectObservation(layout, other, viewer, asked)
           = [counts |-> counts, field |-> field(other), piles |-> piles(other), request |-> told(asked)]
  BY Zenon DEF ProjectObservation
<1> HIDE DEF field, piles, told, counts
<1> QED BY <1>2, <1>4, <1>5, <1>6

\* The whole step of the document, and the visible snapshot.
LEMMA SameStep ==
  ASSUME NEW layout, NEW code, NEW other, NEW viewer, NEW event, NEW done,
         NEW request, NEW asked, NEW handlers \in SUBSET ViewCards,
         \A c \in ViewCards : Entitled(layout[c], viewer) => other[c] = code[c],
         \A c \in handlers : other[c] = code[c],
         done.actor = event.actor, event.actor = viewer => done.kind = event.kind,
         asked.player = request.player,
         request.player = viewer => asked.kinds = request.kinds
  PROVE  /\ ProjectStep(layout, code, viewer, event, request, handlers)
              = ProjectStep(layout, other, viewer, done, asked, handlers)
         /\ ProjectVisible(layout, code, viewer) = ProjectVisible(layout, other, viewer)
<1>1. ProjectEvent(viewer, event.actor, event.kind) = ProjectEvent(viewer, done.actor, done.kind)
  BY DEF ProjectEvent
<1>2. ProjectObservation(layout, code, viewer, request)
        = ProjectObservation(layout, other, viewer, asked) BY SameObservation
<1>3. {code[c] : c \in handlers} = {other[c] : c \in handlers} OBVIOUS
<1>4. Evaluate(layout, code) = Evaluate(layout, other) BY DEF Evaluate
<1>5. ProjectStep(layout, code, viewer, event, request, handlers)
        = ProjectStep(layout, other, viewer, done, asked, handlers)
  BY <1>1, <1>2, <1>3, <1>4 DEF ProjectStep
<1>6. ProjectVisible(layout, code, viewer) = ProjectVisible(layout, other, viewer)
  BY ShownIsEntitled DEF ProjectVisible
<1> QED BY <1>5, <1>6

(* The sampler of opening hands. *)
LEMMA Climbs ==
  ASSUME NEW m \in Nat, NEW S, 0 \in S, \A n \in 0..(m - 1) : n \in S => n + 1 \in S
  PROVE  \A n \in 0..m : n \in S
<1> SUFFICES ASSUME NEW z \in 0..m, z \notin S PROVE FALSE OBVIOUS
<1> DEFINE T == {n \in 0..m : n \notin S}
<1>0. T \in SUBSET Nat /\ T # {} OBVIOUS
<1>1. PICK x \in T : \A y \in T : x <= y
  <2> HIDE DEF T
  <2> QED BY <1>0, LeastIndex
<1>2. x # 0 /\ x \in 1..m OBVIOUS
<1>3. x - 1 \in 0..(m - 1) /\ x - 1 \in 0..m /\ (x - 1) + 1 = x /\ ~ (x <= x - 1) BY <1>2
<1>4. x - 1 \in S BY <1>1, <1>3
<1>5. (x - 1) + 1 \in S BY <1>3, <1>4
<1> QED BY <1>3, <1>5

\* The recursive function behind Cumulative exists for every length.
IsUpTo(w, n, f) == f = [i \in 0..n |-> IF i = 0 THEN 0 ELSE f[i - 1] + w[i]]
UpTo(w, n) == CHOOSE f : IsUpTo(w, n, f)

LEMMA UpToExists == ASSUME NEW w, NEW n \in Nat PROVE \E f : IsUpTo(w, n, f)
<1> DEFINE ok(m) == \E f : IsUpTo(w, m, f)
           S == {m \in 0..n : ok(m)}
<1>1. ok(0)
  <2> DEFINE f == [i \in 0..0 |-> 0]
  <2>1. f = [i \in 0..0 |-> IF i = 0 THEN 0 ELSE f[i - 1] + w[i]] OBVIOUS
  <2> QED BY <2>1 DEF IsUpTo
<1>2. ASSUME NEW m \in 0..(n - 1), ok(m) PROVE ok(m + 1)
  <2>1. PICK f : f = [i \in 0..m |-> IF i = 0 THEN 0 ELSE f[i - 1] + w[i]] BY <1>2 DEF IsUpTo
  <2> DEFINE last == f[m] + w[m + 1]
             g == [i \in 0..(m + 1) |-> IF i = m + 1 THEN last ELSE f[i]]
  <2>2. \A i \in 0..m : f[i] = IF i = 0 THEN 0 ELSE f[i - 1] + w[i] BY <2>1
  <2>3. ASSUME NEW i \in 0..(m + 1)
        PROVE  g[i] = IF i = 0 THEN 0 ELSE g[i - 1] + w[i]
    <3>1. CASE i = m + 1 BY <3>1
    <3>2. CASE i # m + 1
      <4>1. i \in 0..m BY <3>2
      <4>2. i # 0 => i - 1 \in 0..m /\ i - 1 \in 0..(m + 1) /\ i - 1 # m + 1 BY <4>1
      <4>3. i # 0 => g[i - 1] = f[i - 1] BY <4>2
      <4>4. g[i] = f[i] BY <3>2
      <4> QED BY <2>2, <4>1, <4>3, <4>4
    <3> QED BY <3>1, <3>2
  <2>4. g = [i \in 0..(m + 1) |-> g[i]] OBVIOUS
  <2> HIDE DEF g
  <2>5. g = [i \in 0..(m + 1) |-> IF i = 0 THEN 0 ELSE g[i - 1] + w[i]] BY <2>3, <2>4
  <2> QED BY <2>5 DEF IsUpTo
<1> HIDE DEF ok
<1>3. \A m \in 0..n : m \in S
  <2>1. 0 \in S BY <1>1
  <2>2. \A m \in 0..(n - 1) : m \in S => m + 1 \in S BY <1>2
  <2> HIDE DEF S
  <2> QED BY <2>1, <2>2, Climbs
<1>4. ok(n) BY <1>3
<1> QED BY <1>4 DEF ok

\* The weights add up, one after the other.
LEMMA CumulativeIs ==
  ASSUME NEW w \in Seq(Nat \ {0})
  PROVE  /\ Cumulative(w)[0] = 0
         /\ \A i \in 1..Len(w) : Cumulative(w)[i] = Cumulative(w)[i - 1] + w[i]
         /\ \A i \in 0..Len(w) : Cumulative(w)[i] \in Nat
<1> DEFINE n == Len(w)
           f == UpTo(w, n)
           S == {i \in 0..n : f[i] \in Nat}
<1>1. n \in Nat OBVIOUS
<1>2. IsUpTo(w, n, f) BY <1>1, UpToExists, Zenon DEF UpTo
<1>3. Cumulative(w) = f BY Zenon DEF Cumulative, UpTo, IsUpTo
<1> HIDE DEF f
<1>4. \A i \in 0..n : f[i] = IF i = 0 THEN 0 ELSE f[i - 1] + w[i] BY <1>2 DEF IsUpTo
<1>5. f[0] = 0 /\ \A i \in 1..n : f[i] = f[i - 1] + w[i] BY <1>1, <1>4
<1>6. \A i \in 0..n : i \in S
  <2>1. 0 \in S BY <1>1, <1>5
  <2>2. \A i \in 0..(n - 1) : i \in S => i + 1 \in S
    <3> TAKE i \in 0..(n - 1)
    <3> HAVE i \in S
    <3>1. i + 1 \in 1..n /\ (i + 1) - 1 = i BY <1>1
    <3>2. w[i + 1] \in Nat BY <3>1
    <3>3. f[i + 1] = f[i] + w[i + 1] BY <3>1, <1>5
    <3> QED BY <3>1, <3>2, <3>3
  <2> HIDE DEF S, n
  <2> QED BY <2>1, <2>2, <1>1, Climbs
<1> QED BY <1>3, <1>5, <1>6

\* They only grow.
LEMMA CumulativeGrows ==
  ASSUME NEW w \in Seq(Nat \ {0}), NEW i \in 0..Len(w), NEW j \in 0..Len(w), i <= j
  PROVE  Cumulative(w)[i] <= Cumulative(w)[j]
<1> DEFINE n == Len(w)
           c == Cumulative(w)
           S == {k \in 0..n : i <= k => c[i] <= c[k]}
<1>1. n \in Nat /\ \A k \in 1..n : w[k] \in Nat OBVIOUS
<1>2. /\ \A k \in 0..n : c[k] \in Nat
      /\ \A k \in 1..n : c[k] = c[k - 1] + w[k] BY CumulativeIs
<1> HIDE DEF c, n
<1>3. 0 \in S BY <1>1, <1>2 DEF n
<1>4. \A k \in 0..(n - 1) : k \in S => k + 1 \in S
  <2> TAKE k \in 0..(n - 1)
  <2> HAVE k \in S
  <2>1. k + 1 \in 1..n /\ k + 1 \in 0..n /\ k \in 0..n /\ (k + 1) - 1 = k BY <1>1
  <2>2. c[k + 1] = c[k] + w[k + 1] /\ w[k + 1] \in Nat /\ c[k] \in Nat
    BY <2>1, <1>1, <1>2
  <2>3. i \in Nat /\ i \in 0..n BY DEF n
  <2>4. i <= k + 1 => i <= k \/ i = k + 1 BY <2>3, <2>1
  <2>5. i = k + 1 => c[i] <= c[k + 1] BY <2>3, <1>2
  <2>6. i <= k => c[i] <= c[k + 1] BY <2>2, <2>3, <1>2
  <2> QED BY <2>1, <2>4, <2>5, <2>6
<1>5. \A k \in 0..n : k \in S
  <2> HIDE DEF S
  <2> QED BY <1>1, <1>3, <1>4, Climbs
<1> QED BY <1>5 DEF n, c

\* A hand is picked by the draws of its part of the whole, and there are
\* as many of them as it weighs.
LEMMA PickedByWeight ==
  ASSUME NEW w \in Seq(Nat \ {0}), NEW i \in DOMAIN w
  PROVE  Cardinality({d \in 0..Cumulative(w)[Len(w)] - 1 : SelectedIndex(w, d) = i}) = w[i]
<1> DEFINE n == Len(w)
           c == Cumulative(w)
           fits(d, j) == d < c[j] /\ \A k \in 1..j - 1 : d >= c[k]
           picked == {d \in 0..c[n] - 1 : SelectedIndex(w, d) = i}
<1>1. n \in Nat /\ DOMAIN w = 1..n /\ \A k \in 1..n : w[k] \in Nat \ {0} OBVIOUS
<1>2. /\ c[0] = 0
      /\ \A k \in 0..n : c[k] \in Nat
      /\ \A k \in 1..n : c[k] = c[k - 1] + w[k] BY CumulativeIs
<1>3. \A j, k \in 0..n : j <= k => c[j] <= c[k] BY CumulativeGrows
<1>4. \A d : SelectedIndex(w, d) = CHOOSE j \in DOMAIN w : fits(d, j)
  BY Zenon DEF SelectedIndex
<1> HIDE DEF c, n
<1>5. i \in 1..n /\ i - 1 \in 0..n /\ i \in 0..n BY <1>1
<1>6. \A d \in Nat : \A j, k \in 1..n : fits(d, j) /\ fits(d, k) => j = k
  <2>1. ASSUME NEW d \in Nat, NEW j \in 1..n, NEW k \in 1..n, fits(d, j), fits(d, k), j < k
        PROVE  FALSE
    <3>1. j \in 1..k - 1 /\ j \in 0..n BY <2>1, <1>1
    <3>2. d < c[j] /\ d >= c[j] /\ c[j] \in Nat BY <3>1, <2>1, <1>2
    <3> QED BY <3>2
  <2> HIDE DEF fits
  <2>2. \A j, k \in 1..n : j < k \/ k < j \/ j = k BY <1>1
  <2> QED BY <2>1, <2>2
<1>7. \A d \in Nat : fits(d, i) <=> c[i - 1] <= d /\ d < c[i]
  <2> TAKE d \in Nat
  <2>1. ASSUME fits(d, i) PROVE c[i - 1] <= d
    <3>1. CASE i = 1 BY <3>1, <1>2
    <3>2. CASE i # 1
      <4>1. i - 1 \in 1..i - 1 BY <3>2, <1>5
      <4> QED BY <4>1, <2>1, <1>2, <1>5
    <3> QED BY <3>1, <3>2
  <2>2. ASSUME c[i - 1] <= d, d < c[i] PROVE fits(d, i)
    <3> SUFFICES ASSUME NEW k \in 1..i - 1 PROVE d >= c[k] BY <2>2
    <3>1. k \in 0..n /\ k <= i - 1 BY <1>1, <1>5
    <3>2. c[k] <= c[i - 1] /\ c[k] \in Nat /\ c[i - 1] \in Nat BY <3>1, <1>2, <1>3, <1>5
    <3> QED BY <3>2, <2>2
  <2> QED BY <2>1, <2>2
<1>8. ASSUME NEW d \in 0..c[n] - 1 PROVE \E j \in 1..n : fits(d, j)
  <2> DEFINE above == {j \in 1..n : d < c[j]}
  <2>1. d \in Nat /\ n \in 1..n /\ d < c[n] BY <1>1, <1>2, <1>5
  <2>2. above \in SUBSET Nat /\ above # {} BY <2>1
  <2>3. PICK j \in above : \A k \in above : j <= k
    <3> HIDE DEF above
    <3> QED BY <2>2, LeastIndex
  <2>4. \A k \in 1..j - 1 : d >= c[k]
    <3> TAKE k \in 1..j - 1
    <3>1. k \in 1..n /\ k < j /\ k \in 0..n BY <1>1
    <3>2. k \notin above
      <4>1. j \in Nat /\ k \in Nat /\ ~ (j <= k) BY <3>1, <1>1
      <4> HIDE DEF above
      <4> QED BY <2>3, <4>1
    <3>3. ~ (d < c[k]) BY <3>1, <3>2
    <3>4. c[k] \in Nat BY <3>1, <1>2
    <3> QED BY <2>1, <3>3, <3>4
  <2> QED BY <2>3, <2>4
<1>9. picked = c[i - 1]..(c[i] - 1)
  <2>1. c[i - 1] \in Nat /\ c[i] \in Nat /\ c[n] \in Nat /\ c[i] <= c[n]
    BY <1>1, <1>5, <1>2, <1>3
  <2>2. ASSUME NEW d \in 0..c[n] - 1
        PROVE  SelectedIndex(w, d) = i <=> c[i - 1] <= d /\ d < c[i]
    <3> DEFINE s == SelectedIndex(w, d)
    <3>1. d \in Nat BY <2>1
    <3>2. s \in 1..n /\ fits(d, s)
      <4>1. s = CHOOSE j \in 1..n : fits(d, j) BY <1>4, <1>1
      <4> HIDE DEF s, fits
      <4> QED BY <4>1, <1>8
    <3>3. s = i <=> fits(d, i)
      <4> HIDE DEF s, fits
      <4> QED BY <3>1, <3>2, <1>5, <1>6
    <3> HIDE DEF s, fits
    <3>4. s = i <=> c[i - 1] <= d /\ d < c[i] BY <3>1, <3>3, <1>7
    <3> QED BY <3>4 DEF s
  <2>3. \A d : d \in picked <=> d \in 0..c[n] - 1 /\ c[i - 1] <= d /\ d < c[i] BY <2>2
  <2> HIDE DEF picked
  <2> DEFINE low == c[i - 1]
             high == c[i]
             top == c[n]
  <2>4. low \in Nat /\ high \in Nat /\ top \in Nat /\ high <= top BY <2>1
  <2>5. \A d : d \in picked <=> d \in 0..top - 1 /\ low <= d /\ d < high BY <2>3
  <2> HIDE DEF low, high, top
  <2>6. \A d : d \in 0..top - 1 /\ low <= d /\ d < high <=> d \in low..(high - 1) BY <2>4
  <2>7. picked = low..(high - 1) BY <2>5, <2>6
  <2> QED BY <2>7 DEF low, high
<1>10. c[i] = c[i - 1] + w[i] /\ c[i - 1] \in Nat /\ w[i] \in Nat \ {0}
  BY <1>1, <1>2, <1>5
<1>11. Cardinality(c[i - 1]..(c[i] - 1)) = w[i]
  <2> DEFINE lo == c[i - 1]
             hi == c[i] - 1
  <2>1. lo \in Int /\ hi \in Int /\ ~ (lo > hi) /\ hi - lo + 1 = w[i] BY <1>10
  <2> HIDE DEF lo, hi
  <2>2. Cardinality(lo..hi) = w[i] BY <2>1, FS_Interval
  <2> QED BY <2>2 DEF lo, hi
<1> QED BY <1>9, <1>11 DEF n, c

(* The views of a route. *)
Codes(cards) == {RealCode[c] : c \in cards}

\* What is shown is the code of a card the viewer may know or of the handler
\* of a chain link, and the registry saw every handler, hidden or visible;
\* what it saw visible, the viewer may know.  An accepted view was audited.
PvInv ==
  /\ pvLayout \in [ViewCards -> Places]
  /\ pvKnown.seen \subseteq ViewCards /\ pvKnown.chained \subseteq ViewCards
  /\ pvSame \in BOOLEAN /\ ViewsAgree
  /\ pvShown \subseteq Codes(pvKnown.seen) \cup Codes(pvKnown.chained)
  /\ Codes(pvKnown.chained) \subseteq pvCanary.hidden \cup pvCanary.visible
  /\ pvCanary.visible \subseteq Codes(pvKnown.seen)
  /\ pvCall.attempts \in Nat
  /\ pvCall.attempts = 0 => pvCall.outcome = ""
  /\ pvCall.outcome = "accepted" => AuditPasses

\* Both worlds are told the same after an event.
LEMMA EventAgrees ==
  ASSUME NEW c \in ViewCards, NEW p \in Places, NEW actor \in {0, 1},
         NEW handlers \in SUBSET ViewCards, PvInv,
         pvLayout' = [pvLayout EXCEPT ![c] = p],
         pvCodes' = pvCodes, pvViewer' = pvViewer,
         Observe(pvLayout', [actor |-> actor, kind |-> "PASS"],
                 IF actor = pvViewer THEN "PASS" ELSE "ACTIVATE_EFFECT",
                 [player |-> actor, kinds |-> KindsOffered],
                 IF actor = pvViewer THEN KindsOffered ELSE {"PASS"}, handlers)
  PROVE  (ViewsAgree /\ pvSame \in BOOLEAN)'
<1> DEFINE layout == pvLayout'
           event == [actor |-> actor, kind |-> "PASS"]
           kind == IF actor = pvViewer THEN "PASS" ELSE "ACTIVATE_EFFECT"
           request == [player |-> actor, kinds |-> KindsOffered]
           offer == IF actor = pvViewer THEN KindsOffered ELSE {"PASS"}
           done == [event EXCEPT !.kind = kind]
           asked == [request EXCEPT !.kinds = offer]
           mine == ProjectStep(layout, RealCode, pvViewer, event, request, handlers)
           other == ProjectStep(layout, pvCodes, pvViewer, done, asked, handlers)
           seen == ProjectVisible(layout, RealCode, pvViewer) = ProjectVisible(layout, pvCodes, pvViewer)
<1>1. pvSame' = (pvSame /\ mine = other /\ seen) BY Zenon DEF Observe
<1>2. pvKnown' = [seen |-> pvKnown.seen \cup {d \in ViewCards : Entitled(layout[d], pvViewer)},
                  chained |-> pvKnown.chained \cup handlers] BY Zenon DEF Observe
<1>3. ASSUME \A d \in pvKnown'.seen \cup pvKnown'.chained : pvCodes[d] = RealCode[d]
      PROVE  mine = other /\ seen /\ pvSame
  <2>1. \A d \in ViewCards : Entitled(layout[d], pvViewer) => pvCodes[d] = RealCode[d]
    BY <1>2, <1>3
  <2>2. \A d \in handlers : pvCodes[d] = RealCode[d] BY <1>2, <1>3
  <2>3. done.actor = event.actor /\ (event.actor = pvViewer => done.kind = event.kind)
    OBVIOUS
  <2>4. asked.player = request.player /\ (request.player = pvViewer => asked.kinds = request.kinds)
    OBVIOUS
  <2>6. pvSame BY <1>2, <1>3 DEF PvInv, ViewsAgree
  <2>5. handlers \in SUBSET ViewCards OBVIOUS
  <2> HIDE DEF layout, event, done, request, asked
  <2>7. mine = other /\ seen BY ONLY <2>1, <2>2, <2>3, <2>4, <2>5, SameStep
  <2> QED BY <2>6, <2>7
<1> HIDE DEF mine, other, seen
<1>4. (pvSame \in BOOLEAN)' BY <1>1
<1>5. (\A d \in pvKnown'.seen \cup pvKnown'.chained : pvCodes'[d] = RealCode[d]) => pvSame'
  BY <1>1, <1>3
<1> QED BY <1>4, <1>5 DEF ViewsAgree

\* The sets the observation and the registry collect.
LEMMA EventCollects ==
  ASSUME NEW layout, NEW event, NEW kind, NEW request, NEW offer,
         NEW handlers \in SUBSET ViewCards, PvInv,
         Observe(layout, event, kind, request, offer, handlers)
  PROVE  /\ (pvKnown.seen \subseteq ViewCards /\ pvKnown.chained \subseteq ViewCards)'
         /\ (pvShown \subseteq Codes(pvKnown.seen) \cup Codes(pvKnown.chained))'
         /\ (Codes(pvKnown.chained) \subseteq pvCanary.hidden \cup pvCanary.visible)'
         /\ (pvCanary.visible \subseteq Codes(pvKnown.seen))'
<1> DEFINE mine == ProjectStep(layout, RealCode, pvViewer, event, request, handlers)
           now(hidden) == {RealCode[c] : c \in {d \in ViewCards : CardHidden(layout[d], pvViewer) = hidden}}
           entitled == {c \in ViewCards : Entitled(layout[c], pvViewer)}
           shows == {RealCode[c] : c \in {d \in ViewCards : ShowsCard(layout[d], pvViewer)}}
<1>1. /\ pvKnown' = [seen |-> pvKnown.seen \cup entitled, chained |-> pvKnown.chained \cup handlers]
      /\ pvShown' = pvShown \cup mine.chain \cup shows
      /\ pvCanary' = [hidden |-> pvCanary.hidden \cup now(TRUE), visible |-> pvCanary.visible \cup now(FALSE)]
  BY Zenon DEF Observe
<1>2. mine.chain = Codes(handlers) BY DEF ProjectStep, Codes
<1>3. shows \subseteq Codes(entitled) BY ShownIsEntitled DEF Codes
<1>4. now(FALSE) \subseteq Codes(entitled) BY ShownIsEntitled DEF Codes
<1>5. Codes(handlers) \subseteq now(TRUE) \cup now(FALSE)
  <2> SUFFICES ASSUME NEW c \in handlers PROVE RealCode[c] \in now(TRUE) \cup now(FALSE)
    BY DEF Codes
  <2>1. CardHidden(layout[c], pvViewer) \in BOOLEAN BY DEF CardHidden
  <2>2. c \in ViewCards OBVIOUS
  <2> HIDE DEF CardHidden
  <2> QED BY <2>1, <2>2
<1>6. \A a, b : Codes(a \cup b) = Codes(a) \cup Codes(b) BY DEF Codes
<1>7. entitled \subseteq ViewCards OBVIOUS
<1> HIDE DEF mine, now, entitled, shows
<1>8. /\ pvKnown'.seen = pvKnown.seen \cup entitled
      /\ pvKnown'.chained = pvKnown.chained \cup handlers
      /\ pvCanary'.hidden = pvCanary.hidden \cup now(TRUE)
      /\ pvCanary'.visible = pvCanary.visible \cup now(FALSE) BY <1>1
<1>9. /\ Codes(pvKnown'.seen) = Codes(pvKnown.seen) \cup Codes(entitled)
      /\ Codes(pvKnown'.chained) = Codes(pvKnown.chained) \cup Codes(handlers)
  BY <1>6, <1>8
<1>10. /\ pvKnown.seen \subseteq ViewCards /\ pvKnown.chained \subseteq ViewCards
       /\ pvShown \subseteq Codes(pvKnown.seen) \cup Codes(pvKnown.chained)
       /\ Codes(pvKnown.chained) \subseteq pvCanary.hidden \cup pvCanary.visible
       /\ pvCanary.visible \subseteq Codes(pvKnown.seen) BY DEF PvInv
<1>11. (pvKnown.seen \subseteq ViewCards /\ pvKnown.chained \subseteq ViewCards)'
  BY <1>7, <1>8, <1>10
<1>12. pvShown' \subseteq Codes(pvKnown'.seen) \cup Codes(pvKnown'.chained)
  BY <1>1, <1>2, <1>3, <1>9, <1>10
<1>13. Codes(pvKnown'.chained) \subseteq pvCanary'.hidden \cup pvCanary'.visible
  BY <1>5, <1>8, <1>9, <1>10
<1>14. pvCanary'.visible \subseteq Codes(pvKnown'.seen) BY <1>4, <1>8, <1>9, <1>10
<1> QED BY <1>11, <1>12, <1>13, <1>14 DEF Codes

LEMMA PvInductive == PvSpec => []PvInv
<1>1. PvInit => PvInv
  <2> SUFFICES ASSUME PvInit PROVE PvInv OBVIOUS
  <2>1. pvLayout \in [ViewCards -> Places] BY PlayerViewAssumption DEF PvInit
  <2>2. pvCall.attempts = 0 BY DEF PvInit
  <2>8. pvCall.outcome = "" BY DEF PvInit
  <2>3. pvKnown.seen = {} /\ pvKnown.chained = {} /\ pvShown = {} /\ pvSame = TRUE
        /\ pvCanary.hidden = {} /\ pvCanary.visible = {} BY DEF PvInit
  <2>4. pvSame \in BOOLEAN /\ ViewsAgree BY <2>3 DEF ViewsAgree
  <2>5. Codes({}) = {} BY DEF Codes
  <2>6. pvCall.attempts \in Nat BY <2>2
  <2>7. pvCall.outcome # "accepted" BY <2>8
  <2> QED BY <2>1, <2>2, <2>3, <2>4, <2>5, <2>6, <2>7, <2>8 DEF PvInv
<1>2. PvInv /\ [PvNext]_pvVars => PvInv'
  <2> SUFFICES ASSUME PvInv, [PvNext]_pvVars PROVE PvInv' OBVIOUS
  <2>1. CASE PvEvent
    <3>1. PICK c \in ViewCards, p \in Places, actor \in {0, 1} : \E handlers \in {{}, {c}} :
            /\ pvLayout' = [pvLayout EXCEPT ![c] = p]
            /\ Observe(pvLayout', [actor |-> actor, kind |-> "PASS"],
                 IF actor = pvViewer THEN "PASS" ELSE "ACTIVATE_EFFECT",
                 [player |-> actor, kinds |-> KindsOffered],
                 IF actor = pvViewer THEN KindsOffered ELSE {"PASS"}, handlers)
      BY <2>1, ZenonT(60) DEF PvEvent
    <3>2. PICK handlers \in {{}, {c}} :
            /\ pvLayout' = [pvLayout EXCEPT ![c] = p]
            /\ Observe(pvLayout', [actor |-> actor, kind |-> "PASS"],
                 IF actor = pvViewer THEN "PASS" ELSE "ACTIVATE_EFFECT",
                 [player |-> actor, kinds |-> KindsOffered],
                 IF actor = pvViewer THEN KindsOffered ELSE {"PASS"}, handlers) BY <3>1
    <3>3. handlers \in SUBSET ViewCards OBVIOUS
    <3>4. pvCall.attempts = 0 /\ pvCall' = pvCall /\ pvCodes' = pvCodes /\ pvViewer' = pvViewer
      BY <2>1 DEF PvEvent
    <3>5. (ViewsAgree /\ pvSame \in BOOLEAN)' BY <3>2, <3>3, <3>4, EventAgrees
    <3>6. /\ (pvKnown.seen \subseteq ViewCards /\ pvKnown.chained \subseteq ViewCards)'
          /\ (pvShown \subseteq Codes(pvKnown.seen) \cup Codes(pvKnown.chained))'
          /\ (Codes(pvKnown.chained) \subseteq pvCanary.hidden \cup pvCanary.visible)'
          /\ (pvCanary.visible \subseteq Codes(pvKnown.seen))'
      BY <3>2, <3>3, EventCollects
    <3>7. pvLayout' \in [ViewCards -> Places] BY <3>2 DEF PvInv
    <3>8. pvCall.attempts \in Nat /\ pvCall.outcome = "" BY <3>4 DEF PvInv
    <3>9. pvCall'.attempts \in Nat /\ pvCall'.outcome = "" BY <3>4, <3>8
    <3> QED BY <3>5, <3>6, <3>7, <3>9 DEF PvInv
  <2>2. CASE PvInvoke
    <3>1. UNCHANGED <<pvViewer, pvCodes, pvLayout, pvKnown, pvSame, pvShown, pvCanary>>
      BY <2>2 DEF PvInvoke
    <3>2. PICK answer \in {"retryable", "incoherent", "document"} :
            pvCall' = [attempts |-> pvCall.attempts + 1,
                  outcome |-> CASE answer = "retryable" ->
                                     IF pvCall.attempts < MaxViewRetries THEN "" ELSE "failed"
                                [] answer = "incoherent" -> "worker_protocol"
                                [] OTHER -> IF AuditPasses THEN "accepted" ELSE "leak_error"]
      BY <2>2 DEF PvInvoke
    <3>3. pvCall'.attempts = pvCall.attempts + 1 /\ (pvCall'.outcome = "accepted" => AuditPasses)
      BY <3>2
    <3>4. AuditPasses' <=> AuditPasses BY <3>1 DEF AuditPasses, Canaries
    <3>5. pvCall'.attempts \in Nat /\ pvCall'.attempts # 0
      <4>1. pvCall.attempts \in Nat BY DEF PvInv
      <4> QED BY <4>1, <3>3
    <3> QED BY <3>1, <3>3, <3>4, <3>5 DEF PvInv, ViewsAgree, Codes
  <2>3. CASE UNCHANGED pvVars
    BY <2>3 DEF pvVars, PvInv, ViewsAgree, Codes, AuditPasses, Canaries
  <2> QED BY <2>1, <2>2, <2>3 DEF PvNext
<1> QED BY <1>1, <1>2, PTL DEF PvSpec

\* For any cards, codes, layouts and routes, and any weights of a sampler: two
\* routes the viewer could not tell apart are told alike, an accepted view
\* shows no code of a card the viewer may not know, the policy allows what is
\* shown, and hands are dealt in proportion to their weights (projection,
\* audit, access policy and sampler under engine/information).
THEOREM PlayerViewSafety == PvSpec => []HiddenStaysHidden
<1>1. PvInv => HiddenStaysHidden
  <2> SUFFICES ASSUME PvInv PROVE HiddenStaysHidden OBVIOUS
  <2>1. ViewsAgree BY DEF PvInv
  <2>2. AcceptedShowsNothing
    <3> SUFFICES ASSUME pvCall.outcome = "accepted", NEW k \in pvShown
                 PROVE  k \in Codes(pvKnown.seen) BY DEF AcceptedShowsNothing, Codes
    <3>1. k \notin pvCanary.hidden \ pvCanary.visible
      BY DEF PvInv, AuditPasses, Canaries
    <3> QED BY <3>1 DEF PvInv
  <2>3. PolicyMatchesView BY PolicyIsView, Zenon DEF PolicyMatchesView
  <2>4. SamplingProportional
    <3> SUFFICES ASSUME NEW w \in SampleWeights, NEW i \in DOMAIN w
                 PROVE  Cardinality({d \in 0..Cumulative(w)[Len(w)] - 1 : SelectedIndex(w, d) = i}) = w[i]
      BY Zenon DEF SamplingProportional
    <3>1. w \in Seq(Nat \ {0}) BY PlayerViewAssumption
    <3> QED BY <3>1, PickedByWeight
  <2> QED BY <2>1, <2>2, <2>3, <2>4 DEF HiddenStaysHidden
<1> QED BY <1>1, PvInductive, PTL

-----------------------------------------------------------------------------
(* Groups of answers. *)
FrameNames == {"solving", "solved", "end", "chained", "chaining", "cost", "target"}
Frames == Seq(FrameNames)

\* What precedes the frames of an outcome, and is closed itself, opens no
\* resolution.
LEMMA ClosedPrefix ==
  ASSUME NEW x \in FrameNames, x # "solving", NEW f \in Frames
  PROVE  /\ <<x>> \o f \in Frames
         /\ OpenResolution(<<x>> \o f) <=> OpenResolution(f)
         /\ \A names : Has(<<x>> \o f, names) <=> x \in names \/ Has(f, names)
<1> DEFINE g == <<x>> \o f
<1>1. g \in Frames BY DEF Frames
<1>2. Len(g) = Len(f) + 1 /\ Len(f) \in Nat /\ g[1] = x /\ \A i \in 1..Len(f) : g[i + 1] = f[i]
  BY DEF Frames
<1>3. DOMAIN g = 1..Len(f) + 1 /\ DOMAIN f = 1..Len(f) BY <1>1, <1>2 DEF Frames
<1> HIDE DEF g
<1>4. ASSUME OpenResolution(f) PROVE OpenResolution(g)
  <2>1. PICK i \in 1..Len(f) : f[i] = "solving" /\ \A j \in i + 1..Len(f) : f[j] \notin {"solved", "end"}
    BY <1>3, <1>4 DEF OpenResolution
  <2>2. i + 1 \in DOMAIN g /\ g[i + 1] = "solving" BY <1>2, <1>3, <2>1
  <2>3. \A j \in (i + 1) + 1..Len(g) : g[j] \notin {"solved", "end"}
    <3> TAKE j \in (i + 1) + 1..Len(g)
    <3>1. j - 1 \in i + 1..Len(f) /\ j - 1 \in 1..Len(f) /\ (j - 1) + 1 = j BY <1>2, <2>1
    <3>2. g[j] = f[j - 1] BY <1>2, <3>1
    <3> QED BY <2>1, <3>1, <3>2
  <2> QED BY <2>2, <2>3 DEF OpenResolution
<1>5. ASSUME OpenResolution(g) PROVE OpenResolution(f)
  <2>1. PICK i \in 1..Len(f) + 1 : g[i] = "solving" /\ \A j \in i + 1..Len(g) : g[j] \notin {"solved", "end"}
    BY <1>3, <1>5 DEF OpenResolution
  <2>2. i # 1 BY <1>2, <2>1
  <2>3. i - 1 \in 1..Len(f) /\ (i - 1) + 1 = i BY <1>2, <2>1, <2>2
  <2>4. f[i - 1] = "solving" BY <1>2, <2>1, <2>3
  <2>5. \A j \in (i - 1) + 1..Len(f) : f[j] \notin {"solved", "end"}
    <3> TAKE j \in (i - 1) + 1..Len(f)
    <3>1. j + 1 \in i + 1..Len(g) /\ j \in 1..Len(f) BY <1>2, <2>1, <2>3
    <3> QED BY <1>2, <2>1, <3>1
  <2> QED BY <1>3, <2>3, <2>4, <2>5 DEF OpenResolution
<1>6. \A names : Has(g, names) <=> x \in names \/ Has(f, names)
  <2> TAKE names
  <2>1. ASSUME NEW i \in DOMAIN g, g[i] \in names PROVE x \in names \/ Has(f, names)
    <3>1. CASE i = 1 BY <1>2, <2>1, <3>1
    <3>2. CASE i # 1
      <4>1. i - 1 \in DOMAIN f /\ i - 1 \in 1..Len(f) /\ (i - 1) + 1 = i BY <1>2, <1>3, <2>1, <3>2
      <4>2. f[i - 1] \in names BY <1>2, <2>1, <4>1
      <4> QED BY <4>1, <4>2 DEF Has
    <3> QED BY <3>1, <3>2
  <2>2. ASSUME x \in names PROVE Has(g, names) BY <1>2, <1>3, <2>2 DEF Has
  <2>3. ASSUME NEW i \in DOMAIN f, f[i] \in names PROVE Has(g, names)
    BY <1>2, <1>3, <2>3 DEF Has
  <2> QED BY <2>1, <2>2, <2>3 DEF Has
<1> QED BY <1>1, <1>4, <1>5, <1>6 DEF g

\* A link that resolves in silence leaves nothing open either.
LEMMA SilentLink ==
  ASSUME NEW f \in Frames
  PROVE  /\ <<"solving", "solved">> \o f \in Frames
         /\ OpenResolution(<<"solving", "solved">> \o f) <=> OpenResolution(f)
         /\ Has(<<"solving", "solved">> \o f, {"chained"}) <=> Has(f, {"chained"})
<1> DEFINE h == <<"solved">> \o f
           g == <<"solving", "solved">> \o f
<1>1. /\ h \in Frames
      /\ OpenResolution(h) <=> OpenResolution(f)
      /\ Has(h, {"chained"}) <=> Has(f, {"chained"}) BY ClosedPrefix DEF FrameNames
<1>2. g \in Frames BY DEF Frames, FrameNames
<1>3. Len(f) \in Nat /\ Len(h) = Len(f) + 1 /\ Len(g) = Len(f) + 2 BY DEF Frames
<1>4. g[1] = "solving" /\ g[2] = "solved" /\ h[1] = "solved"
      /\ (\A i \in 1..Len(f) : g[i + 2] = f[i] /\ h[i + 1] = f[i]) BY DEF Frames
<1>5. DOMAIN g = 1..Len(f) + 2 /\ DOMAIN h = 1..Len(f) + 1
  BY <1>1, <1>2, <1>3 DEF Frames
<1> HIDE DEF h, g
<1>6. \A i \in 1..Len(f) + 1 : g[i + 1] = h[i]
  <2> TAKE i \in 1..Len(f) + 1
  <2>1. CASE i = 1 BY <1>4, <2>1
  <2>2. CASE i # 1
    <3>1. i - 1 \in 1..Len(f) /\ (i - 1) + 2 = i + 1 /\ (i - 1) + 1 = i BY <1>3, <2>2
    <3>2. g[(i - 1) + 2] = f[i - 1] /\ h[(i - 1) + 1] = f[i - 1] BY <1>4, <3>1
    <3> QED BY <3>1, <3>2
  <2> QED BY <2>1, <2>2
<1>7. ASSUME OpenResolution(h) PROVE OpenResolution(g)
  <2>1. PICK i \in 1..Len(f) + 1 : h[i] = "solving" /\ \A j \in i + 1..Len(h) : h[j] \notin {"solved", "end"}
    BY <1>5, <1>7 DEF OpenResolution
  <2>2. i + 1 \in DOMAIN g /\ g[i + 1] = "solving" BY <1>3, <1>5, <1>6, <2>1
  <2>3. \A j \in (i + 1) + 1..Len(g) : g[j] \notin {"solved", "end"}
    <3> TAKE j \in (i + 1) + 1..Len(g)
    <3>1. j - 1 \in i + 1..Len(h) /\ j - 1 \in 1..Len(f) + 1 /\ (j - 1) + 1 = j BY <1>3, <2>1
    <3>2. g[j] = h[j - 1] BY <1>6, <3>1
    <3> QED BY <2>1, <3>1, <3>2
  <2> QED BY <2>2, <2>3 DEF OpenResolution
<1>8. ASSUME OpenResolution(g) PROVE OpenResolution(h)
  <2>1. PICK i \in 1..Len(f) + 2 : g[i] = "solving" /\ \A j \in i + 1..Len(g) : g[j] \notin {"solved", "end"}
    BY <1>5, <1>8 DEF OpenResolution
  <2>2. i # 1 BY <1>3, <1>4, <2>1
  <2>3. i - 1 \in 1..Len(f) + 1 /\ (i - 1) + 1 = i BY <1>3, <2>1, <2>2
  <2>4. h[i - 1] = "solving" BY <1>6, <2>1, <2>3
  <2>5. \A j \in (i - 1) + 1..Len(h) : h[j] \notin {"solved", "end"}
    <3> TAKE j \in (i - 1) + 1..Len(h)
    <3>1. j + 1 \in i + 1..Len(g) /\ j \in 1..Len(f) + 1 BY <1>3, <2>1, <2>3
    <3> QED BY <1>6, <2>1, <3>1
  <2> QED BY <1>5, <2>3, <2>4, <2>5 DEF OpenResolution
<1>9. ASSUME NEW i \in DOMAIN g, g[i] = "chained" PROVE Has(h, {"chained"})
  <2>1. i # 1 BY <1>4, <1>9
  <2>2. i - 1 \in DOMAIN h /\ i - 1 \in 1..Len(f) + 1 /\ (i - 1) + 1 = i BY <1>3, <1>5, <1>9, <2>1
  <2>3. h[i - 1] = "chained" BY <1>6, <1>9, <2>2
  <2> QED BY <2>2, <2>3 DEF Has
<1>10. ASSUME NEW i \in DOMAIN h, h[i] = "chained" PROVE Has(g, {"chained"})
  BY <1>3, <1>5, <1>6, <1>10 DEF Has
<1>11. Has(g, {"chained"}) <=> Has(h, {"chained"}) BY <1>9, <1>10 DEF Has
<1> QED BY <1>1, <1>2, <1>7, <1>8, <1>11 DEF g

\* An outcome with the chain resolving: the next request is answered outside
\* of it, or within the resolution of a link that has just begun.
Resolving(t) ==
  /\ t.frames \in Frames /\ t.links \in 0..MaxLinks
  /\ ~ Has(t.frames, {"chained"})
  /\ \/ t.phase = "open" /\ t.fresh = FALSE /\ ~ OpenResolution(t.frames)
     \/ t.phase = "solve" /\ t.fresh = TRUE /\ OpenResolution(t.frames)
OutcomeRecord == [frames : Frames, phase : {"open", "solve", "setup", "auto"}, links : Int, fresh : BOOLEAN]

\* The recursive function behind Resolutions exists.
NextResolutions(n, before) ==
  IF n = 0 THEN {Outcome(<<"end">>, "open", 0, FALSE)}
  ELSE {Outcome(<<"solving">>, "solve", n - 1, TRUE)}
       \cup {[t EXCEPT !.frames = <<"solving", "solved">> \o @] : t \in before}
IsResolutions(m, f) == f = [n \in 0..m |-> NextResolutions(n, f[n - 1])]

LEMMA ResolutionsExist == ASSUME NEW n \in Nat PROVE \E f : IsResolutions(n, f)
<1> DEFINE ok(m) == \E f : IsResolutions(m, f)
           S == {m \in 0..n : ok(m)}
<1>1. ok(0)
  <2> DEFINE f == [i \in 0..0 |-> NextResolutions(0, {})]
  <2>1. f = [i \in 0..0 |-> NextResolutions(i, f[i - 1])] BY DEF NextResolutions
  <2> QED BY <2>1 DEF IsResolutions
<1>2. ASSUME NEW m \in 0..(n - 1), ok(m) PROVE ok(m + 1)
  <2>1. PICK f : f = [i \in 0..m |-> NextResolutions(i, f[i - 1])] BY <1>2 DEF IsResolutions
  <2> DEFINE last == NextResolutions(m + 1, f[m])
             g == [i \in 0..(m + 1) |-> IF i = m + 1 THEN last ELSE f[i]]
  <2>2. \A i \in 0..m : f[i] = NextResolutions(i, f[i - 1]) BY <2>1, Zenon
  <2> HIDE DEF last
  <2>3. ASSUME NEW i \in 0..(m + 1)
        PROVE  g[i] = NextResolutions(i, g[i - 1])
    <3>1. CASE i = m + 1 BY <3>1 DEF last
    <3>2. CASE i # m + 1
      <4>1. i \in 0..m BY <3>2
      <4>2. i # 0 => i - 1 \in 0..m /\ i - 1 \in 0..(m + 1) /\ i - 1 # m + 1 BY <4>1
      <4>3. i # 0 => g[i - 1] = f[i - 1] BY <4>2
      <4>4. g[i] = f[i] BY <3>2
      <4>5. i = 0 => NextResolutions(i, g[i - 1]) = NextResolutions(i, f[i - 1])
        BY DEF NextResolutions
      <4> HIDE DEF g
      <4> QED BY <2>2, <4>1, <4>3, <4>4, <4>5
    <3> QED BY <3>1, <3>2
  <2>4. g = [i \in 0..(m + 1) |-> g[i]] OBVIOUS
  <2> HIDE DEF g
  <2>5. g = [i \in 0..(m + 1) |-> NextResolutions(i, g[i - 1])] BY <2>3, <2>4
  <2> QED BY <2>5 DEF IsResolutions
<1> HIDE DEF ok
<1>3. \A m \in 0..n : m \in S
  <2>1. 0 \in S BY <1>1
  <2>2. \A m \in 0..(n - 1) : m \in S => m + 1 \in S BY <1>2
  <2> HIDE DEF S
  <2> QED BY <2>1, <2>2, Climbs
<1>4. ok(n) BY <1>3
<1> QED BY <1>4 DEF ok

LEMMA ResolutionsAre ==
  \A n \in 0..MaxLinks : Resolutions[n] = NextResolutions(n, Resolutions[n - 1])
<1>1. Resolutions = CHOOSE f : IsResolutions(MaxLinks, f)
  BY Zenon DEF Resolutions, IsResolutions, NextResolutions
<1>2. IsResolutions(MaxLinks, Resolutions)
  BY <1>1, ResolutionsExist, LinksAssumption, Zenon
<1> QED BY <1>2, Zenon DEF IsResolutions

LEMMA ResolutionsResolve ==
  ASSUME NEW n \in 0..MaxLinks, NEW t \in Resolutions[n]
  PROVE  t \in OutcomeRecord /\ Resolving(t)
<1> DEFINE good(u) == u \in OutcomeRecord /\ Resolving(u)
           S == {m \in 0..MaxLinks : \A u \in Resolutions[m] : good(u)}
<1>0. MaxLinks \in Nat BY LinksAssumption
<1>1. 0 \in S
  <2>1. Resolutions[0] = {Outcome(<<"end">>, "open", 0, FALSE)}
    <3>1. 0 \in 0..MaxLinks BY <1>0
    <3>2. Resolutions[0] = NextResolutions(0, Resolutions[0 - 1]) BY <3>1, ResolutionsAre, Zenon
    <3> QED BY <3>2 DEF NextResolutions
  <2>2. <<"end">> \in Frames BY DEF Frames, FrameNames
  <2>3. ~ Has(<<"end">>, {"chained"}) /\ ~ OpenResolution(<<"end">>)
    BY DEF Has, OpenResolution
  <2>4. good(Outcome(<<"end">>, "open", 0, FALSE))
    BY <1>0, <2>2, <2>3 DEF Outcome, OutcomeRecord, Resolving
  <2> HIDE DEF good
  <2>5. 0 \in 0..MaxLinks BY <1>0
  <2>6. \A u \in Resolutions[0] : good(u) BY <2>1, <2>4
  <2> QED BY <2>5, <2>6
<1>2. \A m \in 0..(MaxLinks - 1) : m \in S => m + 1 \in S
  <2> TAKE m \in 0..(MaxLinks - 1)
  <2> HAVE m \in S
  <2>1. m \in 0..MaxLinks /\ m + 1 \in 0..MaxLinks /\ (m + 1) - 1 = m /\ m + 1 # 0 BY <1>0
  <2>2. Resolutions[m + 1] = NextResolutions(m + 1, Resolutions[m])
    BY <2>1, ResolutionsAre
  <2>3. Resolutions[m + 1] = {Outcome(<<"solving">>, "solve", m, TRUE)}
          \cup {[u EXCEPT !.frames = <<"solving", "solved">> \o @] : u \in Resolutions[m]}
    BY <2>1, <2>2 DEF NextResolutions
  <2>4. <<"solving">> \in Frames BY DEF Frames, FrameNames
  <2>5. ~ Has(<<"solving">>, {"chained"}) /\ OpenResolution(<<"solving">>)
    BY DEF Has, OpenResolution
  <2>6. good(Outcome(<<"solving">>, "solve", m, TRUE))
    BY <2>1, <2>4, <2>5 DEF Outcome, OutcomeRecord, Resolving
  <2>7. ASSUME NEW u \in Resolutions[m]
        PROVE  good([u EXCEPT !.frames = <<"solving", "solved">> \o @])
    <3> DEFINE v == [u EXCEPT !.frames = <<"solving", "solved">> \o @]
    <3>1. u \in OutcomeRecord /\ Resolving(u) OBVIOUS
    <3>2. u.frames \in Frames BY <3>1 DEF OutcomeRecord
    <3>3. /\ v.frames = <<"solving", "solved">> \o u.frames
          /\ v.phase = u.phase /\ v.links = u.links /\ v.fresh = u.fresh
          /\ DOMAIN v = DOMAIN u BY <3>1 DEF OutcomeRecord
    <3>4. /\ v.frames \in Frames /\ (OpenResolution(v.frames) <=> OpenResolution(u.frames))
          /\ (Has(v.frames, {"chained"}) <=> Has(u.frames, {"chained"}))
      BY <3>2, <3>3, SilentLink
    <3>5. v \in OutcomeRecord BY <3>1, <3>4, <3>3 DEF OutcomeRecord
    <3> HIDE DEF v
    <3>6. Resolving(v) BY <3>1, <3>3, <3>4 DEF Resolving
    <3> QED BY <3>5, <3>6 DEF v
  <2> HIDE DEF good
  <2>8. \A u \in Resolutions[m + 1] : good(u) BY <2>3, <2>6, <2>7
  <2> QED BY <2>1, <2>8
<1>3. n \in S
  <2> HIDE DEF S
  <2> QED BY <1>0, <1>1, <1>2, Climbs
<1> QED BY <1>3

\* What an answer leads to: the activation is still set up, or the core waits
\* outside of everything, or a link has just begun to resolve.
Waits(t) ==
  \/ t.phase = "open" /\ ~ OpenResolution(t.frames)
  \/ t.phase = "solve" /\ t.fresh = TRUE /\ OpenResolution(t.frames)
Formed(t) == t.frames \in Frames /\ t.links \in 0..MaxLinks
IsChained(t) == Has(t.frames, {"chained"})

LEMMA ChainedWaits ==
  ASSUME NEW n \in 0..MaxLinks, NEW t \in AfterChained(n)
  PROVE  t \in OutcomeRecord /\ Formed(t) /\ Waits(t) /\ IsChained(t)
<1>1. CASE t = Outcome(<<"chained">>, "open", n, FALSE)
  <2>1. <<"chained">> \in Frames BY DEF Frames, FrameNames
  <2>2. Has(<<"chained">>, {"chained"}) /\ ~ OpenResolution(<<"chained">>)
    BY DEF Has, OpenResolution
  <2>3. t.frames = <<"chained">> /\ t.phase = "open" /\ t.links = n BY <1>1 DEF Outcome
  <2>4. t \in OutcomeRecord BY <1>1, <2>1 DEF Outcome, OutcomeRecord
  <2> QED BY <2>1, <2>2, <2>3, <2>4 DEF Formed, Waits, IsChained
<1>2. ASSUME NEW u \in Resolutions[n], t = [u EXCEPT !.frames = <<"chained">> \o @]
      PROVE  t \in OutcomeRecord /\ Formed(t) /\ Waits(t) /\ IsChained(t)
  <2>1. u \in OutcomeRecord /\ Resolving(u) BY ResolutionsResolve
  <2>2. u.frames \in Frames /\ "chained" \in FrameNames /\ "chained" # "solving"
    BY <2>1 DEF OutcomeRecord, FrameNames
  <2>3. /\ t.frames = <<"chained">> \o u.frames
        /\ t.phase = u.phase /\ t.links = u.links /\ t.fresh = u.fresh
    BY <1>2, <2>1 DEF OutcomeRecord
  <2>4. /\ t.frames \in Frames
        /\ OpenResolution(t.frames) <=> OpenResolution(u.frames)
        /\ Has(t.frames, {"chained"}) BY <2>2, <2>3, ClosedPrefix
  <2>5. t \in OutcomeRecord BY <1>2, <2>1, <2>3, <2>4 DEF OutcomeRecord
  <2> QED BY <2>1, <2>3, <2>4, <2>5 DEF Resolving, Formed, Waits, IsChained
<1> QED BY <1>1, <1>2 DEF AfterChained

\* The same with one more frame in front.
Prefixed(x, u) == [u EXCEPT !.frames = <<x>> \o @]

LEMMA PrefixWaits ==
  ASSUME NEW x \in FrameNames, x # "solving", NEW u \in OutcomeRecord, Formed(u), Waits(u),
         NEW t, t = Prefixed(x, u)
  PROVE  /\ Formed(t) /\ Waits(t) /\ (IsChained(t) <=> x = "chained" \/ IsChained(u))
         /\ Has(t.frames, {x})
<1>1. u.frames \in Frames BY DEF OutcomeRecord
<1>2. /\ t.frames = <<x>> \o u.frames
      /\ t.phase = u.phase /\ t.links = u.links /\ t.fresh = u.fresh
  BY DEF OutcomeRecord, Prefixed
<1>3. /\ t.frames \in Frames
      /\ OpenResolution(t.frames) <=> OpenResolution(u.frames)
      /\ Has(t.frames, {"chained"}) <=> x \in {"chained"} \/ Has(u.frames, {"chained"})
      /\ Has(t.frames, {x}) <=> x \in {x} \/ Has(u.frames, {x})
  BY <1>1, <1>2, ClosedPrefix
<1> QED BY <1>2, <1>3 DEF Formed, Waits, IsChained

LEMMA ShortFrames ==
  \A f \in {<<>>, <<"cost">>, <<"target">>, <<"chaining">>} :
    f \in Frames /\ ~ Has(f, {"chained"}) /\ ~ OpenResolution(f)
<1>1. /\ <<>> \in Frames /\ <<"cost">> \in Frames /\ <<"target">> \in Frames
      /\ <<"chaining">> \in Frames BY DEF FrameNames, Frames
<1>2. ~ Has(<<>>, {"chained"}) /\ ~ OpenResolution(<<>>) BY DEF Has, OpenResolution
<1>3. ~ Has(<<"cost">>, {"chained"}) /\ ~ OpenResolution(<<"cost">>) BY DEF Has, OpenResolution
<1>4. ~ Has(<<"target">>, {"chained"}) /\ ~ OpenResolution(<<"target">>) BY DEF Has, OpenResolution
<1>5. ~ Has(<<"chaining">>, {"chained"}) /\ ~ OpenResolution(<<"chaining">>) BY DEF Has, OpenResolution
<1> QED BY <1>1, <1>2, <1>3, <1>4, <1>5

Phases == {"open", "auto", "setup", "solve"}
\* Everything an answer may lead to, phase by phase.
Leads(a, t) ==
  /\ Formed(t) /\ t.phase \in Phases
  /\ agCore.phase = "open" /\ a.kind = "ACTIVATE_EFFECT" =>
       \/ t.phase = "setup" /\ ~ IsChained(t)
       \/ Waits(t) /\ IsChained(t)
  /\ agCore.phase = "open" /\ a.kind # "ACTIVATE_EFFECT" =>
       \/ t.phase \in {"open", "auto"} /\ ~ OpenResolution(t.frames)
       \/ Waits(t)
  /\ agCore.phase = "solve" =>
       \/ t.phase = "solve" /\ t.frames = <<>> /\ t.fresh = FALSE
       \/ Waits(t) /\ Has(t.frames, {"solved"})
  /\ agCore.phase \in {"setup", "auto"} =>
       \/ a.kind # "DECLINE" /\ t.phase = agCore.phase /\ t.fresh = FALSE
            /\ ~ IsChained(t) /\ ~ OpenResolution(t.frames)
       \/ Waits(t) /\ IsChained(t)
       \/ a.kind = "DECLINE" /\ t.phase = "open" /\ ~ OpenResolution(t.frames) /\ ~ IsChained(t)

LEMMA ResolutionWaits ==
  ASSUME NEW n \in 0..MaxLinks, NEW t \in Resolutions[n]
  PROVE  t \in OutcomeRecord /\ Formed(t) /\ Waits(t)
BY ResolutionsResolve DEF Resolving, Formed, Waits

LEMMA OutcomesLead ==
  ASSUME agCore.links \in 0..MaxLinks, agCore.phase \in Phases,
         NEW a \in Answers(agCore.phase), NEW t \in CoreOutcomes(a)
  PROVE  Leads(a, t)
<1> DEFINE links == agCore.links
           chained == IF links < MaxLinks THEN AfterChained(links + 1) ELSE {}
           setup == {Outcome(f, agCore.phase, links, FALSE) : f \in {<<>>, <<"cost">>, <<"target">>}}
<1>0. MaxLinks \in Nat /\ links \in 0..MaxLinks /\ 0 \in 0..MaxLinks BY LinksAssumption
<1>1. \A u \in chained : u \in OutcomeRecord /\ Formed(u) /\ Waits(u) /\ IsChained(u)
  BY <1>0, ChainedWaits
<1>2. \A u : Waits(u) => u.phase \in Phases BY DEF Waits, Phases
<1> HIDE DEF chained
<1>7. ASSUME NEW x \in FrameNames, x # "solving", NEW u \in chained,
             t = Prefixed(x, u)
      PROVE  Formed(t) /\ Waits(t) /\ IsChained(t) BY <1>1, <1>7, PrefixWaits
<1>3. CASE agCore.phase = "open" /\ a.kind = "ACTIVATE_EFFECT"
  <2>1. \/ t \in {Outcome(<<"chaining">> \o f, "setup", links, TRUE) : f \in {<<>>, <<"target">>}}
        \/ t \in {Prefixed("chaining", u) : u \in chained}
    BY <1>3 DEF CoreOutcomes, chained, Prefixed
  <2>2. ASSUME NEW f \in {<<>>, <<"target">>}, t = Outcome(<<"chaining">> \o f, "setup", links, TRUE)
        PROVE  Leads(a, t)
    <3>1. f \in Frames /\ ~ Has(f, {"chained"}) BY ShortFrames
    <3>2. "chaining" \in FrameNames /\ "chaining" # "solving" /\ "chaining" \notin {"chained"}
      BY DEF FrameNames
    <3>3. <<"chaining">> \o f \in Frames /\ ~ Has(<<"chaining">> \o f, {"chained"})
      BY <3>1, <3>2, ClosedPrefix
    <3>4. t.frames = <<"chaining">> \o f /\ t.phase = "setup" /\ t.links = links
      BY <2>2 DEF Outcome
    <3> QED BY <1>0, <1>3, <3>3, <3>4 DEF Leads, Formed, IsChained, Phases
  <2>3. ASSUME NEW u \in chained, t = Prefixed("chaining", u)
        PROVE  Leads(a, t) BY <1>7, <1>2, <1>3, <2>3 DEF FrameNames, Leads
  <2> QED BY <2>1, <2>2, <2>3
<1>4. CASE agCore.phase = "open" /\ a.kind # "ACTIVATE_EFFECT"
  <2>1. \/ t = Outcome(<<>>, "open", 0, FALSE) \/ t = Outcome(<<"chaining">>, "auto", 0, TRUE)
        \/ t \in Resolutions[links] BY <1>4 DEF CoreOutcomes
  <2>2. ASSUME t = Outcome(<<>>, "open", 0, FALSE) \/ t = Outcome(<<"chaining">>, "auto", 0, TRUE)
        PROVE  Leads(a, t)
    BY <1>0, <1>4, <2>2, ShortFrames DEF Outcome, Leads, Formed, Phases
  <2>3. ASSUME t \in Resolutions[links] PROVE Leads(a, t)
    BY <1>0, <1>2, <1>4, <2>3, ResolutionWaits DEF Leads
  <2> QED BY <2>1, <2>2, <2>3
<1>5. CASE agCore.phase = "solve"
  <2>1. \/ t = Outcome(<<>>, "solve", links, FALSE)
        \/ t \in {Prefixed("solved", u) : u \in Resolutions[links]}
    BY <1>5 DEF CoreOutcomes, Prefixed
  <2>2. ASSUME t = Outcome(<<>>, "solve", links, FALSE) PROVE Leads(a, t)
    BY <1>0, <1>5, <2>2, ShortFrames DEF Outcome, Leads, Formed, Phases
  <2>3. ASSUME NEW u \in Resolutions[links], t = Prefixed("solved", u)
        PROVE  Leads(a, t)
    BY <1>0, <1>2, <1>5, <2>3, ResolutionWaits, PrefixWaits DEF FrameNames, Leads
  <2> QED BY <2>1, <2>2, <2>3
<1>6. CASE agCore.phase \in {"setup", "auto"}
  <2>1. \/ t \in chained
        \/ a.kind = "DECLINE" /\ t = Outcome(<<>>, "open", links, FALSE)
        \/ a.kind # "DECLINE" /\ t \in setup
        \/ t \in {Prefixed("cost", u) : u \in chained}
    <3>1. CoreOutcomes(a) = IF a.kind = "DECLINE"
                 THEN chained \cup {Outcome(<<>>, "open", links, FALSE)}
                 ELSE setup \cup {Prefixed("cost", u) : u \in chained} \cup chained
      BY <1>6 DEF CoreOutcomes, chained, Prefixed
    <3> HIDE DEF setup
    <3> QED BY <3>1
  <2>2. ASSUME t \in chained PROVE Leads(a, t) BY <1>1, <1>2, <1>6, <2>2 DEF Leads
  <2>3. ASSUME a.kind = "DECLINE", t = Outcome(<<>>, "open", links, FALSE) PROVE Leads(a, t)
    BY <1>0, <1>6, <2>3, ShortFrames DEF Outcome, Leads, Formed, IsChained, Phases
  <2>4. ASSUME a.kind # "DECLINE", NEW f \in {<<>>, <<"cost">>, <<"target">>},
               t = Outcome(f, agCore.phase, links, FALSE)
        PROVE  Leads(a, t)
    BY <1>0, <1>6, <2>4, ShortFrames DEF Outcome, Leads, Formed, IsChained
  <2>5. ASSUME NEW u \in chained, t = Prefixed("cost", u) PROVE Leads(a, t)
    BY <1>7, <1>2, <1>6, <2>5 DEF FrameNames, Leads
  <2> QED BY <2>1, <2>2, <2>3, <2>4, <2>5
<1> QED BY <1>3, <1>4, <1>5, <1>6 DEF Phases

\* The derivation's groups and the core's lifecycles tell the same events
\* apart; a key names the step its group begins with.
Keys == {<<>>} \cup ({"activation", "resolution"} \X Nat)
HintRoles == {"primary", "control", "option", "selection", "cost", "target", "resolution"}
Hints == Seq([key : Keys, role : HintRoles])
Linked(truth, hints) ==
  /\ truth \in Seq(Nat) /\ hints \in Hints /\ Len(hints) = Len(truth)
  /\ \A i \in 1..Len(truth) : hints[i].key = <<>> <=> truth[i] = 0
  /\ \A i, j \in 1..Len(truth) :
       truth[i] # 0 => (truth[i] = truth[j] <=> hints[i].key = hints[j].key)
  /\ \A i, j, k \in 1..Len(truth) :
       i <= k /\ k <= j /\ truth[i] # 0 /\ truth[i] = truth[j] => truth[k] = truth[i]
  /\ \A i \in 1..Len(truth) : hints[i].key # <<>> => hints[i].key[2] < i

\* An event outside of everything, one more of the open lifecycle, or the
\* first of a new one.
Continues(truth, hints, m, key) ==
  \/ m = 0 /\ key = <<>>
  \/ m # 0 /\ Len(truth) > 0 /\ m = truth[Len(truth)] /\ key = hints[Len(truth)].key
  \/ m # 0 /\ key # <<>> /\ key[2] = Len(truth) /\ \A i \in 1..Len(truth) : truth[i] < m

LEMMA LinkGrows ==
  ASSUME NEW truth, NEW hints, Linked(truth, hints),
         NEW m \in Nat, NEW key \in Keys, NEW role \in HintRoles,
         Continues(truth, hints, m, key)
  PROVE  Linked(Append(truth, m), Append(hints, [key |-> key, role |-> role]))
<1> DEFINE n == Len(truth)
           h == [key |-> key, role |-> role]
           T == Append(truth, m)
           H == Append(hints, h)
<1>1. truth \in Seq(Nat) /\ hints \in Hints /\ Len(hints) = n /\ n \in Nat
  BY DEF Linked
<1>2. h \in [key : Keys, role : HintRoles] /\ h.key = key OBVIOUS
<1> HIDE DEF h
<1>3. /\ T \in Seq(Nat) /\ Len(T) = n + 1 /\ T[n + 1] = m
      /\ \A i \in 1..n : T[i] = truth[i] BY <1>1
<1>4. /\ H \in Hints /\ Len(H) = n + 1 /\ H[n + 1].key = key
      /\ \A i \in 1..n : H[i] = hints[i] BY <1>1, <1>2 DEF Hints
<1>5. \A i \in 1..n : truth[i] \in Nat BY <1>1
<1>6. /\ \A i \in 1..n : hints[i].key = <<>> <=> truth[i] = 0
      /\ \A i, j \in 1..n :
           truth[i] # 0 => (truth[i] = truth[j] <=> hints[i].key = hints[j].key)
      /\ \A i, j, k \in 1..n :
           i <= k /\ k <= j /\ truth[i] # 0 /\ truth[i] = truth[j] => truth[k] = truth[i]
      /\ \A i \in 1..n : hints[i].key # <<>> => hints[i].key[2] < i BY Zenon DEF Linked
<1>7. \/ m = 0 /\ key = <<>>
      \/ m # 0 /\ n > 0 /\ m = truth[n] /\ key = hints[n].key
      \/ m # 0 /\ key # <<>> /\ key[2] = n /\ \A i \in 1..n : truth[i] < m
  BY Zenon DEF Continues
<1> HIDE DEF T, H, n
<1>8. \A i \in 1..n + 1 : i \in 1..n \/ i = n + 1 BY <1>1
<1>9. n > 0 => n \in 1..n BY <1>1
<1>10. \A i \in 1..n : hints[i].key # <<>> => hints[i].key[2] \in Int
  <2> TAKE i \in 1..n
  <2>1. hints[i].key \in Keys
    <3> DEFINE R == [key : Keys, role : HintRoles]
    <3>1. \A x \in R : x.key \in Keys OBVIOUS
    <3>2. hints \in Seq(R) /\ Len(hints) = n BY <1>1 DEF Hints
    <3> HIDE DEF R
    <3>3. hints[i] \in R BY <3>2
    <3> QED BY <3>1, <3>3
  <2>2. \A k \in {"activation", "resolution"} \X Nat : k[2] \in Nat OBVIOUS
  <2> QED BY <2>1, <2>2 DEF Keys
<1>11. \A i \in 1..n + 1 : H[i].key = <<>> <=> T[i] = 0
  BY <1>6, <1>7, <1>9, <1>3, <1>4, <1>8
<1>12. \A i \in 1..n : truth[i] # 0 => (truth[i] = m <=> hints[i].key = key)
  <2> TAKE i \in 1..n
  <2> HAVE truth[i] # 0
  <2>1. hints[i].key # <<>> BY <1>6
  <2>2. CASE m = 0 /\ key = <<>> BY <2>1, <2>2
  <2>3. CASE m # 0 /\ n > 0 /\ m = truth[n] /\ key = hints[n].key BY <1>6, <1>9, <2>3
  <2>4. CASE m # 0 /\ key # <<>> /\ key[2] = n /\ \A j \in 1..n : truth[j] < m
    BY <1>5, <1>1, <1>6, <1>10, <2>4, <2>1
  <2> QED BY <1>7, <2>2, <2>3, <2>4
<1>13. \A i, j \in 1..n + 1 : T[i] # 0 => (T[i] = T[j] <=> H[i].key = H[j].key)
  <2> TAKE i, j \in 1..n + 1
  <2> HAVE T[i] # 0
  <2>1. CASE i \in 1..n /\ j \in 1..n BY <1>3, <1>4, <1>6, <2>1
  <2>2. CASE i \in 1..n /\ j = n + 1 BY <1>3, <1>4, <1>12, <2>2
  <2>3. CASE i = n + 1 /\ j \in 1..n
    <3>1. m # 0 /\ T[j] = truth[j] /\ H[j] = hints[j] /\ T[i] = m /\ H[i].key = key
      BY <1>3, <1>4, <2>3
    <3>2. CASE truth[j] = 0 BY <1>6, <1>7, <1>9, <2>3, <3>1, <3>2
    <3>3. CASE truth[j] # 0 BY <1>12, <2>3, <3>1, <3>3
    <3> QED BY <3>2, <3>3
  <2>4. CASE i = n + 1 /\ j = n + 1 BY <2>4
  <2> QED BY <1>8, <2>1, <2>2, <2>3, <2>4
<1>14. \A i, j, k \in 1..n + 1 :
         i <= k /\ k <= j /\ T[i] # 0 /\ T[i] = T[j] => T[k] = T[i]
  <2> TAKE i, j, k \in 1..n + 1
  <2> HAVE i <= k /\ k <= j /\ T[i] # 0 /\ T[i] = T[j]
  <2>1. CASE k = n + 1 BY <1>1, <2>1
  <2>2. CASE k \in 1..n
    <3>1. i \in 1..n BY <1>1, <2>2
    <3>2. CASE j \in 1..n BY <1>3, <1>6, <2>2, <3>1, <3>2
    <3>3. CASE j = n + 1
      <4>1. truth[i] = m /\ m # 0 /\ T[k] = truth[k] /\ T[i] = truth[i]
        BY <1>3, <2>2, <3>1, <3>3
      <4>2. n > 0 /\ m = truth[n] BY <1>5, <1>7, <3>1, <4>1
      <4>3. n \in 1..n /\ k <= n BY <1>1, <2>2
      <4>4. truth[k] = truth[i] BY <1>6, <2>2, <3>1, <4>1, <4>2, <4>3
      <4> QED BY <4>1, <4>4
    <3> QED BY <1>8, <3>2, <3>3
  <2> QED BY <1>8, <2>1, <2>2
<1>15. \A i \in 1..n + 1 : H[i].key # <<>> => H[i].key[2] < i
  <2>1. key # <<>> => key[2] < n + 1 BY <1>1, <1>6, <1>9, <1>10, <1>7
  <2> QED BY <2>1, <1>4, <1>6, <1>8
<1>16. Linked(T, H) BY <1>3, <1>4, <1>11, <1>13, <1>14, <1>15 DEF Linked
<1> QED BY <1>16 DEF T, H, h

\* aggregate_replay_events finds the first step with the key of a step from
\* which on all have it.
Starts(hints, i, s) ==
  /\ s \in 1..i /\ \A j \in s..i : hints[j].key = hints[i].key
  /\ s > 1 => hints[s - 1].key # hints[i].key

LEMMA StartFound ==
  ASSUME NEW hints, NEW i \in Nat \ {0}, hints[i].key # <<>>
  PROVE  Starts(hints, i, GroupStart(hints, i))
<1> DEFINE S == {k \in 1..i : \A j \in k..i : hints[j].key = hints[i].key}
<1>1. S \in SUBSET Nat /\ i \in S OBVIOUS
<1>2. PICK s \in S : \A k \in S : s <= k
  <2> HIDE DEF S
  <2> QED BY <1>1, LeastIndex
<1>3. s \in 1..i /\ \A j \in s..i : hints[j].key = hints[i].key OBVIOUS
<1>4. s > 1 => hints[s - 1].key # hints[i].key
  <2> SUFFICES ASSUME s > 1, hints[s - 1].key = hints[i].key PROVE FALSE OBVIOUS
  <2>1. s - 1 \in 1..i /\ ~ (s <= s - 1) BY <1>3
  <2>2. \A j \in s - 1..i : j = s - 1 \/ j \in s..i BY <1>3
  <2>3. s - 1 \in S BY <2>1, <2>2, <1>3
  <2> QED BY <1>2, <2>1, <2>3
<1>5. \E k \in 1..i : /\ \A j \in k..i : hints[j].key = hints[i].key
                      /\ k > 1 => hints[k - 1].key # hints[i].key BY <1>3, <1>4
<1>6. GroupStart(hints, i) = CHOOSE k \in 1..i :
         /\ \A j \in k..i : hints[j].key = hints[i].key
         /\ k > 1 => hints[k - 1].key # hints[i].key BY DEF GroupStart
<1> QED BY <1>5, <1>6, Zenon DEF Starts

LEMMA GroupsWhenLinked ==
  ASSUME NEW truth, NEW hints, Linked(truth, hints),
         NEW i \in 1..Len(truth), NEW j \in 1..Len(truth), i < j
  PROVE  GroupStart(hints, i) = GroupStart(hints, j)
           <=> truth[i] = truth[j] /\ truth[i] # 0
<1> DEFINE n == Len(truth)
           s == GroupStart(hints, i)
           t == GroupStart(hints, j)
<1>1. n \in Nat /\ (\A k \in 1..n : truth[k] \in Nat) /\ i \in 1..n /\ j \in 1..n BY DEF Linked
<1>2. /\ \A k \in 1..n : hints[k].key = <<>> <=> truth[k] = 0
      /\ \A k, l \in 1..n :
           truth[k] # 0 => (truth[k] = truth[l] <=> hints[k].key = hints[l].key)
      /\ \A k, l, m \in 1..n :
           k <= m /\ m <= l /\ truth[k] # 0 /\ truth[k] = truth[l] => truth[m] = truth[k]
  BY Zenon DEF Linked
<1>3. hints[i].key = <<>> => s = i BY DEF GroupStart
<1>4. hints[j].key = <<>> => t = j BY DEF GroupStart
<1>5. hints[i].key # <<>> => Starts(hints, i, s) BY <1>1, StartFound
<1>6. hints[j].key # <<>> => Starts(hints, j, t) BY <1>1, StartFound
<1> HIDE DEF n, s, t
<1>7. ASSUME truth[i] = truth[j], truth[i] # 0 PROVE s = t
  <2>1. hints[i].key # <<>> /\ hints[j].key # <<>> /\ hints[i].key = hints[j].key
    BY <1>1, <1>2, <1>7
  <2>2. \A k \in i..j : hints[k].key = hints[i].key
    <3> TAKE k \in i..j
    <3>1. k \in 1..n /\ i <= k /\ k <= j BY <1>1
    <3>2. truth[k] = truth[i] BY <1>1, <1>2, <1>7, <3>1
    <3> QED BY <1>1, <1>2, <1>7, <3>1, <3>2
  <2>3. /\ s \in 1..i /\ (\A k \in s..i : hints[k].key = hints[i].key)
        /\ (s > 1 => hints[s - 1].key # hints[i].key) BY <1>5, <2>1 DEF Starts
  <2>4. /\ t \in 1..j /\ (\A k \in t..j : hints[k].key = hints[j].key)
        /\ (t > 1 => hints[t - 1].key # hints[j].key) BY <1>6, <2>1 DEF Starts
  <2>5. ~ (s < t)
    <3> SUFFICES ASSUME s < t PROVE FALSE OBVIOUS
    <3>1. t > 1 /\ (t - 1 \in s..i \/ t - 1 \in i..j) BY <1>1, <2>3, <2>4
    <3> QED BY <2>1, <2>2, <2>3, <2>4, <3>1
  <2>6. ~ (t < s)
    <3> SUFFICES ASSUME t < s PROVE FALSE OBVIOUS
    <3>1. s > 1 /\ s - 1 \in t..j BY <1>1, <2>3, <2>4
    <3> QED BY <2>1, <2>3, <2>4, <3>1
  <2> QED BY <1>1, <2>3, <2>4, <2>5, <2>6
<1>8. ASSUME s = t PROVE truth[i] = truth[j] /\ truth[i] # 0
  <2>1. s \in 1..i BY <1>1, <1>3, <1>5 DEF Starts
  <2>2. hints[j].key # <<>> BY <1>1, <1>4, <1>8, <2>1
  <2>3. \A k \in t..j : hints[k].key = hints[j].key BY <1>6, <2>2 DEF Starts
  <2>4. i \in t..j BY <1>1, <1>8, <2>1
  <2>5. hints[i].key = hints[j].key BY <2>3, <2>4
  <2> QED BY <1>1, <1>2, <2>2, <2>5
<1> QED BY <1>7, <1>8 DEF s, t

\* The open group holds the last event, which is of the current lifecycle.
Held(core, truth, hints, group) ==
  /\ Len(truth) > 0 /\ core.id # 0 /\ truth[Len(truth)] = core.id
  /\ group.key = hints[Len(truth)].key

\* What the derivation has open is what the core is in the middle of; where
\* it has nothing open, the frames at hand say whether a link has just begun.
Fits(core, frames, truth, hints, group) ==
  /\ core.phase \in {"open", "auto"} => group = NoGroup /\ ~ OpenResolution(frames)
  /\ core.phase = "setup" => group.kind = "activation_setup" /\ Held(core, truth, hints, group)
  /\ core.phase = "solve" =>
       /\ core.id # 0
       /\ \/ /\ group = NoGroup /\ OpenResolution(frames)
             /\ \A i \in 1..Len(truth) : truth[i] < core.id
          \/ group.kind = "resolution" /\ Held(core, truth, hints, group)

Counted(core, truth) ==
  /\ core.phase \in Phases /\ core.links \in 0..MaxLinks
  /\ core.id \in Nat /\ core.next \in Nat /\ core.next > core.id /\ core.next > 0
  /\ \A i \in 1..Len(truth) : truth[i] < core.next

\* Probes are written of cancelled activations, the one that failed the
\* derivation last.
ProbeRecord ==
  [step : Nat, action : [kind : {"DECLINE"}, option : BOOLEAN, cancelable : {TRUE}],
   frames : Frames, phase : Phases,
   verdict : {"support_candidate", "unsupported", "unknown"}]
Probed(probes, n, error) ==
  /\ probes \in Seq(ProbeRecord)
  /\ \A i \in 1..Len(probes) :
       /\ probes[i].verdict = ProbeVerdict(probes[i].frames, probes[i].phase)
       /\ probes[i].step <= n
       /\ probes[i].step < n => probes[i].verdict = "support_candidate"
  /\ error <=> \E i \in 1..Len(probes) :
                 probes[i].step = n /\ probes[i].verdict # "support_candidate"

AgInv ==
  /\ agFrames \in Frames /\ agState.error \in BOOLEAN
  /\ Counted(agCore, agTruth)
  /\ Linked(agTruth, agState.hints)
  /\ Fits(agCore, agFrames, agTruth, agState.hints, agState.group)
  /\ Probed(agProbe, Len(agTruth), agState.error)

\* One answer in one phase of the core: m is its lifecycle, used and id the
\* core's numbers after it, and then is the group that is open after it.
Follows(a, t, group, then, m, used, id) ==
  /\ Continues(agTruth, agState.hints, m, group.key)
  /\ t.phase \in {"open", "auto"} => then = NoGroup /\ ~ OpenResolution(t.frames)
  /\ t.phase = "setup" =>
       then = group /\ group.kind = "activation_setup" /\ id = m /\ m # 0
  /\ t.phase = "solve" =>
       \/ then = NoGroup /\ OpenResolution(t.frames) /\ id = used
       \/ then = group /\ group.kind = "resolution" /\ id = m /\ m # 0

\* What the step calls the lifecycle of an answer, the ids used up to it, the
\* core's id after it and the group left open.
Lifecycle(a) ==
  IF a.kind = "ACTIVATE_EFFECT" THEN agCore.next
  ELSE IF agCore.phase \in {"setup", "solve"} THEN agCore.id ELSE 0
UsedUpTo(a) == IF a.kind = "ACTIVATE_EFFECT" THEN agCore.next + 1 ELSE agCore.next
IdAfter(a, t) ==
  IF t.phase = "solve" /\ t.fresh THEN UsedUpTo(a) ELSE
  IF t.phase = "setup" /\ a.kind = "ACTIVATE_EFFECT" THEN agCore.next ELSE agCore.id
GroupAfter(group, a, t) == IF Closes(group, a, t.frames) THEN NoGroup ELSE group

LEMMA AnswerFollows ==
  ASSUME AgInv, agState.error = FALSE,
         NEW a \in Answers(agCore.phase), NEW t \in CoreOutcomes(a),
         NEW group, group = GroupOf(agState, a, agFrames),
         NEW then, then = GroupAfter(group, a, t), NEW m, m = Lifecycle(a),
         NEW used, used = UsedUpTo(a), NEW id, id = IdAfter(a, t)
  PROVE  /\ group.key \in Keys /\ m \in Nat /\ m < used /\ id \in Nat
         /\ Follows(a, t, group, then, m, used, id)
         /\ OpenGroup(agState, agFrames) # NoGroup => a.kind # "ACTIVATE_EFFECT"
         /\ CancelsSetup(group, a) <=> agCore.phase = "setup" /\ Cancelled(a)
<1> USE DEF Lifecycle, UsedUpTo, IdAfter, GroupAfter
<1> DEFINE n == Len(agTruth)
           hints == agState.hints
           open == OpenGroup(agState, agFrames)
<1>1. /\ agCore.phase \in Phases /\ agCore.links \in 0..MaxLinks
      /\ agCore.id \in Nat /\ agCore.next \in Nat /\ agCore.next > agCore.id /\ agCore.next > 0
      /\ \A i \in 1..n : agTruth[i] < agCore.next BY DEF AgInv, Counted
<1>2. Linked(agTruth, hints) /\ agTruth \in Seq(Nat) /\ n \in Nat BY DEF AgInv, Linked
<1>3. Leads(a, t) BY <1>1, OutcomesLead
<1>4. Fits(agCore, agFrames, agTruth, hints, agState.group) BY DEF AgInv
<1>5. \A k \in {"activation", "resolution"} : <<k, n>> \in Keys /\ <<k, n>> # <<>> /\ <<k, n>>[2] = n
  BY <1>2 DEF Keys
<1>6. n > 0 => hints[n].key \in Keys
  <2> DEFINE R == [key : Keys, role : HintRoles]
  <2>1. \A x \in R : x.key \in Keys OBVIOUS
  <2>2. hints \in Seq(R) /\ Len(hints) = n BY <1>2 DEF Linked, Hints
  <2> HIDE DEF R
  <2>3. n > 0 => hints[n] \in R BY <1>2, <2>2
  <2> QED BY <2>1, <2>3
<1>7. Len(hints) = n BY <1>2 DEF Linked
<1>8. NoGroup.kind = "" /\ NoGroup.key = <<>> /\ <<>> \in Keys BY DEF NoGroup, Keys
<1> HIDE DEF n, hints
<1>9. m \in Nat /\ m < used /\ used \in Nat BY <1>1
<1>10. id \in Nat BY <1>1, <1>9
<1>11. CASE agCore.phase = "open" /\ a.kind = "ACTIVATE_EFFECT"
  <2>1. open = NoGroup BY <1>4, <1>11 DEF Fits, OpenGroup
  <2>2. group = [key |-> <<"activation", n>>, kind |-> "activation_setup"]
    BY <1>7, <1>11 DEF GroupOf, hints
  <2>3. ~ CancelsSetup(group, a) BY <1>11 DEF CancelsSetup
  <2>4. group.kind = "activation_setup" /\ group.key = <<"activation", n>> BY <2>2
  <2>5. Closes(group, a, t.frames) <=> IsChained(t)
    BY <2>3, <2>4 DEF Closes, ClosesSetup, IsChained
  <2>6. m = agCore.next /\ m # 0 BY <1>1, <1>11
  <2>7. Continues(agTruth, agState.hints, m, group.key)
    BY <1>1, <1>5, <2>4, <2>6 DEF Continues, n
  <2>8. \/ t.phase = "setup" /\ ~ IsChained(t)
        \/ Waits(t) /\ IsChained(t) BY <1>3, <1>11 DEF Leads
  <2>9. Follows(a, t, group, then, m, used, id)
    BY <1>11, <2>4, <2>5, <2>6, <2>7, <2>8 DEF Follows, Waits
  <2> QED BY <1>5, <1>9, <1>10, <1>11, <2>1, <2>3, <2>4, <2>9
<1>12. CASE agCore.phase \in {"open", "auto"} /\ a.kind # "ACTIVATE_EFFECT"
  <2>1. open = NoGroup /\ group = NoGroup BY <1>4, <1>12 DEF Fits, OpenGroup, GroupOf
  <2>2. ~ CancelsSetup(group, a) /\ ~ Closes(group, a, t.frames)
    BY <1>8, <2>1 DEF CancelsSetup, Closes
  <2>3. m = 0 /\ then = NoGroup BY <1>12, <2>1, <2>2
  <2>4. Continues(agTruth, agState.hints, m, group.key)
    BY <1>8, <2>1, <2>3 DEF Continues
  <2>5. \/ t.phase \in {"open", "auto"} /\ ~ OpenResolution(t.frames)
        \/ Waits(t) BY <1>3, <1>12 DEF Leads
  <2>6. Follows(a, t, group, then, m, used, id) BY <2>3, <2>4, <2>5 DEF Follows, Waits
  <2> QED BY <1>8, <1>9, <1>10, <1>12, <2>1, <2>2, <2>6
<1>13. CASE agCore.phase = "setup"
  <2>1. a.kind # "ACTIVATE_EFFECT" /\ (Cancelled(a) <=> a.kind = "DECLINE")
    BY <1>13 DEF Answers, Cancelled
  <2>2. agState.group.kind = "activation_setup" /\ Held(agCore, agTruth, hints, agState.group)
    BY <1>4, <1>13 DEF Fits
  <2>3. group = agState.group BY <1>8, <2>1, <2>2 DEF GroupOf, OpenGroup
  <2>4. CancelsSetup(group, a) <=> Cancelled(a) BY <2>1, <2>2, <2>3 DEF CancelsSetup
  <2>5. Closes(group, a, t.frames) <=> IsChained(t) \/ Cancelled(a)
    BY <2>2, <2>3, <2>4 DEF Closes, ClosesSetup, IsChained
  <2>6. m = agCore.id BY <1>13, <2>1
  <2>7. m # 0 /\ Continues(agTruth, agState.hints, m, group.key) /\ group.key \in Keys
    BY <1>6, <2>2, <2>3, <2>6 DEF Held, Continues, n, hints
  <2>8. \/ a.kind # "DECLINE" /\ t.phase = "setup" /\ t.fresh = FALSE /\ ~ IsChained(t)
        \/ Waits(t) /\ IsChained(t)
        \/ a.kind = "DECLINE" /\ t.phase = "open" /\ ~ OpenResolution(t.frames)
    BY <1>3, <1>13 DEF Leads
  <2>9. Follows(a, t, group, then, m, used, id)
    BY <2>1, <2>2, <2>3, <2>5, <2>6, <2>7, <2>8 DEF Follows, Waits
  <2> QED BY <1>9, <1>10, <1>13, <2>1, <2>4, <2>7, <2>9
<1>14. CASE agCore.phase = "solve"
  <2>1. a.kind # "ACTIVATE_EFFECT" BY <1>14 DEF Answers
  <2>2. m = agCore.id /\ m # 0 BY <1>4, <1>14, <2>1 DEF Fits
  <2>3. /\ group.kind = "resolution" /\ group.key \in Keys
        /\ Continues(agTruth, agState.hints, m, group.key)
    <3>1. CASE /\ agState.group = NoGroup /\ OpenResolution(agFrames)
               /\ \A i \in 1..Len(agTruth) : agTruth[i] < agCore.id
      BY <1>7, <1>5, <2>1, <2>2, <3>1 DEF GroupOf, OpenGroup, hints, Continues, n
    <3>2. CASE agState.group.kind = "resolution" /\ Held(agCore, agTruth, hints, agState.group)
      <4>1. group = agState.group BY <1>8, <2>1, <3>2 DEF GroupOf, OpenGroup
      <4> QED BY <1>6, <2>2, <3>2, <4>1 DEF Held, Continues, n, hints
    <3> QED BY <1>4, <1>14, <3>1, <3>2 DEF Fits
  <2>4. ~ CancelsSetup(group, a) BY <2>3 DEF CancelsSetup
  <2>5. Closes(group, a, t.frames) <=> EndsResolution(t.frames) BY <2>3 DEF Closes
  <2>6. \/ t.phase = "solve" /\ t.frames = <<>> /\ t.fresh = FALSE
        \/ Waits(t) /\ Has(t.frames, {"solved"}) BY <1>3, <1>14 DEF Leads
  <2>7. /\ t.frames = <<>> => ~ EndsResolution(t.frames)
        /\ Has(t.frames, {"solved"}) => EndsResolution(t.frames)
    BY DEF Has, EndsResolution
  <2>8. Follows(a, t, group, then, m, used, id)
    BY <2>1, <2>2, <2>3, <2>5, <2>6, <2>7 DEF Follows, Waits
  <2> QED BY <1>9, <1>10, <1>14, <2>1, <2>3, <2>4, <2>8
<1>15. a.kind = "ACTIVATE_EFFECT" => agCore.phase = "open" BY <1>1 DEF Answers, Phases
<1> QED BY <1>1, <1>11, <1>12, <1>13, <1>14, <1>15 DEF Phases

LEMMA RoleInRoles ==
  ASSUME NEW group, NEW a, NEW request, NEW response
  PROVE  RoleIn(group, a, request, response) \in HintRoles
<1>1. SetupRole(a, request, response) \in HintRoles BY DEF SetupRole, HintRoles
<1>2. DefaultRole(a) \in HintRoles BY DEF DefaultRole, HintRoles
<1> QED BY <1>1, <1>2 DEF RoleIn, HintRoles

\* The probe of a cancelled activation, where there is one.
LEMMA ProbeGrows ==
  ASSUME NEW probes, NEW n \in Nat, Probed(probes, n, FALSE),
         NEW a \in [kind : {"DECLINE"}, option : BOOLEAN, cancelable : {TRUE}],
         NEW frames \in Frames, NEW phase \in Phases
  PROVE  Probed(Append(probes, ProbeDocument(n + 1, a, frames, phase)), n + 1,
                Has(frames, {"chained"}))
<1> DEFINE p == ProbeDocument(n + 1, a, frames, phase)
           P == Append(probes, p)
           l == Len(probes)
<1>1. probes \in Seq(ProbeRecord) /\ l \in Nat BY DEF Probed
<1>2. ProbeVerdict(frames, phase) \in {"support_candidate", "unsupported", "unknown"}
      /\ (ProbeVerdict(frames, phase) = "support_candidate" <=> ~ Has(frames, {"chained"}))
  BY DEF ProbeVerdict
<1>3. /\ p \in ProbeRecord /\ p.step = n + 1 /\ p.verdict = ProbeVerdict(p.frames, p.phase)
      /\ p.verdict # "support_candidate" <=> Has(frames, {"chained"})
  <2>1. p = [step |-> n + 1, action |-> a, frames |-> frames, phase |-> phase,
             verdict |-> ProbeVerdict(frames, phase)] BY Zenon DEF ProbeDocument
  <2> DEFINE v == ProbeVerdict(frames, phase)
  <2>2. v \in {"support_candidate", "unsupported", "unknown"} BY <1>2
  <2>3. v # "support_candidate" <=> Has(frames, {"chained"}) BY <1>2
  <2> HIDE DEF p, v
  <2>4. p = [step |-> n + 1, action |-> a, frames |-> frames, phase |-> phase, verdict |-> v]
    BY <2>1 DEF v
  <2>5. p \in ProbeRecord
    <3>1. n + 1 \in Nat OBVIOUS
    <3> DEFINE A == [kind : {"DECLINE"}, option : BOOLEAN, cancelable : {TRUE}]
               V == {"support_candidate", "unsupported", "unknown"}
    <3>2. a \in A /\ v \in V BY <2>2
    <3>3. ProbeRecord = [step : Nat, action : A, frames : Frames, phase : Phases, verdict : V]
      BY DEF ProbeRecord
    <3> HIDE DEF A, V
    <3> QED BY <2>4, <3>1, <3>2, <3>3
  <2>6. p.step = n + 1 /\ p.verdict = v /\ p.frames = frames /\ p.phase = phase BY <2>4
  <2> QED BY <2>3, <2>5, <2>6 DEF v
<1> HIDE DEF p
<1>4. /\ P \in Seq(ProbeRecord) /\ Len(P) = l + 1 /\ P[l + 1] = p
      /\ \A i \in 1..l : P[i] = probes[i] BY <1>1, <1>3
<1>5. \A i \in 1..l : probes[i] \in ProbeRecord BY <1>1
<1>6. \A i \in 1..l : /\ probes[i].verdict = ProbeVerdict(probes[i].frames, probes[i].phase)
                      /\ probes[i].step \in Nat /\ probes[i].step <= n
                      /\ probes[i].verdict = "support_candidate"
  <2> TAKE i \in 1..l
  <2>1. probes[i].step \in Nat BY <1>5 DEF ProbeRecord
  <2>2. /\ probes[i].verdict = ProbeVerdict(probes[i].frames, probes[i].phase)
        /\ probes[i].step <= n
        /\ probes[i].step < n => probes[i].verdict = "support_candidate"
        /\ ~ (probes[i].step = n /\ probes[i].verdict # "support_candidate")
    BY DEF Probed
  <2> QED BY <2>1, <2>2
<1> HIDE DEF P, l
<1>7. \A i \in 1..l + 1 : i \in 1..l \/ i = l + 1 BY <1>1
<1>8. \A i \in 1..l + 1 :
        /\ P[i].verdict = ProbeVerdict(P[i].frames, P[i].phase)
        /\ P[i].step <= n + 1
        /\ P[i].step < n + 1 => P[i].verdict = "support_candidate"
  <2> TAKE i \in 1..l + 1
  <2>1. CASE i \in 1..l BY <1>6, <1>4, <2>1
  <2>2. CASE i = l + 1 BY <1>3, <1>4, <2>2
  <2> QED BY <1>7, <2>1, <2>2
<1>9. Has(frames, {"chained"}) <=>
        \E i \in 1..l + 1 : P[i].step = n + 1 /\ P[i].verdict # "support_candidate"
  BY <1>1, <1>3, <1>4, <1>6, <1>7
<1>10. Probed(P, n + 1, Has(frames, {"chained"})) BY <1>4, <1>8, <1>9 DEF Probed
<1> QED BY <1>10 DEF P, p

LEMMA ProbeStays ==
  ASSUME NEW probes, NEW n \in Nat, Probed(probes, n, FALSE)
  PROVE  Probed(probes, n + 1, FALSE)
<1> DEFINE l == Len(probes)
<1>1. probes \in Seq(ProbeRecord) /\ l \in Nat BY DEF Probed
<1>2. \A i \in 1..l : probes[i] \in ProbeRecord BY <1>1
<1>3. \A i \in 1..l :
        /\ probes[i].verdict = ProbeVerdict(probes[i].frames, probes[i].phase)
        /\ probes[i].step \in Nat /\ probes[i].step <= n
        /\ probes[i].verdict = "support_candidate"
  <2> TAKE i \in 1..l
  <2>1. probes[i].step \in Nat BY <1>2 DEF ProbeRecord
  <2>2. /\ probes[i].verdict = ProbeVerdict(probes[i].frames, probes[i].phase)
        /\ probes[i].step <= n
        /\ probes[i].step < n => probes[i].verdict = "support_candidate"
        /\ ~ (probes[i].step = n /\ probes[i].verdict # "support_candidate")
    BY DEF Probed
  <2> QED BY <2>1, <2>2
<1>4. \A i \in 1..l : probes[i].step <= n + 1 BY <1>3
<1> HIDE DEF l
<1> QED BY <1>1, <1>3, <1>4 DEF Probed, l

LEMMA AgStep == AgInv /\ AgEvent => AgInv'
<1> SUFFICES ASSUME AgInv, AgEvent PROVE AgInv' OBVIOUS
<1> DEFINE n == Len(agTruth)
<1>1. agState.error = FALSE BY DEF AgInv, AgEvent
<1> DEFINE Done(a, t) ==
             /\ agTruth' = Append(agTruth, Lifecycle(a))
             /\ agCore' = [phase |-> t.phase, links |-> t.links, id |-> IdAfter(a, t),
                  next |-> IF t.phase = "solve" /\ t.fresh THEN UsedUpTo(a) + 1 ELSE UsedUpTo(a)]
             /\ agFrames' = t.frames
             /\ agState' = DeriveEvent(agState, a, agFrames, t.frames)
             /\ agProbe' = IF agCore.phase = "setup" /\ Cancelled(a)
                  THEN Append(agProbe, ProbeDocument(Len(agTruth) + 1, a, t.frames, t.phase))
                  ELSE agProbe
<1>0. PICK a \in Answers(agCore.phase) : \E t \in CoreOutcomes(a) : Done(a, t)
  BY ZenonT(60) DEF AgEvent, Lifecycle, UsedUpTo, IdAfter
<1>2. PICK t \in CoreOutcomes(a) : Done(a, t) BY <1>0
<1> DEFINE mine == Lifecycle(a)
           used == UsedUpTo(a)
           id == IdAfter(a, t)
           next == IF t.phase = "solve" /\ t.fresh THEN used + 1 ELSE used
           group == GroupOf(agState, a, agFrames)
           then == GroupAfter(group, a, t)
           role == RoleIn(group, a, agFrames, t.frames)
<1>3. /\ agTruth' = Append(agTruth, mine)
      /\ agCore' = [phase |-> t.phase, links |-> t.links, id |-> id, next |-> next]
      /\ agFrames' = t.frames
      /\ agState' = DeriveEvent(agState, a, agFrames, t.frames)
      /\ agProbe' = IF agCore.phase = "setup" /\ Cancelled(a)
                      THEN Append(agProbe, ProbeDocument(Len(agTruth) + 1, a, t.frames, t.phase))
                      ELSE agProbe BY <1>2, Zenon
<1>4. /\ group.key \in Keys /\ mine \in Nat /\ mine < used /\ id \in Nat
      /\ Follows(a, t, group, then, mine, used, id)
      /\ OpenGroup(agState, agFrames) # NoGroup => a.kind # "ACTIVATE_EFFECT"
      /\ CancelsSetup(group, a) <=> agCore.phase = "setup" /\ Cancelled(a)
  BY <1>1, AnswerFollows
<1>5. /\ agState'.group = then
      /\ agState'.hints = Append(agState.hints, [key |-> group.key, role |-> role])
      /\ agState'.error <=> CancelsSetup(group, a) /\ Has(t.frames, {"chained"})
      /\ agState'.error \in BOOLEAN
  <2>1. agState' = [group |-> then,
           hints |-> Append(agState.hints, [key |-> group.key, role |-> role]),
           fallback |-> IF role = "selection" THEN agState.fallback \cup {Len(agState.hints)}
                        ELSE agState.fallback,
           error |-> \/ agState.error
                     \/ a.kind = "ACTIVATE_EFFECT" /\ OpenGroup(agState, agFrames) # NoGroup
                     \/ CancelsSetup(group, a) /\ Has(t.frames, {"chained"})]
    BY <1>3, Zenon DEF DeriveEvent, GroupAfter
  <2>2. agState'.error = (agState.error
                     \/ (a.kind = "ACTIVATE_EFFECT" /\ OpenGroup(agState, agFrames) # NoGroup)
                     \/ (CancelsSetup(group, a) /\ Has(t.frames, {"chained"}))) BY <2>1
  <2>3. agState'.group = then
        /\ agState'.hints = Append(agState.hints, [key |-> group.key, role |-> role])
    BY <2>1
  <2> HIDE DEF group, then, role
  <2> QED BY <1>1, <1>4, <2>2, <2>3
<1>6. role \in HintRoles BY RoleInRoles
<1>7. Linked(agTruth, agState.hints) /\ agTruth \in Seq(Nat) /\ n \in Nat
      /\ Len(agState.hints) = n BY DEF AgInv, Linked
<1>8. Counted(agCore, agTruth) /\ Probed(agProbe, n, FALSE) BY <1>1 DEF AgInv
<1>9. Leads(a, t) BY <1>8, OutcomesLead DEF Counted
<1>10. Formed(t) /\ t.phase \in Phases BY <1>9 DEF Leads
<1>11. agCore'.phase = t.phase /\ agCore'.links = t.links /\ agCore'.id = id /\ agCore'.next = next
  BY <1>3
<1>12. used \in Nat /\ used > 0 /\ used >= agCore.next /\ used > agCore.id /\ agCore.id \in Nat
  BY <1>8 DEF Counted, UsedUpTo
<1>13. next \in Nat /\ next >= used /\ next > 0 /\ next > id
  <2>1. id = used => next = used + 1 \/ id < used
    BY <1>12, <1>8 DEF Counted, IdAfter, UsedUpTo
  <2>2. id \in {used, agCore.next, agCore.id} BY DEF IdAfter
  <2>3. id # used => id < used BY <1>12, <1>8 DEF Counted, IdAfter, UsedUpTo
  <2>4. next \in {used, used + 1} OBVIOUS
  <2> HIDE DEF id, next, used
  <2> QED BY <1>4, <1>12, <2>1, <2>3, <2>4
<1> HIDE DEF mine, used, id, next, group, then, role
<1>14. Linked(agTruth', agState'.hints)
  BY <1>4, <1>3, <1>5, <1>6, <1>7, LinkGrows DEF Follows
<1>15. /\ Len(agTruth') = n + 1 /\ agTruth'[n + 1] = mine
       /\ \A i \in 1..n : agTruth'[i] = agTruth[i] /\ agTruth[i] \in Nat
  BY <1>3, <1>4, <1>7
<1>16. agState'.hints[n + 1].key = group.key
  <2> DEFINE h == [key |-> group.key, role |-> role]
  <2>1. h \in [key : Keys, role : HintRoles] /\ h.key = group.key BY <1>4, <1>6
  <2>2. agState.hints \in Hints BY <1>7 DEF Linked
  <2> HIDE DEF h
  <2>3. Append(agState.hints, h)[n + 1] = h BY <1>7, <2>1, <2>2 DEF Hints
  <2> QED BY <1>5, <2>1, <2>3 DEF h
<1>17. \A i \in 1..n + 1 : agTruth'[i] < used
  <2> TAKE i \in 1..n + 1
  <2>1. CASE i \in 1..n BY <1>8, <1>12, <1>15, <2>1 DEF Counted
  <2>2. CASE i = n + 1 BY <1>4, <1>15, <2>2
  <2> QED BY <1>7, <2>1, <2>2
<1>18. Counted(agCore', agTruth')
  <2>1. \A i \in 1..Len(agTruth') : agTruth'[i] < next
    <3> TAKE i \in 1..Len(agTruth')
    <3>1. i \in 1..n + 1 /\ agTruth'[i] \in Nat BY <1>4, <1>7, <1>15
    <3> QED BY <1>12, <1>13, <1>17, <3>1
  <2> QED BY <1>4, <1>10, <1>11, <1>13, <2>1 DEF Counted, Formed
<1>19. Fits(agCore', agFrames', agTruth', agState'.hints, agState'.group)
  <2>1. ASSUME then = group, id = mine, mine # 0
        PROVE  Held(agCore', agTruth', agState'.hints, agState'.group)
    BY <1>7, <1>15, <1>5, <1>11, <1>16, <2>1 DEF Held
  <2>2. t.phase \in {"open", "auto"} => then = NoGroup /\ ~ OpenResolution(t.frames)
    BY <1>4 DEF Follows
  <2>3. t.phase = "setup" =>
          then = group /\ group.kind = "activation_setup" /\ id = mine /\ mine # 0
    BY <1>4 DEF Follows
  <2>4. t.phase = "solve" =>
          \/ then = NoGroup /\ OpenResolution(t.frames) /\ id = used
          \/ then = group /\ group.kind = "resolution" /\ id = mine /\ mine # 0
    BY <1>4 DEF Follows
  <2>5. id = used => id # 0 /\ \A i \in 1..Len(agTruth') : agTruth'[i] < id
    BY <1>12, <1>15, <1>17
  <2> QED BY <1>3, <1>5, <1>11, <2>1, <2>2, <2>3, <2>4, <2>5 DEF Fits
<1>20. Probed(agProbe', Len(agTruth'), agState'.error)
  <2>1. CASE agCore.phase = "setup" /\ Cancelled(a)
    <3>1. a \in [kind : {"DECLINE"}, option : BOOLEAN, cancelable : {TRUE}]
      <4>1. a = [kind |-> "DECLINE", option |-> FALSE, cancelable |-> TRUE]
        BY <2>1 DEF Answers, Cancelled
      <4> QED BY <4>1
    <3>2. t.frames \in Frames BY <1>10 DEF Formed
    <3>3. agState'.error = Has(t.frames, {"chained"}) BY <1>4, <1>5, <2>1 DEF Has
    <3>4. agProbe' = Append(agProbe, ProbeDocument(n + 1, a, t.frames, t.phase))
      BY <1>3, <2>1
    <3>5. Probed(Append(agProbe, ProbeDocument(n + 1, a, t.frames, t.phase)), n + 1,
                 Has(t.frames, {"chained"}))
      BY <1>7, <1>8, <1>10, <3>1, <3>2, ProbeGrows
    <3> QED BY <1>15, <3>3, <3>4, <3>5
  <2>2. CASE ~ (agCore.phase = "setup" /\ Cancelled(a))
    BY <1>3, <1>4, <1>5, <1>7, <1>8, <1>15, <2>2, ProbeStays
  <2> QED BY <2>1, <2>2
<1>21. agFrames' \in Frames BY <1>3, <1>10 DEF Formed
<1> QED BY <1>5, <1>14, <1>18, <1>19, <1>20, <1>21 DEF AgInv

LEMMA AgInitially == AgInit => AgInv
<1> SUFFICES ASSUME AgInit PROVE AgInv OBVIOUS
<1>1. /\ agCore.phase = "open" /\ agCore.links = 0 /\ agCore.id = 0 /\ agCore.next = 1
      /\ agFrames = <<>> /\ agTruth = <<>> /\ agProbe = <<>>
      /\ agState.group = NoGroup /\ agState.hints = <<>> /\ agState.error = FALSE
  BY DEF AgInit
<1>2. <<>> \in Frames /\ ~ OpenResolution(<<>>) BY ShortFrames
<1>3. Counted(agCore, agTruth) BY <1>1, LinksAssumption DEF Counted, Phases
<1>4. Linked(agTruth, agState.hints) BY <1>1 DEF Linked, Hints
<1>5. Fits(agCore, agFrames, agTruth, agState.hints, agState.group)
  BY <1>1, <1>2 DEF Fits
<1>6. Probed(agProbe, Len(agTruth), agState.error) BY <1>1 DEF Probed
<1> QED BY <1>1, <1>2, <1>3, <1>4, <1>5, <1>6 DEF AgInv

\* However long the chains and the replay are and however the core packs its
\* frames, the groups the derivation makes are the core's activations and
\* resolutions, it has nothing open where the core waits outside of them, and
\* it agrees with the rollback probe about a cancelled activation
\* (derive_ocgcore_action_aggregation, aggregate_replay_events,
\* build_activation_rollback_probe).
THEOREM AggregationSafety == AgSpec => []LifecyclesGrouped
<1>1. AgInv /\ [AgEvent]_agVars => AgInv'
  <2>1. ASSUME AgInv, UNCHANGED agVars PROVE AgInv'
    BY <2>1 DEF agVars, AgInv, Counted, Fits, Held, Linked, Probed
  <2> QED BY <2>1, AgStep
<1>2. AgInv => LifecyclesGrouped
  <2> SUFFICES ASSUME AgInv PROVE LifecyclesGrouped OBVIOUS
  <2>1. Linked(agTruth, agState.hints) /\ agTruth \in Seq(Nat) /\ Len(agTruth) \in Nat
    BY DEF AgInv, Linked
  <2>2. GroupsAreLifecycles BY <2>1, GroupsWhenLinked DEF GroupsAreLifecycles
  <2>3. StopsAreComplete BY DEF StopsAreComplete, Complete, AgInv, Fits
  <2>4. ProbeAgrees
    <3>1. Probed(agProbe, Len(agTruth), agState.error) BY DEF AgInv
    <3>2. agProbe \in Seq(ProbeRecord) /\ DOMAIN agProbe = 1..Len(agProbe) BY <3>1 DEF Probed
    <3>3. ASSUME NEW i \in 1..Len(agProbe)
          PROVE  agProbe[i].verdict # "unknown" <=> ProbeValid(agProbe[i])
      <4> DEFINE p == agProbe[i]
      <4>1. p \in ProbeRecord BY <3>2
      <4>2. p.verdict = ProbeVerdict(p.frames, p.phase) BY <3>1 DEF Probed
      <4> HIDE DEF p
      <4>3. p.action.kind = "DECLINE" /\ p.action.cancelable = TRUE BY <4>1 DEF ProbeRecord
      <4>4. p.verdict # "unknown" <=> ProbeValid(p)
        BY <4>2, <4>3 DEF ProbeValid, ProbeVerdict
      <4> QED BY <4>4 DEF p
    <3> QED BY <3>1, <3>2, <3>3 DEF ProbeAgrees, Probed
  <2> QED BY <2>2, <2>3, <2>4 DEF LifecyclesGrouped
<1> QED BY <1>1, <1>2, AgInitially, PTL DEF AgSpec

-----------------------------------------------------------------------------
(* The replay loop of a real-core worker. *)

LEMMA ListAppend ==
  ASSUME NEW s, IsList(s), NEW x
  PROVE  /\ IsList(Append(s, x)) /\ Len(Append(s, x)) = Len(s) + 1 /\ Len(s) \in Nat
         /\ \A i \in 1..Len(s) : Append(s, x)[i] = s[i]
         /\ Append(s, x)[Len(s) + 1] = x
<1> DEFINE T == Range(s) \cup {x}
           t == Append(s, x)
<1>1. s \in Seq(T) /\ x \in T
  <2>1. s \in Seq(Range(s)) BY DEF IsList
  <2> HIDE DEF T
  <2>2. Range(s) \subseteq T /\ x \in T BY DEF T
  <2> QED BY <2>1, <2>2
<1> HIDE DEF T
<1>2. /\ t \in Seq(T) /\ Len(t) = Len(s) + 1 /\ Len(s) \in Nat
      /\ \A i \in 1..Len(s) : t[i] = s[i]
      /\ t[Len(s) + 1] = x BY <1>1
<1>3. t \in Seq(Range(t))
  <2> HIDE DEF t
  <2>1. DOMAIN t = 1..Len(t) /\ t = [i \in 1..Len(t) |-> t[i]] /\ Len(t) \in Nat BY <1>2
  <2>2. \A i \in 1..Len(t) : t[i] \in Range(t) BY <2>1 DEF Range
  <2> QED BY <2>1, <2>2
<1> QED BY <1>2, <1>3 DEF IsList

LEMMA ListEmpty == IsList(<<>>) /\ Len(<<>>) = 0 BY DEF IsList, Range

LEMMA ListOne == ASSUME NEW x PROVE IsList(<<x>>) /\ Len(<<x>>) = 1 /\ <<x>>[1] = x
<1>1. <<x>> \in Seq({x}) /\ Len(<<x>>) = 1 /\ <<x>>[1] = x OBVIOUS
<1>2. Range(<<x>>) = {x} BY DEF Range
<1> QED BY <1>1, <1>2 DEF IsList

LEMMA ListLen == ASSUME NEW s, IsList(s) PROVE Len(s) \in Nat /\ DOMAIN s = 1..Len(s)
  BY DEF IsList

\* The turns the core began with its first n answers.
TurnAt(answers, n) == Cardinality({j \in 1..n : answers[j].newTurn})

LEMMA TurnSame ==
  ASSUME NEW a, NEW b, NEW n \in Nat, \A j \in 1..n : a[j] = b[j]
  PROVE  TurnAt(a, n) = TurnAt(b, n)
<1>1. {j \in 1..n : a[j].newTurn} = {j \in 1..n : b[j].newTurn} OBVIOUS
<1> QED BY <1>1 DEF TurnAt

LEMMA TurnNext ==
  ASSUME NEW a, NEW n \in Nat
  PROVE  /\ TurnAt(a, n) \in Nat
         /\ TurnAt(a, n + 1) = IF a[n + 1].newTurn THEN TurnAt(a, n) + 1 ELSE TurnAt(a, n)
<1> DEFINE T(k) == {j \in 1..k : a[j].newTurn}
<1>1. IsFiniteSet(T(n)) /\ n + 1 \notin T(n)
  <2>1. IsFiniteSet(1..n) BY FS_Interval
  <2> QED BY <2>1, FS_Subset
<1>2. CASE a[n + 1].newTurn
  <2>1. T(n + 1) = T(n) \cup {n + 1} BY <1>2
  <2> QED BY <1>1, <1>2, <2>1, FS_AddElement, FS_CardinalityType DEF TurnAt
<1>3. CASE ~a[n + 1].newTurn
  <2>1. T(n + 1) = T(n) BY <1>3
  <2> QED BY <1>1, <1>3, <2>1, FS_CardinalityType DEF TurnAt
<1> QED BY <1>2, <1>3

LEMMA TurnFirst == ASSUME NEW a, a[1].newTurn PROVE TurnAt(a, 1) = 1
<1>1. TurnAt(a, 0) = 0 BY FS_EmptySet DEF TurnAt
<1> QED BY <1>1, TurnNext

-----------------------------------------------------------------------------
\* A choice of the policy names a plan only to activate the first that is due,
\* or to respond for one already active.
Due == {p \in DOMAIN rcPlan : rcPlan[p].at < 0 /\ rcScript.plans[p].target.step <= Len(rcEvents)}

ChoicePlan(c) ==
  \/ c.plan = 0 /\ (PrefixMode \/ RespondsFirst = {})
  \/ c.plan \in RespondsFirst /\ c.role = "response" /\ ~PrefixMode
  \/ /\ c.plan \in Due /\ c.role = "activate" /\ RespondsFirst = {} /\ ~PrefixMode
     /\ rcScript.plans[c.plan].target.step = Len(rcEvents)

LEMMA RuleChoicePlan == ASSUME NEW o PROVE ByRule(o).plan = 0
  BY DEF ByRule, Choice, Unsupported

LEMMA IdleChoicePlan == ASSUME NEW o PROVE IdleChoice(o).plan = 0
  BY DEF IdleChoice, Choice

LEMMA FirstDue ==
  ASSUME DOMAIN rcPlan \subseteq Nat, Due # {}
  PROVE  (CHOOSE p \in Due : \A q \in Due : p <= q) \in Due
<1>1. Due \in SUBSET Nat BY DEF Due
<1> QED BY <1>1, LeastIndex

LEMMA ChosenPlan ==
  ASSUME DOMAIN rcPlan \subseteq Nat
  PROVE  ChoicePlan(Chosen)
<1> DEFINE o == Current
<1>1. CASE PrefixMode BY <1>1 DEF Chosen, Replayed, Choice, ChoicePlan
<1>2. CASE ~PrefixMode /\ RespondsFirst # {}
  <2> DEFINE p == CHOOSE p \in RespondsFirst : TRUE
  <2>1. p \in RespondsFirst BY <1>2
  <2>2. Chosen = PlanChoice(p, rcScript.plans[p].responses[rcPlan[p].sent + 1], o, "response")
    BY <1>2 DEF Chosen, Selected
  <2> HIDE DEF p
  <2>3. Chosen.plan = p /\ Chosen.role = "response" BY <2>2 DEF PlanChoice
  <2> QED BY <1>2, <2>1, <2>3 DEF ChoicePlan
<1>3. CASE ~PrefixMode /\ RespondsFirst = {} /\ Due # {}
  <2> DEFINE first == CHOOSE p \in Due : \A q \in Due : p <= q
  <2>1. first \in Due BY <1>3, FirstDue
  <2>2. Chosen = IF rcScript.plans[first].target = Opportunity(o)
                 THEN PlanChoice(first, rcScript.plans[first].activation, o, "activate")
                 ELSE Unsupported BY <1>3 DEF Chosen, Selected, Due
  <2> HIDE DEF first
  <2>3. CASE rcScript.plans[first].target = Opportunity(o)
    BY <1>3, <2>2, <2>3, <2>1 DEF PlanChoice, Opportunity, ChoicePlan
  <2>4. CASE rcScript.plans[first].target # Opportunity(o)
    BY <1>3, <2>2, <2>4 DEF Unsupported, Choice, ChoicePlan
  <2> QED BY <2>3, <2>4
<1>4. CASE ~PrefixMode /\ RespondsFirst = {} /\ Due = {}
  <2>1. \/ Chosen = IdleChoice(o)
        \/ Chosen = Choice("SELECT_ZONE" \in o.kinds, "SELECT_ZONE", "")
        \/ Chosen = ByRule(o) BY <1>4 DEF Chosen, Selected, Due
  <2>2. Choice("SELECT_ZONE" \in o.kinds, "SELECT_ZONE", "").plan = 0 BY DEF Choice
  <2>3. IdleChoice(o).plan = 0 /\ ByRule(o).plan = 0 BY RuleChoicePlan, IdleChoicePlan
  <2>4. Chosen.plan = 0 BY <2>1, <2>2, <2>3
  <2> QED BY <1>4, <2>4 DEF ChoicePlan
<1> QED BY <1>1, <1>2, <1>3, <1>4

-----------------------------------------------------------------------------
PlansTyped(plans) ==
  /\ DOMAIN plans \subseteq Nat \ {0}
  /\ \A p \in DOMAIN plans : Len(plans[p].responses) \in Nat

WorkerTyped ==
  /\ IsList(rcCore) /\ IsList(rcPrefix) /\ IsList(rcEvents)
  /\ rcTurn \in Nat /\ rcIndex \in Nat
  /\ rcPc \in {"idle", "loop", "build", "document", "probe", "error", "path_failure"}
  /\ rcMode \in {"route", "activation_rollback_probe", "search_frontier", "player_view"}
  /\ PlansTyped(rcScript.plans)
  /\ rcPlan \in [DOMAIN rcScript.plans -> [at : Int, sent : Nat]]
  /\ PrefixMode => DOMAIN rcScript.plans = {}

Replaying == rcPc \in {"loop", "build", "document"}

\* The worker is where its events say it is.
InPlace ==
  /\ Replaying =>
       /\ Len(rcEvents) + 1 <= Len(rcCore)
       /\ rcTurn = TurnAt(rcCore, Len(rcEvents) + 1)
       /\ \A j \in 1..Len(rcEvents) : ~rcCore[j].win
       /\ PrefixMode =>
            /\ Len(rcEvents) <= Len(rcPrefix)
            /\ \A i \in 1..Len(rcEvents) :
                 rcPrefix[i] = "END_TURN" => TurnAt(rcCore, i) < TurnLimit
  /\ rcPc = "loop" => ~Current.win
  /\ rcPc \in {"build", "document"} /\ PrefixMode /\ ~Current.win => rcTurn <= TurnLimit

\* What is known of the prefix behind the last document.
DocumentCurrent ==
  rcPc = "document" => rcDoc = FrontierDocument(Current, rcTurn, rcDoc.route)

Reached ==
  /\ rcDoc.events \in Nat /\ rcDoc.events + 1 <= Len(rcCore)
  /\ Len(rcPrefix) <= rcDoc.events + 1 \/ rcCore[rcDoc.events + 1].win

NoLateEnd ==
  \A i \in 1..Len(rcPrefix) :
    i <= Len(rcCore) /\ (\A j \in 1..i : ~rcCore[j].win) /\ rcPrefix[i] = "END_TURN" =>
      TurnAt(rcCore, i) < TurnLimit

ExtendedPrefix ==
  rcPrefix \notin GivenPrefixes =>
    Len(rcPrefix) <= Len(rcCore) /\ \A j \in 1..Len(rcPrefix) : ~rcCore[j].win

Projected ==
  /\ rcDoc.events \in Nat /\ rcDoc.events + 1 <= Len(rcCore)
  /\ \/ rcDoc.events = Len(rcPrefix)
     \/ rcCore[rcDoc.events + 1].win /\ rcPrefix \in GivenPrefixes

FrontierInv ==
  /\ DocumentCurrent
  /\ PrefixMode => ExtendedPrefix /\ (rcDoc = NoDoc \/ (Reached /\ NoLateEnd))
  /\ rcMode = "player_view" => Projected
  /\ FrontierIsPrefix
  /\ rcPc = "path_failure" => rcDoc = NoDoc \/ rcTurn > TurnLimit

\* An active plan owns the events behind its activation.
PlansInv ==
  /\ rcPc = "idle" => \A p \in DOMAIN rcPlan : rcPlan[p].at < 0
  /\ \A p \in DOMAIN rcPlan : rcPlan[p].at < 0 => rcPlan[p].sent = 0
  /\ \A p \in DOMAIN rcPlan : rcPlan[p].at >= 0 =>
       /\ rcPlan[p].at + 1 + rcPlan[p].sent <= Len(rcEvents)
       /\ rcPlan[p].sent <= Len(rcScript.plans[p].responses)
       /\ rcEvents[rcPlan[p].at + 1].plan = p /\ rcEvents[rcPlan[p].at + 1].role = "activate"
  /\ ~PrefixMode /\ rcPc = "document" => \A p \in DOMAIN rcPlan : rcPlan[p].at >= 0
  /\ InterruptionBlocks

CoordinateInv ==
  /\ \A s \in DOMAIN rcEvents : rcEvents[s].turn \in Nat /\ rcEvents[s].turn <= rcTurn
  /\ rcIndex = Cardinality({q \in DOMAIN rcEvents : rcEvents[q].turn = rcTurn})
  /\ CoordinatesUnique

WorkerInv == WorkerTyped /\ InPlace /\ FrontierInv /\ PlansInv /\ CoordinateInv

-----------------------------------------------------------------------------
(* The beginning. *)

LEMMA PlanOfTyped ==
  ASSUME NEW d, \A p \in d.policy : IsList(p.responses)
  PROVE  Len(PlanOf(d).responses) \in Nat
<1> DEFINE choices == IF d.policy = {} THEN {TargetedHandActivation(d)} ELSE d.policy
           policy == CHOOSE p \in choices : TRUE
<1>1. policy \in choices OBVIOUS
<1>2. Len(policy.responses) \in Nat
  <2>1. CASE d.policy = {}
    <3>1. policy = TargetedHandActivation(d) BY <1>1, <2>1
    <3>2. Len(TargetedHandActivation(d).responses) = 1 BY DEF TargetedHandActivation
    <3> HIDE DEF policy
    <3> QED BY <3>1, <3>2
  <2>2. CASE d.policy # {}
    <3>1. policy \in d.policy BY <1>1, <2>2
    <3> HIDE DEF policy
    <3> QED BY <3>1, ListLen
  <2> QED BY <2>1, <2>2
<1>3. PlanOf(d).responses = policy.responses BY DEF PlanOf
<1> HIDE DEF policy
<1> QED BY <1>2, <1>3

LEMMA ResolvedTyped ==
  ASSUME NEW s \in Scripts, NEW plans \in ResolvedPlans(s)
  PROVE  PlansTyped(plans)
<1> DEFINE ds == s.definitions
<1>1. /\ DOMAIN ds = 1..Len(ds) /\ Len(ds) \in Nat
      /\ \A i \in DOMAIN ds : Len(PlanOf(ds[i]).responses) \in Nat
  <2>1. IsList(ds) /\ \A i \in DOMAIN ds : \A p \in ds[i].policy : IsList(p.responses)
    BY ScriptAssumption
  <2> HIDE DEF ds
  <2> QED BY <2>1, ListLen, PlanOfTyped
<1>0. s.mode \in {"none", "scripted", "sampled"} BY ScriptAssumption
<1>2. CASE s.mode = "none" BY <1>2 DEF ResolvedPlans, PlansTyped
<1>3. CASE s.mode = "scripted"
  <2>1. plans \in ScriptedPlans(s) BY <1>3 DEF ResolvedPlans
  <2>2. plans = [i \in DOMAIN ds |-> PlanOf(ds[i])] BY <2>1 DEF ScriptedPlans
  <2> HIDE DEF ds
  <2>3. DOMAIN plans = 1..Len(ds) /\ \A i \in DOMAIN plans : plans[i] = PlanOf(ds[i])
    BY <1>1, <2>2
  <2> QED BY <1>1, <2>3 DEF PlansTyped
<1>4. CASE s.mode = "sampled"
  <2>1. plans \in SampledPlans(s) BY <1>4 DEF ResolvedPlans
  <2>2. PICK i \in DOMAIN ds : plans = <<PlanOf(ds[i])>> BY <2>1 DEF SampledPlans
  <2> HIDE DEF ds
  <2>3. DOMAIN plans = {1} /\ plans[1] = PlanOf(ds[i]) BY <2>2
  <2> QED BY <1>1, <2>3 DEF PlansTyped
<1> QED BY <1>0, <1>2, <1>3, <1>4

LEMMA NoPlansTyped == PlansTyped(<<>>) BY DEF PlansTyped

LEMMA WorkerStart == RcInit => WorkerInv
<1> SUFFICES ASSUME RcInit PROVE WorkerInv OBVIOUS
<1>1. PICK s \in Scripts :
        \E plans \in (IF ResolvedPlans(s) = {} THEN {<<>>} ELSE ResolvedPlans(s)) :
          /\ rcScript = [fixture |-> s.fixture, plans |-> plans, recovery |-> s.recovery,
                         resolved |-> ResolvedPlans(s) # {}]
          /\ PrefixMode => s.fixture = "" /\ s.mode = "none" BY DEF RcInit
<1>2. PICK plans \in (IF ResolvedPlans(s) = {} THEN {<<>>} ELSE ResolvedPlans(s)) :
          /\ rcScript = [fixture |-> s.fixture, plans |-> plans, recovery |-> s.recovery,
                         resolved |-> ResolvedPlans(s) # {}]
          /\ PrefixMode => s.fixture = "" /\ s.mode = "none" BY <1>1
<1>3. rcScript.plans = plans BY <1>2
<1>4. PlansTyped(rcScript.plans) BY <1>2, <1>3, NoPlansTyped, ResolvedTyped
<1>5. PrefixMode => rcScript.plans = <<>> BY <1>2, <1>3 DEF ResolvedPlans
<1>6. IsList(rcPrefix) BY ScriptAssumption, ListEmpty DEF RcInit
<1>7. PrefixMode => rcPrefix \in GivenPrefixes BY DEF RcInit
<1>0. /\ rcMode \in {"route", "activation_rollback_probe", "search_frontier"}
      /\ rcCore = <<>> /\ rcEvents = <<>>
      /\ rcTurn = 0 /\ rcIndex = 0 /\ rcPc = "idle" /\ rcDoc = NoDoc
      /\ rcPlan = [p \in DOMAIN rcScript.plans |-> [at |-> -1, sent |-> 0]]
  BY DEF RcInit
<1>8. WorkerTyped BY <1>0, <1>5, <1>4, <1>6, ListEmpty DEF WorkerTyped
<1>9. InPlace BY <1>0 DEF InPlace, Replaying
<1>10. FrontierInv
  BY <1>0, <1>7 DEF FrontierInv, DocumentCurrent, ExtendedPrefix, FrontierIsPrefix
<1>11. PlansInv BY <1>0 DEF PlansInv, InterruptionBlocks
<1>12. CoordinateInv BY <1>0, FS_EmptySet DEF CoordinateInv, CoordinatesUnique
<1> QED BY <1>8, <1>9, <1>10, <1>11, <1>12 DEF WorkerInv

-----------------------------------------------------------------------------
(* The steps. *)

LEMMA ListNonempty == ASSUME NEW s, IsList(s), s # <<>> PROVE 1 <= Len(s) BY DEF IsList

\* What a new worker does to the duel.
Begun ==
  /\ rcPc = "idle" /\ rcPc' \in {"loop", "error"}
  /\ IsList(rcCore') /\ 1 <= Len(rcCore') /\ rcCore'[1].newTurn
  /\ rcCore' = rcCore \/ Len(rcCore) = 0
  /\ rcPc' = "loop" => ~rcCore'[1].win
  /\ rcEvents' = <<>> /\ rcTurn' = 1 /\ rcIndex' = 0
  /\ UNCHANGED <<rcMode, rcScript, rcPrefix, rcPlan, rcDoc>>

LEMMA StartBegins ==
  ASSUME WorkerTyped, StartWorker
  PROVE  Begun
<1> PICK o : /\ 1 <= Len(rcCore) => o = rcCore[1]
             /\ o.newTurn
             /\ rcCore' = IF rcCore = <<>> THEN <<o>> ELSE rcCore
             /\ rcTurn' = 1
             /\ rcPc' = IF o.win \/ (~PrefixMode /\ o.phase # "main1") THEN "error" ELSE "loop"
  BY DEF StartWorker, CoreAnswers
<1>2. IsList(rcCore') /\ 1 <= Len(rcCore') /\ rcCore'[1] = o /\ (rcCore' = rcCore \/ Len(rcCore) = 0)
  <2>1. CASE rcCore = <<>> BY <2>1, ListOne
  <2>2. CASE rcCore # <<>> BY <2>2, ListNonempty DEF WorkerTyped
  <2> QED BY <2>1, <2>2
<1>3. rcPc' \in {"loop", "error"} /\ (rcPc' = "loop" => ~o.win) OBVIOUS
<1> QED BY <1>2, <1>3 DEF Begun, StartWorker

\* What an answered action does to the duel.
Advanced ==
  /\ rcPc = "loop" /\ rcPc' \in {"build", "error", "probe", "loop"}
  /\ IsList(rcCore') /\ Len(rcEvents) + 2 <= Len(rcCore') /\ Len(rcCore) <= Len(rcCore')
  /\ \A j \in 1..Len(rcCore) : rcCore'[j] = rcCore[j]
  /\ IsList(rcEvents') /\ Len(rcEvents') = Len(rcEvents) + 1
  /\ \A i \in 1..Len(rcEvents) : rcEvents'[i] = rcEvents[i]
  /\ rcEvents'[Len(rcEvents) + 1] =
       [kind |-> Chosen.kind, role |-> Chosen.role, plan |-> Chosen.plan,
        turn |-> rcTurn, index |-> rcIndex]
  /\ Len(rcCore') > Len(rcCore) => Len(rcCore) = Len(rcEvents) + 1 /\ Len(rcCore') = Len(rcCore) + 1
  /\ rcTurn' = IF rcCore'[Len(rcEvents) + 2].newTurn THEN rcTurn + 1 ELSE rcTurn
  /\ rcIndex' = NextIndex(rcTurn')
  /\ rcPlan' = IF rcCore'[Len(rcEvents) + 2].win \/ Chosen.plan = 0 THEN rcPlan
               ELSE IF Chosen.role = "activate"
               THEN [rcPlan EXCEPT ![Chosen.plan].at = Len(rcEvents)]
               ELSE [rcPlan EXCEPT ![Chosen.plan].sent = @ + 1]
  /\ rcPc' = "loop" => ~rcCore'[Len(rcEvents) + 2].win
  /\ rcPc' = "build" => rcCore'[Len(rcEvents) + 2].win
  /\ UNCHANGED <<rcMode, rcScript, rcPrefix, rcDoc>>

LEMMA AnswerAdvances ==
  ASSUME WorkerTyped, InPlace, AnswerCore
  PROVE  Advanced
<1> DEFINE c == Chosen
           n == Len(rcEvents)
<1>1. PICK o \in CoreAnswers(n + 2, c.kind) :
       /\ rcEvents' = Append(rcEvents, [kind |-> c.kind, role |-> c.role, plan |-> c.plan,
                                        turn |-> rcTurn, index |-> rcIndex])
       /\ rcCore' = IF n + 2 <= Len(rcCore) THEN rcCore ELSE Append(rcCore, o)
       /\ rcPlan' = IF o.win \/ c.plan = 0 THEN rcPlan
                    ELSE IF c.role = "activate"
                    THEN [rcPlan EXCEPT ![c.plan].at = n]
                    ELSE [rcPlan EXCEPT ![c.plan].sent = @ + 1]
       /\ rcTurn' = NextTurn(o)
       /\ rcIndex' = NextIndex(NextTurn(o))
       /\ rcPc' = IF o.win THEN (IF o.chain = 0 THEN "build" ELSE "error")
                  ELSE IF c.role = "cancel" THEN ProbeOutcome ELSE "loop"
  BY ZenonT(40) DEF AnswerCore
<1>2. /\ IsList(rcCore) /\ IsList(rcEvents) /\ n \in Nat /\ Len(rcCore) \in Nat
      /\ n + 1 <= Len(rcCore) /\ rcPc = "loop"
  BY ListLen DEF WorkerTyped, InPlace, Replaying, AnswerCore
<1>3. /\ IsList(rcCore') /\ n + 2 <= Len(rcCore') /\ Len(rcCore) <= Len(rcCore')
      /\ \A j \in 1..Len(rcCore) : rcCore'[j] = rcCore[j]
      /\ Len(rcCore') > Len(rcCore) => Len(rcCore) = n + 1 /\ Len(rcCore') = Len(rcCore) + 1
      /\ rcCore'[n + 2] = o
  <2>1. CASE n + 2 <= Len(rcCore) BY <1>1, <1>2, <2>1 DEF CoreAnswers
  <2>2. CASE ~(n + 2 <= Len(rcCore)) BY <1>1, <1>2, <2>2, ListAppend
  <2> QED BY <2>1, <2>2
<1>4. /\ IsList(rcEvents') /\ Len(rcEvents') = n + 1
      /\ \A i \in 1..n : rcEvents'[i] = rcEvents[i]
      /\ rcEvents'[n + 1] = [kind |-> c.kind, role |-> c.role, plan |-> c.plan,
                             turn |-> rcTurn, index |-> rcIndex]
  BY <1>1, <1>2, ListAppend
<1>5. rcTurn' = (IF o.newTurn THEN rcTurn + 1 ELSE rcTurn) /\ rcIndex' = NextIndex(rcTurn')
  BY <1>1 DEF NextTurn
<1>6. /\ rcPc' \in {"build", "error", "probe", "loop"}
      /\ rcPc' = "loop" => ~o.win
      /\ rcPc' = "build" => o.win BY <1>1 DEF ProbeOutcome
<1>7. UNCHANGED <<rcMode, rcScript, rcPrefix, rcDoc>> BY DEF AnswerCore
<1> HIDE DEF c, n
<1>8. rcPlan' = IF rcCore'[n + 2].win \/ c.plan = 0 THEN rcPlan
                ELSE IF c.role = "activate"
                THEN [rcPlan EXCEPT ![c.plan].at = n]
                ELSE [rcPlan EXCEPT ![c.plan].sent = @ + 1] BY <1>1, <1>3
<1>9. rcTurn' = IF rcCore'[n + 2].newTurn THEN rcTurn + 1 ELSE rcTurn BY <1>3, <1>5
<1>10. (rcPc' = "loop" => ~rcCore'[n + 2].win) /\ (rcPc' = "build" => rcCore'[n + 2].win)
  BY <1>3, <1>6
<1> USE DEF c, n
<1> QED BY <1>2, <1>3, <1>4, <1>5, <1>6, <1>7, <1>8, <1>9, <1>10 DEF Advanced

\* Every other step leaves the duel as it is.
Quiet == UNCHANGED <<rcScript, rcCore, rcEvents, rcTurn, rcIndex, rcPlan>>

LEMMA QuietSteps ==
  ASSUME \/ RefuseExperiment \/ TurnOverflow \/ BudgetExceeded \/ ReachTarget \/ ReachBoundary
         \/ Refuse \/ LastEndTurn \/ BuildRoute \/ ExtendPrefix \/ ProjectRoute
         \/ UNCHANGED rcVars
  PROVE  Quiet
BY DEF RefuseExperiment, TurnOverflow, BudgetExceeded, ReachTarget, ReachBoundary,
  Refuse, LastEndTurn, BuildRoute, ExtendPrefix, ProjectRoute, Ended, rcVars, Quiet

-----------------------------------------------------------------------------
(* Coordinates. *)

\* The events of a turn, those before position s.
OfTurn(events, turn, s) == {q \in DOMAIN events : q < s /\ events[q].turn = turn}

LEMMA OfTurnFinite ==
  ASSUME NEW events, IsList(events), NEW turn, NEW s
  PROVE  IsFiniteSet(OfTurn(events, turn, s)) /\ Cardinality(OfTurn(events, turn, s)) \in Nat
<1>1. DOMAIN events = 1..Len(events) /\ Len(events) \in Nat BY ListLen
<1>2. IsFiniteSet(DOMAIN events) BY <1>1, FS_Interval
<1>3. OfTurn(events, turn, s) \subseteq DOMAIN events BY DEF OfTurn
<1> QED BY <1>2, <1>3, FS_Subset, FS_CardinalityType

LEMMA CoordinateQuiet ==
  ASSUME CoordinateInv, Quiet
  PROVE  CoordinateInv'
BY DEF CoordinateInv, CoordinatesUnique, Quiet

LEMMA CoordinateBegun ==
  ASSUME Begun
  PROVE  CoordinateInv'
<1>1. DOMAIN rcEvents' = {} /\ rcIndex' = 0 BY DEF Begun
<1>2. {q \in DOMAIN rcEvents' : rcEvents'[q].turn = rcTurn'} = {} BY <1>1
<1>3. rcIndex' = Cardinality({q \in DOMAIN rcEvents' : rcEvents'[q].turn = rcTurn'})
  BY <1>1, <1>2, FS_EmptySet
<1> QED BY <1>1, <1>3 DEF CoordinateInv, CoordinatesUnique

LEMMA CoordinateAdvanced ==
  ASSUME WorkerTyped, CoordinateInv, Advanced
  PROVE  CoordinateInv'
<1> DEFINE n == Len(rcEvents)
           e == rcEvents
           f == rcEvents'
<1>1. /\ n \in Nat /\ DOMAIN e = 1..n /\ DOMAIN f = 1..n + 1 /\ rcTurn \in Nat
      /\ \A i \in 1..n : f[i] = e[i]
      /\ f[n + 1].turn = rcTurn /\ f[n + 1].index = rcIndex
      /\ rcTurn' \in {rcTurn, rcTurn + 1}
      /\ rcIndex' = IF rcTurn' # rcTurn THEN 0 ELSE rcIndex + 1
  BY ListLen DEF WorkerTyped, Advanced, NextIndex
<1>2. /\ \A s \in 1..n : e[s].turn \in Nat /\ e[s].turn <= rcTurn
      /\ rcIndex = Cardinality({q \in 1..n : e[q].turn = rcTurn})
      /\ \A s \in 1..n : e[s].index = Cardinality({q \in 1..n : q < s /\ e[q].turn = e[s].turn})
  BY <1>1 DEF CoordinateInv, CoordinatesUnique
<1>3. IsFiniteSet(1..n) BY <1>1, FS_Interval
<1> HIDE DEF n, e, f
<1>4. \A s \in 1..n + 1 : f[s].turn \in Nat /\ f[s].turn <= rcTurn' BY <1>1, <1>2, SMTT(30)
<1>5. ASSUME NEW s \in 1..n + 1
      PROVE  f[s].index = Cardinality({q \in 1..n + 1 : q < s /\ f[q].turn = f[s].turn})
  <2>1. CASE s \in 1..n BY <1>1, <1>2, <2>1
  <2>2. CASE s = n + 1
    <3>1. {q \in 1..n + 1 : q < s /\ f[q].turn = f[s].turn} = {q \in 1..n : e[q].turn = rcTurn}
      BY <1>1, <2>2
    <3> QED BY <1>1, <1>2, <2>2, <3>1
  <2> QED BY <1>1, <2>1, <2>2
<1>6. rcIndex' = Cardinality({q \in 1..n + 1 : f[q].turn = rcTurn'})
  <2> DEFINE T == {q \in 1..n : e[q].turn = rcTurn}
  <2>1. IsFiniteSet(T) /\ n + 1 \notin T /\ Cardinality(T) \in Nat
    BY <1>1, <1>3, FS_Subset, FS_CardinalityType
  <2>2. CASE rcTurn' = rcTurn
    <3>1. {q \in 1..n + 1 : f[q].turn = rcTurn'} = T \cup {n + 1} BY <1>1, <2>2
    <3>2. Cardinality(T \cup {n + 1}) = Cardinality(T) + 1 BY <2>1, FS_AddElement
    <3>3. rcIndex' = rcIndex + 1 /\ rcIndex = Cardinality(T) BY <1>1, <1>2, <2>2
    <3> QED BY <3>1, <3>2, <3>3
  <2>3. CASE rcTurn' = rcTurn + 1
    <3>1. {q \in 1..n + 1 : f[q].turn = rcTurn'} = {} BY <1>1, <1>2, <2>3
    <3>2. rcIndex' = 0 BY <1>1, <2>3
    <3>3. Cardinality({}) = 0 BY FS_EmptySet
    <3> QED BY <3>1, <3>2, <3>3
  <2> QED BY <1>1, <2>2, <2>3
<1>7. DOMAIN rcEvents' = 1..n + 1 BY <1>1 DEF f
<1> QED BY <1>4, <1>5, <1>6, <1>7 DEF CoordinateInv, CoordinatesUnique, f

-----------------------------------------------------------------------------
(* The interruptions. *)

LEMMA PlanBegun ==
  ASSUME WorkerTyped, PlansInv, Begun
  PROVE  PlansInv'
<1>1. \A p \in DOMAIN rcPlan : rcPlan[p].at < 0 /\ ~(rcPlan[p].at >= 0) /\ rcPlan[p].sent = 0
  BY DEF PlansInv, Begun, WorkerTyped
<1>2. rcPlan' = rcPlan /\ rcPc' # "document" BY DEF Begun
<1> QED BY <1>1, <1>2 DEF PlansInv, InterruptionBlocks

\* A document needs complete plans, and only the search begins again.
LEMMA PlanQuiet ==
  ASSUME WorkerTyped, PlansInv,
         Quiet, PrefixMode' <=> PrefixMode,
         rcPc' = "idle" => rcPc = "idle" \/ PrefixMode,
         rcPc' = "document" => rcPc = "document" \/ PrefixMode \/ PlansComplete
  PROVE  PlansInv'
<1>1. rcPlan' = rcPlan /\ rcScript' = rcScript /\ rcEvents' = rcEvents /\ rcCore' = rcCore BY DEF Quiet
<1>2. PrefixMode => DOMAIN rcPlan = {} BY DEF WorkerTyped
<1>3. rcPc' = "idle" => \A p \in DOMAIN rcPlan : rcPlan[p].at < 0 BY <1>2 DEF PlansInv
<1>4. ~PrefixMode /\ rcPc' = "document" => \A p \in DOMAIN rcPlan : rcPlan[p].at >= 0
  BY DEF PlansInv, PlansComplete
<1>5. \A p \in DOMAIN rcPlan : rcPlan[p].at >= 0 =>
        /\ rcPlan[p].at + 1 \in DOMAIN rcEvents
        /\ rcEvents[rcPlan[p].at + 1].plan = p /\ rcEvents[rcPlan[p].at + 1].role = "activate"
  BY ListLen DEF WorkerTyped, PlansInv
<1>6. InterruptionBlocks' BY <1>1, <1>4, <1>5 DEF Current, PlansInv, InterruptionBlocks
<1> QED BY <1>1, <1>3, <1>4, <1>6 DEF PlansInv

\* The events of an active plan.
Block(plan, events, p, step, total) ==
  /\ plan.at = step /\ plan.at + 1 + plan.sent <= Len(events) /\ plan.sent <= total
  /\ events[plan.at + 1].plan = p /\ events[plan.at + 1].role = "activate"
  /\ \A k \in 1..plan.sent : events[plan.at + 1 + k].plan = p

LEMMA BlockLonger ==
  ASSUME NEW e, IsList(e), NEW f, IsList(f), Len(f) = Len(e) + 1, \A i \in 1..Len(e) : f[i] = e[i],
         NEW plan \in [at : Nat, sent : Nat], NEW p, NEW step, NEW total \in Nat
  PROVE  /\ Block(plan, e, p, step, total) => Block(plan, f, p, step, total)
         /\ Block(plan, e, p, step, total) /\ plan.sent < total /\ Len(e) = plan.at + 1 + plan.sent
              /\ f[Len(e) + 1].plan = p
            => Block([plan EXCEPT !.sent = @ + 1], f, p, step, total)
         /\ plan.sent = 0 /\ Len(e) = step /\ f[Len(e) + 1].plan = p /\ f[Len(e) + 1].role = "activate"
            => Block([plan EXCEPT !.at = Len(e)], f, p, step, total)
<1>1. Len(e) \in Nat BY ListLen
<1>2. ASSUME Block(plan, e, p, step, total)
      PROVE  Block(plan, f, p, step, total)
  <2>1. \A k \in 1..plan.sent : plan.at + 1 + k \in 1..Len(e) BY <1>1, <1>2 DEF Block
  <2>2. plan.at + 1 \in 1..Len(e) BY <1>1, <1>2 DEF Block
  <2>3. f[plan.at + 1] = e[plan.at + 1] /\ \A k \in 1..plan.sent : f[plan.at + 1 + k] = e[plan.at + 1 + k]
    BY <2>1, <2>2
  <2>4. plan.at + 1 + plan.sent <= Len(f) BY <1>1, <1>2 DEF Block
  <2> QED BY <1>2, <2>3, <2>4 DEF Block
<1>3. ASSUME Block(plan, e, p, step, total), plan.sent < total, Len(e) = plan.at + 1 + plan.sent,
             f[Len(e) + 1].plan = p
      PROVE  Block([plan EXCEPT !.sent = @ + 1], f, p, step, total)
  <2> DEFINE next == [plan EXCEPT !.sent = @ + 1]
  <2>1. next.at = plan.at /\ next.sent = plan.sent + 1 OBVIOUS
  <2>2. Block(plan, f, p, step, total) BY <1>2, <1>3
  <2>3. \A k \in 1..plan.sent + 1 : f[plan.at + 1 + k].plan = p
    BY <1>1, <1>3, <2>2 DEF Block
  <2> HIDE DEF next
  <2> QED BY <1>1, <1>3, <2>1, <2>2, <2>3 DEF Block
<1>4. ASSUME plan.sent = 0, Len(e) = step, f[Len(e) + 1].plan = p, f[Len(e) + 1].role = "activate"
      PROVE  Block([plan EXCEPT !.at = Len(e)], f, p, step, total)
  <2> DEFINE next == [plan EXCEPT !.at = Len(e)]
  <2>1. next.at = Len(e) /\ next.sent = 0 BY <1>4
  <2> HIDE DEF next
  <2> QED BY <1>1, <1>4, <2>1 DEF Block
<1> QED BY <1>2, <1>3, <1>4

LEMMA BlockOne ==
  ASSUME NEW a \in [at : Nat, sent : Nat], NEW b \in [at : Nat, sent : Nat],
         NEW e, NEW p, NEW q, NEW s, NEW t, NEW m, NEW n,
         Block(a, e, p, s, m), Block(b, e, q, t, n),
         a.at + 1 + a.sent = b.at + 1 + b.sent
  PROVE  p = q
<1>1. CASE a.at = b.at BY <1>1 DEF Block
<1>2. CASE a.at < b.at
  <2>1. b.at - a.at \in 1..a.sent /\ a.at + 1 + (b.at - a.at) = b.at + 1 BY <1>2
  <2>2. e[a.at + 1 + (b.at - a.at)].plan = p BY <2>1 DEF Block
  <2> QED BY <2>1, <2>2 DEF Block
<1>3. CASE b.at < a.at
  <2>1. a.at - b.at \in 1..b.sent /\ b.at + 1 + (a.at - b.at) = a.at + 1 BY <1>3
  <2>2. e[b.at + 1 + (a.at - b.at)].plan = q BY <2>1 DEF Block
  <2> QED BY <2>1, <2>2 DEF Block
<1> QED BY <1>1, <1>2, <1>3

\* What PlansInv says of one plan.
Active(plan, events, p, step, total, over) ==
  /\ plan.at < 0 => plan.sent = 0
  /\ plan.at >= 0 =>
       /\ Block(plan, events, p, step, total)
       /\ plan.sent = total \/ over \/ Len(events) = plan.at + 1 + plan.sent

LEMMA PlanAdvanced ==
  ASSUME WorkerTyped, InPlace, PlansInv, Advanced
  PROVE  PlansInv'
<1> DEFINE n == Len(rcEvents)
           c == Chosen
           won == rcCore'[n + 2].win
           D == DOMAIN rcPlan
           total(p) == Len(rcScript.plans[p].responses)
           step(p) == rcScript.plans[p].target.step
<1>1. /\ IsList(rcEvents) /\ IsList(rcEvents') /\ n \in Nat /\ Len(rcEvents') = n + 1
      /\ \A i \in 1..n : rcEvents'[i] = rcEvents[i]
      /\ rcEvents'[n + 1].plan = c.plan /\ rcEvents'[n + 1].role = c.role
  BY ListLen DEF WorkerTyped, Advanced
<1>2. /\ D \subseteq Nat \ {0} /\ \A p \in D : total(p) \in Nat /\ rcPlan[p] \in [at : Int, sent : Nat]
      /\ rcPlan \in [D -> [at : Int, sent : Nat]]
      /\ PrefixMode => D = {} BY DEF WorkerTyped, PlansTyped
<1>3. \A p \in D : Active(rcPlan[p], rcEvents, p, step(p), total(p), FALSE)
  <2>1. ~Current.win BY DEF InPlace, Advanced
  <2> QED BY <2>1 DEF PlansInv, InterruptionBlocks, Active, Block
<1>4. \A p \in D : p \in RespondsFirst <=> rcPlan[p].at >= 0 /\ rcPlan[p].sent < total(p)
  BY DEF RespondsFirst, Responding
<1>5. ChoicePlan(c) BY <1>2, ChosenPlan
<1>6. rcPlan' = IF won \/ c.plan = 0 THEN rcPlan
                ELSE IF c.role = "activate" THEN [rcPlan EXCEPT ![c.plan].at = n]
                ELSE [rcPlan EXCEPT ![c.plan].sent = @ + 1] BY DEF Advanced
<1>7. RespondsFirst \subseteq D /\ Due \subseteq D BY DEF RespondsFirst, Due
<1> HIDE DEF n, c, won, D, total, step
<1>8. \A p, q \in RespondsFirst : p = q
  <2> SUFFICES ASSUME NEW p \in RespondsFirst, NEW q \in RespondsFirst PROVE p = q OBVIOUS
  <2>1. /\ Block(rcPlan[p], rcEvents, p, step(p), total(p)) /\ Len(rcEvents) = rcPlan[p].at + 1 + rcPlan[p].sent
        /\ Block(rcPlan[q], rcEvents, q, step(q), total(q)) /\ Len(rcEvents) = rcPlan[q].at + 1 + rcPlan[q].sent
        /\ rcPlan[p] \in [at : Nat, sent : Nat] /\ rcPlan[q] \in [at : Nat, sent : Nat]
    BY <1>2, <1>3, <1>4, <1>7 DEF Active
  <2> QED BY <2>1, BlockOne
<1>9. \A p \in D : Active(rcPlan'[p], rcEvents', p, step(p), total(p), won)
  <2> SUFFICES ASSUME NEW p \in D PROVE Active(rcPlan'[p], rcEvents', p, step(p), total(p), won)
    OBVIOUS
  <2>0. /\ total(p) \in Nat /\ rcPlan[p] \in [at : Int, sent : Nat] /\ p # 0
        /\ Active(rcPlan[p], rcEvents, p, step(p), total(p), FALSE) BY <1>2, <1>3
  <2>1. ASSUME rcPlan[p].at >= 0
        PROVE  Block(rcPlan[p], rcEvents', p, step(p), total(p))
    <3>1. rcPlan[p] \in [at : Nat, sent : Nat] /\ Block(rcPlan[p], rcEvents, p, step(p), total(p))
      BY <2>0, <2>1 DEF Active
    <3> QED BY <1>1, <2>0, <3>1, BlockLonger DEF n
  <2>2. CASE rcPlan'[p] = rcPlan[p] /\ (won \/ p \notin RespondsFirst)
    <3>1. rcPlan[p].at >= 0 /\ ~won => rcPlan[p].sent = total(p)
      BY <1>4, <2>0, <2>2 DEF Active, Block
    <3> QED BY <2>0, <2>1, <2>2, <3>1 DEF Active
  <2>3. CASE won \/ c.plan = 0 BY <1>6, <1>2, <1>5, <1>7, <2>3, <2>2 DEF ChoicePlan
  <2>4. CASE ~won /\ c.plan \in RespondsFirst /\ c.role = "response"
    <3>1. c.plan # 0 /\ c.plan \in D BY <1>2, <1>7, <2>4
    <3>2. rcPlan' = [rcPlan EXCEPT ![c.plan].sent = @ + 1] BY <1>6, <2>4, <3>1
    <3>3. CASE p = c.plan
      <4>1. rcPlan'[p] = [rcPlan[p] EXCEPT !.sent = @ + 1] BY <1>2, <3>2, <3>3
      <4>2. rcPlan[p].at >= 0 /\ rcPlan[p].sent < total(p) BY <1>4, <2>4, <3>3
      <4>3. rcPlan[p] \in [at : Nat, sent : Nat] BY <2>0, <4>2
      <4>4. Block(rcPlan[p], rcEvents, p, step(p), total(p)) /\ n = rcPlan[p].at + 1 + rcPlan[p].sent
        BY <2>0, <4>2 DEF Active, n
      <4>5. Block([rcPlan[p] EXCEPT !.sent = @ + 1], rcEvents', p, step(p), total(p))
        BY <1>1, <2>0, <3>3, <4>2, <4>3, <4>4, BlockLonger DEF n
      <4>6. n + 1 = rcPlan'[p].at + 1 + rcPlan'[p].sent /\ rcPlan'[p].at >= 0
        BY <1>1, <4>1, <4>2, <4>3, <4>4
      <4>7. Block(rcPlan'[p], rcEvents', p, step(p), total(p)) BY <4>1, <4>5
      <4>8. Len(rcEvents') = rcPlan'[p].at + 1 + rcPlan'[p].sent /\ ~(rcPlan'[p].at < 0)
        BY <1>1, <4>1, <4>3, <4>6
      <4> QED BY <4>7, <4>8 DEF Active
    <3>4. CASE p # c.plan BY <1>2, <1>8, <2>4, <2>2, <3>2, <3>4
    <3> QED BY <3>3, <3>4
  <2>5. CASE /\ ~won /\ c.plan \in Due /\ c.role = "activate" /\ RespondsFirst = {}
             /\ rcScript.plans[c.plan].target.step = Len(rcEvents)
    <3>1. c.plan # 0 /\ c.plan \in D BY <1>2, <1>7, <2>5
    <3>2. rcPlan' = [rcPlan EXCEPT ![c.plan].at = n] BY <1>6, <2>5, <3>1
    <3>3. CASE p = c.plan
      <4>1. rcPlan'[p] = [rcPlan[p] EXCEPT !.at = n] BY <1>2, <3>2, <3>3
      <4>2. rcPlan[p].sent = 0 /\ step(p) = n
        BY <2>5, <2>0, <3>3 DEF Due, Active, step, n
      <4> DEFINE zero == [at |-> 0, sent |-> 0]
      <4>3. rcPlan'[p] = [zero EXCEPT !.at = n] BY <2>0, <4>1, <4>2
      <4>4. Block([zero EXCEPT !.at = Len(rcEvents)], rcEvents', p, step(p), total(p))
        <5>1. zero \in [at : Nat, sent : Nat] /\ zero.sent = 0 OBVIOUS
        <5> HIDE DEF zero
        <5> QED BY <1>1, <2>0, <2>5, <3>3, <4>2, <5>1, BlockLonger DEF n
      <4>5. rcPlan'[p].at = n /\ rcPlan'[p].sent = 0 BY <4>3
      <4>6. Block(rcPlan'[p], rcEvents', p, step(p), total(p)) BY <4>3, <4>4 DEF n
      <4> HIDE DEF zero
      <4>7. Len(rcEvents') = rcPlan'[p].at + 1 + rcPlan'[p].sent /\ ~(rcPlan'[p].at < 0) BY <1>1, <4>5
      <4> QED BY <4>6, <4>7 DEF Active
    <3>4. CASE p # c.plan BY <1>2, <2>5, <2>2, <3>2, <3>4
    <3> QED BY <3>3, <3>4
  <2> QED BY <1>5, <2>3, <2>4, <2>5 DEF ChoicePlan
<1>10. rcPc' \notin {"idle", "document"} /\ rcScript' = rcScript BY DEF Advanced
<1>11. DOMAIN rcPlan' = D BY <1>6 DEF D
<1>12. Current'.win <=> won BY <1>1 DEF Current, won
<1>13. PlansInv'
  <2>1. \A p \in D :
          /\ rcPlan'[p].at < 0 => rcPlan'[p].sent = 0
          /\ rcPlan'[p].at >= 0 =>
               /\ Block(rcPlan'[p], rcEvents', p, step(p), total(p))
               /\ \/ rcPlan'[p].sent = total(p) \/ won
                  \/ Len(rcEvents') = rcPlan'[p].at + 1 + rcPlan'[p].sent
    BY <1>9 DEF Active
  <2>2. InterruptionBlocks'
    BY <1>10, <1>11, <1>12, <2>1 DEF InterruptionBlocks, Block, step, total
  <2> QED BY <1>10, <1>11, <2>1, <2>2 DEF PlansInv, Block, total
<1> QED BY <1>13

-----------------------------------------------------------------------------
(* The place in the duel. *)

LEMMA InPlaceBegun ==
  ASSUME WorkerTyped, Begun
  PROVE  InPlace'
<1>1. Len(rcEvents') = 0 /\ DOMAIN rcEvents' = {} BY DEF Begun
<1>2. Len(rcEvents') + 1 = 1 BY <1>1
<1>3. Current' = rcCore'[1] BY <1>2 DEF Current
<1>4. rcTurn' = TurnAt(rcCore', 1) BY TurnFirst DEF Begun
<1>5. IsList(rcPrefix') /\ Len(rcPrefix') \in Nat BY ListLen DEF WorkerTyped, Begun
<1>6. rcPc' \in {"loop", "error"} /\ 1 <= Len(rcCore') /\ (rcPc' = "loop" => ~rcCore'[1].win)
  BY DEF Begun
<1>7. Replaying' => /\ Len(rcEvents') + 1 <= Len(rcCore')
                    /\ rcTurn' = TurnAt(rcCore', Len(rcEvents') + 1)
                    /\ \A j \in 1..Len(rcEvents') : ~rcCore'[j].win
                    /\ PrefixMode' =>
                         /\ Len(rcEvents') <= Len(rcPrefix')
                         /\ \A i \in 1..Len(rcEvents') :
                              rcPrefix'[i] = "END_TURN" => TurnAt(rcCore', i) < TurnLimit
  BY <1>1, <1>2, <1>4, <1>5, <1>6
<1>8. rcPc' = "loop" => ~Current'.win BY <1>3, <1>6
<1>9. rcPc' \notin {"build", "document"} BY <1>6
<1> QED BY <1>7, <1>8, <1>9 DEF InPlace

LEMMA InPlaceAdvanced ==
  ASSUME WorkerTyped, InPlace, Advanced, ~Overflowed, ~AtTarget,
         PrefixMode /\ rcTurn >= TurnLimit => rcPrefix[Len(rcEvents) + 1] # "END_TURN"
  PROVE  InPlace'
<1> DEFINE n == Len(rcEvents)
<1>1. /\ n \in Nat /\ Len(rcCore) \in Nat /\ Len(rcPrefix) \in Nat /\ rcTurn \in Nat
      /\ TurnLimit \in Nat BY ListLen, WorkerAssumption DEF WorkerTyped
<1>2. /\ n + 1 <= Len(rcCore) /\ rcTurn = TurnAt(rcCore, n + 1)
      /\ \A j \in 1..n : ~rcCore[j].win
      /\ ~rcCore[n + 1].win
      /\ PrefixMode => /\ n <= Len(rcPrefix)
                       /\ \A i \in 1..n : rcPrefix[i] = "END_TURN" => TurnAt(rcCore, i) < TurnLimit
  BY DEF InPlace, Replaying, Advanced, Current
<1>3. /\ Len(rcEvents') = n + 1 /\ n + 2 <= Len(rcCore')
      /\ \A j \in 1..Len(rcCore) : rcCore'[j] = rcCore[j]
      /\ rcTurn' = IF rcCore'[n + 2].newTurn THEN rcTurn + 1 ELSE rcTurn
      /\ rcPrefix' = rcPrefix /\ (PrefixMode' <=> PrefixMode)
      /\ rcPc' = "loop" => ~rcCore'[n + 2].win
      /\ rcPc' = "build" => rcCore'[n + 2].win
      /\ rcPc' # "document" BY DEF Advanced, PrefixMode
<1> HIDE DEF n
<1>4. \A i \in 1..n + 1 : TurnAt(rcCore', i) = TurnAt(rcCore, i)
  <2> SUFFICES ASSUME NEW i \in 1..n + 1 PROVE TurnAt(rcCore', i) = TurnAt(rcCore, i) OBVIOUS
  <2>1. i \in Nat /\ \A j \in 1..i : rcCore'[j] = rcCore[j] BY <1>1, <1>2, <1>3, SMTT(30)
  <2> QED BY <2>1, TurnSame
<1>5. rcTurn' = TurnAt(rcCore', n + 2)
  <2>1. n + 1 \in Nat /\ n + 1 + 1 = n + 2 BY <1>1
  <2>2. TurnAt(rcCore', n + 2) = IF rcCore'[n + 2].newTurn THEN TurnAt(rcCore', n + 1) + 1
                                 ELSE TurnAt(rcCore', n + 1) BY <2>1, TurnNext
  <2>3. TurnAt(rcCore', n + 1) = rcTurn BY <1>1, <1>2, <1>4
  <2> QED BY <1>3, <2>2, <2>3
<1>6. \A j \in 1..n + 1 : ~rcCore'[j].win BY <1>1, <1>2, <1>3
<1>7. PrefixMode =>
        /\ n + 1 <= Len(rcPrefix)
        /\ \A i \in 1..n + 1 : rcPrefix[i] = "END_TURN" => TurnAt(rcCore', i) < TurnLimit
  <2> SUFFICES ASSUME PrefixMode
               PROVE  /\ n + 1 <= Len(rcPrefix)
                      /\ \A i \in 1..n + 1 : rcPrefix[i] = "END_TURN" => TurnAt(rcCore', i) < TurnLimit
    OBVIOUS
  <2>1. n # Len(rcPrefix) BY DEF AtTarget, n
  <2>2. rcPrefix[n + 1] = "END_TURN" => rcTurn < TurnLimit BY <1>1 DEF n
  <2>3. \A i \in 1..n + 1 : i \in 1..n \/ i = n + 1 BY <1>1
  <2> QED BY <1>1, <1>2, <1>4, <2>1, <2>2, <2>3
<1>8. Current' = rcCore'[n + 2] BY <1>1, <1>3 DEF Current
<1>9. Len(rcEvents') + 1 = n + 2 BY <1>1, <1>3
<1> QED BY <1>3, <1>5, <1>6, <1>7, <1>8, <1>9 DEF InPlace

LEMMA InPlaceQuiet ==
  ASSUME InPlace, Quiet, Replaying' => Replaying /\ UNCHANGED <<rcMode, rcPrefix>>,
         rcPc' = "loop" => rcPc = "loop",
         rcPc' \in {"build", "document"} /\ PrefixMode /\ ~Current.win => rcTurn <= TurnLimit
  PROVE  InPlace'
<1>1. Current' = Current BY DEF Current, Quiet
<1>2. Replaying' => (PrefixMode' <=> PrefixMode) BY DEF PrefixMode
<1>3. rcPc' \in {"build", "document"} => Replaying' BY DEF Replaying
<1> QED BY <1>1, <1>2, <1>3 DEF InPlace, Quiet

-----------------------------------------------------------------------------
(* The frontier. *)

LEMMA FrontierGrows ==
  ASSUME WorkerTyped, FrontierInv, IsList(rcCore'), Len(rcCore) <= Len(rcCore'),
         \A j \in 1..Len(rcCore) : rcCore'[j] = rcCore[j],
         UNCHANGED <<rcMode, rcPrefix, rcDoc>>, rcPc' \notin {"document", "path_failure"}
  PROVE  FrontierInv'
<1>1. Len(rcCore) \in Nat /\ Len(rcCore') \in Nat /\ Len(rcPrefix) \in Nat
  BY ListLen DEF WorkerTyped
<1>2. PrefixMode' <=> PrefixMode BY DEF PrefixMode
<1>3. ExtendedPrefix => ExtendedPrefix' BY <1>1 DEF ExtendedPrefix
<1>4. Reached => Reached' BY <1>1 DEF Reached
<1>5. Projected => Projected' BY <1>1 DEF Projected
<1>6. ASSUME Reached, NoLateEnd PROVE NoLateEnd'
  <2> SUFFICES ASSUME NEW i \in 1..Len(rcPrefix), i <= Len(rcCore'),
                      \A j \in 1..i : ~rcCore'[j].win, rcPrefix[i] = "END_TURN"
               PROVE  TurnAt(rcCore', i) < TurnLimit BY DEF NoLateEnd
  <2>1. i <= Len(rcCore) BY <1>1, <1>6 DEF Reached
  <2>2. \A j \in 1..i : rcCore'[j] = rcCore[j] BY <1>1, <2>1
  <2>3. TurnAt(rcCore', i) = TurnAt(rcCore, i) BY <2>2, TurnSame
  <2>4. \A j \in 1..i : ~rcCore[j].win BY <2>2
  <2> QED BY <1>6, <2>1, <2>3, <2>4 DEF NoLateEnd
<1> QED BY <1>2, <1>3, <1>4, <1>5, <1>6 DEF FrontierInv, DocumentCurrent, FrontierIsPrefix

\* What a document of the place the worker has reached says of its prefix.
LEMMA FrontierDocumented ==
  ASSUME WorkerTyped, InPlace, FrontierInv, Replaying, Quiet, rcPc' = "document",
         UNCHANGED <<rcMode, rcPrefix>>, NEW route, rcDoc' = FrontierDocument(Current, rcTurn, route),
         PrefixMode => Len(rcEvents) = Len(rcPrefix) \/ (Current.win /\ rcPrefix \in GivenPrefixes)
  PROVE  FrontierInv'
<1> DEFINE n == Len(rcEvents)
<1>1. n \in Nat /\ Len(rcCore) \in Nat /\ Len(rcPrefix) \in Nat
  BY ListLen DEF WorkerTyped
<1>2. /\ rcCore' = rcCore /\ rcTurn' = rcTurn /\ Len(rcEvents') = n /\ Current' = Current
      /\ (PrefixMode' <=> PrefixMode) BY DEF Quiet, Current, PrefixMode
<1>3. rcDoc'.events = n /\ rcDoc'.route = route BY DEF FrontierDocument
<1>4. Current = rcCore[n + 1] BY DEF Current
<1>5. /\ n + 1 <= Len(rcCore)
      /\ PrefixMode => \A i \in 1..n : rcPrefix[i] = "END_TURN" => TurnAt(rcCore, i) < TurnLimit
  BY DEF InPlace
<1>6. DocumentCurrent' BY <1>2, <1>3 DEF DocumentCurrent, FrontierDocument
<1> HIDE DEF n
<1>7. PrefixMode => n = Len(rcPrefix) \/ (rcCore[n + 1].win /\ rcPrefix \in GivenPrefixes)
  BY <1>4 DEF n
<1>8. PrefixMode => Reached' /\ Projected' /\ FrontierIsPrefix'
  BY <1>1, <1>2, <1>3, <1>4, <1>5, <1>7 DEF Reached, Projected, FrontierIsPrefix
<1>9. ASSUME PrefixMode PROVE NoLateEnd'
  <2> SUFFICES ASSUME NEW i \in 1..Len(rcPrefix),
                      \A j \in 1..i : ~rcCore[j].win, rcPrefix[i] = "END_TURN"
               PROVE  TurnAt(rcCore, i) < TurnLimit BY <1>2 DEF NoLateEnd
  <2>1. i \in 1..n BY <1>1, <1>7, <1>9
  <2> QED BY <1>5, <1>9, <2>1
<1>10. PrefixMode => ExtendedPrefix' BY <1>2 DEF FrontierInv, ExtendedPrefix
<1>11. rcMode' = "player_view" => PrefixMode BY <1>2 DEF PrefixMode
<1> QED BY <1>2, <1>6, <1>8, <1>9, <1>10, <1>11 DEF FrontierInv, FrontierIsPrefix

LEMMA FrontierEnded ==
  ASSUME FrontierInv, Quiet, UNCHANGED <<rcMode, rcPrefix, rcDoc>>, rcPc' # "document",
         rcPc' = "path_failure" => rcDoc = NoDoc \/ rcTurn > TurnLimit
  PROVE  FrontierInv'
BY DEF FrontierInv, DocumentCurrent, ExtendedPrefix, Reached, NoLateEnd, Projected,
  FrontierIsPrefix, Quiet, PrefixMode

LEMMA FrontierExtended ==
  ASSUME WorkerTyped, InPlace, FrontierInv, ExtendPrefix
  PROVE  FrontierInv' /\ IsList(rcPrefix')
<1> DEFINE n == Len(rcEvents)
<1>1. PICK kind \in rcDoc.actions : rcPrefix' = Append(rcPrefix, kind) BY DEF ExtendPrefix
<1>2. /\ rcPc = "document" /\ rcPc' = "idle" /\ rcMode = "search_frontier"
      /\ UNCHANGED <<rcMode, rcCore, rcEvents, rcTurn, rcDoc>> BY DEF ExtendPrefix
<1>3. PrefixMode /\ (PrefixMode' <=> PrefixMode) BY <1>2 DEF PrefixMode
<1>4. /\ n \in Nat /\ Len(rcCore) \in Nat /\ Len(rcPrefix) \in Nat /\ IsList(rcPrefix)
      /\ rcTurn \in Nat /\ TurnLimit \in Nat
  BY ListLen, WorkerAssumption DEF WorkerTyped
<1>5. rcDoc = FrontierDocument(Current, rcTurn, rcDoc.route)
  BY <1>2 DEF FrontierInv, DocumentCurrent
<1>6. rcDoc.events = n /\ kind \in (IF Current.win THEN {} ELSE LifecycleActions(Current.kinds, rcTurn))
  <2>1. /\ FrontierDocument(Current, rcTurn, rcDoc.route).events = n
        /\ FrontierDocument(Current, rcTurn, rcDoc.route).actions =
             (IF Current.win THEN {} ELSE LifecycleActions(Current.kinds, rcTurn))
    BY DEF FrontierDocument
  <2> HIDE DEF n
  <2> QED BY <1>1, <1>5, <2>1
<1>7. ~Current.win /\ kind \in LifecycleActions(Current.kinds, rcTurn) BY <1>6
<1>8. n = Len(rcPrefix) BY <1>2, <1>3, <1>6, <1>7 DEF FrontierInv, FrontierIsPrefix
<1>9. /\ n + 1 <= Len(rcCore) /\ rcTurn = TurnAt(rcCore, n + 1) /\ rcTurn <= TurnLimit
      /\ \A j \in 1..n : ~rcCore[j].win
      /\ ~rcCore[n + 1].win
      /\ \A i \in 1..n : rcPrefix[i] = "END_TURN" => TurnAt(rcCore, i) < TurnLimit
  BY <1>2, <1>3, <1>7 DEF InPlace, Replaying, Current
<1>10. kind = "END_TURN" => rcTurn < TurnLimit BY <1>4, <1>7, <1>9 DEF LifecycleActions
<1>11. /\ IsList(rcPrefix') /\ Len(rcPrefix') = n + 1 /\ rcPrefix'[n + 1] = kind
       /\ \A i \in 1..n : rcPrefix'[i] = rcPrefix[i] BY <1>1, <1>4, <1>8, ListAppend
<1> HIDE DEF n
<1>12. \A i \in 1..n + 1 : (i \in 1..n \/ i = n + 1) BY <1>4
<1>13. ExtendedPrefix' BY <1>2, <1>4, <1>9, <1>11, <1>12 DEF ExtendedPrefix
<1>14. Reached' BY <1>2, <1>4, <1>6, <1>9, <1>11 DEF Reached
<1>15. NoLateEnd' BY <1>9, <1>10, <1>11, <1>12, <1>2 DEF NoLateEnd
<1> QED BY <1>2, <1>11, <1>13, <1>14, <1>15 DEF FrontierInv, DocumentCurrent, FrontierIsPrefix

LEMMA FrontierProjected ==
  ASSUME WorkerTyped, InPlace, FrontierInv, ProjectRoute
  PROVE  FrontierInv'
<1> DEFINE n == Len(rcEvents)
<1>1. /\ rcPc = "document" /\ rcPc' = "idle" /\ rcMode = "search_frontier" /\ rcMode' = "player_view"
      /\ UNCHANGED <<rcCore, rcEvents, rcTurn, rcDoc, rcPrefix>> BY DEF ProjectRoute
<1>2. PrefixMode /\ PrefixMode' BY <1>1 DEF PrefixMode
<1>3. n \in Nat /\ n + 1 <= Len(rcCore) BY <1>1, ListLen DEF WorkerTyped, InPlace, Replaying
<1>4. rcDoc = FrontierDocument(Current, rcTurn, rcDoc.route)
  BY <1>1 DEF FrontierInv, DocumentCurrent
<1>5. rcDoc.events = n
  <2>1. FrontierDocument(Current, rcTurn, rcDoc.route).events = n BY DEF FrontierDocument
  <2> HIDE DEF n
  <2> QED BY <1>4, <2>1
<1>6. rcDoc.events = Len(rcPrefix) \/ (rcCore[n + 1].win /\ rcPrefix \in GivenPrefixes)
  BY <1>1, <1>2 DEF FrontierInv, FrontierIsPrefix, Current
<1> HIDE DEF n
<1>7. Projected' BY <1>1, <1>3, <1>5, <1>6 DEF Projected
<1>8. ExtendedPrefix' /\ (rcDoc' = NoDoc \/ (Reached' /\ NoLateEnd'))
  BY <1>1, <1>2 DEF FrontierInv, ExtendedPrefix, Reached, NoLateEnd
<1> QED BY <1>1, <1>7, <1>8 DEF FrontierInv, DocumentCurrent, FrontierIsPrefix

\* An END_TURN of the last turn is only met in the first replay of a prefix.
LEMMA LastEndIsFirst ==
  ASSUME WorkerTyped, InPlace, FrontierInv, LastEndTurn
  PROVE  rcDoc = NoDoc
<1> DEFINE n == Len(rcEvents)
<1>1. /\ n \in Nat /\ Len(rcCore) \in Nat /\ Len(rcPrefix) \in Nat
      /\ rcTurn \in Nat /\ TurnLimit \in Nat
  BY ListLen, WorkerAssumption DEF WorkerTyped
<1>2. /\ rcPc = "loop" /\ PrefixMode /\ rcTurn >= TurnLimit /\ rcPrefix[n + 1] = "END_TURN"
      /\ n # Len(rcPrefix) BY DEF LastEndTurn, AtTarget
<1>3. /\ n + 1 <= Len(rcCore) /\ rcTurn = TurnAt(rcCore, n + 1) /\ n <= Len(rcPrefix)
      /\ \A j \in 1..n : ~rcCore[j].win
      /\ ~rcCore[n + 1].win BY <1>2 DEF InPlace, Replaying, Current
<1> HIDE DEF n
<1>4. n + 1 \in 1..Len(rcPrefix) /\ \A j \in 1..n + 1 : ~rcCore[j].win
  BY <1>1, <1>2, <1>3
<1>5. NoLateEnd => TurnAt(rcCore, n + 1) < TurnLimit BY <1>2, <1>3, <1>4 DEF NoLateEnd
<1> QED BY <1>1, <1>2, <1>3, <1>5 DEF FrontierInv

LEMMA WorkerNext ==
  ASSUME WorkerInv, [RcNext]_rcVars
  PROVE  WorkerInv'
<1> USE DEF WorkerInv
<1>1. CASE StartWorker
  <2>1. Begun BY <1>1, StartBegins
  <2>2. WorkerTyped' BY <2>1, ListEmpty DEF Begun, WorkerTyped, PrefixMode
  <2>3. FrontierInv'
    <3>1. /\ Len(rcCore) <= Len(rcCore') /\ IsList(rcCore')
          /\ \A j \in 1..Len(rcCore) : rcCore'[j] = rcCore[j]
      <4>1. IsList(rcCore') /\ 1 <= Len(rcCore') /\ (rcCore' = rcCore \/ Len(rcCore) = 0) BY <2>1 DEF Begun
      <4>2. Len(rcCore') \in Nat BY <4>1, ListLen
      <4>3. CASE rcCore' = rcCore BY <4>1, <4>2, <4>3
      <4>4. CASE Len(rcCore) = 0 BY <4>1, <4>2, <4>4
      <4> QED BY <4>1, <4>3, <4>4
    <3>2. UNCHANGED <<rcMode, rcPrefix, rcDoc>> /\ rcPc' \notin {"document", "path_failure"}
      BY <2>1 DEF Begun
    <3> QED BY <3>1, <3>2, FrontierGrows
  <2> QED BY <2>1, <2>2, <2>3, InPlaceBegun, PlanBegun, CoordinateBegun
<1>2. CASE AnswerCore
  <2>1. Advanced BY <1>2, AnswerAdvances
  <2>2. WorkerTyped'
    <3>1. rcPlan' \in [DOMAIN rcScript.plans -> [at : Int, sent : Nat]]
      <4>1. Len(rcEvents) \in Int BY ListLen DEF WorkerTyped
      <4>2. rcPlan \in [DOMAIN rcScript.plans -> [at : Int, sent : Nat]] BY DEF WorkerTyped
      <4>3. ChoicePlan(Chosen) BY ChosenPlan DEF WorkerTyped, PlansTyped
      <4>4. Chosen.plan = 0 \/ Chosen.plan \in DOMAIN rcScript.plans
        BY <4>2, <4>3 DEF ChoicePlan, RespondsFirst, Due
      <4> DEFINE p == Chosen.plan
                 D == DOMAIN rcScript.plans
      <4>5. \/ rcPlan' = rcPlan
            \/ p # 0 /\ rcPlan' = [rcPlan EXCEPT ![p].at = Len(rcEvents)]
            \/ p # 0 /\ rcPlan' = [rcPlan EXCEPT ![p].sent = @ + 1]
        BY <2>1 DEF Advanced
      <4> HIDE DEF p, D
      <4>6. p # 0 => p \in D BY <4>4 DEF p, D
      <4>7. rcPlan \in [D -> [at : Int, sent : Nat]] BY <4>2 DEF D
      <4>8. rcPlan' \in [D -> [at : Int, sent : Nat]]
        <5>1. CASE rcPlan' = rcPlan BY <4>7, <5>1
        <5>2. CASE p # 0 /\ rcPlan' = [rcPlan EXCEPT ![p].at = Len(rcEvents)]
          BY <4>1, <4>6, <4>7, <5>2
        <5>3. CASE p # 0 /\ rcPlan' = [rcPlan EXCEPT ![p].sent = @ + 1]
          BY <4>6, <4>7, <5>3
        <5> QED BY <4>5, <5>1, <5>2, <5>3
      <4> QED BY <4>8 DEF D
    <3>2. rcTurn' \in Nat /\ rcIndex' \in Nat BY <2>1 DEF Advanced, NextIndex, WorkerTyped
    <3> QED BY <2>1, <3>1, <3>2 DEF Advanced, WorkerTyped, PrefixMode
  <2>3. InPlace' BY <1>2, <2>1, InPlaceAdvanced DEF AnswerCore
  <2>4. FrontierInv' BY <2>1, FrontierGrows DEF Advanced
  <2> QED BY <2>1, <2>2, <2>3, <2>4, PlanAdvanced, CoordinateAdvanced
<1>3. CASE \/ RefuseExperiment \/ TurnOverflow \/ BudgetExceeded \/ Refuse \/ LastEndTurn \/ ReachBoundary
           \/ UNCHANGED rcVars
  <2>1. Quiet BY <1>3, QuietSteps
  <2>2. UNCHANGED <<rcMode, rcPrefix, rcDoc>>
    BY <1>3 DEF RefuseExperiment, TurnOverflow, BudgetExceeded, Refuse, LastEndTurn,
      ReachBoundary, Ended, rcVars
  <2>3. \/ rcPc' = rcPc
        \/ rcPc' = "error"
        \/ rcPc' = "path_failure" /\ (rcDoc = NoDoc \/ rcTurn > TurnLimit)
        \/ rcPc = "loop" /\ rcPc' = "build" /\ ~Overflowed
    BY <1>3, LastEndIsFirst DEF RefuseExperiment, TurnOverflow, BudgetExceeded, Refuse,
      LastEndTurn, ReachBoundary, Ended, rcVars, Overflowed
  <2>4. PrefixMode' <=> PrefixMode BY <2>2 DEF PrefixMode
  <2>5. WorkerTyped' BY <2>1, <2>2, <2>3, <2>4 DEF WorkerTyped, Quiet
  <2>6. InPlace'
    BY <2>1, <2>2, <2>3, WorkerAssumption, InPlaceQuiet DEF Overflowed, WorkerTyped,
      Replaying, InPlace
  <2>7. FrontierInv'
    <3>1. CASE rcPc' # "document"
      BY <2>3, <2>1, <2>2, <3>1, FrontierEnded DEF FrontierInv
    <3>2. CASE rcPc' = "document"
      <4>1. rcPc = "document" BY <2>3, <3>2
      <4> QED BY <2>1, <2>2, <2>4, <3>2, <4>1
                  DEF FrontierInv, DocumentCurrent, ExtendedPrefix, Reached, NoLateEnd, Projected,
                      FrontierIsPrefix, Quiet, FrontierDocument, Current
    <3> QED BY <3>1, <3>2
  <2>8. PlansInv' BY <2>1, <2>3, <2>4, PlanQuiet
  <2> QED BY <2>1, <2>5, <2>6, <2>7, <2>8, CoordinateQuiet
<1>4. CASE ReachTarget \/ BuildRoute
  <2>1. Quiet BY <1>4, QuietSteps
  <2>2. UNCHANGED <<rcMode, rcPrefix>> /\ (PrefixMode' <=> PrefixMode)
    BY <1>4 DEF ReachTarget, BuildRoute, PrefixMode
  <2>3. \/ rcPc' = "error" /\ UNCHANGED rcDoc /\ rcPc \in {"loop", "build"}
        \/ rcPc = "loop" /\ rcPc' = "build" /\ UNCHANGED rcDoc /\ ~Overflowed
        \/ /\ rcPc = "loop" /\ rcPc' = "document" /\ ~Overflowed /\ AtTarget
           /\ rcDoc' = FrontierDocument(Current, rcTurn, FALSE)
        \/ /\ rcPc = "build" /\ rcPc' = "document" /\ rcDoc' = FrontierDocument(Current, rcTurn, TRUE)
           /\ ~PrefixMode => ScriptComplete
           /\ rcMode = "search_frontier" => StopRecorded
           /\ rcMode = "player_view" => Len(rcEvents) = rcDoc.events
    BY <1>4 DEF ReachTarget, BuildRoute
  <2>4. WorkerTyped' BY <2>1, <2>2, <2>3 DEF WorkerTyped, Quiet
  <2>5. InPlace'
    <3>1. PrefixMode /\ ~Overflowed => rcTurn <= TurnLimit
      BY WorkerAssumption DEF Overflowed, WorkerTyped
    <3> QED BY <2>1, <2>2, <2>3, <3>1, InPlaceQuiet DEF Replaying, InPlace
  <2>6. FrontierInv'
    <3>1. CASE rcPc' # "document" BY <2>1, <2>2, <2>3, <3>1, FrontierEnded
    <3>2. CASE rcPc' = "document"
      <4>1. /\ Len(rcEvents) \in Nat /\ Len(rcPrefix) \in Nat /\ Replaying
            /\ rcPc \in {"loop", "build"}
        BY <2>3, <3>2, ListLen DEF WorkerTyped, Replaying
      <4>2. ASSUME PrefixMode
            PROVE  Len(rcEvents) = Len(rcPrefix) \/ (Current.win /\ rcPrefix \in GivenPrefixes)
        <5>1. CASE AtTarget BY <5>1 DEF AtTarget
        <5>2. CASE rcMode = "search_frontier" /\ Current.win
          BY <4>1, <4>2, <5>2 DEF InPlace, FrontierInv, ExtendedPrefix, Current
        <5>3. CASE rcMode = "player_view" /\ Len(rcEvents) = rcDoc.events
          BY <5>3 DEF FrontierInv, Projected, Current
        <5> QED BY <2>3, <3>2, <4>2, <5>1, <5>2, <5>3 DEF PrefixMode, StopRecorded
      <4>3. PICK route : rcDoc' = FrontierDocument(Current, rcTurn, route) BY <2>3, <3>2
      <4> QED BY <2>1, <2>2, <3>2, <4>1, <4>2, <4>3, FrontierDocumented
    <3> QED BY <3>1, <3>2
  <2>7. PlansInv' BY <2>3, <2>1, <2>2, PlanQuiet DEF ScriptComplete, AtTarget
  <2> QED BY <2>1, <2>4, <2>5, <2>6, <2>7, CoordinateQuiet
<1>5. CASE ExtendPrefix
  <2>1. Quiet BY <1>5, QuietSteps
  <2>2. FrontierInv' /\ IsList(rcPrefix') BY <1>5, FrontierExtended
  <2>3. rcPc' = "idle" /\ rcMode' = rcMode /\ PrefixMode /\ (PrefixMode' <=> PrefixMode)
    BY <1>5 DEF ExtendPrefix, PrefixMode
  <2>4. WorkerTyped' BY <2>1, <2>2, <2>3 DEF WorkerTyped, Quiet
  <2>5. InPlace' BY <2>3 DEF InPlace, Replaying
  <2>6. PlansInv' BY <2>1, <2>3, PlanQuiet
  <2> QED BY <2>1, <2>2, <2>4, <2>5, <2>6, CoordinateQuiet
<1>6. CASE ProjectRoute
  <2>1. Quiet BY <1>6, QuietSteps
  <2>2. FrontierInv' BY <1>6, FrontierProjected
  <2>3. rcPc' = "idle" /\ rcPrefix' = rcPrefix /\ rcMode' = "player_view" /\ PrefixMode /\ PrefixMode'
    BY <1>6 DEF ProjectRoute, PrefixMode
  <2>4. WorkerTyped' BY <2>1, <2>3 DEF WorkerTyped, Quiet
  <2>5. InPlace' BY <2>3 DEF InPlace, Replaying
  <2>6. PlansInv' BY <2>1, <2>3, PlanQuiet
  <2> QED BY <2>1, <2>2, <2>4, <2>5, <2>6, CoordinateQuiet
<1> QED BY <1>1, <1>2, <1>3, <1>4, <1>5, <1>6 DEF RcNext

LEMMA WorkerFaithful == WorkerInv => RouteFaithful
<1> SUFFICES ASSUME WorkerInv PROVE RouteFaithful OBVIOUS
<1> USE DEF WorkerInv
<1>1. OffersStayInside
  <2>1. ASSUME rcPc = "document", PrefixMode, ~Current.win
        PROVE  rcDoc.actions = LifecycleActions(Current.kinds, rcTurn)
    BY <2>1 DEF FrontierInv, DocumentCurrent, FrontierDocument
  <2> QED BY <2>1 DEF OffersStayInside, LifecycleActions, FrontierInv
<1> QED BY <1>1 DEF RouteFaithful, FrontierInv, PlansInv, CoordinateInv

\* A document of the replay loop says what was replayed, for every core, script
\* and recorded prefix.
THEOREM FaithfulSafety == RcSpec => []RouteFaithful
<1>1. RcSpec => []WorkerInv BY WorkerStart, WorkerNext, PTL DEF RcSpec
<1> QED BY <1>1, WorkerFaithful, PTL

-----------------------------------------------------------------------------
(* The plan of parallel replays and the worker that retries them. *)

\* The length and the elements of a concatenation.
LEMMA Concatenated ==
  ASSUME NEW S, NEW s \in Seq(S), NEW r \in Seq(S)
  PROVE  /\ s \o r \in Seq(S) /\ Len(s \o r) = Len(s) + Len(r)
         /\ Len(s) \in Nat /\ Len(r) \in Nat
         /\ \A i \in 1..Len(s) : (s \o r)[i] = s[i]
         /\ \A i \in (Len(s) + 1)..(Len(s) + Len(r)) : (s \o r)[i] = r[i - Len(s)]
<1>1. s \o r \in Seq(S) /\ Len(s \o r) = Len(s) + Len(r) OBVIOUS
<1>2. \A i \in 1..Len(s) : (s \o r)[i] = s[i] OBVIOUS
<1>3. \A i \in (Len(s) + 1)..(Len(s) + Len(r)) : (s \o r)[i] = r[i - Len(s)] OBVIOUS
<1> QED BY <1>1, <1>2, <1>3

\* The recursive function behind a concatenation.
IsFlat(ss, n, f) == f = [i \in 0..n |-> IF i = 0 THEN <<>> ELSE f[i - 1] \o ss[i]]

\* The function exists for every length.
LEMMA FlatExists == ASSUME NEW ss, NEW n \in Nat PROVE \E f : IsFlat(ss, n, f)
<1> DEFINE ok(m) == \E f : IsFlat(ss, m, f)
           S == {m \in 0..n : ok(m)}
<1>1. ok(0)
  <2> DEFINE f == [i \in 0..0 |-> <<>>]
  <2>1. f = [i \in 0..0 |-> IF i = 0 THEN <<>> ELSE f[i - 1] \o ss[i]] OBVIOUS
  <2> QED BY <2>1 DEF IsFlat
<1>2. ASSUME NEW m \in 0..(n - 1), ok(m) PROVE ok(m + 1)
  <2>1. PICK f : f = [i \in 0..m |-> IF i = 0 THEN <<>> ELSE f[i - 1] \o ss[i]]
    BY <1>2 DEF IsFlat
  <2> DEFINE last == f[m] \o ss[m + 1]
             g == [i \in 0..(m + 1) |-> IF i = m + 1 THEN last ELSE f[i]]
  <2>2. \A i \in 0..m : f[i] = IF i = 0 THEN <<>> ELSE f[i - 1] \o ss[i] BY <2>1
  <2>3. ASSUME NEW i \in 0..(m + 1)
        PROVE  g[i] = IF i = 0 THEN <<>> ELSE g[i - 1] \o ss[i]
    <3>1. CASE i = m + 1
      <4>1. i - 1 = m /\ m # m + 1 /\ i # 0 /\ m \in 0..(m + 1) BY <3>1
      <4>2. g[i - 1] = f[m] BY <4>1
      <4> QED BY <3>1, <4>1, <4>2
    <3>2. CASE i # m + 1
      <4>1. i \in 0..m BY <3>2
      <4>2. i # 0 => i - 1 \in 0..m /\ i - 1 \in 0..(m + 1) /\ i - 1 # m + 1 BY <4>1
      <4>3. i # 0 => g[i - 1] = f[i - 1] BY <4>2
      <4>4. g[i] = f[i] BY <3>2
      <4> QED BY <2>2, <4>1, <4>3, <4>4
    <3> QED BY <3>1, <3>2
  <2>4. g = [i \in 0..(m + 1) |-> g[i]] OBVIOUS
  <2> HIDE DEF g
  <2>5. g = [i \in 0..(m + 1) |-> IF i = 0 THEN <<>> ELSE g[i - 1] \o ss[i]]
    BY <2>3, <2>4
  <2> QED BY <2>5 DEF IsFlat
<1> HIDE DEF ok
<1>3. \A m \in 0..n : m \in S
  <2>1. 0 \in S BY <1>1
  <2>2. \A m \in 0..(n - 1) : m \in S => m + 1 \in S BY <1>2
  <2> HIDE DEF S
  <2> QED BY <2>1, <2>2, Climbs
<1>4. ok(n) BY <1>3
<1> QED BY <1>4 DEF ok

(* The plan of parallel tasks. Its parts are stated of a record x, since the next state
   of the plan is one as well. *)
\* A result of an attempt, and the results a task hands over: one of each
\* attempt in their order, of which only the last may be final.
TaskResults == [task : Nat, attempt : Nat, status : AttemptStatuses, score : 0..1]

ResultList(i, s) ==
  /\ s \in Seq(TaskResults) /\ Len(s) <= PpRetries + 1
  /\ \A n \in 1..Len(s) : s[n].task = i /\ s[n].attempt = n - 1
  /\ \A n \in 1..Len(s) : n < Len(s) => s[n].status = "retryable"

TaskEnded(s) ==
  /\ Len(s) # 0
  /\ s[Len(s)].status # "retryable" \/ Len(s) = PpRetries + 1
  /\ s[Len(s)].status # "experiment"

\* rs holds every result of the tasks T once and nothing else.
Lists(runs, T, rs) ==
  /\ rs \in Seq(TaskResults)
  /\ \A j \in 1..Len(rs) :
       /\ rs[j].task \in T
       /\ \E n \in 1..Len(runs[rs[j].task].results) : rs[j] = runs[rs[j].task].results[n]
  /\ \A i \in T : \A n \in 1..Len(runs[i].results) :
       \E j \in 1..Len(rs) : rs[j] = runs[i].results[n]
  /\ \A j, h \in 1..Len(rs) :
       rs[j].task = rs[h].task /\ rs[j].attempt = rs[h].attempt => j = h

\* The aggregate is a function of the sets of results.
StatusIn(S) ==
  IF S = {} THEN "pending_initial"
  ELSE LET last == FinalIn(S) IN
       CASE last.status = "success" -> "success"
         [] last.status = "permanent" -> "failed_permanent"
         [] last.status = "retryable" /\ last.attempt < PpRetries -> "pending_retry"
         [] OTHER -> "failed_retry_exhausted"
SuccessesIn(h) == {i \in DOMAIN h : StatusIn(h[i]) = "success"}
DigestOf(h) ==
  [ok |-> TRUE, best |-> BestOf([i \in SuccessesIn(h) |-> FinalIn(h[i])]),
   outcomes |-> [i \in DOMAIN h |-> StatusIn(h[i])], history |-> h]

ResultSet(s) == {s[n] : n \in 1..Len(s)}
SetsOf(runs, N) == [i \in 1..N |-> ResultSet(runs[i].results)]

LEMMA AggregateIs ==
  ASSUME NEW rs, ~BadResults(rs)
  PROVE  Aggregate(rs) = DigestOf([i \in Tasks |-> ResultsOf(rs, i)])
<1> DEFINE h == [i \in Tasks |-> ResultsOf(rs, i)]
<1>1. \A i \in Tasks : h[i] = ResultsOf(rs, i) OBVIOUS
<1>2. DOMAIN h = Tasks OBVIOUS
<1> HIDE DEF h
<1>3. ASSUME NEW i \in Tasks
      PROVE  OutcomeStatus(rs, i) = StatusIn(h[i]) /\ FinalOf(rs, i) = FinalIn(h[i])
  BY <1>1 DEF OutcomeStatus, StatusIn, FinalOf
<1>4. Succeeded(rs) = SuccessesIn(h) /\ Succeeded(rs) \subseteq Tasks
  BY <1>2, <1>3 DEF Succeeded, SuccessesIn
<1>5. [i \in Succeeded(rs) |-> FinalOf(rs, i)] = [i \in SuccessesIn(h) |-> FinalIn(h[i])]
  BY <1>3, <1>4
<1>6. [i \in Tasks |-> OutcomeStatus(rs, i)] = [i \in DOMAIN h |-> StatusIn(h[i])]
  BY <1>3, <1>2
<1>7. [i \in Tasks |-> ResultsOf(rs, i)] = h BY DEF h
<1> QED BY <1>5, <1>6, <1>7 DEF Aggregate, DigestOf, BestTask

\* The last attempt of a list of results is its final one.
LEMMA FinalIsLast ==
  ASSUME NEW i, NEW s, ResultList(i, s), Len(s) # 0
  PROVE  FinalIn(ResultSet(s)) = s[Len(s)]
<1> DEFINE n == Len(s)
           P(r) == \A q \in ResultSet(s) : q.attempt <= r.attempt
<1>1. n \in Nat /\ n \in 1..n BY DEF ResultList
<1>2. \A m \in 1..n : s[m].attempt = m - 1 BY DEF ResultList
<1>3. s[n] \in ResultSet(s) /\ P(s[n]) BY <1>1, <1>2 DEF ResultSet
<1>4. ASSUME NEW r \in ResultSet(s), P(r) PROVE r = s[n]
  <2>1. PICK m \in 1..n : r = s[m] BY DEF ResultSet
  <2>2. s[n].attempt <= r.attempt BY <1>3, <1>4
  <2>3. n - 1 <= m - 1 BY <1>1, <1>2, <2>1, <2>2
  <2>4. n = m BY <1>1, <2>3
  <2> QED BY <2>1, <2>4
<1>5. FinalIn(ResultSet(s)) \in ResultSet(s) /\ P(FinalIn(ResultSet(s)))
  BY <1>3 DEF FinalIn
<1> QED BY <1>4, <1>5

\* What a task hands over has as many results as attempts.
LEMMA ListCounts ==
  ASSUME NEW i, NEW s, ResultList(i, s)
  PROVE  /\ IsFiniteSet(ResultSet(s)) /\ Cardinality(ResultSet(s)) = Len(s)
         /\ {r.attempt : r \in ResultSet(s)} = 0..(Len(s) - 1)
<1> DEFINE n == Len(s)
           b == [m \in 1..n |-> s[m]]
<1>1. n \in Nat /\ \A m \in 1..n : s[m].attempt = m - 1 BY DEF ResultList
<1>2. b \in Bijection(1..n, ResultSet(s))
  <2>1. b \in [1..n -> ResultSet(s)] /\ \A r \in ResultSet(s) : \E m \in 1..n : b[m] = r
    BY DEF ResultSet
  <2>2. \A x, y \in 1..n : b[x] = b[y] => x = y BY <1>1
  <2> HIDE DEF b, n
  <2> QED BY <2>1, <2>2 DEF Bijection, Injection, IsInjective, Surjection
<1>3. IsFiniteSet(1..n) /\ Cardinality(1..n) = n BY <1>1, FS_Interval
<1>4. IsFiniteSet(ResultSet(s)) /\ Cardinality(ResultSet(s)) = n
  <2> HIDE DEF b, n
  <2> QED BY <1>2, <1>3, FS_Bijection DEF ExistsBijection
<1>5. {r.attempt : r \in ResultSet(s)} = 0..(n - 1)
  <2>1. \A r \in ResultSet(s) : \E m \in 1..n : r = s[m] BY DEF ResultSet
  <2>2. \A r \in ResultSet(s) : r.attempt \in 0..(n - 1) BY <1>1, <2>1
  <2>3. ASSUME NEW a \in 0..(n - 1) PROVE \E r \in ResultSet(s) : r.attempt = a
    BY <1>1 DEF ResultSet
  <2> HIDE DEF n
  <2> QED BY <2>2, <2>3
<1> QED BY <1>4, <1>5

\* Runs that are over: every task has handed over an ended list of results.
AllEnded(runs, N) ==
  \A i \in 1..N : ResultList(i, runs[i].results) /\ TaskEnded(runs[i].results)

LEMMA ListedResults ==
  ASSUME NEW runs, NEW T, NEW rs, Lists(runs, T, rs), NEW i \in T,
         \A k \in T : ResultList(k, runs[k].results)
  PROVE  ResultsOf(rs, i) = ResultSet(runs[i].results)
<1>1. ASSUME NEW r \in ResultsOf(rs, i) PROVE r \in ResultSet(runs[i].results)
  <2>1. PICK j \in 1..Len(rs) : rs[j].task = i /\ r = rs[j] BY DEF ResultsOf
  <2>2. \E n \in 1..Len(runs[rs[j].task].results) : rs[j] = runs[rs[j].task].results[n]
    BY DEF Lists
  <2>3. \E n \in 1..Len(runs[i].results) : r = runs[i].results[n] BY <2>1, <2>2
  <2> QED BY <2>3 DEF ResultSet
<1>2. ASSUME NEW r \in ResultSet(runs[i].results) PROVE r \in ResultsOf(rs, i)
  <2>1. PICK n \in 1..Len(runs[i].results) : r = runs[i].results[n] BY DEF ResultSet
  <2>2. PICK j \in 1..Len(rs) : rs[j] = r BY <2>1 DEF Lists
  <2>3. r.task = i BY <2>1 DEF ResultList
  <2> QED BY <2>2, <2>3 DEF ResultsOf
<1> QED BY <1>1, <1>2

\* Whatever order the results of ended runs come in, the aggregate is the same.
LEMMA AggregateOfLists ==
  ASSUME NEW runs, AllEnded(runs, Len(ppPlan.tasks)), Len(ppPlan.tasks) \in Nat, NEW rs,
         Lists(runs, Tasks, rs), PpRetries \in Nat
  PROVE  /\ Aggregate(rs) = DigestOf(SetsOf(runs, Len(ppPlan.tasks)))
         /\ \A i \in Tasks : ResultsOf(rs, i) = ResultSet(runs[i].results)
<1>1. ASSUME NEW i \in Tasks
      PROVE  /\ ResultList(i, runs[i].results) /\ TaskEnded(runs[i].results)
             /\ ResultsOf(rs, i) = ResultSet(runs[i].results)
             /\ FinalOf(rs, i) = runs[i].results[Len(runs[i].results)]
  <2>1. \A k \in Tasks : ResultList(k, runs[k].results) /\ TaskEnded(runs[k].results)
    BY DEF AllEnded, Tasks
  <2>2. ResultsOf(rs, i) = ResultSet(runs[i].results) BY <2>1, ListedResults
  <2>3. Len(runs[i].results) # 0 BY <2>1 DEF TaskEnded
  <2>4. FinalIn(ResultSet(runs[i].results)) = runs[i].results[Len(runs[i].results)]
    BY <2>1, <2>3, FinalIsLast
  <2> QED BY <2>1, <2>2, <2>4 DEF FinalOf
<1>2. ASSUME NEW j \in 1..Len(rs)
      PROVE  rs[j].status # "experiment" /\ ~ (rs[j].attempt > PpRetries)
  <2>1. PICK i \in Tasks : rs[j].task = i /\ \E n \in 1..Len(runs[i].results) : rs[j] = runs[i].results[n]
    BY DEF Lists
  <2> DEFINE s == runs[i].results
  <2>2. ResultList(i, s) /\ TaskEnded(s) BY <1>1
  <2>3. PICK n \in 1..Len(s) : rs[j] = s[n] BY <2>1
  <2> HIDE DEF s
  <2>4. Len(s) \in Nat /\ s[n].attempt = n - 1 /\ Len(s) <= PpRetries + 1
    BY <2>2 DEF ResultList
  <2>5. n < Len(s) => s[n].status = "retryable" BY <2>2 DEF ResultList
  <2>6. s[n].status # "experiment" BY <2>2, <2>4, <2>5 DEF TaskEnded
  <2> QED BY <2>3, <2>4, <2>6
<1>3. ~ \E j, h \in 1..Len(rs) :
          j # h /\ rs[j].task = rs[h].task /\ rs[j].attempt = rs[h].attempt
  BY DEF Lists
<1>4. ASSUME NEW i \in Tasks
      PROVE  /\ AttemptsOf(rs, i) = 0..(Cardinality(ResultsOf(rs, i)) - 1)
             /\ \A r \in ResultsOf(rs, i) : r # FinalOf(rs, i) => r.status = "retryable"
  <2> DEFINE s == runs[i].results
  <2>1. ResultList(i, s) /\ ResultsOf(rs, i) = ResultSet(s) /\ FinalOf(rs, i) = s[Len(s)]
    BY <1>1
  <2>2. AttemptsOf(rs, i) = 0..(Cardinality(ResultsOf(rs, i)) - 1)
    <3> HIDE DEF s
    <3> QED BY <2>1, ListCounts DEF AttemptsOf
  <2>3. ASSUME NEW r \in ResultsOf(rs, i), r # FinalOf(rs, i) PROVE r.status = "retryable"
    <3>1. PICK n \in 1..Len(s) : r = s[n] BY <2>1 DEF ResultSet
    <3> HIDE DEF s
    <3>2. Len(s) \in Nat /\ n # Len(s) BY <2>1, <2>3, <3>1 DEF ResultList
    <3>3. n < Len(s) BY <3>2
    <3> QED BY <2>1, <3>1, <3>3 DEF ResultList
  <2> QED BY <2>2, <2>3
<1>5. ~BadResults(rs) BY <1>2, <1>3, <1>4 DEF BadResults
<1>6. [i \in Tasks |-> ResultsOf(rs, i)] = SetsOf(runs, Len(ppPlan.tasks))
  BY <1>1 DEF SetsOf, Tasks
<1> QED BY <1>1, <1>5, <1>6, AggregateIs

\* Two results that change places are still listed.
LEMMA SwappedLists ==
  ASSUME NEW runs, NEW T, NEW rs, Lists(runs, T, rs),
         NEW j \in 1..Len(rs), NEW h \in 1..Len(rs), j < h
  PROVE  Lists(runs, T, Swapped(rs, j, h))
<1> DEFINE other(k) == IF k = j THEN h ELSE IF k = h THEN j ELSE k
           sw == Swapped(rs, j, h)
<1>1. rs \in Seq(TaskResults) /\ Len(rs) \in Nat BY DEF Lists
<1>2. rs[j] \in TaskResults /\ rs[h] \in TaskResults BY <1>1, ElementOfSeq
<1>3. sw \in Seq(TaskResults) /\ Len(sw) = Len(rs)
      /\ \A k \in 1..Len(rs) : sw[k] = IF k = h THEN rs[j] ELSE IF k = j THEN rs[h] ELSE rs[k]
  <2> DEFINE one == [rs EXCEPT ![j] = rs[h]]
  <2>1. one \in Seq(TaskResults) /\ Len(one) = Len(rs)
        /\ \A k \in 1..Len(rs) : one[k] = IF k = j THEN rs[h] ELSE rs[k]
    BY <1>1, <1>2, ExceptSeq
  <2>2. sw = [one EXCEPT ![h] = rs[j]] BY DEF Swapped
  <2> HIDE DEF one, sw
  <2>3. sw \in Seq(TaskResults) /\ Len(sw) = Len(one)
        /\ \A k \in 1..Len(one) : sw[k] = IF k = h THEN rs[j] ELSE one[k]
    BY <1>2, <2>1, <2>2, ExceptSeq
  <2> QED BY <2>1, <2>3
<1>4. \A k \in 1..Len(rs) : other(k) \in 1..Len(rs) /\ other(other(k)) = k /\ sw[k] = rs[other(k)]
  BY <1>1, <1>3
<1>7. \A k, m \in 1..Len(rs) : other(k) = other(m) => k = m BY <1>4
<1> HIDE DEF other, sw
<1>5. ASSUME NEW k \in 1..Len(sw)
      PROVE  /\ sw[k].task \in T
             /\ \E n \in 1..Len(runs[sw[k].task].results) : sw[k] = runs[sw[k].task].results[n]
  <2>1. other(k) \in 1..Len(rs) /\ sw[k] = rs[other(k)] BY <1>3, <1>4
  <2>2. \A m \in 1..Len(rs) :
          /\ rs[m].task \in T
          /\ \E n \in 1..Len(runs[rs[m].task].results) : rs[m] = runs[rs[m].task].results[n]
    BY DEF Lists
  <2> QED BY <2>1, <2>2
<1>6. ASSUME NEW i \in T, NEW n \in 1..Len(runs[i].results)
      PROVE  \E k \in 1..Len(sw) : sw[k] = runs[i].results[n]
  <2>1. PICK k \in 1..Len(rs) : rs[k] = runs[i].results[n] BY DEF Lists
  <2>2. other(k) \in 1..Len(sw) /\ sw[other(k)] = rs[k] BY <1>3, <1>4
  <2> QED BY <2>1, <2>2
<1>8. ASSUME NEW k \in 1..Len(sw), NEW m \in 1..Len(sw),
             sw[k].task = sw[m].task, sw[k].attempt = sw[m].attempt
      PROVE  k = m
  <2>1. /\ other(k) \in 1..Len(rs) /\ sw[k] = rs[other(k)]
        /\ other(m) \in 1..Len(rs) /\ sw[m] = rs[other(m)] BY <1>3, <1>4
  <2>2. \A a, b \in 1..Len(rs) :
          rs[a].task = rs[b].task /\ rs[a].attempt = rs[b].attempt => a = b
    BY DEF Lists
  <2>3. other(k) = other(m) BY <1>8, <2>1, <2>2
  <2> QED BY <1>3, <1>7, <2>3
<1> QED BY <1>3, <1>5, <1>6, <1>8 DEF Lists, sw

\* The results of one more task at the end.
LEMMA ListsAdd ==
  ASSUME NEW runs, NEW T, NEW rs, Lists(runs, T, rs), NEW i, i \notin T,
         ResultList(i, runs[i].results)
  PROVE  Lists(runs, T \cup {i}, rs \o runs[i].results)
<1> DEFINE s == runs[i].results
           c == rs \o s
           l == Len(rs)
           m == Len(s)
<1>1. rs \in Seq(TaskResults) /\ s \in Seq(TaskResults)
      /\ \A n \in 1..m : s[n].task = i /\ s[n].attempt = n - 1 BY DEF Lists, ResultList
<1>2. /\ c \in Seq(TaskResults) /\ Len(c) = l + m /\ l \in Nat /\ m \in Nat
      /\ \A h \in 1..l : c[h] = rs[h]
      /\ \A h \in (l + 1)..(l + m) : c[h] = s[h - l]
  <2> HIDE DEF s
  <2> QED BY <1>1, Concatenated
<1>3. /\ \A j \in 1..l :
           /\ rs[j].task \in T
           /\ \E n \in 1..Len(runs[rs[j].task].results) : rs[j] = runs[rs[j].task].results[n]
      /\ \A k \in T : \A n \in 1..Len(runs[k].results) :
           \E j \in 1..l : rs[j] = runs[k].results[n]
      /\ \A j, h \in 1..l :
           rs[j].task = rs[h].task /\ rs[j].attempt = rs[h].attempt => j = h
  BY DEF Lists
<1>4. s = runs[i].results OBVIOUS
<1> HIDE DEF s, c, l, m
<1>5. ASSUME NEW j \in 1..Len(c), j > l
      PROVE  j - l \in 1..m /\ c[j] = s[j - l] /\ c[j].task = i /\ c[j].attempt = j - l - 1
  BY <1>2, <1>5, <1>1 DEF m
<1>6. ASSUME NEW j \in 1..Len(c), ~ (j > l)
      PROVE  j \in 1..l /\ c[j] = rs[j] BY <1>2, <1>6
<1>7. ASSUME NEW j \in 1..Len(c)
      PROVE  /\ c[j].task \in T \cup {i}
             /\ \E n \in 1..Len(runs[c[j].task].results) : c[j] = runs[c[j].task].results[n]
  <2>1. CASE j > l BY <1>4, <1>5, <2>1 DEF m
  <2>2. CASE ~ (j > l) BY <1>3, <1>6, <2>2
  <2> QED BY <2>1, <2>2
<1>8. ASSUME NEW k \in T \cup {i}, NEW n \in 1..Len(runs[k].results)
      PROVE  \E j \in 1..Len(c) : c[j] = runs[k].results[n]
  <2>1. CASE k \in T BY <1>3, <1>2, <2>1
  <2>2. CASE k = i
    <3>1. n \in 1..m /\ runs[k].results[n] = s[n] BY <1>4, <2>2 DEF m
    <3>2. n + l \in (l + 1)..(l + m) /\ n + l \in 1..Len(c) /\ (n + l) - l = n
      BY <1>2, <3>1
    <3>3. c[n + l] = s[n] BY <1>2, <3>2
    <3> QED BY <3>1, <3>2, <3>3
  <2> QED BY <2>1, <2>2
<1>9. ASSUME NEW j \in 1..Len(c), NEW h \in 1..Len(c),
             c[j].task = c[h].task, c[j].attempt = c[h].attempt
      PROVE  j = h
  <2>1. CASE j > l /\ h > l BY <1>2, <1>5, <1>9, <2>1
  <2>2. CASE ~ (j > l) /\ ~ (h > l) BY <1>3, <1>6, <1>9, <2>2
  <2>3. CASE j > l /\ ~ (h > l) BY <1>3, <1>5, <1>6, <1>9, <2>3
  <2>4. CASE ~ (j > l) /\ h > l BY <1>3, <1>5, <1>6, <1>9, <2>4
  <2> QED BY <2>1, <2>2, <2>3, <2>4
<1> QED BY <1>2, <1>7, <1>8, <1>9 DEF Lists, c, s

\* The recursive function behind Concat.
IsConcat(runs, order, n, f) ==
  f = [i \in 0..n |-> IF i = 0 THEN <<>> ELSE f[i - 1] \o runs[order[i]].results]

\* The results of the tasks of an order that repeats none list the tasks of it.
LEMMA ConcatLists ==
  ASSUME NEW order, Len(order) \in Nat,
         \A k \in 1..Len(order) : ResultList(order[k], ppPlan.runs[order[k]].results),
         \A k, m \in 1..Len(order) : order[k] = order[m] => k = m,
         NEW T, \A i : i \in T <=> \E k \in 1..Len(order) : order[k] = i
  PROVE  Lists(ppPlan.runs, T, Concat(order))
<1> DEFINE n == Len(order)
           runs == ppPlan.runs
           head(m) == {order[k] : k \in 1..m}
<1>1. Concat(order) = (CHOOSE f : IsConcat(ppPlan.runs, order, Len(order), f))[n]
  BY Zenon DEF Concat, IsConcat
<1>2. PICK g : g = CHOOSE f : IsConcat(ppPlan.runs, order, Len(order), f) OBVIOUS
<1> HIDE DEF n, runs
<1>3. \E f : IsConcat(ppPlan.runs, order, Len(order), f)
  <2> DEFINE ss == [i \in 1..n |-> runs[order[i]].results]
  <2>1. PICK f : IsFlat(ss, n, f)
    <3> HIDE DEF ss
    <3> QED BY FlatExists DEF n
  <2>2. \A i \in 0..n : i # 0 => ss[i] = runs[order[i]].results BY DEF n
  <2> HIDE DEF ss
  <2>3. IsConcat(runs, order, n, f) BY <2>1, <2>2 DEF IsFlat, IsConcat
  <2> QED BY <2>3 DEF n, runs
<1>4. IsConcat(runs, order, n, g) BY <1>2, <1>3, Zenon DEF n, runs
<1>5. g[0] = <<>> /\ \A m \in 0..(n - 1) : g[m + 1] = g[m] \o runs[order[m + 1]].results
  <2>1. 0 \in 0..n /\ \A m \in 0..(n - 1) : m + 1 \in 0..n /\ m + 1 # 0 /\ (m + 1) - 1 = m
    BY DEF n
  <2> QED BY <1>4, <2>1 DEF IsConcat
<1>6. /\ n \in Nat /\ \A k \in 1..n : ResultList(order[k], runs[order[k]].results)
      /\ \A k, m \in 1..n : order[k] = order[m] => k = m BY DEF n, runs
<1> DEFINE S == {m \in 0..n : Lists(runs, head(m), g[m])}
<1>7. 0 \in S
  <2>1. head(0) = {} OBVIOUS
  <2>2. Lists(runs, {}, <<>>) BY DEF Lists
  <2>3. 0 \in 0..n BY <1>6
  <2> HIDE DEF head
  <2>4. Lists(runs, head(0), g[0]) BY <1>5, <2>1, <2>2
  <2> QED BY <2>3, <2>4
<1>8. ASSUME NEW m \in 0..(n - 1), m \in S PROVE m + 1 \in S
  <2>1. m + 1 \in 1..n /\ m + 1 \in 0..n /\ \A k \in 1..m : k \in 1..n /\ k # m + 1
    BY <1>6
  <2>2. order[m + 1] \notin head(m) BY <1>6, <2>1
  <2>3. head(m + 1) = head(m) \cup {order[m + 1]} OBVIOUS
  <2> HIDE DEF head
  <2>4. Lists(runs, head(m), g[m]) BY <1>8
  <2>5. ResultList(order[m + 1], runs[order[m + 1]].results) BY <1>6, <2>1
  <2>6. Lists(runs, head(m) \cup {order[m + 1]}, g[m] \o runs[order[m + 1]].results)
    BY <2>2, <2>4, <2>5, ListsAdd
  <2>7. Lists(runs, head(m + 1), g[m + 1]) BY <1>5, <2>3, <2>6
  <2> QED BY <2>1, <2>7
<1>9. \A m \in 0..n : m \in S
  <2> HIDE DEF S
  <2> QED BY <1>6, <1>7, <1>8, Climbs
<1>10. Lists(runs, head(n), g[n])
  <2>1. n \in 0..n BY <1>6
  <2> HIDE DEF head
  <2> QED BY <1>9, <2>1
<1>11. head(n) = T BY DEF n
<1>12. Concat(order) = g[n] BY <1>1, <1>2
<1> QED BY <1>10, <1>11, <1>12 DEF runs

\* The parts of a plan, of a record x as of the variable.
Forced(x, i, n) == x.run > Len(PpPools) /\ (n = 0 \/ (n = 1 /\ i = Len(x.tasks)))
RunningOf(x) == {i \in 1..Len(x.tasks) : x.runs[i].pc = "running"}
PoolOf(x) == IF x.run > Len(PpPools) THEN FailurePool ELSE PpPools[x.run]

PlanShape(x) ==
  /\ DOMAIN x = {"pc", "tasks", "runs", "completed", "aggregate", "run", "answers",
                 "baseline", "failed"}
  /\ x.pc \in {"rejected", "running", "aborted", "aggregated", "verified", "refuted"}
  /\ Len(x.tasks) \in Nat /\ x.run \in Nat \ {0}
  /\ 1..Len(x.tasks) \subseteq DOMAIN x.runs

\* A task under way failed so far; one that finished had its last attempt.
\* Forced attempts fail; a later run of the pools repeats the first one's answers.
RunOK(x, i) ==
  LET k == x.runs[i]
      s == k.results
  IN /\ k.pc \in {"queued", "running", "finished"} /\ DOMAIN k = {"pc", "results"}
     /\ ResultList(i, s)
     /\ k.pc # "finished" =>
          Len(s) <= PpRetries /\ \A n \in 1..Len(s) : s[n].status = "retryable"
     /\ k.pc = "finished" =>
          Len(s) # 0 /\ (s[Len(s)].status # "retryable" \/ Len(s) = PpRetries + 1)
     /\ \A n \in 1..Len(s) : Forced(x, i, n - 1) => s[n].status = "retryable"
     /\ x.run \in 2..Len(PpPools) =>
          Len(s) <= Len(x.answers[i]) /\ \A n \in 1..Len(s) : s[n] = x.answers[i][n]

CompletedOK(x) ==
  /\ x.completed \in Seq(1..Len(x.tasks))
  /\ \A j, k \in 1..Len(x.completed) : x.completed[j] = x.completed[k] => j = k
  /\ \A j \in 1..Len(x.completed) :
       /\ x.runs[x.completed[j]].pc = "finished"
       /\ TaskEnded(x.runs[x.completed[j]].results)

RunAnswers(x) ==
  x.run \in 2..Len(PpPools) =>
    /\ \A i \in 1..Len(x.tasks) : ResultList(i, x.answers[i]) /\ TaskEnded(x.answers[i])
    /\ x.baseline = DigestOf([i \in 1..Len(x.tasks) |-> ResultSet(x.answers[i])])

AggregateOK(x) ==
  x.pc \in {"aggregated", "verified", "refuted"} =>
    /\ Len(x.completed) = Len(x.tasks)
    /\ x.aggregate = DigestOf(SetsOf(x.runs, Len(x.tasks)))

\* The checks that can fail, and what the verdict says.
VerdictOK(x) ==
  LET N == Len(x.tasks) IN
  /\ "semantic" \notin x.failed
  /\ x.pc \notin {"verified", "refuted"} => x.failed \subseteq {"single_flight"}
  /\ x.pc = "verified" =>
       \A i \in 1..N : x.aggregate.outcomes[i] = "success" <=> i # N
  /\ x.pc = "refuted" =>
       \/ "single_flight" \in x.failed
       \/ \E i \in 1..N : \E n \in 1..Len(x.runs[i].results) :
            ~Forced(x, i, n - 1) /\ x.runs[i].results[n].status # "success"

PlanInv(x) ==
  /\ PlanShape(x)
  /\ \A i \in 1..Len(x.tasks) : RunOK(x, i)
  /\ CompletedOK(x) /\ RunAnswers(x) /\ AggregateOK(x) /\ VerdictOK(x)
  /\ Cardinality(RunningOf(x)) <= PoolOf(x)

\* What a list of results that ended says of its task.
LEMMA EndedStatus ==
  ASSUME NEW i, NEW s, ResultList(i, s), TaskEnded(s), PpRetries \in Nat
  PROVE  /\ StatusIn(ResultSet(s)) \in {"success", "failed_permanent", "failed_retry_exhausted"}
         /\ StatusIn(ResultSet(s)) = "success" <=> s[Len(s)].status = "success"
         /\ StatusIn(ResultSet(s)) = "failed_retry_exhausted" <=> s[Len(s)].status = "retryable"
         /\ \A n \in 1..Len(s) : s[n].status # "experiment"
<1> DEFINE n == Len(s)
           last == s[n]
<1>1. n \in Nat /\ n \in 1..n /\ last \in TaskResults
  BY ElementOfSeq DEF ResultList, TaskEnded
<1>2. FinalIn(ResultSet(s)) = last BY FinalIsLast DEF TaskEnded
<1>3. ResultSet(s) # {} BY <1>1 DEF ResultSet
<1>4. last.attempt = n - 1 /\ last.status \in AttemptStatuses /\ last.status # "experiment"
      /\ (last.status = "retryable" => n = PpRetries + 1)
  BY <1>1 DEF TaskResults, ResultList, TaskEnded
<1>5. \A m \in 1..n : s[m].status # "experiment"
  <2> SUFFICES ASSUME NEW m \in 1..n PROVE s[m].status # "experiment" OBVIOUS
  <2>1. CASE m = n BY <1>4, <2>1
  <2>2. CASE m # n BY <1>1, <2>2 DEF ResultList
  <2> QED BY <2>1, <2>2
<1>6. StatusIn(ResultSet(s)) =
        CASE last.status = "success" -> "success"
          [] last.status = "permanent" -> "failed_permanent"
          [] last.status = "retryable" /\ last.attempt < PpRetries -> "pending_retry"
          [] OTHER -> "failed_retry_exhausted" BY <1>2, <1>3 DEF StatusIn
<1> HIDE DEF last
<1>7. CASE last.status = "success" BY <1>5, <1>6, <1>7 DEF last
<1>8. CASE last.status = "permanent" BY <1>5, <1>6, <1>8 DEF last
<1>9. CASE last.status = "retryable" BY <1>1, <1>4, <1>9, <1>5, <1>6 DEF last
<1> QED BY <1>4, <1>7, <1>8, <1>9 DEF AttemptStatuses

\* When as many tasks are completed as there are, all of them are over.
LEMMA AllCompleted ==
  ASSUME NEW x, PlanShape(x), \A i \in 1..Len(x.tasks) : RunOK(x, i), CompletedOK(x),
         Len(x.completed) = Len(x.tasks)
  PROVE  /\ \A i \in 1..Len(x.tasks) : \E j \in 1..Len(x.completed) : x.completed[j] = i
         /\ AllEnded(x.runs, Len(x.tasks))
<1> DEFINE N == Len(x.tasks)
           c == x.completed
           b == [j \in 1..N |-> c[j]]
<1>1. N \in Nat /\ c \in Seq(1..N) /\ Len(c) = N
      /\ \A j, k \in 1..N : c[j] = c[k] => j = k BY DEF PlanShape, CompletedOK
<1>2. \A j \in 1..N : c[j] \in 1..N BY <1>1, ElementOfSeq
<1>3. IsFiniteSet(1..N) /\ Cardinality(1..N) = N BY <1>1, FS_Interval
<1>4. \A i \in 1..N : \E j \in 1..N : c[j] = i
  <2> DEFINE R == {c[j] : j \in 1..N}
  <2>1. b \in Bijection(1..N, R)
    <3>1. b \in [1..N -> R] /\ (\A r \in R : \E j \in 1..N : b[j] = r)
          /\ \A j, k \in 1..N : b[j] = b[k] => j = k BY <1>1
    <3> HIDE DEF b, R, N
    <3> QED BY <3>1 DEF Bijection, Injection, IsInjective, Surjection
  <2>2. Cardinality(R) = N /\ R \subseteq 1..N
    <3>1. R \subseteq 1..N BY <1>2
    <3> HIDE DEF b, R, N
    <3> QED BY <1>3, <2>1, <3>1, FS_Bijection DEF ExistsBijection
  <2>3. R = 1..N
    <3> HIDE DEF R, N
    <3> QED BY <1>3, <2>2, FS_Subset
  <2> QED BY <2>3
<1>5. ASSUME NEW i \in 1..N PROVE ResultList(i, x.runs[i].results) /\ TaskEnded(x.runs[i].results)
  BY <1>4, <1>1 DEF CompletedOK, RunOK
<1> QED BY <1>1, <1>4, <1>5 DEF AllEnded

\* A run that is over and repeats the answers has all of them.
LEMMA SameAnswers ==
  ASSUME NEW i, NEW s, NEW a, ResultList(i, s), TaskEnded(s), ResultList(i, a), TaskEnded(a),
         Len(s) <= Len(a), \A n \in 1..Len(s) : s[n] = a[n], PpRetries \in Nat
  PROVE  s = a
<1>1. s \in Seq(TaskResults) /\ a \in Seq(TaskResults) /\ Len(s) \in Nat /\ Len(a) \in Nat
  BY DEF ResultList
<1>2. Len(s) = Len(a)
  <2> SUFFICES ASSUME Len(s) < Len(a) PROVE FALSE BY <1>1
  <2>1. Len(s) \in 1..Len(s) /\ Len(s) \in 1..Len(a) BY <1>1 DEF TaskEnded
  <2>2. s[Len(s)].status = "retryable" BY <2>1 DEF ResultList
  <2>3. Len(s) = PpRetries + 1 BY <2>2 DEF TaskEnded
  <2> QED BY <1>1, <2>3 DEF ResultList
<1> QED BY <1>1, <1>2

\* What a task has done is right in a plan that agrees about it.
LEMMA RunSame ==
  ASSUME NEW x, NEW y, NEW i, RunOK(x, i), y.runs[i] = x.runs[i], y.tasks = x.tasks,
         y.run = x.run, y.answers = x.answers
  PROVE  RunOK(y, i)
<1>1. \A n : Forced(y, i, n) <=> Forced(x, i, n) BY DEF Forced
<1> DEFINE s == x.runs[i].results
<1>2. \A n \in 1..Len(s) : Forced(y, i, n - 1) => s[n].status = "retryable"
  <2> SUFFICES ASSUME NEW n \in 1..Len(s), Forced(y, i, n - 1) PROVE s[n].status = "retryable"
    OBVIOUS
  <2>1. Forced(x, i, n - 1) BY <1>1
  <2> QED BY <2>1 DEF RunOK
<1> QED BY <1>2 DEF RunOK

\* The tasks under way can be counted.
LEMMA RunningCounted ==
  ASSUME NEW x, PlanShape(x)
  PROVE  IsFiniteSet(RunningOf(x)) /\ Cardinality(RunningOf(x)) \in Nat
<1>1. IsFiniteSet(1..Len(x.tasks)) BY FS_Interval DEF PlanShape
<1>2. RunningOf(x) \subseteq 1..Len(x.tasks) BY DEF RunningOf
<1> QED BY <1>1, <1>2, FS_Subset, FS_CardinalityType

\* A run of a plan that goes on moves on, and nothing else changes.
LEMMA RunMoves ==
  ASSUME NEW x, PlanInv(x), x.pc \notin {"aggregated", "verified", "refuted"},
         NEW i \in 1..Len(x.tasks), x.runs[i].pc # "finished",
         NEW k, NEW y, y = [x EXCEPT !.runs[i] = k], RunOK(y, i),
         Cardinality(RunningOf(y)) <= PoolOf(x)
  PROVE  PlanInv(y)
<1>1. /\ y.pc = x.pc /\ y.tasks = x.tasks /\ y.completed = x.completed
      /\ y.aggregate = x.aggregate /\ y.run = x.run /\ y.answers = x.answers
      /\ y.baseline = x.baseline /\ y.failed = x.failed /\ DOMAIN y = DOMAIN x
      /\ DOMAIN y.runs = DOMAIN x.runs /\ y.runs[i] = k
      /\ \A j \in 1..Len(x.tasks) : j # i => y.runs[j] = x.runs[j]
  BY DEF PlanInv, PlanShape
<1>2. PlanShape(y) BY <1>1 DEF PlanInv, PlanShape
<1>3. \A j \in 1..Len(y.tasks) : RunOK(y, j)
  <2> SUFFICES ASSUME NEW j \in 1..Len(x.tasks), j # i PROVE RunOK(y, j) BY <1>1
  <2>1. RunOK(x, j) /\ y.runs[j] = x.runs[j] BY <1>1 DEF PlanInv
  <2> QED BY <1>1, <2>1, RunSame, ZenonT(40)
<1>4. CompletedOK(y)
  <2>1. CompletedOK(x) BY DEF PlanInv
  <2>2. ASSUME NEW j \in 1..Len(x.completed)
        PROVE  y.runs[x.completed[j]] = x.runs[x.completed[j]]
    BY <1>1, <2>1, ElementOfSeq DEF CompletedOK
  <2> QED BY <1>1, <2>1, <2>2 DEF CompletedOK
<1>5. RunAnswers(y) BY <1>1 DEF PlanInv, RunAnswers
<1>6. AggregateOK(y) BY <1>1 DEF AggregateOK
<1>7. VerdictOK(y) BY <1>1 DEF PlanInv, VerdictOK
<1>8. PoolOf(y) = PoolOf(x) BY <1>1 DEF PoolOf
<1> QED BY <1>2, <1>3, <1>4, <1>5, <1>6, <1>7, <1>8 DEF PlanInv

\* A task starts on an idle thread.
LEMMA StartKeepsPlan ==
  ASSUME NEW x, PlanInv(x), x.pc = "running",
         NEW i \in 1..Len(x.tasks), x.runs[i].pc = "queued",
         Cardinality(RunningOf(x)) < PoolOf(x), PoolOf(x) \in Nat,
         NEW y, y = [x EXCEPT !.runs[i].pc = "running"]
  PROVE  PlanInv(y)
<1> DEFINE k == [x.runs[i] EXCEPT !.pc = "running"]
<1>1. RunOK(x, i) BY DEF PlanInv
<1>2. k.pc = "running" /\ k.results = x.runs[i].results /\ DOMAIN k = {"pc", "results"}
  BY <1>1 DEF RunOK
<1>3. y = [x EXCEPT !.runs[i] = k] BY DEF PlanInv, PlanShape
<1> HIDE DEF k
<1>4. /\ y.runs[i] = k /\ y.tasks = x.tasks /\ y.run = x.run /\ y.answers = x.answers
      /\ \A j \in 1..Len(x.tasks) : j # i => y.runs[j] = x.runs[j]
  BY <1>3 DEF PlanInv, PlanShape
<1>5. RunOK(y, i) BY <1>4, <1>1, <1>2 DEF Forced, RunOK
<1>6. Cardinality(RunningOf(y)) <= PoolOf(x)
  <2>1. RunningOf(y) = RunningOf(x) \cup {i} BY <1>2, <1>4 DEF RunningOf
  <2>2. IsFiniteSet(RunningOf(x)) /\ Cardinality(RunningOf(x)) \in Nat
    BY RunningCounted DEF PlanInv
  <2>3. i \notin RunningOf(x) BY DEF RunningOf
  <2>4. Cardinality(RunningOf(y)) = Cardinality(RunningOf(x)) + 1
    BY <2>1, <2>2, <2>3, FS_AddElement
  <2> QED BY <2>2, <2>4
<1> QED BY <1>3, <1>5, <1>6, RunMoves

\* An attempt of a task ends.
LEMMA AttemptKeepsPlan ==
  ASSUME NEW x, PlanInv(x), x.pc \notin {"aggregated", "verified", "refuted"},
         PpRetries \in Nat, PoolOf(x) \in Nat,
         NEW i \in 1..Len(x.tasks), x.runs[i].pc = "running",
         NEW status \in AttemptStatuses, NEW score \in 0..1,
         NEW n, n = Len(x.runs[i].results),
         NEW r, r = [task |-> i, attempt |-> n, status |-> status, score |-> score],
         Forced(x, i, n) => status = "retryable",
         x.run \in 2..Len(PpPools) => r = x.answers[i][n + 1],
         NEW k, k = [pc |-> IF status = "retryable" /\ n < PpRetries THEN "running" ELSE "finished",
                     results |-> Append(x.runs[i].results, r)],
         NEW y, y = [x EXCEPT !.runs[i] = k]
  PROVE  PlanInv(y)
<1> DEFINE s == x.runs[i].results
           t == k.results
<1>1. RunOK(x, i) BY DEF PlanInv
<1>2. /\ s \in Seq(TaskResults) /\ n \in Nat /\ n = Len(s) /\ n <= PpRetries
      /\ \A m \in 1..n : s[m].task = i /\ s[m].attempt = m - 1 /\ s[m].status = "retryable"
      /\ \A m \in 1..n : Forced(x, i, m - 1) => s[m].status = "retryable"
      /\ x.run \in 2..Len(PpPools) =>
           n <= Len(x.answers[i]) /\ \A m \in 1..n : s[m] = x.answers[i][m]
  <2>1. s \in Seq(TaskResults) /\ n = Len(s)
        /\ \A m \in 1..n : s[m].task = i /\ s[m].attempt = m - 1
    BY <1>1 DEF RunOK, ResultList
  <2>2. n <= PpRetries /\ \A m \in 1..n : s[m].status = "retryable" BY <1>1 DEF RunOK
  <2>3. x.run \in 2..Len(PpPools) =>
           n <= Len(x.answers[i]) /\ \A m \in 1..n : s[m] = x.answers[i][m]
    BY <1>1 DEF RunOK
  <2> HIDE DEF s
  <2>4. n \in Nat BY <2>1
  <2> QED BY <2>1, <2>2, <2>3, <2>4
<1>3. r \in TaskResults /\ r.task = i /\ r.attempt = n /\ r.status = status
  BY <1>2 DEF TaskResults, PlanInv, PlanShape
<1>4. /\ t \in Seq(TaskResults) /\ Len(t) = n + 1
      /\ \A m \in 1..(n + 1) : t[m] = IF m = n + 1 THEN r ELSE s[m]
  <2>1. t = Append(s, r) OBVIOUS
  <2>2. s \in Seq(TaskResults) /\ r \in TaskResults /\ n = Len(s) BY <1>2, <1>3
  <2> HIDE DEF s, t
  <2> QED BY <2>1, <2>2, AppendProperties
<1>5. k.pc = (IF status = "retryable" /\ n < PpRetries THEN "running" ELSE "finished")
      /\ DOMAIN k = {"pc", "results"} OBVIOUS
<1>6. /\ y.runs[i] = k /\ y.tasks = x.tasks /\ y.run = x.run /\ y.answers = x.answers
      /\ \A j \in 1..Len(x.tasks) : j # i => y.runs[j] = x.runs[j]
  BY DEF PlanInv, PlanShape
<1>7. \A m : Forced(y, i, m) <=> Forced(x, i, m) BY <1>6 DEF Forced
<1> HIDE DEF s, t
<1>8. ResultList(i, t)
  <2>1. ASSUME NEW m \in 1..(n + 1)
        PROVE  t[m].task = i /\ t[m].attempt = m - 1 /\ (m < n + 1 => t[m].status = "retryable")
    <3>1. CASE m = n + 1 BY <1>2, <1>3, <1>4, <3>1
    <3>2. CASE m # n + 1 BY <1>2, <1>4, <3>2
    <3> QED BY <3>1, <3>2
  <2> QED BY <1>2, <1>4, <2>1 DEF ResultList
<1>9. k.pc # "finished" => Len(t) <= PpRetries /\ \A m \in 1..Len(t) : t[m].status = "retryable"
  BY <1>2, <1>3, <1>4, <1>5
<1>10. k.pc = "finished" =>
         Len(t) # 0 /\ (t[Len(t)].status # "retryable" \/ Len(t) = PpRetries + 1)
  <2>1. t[n + 1] = r /\ n + 1 # 0 BY <1>2, <1>4
  <2>2. k.pc = "finished" => status # "retryable" \/ n = PpRetries BY <1>2, <1>5
  <2> QED BY <1>3, <1>4, <2>1, <2>2
<1>11. \A m \in 1..Len(t) : Forced(x, i, m - 1) => t[m].status = "retryable"
  <2> SUFFICES ASSUME NEW m \in 1..(n + 1), Forced(x, i, m - 1) PROVE t[m].status = "retryable"
    BY <1>4
  <2>1. CASE m = n + 1
    <3>1. m - 1 = n /\ t[m] = r BY <1>2, <1>4, <2>1
    <3> QED BY <1>3, <3>1
  <2>2. CASE m # n + 1 BY <1>2, <1>4, <2>2
  <2> QED BY <2>1, <2>2
<1>12. ASSUME x.run \in 2..Len(PpPools)
       PROVE  Len(t) <= Len(x.answers[i]) /\ \A m \in 1..Len(t) : t[m] = x.answers[i][m]
  <2> DEFINE a == x.answers[i]
  <2>1. ResultList(i, a) /\ TaskEnded(a) BY <1>12 DEF PlanInv, RunAnswers
  <2>2. n <= Len(a) /\ Len(a) \in Nat /\ \A m \in 1..n : s[m] = a[m]
    BY <1>2, <1>12, <2>1 DEF ResultList
  <2>3. n # Len(a)
    <3> SUFFICES ASSUME n = Len(a) PROVE FALSE OBVIOUS
    <3>1. n \in 1..n BY <1>2, <2>1 DEF TaskEnded
    <3>2. a[n].status = "retryable" BY <1>2, <2>2, <3>1
    <3> QED BY <1>2, <2>1, <3>2 DEF TaskEnded
  <2>4. r = a[n + 1] BY <1>12
  <2> HIDE DEF a
  <2>5. Len(t) <= Len(a) /\ \A m \in 1..Len(t) : t[m] = a[m]
    BY <1>2, <1>4, <2>2, <2>3, <2>4
  <2> QED BY <2>5 DEF a
<1>13. RunOK(y, i)
  <2>1. y.runs[i].results = t /\ y.runs[i].pc = k.pc BY <1>6 DEF t
  <2>2. k.pc \in {"queued", "running", "finished"} BY <1>5
  <2>3. \A m \in 1..Len(t) : Forced(y, i, m - 1) => t[m].status = "retryable"
    <3> SUFFICES ASSUME NEW m \in 1..Len(t), Forced(y, i, m - 1) PROVE t[m].status = "retryable"
      OBVIOUS
    <3>1. Forced(x, i, m - 1) BY <1>7
    <3> QED BY <1>11, <3>1
  <2>4. x.run \in 2..Len(PpPools) =>
          Len(t) <= Len(x.answers[i]) /\ \A m \in 1..Len(t) : t[m] = x.answers[i][m]
    BY <1>12
  <2> HIDE DEF t
  <2>5. y.runs[i].results = t /\ y.runs[i].pc = k.pc /\ DOMAIN y.runs[i] = {"pc", "results"}
        /\ y.run = x.run /\ y.answers = x.answers BY <1>5, <1>6, <2>1
  <2> QED BY <1>8, <1>9, <1>10, <2>2, <2>3, <2>4, <2>5, ZenonT(40) DEF RunOK
<1>14. Cardinality(RunningOf(y)) <= PoolOf(x)
  <2>1. IsFiniteSet(RunningOf(x)) BY RunningCounted DEF PlanInv
  <2>2. RunningOf(y) \subseteq RunningOf(x) BY <1>6 DEF RunningOf
  <2>3. Cardinality(RunningOf(y)) <= Cardinality(RunningOf(x))
        /\ Cardinality(RunningOf(x)) \in Nat /\ Cardinality(RunningOf(y)) \in Nat
    BY <2>1, <2>2, FS_Subset, FS_CardinalityType
  <2> QED BY <2>3 DEF PlanInv
<1> QED BY <1>13, <1>14, RunMoves

\* The driver takes the result of a task that finished.
LEMMA CompleteKeepsPlan ==
  ASSUME NEW x, PlanInv(x), x.pc = "running", PpRetries \in Nat,
         NEW i \in 1..Len(x.tasks), x.runs[i].pc = "finished",
         \A j \in 1..Len(x.completed) : x.completed[j] # i,
         \A n \in 1..Len(x.runs[i].results) : x.runs[i].results[n].status # "experiment",
         NEW y, y = [x EXCEPT !.completed = Append(@, i)]
  PROVE  PlanInv(y)
<1> DEFINE c == x.completed
           d == y.completed
           l == Len(c)
<1>1. /\ y.pc = x.pc /\ y.tasks = x.tasks /\ y.runs = x.runs
      /\ y.aggregate = x.aggregate /\ y.run = x.run /\ y.answers = x.answers
      /\ y.baseline = x.baseline /\ y.failed = x.failed /\ DOMAIN y = DOMAIN x
      /\ d = Append(c, i) BY DEF PlanInv, PlanShape
<1>2. /\ c \in Seq(1..Len(x.tasks)) /\ l \in Nat
      /\ \A j, k \in 1..l : c[j] = c[k] => j = k
      /\ \A j \in 1..l : c[j] # i /\ x.runs[c[j]].pc = "finished" /\ TaskEnded(x.runs[c[j]].results)
  BY DEF PlanInv, CompletedOK
<1>3. /\ d \in Seq(1..Len(x.tasks)) /\ Len(d) = l + 1
      /\ \A j \in 1..(l + 1) : d[j] = IF j = l + 1 THEN i ELSE c[j]
  <2> HIDE DEF c, d
  <2> QED BY <1>1, <1>2, AppendProperties
<1>4. TaskEnded(x.runs[i].results)
  <2>1. RunOK(x, i) BY DEF PlanInv
  <2>2. Len(x.runs[i].results) \in Nat BY <2>1 DEF RunOK, ResultList
  <2> QED BY <2>1, <2>2 DEF RunOK, TaskEnded
<1> HIDE DEF c, d, l
<1>5. CompletedOK(y)
  <2>1. ASSUME NEW j \in 1..(l + 1), NEW k \in 1..(l + 1), d[j] = d[k] PROVE j = k
    <3>1. CASE j # l + 1 /\ k # l + 1
      <4>1. j \in 1..l /\ k \in 1..l /\ d[j] = c[j] /\ d[k] = c[k] BY <1>2, <1>3, <3>1, SMTT(30)
      <4> QED BY <1>2, <2>1, <4>1
    <3>2. CASE j = l + 1 /\ k # l + 1 BY <1>2, <1>3, <2>1, <3>2
    <3>3. CASE j # l + 1 /\ k = l + 1
      <4>1. j \in 1..l /\ d[k] = i /\ d[j] = c[j] BY <1>2, <1>3, <3>3
      <4> QED BY <1>2, <2>1, <4>1
    <3> QED BY <3>1, <3>2, <3>3
  <2>2. ASSUME NEW j \in 1..(l + 1)
        PROVE  x.runs[d[j]].pc = "finished" /\ TaskEnded(x.runs[d[j]].results)
    <3>1. CASE j = l + 1 BY <1>3, <1>4, <3>1
    <3>2. CASE j # l + 1
      <4>1. j \in 1..l /\ d[j] = c[j] BY <1>2, <1>3, <3>2
      <4> QED BY <1>2, <4>1
    <3> QED BY <3>1, <3>2
  <2> QED BY <1>1, <1>3, <2>1, <2>2 DEF CompletedOK, d
<1>6. PlanShape(y) BY <1>1 DEF PlanInv, PlanShape
<1>7. \A j \in 1..Len(y.tasks) : RunOK(y, j) BY <1>1, RunSame DEF PlanInv
<1>8. RunAnswers(y) /\ AggregateOK(y) BY <1>1 DEF PlanInv, RunAnswers, AggregateOK
<1>9. VerdictOK(y) BY <1>1 DEF PlanInv, VerdictOK
<1>10. RunningOf(y) = RunningOf(x) /\ PoolOf(y) = PoolOf(x)
  BY <1>1 DEF RunningOf, PoolOf
<1> QED BY <1>5, <1>6, <1>7, <1>8, <1>9, <1>10 DEF PlanInv

\* A plan whose stage and verdict change, and nothing of its runs.
LEMMA StageKeepsPlan ==
  ASSUME NEW x, PlanInv(x), NEW y, DOMAIN y = DOMAIN x,
         y.pc \in {"aborted", "aggregated", "verified", "refuted"},
         y.tasks = x.tasks, y.runs = x.runs, y.completed = x.completed, y.run = x.run,
         y.answers = x.answers, y.baseline = x.baseline, AggregateOK(y), VerdictOK(y)
  PROVE  PlanInv(y)
<1>1. PlanShape(y) BY DEF PlanInv, PlanShape
<1>2. \A j \in 1..Len(y.tasks) : RunOK(y, j) BY RunSame DEF PlanInv
<1>3. CompletedOK(y) /\ RunAnswers(y) BY DEF PlanInv, CompletedOK, RunAnswers
<1>4. RunningOf(y) = RunningOf(x) /\ PoolOf(y) = PoolOf(x) BY DEF RunningOf, PoolOf
<1> QED BY <1>1, <1>2, <1>3, <1>4 DEF PlanInv

LEMMA AbortKeepsPlan ==
  ASSUME NEW x, PlanInv(x), x.pc = "running", NEW y, y = [x EXCEPT !.pc = "aborted"]
  PROVE  PlanInv(y)
<1>1. /\ y.pc = "aborted" /\ y.tasks = x.tasks /\ y.runs = x.runs /\ y.completed = x.completed
      /\ y.run = x.run /\ y.answers = x.answers
      /\ y.baseline = x.baseline /\ y.failed = x.failed /\ DOMAIN y = DOMAIN x
  BY DEF PlanInv, PlanShape
<1>2. AggregateOK(y) /\ VerdictOK(y) BY <1>1 DEF PlanInv, AggregateOK, VerdictOK
<1> QED BY <1>1, <1>2, StageKeepsPlan

LEMMA AggregateKeepsPlan ==
  ASSUME NEW x, PlanInv(x), x.pc = "running", Len(x.completed) = Len(x.tasks),
         NEW a, a = DigestOf(SetsOf(x.runs, Len(x.tasks))),
         NEW y, y = [x EXCEPT !.pc = "aggregated", !.aggregate = a]
  PROVE  PlanInv(y)
<1>1. /\ y.pc = "aggregated" /\ y.tasks = x.tasks /\ y.runs = x.runs
      /\ y.completed = x.completed /\ y.aggregate = a
      /\ y.run = x.run /\ y.answers = x.answers
      /\ y.baseline = x.baseline /\ y.failed = x.failed /\ DOMAIN y = DOMAIN x
  BY DEF PlanInv, PlanShape
<1>2. AggregateOK(y) BY <1>1 DEF AggregateOK
<1>3. VerdictOK(y) BY <1>1 DEF PlanInv, VerdictOK
<1> QED BY <1>1, <1>2, <1>3, StageKeepsPlan

\* A run of the pools that is over has the answers of the first one, so the
\* comparison of the pools never fails.
LEMMA SameAggregate ==
  ASSUME NEW x, PlanInv(x), x.pc = "aggregated", x.run \in 2..Len(PpPools), PpRetries \in Nat
  PROVE  x.aggregate = x.baseline
<1> DEFINE N == Len(x.tasks)
<1>1. AllEnded(x.runs, N) /\ x.aggregate = DigestOf(SetsOf(x.runs, N))
  BY AllCompleted DEF PlanInv, AggregateOK
<1>2. \A i \in 1..N : x.runs[i].results = x.answers[i]
  <2> SUFFICES ASSUME NEW i \in 1..N PROVE x.runs[i].results = x.answers[i] OBVIOUS
  <2> DEFINE s == x.runs[i].results
             a == x.answers[i]
  <2>1. ResultList(i, s) /\ TaskEnded(s) BY <1>1 DEF AllEnded
  <2>2. ResultList(i, a) /\ TaskEnded(a) BY DEF PlanInv, RunAnswers
  <2>3. Len(s) <= Len(a) /\ \A n \in 1..Len(s) : s[n] = a[n] BY DEF PlanInv, RunOK
  <2> HIDE DEF s, a
  <2>4. s = a BY <2>1, <2>2, <2>3, SameAnswers
  <2> QED BY <2>4 DEF s, a
<1>3. SetsOf(x.runs, N) = [i \in 1..N |-> ResultSet(x.answers[i])] BY <1>2 DEF SetsOf
<1>4. x.baseline = DigestOf([i \in 1..N |-> ResultSet(x.answers[i])])
  BY DEF PlanInv, RunAnswers
<1> QED BY <1>1, <1>3, <1>4

\* The next run of the same plan.
LEMMA NextRunKeepsPlan ==
  ASSUME NEW x, PlanInv(x), x.pc = "aggregated", ~ (x.run > Len(PpPools)),
         Len(PpPools) \in Nat, PpRetries \in Nat,
         FailurePool \in Nat, \A i \in 1..Len(PpPools) : PpPools[i] \in Nat,
         NEW checks, checks \subseteq {"semantic", "single_flight"},
         "semantic" \in checks => x.run > 1 /\ x.aggregate # x.baseline,
         NEW y, DOMAIN y = DOMAIN x, y.tasks = x.tasks, y.pc = "running", y.run = x.run + 1,
         y.failed = x.failed \cup checks,
         y.baseline = IF x.run = Len(PpPools) THEN "none"
                      ELSE IF x.run = 1 THEN x.aggregate ELSE x.baseline,
         y.answers = IF x.run = Len(PpPools) THEN <<>>
                     ELSE IF x.run = 1
                     THEN [i \in 1..Len(x.tasks) |-> x.runs[i].results] ELSE x.answers,
         y.runs = [i \in 1..Len(x.tasks) |-> NoRun],
         y.completed = <<>>
  PROVE  PlanInv(y)
<1> DEFINE N == Len(x.tasks)
<1>1. x.run \in Nat \ {0} /\ x.run \in 1..Len(PpPools) /\ N \in Nat
  BY DEF PlanInv, PlanShape
<1>2. PlanShape(y) BY <1>1 DEF PlanInv, PlanShape
<1>3. \A i \in 1..N : y.runs[i] = NoRun OBVIOUS
<1>4. ASSUME NEW i \in 1..N PROVE RunOK(y, i)
  <2>1. y.runs[i].pc = "queued" /\ y.runs[i].results = <<>> /\ DOMAIN y.runs[i] = {"pc", "results"}
    BY <1>3 DEF NoRun
  <2>2. ResultList(i, <<>>) BY DEF ResultList
  <2>3. y.run \in 2..Len(PpPools) => Len(<<>>) <= Len(y.answers[i])
    <3> SUFFICES ASSUME y.run \in 2..Len(PpPools) PROVE 0 <= Len(y.answers[i]) OBVIOUS
    <3>1. x.run # Len(PpPools) BY <1>1
    <3>2. CASE x.run = 1 BY <3>1, <3>2 DEF PlanInv, RunOK, ResultList
    <3>3. CASE x.run # 1 BY <1>1, <3>1, <3>3 DEF PlanInv, RunAnswers, ResultList
    <3> QED BY <3>2, <3>3
  <2> QED BY <2>1, <2>2, <2>3 DEF RunOK
<1>5. CompletedOK(y) BY DEF CompletedOK
<1>6. RunAnswers(y)
  <2> SUFFICES ASSUME y.run \in 2..Len(PpPools)
               PROVE  /\ \A i \in 1..N : ResultList(i, y.answers[i]) /\ TaskEnded(y.answers[i])
                      /\ y.baseline = DigestOf([i \in 1..N |-> ResultSet(y.answers[i])])
    BY DEF RunAnswers
  <2>1. x.run # Len(PpPools) BY <1>1
  <2>2. CASE x.run = 1
    <3>1. AllEnded(x.runs, N) /\ x.aggregate = DigestOf(SetsOf(x.runs, N))
      BY AllCompleted DEF PlanInv, AggregateOK
    <3>2. y.baseline = x.aggregate /\ \A i \in 1..N : y.answers[i] = x.runs[i].results
      BY <2>1, <2>2
    <3>3. SetsOf(x.runs, N) = [i \in 1..N |-> ResultSet(y.answers[i])]
      BY <3>2 DEF SetsOf
    <3>4. \A i \in 1..N : ResultList(i, y.answers[i]) /\ TaskEnded(y.answers[i])
      BY <3>1, <3>2 DEF AllEnded
    <3> QED BY <3>1, <3>2, <3>3, <3>4
  <2>3. CASE x.run # 1 BY <1>1, <2>1, <2>3 DEF PlanInv, RunAnswers
  <2> QED BY <2>2, <2>3
<1>7. AggregateOK(y) BY DEF AggregateOK
<1>8. VerdictOK(y)
  <2>1. "semantic" \notin checks
    <3> SUFFICES ASSUME x.run > 1 PROVE x.aggregate = x.baseline OBVIOUS
    <3>1. x.run \in 2..Len(PpPools) BY <1>1
    <3> QED BY <3>1, SameAggregate
  <2>2. "semantic" \notin x.failed /\ x.failed \subseteq {"single_flight"}
    BY DEF PlanInv, VerdictOK
  <2> QED BY <2>1, <2>2 DEF VerdictOK
<1>9. Cardinality(RunningOf(y)) <= PoolOf(y)
  <2>1. RunningOf(y) = {} BY <1>3 DEF RunningOf, NoRun
  <2>2. PoolOf(y) \in Nat BY <1>1 DEF PoolOf
  <2> QED BY <2>1, <2>2, FS_EmptySet
<1> QED BY <1>2, <1>4, <1>5, <1>6, <1>7, <1>8, <1>9 DEF PlanInv

\* The last run: what failed although it was not told to, if the checks of
\* the run with failures are not met.
LEMMA VerdictIs ==
  ASSUME NEW x, PlanInv(x), x.pc = "aggregated", x.run > Len(PpPools),
         PpRetries = 1, NEW checks, checks \subseteq {"recovered", "exhausted", "replaced"},
         "recovered" \in checks <=>
           \E i \in {j \in 1..Len(x.tasks) : j # Len(x.tasks)} :
             x.aggregate.outcomes[i] # "success",
         "exhausted" \in checks <=>
           \E i \in {j \in 1..Len(x.tasks) : j = Len(x.tasks)} :
             x.aggregate.outcomes[i] # "failed_retry_exhausted",
         "replaced" \in checks <=>
           \E i \in 1..Len(x.tasks) : Len(x.runs[i].results) # 2,
         NEW y, y = [x EXCEPT !.failed = x.failed \cup checks,
                       !.pc = IF x.failed \cup checks = {} THEN "verified" ELSE "refuted"]
  PROVE  PlanInv(y)
<1> DEFINE N == Len(x.tasks)
<1>1. /\ y.tasks = x.tasks /\ y.runs = x.runs /\ y.completed = x.completed
      /\ y.aggregate = x.aggregate /\ y.run = x.run /\ y.answers = x.answers
      /\ y.baseline = x.baseline /\ y.failed = x.failed \cup checks /\ DOMAIN y = DOMAIN x
      /\ y.pc = IF x.failed \cup checks = {} THEN "verified" ELSE "refuted"
  BY DEF PlanInv, PlanShape
<1>2. /\ Len(x.completed) = N /\ x.aggregate = DigestOf(SetsOf(x.runs, N))
      /\ x.failed \subseteq {"single_flight"} BY DEF PlanInv, AggregateOK, VerdictOK
<1>3. AggregateOK(y) BY <1>1, <1>2 DEF AggregateOK
<1>4. AllEnded(x.runs, N) /\ N \in Nat BY <1>2, AllCompleted DEF PlanInv, PlanShape
<1>5. ASSUME NEW i \in 1..N
      PROVE  x.aggregate.outcomes[i] = StatusIn(ResultSet(x.runs[i].results))
  BY <1>2 DEF DigestOf, SetsOf
<1>8. ASSUME VerdictOK(y) PROVE PlanInv(y)
  <2>1. /\ DOMAIN y = DOMAIN x /\ y.tasks = x.tasks /\ y.runs = x.runs
        /\ y.completed = x.completed /\ y.run = x.run /\ y.answers = x.answers
        /\ y.baseline = x.baseline BY <1>1
  <2>2. y.pc \in {"aborted", "aggregated", "verified", "refuted"} BY <1>1
  <2> HIDE DEF N
  <2> QED BY <1>3, <1>8, <2>1, <2>2, StageKeepsPlan
<1>6. CASE x.failed \cup checks = {}
  <2>1. y.pc = "verified" /\ checks = {} /\ y.failed = {} BY <1>1, <1>6
  <2>2. ASSUME NEW i \in 1..N PROVE x.aggregate.outcomes[i] = "success" <=> i # N
    <3>1. CASE i # N BY <2>1, <3>1
    <3>2. CASE i = N BY <2>1, <3>2
    <3> QED BY <3>1, <3>2
  <2>3. VerdictOK(y) BY <1>1, <2>1, <2>2 DEF VerdictOK
  <2> QED BY <1>8, <2>3
<1>7. CASE x.failed \cup checks # {}
  <2>1. y.pc = "refuted" BY <1>1, <1>7
  <2> DEFINE unforced == \E i \in 1..N : \E n \in 1..Len(x.runs[i].results) :
               ~Forced(x, i, n - 1) /\ x.runs[i].results[n].status # "success"
  <2>2. ASSUME ~unforced PROVE checks = {}
    <3>1. ASSUME NEW i \in 1..N
          PROVE  /\ Len(x.runs[i].results) = 2
                 /\ i # N => x.aggregate.outcomes[i] = "success"
                 /\ i = N => x.aggregate.outcomes[i] = "failed_retry_exhausted"
      <4> DEFINE s == x.runs[i].results
      <4>1. ResultList(i, s) /\ TaskEnded(s) BY <1>4 DEF AllEnded
      <4>2. \A n \in 1..Len(s) : Forced(x, i, n - 1) => s[n].status = "retryable"
        BY DEF PlanInv, RunOK
      <4>3. \A n \in 1..Len(s) : ~Forced(x, i, n - 1) => s[n].status = "success"
        BY <2>2
      <4>4. x.aggregate.outcomes[i] = StatusIn(ResultSet(s)) BY <1>5
      <4> HIDE DEF s
      <4>5. Len(s) \in Nat /\ Len(s) <= 2 /\ 1 \in 1..Len(s) /\ Len(s) \in 1..Len(s)
        BY <4>1 DEF ResultList, TaskEnded
      <4>6. Forced(x, i, 0) /\ (Forced(x, i, 1) <=> i = N) BY DEF Forced
      <4>7. s[1].status = "retryable" BY <4>2, <4>5, <4>6
      <4>8. Len(s) = 2
        <5>1. s[Len(s)].status # "retryable" \/ Len(s) = 2 BY <4>1 DEF TaskEnded
        <5>2. Len(s) = 1 \/ Len(s) = 2
          <6>1. PICK l : l = Len(s) OBVIOUS
          <6>2. l \in Nat /\ l <= 2 /\ 1 \in 1..l BY <4>5, <6>1
          <6>3. l = 1 \/ l = 2 BY <6>2
          <6> QED BY <6>1, <6>3
        <5> QED BY <4>7, <5>1, <5>2
      <4>9. 2 \in 1..Len(s) /\ 2 - 1 = 1 BY <4>8
      <4>10. s[2].status = IF i = N THEN "retryable" ELSE "success"
        BY <4>2, <4>3, <4>6, <4>9
      <4>11. PpRetries \in Nat OBVIOUS
      <4>12. /\ StatusIn(ResultSet(s)) = "success" <=> s[Len(s)].status = "success"
             /\ StatusIn(ResultSet(s)) = "failed_retry_exhausted" <=> s[Len(s)].status = "retryable"
        BY <4>1, <4>11, EndedStatus
      <4>13. i # N => StatusIn(ResultSet(s)) = "success" BY <4>8, <4>10, <4>12
      <4>14. i = N => StatusIn(ResultSet(s)) = "failed_retry_exhausted"
        BY <4>8, <4>10, <4>12
      <4>15. Len(x.runs[i].results) = 2 BY <4>8 DEF s
      <4> QED BY <4>4, <4>13, <4>14, <4>15
    <3>2. "recovered" \notin checks BY <3>1
    <3>3. "exhausted" \notin checks BY <3>1
    <3>4. "replaced" \notin checks BY <3>1
    <3> QED BY <3>2, <3>3, <3>4
  <2>3. "single_flight" \in y.failed \/ unforced
    <3> HIDE DEF unforced
    <3> QED BY <1>1, <1>2, <1>7, <2>2
  <2>4. "semantic" \notin y.failed BY <1>1, <1>2
  <2>5. \A i, n : Forced(y, i, n) <=> Forced(x, i, n) BY <1>1 DEF Forced
  <2>6. VerdictOK(y)
    <3>1. CASE "single_flight" \in y.failed BY <2>1, <2>4, <3>1 DEF VerdictOK
    <3>2. CASE unforced
      <4>1. PICK i \in 1..N : \E n \in 1..Len(x.runs[i].results) :
               ~Forced(x, i, n - 1) /\ x.runs[i].results[n].status # "success" BY <3>2
      <4>2. PICK n \in 1..Len(x.runs[i].results) :
               ~Forced(x, i, n - 1) /\ x.runs[i].results[n].status # "success" BY <4>1
      <4>3. ~Forced(y, i, n - 1) BY <2>5, <4>2
      <4>4. \E m \in 1..Len(y.runs[i].results) :
               ~Forced(y, i, m - 1) /\ y.runs[i].results[m].status # "success"
        BY <1>1, <4>2, <4>3
      <4> QED BY <1>1, <2>1, <2>4, <4>4 DEF VerdictOK
    <3> QED BY <2>3, <3>1, <3>2
  <2> QED BY <1>8, <2>6
<1> QED BY <1>6, <1>7

\* A list of candidates has a plan of some length.
LEMMA BuildLength ==
  ASSUME NEW cs \in Submissions
  PROVE  Len(Build(cs)) \in Nat /\ DOMAIN Build(cs) = 1..Len(Build(cs))
<1> DEFINE n == Len(cs)
           W == Works(cs)
           f == [i \in 1..n |-> cs[i].work]
           N == Cardinality(W)
           B == Build(cs)
<1>1. n \in Nat BY PlanAssumption
<1>2. N \in Nat
  <2>1. IsFiniteSet(1..n) BY <1>1, FS_Interval
  <2>2. f \in Surjection(1..n, W) BY DEF Works, Surjection
  <2> HIDE DEF f, W, n
  <2>3. IsFiniteSet(W) BY <2>1, <2>2, FS_Surjection
  <2> QED BY <2>3, FS_CardinalityType
<1>3. DOMAIN B = 1..N /\ B \in [1..N -> {B[i] : i \in 1..N}]
  <2>1. DOMAIN B = 1..N BY DEF Build
  <2>2. B = [i \in 1..N |-> B[i]] BY DEF Build
  <2> HIDE DEF B, N
  <2> QED BY <2>1, <2>2
<1> HIDE DEF B, N, W
<1>4. B \in Seq({B[i] : i \in 1..N}) BY <1>2, <1>3, SeqDef
<1>5. Len(B) \in Nat /\ DOMAIN B = 1..Len(B) BY <1>4, LenProperties
<1> QED BY <1>5 DEF B

LEMMA PlanInitially == PpInit => PlanInv(ppPlan)
<1> SUFFICES ASSUME PpInit PROVE PlanInv(ppPlan) OBVIOUS
<1>1. PICK cs \in Submissions :
        ppPlan = [pc |-> IF Conflict(cs) THEN "rejected" ELSE "running",
                  tasks |-> IF Conflict(cs) THEN <<>> ELSE Build(cs),
                  runs |-> [i \in 1..Len(Build(cs)) |-> NoRun],
                  completed |-> <<>>, aggregate |-> "none",
                  run |-> 1, answers |-> <<>>, baseline |-> "none", failed |-> {}]
  BY DEF PpInit
<1> DEFINE M == Len(Build(cs))
<1>2. M \in Nat BY BuildLength
<1>3. /\ ppPlan.pc \in {"rejected", "running"}
      /\ ppPlan.tasks = IF Conflict(cs) THEN <<>> ELSE Build(cs)
      /\ ppPlan.runs = [i \in 1..M |-> NoRun] /\ ppPlan.completed = <<>>
      /\ ppPlan.run = 1 /\ ppPlan.failed = {}
      /\ DOMAIN ppPlan = {"pc", "tasks", "runs", "completed", "aggregate", "run", "answers",
                          "baseline", "failed"} BY <1>1
<1>4. Len(ppPlan.tasks) \in Nat /\ Len(ppPlan.tasks) <= M BY <1>2, <1>3
<1> HIDE DEF M
<1>5. \A i \in 1..Len(ppPlan.tasks) : i \in DOMAIN ppPlan.runs /\ ppPlan.runs[i] = NoRun
  BY <1>2, <1>3, <1>4
<1>6. PlanShape(ppPlan) BY <1>3, <1>4, <1>5 DEF PlanShape
<1>7. ASSUME NEW i \in 1..Len(ppPlan.tasks) PROVE RunOK(ppPlan, i)
  BY <1>5, <1>3, PlanAssumption DEF NoRun, ResultList, RunOK
<1>8. CompletedOK(ppPlan) BY <1>3 DEF CompletedOK
<1>9. RunAnswers(ppPlan) /\ AggregateOK(ppPlan) /\ VerdictOK(ppPlan)
  BY <1>3, PlanAssumption DEF RunAnswers, AggregateOK, VerdictOK
<1>10. Cardinality(RunningOf(ppPlan)) <= PoolOf(ppPlan)
  <2>1. RunningOf(ppPlan) = {} BY <1>5 DEF RunningOf, NoRun
  <2>2. PoolOf(ppPlan) \in Nat BY <1>3, PlanAssumption DEF PoolOf
  <2> QED BY <2>1, <2>2, FS_EmptySet
<1> QED BY <1>6, <1>7, <1>8, <1>9, <1>10 DEF PlanInv

\* The driver hands the results over in plan order or in its reverse.
LEMMA InputAggregated ==
  ASSUME PlanInv(ppPlan), Len(ppPlan.completed) = Len(ppPlan.tasks), PpRetries \in Nat
  PROVE  Aggregate(Concat(InputOrder)) = DigestOf(SetsOf(ppPlan.runs, Len(ppPlan.tasks)))
<1> DEFINE N == Len(ppPlan.tasks)
           order == InputOrder
           back == FailureRun \/ ppPlan.run % 2 = 0
<1>1. N \in Nat /\ AllEnded(ppPlan.runs, N) BY AllCompleted DEF PlanInv, PlanShape
<1>2. DOMAIN order = 1..N /\ \A i \in 1..N : order[i] = IF back THEN N + 1 - i ELSE i
  BY DEF InputOrder, Tasks
<1>3. order \in [1..N -> 1..N]
  <2>1. order = [i \in 1..N |-> order[i]] BY DEF InputOrder, Tasks
  <2>2. \A i \in 1..N : order[i] \in 1..N BY <1>1, <1>2
  <2> HIDE DEF order
  <2> QED BY <2>1, <2>2
<1> HIDE DEF order
<1>4. Len(order) = N BY <1>1, <1>3, <1>2, SeqDef, LenProperties
<1>5. \A k \in 1..Len(order) : ResultList(order[k], ppPlan.runs[order[k]].results)
  BY <1>1, <1>3, <1>4 DEF AllEnded
<1>6. \A k, m \in 1..Len(order) : order[k] = order[m] => k = m BY <1>1, <1>2, <1>4
<1>7. \A i : i \in Tasks <=> \E k \in 1..Len(order) : order[k] = i
  <2>1. ASSUME NEW i \in Tasks PROVE \E k \in 1..Len(order) : order[k] = i
    <3>1. CASE back BY <1>1, <1>2, <1>4, <3>1 DEF Tasks
    <3>2. CASE ~back BY <1>2, <1>4, <3>2 DEF Tasks
    <3> QED BY <3>1, <3>2
  <2>2. ASSUME NEW k \in 1..Len(order) PROVE order[k] \in Tasks BY <1>3, <1>4 DEF Tasks
  <2> QED BY <2>1, <2>2
<1>8. Lists(ppPlan.runs, Tasks, Concat(order))
  BY <1>1, <1>4, <1>5, <1>6, <1>7, ConcatLists
<1>9. Aggregate(Concat(order)) = DigestOf(SetsOf(ppPlan.runs, N))
  BY <1>1, <1>8, AggregateOfLists
<1> QED BY <1>9 DEF order

\* The results in the order the tasks finished.
LEMMA CompletedListed ==
  ASSUME PlanInv(ppPlan), Len(ppPlan.completed) = Len(ppPlan.tasks)
  PROVE  Lists(ppPlan.runs, Tasks, Concat(ppPlan.completed))
<1> DEFINE N == Len(ppPlan.tasks)
           order == ppPlan.completed
<1>1. /\ N \in Nat /\ AllEnded(ppPlan.runs, N) /\ Len(order) = N /\ order \in Seq(1..N)
      /\ \A k, m \in 1..N : order[k] = order[m] => k = m
      /\ \A i \in 1..N : \E k \in 1..N : order[k] = i
  BY AllCompleted DEF PlanInv, PlanShape, CompletedOK
<1>2. \A k \in 1..N : order[k] \in 1..N BY <1>1, ElementOfSeq
<1>3. \A k \in 1..Len(order) : ResultList(order[k], ppPlan.runs[order[k]].results)
  BY <1>1, <1>2 DEF AllEnded
<1> HIDE DEF order
<1>4. \A i : i \in Tasks <=> \E k \in 1..Len(order) : order[k] = i
  <2>1. ASSUME NEW i \in Tasks PROVE \E k \in 1..Len(order) : order[k] = i
    BY <1>1 DEF Tasks
  <2>2. ASSUME NEW k \in 1..Len(order) PROVE order[k] \in Tasks BY <1>1, <1>2 DEF Tasks
  <2> QED BY <2>1, <2>2
<1>5. Lists(ppPlan.runs, Tasks, Concat(order)) BY <1>1, <1>3, <1>4, ConcatLists
<1> QED BY <1>5 DEF order

LEMMA PlanStep == PlanInv(ppPlan) /\ [PpNext]_ppPlan /\ PpRetries = 1 => PlanInv(ppPlan')
<1> SUFFICES ASSUME PlanInv(ppPlan), PpNext, PpRetries = 1 PROVE PlanInv(ppPlan')
  <2>1. CASE UNCHANGED ppPlan BY <2>1
  <2> QED BY <2>1
<1> USE DEF Tasks
<1>1. /\ Len(PpPools) \in Nat /\ PpRetries \in Nat /\ FailurePool \in Nat
      /\ \A i \in 1..Len(PpPools) : PpPools[i] \in Nat BY PlanAssumption
<1>2. PpPool = PoolOf(ppPlan) /\ PoolOf(ppPlan) \in Nat /\ Running = RunningOf(ppPlan)
  <2>1. ppPlan.run \in Nat \ {0} BY DEF PlanInv, PlanShape
  <2> QED BY <1>1, <2>1 DEF PpPool, PoolOf, FailureRun, Running, RunningOf
<1>3. \A i, n : Injected(i, n) <=> Forced(ppPlan, i, n)
  BY DEF Injected, Forced, FailureRun
<1>4. ASSUME NEW i \in Tasks, PpStart(i) PROVE PlanInv(ppPlan')
  BY <1>2, <1>4, StartKeepsPlan DEF PpStart
<1>5. ASSUME NEW i \in Tasks, PpComplete(i) PROVE PlanInv(ppPlan')
  <2>1. /\ ppPlan.pc = "running" /\ ppPlan.runs[i].pc = "finished"
        /\ \A j \in 1..Len(ppPlan.completed) : ppPlan.completed[j] # i
    BY <1>5 DEF PpComplete, InCompleted
  <2>2. CASE Aborts(i) BY <1>5, <2>2, <2>1, AbortKeepsPlan DEF PpComplete
  <2>3. CASE ~Aborts(i)
    BY <1>5, <1>1, <2>3, <2>1, CompleteKeepsPlan DEF PpComplete, Aborts
  <2> QED BY <2>2, <2>3
<1>6. ASSUME NEW i \in Tasks, NEW s \in AttemptStatuses, NEW v \in 0..1, PpAttempt(i, s, v)
      PROVE  PlanInv(ppPlan')
  <2> DEFINE n == Len(ppPlan.runs[i].results)
             r == Result(i, n, s, v)
             k == [pc |-> IF s = "retryable" /\ n < PpRetries THEN "running" ELSE "finished",
                   results |-> Append(ppPlan.runs[i].results, r)]
  <2>1. /\ ppPlan.runs[i].pc = "running" /\ Answered(i, n, s, v)
        /\ ppPlan' = [ppPlan EXCEPT !.runs[i] = k] BY <1>6 DEF PpAttempt
  <2>2. Forced(ppPlan, i, n) => s = "retryable" BY <1>3, <2>1 DEF Answered
  <2>3. ppPlan.run \in 2..Len(PpPools) => r = ppPlan.answers[i][n + 1]
    BY <2>1 DEF Answered
  <2>4. r = [task |-> i, attempt |-> n, status |-> s, score |-> v] BY DEF Result
  <2>5. ppPlan.pc \notin {"aggregated", "verified", "refuted"}
    <3> SUFFICES ASSUME ppPlan.pc \in {"aggregated", "verified", "refuted"} PROVE FALSE
      OBVIOUS
    <3>1. Len(ppPlan.completed) = Len(ppPlan.tasks) BY DEF PlanInv, AggregateOK
    <3>2. PICK j \in 1..Len(ppPlan.completed) : ppPlan.completed[j] = i
      BY <3>1, AllCompleted DEF PlanInv
    <3>3. ppPlan.runs[i].pc = "finished" BY <3>2 DEF PlanInv, CompletedOK
    <3> QED BY <2>1, <3>3
  <2> HIDE DEF n, r, k
  <2>6. n = Len(ppPlan.runs[i].results) BY DEF n
  <2>7. k = [pc |-> IF s = "retryable" /\ n < PpRetries THEN "running" ELSE "finished",
             results |-> Append(ppPlan.runs[i].results, r)] BY DEF k
  <2> QED BY <1>1, <1>2, <2>1, <2>2, <2>3, <2>4, <2>5, <2>6, <2>7, AttemptKeepsPlan, ZenonT(40)
<1>7. CASE PpAggregate
  BY <1>7, <1>1, InputAggregated, AggregateKeepsPlan DEF PpAggregate
<1>8. CASE PpNextRun
  <2>1. /\ ppPlan.pc = "aggregated" /\ ~ (ppPlan.run > Len(PpPools))
    BY <1>8 DEF PpNextRun, FailureRun
  <2> DEFINE y == ppPlan'
  <2>2. /\ DOMAIN y = DOMAIN ppPlan /\ y.tasks = ppPlan.tasks /\ y.pc = "running"
        /\ y.run = ppPlan.run + 1 /\ y.failed = ppPlan.failed \cup PoolChecks
        /\ y.baseline = IF ppPlan.run = Len(PpPools) THEN "none"
                        ELSE IF ppPlan.run = 1 THEN ppPlan.aggregate ELSE ppPlan.baseline
        /\ y.answers = IF ppPlan.run = Len(PpPools) THEN <<>>
                       ELSE IF ppPlan.run = 1
                       THEN [i \in 1..Len(ppPlan.tasks) |-> ppPlan.runs[i].results]
                       ELSE ppPlan.answers
        /\ y.runs = [i \in 1..Len(ppPlan.tasks) |-> NoRun]
        /\ y.completed = <<>> BY <1>8 DEF PpNextRun, PlanInv, PlanShape
  <2>3. PoolChecks \subseteq {"semantic", "single_flight"}
        /\ ("semantic" \in PoolChecks => ppPlan.run > 1 /\ ppPlan.aggregate # ppPlan.baseline)
    BY DEF PoolChecks
  <2> QED BY <1>1, <2>1, <2>2, <2>3, NextRunKeepsPlan
<1>9. CASE PpVerify
  <2>1. /\ ppPlan.pc = "aggregated" /\ ppPlan.run > Len(PpPools)
        /\ ppPlan' = [ppPlan EXCEPT !.failed = ppPlan.failed \cup FailureChecks,
                         !.pc = IF ppPlan.failed \cup FailureChecks = {}
                                THEN "verified" ELSE "refuted"]
    BY <1>9 DEF PpVerify, FailureRun
  <2>2. {i \in Tasks : Injected(i, 1)} = {i \in Tasks : i = Len(ppPlan.tasks)}
        /\ Tasks \ {i \in Tasks : Injected(i, 1)} = {i \in Tasks : i # Len(ppPlan.tasks)}
    BY <1>3, <2>1 DEF Forced
  <2>3. /\ FailureChecks \subseteq {"recovered", "exhausted", "replaced"}
        /\ "recovered" \in FailureChecks <=>
             \E i \in Tasks \ {j \in Tasks : Injected(j, 1)} :
               ppPlan.aggregate.outcomes[i] # "success"
        /\ "exhausted" \in FailureChecks <=>
             \E i \in {j \in Tasks : Injected(j, 1)} :
               ppPlan.aggregate.outcomes[i] # "failed_retry_exhausted"
        /\ "replaced" \in FailureChecks <=>
             \E i \in Tasks : Len(ppPlan.runs[i].results) # 2 BY DEF FailureChecks
  <2>4. /\ "recovered" \in FailureChecks <=>
             \E i \in {j \in 1..Len(ppPlan.tasks) : j # Len(ppPlan.tasks)} :
               ppPlan.aggregate.outcomes[i] # "success"
        /\ "exhausted" \in FailureChecks <=>
             \E i \in {j \in 1..Len(ppPlan.tasks) : j = Len(ppPlan.tasks)} :
               ppPlan.aggregate.outcomes[i] # "failed_retry_exhausted"
        /\ "replaced" \in FailureChecks <=>
             \E i \in 1..Len(ppPlan.tasks) : Len(ppPlan.runs[i].results) # 2
    BY <2>2, <2>3
  <2> QED BY <2>1, <2>3, <2>4, VerdictIs
<1> QED BY <1>4, <1>5, <1>6, <1>7, <1>8, <1>9 DEF PpNext

\* What the invariant says of the aggregate, its input and the verdict.
LEMMA PlanInvImplies ==
  ASSUME PlanInv(ppPlan), PpRetries = 1
  PROVE  AggregateOrderFree /\ AggregateSettled /\ StressDecided
<1> DEFINE N == Len(ppPlan.tasks)
           rs == Concat(ppPlan.completed)
<1>1. PpRetries \in Nat /\ N \in Nat BY DEF PlanInv, PlanShape
<1>2. ASSUME ppPlan.pc \in {"aggregated", "verified", "refuted"}
      PROVE  /\ AllEnded(ppPlan.runs, N) /\ Lists(ppPlan.runs, Tasks, rs)
             /\ ppPlan.aggregate = DigestOf(SetsOf(ppPlan.runs, N))
  BY <1>2, AllCompleted, CompletedListed DEF PlanInv, AggregateOK
<1> HIDE DEF rs
<1>3. ASSUME ppPlan.pc \in {"aggregated", "verified", "refuted"}, NEW i \in Tasks
      PROVE  LET s == ppPlan.runs[i].results IN
             /\ ResultList(i, s) /\ TaskEnded(s)
             /\ ResultsOf(rs, i) = ResultSet(s)
             /\ ppPlan.aggregate.outcomes[i] = StatusIn(ResultSet(s))
             /\ OutcomeStatus(rs, i) = StatusIn(ResultSet(s))
  <2> DEFINE s == ppPlan.runs[i].results
  <2>1. ResultList(i, s) /\ TaskEnded(s) BY <1>2, <1>3 DEF AllEnded, Tasks
  <2>2. ResultsOf(rs, i) = ResultSet(s) BY <1>1, <1>2, <1>3, AggregateOfLists
  <2>3. ppPlan.aggregate.outcomes[i] = StatusIn(ResultSet(s))
    <3> DEFINE h == SetsOf(ppPlan.runs, N)
    <3>1. i \in DOMAIN h /\ h[i] = ResultSet(s) BY <1>3 DEF SetsOf, Tasks
    <3> HIDE DEF h, s
    <3>2. DigestOf(h).outcomes[i] = StatusIn(h[i]) BY <3>1 DEF DigestOf
    <3> QED BY <1>2, <1>3, <3>1, <3>2 DEF h
  <2>4. OutcomeStatus(rs, i) = StatusIn(ResultSet(s))
    BY <2>2 DEF OutcomeStatus, StatusIn, FinalOf
  <2> QED BY <2>1, <2>2, <2>3, <2>4
<1>4. AggregateOrderFree
  <2> SUFFICES ASSUME ppPlan.pc = "aggregated"
               PROVE  /\ Aggregate(rs) = ppPlan.aggregate
                      /\ \A j, h \in 1..Len(rs) :
                           j < h => Aggregate(Swapped(rs, j, h)) = ppPlan.aggregate
    BY DEF AggregateOrderFree, rs
  <2>1. /\ AllEnded(ppPlan.runs, N) /\ Lists(ppPlan.runs, Tasks, rs)
        /\ ppPlan.aggregate = DigestOf(SetsOf(ppPlan.runs, N)) BY <1>2
  <2>2. Aggregate(rs) = ppPlan.aggregate BY <1>1, <2>1, AggregateOfLists
  <2>3. ASSUME NEW j \in 1..Len(rs), NEW h \in 1..Len(rs), j < h
        PROVE  Aggregate(Swapped(rs, j, h)) = ppPlan.aggregate
    BY <1>1, <2>1, <2>3, SwappedLists, AggregateOfLists
  <2> QED BY <2>2, <2>3
<1>5. AggregateSettled
  <2>1. ASSUME ppPlan.pc = "aggregated", NEW i \in Tasks
        PROVE  /\ ppPlan.aggregate.outcomes[i] \in
                    {"success", "failed_permanent", "failed_retry_exhausted"}
               /\ ~Aborts(i)
    <3> DEFINE s == ppPlan.runs[i].results
    <3>1. ResultList(i, s) /\ TaskEnded(s) /\ ppPlan.aggregate.outcomes[i] = StatusIn(ResultSet(s))
      BY <1>3, <2>1
    <3>2. /\ StatusIn(ResultSet(s)) \in
               {"success", "failed_permanent", "failed_retry_exhausted"}
          /\ \A n \in 1..Len(s) : s[n].status # "experiment" BY <1>1, <3>1, EndedStatus
    <3>3. ~Aborts(i) BY <3>2 DEF Aborts
    <3> QED BY <3>1, <3>2, <3>3
  <2>2. ppPlan.pc = "aggregated" => ppPlan.aggregate.ok BY <1>2 DEF DigestOf
  <2>3. Cardinality(Running) <= PpPool
    BY DEF PlanInv, Running, RunningOf, PpPool, PoolOf, FailureRun, Tasks
  <2> QED BY <2>1, <2>2, <2>3 DEF AggregateSettled
<1>6. StressDecided
  <2>1. "semantic" \notin ppPlan.failed BY DEF PlanInv, VerdictOK
  <2>2. ASSUME ppPlan.pc = "verified" PROVE Succeeded(rs) = Tasks \ {N}
    BY <1>3, <2>2 DEF PlanInv, VerdictOK, Tasks, Succeeded
  <2>3. ASSUME ppPlan.pc = "refuted"
        PROVE  \/ "single_flight" \in ppPlan.failed
               \/ \E i \in Tasks : \E r \in ResultsOf(rs, i) :
                    ~Injected(i, r.attempt) /\ r.status # "success"
    <3>1. CASE "single_flight" \in ppPlan.failed BY <3>1
    <3>2. CASE "single_flight" \notin ppPlan.failed
      <4>1. PICK i \in Tasks : \E n \in 1..Len(ppPlan.runs[i].results) :
               ~Forced(ppPlan, i, n - 1) /\ ppPlan.runs[i].results[n].status # "success"
        BY <2>3, <3>2 DEF PlanInv, VerdictOK, Tasks
      <4> DEFINE s == ppPlan.runs[i].results
      <4>2. PICK n \in 1..Len(s) : ~Forced(ppPlan, i, n - 1) /\ s[n].status # "success"
        BY <4>1
      <4>3. ResultList(i, s) /\ ResultsOf(rs, i) = ResultSet(s) BY <1>3, <2>3
      <4> HIDE DEF s
      <4>4. s[n] \in ResultsOf(rs, i) /\ s[n].attempt = n - 1
        BY <4>3 DEF ResultSet, ResultList
      <4>5. ~Injected(i, s[n].attempt) BY <4>2, <4>4 DEF Injected, Forced, FailureRun
      <4> QED BY <4>2, <4>4, <4>5
    <3> QED BY <3>1, <3>2
  <2> QED BY <2>1, <2>2, <2>3 DEF StressDecided, rs
<1> QED BY <1>4, <1>5, <1>6

(* The attempts of a replay through a fresh process: one call c of a caller t and what
   the adapter a keeps of it. *)
\* What an attempt is recorded by: its id is that of its call and its number.
AttemptRecords(t) == [id : {t} \X Nat \X Nat, failed : BOOLEAN]

\* The quarantine q holds the ids of the failed attempts of s, each once.
Quarantine(t, s, q) ==
  /\ s \in Seq(AttemptRecords(t)) /\ q \in Seq({t} \X Nat \X Nat)
  /\ \A k, m \in 1..Len(s) : s[k].id = s[m].id => k = m
  /\ \A k, m \in 1..Len(q) : q[k] = q[m] => k = m
  /\ \A k \in 1..Len(q) : \E m \in 1..Len(s) : s[m].failed /\ s[m].id = q[k]
  /\ \A m \in 1..Len(s) : s[m].failed => \E k \in 1..Len(q) : q[k] = s[m].id

\* A call's own list: its attempts in their order, and what it says of them.
CallOK(t, c) ==
  LET s == c.attempts
  IN /\ DOMAIN c = {"pc", "n", "attempt", "read", "attempts", "result", "exhausted"}
     /\ c.pc \in {"idle", "count", "counted", "running", "parse", "returned", "raised"}
     /\ c.n \in Nat /\ c.attempt \in 0..MaxRetries
     /\ s \in Seq(AttemptRecords(t)) /\ Len(s) <= c.attempt + 1
     /\ \A k \in 1..Len(s) : s[k].id = <<t, c.n, k - 1>>
     /\ c.pc \in {"count", "counted", "running"} =>
          Len(s) = c.attempt /\ \A k \in 1..Len(s) : s[k].failed
     /\ c.pc = "parse" => Len(s) = c.attempt + 1 /\ ~ s[Len(s)].failed
     /\ c.pc \in {"count", "counted", "running", "parse"} => c.result = "none" /\ ~c.exhausted
     /\ c.result = "frontier" => Len(s) # 0 /\ ~ s[Len(s)].failed
     /\ c.exhausted => Len(s) = MaxRetries + 1 /\ \A k \in 1..Len(s) : s[k].failed

\* What the adapter keeps of its calls while t is in the call c.
AdapterOK(t, a, c) ==
  /\ DOMAIN a = {"invocations", "retries", "attempts", "quarantined", "owner", "retained"}
  /\ a.invocations \in Nat /\ a.retries \in Nat
  /\ Quarantine(t, a.attempts, a.quarantined)
  /\ \A k \in 1..Len(a.attempts) :
       LET id == a.attempts[k].id
       IN id[2] < c.n \/ (id[2] = c.n /\ id[3] < Len(c.attempts))
  /\ c.pc \in {"count", "counted", "running", "parse"} => a.owner = t
  /\ c.pc = "parse" =>
       IF a.retained
       THEN LET r == a.attempts[Len(a.attempts)]
            IN Len(a.attempts) # 0 /\ r.id = <<t, c.n, c.attempt>> /\ ~r.failed
       ELSE \A k \in 1..Len(a.attempts) : a.attempts[k].id # <<t, c.n, c.attempt>>
  /\ c.pc \in {"count", "counted"} => a.invocations + 1 = a.retries + c.n
  /\ c.pc \notin {"count", "counted"} => a.invocations = a.retries + c.n
  /\ c.pc = "counted" => c.read = a.invocations

FwInv(t, a, f) ==
  /\ f = [u \in {t} |-> f[u]]
  /\ CallOK(t, f[t]) /\ AdapterOK(t, a, f[t])

\* One more record, of an attempt that has none.
LEMMA QuarantineAdds ==
  ASSUME NEW t, NEW s, NEW q, Quarantine(t, s, q), NEW r \in AttemptRecords(t),
         \A k \in 1..Len(s) : s[k].id # r.id
  PROVE  /\ r.failed => Quarantine(t, Append(s, r), Append(q, r.id))
         /\ ~r.failed => Quarantine(t, Append(s, r), q)
<1> DEFINE I == {t} \X Nat \X Nat
           R == AttemptRecords(t)
           n == Len(s)
           l == Len(q)
<1>1. /\ s \in Seq(R) /\ q \in Seq(I) /\ n \in Nat /\ l \in Nat
      /\ \A k, m \in 1..n : s[k].id = s[m].id => k = m
      /\ \A k, m \in 1..l : q[k] = q[m] => k = m
      /\ \A k \in 1..l : \E m \in 1..n : s[m].failed /\ s[m].id = q[k]
      /\ \A m \in 1..n : s[m].failed => \E k \in 1..l : q[k] = s[m].id
  BY DEF Quarantine
<1>2. r.id \in I BY DEF AttemptRecords
<1>3. PICK z : z = Append(s, r) OBVIOUS
<1>4. PICK p : p = Append(q, r.id) OBVIOUS
<1> HIDE DEF I, R, n, l
<1>5. /\ z \in Seq(R) /\ Len(z) = n + 1
      /\ \A k \in 1..n : z[k] = s[k]
      /\ z[n + 1] = r BY <1>1, <1>3, AppendProperties DEF R, n
<1>6. /\ p \in Seq(I) /\ Len(p) = l + 1
      /\ \A k \in 1..l : p[k] = q[k]
      /\ p[l + 1] = r.id BY <1>1, <1>2, <1>4, AppendProperties DEF l
<1>7. /\ \A k \in 1..(n + 1) : k = n + 1 \/ k \in 1..n
      /\ \A k \in 1..(l + 1) : k = l + 1 \/ k \in 1..l
      /\ \A k \in 1..n : k \in 1..(n + 1)
      /\ \A k \in 1..l : k \in 1..(l + 1)
      /\ n + 1 \in 1..(n + 1) /\ l + 1 \in 1..(l + 1) BY <1>1
<1>8. \A k \in 1..n : s[k].id # r.id BY DEF n
<1>9. \A k, m \in 1..(n + 1) : z[k].id = z[m].id => k = m BY <1>1, <1>5, <1>7, <1>8
<1>10. \A k \in 1..l : q[k] # r.id BY <1>1, <1>8
<1>11. \A k, m \in 1..(l + 1) : p[k] = p[m] => k = m BY <1>1, <1>6, <1>7, <1>10
<1>12. ASSUME NEW k \in 1..l PROVE \E m \in 1..(n + 1) : z[m].failed /\ z[m].id = q[k]
  <2>1. PICK m \in 1..n : s[m].failed /\ s[m].id = q[k] BY <1>1
  <2>2. m \in 1..(n + 1) /\ z[m] = s[m] BY <1>5, <1>7
  <2> QED BY <2>1, <2>2
<1>13. ASSUME NEW m \in 1..n, z[m].failed PROVE \E k \in 1..l : q[k] = z[m].id
  <2>1. z[m] = s[m] BY <1>5
  <2> QED BY <1>1, <1>13, <2>1
<1>14. ASSUME r.failed PROVE Quarantine(t, z, p)
  <2>1. ASSUME NEW k \in 1..(l + 1) PROVE \E m \in 1..(n + 1) : z[m].failed /\ z[m].id = p[k]
    BY <1>5, <1>6, <1>7, <1>14, <1>12
  <2>2. ASSUME NEW m \in 1..(n + 1), z[m].failed PROVE \E k \in 1..(l + 1) : p[k] = z[m].id
    <3>1. CASE m = n + 1 BY <1>5, <1>6, <1>7, <3>1
    <3>2. CASE m \in 1..n BY <1>13, <1>6, <1>7, <2>2, <3>2
    <3> QED BY <1>7, <3>1, <3>2
  <2> QED BY <1>5, <1>6, <1>9, <1>11, <2>1, <2>2 DEF Quarantine, I, R
<1>15. ASSUME ~r.failed PROVE Quarantine(t, z, q)
  BY <1>5, <1>7, <1>15, <1>13, <1>1, <1>9, <1>12 DEF Quarantine, I, R, l
<1> QED BY <1>3, <1>4, <1>14, <1>15

\* The last record, of an attempt that had not failed, is marked as failed.
LEMMA QuarantineMarks ==
  ASSUME NEW t, NEW s, NEW q, Quarantine(t, s, q), Len(s) # 0, ~ s[Len(s)].failed
  PROVE  /\ \A k \in 1..Len(q) : q[k] # s[Len(s)].id
         /\ Quarantine(t, ReplaceLast(s, Failed(s[Len(s)])), Append(q, s[Len(s)].id))
         /\ Len(ReplaceLast(s, Failed(s[Len(s)]))) = Len(s)
         /\ \A k \in 1..Len(s) : ReplaceLast(s, Failed(s[Len(s)]))[k].id = s[k].id
<1> DEFINE I == {t} \X Nat \X Nat
           R == AttemptRecords(t)
           n == Len(s)
           l == Len(q)
           r == s[n]
           f == Failed(r)
<1>1. /\ s \in Seq(R) /\ q \in Seq(I) /\ n \in Nat /\ l \in Nat /\ n \in 1..n
      /\ \A k, m \in 1..n : s[k].id = s[m].id => k = m
      /\ \A k, m \in 1..l : q[k] = q[m] => k = m
      /\ \A k \in 1..l : \E m \in 1..n : s[m].failed /\ s[m].id = q[k]
      /\ \A m \in 1..n : s[m].failed => \E k \in 1..l : q[k] = s[m].id
  BY DEF Quarantine
<1>2. r \in R BY <1>1, ElementOfSeq
<1>3. f \in R /\ f.id = r.id /\ f.failed /\ r.id \in I
  BY <1>2 DEF AttemptRecords, Failed
<1>4. PICK z : z = [s EXCEPT ![n] = f] OBVIOUS
<1>5. PICK p : p = Append(q, r.id) OBVIOUS
<1>6. ~r.failed OBVIOUS
<1>7. ReplaceLast(s, f) = z BY <1>4 DEF ReplaceLast
<1> HIDE DEF I, R, n, l, r, f
<1>8. /\ z \in Seq(R) /\ Len(z) = n
      /\ \A k \in 1..n : z[k] = IF k = n THEN f ELSE s[k]
  BY <1>1, <1>3, <1>4, ExceptSeq DEF n
<1>9. /\ p \in Seq(I) /\ Len(p) = l + 1
      /\ \A k \in 1..l : p[k] = q[k]
      /\ p[l + 1] = r.id BY <1>1, <1>3, <1>5, AppendProperties DEF l
<1>10. s[n] = r BY DEF r
<1>11. \A k \in 1..n : z[k].id = s[k].id BY <1>3, <1>8, <1>10
<1>12. \A k \in 1..l : q[k] # r.id BY <1>1, <1>6, <1>10
<1>13. /\ \A k \in 1..(l + 1) : k = l + 1 \/ k \in 1..l
       /\ \A k \in 1..l : k \in 1..(l + 1)
       /\ l + 1 \in 1..(l + 1) BY <1>1
<1>14. \A k, m \in 1..(l + 1) : p[k] = p[m] => k = m BY <1>1, <1>9, <1>12, <1>13
<1>15. \A k \in 1..(l + 1) : \E m \in 1..n : z[m].failed /\ z[m].id = p[k]
  <2> SUFFICES ASSUME NEW k \in 1..(l + 1)
               PROVE  \E m \in 1..n : z[m].failed /\ z[m].id = p[k] OBVIOUS
  <2>1. CASE k = l + 1 BY <1>1, <1>3, <1>8, <1>9, <2>1
  <2>2. CASE k \in 1..l
    <3>1. PICK m \in 1..n : s[m].failed /\ s[m].id = q[k] BY <1>1, <2>2
    <3>2. z[m] = s[m] BY <1>6, <1>8, <1>10, <3>1
    <3> QED BY <1>9, <2>2, <3>1, <3>2
  <2> QED BY <1>13, <2>1, <2>2
<1>16. \A m \in 1..n : z[m].failed => \E k \in 1..(l + 1) : p[k] = z[m].id
  <2> SUFFICES ASSUME NEW m \in 1..n, z[m].failed PROVE \E k \in 1..(l + 1) : p[k] = z[m].id
    OBVIOUS
  <2>1. CASE m = n BY <1>9, <1>10, <1>11, <1>13, <2>1
  <2>2. CASE m # n BY <1>8, <1>1, <1>9, <1>13, <1>11, <2>2
  <2> QED BY <2>1, <2>2
<1>17. Quarantine(t, z, p)
  BY <1>1, <1>8, <1>9, <1>11, <1>14, <1>15, <1>16 DEF Quarantine, I, R
<1> QED BY <1>5, <1>7, <1>8, <1>11, <1>12, <1>17 DEF r, f, n, l

\* The steps of a call, of records.
LEMMA FwInitially ==
  ASSUME NEW t, FwThreads = {t}, FwInit
  PROVE  FwInv(t, adapter, call)
<1>1. call = [u \in {t} |-> call[u]] /\ call[t] = NoCall BY DEF FwInit
<1>2. CallOK(t, NoCall) BY MaxRetriesAssumption DEF CallOK, NoCall
<1>3. AdapterOK(t, adapter, NoCall) BY DEF FwInit, AdapterOK, NoCall, Quarantine
<1> QED BY <1>1, <1>2, <1>3 DEF FwInv

LEMMA BeginKeeps ==
  ASSUME NEW t, NEW a, NEW c, CallOK(t, c), AdapterOK(t, a, c), c.pc = "idle",
         NEW d, d = [NoCall EXCEPT !.pc = "count", !.n = c.n + 1],
         NEW b, b = [a EXCEPT !.owner = t, !.retained = FALSE]
  PROVE  CallOK(t, d) /\ AdapterOK(t, b, d)
<1>1. /\ d.pc = "count" /\ d.n = c.n + 1 /\ d.attempt = 0 /\ d.attempts = <<>>
      /\ d.result = "none" /\ d.exhausted = FALSE /\ c.n \in Nat
      /\ DOMAIN d = {"pc", "n", "attempt", "read", "attempts", "result", "exhausted"}
  BY DEF NoCall, CallOK
<1>2. CallOK(t, d)
  <2>1. <<>> \in Seq(AttemptRecords(t)) /\ Len(<<>>) = 0 OBVIOUS
  <2>2. 0 \in 0..MaxRetries /\ c.n + 1 \in Nat BY <1>1, MaxRetriesAssumption
  <2>3. d.attempts \in Seq(AttemptRecords(t)) /\ Len(d.attempts) = 0 BY <1>1, <2>1
  <2> QED BY <1>1, <2>2, <2>3 DEF CallOK
<1>3. /\ b.owner = t /\ b.invocations = a.invocations /\ b.retries = a.retries
      /\ b.attempts = a.attempts /\ b.quarantined = a.quarantined /\ DOMAIN b = DOMAIN a
  BY DEF AdapterOK
<1>4. ASSUME NEW k \in 1..Len(a.attempts) PROVE a.attempts[k].id[2] < c.n + 1
  <2> DEFINE id == a.attempts[k].id
  <2>1. id[2] < c.n \/ id[2] = c.n BY DEF AdapterOK
  <2>2. id[2] \in Nat
    <3>1. a.attempts \in Seq(AttemptRecords(t)) BY DEF AdapterOK, Quarantine
    <3>2. a.attempts[k] \in AttemptRecords(t) BY <3>1, ElementOfSeq
    <3> QED BY <3>2 DEF AttemptRecords
  <2> HIDE DEF id
  <2> QED BY <1>1, <2>1, <2>2 DEF id
<1>5. b.invocations + 1 = b.retries + d.n BY <1>1, <1>3 DEF AdapterOK
<1> QED BY <1>1, <1>2, <1>3, <1>4, <1>5 DEF AdapterOK

LEMMA CountKeeps ==
  ASSUME NEW t, NEW a, NEW c, CallOK(t, c), AdapterOK(t, a, c), NEW d, NEW b,
         \/ /\ c.pc = "count" /\ d = [c EXCEPT !.pc = "counted", !.read = a.invocations] /\ b = a
         \/ /\ c.pc = "counted" /\ d = [c EXCEPT !.pc = "running"]
            /\ b = [a EXCEPT !.invocations = c.read + 1]
         \/ /\ c.pc = "parse" /\ d = [c EXCEPT !.pc = "returned", !.result = "frontier"] /\ b = a
         \/ c.pc \in {"returned", "raised"} /\ d = [c EXCEPT !.pc = "idle"] /\ b = a
  PROVE  CallOK(t, d) /\ AdapterOK(t, b, d)
<1>1. /\ d.n = c.n /\ d.attempt = c.attempt /\ d.attempts = c.attempts
      /\ d.exhausted = c.exhausted /\ DOMAIN d = DOMAIN c
      /\ b.owner = a.owner /\ b.retained = a.retained /\ b.retries = a.retries
      /\ b.attempts = a.attempts /\ b.quarantined = a.quarantined /\ DOMAIN b = DOMAIN a
  BY ZenonT(40) DEF CallOK, AdapterOK
<1>2. \/ /\ c.pc = "count" /\ d.pc = "counted" /\ d.result = c.result
         /\ d.read = a.invocations /\ b.invocations = a.invocations
      \/ /\ c.pc = "counted" /\ d.pc = "running" /\ d.result = c.result
         /\ b.invocations = c.read + 1
      \/ c.pc = "parse" /\ d.pc = "returned" /\ d.result = "frontier" /\ b.invocations = a.invocations
      \/ /\ c.pc \in {"returned", "raised"} /\ d.pc = "idle" /\ d.result = c.result
         /\ b.invocations = a.invocations BY DEF CallOK, AdapterOK
<1>3. CallOK(t, d)
  <2>1. d.pc \in {"count", "counted", "running"} => c.pc \in {"count", "counted", "running"}
        /\ d.result = c.result BY <1>2
  <2>2. d.pc # "parse" /\ d.pc \in {"counted", "running", "returned", "idle"} BY <1>2
  <2>3. d.result = "frontier" => Len(c.attempts) # 0 /\ ~ c.attempts[Len(c.attempts)].failed
    BY <1>2 DEF CallOK
  <2> QED BY <1>1, <2>1, <2>2, <2>3 DEF CallOK
<1>4. AdapterOK(t, b, d)
  <2>1. /\ Quarantine(t, b.attempts, b.quarantined)
        /\ \A k \in 1..Len(b.attempts) :
             LET id == b.attempts[k].id
             IN id[2] < d.n \/ (id[2] = d.n /\ id[3] < Len(d.attempts))
    BY <1>1 DEF AdapterOK
  <2>2. /\ d.pc \in {"count", "counted", "running", "parse"} => b.owner = t
        /\ d.pc # "parse" BY <1>1, <1>2 DEF AdapterOK
  <2>3. /\ b.invocations \in Nat /\ b.retries \in Nat
        /\ d.pc \in {"count", "counted"} => b.invocations + 1 = b.retries + d.n
        /\ d.pc \notin {"count", "counted"} => b.invocations = b.retries + d.n
        /\ d.pc = "counted" => d.read = b.invocations
    BY <1>1, <1>2 DEF AdapterOK, CallOK
  <2> QED BY <1>1, <2>1, <2>2, <2>3 DEF AdapterOK
<1> QED BY <1>3, <1>4

\* r is the record of the attempt that c is in.
AttemptOf(t, c, r) ==
  \E f \in BOOLEAN : r = [id |-> <<t, c.n, c.attempt>>, failed |-> f]

\* The record of the attempt that runs is new to the adapter.
LEMMA AttemptNew ==
  ASSUME NEW t, NEW a, NEW c, CallOK(t, c), AdapterOK(t, a, c), c.pc = "running",
         NEW r, AttemptOf(t, c, r)
  PROVE  /\ r \in AttemptRecords(t) /\ r.id = <<t, c.n, c.attempt>>
         /\ c.attempts \in Seq(AttemptRecords(t)) /\ Len(c.attempts) = c.attempt
         /\ c.attempt \in Nat /\ c.n \in Nat /\ c.attempt <= MaxRetries
         /\ \A k \in 1..Len(a.attempts) : a.attempts[k].id # <<t, c.n, c.attempt>>
<1>1. /\ c.attempts \in Seq(AttemptRecords(t)) /\ Len(c.attempts) = c.attempt
      /\ c.attempt \in Nat /\ c.n \in Nat /\ c.attempt <= MaxRetries
  BY MaxRetriesAssumption DEF CallOK
<1>2. r \in AttemptRecords(t) /\ r.id = <<t, c.n, c.attempt>>
  BY <1>1 DEF AttemptRecords, AttemptOf
<1>3. ASSUME NEW k \in 1..Len(a.attempts), a.attempts[k].id = <<t, c.n, c.attempt>> PROVE FALSE
  <2> DEFINE id == a.attempts[k].id
  <2>1. id[2] < c.n \/ (id[2] = c.n /\ id[3] < Len(c.attempts)) BY DEF AdapterOK
  <2>2. id[2] = c.n /\ id[3] = c.attempt BY <1>3
  <2> HIDE DEF id
  <2> QED BY <1>1, <2>1, <2>2
<1> QED BY <1>1, <1>2, <1>3

\* An attempt ends: its record is the last of the call's list, and what the
\* adapter keeps of it leaves a newer one room.
LEMMA ListGrows ==
  ASSUME NEW t, NEW a, NEW c, CallOK(t, c), AdapterOK(t, a, c), c.pc = "running",
         NEW r, AttemptOf(t, c, r)
  PROVE  LET s == Append(c.attempts, r) IN
         /\ s \in Seq(AttemptRecords(t)) /\ Len(s) = c.attempt + 1
         /\ \A k \in 1..Len(s) : s[k].id = <<t, c.n, k - 1>>
         /\ \A k \in 1..Len(s) : k < Len(s) => s[k].failed
         /\ s[Len(s)] = r
         /\ \A k \in 1..Len(a.attempts) :
              LET id == a.attempts[k].id
              IN id[2] < c.n \/ (id[2] = c.n /\ id[3] < Len(s))
<1> DEFINE s == Append(c.attempts, r)
           n == c.attempt
<1>1. /\ r \in AttemptRecords(t) /\ r.id = <<t, c.n, n>>
      /\ c.attempts \in Seq(AttemptRecords(t)) /\ Len(c.attempts) = n /\ n \in Nat
  BY AttemptNew
<1>2. /\ s \in Seq(AttemptRecords(t)) /\ Len(s) = n + 1 /\ s[n + 1] = r
      /\ \A k \in 1..n : s[k] = c.attempts[k]
  <2> HIDE DEF n
  <2> QED BY <1>1, AppendProperties
<1>3. \A k \in 1..n : c.attempts[k].id = <<t, c.n, k - 1>> /\ c.attempts[k].failed
  BY <1>1 DEF CallOK
<1> HIDE DEF s, n
<1>4. ASSUME NEW k \in 1..(n + 1)
      PROVE  s[k].id = <<t, c.n, k - 1>> /\ (k < n + 1 => s[k].failed)
  <2>1. CASE k = n + 1 BY <1>1, <1>2, <2>1
  <2>2. CASE k # n + 1
    <3>1. k \in 1..n BY <1>1, <2>2
    <3> QED BY <1>2, <1>3, <3>1
  <2> QED BY <2>1, <2>2
<1>5. ASSUME NEW k \in 1..Len(a.attempts)
      PROVE  LET id == a.attempts[k].id IN id[2] < c.n \/ (id[2] = c.n /\ id[3] < n + 1)
  <2> DEFINE id == a.attempts[k].id
  <2>1. id[2] < c.n \/ (id[2] = c.n /\ id[3] < n) BY <1>1 DEF AdapterOK
  <2>2. id[3] \in Nat
    <3>1. a.attempts[k] \in AttemptRecords(t) BY ElementOfSeq DEF AdapterOK, Quarantine
    <3> QED BY <3>1 DEF AttemptRecords
  <2> HIDE DEF id
  <2>3. id[2] < c.n \/ (id[2] = c.n /\ id[3] < n + 1) BY <1>1, <2>1, <2>2
  <2> QED BY <2>3 DEF id
<1> QED BY <1>2, <1>4, <1>5 DEF s, n

\* What the adapter keeps stays older than a call's next attempt when a record
\* of its last one is added.
LEMMA OlderAdds ==
  ASSUME NEW t, NEW s, s \in Seq(AttemptRecords(t)), NEW n \in Nat, NEW l \in Nat,
         \A k \in 1..Len(s) :
           LET id == s[k].id IN id[2] < n \/ (id[2] = n /\ id[3] < l),
         NEW r \in AttemptRecords(t), NEW m \in Nat, r.id = <<t, n, m>>, m < l
  PROVE  LET z == Append(s, r) IN
         /\ Len(z) = Len(s) + 1 /\ Len(z) # 0 /\ z[Len(z)] = r
         /\ \A k \in 1..Len(z) :
              LET id == z[k].id IN id[2] < n \/ (id[2] = n /\ id[3] < l)
<1> DEFINE z == Append(s, r)
<1>1. /\ Len(z) = Len(s) + 1 /\ z[Len(s) + 1] = r /\ Len(s) \in Nat
      /\ \A k \in 1..Len(s) : z[k] = s[k] BY AppendProperties
<1> HIDE DEF z
<1>2. ASSUME NEW k \in 1..Len(z)
      PROVE  LET id == z[k].id IN id[2] < n \/ (id[2] = n /\ id[3] < l)
  <2>1. CASE k = Len(s) + 1 BY <1>1, <2>1
  <2>2. CASE k # Len(s) + 1 BY <1>1, <2>2
  <2> QED BY <2>1, <2>2
<1>3. Len(z) = Len(s) + 1 /\ Len(z) # 0 /\ z[Len(z)] = r BY ONLY <1>1
<1> QED BY ONLY <1>2, <1>3 DEF z

\* A call c and its adapter a become d and b: an attempt failed, retried or not.
CallFails(t, a, c, b, d) ==
  LET r == [id |-> <<t, c.n, c.attempt>>, failed |-> TRUE]
      s == Append(c.attempts, r)
  IN \/ /\ c.attempt < MaxRetries
        /\ d = [c EXCEPT !.pc = "count", !.attempts = s, !.attempt = @ + 1]
        /\ b = [a EXCEPT !.attempts = Append(@, r), !.retained = TRUE,
                         !.quarantined = Append(@, r.id), !.retries = @ + 1]
     \/ /\ d.exhausted => Len(s) = MaxRetries + 1
        /\ d = [c EXCEPT !.pc = "raised", !.attempts = s, !.result = "worker_error",
                         !.exhausted = d.exhausted]
        /\ b = [a EXCEPT !.attempts = Append(@, r), !.retained = TRUE,
                         !.quarantined = Append(@, r.id)]

LEMMA FailKeeps ==
  ASSUME NEW t, NEW a, NEW c, CallOK(t, c), AdapterOK(t, a, c), c.pc = "running",
         NEW d, NEW b, CallFails(t, a, c, b, d)
  PROVE  CallOK(t, d) /\ AdapterOK(t, b, d)
<1>0. PICK r, s : /\ r = [id |-> <<t, c.n, c.attempt>>, failed |-> TRUE]
                  /\ s = Append(c.attempts, r) OBVIOUS
<1>1. /\ r \in AttemptRecords(t) /\ r.id = <<t, c.n, c.attempt>> /\ r.failed = TRUE
      /\ c.attempt \in Nat /\ c.n \in Nat /\ c.attempt <= MaxRetries
      /\ \A k \in 1..Len(a.attempts) : a.attempts[k].id # <<t, c.n, c.attempt>>
  <2>1. AttemptOf(t, c, r) BY <1>0 DEF AttemptOf
  <2>2. r.failed = TRUE BY <1>0
  <2> QED BY <2>1, <2>2, AttemptNew
<1>2. /\ s \in Seq(AttemptRecords(t)) /\ Len(s) = c.attempt + 1
      /\ \A k \in 1..Len(s) : s[k].id = <<t, c.n, k - 1>>
      /\ \A k \in 1..Len(s) : k < Len(s) => s[k].failed
      /\ s[Len(s)] = r
      /\ \A k \in 1..Len(a.attempts) :
           LET id == a.attempts[k].id IN id[2] < c.n \/ (id[2] = c.n /\ id[3] < Len(s))
  <2>1. AttemptOf(t, c, r) BY <1>0 DEF AttemptOf
  <2> QED BY <1>0, <2>1, ListGrows
<1>3. \A k \in 1..Len(s) : s[k].failed
  <2> SUFFICES ASSUME NEW k \in 1..Len(s) PROVE s[k].failed OBVIOUS
  <2>1. k < Len(s) \/ k = Len(s) BY <1>1, <1>2
  <2> QED BY <1>1, <1>2, <2>1
<1>20. \/ /\ c.attempt < MaxRetries
          /\ d = [c EXCEPT !.pc = "count", !.attempts = s, !.attempt = @ + 1]
          /\ b = [a EXCEPT !.attempts = Append(@, r), !.retained = TRUE,
                           !.quarantined = Append(@, r.id), !.retries = @ + 1]
       \/ /\ d.exhausted => Len(s) = MaxRetries + 1
          /\ d = [c EXCEPT !.pc = "raised", !.attempts = s, !.result = "worker_error",
                           !.exhausted = d.exhausted]
          /\ b = [a EXCEPT !.attempts = Append(@, r), !.retained = TRUE,
                           !.quarantined = Append(@, r.id)] BY <1>0 DEF CallFails
<1>4. /\ d.n = c.n /\ d.attempts = s /\ DOMAIN d = DOMAIN c
      /\ b.attempts = Append(a.attempts, r) /\ b.quarantined = Append(a.quarantined, r.id)
      /\ b.owner = a.owner /\ b.invocations = a.invocations /\ DOMAIN b = DOMAIN a
  BY <1>20, ZenonT(40) DEF CallOK, AdapterOK
<1>5. \/ /\ c.attempt < MaxRetries /\ d.pc = "count" /\ d.attempt = c.attempt + 1 /\ d.result = c.result
         /\ d.exhausted = c.exhausted /\ b.retries = a.retries + 1
      \/ /\ d.pc = "raised" /\ d.attempt = c.attempt /\ d.result = "worker_error"
         /\ (d.exhausted => Len(s) = MaxRetries + 1) /\ b.retries = a.retries
  BY <1>20, ZenonT(40) DEF CallOK, AdapterOK
<1>6. c.result = "none" /\ ~c.exhausted /\ a.owner = t /\ a.invocations = a.retries + c.n
      /\ a.invocations \in Nat /\ a.retries \in Nat BY DEF CallOK, AdapterOK
<1>7. CallOK(t, d)
  <2>1. CASE d.pc = "count"
    <3>1. c.attempt < MaxRetries /\ d.attempt = c.attempt + 1 /\ d.result = "none" /\ ~d.exhausted
      BY <1>5, <1>6, <2>1
    <3>2. d.attempt \in 0..MaxRetries /\ Len(s) = d.attempt /\ Len(s) <= d.attempt + 1
      BY <1>1, <1>2, <3>1, MaxRetriesAssumption
    <3> QED BY <1>1, <1>2, <1>3, <1>4, <2>1, <3>1, <3>2 DEF CallOK
  <2>2. CASE d.pc # "count"
    <3>1. d.pc = "raised" /\ d.attempt = c.attempt /\ d.result = "worker_error"
          /\ (d.exhausted => Len(s) = MaxRetries + 1) BY <1>5, <2>2
    <3>2. d.attempt \in 0..MaxRetries /\ Len(s) <= d.attempt + 1
      BY <1>1, <1>2, <3>1, MaxRetriesAssumption
    <3> QED BY <1>1, <1>2, <1>3, <1>4, <3>1, <3>2 DEF CallOK
  <2> QED BY <2>1, <2>2
<1>8. Quarantine(t, b.attempts, b.quarantined)
  <2>1. Quarantine(t, a.attempts, a.quarantined) BY DEF AdapterOK
  <2>2. \A k \in 1..Len(a.attempts) : a.attempts[k].id # r.id BY <1>1
  <2>3. Quarantine(t, Append(a.attempts, r), Append(a.quarantined, r.id))
    BY <1>1, <2>1, <2>2, QuarantineAdds
  <2> QED BY <1>4, <2>3
<1>9. \A k \in 1..Len(b.attempts) :
        LET id == b.attempts[k].id IN id[2] < c.n \/ (id[2] = c.n /\ id[3] < Len(s))
  <2>1. a.attempts \in Seq(AttemptRecords(t)) /\ Len(s) \in Nat /\ c.attempt < Len(s)
    BY <1>1, <1>2 DEF AdapterOK, Quarantine
  <2> QED BY <1>1, <1>2, <1>4, <2>1, OlderAdds
<1>10. /\ b.invocations \in Nat /\ b.retries \in Nat
       /\ d.pc \in {"count", "counted"} => b.invocations + 1 = b.retries + d.n
       /\ d.pc \notin {"count", "counted"} => b.invocations = b.retries + d.n
       /\ d.pc # "counted" /\ d.pc # "parse"
  <2>4. /\ c.n \in Nat /\ d.n = c.n /\ b.invocations = a.invocations
        /\ a.invocations = a.retries + c.n /\ a.invocations \in Nat /\ a.retries \in Nat
    BY <1>1, <1>4, <1>6
  <2>1. CASE d.pc = "count" /\ b.retries = a.retries + 1 BY <2>1, <2>4
  <2>2. CASE d.pc = "raised" /\ b.retries = a.retries BY <2>2, <2>4
  <2>3. \/ d.pc = "count" /\ b.retries = a.retries + 1
        \/ d.pc = "raised" /\ b.retries = a.retries BY <1>5
  <2> QED BY <2>1, <2>2, <2>3
<1>11. AdapterOK(t, b, d) BY <1>4, <1>6, <1>8, <1>9, <1>10 DEF AdapterOK
<1> QED BY <1>7, <1>11

\* An attempt with a document: kept by the adapter only behind failures.
CallAnswered(t, a, c, b, d) ==
  LET r == [id |-> <<t, c.n, c.attempt>>, failed |-> FALSE]
      keep == c.attempts # <<>>
  IN /\ d = [c EXCEPT !.pc = "parse", !.attempts = Append(@, r)]
     /\ b = [a EXCEPT !.attempts = IF keep THEN Append(@, r) ELSE @, !.retained = keep]

LEMMA DocumentKeeps ==
  ASSUME NEW t, NEW a, NEW c, CallOK(t, c), AdapterOK(t, a, c), c.pc = "running",
         NEW d, NEW b, CallAnswered(t, a, c, b, d)
  PROVE  CallOK(t, d) /\ AdapterOK(t, b, d)
<1>20. PICK r, s, keep : /\ r = [id |-> <<t, c.n, c.attempt>>, failed |-> FALSE]
                        /\ s = Append(c.attempts, r) /\ keep = (c.attempts # <<>>)
  OBVIOUS
<1>21. /\ d = [c EXCEPT !.pc = "parse", !.attempts = s]
       /\ b = [a EXCEPT !.attempts = IF keep THEN Append(@, r) ELSE @, !.retained = keep]
       /\ keep \in BOOLEAN BY <1>20 DEF CallAnswered
<1>0. AttemptOf(t, c, r) /\ r.failed = FALSE BY <1>20 DEF AttemptOf
<1>1. /\ r \in AttemptRecords(t) /\ r.id = <<t, c.n, c.attempt>>
      /\ c.attempt \in Nat /\ c.n \in Nat /\ c.attempt <= MaxRetries
      /\ \A k \in 1..Len(a.attempts) : a.attempts[k].id # <<t, c.n, c.attempt>>
  BY <1>0, AttemptNew
<1>2. /\ s \in Seq(AttemptRecords(t)) /\ Len(s) = c.attempt + 1
      /\ \A k \in 1..Len(s) : s[k].id = <<t, c.n, k - 1>>
      /\ s[Len(s)] = r
      /\ \A k \in 1..Len(a.attempts) :
           LET id == a.attempts[k].id IN id[2] < c.n \/ (id[2] = c.n /\ id[3] < Len(s))
  BY <1>0, <1>20, ListGrows
<1>3. /\ d.pc = "parse" /\ d.n = c.n /\ d.attempt = c.attempt /\ d.attempts = s
      /\ d.result = c.result /\ d.exhausted = c.exhausted /\ DOMAIN d = DOMAIN c
  BY <1>21 DEF CallOK
<1>4. /\ b.attempts = IF keep THEN Append(a.attempts, r) ELSE a.attempts
      /\ b.retained = keep /\ b.quarantined = a.quarantined /\ b.retries = a.retries
      /\ b.owner = a.owner /\ b.invocations = a.invocations /\ DOMAIN b = DOMAIN a
  BY <1>21 DEF AdapterOK
<1>5. c.result = "none" /\ ~c.exhausted /\ a.owner = t /\ a.invocations = a.retries + c.n
      /\ a.invocations \in Nat /\ a.retries \in Nat BY DEF CallOK, AdapterOK
<1>6. CallOK(t, d) BY <1>1, <1>2, <1>3, <1>0, <1>5, MaxRetriesAssumption DEF CallOK
<1>7. /\ Quarantine(t, b.attempts, b.quarantined)
      /\ \A k \in 1..Len(b.attempts) :
           LET id == b.attempts[k].id IN id[2] < c.n \/ (id[2] = c.n /\ id[3] < Len(s))
      /\ IF keep THEN LET z == b.attempts[Len(b.attempts)]
                      IN Len(b.attempts) # 0 /\ z.id = <<t, c.n, c.attempt>> /\ ~z.failed
         ELSE \A k \in 1..Len(b.attempts) : b.attempts[k].id # <<t, c.n, c.attempt>>
  <2>1. Quarantine(t, a.attempts, a.quarantined) BY DEF AdapterOK
  <2>2. CASE keep
    <3>1. b.attempts = Append(a.attempts, r) BY <1>4, <2>2
    <3>2. \A k \in 1..Len(a.attempts) : a.attempts[k].id # r.id BY <1>1
    <3>3. Quarantine(t, Append(a.attempts, r), a.quarantined)
      BY <1>0, <1>1, <2>1, <3>2, QuarantineAdds
    <3>4. a.attempts \in Seq(AttemptRecords(t)) /\ Len(s) \in Nat /\ c.attempt < Len(s)
      BY <1>1, <1>2, <2>1 DEF Quarantine
    <3>5. /\ Len(b.attempts) # 0 /\ b.attempts[Len(b.attempts)] = r
          /\ \A k \in 1..Len(b.attempts) :
               LET id == b.attempts[k].id IN id[2] < c.n \/ (id[2] = c.n /\ id[3] < Len(s))
      BY <1>1, <1>2, <3>1, <3>4, OlderAdds, SMTT(30)
    <3> QED BY <1>0, <1>1, <1>4, <2>2, <3>1, <3>3, <3>5
  <2>3. CASE ~keep BY <1>4, <1>1, <1>2, <2>3, <2>1
  <2> QED BY <2>2, <2>3
<1>8. AdapterOK(t, b, d) BY <1>3, <1>4, <1>5, <1>7, <1>21 DEF AdapterOK
<1> QED BY <1>6, <1>8

\* The last record of a list marked as failed.
LEMMA LastMarked ==
  ASSUME NEW t, NEW s, s \in Seq(AttemptRecords(t)), Len(s) # 0,
         NEW z, z = ReplaceLast(s, Failed(s[Len(s)]))
  PROVE  /\ z \in Seq(AttemptRecords(t)) /\ Len(z) = Len(s)
         /\ \A k \in 1..Len(s) : z[k].id = s[k].id
         /\ Failed(s[Len(s)]) \in AttemptRecords(t)
         /\ Failed(s[Len(s)]).id = s[Len(s)].id /\ Failed(s[Len(s)]).failed
<1> DEFINE n == Len(s)
           f == Failed(s[n])
<1>1. n \in Nat /\ n \in 1..n OBVIOUS
<1>2. s[n] \in AttemptRecords(t) BY <1>1, ElementOfSeq
<1>3. f \in AttemptRecords(t) /\ f.id = s[n].id /\ f.failed
  BY <1>2 DEF AttemptRecords, Failed
<1>4. z = [s EXCEPT ![n] = f] BY DEF ReplaceLast
<1>5. Len(s) = n OBVIOUS
<1> HIDE DEF n, f
<1>6. /\ z \in Seq(AttemptRecords(t)) /\ Len(z) = n
      /\ \A k \in 1..n : z[k] = IF k = n THEN f ELSE s[k]
  BY <1>1, <1>3, <1>4, <1>5, ExceptSeq
<1>7. \A k \in 1..n : z[k].id = s[k].id BY <1>3, <1>6
<1> QED BY <1>3, <1>6, <1>7 DEF n, f

\* A document that describes no frontier: the attempt counts as failed after all.
CallRejected(a, c, b, d) ==
  LET m == Failed(LastAttempt(c.attempts))
  IN /\ d = [c EXCEPT !.pc = "raised", !.attempts = ReplaceLast(@, m), !.result = "worker_error"]
     /\ b = [a EXCEPT
          !.attempts = IF a.retained THEN ReplaceLast(@, m) ELSE Append(@, m),
          !.retained = TRUE,
          !.quarantined = IF m.id \in {a.quarantined[i] : i \in 1..Len(a.quarantined)} THEN @
                          ELSE Append(@, m.id)]

LEMMA RejectKeeps ==
  ASSUME NEW t, NEW a, NEW c, CallOK(t, c), AdapterOK(t, a, c), c.pc = "parse",
         NEW d, NEW b, CallRejected(a, c, b, d)
  PROVE  CallOK(t, d) /\ AdapterOK(t, b, d)
<1>20. PICK m, s : m = Failed(LastAttempt(c.attempts)) /\ s = ReplaceLast(c.attempts, m)
  OBVIOUS
<1>21. /\ d = [c EXCEPT !.pc = "raised", !.attempts = s, !.result = "worker_error"]
       /\ b = [a EXCEPT
            !.attempts = IF a.retained THEN ReplaceLast(@, m) ELSE Append(@, m),
            !.retained = TRUE,
            !.quarantined = IF m.id \in {a.quarantined[i] : i \in 1..Len(a.quarantined)} THEN @
                            ELSE Append(@, m.id)] BY <1>20 DEF CallRejected
<1> DEFINE x == c.attempts
           h == x[Len(x)]
           q == a.quarantined
<1>1. /\ x \in Seq(AttemptRecords(t)) /\ Len(x) = c.attempt + 1 /\ Len(x) # 0
      /\ c.attempt \in Nat /\ c.n \in Nat /\ c.attempt \in 0..MaxRetries
      /\ \A k \in 1..Len(x) : x[k].id = <<t, c.n, k - 1>>
      /\ ~h.failed /\ c.result = "none" /\ ~c.exhausted
  BY MaxRetriesAssumption DEF CallOK
<1>2. Len(x) \in 1..Len(x) /\ Len(x) - 1 = c.attempt BY <1>1
<1>3. h \in AttemptRecords(t) /\ h.id = <<t, c.n, c.attempt>>
  BY <1>1, <1>2, ElementOfSeq
<1>4. m = Failed(h) /\ s = ReplaceLast(x, Failed(x[Len(x)])) BY <1>20 DEF LastAttempt
<1>5. /\ s \in Seq(AttemptRecords(t)) /\ Len(s) = Len(x)
      /\ \A k \in 1..Len(x) : s[k].id = x[k].id
      /\ m \in AttemptRecords(t) /\ m.id = h.id /\ m.failed
  <2> HIDE DEF x
  <2> QED BY <1>1, <1>4, LastMarked
<1>6. /\ d.pc = "raised" /\ d.n = c.n /\ d.attempt = c.attempt /\ d.attempts = s
      /\ d.result = "worker_error" /\ d.exhausted = c.exhausted /\ DOMAIN d = DOMAIN c
  BY <1>21 DEF CallOK
<1>7. CallOK(t, d)
  <2> HIDE DEF x, h
  <2>1. Len(s) <= c.attempt + 1 /\ \A k \in 1..Len(s) : s[k].id = <<t, c.n, k - 1>>
    BY <1>1, <1>5
  <2> QED BY <1>1, <1>5, <1>6, <2>1 DEF CallOK
<1>8. /\ b.attempts = IF a.retained THEN ReplaceLast(a.attempts, m) ELSE Append(a.attempts, m)
      /\ b.quarantined = IF m.id \in {q[i] : i \in 1..Len(q)} THEN q ELSE Append(q, m.id)
      /\ b.owner = a.owner /\ b.retries = a.retries
      /\ b.invocations = a.invocations /\ DOMAIN b = DOMAIN a BY <1>21 DEF AdapterOK
<1>9. /\ Quarantine(t, a.attempts, q)
      /\ \A k \in 1..Len(a.attempts) :
           LET id == a.attempts[k].id IN id[2] < c.n \/ (id[2] = c.n /\ id[3] < Len(x))
      /\ a.owner = t /\ a.invocations = a.retries + c.n
      /\ a.invocations \in Nat /\ a.retries \in Nat
      /\ IF a.retained
         THEN LET z == a.attempts[Len(a.attempts)]
              IN Len(a.attempts) # 0 /\ z.id = <<t, c.n, c.attempt>> /\ ~z.failed
         ELSE \A k \in 1..Len(a.attempts) : a.attempts[k].id # <<t, c.n, c.attempt>>
  BY DEF AdapterOK
<1> HIDE DEF x, h, q
<1>10. /\ Quarantine(t, b.attempts, b.quarantined)
       /\ \A k \in 1..Len(b.attempts) :
            LET id == b.attempts[k].id IN id[2] < c.n \/ (id[2] = c.n /\ id[3] < Len(x))
  <2>1. a.attempts \in Seq(AttemptRecords(t)) /\ q \in Seq({t} \X Nat \X Nat)
    BY <1>9 DEF Quarantine
  <2>2. CASE a.retained
    <3> DEFINE z == a.attempts[Len(a.attempts)]
    <3>1. Len(a.attempts) # 0 /\ z.id = <<t, c.n, c.attempt>> /\ ~z.failed
      BY <1>9, <2>2
    <3>2. z \in AttemptRecords(t) BY <2>1, <3>1, ElementOfSeq
    <3>3. z = h
      <4>1. h.failed = FALSE /\ z.failed = FALSE
        BY <1>1, <1>3, <3>1, <3>2 DEF h, AttemptRecords
      <4> QED BY <1>3, <3>1, <3>2, <4>1 DEF AttemptRecords
    <3>4. /\ \A k \in 1..Len(q) : q[k] # z.id
          /\ Quarantine(t, ReplaceLast(a.attempts, Failed(z)), Append(q, z.id))
          /\ Len(ReplaceLast(a.attempts, Failed(z))) = Len(a.attempts)
          /\ \A k \in 1..Len(a.attempts) :
               ReplaceLast(a.attempts, Failed(z))[k].id = a.attempts[k].id
      <4>1. Quarantine(t, a.attempts, q) /\ Len(a.attempts) # 0 /\ ~ a.attempts[Len(a.attempts)].failed
        BY <1>9, <3>1
      <4> QED BY <4>1, QuarantineMarks
    <3> HIDE DEF z
    <3>5. b.attempts = ReplaceLast(a.attempts, Failed(z)) /\ b.quarantined = Append(q, z.id)
      BY <1>3, <1>4, <1>5, <1>8, <2>2, <3>1, <3>3, <3>4
    <3> QED BY <1>9, <3>4, <3>5
  <2>3. CASE ~a.retained
    <3>1. \A k \in 1..Len(a.attempts) : a.attempts[k].id # m.id
      BY <1>3, <1>5, <1>9, <2>3
    <3>2. \A k \in 1..Len(q) : q[k] # m.id BY <1>9, <3>1 DEF Quarantine
    <3>3. b.attempts = Append(a.attempts, m) /\ b.quarantined = Append(q, m.id)
      BY <1>8, <2>3, <3>2
    <3>4. Quarantine(t, Append(a.attempts, m), Append(q, m.id))
      BY <1>5, <1>9, <3>1, QuarantineAdds
    <3>5. Len(x) \in Nat /\ c.attempt < Len(x) /\ m.id = <<t, c.n, c.attempt>>
      BY <1>1, <1>3, <1>5
    <3>6. \A k \in 1..Len(b.attempts) :
            LET id == b.attempts[k].id IN id[2] < c.n \/ (id[2] = c.n /\ id[3] < Len(x))
      <4>1. \A k \in 1..Len(a.attempts) :
              LET id == a.attempts[k].id IN id[2] < c.n \/ (id[2] = c.n /\ id[3] < Len(x))
        BY <1>9
      <4>2. /\ a.attempts \in Seq(AttemptRecords(t)) /\ c.n \in Nat /\ c.attempt \in Nat
            /\ m \in AttemptRecords(t) BY <1>1, <1>5, <2>1
      <4>3. PICK l \in Nat : l = Len(x) BY <3>5
      <4>4. /\ \A k \in 1..Len(a.attempts) :
                 LET id == a.attempts[k].id IN id[2] < c.n \/ (id[2] = c.n /\ id[3] < l)
            /\ c.attempt < l /\ m.id = <<t, c.n, c.attempt>> BY <3>5, <4>1, <4>3
      <4>5. LET z == Append(a.attempts, m) IN \A k \in 1..Len(z) :
              LET id == z[k].id IN id[2] < c.n \/ (id[2] = c.n /\ id[3] < l)
        BY <4>2, <4>4, OlderAdds
      <4> QED BY <3>3, <4>3, <4>5
    <3> QED BY <3>3, <3>4, <3>6
  <2> QED BY <2>2, <2>3
<1>11. AdapterOK(t, b, d) BY <1>5, <1>6, <1>10, <1>8, <1>9 DEF AdapterOK
<1> QED BY <1>7, <1>11

\* A step of the one caller is a step of its call's record.
LEMMA OneCall ==
  ASSUME NEW t, NEW f, f = [u \in {t} |-> f[u]], NEW d, NEW g, g = [f EXCEPT ![t] = d]
  PROVE  g = [u \in {t} |-> g[u]] /\ g[t] = d
OBVIOUS

LEMMA FwStepKeeps ==
  ASSUME NEW t, FwThreads = {t}, FwInv(t, adapter, call), [FwNext]_fwVars
  PROVE  FwInv(t, adapter', call')
<1> DEFINE c == call[t]
           a == adapter
<1>1. call = [u \in {t} |-> call[u]] /\ CallOK(t, c) /\ AdapterOK(t, a, c) BY DEF FwInv
<1>2. CASE UNCHANGED fwVars BY <1>2 DEF fwVars
<1>3. ASSUME NEW d, NEW b, call' = [call EXCEPT ![t] = d], adapter' = b,
             CallOK(t, d) /\ AdapterOK(t, b, d)
      PROVE  FwInv(t, adapter', call') BY <1>1, <1>3, OneCall DEF FwInv
<1>4. CASE FwCall(t)
  <2> DEFINE d == [NoCall EXCEPT !.pc = "count", !.n = c.n + 1]
             b == [a EXCEPT !.owner = t, !.retained = FALSE]
  <2>1. c.pc = "idle" /\ call' = [call EXCEPT ![t] = d] /\ adapter' = b
    BY <1>4 DEF FwCall
  <2> HIDE DEF c, a
  <2>2. CallOK(t, d) /\ AdapterOK(t, b, d) BY <1>1, <2>1, BeginKeeps
  <2> QED BY <1>3, <2>1, <2>2
<1>5. CASE FwCountRead(t) \/ FwCountWrite(t) \/ FwParsed(t) \/ FwReturn(t)
  <2>1. PICK d, b :
          /\ call' = [call EXCEPT ![t] = d] /\ adapter' = b
          /\ \/ /\ c.pc = "count" /\ d = [c EXCEPT !.pc = "counted", !.read = a.invocations]
                /\ b = a
             \/ /\ c.pc = "counted" /\ d = [c EXCEPT !.pc = "running"]
                /\ b = [a EXCEPT !.invocations = c.read + 1]
             \/ /\ c.pc = "parse" /\ d = [c EXCEPT !.pc = "returned", !.result = "frontier"]
                /\ b = a
             \/ c.pc \in {"returned", "raised"} /\ d = [c EXCEPT !.pc = "idle"] /\ b = a
    <3>1. CASE FwCountRead(t) BY <3>1 DEF FwCountRead
    <3>2. CASE FwCountWrite(t) BY <3>2 DEF FwCountWrite
    <3>3. CASE FwParsed(t) BY <3>3 DEF FwParsed
    <3>4. CASE FwReturn(t) BY <3>4 DEF FwReturn
    <3> QED BY <1>5, <3>1, <3>2, <3>3, <3>4
  <2> HIDE DEF c, a
  <2>2. CallOK(t, d) /\ AdapterOK(t, b, d) BY <1>1, <2>1, CountKeeps
  <2> QED BY <1>3, <2>1, <2>2
<1>6. ASSUME NEW o \in Outcomes, FwFails(t, o) PROVE FwInv(t, adapter', call')
  <2>1. PICK r : r = [id |-> <<t, c.n, c.attempt>>, failed |-> TRUE] OBVIOUS
  <2>2. PICK s : s = Append(c.attempts, r) OBVIOUS
  <2>3. r = Record(t, TRUE) /\ AttemptId(t) = r.id BY <2>1 DEF Record, AttemptId
  <2>4. PICK d, b : d = call'[t] /\ b = adapter' OBVIOUS
  <2>5. c.pc = "running" /\ call' = [call EXCEPT ![t] = d]
    BY <1>1, <1>6, <2>4 DEF FwFails
  <2>6. CallFails(t, a, c, b, d)
    <3> DEFINE P == FailureOf(o).retryable /\ c.attempt < MaxRetries
    <3>1. CASE P
      BY <1>1, <1>6, <2>2, <2>3, <2>4, <2>1, <3>1 DEF FwFails, AppendAttempt, CallFails
    <3>2. CASE ~P
      <4>1. d = [c EXCEPT !.pc = "raised", !.attempts = s, !.result = "worker_error",
                          !.exhausted = FailureOf(o).retryable /\ Len(s) = MaxRetries + 1]
        BY <1>1, <1>6, <2>2, <2>3, <2>4, <3>2 DEF FwFails
      <4>2. d.exhausted = (FailureOf(o).retryable /\ Len(s) = MaxRetries + 1)
        BY <1>1, <4>1 DEF CallOK
      <4>3. b = [AppendAttempt(t, TRUE) EXCEPT !.retries = @]
        BY <1>6, <2>4, <3>2 DEF FwFails
      <4>4. b = [a EXCEPT !.attempts = Append(@, r), !.retained = TRUE,
                          !.quarantined = Append(@, r.id)]
        BY <2>3, <4>3 DEF AppendAttempt
      <4> QED BY <2>1, <2>2, <4>1, <4>2, <4>4 DEF CallFails
    <3> QED BY <3>1, <3>2
  <2> HIDE DEF c, a
  <2>7. CallOK(t, d) /\ AdapterOK(t, b, d) BY <1>1, <2>5, <2>6, FailKeeps
  <2> QED BY <1>3, <2>4, <2>5, <2>7
<1>7. CASE FwDocument(t)
  <2>1. PICK d, b : d = call'[t] /\ b = adapter' OBVIOUS
  <2>2. c.pc = "running" /\ call' = [call EXCEPT ![t] = d]
    BY <1>1, <1>7, <2>1 DEF FwDocument
  <2>3. CallAnswered(t, a, c, b, d)
    BY <1>1, <1>7, <2>1 DEF FwDocument, CallAnswered, AppendAttempt, Record, AttemptId
  <2> HIDE DEF c, a
  <2>4. CallOK(t, d) /\ AdapterOK(t, b, d) BY <1>1, <2>2, <2>3, DocumentKeeps
  <2> QED BY <1>3, <2>1, <2>2, <2>4
<1>8. CASE FwRejected(t)
  <2>1. PICK d, b : d = call'[t] /\ b = adapter' OBVIOUS
  <2>2. c.pc = "parse" /\ a.owner = t /\ c.attempts # <<>>
    BY <1>8, <1>1, MaxRetriesAssumption DEF FwRejected, CallOK, AdapterOK
  <2>3. PICK m, s : m = Failed(LastAttempt(c.attempts)) /\ s = ReplaceLast(c.attempts, m)
    OBVIOUS
  <2>4. /\ call' = [[call EXCEPT ![t].attempts = s] EXCEPT
                      ![t].pc = "raised", ![t].result = "worker_error", ![t].attempts = s]
        /\ b = [a EXCEPT
              !.attempts = IF a.retained THEN ReplaceLast(@, m) ELSE Append(@, m),
              !.retained = TRUE,
              !.quarantined = IF m.id \in {a.quarantined[i] : i \in 1..Len(a.quarantined)} THEN @
                              ELSE Append(@, m.id)]
    BY <1>8, <2>1, <2>2, <2>3 DEF FwRejected
  <2>5. /\ d = [c EXCEPT !.pc = "raised", !.attempts = s, !.result = "worker_error"]
        /\ call' = [call EXCEPT ![t] = d] BY <1>1, <2>1, <2>4
  <2>6. CallRejected(a, c, b, d) BY <2>3, <2>4, <2>5 DEF CallRejected
  <2> HIDE DEF c, a
  <2>7. CallOK(t, d) /\ AdapterOK(t, b, d) BY <1>1, <2>2, <2>6, RejectKeeps
  <2> QED BY <1>3, <2>1, <2>5, <2>7
<1> QED BY <1>2, <1>4, <1>5, <1>6, <1>7, <1>8 DEF FwNext, FwStep

\* The ids of the failed records of a list.
LEMMA FailedIdsAre ==
  ASSUME NEW s
  PROVE  \A x : x \in FailedIds(s) <=> \E k \in 1..Len(s) : s[k].failed /\ s[k].id = x
BY DEF FailedIds

\* A list without repetitions has as many members as positions.
LEMMA CountOnce ==
  ASSUME NEW n \in Nat, NEW g, \A k, m \in 1..n : g[k] = g[m] => k = m,
         NEW S, \A x : x \in S <=> \E k \in 1..n : g[k] = x
  PROVE  Cardinality(S) = n
<1> DEFINE f == [k \in 1..n |-> g[k]]
<1>1. IsFiniteSet(1..n) /\ Cardinality(1..n) = n BY FS_Interval
<1>2. f \in Surjection(1..n, S) BY DEF Surjection
<1>3. f \in Injection(1..n, S) BY DEF Injection, IsInjective
<1> HIDE DEF f
<1> QED BY <1>1, <1>2, <1>3, FS_Surjection

\* What the invariant says of the quarantine and of the counters.
LEMMA FwInvImplies ==
  ASSUME NEW t, FwThreads = {t}, FwInv(t, adapter, call)
  PROVE  QuarantineExact /\ RetriesAccounted
<1> DEFINE c == call[t]
           q == adapter.quarantined
           s == adapter.attempts
<1>1. CallOK(t, c) /\ AdapterOK(t, adapter, c) BY DEF FwInv
<1>2. Quarantine(t, s, q) BY <1>1 DEF AdapterOK
<1> HIDE DEF c, q, s
<1>3. \A x : x \in FailedIds(s) <=> \E k \in 1..Len(q) : q[k] = x
  <2>1. ASSUME NEW x, x \in FailedIds(s) PROVE \E k \in 1..Len(q) : q[k] = x
    <3>1. PICK m \in 1..Len(s) : s[m].failed /\ s[m].id = x BY <2>1, FailedIdsAre
    <3> QED BY <1>2, <3>1 DEF Quarantine
  <2>2. ASSUME NEW x, NEW k \in 1..Len(q), q[k] = x PROVE x \in FailedIds(s)
    BY <1>2, <2>2, FailedIdsAre DEF Quarantine
  <2> QED BY <2>1, <2>2
<1>4. {q[i] : i \in 1..Len(q)} = FailedIds(s) BY <1>3
<1>5. Cardinality(FailedIds(s)) = Len(q)
  <2>1. Len(q) \in Nat /\ \A k, m \in 1..Len(q) : q[k] = q[m] => k = m
    BY <1>2 DEF Quarantine
  <2> QED BY <1>3, <2>1, CountOnce
<1>6. c.result = "frontier" => ~ LastAttempt(c.attempts).failed
  BY <1>1 DEF CallOK, LastAttempt
<1>7. QuarantineExact BY <1>4, <1>5, <1>6 DEF QuarantineExact, c, q, s
<1>8. Len(c.attempts) <= MaxRetries + 1 BY <1>1, MaxRetriesAssumption DEF CallOK
<1>9. ASSUME c.exhausted PROVE Cardinality(FailedIds(c.attempts)) = MaxRetries + 1
  <2> DEFINE x == c.attempts
             g == [k \in 1..Len(x) |-> <<t, c.n, k - 1>>]
  <2>1. /\ Len(x) = MaxRetries + 1 /\ Len(x) \in Nat
        /\ \A k \in 1..Len(x) : x[k].failed /\ x[k].id = <<t, c.n, k - 1>>
    BY <1>1, <1>9 DEF CallOK
  <2>2. \A k, m \in 1..Len(x) : g[k] = g[m] => k = m BY <2>1
  <2>3. \A k \in 1..Len(x) : x[k].id = g[k] BY <2>1
  <2> HIDE DEF x, g
  <2>4. \A y : y \in FailedIds(x) <=> \E k \in 1..Len(x) : g[k] = y
    BY <2>1, <2>3, FailedIdsAre, SMTT(30)
  <2>5. Cardinality(FailedIds(x)) = Len(x)
    <3>1. Len(x) \in Nat BY <2>1
    <3>2. PICK S : S = FailedIds(x) OBVIOUS
    <3>3. \A y : y \in S <=> \E k \in 1..Len(x) : g[k] = y BY <2>4, <3>2
    <3>4. Cardinality(S) = Len(x) BY <2>2, <3>1, <3>3, CountOnce
    <3> QED BY <3>2, <3>4
  <2> QED BY <2>1, <2>5 DEF x
<1>10. c.pc = "idle" => adapter.invocations = adapter.retries + c.n
  BY <1>1 DEF AdapterOK
<1>11. RetriesAccounted BY <1>8, <1>9, <1>10 DEF RetriesAccounted, c
<1> QED BY <1>7, <1>11

\* prototype/frontier.py and engine/search/parallel.py: for any plan, any list
\* of pool sizes and any number of retries of the adapter, in every order of
\* the workers' answers, no attempt is lost, counted twice or believed after it
\* failed, and the aggregate is the same for all orders and pools.  One caller
\* replays through the adapter; the driver's plan retries a task once
\* (prototype/real_core_stress.py), which its verdict counts on.
THEOREM AttemptsSafety ==
  ASSUME NEW t, FwThreads = {t}, PpRetries = 1
  PROVE  FwSpec /\ PpSpec => []AttemptsAccounted
<1>1. FwInit => FwInv(t, adapter, call) BY FwInitially
<1>2. FwInv(t, adapter, call) /\ [FwNext]_fwVars => FwInv(t, adapter, call)'
  BY FwStepKeeps
<1>3. PpInit => PlanInv(ppPlan) BY PlanInitially
<1>4. PlanInv(ppPlan) /\ [PpNext]_ppPlan => PlanInv(ppPlan)' BY PlanStep
<1>5. FwInv(t, adapter, call) /\ PlanInv(ppPlan) => AttemptsAccounted
  BY FwInvImplies, PlanInvImplies DEF AttemptsAccounted
<1> QED BY <1>1, <1>2, <1>3, <1>4, <1>5, PTL DEF FwSpec, PpSpec

=============================================================================
