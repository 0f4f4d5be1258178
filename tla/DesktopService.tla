--------------------------- MODULE DesktopService ---------------------------
(***************************************************************************)
(* The handlers behind the desktop window.  Every bridge call runs in a    *)
(* thread of its own: what it reads before it takes the lock of a catalog  *)
(* may be old when it writes.  Decks and their evaluation profiles live in *)
(* JSON catalogs, the content of a profile and an experiment in files that *)
(* are named by their digest.  Around them the shell of the process: one   *)
(* lock file, two supervisors that are started and stopped.                *)
(***************************************************************************)
EXTENDS Integers, Sequences, FiniteSets

CONSTANTS
  DeckIds, DeckCards,       \* the decks and the cards in each
  Contents, ContentCards,   \* profile contents and the cards their rules name
  Calls,                    \* threads of the bridge
  Shells,                   \* processes of the desktop
  MaxDecks,                 \* MAX_CATALOG_DECKS
  MaxDesktopRetries,        \* bound: how often the window repeats a request
  MaxProfiles               \* bound: profiles in the catalog

\* There is a largest deck and a content for it, with which the catalogs begin.
ASSUME ServiceAssumption ==
  /\ MaxDecks \in Nat \ {0}
  /\ \E d \in DeckIds : /\ \A e \in DeckIds : Cardinality(DeckCards[d]) >= Cardinality(DeckCards[e])
                        /\ \A f \in DeckIds :
                             (\A e \in DeckIds : Cardinality(DeckCards[f]) >= Cardinality(DeckCards[e]))
                               => \E c \in Contents : ContentCards[c] \subseteq DeckCards[f]

VARIABLES
  dsDecks, dsProfiles, dsContents,  \* the two catalogs and the content files
  dsFiles,    \* experiment file per content: final and temporary, who has it open
  dsJobs,     \* per idempotency key the experiment enqueued
  dsCalls,    \* per thread the request, its step, what it read, its outcome
  dsHistory,  \* committed updates per profile; jobs created per request
  shStage, shLock, shRunning, shFailed  \* the shells

dsVars == <<dsDecks, dsProfiles, dsContents, dsFiles, dsJobs, dsCalls, dsHistory>>
shVars == <<shStage, shLock, shRunning, shFailed>>

Absent == "absent"
Partial == "partial"
Complete == "complete"

\* DesktopDeckTerminalProfileRecord; its id is its place in the catalog.
Profile(deck, content) == [deck |-> deck, content |-> content, state |-> "active", revision |-> 1]

IdleCall == [method |-> "", step |-> 0, deck |-> "", profile |-> 0, content |-> "",
         key |-> 0, tries |-> 0, outcome |-> ""]

\* What a handler does, one step per lock or file operation.
Steps == [register |-> <<"register">>, create |-> <<"check", "content", "create">>,
          update |-> <<"check", "content", "update">>, archive |-> <<"archive">>,
          enqueue |-> <<"compose", "exists", "open", "write", "replace", "job">>]

-----------------------------------------------------------------------------
DsInit ==
  LET deck == CHOOSE d \in DeckIds : \A e \in DeckIds : Cardinality(DeckCards[d]) >= Cardinality(DeckCards[e])
      content == CHOOSE c \in Contents : ContentCards[c] \subseteq DeckCards[deck]
  IN  /\ dsDecks = {deck} /\ dsProfiles = <<Profile(deck, content)>> /\ dsContents = {content}
      /\ dsFiles = [c \in Contents |-> [final |-> Absent, temporary |-> Absent, open |-> {}]]
      /\ dsJobs = <<>>
      /\ dsCalls = [t \in Calls |-> IdleCall]
      /\ dsHistory = [updates |-> <<0>>, created |-> [t \in Calls |-> 0]]

\* The bridge accepts a request and hands it to the handler.
Request(t) ==
  /\ dsCalls[t].method = ""
  /\ \E method \in DOMAIN Steps, d \in DeckIds, p \in DOMAIN dsProfiles, c \in Contents :
       /\ method = "register" => p = 1 /\ c \in dsContents
       /\ method = "archive" => d = dsProfiles[p].deck /\ c \in dsContents
       /\ method = "update" => d = dsProfiles[p].deck
       /\ method = "enqueue" => c = dsProfiles[p].content
       /\ dsCalls' = [dsCalls EXCEPT ![t] = [IdleCall EXCEPT !.method = method, !.step = 1, !.deck = d,
                        !.profile = p, !.content = c, !.key = t]]
  /\ UNCHANGED <<dsDecks, dsProfiles, dsContents, dsFiles, dsJobs, dsHistory>>

At(t, step) ==
  /\ dsCalls[t].outcome = "" /\ dsCalls[t].step > 0
  /\ Steps[dsCalls[t].method][dsCalls[t].step] = step

\* The thread goes on, answers when it was at its last step, or fails.
Proceed(t) ==
  LET c == dsCalls[t]
      done == c.step = Len(Steps[c.method])
  IN  [c EXCEPT !.step = IF done THEN @ ELSE @ + 1, !.outcome = IF done THEN "ok" ELSE ""]
Fail(t) == [dsCalls[t] EXCEPT !.outcome = "failed"]
Goes(t, next) == dsCalls' = [dsCalls EXCEPT ![t] = next]

\* What a locked section works on: the file as it is now.
Registered(t) == dsDecks
RegisterDeck(t) ==
  /\ At(t, "register")
  /\ LET deck == dsCalls[t].deck
         full == deck \notin Registered(t) /\ Cardinality(Registered(t)) >= MaxDecks
     IN  /\ dsDecks' = IF full THEN dsDecks ELSE dsDecks \cup {deck}
         /\ Goes(t, IF full THEN Fail(t) ELSE Proceed(t))
  /\ UNCHANGED <<dsProfiles, dsContents, dsFiles, dsJobs, dsHistory>>

\* A rule may only name cards of the profile's own deck.
RuleCards(deck) == DeckCards[deck]
CheckProfile(t) ==
  /\ At(t, "check")
  /\ LET c == dsCalls[t]
         deck == IF c.method = "update" THEN dsProfiles[c.profile].deck ELSE c.deck
         valid == deck \in dsDecks /\ ContentCards[c.content] \subseteq RuleCards(deck)
     IN  Goes(t, IF valid THEN Proceed(t) ELSE Fail(t))
  /\ UNCHANGED <<dsDecks, dsProfiles, dsContents, dsFiles, dsJobs, dsHistory>>

\* The content is written under its digest before a record points at it.
PutContent(t) ==
  /\ At(t, "content")
  /\ dsContents' = dsContents \cup {dsCalls[t].content}
  /\ Goes(t, Proceed(t))
  /\ UNCHANGED <<dsDecks, dsProfiles, dsFiles, dsJobs, dsHistory>>

CreateProfile(t) ==
  /\ At(t, "create") /\ Len(dsProfiles) < MaxProfiles
  /\ dsProfiles' = Append(dsProfiles, Profile(dsCalls[t].deck, dsCalls[t].content))
  /\ dsHistory' = [dsHistory EXCEPT !.updates = Append(@, 0)]
  /\ Goes(t, Proceed(t))
  /\ UNCHANGED <<dsDecks, dsContents, dsFiles, dsJobs>>

\* The record an update replaces, and whether it may.
Current(t) == dsProfiles[dsCalls[t].profile]
Editable(t) == dsProfiles[dsCalls[t].profile].state = "active"
UpdateProfile(t) ==
  /\ At(t, "update")
  /\ LET c == dsCalls[t]
     IN  IF Editable(t)
           THEN /\ dsProfiles' = [dsProfiles EXCEPT ![c.profile] =
                       [Current(t) EXCEPT !.content = c.content, !.state = "active", !.revision = @ + 1]]
                /\ dsHistory' = [dsHistory EXCEPT !.updates[c.profile] = @ + 1]
                /\ Goes(t, Proceed(t))
           ELSE Goes(t, Fail(t)) /\ UNCHANGED <<dsProfiles, dsHistory>>
  /\ UNCHANGED <<dsDecks, dsContents, dsFiles, dsJobs>>

ArchiveProfile(t) ==
  /\ At(t, "archive")
  /\ dsProfiles' = [dsProfiles EXCEPT ![dsCalls[t].profile].state = "archived"]
  /\ Goes(t, Proceed(t))
  /\ UNCHANGED <<dsDecks, dsContents, dsFiles, dsJobs, dsHistory>>

-----------------------------------------------------------------------------
(* scenario.compose_search and job.enqueue_search.                         *)

\* The profile must belong to the deck and be active; its content is read.
Compose(t) ==
  /\ At(t, "compose")
  /\ LET p == dsProfiles[dsCalls[t].profile]
         usable == /\ dsCalls[t].deck \in dsDecks /\ p.deck = dsCalls[t].deck
                   /\ p.state = "active" /\ p.content \in dsContents
     IN  Goes(t, IF usable THEN [Proceed(t) EXCEPT !.content = p.content] ELSE Fail(t))
  /\ UNCHANGED <<dsDecks, dsProfiles, dsContents, dsFiles, dsJobs, dsHistory>>

\* An experiment file that exists is not written again.
ExperimentExists(t) ==
  /\ At(t, "exists")
  /\ Goes(t, IF dsFiles[dsCalls[t].content].final = Absent THEN Proceed(t)
             ELSE [dsCalls[t] EXCEPT !.step = Len(Steps["enqueue"])])
  /\ UNCHANGED <<dsDecks, dsProfiles, dsContents, dsFiles, dsJobs, dsHistory>>

\* The file that is written: all threads share one temporary name.
InPlace == "final"
WriteTarget == "temporary"
OpenExperiment(t) ==
  /\ At(t, "open")
  /\ dsFiles' = [dsFiles EXCEPT ![dsCalls[t].content][WriteTarget] = Partial,
                                ![dsCalls[t].content].open = @ \cup {t}]
  /\ Goes(t, Proceed(t))
  /\ UNCHANGED <<dsDecks, dsProfiles, dsContents, dsJobs, dsHistory>>

WriteExperiment(t) ==
  /\ At(t, "write")
  /\ dsFiles' = [dsFiles EXCEPT ![dsCalls[t].content][WriteTarget] = Complete,
                                ![dsCalls[t].content].open = @ \ {t}]
  /\ Goes(t, Proceed(t))
  /\ UNCHANGED <<dsDecks, dsProfiles, dsContents, dsJobs, dsHistory>>

\* Replacing fails when another thread has the temporary file open or has
\* already moved it away.
ReplaceExperiment(t) ==
  /\ At(t, "replace")
  /\ LET f == dsFiles[dsCalls[t].content]
         moves == f[WriteTarget] # Absent /\ f.open = {}
     IN  /\ dsFiles' = IF ~moves \/ WriteTarget = "final" THEN dsFiles
                       ELSE [dsFiles EXCEPT ![dsCalls[t].content] =
                               [final |-> f.temporary, temporary |-> Absent, open |-> {}]]
         /\ Goes(t, IF moves THEN Proceed(t) ELSE Fail(t))
  /\ UNCHANGED <<dsDecks, dsProfiles, dsContents, dsJobs, dsHistory>>

\* create_job returns the job of a key that is known, and refuses the key
\* for another input.
JobKey(c) == <<c.key, 0>>
EnqueueSearch(t) ==
  /\ At(t, "job")
  /\ LET c == dsCalls[t]
         key == JobKey(c)
         known == key \in DOMAIN dsJobs
         conflict == known /\ dsJobs[key] # c.content
     IN  /\ dsJobs' = IF known THEN dsJobs
                      ELSE [k \in DOMAIN dsJobs \cup {key} |-> IF k = key THEN c.content ELSE dsJobs[k]]
         /\ dsHistory' = IF known THEN dsHistory ELSE [dsHistory EXCEPT !.created[t] = @ + 1]
         /\ Goes(t, IF conflict THEN Fail(t) ELSE Proceed(t))
  /\ UNCHANGED <<dsDecks, dsProfiles, dsContents, dsFiles>>

\* The answer is refused as too large after the handler did its work, or it
\* is lost; the window repeats the request with the same idempotency key.
AnswerLost(t) ==
  /\ dsCalls[t].outcome \in {"ok", "failed"} /\ dsCalls[t].method = "enqueue"
  /\ dsCalls[t].tries < MaxDesktopRetries
  /\ Goes(t, [dsCalls[t] EXCEPT !.outcome = "", !.step = 1, !.tries = @ + 1])
  /\ UNCHANGED <<dsDecks, dsProfiles, dsContents, dsFiles, dsJobs, dsHistory>>

DsNext ==
  \E t \in Calls :
    \/ Request(t) \/ RegisterDeck(t) \/ CheckProfile(t) \/ PutContent(t) \/ CreateProfile(t)
    \/ UpdateProfile(t) \/ ArchiveProfile(t) \/ Compose(t) \/ ExperimentExists(t) \/ OpenExperiment(t)
    \/ WriteExperiment(t) \/ ReplaceExperiment(t) \/ EnqueueSearch(t) \/ AnswerLost(t)

-----------------------------------------------------------------------------
(* start_desktop under the single-instance lock.                           *)

ShInit ==
  /\ shStage = [p \in Shells |-> "idle"] /\ shLock = {}
  /\ shRunning = {} /\ shFailed = {}

AcquireLock(p) ==
  /\ shStage[p] = "idle"
  /\ IF shLock = {} THEN shLock' = {p} /\ shStage' = [shStage EXCEPT ![p] = "locked"]
     ELSE shStage' = [shStage EXCEPT ![p] = "exited"] /\ UNCHANGED shLock
  /\ UNCHANGED <<shRunning, shFailed>>

\* supervisor.start() raises or the search supervisor runs.
StartSearch(p) ==
  /\ shStage[p] = "locked"
  /\ \/ shRunning' = shRunning \cup {<<p, "search">>} /\ shStage' = [shStage EXCEPT ![p] = "search"]
     \/ shStage' = [shStage EXCEPT ![p] = "leaving"] /\ UNCHANGED shRunning
  /\ UNCHANGED <<shLock, shFailed>>

\* When the export supervisor does not start, the other one is stopped.
StartExport(p) ==
  /\ shStage[p] = "search"
  /\ \/ shRunning' = shRunning \cup {<<p, "export">>} /\ shStage' = [shStage EXCEPT ![p] = "window"]
     \/ shStage' = [shStage EXCEPT ![p] = "stop_search"] /\ UNCHANGED shRunning
  /\ UNCHANGED <<shLock, shFailed>>

\* The window closes or could not be shown; either way the finally runs.
LeaveWindow(p) ==
  /\ shStage[p] = "window" /\ shStage' = [shStage EXCEPT ![p] = "stop_export"]
  /\ UNCHANGED <<shLock, shRunning, shFailed>>

\* A supervisor that does not stop is recorded and the next one is stopped.
AfterStop(name, stopped) == IF name = "export" THEN "stop_search" ELSE "leaving"
StopSupervisor(p, name) ==
  /\ shStage[p] = (IF name = "export" THEN "stop_export" ELSE "stop_search")
  /\ \E stopped \in BOOLEAN :
       /\ shRunning' = IF stopped THEN shRunning \ {<<p, name>>} ELSE shRunning
       /\ shFailed' = IF stopped THEN shFailed ELSE shFailed \cup {<<p, name>>}
       /\ shStage' = [shStage EXCEPT ![p] = AfterStop(name, stopped)]
  /\ UNCHANGED shLock

ReleaseLock(p) ==
  /\ shStage[p] = "leaving"
  /\ shLock' = {} /\ shStage' = [shStage EXCEPT ![p] = "exited"]
  /\ UNCHANGED <<shRunning, shFailed>>

ShNext ==
  \E p \in Shells :
    \/ AcquireLock(p) \/ StartSearch(p) \/ StartExport(p) \/ LeaveWindow(p)
    \/ StopSupervisor(p, "export") \/ StopSupervisor(p, "search") \/ ReleaseLock(p)

\* The bridge and the shell share no variable.
ServiceSpec ==
  /\ DsInit /\ ShInit
  /\ [][(DsNext /\ UNCHANGED shVars) \/ (ShNext /\ UNCHANGED dsVars)]_<<dsVars, shVars>>

-----------------------------------------------------------------------------
\* The revision of a profile counts its updates: two windows that edit one
\* profile never produce the same revision twice.
RevisionsCount ==
  \A p \in DOMAIN dsProfiles : dsProfiles[p].revision = 1 + dsHistory.updates[p]

\* An archived profile is never edited again, not even by an update that was
\* validated before the profile was archived.
ArchivedFrozen ==
  \A p \in DOMAIN dsProfiles : dsProfiles[p].state = "archived" => dsProfiles'[p] = dsProfiles[p]

\* Every profile of the catalog can be shown: its content is on disk.
ProfilesReadable == \A p \in DOMAIN dsProfiles : dsProfiles[p].content \in dsContents

\* And it names only cards of its own deck.
RulesOfOwnDeck == \A p \in DOMAIN dsProfiles : ContentCards[dsProfiles[p].content] \subseteq DeckCards[dsProfiles[p].deck]

\* Concurrent registrations never push the deck catalog past the size at
\* which it is read as corrupt.
CatalogReadable == Cardinality(dsDecks) <= MaxDecks

\* Whatever the threads that enqueue one experiment do to each other's
\* temporary file, a job that is queued has a complete experiment file.
ExperimentIntact == \A k \in DOMAIN dsJobs : dsFiles[dsJobs[k]].final = Complete

\* A request that is repeated because its answer was lost makes one job.
JobsOncePerRequest == \A t \in Calls : dsHistory.created[t] <= 1

\* Two desktop processes have workers on the data root at the same time only
\* if a supervisor of one of them refused to stop.
WritersExclusive ==
  \A a, b \in shRunning : a[1] # b[1] => a \in shFailed \/ b \in shFailed

\* Two windows, a repeated request or a failure between two writes leave every
\* profile, deck, experiment and job whole and in step with what was asked, and
\* one process at a time has workers on the data root.
DesktopIntact ==
  [][/\ RevisionsCount'
     /\ ArchivedFrozen
     /\ ProfilesReadable'
     /\ RulesOfOwnDeck'
     /\ CatalogReadable'
     /\ ExperimentIntact'
     /\ JobsOncePerRequest'
     /\ WritersExclusive']_<<dsVars, shVars>>

=============================================================================
