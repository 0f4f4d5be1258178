---------------------------- MODULE ArtifactStore ----------------------------
(***************************************************************************)
(* Artifact publication and reconciliation (JobArtifactPublisher in        *)
(* storage/job_recovery.py) composed with the job catalog.  A store is a   *)
(* directory with a staging and an artifacts area; a worker is a thread    *)
(* that repeats recover, claim_next and one attempt (run_once of both      *)
(* desktop workers).  A step is one catalog transaction or one change of   *)
(* the file system, so a crash, an operator's call or another worker may   *)
(* come between any two.                                                   *)
(*                                                                         *)
(* Paths are content addressed: an item stands for a logical path with its *)
(* digest, a file for a path that holds the content its path names.  The   *)
(* checksum comparisons therefore always succeed; empty directories are    *)
(* left out.                                                               *)
(***************************************************************************)
EXTENDS JobCatalog

CONSTANTS
  Stores,      \* publisher roots
  StoreOf,     \* StoreOf[w]: the root of worker w
  Items,       \* what an artifact can be
  Contents,    \* Contents[set]: the items of an artifact set
  MaxCrashes   \* bound: how often a worker process is lost and started again

ASSUME StoreAssumption ==
  /\ StoreOf \in [Workers -> Stores]
  /\ Contents \in [ArtifactSets -> SUBSET Items]
  /\ MaxCrashes \in Nat

VARIABLES
  files,    \* files[s]: the files of store s
  task,     \* task[w]: where the thread of worker w is in run_once
  crashes

storeVars == <<files, task, crashes>>
allVars == <<vars, storeVars>>

-----------------------------------------------------------------------------
(* Files and the position of a worker.                                     *)

\* artifacts/<job>/<sha>/<path>, staging/<job>/<attempt>/<sha>/<path>.staged
\* and the same with .partial.  A published path does not name the attempt.
File == [area : {"artifacts", "staging", "partial"},
         job : Jobs, attempt : Nat, item : Items]

Final(f) == [f EXCEPT !.area = "artifacts", !.attempt = 0]
Partial(f) == [f EXCEPT !.area = "partial"]

StagingFiles(w, set) ==
  {[area |-> "staging", job |-> held[w].job, attempt |-> held[w].attempt,
    item |-> i] : i \in Contents[set]}

FinalFiles(j) ==
  IF jobs[j].artifact_set_id = NULL THEN {}
  ELSE {[area |-> "artifacts", job |-> j, attempt |-> 0, item |-> i] :
          i \in Contents[jobs[j].artifact_set_id]}

\* artifact_references reads the committed artifacts of every job, with no
\* regard to the store that holds them.
References == UNION {FinalFiles(j) : j \in Jobs}

\* "raised" and "corrupt": an exception left run_once and the thread is gone.
Places == {"recover", "read", "verify", "artifacts", "staging", "claim",
           "work", "stage", "publish", "done", "raised", "corrupt"}

Task == [pc : Places, refs : SUBSET File, todo : SUBSET File,
         current : SUBSET File, set : ArtifactSets \union {NULL}, at : Nat]

Start == [pc |-> "recover", refs |-> {}, todo |-> {}, current |-> {},
          set |-> NULL, at |-> 0]

Store(w) == files[StoreOf[w]]

At(w, pc) == task[w].pc = pc

\* The thread moves to pc; it keeps nothing else.
Moved(w, pc) == [task EXCEPT ![w] = [Start EXCEPT !.pc = pc]]

Quiet(w) == task[w].todo = {} /\ task[w].current = {}

-----------------------------------------------------------------------------
(* recover: reclaim_orphans, then reconcile.                               *)

Recover(w) ==
  /\ At(w, "recover")
  /\ \E at \in Stamps : \/ ReclaimOrphans(at)
                        \/ Orphans(at) = {} /\ UNCHANGED vars
  /\ task' = Moved(w, "read")
  /\ UNCHANGED <<files, crashes>>

ReadReferences(w) ==
  /\ At(w, "read")
  /\ task' = [task EXCEPT ![w].pc = "verify", ![w].refs = References]
  /\ UNCHANGED <<vars, files, crashes>>

\* Every reference must be a file of this store; then the artifacts area is
\* listed.
VerifyReferences(w) ==
  /\ At(w, "verify")
  /\ \/ /\ task[w].refs \subseteq Store(w)
        /\ task' = [task EXCEPT
             ![w].pc = "artifacts",
             ![w].todo = {f \in Store(w) : f.area = "artifacts"}
                           \ task[w].refs]
     \/ /\ ~(task[w].refs \subseteq Store(w))
        /\ task' = Moved(w, "corrupt")
  /\ UNCHANGED <<vars, files, crashes>>

\* Mutants: only running jobs keep their files; every job does.
PreservedWhileRunning(f) ==
  /\ jobs[f.job].state = "running"
  /\ f.area # "artifacts" => jobs[f.job].attempt = f.attempt

\* Files of an active attempt are kept.  get_job is read per file.
Preserved(f) ==
  /\ jobs[f.job].state \in ActiveStates
  /\ f.area # "artifacts" => jobs[f.job].attempt = f.attempt

Judge(w, f) ==
  /\ task[w].pc \in {"artifacts", "staging"}
  /\ task[w].current = {} /\ f \in task[w].todo
  /\ task' = [task EXCEPT ![w].todo = @ \ {f},
                          ![w].current = IF Preserved(f) THEN {} ELSE {f}]
  /\ UNCHANGED <<vars, files, crashes>>

\* unlink raises when the file is gone.
Unlink(w) ==
  /\ task[w].pc \in {"artifacts", "staging"} /\ task[w].current # {}
  /\ files' = [files EXCEPT ![StoreOf[w]] = @ \ task[w].current]
  /\ task' = IF task[w].current \subseteq Store(w)
             THEN [task EXCEPT ![w].current = {}] ELSE Moved(w, "raised")
  /\ UNCHANGED <<vars, crashes>>

ListStaging(w) ==
  /\ At(w, "artifacts") /\ Quiet(w)
  /\ task' = [task EXCEPT ![w].pc = "staging",
                          ![w].todo = {f \in Store(w) : f.area # "artifacts"}]
  /\ UNCHANGED <<vars, files, crashes>>

Reconciled(w) ==
  /\ At(w, "staging") /\ Quiet(w)
  /\ task' = Moved(w, "claim")
  /\ UNCHANGED <<vars, files, crashes>>

-----------------------------------------------------------------------------
(* claim_next and the attempt.                                             *)

Claim(w) ==
  /\ At(w, "claim")
  /\ \E at \in Stamps, j \in Jobs : ClaimNext(w, j, at)
  /\ task' = Moved(w, "work")
  /\ UNCHANGED <<files, crashes>>

\* No job is eligible (or the bound on claims is reached): run_once is idle.
ClaimNothing(w) ==
  /\ At(w, "claim")
  /\ \E at \in Stamps : at > LastClaim \/ \A j \in Jobs : ~Eligible(w, j, at)
  /\ task' = Moved(w, "recover")
  /\ UNCHANGED <<vars, files, crashes>>

\* While the attempt runs the worker makes catalog calls.  One that ends the
\* attempt ends run_once.
Work(w) ==
  /\ At(w, "work")
  /\ \/ /\ AttemptStep(w)
        /\ UNCHANGED task
     \/ /\ CallerStep(w)
        /\ task' = IF /\ jobs' # jobs
                      /\ jobs'[held[w].job].lease_token # Token(w)
                   THEN Moved(w, "done") ELSE task
  /\ UNCHANGED <<files, crashes>>

\* A worker without a valid lease is refused by its next call and raises.
LeaseLost(w) ==
  /\ At(w, "work") /\ Ready(w)
  /\ ~LeaseValid(jobs[held[w].job], Token(w), clock)
  /\ task' = Moved(w, "raised")
  /\ UNCHANGED <<vars, files, crashes>>

\* One `now` serves every stage_bytes call of an attempt.
BeginStaging(w, set, at) ==
  /\ At(w, "work") /\ Ready(w)
  /\ task' = [task EXCEPT ![w] =
       [Start EXCEPT !.pc = "stage", !.set = set, !.at = at,
                     !.todo = StagingFiles(w, set)]]
  /\ UNCHANGED <<vars, files, crashes>>

\* stage_bytes: control check and temporary file ...
StageWrite(w, f) ==
  /\ At(w, "stage") /\ task[w].current = {} /\ f \in task[w].todo
  /\ \/ /\ Controlled(w, task[w].at)
        /\ files' = [files EXCEPT ![StoreOf[w]] = @ \union {Partial(f)}]
        /\ task' = [task EXCEPT ![w].current = {f}]
     \/ /\ ~Controlled(w, task[w].at)
        /\ task' = Moved(w, "raised")
        /\ UNCHANGED files
  /\ UNCHANGED <<vars, crashes>>

\* ... then the rename, which raises when the temporary file is gone.
StageRename(w, f) ==
  /\ At(w, "stage") /\ f \in task[w].current
  /\ \/ /\ Partial(f) \in Store(w)
        /\ files' = [files EXCEPT
             ![StoreOf[w]] = (@ \ {Partial(f)}) \union {f}]
        /\ task' = [task EXCEPT ![w].todo = @ \ {f}, ![w].current = {}]
     \/ /\ Partial(f) \notin Store(w)
        /\ task' = Moved(w, "raised")
        /\ UNCHANGED files
  /\ UNCHANGED <<vars, crashes>>

\* publish: a second control check with a later `now` ...
BeginPublish(w, at) ==
  /\ At(w, "stage") /\ Quiet(w)
  /\ task' = IF Controlled(w, at)
             THEN [task EXCEPT ![w].pc = "publish", ![w].at = at,
                               ![w].todo = StagingFiles(w, task[w].set)]
             ELSE Moved(w, "raised")
  /\ UNCHANGED <<vars, files, crashes>>

\* ... each staged file is renamed, or dropped when a former attempt has
\* published the same content ...
PublishItem(w, f) ==
  /\ At(w, "publish") /\ f \in task[w].todo
  /\ \/ /\ f \in Store(w)
        /\ files' = [files EXCEPT
             ![StoreOf[w]] = (@ \ {f}) \union {Final(f)}]
        /\ task' = [task EXCEPT ![w].todo = @ \ {f}]
     \/ /\ f \notin Store(w)
        /\ task' = Moved(w, "raised")
        /\ UNCHANGED files
  /\ UNCHANGED <<vars, crashes>>

\* Mutant: success is committed while a file is still to be renamed.
AllButOnePublished(w) == Cardinality(task[w].todo) <= 1

AllPublished(w) == task[w].todo = {}

\* ... and the catalog commits, with the `now` of the check.
Commit(w) ==
  /\ At(w, "publish") /\ AllPublished(w)
  /\ \/ SucceedJob(w, task[w].set, task[w].at) /\ task' = Moved(w, "done")
     \/ /\ ~MaySucceed(w, task[w].at)
        /\ task' = Moved(w, "raised")
        /\ UNCHANGED vars
  /\ UNCHANGED <<files, crashes>>

Return(w) ==
  /\ At(w, "done")
  /\ Abandon(w)
  /\ task' = Moved(w, "recover")
  /\ UNCHANGED <<files, crashes>>

\* The process is lost at any point and started again: memory is gone, files
\* and catalog stay.
Restart(w) ==
  /\ crashes < MaxCrashes /\ ~At(w, "recover")
  /\ crashes' = crashes + 1
  /\ \/ Abandon(w)
     \/ held[w] = Idle /\ UNCHANGED vars
  /\ task' = Moved(w, "recover")
  /\ UNCHANGED files

-----------------------------------------------------------------------------
StoreInit == /\ Init
             /\ files = [s \in Stores |-> {}]
             /\ task = [w \in Workers |-> Start]
             /\ crashes = 0

\* Steps the thread takes by itself.
ThreadStep(w) ==
  \/ Recover(w) \/ ReadReferences(w) \/ VerifyReferences(w)
  \/ \E f \in task[w].todo : Judge(w, f)
  \/ Unlink(w) \/ ListStaging(w) \/ Reconciled(w)
  \/ Claim(w) \/ ClaimNothing(w) \/ LeaseLost(w)
  \/ \E f \in task[w].todo : StageWrite(w, f) \/ PublishItem(w, f)
  \/ \E f \in task[w].current : StageRename(w, f)
  \/ \E at \in Stamps : BeginPublish(w, at)
  \/ Commit(w) \/ Return(w)

\* The catalog calls of everyone else, and time.
Elsewhere == /\ \/ \E c \in Operators : CallerStep(c)
                \/ SystemStep
                \/ Tick
             /\ UNCHANGED storeVars

StoreNext ==
  \/ \E w \in Workers :
       \/ ThreadStep(w) \/ Work(w) \/ Restart(w)
       \/ \E set \in ArtifactSets, at \in Stamps : BeginStaging(w, set, at)
  \/ Elsewhere

StoreSpec == StoreInit /\ [][StoreNext]_allVars

\* A live thread goes on and finishes a catalog call it is in, and so does
\* time.  How an attempt proceeds, whether it ever ends before its lease does,
\* and restarts are left open.
StoreFairSpec ==
  /\ StoreSpec
  /\ WF_allVars(Tick /\ UNCHANGED storeVars)
  /\ \A w \in Workers :
       WF_allVars(ThreadStep(w) \/ (~Ready(w) /\ Work(w)))

-----------------------------------------------------------------------------
(* Properties.                                                             *)

\* Every variable has its type.
StoreTypeOK == /\ TypeOK
               /\ files \in [Stores -> SUBSET File]
               /\ task \in [Workers -> Task]
               /\ crashes \in Nat

\* The files of a committed artifact set are all there, from the commit of
\* succeed_job on: no crash between two renames, no reconcile and no later
\* attempt takes one away.
NoDanglingReference ==
  \A j \in Jobs : \E s \in Stores : FinalFiles(j) \subseteq files[s]

\* "preserves active attempts": no step but those of the attempt's own worker
\* removes a staged or partial file of the attempt that holds the lease, also
\* when reconcile judged the file before that attempt was claimed.
ActiveStagingPreserved ==
  [][\A s \in Stores : \A f \in files[s] \ files'[s] :
       /\ f.area # "artifacts"
       /\ jobs[f.job].lease_token # NoLease
       /\ jobs[f.job].lease_token.attempt = f.attempt
       => \E w \in Workers : /\ Token(w) = jobs[f.job].lease_token
                             /\ task[w].pc \in {"stage", "publish"}]_allVars

\* "removes unreferenced files from inactive attempts": what a crash or a
\* refused publication left of a job that is over is removed, unless the
\* thread itself has raised.
GarbageCollected ==
  \A w \in Workers :
    (\E f \in Store(w) \ References : jobs[f.job].state \in TerminalStates)
      ~> \/ task[w].pc \in {"raised", "corrupt"}
         \/ \A f \in Store(w) \ References :
              jobs[f.job].state \notin TerminalStates

\* "publisher ignores catalog artifacts owned by other stores": reconcile
\* reports a missing artifact only when a committed artifact is missing.
OtherStoresIgnored ==
  \A w \in Workers : task[w].pc = "corrupt" => ~NoDanglingReference

\* The store and the catalog agree after every step, crashes included: every
\* variable has its type and no committed reference dangles.
StoreCorrect == StoreTypeOK /\ NoDanglingReference

\* A staged file is kept exactly as long as an attempt can want it: never taken
\* from an active attempt, and gone in the end when its attempt is over.
StagingCollected == ActiveStagingPreserved /\ GarbageCollected

============================================================================
