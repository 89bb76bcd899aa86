------------------------------ MODULE Updater ------------------------------
(***************************************************************************)
(* The controlled image update of internal/updater/manager.go.             *)
(*                                                                         *)
(* A manager keeps a status and the image reference selected for each      *)
(* service in memory and mirrors both in three files.  StartCheck and      *)
(* StartUpdate start a goroutine (a worker) that runs docker commands one  *)
(* by one; between two commands anything else may happen, the Core may     *)
(* restart, and the context shared by the whole job may reach its          *)
(* deadline.  A step of a worker is one docker command, or one file and    *)
(* memory update under the manager's lock, with the setProgress that the   *)
(* code runs right after it.                                               *)
(*                                                                         *)
(* Data: an image ID is a model value, a service's persistent data is the  *)
(* image that last wrote it, a volume's owner is the one found before any  *)
(* migration or the one the candidate wants, messages and times are left   *)
(* out.                                                                    *)
(***************************************************************************)
EXTENDS Naturals, Sequences, FiniteSets

CONSTANTS
    Service,      \* the managed services (adguard, unbound)
    Image,        \* image IDs
    Volume,       \* volumes labelled io.rootguard.cleanup=true
    Attached,     \* those of them that some container still uses
    Worker,       \* slots for the goroutines started by StartCheck, StartUpdate
    Migrated,     \* the services whose update migrates a volume's ownership
    MaxHistory,   \* entries kept in the history: 50 in the code
    Faults,       \* what may go wrong: see FaultKinds
    None,         \* no image, no service, no file
    Target        \* the reference spec.TargetImage, resolved by a local tag

FaultKinds == {"command", "deadline", "disk", "restart"}
Owner      == {"before", "wanted"}

ASSUME NamesAssumption ==
    /\ None \notin Service \cup Image
    /\ Target \notin Image \cup {None}
ASSUME ShapeAssumption ==
    /\ Migrated \subseteq Service
    /\ Attached \subseteq Volume
    /\ Faults \subseteq FaultKinds
ASSUME HistoryAssumption == MaxHistory \in Nat /\ MaxHistory > 0

VARIABLES
    status,       \* m.status: state, active service, reports, history
    selected,     \* m.selected: the reference the override gives a service
    pc,           \* where each worker is ("none": no goroutine)
    job,          \* the local variables of each worker
    statusFile,   \* status.json
    imagesFile,   \* images.json
    overrideFile, \* updates.yaml
    container,    \* the image each service's container was created from
    data,         \* the image that last wrote the service's persistent data
    owner,        \* the owner of the service's volume
    tag,          \* the local image spec.TargetImage resolves to
    registry,     \* the image spec.TargetImage names at the registry
    present,      \* the images stored locally
    volumes       \* the labelled volumes that exist

memory == <<status, selected, pc, job>>
files  == <<statusFile, imagesFile, overrideFile>>
docker == <<container, data, owner, tag, present, volumes>>
vars   == <<status, selected, pc, job, statusFile, imagesFile, overrideFile,
            container, data, owner, tag, registry, present, volumes>>

-----------------------------------------------------------------------------
(* Records *)

Optional(S) == S \cup {None}

Report == [current: Optional(Image), candidate: Optional(Image),
           available: BOOLEAN, failed: BOOLEAN]

Entry == [service: Service, outcome: {"success", "no_change", "rolled_back", "failed"},
          from: Image, to: Image, removed: SUBSET Image]

History == {h \in Seq(Entry) : Len(h) <= MaxHistory}

Status == [state: {"idle", "checking", "updating", "failed"},
           active: Optional(Service), services: [Service -> Report], history: History]

Job == [service: Optional(Service), old: Optional(Image), candidate: Optional(Image),
        backup: Optional(Image), owner: Owner, changed: BOOLEAN, expired: BOOLEAN,
        todo: SUBSET Service, doomed: SUBSET Image, removed: SUBSET Image]

CheckPoints  == {"checkNext", "checkInspect", "checkPull", "checkResolve"}
UpdatePoints == {"inspect", "backup", "pull", "resolve", "noChange", "owner", "chown",
                 "unchown", "select", "up", "verify", "success", "collect", "sweep",
                 "attach", "result", "idle", "rollback", "rbOwner", "rbSelect", "rbUp",
                 "rbCopy", "rbRestart", "rbVerify", "rolledBack", "rbFailed", "fail"}

NoReport == [current |-> None, candidate |-> None, available |-> FALSE, failed |-> FALSE]

NoJob == [service |-> None, old |-> None, candidate |-> None, backup |-> None,
          owner |-> "before", changed |-> FALSE, expired |-> FALSE,
          todo |-> {}, doomed |-> {}, removed |-> {}]

-----------------------------------------------------------------------------
(* The manager's memory and its files *)

(* Mutant: an update in progress does not count as busy. *)
BusyOnlyChecking == status.state = "checking"

Busy == status.state \in {"checking", "updating"}

Override(refs) == [s \in Service |-> IF refs[s] = None THEN Target ELSE refs[s]]

(* persistLocked writes the three files in this order and stops at the first
   error: written is the number of files it got to. *)
Persist(written) ==
    /\ statusFile'   = IF written >= 1 THEN status' ELSE statusFile
    /\ imagesFile'   = IF written >= 2 THEN selected' ELSE imagesFile
    /\ overrideFile' = IF written = 3 THEN Override(selected') ELSE overrideFile

Written == IF "disk" \in Faults THEN 0..3 ELSE {3}

(* A change of the status alone; its callers drop persistLocked's error. *)
SaveIgnoringErrors == UNCHANGED selected /\ \E written \in Written : Persist(written)

SetProgress(s) ==
    /\ status' = [status EXCEPT !.active = s]
    /\ SaveIgnoringErrors

(* Mutant: the history is never cut. *)
RecordedUncut(history, entry) == <<entry>> \o history

Recorded(history, entry) ==
    LET longer == <<entry>> \o history
    IN  IF Len(longer) > MaxHistory THEN SubSeq(longer, 1, MaxHistory) ELSE longer

-----------------------------------------------------------------------------
(* What cleanupAfterSuccess considers superseded *)

(* The places of the history where a successful update of s names image i,
   oldest first: From counts before To within an entry. *)
Places(history, s, i) ==
    {2 * (Len(history) - n) : n \in {m \in DOMAIN history :
        history[m].service = s /\ history[m].outcome = "success" /\ history[m].from = i}}
    \cup
    {2 * (Len(history) - n) + 1 : n \in {m \in DOMAIN history :
        history[m].service = s /\ history[m].outcome = "success" /\ history[m].to = i}}

Named(history, s) == {i \in Image : Places(history, s, i) # {}}

(* j is first named after i. *)
NamedLater(history, s, i, j) ==
    \E p \in Places(history, s, i) : \A q \in Places(history, s, j) : p < q

AlreadyRemoved(history) == UNION {history[n].removed : n \in DOMAIN history}

(* ids[:len(ids)-2]: all but the two images first named last, without those an
   entry of the history says were removed. *)
Superseded(history, s) ==
    {i \in Named(history, s) :
        \E j, k \in Named(history, s) :
            j # k /\ NamedLater(history, s, i, j) /\ NamedLater(history, s, i, k)}
        \ AlreadyRemoved(history)

-----------------------------------------------------------------------------
(* Docker commands: each one succeeds, breaks (perhaps after some effect), or
   is refused at once because the job's deadline has passed. *)

Runs(w)    == ~job[w].expired
Breaks(w)  == ~job[w].expired /\ Faults \cap {"command", "deadline"} # {}
Refused(w) == job[w].expired

Goto(w, point) == pc' = [pc EXCEPT ![w] = point]

(* The command failed: by itself, or because the deadline passed meanwhile. *)
AfterFailure(w, point) ==
    /\ Goto(w, point)
    /\ \E late \in BOOLEAN :
        /\ job' = [job EXCEPT ![w].expired = late]
        /\ late => job[w].expired \/ "deadline" \in Faults
        /\ ~late => ~job[w].expired /\ "command" \in Faults

(* A command without effect on the modelled state. *)
Unsuccessful(w, point) == (Breaks(w) \/ Refused(w)) /\ AfterFailure(w, point)

(* Mutant: nothing asks whether a container uses the image. *)
InUseNever(i) == i \notin Image

InUse(i) == \E s \in Service : container[s] = i

Resolve(s) == IF overrideFile[s] = Target THEN tag[s] ELSE overrideFile[s]

(* docker compose up --no-deps s: the new container may write the data.  The
   image it needs is always stored locally (ImagesAtHand), so the failure for
   want of it is left out, here and in Chown. *)
Recreate(s) ==
    /\ Resolve(s) \in present
    /\ container' = [container EXCEPT ![s] = Resolve(s)]
    /\ \E last \in {data[s], Resolve(s)} : data' = [data EXCEPT ![s] = last]

KeepContainers == UNCHANGED <<container, data>>

ComposeUp(w, success, failure) ==
    LET s == job[w].service IN
    /\ \/ Runs(w) /\ Recreate(s) /\ Goto(w, success) /\ UNCHANGED job
       \/ Breaks(w) /\ (Recreate(s) \/ KeepContainers) /\ AfterFailure(w, failure)
       \/ Refused(w) /\ KeepContainers /\ AfterFailure(w, failure)
    /\ UNCHANGED <<status, selected, owner, tag, registry, present, volumes>>
    /\ UNCHANGED files

PullTarget(s) ==
    /\ tag' = [tag EXCEPT ![s] = registry[s]]
    /\ present' = present \cup {registry[s]}

(* chown --recursive of the service's volume, in a container of the image. *)
Chown(s, image, who) ==
    /\ image \in present
    /\ owner' = [owner EXCEPT ![s] = who]

ChangeOwner(w, image, who, success, failure) ==
    LET s == job[w].service IN
    /\ \/ Runs(w) /\ Chown(s, image, who) /\ Goto(w, success) /\ UNCHANGED job
       \/ Breaks(w) /\ (Chown(s, image, who) \/ UNCHANGED owner) /\ AfterFailure(w, failure)
       \/ Refused(w) /\ UNCHANGED owner /\ AfterFailure(w, failure)
    /\ UNCHANGED <<status, selected, container, data, tag, registry, present, volumes>>
    /\ UNCHANGED files

(* selectImage: memory first, and only then the files; the caller sees an
   error unless all three are written. *)
SelectImage(w, reference, success, failure) ==
    /\ selected' = [selected EXCEPT ![job[w].service] = reference]
    /\ UNCHANGED status
    /\ \E written \in Written :
        /\ Persist(written)
        /\ Goto(w, IF written = 3 THEN success ELSE failure)
    /\ UNCHANGED job /\ UNCHANGED docker /\ UNCHANGED registry

(* verifyWithRetry: one step for all its attempts.  A candidate may be found
   unhealthy at any time (mayFail); the step that fails may also be the one
   during which the deadline passes. *)
VerifyWithRetry(w, mayFail, success, failure) ==
    /\ \/ Runs(w) /\ Goto(w, success) /\ UNCHANGED job
       \/ mayFail /\ Runs(w) /\ Goto(w, failure) /\ UNCHANGED job
       \/ Unsuccessful(w, failure)
    /\ UNCHANGED <<status, selected, registry>> /\ UNCHANGED files /\ UNCHANGED docker

-----------------------------------------------------------------------------
(* Starting a job *)

Starts(w) == pc[w] = "none" /\ ~Busy

StartCheck(w) ==
    /\ Starts(w)
    /\ status' = [status EXCEPT !.state = "checking", !.active = None,
                    !.services = [s \in Service |->
                        [status.services[s] EXCEPT !.failed = FALSE]]]
    /\ SaveIgnoringErrors
    /\ Goto(w, "checkNext")
    /\ job' = [job EXCEPT ![w] = [NoJob EXCEPT !.todo = Service]]
    /\ UNCHANGED <<selected, registry>> /\ UNCHANGED docker

StartUpdate(w, s) ==
    /\ Starts(w)
    /\ status' = [status EXCEPT !.state = "updating", !.active = s,
                                !.services[s].failed = FALSE]
    /\ SaveIgnoringErrors
    /\ Goto(w, "inspect")
    /\ job' = [job EXCEPT ![w] = [NoJob EXCEPT !.service = s]]
    /\ UNCHANGED <<selected, registry>> /\ UNCHANGED docker

-----------------------------------------------------------------------------
(* check: every service in turn, and on to the next one after an error *)

(* setServiceResult, then the next service. *)
CheckedWith(w, report) ==
    /\ status' = [status EXCEPT !.services[job[w].service] = report]
    /\ SaveIgnoringErrors

CheckNext(w) ==
    /\ pc[w] = "checkNext"
    /\ \E s \in job[w].todo :
        /\ SetProgress(s)
        /\ job' = [job EXCEPT ![w].service = s, ![w].todo = job[w].todo \ {s}]
    /\ Goto(w, "checkInspect")
    /\ UNCHANGED <<selected, registry>> /\ UNCHANGED docker

CheckInspect(w) ==
    /\ pc[w] = "checkInspect"
    /\ \/ /\ Runs(w) /\ Goto(w, "checkPull")
          /\ job' = [job EXCEPT ![w].old = container[job[w].service]]
          /\ UNCHANGED status /\ UNCHANGED files
       \/ /\ Unsuccessful(w, "checkNext")
          /\ CheckedWith(w, [NoReport EXCEPT !.failed = TRUE])
    /\ UNCHANGED <<selected, registry>> /\ UNCHANGED docker

CheckPull(w) ==
    /\ pc[w] = "checkPull"
    /\ \/ /\ Runs(w) /\ Goto(w, "checkResolve") /\ UNCHANGED job
          /\ PullTarget(job[w].service)
          /\ UNCHANGED status /\ UNCHANGED files
       \/ /\ Unsuccessful(w, "checkNext")
          /\ CheckedWith(w, [NoReport EXCEPT !.current = job[w].old, !.failed = TRUE])
          /\ UNCHANGED <<tag, present>>
    /\ UNCHANGED <<selected, container, data, owner, registry, volumes>>

CheckResolve(w) ==
    /\ pc[w] = "checkResolve"
    /\ LET candidate == tag[job[w].service] IN
       \/ /\ Runs(w) /\ Goto(w, "checkNext") /\ UNCHANGED job
          /\ CheckedWith(w, [current |-> job[w].old, candidate |-> candidate,
                             available |-> job[w].old # candidate, failed |-> FALSE])
       \/ /\ Unsuccessful(w, "checkNext")
          /\ CheckedWith(w, [NoReport EXCEPT !.current = job[w].old, !.failed = TRUE])
    /\ UNCHANGED <<selected, registry>> /\ UNCHANGED docker

(* The worker ends in the step that makes the manager idle again. *)
BecomeIdle(w) ==
    /\ status' = [status EXCEPT !.state = "idle", !.active = None]
    /\ SaveIgnoringErrors
    /\ Goto(w, "none")
    /\ job' = [job EXCEPT ![w] = NoJob]
    /\ UNCHANGED <<selected, registry>> /\ UNCHANGED docker

FinishCheck(w) == pc[w] = "checkNext" /\ job[w].todo = {} /\ BecomeIdle(w)

-----------------------------------------------------------------------------
(* update: up to the point where the container is replaced *)

Inspect(w) ==
    /\ pc[w] = "inspect"
    /\ \/ /\ Runs(w) /\ Goto(w, "backup")
          /\ job' = [job EXCEPT ![w].old = container[job[w].service]]
          /\ SetProgress(job[w].service)
       \/ Unsuccessful(w, "fail") /\ UNCHANGED status /\ UNCHANGED files
    /\ UNCHANGED <<selected, registry>> /\ UNCHANGED docker

Backup(w) ==
    /\ pc[w] = "backup"
    /\ \/ /\ Runs(w) /\ Goto(w, "pull")
          /\ job' = [job EXCEPT ![w].backup = data[job[w].service]]
          /\ SetProgress(job[w].service)
       \/ Unsuccessful(w, "fail") /\ UNCHANGED status /\ UNCHANGED files
    /\ UNCHANGED <<selected, registry>> /\ UNCHANGED docker

Pull(w) ==
    /\ pc[w] = "pull"
    /\ \/ Runs(w) /\ PullTarget(job[w].service) /\ Goto(w, "resolve") /\ UNCHANGED job
       \/ Unsuccessful(w, "fail") /\ UNCHANGED <<tag, present>>
    /\ UNCHANGED <<status, selected, container, data, owner, registry, volumes>>
    /\ UNCHANGED files

(* migrateVolumeOwnership has nothing to do for a service without migrations. *)
AfterResolve(s, candidate, old) ==
    IF candidate = old THEN "noChange" ELSE IF s \in Migrated THEN "owner" ELSE "select"

ResolveCandidate(w) ==
    /\ pc[w] = "resolve"
    /\ LET s == job[w].service IN
       \/ /\ Runs(w) /\ Goto(w, AfterResolve(s, tag[s], job[w].old))
          /\ job' = [job EXCEPT ![w].candidate = tag[s]]
          /\ IF tag[s] # job[w].old THEN SetProgress(s) ELSE UNCHANGED status /\ UNCHANGED files
       \/ Unsuccessful(w, "fail") /\ UNCHANGED status /\ UNCHANGED files
    /\ UNCHANGED <<selected, registry>> /\ UNCHANGED docker

InspectOwner(w) ==
    /\ pc[w] = "owner"
    /\ LET who == owner[job[w].service] IN
       \/ /\ Runs(w) /\ Goto(w, IF who = "wanted" THEN "select" ELSE "chown")
          /\ job' = [job EXCEPT ![w].owner = who, ![w].changed = (who # "wanted")]
       \/ Unsuccessful(w, "fail")
    /\ UNCHANGED <<status, selected, registry>> /\ UNCHANGED files /\ UNCHANGED docker

MigrateOwner(w) ==
    /\ pc[w] = "chown"
    /\ ChangeOwner(w, job[w].candidate, "wanted", "select", "unchown")

(* The error of this restoreVolumeOwnership is dropped or only reported. *)
UndoMigration(w) ==
    /\ pc[w] = "unchown"
    /\ ChangeOwner(w, job[w].old, job[w].owner, "fail", "fail")

SelectTarget(w) ==
    /\ pc[w] = "select"
    /\ SelectImage(w, Target, "up", IF job[w].changed THEN "unchown" ELSE "fail")

(* Mutant: an error of compose is left to the health check to find. *)
ReplaceContainerUnchecked(w) == pc[w] = "up" /\ ComposeUp(w, "verify", "verify")

ReplaceContainer(w) == pc[w] = "up" /\ ComposeUp(w, "verify", "rollback")

VerifyCandidate(w) == pc[w] = "verify" /\ VerifyWithRetry(w, TRUE, "success", "rollback")

-----------------------------------------------------------------------------
(* rollback: the first error ends it *)

BeginRollback(w) ==
    /\ pc[w] = "rollback"
    /\ SetProgress(job[w].service)
    /\ Goto(w, IF job[w].changed THEN "rbOwner" ELSE "rbSelect")
    /\ UNCHANGED <<selected, job, registry>> /\ UNCHANGED docker

RollbackOwner(w) ==
    /\ pc[w] = "rbOwner"
    /\ ChangeOwner(w, job[w].old, job[w].owner, "rbSelect", "rbFailed")

RollbackSelection(w) ==
    /\ pc[w] = "rbSelect"
    /\ SelectImage(w, job[w].old, "rbUp", "rbFailed")

(* Mutant: the rollback leaves the data as the candidate wrote them. *)
RollbackContainerOnly(w) == pc[w] = "rbUp" /\ ComposeUp(w, "rbRestart", "rbFailed")

RollbackContainer(w) == pc[w] = "rbUp" /\ ComposeUp(w, "rbCopy", "rbFailed")

RollbackData(w) ==
    /\ pc[w] = "rbCopy"
    /\ LET restored == [data EXCEPT ![job[w].service] = job[w].backup] IN
       \/ Runs(w) /\ data' = restored /\ Goto(w, "rbRestart") /\ UNCHANGED job
       \/ Breaks(w) /\ data' \in {data, restored} /\ AfterFailure(w, "rbFailed")
       \/ Refused(w) /\ UNCHANGED data /\ AfterFailure(w, "rbFailed")
    /\ UNCHANGED <<status, selected, container, owner, tag, registry, present, volumes>>
    /\ UNCHANGED files

RollbackRestart(w) ==
    /\ pc[w] = "rbRestart"
    /\ \/ Runs(w) /\ Goto(w, "rbVerify") /\ UNCHANGED job
       \/ Unsuccessful(w, "rbFailed")
    /\ UNCHANGED <<status, selected, registry>> /\ UNCHANGED files /\ UNCHANGED docker

VerifyRollback(w) ==
    /\ pc[w] = "rbVerify"
    /\ VerifyWithRetry(w, "command" \in Faults, "rolledBack", "rbFailed")

-----------------------------------------------------------------------------
(* Outcomes *)

EntryOf(w, outcome) ==
    [service |-> job[w].service, outcome |-> outcome,
     from |-> job[w].old, to |-> job[w].candidate, removed |-> {}]

RecordHistory(w, outcome, next) ==
    /\ status' = [status EXCEPT !.history = Recorded(status.history, EntryOf(w, outcome))]
    /\ SaveIgnoringErrors
    /\ Goto(w, next)
    /\ UNCHANGED <<selected, job, registry>> /\ UNCHANGED docker

(* Mutants: update returns without finish; a failed rollback is called rolled back. *)
RecordNoChangeAndReturn(w) == pc[w] = "noChange" /\ RecordHistory(w, "no_change", "none")
RecordFailedAsRolledBack(w) == pc[w] = "rbFailed" /\ RecordHistory(w, "rolled_back", "fail")

RecordNoChange(w)   == pc[w] = "noChange"   /\ RecordHistory(w, "no_change", "result")
RecordSuccess(w)    == pc[w] = "success"    /\ RecordHistory(w, "success", "collect")
RecordRolledBack(w) == pc[w] = "rolledBack" /\ RecordHistory(w, "rolled_back", "fail")
RecordFailed(w)     == pc[w] = "rbFailed"   /\ RecordHistory(w, "failed", "fail")

Fail(w) ==
    /\ pc[w] = "fail"
    /\ status' = [status EXCEPT !.state = "failed", !.active = None,
                                !.services[job[w].service].failed = TRUE]
    /\ SaveIgnoringErrors
    /\ Goto(w, "none")
    /\ job' = [job EXCEPT ![w] = NoJob]
    /\ UNCHANGED <<selected, registry>> /\ UNCHANGED docker

(* cleanupAfterSuccess reads the history under the lock, then removes what no
   container uses, image by image and volume by volume. *)
CollectSuperseded(w) ==
    /\ pc[w] = "collect"
    /\ job' = [job EXCEPT ![w].doomed = Superseded(status.history, job[w].service)]
    /\ Goto(w, "sweep")
    /\ UNCHANGED <<status, selected, registry>> /\ UNCHANGED files /\ UNCHANGED docker

RemoveImage(w) ==
    /\ pc[w] = "sweep"
    /\ \E i \in job[w].doomed :
        /\ Runs(w) /\ ~InUse(i)
        /\ present' = present \ {i}
        /\ job' = [job EXCEPT ![w].doomed = job[w].doomed \ {i},
                              ![w].removed = job[w].removed \cup {i}]
    /\ UNCHANGED <<status, selected, pc, container, data, owner, tag, registry, volumes>>
    /\ UNCHANGED files

SkipImage(w) ==
    /\ pc[w] = "sweep"
    /\ \E i \in job[w].doomed, late \in BOOLEAN :
        /\ job' = [job EXCEPT ![w].doomed = job[w].doomed \ {i}, ![w].expired = late]
        /\ \/ Runs(w) /\ InUse(i) /\ ~late
           \/ Breaks(w) /\ (late => "deadline" \in Faults) /\ (~late => "command" \in Faults)
           \/ Refused(w) /\ late
    /\ UNCHANGED <<status, selected, pc, registry>> /\ UNCHANGED files /\ UNCHANGED docker

CleanVolumes(w) ==
    /\ pc[w] = "sweep" /\ job[w].doomed = {}
    /\ \/ Runs(w) /\ volumes' = volumes \cap Attached /\ Goto(w, "attach") /\ UNCHANGED job
       \/ Breaks(w) /\ AfterFailure(w, "attach")
            /\ \E gone \in SUBSET (volumes \ Attached) : volumes' = volumes \ gone
       \/ Refused(w) /\ AfterFailure(w, "attach") /\ UNCHANGED volumes
    /\ UNCHANGED <<status, selected, container, data, owner, tag, registry, present>>
    /\ UNCHANGED files

AttachCleanup(w) ==
    /\ pc[w] = "attach"
    /\ status' = [status EXCEPT !.history[1].removed = job[w].removed]
    /\ SaveIgnoringErrors
    /\ Goto(w, "result")
    /\ UNCHANGED <<selected, job, registry>> /\ UNCHANGED docker

(* Mutant: the result names the image before the update. *)
ReportPrevious(w) ==
    /\ pc[w] = "result"
    /\ status' = [status EXCEPT !.services[job[w].service] =
                    [current |-> job[w].old, candidate |-> job[w].candidate,
                     available |-> FALSE, failed |-> FALSE]]
    /\ SaveIgnoringErrors
    /\ Goto(w, "idle")
    /\ UNCHANGED <<selected, job, registry>> /\ UNCHANGED docker

(* finish: the result of the service first, the state in a second critical section *)
ReportResult(w) ==
    /\ pc[w] = "result"
    /\ status' = [status EXCEPT !.services[job[w].service] =
                    [current |-> job[w].candidate, candidate |-> job[w].candidate,
                     available |-> FALSE, failed |-> FALSE]]
    /\ SaveIgnoringErrors
    /\ Goto(w, "idle")
    /\ UNCHANGED <<selected, job, registry>> /\ UNCHANGED docker

FinishUpdate(w) == pc[w] = "idle" /\ BecomeIdle(w)

-----------------------------------------------------------------------------
(* The Core's restart and the registry *)

InitialStatus ==
    [state |-> "idle", active |-> None, services |-> [s \in Service |-> NoReport],
     history |-> <<>>]

Loaded == IF statusFile = None THEN InitialStatus ELSE statusFile
(* Mutant: only an interrupted check is recognised. *)
InterruptedCheck == Loaded.state = "checking"

Interrupted == Loaded.state \in {"checking", "updating"}

(* NewManager in a new process: every goroutine is gone, docker is as it was. *)
Restart ==
    /\ "restart" \in Faults
    /\ selected' = IF imagesFile = None THEN [s \in Service |-> None] ELSE imagesFile
    /\ pc' = [w \in Worker |-> "none"]
    /\ job' = [w \in Worker |-> NoJob]
    /\ IF Interrupted
       THEN status' = [Loaded EXCEPT !.state = "failed"]
            /\ \E written \in Written : Persist(written)
       ELSE status' = Loaded /\ UNCHANGED files
    /\ UNCHANGED docker /\ UNCHANGED registry

(* A new image is published under a service's target reference, or an old one again. *)
Publish(s, i) ==
    /\ registry' = [registry EXCEPT ![s] = i]
    /\ UNCHANGED memory /\ UNCHANGED files /\ UNCHANGED docker

-----------------------------------------------------------------------------

Init ==
    /\ status = InitialStatus
    /\ selected = [s \in Service |-> None]
    /\ pc = [w \in Worker |-> "none"]
    /\ job = [w \in Worker |-> NoJob]
    /\ statusFile = None /\ imagesFile = None
    /\ overrideFile = [s \in Service |-> None]
    /\ container \in [Service -> Image]
    /\ data = container /\ tag = container /\ registry = container
    /\ present = {container[s] : s \in Service}
    /\ owner \in [Service -> Owner]
    /\ volumes = Volume

CheckStep(w) ==
    \/ CheckNext(w) \/ CheckInspect(w) \/ CheckPull(w) \/ CheckResolve(w) \/ FinishCheck(w)

PrepareStep(w) ==
    \/ Inspect(w) \/ Backup(w) \/ Pull(w) \/ ResolveCandidate(w)
    \/ InspectOwner(w) \/ MigrateOwner(w) \/ UndoMigration(w)
    \/ SelectTarget(w) \/ ReplaceContainer(w) \/ VerifyCandidate(w)

RollbackStep(w) ==
    \/ BeginRollback(w) \/ RollbackOwner(w) \/ RollbackSelection(w) \/ RollbackContainer(w)
    \/ RollbackData(w) \/ RollbackRestart(w) \/ VerifyRollback(w)

OutcomeStep(w) ==
    \/ RecordNoChange(w) \/ RecordSuccess(w) \/ RecordRolledBack(w) \/ RecordFailed(w)
    \/ Fail(w) \/ CollectSuperseded(w) \/ RemoveImage(w) \/ SkipImage(w) \/ CleanVolumes(w)
    \/ AttachCleanup(w) \/ ReportResult(w) \/ FinishUpdate(w)

WorkerStep(w) == CheckStep(w) \/ PrepareStep(w) \/ RollbackStep(w) \/ OutcomeStep(w)

Next ==
    \/ \E w \in Worker : StartCheck(w) \/ WorkerStep(w)
    \/ \E w \in Worker, s \in Service : StartUpdate(w, s)
    \/ Restart
    \/ \E s \in Service, i \in Image : Publish(s, i)

Spec == Init /\ [][Next]_vars

(* Docker answers or the deadline ends the wait, so a started goroutine goes on. *)
FairSpec == Spec /\ \A w \in Worker : WF_vars(WorkerStep(w))

-----------------------------------------------------------------------------
(* Properties *)

Early == {"inspect", "fail"}

(* The local variables of a job are set by the time they are read. *)
LocalsSet(point, j) ==
    /\ point \notin {"none", "checkNext"} => j.service \in Service
    /\ point \in (UpdatePoints \ Early) \cup {"checkPull", "checkResolve"} => j.old \in Image
    /\ point \in UpdatePoints \ (Early \cup {"backup"}) => j.backup \in Image
    /\ point \in UpdatePoints \ (Early \cup {"backup", "pull", "resolve"}) =>
           j.candidate \in Image

LocalsAreSet == \A w \in Worker : LocalsSet(pc[w], job[w])

(* Every variable stays in the set of values the code can give it. *)
TypeOK ==
    /\ LocalsAreSet
    /\ status \in Status
    /\ selected \in [Service -> Image \cup {Target, None}]
    /\ pc \in [Worker -> CheckPoints \cup UpdatePoints \cup {"none"}]
    /\ job \in [Worker -> Job]
    /\ statusFile \in Status \cup {None}
    /\ imagesFile \in [Service -> Image \cup {Target, None}] \cup {None}
    /\ overrideFile \in [Service -> Image \cup {Target, None}]
    /\ container \in [Service -> Image]
    /\ data \in [Service -> Image]
    /\ owner \in [Service -> Owner]
    /\ tag \in [Service -> Image]
    /\ registry \in [Service -> Image]
    /\ present \in SUBSET Image
    /\ volumes \in SUBSET Volume

(* busyLocked is the only thing that keeps two goroutines apart: at most one
   job runs, the state says "checking" or "updating" exactly as long as it
   runs (also after a restart found that state in the file), and it names the
   right kind of job. *)
OneJobAtATime ==
    /\ \A v, w \in Worker : pc[v] # "none" /\ pc[w] # "none" => v = w
    /\ status.state = "checking" <=> \E w \in Worker : pc[w] \in CheckPoints
    /\ status.state = "updating" <=> \E w \in Worker : pc[w] \in UpdatePoints

(* The points of update at which the previous image may still be needed: from
   the decision to replace the container to the recorded outcome. *)
Replacing == {"owner", "chown", "unchown", "select", "up", "verify", "rollback",
              "rbOwner", "rbSelect", "rbUp", "rbCopy", "rbRestart", "rbVerify"}

(* Removing superseded images never takes one that is needed: the image of
   every container, the one the target reference resolves to, and, while a
   replacement may still be undone, the image it would return to. *)
ImagesAtHand ==
    /\ \A s \in Service : container[s] \in present /\ tag[s] \in present
    /\ \A w \in Worker : pc[w] \in Replacing =>
           job[w].old \in present /\ tag[job[w].service] = job[w].candidate

(* When update is about to record "rolled_back", everything it changed is back:
   the container runs the image it started from, its data are the backup's,
   the volume has the owner found before the migration, and memory and
   override pin the old image, so that the next compose run keeps it. *)
RolledBackIsComplete ==
    \A w \in Worker : pc[w] = "rolledBack" =>
        LET s == job[w].service IN
        /\ container[s] = job[w].old
        /\ data[s] = job[w].backup
        /\ s \in Migrated => owner[s] = job[w].owner
        /\ selected[s] = job[w].old /\ overrideFile[s] = job[w].old

(* From the verification of the candidate to the end of the job, the container
   runs the candidate, which is what the target reference resolves to and what
   memory and override select, on a volume that has the owner it wants. *)
SuccessIsComplete ==
    \A w \in Worker : pc[w] \in {"success", "collect", "sweep", "attach"} =>
        LET s == job[w].service IN
        /\ container[s] = job[w].candidate /\ job[w].candidate # job[w].old
        /\ tag[s] = job[w].candidate
        /\ selected[s] = Target /\ overrideFile[s] = Target
        /\ s \in Migrated => owner[s] = "wanted"

(* attachCleanup writes the cleanup into whatever entry is newest: between
   recordHistory and attachCleanup that is the entry of the same job. *)
CleanupFindsItsEntry ==
    \A w \in Worker : pc[w] \in {"collect", "sweep", "attach"} =>
        /\ status.history # <<>>
        /\ status.history[1] = EntryOf(w, "success")

(* While the manager is idle, a service reported without error runs the image
   the report calls current, and an advertised update is another image. *)
IdleReportIsTrue ==
    status.state = "idle" => \A s \in Service :
        LET report == status.services[s] IN
        ~report.failed /\ report.current # None =>
            /\ container[s] = report.current
            /\ report.available <=> report.candidate # report.current

(* Pulling, recreating, restoring and cleaning up for one service never touches
   another one's container, data or volume. *)
OnlyTheActiveServiceChanges ==
    [][\A s \in Service :
        \/ container'[s] = container[s] /\ data'[s] = data[s] /\ owner'[s] = owner[s]
        \/ status.state = "updating" /\ status.active = s /\ status'.active = s]_vars

(* Every check and every update ends, and the manager accepts the next one,
   whatever fails, as long as the worker's commands return or time out. *)
JobsEnd == Busy ~> ~Busy

(* README.md says that Core "rolls back failed replacements": an update that
   fails leaves the container with the image it had. *)
FailedReplacementIsRolledBack ==
    [][\A w \in Worker : pc[w] = "fail" /\ pc'[w] = "none" =>
          job[w].old = None \/ container'[job[w].service] = job[w].old]_vars

(* manager_test.go says that cleanup keeps the previous and the current image. *)
PreviousImageKept ==
    \A w \in Worker : pc[w] \in {"sweep", "attach"} =>
        {job[w].old, job[w].candidate} \subseteq present

-----------------------------------------------------------------------------
(* The mapping under which the updater implements ProtectedReplacement: the images
   of the containers, the update some worker runs, and the newest entry of the
   history. *)

(* An update in progress is told from none. *)
ASSUME PromiseAssumption ==
    None \notin [service : Service, decided : BOOLEAN, from : Image]

Updating == {w \in Worker : pc[w] \in UpdatePoints}

(* The outcome is decided when it is recorded, or an error ends the job before. *)
Decided == {"collect", "sweep", "attach", "result", "idle", "fail"}

StartedFrom(w) ==
    IF job[w].old = None THEN container[job[w].service] ELSE job[w].old

UpdateOf(w) ==
    [service |-> job[w].service, decided |-> pc[w] \in Decided, from |-> StartedFrom(w)]

UpdateInProgress ==
    IF Updating = {} THEN None ELSE UpdateOf(CHOOSE w \in Updating : TRUE)

LastVerdict ==
    IF status.history = <<>> THEN None ELSE
    LET entry == status.history[1]
    IN  [service |-> entry.service, outcome |-> entry.outcome,
         from |-> entry.from, to |-> entry.to]

Promise == INSTANCE ProtectedReplacement WITH
    image <- container, update <- UpdateInProgress, verdict <- LastVerdict

(* The updater keeps its promise about the images: every step of it is a step
   of ProtectedReplacement or leaves image, update and verdict as they are. *)
PromiseKept == Promise!Spec

=============================================================================
