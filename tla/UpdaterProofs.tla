--------------------------- MODULE UpdaterProofs ---------------------------
(***************************************************************************)
(* Proofs about Updater for every set of services, images and workers,     *)
(* every history length and every set of faults: types, the exclusion of   *)
(* jobs, what a rollback has put back and what a job has achieved by the   *)
(* time it records its outcome, what the reports say, the refinement of    *)
(* ProtectedReplacement, which images the cleanup spares, and that an      *)
(* update leaves the other services alone.  The last two parts are about   *)
(* DnsStack, where the steps of an Installer interleave with these.        *)
(***************************************************************************)
EXTENDS DnsStack, SequenceTheorems, TLAPS

References == Image \cup {Target, None}
Points     == CheckPoints \cup UpdatePoints \cup {"none"}

(* Prepending an entry and cutting the result gives a history again. *)
LEMMA RecordedType ==
    ASSUME NEW history \in History, NEW entry \in Entry
    PROVE  /\ Recorded(history, entry) \in History
           /\ Recorded(history, entry) # <<>>
           /\ Recorded(history, entry)[1] = entry
<1> DEFINE longer == <<entry>> \o history
<1>1. longer \in Seq(Entry) /\ Len(longer) = Len(history) + 1 /\ longer[1] = entry
  BY DEF History
<1>2. CASE Len(longer) > MaxHistory
  <2>1. SubSeq(longer, 1, MaxHistory) \in Seq(Entry)
    BY <1>1, <1>2, HistoryAssumption
  <2>2. Len(SubSeq(longer, 1, MaxHistory)) = MaxHistory
    BY <1>1, <1>2, HistoryAssumption
  <2>3. SubSeq(longer, 1, MaxHistory)[1] = entry
    BY <1>1, <1>2, HistoryAssumption
  <2> QED BY <1>2, <2>1, <2>2, <2>3, HistoryAssumption DEF Recorded, History
<1>3. CASE ~(Len(longer) > MaxHistory)
  BY <1>1, <1>3, HistoryAssumption DEF Recorded, History
<1> QED BY <1>2, <1>3

(* Whatever persistLocked gets to, the files keep their types. *)
LEMMA PersistType ==
    ASSUME TypeOK, status' \in Status, selected' \in [Service -> References],
           NEW written, Persist(written)
    PROVE  /\ statusFile' \in Status \cup {None}
           /\ imagesFile' \in [Service -> References] \cup {None}
           /\ overrideFile' \in [Service -> References]
<1>1. Override(selected') \in [Service -> References]
  BY DEF Override, References
<1> QED BY <1>1 DEF Persist, TypeOK, References

(* So they do when the error of the save is dropped: SaveIgnoringErrors. *)
LEMMA SaveType ==
    ASSUME TypeOK, status' \in Status, SaveIgnoringErrors
    PROVE  /\ selected' \in [Service -> References]
           /\ statusFile' \in Status \cup {None}
           /\ imagesFile' \in [Service -> References] \cup {None}
           /\ overrideFile' \in [Service -> References]
<1>1. selected' \in [Service -> References]
  BY DEF SaveIgnoringErrors, TypeOK, References
<1> QED BY <1>1, PersistType DEF SaveIgnoringErrors

(* attachCleanup changes the first entry only. *)
LEMMA AttachedType ==
    ASSUME NEW history \in History, NEW removed \in SUBSET Image
    PROVE  [history EXCEPT ![1].removed = removed] \in History
<1>1. \A entry \in Entry : [entry EXCEPT !.removed = removed] \in Entry
  BY DEF Entry
<1>2. history \in Seq(Entry) /\ Len(history) <= MaxHistory
  BY DEF History
<1> DEFINE changed == [history EXCEPT ![1].removed = removed]
<1>3. CASE history = <<>>
  BY <1>2, <1>3
<1>4. CASE 1 \in 1..Len(history)
  <2>1. [history[1] EXCEPT !.removed = removed] \in Entry
    BY <1>1, <1>2, <1>4
  <2>2. changed \in Seq(Entry) /\ Len(changed) = Len(history)
    BY <1>2, <1>4, <2>1, ExceptSeq
  <2> QED BY <1>2, <2>2 DEF History
<1> QED BY <1>2, <1>3, <1>4

(* The status of a manager that finds no file is a status. *)
LEMMA InitialStatusType == InitialStatus \in Status
<1>1. <<>> \in History
  BY HistoryAssumption DEF History
<1> QED BY <1>1 DEF InitialStatus, Status, NoReport, Report, Optional

(* NewManager on an empty data directory establishes the types. *)
LEMMA InitType == Init => TypeOK
<1> SUFFICES ASSUME Init PROVE TypeOK
  OBVIOUS
<1>1. InitialStatus \in Status
  BY InitialStatusType
<1>2. NoJob \in Job
  BY DEF NoJob, Job, Optional, Owner
<1>3. present \in SUBSET Image
  BY DEF Init
<1>4. LocalsAreSet
  BY DEF Init, LocalsAreSet, LocalsSet, UpdatePoints
<1> QED BY <1>1, <1>2, <1>3, <1>4 DEF Init, TypeOK

(* The types of what one worker's control and local variables become. *)
LEMMA GotoType ==
    ASSUME TypeOK, NEW w \in Worker, NEW point \in Points, Goto(w, point)
    PROVE  pc' \in [Worker -> Points]
BY DEF TypeOK, Goto, Points

(* A failed command moves the worker and may note the passed deadline. *)
LEMMA AfterFailureType ==
    ASSUME TypeOK, NEW w \in Worker, NEW point \in Points, AfterFailure(w, point)
    PROVE  pc' \in [Worker -> Points] /\ job' \in [Worker -> Job]
<1>1. PICK late \in BOOLEAN : job' = [job EXCEPT ![w].expired = late]
  BY DEF AfterFailure
<1>2. [job[w] EXCEPT !.expired = late] \in Job
  BY DEF TypeOK, Job
<1>3. job' \in [Worker -> Job]
  BY <1>1, <1>2 DEF TypeOK
<1> QED BY <1>3, GotoType DEF AfterFailure

(* A slot without goroutine holds a job record as well. *)
LEMMA NoJobType == NoJob \in Job
BY DEF NoJob, Job, Optional, Owner

(* setServiceResult changes the report of one service. *)
LEMMA ReportType ==
    ASSUME NEW st \in Status, NEW s \in Service, NEW report \in Report
    PROVE  [st EXCEPT !.services[s] = report] \in Status
BY DEF Status

(* setProgress changes the active service only. *)
LEMMA ProgressType ==
    ASSUME TypeOK, NEW s \in Service, SetProgress(s)
    PROVE  status' \in Status
BY DEF SetProgress, TypeOK, Status, Optional

-----------------------------------------------------------------------------

(* How the steps that share a shape keep the types: one that ends in memory and
   files only, one that changes docker only. *)
LEMMA MemoryStepType ==
    ASSUME TypeOK, status' \in Status, SaveIgnoringErrors,
           pc' \in [Worker -> Points], job' \in [Worker -> Job], LocalsAreSet',
           UNCHANGED docker, UNCHANGED registry
    PROVE  TypeOK'
BY SaveType DEF TypeOK, docker, Points, References

(* A step that changes docker and the locals of a worker only. *)
LEMMA DockerStepType ==
    ASSUME TypeOK, UNCHANGED <<status, selected, registry>>, UNCHANGED files,
           pc' \in [Worker -> Points], job' \in [Worker -> Job], LocalsAreSet',
           container' \in [Service -> Image], data' \in [Service -> Image],
           owner' \in [Service -> Owner], tag' \in [Service -> Image],
           present' \in SUBSET Image, volumes' \in SUBSET Volume
    PROVE  TypeOK'
BY DEF TypeOK, files, Points

(* A step that changes the locals of a worker only. *)
LEMMA LocalStepType ==
    ASSUME TypeOK, UNCHANGED <<status, selected, registry>>, UNCHANGED files,
           pc' \in [Worker -> Points], job' \in [Worker -> Job], LocalsAreSet',
           UNCHANGED docker
    PROVE  TypeOK'
BY DEF TypeOK, files, Points, docker

(* A command that fails without effect. *)
LEMMA UnsuccessfulType ==
    ASSUME TypeOK, NEW w \in Worker, NEW point \in Points, Unsuccessful(w, point)
    PROVE  pc' \in [Worker -> Points] /\ job' \in [Worker -> Job]
BY AfterFailureType DEF Unsuccessful

(* A step of one worker keeps the locals set if its own are. *)
LEMMA LocalsStep ==
    ASSUME TypeOK, NEW w \in Worker, NEW point, NEW j, LocalsSet(point, j),
           Goto(w, point), job' = [job EXCEPT ![w] = j]
    PROVE  LocalsAreSet'
BY DEF TypeOK, Goto, LocalsAreSet

(* Moving to a point that asks for no more locals keeps them set. *)
LEMMA LocalsKept ==
    ASSUME TypeOK, NEW w \in Worker, NEW point, LocalsSet(point, job[w]),
           Goto(w, point), UNCHANGED job
    PROVE  LocalsAreSet'
BY DEF TypeOK, Goto, LocalsAreSet

(* The same for a failed command, which may set expired. *)
LEMMA LocalsAfterFailure ==
    ASSUME TypeOK, NEW w \in Worker, NEW point, LocalsSet(point, job[w]),
           AfterFailure(w, point)
    PROVE  LocalsAreSet'
<1>1. PICK late \in BOOLEAN : job' = [job EXCEPT ![w] = [job[w] EXCEPT !.expired = late]]
  BY DEF AfterFailure, TypeOK
<1>2. LocalsSet(point, [job[w] EXCEPT !.expired = late])
  BY DEF TypeOK, Job, LocalsSet
<1> QED BY <1>1, <1>2, LocalsStep DEF AfterFailure

(* What is known of the locals of a worker at a given point. *)
LEMMA LocalsHere ==
    ASSUME TypeOK, NEW w \in Worker
    PROVE  LocalsSet(pc[w], job[w]) /\ job[w] \in Job /\ pc[w] \in Points
BY DEF TypeOK, LocalsAreSet, Points

(* The same for a command that fails without effect. *)
LEMMA UnsuccessfulLocals ==
    ASSUME TypeOK, NEW w \in Worker, NEW point, LocalsSet(point, job[w]),
           Unsuccessful(w, point)
    PROVE  LocalsAreSet'
BY LocalsAfterFailure DEF Unsuccessful

(* The last step of a check or of a successful update. *)
LEMMA BecomeIdleType ==
    ASSUME TypeOK, NEW w \in Worker, BecomeIdle(w)
    PROVE  TypeOK'
<1>1. status' \in Status
  BY DEF BecomeIdle, TypeOK, Status, Optional
<1>2. job' \in [Worker -> Job] /\ pc' \in [Worker -> Points]
  BY NoJobType, GotoType DEF BecomeIdle, TypeOK, Points
<1>3. LocalsAreSet'
  BY LocalsStep DEF BecomeIdle, LocalsSet, UpdatePoints
<1> QED BY <1>1, <1>2, <1>3, MemoryStepType DEF BecomeIdle

(* StartCheck and StartUpdate. *)
LEMMA StartType ==
    ASSUME TypeOK, NEW w \in Worker, StartCheck(w) \/ \E s \in Service : StartUpdate(w, s)
    PROVE  TypeOK'
<1> USE DEF Points, CheckPoints, UpdatePoints
<1>1. CASE StartCheck(w)
  <2> DEFINE cleared == [s \in Service |-> [status.services[s] EXCEPT !.failed = FALSE]]
  <2>0. cleared \in [Service -> Report]
    <3>1. \A s \in Service : status.services[s] \in Report
      BY DEF TypeOK, Status
    <3>2. \A r \in Report : [r EXCEPT !.failed = FALSE] \in Report
      BY DEF Report
    <3> QED BY <3>1, <3>2
  <2>1. status' \in Status
    BY <1>1, <2>0 DEF StartCheck, TypeOK, Status, Optional
  <2>2. [NoJob EXCEPT !.todo = Service] \in Job
    BY DEF NoJob, Job, Optional, Owner
  <2>3. job' \in [Worker -> Job] /\ pc' \in [Worker -> Points]
    BY <1>1, <2>2, GotoType DEF StartCheck, TypeOK
  <2>4. LocalsAreSet'
    BY <1>1, LocalsStep DEF StartCheck, LocalsSet
  <2> QED BY <1>1, <2>1, <2>3, <2>4, MemoryStepType DEF StartCheck
<1>2. ASSUME NEW s \in Service, StartUpdate(w, s) PROVE TypeOK'
  <2>0. [status.services[s] EXCEPT !.failed = FALSE] \in Report
    <3>1. status.services[s] \in Report
      BY DEF TypeOK, Status
    <3> QED BY <3>1 DEF Report
  <2>1. status' \in Status
    BY <1>2, <2>0 DEF StartUpdate, TypeOK, Status, Optional
  <2>2. [NoJob EXCEPT !.service = s] \in Job /\ [NoJob EXCEPT !.service = s].service = s
    BY DEF NoJob, Job, Optional, Owner
  <2>3. job' \in [Worker -> Job] /\ pc' \in [Worker -> Points]
    BY <1>2, <2>2, GotoType DEF StartUpdate, TypeOK
  <2>4. LocalsAreSet'
    BY <1>2, <2>2, LocalsStep DEF StartUpdate, LocalsSet, Early
  <2> QED BY <1>2, <2>1, <2>3, <2>4, MemoryStepType DEF StartUpdate
<1> QED BY <1>1, <1>2

(* check, step by step. *)
LEMMA CheckStepType ==
    ASSUME TypeOK, NEW w \in Worker, CheckStep(w)
    PROVE  TypeOK'
<1> USE LocalsHere DEF Points, CheckPoints, UpdatePoints, Early
<1>1. CASE CheckNext(w)
  <2>1. PICK s \in job[w].todo :
            SetProgress(s) /\ job' = [job EXCEPT ![w].service = s, ![w].todo = job[w].todo \ {s}]
    BY <1>1 DEF CheckNext
  <2> DEFINE next == [job[w] EXCEPT !.service = s, !.todo = job[w].todo \ {s}]
  <2>2. s \in Service /\ next \in Job /\ next.service = s /\ job' = [job EXCEPT ![w] = next]
    BY <2>1 DEF Job, Optional, TypeOK
  <2>3. status' \in Status
    BY <2>1, <2>2, ProgressType
  <2>4. job' \in [Worker -> Job] /\ pc' \in [Worker -> Points]
    BY <1>1, <2>2, GotoType DEF CheckNext, TypeOK
  <2>5. LocalsAreSet'
    <3>1. LocalsSet("checkInspect", next)
      BY <2>2 DEF LocalsSet
    <3> QED BY <1>1, <2>2, <3>1, LocalsStep DEF CheckNext
  <2> QED BY <1>1, <2>1, <2>3, <2>4, <2>5, MemoryStepType DEF CheckNext, SetProgress
<1>2. CASE CheckInspect(w)
  <2> DEFINE s    == job[w].service
             next == [job[w] EXCEPT !.old = container[s]]
             missing == [NoReport EXCEPT !.failed = TRUE]
  <2>1. s \in Service /\ next \in Job /\ next.service = s /\ next.old \in Image
    <3>1. s \in Service /\ container[s] \in Image
      BY <1>2 DEF CheckInspect, TypeOK, LocalsSet
    <3> QED BY <3>1 DEF Job, Optional
  <2>2. CASE Runs(w) /\ Goto(w, "checkPull") /\ job' = [job EXCEPT ![w].old = container[s]]
             /\ UNCHANGED status /\ UNCHANGED files
    <3>1. job' = [job EXCEPT ![w] = next]
      BY <2>2 DEF TypeOK
    <3>2. job' \in [Worker -> Job] /\ pc' \in [Worker -> Points]
      BY <2>1, <2>2, <3>1, GotoType DEF TypeOK
    <3>3. LocalsSet("checkPull", next)
      BY <2>1 DEF LocalsSet
    <3> QED BY <1>2, <2>2, <3>1, <3>2, <3>3, LocalsStep, LocalStepType DEF CheckInspect
  <2>3. CASE Unsuccessful(w, "checkNext") /\ CheckedWith(w, missing)
    <3>1. status' \in Status
      BY <2>1, <2>3, ReportType DEF CheckedWith, TypeOK, NoReport, Report, Optional
    <3>2. pc' \in [Worker -> Points] /\ job' \in [Worker -> Job] /\ LocalsAreSet'
      BY <2>3, UnsuccessfulType, UnsuccessfulLocals DEF LocalsSet
    <3> QED BY <1>2, <2>3, <3>1, <3>2, MemoryStepType DEF CheckInspect, CheckedWith
  <2> QED BY <1>2, <2>2, <2>3 DEF CheckInspect
<1>3. CASE CheckPull(w)
  <2> DEFINE missing == [NoReport EXCEPT !.current = job[w].old, !.failed = TRUE]
  <2>1. job[w].service \in Service /\ job[w].old \in Image
    BY <1>3 DEF CheckPull, LocalsSet
  <2>2. CASE Runs(w) /\ Goto(w, "checkResolve") /\ UNCHANGED job
             /\ PullTarget(job[w].service) /\ UNCHANGED status /\ UNCHANGED files
    <3>1. pc' \in [Worker -> Points]
      BY <2>2, GotoType
    <3>2. tag' \in [Service -> Image] /\ present' \in SUBSET Image
      BY <2>1, <2>2 DEF PullTarget, TypeOK
    <3>3. LocalsAreSet'
      BY <2>1, <2>2, LocalsKept DEF LocalsSet
    <3> QED BY <1>3, <2>2, <3>1, <3>2, <3>3, DockerStepType DEF CheckPull, TypeOK
  <2>3. CASE Unsuccessful(w, "checkNext") /\ UNCHANGED <<tag, present>> /\ CheckedWith(w, missing)
    <3>1. status' \in Status
      BY <2>1, <2>3, ReportType DEF CheckedWith, TypeOK, NoReport, Report, Optional
    <3>2. pc' \in [Worker -> Points] /\ job' \in [Worker -> Job] /\ LocalsAreSet'
      BY <2>3, UnsuccessfulType, UnsuccessfulLocals DEF LocalsSet
    <3> QED BY <1>3, <2>3, <3>1, <3>2, MemoryStepType DEF CheckPull, CheckedWith, docker
  <2> QED BY <1>3, <2>2, <2>3 DEF CheckPull
<1>4. CASE CheckResolve(w)
  <2> DEFINE found == [current |-> job[w].old, candidate |-> tag[job[w].service],
                       available |-> job[w].old # tag[job[w].service], failed |-> FALSE]
             missing == [NoReport EXCEPT !.current = job[w].old, !.failed = TRUE]
  <2>1. job[w].service \in Service /\ found \in Report /\ missing \in Report
    BY <1>4 DEF CheckResolve, TypeOK, LocalsSet, Report, NoReport, Optional
  <2>2. CASE Runs(w) /\ Goto(w, "checkNext") /\ UNCHANGED job /\ CheckedWith(w, found)
    <3>1. status' \in Status
      BY <2>1, <2>2, ReportType DEF CheckedWith, TypeOK
    <3>2. pc' \in [Worker -> Points] /\ LocalsAreSet'
      BY <2>2, GotoType, LocalsKept DEF LocalsSet
    <3> QED BY <1>4, <2>2, <3>1, <3>2, MemoryStepType DEF CheckResolve, CheckedWith, TypeOK
  <2>3. CASE Unsuccessful(w, "checkNext") /\ CheckedWith(w, missing)
    <3>1. status' \in Status
      BY <2>1, <2>3, ReportType DEF CheckedWith, TypeOK
    <3>2. pc' \in [Worker -> Points] /\ job' \in [Worker -> Job] /\ LocalsAreSet'
      BY <2>3, UnsuccessfulType, UnsuccessfulLocals DEF LocalsSet
    <3> QED BY <1>4, <2>3, <3>1, <3>2, MemoryStepType DEF CheckResolve, CheckedWith
  <2> QED BY <1>4, <2>2, <2>3 DEF CheckResolve
<1>5. CASE FinishCheck(w)
  BY <1>5, BecomeIdleType DEF FinishCheck
<1> QED BY <1>1, <1>2, <1>3, <1>4, <1>5 DEF CheckStep

-----------------------------------------------------------------------------
(* The shapes the steps of an update share *)

(* composeUp, for any points to go to that need only the locals set by then. *)
LEMMA ComposeUpType ==
    ASSUME TypeOK, NEW w \in Worker, NEW success \in Points, NEW failure \in Points,
           job[w].service \in Service,
           LocalsSet(success, job[w]), LocalsSet(failure, job[w]),
           ComposeUp(w, success, failure)
    PROVE  TypeOK'
<1>1. Recreate(job[w].service) \/ KeepContainers =>
          container' \in [Service -> Image] /\ data' \in [Service -> Image]
  BY DEF Recreate, KeepContainers, TypeOK
<1>2. /\ pc' \in [Worker -> Points] /\ job' \in [Worker -> Job] /\ LocalsAreSet'
      /\ Recreate(job[w].service) \/ KeepContainers
  <2>1. CASE Runs(w) /\ Recreate(job[w].service) /\ Goto(w, success) /\ UNCHANGED job
    BY <2>1, GotoType, LocalsKept DEF TypeOK
  <2>2. CASE (Recreate(job[w].service) \/ KeepContainers) /\ AfterFailure(w, failure)
    BY <2>2, AfterFailureType, LocalsAfterFailure
  <2> QED BY <2>1, <2>2 DEF ComposeUp
<1> QED BY <1>1, <1>2, DockerStepType DEF ComposeUp, TypeOK

(* changeVolumeOwnership, likewise. *)
LEMMA ChangeOwnerType ==
    ASSUME TypeOK, NEW w \in Worker, NEW success \in Points, NEW failure \in Points,
           NEW image, NEW who \in Owner,
           LocalsSet(success, job[w]), LocalsSet(failure, job[w]),
           ChangeOwner(w, image, who, success, failure)
    PROVE  TypeOK'
<1>1. Chown(job[w].service, image, who) \/ UNCHANGED owner => owner' \in [Service -> Owner]
  BY DEF Chown, TypeOK
<1>2. /\ pc' \in [Worker -> Points] /\ job' \in [Worker -> Job] /\ LocalsAreSet'
      /\ Chown(job[w].service, image, who) \/ UNCHANGED owner
  <2>1. CASE Runs(w) /\ Chown(job[w].service, image, who) /\ Goto(w, success) /\ UNCHANGED job
    BY <2>1, GotoType, LocalsKept DEF TypeOK
  <2>2. CASE (Chown(job[w].service, image, who) \/ UNCHANGED owner) /\ AfterFailure(w, failure)
    BY <2>2, AfterFailureType, LocalsAfterFailure
  <2> QED BY <2>1, <2>2 DEF ChangeOwner
<1> QED BY <1>1, <1>2, DockerStepType DEF ChangeOwner, TypeOK

(* selectImage, likewise. *)
LEMMA SelectImageType ==
    ASSUME TypeOK, NEW w \in Worker, NEW success \in Points, NEW failure \in Points,
           NEW reference \in References,
           LocalsSet(success, job[w]), LocalsSet(failure, job[w]),
           SelectImage(w, reference, success, failure)
    PROVE  TypeOK'
<1>1. selected' \in [Service -> References] /\ status' \in Status
  BY DEF SelectImage, TypeOK, References
<1>2. PICK written \in Written :
          Persist(written) /\ Goto(w, IF written = 3 THEN success ELSE failure)
  BY DEF SelectImage
<1>3. pc' \in [Worker -> Points] /\ LocalsAreSet'
  BY <1>2, GotoType, LocalsKept DEF SelectImage
<1>4. /\ statusFile' \in Status \cup {None}
      /\ imagesFile' \in [Service -> References] \cup {None}
      /\ overrideFile' \in [Service -> References]
  BY <1>1, <1>2, PersistType
<1> QED BY <1>1, <1>3, <1>4 DEF SelectImage, TypeOK, References, Points, docker

(* verifyWithRetry, likewise. *)
LEMMA VerifyType ==
    ASSUME TypeOK, NEW w \in Worker, NEW success \in Points, NEW failure \in Points,
           NEW mayFail,
           LocalsSet(success, job[w]), LocalsSet(failure, job[w]),
           VerifyWithRetry(w, mayFail, success, failure)
    PROVE  TypeOK'
<1>1. pc' \in [Worker -> Points] /\ job' \in [Worker -> Job] /\ LocalsAreSet'
  <2>1. CASE \E point \in {success, failure} : Goto(w, point) /\ UNCHANGED job
    BY <2>1, GotoType, LocalsKept DEF TypeOK
  <2>2. CASE Unsuccessful(w, failure)
    BY <2>2, UnsuccessfulType, UnsuccessfulLocals
  <2> QED BY <2>1, <2>2 DEF VerifyWithRetry
<1> QED BY <1>1, LocalStepType DEF VerifyWithRetry

(* recordHistory, likewise. *)
LEMMA RecordHistoryType ==
    ASSUME TypeOK, NEW w \in Worker, NEW next \in Points,
           NEW outcome \in {"success", "no_change", "rolled_back", "failed"},
           job[w].service \in Service, job[w].old \in Image, job[w].candidate \in Image,
           LocalsSet(next, job[w]),
           RecordHistory(w, outcome, next)
    PROVE  TypeOK'
<1>1. EntryOf(w, outcome) \in Entry
  BY DEF EntryOf, Entry
<1>2. Recorded(status.history, EntryOf(w, outcome)) \in History
  BY <1>1, RecordedType DEF TypeOK, Status
<1>3. status' \in Status
  BY <1>2 DEF RecordHistory, TypeOK, Status
<1>4. pc' \in [Worker -> Points] /\ job' \in [Worker -> Job] /\ LocalsAreSet'
  BY GotoType, LocalsKept DEF RecordHistory, TypeOK
<1> QED BY <1>3, <1>4, MemoryStepType DEF RecordHistory

-----------------------------------------------------------------------------

(* update, up to the verification of the candidate. *)
LEMMA PrepareStepType ==
    ASSUME TypeOK, NEW w \in Worker, PrepareStep(w)
    PROVE  TypeOK'
<1> DEFINE s == job[w].service
<1> USE LocalsHere DEF Points, CheckPoints, UpdatePoints, Early, LocalsSet
<1>0. s \in Service
  BY DEF PrepareStep, Inspect, Backup, Pull, ResolveCandidate, InspectOwner, MigrateOwner,
         UndoMigration, SelectTarget, ReplaceContainer, VerifyCandidate
<1>1. CASE Inspect(w)
  <2> DEFINE next == [job[w] EXCEPT !.old = container[s]]
  <2>1. next \in Job /\ next.service = s /\ next.old \in Image
    <3>1. container[s] \in Image
      BY <1>0 DEF TypeOK
    <3> QED BY <3>1 DEF Job, Optional
  <2>2. CASE Goto(w, "backup") /\ job' = [job EXCEPT ![w].old = container[s]] /\ SetProgress(s)
    <3>1. job' = [job EXCEPT ![w] = next] /\ job' \in [Worker -> Job]
      BY <2>1, <2>2 DEF TypeOK
    <3>2. pc' \in [Worker -> Points] /\ LocalsAreSet'
      BY <1>0, <2>1, <2>2, <3>1, GotoType, LocalsStep
    <3> QED BY <1>0, <1>1, <2>2, <3>1, <3>2, ProgressType, MemoryStepType DEF Inspect, SetProgress
  <2>3. CASE Unsuccessful(w, "fail") /\ UNCHANGED status /\ UNCHANGED files
    BY <1>0, <1>1, <2>3, UnsuccessfulType, UnsuccessfulLocals, LocalStepType DEF Inspect
  <2> QED BY <1>1, <2>2, <2>3 DEF Inspect
<1>2. CASE Backup(w)
  <2> DEFINE next == [job[w] EXCEPT !.backup = data[s]]
  <2>1. next \in Job /\ next.service = s /\ next.old = job[w].old /\ next.backup \in Image
    <3>1. data[s] \in Image
      BY <1>0 DEF TypeOK
    <3> QED BY <3>1 DEF Job, Optional
  <2>2. CASE Goto(w, "pull") /\ job' = [job EXCEPT ![w].backup = data[s]] /\ SetProgress(s)
    <3>1. job' = [job EXCEPT ![w] = next] /\ job' \in [Worker -> Job]
      BY <2>1, <2>2 DEF TypeOK
    <3>2. LocalsSet("pull", next)
      BY <1>0, <1>2, <2>1 DEF Backup
    <3>3. pc' \in [Worker -> Points] /\ LocalsAreSet'
      BY <2>2, <3>1, <3>2, GotoType, LocalsStep
    <3> QED BY <1>0, <1>2, <2>2, <3>1, <3>3, ProgressType, MemoryStepType DEF Backup, SetProgress
  <2>3. CASE Unsuccessful(w, "fail") /\ UNCHANGED status /\ UNCHANGED files
    BY <1>0, <1>2, <2>3, UnsuccessfulType, UnsuccessfulLocals, LocalStepType DEF Backup
  <2> QED BY <1>2, <2>2, <2>3 DEF Backup
<1>3. CASE Pull(w)
  <2>1. CASE PullTarget(s) /\ Goto(w, "resolve") /\ UNCHANGED job
    <3>1. tag' \in [Service -> Image] /\ present' \in SUBSET Image
      BY <1>0, <2>1 DEF PullTarget, TypeOK
    <3>2. LocalsSet("resolve", job[w])
      BY <1>3 DEF Pull
    <3> QED BY <1>3, <2>1, <3>1, <3>2, GotoType, LocalsKept, DockerStepType DEF Pull, TypeOK
  <2>2. CASE Unsuccessful(w, "fail") /\ UNCHANGED <<tag, present>>
    BY <1>0, <1>3, <2>2, UnsuccessfulType, UnsuccessfulLocals, DockerStepType DEF Pull, TypeOK
  <2> QED BY <1>3, <2>1, <2>2 DEF Pull
<1>4. CASE ResolveCandidate(w)
  <2> DEFINE next  == [job[w] EXCEPT !.candidate = tag[s]]
             point == AfterResolve(s, tag[s], job[w].old)
  <2>1. /\ next \in Job /\ next.service = s /\ next.candidate \in Image
        /\ next.old = job[w].old /\ next.backup = job[w].backup
    <3>1. tag[s] \in Image
      BY <1>0 DEF TypeOK
    <3> QED BY <3>1 DEF Job, Optional
  <2>2. CASE Goto(w, point) /\ job' = [job EXCEPT ![w].candidate = tag[s]]
             /\ IF tag[s] # job[w].old THEN SetProgress(s) ELSE UNCHANGED status /\ UNCHANGED files
    <3>1. job' = [job EXCEPT ![w] = next] /\ job' \in [Worker -> Job]
      BY <2>1, <2>2 DEF TypeOK
    <3>2. point \in Points
      BY DEF AfterResolve
    <3>3. LocalsSet(point, next)
      BY <1>0, <1>4, <2>1 DEF ResolveCandidate, AfterResolve
    <3>4. pc' \in [Worker -> Points] /\ LocalsAreSet'
      BY <2>2, <3>1, <3>2, <3>3, GotoType, LocalsStep
    <3> QED BY <1>0, <1>4, <2>2, <3>1, <3>4, ProgressType, MemoryStepType, LocalStepType
            DEF ResolveCandidate, SetProgress
  <2>3. CASE Unsuccessful(w, "fail") /\ UNCHANGED status /\ UNCHANGED files
    BY <1>0, <1>4, <2>3, UnsuccessfulType, UnsuccessfulLocals, LocalStepType DEF ResolveCandidate
  <2> QED BY <1>4, <2>2, <2>3 DEF ResolveCandidate
<1>5. CASE InspectOwner(w)
  <2> DEFINE next  == [job[w] EXCEPT !.owner = owner[s], !.changed = (owner[s] # "wanted")]
             point == IF owner[s] = "wanted" THEN "select" ELSE "chown"
  <2>1. /\ next \in Job /\ next.service = s /\ next.candidate = job[w].candidate
        /\ next.old = job[w].old /\ next.backup = job[w].backup
    <3>1. owner[s] \in Owner
      BY <1>0 DEF TypeOK
    <3> QED BY <3>1 DEF Job
  <2>2. CASE Goto(w, point)
             /\ job' = [job EXCEPT ![w].owner = owner[s], ![w].changed = (owner[s] # "wanted")]
    <3>1. job' = [job EXCEPT ![w] = next] /\ job' \in [Worker -> Job]
      BY <2>1, <2>2 DEF TypeOK
    <3>2. LocalsSet(point, next)
      BY <1>0, <1>5, <2>1 DEF InspectOwner
    <3>3. pc' \in [Worker -> Points] /\ LocalsAreSet'
      BY <2>2, <3>1, <3>2, GotoType, LocalsStep
    <3> QED BY <1>5, <2>2, <3>1, <3>3, LocalStepType DEF InspectOwner
  <2>3. CASE Unsuccessful(w, "fail")
    BY <1>0, <1>5, <2>3, UnsuccessfulType, UnsuccessfulLocals, LocalStepType DEF InspectOwner
  <2> QED BY <1>5, <2>2, <2>3 DEF InspectOwner
<1>6. CASE MigrateOwner(w)
  BY <1>6, ChangeOwnerType DEF MigrateOwner, Owner
<1>7. CASE UndoMigration(w)
  <2>1. job[w].owner \in Owner
    BY DEF Job
  <2> QED BY <1>0, <1>7, <2>1, ChangeOwnerType DEF UndoMigration
<1>8. CASE SelectTarget(w)
  BY <1>8, SelectImageType DEF SelectTarget, References
<1>9. CASE ReplaceContainer(w)
  BY <1>0, <1>9, ComposeUpType DEF ReplaceContainer
<1>10. CASE VerifyCandidate(w)
  BY <1>10, VerifyType DEF VerifyCandidate
<1> QED BY <1>1, <1>2, <1>3, <1>4, <1>5, <1>6, <1>7, <1>8, <1>9, <1>10 DEF PrepareStep

(* rollback, step by step. *)
LEMMA RollbackStepType ==
    ASSUME TypeOK, NEW w \in Worker, RollbackStep(w)
    PROVE  TypeOK'
<1> DEFINE s == job[w].service
<1> USE LocalsHere DEF Points, CheckPoints, UpdatePoints, Early, LocalsSet
<1>0. s \in Service /\ job[w].old \in Image /\ job[w].backup \in Image
  BY DEF RollbackStep, BeginRollback, RollbackOwner, RollbackSelection, RollbackContainer,
         RollbackData, RollbackRestart, VerifyRollback
<1>1. CASE BeginRollback(w)
  <2> DEFINE point == IF job[w].changed THEN "rbOwner" ELSE "rbSelect"
  <2>1. LocalsSet(point, job[w])
    BY <1>1 DEF BeginRollback
  <2>2. pc' \in [Worker -> Points] /\ LocalsAreSet' /\ job' \in [Worker -> Job]
    BY <1>1, <2>1, GotoType, LocalsKept DEF BeginRollback, TypeOK
  <2> QED BY <1>0, <1>1, <2>2, ProgressType, MemoryStepType DEF BeginRollback, SetProgress
<1>2. CASE RollbackOwner(w)
  <2>1. job[w].owner \in Owner
    BY DEF Job
  <2> QED BY <1>2, <2>1, ChangeOwnerType DEF RollbackOwner
<1>3. CASE RollbackSelection(w)
  BY <1>0, <1>3, SelectImageType DEF RollbackSelection, References
<1>4. CASE RollbackContainer(w)
  BY <1>0, <1>4, ComposeUpType DEF RollbackContainer
<1>5. CASE RollbackData(w)
  <2> DEFINE restored == [data EXCEPT ![s] = job[w].backup]
  <2>1. restored \in [Service -> Image]
    BY <1>0 DEF TypeOK
  <2>2. data' \in {data, restored}
    BY <1>5 DEF RollbackData
  <2>3. pc' \in [Worker -> Points] /\ job' \in [Worker -> Job] /\ LocalsAreSet'
    <3>1. CASE Goto(w, "rbRestart") /\ UNCHANGED job
      BY <1>5, <3>1, GotoType, LocalsKept DEF RollbackData, TypeOK
    <3>2. CASE AfterFailure(w, "rbFailed")
      BY <1>5, <3>2, AfterFailureType, LocalsAfterFailure DEF RollbackData
    <3> QED BY <1>5, <3>1, <3>2 DEF RollbackData
  <2> QED BY <1>5, <2>1, <2>2, <2>3, DockerStepType DEF RollbackData, TypeOK
<1>6. CASE RollbackRestart(w)
  <2>1. CASE Goto(w, "rbVerify") /\ UNCHANGED job
    <3>1. LocalsSet("rbVerify", job[w])
      BY <1>6 DEF RollbackRestart
    <3> QED BY <1>6, <2>1, <3>1, GotoType, LocalsKept, LocalStepType DEF RollbackRestart, TypeOK
  <2>2. CASE Unsuccessful(w, "rbFailed")
    <3>1. LocalsSet("rbFailed", job[w])
      BY <1>6 DEF RollbackRestart
    <3> QED BY <1>6, <2>2, <3>1, UnsuccessfulType, UnsuccessfulLocals, LocalStepType
            DEF RollbackRestart
  <2> QED BY <1>6, <2>1, <2>2 DEF RollbackRestart
<1>7. CASE VerifyRollback(w)
  BY <1>7, VerifyType DEF VerifyRollback
<1> QED BY <1>1, <1>2, <1>3, <1>4, <1>5, <1>6, <1>7 DEF RollbackStep

(* The outcomes of update, the cleanup and finish. *)
LEMMA OutcomeStepType ==
    ASSUME TypeOK, NEW w \in Worker, OutcomeStep(w)
    PROVE  TypeOK'
<1> DEFINE s == job[w].service
<1> USE LocalsHere DEF Points, CheckPoints, UpdatePoints, Early, LocalsSet
<1>0. s \in Service
  BY DEF OutcomeStep, RecordNoChange, RecordSuccess, RecordRolledBack, RecordFailed, Fail,
         CollectSuperseded, RemoveImage, SkipImage, CleanVolumes, AttachCleanup, ReportResult,
         FinishUpdate
<1>1. CASE RecordNoChange(w)
  BY <1>0, <1>1, RecordHistoryType DEF RecordNoChange
<1>2. CASE RecordSuccess(w)
  BY <1>0, <1>2, RecordHistoryType DEF RecordSuccess
<1>3. CASE RecordRolledBack(w)
  BY <1>0, <1>3, RecordHistoryType DEF RecordRolledBack
<1>4. CASE RecordFailed(w)
  BY <1>0, <1>4, RecordHistoryType DEF RecordFailed
<1>5. CASE Fail(w)
  <2>0. [status.services[s] EXCEPT !.failed = TRUE] \in Report
    <3>1. status.services[s] \in Report
      BY <1>0 DEF TypeOK, Status
    <3> QED BY <3>1 DEF Report
  <2>1. status' \in Status
    BY <1>0, <1>5, <2>0 DEF Fail, TypeOK, Status, Optional
  <2>2. pc' \in [Worker -> Points] /\ job' \in [Worker -> Job]
    BY <1>5, NoJobType, GotoType DEF Fail, TypeOK
  <2>3. LocalsAreSet'
    BY <1>5, LocalsStep DEF Fail
  <2> QED BY <1>5, <2>1, <2>2, <2>3, MemoryStepType DEF Fail
<1>6. CASE CollectSuperseded(w)
  <2> DEFINE next == [job[w] EXCEPT !.doomed = Superseded(status.history, s)]
  <2>1. next \in Job /\ LocalsSet("sweep", next)
    <3>1. Superseded(status.history, s) \in SUBSET Image
      BY DEF Superseded, Named
    <3> QED BY <1>0, <1>6, <3>1 DEF Job, CollectSuperseded
  <2>2. job' = [job EXCEPT ![w] = next] /\ job' \in [Worker -> Job]
    BY <1>6, <2>1 DEF CollectSuperseded, TypeOK
  <2> QED BY <1>6, <2>1, <2>2, GotoType, LocalsStep, LocalStepType DEF CollectSuperseded
<1>7. CASE RemoveImage(w)
  <2>1. PICK i \in job[w].doomed :
            /\ present' = present \ {i}
            /\ job' = [job EXCEPT ![w].doomed = job[w].doomed \ {i},
                                  ![w].removed = job[w].removed \cup {i}]
    BY <1>7 DEF RemoveImage
  <2> DEFINE next == [job[w] EXCEPT !.doomed = job[w].doomed \ {i},
                                    !.removed = job[w].removed \cup {i}]
  <2>2. next \in Job /\ LocalsSet("sweep", next)
    <3>1. i \in Image
      BY DEF Job
    <3> QED BY <1>7, <3>1 DEF Job, RemoveImage
  <2>3. job' = [job EXCEPT ![w] = next] /\ job' \in [Worker -> Job]
    BY <2>1, <2>2 DEF TypeOK
  <2>4. LocalsAreSet'
    BY <1>7, <2>2, <2>3 DEF RemoveImage, TypeOK, LocalsAreSet
  <2> QED BY <1>7, <2>1, <2>3, <2>4, DockerStepType DEF RemoveImage, TypeOK
<1>8. CASE SkipImage(w)
  <2>1. PICK i \in job[w].doomed, late \in BOOLEAN :
            job' = [job EXCEPT ![w].doomed = job[w].doomed \ {i}, ![w].expired = late]
    BY <1>8 DEF SkipImage
  <2> DEFINE next == [job[w] EXCEPT !.doomed = job[w].doomed \ {i}, !.expired = late]
  <2>2. next \in Job /\ LocalsSet("sweep", next)
    BY <1>8 DEF Job, SkipImage
  <2>3. job' = [job EXCEPT ![w] = next] /\ job' \in [Worker -> Job]
    BY <2>1, <2>2 DEF TypeOK
  <2>4. LocalsAreSet'
    BY <1>8, <2>2, <2>3 DEF SkipImage, TypeOK, LocalsAreSet
  <2> QED BY <1>8, <2>3, <2>4, LocalStepType DEF SkipImage, TypeOK
<1>9. CASE CleanVolumes(w)
  <2>1. LocalsSet("attach", job[w])
    BY <1>9 DEF CleanVolumes
  <2>2. volumes' \in SUBSET Volume
    BY <1>9 DEF CleanVolumes, TypeOK
  <2>3. pc' \in [Worker -> Points] /\ job' \in [Worker -> Job] /\ LocalsAreSet'
    <3>1. CASE Goto(w, "attach") /\ UNCHANGED job
      BY <2>1, <3>1, GotoType, LocalsKept DEF TypeOK
    <3>2. CASE AfterFailure(w, "attach")
      BY <2>1, <3>2, AfterFailureType, LocalsAfterFailure
    <3> QED BY <1>9, <3>1, <3>2 DEF CleanVolumes
  <2> QED BY <1>9, <2>2, <2>3, DockerStepType DEF CleanVolumes, TypeOK
<1>10. CASE AttachCleanup(w)
  <2>1. [status.history EXCEPT ![1].removed = job[w].removed] \in History
    BY AttachedType DEF TypeOK, Status, Job
  <2>2. status' \in Status
    BY <1>10, <2>1 DEF AttachCleanup, TypeOK, Status
  <2>3. LocalsSet("result", job[w])
    BY <1>10 DEF AttachCleanup
  <2>4. pc' \in [Worker -> Points] /\ job' \in [Worker -> Job] /\ LocalsAreSet'
    BY <1>10, <2>3, GotoType, LocalsKept DEF AttachCleanup, TypeOK
  <2> QED BY <1>10, <2>2, <2>4, MemoryStepType DEF AttachCleanup
<1>11. CASE ReportResult(w)
  <2> DEFINE report == [current |-> job[w].candidate, candidate |-> job[w].candidate,
                        available |-> FALSE, failed |-> FALSE]
  <2>1. report \in Report
    BY DEF Job, Report
  <2>2. status' \in Status
    BY <1>0, <1>11, <2>1, ReportType DEF ReportResult, TypeOK
  <2>3. LocalsSet("idle", job[w])
    BY <1>11 DEF ReportResult
  <2>4. pc' \in [Worker -> Points] /\ job' \in [Worker -> Job] /\ LocalsAreSet'
    BY <1>11, <2>3, GotoType, LocalsKept DEF ReportResult, TypeOK
  <2> QED BY <1>11, <2>2, <2>4, MemoryStepType DEF ReportResult
<1>12. CASE FinishUpdate(w)
  BY <1>12, BecomeIdleType DEF FinishUpdate
<1> QED BY <1>1, <1>2, <1>3, <1>4, <1>5, <1>6, <1>7, <1>8, <1>9, <1>10, <1>11, <1>12
        DEF OutcomeStep

(* NewManager after a restart, whatever the files hold. *)
LEMMA RestartType ==
    ASSUME TypeOK, Restart
    PROVE  TypeOK'
<1>1. Loaded \in Status /\ [Loaded EXCEPT !.state = "failed"] \in Status
  <2>1. Loaded \in Status
    BY InitialStatusType DEF Loaded, TypeOK
  <2> QED BY <2>1 DEF Status
<1>2. status' \in Status /\ selected' \in [Service -> References]
  BY <1>1 DEF Restart, TypeOK, References
<1>3. pc' \in [Worker -> Points] /\ job' \in [Worker -> Job] /\ LocalsAreSet'
  BY NoJobType DEF Restart, Points, LocalsAreSet, LocalsSet, UpdatePoints
<1>4. /\ statusFile' \in Status \cup {None}
      /\ imagesFile' \in [Service -> References] \cup {None}
      /\ overrideFile' \in [Service -> References]
  <2>1. CASE UNCHANGED files
    BY <2>1 DEF files, TypeOK, References
  <2>2. CASE \E written \in Written : Persist(written)
    BY <1>2, <2>2, PersistType
  <2> QED BY <2>1, <2>2 DEF Restart
<1> QED BY <1>2, <1>3, <1>4 DEF Restart, TypeOK, docker, References, Points

(* Together: no step of a job, no restart and no publication breaks the types. *)
LEMMA StepTyped ==
    ASSUME TypeOK, [Next]_vars
    PROVE  TypeOK'
<1>1. ASSUME NEW w \in Worker, StartCheck(w) PROVE TypeOK'
  BY <1>1, StartType
<1>2. ASSUME NEW w \in Worker, WorkerStep(w) PROVE TypeOK'
  BY <1>2, CheckStepType, PrepareStepType, RollbackStepType, OutcomeStepType DEF WorkerStep
<1>3. ASSUME NEW w \in Worker, NEW s \in Service, StartUpdate(w, s) PROVE TypeOK'
  BY <1>3, StartType
<1>4. CASE Restart
  BY <1>4, RestartType
<1>5. ASSUME NEW s \in Service, NEW i \in Image, Publish(s, i) PROVE TypeOK'
  BY <1>5 DEF Publish, memory, files, docker, TypeOK, LocalsAreSet
<1>6. CASE UNCHANGED vars
  BY <1>6 DEF vars, TypeOK, LocalsAreSet
<1> QED BY <1>1, <1>2, <1>3, <1>4, <1>5, <1>6 DEF Next

(* Type correctness, for every instance: no step of a job, no failure, partial
   save or restart takes a variable out of its type, nor lets a job read a
   local variable it has not set. *)
THEOREM TypeCorrect == Spec => []TypeOK
<1>1. TypeOK /\ [Next]_vars => TypeOK'
  BY StepTyped
<1> QED BY <1>1, InitType, PTL DEF Spec

-----------------------------------------------------------------------------
(* One job at a time *)

(* A step of a worker stays within its kind of job and leaves the state alone,
   or ends the job together with the busy state. *)
KeepsOrEnds(w, point) ==
    /\ pc' = [pc EXCEPT ![w] = point]
    /\ \/ pc[w] \in CheckPoints /\ point \in CheckPoints /\ status'.state = status.state
       \/ pc[w] \in UpdatePoints /\ point \in UpdatePoints /\ status'.state = status.state
       \/ /\ pc[w] # "none" /\ point = "none"
          /\ status'.state \in {"idle", "failed"}

(* Progress, results and history leave the state of the manager alone. *)
LEMMA SameState ==
    ASSUME TypeOK
    PROVE  /\ \A s : SetProgress(s) => status'.state = status.state
           /\ \A w, report : CheckedWith(w, report) => status'.state = status.state
           /\ \A w, outcome, next : RecordHistory(w, outcome, next) => status'.state = status.state
BY DEF TypeOK, Status, SetProgress, CheckedWith, RecordHistory

(* Every step of check. *)
LEMMA CheckStepKeeps ==
    ASSUME TypeOK, NEW w \in Worker, CheckStep(w)
    PROVE  \E point : KeepsOrEnds(w, point)
<1> USE SameState DEF KeepsOrEnds, CheckPoints, Goto
<1>1. CASE CheckNext(w)
  BY <1>1 DEF CheckNext
<1>2. CASE CheckInspect(w)
  BY <1>2 DEF CheckInspect, Unsuccessful, AfterFailure
<1>3. CASE CheckPull(w)
  BY <1>3 DEF CheckPull, Unsuccessful, AfterFailure
<1>4. CASE CheckResolve(w)
  BY <1>4 DEF CheckResolve, Unsuccessful, AfterFailure
<1>5. CASE FinishCheck(w)
  BY <1>5 DEF FinishCheck, BecomeIdle, TypeOK, Status
<1> QED BY <1>1, <1>2, <1>3, <1>4, <1>5 DEF CheckStep

(* Every step of update before a rollback or an outcome. *)
LEMMA PrepareStepKeeps ==
    ASSUME TypeOK, NEW w \in Worker, PrepareStep(w)
    PROVE  \E point : KeepsOrEnds(w, point)
<1> USE SameState DEF KeepsOrEnds, UpdatePoints, Goto, Unsuccessful, AfterFailure
<1>1. CASE Inspect(w)
  BY <1>1 DEF Inspect
<1>2. CASE Backup(w)
  BY <1>2 DEF Backup
<1>3. CASE Pull(w)
  BY <1>3 DEF Pull
<1>4. CASE ResolveCandidate(w)
  BY <1>4 DEF ResolveCandidate, AfterResolve
<1>5. CASE InspectOwner(w)
  BY <1>5 DEF InspectOwner
<1>6. CASE MigrateOwner(w)
  BY <1>6 DEF MigrateOwner, ChangeOwner
<1>7. CASE UndoMigration(w)
  BY <1>7 DEF UndoMigration, ChangeOwner
<1>8. CASE SelectTarget(w)
  BY <1>8 DEF SelectTarget, SelectImage
<1>9. CASE ReplaceContainer(w)
  BY <1>9 DEF ReplaceContainer, ComposeUp
<1>10. CASE VerifyCandidate(w)
  BY <1>10 DEF VerifyCandidate, VerifyWithRetry
<1> QED BY <1>1, <1>2, <1>3, <1>4, <1>5, <1>6, <1>7, <1>8, <1>9, <1>10 DEF PrepareStep

(* Every step of rollback. *)
LEMMA RollbackStepKeeps ==
    ASSUME TypeOK, NEW w \in Worker, RollbackStep(w)
    PROVE  \E point : KeepsOrEnds(w, point)
<1> USE SameState DEF KeepsOrEnds, UpdatePoints, Goto, Unsuccessful, AfterFailure
<1>1. CASE BeginRollback(w)
  BY <1>1 DEF BeginRollback
<1>2. CASE RollbackOwner(w)
  BY <1>2 DEF RollbackOwner, ChangeOwner
<1>3. CASE RollbackSelection(w)
  BY <1>3 DEF RollbackSelection, SelectImage
<1>4. CASE RollbackContainer(w)
  BY <1>4 DEF RollbackContainer, ComposeUp
<1>5. CASE RollbackData(w)
  BY <1>5 DEF RollbackData
<1>6. CASE RollbackRestart(w)
  BY <1>6 DEF RollbackRestart
<1>7. CASE VerifyRollback(w)
  BY <1>7 DEF VerifyRollback, VerifyWithRetry
<1> QED BY <1>1, <1>2, <1>3, <1>4, <1>5, <1>6, <1>7 DEF RollbackStep

(* Every step of the outcomes: fail and finish end the busy state with the job. *)
LEMMA OutcomeStepKeeps ==
    ASSUME TypeOK, NEW w \in Worker, OutcomeStep(w)
    PROVE  \E point : KeepsOrEnds(w, point)
<1> USE SameState DEF KeepsOrEnds, UpdatePoints, Goto, AfterFailure
<1>1. CASE RecordNoChange(w) \/ RecordSuccess(w) \/ RecordRolledBack(w) \/ RecordFailed(w)
  BY <1>1 DEF RecordNoChange, RecordSuccess, RecordRolledBack, RecordFailed, RecordHistory
<1>2. CASE Fail(w)
  BY <1>2 DEF Fail, TypeOK, Status
<1>3. CASE CollectSuperseded(w)
  BY <1>3 DEF CollectSuperseded
<1>4. CASE RemoveImage(w) \/ SkipImage(w)
  <2>1. pc' = [pc EXCEPT ![w] = pc[w]] /\ pc[w] = "sweep" /\ UNCHANGED status
    BY <1>4 DEF RemoveImage, SkipImage, TypeOK
  <2> QED BY <2>1
<1>5. CASE CleanVolumes(w)
  BY <1>5 DEF CleanVolumes
<1>6. CASE AttachCleanup(w)
  BY <1>6 DEF AttachCleanup, TypeOK, Status
<1>7. CASE ReportResult(w)
  BY <1>7 DEF ReportResult, TypeOK, Status
<1>8. CASE FinishUpdate(w)
  BY <1>8 DEF FinishUpdate, BecomeIdle, TypeOK, Status
<1> QED BY <1>1, <1>2, <1>3, <1>4, <1>5, <1>6, <1>7, <1>8 DEF OutcomeStep

(* busyLocked: a job starts only when no other one runs. *)
LEMMA StartKeeps ==
    ASSUME TypeOK, OneJobAtATime, NEW w \in Worker,
           StartCheck(w) \/ \E s \in Service : StartUpdate(w, s)
    PROVE  OneJobAtATime'
<1>1. \A v \in Worker : pc[v] = "none"
  BY DEF StartCheck, StartUpdate, Starts, Busy, OneJobAtATime, TypeOK
<1>2. CASE StartCheck(w)
  <2>1. status'.state = "checking" /\ pc' = [pc EXCEPT ![w] = "checkNext"]
    BY <1>2 DEF StartCheck, Goto, TypeOK, Status
  <2> QED BY <1>1, <2>1 DEF OneJobAtATime, TypeOK, CheckPoints, UpdatePoints
<1>3. CASE \E s \in Service : StartUpdate(w, s)
  <2>1. status'.state = "updating" /\ pc' = [pc EXCEPT ![w] = "inspect"]
    BY <1>3 DEF StartUpdate, Goto, TypeOK, Status
  <2> QED BY <1>1, <2>1 DEF OneJobAtATime, TypeOK, CheckPoints, UpdatePoints
<1> QED BY <1>2, <1>3

(* Together: every step of a goroutine. *)
LEMMA WorkerStepKeeps ==
    ASSUME TypeOK, OneJobAtATime, NEW w \in Worker, WorkerStep(w)
    PROVE  OneJobAtATime'
<1>1. PICK point : KeepsOrEnds(w, point)
  BY CheckStepKeeps, PrepareStepKeeps, RollbackStepKeeps, OutcomeStepKeeps DEF WorkerStep
<1>2. pc[w] # "none" /\ \A v \in Worker : v # w => pc[v] = "none" /\ pc'[v] = "none"
  BY <1>1 DEF KeepsOrEnds, OneJobAtATime, TypeOK, CheckPoints, UpdatePoints
<1>3. pc'[w] = point
  BY <1>1 DEF KeepsOrEnds, TypeOK
<1> QED BY <1>1, <1>2, <1>3 DEF KeepsOrEnds, OneJobAtATime, CheckPoints, UpdatePoints

(* A restart finds no goroutine and leaves no busy state. *)
LEMMA RestartKeeps ==
    ASSUME TypeOK, Restart
    PROVE  OneJobAtATime'
<1>1. status'.state \notin {"checking", "updating"}
  <2>1. Loaded \in Status
    BY InitialStatusType DEF Loaded, TypeOK
  <2> QED BY <2>1 DEF Restart, Interrupted, Status
<1> QED BY <1>1 DEF Restart, OneJobAtATime, CheckPoints, UpdatePoints

(* At the start no job runs. *)
LEMMA InitExcludes == Init => OneJobAtATime
  BY DEF Init, InitialStatus, OneJobAtATime, CheckPoints, UpdatePoints

LEMMA StepExcludes ==
    ASSUME TypeOK, OneJobAtATime, [Next]_vars
    PROVE  OneJobAtATime'
<1>1. ASSUME NEW w \in Worker, StartCheck(w) \/ \E s \in Service : StartUpdate(w, s)
      PROVE  OneJobAtATime'
  BY <1>1, StartKeeps
<1>2. ASSUME NEW w \in Worker, WorkerStep(w) PROVE OneJobAtATime'
  BY <1>2, WorkerStepKeeps
<1>3. CASE Restart
  BY <1>3, RestartKeeps
<1>4. CASE \/ UNCHANGED vars
           \/ \E s \in Service, i \in Image : Publish(s, i)
  BY <1>4 DEF vars, Publish, memory, OneJobAtATime
<1> QED BY <1>1, <1>2, <1>3, <1>4 DEF Next

(* For any number of callers, services and faults, the state under the lock
   keeps the jobs apart, and it says busy exactly while a job runs. *)
THEOREM JobsExcludeEachOther == Spec => []OneJobAtATime
<1>1. TypeOK /\ OneJobAtATime /\ [Next]_vars => OneJobAtATime'
  BY StepExcludes
<1> QED BY <1>1, InitExcludes, TypeCorrect, PTL DEF Spec

-----------------------------------------------------------------------------
(* A rollback that is reported restored everything *)

BeforeRollback == {"select", "up", "verify", "rollback"}
OwnerBack      == {"rbSelect", "rbUp", "rbCopy", "rbRestart", "rbVerify", "rolledBack"}
PinBack        == OwnerBack \ {"rbSelect"}
ContainerBack  == PinBack \ {"rbUp"}
DataBack       == ContainerBack \ {"rbCopy"}

(* What a worker has put back by the time it is at a point of the rollback.
   An owner that was not changed is still there before the rollback, which is
   why BeginRollback may skip rbOwner. *)
PutBack(w) ==
    LET s == job[w].service IN
    /\ pc[w] = "chown" => job[w].changed
    /\ pc[w] \in BeforeRollback /\ s \in Migrated /\ ~job[w].changed => owner[s] = job[w].owner
    /\ pc[w] \in OwnerBack /\ s \in Migrated => owner[s] = job[w].owner
    /\ pc[w] \in PinBack => selected[s] = job[w].old /\ overrideFile[s] = job[w].old
    /\ pc[w] \in ContainerBack => container[s] = job[w].old
    /\ pc[w] \in DataBack => data[s] = job[w].backup

AllPutBack == \A w \in Worker : PutBack(w)

(* A failure moves the worker and changes none of the locals PutBack reads. *)
LEMMA AfterFailureKeeps ==
    ASSUME TypeOK, NEW w \in Worker, NEW point, AfterFailure(w, point)
    PROVE  /\ pc'[w] = point
           /\ job'[w].service = job[w].service /\ job'[w].old = job[w].old
           /\ job'[w].backup = job[w].backup /\ job'[w].owner = job[w].owner
           /\ job'[w].changed = job[w].changed
BY DEF AfterFailure, Goto, TypeOK, Job

(* Goto moves the worker to the point named. *)
LEMMA GotoPoint ==
    ASSUME TypeOK, NEW w \in Worker, NEW point, Goto(w, point)
    PROVE  pc'[w] = point
BY DEF Goto, TypeOK

(* Outside the points it speaks of, PutBack holds trivially. *)
LEMMA PutBackElsewhere ==
    ASSUME NEW w, pc'[w] \notin BeforeRollback \cup OwnerBack \cup {"chown"}
    PROVE  PutBack(w)'
BY DEF PutBack, OwnerBack, PinBack, ContainerBack, DataBack

(* update hands over to rollback with what PutBack says of the owner. *)
LEMMA PreparePutsBack ==
    ASSUME TypeOK, NEW w \in Worker, PutBack(w), PrepareStep(w)
    PROVE  PutBack(w)'
<1> DEFINE s == job[w].service
<1> USE DEF BeforeRollback, OwnerBack, PinBack, ContainerBack, DataBack
<1>0. job[w] \in Job /\ LocalsSet(pc[w], job[w])
  BY LocalsHere
<1>1. CASE Inspect(w) \/ Backup(w) \/ Pull(w) \/ UndoMigration(w)
  <2>1. pc'[w] \in {"backup", "pull", "resolve", "fail"}
    BY <1>1, GotoPoint, AfterFailureKeeps
       DEF Inspect, Backup, Pull, UndoMigration, ChangeOwner, Unsuccessful
  <2> QED BY <2>1, PutBackElsewhere
<1>2. CASE ResolveCandidate(w)
  <2>1. CASE Unsuccessful(w, "fail")
    <3>1. pc'[w] = "fail"
      BY <2>1, AfterFailureKeeps DEF Unsuccessful
    <3> QED BY <3>1, PutBackElsewhere
  <2>2. CASE Goto(w, AfterResolve(s, tag[s], job[w].old))
             /\ job' = [job EXCEPT ![w].candidate = tag[s]]
    <3>1. job'[w].service = s
      <4>1. job'[w] = [job[w] EXCEPT !.candidate = tag[s]]
        BY <2>2 DEF TypeOK
      <4> QED BY <1>0, <4>1 DEF Job
    <3>2. pc'[w] \in {"noChange", "owner"} \/ (pc'[w] = "select" /\ s \notin Migrated)
      <4>1. pc'[w] = AfterResolve(s, tag[s], job[w].old)
        BY <2>2 DEF Goto, TypeOK
      <4> QED BY <4>1 DEF AfterResolve
    <3>3. CASE pc'[w] \in {"noChange", "owner"}
      BY <3>3, PutBackElsewhere
    <3>4. CASE pc'[w] = "select" /\ s \notin Migrated
      BY <3>1, <3>4 DEF PutBack
    <3> QED BY <3>2, <3>3, <3>4
  <2> QED BY <1>2, <2>1, <2>2 DEF ResolveCandidate
<1>3. CASE InspectOwner(w)
  <2>1. CASE Unsuccessful(w, "fail")
    <3>1. pc'[w] = "fail"
      BY <2>1, AfterFailureKeeps DEF Unsuccessful
    <3> QED BY <3>1, PutBackElsewhere
  <2>2. CASE Goto(w, IF owner[s] = "wanted" THEN "select" ELSE "chown")
             /\ job' = [job EXCEPT ![w].owner = owner[s], ![w].changed = (owner[s] # "wanted")]
    <3>1. job'[w].service = s /\ job'[w].owner = owner[s] /\ owner' = owner
      <4>1. job'[w] = [job[w] EXCEPT !.owner = owner[s], !.changed = (owner[s] # "wanted")]
        BY <2>2 DEF TypeOK
      <4>2. owner' = owner
        BY <1>3 DEF InspectOwner, docker
      <4> QED BY <1>0, <4>1, <4>2 DEF Job
    <3>2. pc'[w] \in {"select", "chown"} /\ (pc'[w] = "chown" => owner[s] # "wanted")
      BY <2>2, GotoPoint
    <3>3. pc'[w] = "chown" => job'[w].changed
      <4>1. job'[w].changed = (owner[s] # "wanted")
        BY <1>0, <2>2 DEF TypeOK, Job
      <4> QED BY <3>2, <4>1
    <3> QED BY <3>1, <3>2, <3>3 DEF PutBack
  <2> QED BY <1>3, <2>1, <2>2 DEF InspectOwner
<1>4. CASE MigrateOwner(w)
  <2>1. job[w].changed
    BY <1>4 DEF MigrateOwner, PutBack
  <2> QED BY <1>4, <2>1, GotoPoint, AfterFailureKeeps DEF MigrateOwner, ChangeOwner, PutBack
<1>5. CASE SelectTarget(w)
  <2>1. pc'[w] \in {"up", "unchown", "fail"} /\ job' = job /\ owner' = owner
    BY <1>5, GotoPoint DEF SelectTarget, SelectImage, docker
  <2> QED BY <1>5, <2>1 DEF PutBack, SelectTarget
<1>6. CASE ReplaceContainer(w)
  <2>1. /\ pc'[w] \in {"verify", "rollback"} /\ owner' = owner
        /\ job'[w].service = s /\ job'[w].owner = job[w].owner /\ job'[w].changed = job[w].changed
    BY <1>6, GotoPoint, AfterFailureKeeps DEF ReplaceContainer, ComposeUp
  <2> QED BY <1>6, <2>1 DEF PutBack, ReplaceContainer
<1>7. CASE VerifyCandidate(w)
  <2>1. /\ pc'[w] \in {"success", "rollback"} /\ owner' = owner
        /\ job'[w].service = s /\ job'[w].owner = job[w].owner /\ job'[w].changed = job[w].changed
    BY <1>7, GotoPoint, AfterFailureKeeps
       DEF VerifyCandidate, VerifyWithRetry, Unsuccessful, docker
  <2> QED BY <1>7, <2>1 DEF PutBack, VerifyCandidate
<1> QED BY <1>1, <1>2, <1>3, <1>4, <1>5, <1>6, <1>7 DEF PrepareStep

(* Every step of rollback that succeeds puts one thing back and keeps the others. *)
LEMMA RollbackPutsBack ==
    ASSUME TypeOK, NEW w \in Worker, PutBack(w), RollbackStep(w)
    PROVE  PutBack(w)'
<1> DEFINE s == job[w].service
<1> USE DEF BeforeRollback, OwnerBack, PinBack, ContainerBack, DataBack
<1>0. /\ job[w] \in Job /\ s \in Service /\ job[w].old \in Image
      /\ pc[w] \in {"rollback", "rbOwner", "rbSelect", "rbUp", "rbCopy", "rbRestart", "rbVerify"}
  BY LocalsHere
     DEF RollbackStep, BeginRollback, RollbackOwner, RollbackSelection, RollbackContainer,
         RollbackData, RollbackRestart, VerifyRollback, LocalsSet, UpdatePoints, Early
<1>1. CASE BeginRollback(w)
  <2>1. /\ pc'[w] = IF job[w].changed THEN "rbOwner" ELSE "rbSelect"
        /\ job' = job /\ owner' = owner
    BY <1>1, GotoPoint DEF BeginRollback, docker
  <2> QED BY <1>1, <2>1 DEF PutBack, BeginRollback
<1>2. CASE RollbackOwner(w)
  <2>1. CASE Chown(s, job[w].old, job[w].owner) /\ Goto(w, "rbSelect") /\ UNCHANGED job
    <3>1. pc'[w] = "rbSelect" /\ owner'[s] = job[w].owner
      BY <1>0, <2>1, GotoPoint DEF Chown, TypeOK
    <3> QED BY <2>1, <3>1 DEF PutBack
  <2>2. CASE AfterFailure(w, "rbFailed")
    BY <2>2, AfterFailureKeeps, PutBackElsewhere
  <2> QED BY <1>2, <2>1, <2>2 DEF RollbackOwner, ChangeOwner
<1>3. CASE RollbackSelection(w)
  <2>1. PICK written \in Written :
            Persist(written) /\ Goto(w, IF written = 3 THEN "rbUp" ELSE "rbFailed")
    BY <1>3 DEF RollbackSelection, SelectImage
  <2>2. CASE written = 3
    <3>1. pc'[w] = "rbUp" /\ job' = job /\ owner' = owner
      BY <1>3, <2>1, <2>2, GotoPoint DEF RollbackSelection, SelectImage, docker
    <3>2. selected'[s] = job[w].old /\ job[w].old # None
      BY <1>0, <1>3, NamesAssumption DEF RollbackSelection, SelectImage, TypeOK
    <3>3. overrideFile'[s] = job[w].old
      BY <1>0, <2>1, <2>2, <3>2 DEF Persist, Override
    <3> QED BY <1>3, <3>1, <3>2, <3>3 DEF PutBack, RollbackSelection
  <2>3. CASE written # 3
    <3>1. pc'[w] = "rbFailed"
      BY <2>1, <2>3, GotoPoint
    <3> QED BY <3>1, PutBackElsewhere
  <2> QED BY <2>2, <2>3
<1>4. CASE RollbackContainer(w)
  <2>1. CASE Recreate(s) /\ Goto(w, "rbCopy") /\ UNCHANGED job
    <3>1. pc'[w] = "rbCopy" /\ owner' = owner /\ selected' = selected /\ overrideFile' = overrideFile
      BY <1>4, <2>1, GotoPoint DEF RollbackContainer, ComposeUp, files
    <3>2. Resolve(s) = job[w].old
      BY <1>0, <1>4, NamesAssumption DEF Resolve, PutBack, RollbackContainer
    <3>3. container'[s] = job[w].old
      BY <1>0, <2>1, <3>2 DEF Recreate, TypeOK
    <3> QED BY <1>4, <2>1, <3>1, <3>3 DEF PutBack, RollbackContainer
  <2>2. CASE AfterFailure(w, "rbFailed")
    BY <2>2, AfterFailureKeeps, PutBackElsewhere
  <2> QED BY <1>4, <2>1, <2>2 DEF RollbackContainer, ComposeUp
<1>5. CASE RollbackData(w)
  <2>1. CASE data' = [data EXCEPT ![s] = job[w].backup] /\ Goto(w, "rbRestart") /\ UNCHANGED job
    <3>1. /\ pc'[w] = "rbRestart" /\ owner' = owner /\ selected' = selected
          /\ overrideFile' = overrideFile /\ container' = container
      BY <1>5, <2>1, GotoPoint DEF RollbackData, files
    <3>2. data'[s] = job[w].backup
      BY <1>0, <2>1 DEF TypeOK
    <3> QED BY <1>5, <2>1, <3>1, <3>2 DEF PutBack, RollbackData
  <2>2. CASE AfterFailure(w, "rbFailed")
    BY <2>2, AfterFailureKeeps, PutBackElsewhere
  <2> QED BY <1>5, <2>1, <2>2 DEF RollbackData
<1>6. CASE RollbackRestart(w) \/ VerifyRollback(w)
  <2>1. CASE Goto(w, "rbFailed") \/ AfterFailure(w, "rbFailed")
    BY <2>1, GotoPoint, AfterFailureKeeps, PutBackElsewhere
  <2>2. CASE /\ pc[w] \in {"rbRestart", "rbVerify"} /\ UNCHANGED job
             /\ Goto(w, "rbVerify") \/ Goto(w, "rolledBack")
    <3>1. /\ pc'[w] \in {"rbVerify", "rolledBack"} /\ owner' = owner /\ selected' = selected
          /\ overrideFile' = overrideFile /\ container' = container /\ data' = data
      BY <1>6, <2>2, GotoPoint
         DEF RollbackRestart, VerifyRollback, VerifyWithRetry, files, docker
    <3> QED BY <2>2, <3>1 DEF PutBack
  <2> QED BY <1>6, <2>1, <2>2
          DEF RollbackRestart, VerifyRollback, VerifyWithRetry, Unsuccessful
<1> QED BY <1>1, <1>2, <1>3, <1>4, <1>5, <1>6 DEF RollbackStep

(* Checks and outcomes never enter the points PutBack speaks of. *)
LEMMA OthersStayOut ==
    ASSUME TypeOK, NEW w \in Worker, CheckStep(w) \/ OutcomeStep(w)
    PROVE  pc'[w] \notin BeforeRollback \cup OwnerBack \cup {"chown"}
<1> USE GotoPoint, AfterFailureKeeps DEF BeforeRollback, OwnerBack
<1>1. CASE CheckStep(w)
  BY <1>1 DEF CheckStep, CheckNext, CheckInspect, CheckPull, CheckResolve, FinishCheck,
              BecomeIdle, Unsuccessful
<1>2. CASE OutcomeStep(w)
  <2>1. CASE RemoveImage(w) \/ SkipImage(w)
    BY <2>1 DEF RemoveImage, SkipImage
  <2> QED BY <1>2, <2>1
          DEF OutcomeStep, RecordNoChange, RecordSuccess, RecordRolledBack, RecordFailed,
              RecordHistory, Fail, CollectSuperseded, CleanVolumes, AttachCleanup,
              ReportResult, FinishUpdate, BecomeIdle
<1> QED BY <1>1, <1>2

(* Whoever is at a first point, or at none, has put back nothing. *)
LEMMA NoneToPutBack ==
    ASSUME \A v \in Worker : pc'[v] \in {"none", "inspect", "checkNext"}
    PROVE  AllPutBack'
  BY PutBackElsewhere DEF AllPutBack, BeforeRollback, OwnerBack

(* A job that starts finds no other one, and begins at its first point. *)
LEMMA StartPoints ==
    ASSUME TypeOK, OneJobAtATime, NEW w \in Worker
    PROVE  /\ StartCheck(w) => pc'[w] = "checkNext"
           /\ \A s \in Service : StartUpdate(w, s) => pc'[w] = "inspect"
           /\ StartCheck(w) \/ (\E s \in Service : StartUpdate(w, s)) =>
                  \A v \in Worker : pc[v] = "none" /\ (v # w => pc'[v] = "none")
<1>1. ~Busy => \A v \in Worker : pc[v] = "none"
  BY DEF Busy, OneJobAtATime, TypeOK
<1> QED BY <1>1 DEF StartCheck, StartUpdate, Starts, Goto, TypeOK

LEMMA StartAlone ==
    ASSUME TypeOK, OneJobAtATime, NEW w \in Worker,
           StartCheck(w) \/ \E s \in Service : StartUpdate(w, s)
    PROVE  \A v \in Worker : pc'[v] \in {"none", "inspect", "checkNext"}
  BY StartPoints

LEMMA StepPutsBack ==
    ASSUME TypeOK, OneJobAtATime, OneJobAtATime', AllPutBack, [Next]_vars
    PROVE  AllPutBack'
<1>1. ASSUME NEW w \in Worker, WorkerStep(w) PROVE AllPutBack'
  <2>1. PutBack(w)'
    BY <1>1, PreparePutsBack, RollbackPutsBack, OthersStayOut, PutBackElsewhere
       DEF AllPutBack, WorkerStep
  <2>2. ASSUME NEW v \in Worker, v # w PROVE PutBack(v)'
    <3>1. PICK point : KeepsOrEnds(w, point)
      BY <1>1, CheckStepKeeps, PrepareStepKeeps, RollbackStepKeeps, OutcomeStepKeeps
         DEF WorkerStep
    <3>2. pc[w] # "none" /\ pc'[v] = pc[v]
      BY <2>2, <3>1 DEF KeepsOrEnds, TypeOK, CheckPoints, UpdatePoints
    <3>3. pc'[v] = "none"
      BY <2>2, <3>2 DEF OneJobAtATime
    <3> QED BY <3>3, PutBackElsewhere DEF BeforeRollback, OwnerBack
  <2> QED BY <2>1, <2>2 DEF AllPutBack
<1>2. ASSUME NEW w \in Worker, StartCheck(w) \/ \E s \in Service : StartUpdate(w, s)
      PROVE  AllPutBack'
  BY <1>2, StartAlone, NoneToPutBack
<1>3. CASE Restart
  <2>1. \A v \in Worker : pc'[v] = "none"
    BY <1>3 DEF Restart
  <2> QED BY <2>1, NoneToPutBack
<1>4. CASE UNCHANGED vars \/ \E s \in Service, i \in Image : Publish(s, i)
  BY <1>4 DEF vars, Publish, memory, files, docker, AllPutBack, PutBack
<1> QED BY <1>1, <1>2, <1>3, <1>4 DEF Next

(* Together, by induction over the steps. *)
LEMMA AlwaysPutBack == Spec => []AllPutBack
<1>1. Init => AllPutBack
  BY DEF Init, AllPutBack, PutBack, BeforeRollback, OwnerBack, PinBack, ContainerBack, DataBack
<1>2. TypeOK /\ OneJobAtATime /\ OneJobAtATime' /\ AllPutBack /\ [Next]_vars => AllPutBack'
  BY StepPutsBack
<1> QED BY <1>1, <1>2, TypeCorrect, JobsExcludeEachOther, PTL DEF Spec

(* What was put back is what the property asks for. *)
LEMMA PutBackIsComplete == AllPutBack => RolledBackIsComplete
  BY DEF AllPutBack, PutBack, RolledBackIsComplete, OwnerBack, PinBack, ContainerBack, DataBack

(* A rollback that is reported as done restored image, data, owner and pin,
   whatever failed on the way and whoever else calls the manager. *)
THEOREM RollbackRestoresEverything == Spec => []RolledBackIsComplete
  BY PutBackIsComplete, AlwaysPutBack, PTL

-----------------------------------------------------------------------------
(* What a job has achieved *)

Deciding  == {"success", "collect", "sweep", "attach"}
Adopting  == {"verify"} \cup Deciding
Selected  == {"up"} \cup Adopting
Owned     == {"select"} \cup Selected
Upgrading == {"owner", "chown"} \cup Owned
Finishing == {"result", "idle"}
Untouched == {"checkPull", "checkResolve", "backup", "pull", "resolve", "noChange",
              "owner", "chown", "unchown", "select", "up"}

(* What is true of a service by the time its job is at a point: the container
   has the image it started from until it is replaced, an upgrade goes to
   another image, the one the target resolves to; then the volume's owner, the
   selection and the container follow, and the newest entry is the job's own
   until its cleanup is attached. *)
Achieved(w) ==
    LET s == job[w].service IN
    /\ pc[w] \in Untouched => container[s] = job[w].old
    /\ pc[w] = "noChange" => job[w].candidate = job[w].old
    /\ pc[w] \in Upgrading => tag[s] = job[w].candidate /\ job[w].candidate # job[w].old
    /\ pc[w] \in Owned /\ s \in Migrated => owner[s] = "wanted"
    /\ pc[w] \in Selected => selected[s] = Target /\ overrideFile[s] = Target
    /\ pc[w] \in Adopting \cup Finishing => container[s] = job[w].candidate
    /\ pc[w] \in Deciding \ {"success"} =>
           status.history # <<>> /\ status.history[1] = EntryOf(w, "success")

AllAchieved == \A w \in Worker : Achieved(w)

(* The locals that say which update this is. *)
SameUpdate(w) ==
    /\ job'[w].service = job[w].service
    /\ job'[w].old = job[w].old
    /\ job'[w].candidate = job[w].candidate

(* A failed command keeps them. *)
LEMMA FailureKeepsUpdate ==
    ASSUME TypeOK, NEW w \in Worker, NEW point, AfterFailure(w, point)
    PROVE  SameUpdate(w) /\ pc'[w] = point
BY DEF AfterFailure, Goto, TypeOK, Job, SameUpdate

(* So does the removal of an image, done or skipped. *)
LEMMA SweepKeepsUpdate ==
    ASSUME TypeOK, NEW w \in Worker, RemoveImage(w) \/ SkipImage(w)
    PROVE  SameUpdate(w)
<1>0. job[w] \in Job
  BY DEF TypeOK
<1>1. CASE RemoveImage(w)
  <2>1. PICK i \in Image : job' = [job EXCEPT ![w].doomed = job[w].doomed \ {i},
                                             ![w].removed = job[w].removed \cup {i}]
    BY <1>0, <1>1 DEF RemoveImage, Job
  <2>2. job'[w] = [job[w] EXCEPT !.doomed = job[w].doomed \ {i},
                                 !.removed = job[w].removed \cup {i}]
    BY <2>1 DEF TypeOK
  <2> QED BY <1>0, <2>2 DEF SameUpdate, Job
<1>2. CASE SkipImage(w)
  <2>1. PICK i \in Image, late \in BOOLEAN :
            job' = [job EXCEPT ![w].doomed = job[w].doomed \ {i}, ![w].expired = late]
    BY <1>0, <1>2 DEF SkipImage, Job
  <2>2. job'[w] = [job[w] EXCEPT !.doomed = job[w].doomed \ {i}, !.expired = late]
    BY <2>1 DEF TypeOK
  <2> QED BY <1>0, <2>2 DEF SameUpdate, Job
<1> QED BY <1>1, <1>2

(* Outside the points it speaks of, Achieved holds trivially. *)
LEMMA AchievedElsewhere ==
    ASSUME NEW w, pc'[w] \notin Untouched \cup Upgrading \cup Finishing
    PROVE  Achieved(w)'
BY DEF Achieved, Untouched, Upgrading, Owned, Selected, Adopting, Deciding, Finishing

(* After a step of w no other worker is anywhere. *)
LEMMA OthersAreGone ==
    ASSUME TypeOK, OneJobAtATime, NEW w \in Worker, WorkerStep(w), NEW v \in Worker, v # w
    PROVE  pc[v] = "none" /\ pc'[v] = "none"
<1>1. PICK point : KeepsOrEnds(w, point)
  BY CheckStepKeeps, PrepareStepKeeps, RollbackStepKeeps, OutcomeStepKeeps DEF WorkerStep
<1>2. pc[w] # "none" /\ pc'[v] = pc[v]
  BY <1>1 DEF KeepsOrEnds, TypeOK, CheckPoints, UpdatePoints
<1> QED BY <1>2 DEF OneJobAtATime

(* check leaves the containers alone. *)
LEMMA CheckAchieves ==
    ASSUME TypeOK, NEW w \in Worker, Achieved(w), CheckStep(w)
    PROVE  Achieved(w)'
<1> USE DEF Untouched, Upgrading, Owned, Selected, Adopting, Deciding, Finishing
<1>0. job[w] \in Job
  BY DEF TypeOK
<1>1. CASE CheckNext(w) \/ CheckResolve(w) \/ FinishCheck(w)
  <2>1. pc'[w] \in {"checkInspect", "checkNext", "none"}
    BY <1>1, GotoPoint, FailureKeepsUpdate
       DEF CheckNext, CheckResolve, FinishCheck, BecomeIdle, Unsuccessful
  <2> QED BY <2>1, AchievedElsewhere
<1>2. CASE CheckInspect(w)
  <2>1. CASE Goto(w, "checkPull") /\ job' = [job EXCEPT ![w].old = container[job[w].service]]
    <3>1. /\ pc'[w] = "checkPull" /\ container' = container
          /\ job'[w].service = job[w].service /\ job'[w].old = container[job[w].service]
      BY <1>0, <1>2, <2>1, GotoPoint DEF CheckInspect, docker, TypeOK, Job
    <3> QED BY <3>1 DEF Achieved
  <2>2. CASE Unsuccessful(w, "checkNext")
    BY <2>2, FailureKeepsUpdate, AchievedElsewhere DEF Unsuccessful
  <2> QED BY <1>2, <2>1, <2>2 DEF CheckInspect
<1>3. CASE CheckPull(w)
  <2>1. CASE Goto(w, "checkResolve") /\ UNCHANGED job
    <3>1. pc'[w] = "checkResolve" /\ container' = container /\ pc[w] = "checkPull"
      BY <1>3, <2>1, GotoPoint DEF CheckPull
    <3> QED BY <2>1, <3>1 DEF Achieved
  <2>2. CASE Unsuccessful(w, "checkNext")
    BY <2>2, FailureKeepsUpdate, AchievedElsewhere DEF Unsuccessful
  <2> QED BY <1>3, <2>1, <2>2 DEF CheckPull
<1> QED BY <1>1, <1>2, <1>3 DEF CheckStep

(* No point of a rollback or behind it is one Achieved speaks of. *)
LEMMA RollbackAchieves ==
    ASSUME TypeOK, NEW w \in Worker, RollbackStep(w)
    PROVE  Achieved(w)'
<1>1. pc'[w] \in {"rbOwner", "rbSelect", "rbUp", "rbCopy", "rbRestart", "rbVerify",
                  "rolledBack", "rbFailed"}
  BY GotoPoint, FailureKeepsUpdate
     DEF RollbackStep, BeginRollback, RollbackOwner, RollbackSelection, RollbackContainer,
         RollbackData, RollbackRestart, VerifyRollback, VerifyWithRetry, ChangeOwner,
         SelectImage, ComposeUp, Unsuccessful
<1> QED BY <1>1, AchievedElsewhere
        DEF Untouched, Upgrading, Owned, Selected, Adopting, Deciding, Finishing

(* update gets to the verified candidate one thing after the other. *)
LEMMA PrepareAchieves ==
    ASSUME TypeOK, NEW w \in Worker, Achieved(w), PrepareStep(w)
    PROVE  Achieved(w)'
<1> DEFINE s == job[w].service
<1> USE DEF Untouched, Upgrading, Owned, Selected, Adopting, Deciding, Finishing
<1>0. /\ job[w] \in Job /\ s \in Service
      /\ pc[w] \in {"inspect", "backup", "pull", "resolve", "owner", "chown", "unchown",
                    "select", "up", "verify"}
  BY LocalsHere
     DEF PrepareStep, Inspect, Backup, Pull, ResolveCandidate, InspectOwner, MigrateOwner,
         UndoMigration, SelectTarget, ReplaceContainer, VerifyCandidate, LocalsSet
<1>1. CASE Inspect(w)
  <2>1. CASE Goto(w, "backup") /\ job' = [job EXCEPT ![w].old = container[s]]
    <3>1. /\ pc'[w] = "backup" /\ container' = container
          /\ job'[w].service = s /\ job'[w].old = container[s]
      BY <1>0, <1>1, <2>1, GotoPoint DEF Inspect, docker, TypeOK, Job
    <3> QED BY <3>1 DEF Achieved
  <2>2. CASE Unsuccessful(w, "fail")
    BY <2>2, FailureKeepsUpdate, AchievedElsewhere DEF Unsuccessful
  <2> QED BY <1>1, <2>1, <2>2 DEF Inspect
<1>2. CASE Backup(w)
  <2>1. CASE Goto(w, "pull") /\ job' = [job EXCEPT ![w].backup = data[s]]
    <3>1. pc[w] = "backup" /\ pc'[w] = "pull" /\ container' = container /\ SameUpdate(w)
      BY <1>0, <1>2, <2>1, GotoPoint DEF Backup, docker, TypeOK, Job, SameUpdate
    <3> QED BY <3>1 DEF Achieved, SameUpdate
  <2>2. CASE Unsuccessful(w, "fail")
    BY <2>2, FailureKeepsUpdate, AchievedElsewhere DEF Unsuccessful
  <2> QED BY <1>2, <2>1, <2>2 DEF Backup
<1>3. CASE Pull(w)
  <2>1. CASE Goto(w, "resolve") /\ UNCHANGED job
    <3>1. pc[w] = "pull" /\ pc'[w] = "resolve" /\ container' = container
      BY <1>3, <2>1, GotoPoint DEF Pull
    <3> QED BY <2>1, <3>1 DEF Achieved
  <2>2. CASE Unsuccessful(w, "fail")
    BY <2>2, FailureKeepsUpdate, AchievedElsewhere DEF Unsuccessful
  <2> QED BY <1>3, <2>1, <2>2 DEF Pull
<1>4. CASE ResolveCandidate(w)
  <2>1. CASE Goto(w, AfterResolve(s, tag[s], job[w].old))
             /\ job' = [job EXCEPT ![w].candidate = tag[s]]
    <3>1. /\ pc[w] = "resolve" /\ container' = container /\ tag' = tag
          /\ job'[w].service = s /\ job'[w].old = job[w].old /\ job'[w].candidate = tag[s]
      BY <1>0, <1>4, <2>1 DEF ResolveCandidate, docker, TypeOK, Job
    <3>2. \/ pc'[w] = "noChange" /\ tag[s] = job[w].old
          \/ pc'[w] = "owner" /\ tag[s] # job[w].old
          \/ pc'[w] = "select" /\ tag[s] # job[w].old /\ s \notin Migrated
      BY <2>1, GotoPoint DEF AfterResolve
    <3> QED BY <3>1, <3>2 DEF Achieved
  <2>2. CASE Unsuccessful(w, "fail")
    BY <2>2, FailureKeepsUpdate, AchievedElsewhere DEF Unsuccessful
  <2> QED BY <1>4, <2>1, <2>2 DEF ResolveCandidate
<1>5. CASE InspectOwner(w)
  <2>1. CASE Goto(w, IF owner[s] = "wanted" THEN "select" ELSE "chown")
             /\ job' = [job EXCEPT ![w].owner = owner[s], ![w].changed = (owner[s] # "wanted")]
    <3>1. /\ pc[w] = "owner" /\ container' = container /\ tag' = tag /\ owner' = owner
      BY <1>5 DEF InspectOwner, docker
    <3>2. SameUpdate(w)
      <4>1. job'[w] = [job[w] EXCEPT !.owner = owner[s], !.changed = (owner[s] # "wanted")]
        BY <2>1 DEF TypeOK
      <4> QED BY <1>0, <4>1 DEF Job, SameUpdate
    <3>3. pc'[w] = "chown" \/ (pc'[w] = "select" /\ owner[s] = "wanted")
      BY <2>1, GotoPoint
    <3> QED BY <3>1, <3>2, <3>3 DEF Achieved, SameUpdate
  <2>2. CASE Unsuccessful(w, "fail")
    BY <2>2, FailureKeepsUpdate, AchievedElsewhere DEF Unsuccessful
  <2> QED BY <1>5, <2>1, <2>2 DEF InspectOwner
<1>6. CASE MigrateOwner(w)
  <2>1. pc[w] = "chown" /\ container' = container /\ tag' = tag
    BY <1>6 DEF MigrateOwner, ChangeOwner
  <2>2. CASE Chown(s, job[w].candidate, "wanted") /\ Goto(w, "select") /\ UNCHANGED job
    <3>1. pc'[w] = "select" /\ owner'[s] = "wanted"
      BY <1>0, <2>2, GotoPoint DEF Chown, TypeOK
    <3> QED BY <2>1, <2>2, <3>1 DEF Achieved
  <2>3. CASE AfterFailure(w, "unchown")
    <3>1. pc'[w] = "unchown" /\ SameUpdate(w)
      BY <2>3, FailureKeepsUpdate
    <3> QED BY <2>1, <3>1 DEF Achieved, SameUpdate
  <2> QED BY <1>6, <2>2, <2>3 DEF MigrateOwner, ChangeOwner
<1>7. CASE UndoMigration(w)
  <2>1. pc'[w] = "fail"
    BY <1>7, GotoPoint, FailureKeepsUpdate DEF UndoMigration, ChangeOwner
  <2> QED BY <2>1, AchievedElsewhere
<1>8. CASE SelectTarget(w)
  <2>1. PICK written \in Written :
            /\ Persist(written)
            /\ Goto(w, IF written = 3 THEN "up" ELSE IF job[w].changed THEN "unchown" ELSE "fail")
    BY <1>8 DEF SelectTarget, SelectImage
  <2>2. /\ pc[w] = "select" /\ job' = job /\ container' = container /\ tag' = tag
        /\ owner' = owner /\ selected' = [selected EXCEPT ![s] = Target]
    BY <1>8 DEF SelectTarget, SelectImage, docker
  <2>3. CASE written = 3
    <3>1. pc'[w] = "up"
      BY <2>1, <2>3, GotoPoint
    <3>2. selected'[s] = Target /\ overrideFile'[s] = Target
      BY <1>0, <2>1, <2>2, <2>3 DEF Persist, Override, TypeOK
    <3> QED BY <2>2, <3>1, <3>2 DEF Achieved
  <2>4. CASE written # 3
    <3>1. pc'[w] \in {"unchown", "fail"}
      BY <2>1, <2>4, GotoPoint
    <3> QED BY <2>2, <3>1 DEF Achieved
  <2> QED BY <2>3, <2>4
<1>9. CASE ReplaceContainer(w)
  <2>1. CASE Recreate(s) /\ Goto(w, "verify") /\ UNCHANGED job
    <3>1. /\ pc[w] = "up" /\ pc'[w] = "verify" /\ tag' = tag /\ owner' = owner
          /\ selected' = selected /\ overrideFile' = overrideFile
      BY <1>9, <2>1, GotoPoint DEF ReplaceContainer, ComposeUp, files
    <3>2. Resolve(s) = job[w].candidate
      BY <3>1 DEF Resolve, Achieved
    <3>3. container'[s] = job[w].candidate
      BY <1>0, <2>1, <3>2 DEF Recreate, TypeOK
    <3> QED BY <2>1, <3>1, <3>3 DEF Achieved
  <2>2. CASE AfterFailure(w, "rollback")
    BY <2>2, FailureKeepsUpdate, AchievedElsewhere
  <2> QED BY <1>9, <2>1, <2>2 DEF ReplaceContainer, ComposeUp
<1>10. CASE VerifyCandidate(w)
  <2>1. CASE Goto(w, "success") /\ UNCHANGED job
    <3>1. /\ pc[w] = "verify" /\ pc'[w] = "success" /\ tag' = tag /\ owner' = owner
          /\ selected' = selected /\ overrideFile' = overrideFile /\ container' = container
      BY <1>10, <2>1, GotoPoint DEF VerifyCandidate, VerifyWithRetry, files, docker
    <3> QED BY <2>1, <3>1 DEF Achieved
  <2>2. CASE Goto(w, "rollback") \/ AfterFailure(w, "rollback")
    BY <2>2, GotoPoint, FailureKeepsUpdate, AchievedElsewhere
  <2> QED BY <1>10, <2>1, <2>2 DEF VerifyCandidate, VerifyWithRetry, Unsuccessful
<1> QED BY <1>1, <1>2, <1>3, <1>4, <1>5, <1>6, <1>7, <1>8, <1>9, <1>10 DEF PrepareStep

(* From the recorded outcome on nothing is undone, and no other entry gets in
   front of the job's own. *)
LEMMA OutcomeAchieves ==
    ASSUME TypeOK, NEW w \in Worker, Achieved(w), OutcomeStep(w)
    PROVE  Achieved(w)'
<1> DEFINE s == job[w].service
<1> USE DEF Untouched, Upgrading, Owned, Selected, Adopting, Deciding, Finishing
<1>0. job[w] \in Job
  BY DEF TypeOK
<1>1. CASE RecordNoChange(w)
  <2>1. pc[w] = "noChange" /\ pc'[w] = "result" /\ job' = job /\ container' = container
    BY <1>1, GotoPoint DEF RecordNoChange, RecordHistory, docker
  <2> QED BY <2>1 DEF Achieved
<1>2. CASE RecordSuccess(w)
  <2>1. /\ pc[w] = "success" /\ pc'[w] = "collect" /\ job' = job /\ selected' = selected
        /\ container' = container /\ tag' = tag /\ owner' = owner
        /\ status'.history = Recorded(status.history, EntryOf(w, "success"))
    BY <1>2, GotoPoint DEF RecordSuccess, RecordHistory, docker, TypeOK, Status
  <2>2. overrideFile'[s] = Target
    <3>1. s \in Service /\ selected'[s] = Target /\ overrideFile[s] = Target
      BY <2>1, LocalsHere DEF Achieved, LocalsSet
    <3> QED BY <1>2, <3>1 DEF RecordSuccess, RecordHistory, SaveIgnoringErrors, Persist, Override
  <2>3. status'.history # <<>> /\ status'.history[1] = EntryOf(w, "success")
    <3>1. EntryOf(w, "success") \in Entry
      BY <1>0, <2>1, LocalsHere DEF EntryOf, Entry, LocalsSet, UpdatePoints, Early
    <3>2. status.history \in History
      BY DEF TypeOK, Status
    <3> QED BY <2>1, <3>1, <3>2, RecordedType
  <2>4. EntryOf(w, "success")' = EntryOf(w, "success")
    BY <2>1 DEF EntryOf
  <2> QED BY <2>1, <2>2, <2>3, <2>4 DEF Achieved
<1>3. CASE \/ RecordRolledBack(w) \/ RecordFailed(w) \/ Fail(w) \/ FinishUpdate(w)
  <2>1. pc'[w] \in {"fail", "none"}
    BY <1>3, GotoPoint
       DEF RecordRolledBack, RecordFailed, RecordHistory, Fail, FinishUpdate, BecomeIdle
  <2> QED BY <2>1, AchievedElsewhere
<1>4. CASE CollectSuperseded(w) \/ RemoveImage(w) \/ SkipImage(w) \/ CleanVolumes(w)
  <2>1. pc[w] \in {"collect", "sweep"} /\ pc'[w] \in {"sweep", "attach"}
    BY <1>4, GotoPoint, FailureKeepsUpdate
       DEF CollectSuperseded, RemoveImage, SkipImage, CleanVolumes
  <2>2. SameUpdate(w)
    <3>1. CASE RemoveImage(w) \/ SkipImage(w)
      BY <3>1, SweepKeepsUpdate
    <3>2. CASE CollectSuperseded(w) \/ CleanVolumes(w)
      BY <1>0, <3>2, FailureKeepsUpdate DEF CollectSuperseded, CleanVolumes, SameUpdate, TypeOK, Job
    <3> QED BY <1>4, <3>1, <3>2
  <2>3. /\ UNCHANGED <<status, selected, container, owner, tag>>
        /\ overrideFile' = overrideFile
    BY <1>4 DEF CollectSuperseded, RemoveImage, SkipImage, CleanVolumes, docker, files
  <2>4. EntryOf(w, "success")' = EntryOf(w, "success")
    BY <2>2 DEF EntryOf, SameUpdate
  <2> QED BY <2>1, <2>2, <2>3, <2>4 DEF Achieved, SameUpdate
<1>5. CASE AttachCleanup(w) \/ ReportResult(w)
  <2>1. /\ pc[w] \in {"attach", "result"} /\ pc'[w] \in {"result", "idle"}
        /\ job' = job /\ container' = container
    BY <1>5, GotoPoint DEF AttachCleanup, ReportResult, docker
  <2> QED BY <2>1 DEF Achieved
<1> QED BY <1>1, <1>2, <1>3, <1>4, <1>5 DEF OutcomeStep

(* Whoever is at a first point, or at none, has achieved nothing yet. *)
LEMMA NothingToAchieve ==
    ASSUME \A v \in Worker : pc'[v] \in {"none", "inspect", "checkNext"}
    PROVE  AllAchieved'
  BY AchievedElsewhere
     DEF AllAchieved, Untouched, Upgrading, Owned, Selected, Adopting, Deciding, Finishing

LEMMA StepAchieves ==
    ASSUME TypeOK, OneJobAtATime, AllAchieved, [Next]_vars
    PROVE  AllAchieved'
<1>1. ASSUME NEW w \in Worker, WorkerStep(w) PROVE AllAchieved'
  <2>1. Achieved(w)'
    BY <1>1, CheckAchieves, PrepareAchieves, RollbackAchieves, OutcomeAchieves
       DEF AllAchieved, WorkerStep
  <2>2. ASSUME NEW v \in Worker, v # w PROVE Achieved(v)'
    <3>1. pc'[v] = "none"
      BY <1>1, <2>2, OthersAreGone
    <3> QED BY <3>1, AchievedElsewhere
            DEF Untouched, Upgrading, Owned, Selected, Adopting, Deciding, Finishing
  <2> QED BY <2>1, <2>2 DEF AllAchieved
<1>2. ASSUME NEW w \in Worker, StartCheck(w) \/ \E s \in Service : StartUpdate(w, s)
      PROVE  AllAchieved'
  BY <1>2, StartAlone, NothingToAchieve
<1>3. CASE Restart
  <2>1. \A v \in Worker : pc'[v] = "none"
    BY <1>3 DEF Restart
  <2> QED BY <2>1, NothingToAchieve
<1>4. CASE UNCHANGED vars \/ \E s \in Service, i \in Image : Publish(s, i)
  BY <1>4 DEF vars, Publish, memory, files, docker, AllAchieved, Achieved, EntryOf
<1> QED BY <1>1, <1>2, <1>3, <1>4 DEF Next

(* Together, by induction over the steps. *)
LEMMA AlwaysAchieved == Spec => []AllAchieved
<1>1. Init => AllAchieved
  BY DEF Init, AllAchieved, Achieved, Untouched, Upgrading, Owned, Selected, Adopting, Deciding,
         Finishing
<1>2. TypeOK /\ OneJobAtATime /\ AllAchieved /\ [Next]_vars => AllAchieved'
  BY StepAchieves
<1> QED BY <1>1, <1>2, TypeCorrect, JobsExcludeEachOther, PTL DEF Spec

(* What was achieved is what the property asks for. *)
LEMMA AchievedIsComplete == AllAchieved => SuccessIsComplete
  BY DEF AllAchieved, Achieved, SuccessIsComplete, Upgrading, Owned, Selected, Adopting, Deciding

(* An update that is recorded as a success runs the candidate, which is another
   image than before and what target, memory and override name, on a volume it
   owns, whatever failed or was retried on the way. *)
THEOREM SuccessAdoptsTheCandidate == Spec => []SuccessIsComplete
  BY AchievedIsComplete, AlwaysAchieved, PTL

(* The entry that attachCleanup completes is the one of its own update. *)
THEOREM CleanupIsFiledRight == Spec => []CleanupFindsItsEntry
<1>1. AllAchieved => CleanupFindsItsEntry
  BY DEF AllAchieved, Achieved, CleanupFindsItsEntry, Deciding
<1> QED BY <1>1, AlwaysAchieved, PTL

-----------------------------------------------------------------------------
(* What an idle manager reports *)

TrueReport(s) ==
    LET report == status.services[s] IN
    ~report.failed /\ report.current # None =>
        /\ container[s] = report.current
        /\ report.available <=> report.candidate # report.current

(* w has not yet reported on s: the check is still to come to it, or the update
   is still to end. *)
Reporting(w, s) ==
    \/ pc[w] \in CheckPoints /\ s \in job[w].todo
    \/ pc[w] \in CheckPoints \ {"checkNext"} /\ s = job[w].service
    \/ pc[w] \in UpdatePoints \ {"idle"} /\ s = job[w].service

(* Reports are true but of the services somebody is about to report on. *)
ReportsTrue == \A s \in Service : TrueReport(s) \/ \E w \in Worker : Reporting(w, s)

(* A step of w that reports nothing new. *)
LEMMA NothingReported ==
    ASSUME ReportsTrue, NEW w \in Worker, \A v \in Worker : v # w => pc[v] = "none",
           status'.services = status.services,
           \A s \in Service : Reporting(w, s) => Reporting(w, s)',
           \A s \in Service : Reporting(w, s) \/ container'[s] = container[s]
    PROVE  ReportsTrue'
<1> SUFFICES ASSUME NEW s \in Service PROVE TrueReport(s)' \/ Reporting(w, s)'
  BY DEF ReportsTrue
<1>1. TrueReport(s) \/ Reporting(w, s)
  BY DEF ReportsTrue, Reporting, CheckPoints, UpdatePoints
<1> QED BY <1>1 DEF TrueReport

(* A step of w that reports on its service, the truth or a failure. *)
LEMMA FreshReport ==
    ASSUME TypeOK, ReportsTrue, NEW w \in Worker, \A v \in Worker : v # w => pc[v] = "none",
           NEW t \in Service, NEW report,
           status'.services = [status.services EXCEPT ![t] = report],
           container' = container,
           \A s \in Service \ {t} : Reporting(w, s) => Reporting(w, s)',
           \/ report.failed
           \/ /\ container[t] = report.current
              /\ report.available <=> report.candidate # report.current
    PROVE  ReportsTrue'
<1> SUFFICES ASSUME NEW s \in Service PROVE TrueReport(s)' \/ Reporting(w, s)'
  BY DEF ReportsTrue
<1>0. status.services \in [Service -> Report]
  BY DEF TypeOK, Status
<1>1. TrueReport(s) \/ Reporting(w, s)
  BY DEF ReportsTrue, Reporting, CheckPoints, UpdatePoints
<1>2. CASE s = t
  <2>1. status'.services[s] = report
    BY <1>0, <1>2
  <2> QED BY <1>2, <2>1 DEF TrueReport
<1>3. CASE s # t
  <2>1. status'.services[s] = status.services[s]
    BY <1>0, <1>3
  <2> QED BY <1>1, <1>3, <2>1 DEF TrueReport
<1> QED BY <1>2, <1>3

(* setProgress and the history leave the reports alone, setServiceResult changes
   the one of the service it is called for. *)
LEMMA ReportsChanged ==
    ASSUME TypeOK
    PROVE  /\ \A s : SetProgress(s) => status'.services = status.services
           /\ \A w, outcome, next : RecordHistory(w, outcome, next) =>
                  status'.services = status.services
           /\ \A w, report : CheckedWith(w, report) =>
                  status'.services = [status.services EXCEPT ![job[w].service] = report]
BY DEF TypeOK, Status, SetProgress, RecordHistory, CheckedWith

(* A service leaves the list of a check only to be reported on. *)
LEMMA CheckStepReports ==
    ASSUME TypeOK, ReportsTrue, NEW w \in Worker, Achieved(w), CheckStep(w),
           \A v \in Worker : v # w => pc[v] = "none"
    PROVE  ReportsTrue'
<1> DEFINE t == job[w].service
<1>0. /\ job[w] \in Job /\ pc[w] \in CheckPoints /\ container' = container
      /\ pc[w] # "checkNext" => t \in Service
  BY LocalsHere
     DEF CheckStep, CheckNext, CheckInspect, CheckPull, CheckResolve, FinishCheck, BecomeIdle,
         docker, LocalsSet, CheckPoints
<1>1. CASE CheckNext(w)
  <2>1. PICK n \in job[w].todo :
            /\ status'.services = status.services /\ pc'[w] = "checkInspect"
            /\ job' = [job EXCEPT ![w].service = n, ![w].todo = job[w].todo \ {n}]
    BY <1>1, ReportsChanged, GotoPoint DEF CheckNext
  <2>2. job'[w].service = n /\ job'[w].todo = job[w].todo \ {n} /\ pc[w] = "checkNext"
    <3>1. job'[w] = [job[w] EXCEPT !.service = n, !.todo = job[w].todo \ {n}]
      BY <2>1 DEF TypeOK
    <3> QED BY <1>0, <1>1, <3>1 DEF CheckNext, Job
  <2> QED BY <1>0, <2>1, <2>2, NothingReported DEF Reporting, CheckPoints, UpdatePoints
<1>2. CASE /\ pc[w] # "checkNext" /\ pc'[w] \in {"checkPull", "checkResolve"}
           /\ UNCHANGED status
           /\ job' = job \/ job' = [job EXCEPT ![w].old = container[t]]
  <2>1. job'[w].service = t /\ job'[w].todo = job[w].todo
    BY <1>0, <1>2 DEF TypeOK, Job
  <2> QED BY <1>0, <1>2, <2>1, NothingReported DEF Reporting, CheckPoints, UpdatePoints
<1>3. ASSUME NEW report, CheckedWith(w, report), pc[w] # "checkNext", pc'[w] = "checkNext",
             job'[w].todo = job[w].todo,
             \/ report.failed
             \/ /\ container[t] = report.current
                /\ report.available <=> report.candidate # report.current
      PROVE  ReportsTrue'
  <2>1. status'.services = [status.services EXCEPT ![t] = report]
    BY <1>3, ReportsChanged
  <2>2. \A s \in Service \ {t} : Reporting(w, s) => Reporting(w, s)'
    BY <1>0, <1>3 DEF Reporting, CheckPoints, UpdatePoints
  <2> QED BY <1>0, <1>3, <2>1, <2>2, FreshReport
<1>4. AfterFailure(w, "checkNext") => pc'[w] = "checkNext" /\ job'[w].todo = job[w].todo
  BY <1>0 DEF AfterFailure, Goto, TypeOK, Job
<1>5. CASE CheckInspect(w)
  <2>1. pc[w] = "checkInspect"
    BY <1>5 DEF CheckInspect
  <2>2. CASE Goto(w, "checkPull") /\ job' = [job EXCEPT ![w].old = container[t]]
             /\ UNCHANGED status
    BY <1>2, <2>1, <2>2, GotoPoint
  <2>3. CASE Unsuccessful(w, "checkNext")
             /\ CheckedWith(w, [NoReport EXCEPT !.failed = TRUE])
    BY <1>3, <1>4, <2>1, <2>3 DEF Unsuccessful, NoReport
  <2> QED BY <1>5, <2>2, <2>3 DEF CheckInspect
<1>6. CASE CheckPull(w)
  <2>1. pc[w] = "checkPull"
    BY <1>6 DEF CheckPull
  <2>2. CASE Goto(w, "checkResolve") /\ UNCHANGED <<job, status>>
    BY <1>2, <2>1, <2>2, GotoPoint
  <2>3. CASE Unsuccessful(w, "checkNext")
             /\ CheckedWith(w, [NoReport EXCEPT !.current = job[w].old, !.failed = TRUE])
    BY <1>3, <1>4, <2>1, <2>3 DEF Unsuccessful, NoReport
  <2> QED BY <1>6, <2>2, <2>3 DEF CheckPull
<1>7. CASE CheckResolve(w)
  <2>1. pc[w] = "checkResolve" /\ container[t] = job[w].old
    BY <1>7 DEF CheckResolve, Achieved, Untouched
  <2>2. CASE /\ Goto(w, "checkNext") /\ UNCHANGED job
             /\ CheckedWith(w, [current |-> job[w].old, candidate |-> tag[t],
                                available |-> job[w].old # tag[t], failed |-> FALSE])
    BY <1>3, <2>1, <2>2, GotoPoint
  <2>3. CASE Unsuccessful(w, "checkNext")
             /\ CheckedWith(w, [NoReport EXCEPT !.current = job[w].old, !.failed = TRUE])
    BY <1>3, <1>4, <2>1, <2>3 DEF Unsuccessful, NoReport
  <2> QED BY <1>7, <2>2, <2>3 DEF CheckResolve
<1>8. CASE FinishCheck(w)
  <2>1. /\ status'.services = status.services /\ pc[w] = "checkNext" /\ job[w].todo = {}
    BY <1>8 DEF FinishCheck, BecomeIdle, TypeOK, Status
  <2> QED BY <1>0, <2>1, NothingReported DEF Reporting, UpdatePoints
<1> QED BY <1>1, <1>5, <1>6, <1>7, <1>8 DEF CheckStep

(* A step of update concerns one service, and only fail and finish report on it. *)
LEMMA UpdateStepFrame ==
    ASSUME TypeOK, NEW w \in Worker, PrepareStep(w) \/ RollbackStep(w) \/ OutcomeStep(w)
    PROVE  /\ pc[w] \in UpdatePoints /\ job[w].service \in Service
           /\ pc'[w] \in (UpdatePoints \ {"inspect"}) \cup {"none"}
           /\ pc'[w] # "none" => job'[w].service = job[w].service
           /\ \A s \in Service : s # job[w].service => container'[s] = container[s]
           /\ \/ Fail(w) \/ ReportResult(w) \/ FinishUpdate(w)
              \/ /\ pc[w] # "idle" /\ pc'[w] \in UpdatePoints \ {"idle"}
                 /\ status'.services = status.services
<1> DEFINE t == job[w].service
<1>0. job[w] \in Job /\ LocalsSet(pc[w], job[w])
  BY LocalsHere
<1>1. \A point : AfterFailure(w, point) => pc'[w] = point /\ job'[w].service = t
  BY <1>0 DEF AfterFailure, Goto, TypeOK, Job
<1>2. Recreate(t) => \A s \in Service : s # t => container'[s] = container[s]
  BY DEF Recreate, TypeOK
<1> USE GotoPoint DEF UpdatePoints, docker, Unsuccessful, KeepContainers, LocalsSet
<1>3. CASE PrepareStep(w)
  <2>1. CASE Inspect(w) \/ Backup(w) \/ ResolveCandidate(w)
    <3>1. \/ job' = [job EXCEPT ![w].old = container[t]]
          \/ job' = [job EXCEPT ![w].backup = data[t]]
          \/ job' = [job EXCEPT ![w].candidate = tag[t]]
          \/ \E point : AfterFailure(w, point)
      BY <2>1 DEF Inspect, Backup, ResolveCandidate
    <3>2. job'[w].service = t
      BY <1>0, <1>1, <3>1 DEF TypeOK, Job
    <3> QED BY <1>0, <1>1, <2>1, <3>2, ReportsChanged
            DEF Inspect, Backup, ResolveCandidate, AfterResolve
  <2>2. CASE InspectOwner(w)
    <3>1. job'[w].service = t
      <4>1. CASE job' = [job EXCEPT ![w].owner = owner[t], ![w].changed = (owner[t] # "wanted")]
        <5>1. job'[w] = [job[w] EXCEPT !.owner = owner[t], !.changed = (owner[t] # "wanted")]
          BY <4>1 DEF TypeOK
        <5> QED BY <1>0, <5>1 DEF Job
      <4> QED BY <1>1, <2>2, <4>1 DEF InspectOwner
    <3> QED BY <1>0, <1>1, <2>2, <3>1 DEF InspectOwner
  <2>3. CASE Pull(w) \/ MigrateOwner(w) \/ UndoMigration(w) \/ VerifyCandidate(w)
    BY <1>0, <1>1, <2>3
       DEF Pull, MigrateOwner, UndoMigration, VerifyCandidate, ChangeOwner, VerifyWithRetry
  <2>4. CASE SelectTarget(w)
    BY <1>0, <1>1, <2>4 DEF SelectTarget, SelectImage
  <2>5. CASE ReplaceContainer(w)
    BY <1>0, <1>1, <1>2, <2>5 DEF ReplaceContainer, ComposeUp
  <2> QED BY <1>3, <2>1, <2>2, <2>3, <2>4, <2>5 DEF PrepareStep
<1>4. CASE RollbackStep(w)
  <2>1. CASE BeginRollback(w) \/ RollbackSelection(w)
    BY <1>0, <1>1, <2>1, ReportsChanged DEF BeginRollback, RollbackSelection, SelectImage
  <2>2. CASE RollbackOwner(w) \/ RollbackRestart(w) \/ VerifyRollback(w) \/ RollbackData(w)
    BY <1>0, <1>1, <2>2
       DEF RollbackOwner, RollbackRestart, VerifyRollback, RollbackData, ChangeOwner,
           VerifyWithRetry
  <2>3. CASE RollbackContainer(w)
    BY <1>0, <1>1, <1>2, <2>3 DEF RollbackContainer, ComposeUp
  <2> QED BY <1>4, <2>1, <2>2, <2>3 DEF RollbackStep
<1>5. CASE OutcomeStep(w)
  <2>1. CASE RecordNoChange(w) \/ RecordSuccess(w) \/ RecordRolledBack(w) \/ RecordFailed(w)
    BY <1>0, <2>1, ReportsChanged
       DEF RecordNoChange, RecordSuccess, RecordRolledBack, RecordFailed, RecordHistory
  <2>2. CASE CollectSuperseded(w) \/ CleanVolumes(w)
    BY <1>0, <1>1, <2>2 DEF CollectSuperseded, CleanVolumes, TypeOK, Job
  <2>3. CASE RemoveImage(w) \/ SkipImage(w)
    <3>1. pc' = pc /\ pc[w] = "sweep" /\ UNCHANGED <<status, container>>
      BY <2>3 DEF RemoveImage, SkipImage
    <3>2. job'[w].service = t
      BY <2>3, SweepKeepsUpdate DEF SameUpdate
    <3> QED BY <1>0, <3>1, <3>2
  <2>4. CASE AttachCleanup(w)
    BY <1>0, <2>4 DEF AttachCleanup, TypeOK, Status
  <2>5. CASE Fail(w) \/ ReportResult(w) \/ FinishUpdate(w)
    BY <1>0, <2>5 DEF Fail, ReportResult, FinishUpdate, BecomeIdle
  <2> QED BY <1>5, <2>1, <2>2, <2>3, <2>4, <2>5 DEF OutcomeStep
<1> QED BY <1>3, <1>4, <1>5

(* During an update of a service the reports on the others stay true; its own is
   a failure or names the image that now runs. *)
LEMMA UpdateStepReports ==
    ASSUME TypeOK, ReportsTrue, NEW w \in Worker, Achieved(w),
           PrepareStep(w) \/ RollbackStep(w) \/ OutcomeStep(w),
           \A v \in Worker : v # w => pc[v] = "none"
    PROVE  ReportsTrue'
<1> DEFINE t == job[w].service
<1>0. /\ pc[w] \in UpdatePoints /\ t \in Service
      /\ pc[w] # "idle" => \A s \in Service : Reporting(w, s) <=> s = t
  BY UpdateStepFrame DEF Reporting, CheckPoints, UpdatePoints
<1>1. CASE /\ pc[w] # "idle" /\ pc'[w] \in UpdatePoints \ {"idle"}
           /\ status'.services = status.services
  <2>1. \A s \in Service : Reporting(w, s) => Reporting(w, s)'
    BY <1>0, <1>1, UpdateStepFrame DEF Reporting, UpdatePoints
  <2>2. \A s \in Service : Reporting(w, s) \/ container'[s] = container[s]
    BY <1>0, <1>1, UpdateStepFrame
  <2> QED BY <1>1, <2>1, <2>2, NothingReported
<1>2. CASE Fail(w)
  <2> DEFINE report == [status.services[t] EXCEPT !.failed = TRUE]
  <2>1. status'.services = [status.services EXCEPT ![t] = report] /\ pc[w] = "fail"
    BY <1>2 DEF Fail, TypeOK, Status
  <2>2. report.failed /\ container' = container
    BY <1>0, <1>2 DEF Fail, docker, TypeOK, Status, Report
  <2> QED BY <1>0, <2>1, <2>2, FreshReport
<1>3. CASE ReportResult(w)
  <2> DEFINE report == [current |-> job[w].candidate, candidate |-> job[w].candidate,
                        available |-> FALSE, failed |-> FALSE]
  <2>1. status'.services = [status.services EXCEPT ![t] = report] /\ pc[w] = "result"
    BY <1>3 DEF ReportResult, TypeOK, Status
  <2>2. container' = container /\ container[t] = report.current
    BY <1>3, <2>1 DEF ReportResult, docker, Achieved, Finishing
  <2> QED BY <1>0, <2>1, <2>2, FreshReport
<1>4. CASE FinishUpdate(w)
  <2>1. /\ status'.services = status.services /\ pc[w] = "idle" /\ container' = container
    BY <1>4 DEF FinishUpdate, BecomeIdle, docker, TypeOK, Status
  <2> QED BY <2>1, NothingReported DEF Reporting, CheckPoints
<1> QED BY <1>1, <1>2, <1>3, <1>4, UpdateStepFrame

(* A job that starts has to report on what its start made uncertain. *)
LEMMA StartReports ==
    ASSUME TypeOK, OneJobAtATime, ReportsTrue, NEW w \in Worker,
           StartCheck(w) \/ \E s \in Service : StartUpdate(w, s)
    PROVE  ReportsTrue'
<1>1. \A s \in Service : TrueReport(s)
  BY StartPoints DEF ReportsTrue, Reporting, CheckPoints, UpdatePoints
<1>2. CASE StartCheck(w)
  <2>1. pc'[w] = "checkNext" /\ job'[w].todo = Service
    BY <1>2, StartPoints DEF StartCheck, NoJob, TypeOK
  <2> QED BY <2>1 DEF ReportsTrue, Reporting, CheckPoints
<1>3. ASSUME NEW t \in Service, StartUpdate(w, t) PROVE ReportsTrue'
  <2>1. pc'[w] = "inspect" /\ job'[w].service = t
    BY <1>3, StartPoints DEF StartUpdate, NoJob, TypeOK
  <2>2. Reporting(w, t)'
    BY <2>1 DEF Reporting, UpdatePoints
  <2>3. ASSUME NEW s \in Service \ {t} PROVE TrueReport(s)'
    <3>1. status'.services[s] = status.services[s] /\ container' = container
      BY <1>3, <2>3 DEF StartUpdate, docker, TypeOK, Status
    <3> QED BY <1>1, <3>1 DEF TrueReport
  <2> QED BY <2>2, <2>3 DEF ReportsTrue
<1> QED BY <1>2, <1>3

(* As long as the process lives, an idle manager reports the image that runs and
   advertises only another one, whatever failed in checks and updates before.  A
   restart is excepted: it reads old reports back, some of them from before an
   update that it interrupted. *)
THEOREM IdleReportsAreTrue ==
    ASSUME "restart" \notin Faults
    PROVE  Spec => []IdleReportIsTrue
<1>1. Init => ReportsTrue
  BY DEF Init, InitialStatus, NoReport, ReportsTrue, TrueReport
<1>2. TypeOK /\ OneJobAtATime /\ AllAchieved /\ ReportsTrue /\ [Next]_vars => ReportsTrue'
  <2> SUFFICES ASSUME TypeOK, OneJobAtATime, AllAchieved, ReportsTrue, [Next]_vars
               PROVE  ReportsTrue'
    OBVIOUS
  <2>1. ASSUME NEW w \in Worker, WorkerStep(w) PROVE ReportsTrue'
    <3>1. \A v \in Worker : v # w => pc[v] = "none"
      BY <2>1, OthersAreGone
    <3> QED BY <2>1, <3>1, CheckStepReports, UpdateStepReports DEF WorkerStep, AllAchieved
  <2>2. ASSUME NEW w \in Worker, StartCheck(w) \/ \E s \in Service : StartUpdate(w, s)
        PROVE  ReportsTrue'
    BY <2>2, StartReports
  <2>3. CASE UNCHANGED vars \/ \E s \in Service, i \in Image : Publish(s, i)
    BY <2>3 DEF vars, Publish, memory, files, docker, ReportsTrue, TrueReport, Reporting
  <2> QED BY <2>1, <2>2, <2>3 DEF Next, Restart
<1>3. OneJobAtATime /\ ReportsTrue => IdleReportIsTrue
  BY DEF OneJobAtATime, ReportsTrue, TrueReport, Reporting, IdleReportIsTrue
<1> QED BY <1>1, <1>2, <1>3, TypeCorrect, JobsExcludeEachOther, AlwaysAchieved, PTL DEF Spec

-----------------------------------------------------------------------------
(* The updater implements ProtectedReplacement *)

(* update has not yet looked at the container when it begins. *)
BeginsAfresh == \A w \in Worker : pc[w] = "inspect" => job[w].old = None

LEMMA AlwaysBeginsAfresh == Spec => []BeginsAfresh
<1>1. Init => BeginsAfresh
  BY DEF Init, BeginsAfresh
<1>2. TypeOK /\ OneJobAtATime /\ BeginsAfresh /\ [Next]_vars => BeginsAfresh'
  <2> SUFFICES ASSUME TypeOK, OneJobAtATime, BeginsAfresh, [Next]_vars PROVE BeginsAfresh'
    OBVIOUS
  <2>1. ASSUME NEW w \in Worker, WorkerStep(w) PROVE BeginsAfresh'
    <3>1. pc'[w] # "inspect"
      <4>1. CASE CheckStep(w)
        BY <4>1, GotoPoint, FailureKeepsUpdate
           DEF CheckStep, CheckNext, CheckInspect, CheckPull, CheckResolve, FinishCheck,
               BecomeIdle, Unsuccessful
      <4> QED BY <2>1, <4>1, UpdateStepFrame DEF WorkerStep
    <3> QED BY <2>1, <3>1, OthersAreGone DEF BeginsAfresh
  <2>2. ASSUME NEW w \in Worker, StartCheck(w) \/ \E s \in Service : StartUpdate(w, s)
        PROVE  BeginsAfresh'
    <3>1. \A v \in Worker : v # w => pc'[v] = "none"
      BY <2>2, StartPoints
    <3>2. pc'[w] = "inspect" => job'[w].old = None
      <4>1. CASE StartCheck(w)
        BY <4>1, StartPoints
      <4>2. ASSUME NEW s \in Service, StartUpdate(w, s) PROVE job'[w].old = None
        BY <4>2 DEF StartUpdate, NoJob, TypeOK
      <4> QED BY <2>2, <4>1, <4>2
    <3> QED BY <3>1, <3>2 DEF BeginsAfresh
  <2>3. CASE Restart
    BY <2>3 DEF Restart, BeginsAfresh
  <2>4. CASE UNCHANGED vars \/ \E s \in Service, i \in Image : Publish(s, i)
    BY <2>4 DEF vars, Publish, memory, BeginsAfresh
  <2> QED BY <2>1, <2>2, <2>3, <2>4 DEF Next
<1> QED BY <1>1, <1>2, TypeCorrect, JobsExcludeEachOther, PTL DEF Spec

(* As jobs exclude each other, the update in progress is that of the one worker. *)
LEMMA InProgressIsOf ==
    ASSUME NEW w \in Worker
    PROVE  /\ OneJobAtATime /\ pc[w] \in UpdatePoints => UpdateInProgress = UpdateOf(w)
           /\ OneJobAtATime' /\ pc'[w] \in UpdatePoints => UpdateInProgress' = UpdateOf(w)'
<1>1. ASSUME OneJobAtATime, pc[w] \in UpdatePoints PROVE UpdateInProgress = UpdateOf(w)
  <2>1. w \in Updating /\ \A v \in Updating : v = w
    BY <1>1 DEF Updating, OneJobAtATime, UpdatePoints
  <2>2. (CHOOSE v \in Updating : TRUE) = w
    BY <2>1
  <2> QED BY <2>1, <2>2 DEF UpdateInProgress
<1>2. ASSUME OneJobAtATime', pc'[w] \in UpdatePoints PROVE UpdateInProgress' = UpdateOf(w)'
  <2>1. w \in Updating' /\ \A v \in Updating' : v = w
    BY <1>2 DEF Updating, OneJobAtATime, UpdatePoints
  <2>2. (CHOOSE v \in Updating' : TRUE) = w
    BY <2>1
  <2> QED BY <2>1, <2>2 DEF UpdateInProgress
<1> QED BY <1>1, <1>2

(* Without a worker at a point of update there is none in progress. *)
LEMMA NoneInProgress ==
    /\ (\A w \in Worker : pc[w] \notin UpdatePoints) => UpdateInProgress = None
    /\ (\A w \in Worker : pc'[w] \notin UpdatePoints) => UpdateInProgress' = None
BY DEF UpdateInProgress, Updating

(* The verdict is the newest entry's; removed images are no part of it. *)
LEMMA VerdictKept ==
    ASSUME status'.history = status.history
    PROVE  LastVerdict' = LastVerdict
BY DEF LastVerdict

(* A step of update that decides nothing and touches no container stutters. *)
LEMMA QuietStep ==
    ASSUME OneJobAtATime, OneJobAtATime', NEW w \in Worker,
           pc[w] \in UpdatePoints, pc'[w] \in UpdatePoints,
           pc[w] \in Decided <=> pc'[w] \in Decided,
           job'[w].service = job[w].service, StartedFrom(w)' = StartedFrom(w),
           container' = container, LastVerdict' = LastVerdict
    PROVE  UNCHANGED Promise!vars
<1>1. UpdateInProgress' = UpdateInProgress
  BY InProgressIsOf DEF UpdateOf
<1> QED BY <1>1 DEF Promise!vars

(* The origin of an update stays known. *)
LEMMA OriginKept ==
    ASSUME NEW w \in Worker, job'[w].service = job[w].service, job'[w].old = job[w].old,
           container' = container \/ job[w].old # None
    PROVE  StartedFrom(w)' = StartedFrom(w)
BY DEF StartedFrom

(* An update in progress is a proper value of the promise's variable. *)
LEMMA InProgressIsSome ==
    ASSUME TypeOK, OneJobAtATime, NEW w \in Worker, pc[w] \in UpdatePoints
    PROVE  /\ UpdateInProgress = UpdateOf(w) /\ UpdateInProgress # None
           /\ UpdateOf(w).service = job[w].service /\ UpdateOf(w).from = StartedFrom(w)
           /\ UpdateOf(w).decided <=> pc[w] \in Decided
           /\ job[w].service \in Service
<1>1. job[w].service \in Service /\ StartedFrom(w) \in Image
  BY LocalsHere DEF LocalsSet, UpdatePoints, StartedFrom, Job, Optional, TypeOK
<1>2. UpdateInProgress = UpdateOf(w)
  BY InProgressIsOf
<1>3. UpdateOf(w) # None
  <2>1. \A d \in BOOLEAN : [service |-> job[w].service, decided |-> d, from |-> StartedFrom(w)]
                            \in [service : Service, decided : BOOLEAN, from : Image]
    BY <1>1
  <2>2. (pc[w] \in Decided) \in BOOLEAN
    OBVIOUS
  <2>3. UpdateOf(w) \in [service : Service, decided : BOOLEAN, from : Image]
    BY <2>1, <2>2, Zenon DEF UpdateOf
  <2> QED BY <2>3, PromiseAssumption
<1> QED BY <1>1, <1>2, <1>3 DEF UpdateOf

(* The step that decides an update changes nothing else about it. *)
LEMMA DecidedNow ==
    ASSUME NEW w \in Worker, pc'[w] \in Decided,
           job'[w].service = job[w].service, StartedFrom(w)' = StartedFrom(w)
    PROVE  UpdateOf(w)' =
               [service |-> job[w].service, decided |-> TRUE, from |-> StartedFrom(w)]
<1>1. (pc'[w] \in Decided) = TRUE
  OBVIOUS
<1> QED BY <1>1, Zenon DEF UpdateOf

(* GiveUp: an error before the container was replaced. *)
LEMMA GivingUp ==
    ASSUME TypeOK, OneJobAtATime, OneJobAtATime', NEW w \in Worker,
           pc[w] \in UpdatePoints \ Decided, pc'[w] = "fail",
           job'[w].service = job[w].service, job'[w].old = job[w].old,
           container' = container, container[job[w].service] = StartedFrom(w),
           LastVerdict' = LastVerdict
    PROVE  Promise!GiveUp
<1>1. UpdateInProgress' = UpdateOf(w)'
  BY InProgressIsOf DEF UpdatePoints
<1>2. UpdateOf(w)' = [service |-> job[w].service, decided |-> TRUE, from |-> StartedFrom(w)]
  BY OriginKept, DecidedNow DEF Decided
<1> QED BY <1>1, <1>2, InProgressIsSome DEF Promise!GiveUp, Promise!Undecided, Promise!Decide

(* Replace: compose has recreated the container of the update's service. *)
LEMMA ReplacingIt ==
    ASSUME TypeOK, OneJobAtATime, OneJobAtATime', NEW w \in Worker,
           pc[w] \in UpdatePoints \ (Decided \cup {"inspect"}),
           pc'[w] \in UpdatePoints \ Decided,
           job'[w].service = job[w].service, job'[w].old = job[w].old,
           Recreate(job[w].service), LastVerdict' = LastVerdict
    PROVE  Promise!Replace
<1>1. UpdateInProgress' = UpdateOf(w)'
  BY InProgressIsOf
<1>2. job[w].old # None
  BY LocalsHere, NamesAssumption DEF LocalsSet, Early, Decided
<1>3. UpdateOf(w)' = UpdateOf(w)
  BY <1>2, OriginKept DEF UpdateOf
<1>4. \E i \in Image : container' = [container EXCEPT ![job[w].service] = i]
  BY DEF Recreate, TypeOK
<1> QED BY <1>1, <1>3, <1>4, InProgressIsSome DEF Promise!Replace, Promise!Undecided

(* Record: recordHistory with an outcome that is true of the container. *)
LEMMA RecordingIt ==
    ASSUME TypeOK, OneJobAtATime, OneJobAtATime', NEW w \in Worker,
           NEW outcome \in Promise!Outcomes, NEW next \in Decided, RecordHistory(w, outcome, next),
           pc[w] \in {"noChange", "success", "rolledBack", "rbFailed"},
           Promise!Truthful(outcome, job[w].old, job[w].candidate, container[job[w].service])
    PROVE  Promise!Record(outcome)
<1>0. /\ job[w].service \in Service /\ job[w].old \in Image /\ job[w].candidate \in Image
      /\ pc[w] \in UpdatePoints \ Decided
  BY LocalsHere DEF LocalsSet, UpdatePoints, Early, Decided
<1>1. /\ pc'[w] = next /\ job' = job /\ container' = container
      /\ status'.history = Recorded(status.history, EntryOf(w, outcome))
  BY GotoPoint DEF RecordHistory, docker, TypeOK, Status
<1>2. UpdateInProgress' = UpdateOf(w)'
  BY <1>1, InProgressIsOf DEF UpdatePoints, Decided
<1>3. UpdateOf(w)' = [service |-> job[w].service, decided |-> TRUE, from |-> StartedFrom(w)]
  BY <1>1, OriginKept, DecidedNow
<1>4. StartedFrom(w) = job[w].old
  BY <1>0, NamesAssumption DEF StartedFrom
<1>5. LastVerdict' = [service |-> job[w].service, outcome |-> outcome,
                      from |-> job[w].old, to |-> job[w].candidate]
  <2>1. EntryOf(w, outcome) \in Entry
    BY <1>0 DEF EntryOf, Entry, Promise!Outcomes
  <2>2. status'.history # <<>> /\ status'.history[1] = EntryOf(w, outcome)
    BY <1>1, <2>1, RecordedType DEF TypeOK, Status
  <2> QED BY <2>2 DEF LastVerdict, EntryOf
<1>6. Promise!Undecided /\ Promise!Decide
  BY <1>0, <1>1, <1>2, <1>3, InProgressIsSome DEF Promise!Undecided, Promise!Decide
<1>7. UpdateInProgress.service = job[w].service /\ UpdateInProgress.from = job[w].old
  BY <1>0, <1>4, InProgressIsSome
<1> QED BY <1>0, <1>5, <1>6, <1>7 DEF Promise!Record

(* End: fail and finish. *)
LEMMA EndingIt ==
    ASSUME TypeOK, OneJobAtATime, NEW w \in Worker, pc[w] \in UpdatePoints \cap Decided,
           \A v \in Worker : pc'[v] = "none",
           container' = container, LastVerdict' = LastVerdict
    PROVE  Promise!End
<1>1. UpdateInProgress' = None
  BY NoneInProgress DEF UpdatePoints
<1> QED BY <1>1, InProgressIsSome DEF Promise!End

(* Until the container is replaced, and when it is not, its image is the one the
   update started from. *)
LEMMA NotYetReplaced ==
    ASSUME TypeOK, BeginsAfresh, NEW w \in Worker, Achieved(w), pc[w] \in Untouched \cup {"inspect"},
           pc[w] \in UpdatePoints
    PROVE  container[job[w].service] = StartedFrom(w)
BY DEF StartedFrom, Achieved, BeginsAfresh

(* The failure of a command, told by where it goes. *)
LEMMA FailureGoesOn ==
    ASSUME TypeOK, NEW w \in Worker, NEW point, AfterFailure(w, point)
    PROVE  /\ pc'[w] = point /\ job'[w].service = job[w].service /\ job'[w].old = job[w].old
BY FailureKeepsUpdate DEF SameUpdate

(* InspectOwner notes two things of the container's files and nothing of the update. *)
LEMMA OwnerNoted ==
    ASSUME TypeOK, NEW w \in Worker, NEW o, NEW c,
           job' = [job EXCEPT ![w].owner = o, ![w].changed = c]
    PROVE  job'[w].service = job[w].service /\ job'[w].old = job[w].old
<1>1. job'[w] = [job[w] EXCEPT !.owner = o, !.changed = c]
  BY DEF TypeOK
<1> QED BY <1>1 DEF TypeOK, Job

(* update up to the verified candidate. *)
LEMMA PrepareKeepsPromise ==
    ASSUME TypeOK, OneJobAtATime, OneJobAtATime', BeginsAfresh, NEW w \in Worker, Achieved(w),
           PrepareStep(w)
    PROVE  [Promise!Next]_Promise!vars
<1> DEFINE s == job[w].service
<1> SUFFICES Promise!GiveUp \/ Promise!Replace \/ UNCHANGED Promise!vars
  BY DEF Promise!Next
<1>0. /\ job[w] \in Job /\ s \in Service
      /\ pc[w] \in {"inspect", "backup", "pull", "resolve", "owner", "chown", "unchown",
                    "select", "up", "verify"}
      /\ pc[w] # "inspect" => job[w].old \in Image /\ job[w].old # None
  BY LocalsHere, NamesAssumption
     DEF PrepareStep, Inspect, Backup, Pull, ResolveCandidate, InspectOwner, MigrateOwner,
         UndoMigration, SelectTarget, ReplaceContainer, VerifyCandidate, LocalsSet,
         UpdatePoints, Early
<1>1. pc[w] \in UpdatePoints \ Decided
  BY <1>0 DEF UpdatePoints, Decided
<1>2. ASSUME pc'[w] = "fail", pc[w] \notin {"verify"}, container' = container,
             job'[w].service = s, job'[w].old = job[w].old, status' = status
      PROVE  Promise!GiveUp
  <2>1. container[s] = StartedFrom(w)
    BY <1>0, <1>1, <1>2, NotYetReplaced DEF Untouched
  <2> QED BY <1>1, <1>2, <2>1, GivingUp, VerdictKept
<1>3. ASSUME pc'[w] \in UpdatePoints \ Decided, container' = container,
             job'[w].service = s, StartedFrom(w)' = StartedFrom(w),
             status'.history = status.history
      PROVE  UNCHANGED Promise!vars
  BY <1>1, <1>3, QuietStep, VerdictKept
<1>4. \A t : SetProgress(t) => status'.history = status.history
  BY DEF SetProgress, TypeOK, Status
<1>5. CASE Inspect(w)
  <2>1. container' = container /\ pc[w] = "inspect"
    BY <1>5 DEF Inspect, docker
  <2>2. CASE Goto(w, "backup") /\ job' = [job EXCEPT ![w].old = container[s]] /\ SetProgress(s)
    <3>1. pc'[w] = "backup" /\ job'[w].service = s /\ job'[w].old = container[s]
      BY <1>0, <2>2, GotoPoint DEF TypeOK, Job
    <3>2. StartedFrom(w)' = StartedFrom(w)
      BY <2>1, <3>1 DEF StartedFrom, BeginsAfresh
    <3> QED BY <1>3, <1>4, <2>1, <2>2, <3>1, <3>2 DEF UpdatePoints, Decided
  <2>3. CASE Unsuccessful(w, "fail") /\ UNCHANGED status
    BY <1>2, <2>1, <2>3, FailureGoesOn DEF Unsuccessful
  <2> QED BY <1>5, <2>2, <2>3 DEF Inspect
<1>6. CASE Backup(w)
  <2>1. container' = container /\ pc[w] = "backup"
    BY <1>6 DEF Backup, docker
  <2>2. CASE Goto(w, "pull") /\ job' = [job EXCEPT ![w].backup = data[s]] /\ SetProgress(s)
    <3>1. pc'[w] = "pull" /\ job'[w].service = s /\ job'[w].old = job[w].old
      BY <1>0, <2>2, GotoPoint DEF TypeOK, Job
    <3> QED BY <1>3, <1>4, <2>1, <2>2, <3>1, OriginKept DEF UpdatePoints, Decided
  <2>3. CASE Unsuccessful(w, "fail") /\ UNCHANGED status
    BY <1>2, <2>1, <2>3, FailureGoesOn DEF Unsuccessful
  <2> QED BY <1>6, <2>2, <2>3 DEF Backup
<1>7. CASE Pull(w)
  <2>1. container' = container /\ pc[w] = "pull" /\ status' = status
    BY <1>7 DEF Pull
  <2>2. CASE Goto(w, "resolve") /\ UNCHANGED job
    BY <1>3, <2>1, <2>2, GotoPoint, OriginKept DEF UpdatePoints, Decided
  <2>3. CASE Unsuccessful(w, "fail")
    BY <1>2, <2>1, <2>3, FailureGoesOn DEF Unsuccessful
  <2> QED BY <1>7, <2>2, <2>3 DEF Pull
<1>8. CASE ResolveCandidate(w)
  <2>1. container' = container /\ pc[w] = "resolve"
    BY <1>8 DEF ResolveCandidate, docker
  <2>2. CASE /\ Goto(w, AfterResolve(s, tag[s], job[w].old))
             /\ job' = [job EXCEPT ![w].candidate = tag[s]]
             /\ SetProgress(s) \/ UNCHANGED status
    <3>1. /\ pc'[w] \in {"noChange", "owner", "select"}
          /\ job'[w].service = s /\ job'[w].old = job[w].old
      BY <1>0, <2>2, GotoPoint DEF TypeOK, Job, AfterResolve
    <3> QED BY <1>3, <1>4, <2>1, <2>2, <3>1, OriginKept DEF UpdatePoints, Decided
  <2>3. CASE Unsuccessful(w, "fail") /\ UNCHANGED status
    BY <1>2, <2>1, <2>3, FailureGoesOn DEF Unsuccessful
  <2> QED BY <1>8, <2>2, <2>3 DEF ResolveCandidate
<1>9. CASE InspectOwner(w)
  <2>1. container' = container /\ pc[w] = "owner" /\ status' = status
    BY <1>9 DEF InspectOwner, docker
  <2>2. CASE Goto(w, IF owner[s] = "wanted" THEN "select" ELSE "chown")
             /\ job' = [job EXCEPT ![w].owner = owner[s], ![w].changed = (owner[s] # "wanted")]
    <3>1. job'[w].service = s /\ job'[w].old = job[w].old
      BY <2>2, OwnerNoted
    <3>2. pc'[w] \in {"chown", "select"}
      BY <2>2, GotoPoint
    <3> QED BY <1>3, <2>1, <3>1, <3>2, OriginKept DEF UpdatePoints, Decided
  <2>3. CASE Unsuccessful(w, "fail")
    BY <1>2, <2>1, <2>3, FailureGoesOn DEF Unsuccessful
  <2> QED BY <1>9, <2>2, <2>3 DEF InspectOwner
<1>10. CASE MigrateOwner(w) \/ UndoMigration(w)
  <2>1. container' = container /\ pc[w] \in {"chown", "unchown"} /\ status' = status
    BY <1>10 DEF MigrateOwner, UndoMigration, ChangeOwner
  <2>2. pc'[w] \in {"select", "unchown", "fail"} /\ job'[w].service = s /\ job'[w].old = job[w].old
    BY <1>10, GotoPoint, FailureGoesOn DEF MigrateOwner, UndoMigration, ChangeOwner
  <2>3. CASE pc'[w] = "fail"
    BY <1>2, <2>1, <2>2, <2>3
  <2>4. CASE pc'[w] # "fail"
    BY <1>3, <2>1, <2>2, <2>4, OriginKept DEF UpdatePoints, Decided
  <2> QED BY <2>3, <2>4
<1>11. CASE SelectTarget(w)
  <2>1. container' = container /\ pc[w] = "select" /\ status' = status /\ job' = job
    BY <1>11 DEF SelectTarget, SelectImage, docker
  <2>2. pc'[w] \in {"up", "unchown", "fail"}
    BY <1>11, GotoPoint DEF SelectTarget, SelectImage
  <2>3. CASE pc'[w] = "fail"
    BY <1>2, <2>1, <2>3
  <2>4. CASE pc'[w] # "fail"
    BY <1>3, <2>1, <2>2, <2>4, OriginKept DEF UpdatePoints, Decided
  <2> QED BY <2>3, <2>4
<1>12. CASE ReplaceContainer(w)
  <2>1. /\ pc[w] = "up" /\ status' = status /\ pc'[w] \in {"verify", "rollback"}
        /\ job'[w].service = s /\ job'[w].old = job[w].old
        /\ Recreate(s) \/ container' = container
    BY <1>12, GotoPoint, FailureGoesOn DEF ReplaceContainer, ComposeUp, KeepContainers
  <2>2. CASE Recreate(s)
    BY <1>0, <1>1, <2>1, <2>2, ReplacingIt, VerdictKept DEF UpdatePoints, Decided
  <2>3. CASE container' = container
    BY <1>3, <2>1, <2>3, OriginKept DEF UpdatePoints, Decided
  <2> QED BY <2>1, <2>2, <2>3
<1>13. CASE VerifyCandidate(w)
  <2>1. /\ status' = status /\ pc'[w] \in {"success", "rollback"} /\ container' = container
        /\ job'[w].service = s /\ job'[w].old = job[w].old
    BY <1>13, GotoPoint, FailureGoesOn
       DEF VerifyCandidate, VerifyWithRetry, Unsuccessful, docker
  <2> QED BY <1>3, <2>1, OriginKept DEF UpdatePoints, Decided
<1> QED BY <1>5, <1>6, <1>7, <1>8, <1>9, <1>10, <1>11, <1>12, <1>13 DEF PrepareStep

(* The rollback: the container is recreated once more, nothing is decided. *)
LEMMA RollbackKeepsPromise ==
    ASSUME TypeOK, OneJobAtATime, OneJobAtATime', NEW w \in Worker, RollbackStep(w)
    PROVE  [Promise!Next]_Promise!vars
<1> DEFINE s == job[w].service
<1> SUFFICES Promise!Replace \/ UNCHANGED Promise!vars
  BY DEF Promise!Next
<1>1. pc[w] \in UpdatePoints \ (Decided \cup {"inspect"})
  BY DEF RollbackStep, BeginRollback, RollbackOwner, RollbackSelection, RollbackContainer,
         RollbackData, RollbackRestart, VerifyRollback, UpdatePoints, Decided
<1>2. /\ pc'[w] \in {"rbOwner", "rbSelect", "rbUp", "rbCopy", "rbRestart", "rbVerify",
                     "rolledBack", "rbFailed"}
      /\ job'[w].service = s /\ job'[w].old = job[w].old
  BY GotoPoint, FailureGoesOn
     DEF RollbackStep, BeginRollback, RollbackOwner, RollbackSelection, RollbackContainer,
         RollbackData, RollbackRestart, VerifyRollback, VerifyWithRetry, ChangeOwner,
         SelectImage, ComposeUp, Unsuccessful
<1>3. status'.history = status.history
  <2>1. \A t : SetProgress(t) => status'.history = status.history
    BY DEF SetProgress, TypeOK, Status
  <2> QED BY <2>1
          DEF RollbackStep, BeginRollback, RollbackOwner, RollbackSelection, RollbackContainer,
              RollbackData, RollbackRestart, VerifyRollback, VerifyWithRetry, ChangeOwner,
              SelectImage, ComposeUp
<1>4. Recreate(s) \/ container' = container
  BY DEF RollbackStep, BeginRollback, RollbackOwner, RollbackSelection, RollbackContainer,
         RollbackData, RollbackRestart, VerifyRollback, VerifyWithRetry, ChangeOwner,
         SelectImage, ComposeUp, KeepContainers, docker
<1>5. CASE Recreate(s)
  BY <1>1, <1>2, <1>3, <1>5, ReplacingIt, VerdictKept DEF UpdatePoints, Decided
<1>6. CASE container' = container
  BY <1>1, <1>2, <1>3, <1>6, QuietStep, OriginKept, VerdictKept DEF UpdatePoints, Decided
<1> QED BY <1>4, <1>5, <1>6

(* The outcomes: each is recorded only where it is true. *)
LEMMA OutcomeKeepsPromise ==
    ASSUME TypeOK, OneJobAtATime, OneJobAtATime', NEW w \in Worker, Achieved(w), PutBack(w),
           OutcomeStep(w), \A v \in Worker : v # w => pc'[v] = "none"
    PROVE  [Promise!Next]_Promise!vars
<1> DEFINE s == job[w].service
<1> SUFFICES \/ \E outcome \in Promise!Outcomes : Promise!Record(outcome)
             \/ Promise!End \/ UNCHANGED Promise!vars
  BY DEF Promise!Next
<1>1. CASE RecordNoChange(w)
  <2>1. Promise!Truthful("no_change", job[w].old, job[w].candidate, container[s])
    BY <1>1 DEF RecordNoChange, Achieved, Untouched, Promise!Truthful
  <2> QED BY <1>1, <2>1, RecordingIt DEF RecordNoChange, Decided, Promise!Outcomes
<1>2. CASE RecordSuccess(w)
  <2>1. Promise!Truthful("success", job[w].old, job[w].candidate, container[s])
    BY <1>2 DEF RecordSuccess, Achieved, Upgrading, Owned, Selected, Adopting, Deciding,
                Promise!Truthful
  <2> QED BY <1>2, <2>1, RecordingIt DEF RecordSuccess, Decided, Promise!Outcomes
<1>3. CASE RecordRolledBack(w)
  <2>1. Promise!Truthful("rolled_back", job[w].old, job[w].candidate, container[s])
    BY <1>3 DEF RecordRolledBack, PutBack, OwnerBack, PinBack, ContainerBack, Promise!Truthful
  <2> QED BY <1>3, <2>1, RecordingIt DEF RecordRolledBack, Decided, Promise!Outcomes
<1>4. CASE RecordFailed(w)
  <2>1. Promise!Truthful("failed", job[w].old, job[w].candidate, container[s])
    BY DEF Promise!Truthful
  <2> QED BY <1>4, <2>1, RecordingIt DEF RecordFailed, Decided, Promise!Outcomes
<1>5. CASE Fail(w) \/ FinishUpdate(w)
  <2>1. /\ pc[w] \in {"fail", "idle"} /\ pc'[w] = "none" /\ container' = container
        /\ status'.history = status.history
    BY <1>5, GotoPoint DEF Fail, FinishUpdate, BecomeIdle, docker, TypeOK, Status
  <2> QED BY <2>1, EndingIt, VerdictKept DEF UpdatePoints, Decided
<1>6. CASE CollectSuperseded(w) \/ RemoveImage(w) \/ SkipImage(w) \/ CleanVolumes(w)
  <2>1. /\ pc[w] \in {"collect", "sweep"} /\ pc'[w] \in {"sweep", "attach"}
        /\ UNCHANGED <<status, container>>
    BY <1>6, GotoPoint, FailureKeepsUpdate
       DEF CollectSuperseded, RemoveImage, SkipImage, CleanVolumes, docker
  <2>2. job'[w].service = s /\ job'[w].old = job[w].old
    BY <1>6, SweepKeepsUpdate, FailureKeepsUpdate
       DEF CollectSuperseded, CleanVolumes, SameUpdate, TypeOK, Job
  <2> QED BY <2>1, <2>2, QuietStep, OriginKept, VerdictKept DEF UpdatePoints, Decided
<1>7. CASE AttachCleanup(w) \/ ReportResult(w)
  <2>1. /\ pc[w] \in {"attach", "result"} /\ pc'[w] \in {"result", "idle"}
        /\ job' = job /\ container' = container
    BY <1>7, GotoPoint DEF AttachCleanup, ReportResult, docker
  <2>2. LastVerdict' = LastVerdict
    <3>1. CASE ReportResult(w)
      BY <3>1, VerdictKept DEF ReportResult, TypeOK, Status
    <3>2. CASE AttachCleanup(w)
      <4>1. /\ status'.history = [status.history EXCEPT ![1].removed = job[w].removed]
            /\ status.history # <<>> /\ status.history \in Seq(Entry)
        BY <3>2 DEF AttachCleanup, TypeOK, Status, History, Achieved, Deciding
      <4>2. status'.history # <<>> /\ status'.history[1] = [status.history[1] EXCEPT !.removed = job[w].removed]
        BY <4>1
      <4>3. status.history[1] \in Entry
        BY <4>1
      <4> QED BY <4>1, <4>2, <4>3 DEF LastVerdict, Entry
    <3> QED BY <1>7, <3>1, <3>2
  <2> QED BY <2>1, <2>2, QuietStep, OriginKept DEF UpdatePoints, Decided
<1> QED BY <1>1, <1>2, <1>3, <1>4, <1>5, <1>6, <1>7 DEF OutcomeStep

(* A check is not noticed. *)
LEMMA CheckKeepsPromise ==
    ASSUME TypeOK, OneJobAtATime, NEW w \in Worker, CheckStep(w),
           \A v \in Worker : v # w => pc[v] = "none" /\ pc'[v] = "none"
    PROVE  UNCHANGED Promise!vars
<1>1. /\ pc[w] \in CheckPoints /\ pc'[w] \in CheckPoints \cup {"none"} /\ container' = container
  BY GotoPoint, FailureGoesOn
     DEF CheckStep, CheckNext, CheckInspect, CheckPull, CheckResolve, FinishCheck, BecomeIdle,
         Unsuccessful, docker, CheckPoints
<1>2. status'.history = status.history
  <2>1. \A t : SetProgress(t) => status'.history = status.history
    BY DEF SetProgress, TypeOK, Status
  <2>2. \A v, report : CheckedWith(v, report) => status'.history = status.history
    BY DEF CheckedWith, TypeOK, Status
  <2>3. BecomeIdle(w) => status'.history = status.history
    BY DEF BecomeIdle, TypeOK, Status
  <2> QED BY <2>1, <2>2, <2>3
          DEF CheckStep, CheckNext, CheckInspect, CheckPull, CheckResolve, FinishCheck
<1>3. UpdateInProgress = None /\ UpdateInProgress' = None
  BY <1>1, NoneInProgress DEF CheckPoints, UpdatePoints
<1> QED BY <1>1, <1>2, <1>3, VerdictKept DEF Promise!vars

(* A job starts: an update begins with the image that runs. *)
LEMMA StartKeepsPromise ==
    ASSUME TypeOK, OneJobAtATime, OneJobAtATime', NEW w \in Worker,
           StartCheck(w) \/ \E s \in Service : StartUpdate(w, s)
    PROVE  [Promise!Next]_Promise!vars
<1>1. /\ \A v \in Worker : pc[v] = "none" /\ (v # w => pc'[v] = "none")
      /\ UpdateInProgress = None
  BY StartPoints, NoneInProgress DEF UpdatePoints
<1>2. container' = container /\ LastVerdict' = LastVerdict
  BY VerdictKept DEF StartCheck, StartUpdate, docker, TypeOK, Status
<1>3. CASE StartCheck(w)
  <2>1. UpdateInProgress' = None
    BY <1>1, <1>3, StartPoints, NoneInProgress DEF UpdatePoints
  <2> QED BY <1>1, <1>2, <2>1 DEF Promise!vars
<1>4. ASSUME NEW s \in Service, StartUpdate(w, s) PROVE Promise!Begin(s)
  <2>1. pc'[w] = "inspect" /\ job'[w].service = s /\ job'[w].old = None
    BY <1>4, StartPoints DEF StartUpdate, NoJob, TypeOK
  <2>2. UpdateInProgress' = UpdateOf(w)'
    BY <2>1, InProgressIsOf DEF UpdatePoints
  <2>3. StartedFrom(w)' = container[s] /\ (pc'[w] \in Decided) = FALSE
    BY <1>2, <2>1 DEF StartedFrom, Decided
  <2>4. UpdateOf(w)' = [service |-> s, decided |-> FALSE, from |-> container[s]]
    BY <2>1, <2>3, Zenon DEF UpdateOf
  <2> QED BY <1>1, <1>2, <2>2, <2>4 DEF Promise!Begin
<1> QED BY <1>3, <1>4 DEF Promise!Next

(* A restart: no update is in progress any more, the newest entry is the file's. *)
LEMMA RestartKeepsPromise ==
    ASSUME TypeOK, TypeOK', Restart
    PROVE  Promise!Interrupt
<1>1. UpdateInProgress' = None /\ container' = container
  BY NoneInProgress DEF Restart, UpdatePoints, docker
<1>2. LastVerdict' \in Promise!Verdict \cup {None}
  <2>1. CASE status'.history = <<>>
    BY <2>1 DEF LastVerdict
  <2>2. CASE status'.history # <<>>
    <3>1. status'.history[1] \in Entry
      <4>1. status'.history \in Seq(Entry)
        BY DEF TypeOK, Status, History
      <4> QED BY <2>2, <4>1
    <3> QED BY <2>2, <3>1 DEF LastVerdict, Entry, Promise!Verdict, Promise!Outcomes
  <2> QED BY <2>1, <2>2
<1> QED BY <1>1, <1>2 DEF Promise!Interrupt

(* For every instance, whatever fails, is saved half-way or restarted: seen from
   the images and the newest entry of the history, the updater takes the steps
   of ProtectedReplacement only. *)
THEOREM UpdaterKeepsItsPromise == Spec => PromiseKept
<1>1. Init => Promise!Init
  BY NoneInProgress DEF Init, InitialStatus, Promise!Init, LastVerdict, UpdatePoints
<1>2. /\ TypeOK /\ TypeOK' /\ OneJobAtATime /\ OneJobAtATime'
      /\ BeginsAfresh /\ AllAchieved /\ AllPutBack /\ [Next]_vars
      => [Promise!Next]_Promise!vars
  <2> SUFFICES ASSUME TypeOK, TypeOK', OneJobAtATime, OneJobAtATime',
                      BeginsAfresh, AllAchieved, AllPutBack, [Next]_vars
               PROVE  [Promise!Next]_Promise!vars
    OBVIOUS
  <2>1. ASSUME NEW w \in Worker, WorkerStep(w) PROVE [Promise!Next]_Promise!vars
    BY <2>1, OthersAreGone, CheckKeepsPromise, PrepareKeepsPromise, RollbackKeepsPromise,
       OutcomeKeepsPromise
       DEF WorkerStep, AllAchieved, AllPutBack
  <2>2. ASSUME NEW w \in Worker, StartCheck(w) \/ \E s \in Service : StartUpdate(w, s)
        PROVE  [Promise!Next]_Promise!vars
    BY <2>2, StartKeepsPromise
  <2>3. CASE Restart
    BY <2>3, RestartKeepsPromise DEF Promise!Next
  <2>4. CASE UNCHANGED vars \/ \E s \in Service, i \in Image : Publish(s, i)
    <3>1. UNCHANGED <<status, pc, job, container>>
      BY <2>4 DEF vars, Publish, memory, docker
    <3>2. Updating' = Updating /\ LastVerdict' = LastVerdict
      BY <3>1 DEF Updating, LastVerdict
    <3>3. UpdateInProgress' = UpdateInProgress
      BY <3>1, <3>2 DEF UpdateInProgress, UpdateOf, StartedFrom
    <3> QED BY <3>1, <3>2, <3>3 DEF Promise!vars
  <2> QED BY <2>1, <2>2, <2>3, <2>4 DEF Next
<1> QED BY <1>1, <1>2, TypeCorrect, JobsExcludeEachOther, AlwaysBeginsAfresh, AlwaysAchieved,
           AlwaysPutBack, PTL DEF Spec, PromiseKept, Promise!Spec

-----------------------------------------------------------------------------
(* The images that are needed stay stored *)

(* Home says which service an image is for: the repositories of the services are
   different ones.  Everything the manager and docker know of a service names
   images of its own. *)
PinsAtHome(Home, pins) == \A s \in Service : pins[s] \in Image => Home[pins[s]] = s

HistoryAtHome(Home, history) ==
    \A n \in DOMAIN history :
        Home[history[n].from] = history[n].service /\ Home[history[n].to] = history[n].service

Mentioned(w) ==
    {job[w].old, job[w].candidate} \cup (IF pc[w] = "sweep" THEN job[w].doomed ELSE {})

JobAtHome(Home, w) ==
    pc[w] \in UpdatePoints => \A i \in Mentioned(w) \cap Image : Home[i] = job[w].service

DockerAtHome(Home) == \A s \in Service : Home[container[s]] = s /\ Home[tag[s]] = s

FilesAtHome(Home) ==
    /\ PinsAtHome(Home, overrideFile)
    /\ imagesFile # None => PinsAtHome(Home, imagesFile)
    /\ statusFile # None => HistoryAtHome(Home, statusFile.history)

AtHome(Home) ==
    /\ DockerAtHome(Home)
    /\ PinsAtHome(Home, selected) /\ HistoryAtHome(Home, status.history)
    /\ FilesAtHome(Home)
    /\ \A w \in Worker : JobAtHome(Home, w)

(* The points at which an update may still need the image it started from. *)
Keeping == {"backup", "pull", "resolve"} \cup Replacing

Stored ==
    /\ \A s \in Service : container[s] \in present /\ tag[s] \in present
    /\ \A w \in Worker : pc[w] \in Keeping => job[w].old \in present
    /\ \A w \in Worker : pc[w] \in Replacing => tag[job[w].service] = job[w].candidate

(* The published images are for the service whose repository has them. *)
RegistryAtHome(Home) == \A s \in Service : Home[registry[s]] = s

(* The manager's files are what memory was, as far as they are written. *)
Saves == UNCHANGED files \/ \E written \in Written : Persist(written)

LEMMA SavedAtHome ==
    ASSUME TypeOK, TypeOK', NEW Home \in [Image -> Service], AtHome(Home), Saves,
           PinsAtHome(Home, selected'), HistoryAtHome(Home, status'.history)
    PROVE  FilesAtHome(Home)'
<1>1. CASE UNCHANGED files
  BY <1>1 DEF files, AtHome, FilesAtHome, PinsAtHome, HistoryAtHome
<1>2. ASSUME NEW written \in Written, Persist(written) PROVE FilesAtHome(Home)'
  <2>1. overrideFile' = overrideFile \/ overrideFile' = Override(selected')
    BY <1>2 DEF Persist
  <2>2. PinsAtHome(Home, overrideFile')
    BY <2>1, NamesAssumption DEF Override, PinsAtHome, AtHome, FilesAtHome
  <2>3. imagesFile' = imagesFile \/ imagesFile' = selected'
    BY <1>2 DEF Persist
  <2>4. statusFile' = statusFile \/ statusFile' = status'
    BY <1>2 DEF Persist
  <2> QED BY <2>2, <2>3, <2>4 DEF AtHome, FilesAtHome
<1> QED BY <1>1, <1>2 DEF Saves

(* Every step of a worker that does not select an image keeps what is selected,
   and writes the files from memory or not at all. *)
LEMMA StepSaves ==
    ASSUME NEW w \in Worker,
           WorkerStep(w) \/ StartCheck(w) \/ \E s \in Service : StartUpdate(w, s)
    PROVE  /\ Saves
           /\ \/ UNCHANGED selected
              \/ SelectTarget(w) \/ RollbackSelection(w)
<1> USE DEF Saves, SaveIgnoringErrors, SetProgress, CheckedWith
<1>1. CASE StartCheck(w) \/ \E s \in Service : StartUpdate(w, s)
  BY <1>1 DEF StartCheck, StartUpdate
<1>2. CASE CheckStep(w)
  BY <1>2 DEF CheckStep, CheckNext, CheckInspect, CheckPull, CheckResolve, FinishCheck, BecomeIdle
<1>3. CASE PrepareStep(w)
  BY <1>3 DEF PrepareStep, Inspect, Backup, Pull, ResolveCandidate, InspectOwner, MigrateOwner,
              UndoMigration, ReplaceContainer, VerifyCandidate, ChangeOwner,
              ComposeUp, VerifyWithRetry, SelectTarget, SelectImage
<1>4. CASE RollbackStep(w)
  BY <1>4 DEF RollbackStep, BeginRollback, RollbackOwner, RollbackContainer, RollbackData,
              RollbackRestart, VerifyRollback, ChangeOwner, ComposeUp, VerifyWithRetry,
              RollbackSelection, SelectImage
<1>5. CASE OutcomeStep(w)
  BY <1>5 DEF OutcomeStep, RecordNoChange, RecordSuccess, RecordRolledBack, RecordFailed,
              RecordHistory, Fail, CollectSuperseded, RemoveImage, SkipImage, CleanVolumes,
              AttachCleanup, ReportResult, FinishUpdate, BecomeIdle
<1> QED BY <1>1, <1>2, <1>3, <1>4, <1>5 DEF WorkerStep


(* What a step of a worker does to docker: a container gets the image its
   service is to have, a tag the published one, and only the sweep removes. *)
DockerFrame(w) ==
    /\ registry' = registry
    /\ \A s \in Service :
           /\ \/ container'[s] = container[s]
              \/ container'[s] = Resolve(s) /\ Resolve(s) \in present
           /\ tag'[s] = tag[s] \/ (tag'[s] = registry[s] /\ registry[s] \in present')
    /\ present \subseteq present' \/ RemoveImage(w)

LEMMA ComposeFrame ==
    ASSUME TypeOK, NEW w \in Worker, job[w].service \in Service,
           NEW success, NEW failure, ComposeUp(w, success, failure)
    PROVE  DockerFrame(w)
<1> DEFINE s == job[w].service
<1>1. Recreate(s) \/ UNCHANGED container
  BY DEF ComposeUp, KeepContainers
<1>2. UNCHANGED <<tag, registry, present>>
  BY DEF ComposeUp
<1>3. Recreate(s) => /\ container' = [container EXCEPT ![s] = Resolve(s)]
                     /\ Resolve(s) \in present
  BY DEF Recreate
<1> HIDE DEF s
<1> QED BY <1>1, <1>2, <1>3 DEF DockerFrame, TypeOK

LEMMA PullFrame ==
    ASSUME TypeOK, NEW w \in Worker, NEW s \in Service, PullTarget(s),
           UNCHANGED <<container, registry>>
    PROVE  DockerFrame(w)
BY DEF PullTarget, DockerFrame, TypeOK

LEMMA StepFrame ==
    ASSUME TypeOK, NEW w \in Worker,
           WorkerStep(w) \/ StartCheck(w) \/ \E s \in Service : StartUpdate(w, s)
    PROVE  DockerFrame(w)
<1> DEFINE s == job[w].service
           Still == UNCHANGED <<container, tag, registry, present>>
<1>0. pc[w] \in {"checkPull", "up", "pull", "rbUp"} => s \in Service
  BY LocalsHere DEF LocalsSet
<1>1. Still => DockerFrame(w)
  BY DEF DockerFrame
<1> USE DEF docker
<1>2. CASE StartCheck(w) \/ \E t \in Service : StartUpdate(w, t)
  BY <1>1, <1>2 DEF StartCheck, StartUpdate
<1>3. CASE CheckStep(w)
  <2>1. CASE CheckPull(w)
    <3>1. PullTarget(s) \/ UNCHANGED <<tag, present>>
      BY <2>1 DEF CheckPull
    <3>2. UNCHANGED <<container, registry>> /\ s \in Service
      BY <1>0, <2>1 DEF CheckPull
    <3> QED BY <1>1, <3>1, <3>2, PullFrame
  <2>2. CASE ~CheckPull(w)
    BY <1>1, <1>3, <2>2 DEF CheckStep, CheckNext, CheckInspect, CheckResolve, FinishCheck, BecomeIdle
  <2> QED BY <2>1, <2>2
<1>4. CASE PrepareStep(w)
  <2>1. CASE Pull(w)
    <3>1. PullTarget(s) \/ UNCHANGED <<tag, present>>
      BY <2>1 DEF Pull
    <3>2. UNCHANGED <<container, registry>> /\ s \in Service
      BY <1>0, <2>1 DEF Pull
    <3> QED BY <1>1, <3>1, <3>2, PullFrame
  <2>2. CASE ReplaceContainer(w)
    BY <1>0, <2>2, ComposeFrame DEF ReplaceContainer
  <2>3. CASE ~Pull(w) /\ ~ReplaceContainer(w)
    BY <1>1, <1>4, <2>3
       DEF PrepareStep, Inspect, Backup, ResolveCandidate, InspectOwner, MigrateOwner,
           UndoMigration, VerifyCandidate, ChangeOwner, VerifyWithRetry, SelectTarget, SelectImage
  <2> QED BY <2>1, <2>2, <2>3
<1>5. CASE RollbackStep(w)
  <2>1. CASE RollbackContainer(w)
    BY <1>0, <2>1, ComposeFrame DEF RollbackContainer
  <2>2. CASE ~RollbackContainer(w)
    BY <1>1, <1>5, <2>2
       DEF RollbackStep, BeginRollback, RollbackOwner, RollbackData, RollbackRestart,
           VerifyRollback, ChangeOwner, VerifyWithRetry, RollbackSelection, SelectImage
  <2> QED BY <2>1, <2>2
<1>6. CASE OutcomeStep(w)
  <2>1. CASE RemoveImage(w)
    BY <2>1 DEF RemoveImage, DockerFrame
  <2>2. CASE ~RemoveImage(w)
    BY <1>1, <1>6, <2>2
       DEF OutcomeStep, RecordNoChange, RecordSuccess, RecordRolledBack, RecordFailed,
           RecordHistory, Fail, CollectSuperseded, SkipImage, CleanVolumes,
           AttachCleanup, ReportResult, FinishUpdate, BecomeIdle
  <2> QED BY <2>1, <2>2
<1> QED BY <1>2, <1>3, <1>4, <1>5, <1>6 DEF WorkerStep

-----------------------------------------------------------------------------
(* The locals and the history name images of the job's service *)

LEMMA RecordedAtHome ==
    ASSUME NEW Home \in [Image -> Service], NEW history \in History, NEW entry \in Entry,
           HistoryAtHome(Home, history),
           Home[entry.from] = entry.service, Home[entry.to] = entry.service
    PROVE  HistoryAtHome(Home, Recorded(history, entry))
<1> DEFINE longer == <<entry>> \o history
<1>1. longer \in Seq(Entry) /\ Len(longer) = Len(history) + 1
  BY DEF History
<1>2. ASSUME NEW n \in 1..Len(longer)
      PROVE  Home[longer[n].from] = longer[n].service /\ Home[longer[n].to] = longer[n].service
  <2>1. n = 1 => longer[n] = entry
    BY DEF History
  <2>2. n # 1 => longer[n] = history[n - 1] /\ n - 1 \in DOMAIN history
    BY DEF History
  <2> HIDE DEF longer
  <2> QED BY <2>1, <2>2 DEF HistoryAtHome
<1>3. \/ Recorded(history, entry) = longer
      \/ MaxHistory < Len(longer) /\ Recorded(history, entry) = SubSeq(longer, 1, MaxHistory)
  BY <1>1, HistoryAssumption DEF Recorded
<1> HIDE DEF longer
<1>4. \A n \in DOMAIN Recorded(history, entry) :
          n \in 1..Len(longer) /\ Recorded(history, entry)[n] = longer[n]
  BY <1>1, <1>3, HistoryAssumption
<1> QED BY <1>2, <1>4 DEF HistoryAtHome

LEMMA HistoryStep ==
    ASSUME TypeOK, NEW w \in Worker,
           WorkerStep(w) \/ StartCheck(w) \/ \E s \in Service : StartUpdate(w, s)
    PROVE  \/ status'.history = status.history
           \/ /\ pc[w] \in {"noChange", "success", "rolledBack", "rbFailed"}
              /\ \E outcome \in {"success", "no_change", "rolled_back", "failed"} :
                     status'.history = Recorded(status.history, EntryOf(w, outcome))
           \/ AttachCleanup(w)
<1>0. status \in Status
  BY DEF TypeOK
<1>1. CASE StartCheck(w) \/ \E s \in Service : StartUpdate(w, s)
  BY <1>0, <1>1 DEF StartCheck, StartUpdate, Status
<1> USE DEF Status, SetProgress, CheckedWith
<1>2. CASE CheckStep(w)
  BY <1>0, <1>2 DEF CheckStep, CheckNext, CheckInspect, CheckPull, CheckResolve, FinishCheck, BecomeIdle
<1>3. CASE PrepareStep(w)
  BY <1>0, <1>3 DEF PrepareStep, Inspect, Backup, Pull, ResolveCandidate, InspectOwner, MigrateOwner,
              UndoMigration, ReplaceContainer, VerifyCandidate, ChangeOwner,
              ComposeUp, VerifyWithRetry, SelectTarget, SelectImage
<1>4. CASE RollbackStep(w)
  BY <1>0, <1>4 DEF RollbackStep, BeginRollback, RollbackOwner, RollbackContainer, RollbackData,
              RollbackRestart, VerifyRollback, ChangeOwner, ComposeUp, VerifyWithRetry,
              RollbackSelection, SelectImage
<1>5. CASE OutcomeStep(w)
  <2>1. CASE RecordNoChange(w) \/ RecordSuccess(w) \/ RecordRolledBack(w) \/ RecordFailed(w)
    BY <1>0, <2>1 DEF RecordNoChange, RecordSuccess, RecordRolledBack, RecordFailed, RecordHistory
  <2>2. CASE Fail(w) \/ ReportResult(w) \/ FinishUpdate(w)
    BY <1>0, <2>2 DEF Fail, ReportResult, FinishUpdate, BecomeIdle
  <2>3. CASE CollectSuperseded(w) \/ RemoveImage(w) \/ SkipImage(w) \/ CleanVolumes(w)
    BY <2>3 DEF CollectSuperseded, RemoveImage, SkipImage, CleanVolumes
  <2> QED BY <1>5, <2>1, <2>2, <2>3 DEF OutcomeStep
<1> QED BY <1>1, <1>2, <1>3, <1>4, <1>5 DEF WorkerStep


(* The images a job has noted change only where update reads them. *)
LEMMA NotedImages ==
    ASSUME TypeOK, NEW w \in Worker, PrepareStep(w) \/ RollbackStep(w) \/ OutcomeStep(w)
    PROVE  \/ pc'[w] = "none"
           \/ SameUpdate(w) /\ (pc'[w] \in Keeping => pc[w] \in Keeping)
                            /\ (pc'[w] \in Replacing => pc[w] \in Replacing)
           \/ /\ pc'[w] = "backup" /\ job'[w].old = container[job[w].service]
              /\ job'[w].service = job[w].service /\ job'[w].candidate = job[w].candidate
           \/ /\ pc[w] = "resolve" /\ pc'[w] \in {"noChange", "owner", "select"}
              /\ job'[w].candidate = tag[job[w].service] /\ tag' = tag
              /\ job'[w].service = job[w].service /\ job'[w].old = job[w].old
<1> DEFINE s == job[w].service
<1>0. job[w] \in Job
  BY LocalsHere
<1>1. UNCHANGED job => SameUpdate(w)
  BY DEF SameUpdate
<1> USE GotoPoint, FailureKeepsUpdate DEF Keeping, Replacing, docker, Unsuccessful
<1>2. CASE PrepareStep(w)
  <2>1. CASE Inspect(w) \/ Backup(w) \/ ResolveCandidate(w)
    <3>1. CASE Inspect(w) /\ job' = [job EXCEPT ![w].old = container[s]]
      BY <1>0, <3>1 DEF Inspect, TypeOK, Job
    <3>2. CASE Backup(w) /\ job' = [job EXCEPT ![w].backup = data[s]]
      BY <1>0, <3>2 DEF Backup, TypeOK, Job, SameUpdate
    <3>3. CASE ResolveCandidate(w) /\ job' = [job EXCEPT ![w].candidate = tag[s]]
      BY <1>0, <3>3 DEF ResolveCandidate, AfterResolve, TypeOK, Job
    <3>4. CASE Unsuccessful(w, "fail")
      BY <3>4
    <3> QED BY <2>1, <3>1, <3>2, <3>3, <3>4 DEF Inspect, Backup, ResolveCandidate
  <2>2. CASE InspectOwner(w)
    <3>1. CASE job' = [job EXCEPT ![w].owner = owner[s], ![w].changed = (owner[s] # "wanted")]
      <4>1. job'[w] = [job[w] EXCEPT !.owner = owner[s], !.changed = (owner[s] # "wanted")]
        BY <3>1 DEF TypeOK
      <4> QED BY <1>0, <2>2, <4>1 DEF InspectOwner, SameUpdate, Job
    <3> QED BY <2>2, <3>1 DEF InspectOwner
  <2>3. CASE Pull(w) \/ MigrateOwner(w) \/ UndoMigration(w) \/ VerifyCandidate(w)
    BY <1>1, <2>3
       DEF Pull, MigrateOwner, UndoMigration, VerifyCandidate, ChangeOwner, VerifyWithRetry
  <2>4. CASE SelectTarget(w)
    BY <1>1, <2>4 DEF SelectTarget, SelectImage
  <2>5. CASE ReplaceContainer(w)
    BY <1>1, <2>5 DEF ReplaceContainer, ComposeUp
  <2> QED BY <1>2, <2>1, <2>2, <2>3, <2>4, <2>5 DEF PrepareStep
<1>3. CASE RollbackStep(w)
  <2>1. CASE BeginRollback(w) \/ RollbackSelection(w)
    BY <1>1, <2>1 DEF BeginRollback, RollbackSelection, SelectImage
  <2>2. CASE RollbackOwner(w) \/ RollbackRestart(w) \/ VerifyRollback(w) \/ RollbackData(w)
    BY <1>1, <2>2
       DEF RollbackOwner, RollbackRestart, VerifyRollback, RollbackData, ChangeOwner,
           VerifyWithRetry
  <2>3. CASE RollbackContainer(w)
    BY <1>1, <2>3 DEF RollbackContainer, ComposeUp
  <2> QED BY <1>3, <2>1, <2>2, <2>3 DEF RollbackStep
<1>4. CASE OutcomeStep(w)
  <2>1. CASE RecordNoChange(w) \/ RecordSuccess(w) \/ RecordRolledBack(w) \/ RecordFailed(w)
    BY <1>1, <2>1 DEF RecordNoChange, RecordSuccess, RecordRolledBack, RecordFailed, RecordHistory
  <2>2. CASE RemoveImage(w) \/ SkipImage(w)
    BY <2>2, SweepKeepsUpdate DEF RemoveImage, SkipImage
  <2>3. CASE CollectSuperseded(w)
    BY <1>0, <2>3 DEF CollectSuperseded, TypeOK, Job, SameUpdate
  <2>4. CASE CleanVolumes(w) \/ AttachCleanup(w)
    BY <1>1, <2>4 DEF CleanVolumes, AttachCleanup
  <2>5. CASE Fail(w) \/ ReportResult(w) \/ FinishUpdate(w)
    BY <1>1, <2>5 DEF Fail, ReportResult, FinishUpdate, BecomeIdle
  <2> QED BY <1>4, <2>1, <2>2, <2>3, <2>4, <2>5 DEF OutcomeStep
<1> QED BY <1>2, <1>3, <1>4

(* What the sweep is to remove is what the history superseded, or what is left of it. *)
LEMMA DoomedImages ==
    ASSUME TypeOK, NEW w \in Worker, PrepareStep(w) \/ RollbackStep(w) \/ OutcomeStep(w),
           pc'[w] = "sweep"
    PROVE  \/ pc[w] = "sweep" /\ job'[w].doomed \subseteq job[w].doomed
           \/ job'[w].doomed = Superseded(status.history, job[w].service)
<1>0. job[w] \in Job
  BY LocalsHere
<1>1. CASE CollectSuperseded(w)
  BY <1>0, <1>1 DEF CollectSuperseded, TypeOK, Job
<1>2. CASE RemoveImage(w)
  <2>1. PICK i \in Image : job' = [job EXCEPT ![w].doomed = job[w].doomed \ {i},
                                             ![w].removed = job[w].removed \cup {i}]
    BY <1>0, <1>2 DEF RemoveImage, Job
  <2>2. job'[w] = [job[w] EXCEPT !.doomed = job[w].doomed \ {i},
                                 !.removed = job[w].removed \cup {i}]
    BY <2>1 DEF TypeOK
  <2> QED BY <1>0, <1>2, <2>2 DEF RemoveImage, Job
<1>3. CASE SkipImage(w)
  <2>1. PICK i \in Image, late \in BOOLEAN :
            job' = [job EXCEPT ![w].doomed = job[w].doomed \ {i}, ![w].expired = late]
    BY <1>0, <1>3 DEF SkipImage, Job
  <2>2. job'[w] = [job[w] EXCEPT !.doomed = job[w].doomed \ {i}, !.expired = late]
    BY <2>1 DEF TypeOK
  <2> QED BY <1>0, <1>3, <2>2 DEF SkipImage, Job
<1>4. ~CollectSuperseded(w) /\ ~RemoveImage(w) /\ ~SkipImage(w) => pc'[w] # "sweep"
  <2> USE GotoPoint, FailureKeepsUpdate DEF Unsuccessful
  <2>1. ~PrepareStep(w)
    BY DEF PrepareStep, Inspect, Backup, Pull, ResolveCandidate, AfterResolve, InspectOwner,
           MigrateOwner, UndoMigration, ReplaceContainer, VerifyCandidate, ChangeOwner,
           ComposeUp, VerifyWithRetry, SelectTarget, SelectImage
  <2>2. ~RollbackStep(w)
    BY DEF RollbackStep, BeginRollback, RollbackOwner, RollbackContainer, RollbackData,
           RollbackRestart, VerifyRollback, ChangeOwner, ComposeUp, VerifyWithRetry,
           RollbackSelection, SelectImage
  <2>3. ~(RecordNoChange(w) \/ RecordSuccess(w) \/ RecordRolledBack(w) \/ RecordFailed(w))
    BY DEF RecordNoChange, RecordSuccess, RecordRolledBack, RecordFailed, RecordHistory
  <2>4. ~(Fail(w) \/ CleanVolumes(w) \/ AttachCleanup(w) \/ ReportResult(w) \/ FinishUpdate(w))
    BY DEF Fail, CleanVolumes, AttachCleanup, ReportResult, FinishUpdate, BecomeIdle
  <2> QED BY <2>1, <2>2, <2>3, <2>4 DEF OutcomeStep
<1> QED BY <1>1, <1>2, <1>3, <1>4

LEMMA SupersededAtHome ==
    ASSUME NEW Home \in [Image -> Service], NEW history \in History,
           HistoryAtHome(Home, history), NEW s \in Service
    PROVE  \A i \in Superseded(history, s) : i \in Image /\ Home[i] = s
<1> SUFFICES ASSUME NEW i \in Image, Places(history, s, i) # {}
             PROVE  Home[i] = s
  BY DEF Superseded, Named
<1>1. PICK n \in DOMAIN history :
          history[n].service = s /\ (history[n].from = i \/ history[n].to = i)
  BY DEF Places
<1> QED BY <1>1 DEF HistoryAtHome


-----------------------------------------------------------------------------
(* The invariant *)

LEMMA PinsStep ==
    ASSUME TypeOK, NEW Home \in [Image -> Service], AtHome(Home), NEW w \in Worker,
           WorkerStep(w) \/ StartCheck(w) \/ \E s \in Service : StartUpdate(w, s)
    PROVE  PinsAtHome(Home, selected')
<1> DEFINE s == job[w].service
<1>1. CASE UNCHANGED selected
  BY <1>1 DEF AtHome, PinsAtHome
<1>2. CASE SelectTarget(w)
  <2>1. selected' = [selected EXCEPT ![s] = Target]
    BY <1>2 DEF SelectTarget, SelectImage
  <2> QED BY <2>1, NamesAssumption DEF AtHome, PinsAtHome, TypeOK
<1>3. CASE RollbackSelection(w)
  <2>1. selected' = [selected EXCEPT ![s] = job[w].old] /\ pc[w] = "rbSelect"
    BY <1>3 DEF RollbackSelection, SelectImage
  <2>2. job[w].old \in Image => Home[job[w].old] = s
    BY <2>1 DEF AtHome, JobAtHome, Mentioned, UpdatePoints
  <2> QED BY <2>1, <2>2 DEF AtHome, PinsAtHome, TypeOK
<1> QED BY <1>1, <1>2, <1>3, StepSaves

LEMMA HistoryHome ==
    ASSUME TypeOK, NEW Home \in [Image -> Service], AtHome(Home), NEW w \in Worker, Achieved(w),
           WorkerStep(w) \/ StartCheck(w) \/ \E s \in Service : StartUpdate(w, s)
    PROVE  HistoryAtHome(Home, status'.history)
<1>0. status.history \in History /\ HistoryAtHome(Home, status.history)
  BY DEF TypeOK, Status, AtHome
<1>1. ASSUME NEW outcome \in {"success", "no_change", "rolled_back", "failed"},
             pc[w] \in {"noChange", "success", "rolledBack", "rbFailed"}
      PROVE  HistoryAtHome(Home, Recorded(status.history, EntryOf(w, outcome)))
  <2>1. job[w].service \in Service /\ job[w].old \in Image /\ job[w].candidate \in Image
    BY <1>1, LocalsHere DEF LocalsSet, UpdatePoints, Early
  <2>2. EntryOf(w, outcome) \in Entry
    BY <2>1 DEF EntryOf, Entry
  <2>3. Home[job[w].old] = job[w].service /\ Home[job[w].candidate] = job[w].service
    BY <1>1, <2>1 DEF AtHome, JobAtHome, Mentioned, UpdatePoints
  <2> QED BY <1>0, <2>2, <2>3, RecordedAtHome DEF EntryOf
<1>2. CASE AttachCleanup(w)
  <2>1. /\ status'.history = [status.history EXCEPT ![1].removed = job[w].removed]
        /\ status.history # <<>> /\ status.history \in Seq(Entry)
    BY <1>2 DEF AttachCleanup, TypeOK, Status, History, Achieved, Deciding
  <2>2. /\ DOMAIN status'.history = DOMAIN status.history
        /\ \A n \in DOMAIN status.history :
               /\ status'.history[n].service = status.history[n].service
               /\ status'.history[n].from = status.history[n].from
               /\ status'.history[n].to = status.history[n].to
    <3>1. \A n \in DOMAIN status.history :
              status'.history[n] = IF n = 1 THEN [status.history[1] EXCEPT !.removed = job[w].removed]
                                            ELSE status.history[n]
      BY <2>1
    <3>2. \A n \in DOMAIN status.history : status.history[n] \in Entry
      BY <2>1
    <3> QED BY <2>1, <3>1, <3>2 DEF Entry
  <2> QED BY <1>0, <2>2 DEF HistoryAtHome
<1> QED BY <1>0, <1>1, <1>2, HistoryStep

LEMMA DockerHome ==
    ASSUME TypeOK, NEW Home \in [Image -> Service], AtHome(Home), RegistryAtHome(Home),
           NEW w \in Worker, DockerFrame(w)
    PROVE  DockerAtHome(Home)'
<1> SUFFICES ASSUME NEW s \in Service PROVE Home[container'[s]] = s /\ Home[tag'[s]] = s
  BY DEF DockerAtHome
<1>1. Resolve(s) \in present => Home[Resolve(s)] = s
  BY NamesAssumption DEF Resolve, AtHome, DockerAtHome, FilesAtHome, PinsAtHome, TypeOK
<1> QED BY <1>1 DEF DockerFrame, AtHome, DockerAtHome, RegistryAtHome

LEMMA JobHome ==
    ASSUME TypeOK, OneJobAtATime, NEW Home \in [Image -> Service], AtHome(Home),
           NEW w \in Worker, WorkerStep(w), NEW v \in Worker
    PROVE  JobAtHome(Home, v)'
<1>1. CASE v # w
  BY <1>1, OthersAreGone DEF JobAtHome, UpdatePoints
<1>2. CASE v = w /\ CheckStep(w)
  <2>1. pc'[w] \notin UpdatePoints
    BY <1>2, GotoPoint, FailureKeepsUpdate
       DEF CheckStep, CheckNext, CheckInspect, CheckPull, CheckResolve, FinishCheck,
           BecomeIdle, Unsuccessful, UpdatePoints
  <2> QED BY <1>2, <2>1 DEF JobAtHome
<1>3. CASE v = w /\ (PrepareStep(w) \/ RollbackStep(w) \/ OutcomeStep(w))
  <2> DEFINE s == job[w].service
  <2>1. pc[w] \in UpdatePoints /\ s \in Service
    BY <1>3, UpdateStepFrame
  <2> SUFFICES ASSUME pc'[w] \in UpdatePoints
               PROVE  \A i \in Mentioned(w)' \cap Image : Home[i] = job'[w].service
    BY <1>3 DEF JobAtHome
  <2>2. job'[w].service = s
    BY <1>3, UpdateStepFrame DEF UpdatePoints
  <2>3. /\ job'[w].old \in {job[w].old, container[s]}
        /\ job'[w].candidate \in {job[w].candidate, tag[s]}
    BY <1>3, NotedImages DEF SameUpdate, UpdatePoints
  <2>4. pc'[w] = "sweep" => \A i \in job'[w].doomed : i \in Image => Home[i] = s
    <3>1. \A i \in Superseded(status.history, s) : Home[i] = s
      BY <2>1, SupersededAtHome DEF AtHome, TypeOK, Status
    <3> QED BY <1>3, <2>1, <3>1, DoomedImages DEF AtHome, JobAtHome, Mentioned
  <2>5. \A i \in {job[w].old, job[w].candidate, container[s], tag[s]} \cap Image : Home[i] = s
    BY <2>1 DEF AtHome, JobAtHome, Mentioned, DockerAtHome
  <2> QED BY <2>2, <2>3, <2>4, <2>5 DEF Mentioned
<1> QED BY <1>1, <1>2, <1>3 DEF WorkerStep

LEMMA StepAtHome ==
    ASSUME TypeOK, TypeOK', OneJobAtATime, AllAchieved, NEW Home \in [Image -> Service],
           AtHome(Home), RegistryAtHome(Home), [Next]_vars
    PROVE  AtHome(Home)'
<1>1. ASSUME NEW w \in Worker,
             WorkerStep(w) \/ StartCheck(w) \/ \E s \in Service : StartUpdate(w, s)
      PROVE  AtHome(Home)'
  <2>1. /\ PinsAtHome(Home, selected') /\ HistoryAtHome(Home, status'.history)
        /\ DockerAtHome(Home)'
    BY <1>1, PinsStep, HistoryHome, DockerHome, StepFrame DEF AllAchieved
  <2>2. FilesAtHome(Home)'
    BY <1>1, <2>1, SavedAtHome, StepSaves
  <2>3. ASSUME NEW v \in Worker PROVE JobAtHome(Home, v)'
    <3>1. CASE WorkerStep(w)
      BY <3>1, JobHome
    <3>2. CASE StartCheck(w)
      BY <3>2, StartPoints DEF JobAtHome, UpdatePoints
    <3>3. ASSUME NEW s \in Service, StartUpdate(w, s) PROVE JobAtHome(Home, v)'
      <4>1. v # w => pc'[v] = "none"
        BY <3>3, StartPoints
      <4>2. pc'[w] = "inspect" /\ job'[w].old = None /\ job'[w].candidate = None
        BY <3>3, StartPoints DEF StartUpdate, NoJob, TypeOK
      <4> QED BY <4>1, <4>2, NamesAssumption DEF JobAtHome, Mentioned, UpdatePoints
    <3> QED BY <1>1, <3>1, <3>2, <3>3
  <2> QED BY <2>1, <2>2, <2>3 DEF AtHome
<1>2. CASE Restart
  <2>1. PinsAtHome(Home, selected')
    BY <1>2, NamesAssumption DEF Restart, AtHome, FilesAtHome, PinsAtHome
  <2>2. HistoryAtHome(Home, Loaded.history) /\ Loaded \in Status
    BY InitialStatusType DEF Loaded, InitialStatus, AtHome, FilesAtHome, HistoryAtHome, TypeOK
  <2>3. HistoryAtHome(Home, status'.history)
    BY <1>2, <2>2 DEF Restart, Status
  <2>4. Saves
    BY <1>2 DEF Restart, Saves
  <2>5. FilesAtHome(Home)'
    BY <2>1, <2>3, <2>4, SavedAtHome
  <2> QED BY <1>2, <2>1, <2>3, <2>5
          DEF Restart, AtHome, DockerAtHome, JobAtHome, UpdatePoints, docker
<1>3. CASE UNCHANGED vars \/ \E s \in Service, i \in Image : Publish(s, i)
  BY <1>3 DEF vars, Publish, memory, files, docker, AtHome, DockerAtHome, FilesAtHome, JobAtHome, Mentioned
<1> QED BY <1>1, <1>2, <1>3 DEF Next

(* The sweep removes no image that a container or a target reference needs. *)
LEMMA SweepSpares ==
    ASSUME TypeOK, OneJobAtATime, NEW Home \in [Image -> Service], AtHome(Home),
           NEW w \in Worker, Achieved(w), SuccessIsComplete, RemoveImage(w), NEW s \in Service,
           Stored
    PROVE  container[s] \in present' /\ tag[s] \in present'
<1> DEFINE t == job[w].service
<1>1. PICK i \in job[w].doomed : ~InUse(i) /\ present' = present \ {i} /\ pc[w] = "sweep"
  BY DEF RemoveImage
<1>2. i \in Image /\ Home[i] = t
  BY <1>1, LocalsHere DEF Job, AtHome, JobAtHome, Mentioned, UpdatePoints
<1>3. container[s] # i
  BY <1>1 DEF InUse
<1>4. tag[s] = i => s = t
  BY <1>2 DEF AtHome, DockerAtHome
<1>5. tag[t] = container[t]
  BY <1>1 DEF SuccessIsComplete
<1> QED BY <1>1, <1>3, <1>4, <1>5 DEF Stored

LEMMA StepStored ==
    ASSUME TypeOK, OneJobAtATime, AllAchieved, SuccessIsComplete,
           NEW Home \in [Image -> Service], AtHome(Home), Stored, [Next]_vars
    PROVE  Stored'
<1>1. ASSUME NEW w \in Worker, WorkerStep(w) PROVE Stored'
  <2>0. DockerFrame(w)
    BY <1>1, StepFrame
  <2>1. ASSUME NEW s \in Service PROVE container'[s] \in present' /\ tag'[s] \in present'
    <3>1. CASE RemoveImage(w)
      BY <2>1, <3>1, SweepSpares DEF AllAchieved, RemoveImage
    <3>2. CASE ~RemoveImage(w)
      BY <2>0, <3>2 DEF DockerFrame, Stored
    <3> QED BY <3>1, <3>2
  <2>2. ASSUME NEW v \in Worker, v # w
        PROVE  pc'[v] \notin Keeping
    BY <1>1, <2>2, OthersAreGone DEF Keeping, Replacing
  <2>3. /\ pc'[w] \in Keeping => job'[w].old \in present'
        /\ pc'[w] \in Replacing => tag'[job'[w].service] = job'[w].candidate
    <3>1. CASE CheckStep(w)
      <4>1. pc'[w] \notin Keeping
        BY <3>1, GotoPoint, FailureKeepsUpdate
           DEF CheckStep, CheckNext, CheckInspect, CheckPull, CheckResolve, FinishCheck,
               BecomeIdle, Unsuccessful, Keeping, Replacing
      <4> QED BY <4>1 DEF Keeping
    <3>2. CASE PrepareStep(w) \/ RollbackStep(w) \/ OutcomeStep(w)
      <4>1. pc[w] \in UpdatePoints /\ job[w].service \in Service
        BY <3>2, UpdateStepFrame
      <4>2. pc'[w] \in Keeping => ~RemoveImage(w)
        <5>1. RemoveImage(w) => pc'[w] = "sweep"
          BY DEF RemoveImage
        <5> QED BY <5>1 DEF Keeping, Replacing
      <4>3. pc'[w] \in Keeping => present \subseteq present'
        BY <2>0, <4>2 DEF DockerFrame
      <4>4. pc[w] \in Replacing => tag' = tag
        BY <3>2
           DEF Replacing, PrepareStep, Inspect, Backup, Pull, ResolveCandidate, InspectOwner,
               MigrateOwner, UndoMigration, ReplaceContainer, VerifyCandidate, ChangeOwner,
               ComposeUp, VerifyWithRetry, SelectTarget, SelectImage, RollbackStep, BeginRollback,
               RollbackOwner, RollbackContainer, RollbackData, RollbackRestart, VerifyRollback,
               RollbackSelection, OutcomeStep, RecordNoChange, RecordSuccess, RecordRolledBack,
               RecordFailed, RecordHistory, Fail, CollectSuperseded, RemoveImage, SkipImage,
               CleanVolumes, AttachCleanup, ReportResult, FinishUpdate, BecomeIdle, docker
      <4>5. /\ container[job[w].service] \in present
            /\ pc[w] \in Keeping => job[w].old \in present
            /\ pc[w] \in Replacing => tag[job[w].service] = job[w].candidate
        BY <4>1 DEF Stored
      <4>6. /\ "none" \notin Keeping /\ "noChange" \notin Keeping /\ "resolve" \in Keeping
            /\ "backup" \notin Replacing /\ Replacing \subseteq Keeping
        BY DEF Keeping, Replacing
      <4> QED BY <3>2, <4>3, <4>4, <4>5, <4>6, NotedImages DEF SameUpdate
    <3> QED BY <1>1, <3>1, <3>2 DEF WorkerStep
  <2> QED BY <2>1, <2>2, <2>3 DEF Stored, Keeping
<1>2. ASSUME NEW w \in Worker, StartCheck(w) \/ \E s \in Service : StartUpdate(w, s)
      PROVE  Stored'
  <2>1. \A v \in Worker : pc'[v] \in {"none", "inspect", "checkNext"}
    BY <1>2, StartPoints
  <2>2. UNCHANGED docker
    BY <1>2 DEF StartCheck, StartUpdate
  <2> QED BY <2>1, <2>2 DEF Stored, Keeping, Replacing, docker
<1>3. CASE Restart
  BY <1>3 DEF Restart, Stored, Keeping, Replacing, docker
<1>4. CASE UNCHANGED vars \/ \E s \in Service, i \in Image : Publish(s, i)
  BY <1>4 DEF vars, Publish, memory, docker, Stored
<1> QED BY <1>1, <1>2, <1>3, <1>4 DEF Next

(* As long as each repository publishes images of its own service, a cleanup
   removes nothing that is needed: not
   the image of a container, not the one a target reference names, and not the
   one a rollback would return to. *)
THEOREM NeededImagesStay ==
    ASSUME NEW Home \in [Image -> Service]
    PROVE  Spec /\ []RegistryAtHome(Home) => []ImagesAtHand
<1>1. Init /\ RegistryAtHome(Home) => AtHome(Home) /\ Stored
  BY NamesAssumption
     DEF Init, InitialStatus, RegistryAtHome, AtHome, Stored, DockerAtHome, FilesAtHome,
         PinsAtHome, HistoryAtHome, JobAtHome, Keeping, Replacing, UpdatePoints
<1>2. /\ TypeOK /\ TypeOK' /\ OneJobAtATime /\ AllAchieved /\ SuccessIsComplete
      /\ RegistryAtHome(Home) /\ AtHome(Home) /\ Stored /\ [Next]_vars
      => AtHome(Home)' /\ Stored'
  BY StepAtHome, StepStored
<1>3. Stored => ImagesAtHand
  BY DEF Stored, ImagesAtHand, Keeping
<1> QED BY <1>1, <1>2, <1>3, TypeCorrect, JobsExcludeEachOther, AlwaysAchieved,
           SuccessAdoptsTheCandidate, PTL DEF Spec

(* With one service the cleanup removes nothing that is needed, whatever its
   repository publishes. *)
COROLLARY OneServiceKeepsItsImages ==
    ASSUME NEW only, Service = {only}
    PROVE  Spec => []ImagesAtHand
<1> DEFINE Home == [i \in Image |-> only]
<1>1. Home \in [Image -> Service]
  OBVIOUS
<1>2. TypeOK => RegistryAtHome(Home)
  BY DEF TypeOK, RegistryAtHome
<1> HIDE DEF Home
<1> QED BY <1>1, <1>2, TypeCorrect, NeededImagesStay, PTL

-----------------------------------------------------------------------------
(* An update touches the service it announces, and no other one *)

(* The status names the service of the update that runs. *)
ActiveIsServed == \A w \in Worker : pc[w] \in UpdatePoints => status.active = job[w].service

(* A step of a worker leaves the containers, their data and their volumes alone, but
   for those of the service of its update, and then it leaves the status alone. *)
Spares(s) == container'[s] = container[s] /\ data'[s] = data[s] /\ owner'[s] = owner[s]

TouchesItsOwn(w) ==
    \/ \A s \in Service : Spares(s)
    \/ /\ pc[w] \in UpdatePoints /\ status' = status
       /\ \A s \in Service \ {job[w].service} : Spares(s)

(* Compose recreates one container, and with it the data it opens. *)
LEMMA RecreateTouches ==
    ASSUME TypeOK, NEW w \in Worker, NEW success, NEW failure,
           pc[w] \in UpdatePoints, ComposeUp(w, success, failure)
    PROVE  TouchesItsOwn(w)
<1>1. \A s \in Service \ {job[w].service} : container'[s] = container[s] /\ data'[s] = data[s]
  BY DEF ComposeUp, Recreate, KeepContainers, TypeOK
<1> QED BY <1>1 DEF ComposeUp, TouchesItsOwn, Spares

(* The ownership is changed of one volume. *)
LEMMA ChownTouches ==
    ASSUME TypeOK, NEW w \in Worker, NEW image, NEW who, NEW success, NEW failure,
           pc[w] \in UpdatePoints, ChangeOwner(w, image, who, success, failure)
    PROVE  TouchesItsOwn(w)
<1>1. \A s \in Service \ {job[w].service} : owner'[s] = owner[s]
  BY DEF ChangeOwner, Chown, TypeOK
<1> QED BY <1>1 DEF ChangeOwner, TouchesItsOwn, Spares

(* Every step of a goroutine: only compose up, chown and the copy of the backup touch
   a container, its data or its volume. *)
LEMMA StepTouches ==
    ASSUME TypeOK, NEW w \in Worker, WorkerStep(w)
    PROVE  TouchesItsOwn(w)
<1>1. UNCHANGED <<container, data, owner>> => TouchesItsOwn(w)
  BY DEF TouchesItsOwn, Spares
<1>2. {"chown", "unchown", "up", "rbOwner", "rbUp", "rbCopy"} \subseteq UpdatePoints
  BY DEF UpdatePoints
<1>3. CASE CheckStep(w) \/ OutcomeStep(w)
  BY <1>1, <1>3
     DEF docker, CheckStep, CheckNext, CheckInspect, CheckPull, CheckResolve, FinishCheck,
         BecomeIdle, OutcomeStep, RecordNoChange, RecordSuccess, RecordRolledBack, RecordFailed,
         RecordHistory, Fail, CollectSuperseded, RemoveImage, SkipImage, CleanVolumes,
         AttachCleanup, ReportResult, FinishUpdate
<1>4. CASE PrepareStep(w)
  <2>1. CASE MigrateOwner(w) \/ UndoMigration(w)
    BY <1>2, <2>1, ChownTouches DEF MigrateOwner, UndoMigration
  <2>2. CASE ReplaceContainer(w)
    BY <1>2, <2>2, RecreateTouches DEF ReplaceContainer
  <2> QED BY <1>1, <1>4, <2>1, <2>2
          DEF docker, PrepareStep, Inspect, Backup, Pull, ResolveCandidate, InspectOwner,
              SelectTarget, SelectImage, VerifyCandidate, VerifyWithRetry
<1>5. CASE RollbackStep(w)
  <2>1. CASE RollbackOwner(w)
    BY <1>2, <2>1, ChownTouches DEF RollbackOwner
  <2>2. CASE RollbackContainer(w)
    BY <1>2, <2>2, RecreateTouches DEF RollbackContainer
  <2>3. CASE RollbackData(w)
    <3>1. \A s \in Service \ {job[w].service} : data'[s] = data[s]
      BY <2>3 DEF RollbackData, TypeOK
    <3> QED BY <1>2, <2>3, <3>1 DEF RollbackData, TouchesItsOwn, Spares
  <2> QED BY <1>1, <1>5, <2>1, <2>2, <2>3
          DEF docker, RollbackStep, BeginRollback, RollbackSelection, SelectImage,
              RollbackRestart, VerifyRollback, VerifyWithRetry
<1> QED BY <1>3, <1>4, <1>5 DEF WorkerStep

(* A step of an update stays with its service, and announces no other one. *)
StaysWithIt(w) ==
    pc'[w] \in UpdatePoints =>
        /\ pc[w] \in UpdatePoints /\ job'[w].service = job[w].service
        /\ status'.active \in {status.active, job[w].service}

(* A worker's step stays with the service of its job. *)
LEMMA StepStays ==
    ASSUME TypeOK, NEW w \in Worker, WorkerStep(w)
    PROVE  StaysWithIt(w)
<1>1. pc[w] \in UpdatePoints /\ job'[w].service = job[w].service
         /\ status'.active \in {status.active, job[w].service} => StaysWithIt(w)
  BY DEF StaysWithIt
<1>2. /\ \A s : SetProgress(s) => status'.active = s
      /\ \A outcome, next : RecordHistory(w, outcome, next) => status'.active = status.active
  BY DEF SetProgress, RecordHistory, TypeOK, Status
<1>3. /\ \A point : Goto(w, point) => pc'[w] = point
      /\ \A point : AfterFailure(w, point) => pc'[w] = point
  BY DEF Goto, AfterFailure, TypeOK
<1>4. CASE CheckStep(w)
  <2>1. pc'[w] \notin UpdatePoints
    BY <1>3, <1>4
       DEF CheckStep, CheckNext, CheckInspect, CheckPull, CheckResolve, FinishCheck, BecomeIdle,
           Unsuccessful, UpdatePoints
  <2> QED BY <2>1 DEF StaysWithIt
<1> DEFINE SameService == job'[w].service = job[w].service
<1>5. \A point : AfterFailure(w, point) => SameService
  BY FailureKeepsUpdate DEF SameUpdate
<1>6. CASE PrepareStep(w)
  <2>1. pc[w] \in UpdatePoints
    BY <1>6
       DEF PrepareStep, Inspect, Backup, Pull, ResolveCandidate, InspectOwner, MigrateOwner,
           UndoMigration, SelectTarget, ReplaceContainer, VerifyCandidate, UpdatePoints
  <2>2. SameService
    BY <1>5, <1>6
       DEF PrepareStep, Inspect, Backup, Pull, ResolveCandidate, InspectOwner, MigrateOwner,
           UndoMigration, ChangeOwner, SelectTarget, SelectImage, ReplaceContainer, ComposeUp,
           VerifyCandidate, VerifyWithRetry, Unsuccessful, TypeOK, Job
  <2>3. status'.active \in {status.active, job[w].service}
    BY <1>2, <1>6
       DEF PrepareStep, Inspect, Backup, Pull, ResolveCandidate, InspectOwner, MigrateOwner,
           UndoMigration, ChangeOwner, SelectTarget, SelectImage, ReplaceContainer, ComposeUp,
           VerifyCandidate, VerifyWithRetry
  <2> QED BY <1>1, <2>1, <2>2, <2>3
<1>7. CASE RollbackStep(w)
  <2>1. pc[w] \in UpdatePoints
    BY <1>7
       DEF RollbackStep, BeginRollback, RollbackOwner, RollbackSelection, RollbackContainer,
           RollbackData, RollbackRestart, VerifyRollback, UpdatePoints
  <2>2. SameService
    BY <1>5, <1>7
       DEF RollbackStep, BeginRollback, RollbackOwner, RollbackSelection, RollbackContainer,
           RollbackData, RollbackRestart, VerifyRollback, ChangeOwner, SelectImage, ComposeUp,
           VerifyWithRetry, Unsuccessful
  <2>3. status'.active \in {status.active, job[w].service}
    BY <1>2, <1>7
       DEF RollbackStep, BeginRollback, RollbackOwner, RollbackSelection, RollbackContainer,
           RollbackData, RollbackRestart, VerifyRollback, ChangeOwner, SelectImage, ComposeUp,
           VerifyWithRetry
  <2> QED BY <1>1, <2>1, <2>2, <2>3
<1>8. CASE OutcomeStep(w)
  <2>1. CASE Fail(w) \/ FinishUpdate(w)
    <3>1. pc'[w] = "none"
      BY <1>3, <2>1 DEF Fail, FinishUpdate, BecomeIdle
    <3> QED BY <3>1 DEF StaysWithIt, UpdatePoints
  <2>2. CASE RecordNoChange(w) \/ RecordSuccess(w) \/ RecordRolledBack(w) \/ RecordFailed(w)
    <3>1. pc[w] \in UpdatePoints /\ SameService
      BY <2>2 DEF RecordNoChange, RecordSuccess, RecordRolledBack, RecordFailed, RecordHistory,
                  UpdatePoints
    <3>2. status'.active = status.active
      BY <1>2, <2>2 DEF RecordNoChange, RecordSuccess, RecordRolledBack, RecordFailed
    <3> QED BY <1>1, <3>1, <3>2
  <2>3. CASE AttachCleanup(w) \/ ReportResult(w)
    <3>1. pc[w] \in UpdatePoints /\ SameService
      BY <2>3 DEF AttachCleanup, ReportResult, UpdatePoints
    <3>2. status'.active = status.active
      BY <2>3 DEF AttachCleanup, ReportResult, TypeOK, Status
    <3> QED BY <1>1, <3>1, <3>2
  <2>4. CASE CollectSuperseded(w) \/ RemoveImage(w) \/ SkipImage(w) \/ CleanVolumes(w)
    <3>1. pc[w] \in UpdatePoints /\ status' = status
      BY <2>4 DEF CollectSuperseded, RemoveImage, SkipImage, CleanVolumes, UpdatePoints
    <3>2. CASE RemoveImage(w) \/ SkipImage(w)
      BY <1>1, <3>1, <3>2, SweepKeepsUpdate DEF SameUpdate
    <3>3. CASE CollectSuperseded(w) \/ CleanVolumes(w)
      BY <1>1, <1>5, <3>1, <3>3 DEF CollectSuperseded, CleanVolumes, TypeOK, Job
    <3> QED BY <2>4, <3>2, <3>3
  <2> QED BY <1>8, <2>1, <2>2, <2>3, <2>4 DEF OutcomeStep
<1> QED BY <1>4, <1>6, <1>7, <1>8 DEF WorkerStep

(* The status names the service of the update that runs, whatever fails or ends. *)
LEMMA StepServes ==
    ASSUME TypeOK, TypeOK', OneJobAtATime, OneJobAtATime', ActiveIsServed, [Next]_vars
    PROVE  ActiveIsServed'
<1>1. ASSUME NEW w \in Worker, StartCheck(w) \/ \E s \in Service : StartUpdate(w, s)
      PROVE  ActiveIsServed'
  <2>1. \A v \in Worker : v # w => pc'[v] = "none"
    BY <1>1, StartPoints
  <2>2. CASE StartCheck(w)
    BY <2>1, <2>2, StartPoints DEF ActiveIsServed, UpdatePoints
  <2>3. ASSUME NEW s \in Service, StartUpdate(w, s) PROVE ActiveIsServed'
    <3>1. status'.active = s /\ job'[w].service = s
      BY <2>3 DEF StartUpdate, NoJob, TypeOK, Status
    <3> QED BY <2>1, <3>1 DEF ActiveIsServed, UpdatePoints
  <2> QED BY <1>1, <2>2, <2>3
<1>2. ASSUME NEW w \in Worker, WorkerStep(w) PROVE ActiveIsServed'
  <2>1. PICK point : KeepsOrEnds(w, point)
    BY <1>2, CheckStepKeeps, PrepareStepKeeps, RollbackStepKeeps, OutcomeStepKeeps DEF WorkerStep
  <2>2. \A v \in Worker : v # w => pc'[v] = "none"
    BY <2>1 DEF KeepsOrEnds, OneJobAtATime, TypeOK, CheckPoints, UpdatePoints
  <2>3. StaysWithIt(w)
    BY <1>2, StepStays
  <2> QED BY <2>2, <2>3 DEF StaysWithIt, ActiveIsServed, UpdatePoints
<1>3. CASE Restart
  BY <1>3 DEF Restart, ActiveIsServed, UpdatePoints
<1>4. CASE UNCHANGED vars \/ \E s \in Service, i \in Image : Publish(s, i)
  BY <1>4 DEF vars, Publish, memory, ActiveIsServed
<1> QED BY <1>1, <1>2, <1>3, <1>4 DEF Next

(* Whatever fails, overlaps or ends, only the service that the status announces as
   being updated has its container recreated, its data written or its volume's owner
   changed. *)
THEOREM OtherServicesAreSpared == Spec => OnlyTheActiveServiceChanges
<1>1. Init => ActiveIsServed
  BY DEF Init, ActiveIsServed, UpdatePoints
<1>2. TypeOK /\ TypeOK' /\ OneJobAtATime /\ OneJobAtATime' /\ ActiveIsServed /\ [Next]_vars
      => ActiveIsServed'
  BY StepServes
<1>3. TypeOK /\ OneJobAtATime /\ ActiveIsServed /\ [Next]_vars
      => [\A s \in Service :
             \/ container'[s] = container[s] /\ data'[s] = data[s] /\ owner'[s] = owner[s]
             \/ status.state = "updating" /\ status.active = s /\ status'.active = s]_vars
  <2> DEFINE Served(s) == status.state = "updating" /\ status.active = s /\ status'.active = s
  <2> SUFFICES ASSUME TypeOK, OneJobAtATime, ActiveIsServed, Next
               PROVE  \A s \in Service : Spares(s) \/ Served(s)
    BY DEF Spares
  <2>1. UNCHANGED docker => \A s \in Service : Spares(s)
    BY DEF docker, Spares
  <2>2. ASSUME NEW w \in Worker, WorkerStep(w) PROVE \A s \in Service : Spares(s) \/ Served(s)
    <3>1. CASE \A s \in Service : Spares(s)
      BY <3>1
    <3>2. CASE /\ pc[w] \in UpdatePoints /\ status' = status
               /\ \A s \in Service \ {job[w].service} : Spares(s)
      <4>1. status.active = job[w].service /\ status.state = "updating"
        BY <3>2 DEF ActiveIsServed, OneJobAtATime
      <4> QED BY <3>2, <4>1
    <3> QED BY <2>2, <3>1, <3>2, StepTouches DEF TouchesItsOwn
  <2>3. CASE \E w \in Worker : StartCheck(w) \/ \E s \in Service : StartUpdate(w, s)
    <3>1. ASSUME NEW w \in Worker, StartCheck(w) PROVE UNCHANGED docker
      BY <3>1 DEF StartCheck
    <3>2. ASSUME NEW w \in Worker, NEW s \in Service, StartUpdate(w, s) PROVE UNCHANGED docker
      BY <3>2 DEF StartUpdate
    <3> QED BY <2>1, <2>3, <3>1, <3>2
  <2>4. CASE Restart
    BY <2>1, <2>4 DEF Restart
  <2>5. CASE \E s \in Service, i \in Image : Publish(s, i)
    BY <2>1, <2>5 DEF Publish
  <2> QED BY <2>2, <2>3, <2>4, <2>5 DEF Next
<1> QED BY <1>1, <1>2, <1>3, TypeCorrect, JobsExcludeEachOther, PTL
        DEF Spec, OnlyTheActiveServiceChanges

-----------------------------------------------------------------------------
(* In the stack: the installer *)

(* What the deployment goroutine g has done at its point: compose.yaml and the
   containers are its own once it has written and applied them. *)
Goroutine == [config: Config, at: 1..5, point: {"begin", "work", "fail", "done", "finish"}]

Applied(g) ==
    /\ g.point = "finish" => g.at = 5
    /\ g.at > 1 \/ g.point \in {"done", "finish"} => compose = g.config
    /\ g.at > 3 \/ (g.at = 3 /\ g.point = "done") => stack = g.config

(* A status that says "installed" is about compose.yaml and the containers. *)
TellsTrue(s) == s.state = "installed" => s.config = stack /\ s.config = compose

(* The one deployment is announced, in memory and in the file, as long as it runs. *)
Announced(g) ==
    /\ deploy = <<g>> /\ Applied(g)
    /\ installation.state = "deploying" /\ installation.config = g.config
    /\ installation.steps \in [1..5 -> I!Marks]
    /\ installationFile.state = "deploying"

DeploymentKnown ==
    \/ deploy = <<>> /\ installation.state # "deploying"
    \/ \E g \in Goroutine : Announced(g)

InstallerKnown ==
    /\ compose \in Config
    /\ installation \in I!Status /\ installationFile \in I!Status
    /\ TellsTrue(installation) /\ TellsTrue(installationFile)
    /\ DeploymentKnown

(* There are five phases, by name and by number. *)
LEMMA PhaseRange ==
    /\ I!Phase = 1..5 /\ Len(I!Phases) = 5
    /\ "prepare" \in {I!Phases[n] : n \in I!Phase}
<1>1. I!Phase = 1..5 /\ Len(I!Phases) = 5 /\ I!Phases[1] = "prepare"
  BY DEF I!Phase, I!Phases
<1> QED BY <1>1

(* The statuses the installer sets keep their types and the configuration. *)
LEMMA DeployingFields ==
    ASSUME NEW c \in Config
    PROVE  /\ I!Deploying(c) \in I!Status /\ I!Deploying(c).state = "deploying"
           /\ I!Deploying(c).config = c /\ I!Deploying(c).steps \in [1..5 -> I!Marks]
  BY PhaseRange DEF I!Deploying, I!Status, I!States, I!Marks

LEMMA MarkedFields ==
    ASSUME NEW s \in I!Status, s.steps \in [1..5 -> I!Marks], NEW n \in 1..5, NEW mark \in I!Marks
    PROVE  /\ I!Marked(s, n, mark) \in I!Status
           /\ I!Marked(s, n, mark).state = s.state /\ I!Marked(s, n, mark).config = s.config
           /\ I!Marked(s, n, mark).steps \in [1..5 -> I!Marks]
  BY PhaseRange DEF I!Marked, I!Status

LEMMA FailedFields ==
    ASSUME NEW s \in I!Status, s.steps \in [1..5 -> I!Marks], NEW n \in 1..5
    PROVE  I!Failed(s, n) \in I!Status /\ I!Failed(s, n).state = "failed"
<1> DEFINE steps == [k \in 1..5 |-> IF s.steps[k] = "running" THEN "failed" ELSE s.steps[k]]
<1>1. steps \in [1..5 -> I!Marks]
  BY DEF I!Marks
<1>2. I!Failed(s, n) = [s EXCEPT !.state = "failed", !.diagnostic = I!Phases[n], !.steps = steps]
  BY PhaseRange DEF I!Failed
<1>3. I!Phases[n] \in {I!Phases[k] : k \in I!Phase}
  BY PhaseRange
<1> HIDE DEF steps
<1> QED BY <1>1, <1>2, <1>3, PhaseRange DEF I!Status, I!States

LEMMA InstalledFields ==
    ASSUME NEW s \in I!Status
    PROVE  /\ I!Installed(s) \in I!Status
           /\ I!Installed(s).state = "installed" /\ I!Installed(s).config = s.config
  BY DEF I!Installed, I!Status, I!States

(* The goroutine that deploys goes to another point, or ends, or is not there. *)
LEMMA GoroutineMoves ==
    ASSUME NEW g \in Goroutine, deploy = <<g>>, NEW n \in 1..5,
           NEW point \in {"begin", "work", "fail", "done", "finish"}, I!Advance(1, n, point)
    PROVE  \E h \in Goroutine : /\ deploy' = <<h>> /\ h.config = g.config
                                /\ h.at = n /\ h.point = point
<1> DEFINE h == [g EXCEPT !.at = n, !.point = point]
<1>1. h \in Goroutine /\ h.config = g.config /\ h.at = n /\ h.point = point
  BY DEF Goroutine
<1>2. deploy' = <<h>>
  BY DEF I!Advance
<1> QED BY <1>1, <1>2

LEMMA GoroutineEnds ==
    ASSUME NEW g, deploy = <<g>>, I!End(1)
    PROVE  deploy' = <<>>
  BY DEF I!End, I!SE!RemoveAt

LEMMA OneGoroutine ==
    ASSUME InstallerKnown, NEW i \in DOMAIN deploy
    PROVE  i = 1 /\ \E g \in Goroutine : Announced(g)
  BY DEF InstallerKnown, DeploymentKnown, Announced

(* Requests: the one that is accepted announces its deployment. *)
LEMMA RequestStep ==
    ASSUME InstallerKnown, NEW c \in Caller, I!Submit(c) \/ I!Refuse(c) \/ I!Begin(c)
    PROVE  InstallerKnown'
<1>1. CASE I!Submit(c) \/ I!Refuse(c)
  <2>1. UNCHANGED <<installation, installationFile, compose, stack, deploy>>
    BY <1>1 DEF I!Submit, I!Refuse
  <2> QED BY <2>1 DEF InstallerKnown, TellsTrue, DeploymentKnown, Announced, Applied
<1>2. CASE I!Begin(c)
  <2>1. PICK cfg \in Config : cfg = request[c]
    BY <1>2 DEF I!Begin
  <2>2. deploy = <<>> /\ UNCHANGED <<compose, stack>>
    BY <1>2 DEF I!Begin, InstallerKnown, DeploymentKnown, Announced
  <2>3. CASE /\ installation' = I!Deploying(cfg) /\ installationFile' = installation'
             /\ deploy' = Append(deploy, [config |-> cfg, at |-> 1, point |-> "begin"])
    <3>1. PICK g \in Goroutine : g.config = cfg /\ g.at = 1 /\ g.point = "begin" /\ deploy' = <<g>>
      <4>1. [config |-> cfg, at |-> 1, point |-> "begin"] \in Goroutine
        BY DEF Goroutine
      <4> QED BY <2>2, <2>3, <4>1
    <3>2. /\ installation' \in I!Status /\ installation'.state = "deploying"
          /\ installation'.config = cfg /\ installation'.steps \in [1..5 -> I!Marks]
      BY <2>3, DeployingFields
    <3>3. Announced(g)'
      <4>1. Applied(g)'
        BY <3>1 DEF Applied
      <4> QED BY <2>3, <3>1, <3>2, <4>1 DEF Announced
    <3> QED BY <2>2, <2>3, <3>2, <3>3 DEF InstallerKnown, TellsTrue, DeploymentKnown
  <2>4. CASE /\ UNCHANGED <<installationFile, deploy>>
             /\ installation' =
                    [I!Deploying(cfg) EXCEPT !.state = "failed", !.diagnostic = "prepare"]
    <3>1. installation' \in I!Status /\ installation'.state = "failed"
      <4>1. "prepare" \in {I!Phases[n] : n \in I!Phase}
        BY PhaseRange
      <4>2. I!Deploying(cfg) \in I!Status
        BY DeployingFields
      <4> QED BY <2>4, <4>1, <4>2 DEF I!Status, I!States
    <3> QED BY <2>2, <2>4, <3>1 DEF InstallerKnown, TellsTrue, DeploymentKnown
  <2> QED BY <1>2, <2>1, <2>3, <2>4 DEF I!Begin
<1> QED BY <1>1, <1>2

(* fail ends the deployment and what announced it in memory. *)
LEMMA FailStep ==
    ASSUME InstallerKnown, NEW g \in Goroutine, Announced(g),
           NEW s \in I!Status, s.steps \in [1..5 -> I!Marks], NEW n \in 1..5,
           I!Fail(1, s, n), UNCHANGED <<compose, stack>>
    PROVE  InstallerKnown'
<1>1. /\ installation' \in I!Status /\ installation'.state = "failed"
      /\ installationFile' \in {installation', installationFile} /\ deploy' = <<>>
  BY FailedFields, GoroutineEnds DEF I!Fail, I!PersistIgnoringErrors, Announced
<1> QED BY <1>1 DEF InstallerKnown, TellsTrue, DeploymentKnown

(* The steps of the deployment that only report. *)
LEMMA ReportStep ==
    ASSUME InstallerKnown, NEW i \in DOMAIN deploy,
           I!BeginPhase(i) \/ I!FailPhase(i) \/ I!FinishPhase(i) \/ I!FinishDeployment(i)
    PROVE  InstallerKnown'
<1>1. PICK g \in Goroutine : Announced(g)
  BY OneGoroutine
<1>2. i = 1 /\ deploy = <<g>> /\ deploy[i] = g /\ g.at \in 1..5 /\ g.config \in Config
  BY <1>1, OneGoroutine DEF Announced, Goroutine
<1>3. UNCHANGED <<compose, stack>>
  BY DEF I!BeginPhase, I!FailPhase, I!FinishPhase, I!FinishDeployment
<1>4. CASE I!BeginPhase(i)
  <2> DEFINE s == I!Marked(installation, g.at, "running")
  <2>1. /\ s \in I!Status /\ s.state = "deploying" /\ s.config = g.config
        /\ s.steps \in [1..5 -> I!Marks]
    <3>1. "running" \in I!Marks
      BY DEF I!Marks
    <3> QED BY <1>1, <1>2, <3>1, MarkedFields DEF InstallerKnown, Announced
  <2> HIDE DEF s
  <2>2. CASE /\ installation' = s /\ installationFile' \in {s, installationFile}
             /\ I!Advance(1, g.at, "work")
    <3>1. PICK h \in Goroutine : /\ deploy' = <<h>> /\ h.config = g.config
                                 /\ h.at = g.at /\ h.point = "work"
      BY <1>2, <2>2, GoroutineMoves
    <3>2. g.point = "begin"
      BY <1>2, <1>4 DEF I!BeginPhase
    <3>3. Announced(h)'
      BY <1>1, <1>3, <2>1, <2>2, <3>1, <3>2 DEF Announced, Applied
    <3> QED BY <1>3, <2>1, <2>2, <3>3 DEF InstallerKnown, TellsTrue, DeploymentKnown
  <2>3. CASE I!Fail(1, s, g.at)
    BY <1>1, <1>2, <1>3, <2>1, <2>3, FailStep
  <2> QED BY <1>2, <1>4, <2>2, <2>3 DEF I!BeginPhase, s
<1>5. CASE I!FailPhase(i)
  <2>1. I!Fail(1, installation, g.at)
    BY <1>2, <1>5 DEF I!FailPhase
  <2> QED BY <1>1, <1>2, <1>3, <2>1, FailStep DEF InstallerKnown, Announced
<1>6. CASE I!FinishPhase(i)
  <2> DEFINE s == I!Marked(installation, g.at, "done")
  <2>1. /\ s \in I!Status /\ s.state = "deploying" /\ s.config = g.config
        /\ s.steps \in [1..5 -> I!Marks]
    <3>1. "done" \in I!Marks
      BY DEF I!Marks
    <3> QED BY <1>1, <1>2, <3>1, MarkedFields DEF InstallerKnown, Announced
  <2>2. installation' = s /\ installationFile' \in {s, installationFile} /\ g.point = "done"
    BY <1>2, <1>6 DEF I!FinishPhase, I!PersistIgnoringErrors
  <2> HIDE DEF s
  <2>3. PICK h \in Goroutine :
            /\ deploy' = <<h>> /\ h.config = g.config
            /\ \/ g.at < 5 /\ h.at = g.at + 1 /\ h.point = "begin"
               \/ g.at = 5 /\ h.at = 5 /\ h.point = "finish"
    <3>1. CASE g.at < 5
      <4>1. I!Advance(1, g.at + 1, "begin") /\ g.at + 1 \in 1..5
        BY <1>2, <1>6, <3>1, PhaseRange DEF I!FinishPhase
      <4> QED BY <1>2, <3>1, <4>1, GoroutineMoves
    <3>2. CASE g.at = 5
      <4>1. I!Advance(1, 5, "finish")
        BY <1>2, <1>6, <3>2, PhaseRange DEF I!FinishPhase
      <4> QED BY <1>2, <3>2, <4>1, GoroutineMoves
    <3> QED BY <1>2, <3>1, <3>2
  <2>4. Announced(h)'
    BY <1>1, <1>2, <1>3, <2>1, <2>2, <2>3 DEF Announced, Applied
  <2> QED BY <1>3, <2>1, <2>2, <2>4 DEF InstallerKnown, TellsTrue, DeploymentKnown
<1>7. CASE I!FinishDeployment(i)
  <2> DEFINE s == I!Installed(installation)
  <2>1. s \in I!Status /\ s.state = "installed" /\ s.config = g.config
    BY <1>1, InstalledFields DEF InstallerKnown, Announced
  <2>2. /\ installation' = s /\ installationFile' \in {s, installationFile} /\ deploy' = <<>>
        /\ compose = g.config /\ stack = g.config
    <3>1. g.point = "finish" /\ I!End(1) /\ I!PersistIgnoringErrors(s)
      BY <1>2, <1>7 DEF I!FinishDeployment
    <3>2. compose = g.config /\ stack = g.config
      BY <1>1, <3>1 DEF Announced, Applied
    <3> QED BY <1>2, <3>1, <3>2, GoroutineEnds DEF I!PersistIgnoringErrors
  <2> HIDE DEF s
  <2> QED BY <1>3, <2>1, <2>2 DEF InstallerKnown, TellsTrue, DeploymentKnown
<1> QED BY <1>4, <1>5, <1>6, <1>7

(* A phase's work: compose.yaml is written, or compose run on it, or neither. *)
LEMMA PhaseStep ==
    ASSUME InstallerKnown, NEW i \in DOMAIN deploy, I!DoPhase(i)
    PROVE  InstallerKnown'
<1>1. PICK g \in Goroutine : Announced(g)
  BY OneGoroutine
<1>2. /\ i = 1 /\ deploy = <<g>> /\ deploy[i] = g /\ g.at \in 1..5 /\ g.config \in Config
      /\ g.point = "work" /\ UNCHANGED <<installation, installationFile>>
  BY <1>1, OneGoroutine DEF Announced, Goroutine, I!DoPhase
<1>3. PICK point \in {"done", "fail"} :
          /\ I!Advance(1, g.at, point)
          /\ point = "done" => I!WorkOf(1)
          /\ I!WorkOf(1) \/ UNCHANGED <<compose, stack>>
  BY <1>2 DEF I!DoPhase
<1>4. PICK h \in Goroutine : /\ deploy' = <<h>> /\ h.config = g.config
                             /\ h.at = g.at /\ h.point = point
  BY <1>2, <1>3, GoroutineMoves
<1>5. /\ compose' \in {compose, g.config} /\ (g.at > 1 => compose' = compose)
      /\ g.at # 3 => stack' = stack
      /\ point = "done" => /\ g.at = 1 => compose' = g.config
                           /\ g.at = 3 => stack' = compose
      /\ stack' \in {stack, compose}
  BY <1>2, <1>3 DEF I!WorkOf
<1>6. Announced(h)'
  <2>1. h.at > 1 \/ h.point \in {"done", "finish"} => compose' = h.config
    BY <1>1, <1>2, <1>3, <1>4, <1>5 DEF Announced, Applied
  <2>2. h.at > 3 \/ (h.at = 3 /\ h.point = "done") => stack' = h.config
    BY <1>1, <1>2, <1>3, <1>4, <1>5 DEF Announced, Applied
  <2> QED BY <1>1, <1>2, <1>3, <1>4, <2>1, <2>2 DEF Announced, Applied
<1>7. installation.state = "deploying" /\ installationFile.state = "deploying"
  BY <1>1 DEF Announced
<1> QED BY <1>2, <1>5, <1>6, <1>7 DEF InstallerKnown, TellsTrue, DeploymentKnown

(* A restart gives up the deployment it finds announced in the file. *)
LEMMA RestartStep ==
    ASSUME InstallerKnown, I!Restart
    PROVE  InstallerKnown'
<1>1. /\ I!Loaded \in I!Status /\ I!Loaded.state # "deploying" /\ TellsTrue(I!Loaded)
  <2>1. /\ I!NotInstalled \in I!Status /\ I!NotInstalled.state = "not_installed"
    BY DEF I!NotInstalled, I!Status, I!States
  <2> DEFINE s == [installationFile EXCEPT !.state = "failed", !.diagnostic = "recovery"]
  <2>2. s \in I!Status /\ s.state = "failed"
    BY DEF I!Status, I!States, InstallerKnown
  <2> QED BY <2>1, <2>2 DEF I!Loaded, InstallerKnown, TellsTrue
<1>2. /\ installation' = I!Loaded /\ installationFile' \in {installation', installationFile}
      /\ deploy' = <<>> /\ UNCHANGED <<compose, stack>>
  BY DEF I!Restart
<1> QED BY <1>1, <1>2 DEF InstallerKnown, TellsTrue, DeploymentKnown

(* An update runs compose on the compose.yaml in place. *)
LEMMA ComposeStep ==
    ASSUME InstallerKnown, stack' \in {stack, compose},
           UNCHANGED <<installation, installationFile, compose, deploy>>
    PROVE  InstallerKnown'
<1>1. TellsTrue(installation)' /\ TellsTrue(installationFile)'
  BY DEF InstallerKnown, TellsTrue
<1>2. DeploymentKnown'
  BY DEF InstallerKnown, DeploymentKnown, Announced, Applied, Goroutine
<1> QED BY <1>1, <1>2 DEF InstallerKnown

-----------------------------------------------------------------------------
(* In the stack: both parts *)

(* What a deployment makes of images and containers has the right types. *)
LEMMA DeployTyped ==
    ASSUME TypeOK, compose \in Config, NEW i, DeployCommand(i)
    PROVE  TypeOK'
<1>1. \A s \in Service : Deployed(s) \in Image /\ Pulled(s) \in Image
  BY ReferenceAssumption DEF Deployed, Pulled, TypeOK
<1>2. /\ container' \in [Service -> Image] /\ data' \in [Service -> Image]
      /\ tag' \in [Service -> Image] /\ present' \in SUBSET Image
  <2>1. PICK reached \in SUBSET Service :
            PullImages(reached) \/ Up(reached) \/ KeepDocker
    BY DEF DeployCommand
  <2>2. CASE PullImages(reached)
    <3>1. tag' \in [Service -> Image]
      BY <2>2 DEF PullImages, TypeOK
    <3>2. present' \in SUBSET Image
      BY <1>1, <2>2 DEF PullImages, TypeOK
    <3> QED BY <2>2, <3>1, <3>2 DEF PullImages, TypeOK
  <2>3. CASE Up(reached)
    <3>1. container' \in [Service -> Image]
      BY <1>1, <2>3 DEF Up, TypeOK
    <3>2. data' \in [Service -> Image]
      BY <1>1, <2>3 DEF Up, TypeOK
    <3>3. present' \in SUBSET Image
      BY <1>1, <2>3 DEF Up, TypeOK
    <3> QED BY <2>3, <3>1, <3>2, <3>3 DEF Up, TypeOK
  <2>4. CASE KeepDocker
    BY <2>4 DEF KeepDocker, TypeOK
  <2> QED BY <2>1, <2>2, <2>3, <2>4
<1>3. UNCHANGED <<status, selected, pc, job, statusFile, imagesFile, overrideFile,
                  owner, registry, volumes>>
  BY DEF DeployCommand, updaterManager
<1> QED BY <1>2, <1>3 DEF TypeOK, LocalsAreSet

(* While nothing has disturbed the job that runs, it has put back and achieved
   what it should have at its point. *)
Undisturbed == ~disturbed => AllPutBack /\ AllAchieved

StackKnown == TypeOK /\ OneJobAtATime /\ InstallerKnown /\ Undisturbed

(* The first successful deployment leaves the stack in such a state. *)
LEMMA StackInitKnown == StackInit => StackKnown
<1> SUFFICES ASSUME StackInit PROVE StackKnown
  OBVIOUS
<1>1. Init /\ TypeOK /\ OneJobAtATime
  BY InitType, InitExcludes DEF StackInit
<1>2. AllPutBack /\ AllAchieved
  <2>1. \A w \in Worker : pc[w] = "none"
    BY <1>1 DEF Init
  <2> QED BY <2>1
          DEF AllPutBack, PutBack, BeforeRollback, OwnerBack, PinBack, ContainerBack, DataBack,
              AllAchieved, Achieved, Untouched, Upgrading, Owned, Selected, Adopting, Deciding,
              Finishing
<1>3. InstallerKnown
  <2>1. FirstConfig \in Config
    BY ReferenceAssumption
  <2> DEFINE s == I!Installed(I!Deploying(FirstConfig))
  <2>2. s \in I!Status /\ s.state = "installed" /\ s.config = FirstConfig
    BY <2>1, DeployingFields, InstalledFields
  <2>3. [n \in I!Phase |-> "done"] \in [I!Phase -> I!Marks]
    BY DEF I!Marks
  <2>4. /\ installation = [s EXCEPT !.steps = [n \in I!Phase |-> "done"]]
        /\ installationFile = installation /\ deploy = <<>>
        /\ compose = FirstConfig /\ stack = FirstConfig
    BY DEF StackInit
  <2> HIDE DEF s
  <2>5. /\ installation \in I!Status /\ installation.state = "installed"
        /\ installation.config = FirstConfig
    BY <2>2, <2>3, <2>4 DEF I!Status
  <2> QED BY <2>1, <2>4, <2>5 DEF InstallerKnown, TellsTrue, DeploymentKnown
<1> QED BY <1>1, <1>2, <1>3 DEF StackKnown, Undisturbed

(* A step of the installer: only its pull and its up touch the containers. *)
LEMMA InstallerStepKnown ==
    ASSUME StackKnown, InstallerStep
    PROVE  StackKnown'
<1>1. CASE \E i \in DOMAIN deploy : I!DoPhase(i) /\ DeployCommand(i)
  <2>1. PICK i \in DOMAIN deploy : I!DoPhase(i) /\ DeployCommand(i)
    BY <1>1
  <2>2. InstallerKnown' /\ TypeOK'
    BY <2>1, PhaseStep, DeployTyped DEF StackKnown, InstallerKnown
  <2>3. OneJobAtATime'
    BY <2>1 DEF DeployCommand, updaterManager, StackKnown, OneJobAtATime
  <2>4. Undisturbed'
    <3>1. CASE ~disturbed'
      <4>1. UNCHANGED vars /\ ~disturbed
        BY <2>1, <3>1 DEF DeployCommand, KeepDocker, updaterManager, vars
      <4> QED BY <4>1
              DEF StackKnown, Undisturbed, vars, AllPutBack, PutBack, AllAchieved, Achieved, EntryOf
    <3> QED BY <3>1 DEF Undisturbed
  <2> QED BY <2>2, <2>3, <2>4 DEF StackKnown
<1>2. CASE /\ \/ \E c \in Caller : I!Submit(c) \/ I!Refuse(c) \/ I!Begin(c)
              \/ \E i \in DOMAIN deploy :
                     I!BeginPhase(i) \/ I!FailPhase(i) \/ I!FinishPhase(i) \/ I!FinishDeployment(i)
           /\ UNCHANGED <<vars, disturbed>>
  <2>1. InstallerKnown'
    BY <1>2, RequestStep, ReportStep DEF StackKnown
  <2>2. UNCHANGED vars
    BY <1>2
  <2>3. TypeOK' /\ OneJobAtATime'
    BY <2>2, StepTyped, StepExcludes DEF StackKnown
  <2>4. Undisturbed'
    BY <1>2 DEF StackKnown, Undisturbed, vars, AllPutBack, PutBack, AllAchieved, Achieved, EntryOf
  <2> QED BY <2>1, <2>3, <2>4 DEF StackKnown
<1> QED BY <1>1, <1>2 DEF InstallerStep

(* A step of the updater: a job that begins starts anew whatever happened before. *)
LEMMA UpdaterStepKnown ==
    ASSUME StackKnown, UpdaterStep
    PROVE  StackKnown'
<1>1. PICK w \in Worker :
          /\ StartCheck(w) \/ (\E s \in Service : StartUpdate(w, s)) \/ WorkerStep(w)
          /\ disturbed' = IF pc[w] = "none" THEN FALSE ELSE disturbed
          /\ Composes(w) \/ ComposesNothing(w)
  BY DEF UpdaterStep
<1>2. [Next]_vars
  BY <1>1 DEF Next
<1>3. TypeOK' /\ OneJobAtATime'
  BY <1>2, StepTyped, StepExcludes DEF StackKnown
<1>4. InstallerKnown'
  <2>1. stack' \in {stack, compose}
    BY <1>1 DEF Composes, ComposesNothing, BaseDefinition
  <2> QED BY <2>1, ComposeStep DEF UpdaterStep, StackKnown
<1>5. Undisturbed'
  <2>1. CASE StartCheck(w) \/ \E s \in Service : StartUpdate(w, s)
    BY <2>1, StartAlone, NoneToPutBack, NothingToAchieve DEF StackKnown, Undisturbed
  <2>2. CASE WorkerStep(w)
    <3>1. PICK point : KeepsOrEnds(w, point)
      BY <2>2, CheckStepKeeps, PrepareStepKeeps, RollbackStepKeeps, OutcomeStepKeeps
         DEF WorkerStep, StackKnown
    <3>2. disturbed' = disturbed
      BY <1>1, <3>1 DEF KeepsOrEnds, CheckPoints, UpdatePoints
    <3>3. AllPutBack /\ AllAchieved => AllPutBack' /\ AllAchieved'
      BY <1>2, <1>3, StepPutsBack, StepAchieves DEF StackKnown
    <3> QED BY <3>2, <3>3 DEF StackKnown, Undisturbed
  <2> QED BY <1>1, <2>1, <2>2
<1> QED BY <1>3, <1>4, <1>5 DEF StackKnown

(* Every step of either part, and a restart of both, keeps it so. *)
LEMMA StackStepKnown ==
    ASSUME StackKnown, [StackNext \/ CoreRestart]_stackVars
    PROVE  StackKnown'
<1>1. CASE InstallerStep
  BY <1>1, InstallerStepKnown
<1>2. CASE UpdaterStep
  BY <1>2, UpdaterStepKnown
<1>3. CASE CoreRestart
  <2>1. [Next]_vars
    BY <1>3 DEF CoreRestart, Next
  <2>2. TypeOK' /\ OneJobAtATime'
    BY <2>1, StepTyped, StepExcludes DEF StackKnown
  <2>3. InstallerKnown'
    BY <1>3, RestartStep DEF CoreRestart, StackKnown
  <2>4. AllPutBack' /\ AllAchieved'
    BY <1>3, NoneToPutBack, NothingToAchieve DEF CoreRestart, Restart
  <2> QED BY <2>2, <2>3, <2>4 DEF StackKnown, Undisturbed
<1>4. CASE PublishTarget
  <2>1. PICK s \in Service, i \in Image : Publish(s, i)
    BY <1>4, ReferenceAssumption DEF PublishTarget
  <2>2. [Next]_vars
    BY <2>1 DEF Next
  <2>3. TypeOK' /\ OneJobAtATime'
    BY <2>2, StepTyped, StepExcludes DEF StackKnown
  <2>4. Undisturbed'
    BY <1>4, <2>2, <2>3, StepPutsBack, StepAchieves DEF StackKnown, Undisturbed, PublishTarget
  <2>5. InstallerKnown'
    BY <1>4, ComposeStep DEF PublishTarget, installerVars, StackKnown
  <2> QED BY <2>3, <2>4, <2>5 DEF StackKnown
<1>5. CASE UNCHANGED stackVars
  <2>1. UNCHANGED vars /\ UNCHANGED disturbed /\ UNCHANGED installerVars
    BY <1>5 DEF stackVars
  <2>2. TypeOK' /\ OneJobAtATime'
    BY <2>1, StepTyped, StepExcludes DEF StackKnown
  <2>3. Undisturbed'
    BY <2>1, <2>2, StepPutsBack, StepAchieves DEF StackKnown, Undisturbed
  <2>4. InstallerKnown'
    BY <2>1, ComposeStep DEF installerVars, StackKnown
  <2> QED BY <2>2, <2>3, <2>4 DEF StackKnown
<1> QED BY <1>1, <1>2, <1>3, <1>4, <1>5 DEF StackNext

(* With restarts or without. *)
LEMMA AlwaysStackKnown == RestartingSpec \/ StackSpec => []StackKnown
<1>1. StackKnown /\ [StackNext \/ CoreRestart]_stackVars => StackKnown'
  BY StackStepKnown
<1>2. StackKnown /\ [StackNext]_stackVars => StackKnown'
  BY StackStepKnown
<1> QED BY <1>1, <1>2, StackInitKnown, PTL DEF RestartingSpec, StackSpec

(* Whatever configurations are deployed, by whomever, and however often updates
   recreate containers meanwhile or fail to, with any faults of both parts and
   restarts of the Core: an "installed" that is shown, or that the next start
   reads, names the configuration in force. *)
THEOREM InstalledStaysTrue == RestartingSpec \/ StackSpec => []InstalledIsTrue
<1>1. StackKnown => InstalledIsTrue
  BY DEF StackKnown, InstallerKnown, TellsTrue, InstalledIsTrue, I!InstalledIsTrue
<1> QED BY <1>1, AlwaysStackKnown, PTL

(* What an update records is true unless a deployment touched docker since its job
   began: a deployment before it, a request, a restart or a failure of either part
   makes no difference. *)
THEOREM UndisturbedUpdatesStayTrue == RestartingSpec \/ StackSpec => []UndisturbedUpdatesAreTrue
<1>1. StackKnown => UndisturbedUpdatesAreTrue
  BY PutBackIsComplete, AchievedIsComplete
     DEF StackKnown, Undisturbed, UndisturbedUpdatesAreTrue
<1> QED BY <1>1, AlwaysStackKnown, PTL

=============================================================================
