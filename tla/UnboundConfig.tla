--------------------------- MODULE UnboundConfig ---------------------------
(***************************************************************************)
(* Activation of the resolver's configuration: Apply, ApplyCustom, Restore *)
(* and PreviewCustom of internal/unbound (settings.go, custom.go,          *)
(* lifecycle.go).                                                          *)
(*                                                                         *)
(* Three files on a volume shared with the container hold the rendered     *)
(* configuration, the guided settings it came from and the expert text.    *)
(* The container reads them only when it starts.  Every request takes      *)
(* applyMu, validates a candidate, records the version in force, writes    *)
(* the files, validates them in place, restarts the container, and on the  *)
(* way back restores the files.  A step is one docker command or one file  *)
(* operation; requests, restarts of the container by the service control   *)
(* or the updater (which do not take applyMu), cancellations of the HTTP   *)
(* request and restarts of the Core interleave with them.                  *)
(*                                                                         *)
(* Data: settings and expert texts are model values, a rendered            *)
(* configuration is the settings it was rendered from, what unbound-       *)
(* checkconf makes of a pair is a constant.  The candidate file exists     *)
(* only inside the step that checks it and no resolver reads it.           *)
(***************************************************************************)
EXTENDS Naturals, Sequences, FiniteSets
LOCAL INSTANCE SequencesExt

CONSTANTS
    Settings,       \* guided settings
    Default,        \* DefaultSettings, in force while settings.json is missing
    Custom,         \* normalised expert texts
    NoText,         \* the empty one, for which there is no file
    Absent,         \* a missing file
    Invalid,        \* the settings that Validate rejects
    NeedsIPv6,      \* those in a network mode that needs IPv6
    CandidateBad,   \* pairs refused alone: conflicts, or checkconf of the candidate
    EffectiveBad,   \* pairs that checkconf refuses only together with the base file
    Unhealthy,      \* pairs with which the restarted resolver does not answer
    Caller,         \* concurrent requests
    HistoryLimit,   \* versions kept: 20 in the code
    MaxHistory,     \* bound: failing prunings leave no more versions than this
    Faults          \* what may go wrong: see FaultKinds

FaultKinds == {"command", "cancel", "write", "restore", "snapshot", "crash", "control", "clock"}

ASSUME ValuesAssumption ==
    /\ Default \in Settings \ Invalid
    /\ NoText \in Custom
    /\ Absent \notin Settings \cup Custom \cup Caller
    /\ Invalid \subseteq Settings /\ NeedsIPv6 \subseteq Settings
    /\ Faults \subseteq FaultKinds
ASSUME PairsAssumption ==
    /\ CandidateBad \cup EffectiveBad \cup Unhealthy \subseteq Settings \X Custom
    /\ <<Default, NoText>> \notin CandidateBad \cup EffectiveBad \cup Unhealthy
ASSUME LimitAssumption == HistoryLimit \in Nat /\ HistoryLimit >= 2
ASSUME BoundAssumption == MaxHistory \in Nat

VARIABLES
    files,    \* 50-rootguard.conf, settings.json, 90-rootguard-custom.conf
    running,  \* the pair the container read when it last started
    history,  \* the recorded versions by creation time, newest first
    lock,     \* applyMu: its holder, or Absent
    pc,       \* where each request is
    req       \* the local variables of each request

vars == <<files, running, history, lock, pc, req>>

Files   == [config: Settings \cup {Absent}, settings: Settings \cup {Absent}, custom: Custom]
Version == [settings: Settings, config: Settings, custom: Custom]
Loaded  == Settings \X Custom

AllFiles == <<"config", "settings", "custom">>

(* What is still to be put back; the writes stop after a file that fails. *)
Undone == {<<>>, <<"config">>, <<"config", "settings">>, AllFiles,
           <<"settings", "custom">>, <<"settings">>, <<"custom">>}

Operations == {"apply", "custom", "restore", "preview"}
Results    == {"none", "ok", "rejected", "restored", "rollbackFailed", "unrecorded"}
Points     == {"idle", "waiting", "validate", "record", "writeConfig", "writeSettings",
               "writeCustom", "effective", "restart", "undo", "restartOld", "recordNew", "return"}

Request == [op: Operations, settings: Settings, custom: Custom, old: Files, was: Loaded,
            undo: Undone,
            cancelled: BOOLEAN, restarted: BOOLEAN, result: Results]

-----------------------------------------------------------------------------
(* Reading the files *)

(* Load; a missing settings.json stands for the defaults. *)
LoadSettings(f) == IF f.settings = Absent THEN Default ELSE f.settings

(* activeConfig: the file, or what the settings render to. *)
ActiveConfig(f) == IF f.config = Absent THEN LoadSettings(f) ELSE f.config

(* What a container that starts now reads; it has its own defaults. *)
OnDisk(f) == <<IF f.config = Absent THEN Default ELSE f.config, f.custom>>

Current(f) == [settings |-> LoadSettings(f), config |-> ActiveConfig(f), custom |-> f.custom]

Wanted(r) == <<r.settings, r.custom>>

VersionOf(r) == [settings |-> r.settings, config |-> r.settings, custom |-> r.custom]

-----------------------------------------------------------------------------
(* recordSnapshot and pruneHistory *)

(* Mutant: pruning makes room for one version too many. *)
PrunedTooFar(h) == IF Len(h) >= HistoryLimit THEN SubSeq(h, 1, HistoryLimit - 1) ELSE h

Pruned(h) == IF Len(h) > HistoryLimit THEN SubSeq(h, 1, HistoryLimit) ELSE h

(* The versions are sorted by time of creation: a new one is the first, unless
   the wall clock was set back. *)
Slots == IF "clock" \in Faults THEN 1..(Len(history) + 1) ELSE {1}

IsNewest(v) == history # <<>> /\ Head(history) = v

RecordSnapshot(v) ==
    IF IsNewest(v)
    THEN UNCHANGED history
    ELSE \E n \in Slots : history' = Pruned(InsertAt(history, n, v))

(* Pruning removes the newest of the versions above the limit first and ends with
   the first one that cannot be removed: k of them are gone. *)
PartlyPruned(h, k) == SubSeq(h, 1, HistoryLimit) \o SubSeq(h, HistoryLimit + k + 1, Len(h))

(* The version was not written, or written and the pruning failed, before it removed
   anything or on the way: the next pruning finds one version more. *)
RecordFails(v) ==
    /\ "snapshot" \in Faults
    /\ \/ UNCHANGED history
       \/ /\ ~IsNewest(v)
          /\ \E n \in Slots : LET h == InsertAt(history, n, v) IN
                 \/ history' = h
                 \/ \E k \in 1..(Len(h) - HistoryLimit - 1) : history' = PartlyPruned(h, k)
          /\ Len(history') <= MaxHistory

-----------------------------------------------------------------------------
(* Requests *)

Goto(c, point) == pc' = [pc EXCEPT ![c] = point]

Finish(c, result) ==
    /\ Goto(c, "return")
    /\ req' = [req EXCEPT ![c].result = result]

NoRequest == [op |-> "preview", settings |-> Default, custom |-> NoText,
              old |-> [config |-> Absent, settings |-> Absent, custom |-> NoText],
              was |-> <<Default, NoText>>, undo |-> <<>>, cancelled |-> FALSE,
              restarted |-> FALSE, result |-> "none"]

Submit(c, op, s, t) ==
    /\ pc[c] = "idle"
    /\ Goto(c, "waiting")
    /\ req' = [req EXCEPT ![c] = [NoRequest EXCEPT !.op = op, !.settings = s, !.custom = t]]
    /\ UNCHANGED <<files, running, history, lock>>

(* Apply, ApplyCustom and PreviewCustom read the other half of the pair under the lock. *)
SubmitApply(c)   == \E s \in Settings : Submit(c, "apply", s, NoText)
SubmitCustom(c)  == \E t \in Custom : Submit(c, "custom", Default, t)
SubmitPreview(c) == \E t \in Custom : Submit(c, "preview", Default, t)

(* Restore reads the version's file before it takes the lock. *)
SubmitRestore(c) ==
    \E n \in DOMAIN history : Submit(c, "restore", history[n].settings, history[n].custom)

(* Mutant: a request is served although another one holds the lock. *)
AcquireAnyway(c) ==
    /\ pc[c] = "waiting"
    /\ lock' = c
    /\ Goto(c, "validate")
    /\ req' = [req EXCEPT ![c] = [@ EXCEPT
           !.settings = IF req[c].op \in {"custom", "preview"} THEN LoadSettings(files)
                                                                ELSE req[c].settings,
           !.custom = IF req[c].op = "apply" THEN files.custom ELSE req[c].custom,
           !.old = files, !.was = running]]
    /\ UNCHANGED <<files, running, history>>

(* Mutant: the other half of the pair is left as the request came. *)
AcquireAsSubmitted(c) ==
    /\ pc[c] = "waiting" /\ lock = Absent
    /\ lock' = c
    /\ Goto(c, "validate")
    /\ req' = [req EXCEPT ![c] = [@ EXCEPT !.old = files, !.was = running]]
    /\ UNCHANGED <<files, running, history>>

Acquire(c) ==
    /\ pc[c] = "waiting" /\ lock = Absent
    /\ lock' = c
    /\ Goto(c, "validate")
    /\ req' = [req EXCEPT ![c] = [@ EXCEPT
           !.settings = IF req[c].op \in {"custom", "preview"} THEN LoadSettings(files)
                                                                ELSE req[c].settings,
           !.custom = IF req[c].op = "apply" THEN files.custom ELSE req[c].custom,
           !.old = files, !.was = running]]
    /\ UNCHANGED <<files, running, history>>

(* The context of the HTTP request ends: no further command is started. *)
Cancel(c) ==
    /\ "cancel" \in Faults
    /\ pc[c] \notin {"idle", "return"} /\ ~req[c].cancelled
    /\ req' = [req EXCEPT ![c].cancelled = TRUE]
    /\ UNCHANGED <<files, running, history, lock, pc>>

Refused(c) == req[c].cancelled \/ "command" \in Faults

(* NetworkCapabilities, Render, validateGuidedConflicts and the check of the candidate. *)
Acceptable(r) == r.settings \notin Invalid /\ Wanted(r) \notin CandidateBad

Validate(c) ==
    /\ pc[c] = "validate"
    /\ \/ /\ Acceptable(req[c]) /\ ~req[c].cancelled
          /\ IF req[c].op = "preview" THEN Finish(c, "ok") ELSE Goto(c, "record") /\ UNCHANGED req
       \/ /\ \/ ~Acceptable(req[c]) \/ Refused(c) \/ "write" \in Faults
             \/ req[c].op # "preview" /\ req[c].settings \in NeedsIPv6
          /\ Finish(c, "rejected")
    /\ UNCHANGED <<files, running, history, lock>>

RecordCurrent(c) ==
    /\ pc[c] = "record"
    /\ \/ RecordSnapshot(Current(files)) /\ Goto(c, "writeConfig") /\ UNCHANGED req
       \/ RecordFails(Current(files)) /\ Finish(c, "rejected")
    /\ UNCHANGED <<files, running, lock>>

WriteConfig(c) ==
    /\ pc[c] = "writeConfig"
    /\ \/ files' = [files EXCEPT !.config = req[c].settings]
            /\ Goto(c, "writeSettings") /\ UNCHANGED req
       \/ "write" \in Faults /\ UNCHANGED files /\ Finish(c, "rejected")
    /\ UNCHANGED <<running, history, lock>>

(* The files named are put back one by one, then the request returns, after a
   restart of the container if it was restarted before. *)
Undo(c, names, restarted, cancelled, result) ==
    /\ Goto(c, "undo")
    /\ req' = [req EXCEPT ![c] = [@ EXCEPT !.undo = names, !.restarted = restarted,
                                           !.cancelled = cancelled, !.result = result]]

WriteSettings(c) ==
    /\ pc[c] = "writeSettings"
    /\ \/ files' = [files EXCEPT !.settings = req[c].settings]
            /\ Goto(c, "writeCustom") /\ UNCHANGED req
       \/ /\ "write" \in Faults /\ UNCHANGED files
          /\ Undo(c, <<"config">>, FALSE, req[c].cancelled, "rejected")
    /\ UNCHANGED <<running, history, lock>>

(* Mutant: the settings are not put back. *)
WriteCustomKeepingSettings(c) ==
    /\ pc[c] = "writeCustom"
    /\ \/ files' = [files EXCEPT !.custom = req[c].custom]
            /\ Goto(c, "effective") /\ UNCHANGED req
       \/ /\ "write" \in Faults /\ UNCHANGED files
          /\ Undo(c, <<"config">>, FALSE, req[c].cancelled, "rejected")
    /\ UNCHANGED <<running, history, lock>>

WriteCustom(c) ==
    /\ pc[c] = "writeCustom"
    /\ \/ files' = [files EXCEPT !.custom = req[c].custom]
            /\ Goto(c, "effective") /\ UNCHANGED req
       \/ /\ "write" \in Faults /\ UNCHANGED files
          /\ Undo(c, <<"config", "settings">>, FALSE, req[c].cancelled, "rejected")
    /\ UNCHANGED <<running, history, lock>>

CheckEffective(c) ==
    /\ pc[c] = "effective"
    /\ \/ /\ OnDisk(files) \notin EffectiveBad /\ ~req[c].cancelled
          /\ Goto(c, "restart") /\ UNCHANGED req
       \/ /\ OnDisk(files) \in EffectiveBad \/ Refused(c)
          /\ Undo(c, AllFiles, FALSE, req[c].cancelled, "restored")
    /\ UNCHANGED <<files, running, history, lock>>

(* docker restart: a command that fails, or whose caller goes away while it
   runs, may or may not have restarted the container. *)
RestartContainer(c, success, failure) ==
    \/ ~req[c].cancelled /\ running' = OnDisk(files) /\ success
    \/ ~req[c].cancelled /\ "command" \in Faults /\ running' \in {running, OnDisk(files)} /\ failure
    \/ req[c].cancelled /\ UNCHANGED running /\ failure

(* Mutant: success is reported without a restart. *)
RestartNewNever(c) ==
    /\ pc[c] = "restart"
    /\ Goto(c, "recordNew")
    /\ UNCHANGED <<files, running, history, lock, req>>

RestartNew(c) ==
    /\ pc[c] = "restart"
    /\ \/ RestartContainer(c, Goto(c, "recordNew") /\ UNCHANGED req,
                              Undo(c, AllFiles, TRUE, req[c].cancelled, "restored"))
       \/ /\ "cancel" \in Faults /\ ~req[c].cancelled
          /\ running' \in {running, OnDisk(files)}
          /\ Undo(c, AllFiles, TRUE, TRUE, "restored")
    /\ UNCHANGED <<files, history, lock>>

AfterUndo(r) ==
    IF Len(r.undo) > 1 THEN "undo" ELSE IF r.restarted THEN "restartOld" ELSE "return"

(* A file that cannot be put back makes a rollback a failed one. *)
AfterFailedRestore(result) == IF result = "restored" THEN "rollbackFailed" ELSE result

(* Mutant: a file that is new stays. *)
RestoreFileIfExisted(c) ==
    /\ pc[c] = "undo"
    /\ Goto(c, AfterUndo(req[c]))
    /\ LET name == Head(req[c].undo) IN
       \/ /\ files' = IF req[c].old[name] \in {Absent, NoText} THEN files
                        ELSE [files EXCEPT ![name] = req[c].old[name]]
          /\ req' = [req EXCEPT ![c].undo = Tail(@)]
       \/ /\ "restore" \in Faults /\ UNCHANGED files
          /\ req' = [req EXCEPT ![c] = [@ EXCEPT !.undo = Tail(req[c].undo),
                 !.result = AfterFailedRestore(req[c].result)]]
    /\ UNCHANGED <<running, history, lock>>

(* restoreFile, and the errors restoreState joins; WriteSettings and WriteCustom
   drop them. *)
RestoreFile(c) ==
    /\ pc[c] = "undo"
    /\ Goto(c, AfterUndo(req[c]))
    /\ LET name == Head(req[c].undo) IN
       \/ /\ files' = [files EXCEPT ![name] = req[c].old[name]]
          /\ req' = [req EXCEPT ![c].undo = Tail(@)]
       \/ /\ "restore" \in Faults /\ UNCHANGED files
          /\ req' = [req EXCEPT ![c] = [@ EXCEPT !.undo = Tail(req[c].undo),
                 !.result = AfterFailedRestore(req[c].result)]]
    /\ UNCHANGED <<running, history, lock>>

RestartOld(c) ==
    /\ pc[c] = "restartOld"
    /\ RestartContainer(c, Finish(c, req[c].result), Finish(c, "rollbackFailed"))
    /\ UNCHANGED <<files, history, lock>>

RecordNew(c) ==
    /\ pc[c] = "recordNew"
    /\ \/ RecordSnapshot(VersionOf(req[c])) /\ Finish(c, "ok")
       \/ RecordFails(VersionOf(req[c])) /\ Finish(c, "unrecorded")
    /\ UNCHANGED <<files, running, lock>>

(* Mutant: a refused request returns without unlocking. *)
ReturnLocked(c) ==
    /\ pc[c] = "return"
    /\ lock' = IF req[c].result = "rejected" THEN lock ELSE Absent
    /\ Goto(c, "idle")
    /\ req' = [req EXCEPT ![c] = NoRequest]
    /\ UNCHANGED <<files, running, history>>

Return(c) ==
    /\ pc[c] = "return"
    /\ lock' = Absent
    /\ Goto(c, "idle")
    /\ req' = [req EXCEPT ![c] = NoRequest]
    /\ UNCHANGED <<files, running, history>>

-----------------------------------------------------------------------------
(* Others *)

(* ControlService, or an update of the resolver, starts the container anew. *)
ControlRestart ==
    /\ "control" \in Faults
    /\ running' = OnDisk(files)
    /\ UNCHANGED <<files, history, lock, pc, req>>

(* The Core's process ends and starts again; nothing looks at the files. *)
Crash ==
    /\ "crash" \in Faults
    /\ lock' = Absent
    /\ pc' = [c \in Caller |-> "idle"]
    /\ req' = [c \in Caller |-> NoRequest]
    /\ UNCHANGED <<files, running, history>>

-----------------------------------------------------------------------------

Init ==
    /\ files = [config |-> Absent, settings |-> Absent, custom |-> NoText]
    /\ running = <<Default, NoText>>
    /\ history = <<>>
    /\ lock = Absent
    /\ pc = [c \in Caller |-> "idle"]
    /\ req = [c \in Caller |-> NoRequest]

Step(c) ==
    \/ Acquire(c) \/ Validate(c) \/ RecordCurrent(c)
    \/ WriteConfig(c) \/ WriteSettings(c) \/ WriteCustom(c) \/ CheckEffective(c)
    \/ RestartNew(c) \/ RestoreFile(c) \/ RestartOld(c) \/ RecordNew(c) \/ Return(c)

Next ==
    \/ \E c \in Caller : SubmitApply(c) \/ SubmitCustom(c) \/ SubmitPreview(c) \/ SubmitRestore(c)
    \/ \E c \in Caller : Step(c) \/ Cancel(c)
    \/ ControlRestart \/ Crash

Spec == Init /\ [][Next]_vars

(* The commands of a request return, and a Go mutex starves no waiter. *)
FairSpec ==
    /\ Spec
    /\ \A c \in Caller : WF_vars(Step(c)) /\ SF_vars(Acquire(c))

-----------------------------------------------------------------------------
(* Properties *)

(* Every variable stays in the set of values the code can give it; a history is as
   long as prunings that failed have left it. *)
TypeOK ==
    /\ files \in Files
    /\ running \in Loaded
    /\ history \in Seq(Version)
    /\ lock \in Caller \cup {Absent}
    /\ pc \in [Caller -> Points]
    /\ req \in [Caller -> Request]

NewFiles(r) == [config |-> r.settings, settings |-> r.settings, custom |-> r.custom]

(* A request that reports success, or only that it could not record the new
   version, left files and container with exactly the requested half and the
   other half as it was in force before, whoever waited, failed or restarted
   the container meanwhile. *)
SuccessIsTrue ==
    \A c \in Caller : pc[c] = "return" /\ req[c].result \in {"ok", "unrecorded"} =>
        LET r == req[c] IN r.op # "preview" =>
            /\ files = NewFiles(r) /\ running = Wanted(r)
            /\ r.op = "apply" => files.custom = r.old.custom
            /\ r.op = "custom" => files.settings = LoadSettings(r.old)

(* "files restored" and "previous configuration restored" mean that every file
   is as it was, and that a container restarted on the way has read them. *)
RestorationIsTrue ==
    \A c \in Caller : pc[c] = "return" /\ req[c].result = "restored" =>
        /\ files = req[c].old
        /\ req[c].restarted => running = OnDisk(files)

(* What a request reports of its activation, success or restoration, is true of
   the files and the container when it returns, whatever fails or restarts. *)
ReportIsTrue == SuccessIsTrue /\ RestorationIsTrue

(* After any other refusal nothing changed, for the request and for every other
   one. *)
RefusalIsTrue ==
    \A c \in Caller : pc[c] = "return" /\ req[c].result = "rejected" =>
        files = req[c].old /\ running = req[c].was

(* Between requests the three files come from one activation: the rendered
   configuration is the one of the saved settings, and the pair passed both
   checks, even if writes, commands or restarts by others got in the way. *)
FilesBelongTogether ==
    lock = Absent =>
        /\ files.config = files.settings
        /\ OnDisk(files) \notin CandidateBad \cup EffectiveBad

(* A request that finds the container running what the files say leaves it so,
   whatever it reports, unless it reports that the rollback failed. *)
RunningIsInForce ==
    \A c \in Caller :
        /\ pc[c] = "return" /\ req[c].result # "rollbackFailed"
        /\ req[c].was = OnDisk(req[c].old)
        => running = OnDisk(files)

Recorded == {history[n] : n \in DOMAIN history}

(* A successful activation can be undone and repeated: the version in force and
   the one before it are both among the recorded versions. *)
BothVersionsRecorded ==
    \A c \in Caller : pc[c] = "return" /\ req[c].result = "ok" /\ req[c].op # "preview" =>
        VersionOf(req[c]) \in Recorded /\ Current(req[c].old) \in Recorded

(* Wherever a clock that was set back puts a new version, and whatever fails while it
   is written and older ones are removed: a step loses none of the newest versions
   that fit beside a new one, and one that leaves more versions than the limit, or
   makes them more, belongs to a request that says it could not record. *)
NewestVersionsKept ==
    [][history' # history =>
           /\ \A n \in 1..(HistoryLimit - 1) \cap DOMAIN history :
                  \E m \in {n, n + 1} \cap DOMAIN history' : history'[m] = history[n]
           /\ Len(history') <= HistoryLimit
              \/ \E c \in Caller : pc'[c] = "return" /\ req'[c].result \in {"rejected", "unrecorded"}
      ]_vars

(* No request waits for ever, neither for the lock nor for its own rollback. *)
RequestsReturn == \A c \in Caller : pc[c] = "waiting" ~> pc[c] = "idle"

(* README.md: "Every configuration change is validated before activation." *)
RunningWasValidated == running \notin EffectiveBad

(* README.md and docs/api.md: a change is kept only if the restarted resolver
   passes its health checks. *)
ActivatedResolverIsHealthy ==
    \A c \in Caller : pc[c] = "return" /\ req[c].result = "ok" /\ req[c].op # "preview" =>
        running \notin Unhealthy

-----------------------------------------------------------------------------
(* The mapping under which the manager implements AtomicActivation: what is in
   force is the request's pair once the container was restarted with it, and until
   then what the request found under the lock, whatever the files say meanwhile. *)

PairOf(f) == <<LoadSettings(f), f.custom>>

Serving == lock # Absent /\ req[lock].op # "preview"

Verdict(c) ==
    IF pc[c] = "recordNew" THEN "accepted"
    ELSE IF pc[c] # "return" THEN "open"
    ELSE IF req[c].result \in {"ok", "unrecorded"} THEN "accepted"
    ELSE IF req[c].result = "rollbackFailed" THEN "broken" ELSE "refused"

InForce ==
    IF lock = Absent THEN PairOf(files)
    ELSE IF Serving /\ Verdict(lock) = "accepted" THEN Wanted(req[lock])
    ELSE PairOf(req[lock].old)

NoTurn == [op |-> "none", wanted |-> <<Default, NoText>>, before |-> <<Default, NoText>>,
           verdict |-> "none"]

Turn ==
    IF ~Serving THEN NoTurn ELSE
    [op |-> req[lock].op, wanted |-> Wanted(req[lock]), before |-> req[lock].was,
     verdict |-> Verdict(lock)]

LegalPairs == ((Settings \ Invalid) \X Custom) \ (CandidateBad \cup EffectiveBad)

Register == INSTANCE AtomicActivation WITH
    inForce <- InForce, resolver <- running, turn <- Turn,
    First <- <<Default, NoText>>, Legal <- LegalPairs

(* Three files, two checks and a restart amount to one atomic step on the pair in
   force: no request sees or overwrites half of another one's, none is accepted on
   the strength of a half that is no longer in force, and one that is refused has
   left no trace in the files, and none in the resolver unless it says so. *)
ActivationIsAtomic == Register!Spec

=============================================================================
