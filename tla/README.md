# RootGuard Core in TLA+

This directory holds TLA+ models of RootGuard Core, the TLC configurations that
model-check them and TLAPS proofs about them. Everything is translated from the
Go source under `src/`; `PROJECT.json` maps each definition to the lines it
stands for.

Core is a single Go process. It has an HTTP API, keeps its state in a few files
on a data volume, and does its work by running `docker` commands and by HTTP
requests to AdGuard Home. Nothing it does is a transaction: an operation is a
sequence of commands and file writes, each of which may fail, take effect
although it reports a failure, or be the last one before the process ends. So
each model is a set of processes (requests, goroutines, timers) whose steps are
the commands and critical sections of the code, next to the state that they
read and write: memory, files, containers.

## 1. Inventory

| Component | Source | State | Operations | Module |
| --- | --- | --- | --- | --- |
| Image updater | `internal/updater` | status, history, selected images, in memory and in `status.json`, `images.json`, `updates.yaml`; containers, images, volumes | `StartCheck`, `StartUpdate`, the goroutines `check` and `update` with backup, migration of ownership, replacement, verification, rollback, cleanup; recovery in `NewManager` | `Updater`, `ProtectedReplacement` |
| Resolver configuration | `internal/unbound` (`settings.go`, `custom.go`, `lifecycle.go`) | three files shared with the container, versions in `history/`, `applyMu` | `Apply`, `ApplyCustom`, `Restore`, `PreviewCustom` | `UnboundConfig`, `AtomicActivation` |
| Diagnostic logging | `internal/unbound/diagnostic_logging.go` | verbosity of the resolver, expiry, timer, base level | start, stop, expiry with retry, reset by an activation | `DiagnosticLogging` |
| AdGuard bootstrap | `internal/adguard/manager.go` | `credentials.json`, its temporary file, AdGuard's own state | `Bootstrap`, `Status` | `AdGuardBootstrap` |
| Guided installer | `internal/installer` | status in memory and in `status.json`, `compose.yaml`, containers, network attachment of the Core | `Preflight`, `Start`, the goroutine `deploy`, recovery in `NewManager`, `Reconcile` | `Installer` |
| Service control | `internal/stack/control.go` | none | `ControlService`: start, stop, restart | an action of the modules it disturbs |
| Guided settings | `settings.go`, `custom.go`, `lifecycle.go` | the contents of the files and versions above | `Validate`, `Render`, `Load`, `normalizeCustom`, the conflict scan, the comparisons and previews, `recordSnapshot`, `Restore` | `GuidedSettings` |
| Forwarding and network checks | `forwarding.go`, `network.go`, `advisor.go` | none beyond a call | `CheckForwardTargets` with its workers; capabilities, advice | `ForwardCheck` for the first |
| Stack status and attestation | `internal/stack/status.go`, `attestation.go` | a cache of ten minutes | `CheckStackAttestations`; reads of docker | `Attestation` for the first |
| Managed stack | `installer`, `updater`, `cmd/rootguard/main.go` | what installer and updater share: images, containers, `compose.yaml` | those of both | `DnsStack` |
| Metrics, logs | `internal/stack` | none | reads of docker | no |
| Control plane client | `internal/controlplane` | none | requests to the independent updater | no |
| HTTP API, start-up | `internal/api`, `cmd/rootguard` | none | routing; start-up order | in the modules of the callees |
| AdGuard proxy, docker and system helpers | `adguard/proxy.go`, `internal/docker`, `internal/system` | none | reverse proxy, reads | no |

How they interact:

- Every HTTP request runs in a goroutine of its own, with a context that ends
  when the client goes away. Only the mutexes named above order requests.
- The installer and the updater answer at once and work in a goroutine with a
  context of its own (10 and 15 minutes).
- The installer's last phase calls `Bootstrap`, which the API can also call.
- The service control and the updater restart or recreate the resolver's
  container without asking the configuration manager, and the container reads
  whatever files are there.
- An activation ends by resetting the diagnostic logging.
- The installer and the updater run compose on the same containers without a
  common lock. The installer's `compose up` does not use the updater's override
  file; the updater's uses the `compose.yaml` of the last deployment, finished
  or failed.
- Status requests share the cache of attestation verdicts, which is unlocked
  while cosign runs.
- At start-up `main` builds all managers, which load their files, then runs
  `Reconcile`, then serves the API.

What is hard here, and which properties make a component correct:

| Component | Hard to test | Correct when |
| --- | --- | --- |
| Image updater | a failure, the deadline or a restart at any of about thirty commands; saves that fail half-way; long sequences of updates with cleanups | one job at a time; recorded outcomes are true; nothing that is needed is removed; jobs end |
| Resolver configuration | concurrent requests on two halves of one pair; failing writes, restorations and restarts; restarts by others; cancelled requests; crashes between writes | what a request reports is true of files and resolver; files belong together; versions can be restored; every request returns |
| Diagnostic logging | commands outside the lock, bookkeeping inside it; timers that race with requests and with each other | every announced session ends; one timer; inactive means quiet |
| AdGuard bootstrap | calls that overlap, lost answers, a restart at any point | stored credentials are the ones in force; success is real; never locked out |
| Guided installer | concurrent starts; errors of the mirrored status that are dropped; restarts | the status tells the truth about deployment, installation and failure; the Core can reach what it installed |
| Guided settings | configurations that were accepted at different times, by different releases, each checked against the other half as it was then | the settings shown are the active ones; every version can be restored; no zone is defined twice; previews are exact |
| Forwarding checks | silent, hanging and many targets against three limits on time | every target has its own result; none loses its time to the others; the check returns |
| Attestation | overlapping verifications of one image, killed and cached verdicts | "verified" is true, or was until no longer ago than the cache allows; no verdict is older; requests return |
| Managed stack | a deployment between any two commands of an update, and the other way round | what either reports stays true |

`PROJECT.json` lists each hazard at its line, with the properties that would
catch it going wrong.

## 2. Plan

Modules, the most important behaviour first:

1. `Updater`, with `ProtectedReplacement` as what it promises: done.
2. `UnboundConfig`: done.
3. `DiagnosticLogging`, `AdGuardBootstrap`, `Installer`: done.
4. `GuidedSettings`, `ForwardCheck`, `Attestation`: done.
5. `DnsStack`, composing `Installer` and `Updater`: done. The installer's last
   phase and `POST` bootstrap requests meet in `AdGuardBootstrap`, as
   overlapping calls.

Abstract specifications: `ProtectedReplacement` (images), which `Updater`
implements, and `AtomicActivation`, a register of configuration pairs with one
atomic operation per request, which `UnboundConfig` implements: both done, checked
and proved.

Theorems:

1. `Updater`: types, exclusion of jobs, complete rollbacks and successes, the
   cleanup's entry, true reports, needed images, that services do not disturb each
   other, and that every step is a step or a stutter of `ProtectedReplacement`: done.
2. `UnboundConfig`, `GuidedSettings`: types and every invariant of the runs, and
   that every step of the first is a step or a stutter of `AtomicActivation`: done.
3. `DiagnosticLogging`, `AdGuardBootstrap`, `Installer`: types and every invariant
   and action property of the runs: done.
4. `ForwardCheck`, `Attestation`: types and every invariant of the runs: done.
5. `DnsStack`: `InstalledIsTrue` and `UndisturbedUpdatesAreTrue`, from the
   invariants of its two parts: done.

For the proofs' sake every parameter is a CONSTANT with a named assumption,
operations are separate actions, and no module declares a RECURSIVE operator.

## 3. The modules

In most of them a constant `Faults` says what may go wrong, so that a run can
name the assumptions under which a property holds; with the full set nothing
about the environment is assumed. Where properties of one module need different
assumptions, the constant is `FaultSets` and a variable `faults` holds the set
of a behaviour: one run covers all of them, and a property names those it needs. Docker commands fail in two ways, without
effect and after it. Log messages, formatting and, where no
property depends on them, times are left out.
Definitions marked *Mutant* change one definition the way a plausible bug
would; they are not part of any specification and serve to show that a property
can fail.

### Updater

A worker is a goroutine; `pc[w]` names the command or critical section it is
about to run, `job[w]` holds its local variables. `status`, `selected` and the
three files are the manager's; `container`, `data`, `owner`, `tag`, `present`,
`volumes` are docker's; `registry` is what a pull would find.

| Code | Actions |
| --- | --- |
| `StartCheck`, `StartUpdate` | actions of the same names; refused while `Busy` |
| `check` | `CheckNext`, `CheckInspect`, `CheckPull`, `CheckResolve`, `FinishCheck` |
| `update` | `Inspect`, `Backup`, `Pull`, `ResolveCandidate`, `InspectOwner`, `MigrateOwner`, `UndoMigration`, `SelectTarget`, `ReplaceContainer`, `VerifyCandidate`, the `Record...` actions, `Fail` |
| `rollback` | `BeginRollback`, `RollbackOwner`, `RollbackSelection`, `RollbackContainer`, `RollbackData`, `RollbackRestart`, `VerifyRollback` |
| `cleanupAfterSuccess`, `attachCleanup`, `finish` | `CollectSuperseded`, `RemoveImage`, `SkipImage`, `CleanVolumes`, `AttachCleanup`, `ReportResult`, `FinishUpdate` |
| `NewManager` | `Restart` |
| `persistLocked` | `Persist`: three writes in order, the first error ends it |
| the context's deadline | `expired`: noticed by a command that fails, and from then on every command is refused |

Simplified: persistent data is the image that last wrote it, and a backup is a
copy of that. `rollback` restores it with `docker cp`, which merges: what the
backup holds is back, and a file that only the candidate has created stays in the
volume. So `data` equal to `backup` says the former and nothing of the latter.
There is one migrated volume per service, as the program
configures it; all attempts of a verification are one step; the services of a
check are taken in any order; an image that a command needs is stored locally
(`ImagesAtHand` is what makes that true).

### ProtectedReplacement

What the updater promises about images, without files, commands or goroutines:
an image changes only inside the update of its service, one update at a time;
after a decided outcome it stays; "success" is said of the new image only,
"rolled_back" and "no_change" of the old one only. The end of
`Updater` instantiates it with `container`, the update in progress and the newest
entry of the history (`PromiseKept`).

### UnboundConfig

A request holds its locals in `req[c]`. `Acquire` is `applyMu.Lock()` with the
reads under it; then come `Validate`, `RecordCurrent`, the three writes,
`CheckEffective`, `RestartNew`, `RecordNew`, `Return`, and on the way back
`RestoreFile`, one file at a time, and `RestartOld`. `running` is what the
container read when it last started; `ControlRestart` is a restart by anyone who
does not take the lock, `Cancel` the end of the request's context, `Crash` a
restart of the Core.

Simplified: a rendered configuration is the settings it comes from, so two
settings never render to the same text; the verdicts of `unbound-checkconf`, the
conflict scan and the resolver's health are sets of pairs, given as constants
(`GuidedSettings` has the first two things in full);
the candidate file exists only inside the step that checks it; reads never fail.
`pruneHistory` ends with the first version that cannot be removed, and the request
then says that it could not record, although the version is written: with every
such failure there may be one version more above the limit, until one pruning
removes them all (`RecordFails`, `PartlyPruned`). `MaxHistory` ends this in the
model, not in the code; no property depends on it. Which versions survive is
`NewestVersionsKept`.

### AtomicActivation

What the configuration manager promises, without files, checks or commands: one
register holds the pair of guided settings and expert text that is in force.
Requests take turns. One that names one half is for that half and the other half in
force; it may try its pair on the resolver, and is then accepted, which needs a
legal pair and puts it into register and resolver at once, or refused, which leaves
the register alone and the resolver with what is in force or what it ran before, or
ends with a rollback reported as broken. The end of `UnboundConfig` instantiates it
(`ActivationIsAtomic`). The step that accepts is `RestartNew`, not the writes before
it: until then the pair in force is what the request found under the lock, although
the files already say something else. `Acquire` begins a turn, `RestoreFile` or
`RestartOld` refuses or breaks, `Return` ends it; a preview is not seen.

### DiagnosticLogging

Calls of `Start`, `Stop` and an activation, and callbacks of fired timers, are
processes with two steps: the command, and the bookkeeping under `diagnosticMu`.
The expiry is none, to come or past; `Fire` makes it past. An activation's files
and restart are one step here; `UnboundConfig` has them one by one. A callback
that finds no free timer name waits for one, a bound of the model; three names
are enough for two requests.

### AdGuardBootstrap

The steps of `Bootstrap` are requests and file operations. AdGuard is external:
it accepts the wizard once, and then any request with the password given there.
Loops that repeat a request are one step that succeeds or fails in the end.
A write of the temporary file that fails may leave it truncated, as
`os.WriteFile` empties it first. The call that wrote it returns; an overlapping
one may rename what it finds, and every later call then reports an error
(`Truncated`).

### Installer

`Submit` and `Refuse`/`Begin` are the two halves of `Start`: the preflight
without the lock, and the critical section. `deploy` holds the goroutines; each
phase is `BeginPhase`, `DoPhase`, then `FinishPhase` or `FailPhase`.
`PersistIgnoringErrors` is a save whose error the code drops: file and memory
may differ from then on, until a restart reads the file. The content of
`compose.yaml`, the reasons of a refused preflight and the bootstrap are
abstracted to a configuration, success and failure.

### GuidedSettings

`UnboundConfig` has the order of writes and commands with contents that are
plain names; `GuidedSettings` has the contents, and an activation in one step,
carried out or refused. A JSON document is a function from the fields it has to
their values, so that a missing field, `null` and a zero differ as they do for
`json.Unmarshal`; `Decoded` and `Loaded` are the two ways the code reads one, and
only `Load` fills in defaults. `Valid`, `Rendered`, `Normalized`, `Conflicts`,
`SettingsEqual` and `Changes` are the functions of those names in the code.
`Apply`, `ApplyCustom` and `Restore` are the three ways to activate. `habits`
says what the installation has to live with: requests that leave
`reverse_zones` out, and files of an earlier release.

Simplified: names, addresses and networks are model values, sorted into those
the code accepts and those it refuses; of expert text only the directives count
that other code looks at, and the length; comments of rendered text are left
out. `adviseCustom` and the catalogue of directives change nothing and are left
out.

### ForwardCheck

`caller` is the request's goroutine: it hands over targets (`Handover`), closes
the channel (`Close`) or gives up (`GiveUp`), and returns (`Return`) when all
workers have left. A worker's probe ends by an answer, by dig's own limit, or by
being killed. Time is a counter that moves while everybody waits for a dig.

### Attestation

A request has a goroutine per service, with the steps `Lookup`,
`ReadRegistry`, `Report` or `Kill`. Storing the verdict and reading the time are
one step. `registry` says what is attached to an image and since when:
`Publish` and `Withdraw` are what the outside world does to it. cosign is external;
it succeeds only on an attestation that satisfies the policy. Every failure, a
missing program and a killed command included, is told apart by words in its output
(`classifyAttestationResult`), which registry, network and operating system write
as well: so a failure may be given "missing", "unavailable" or "failed" whatever is
attached (`Verdicts`), and no property says anything of an image with one of the
three but how old the verdict is.

### DnsStack

The module extends `Updater`, whose containers and images are the shared ones,
instantiates `Installer`, and adds what a step of one does to the state of the
other: `DeployCommand` is the effect of the installer's `compose pull` and
`compose up` on images and containers, where a command that fails has reached any
of the services, and `BaseDefinition` the `compose.yaml`
that an update's `compose up` reads (`Composes`, `ComposesNothing`). `disturbed`
records that a deployment touched docker while a job ran. It starts after a first
successful deployment (`StackInit`). `CoreRestart` ends both parts at once and has
each read its own files; it belongs to `RestartingSpec`, which the theorems are
about, and not to `StackSpec`, which the run checks.

## 4. What the runs show

Each run is a `MC*.cfg`, named after its question.

| Configuration | Faults | Properties | Shows |
| --- | --- | --- | --- |
| `MCUpdater_faults` | command, deadline, restart | `TypeOK`, `OneJobAtATime`, `RolledBackIsComplete`, `SuccessIsComplete`, `PromiseKept`, `JobsEnd` | jobs exclude each other, outcomes are true of container, owner and files, a rollback also of the data, `ProtectedReplacement` is refined, every job ends |
| `MCUpdater_history` | none | `ImagesAtHand`, `CleanupFindsItsEntry`, `IdleReportIsTrue` | sequences of updates among three images, with cleanups; an idle updater reports the running image |
| `MCUnboundConfig_anything` | all | `ReportIsTrue`, `NewestVersionsKept` | what one request reports, success or restoration, is true whatever happens; no failure and no clock costs one of the newest versions |
| `MCUnboundConfig_requests` | command, cancel, write | `RefusalIsTrue`, `FilesBelongTogether`, `RunningIsInForce`, `BothVersionsRecorded`, `RequestsReturn`, `ActivationIsAtomic` | two requests: a refused one leaves no trace, files and resolver agree unless a failed rollback is reported, both versions are recorded, every request returns, `AtomicActivation` is refined |
| `MCDiagnosticLogging_sessions` | every set | `AnnouncedSessionEnds`, `OneTimer`, `InactiveMeansQuiet`, `LoggingIsTemporary` | an announced session has someone who ends it, whatever happens; unless a Start races with another call or the Core restarts, there is one timer, the status is true and logging ends |
| `MCAdGuardBootstrap_calls` | every set | `SuccessIsReal`, `StoredIsInForce`, `StoredOnce` | success is real and credentials are written once, whatever happens; without overlap the stored ones open AdGuard |
| `MCInstaller_status` | command, disk, restart, replace | `TypeOK`, `StatusIsTrue`, `InstalledIsTrue`, `InstalledIsAttached`, `DeploymentEnds` | the status tells the truth, a replaced Core is attached again, every deployment ends |
| `MCGuidedSettings_versions` | both habits, none | `ReadBackIsActive`, `VersionsRestorable`, `NothingTwice`, `PreviewIsExact` | guided, expert and restored configurations in any order: the settings shown are active, versions can be restored, no zone is defined twice as far as the conflict scan sees it (quoted reverse zones), a preview says what an activation will do |
| `MCForwardCheck_probes` | hang, cancel | `ResultsBelong`, `EveryProbeHasItsTime`, `CheckReturns` | a target has its own one result, no target within the capacity loses its time to the others, the check returns and leaves no worker behind |
| `MCAttestation_requests` | cosign hangs, is killed or fails | `AnswersAreTrue`, `RequestsReturn` | "verified" is true, or was at most one verification and the age of a cached entry ago; every verdict shown by overlapping requests is bounded in age; requests return |
| `MCDnsStack_updates` | command (installer), an unhealthy candidate | `InstalledIsTrue`, `UndisturbedUpdatesAreTrue` | an installed configuration stays in force although updates recreate containers; outcomes of updates are true unless a deployment ran meanwhile |

One run, `MCUpdater_deadline`, is expected to fail. It checks the README's
"rolls back failed replacements" (`FailedReplacementIsRolledBack`): the rollback
runs under the context of the update, and is refused once its deadline has
passed, so the replaced container stays.

Saves that fail half-way are in no run of `Updater`, as they multiply its states;
they are among the faults that section 5 covers.

The configurations beside the runs are violated, as TLC finds for each of them. They reproduce hazards
of the code that no passing property can cover, each with the smallest set of
faults that matters:

| Configuration | Sentence | What happens |
| --- | --- | --- |
| `MCUpdater_previous` | `manager_test.go`: the cleanup leaves the previous and the current image alone | the order is that of the first mention: after A→B, B→A, A→C the previous image A is removed |
| `MCUnboundConfig_window` | README: "validated before activation" | a restart by others between write and check |
| `MCUnboundConfig_health` | docs/api.md: "restart health checks" | no health check follows the restart |
| `MCUnboundConfig_crash` | docs/api.md: "atomic replacement" | three files, each atomic, not together |
| `MCDiagnosticLogging_race` | docs/api.md: "bounded temporary diagnostic logging" | command and bookkeeping in different orders |
| `MCDiagnosticLogging_core` | the same | the timer does not survive the process |
| `MCAdGuardBootstrap_crash` | `installer/manager.go`: "start the deployment again" | the only copy of the password is in a temporary file that nobody reads |
| `MCAdGuardBootstrap_overlap` | docs/api.md: "Reconcile the private installer" | overlapping calls share that file |
| `MCGuidedSettings_null` | docs/api.md: "Read active guided settings" | a request without `reverse_zones` is rendered without them, and `Load` shows the defaults |
| `MCGuidedSettings_unquoted` | `custom.go`: expert text "conflicts with guided RFC1918 reverse handling" | a zone written without quotes is not found |
| `MCGuidedSettings_length` | docs/api.md: "Preview and validate a custom draft" | text of exactly the limit without a final line end is previewed, gets the line end and is then too long |
| `MCForwardCheck_timeout` | `settings.go`: 32 targets are valid | four workers have the time for sixteen hanging ones |
| `MCForwardCheck_cut` | a check without error has asked every target | a deadline after the last handover cuts probes short, and the check returns without error |
| `MCAttestation_killed` | `attestation_test.go`: a verification out of time is "unavailable" | the killed command's error is not the context's: classified by its words, it may be "failed" or "missing", kept in the cache |
| `MCAttestation_overtaken` | the entry stored last is the newer one | a slow verification that began before the attestation appeared replaces "verified" by a failure |
| `MCDnsStack_selected` | each service runs the image the updater selected | a deployment runs compose without the override |
| `MCDnsStack_rollback` | README: "updates with automatic rollback" | a deployment during an update replaces what the rollback has just put back |
| `MCDnsStack_report` | an idle updater reports the running image | a deployment pulls a new image and the report is not told |

A request whose context is cancelled also fails to restart the old
configuration, as the rollback uses the same context. That is part of
`RunningIsInForce`, which therefore excepts requests that report the rollback
as failed.

### Bounds

- `Updater`: one service is enough where a property speaks of one job, as jobs
  exclude each other and services share only the status and the files; that
  services do not disturb each other is proved for any number. Two images make every kind of update and no-change, three
  make the shortest sequence in which the cleanup has something to remove. Two
  worker slots are enough to violate exclusion. `MaxHistory` is 1 or 3 instead
  of 50: 1 makes every recording cut the history, 3 holds the updates that the
  cleanup needs to see.
- `UnboundConfig`: the settings are the default, one that needs IPv6 and, in the
  run with all faults, an invalid one; the texts are none and one expert text,
  and one pair is refused. All faults together are checked with one request, as
  they strike under the lock; two requests, needed for the lock itself, have the
  faults of commands, contexts and writes. `HistoryLimit` is 2 instead of 20,
  the smallest limit with which both versions can be recorded, so every
  activation prunes. `MaxHistory` is 3 with all faults: failing prunings may leave
  a version above the limit, and the next pruning finds two, so that it can fail
  between its removals. In the other runs no recording fails, and it is not reached.
- `DiagnosticLogging`: two requests, three timers: the current one, an orphan
  and one whose callback is at work.
- `AdGuardBootstrap`: three calls and six passwords, twice as many as calls, so
  that a generated password is always a new one.
- `Installer`: two valid configurations and an invalid one, two requests. The
  command of `Reconcile` does not fail in the run: when it does, a replaced Core
  stays detached until its next start, as the code only logs the error.
- `GuidedSettings`: about twenty documents, the defaults changed in one thing
  each: nine that are valid on their own, one without `reverse_zones`, one for
  each rule that refuses; seven texts, one for each thing the conflict scan and
  the normalisation look at. Two zone names and short limits make every limit
  exceeded by some input. Three versions instead of twenty: an activation
  records at most two, so older versions survive some activations and are pruned
  by others.
- `ForwardCheck`: two workers, at most five targets, limits of 2, 3 and 7 in the
  order of 3, 4 and 20 seconds: targets are handed over in several rounds, and
  with five hanging ones the whole check's deadline strikes in the last round, and
  a cancellation at any point.
- `Attestation`: one image, two requests, entries that live twice as long as a
  run of cosign, and five units of time for requests to begin in: enough for an
  attestation to appear, be verified, be withdrawn, and for its entry to be used
  until it expires; the bound of `AnswersAreTrue` is reached. Two services
  have no state in common but the cache, which they use with different images.
- `DnsStack`: AdGuard Home, the service whose image and ports depend on the
  configuration, two configurations, two images, one update and one deployment
  at a time, which is all that the two managers admit.

### Fairness

Safety runs assume none. The liveness runs assume what the scheduler and the
contexts give:

- `Updater`, `Installer`: weak fairness of a goroutine that has been started.
  Commands run under a context with a deadline, so each returns.
- `UnboundConfig`: weak fairness of every request's own steps, and strong
  fairness of taking the lock, since Go's mutex hands itself over to a waiter
  that has starved for a millisecond. Commands return or end with the request.
- `ForwardCheck`: weak fairness of the check as a whole, time included; no
  target needs to answer, and with "hang" not even dig's own limit ends a probe.
- `Attestation`: weak fairness of each request's lookup, answer and the killing
  of an overdue command, strong fairness of time, which stands still while
  anything else can be done at once; cosign need not answer.
- `DiagnosticLogging`: weak fairness of calls; strong fairness of timers and of
  the success of a command that is tried again and again: the property is
  about the code's retries, not about a docker that never answers.

## 5. What is proved

Each module has a module of proofs; what is proved of `DnsStack` is in the one of
`Updater`, whose lemmas it needs. The theorems hold for every
value of the constants that the named assumptions admit: any number of services,
images, requests, workers, settings and timers, every limit, and, unless a theorem
says otherwise, every set of faults. The runs show the same properties on small
instances: the column *Property* names what section 4 lists. In no run are
the types of `UnboundConfig`, `DiagnosticLogging`, `AdGuardBootstrap`, `GuidedSettings`,
`ForwardCheck` and `Attestation`, and `OnlyTheActiveServiceChanges`.

| Theorem | Property | Hypothesis |
| --- | --- | --- |
| `UpdaterProofs` `TypeCorrect` | `TypeOK` | |
| `JobsExcludeEachOther` | `OneJobAtATime` | |
| `RollbackRestoresEverything` | `RolledBackIsComplete` | |
| `SuccessAdoptsTheCandidate` | `SuccessIsComplete` | |
| `CleanupIsFiledRight` | `CleanupFindsItsEntry` | |
| `IdleReportsAreTrue` | `IdleReportIsTrue` | no restart |
| `NeededImagesStay`, `OneServiceKeepsItsImages` | `ImagesAtHand` | a repository publishes images of its service; nothing if there is one service |
| `UpdaterKeepsItsPromise` | `PromiseKept` | |
| `OtherServicesAreSpared` | `OnlyTheActiveServiceChanges` | |
| `InstalledStaysTrue` | `InstalledIsTrue` of `DnsStack` | |
| `UndisturbedUpdatesStayTrue` | `UndisturbedUpdatesAreTrue` of `DnsStack` | (the property names its own) |
| `UnboundConfigProofs` `ConfigTyped` | `TypeOK` | |
| `ReportsAreTrue` | `ReportIsTrue` | |
| `RefusalsChangeNothing` | `RefusalIsTrue` | no restart by others, every file restorable |
| `RunningStaysInForce` | `RunningIsInForce` | the same |
| `FilesStayTogether` | `FilesBelongTogether` | no crash, every file restorable |
| `BothVersionsStay` | `BothVersionsRecorded` | the clock is not set back |
| `VersionsAreKept` | `NewestVersionsKept` | |
| `ActivationsAreAtomic` | `ActivationIsAtomic` | no crash, no restart by others, every file restorable |
| `DiagnosticLoggingProofs` `LoggingTyped` | `TypeOK` | |
| `EverySessionIsEnded` | `AnnouncedSessionEnds` | |
| `NoTimerIsLeftBehind` | `OneTimer` | (the property names its own) |
| `InactiveIsQuiet` | `InactiveMeansQuiet` | (the property names its own) |
| `AdGuardBootstrapProofs` `BootstrapTyped` | `TypeOK` | |
| `ReportedSuccessIsReal` | `SuccessIsReal` | |
| `StoredIsAdGuards` | `StoredIsInForce` | (the property names its own) |
| `CredentialsAreWrittenOnce` | `StoredOnce` | |
| `InstallerProofs` `InstallerTyped` | `TypeOK` | |
| `StatusIsAlwaysTrue` | `StatusIsTrue` | |
| `InstalledIsAlwaysTrue` | `InstalledIsTrue` | |
| `InstalledIsReachable` | `InstalledIsAttached` | the command of `Reconcile` succeeds |
| `GuidedSettingsProofs` `GuidedTyped` | `TypeOK` | |
| `ReadBackIsAlwaysActive` | `ReadBackIsActive` | (the property names its own) |
| `VersionsAreRestorable` | `VersionsRestorable` | (the property names its own) |
| `NothingIsDefinedTwice` | `NothingTwice` | |
| `PreviewsAreExact` | `PreviewIsExact` | (the property names its own) |
| `ForwardCheckProofs` `ForwardCheckTyped` | `TypeOK` | |
| `EachTargetHasItsResult` | `ResultsBelong` | |
| `TargetsHaveTheirTime` | `EveryProbeHasItsTime` | (the property names its own) |
| `AttestationProofs` `AttestationTyped` | `TypeOK` | |
| `AnswersAreKnown` | `AnswersAreTrue` | |

The hypotheses are those under which the code keeps the property, not those the
proof happens to need:

- *No restart* in `IdleReportsAreTrue`: `status.json` keeps the report of a service
  whose update a restart interrupts after its container was replaced. The state is
  then "failed", but the next update of another service makes it idle again, with
  the old report beside it.
- *Images of its service* in `NeededImagesStay`: if two services had one image, an
  update of one could remove, as superseded, what the other's reference names. The
  services of `main.go` have repositories of their own.
- *No restart by others* in `RefusalsChangeNothing`, `RunningStaysInForce` and
  `ActivationsAreAtomic`: the
  service control restarts the container without `applyMu`, and may do so between
  the writes of a request that is refused later.
- *Every file restorable*: a file that cannot be put back stays as it is. After a
  failed check or restart the request at least says so (`restoreState` joins the
  errors of `restoreFile`); after a failed write it does not (`settings.go:584`, `588`
  and `589` drop them).
- *No crash* in `FilesStayTogether` and `ActivationsAreAtomic`: the three files are atomic one by one
  (`MCUnboundConfig_crash`).
- *The clock* in `BothVersionsStay`: `pruneHistory` keeps the versions that are
  newest by their time.
- *`Reconcile`*: its error is logged only, and the status stays "installed".

The assumptions on constants say that values are told apart (`None`, `Absent`,
`Target` and `Other` are none of the values next to them), that named sets are
subsets of what they should be, and that limits are positive. Beyond that:
`Attestation` assumes a finite set of services (`ServiceAssumption`), and
`GuidedSettings` that the defaults are valid and name reverse zones
(`DefaultAssumption`, which the literal of `DefaultSettings` meets) and that what an
earlier release left is valid once `Load` has filled in what it lacks
(`EarlierAssumption`: an earlier release wrote only what its own `Validate` had
accepted; a release with looser limits is outside the theorems). TLC evaluates
each of them in the runs.

### The arguments

*Updater.* `TypeOK` is inductive because it includes `LocalsAreSet`: at each point
of a job, the local variables read from there on have been assigned. There is a
lemma for each kind of command (compose, chown, select, verify, record) with the
points it goes to as parameters. `OneJobAtATime` is inductive given the types: a
step of a worker stays within its kind of job or ends it together with the busy
state (`KeepsOrEnds`); a restart ends all goroutines and leaves no busy state,
whatever file it reads. The other invariants speak of the moment of an outcome, so
they need what was done before:

- `AllPutBack` says, for each point of the rollback, what has been put back so far:
  first the owner, then the selected image in memory and override, then the
  container, then the data. It also says why the owner may be skipped: before the
  rollback an owner that was not changed is still the one found.
- `AllAchieved` says the same of the way forward: the container has the old image
  until it is replaced, an upgrade goes to another image, the one the target
  resolves to; then owner, selection and container follow; after the recording the
  newest entry of the history is the job's own.
- `ReportsTrue`: a report is true, or somebody is about to report on its service.
  Failing commands need no case of their own: a report with an error is excepted
  by the property, and each failure on the way writes one.
- `AtHome` and `Stored`: all that memory, files, docker and jobs know of a service
  names images of this service; a container's and a reference's image are stored,
  and so is the one an update started from while it may return to it. The cleanup
  removes only images of its own service, and its guards leave exactly these.
- For `OtherServicesAreSpared`, `ActiveIsServed`: while an update runs, the status
  names its service. A step of a job changes what belongs to its own service only
  (`TouchesItsOwn`), and then leaves the status as it is.
- For `UpdaterKeepsItsPromise`, `BeginsAfresh` adds that a job that has just begun
  remembers no image. Each action is then a step of `ProtectedReplacement`
  (`Decide` for a recording, `Interrupt` for a restart, and so on) or leaves the
  three mapped variables as they are.

In all of these a step of a worker preserves its own part; the parts of others are
untouched because `OneJobAtATime` leaves no other worker at those points.

*DnsStack.* The steps of an update are those of `Updater` here too, as the module
extends it, so the lemmas about them apply as they are. `AllPutBack` and
`AllAchieved` are invariants as long as no deployment has touched docker since the
job began, and a job begins with nothing put back or achieved; that is
`Undisturbed`. For the installer a step of an update either leaves the configuration
of the containers or makes it the one of the `compose.yaml` in place (`ComposeStep`).
Neither makes an "installed" false, in memory or in the file, as that agrees with
both (`TellsTrue`), and a deployment that has written one and not yet applied it has
announced itself in both (`Announced`): it is why the order in which `deploy` writes
its status matters.

*UnboundConfig.* The lock's holder is the one request in progress (`Base`). What it
knows comes in layers, each proved with those before it: which of the three files
it has written, and which it has still to put back (`FilesKnown`); which checks the
requested pair has passed (`ChecksKnown`); what the container has read
(`RunningKnown`, and undisturbed `UndisturbedKnown`); that the version in force was
the newest before anything was written (`HistoryKnown`, so pruning, which cuts the
oldest of at least two, cannot reach it). `NewestVersionsKept` needs no knowledge
of requests, only of sequences: an insertion shifts some of the versions by one
(`InsertedShifts`), and cutting behind the limit, in whole or in part, leaves the
newest where they are (`InsertedKeeps`, `PartlyPrunedKeepsNewest`). `SoundKnown` is what one request leaves
to the next: files of one pair that passed both checks. A restoration can trust its
snapshot only because of that. For `ActivationsAreAtomic` one lemma (`HolderActs`)
says which changes of verdict and container are steps of the register while the
lock is held; each action is then one of its cases. `SoundKnown` is needed there as
well: only of files that belong together is what the container reads from them the
pair that they say is in force.

*GuidedSettings.* The heart is what `Load` does to what an activation wrote: nothing
but to settings whose reverse zones are `null` (`ReadBack`, `LoadedTwice`), as every
field that `Load` fills in when zero must be non-zero to be valid; and that
normalising twice is normalising once. `FilesKnown` then says that the active files
were accepted together, are those of an earlier release, or are not there, and
`VersionsKnown` that every version was accepted together with the text recorded
beside it.
The properties follow without further induction. That `Known`, the settings that
can be on disk, is closed under reading back is part of the types.

*Installer.* `Known` says what the goroutine has done at its point (`Reached`), that
the status shows exactly that point (`Shows`), and that both the status and the
file are `Truthful`: an installed one agrees with `compose.yaml` and the containers,
a failed one names its step. The file, whose saves may fail, cannot say "installed"
while a deployment changes what that means, since the save before the deployment is
the one whose error is not dropped.

*AdGuardBootstrap.* AdGuard accepts the wizard once, so one call ever gets to the
rename (`OneActivates`). Without overlap that call still finds in the temporary
file what it wrote (`CallKnows`).

*DiagnosticLogging.* A callback is its own timer's and an armed timer has none at
work (`RolesFit`, `ArmedWait`); without a racing Start there is one session
(`StartsAlone`, `OneSession`); undisturbed, a verbose resolver is announced or about
to be (`VerboseIsKnown`, `QuietBeforeRecorded`).

*ForwardCheck.* A target that was handed over and has no result is one worker's
(`OneWorkerEach`, `NoneMeansPending`). For the time, no history of the workers is
needed: targets are handed over in order, so the first (k + 1) * `Workers` of them
have begun when k of the longest probes have passed (`BegunInTime`, `NextInTime`).
When time passes while a target waits, all workers are busy with different targets,
so one of them is at least `Workers` targets ahead (`AnEarlyProbe`, by counting);
its own bound gives the bound for the waiting one.

*Attestation.* A verdict is followed from cosign's reading of the registry through
the cache to the answer, with its age at each place (`RunTrue`, `EntryTrue`,
`DoneTrue`); a genuine attestation can only be withdrawn, which begins the time in
which "verified" may still be shown (`Backed`). The last part bounds the wait for the slower goroutines of the same
request, which is why `CacheAge` differs for one service and for more.

## 6. What is only model-checked, and what is not modelled

- Liveness: `JobsEnd`, `RequestsReturn` (of `UnboundConfig` and `Attestation`),
  `LoggingIsTemporary`, `DeploymentEnds`, `CheckReturns`. It needs fairness, and so
  ENABLED, which is beyond the prover.
- The sentences of the configurations that TLC refutes.
- No theorem needs induction over data. What a definition over lists computes is
  stated place by place: `NamesWhere` keeps each name at the place of its zone.
- Pure functions over text: what `Validate`, `Render`, `Load`, the normalisation
  and the conflict scan decide is in `GuidedSettings`; the syntax (labels of a
  name, the parsing of addresses and of directives), the compose file, the
  advice and the wording of errors are constants or sets.
- Reads of docker for display, network capabilities, metrics, logs, the
  filter probes of AdGuard, the reverse proxy and the client of the independent
  updater keep no state. Neither do the handlers of `internal/api`: they decode,
  call one manager and encode; that they run concurrently and what the end of
  their context does is in the modules of the managers.
- The resolver's container is shared by the configuration manager, the service
  control and the updater; `UnboundConfig` has the other two as
  `ControlRestart`. The run of `DnsStack` has no restarts of the Core and only one
  kind of failure per part; its theorems cover them all.
- A service that is stopped by the service control and not started again is
  covered only as commands that fail.
