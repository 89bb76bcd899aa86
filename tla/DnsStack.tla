------------------------------ MODULE DnsStack ------------------------------
(***************************************************************************)
(* The managed stack with the two parts of the Core that run compose on    *)
(* it: the guided installer and the image updater, as cmd/rootguard/main.go *)
(* wires them.                                                             *)
(*                                                                         *)
(* Both keep their own status under their own lock, and nothing            *)
(* coordinates them.  A deployment runs compose with compose.yaml alone,   *)
(* whatever the updater has selected; the updater runs it for one service  *)
(* with compose.yaml, as the last deployment left it, and its override.    *)
(* The module extends Updater, whose containers and images are the shared  *)
(* ones, instantiates Installer, and adds what a step of one does to the   *)
(* state of the other.                                                     *)
(*                                                                         *)
(* A behaviour starts after a first successful deployment: without the     *)
(* containers there is nothing to update.                                  *)
(***************************************************************************)
EXTENDS Updater

CONSTANTS
    Config, Caller,  \* as in Installer
    Reference,       \* [Service -> [Config -> reference]]: the image compose.yaml
                     \* names, Target if it is the one updates pull
    Configured,      \* the services whose definition depends on the configuration
    FirstConfig,     \* the configuration of the first deployment
    Published,       \* the images published for updates while the stack runs
    InstallerFaults  \* what may go wrong in Installer; Faults is the updater's

ASSUME ReferenceAssumption ==
    /\ Reference \in [Service -> [Config -> Image \cup {Target}]]
    /\ FirstConfig \in Config
    /\ Configured \subseteq Service /\ Published \subseteq Image

VARIABLES
    installation,      \* Installer's m.status
    installationFile,  \* its status.json
    compose, stack, attached, request, deploy,   \* as in Installer
    disturbed    \* a deployment has touched docker since the last job began

installerVars ==
    <<installation, installationFile, compose, stack, attached, request, deploy>>
updaterManager == <<status, selected, pc, job, statusFile, imagesFile, overrideFile>>
stackVars == <<installerVars, vars, disturbed>>

I == INSTANCE Installer WITH
        status <- installation, file <- installationFile,
        Invalid <- {}, Faults <- InstallerFaults

-----------------------------------------------------------------------------
(* What a deployment does to the images and containers *)

(* The image a service gets from compose.yaml alone. *)
Deployed(s) ==
    IF Reference[s][compose] = Target THEN tag[s] ELSE Reference[s][compose]

KeepDocker == UNCHANGED <<container, data, tag, present>>

(* The image compose pull gets for a service. *)
Pulled(s) ==
    IF Reference[s][compose] = Target THEN registry[s] ELSE Reference[s][compose]

(* compose pull, as far as it gets *)
PullImages(reached) ==
    /\ tag' = [s \in Service |->
           IF s \in reached /\ Reference[s][compose] = Target THEN registry[s] ELSE tag[s]]
    /\ present' = present \cup {Pulled(s) : s \in reached}
    /\ UNCHANGED <<container, data>>

(* compose up -d, as far as it gets; the new containers may write their data. *)
Up(reached) ==
    /\ container' = [s \in Service |-> IF s \in reached THEN Deployed(s) ELSE container[s]]
    /\ present' = present \cup {Deployed(s) : s \in reached}
    /\ \E written \in SUBSET reached :
           data' = [s \in Service |-> IF s \in written THEN Deployed(s) ELSE data[s]]
    /\ UNCHANGED tag

(* A compose up that fails has given the new definition to the services it reached;
   if that is some of those that depend on it, either may be meant by stack. *)
ConfiguredBy(reached) ==
    /\ reached \cap Configured = {} => stack' = stack
    /\ Configured # {} /\ Configured \subseteq reached => stack' = compose

DeployCommand(i) ==
    LET n == deploy[i].at
        failed == deploy'[i].point = "fail"
    IN  /\ \E reached \in IF failed THEN SUBSET Service ELSE {Service} :
               \/ n = 2 /\ PullImages(reached)
               \/ n = 3 /\ Up(reached) /\ (failed => ConfiguredBy(reached))
               \/ n \notin {2, 3} /\ KeepDocker
        /\ disturbed' = (disturbed \/ n \in {2, 3})
        /\ UNCHANGED <<updaterManager, owner, registry, volumes>>

InstallerStep ==
    \/ \E i \in DOMAIN deploy : I!DoPhase(i) /\ DeployCommand(i)
    \/ /\ \/ \E c \in Caller : I!Submit(c) \/ I!Refuse(c) \/ I!Begin(c)
          \/ \E i \in DOMAIN deploy :
                 I!BeginPhase(i) \/ I!FailPhase(i) \/ I!FinishPhase(i) \/ I!FinishDeployment(i)
       /\ UNCHANGED <<vars, disturbed>>

-----------------------------------------------------------------------------
(* What an update does to the configuration of the containers *)

(* Mutant: the updater keeps a copy of the definition it was started with. *)
FirstDefinition == FirstConfig

(* The definition the updater's compose reads. *)
BaseDefinition == compose

(* compose up by worker w; after a failure the container may be the old one. *)
Composes(w) ==
    /\ pc[w] \in {"up", "rbUp"} /\ job[w].service \in Configured /\ Runs(w)
    /\ stack' = BaseDefinition

ComposesNothing(w) ==
    /\ pc[w] \notin {"up", "rbUp"} \/ job[w].service \notin Configured
           \/ pc'[w] \notin {"verify", "rbCopy"}
    /\ stack' = stack

UpdaterStep ==
    /\ \E w \in Worker :
           /\ \/ StartCheck(w) \/ \E s \in Service : StartUpdate(w, s)
              \/ WorkerStep(w)
           /\ disturbed' = IF pc[w] = "none" THEN FALSE ELSE disturbed
           /\ Composes(w) \/ ComposesNothing(w)
    /\ UNCHANGED <<installation, installationFile, compose, attached, request, deploy>>

-----------------------------------------------------------------------------

(* main: both managers are made anew, and the installation is reconciled. *)
CoreRestart == Restart /\ I!Restart /\ UNCHANGED disturbed

PublishTarget ==
    /\ \E s \in Service, i \in Published : Publish(s, i)
    /\ UNCHANGED <<installerVars, disturbed>>

StackInit ==
    /\ installation =
           [I!Installed(I!Deploying(FirstConfig)) EXCEPT !.steps = [n \in I!Phase |-> "done"]]
    /\ installationFile = installation
    /\ compose = FirstConfig /\ stack = FirstConfig /\ attached = TRUE
    /\ request = [c \in Caller |-> None]
    /\ deploy = <<>>
    /\ Init
    /\ \A s \in Service :
           /\ Reference[s][FirstConfig] # Target => container[s] = Reference[s][FirstConfig]
           /\ owner[s] = "before"
    /\ disturbed = FALSE

StackNext == InstallerStep \/ UpdaterStep \/ PublishTarget

StackSpec == StackInit /\ [][StackNext]_stackVars

(* The same with restarts of the Core at any time: they multiply the states, and
   are left to the proofs. *)
RestartingSpec == StackInit /\ [][StackNext \/ CoreRestart]_stackVars

-----------------------------------------------------------------------------
(* Properties *)

(* An update runs compose on the definition in place, whatever its age: still an
   "installed" that is shown or read at the next start names the configuration the
   containers run with, whatever deployments, updates and restarts overlap. *)
InstalledIsTrue == I!InstalledIsTrue

(* What an update records is true in this stack unless a deployment pulled or
   recreated containers while it ran. *)
UndisturbedUpdatesAreTrue == ~disturbed => RolledBackIsComplete /\ SuccessIsComplete

(* README.md:13 "updates with automatic rollback": a rollback that is recorded is
   complete. *)
RollbackIsComplete == RolledBackIsComplete

(* While no job and no deployment runs, and the last ones succeeded, each service
   runs the image the updater has selected for it, as far as it has selected one. *)
SelectedIsRunning ==
    status.state = "idle" /\ installation.state = "installed" =>
        \A s \in Service : selected[s] # None => container[s] = Resolve(s)

=============================================================================
