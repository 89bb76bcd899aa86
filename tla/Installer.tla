----------------------------- MODULE Installer -----------------------------
(***************************************************************************)
(* The guided installation: internal/installer/manager.go.                 *)
(*                                                                         *)
(* Start runs the preflight without a lock, then under m.mu refuses a      *)
(* second deployment, persists the new status and starts the goroutine     *)
(* deploy, which writes compose.yaml, pulls, starts, connects the Core and *)
(* bootstraps AdGuard.  Every step is reported in the status and mirrored  *)
(* in status.json; only some errors of the mirroring are heeded.  A new    *)
(* manager loads status.json and gives up a deployment it finds under way; *)
(* at startup Reconcile attaches the Core to the DNS network again.        *)
(*                                                                         *)
(* Data: a configuration is a model value, a diagnostic is the phase it    *)
(* names, messages and times are left out.  A step is one docker command,  *)
(* one file operation or one critical section.                             *)
(***************************************************************************)
EXTENDS Naturals, Sequences, FiniteSets
SE == INSTANCE SequencesExt

CONSTANTS
    Config,      \* requested configurations
    Invalid,     \* those the preflight refuses whatever docker says
    Caller,      \* concurrent requests to Start
    None,        \* no configuration, no file, no phase
    Faults       \* what may go wrong: see FaultKinds

(* "command": a docker command, the health of the resolver or the bootstrap
   fails; "disk": a write fails; "restart": the Core restarts; "replace": the
   Core's container is replaced, which also loses the network attachment;
   "reconcile": the command of Reconcile fails. *)
FaultKinds == {"command", "disk", "restart", "replace", "reconcile"}

ASSUME ConfigAssumption ==
    Invalid \subseteq Config /\ None \notin Config /\ Config \cap Caller = {}
ASSUME FaultAssumption == Faults \subseteq FaultKinds

Phases == <<"prepare", "pull", "start", "connect", "bootstrap">>
Phase  == 1..Len(Phases)

VARIABLES
    status,    \* m.status
    file,      \* status.json
    compose,   \* the configuration in compose.yaml
    stack,     \* the configuration the containers run with
    attached,  \* the Core is attached to the network rootguard-dns
    request,   \* the calls of Start
    deploy     \* the deployment goroutines

vars == <<status, file, compose, stack, attached, request, deploy>>

States == {"not_installed", "deploying", "installed", "failed"}
Marks  == {"pending", "running", "done", "failed"}

Status == [state: States, config: Config \cup {None},
           steps: {<<>>} \cup [Phase -> Marks],
           diagnostic: {Phases[n] : n \in Phase} \cup {"recovery", None}]

ASSUME NoneAssumption ==
    None \notin Status /\ None \notin {Phases[n] : n \in Phase} \cup {"recovery"}

NotInstalled == [state |-> "not_installed", config |-> None, steps |-> <<>>, diagnostic |-> None]

Deploying(cfg) == [state |-> "deploying", config |-> cfg,
                   steps |-> [n \in Phase |-> "pending"], diagnostic |-> None]

-----------------------------------------------------------------------------
(* The status and its file *)

(* persistLocked: the file holds the new status or, after an error, the old one. *)
PersistIgnoringErrors(s) ==
    /\ status' = s
    /\ file' \in {s} \cup (IF "disk" \in Faults THEN {file} ELSE {})

(* setStep *)
Marked(s, n, mark) == [s EXCEPT !.steps[n] = mark]

(* fail *)
Failed(s, n) ==
    [s EXCEPT !.state = "failed", !.diagnostic = Phases[n],
              !.steps = [k \in Phase |-> IF s.steps[k] = "running" THEN "failed" ELSE s.steps[k]]]

Installed(s) == [s EXCEPT !.state = "installed", !.diagnostic = None]

-----------------------------------------------------------------------------
(* Start *)

Submit(c) ==
    /\ request[c] = None
    /\ \E cfg \in Config : request' = [request EXCEPT ![c] = cfg]
    /\ UNCHANGED <<status, file, compose, stack, attached, deploy>>

Refuse(c) ==
    /\ request[c] # None
    /\ request[c] \in Invalid \/ "command" \in Faults \/ status.state = "deploying"
    /\ request' = [request EXCEPT ![c] = None]
    /\ UNCHANGED <<status, file, compose, stack, attached, deploy>>

(* Mutant: the state is looked at during the preflight only. *)
BeginAnyway(c) ==
    /\ request[c] \in Config \ Invalid
    /\ status' = Deploying(request[c]) /\ file' = status'
    /\ deploy' = Append(deploy, [config |-> request[c], at |-> 1, point |-> "begin"])
    /\ request' = [request EXCEPT ![c] = None]
    /\ UNCHANGED <<compose, stack, attached>>

Begin(c) ==
    /\ request[c] \in Config \ Invalid
    /\ status.state # "deploying"
    /\ \/ /\ status' = Deploying(request[c]) /\ file' = status'
          /\ deploy' = Append(deploy, [config |-> request[c], at |-> 1, point |-> "begin"])
       \/ /\ "disk" \in Faults /\ UNCHANGED <<file, deploy>>
          /\ status' = [Deploying(request[c]) EXCEPT !.state = "failed", !.diagnostic = "prepare"]
    /\ request' = [request EXCEPT ![c] = None]
    /\ UNCHANGED <<compose, stack, attached>>

-----------------------------------------------------------------------------
(* deploy *)

Advance(i, n, point) == deploy' = [deploy EXCEPT ![i].at = n, ![i].point = point]

End(i) == deploy' = SE!RemoveAt(deploy, i)

(* Mutant: the goroutine returns without a word. *)
FailSilently(i, s, n) == UNCHANGED <<status, file>> /\ End(i)

(* The failure of a phase: fail, then the goroutine ends. *)
Fail(i, s, n) ==
    /\ PersistIgnoringErrors(Failed(s, n))
    /\ End(i)

(* setStep(..., "running"): an error counts in the first phase only. *)
BeginPhase(i) ==
    LET n == deploy[i].at IN
    /\ deploy[i].point = "begin"
    /\ \/ /\ status' = Marked(status, n, "running")
          /\ \/ file' = status'
             \/ "disk" \in Faults /\ n > 1 /\ UNCHANGED file
          /\ Advance(i, n, "work")
       \/ "disk" \in Faults /\ n = 1 /\ Fail(i, Marked(status, n, "running"), n)
    /\ UNCHANGED <<compose, stack, attached, request>>

(* A write of compose.yaml, a docker command that takes effect, or none. *)
WorkOf(i) ==
    LET n == deploy[i].at IN
    /\ compose'  = IF n = 1 THEN deploy[i].config ELSE compose
    /\ stack'    = IF n = 3 THEN compose ELSE stack
    /\ attached' = (attached \/ n = 4)

(* Mutant: the error of a write or a command is not looked at. *)
DoPhaseUnchecked(i) ==
    LET n == deploy[i].at IN
    /\ deploy[i].point = "work"
    /\ \/ WorkOf(i)
       \/ (IF n = 1 THEN "disk" ELSE "command") \in Faults /\ UNCHANGED <<compose, stack, attached>>
    /\ Advance(i, n, "done")
    /\ UNCHANGED <<status, file, request>>

DoPhase(i) ==
    LET n == deploy[i].at IN
    /\ deploy[i].point = "work"
    /\ \/ WorkOf(i) /\ Advance(i, n, "done")
       \/ /\ (IF n = 1 THEN "disk" ELSE "command") \in Faults
          /\ \/ n # 1 /\ WorkOf(i)
             \/ UNCHANGED <<compose, stack, attached>>
          /\ Advance(i, n, "fail")
    /\ UNCHANGED <<status, file, request>>

FailPhase(i) ==
    /\ deploy[i].point = "fail"
    /\ Fail(i, status, deploy[i].at)
    /\ UNCHANGED <<compose, stack, attached, request>>

(* setStep(..., "done"): its errors are dropped. *)
FinishPhase(i) ==
    LET n == deploy[i].at IN
    /\ deploy[i].point = "done"
    /\ PersistIgnoringErrors(Marked(status, n, "done"))
    /\ IF n < Len(Phases) THEN Advance(i, n + 1, "begin") ELSE Advance(i, n, "finish")
    /\ UNCHANGED <<compose, stack, attached, request>>

FinishDeployment(i) ==
    /\ deploy[i].point = "finish"
    /\ PersistIgnoringErrors(Installed(status))
    /\ End(i)
    /\ UNCHANGED <<compose, stack, attached, request>>

-----------------------------------------------------------------------------
(* Restarts of the Core *)

(* Mutant: an interrupted deployment is taken up as it was found. *)
LoadedAsFound == IF file = None THEN NotInstalled ELSE file

(* load and the check for an interrupted deployment in NewManager. *)
Loaded ==
    IF file = None THEN NotInstalled
    ELSE IF file.state = "deploying"
         THEN [file EXCEPT !.state = "failed", !.diagnostic = "recovery"]
         ELSE file

(* Mutant: nothing is reconciled. *)
RestartWithoutReconcile ==
    /\ Faults \cap {"restart", "replace"} # {}
    /\ status' = Loaded
    /\ IF status' # file /\ file # None
       THEN file' \in {status'} \cup (IF "disk" \in Faults THEN {file} ELSE {})
       ELSE UNCHANGED file
    /\ request' = [c \in Caller |-> None]
    /\ deploy' = <<>>
    /\ attached' \in {attached} \cup (IF "replace" \in Faults THEN {FALSE} ELSE {})
    /\ UNCHANGED <<compose, stack>>

(* main: NewManager, then Reconcile before the API is served. *)
Restart ==
    /\ Faults \cap {"restart", "replace"} # {}
    /\ status' = Loaded
    /\ IF status' # file /\ file # None
       THEN file' \in {status'} \cup (IF "disk" \in Faults THEN {file} ELSE {})
       ELSE UNCHANGED file
    /\ request' = [c \in Caller |-> None]
    /\ deploy' = <<>>
    /\ \E kept \in {attached} \cup (IF "replace" \in Faults THEN {FALSE} ELSE {}) :
           \/ status'.state = "installed" /\ attached' = TRUE
           \/ (status'.state # "installed" \/ "reconcile" \in Faults) /\ attached' = kept
    /\ UNCHANGED <<compose, stack>>

-----------------------------------------------------------------------------

Init ==
    /\ status = NotInstalled /\ file = None
    /\ compose = None /\ stack = None /\ attached = FALSE
    /\ request = [c \in Caller |-> None]
    /\ deploy = <<>>

Deploy(i) ==
    BeginPhase(i) \/ DoPhase(i) \/ FailPhase(i) \/ FinishPhase(i) \/ FinishDeployment(i)

Next ==
    \/ \E c \in Caller : Submit(c) \/ Refuse(c) \/ Begin(c)
    \/ \E i \in DOMAIN deploy : Deploy(i)
    \/ Restart

Spec == Init /\ [][Next]_vars

(* A deployment goes on; its context ends every command after ten minutes. *)
FairSpec == Spec /\ WF_vars(\E i \in DOMAIN deploy : Deploy(i))

-----------------------------------------------------------------------------
(* Properties *)

(* Every variable stays in the set of values the code can give it, and there is
   never more than one deployment goroutine. *)
TypeOK ==
    /\ status \in Status /\ file \in Status \cup {None}
    /\ compose \in Config \cup {None} /\ stack \in Config \cup {None}
    /\ attached \in BOOLEAN
    /\ request \in [Caller -> Config \cup {None}]
    /\ Len(deploy) <= 1
    /\ \A i \in DOMAIN deploy : deploy[i] \in
           [config: Config, at: Phase, point: {"begin", "work", "fail", "done", "finish"}]

(* The status says "deploying" exactly while a deployment runs, and it is the
   deployment of the configuration it shows: concurrent requests, failing
   writes and restarts neither hide one nor leave one behind. *)
DeployingIsTrue ==
    /\ status.state = "deploying" <=> deploy # <<>>
    /\ \A i \in DOMAIN deploy : deploy[i].config = status.config

(* "installed", in memory or in the file that the next start will read, means
   that the containers run with the configuration shown. *)
InstalledIsTrue ==
    \A s \in {status, file} \ {None} :
        s.state = "installed" => s.config = stack /\ s.config = compose

(* A failed status names the one step that failed, those before it are done and
   those after it were not begun; an interrupted one has no failed step. *)
FailureIsNamed ==
    status.state = "failed" =>
        LET failed == {n \in DOMAIN status.steps : status.steps[n] = "failed"} IN
        /\ status.diagnostic # None
        /\ failed # {} => \E n \in failed :
               /\ failed = {n} /\ status.diagnostic = Phases[n]
               /\ \A k \in Phase : status.steps[k] =
                      IF k < n THEN "done" ELSE IF k = n THEN "failed" ELSE "pending"
        /\ failed = {} => status.diagnostic \in {"recovery", "prepare"}

(* The status tells the truth about the deployment: while it runs, and how far it
   came when it failed. *)
StatusIsTrue == DeployingIsTrue /\ FailureIsNamed

(* An installed system can be reached: unless Reconcile fails, the Core is
   attached to the DNS network, also after its container was replaced. *)
InstalledIsAttached == status.state = "installed" => attached

(* Every deployment ends. *)
DeploymentEnds == status.state = "deploying" ~> status.state # "deploying"

=============================================================================
