-------------------------- MODULE AdGuardBootstrap --------------------------
(***************************************************************************)
(* Bootstrap of AdGuard Home: internal/adguard/manager.go.                 *)
(*                                                                         *)
(* A call loads credentials.json.  If there is none it waits for AdGuard's *)
(* setup wizard, generates a password, writes it to a temporary file,      *)
(* submits the wizard and renames the file.  With the credentials it waits *)
(* until AdGuard answers, applies the DNS and filtering baseline and reads *)
(* the status back.  The installer's deployment and POST                   *)
(* /api/adguard/bootstrap may run it at the same time: there is no lock.   *)
(* A step is one HTTP request or one file operation.                       *)
(*                                                                         *)
(* AdGuard itself is outside the repository: it accepts the wizard once,   *)
(* and from then on every request with the password set there.  Loops that *)
(* repeat a request are one step that succeeds or fails in the end.        *)
(*                                                                         *)
(* What may go wrong is chosen at the start and stays (faults), so that    *)
(* one run checks what holds always and what holds without some of it.     *)
(***************************************************************************)
EXTENDS FiniteSets

CONSTANTS
    Caller,     \* the deployment and the requests that call Bootstrap
    Password,   \* generated passwords
    None,       \* no password, no file
    Truncated,  \* what a failed write leaves of a file
    FaultSets   \* the sets of what may happen: see FaultKinds

(* "overlap": calls run at the same time; "request": a request fails; "lost": it
   fails after AdGuard has served it; "disk": a file operation fails; "crash":
   the Core restarts. *)
FaultKinds == {"overlap", "request", "lost", "disk", "crash"}

ASSUME NoneAssumption  == None \notin Password /\ Truncated \notin Password \cup {None}
ASSUME FaultAssumption == FaultSets \subseteq SUBSET FaultKinds

VARIABLES
    adguard,    \* AdGuard's password, None while it shows the wizard
    baseline,   \* what Bootstrap has configured in AdGuard
    temp,       \* .credentials.json.tmp
    stored,     \* credentials.json
    call,       \* the calls of Bootstrap
    faults      \* what may go wrong in this behaviour

vars == <<adguard, baseline, temp, stored, call, faults>>

Content == Password \cup {None, Truncated}

Early == {"idle", "installer", "check", "generate"}
Late  == {"configure", "activate", "cleanup", "ready", "test", "dns", "filtering", "report"}

Idle == [at |-> "idle", password |-> None, result |-> "none"]

Goto(c, point) == call' = [call EXCEPT ![c].at = point]

Finish(c, result) == call' = [call EXCEPT ![c].at = "return", ![c].result = result]

(* install removes the temporary file on every way out once it is written. *)
Leave(c, result) == call' = [call EXCEPT ![c].at = "cleanup", ![c].result = result]

AllIdle == \A c \in Caller : call[c].at = "idle"

RequestMayFail == faults \cap {"request", "lost"} # {}

Fresh == Password \ ({adguard, temp, stored} \cup {call[c].password : c \in Caller})

-----------------------------------------------------------------------------
(* Bootstrap and install *)

(* Mutant: missing credentials are taken for empty ones. *)
BeginAnyway(c) ==
    /\ call[c].at = "idle"
    /\ "overlap" \in faults \/ AllIdle
    /\ call' = [call EXCEPT ![c].at = "ready", ![c].password = stored]
    /\ UNCHANGED <<adguard, baseline, temp, stored>>

Begin(c) ==
    /\ call[c].at = "idle"
    /\ "overlap" \in faults \/ AllIdle
    /\ \/ stored = None /\ Goto(c, "installer")
       \/ /\ stored \in Password
          /\ call' = [call EXCEPT ![c].at = "ready", ![c].password = stored]
       \/ stored = Truncated /\ Finish(c, "error")
    /\ UNCHANGED <<adguard, baseline, temp, stored>>

(* A request to the wizard, which is gone once it was submitted. *)
AskInstaller(c, from, next) ==
    /\ call[c].at = from
    /\ \/ adguard = None /\ Goto(c, next)
       \/ (adguard # None \/ RequestMayFail) /\ Finish(c, "error")
    /\ UNCHANGED <<adguard, baseline, temp, stored>>

WaitForInstaller(c) == AskInstaller(c, "installer", "check")
CheckConfig(c)      == AskInstaller(c, "check", "generate")

(* Mutant: the credentials are written to their final place at once. *)
WriteStored(c) ==
    /\ call[c].at = "generate"
    /\ \E p \in Fresh :
           /\ temp' = p /\ stored' = p
           /\ call' = [call EXCEPT ![c].at = "configure", ![c].password = p]
    /\ UNCHANGED <<adguard, baseline>>

(* generateCredentials and writeCredentials; all calls use one temporary file, which
   os.WriteFile empties before it writes. *)
WriteTemporary(c) ==
    /\ call[c].at = "generate"
    /\ \/ \E p \in Fresh :
           /\ temp' = p
           /\ call' = [call EXCEPT ![c].at = "configure", ![c].password = p]
       \/ "disk" \in faults /\ temp' \in {temp, Truncated} /\ Finish(c, "error")
    /\ UNCHANGED <<adguard, baseline, stored>>

(* Mutant: a refused wizard is taken for a submitted one. *)
ConfigureAnyway(c) ==
    /\ call[c].at = "configure"
    /\ adguard' = IF adguard = None THEN call[c].password ELSE adguard
    /\ Goto(c, "activate")
    /\ UNCHANGED <<baseline, temp, stored>>

Configure(c) ==
    /\ call[c].at = "configure"
    /\ \/ adguard = None /\ adguard' = call[c].password /\ Goto(c, "activate")
       \/ "lost" \in faults /\ adguard = None /\ adguard' = call[c].password /\ Leave(c, "error")
       \/ (adguard # None \/ "request" \in faults) /\ UNCHANGED adguard /\ Leave(c, "error")
    /\ UNCHANGED <<baseline, temp, stored>>

(* The rename; whatever the temporary file holds becomes the credentials. *)
Activate(c) ==
    /\ call[c].at = "activate"
    /\ \/ temp # None /\ stored' = temp /\ temp' = None /\ Leave(c, "none")
       \/ (temp = None \/ "disk" \in faults) /\ UNCHANGED <<stored, temp>> /\ Leave(c, "error")
    /\ UNCHANGED <<adguard, baseline>>

RemoveTemporary(c) ==
    /\ call[c].at = "cleanup"
    /\ temp' = None
    /\ Goto(c, IF call[c].result = "error" THEN "return" ELSE "ready")
    /\ UNCHANGED <<adguard, baseline, stored>>

-----------------------------------------------------------------------------
(* The baseline *)

(* A request to the API; "done" is what it configures. *)
AskApi(c, from, done, next) ==
    /\ call[c].at = from
    /\ \/ /\ adguard = call[c].password /\ baseline' = baseline \cup done
          /\ Goto(c, next)
       \/ /\ adguard # call[c].password \/ "request" \in faults
          /\ UNCHANGED baseline /\ Finish(c, "error")
       \/ /\ "lost" \in faults /\ adguard = call[c].password
          /\ baseline' = baseline \cup done /\ Finish(c, "error")
    /\ UNCHANGED <<adguard, temp, stored>>

WaitUntilReady(c)     == AskApi(c, "ready", {}, "test")
TestUpstream(c)       == AskApi(c, "test", {}, "dns")
ConfigureDNS(c)       == AskApi(c, "dns", {"dns"}, "filtering")
ConfigureFiltering(c) == AskApi(c, "filtering", {"filtering"}, "report")

(* Mutant: the status is read with the credentials at hand. *)
ReportFromMemory(c) ==
    /\ call[c].at = "report"
    /\ \/ adguard = call[c].password /\ Finish(c, "ok")
       \/ (adguard # call[c].password \/ RequestMayFail) /\ Finish(c, "error")
    /\ UNCHANGED <<adguard, baseline, temp, stored>>

(* Status loads the credentials again; they are there by now. *)
Report(c) ==
    /\ call[c].at = "report"
    /\ \/ adguard = stored /\ Finish(c, "ok")
       \/ (adguard # stored \/ RequestMayFail) /\ Finish(c, "error")
    /\ UNCHANGED <<adguard, baseline, temp, stored>>

Return(c) ==
    /\ call[c].at = "return"
    /\ call' = [call EXCEPT ![c] = Idle]
    /\ UNCHANGED <<adguard, baseline, temp, stored>>

-----------------------------------------------------------------------------

(* The Core restarts; the deferred removal of the temporary file is lost. *)
Crash ==
    /\ "crash" \in faults
    /\ call' = [c \in Caller |-> Idle]
    /\ UNCHANGED <<adguard, baseline, temp, stored>>

Init ==
    /\ adguard = None /\ baseline = {}
    /\ temp = None /\ stored = None
    /\ call = [c \in Caller |-> Idle]
    /\ faults \in FaultSets

Step(c) ==
    \/ WaitForInstaller(c) \/ CheckConfig(c) \/ WriteTemporary(c) \/ Configure(c)
    \/ Activate(c) \/ RemoveTemporary(c)
    \/ WaitUntilReady(c) \/ TestUpstream(c) \/ ConfigureDNS(c) \/ ConfigureFiltering(c)
    \/ Report(c) \/ Return(c)

Next ==
    /\ \/ \E c \in Caller : Begin(c) \/ Step(c)
       \/ Crash
    /\ UNCHANGED faults

Spec == Init /\ [][Next]_vars

-----------------------------------------------------------------------------
(* Properties *)

(* Every variable stays in the set of values the code can give it; a call that
   talks to AdGuard's API holds a password. *)
TypeOK ==
    /\ adguard \in Password \cup {None}
    /\ baseline \subseteq {"dns", "filtering"}
    /\ temp \in Content /\ stored \in Content
    /\ call \in [Caller ->
           [at: Early, password: {None}, result: {"none"}]
           \cup [at: Late, password: Password, result: {"none", "error"}]
           \cup [at: {"return"}, password: Password \cup {None}, result: {"ok", "error"}]]
    /\ faults \subseteq FaultKinds

(* A Bootstrap that reports success left credentials that open AdGuard, and the
   whole baseline in force, whatever other calls did meanwhile. *)
SuccessIsReal ==
    \A c \in Caller : call[c].at = "return" /\ call[c].result = "ok" =>
        stored = adguard /\ adguard # None /\ baseline = {"dns", "filtering"}

(* credentials.json is written once: no later or concurrent call, failure or
   restart replaces it. *)
StoredOnce == [][stored # None => stored' = stored]_vars

(* The stored credentials are those of AdGuard, also after failed requests, file
   operations and restarts, as long as calls do not overlap. *)
StoredIsInForce == "overlap" \notin faults /\ stored # None => stored = adguard

(* installer/manager.go:131 "start the deployment again. RootGuard reuses its
   persisted configuration safely.": no interruption leaves an AdGuard that no
   later Bootstrap can log in to. *)
NeverLockedOut == AllIdle /\ adguard # None => stored = adguard

=============================================================================
