------------------------- MODULE DiagnosticLogging -------------------------
(***************************************************************************)
(* Temporary diagnostic logging of the resolver:                           *)
(* internal/unbound/diagnostic_logging.go.                                 *)
(*                                                                         *)
(* Start and Stop send a verbosity to the container and only then, under   *)
(* diagnosticMu, set or clear the expiry and the timer.  The timer's       *)
(* callback does what Stop does and arms a new timer when that fails.      *)
(* Apply restarts the container, which returns it to the saved verbosity,  *)
(* and then resets the expiry.  A step is one docker command or one        *)
(* critical section; the read of the settings belongs to the step that     *)
(* begins a call.                                                          *)
(*                                                                         *)
(* Time: the expiry is none, still to come, or past; it passes when the    *)
(* timer armed with it fires.  Timers are names that are used again once   *)
(* nothing refers to them; a step that needs a free one waits for it.      *)
(* What may go wrong is chosen at the start and stays (faults), so that    *)
(* one run checks what holds always and what holds without some of it.     *)
(***************************************************************************)
EXTENDS FiniteSets

CONSTANTS
    Quiet,     \* the levels the settings allow: 0 and 1
    Verbose,   \* the level of a diagnostic session: 2
    Initial,   \* the level of the default settings and of a new manager: 1
    Caller,    \* concurrent requests
    Timer,     \* timers in existence at one time
    None,      \* no timer
    FaultSets  \* the sets of what may happen: see FaultKinds

(* "overlap": calls other than Start are in progress at the same time; "race": a
   Start and another call are; "command": a command fails; "lost": it fails after
   it has taken effect; "control": others restart the container; "core": the Core
   restarts. *)
FaultKinds == {"overlap", "race", "command", "lost", "control", "core"}

ASSUME LevelAssumption == Initial \in Quiet /\ Verbose \notin Quiet
ASSUME TimerAssumption == None \notin Timer /\ Caller \cap Timer = {}
ASSUME FaultAssumption == FaultSets \subseteq SUBSET FaultKinds

VARIABLES
    level,      \* the verbosity of the running resolver
    saved,      \* log_verbosity in settings.json
    expiresAt,  \* diagnosticExpiresAt
    timer,      \* diagnosticTimer
    base,       \* diagnosticBaseLevel
    armed,      \* the timers that will fire
    call,       \* the requests, and the callbacks of fired timers
    faults      \* what may go wrong in this behaviour

vars == <<level, saved, expiresAt, timer, base, armed, call, faults>>

Process == Caller \cup Timer
Call    == [op: {"start", "stop", "expire", "apply"},
            at: {"idle", "command", "settle", "retry"}, level: Quiet]

Idle == [op |-> "stop", at |-> "idle", level |-> Initial]

(* The names for a new timer when the timers in gone are no more. *)
FreeWithout(gone) ==
    {t \in Timer : t \in gone \/ (t # timer /\ t \notin armed /\ call[t].at = "idle")}

Free == FreeWithout({})

(* Start stops the current timer, whose name is free unless its callback runs. *)
FreeOnStart == FreeWithout({t \in {timer} \ {None} : call[t].at = "idle"})

Goto(p, point) == call' = [call EXCEPT ![p].at = point]

Finish(p) == call' = [call EXCEPT ![p] = Idle]

AllIdle == \A p \in Process : call[p].at = "idle"

-----------------------------------------------------------------------------
(* The calls *)

MayBegin(op) ==
    \A p \in Process : call[p].at # "idle" =>
        (IF "start" \in {op, call[p].op} THEN "race" ELSE "overlap") \in faults

Begin(p, op, l) ==
    /\ MayBegin(op)
    /\ call[p].at = "idle"
    /\ call' = [call EXCEPT ![p] = [op |-> op, at |-> "command", level |-> l]]
    /\ UNCHANGED <<level, saved, expiresAt, timer, base, armed>>

BeginStart(c) == Begin(c, "start", saved)
BeginStop(c)  == Begin(c, "stop", saved)

(* applyMu: one activation at a time. *)
BeginApply(c) ==
    /\ \A d \in Caller : call[d].at = "idle" \/ call[d].op # "apply"
    /\ \E l \in Quiet : Begin(c, "apply", l)

(* A timer fires; its callback begins like Stop. *)
Fire(t) ==
    /\ t \in armed /\ MayBegin("expire")
    /\ armed' = armed \ {t}
    /\ expiresAt' = IF t = timer THEN "past" ELSE expiresAt
    /\ call' = [call EXCEPT ![t] = [op |-> "expire", at |-> "command", level |-> saved]]
    /\ UNCHANGED <<level, saved, timer, base>>

Sent(r) == IF r.op = "start" THEN Verbose ELSE r.level

(* unbound-control verbosity; a request that fails ends, a callback retries. *)
CommandSucceeds(p) ==
    /\ call[p].at = "command" /\ call[p].op # "apply"
    /\ level' = Sent(call[p])
    /\ Goto(p, "settle")
    /\ UNCHANGED <<saved, expiresAt, timer, base, armed>>

CommandFails(p) ==
    /\ call[p].at = "command" /\ call[p].op # "apply"
    /\ \/ "command" \in faults /\ UNCHANGED level
       \/ "lost" \in faults /\ level' = Sent(call[p])
    /\ IF call[p].op = "expire" THEN Goto(p, "retry") ELSE Finish(p)
    /\ UNCHANGED <<saved, expiresAt, timer, base, armed>>

(* The files and the restart of applyStateLocked: the container starts with the
   new settings, or with the old ones, which are then back. *)
ActivateAndRestart(p) ==
    /\ call[p].at = "command" /\ call[p].op = "apply"
    /\ \/ saved' = call[p].level /\ level' = saved' /\ Goto(p, "settle")
       \/ "command" \in faults /\ level' \in {level, saved} /\ UNCHANGED saved /\ Finish(p)
    /\ UNCHANGED <<expiresAt, timer, base, armed>>

(* Mutant: the timer of the session before keeps running. *)
SettleStartKeepingTimer(p) ==
    /\ call[p].at = "settle" /\ call[p].op = "start"
    /\ \E t \in Free : armed' = armed \cup {t} /\ timer' = t
    /\ expiresAt' = "future"
    /\ base' = call[p].level
    /\ Finish(p)
    /\ UNCHANGED <<level, saved>>

SettleStart(p) ==
    /\ call[p].at = "settle" /\ call[p].op = "start"
    /\ \E t \in FreeOnStart : armed' = (armed \ {timer}) \cup {t} /\ timer' = t
    /\ expiresAt' = "future"
    /\ base' = call[p].level
    /\ Finish(p)
    /\ UNCHANGED <<level, saved>>

(* The end of stopDiagnosticLogging, and resetDiagnosticLoggingState. *)
SettleStop(p) ==
    /\ call[p].at = "settle" /\ call[p].op # "start"
    /\ armed' = armed \ {timer} /\ timer' = None
    /\ expiresAt' = "none"
    /\ base' = call[p].level
    /\ Finish(p)
    /\ UNCHANGED <<level, saved>>

(* Mutant: a callback that fails gives up and clears the state. *)
RetryNever(t) ==
    /\ call[t].at = "retry"
    /\ timer' = None
    /\ expiresAt' = "none"
    /\ Finish(t)
    /\ UNCHANGED <<level, saved, base, armed>>

(* Mutant: a callback that fails announces a retry and arms no timer. *)
RetryWithoutTimer(t) ==
    /\ call[t].at = "retry"
    /\ expiresAt' = "future"
    /\ Finish(t)
    /\ UNCHANGED <<level, saved, timer, base, armed>>

(* The end of expireDiagnosticLogging after a failure; the fired timer is gone. *)
Retry(t) ==
    /\ call[t].at = "retry"
    /\ \E u \in FreeWithout({t}) : armed' = armed \cup {u} /\ timer' = u
    /\ expiresAt' = "future"
    /\ Finish(t)
    /\ UNCHANGED <<level, saved, base>>

-----------------------------------------------------------------------------
(* Others *)

(* ControlService or an update of the resolver: it starts with its settings. *)
ControlRestart ==
    /\ "control" \in faults
    /\ level' = saved
    /\ UNCHANGED <<saved, expiresAt, timer, base, armed, call>>

(* NewManager; the container is not touched. *)
CoreRestart ==
    /\ "core" \in faults
    /\ expiresAt' = "none" /\ timer' = None /\ armed' = {}
    /\ base' = Initial
    /\ call' = [p \in Process |-> Idle]
    /\ UNCHANGED <<level, saved>>

-----------------------------------------------------------------------------

Init ==
    /\ level = Initial /\ saved = Initial
    /\ expiresAt = "none" /\ timer = None /\ armed = {}
    /\ base = Initial
    /\ call = [p \in Process |-> Idle]
    /\ faults \in FaultSets

Proceed(p) ==
    CommandSucceeds(p) \/ CommandFails(p) \/ ActivateAndRestart(p)
        \/ SettleStart(p) \/ SettleStop(p) \/ Retry(p)

Next ==
    /\ \/ \E c \in Caller : BeginStart(c) \/ BeginStop(c) \/ BeginApply(c)
       \/ \E t \in Timer : Fire(t)
       \/ \E p \in Process : Proceed(p)
       \/ ControlRestart \/ CoreRestart
    /\ UNCHANGED faults

Spec == Init /\ [][Next]_vars

(* Calls proceed, time passes and timers fire whatever requests come, and a
   command that is tried again and again succeeds in the end. *)
FairSpec ==
    /\ Spec
    /\ \A p \in Process :
           /\ WF_vars(Proceed(p) /\ UNCHANGED faults)
           /\ SF_vars(CommandSucceeds(p) /\ UNCHANGED faults)
    /\ \A t \in Timer : SF_vars(Fire(t) /\ UNCHANGED faults)

-----------------------------------------------------------------------------
(* Properties *)

(* Every variable stays in the set of values the code can give it. *)
TypeOK ==
    /\ level \in Quiet \cup {Verbose}
    /\ saved \in Quiet
    /\ expiresAt \in {"none", "future", "past"}
    /\ timer \in Timer \cup {None}
    /\ base \in Quiet
    /\ armed \subseteq Timer
    /\ call \in [Process -> Call]
    /\ faults \subseteq FaultKinds

(* A session that is announced is going to be ended: as long as there is an
   expiry, the timer set with it is armed or its callback is at work, however
   requests, callbacks, failures and restarts interleave. *)
AnnouncedSessionEnds ==
    expiresAt # "none" =>
        /\ timer # None
        /\ timer \in armed \/ (call[timer].op = "expire" /\ call[timer].at # "idle")

(* A session is not cut short by the timer of an earlier one: unless a Start
   overlaps another call, no timer but the current one is armed, whatever
   failures, retries and overlaps of other calls there are. *)
OneTimer == "race" \notin faults => armed \subseteq {timer}

(* What the status calls inactive is: with no call in progress and no expiry
   the resolver does not log at the diagnostic level.  (A race with Start, a
   command that fails after taking effect and a restart of the Core break it.) *)
InactiveMeansQuiet ==
    AllIdle /\ expiresAt = "none" /\ faults \cap {"race", "lost", "core"} = {} => level # Verbose

(* docs/api.md:127 calls the logging that a request starts "bounded temporary":
   InactiveMeansQuiet without the exceptions. *)
AlwaysQuietAfterwards == AllIdle /\ expiresAt = "none" => level # Verbose

Starting == \E c \in Caller : call[c].op = "start" /\ call[c].at # "idle"

(* Diagnostic logging is temporary: the resolver always leaves the diagnostic
   level again unless sessions keep being started, or one of the exceptions of
   InactiveMeansQuiet happens. *)
LoggingIsTemporary ==
    faults \cap {"race", "lost", "core"} = {} => []<>(level # Verbose \/ Starting)

=============================================================================
