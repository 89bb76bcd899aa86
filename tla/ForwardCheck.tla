---------------------------- MODULE ForwardCheck ----------------------------
(***************************************************************************)
(* The probe of forwarding targets: CheckForwardTargets in                 *)
(* internal/unbound/forwarding.go.                                         *)
(*                                                                         *)
(* A request's goroutine hands the targets one by one over an unbuffered   *)
(* channel to at most Workers goroutines, or gives up when the context of  *)
(* the whole check is done, closes the channel and waits for the workers.  *)
(* A worker runs one dig per target and writes the result to the target's  *)
(* own place.  When several cases of a select are ready, any is taken.     *)
(*                                                                         *)
(* Time is counted in units.  It passes (Tick) while every goroutine waits *)
(* for a dig; other steps take none.  dig gives up on a silent target      *)
(* after Patience, a hanging docker exec is killed after TargetTimeout,    *)
(* and everything is killed when the context is done.  The contents of     *)
(* answers are abstracted to their verdict.                                *)
(***************************************************************************)
EXTENDS Integers, FiniteSets

CONSTANTS
    Workers,        \* forwardCheckWorkers: 4
    MaxTargets,     \* maxForwardTargets: 32
    Patience,       \* dig +time=3 +tries=1: 3 s
    TargetTimeout,  \* forwardCheckTargetTimeout: 4 s
    TotalTimeout,   \* forwardCheckTotalTimeout: 20 s
    FaultSets       \* the sets of what may happen: see FaultKinds

(* "hang": docker exec does not return when dig should have; "cancel": the
   request is cancelled. *)
FaultKinds == {"hang", "cancel"}

ASSUME SizeAssumption == Workers \in Nat \ {0} /\ MaxTargets \in Nat
ASSUME TimeAssumption ==
    /\ {Patience, TargetTimeout, TotalTimeout} \subseteq Nat \ {0}
    /\ Patience < TargetTimeout /\ TargetTimeout < TotalTimeout
ASSUME FaultAssumption == FaultSets \subseteq SUBSET FaultKinds

VARIABLES
    targets,    \* the number of targets
    next,       \* the target the request's goroutine hands over next
    caller,     \* where that goroutine is
    outcome,    \* what it returns
    closed,     \* jobs is closed
    worker,     \* the workers: where each is, its target, since when
    results,    \* the slice of results
    now,        \* time since the check began
    cancelled,  \* the request's context is cancelled
    faults      \* what may go wrong in this behaviour

vars == <<targets, next, caller, outcome, closed, worker, results, now, cancelled, faults>>

Worker == 1..Workers
Target == 1..targets

(* "cut": the command was killed and says nothing about the target. *)
Verdict == {"reachable", "unreachable", "cut"}

Done == cancelled \/ now = TotalTimeout

-----------------------------------------------------------------------------
(* The request's goroutine *)

Handover(w) ==
    /\ caller = "dispatch" /\ next <= targets
    /\ worker[w].at = "receive"
    /\ worker' = [worker EXCEPT ![w] = [at |-> "probe", item |-> next, since |-> now]]
    /\ next' = next + 1
    /\ UNCHANGED <<caller, outcome, closed, results>>

Close ==
    /\ caller = "dispatch" /\ next > targets
    /\ caller' = "wait" /\ closed' = TRUE
    /\ UNCHANGED <<next, outcome, worker, results>>

(* Mutant: the channel stays open when the check gives up. *)
GiveUpWithoutClose ==
    /\ caller = "dispatch" /\ next <= targets /\ Done
    /\ caller' = "wait" /\ outcome' = "timeout"
    /\ UNCHANGED <<next, closed, worker, results>>

GiveUp ==
    /\ caller = "dispatch" /\ next <= targets /\ Done
    /\ caller' = "wait" /\ closed' = TRUE /\ outcome' = "timeout"
    /\ UNCHANGED <<next, worker, results>>

(* Mutant: the results are returned when the last target is handed over. *)
ReturnAtOnce ==
    /\ caller = "wait"
    /\ caller' = "returned"
    /\ outcome' = IF outcome = "none" THEN "ok" ELSE outcome
    /\ UNCHANGED <<next, closed, worker, results>>

(* workers.Wait and the return. *)
Return ==
    /\ caller = "wait"
    /\ \A w \in Worker : worker[w].at = "gone"
    /\ caller' = "returned"
    /\ outcome' = IF outcome = "none" THEN "ok" ELSE outcome
    /\ UNCHANGED <<next, closed, worker, results>>

-----------------------------------------------------------------------------
(* The workers *)

Store(w, verdict) ==
    /\ results' = [results EXCEPT ![worker[w].item] = verdict]
    /\ worker' = [worker EXCEPT ![w] = [at |-> "receive", item |-> 0, since |-> 0]]
    /\ UNCHANGED <<next, caller, outcome, closed>>

Answer(w) ==
    /\ worker[w].at = "probe"
    /\ \E verdict \in {"reachable", "unreachable"} : Store(w, verdict)

(* dig gives up. *)
LosePatience(w) ==
    /\ worker[w].at = "probe" /\ now = worker[w].since + Patience
    /\ Store(w, "unreachable")

(* Mutant: a target has the time of the whole check. *)
KilledAtTheEnd(w) == Done

Killed(w) == Done \/ now >= worker[w].since + TargetTimeout

(* exec.CommandContext kills the command. *)
Kill(w) ==
    /\ worker[w].at = "probe" /\ Killed(w)
    /\ Store(w, "cut")

(* The worker finds the channel closed; workers.Done. *)
Leave(w) ==
    /\ worker[w].at = "receive" /\ closed
    /\ worker' = [worker EXCEPT ![w].at = "gone"]
    /\ UNCHANGED <<next, caller, outcome, closed, results>>

-----------------------------------------------------------------------------

(* A probe may wait on; nothing else is left to do at this time. *)
MayWait(w) ==
    \/ worker[w].at = "gone"
    \/ worker[w].at = "receive" /\ ~closed /\ (caller # "dispatch" \/ next > targets)
    \/ /\ worker[w].at = "probe" /\ ~Killed(w)
       /\ now < worker[w].since + Patience \/ "hang" \in faults

Tick ==
    /\ caller \in {"dispatch", "wait"}
    /\ caller = "dispatch" => next <= targets
    /\ \A w \in Worker : MayWait(w)
    /\ \E w \in Worker : worker[w].at = "probe"
    /\ ~Done
    /\ now' = now + 1
    /\ UNCHANGED <<next, caller, outcome, closed, worker, results, cancelled>>

Cancel ==
    /\ "cancel" \in faults /\ caller # "returned" /\ ~cancelled
    /\ cancelled' = TRUE
    /\ UNCHANGED <<next, caller, outcome, closed, worker, results, now>>

(* Without targets the check returns at once; min(Workers, targets) goroutines
   are started. *)
Init ==
    /\ targets \in 0..MaxTargets
    /\ faults \in FaultSets
    /\ next = 1 /\ closed = FALSE
    /\ caller = IF targets = 0 THEN "returned" ELSE "dispatch"
    /\ outcome = IF targets = 0 THEN "ok" ELSE "none"
    /\ worker = [w \in Worker |->
           [at |-> IF w <= targets THEN "receive" ELSE "gone", item |-> 0, since |-> 0]]
    /\ results = [t \in Target |-> "none"]
    /\ now = 0 /\ cancelled = FALSE

Step ==
    /\ \/ \E w \in Worker :
              Handover(w) \/ Answer(w) \/ LosePatience(w) \/ Kill(w) \/ Leave(w)
       \/ Close \/ GiveUp \/ Return
    /\ UNCHANGED <<now, cancelled>>

Next == (Step \/ Tick \/ Cancel) /\ UNCHANGED <<targets, faults>>

(* What happens without the targets' help; a dig that hangs does not give up. *)
OwnStep ==
    /\ \/ \E w \in Worker :
              \/ Handover(w) \/ Kill(w) \/ Leave(w)
              \/ "hang" \notin faults /\ LosePatience(w)
       \/ Close \/ GiveUp \/ Return
    /\ UNCHANGED <<now, cancelled>>

Spec == Init /\ [][Next]_vars

(* Goroutines that can go on do, and time passes; no target needs to answer. *)
FairSpec == Spec /\ WF_vars((OwnStep \/ Tick) /\ UNCHANGED <<targets, faults>>)

-----------------------------------------------------------------------------
(* Properties *)

(* Every variable stays in the set of values the code can give it. *)
TypeOK ==
    /\ targets \in 0..MaxTargets
    /\ next \in 1..(targets + 1)
    /\ caller \in {"dispatch", "wait", "returned"}
    /\ outcome \in {"none", "ok", "timeout"}
    /\ closed \in BOOLEAN
    /\ worker \in [Worker -> [at: {"receive", "probe", "gone"}, item: 0..targets,
                              since: 0..TotalTimeout]]
    /\ results \in [Target -> Verdict \cup {"none"}]
    /\ now \in 0..TotalTimeout
    /\ cancelled \in BOOLEAN

(* Each target has its one result: it is probed by one worker, nothing writes to
   its place before or after, a check that returns without error has a result
   for every target, and no worker is left behind to write after the return. *)
ResultsBelong ==
    /\ \A t \in Target :
           LET probing == {w \in Worker : worker[w].at = "probe" /\ worker[w].item = t} IN
           /\ Cardinality(probing) <= 1
           /\ results[t] = "none" <=> t >= next \/ probing # {}
    /\ caller = "returned" => \A w \in Worker : worker[w].at = "gone"
    /\ outcome = "ok" => \A t \in Target : results[t] # "none"

(* How long a probe may take without being killed. *)
Longest == IF "hang" \in faults THEN TargetTimeout ELSE Patience

(* So many targets can be probed one after the other by all workers, even if
   none of them answers. *)
Capacity == Workers * ((TotalTimeout - 1) \div Longest)

(* Up to that many targets the deadline of the whole check takes no target's
   time: unless the request is cancelled, the check does not time out, and a
   result is cut short by the target's own limit only.  That limit holds for every
   probe. *)
EveryProbeHasItsTime ==
    /\ "cancel" \notin faults /\ targets <= Capacity =>
           /\ outcome # "timeout"
           /\ "hang" \notin faults => \A t \in Target : results[t] # "cut"
    /\ \A w \in Worker :
           worker[w].at = "probe" => now <= worker[w].since + TargetTimeout

(* Every check returns, whatever the targets do. *)
CheckReturns == <>(caller = "returned")

(* settings.go:23 admits maxForwardTargets targets, for which EveryProbeHasItsTime
   would have to hold: a check that is not cancelled does not time out. *)
NoTimeout == "cancel" \notin faults => outcome # "timeout"

(* A check without error has asked every target: a result that was cut short is
   not returned as one. *)
CutMeansError == outcome = "ok" => \A t \in Target : results[t] # "cut"

=============================================================================
