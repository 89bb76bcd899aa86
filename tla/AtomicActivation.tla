-------------------------- MODULE AtomicActivation --------------------------
(***************************************************************************)
(* What the configuration manager promises of the configuration in force,  *)
(* without files, checks or commands: it is one register that holds a pair *)
(* of guided settings and expert text, and requests change it one at a     *)
(* time, in one step or not at all.  A request names one half or both; the *)
(* other half is the one in force.  Only a legal pair is accepted, and the *)
(* resolver then runs it.  A request may try its pair on the resolver      *)
(* before; once it is refused, the resolver runs what is in force, or what *)
(* it ran before the request.  After a rollback reported as broken nothing *)
(* is said of the resolver until the next request is accepted.             *)
(***************************************************************************)
CONSTANTS
    Settings, Custom,
    First,         \* the pair in force at the start
    Legal          \* the pairs that may come into force

VARIABLES
    inForce,   \* the pair in force
    resolver,  \* the pair the resolver runs
    turn       \* the request being served

vars == <<inForce, resolver, turn>>

Operations == {"apply", "custom", "restore"}

NoTurn == [op |-> "none", wanted |-> First, before |-> First, verdict |-> "none"]

(* The pair that a request for the settings s, the text t, or both leads to. *)
Requested(op, s, t) ==
    <<IF op = "custom" THEN inForce[1] ELSE s, IF op = "apply" THEN inForce[2] ELSE t>>

Begin(op, s, t) ==
    /\ turn.verdict = "none"
    /\ turn' = [op |-> op, wanted |-> Requested(op, s, t), before |-> resolver,
                verdict |-> "open"]
    /\ UNCHANGED <<inForce, resolver>>

Decide(verdict) ==
    /\ turn.verdict = "open"
    /\ turn' = [turn EXCEPT !.verdict = verdict]

Try ==
    /\ turn.verdict = "open"
    /\ resolver' = turn.wanted
    /\ UNCHANGED <<inForce, turn>>

Accept ==
    /\ Decide("accepted")
    /\ turn.wanted \in Legal
    /\ inForce' = turn.wanted /\ resolver' = turn.wanted

Refuse ==
    /\ Decide("refused")
    /\ resolver' \in {turn.before, inForce}
    /\ UNCHANGED inForce

Break ==
    /\ Decide("broken")
    /\ resolver' \in {resolver, inForce}
    /\ UNCHANGED inForce

End ==
    /\ turn.verdict \in {"accepted", "refused", "broken"}
    /\ turn' = NoTurn
    /\ UNCHANGED <<inForce, resolver>>

Init == inForce = First /\ resolver = First /\ turn = NoTurn

Next ==
    \/ \E op \in Operations, s \in Settings, t \in Custom : Begin(op, s, t)
    \/ Try \/ Accept \/ Refuse \/ Break \/ End

Spec == Init /\ [][Next]_vars
=============================================================================
