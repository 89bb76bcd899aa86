-------------------------- MODULE InstallerProofs --------------------------
(***************************************************************************)
(* Proofs about Installer: for all configurations, any number of           *)
(* concurrent requests and all faults, there is one deployment at a time,  *)
(* and the status, in memory and in status.json, is true (StatusIsTrue,    *)
(* InstalledIsTrue, InstalledIsAttached).                                  *)
(*                                                                         *)
(* The inductive invariant says what the one goroutine knows at each of    *)
(* its points: which steps are done, and what they have left behind; and   *)
(* that status.json, which the next start reads, does not say "installed"  *)
(* while it works.                                                         *)
(***************************************************************************)
EXTENDS Installer, SequenceTheorems, TLAPS

Goroutine == [config: Config, at: Phase, point: {"begin", "work", "fail", "done", "finish"}]

(* The mark of phase k while goroutine g is at its point. *)
MarkOf(g, k) ==
    IF k < g.at THEN "done"
    ELSE IF k > g.at THEN "pending"
    ELSE IF g.point = "begin" THEN "pending"
    ELSE IF g.point = "finish" THEN "done" ELSE "running"

(* What goroutine g has reached. *)
Reached(g) ==
    /\ g.point = "finish" => g.at = 5
    /\ g.at > 1 \/ g.point = "done" => compose = g.config
    /\ g.at > 3 \/ (g.at = 3 /\ g.point = "done") => stack = g.config
    /\ g.at > 4 \/ (g.at = 4 /\ g.point = "done") => attached

Shows(g) ==
    /\ status.state = "deploying" /\ status.config = g.config
    /\ status.steps = [k \in Phase |-> MarkOf(g, k)]
    /\ file # None /\ file.state = "deploying"

Running(g) == deploy = <<g>> /\ Reached(g) /\ Shows(g)

OneDeployment ==
    \/ deploy = <<>> /\ status.state # "deploying"
    \/ \E g \in Goroutine : Running(g)

(* The steps and the diagnostic of a failed status. *)
Named(s) ==
    \/ /\ s.diagnostic \in {"recovery", "prepare"}
       /\ \A k \in Phase : s.steps[k] # "failed"
    \/ \E n \in Phase :
           /\ s.diagnostic = Phases[n]
           /\ \A k \in Phase :
                  s.steps[k] = IF k < n THEN "done" ELSE IF k = n THEN "failed" ELSE "pending"

Truthful(s) ==
    /\ s.state = "installed" => s.config = stack /\ s.config = compose
    /\ s.state # "not_installed" => s.steps \in [Phase -> Marks]
    /\ s.state = "deploying" => \A k \in Phase : s.steps[k] # "failed"
    /\ s.state = "failed" => Named(s)

Types ==
    /\ status \in Status /\ file \in Status \cup {None}
    /\ compose \in Config \cup {None} /\ stack \in Config \cup {None}
    /\ attached \in BOOLEAN
    /\ request \in [Caller -> Config \cup {None}]

Reachable == status.state = "installed" /\ "reconcile" \notin Faults => attached

Known ==
    /\ Types /\ OneDeployment /\ Reachable
    /\ Truthful(status) /\ (file # None => Truthful(file))

-----------------------------------------------------------------------------
(* Lemmas about phases, statuses and the goroutine *)

LEMMA PhaseFacts ==
    /\ Phase = 1..5 /\ Len(Phases) = 5 /\ Phases[1] = "prepare"
    /\ \A n \in Phase : Phases[n] # None /\ Phases[n] # "recovery"
    /\ "recovery" # None /\ "prepare" # None
<1>1. Phase = 1..5 /\ Len(Phases) = 5 /\ Phases[1] = "prepare"
  BY DEF Phase, Phases
<1>2. \A n \in Phase : Phases[n] # "recovery"
  BY <1>1 DEF Phases
<1>3. \A n \in Phase : Phases[n] # None
  BY NoneAssumption
<1> QED BY <1>1, <1>2, <1>3, NoneAssumption

LEMMA DeployingType ==
    ASSUME NEW cfg \in Config
    PROVE  /\ Deploying(cfg) \in Status /\ Truthful(Deploying(cfg))
           /\ Deploying(cfg).state = "deploying" /\ Deploying(cfg).config = cfg
           /\ Deploying(cfg).steps = [n \in Phase |-> "pending"]
  BY DEF Deploying, Status, States, Marks, Truthful

LEMMA MarkedType ==
    ASSUME NEW s \in Status, s.steps \in [Phase -> Marks], NEW n \in Phase, NEW mark \in Marks
    PROVE  /\ Marked(s, n, mark) \in Status
           /\ Marked(s, n, mark).state = s.state /\ Marked(s, n, mark).config = s.config
           /\ Marked(s, n, mark).steps = [s.steps EXCEPT ![n] = mark]
  BY DEF Marked, Status

LEMMA FailedType ==
    ASSUME NEW s \in Status, s.steps \in [Phase -> Marks], NEW n \in Phase
    PROVE  /\ Failed(s, n) \in Status
           /\ Failed(s, n).state = "failed" /\ Failed(s, n).diagnostic = Phases[n]
           /\ Failed(s, n).steps =
                  [k \in Phase |-> IF s.steps[k] = "running" THEN "failed" ELSE s.steps[k]]
<1> DEFINE steps == [k \in Phase |-> IF s.steps[k] = "running" THEN "failed" ELSE s.steps[k]]
<1>1. steps \in [Phase -> Marks]
  BY DEF Marks
<1> HIDE DEF steps
<1>2. Failed(s, n) = [s EXCEPT !.state = "failed", !.diagnostic = Phases[n], !.steps = steps]
  BY DEF Failed, steps
<1>3. Phases[n] \in {Phases[k] : k \in Phase}
  OBVIOUS
<1> QED BY <1>1, <1>2, <1>3 DEF Status, States, steps

LEMMA InstalledType ==
    ASSUME NEW s \in Status
    PROVE  /\ Installed(s) \in Status
           /\ Installed(s).state = "installed" /\ Installed(s).config = s.config
           /\ Installed(s).steps = s.steps
  BY DEF Installed, Status, States

(* What the goroutine's own steps make of it. *)
LEMMA Advanced ==
    ASSUME NEW g \in Goroutine, deploy = <<g>>, NEW n \in Phase,
           NEW point \in {"begin", "work", "fail", "done", "finish"}, Advance(1, n, point)
    PROVE  \E h \in Goroutine : /\ deploy' = <<h>> /\ h.config = g.config
                                /\ h.at = n /\ h.point = point
<1> DEFINE h == [g EXCEPT !.at = n, !.point = point]
<1>1. h \in Goroutine /\ h.config = g.config /\ h.at = n /\ h.point = point
  BY DEF Goroutine
<1>2. deploy' = <<h>>
  BY DEF Advance
<1> QED BY <1>1, <1>2

LEMMA Ended ==
    ASSUME NEW g, deploy = <<g>>, End(1)
    PROVE  deploy' = <<>>
  BY DEF End, SE!RemoveAt

LEMMA OnlyOne ==
    ASSUME Known, NEW i \in DOMAIN deploy
    PROVE  i = 1 /\ \E g \in Goroutine : Running(g)
  BY DEF Known, OneDeployment, Running

-----------------------------------------------------------------------------
(* The steps *)

LEMMA InitKnown == Init => Known
<1> SUFFICES ASSUME Init PROVE Known
  OBVIOUS
<1>1. NotInstalled \in Status /\ NotInstalled.state = "not_installed"
  BY DEF NotInstalled, Status, States
<1>2. Types
  BY <1>1 DEF Init, Types
<1> QED BY <1>1, <1>2 DEF Init, Known, OneDeployment, Truthful, Reachable

(* What is true of a status and its file stays true while compose.yaml and the
   containers stay as they are. *)
LEMMA TruthStays ==
    ASSUME NEW s, Truthful(s), UNCHANGED <<compose, stack>>
    PROVE  Truthful(s)'
  BY DEF Truthful, Named

LEMMA RequestKnown ==
    ASSUME Known, NEW c \in Caller, Submit(c) \/ Refuse(c)
    PROVE  Known'
<1>1. UNCHANGED <<status, file, compose, stack, attached, deploy>>
  BY DEF Submit, Refuse
<1>2. request' \in [Caller -> Config \cup {None}]
  BY DEF Submit, Refuse, Known, Types
<1>3. Types'
  BY <1>1, <1>2 DEF Known, Types
<1>4. OneDeployment' /\ Reachable'
  BY <1>1 DEF Known, OneDeployment, Running, Reached, Shows, Reachable
<1> QED BY <1>1, <1>3, <1>4 DEF Known, Truthful, Named

LEMMA BeginKnown ==
    ASSUME Known, NEW c \in Caller, Begin(c)
    PROVE  Known'
<1>a. PICK cfg \in Config : cfg = request[c]
  <2>1. request[c] \in Config
    BY DEF Begin
  <2> QED BY <2>1
<1>b. PICK g \in Goroutine : g = [config |-> cfg, at |-> 1, point |-> "begin"]
  <2>1. 1 \in Phase
    BY PhaseFacts
  <2>2. [config |-> cfg, at |-> 1, point |-> "begin"] \in Goroutine
    BY <2>1 DEF Goroutine
  <2> QED BY <2>2
<1>c. g.config = cfg /\ g.at = 1 /\ g.point = "begin"
  BY <1>b
<1>0. /\ status.state # "deploying" /\ UNCHANGED <<compose, stack, attached>>
      /\ deploy = <<>> /\ Types
  BY DEF Begin, Known, OneDeployment, Running, Shows
<1>1. request' \in [Caller -> Config \cup {None}]
  BY <1>0 DEF Begin, Types
<1>2. CASE /\ status' = Deploying(cfg) /\ file' = status'
           /\ deploy' = Append(deploy, g)
  <2>1. deploy' = <<g>>
    BY <1>0, <1>2
  <2>2. /\ status' \in Status /\ Truthful(status') /\ status'.state = "deploying"
        /\ status'.config = cfg /\ status'.steps = [n \in Phase |-> "pending"]
    BY <1>2, DeployingType
  <2>3. Reached(g)' /\ Shows(g)'
    <3>1. \A k \in Phase : MarkOf(g, k) = "pending"
      BY <1>c, PhaseFacts DEF MarkOf
    <3>2. status'.steps = [k \in Phase |-> MarkOf(g, k)]
      BY <2>2, <3>1
    <3>3. Reached(g)'
      BY <1>c DEF Reached
    <3>4. file' # None
      BY <1>2, <2>2, NoneAssumption
    <3> QED BY <1>c, <1>2, <2>2, <3>2, <3>3, <3>4 DEF Shows
  <2>4. OneDeployment'
    BY <2>1, <2>3 DEF OneDeployment, Running
  <2>5. Types' /\ Reachable'
    BY <1>0, <1>1, <1>2, <2>2 DEF Types, Reachable
  <2>6. Truthful(status)'
    BY <1>0, <2>2 DEF Truthful, Named
  <2> QED BY <1>2, <2>4, <2>5, <2>6 DEF Known, Truthful, Named
<1>3. CASE /\ UNCHANGED <<file, deploy>>
           /\ status' = [Deploying(cfg) EXCEPT !.state = "failed", !.diagnostic = "prepare"]
  <2>1. /\ status' \in Status /\ status'.state = "failed" /\ status'.diagnostic = "prepare"
        /\ status'.steps = [n \in Phase |-> "pending"]
    <3>1. "prepare" \in {Phases[n] : n \in Phase}
      BY PhaseFacts
    <3>2. Deploying(cfg) \in Status /\ Deploying(cfg).steps = [n \in Phase |-> "pending"]
      BY DeployingType
    <3> QED BY <1>3, <3>1, <3>2 DEF Status, States
  <2>2. Truthful(status)'
    BY <2>1 DEF Truthful, Named, Marks
  <2>3. Types' /\ Reachable' /\ OneDeployment'
    BY <1>0, <1>1, <1>3, <2>1 DEF Types, Reachable, OneDeployment
  <2> QED BY <1>0, <1>3, <2>2, <2>3 DEF Known, Truthful, Named
<1> QED BY <1>a, <1>b, <1>2, <1>3 DEF Begin

(* After a failure the status names the phase n, and nothing runs. *)
LEMMA FailKnown ==
    ASSUME Known, NEW g \in Goroutine, Running(g),
           NEW s \in Status, NEW n \in Phase,
           s.steps \in [Phase -> Marks],
           \A k \in Phase :
               s.steps[k] = IF k < n THEN "done" ELSE IF k = n THEN "running" ELSE "pending",
           Fail(1, s, n), UNCHANGED <<compose, stack, attached, request>>
    PROVE  Known'
<1>1. /\ status' = Failed(s, n) /\ status' \in Status /\ status'.state = "failed"
      /\ status'.diagnostic = Phases[n] /\ status'.steps \in [Phase -> Marks]
      /\ \A k \in Phase :
             status'.steps[k] =
                 IF k < n THEN "done" ELSE IF k = n THEN "failed" ELSE "pending"
  <2>1. status' = Failed(s, n)
    BY DEF Fail, PersistIgnoringErrors
  <2>2. /\ status' \in Status /\ status'.state = "failed" /\ status'.diagnostic = Phases[n]
        /\ status'.steps =
               [k \in Phase |-> IF s.steps[k] = "running" THEN "failed" ELSE s.steps[k]]
    BY <2>1, FailedType
  <2>3. status'.steps \in [Phase -> Marks]
    BY <2>2 DEF Marks
  <2> QED BY <2>1, <2>2, <2>3, PhaseFacts
<1>2. file' \in {status', file} /\ deploy' = <<>>
  BY Ended DEF Fail, PersistIgnoringErrors, Running
<1>3. Types' /\ Reachable' /\ OneDeployment'
  BY <1>1, <1>2 DEF Known, Types, Reachable, OneDeployment
<1>4. Truthful(status)'
  BY <1>1 DEF Truthful, Named
<1> QED BY <1>2, <1>3, <1>4 DEF Known, Truthful, Named

LEMMA BeginPhaseKnown ==
    ASSUME Known, NEW g \in Goroutine, Running(g), BeginPhase(1)
    PROVE  Known'
<1>0. /\ Types /\ deploy = <<g>> /\ deploy[1] = g /\ g.at \in Phase /\ g.point = "begin"
      /\ UNCHANGED <<compose, stack, attached, request>>
      /\ status.steps \in [Phase -> Marks] /\ Shows(g) /\ Reached(g)
  BY DEF BeginPhase, Known, Running, Shows, Truthful, Goroutine
<1> DEFINE s == Marked(status, g.at, "running")
<1>1. /\ s \in Status /\ s.state = "deploying" /\ s.config = g.config
      /\ s.steps = [status.steps EXCEPT ![g.at] = "running"]
      /\ s.steps \in [Phase -> Marks]
      /\ \A k \in Phase :
             s.steps[k] = IF k < g.at THEN "done" ELSE IF k = g.at THEN "running" ELSE "pending"
  <2>1. "running" \in Marks
    BY DEF Marks
  <2>2. /\ s \in Status /\ s.state = status.state /\ s.config = status.config
        /\ s.steps = [status.steps EXCEPT ![g.at] = "running"]
    BY <1>0, <2>1, MarkedType DEF Types
  <2>3. \A k \in Phase : status.steps[k] = MarkOf(g, k)
    BY <1>0 DEF Shows
  <2> QED BY <1>0, <2>1, <2>2, <2>3, PhaseFacts DEF Shows, MarkOf
<1> HIDE DEF s
<1>2. CASE /\ status' = s /\ file' \in {status', file} /\ Advance(1, g.at, "work")
  <2>1. PICK h \in Goroutine : /\ deploy' = <<h>> /\ h.config = g.config
                               /\ h.at = g.at /\ h.point = "work"
    BY <1>0, <1>2, Advanced
  <2>2. Reached(h)'
    BY <1>0, <2>1, PhaseFacts DEF Reached
  <2>3. \A k \in Phase : s.steps[k] = MarkOf(h, k)
    BY <1>1, <2>1, PhaseFacts DEF MarkOf
  <2>4. s.steps = [k \in Phase |-> MarkOf(h, k)]
    BY <1>1, <2>3
  <2>5. file' # None /\ file'.state = "deploying" /\ file' \in Status
    BY <1>0, <1>1, <1>2, NoneAssumption DEF Shows, Types
  <2>6. OneDeployment'
    BY <1>1, <1>2, <2>1, <2>2, <2>4, <2>5 DEF OneDeployment, Running, Shows
  <2>7. Types' /\ Reachable'
    BY <1>0, <1>1, <1>2, <2>5 DEF Types, Reachable
  <2>8. Truthful(status)'
    BY <1>1, <1>2 DEF Truthful
  <2> QED BY <1>0, <1>2, <2>6, <2>7, <2>8 DEF Known, Truthful, Named
<1>3. CASE Fail(1, s, g.at)
  BY <1>0, <1>1, <1>3, FailKnown
<1> QED BY <1>0, <1>2, <1>3 DEF BeginPhase, s

(* The work of a phase is done, or its error is heeded. *)
LEMMA DoPhaseKnown ==
    ASSUME Known, NEW g \in Goroutine, Running(g), DoPhase(1)
    PROVE  Known'
<1>0. /\ Types /\ deploy = <<g>> /\ deploy[1] = g /\ g.at \in Phase /\ g.point = "work"
      /\ g.config \in Config
      /\ UNCHANGED <<status, file, request>> /\ Shows(g) /\ Reached(g)
  BY DEF DoPhase, Known, Running, Goroutine
<1>1. PICK point \in {"done", "fail"} :
          /\ Advance(1, g.at, point)
          /\ point = "done" => WorkOf(1)
          /\ (WorkOf(1) /\ (g.at = 1 => point = "done")) \/ UNCHANGED <<compose, stack, attached>>
  <2>1. CASE WorkOf(1) /\ Advance(1, g.at, "done")
    BY <2>1
  <2>2. CASE /\ (g.at # 1 /\ WorkOf(1)) \/ UNCHANGED <<compose, stack, attached>>
             /\ Advance(1, g.at, "fail")
    BY <2>2
  <2> QED BY <1>0, <2>1, <2>2 DEF DoPhase
<1>2. PICK h \in Goroutine : /\ deploy' = <<h>> /\ h.config = g.config
                             /\ h.at = g.at /\ h.point = point
  BY <1>0, <1>1, Advanced
<1>3. /\ compose' = compose \/ (g.at = 1 /\ compose' = g.config)
      /\ stack' = stack \/ (g.at = 3 /\ stack' = compose)
      /\ attached => attached'
      /\ WorkOf(1) => /\ g.at = 1 => compose' = g.config
                      /\ g.at = 3 => stack' = compose
                      /\ g.at = 4 => attached'
  <2>1. CASE WorkOf(1)
    <3>1. compose' = (IF g.at = 1 THEN g.config ELSE compose)
      BY <1>0, <2>1 DEF WorkOf
    <3>2. stack' = (IF g.at = 3 THEN compose ELSE stack)
      BY <1>0, <2>1 DEF WorkOf
    <3>3. attached \/ g.at = 4 => attached'
      BY <1>0, <2>1 DEF WorkOf
    <3> QED BY <3>1, <3>2, <3>3
  <2>2. CASE ~WorkOf(1)
    BY <1>1, <2>2
  <2> QED BY <2>1, <2>2
<1>a. attached' \in BOOLEAN
  <2>1. CASE WorkOf(1)
    BY <2>1 DEF WorkOf
  <2>2. CASE attached' = attached
    BY <1>0, <2>2 DEF Types
  <2> QED BY <1>1, <2>1, <2>2
<1>4. Reached(h)'
  <2>1. h.at > 1 \/ h.point = "done" => compose' = h.config
    BY <1>0, <1>1, <1>2, <1>3, PhaseFacts DEF Reached
  <2>2. h.at > 3 \/ (h.at = 3 /\ h.point = "done") => stack' = h.config
    BY <1>0, <1>1, <1>2, <1>3, PhaseFacts DEF Reached
  <2>3. h.at > 4 \/ (h.at = 4 /\ h.point = "done") => attached'
    BY <1>0, <1>1, <1>2, <1>3, PhaseFacts DEF Reached
  <2> QED BY <1>1, <1>2, <2>1, <2>2, <2>3 DEF Reached
<1>5. \A k \in Phase : MarkOf(h, k) = MarkOf(g, k)
  BY <1>0, <1>1, <1>2 DEF MarkOf
<1>6. Shows(h)'
  BY <1>0, <1>2, <1>5 DEF Shows
<1>7. OneDeployment'
  BY <1>2, <1>4, <1>6 DEF OneDeployment, Running
<1>8. Types' /\ Reachable'
  BY <1>0, <1>3, <1>a DEF Types, Reachable, Shows
<1>9. Truthful(status)' /\ Truthful(file)'
  BY <1>0 DEF Known, Truthful, Named, Shows
<1> QED BY <1>7, <1>8, <1>9 DEF Known

LEMMA FailPhaseKnown ==
    ASSUME Known, NEW g \in Goroutine, Running(g), FailPhase(1)
    PROVE  Known'
<1>1. /\ Types /\ deploy[1] = g /\ g.at \in Phase /\ g.point = "fail"
      /\ UNCHANGED <<compose, stack, attached, request>> /\ Fail(1, status, g.at)
      /\ status.steps \in [Phase -> Marks]
  BY DEF FailPhase, Known, Running, Shows, Truthful, Goroutine
<1>2. \A k \in Phase :
          status.steps[k] = IF k < g.at THEN "done" ELSE IF k = g.at THEN "running" ELSE "pending"
  BY <1>1, PhaseFacts DEF Running, Shows, MarkOf
<1> QED BY <1>1, <1>2, FailKnown DEF Types

LEMMA FinishPhaseKnown ==
    ASSUME Known, NEW g \in Goroutine, Running(g), FinishPhase(1)
    PROVE  Known'
<1>0. /\ Types /\ deploy = <<g>> /\ deploy[1] = g /\ g.at \in Phase /\ g.point = "done"
      /\ UNCHANGED <<compose, stack, attached, request>>
      /\ status.steps \in [Phase -> Marks] /\ Shows(g) /\ Reached(g)
  BY DEF FinishPhase, Known, Running, Shows, Truthful, Goroutine
<1> DEFINE s == Marked(status, g.at, "done")
<1>1. /\ s \in Status /\ s.state = "deploying" /\ s.config = g.config
      /\ s.steps \in [Phase -> Marks]
      /\ \A k \in Phase : s.steps[k] = IF k <= g.at THEN "done" ELSE "pending"
  <2>1. "done" \in Marks
    BY DEF Marks
  <2>2. /\ s \in Status /\ s.state = status.state /\ s.config = status.config
        /\ s.steps = [status.steps EXCEPT ![g.at] = "done"]
    BY <1>0, <2>1, MarkedType DEF Types
  <2>3. \A k \in Phase : status.steps[k] = MarkOf(g, k)
    BY <1>0 DEF Shows
  <2> QED BY <1>0, <2>1, <2>2, <2>3, PhaseFacts DEF Shows, MarkOf
<1> HIDE DEF s
<1>2. status' = s /\ file' \in {s, file}
  BY <1>0 DEF FinishPhase, PersistIgnoringErrors, s
<1>3. PICK h \in Goroutine :
          /\ deploy' = <<h>> /\ h.config = g.config
          /\ \/ g.at < 5 /\ h.at = g.at + 1 /\ h.point = "begin"
             \/ g.at = 5 /\ h.at = 5 /\ h.point = "finish"
  <2>1. CASE g.at < 5
    <3>1. Advance(1, g.at + 1, "begin") /\ g.at + 1 \in Phase
      BY <1>0, <2>1, PhaseFacts DEF FinishPhase
    <3> QED BY <1>0, <2>1, <3>1, Advanced
  <2>2. CASE g.at = 5
    <3>1. Advance(1, g.at, "finish")
      BY <1>0, <2>2, PhaseFacts DEF FinishPhase
    <3> QED BY <1>0, <2>2, <3>1, Advanced
  <2> QED BY <1>0, <2>1, <2>2, PhaseFacts
<1>4. Reached(h)'
  BY <1>0, <1>3, PhaseFacts DEF Reached
<1>5. \A k \in Phase : s.steps[k] = MarkOf(h, k)
  BY <1>0, <1>1, <1>3, PhaseFacts DEF MarkOf
<1>6. s.steps = [k \in Phase |-> MarkOf(h, k)]
  BY <1>1, <1>5
<1>7. file' # None /\ file'.state = "deploying" /\ file' \in Status
  BY <1>0, <1>1, <1>2, NoneAssumption DEF Shows, Types
<1>8. OneDeployment'
  BY <1>1, <1>2, <1>3, <1>4, <1>6, <1>7 DEF OneDeployment, Running, Shows
<1>9. Types' /\ Reachable'
  BY <1>0, <1>1, <1>2, <1>7 DEF Types, Reachable
<1>10. Truthful(status)'
  BY <1>1, <1>2 DEF Truthful
<1> QED BY <1>0, <1>2, <1>8, <1>9, <1>10 DEF Known, Truthful, Named

(* All phases are done: the configuration shown is in compose.yaml and runs, and the
   Core is attached. *)
LEMMA FinishDeploymentKnown ==
    ASSUME Known, NEW g \in Goroutine, Running(g), FinishDeployment(1)
    PROVE  Known'
<1>0. /\ Types /\ deploy = <<g>> /\ deploy[1] = g /\ g.at = 5
      /\ UNCHANGED <<compose, stack, attached, request>>
      /\ status.steps \in [Phase -> Marks] /\ status.config = g.config
      /\ compose = g.config /\ stack = g.config /\ attached
  BY DEF FinishDeployment, Known, Running, Shows, Reached, Truthful
<1>1. /\ status' \in Status /\ status'.state = "installed" /\ status'.config = g.config
      /\ status'.steps = status.steps
  BY <1>0, InstalledType DEF FinishDeployment, PersistIgnoringErrors, Types
<1>2. file' \in {status', file} /\ deploy' = <<>>
  BY <1>0, Ended DEF FinishDeployment, PersistIgnoringErrors
<1>3. Types' /\ Reachable' /\ OneDeployment'
  BY <1>0, <1>1, <1>2 DEF Types, Reachable, OneDeployment
<1>4. Truthful(status)'
  BY <1>0, <1>1 DEF Truthful
<1> QED BY <1>0, <1>2, <1>3, <1>4 DEF Known, Truthful, Named

(* The new manager knows what the file says; a deployment found under way is given
   up without a step to blame. *)
LEMMA RestartKnown ==
    ASSUME Known, Restart
    PROVE  Known'
<1>0. /\ Types /\ UNCHANGED <<compose, stack>> /\ deploy' = <<>> /\ status' = Loaded
      /\ file' \in {file, status'} /\ request' = [c \in Caller |-> None]
  BY DEF Known, Restart
<1>1. status' \in Status /\ status'.state # "deploying" /\ Truthful(status')
  <2>1. CASE file = None
    BY <1>0, <2>1 DEF Loaded, NotInstalled, Status, States, Truthful
  <2>2. CASE file # None /\ file.state = "deploying"
    <3>1. /\ status' \in Status /\ status'.state = "failed" /\ status'.diagnostic = "recovery"
          /\ status'.steps = file.steps
      BY <1>0, <2>2 DEF Loaded, Types, Status, States
    <3> QED BY <2>2, <3>1 DEF Known, Truthful, Named
  <2>3. CASE file # None /\ file.state # "deploying"
    BY <1>0, <2>3 DEF Loaded, Known, Types
  <2> QED BY <2>1, <2>2, <2>3
<1>2. Truthful(status)'
  BY <1>0, <1>1 DEF Truthful, Named
<1>3. (file # None => Truthful(file))'
  BY <1>0, <1>1 DEF Known, Truthful, Named
<1>4. attached' \in BOOLEAN
  BY <1>0 DEF Restart, Types
<1>5. Types' /\ OneDeployment'
  BY <1>0, <1>1, <1>4 DEF Types, OneDeployment
<1>6. Reachable'
  BY DEF Restart, Reachable
<1> QED BY <1>2, <1>3, <1>5, <1>6 DEF Known

LEMMA StepKnown == Known /\ [Next]_vars => Known'
<1> SUFFICES ASSUME Known, [Next]_vars PROVE Known'
  OBVIOUS
<1>1. ASSUME NEW c \in Caller, Submit(c) \/ Refuse(c) \/ Begin(c) PROVE Known'
  BY <1>1, RequestKnown, BeginKnown
<1>2. ASSUME NEW i \in DOMAIN deploy, Deploy(i) PROVE Known'
  <2>1. PICK g \in Goroutine : Running(g)
    BY <1>2, OnlyOne
  <2>2. i = 1
    BY <1>2, OnlyOne
  <2> QED BY <1>2, <2>1, <2>2, BeginPhaseKnown, DoPhaseKnown, FailPhaseKnown,
             FinishPhaseKnown, FinishDeploymentKnown DEF Deploy
<1>3. CASE Restart
  BY <1>3, RestartKnown
<1>4. CASE UNCHANGED vars
  <2>1. UNCHANGED <<status, file, compose, stack, attached, request, deploy>>
    BY <1>4 DEF vars
  <2>2. Types' /\ Reachable'
    BY <2>1 DEF Known, Types, Reachable
  <2>3. OneDeployment'
    BY <2>1 DEF Known, OneDeployment, Running, Reached, Shows
  <2>4. Truthful(status)' /\ (file # None => Truthful(file))'
    BY <2>1 DEF Known, Truthful, Named
  <2> QED BY <2>2, <2>3, <2>4 DEF Known
<1> QED BY <1>1, <1>2, <1>3, <1>4 DEF Next

LEMMA AlwaysKnown == Spec => []Known
  BY InitKnown, StepKnown, PTL DEF Spec

-----------------------------------------------------------------------------
(* The theorems *)

(* Every variable of the installer keeps its type, and there is at most one
   deployment goroutine. *)
THEOREM InstallerTyped == Spec => []TypeOK
<1>1. ASSUME Known PROVE TypeOK
  <2>1. CASE deploy = <<>>
    BY <1>1, <2>1 DEF Known, Types, TypeOK
  <2>2. ASSUME NEW g \in Goroutine, deploy = <<g>> PROVE TypeOK
    <3>1. Len(deploy) = 1 /\ \A i \in DOMAIN deploy : deploy[i] = g
      BY <2>2
    <3> QED BY <1>1, <3>1 DEF Known, Types, TypeOK, Goroutine
  <2> QED BY <1>1, <2>1, <2>2 DEF Known, OneDeployment, Running
<1> QED BY <1>1, AlwaysKnown, PTL

(* The status says "deploying" exactly while a deployment of the configuration it
   shows runs, and a failure names the one step that failed: concurrent requests,
   failing writes and restarts included. *)
THEOREM StatusIsAlwaysTrue == Spec => []StatusIsTrue
<1>1. ASSUME Known PROVE DeployingIsTrue
  <2>1. CASE deploy = <<>> /\ status.state # "deploying"
    BY <2>1 DEF DeployingIsTrue
  <2>2. ASSUME NEW g \in Goroutine, Running(g) PROVE DeployingIsTrue
    <3>1. deploy # <<>> /\ \A i \in DOMAIN deploy : deploy[i] = g
      BY <2>2 DEF Running
    <3> QED BY <2>2, <3>1 DEF Running, Shows, DeployingIsTrue
  <2> QED BY <1>1, <2>1, <2>2 DEF Known, OneDeployment
<1>2. ASSUME Known PROVE FailureIsNamed
  <2> DEFINE failed == {n \in DOMAIN status.steps : status.steps[n] = "failed"}
  <2> SUFFICES ASSUME status.state = "failed"
               PROVE  /\ status.diagnostic # None
                      /\ failed # {} => \E n \in failed :
                             /\ failed = {n} /\ status.diagnostic = Phases[n]
                             /\ \A k \in Phase : status.steps[k] =
                                    IF k < n THEN "done" ELSE IF k = n THEN "failed" ELSE "pending"
                      /\ failed = {} => status.diagnostic \in {"recovery", "prepare"}
    BY DEF FailureIsNamed
  <2>1. status.steps \in [Phase -> Marks] /\ Named(status)
    BY <1>2 DEF Known, Truthful
  <2>2. CASE /\ status.diagnostic \in {"recovery", "prepare"}
             /\ \A k \in Phase : status.steps[k] # "failed"
    <3>1. failed = {}
      BY <2>1, <2>2
    <3> QED BY <2>2, <3>1, PhaseFacts
  <2>3. ASSUME NEW n \in Phase, status.diagnostic = Phases[n],
               \A k \in Phase : status.steps[k] =
                   IF k < n THEN "done" ELSE IF k = n THEN "failed" ELSE "pending"
        PROVE  status.diagnostic # None /\ n \in failed /\ failed = {n}
    BY <2>1, <2>3, PhaseFacts
  <2> QED BY <2>1, <2>2, <2>3 DEF Named
<1> QED BY <1>1, <1>2, AlwaysKnown, PTL DEF StatusIsTrue

(* "installed", shown or read at the next start, names the configuration that
   compose.yaml holds and the containers run with. *)
THEOREM InstalledIsAlwaysTrue == Spec => []InstalledIsTrue
<1>1. Known => InstalledIsTrue
  BY DEF Known, Truthful, InstalledIsTrue
<1> QED BY <1>1, AlwaysKnown, PTL

(* Unless the command of Reconcile fails, an installed system's Core is attached to
   the DNS network. *)
THEOREM InstalledIsReachable ==
    ASSUME "reconcile" \notin Faults
    PROVE  Spec => []InstalledIsAttached
<1>1. Known => InstalledIsAttached
  BY DEF Known, Reachable, InstalledIsAttached
<1> QED BY <1>1, AlwaysKnown, PTL
=============================================================================
