------------------------- MODULE ForwardCheckProofs -------------------------
(***************************************************************************)
(* Proofs about ForwardCheck: for every number of workers and targets, all *)
(* times and all faults, each target has its one result (ResultsBelong),   *)
(* and as many targets as fit in have their time (EveryProbeHasItsTime).   *)
(*                                                                         *)
(* The inductive invariant says who may write to a place of results: a     *)
(* target that was handed over and has no result yet is some worker's, and *)
(* that worker alone has it.                                               *)
(***************************************************************************)
EXTENDS ForwardCheck, FiniteSetTheorems, TLAPS

USE SizeAssumption, TimeAssumption

Probing(w, t) == worker[w].at = "probe" /\ worker[w].item = t

(* Of two workers that probe, each has a target of its own, one handed over. *)
OneWorkerEach ==
    /\ \A w \in Worker : worker[w].at = "probe" => worker[w].item \in 1..(next - 1)
    /\ \A v, w \in Worker : \A t \in Target : Probing(v, t) /\ Probing(w, t) => v = w

(* Handed over, without a result: somebody's. *)
NoneMeansPending ==
    \A t \in Target : results[t] = "none" <=> t >= next \/ \E w \in Worker : Probing(w, t)

(* What the request's goroutine knows: it has handed over all targets, or gives
   up; the others have left when it returns. *)
CallerKnows ==
    /\ caller = "dispatch" => outcome = "none"
    /\ caller = "wait" => outcome # "ok"
    /\ caller # "dispatch" /\ outcome # "timeout" => next > targets
    /\ caller = "returned" => \A w \in Worker : worker[w].at = "gone"

(* No probe outlasts its limit. *)
LimitHolds ==
    \A w \in Worker : worker[w].at = "probe" =>
        worker[w].since <= now /\ now <= worker[w].since + TargetTimeout

Belong == TypeOK /\ OneWorkerEach /\ NoneMeansPending /\ CallerKnows /\ LimitHolds

-----------------------------------------------------------------------------
(* The steps *)

LEMMA InitBelongs == Init => Belong
<1> SUFFICES ASSUME Init PROVE Belong
  OBVIOUS
<1>1. TypeOK
  <2>1. /\ targets \in 0..MaxTargets /\ next \in 1..(targets + 1)
        /\ now \in 0..TotalTimeout /\ closed \in BOOLEAN /\ cancelled \in BOOLEAN
        /\ caller \in {"dispatch", "wait", "returned"} /\ outcome \in {"none", "ok", "timeout"}
    <3>1. targets \in 0..MaxTargets /\ next = 1 /\ now = 0 /\ ~closed /\ ~cancelled
      BY DEF Init
    <3>2. /\ caller \in {"dispatch", "wait", "returned"}
          /\ outcome \in {"none", "ok", "timeout"}
      BY DEF Init
    <3>3. closed \in BOOLEAN /\ cancelled \in BOOLEAN
      BY DEF Init
    <3> QED BY <3>1, <3>2, <3>3
  <2>2. ASSUME NEW w \in Worker
        PROVE  [at |-> IF w <= targets THEN "receive" ELSE "gone", item |-> 0, since |-> 0]
                   \in [at: {"receive", "probe", "gone"}, item: 0..targets,
                        since: 0..TotalTimeout]
    BY <2>1
  <2>3. worker \in [Worker -> [at: {"receive", "probe", "gone"}, item: 0..targets,
                               since: 0..TotalTimeout]]
    BY <2>2 DEF Init
  <2>4. results \in [Target -> Verdict \cup {"none"}]
    BY DEF Init
  <2> QED BY <2>1, <2>3, <2>4 DEF TypeOK
<1>2. \A w \in Worker : worker[w].at # "probe"
  BY DEF Init
<1>3. \A t \in Target : results[t] = "none" /\ t >= next
  BY DEF Init, Target
<1>4. CallerKnows
  BY DEF Init, CallerKnows, Worker
<1> QED BY <1>1, <1>2, <1>3, <1>4
  DEF Belong, OneWorkerEach, NoneMeansPending, LimitHolds, Probing

(* A worker that receives a target is its only one. *)
LEMMA HandoverBelongs ==
    ASSUME Belong, NEW w \in Worker, Handover(w),
           UNCHANGED <<targets, faults, now, cancelled>>
    PROVE  Belong'
<1> DEFINE got == [at |-> "probe", item |-> next, since |-> now]
<1>0. Target' = Target /\ Worker' = Worker
  BY DEF Target, Worker
<1>1. /\ next \in Target /\ next' = next + 1 /\ results' = results
      /\ worker'[w] = got /\ worker[w].at = "receive"
      /\ \A v \in Worker \ {w} : worker'[v] = worker[v]
      /\ caller = "dispatch" /\ UNCHANGED <<caller, outcome, closed>>
  BY DEF Belong, TypeOK, Handover, Target
<1>2. TypeOK'
  <2>1. got \in [at: {"receive", "probe", "gone"}, item: 0..targets, since: 0..TotalTimeout]
    BY <1>1 DEF Belong, TypeOK, Target
  <2> QED BY <1>0, <1>1, <2>1 DEF Belong, TypeOK, Handover, Target
<1>3. OneWorkerEach'
  <2>1. \A v \in Worker : worker[v].at = "probe" =>
            worker[v].item \in 1..(next - 1) /\ worker[v].item # next
    BY DEF Belong, OneWorkerEach, TypeOK
  <2> QED BY <1>0, <1>1, <2>1 DEF Belong, TypeOK, OneWorkerEach, Probing
<1>4. NoneMeansPending'
  <2> SUFFICES ASSUME NEW t \in Target
               PROVE  results[t] = "none" <=>
                          t >= next + 1 \/ \E v \in Worker : Probing(v, t)'
    BY <1>0, <1>1 DEF NoneMeansPending
  <2>1. results[t] = "none" <=> t >= next \/ \E v \in Worker : Probing(v, t)
    BY DEF Belong, NoneMeansPending
  <2>2. CASE t = next
    <3>1. Probing(w, t)'
      BY <1>1, <2>2 DEF Probing
    <3> QED BY <2>1, <2>2, <3>1 DEF Target
  <2>3. CASE t # next
    <3>1. \A v \in Worker : Probing(v, t)' <=> Probing(v, t)
      BY <1>1, <2>3 DEF Probing
    <3> QED BY <2>1, <2>3, <3>1 DEF Target, Belong, TypeOK
  <2> QED BY <2>2, <2>3
<1>5. CallerKnows' /\ LimitHolds'
  BY <1>0, <1>1 DEF Belong, TypeOK, CallerKnows, LimitHolds
<1> QED BY <1>2, <1>3, <1>4, <1>5 DEF Belong

(* A result is written to the place of the target that its worker had. *)
LEMMA StoreBelongs ==
    ASSUME Belong, NEW w \in Worker, NEW verdict \in Verdict, worker[w].at = "probe",
           Store(w, verdict), UNCHANGED <<targets, faults, now, cancelled>>
    PROVE  Belong'
<1> DEFINE free == [at |-> "receive", item |-> 0, since |-> 0]
<1> DEFINE had == worker[w].item
<1>0. Target' = Target /\ Worker' = Worker
  BY DEF Target, Worker
<1>1. had \in Target /\ had < next
  BY DEF Belong, TypeOK, OneWorkerEach, Target
<1>2. /\ worker'[w] = free
      /\ \A v \in Worker \ {w} : worker'[v] = worker[v]
      /\ results'[had] = verdict
      /\ \A t \in Target \ {had} : results'[t] = results[t]
      /\ UNCHANGED <<next, caller, outcome, closed>>
  BY <1>1 DEF Belong, TypeOK, Store
<1>3. TypeOK'
  <2>1. free \in [at: {"receive", "probe", "gone"}, item: 0..targets, since: 0..TotalTimeout]
    BY DEF Belong, TypeOK
  <2> QED BY <1>0, <1>1, <1>2, <2>1 DEF Belong, TypeOK, Store
<1>4. OneWorkerEach'
  BY <1>0, <1>2 DEF Belong, OneWorkerEach, Probing
<1>5. NoneMeansPending'
  <2> SUFFICES ASSUME NEW t \in Target
               PROVE  results'[t] = "none" <=> t >= next \/ \E v \in Worker : Probing(v, t)'
    BY <1>0, <1>2 DEF NoneMeansPending
  <2>1. CASE t = had
    <3>1. \A v \in Worker : ~Probing(v, t)'
      BY <1>1, <1>2, <2>1 DEF Belong, OneWorkerEach, Probing
    <3> QED BY <1>1, <1>2, <2>1, <3>1 DEF Verdict, Target, Belong, TypeOK
  <2>2. CASE t # had
    <3>1. \A v \in Worker : Probing(v, t)' <=> Probing(v, t)
      BY <1>2, <2>2 DEF Probing
    <3> QED BY <1>2, <2>2, <3>1 DEF Belong, NoneMeansPending
  <2> QED BY <2>1, <2>2
<1>6. CallerKnows'
  BY <1>0, <1>2 DEF Belong, CallerKnows
<1>7. LimitHolds'
  BY <1>0, <1>2 DEF Belong, LimitHolds
<1> QED BY <1>3, <1>4, <1>5, <1>6, <1>7 DEF Belong

(* A worker that leaves probes nothing. *)
LEMMA LeaveBelongs ==
    ASSUME Belong, NEW w \in Worker, Leave(w),
           UNCHANGED <<targets, faults, now, cancelled>>
    PROVE  Belong'
<1>0. Target' = Target /\ Worker' = Worker
  BY DEF Target, Worker
<1>1. /\ worker[w].at = "receive" /\ worker'[w] = [worker[w] EXCEPT !.at = "gone"]
      /\ \A v \in Worker \ {w} : worker'[v] = worker[v]
      /\ UNCHANGED <<next, caller, outcome, closed, results>>
  BY DEF Belong, TypeOK, Leave
<1>2. /\ worker'[w].at = "gone"
      /\ worker'[w] \in [at: {"receive", "probe", "gone"}, item: 0..targets,
                         since: 0..TotalTimeout]
  BY <1>1 DEF Belong, TypeOK
<1>3. TypeOK'
  BY <1>0, <1>1, <1>2 DEF Belong, TypeOK, Leave
<1>4. \A v \in Worker : worker'[v].at = "probe" <=> worker[v].at = "probe"
  BY <1>1, <1>2
<1>5. \A v \in Worker : worker'[v].at = "probe" => worker'[v] = worker[v]
  BY <1>1, <1>2
<1>6. \A v \in Worker, t \in Target : Probing(v, t)' <=> Probing(v, t)
  BY <1>4, <1>5 DEF Probing
<1>7. OneWorkerEach' /\ NoneMeansPending' /\ LimitHolds'
  BY <1>0, <1>1, <1>4, <1>5, <1>6 DEF Belong, OneWorkerEach, NoneMeansPending, LimitHolds
<1>8. CallerKnows'
  BY <1>0, <1>1, <1>2 DEF Belong, CallerKnows
<1> QED BY <1>3, <1>7, <1>8 DEF Belong

(* The request's goroutine touches neither workers nor results. *)
LEMMA CallerBelongs ==
    ASSUME Belong, Close \/ GiveUp \/ Return, UNCHANGED <<targets, faults, now, cancelled>>
    PROVE  Belong'
<1>0. Target' = Target /\ Worker' = Worker
  BY DEF Target, Worker
<1>1. UNCHANGED <<next, worker, results>>
  BY DEF Close, GiveUp, Return
<1>2. TypeOK'
  BY <1>0, <1>1 DEF Belong, TypeOK, Close, GiveUp, Return
<1>3. OneWorkerEach' /\ NoneMeansPending' /\ LimitHolds'
  BY <1>0, <1>1 DEF Belong, OneWorkerEach, NoneMeansPending, LimitHolds, Probing
<1>4. CallerKnows'
  BY <1>0, <1>1 DEF Belong, TypeOK, CallerKnows, Close, GiveUp, Return
<1> QED BY <1>2, <1>3, <1>4 DEF Belong

(* Time passes only while every probe is within its limit. *)
LEMMA TimeBelongs ==
    ASSUME Belong, Tick \/ Cancel, UNCHANGED <<targets, faults>>
    PROVE  Belong'
<1>0. Target' = Target /\ Worker' = Worker
  BY DEF Target, Worker
<1>1. UNCHANGED <<next, caller, outcome, closed, worker, results>>
  BY DEF Tick, Cancel
<1>2. TypeOK'
  <2>1. now' \in 0..TotalTimeout
    BY DEF Belong, TypeOK, Tick, Cancel, Done
  <2>2. cancelled' \in BOOLEAN
    BY DEF Belong, TypeOK, Tick, Cancel
  <2> QED BY <1>0, <1>1, <2>1, <2>2 DEF Belong, TypeOK
<1>3. OneWorkerEach' /\ NoneMeansPending' /\ CallerKnows'
  BY <1>0, <1>1 DEF Belong, OneWorkerEach, NoneMeansPending, CallerKnows, Probing
<1>4. LimitHolds'
  <2>1. CASE Cancel
    BY <1>0, <1>1, <2>1 DEF Cancel, Belong, LimitHolds
  <2>2. CASE Tick
    <3>1. \A w \in Worker : worker[w].at = "probe" => now < worker[w].since + TargetTimeout
      BY <2>2 DEF Tick, MayWait, Killed, Belong, TypeOK
    <3> QED BY <1>0, <1>1, <2>2, <3>1 DEF Tick, Belong, LimitHolds, TypeOK
  <2> QED BY <2>1, <2>2
<1> QED BY <1>2, <1>3, <1>4 DEF Belong

LEMMA StepBelongs == Belong /\ [Next]_vars => Belong'
<1> SUFFICES ASSUME Belong, [Next]_vars PROVE Belong'
  OBVIOUS
<1>1. CASE Step /\ UNCHANGED <<targets, faults>>
  <2>1. UNCHANGED <<targets, faults, now, cancelled>>
    BY <1>1 DEF Step
  <2>2. ASSUME NEW w \in Worker, Handover(w) PROVE Belong'
    BY <2>1, <2>2, HandoverBelongs
  <2>3. ASSUME NEW w \in Worker, Answer(w) \/ LosePatience(w) \/ Kill(w) PROVE Belong'
    <3>1. PICK verdict \in Verdict : Store(w, verdict) /\ worker[w].at = "probe"
      BY <2>3 DEF Answer, LosePatience, Kill, Verdict
    <3> QED BY <2>1, <3>1, StoreBelongs
  <2>4. ASSUME NEW w \in Worker, Leave(w) PROVE Belong'
    BY <2>1, <2>4, LeaveBelongs
  <2>5. CASE Close \/ GiveUp \/ Return
    BY <2>1, <2>5, CallerBelongs
  <2> QED BY <1>1, <2>2, <2>3, <2>4, <2>5 DEF Step
<1>2. CASE (Tick \/ Cancel) /\ UNCHANGED <<targets, faults>>
  BY <1>2, TimeBelongs
<1>3. CASE UNCHANGED vars
  BY <1>3 DEF vars, Belong, TypeOK, OneWorkerEach, NoneMeansPending, CallerKnows, LimitHolds,
              Probing, Target, Worker
<1> QED BY <1>1, <1>2, <1>3 DEF Next

LEMMA AlwaysBelong == Spec => []Belong
  BY InitBelongs, StepBelongs, PTL DEF Spec

-----------------------------------------------------------------------------
(* The theorems *)

(* Every variable of the check keeps its type. *)
THEOREM ForwardCheckTyped == Spec => []TypeOK
<1>1. Belong => TypeOK
  BY DEF Belong
<1> QED BY <1>1, AlwaysBelong, PTL

(* Each target has its one result: one worker probes it, nothing else writes to its
   place, a check without error has a result for every target, and no worker is
   left behind when CheckForwardTargets returns. *)
THEOREM EachTargetHasItsResult == Spec => []ResultsBelong
<1>1. ASSUME Belong PROVE ResultsBelong
  <2>1. ASSUME NEW t \in Target
        PROVE  LET probing == {w \in Worker : worker[w].at = "probe" /\ worker[w].item = t} IN
               /\ Cardinality(probing) <= 1
               /\ results[t] = "none" <=> t >= next \/ probing # {}
    <3> DEFINE probing == {w \in Worker : worker[w].at = "probe" /\ worker[w].item = t}
    <3>1. \A v, w \in probing : v = w
      BY <1>1, <2>1 DEF Belong, OneWorkerEach, Probing
    <3>2. CASE probing = {}
      <4>1. Cardinality(probing) = 0
        BY <3>2, FS_EmptySet
      <4> QED BY <1>1, <2>1, <3>2, <4>1 DEF Belong, NoneMeansPending, Probing
    <3>3. CASE probing # {}
      <4>1. PICK w : probing = {w}
        BY <3>1, <3>3
      <4>2. Cardinality(probing) = 1
        BY <4>1, FS_Singleton
      <4> QED BY <1>1, <2>1, <3>3, <4>2 DEF Belong, NoneMeansPending, Probing
    <3> QED BY <3>2, <3>3
  <2>2. caller = "returned" => \A w \in Worker : worker[w].at = "gone"
    BY <1>1 DEF Belong, CallerKnows
  <2>3. outcome = "ok" => \A t \in Target : results[t] # "none"
    <3> SUFFICES ASSUME outcome = "ok", NEW t \in Target PROVE results[t] # "none"
      OBVIOUS
    <3>1. caller = "returned" /\ next > targets
      BY <1>1 DEF Belong, TypeOK, CallerKnows
    <3>2. ~(t >= next) /\ \A w \in Worker : ~Probing(w, t)
      BY <1>1, <2>2, <3>1 DEF Belong, TypeOK, Target, Probing
    <3> QED BY <1>1, <3>2 DEF Belong, NoneMeansPending
  <2> QED BY <2>1, <2>2, <2>3 DEF ResultsBelong
<1> QED BY <1>1, AlwaysBelong, PTL

-----------------------------------------------------------------------------
(* The time that a check takes.  No history of the workers is kept; it is enough
   that targets are handed over in order: the first (k + 1) * Workers of them have
   a worker when k longest probes have passed. *)

EachWithinLongest ==
    \A w \in Worker : worker[w].at = "probe" => now <= worker[w].since + Longest

BegunInTime ==
    \A w \in Worker : worker[w].at = "probe" =>
        \A k \in Nat : worker[w].item <= (k + 1) * Workers => worker[w].since <= k * Longest

NextInTime ==
    caller = "dispatch" /\ next <= targets =>
        \A k \in Nat : next <= (k + 1) * Workers => now <= k * Longest

(* While targets are handed over, those workers only are missing that were not
   started: there are fewer targets than workers. *)
WorkersStay ==
    caller = "dispatch" => ~closed /\ \A w \in Worker : worker[w].at = "gone" => w > targets

Roomy == "cancel" \notin faults /\ targets <= Capacity

Uncut ==
    Roomy => /\ outcome # "timeout"
             /\ "hang" \notin faults => \A t \in Target : results[t] # "cut"

InTime ==
    /\ EachWithinLongest /\ BegunInTime /\ NextInTime /\ WorkersStay /\ Uncut
    /\ "cancel" \notin faults => ~cancelled

LEMMA LongestType == Longest \in Nat /\ Longest >= 1
  BY DEF Longest

(* When time passes while a target waits for a worker, one of the probes is at
   least Workers targets before it: all workers have different ones. *)
LEMMA AnEarlyProbe ==
    ASSUME Belong, WorkersStay, Tick, caller = "dispatch", next <= targets
    PROVE  \E w \in Worker : worker[w].at = "probe" /\ worker[w].item <= next - Workers
<1> DEFINE n == IF Workers <= targets THEN Workers ELSE targets
<1>0. n \in Nat \ {0} /\ next \in Nat \ {0} /\ n <= Workers /\ targets \in Nat
  BY DEF Belong, TypeOK
<1>1. \A w \in 1..n : w \in Worker /\ worker[w].at = "probe" /\ worker[w].item \in 1..(next - 1)
  <2> SUFFICES ASSUME NEW w \in 1..n
               PROVE  w \in Worker /\ worker[w].at = "probe" /\ worker[w].item \in 1..(next - 1)
    OBVIOUS
  <2>1. w \in Worker /\ w <= targets
    BY <1>0 DEF Worker
  <2>2. worker[w].at = "probe"
    BY <1>0, <2>1 DEF Tick, MayWait, WorkersStay
  <2> QED BY <2>1, <2>2 DEF Belong, OneWorkerEach
<1>2. SUFFICES ASSUME \A w \in 1..n : ~(worker[w].item <= next - n) PROVE FALSE
  <2>1. PICK w \in 1..n : worker[w].item <= next - n
    BY <1>2
  <2>2. worker[w].item >= 1 /\ worker[w].item \in Int
    BY <1>1, <2>1
  <2>3. n = Workers
    BY <1>0, <2>1, <2>2
  <2> QED BY <1>1, <2>1, <2>3
<1> DEFINE S == 1..n
<1> DEFINE T == (next - n + 1)..(next - 1)
<1> DEFINE f == [w \in S |-> worker[w].item]
<1>3. f \in [S -> T]
  BY <1>0, <1>1, <1>2
<1>4. IsFiniteSet(S) /\ Cardinality(S) = n
  <2>1. 1 \in Int /\ n \in Int /\ n >= 1
    BY <1>0
  <2> HIDE DEF n
  <2>2. IsFiniteSet(1..n) /\ Cardinality(1..n) = IF 1 > n THEN 0 ELSE n - 1 + 1
    BY <2>1, FS_Interval, Zenon
  <2> QED BY <2>1, <2>2
<1>5. IsFiniteSet(T) /\ Cardinality(T) = n - 1
  <2>1. next - n + 1 \in Int /\ next - 1 \in Int
    BY <1>0
  <2> DEFINE first == next - n + 1
  <2> DEFINE last  == next - 1
  <2>2. T = first..last /\ first \in Int /\ last \in Int
    BY <2>1
  <2>3. (IF first > last THEN 0 ELSE last - first + 1) = n - 1
    BY <1>0
  <2> HIDE DEF first, last, T
  <2>4. /\ IsFiniteSet(first..last)
        /\ Cardinality(first..last) = IF first > last THEN 0 ELSE last - first + 1
    BY <2>2, FS_Interval, Zenon
  <2> QED BY <2>2, <2>3, <2>4
<1>6. PICK x, y \in S : x # y /\ f[x] = f[y]
  <2> HIDE DEF S, T, f
  <2> QED BY <1>0, <1>3, <1>4, <1>5, FS_PigeonHole
<1>7. x \in Worker /\ y \in Worker /\ Probing(x, f[x]) /\ Probing(y, f[x]) /\ f[x] \in Target
  BY <1>0, <1>1, <1>6 DEF Probing, Target
<1> QED BY <1>6, <1>7 DEF Belong, OneWorkerEach

LEMMA InitInTime == Init => InTime
<1> SUFFICES ASSUME Init PROVE InTime
  OBVIOUS
<1>1. \A w \in Worker : worker[w].at # "probe" /\ (worker[w].at = "gone" => w > targets)
  BY DEF Init, Worker
<1>2. EachWithinLongest /\ BegunInTime
  BY <1>1 DEF EachWithinLongest, BegunInTime
<1>3. NextInTime
  BY LongestType DEF Init, NextInTime
<1>4. WorkersStay /\ (\A t \in Target : results[t] # "cut") /\ outcome # "timeout" /\ ~cancelled
  BY <1>1 DEF Init, WorkersStay
<1> QED BY <1>2, <1>3, <1>4 DEF InTime, Uncut

(* A target is handed over in its time. *)
LEMMA HandoverInTime ==
    ASSUME Belong, InTime, NEW w \in Worker, Handover(w),
           UNCHANGED <<targets, faults, now, cancelled>>
    PROVE  InTime'
<1>0. Target' = Target /\ Worker' = Worker /\ Longest' = Longest /\ Capacity' = Capacity
  BY DEF Target, Worker, Longest, Capacity
<1>1. /\ next \in Nat /\ next <= targets /\ next' = next + 1 /\ results' = results
      /\ worker'[w].at = "probe" /\ worker'[w].item = next /\ worker'[w].since = now
      /\ \A v \in Worker \ {w} : worker'[v] = worker[v]
      /\ caller = "dispatch" /\ UNCHANGED <<caller, outcome, closed>>
  BY DEF Belong, TypeOK, Handover
<1>2. EachWithinLongest'
  BY <1>0, <1>1, LongestType DEF InTime, EachWithinLongest, Belong, TypeOK
<1>3. BegunInTime'
  BY <1>0, <1>1 DEF InTime, BegunInTime, NextInTime
<1>4. NextInTime'
  <2> SUFFICES ASSUME NEW k \in Nat, next + 1 <= (k + 1) * Workers PROVE now <= k * Longest
    BY <1>0, <1>1 DEF NextInTime
  <2>1. (k + 1) * Workers \in Nat
    OBVIOUS
  <2>2. next <= (k + 1) * Workers
    BY <1>1, <2>1
  <2> QED BY <1>1, <2>2 DEF InTime, NextInTime
<1>5. WorkersStay' /\ Uncut' /\ ("cancel" \notin faults => ~cancelled)'
  BY <1>0, <1>1 DEF InTime, WorkersStay, Uncut, Roomy
<1> QED BY <1>2, <1>3, <1>4, <1>5 DEF InTime

(* With room for all targets, the time of the whole check does not end a probe,
   and ends no handing over. *)
LEMMA RoomForEachRound ==
    ASSUME Belong, NEW t \in Target, Roomy
    PROVE  \E k \in Nat : t <= (k + 1) * Workers /\ k * Longest + Longest < TotalTimeout
<1> DEFINE c == (TotalTimeout - 1) \div Longest
<1>1. TotalTimeout - 1 \in Nat /\ Longest \in Nat \ {0} /\ targets \in Nat
  BY LongestType DEF Belong, TypeOK
<1>2. c \in Nat /\ c * Longest <= TotalTimeout - 1
  BY <1>1
<1>3. t \in Nat /\ t >= 1 /\ t <= Workers * c
  BY <1>1, <1>2 DEF Roomy, Capacity, Target
<1>4. c >= 1
  BY <1>2, <1>3
<1> DEFINE k == c - 1
<1>5. k \in Nat /\ k + 1 = c
  BY <1>2, <1>4
<1>6. (k + 1) * Workers = Workers * c
  BY <1>2, <1>5
<1>7. k * Longest + Longest = c * Longest
  BY <1>1, <1>2, <1>5
<1>8. k * Longest + Longest < TotalTimeout
  BY <1>1, <1>2, <1>7
<1> QED BY <1>3, <1>5, <1>6, <1>8

LEMMA NotDoneWhileProbing ==
    ASSUME Belong, InTime, Roomy, NEW w \in Worker, worker[w].at = "probe"
    PROVE  ~Done
<1>1. worker[w].item \in Target /\ worker[w].since \in Nat /\ now \in Nat
  BY DEF Belong, TypeOK, OneWorkerEach, Target
<1>2. PICK k \in Nat : worker[w].item <= (k + 1) * Workers /\ k * Longest + Longest < TotalTimeout
  BY <1>1, RoomForEachRound
<1>3. worker[w].since <= k * Longest
  BY <1>2 DEF InTime, BegunInTime
<1>4. now <= worker[w].since + Longest
  BY DEF InTime, EachWithinLongest
<1>5. k * Longest \in Nat
  BY LongestType
<1>6. now # TotalTimeout
  BY <1>1, <1>2, <1>3, <1>4, <1>5, LongestType
<1> QED BY <1>6 DEF Done, InTime, Roomy

LEMMA NotDoneWhileDispatching ==
    ASSUME Belong, InTime, Roomy, caller = "dispatch", next <= targets
    PROVE  ~Done
<1>1. next \in Target /\ now \in Nat
  BY DEF Belong, TypeOK, Target
<1>2. PICK k \in Nat : next <= (k + 1) * Workers /\ k * Longest + Longest < TotalTimeout
  BY <1>1, RoomForEachRound
<1>3. now <= k * Longest
  BY <1>2 DEF InTime, NextInTime
<1>4. k * Longest \in Nat
  BY LongestType
<1>5. now # TotalTimeout
  BY <1>1, <1>2, <1>3, <1>4, LongestType
<1> QED BY <1>5 DEF Done, InTime, Roomy

(* What a probe stores is cut short only without room, or if dig may hang. *)
LEMMA StoreInTime ==
    ASSUME Belong, InTime, NEW w \in Worker, NEW verdict \in Verdict, worker[w].at = "probe",
           verdict = "cut" => Killed(w),
           Store(w, verdict), UNCHANGED <<targets, faults, now, cancelled>>
    PROVE  InTime'
<1>0. Target' = Target /\ Worker' = Worker /\ Longest' = Longest /\ Capacity' = Capacity
  BY DEF Target, Worker, Longest, Capacity
<1>1. /\ worker'[w].at = "receive"
      /\ \A v \in Worker \ {w} : worker'[v] = worker[v]
      /\ UNCHANGED <<next, caller, outcome, closed>>
  BY DEF Belong, TypeOK, Store
<1>2. \A t \in Target : results'[t] \in {results[t], verdict}
  BY DEF Belong, TypeOK, Store
<1>3. EachWithinLongest' /\ BegunInTime' /\ NextInTime' /\ WorkersStay'
  BY <1>0, <1>1 DEF InTime, EachWithinLongest, BegunInTime, NextInTime, WorkersStay
<1>4. ASSUME Roomy, "hang" \notin faults PROVE verdict # "cut"
  <2>1. ~Done
    BY <1>4, NotDoneWhileProbing
  <2>2. now <= worker[w].since + Patience
    BY <1>4 DEF InTime, EachWithinLongest, Longest
  <2>3. now \in Nat /\ worker[w].since \in Nat
    BY DEF Belong, TypeOK
  <2>4. ~(now >= worker[w].since + TargetTimeout)
    BY <2>2, <2>3
  <2> QED BY <2>1, <2>4 DEF Killed
<1>5. Uncut'
  BY <1>0, <1>1, <1>2, <1>4 DEF InTime, Uncut, Roomy
<1> QED BY <1>0, <1>3, <1>5 DEF InTime

(* A worker leaves a channel that is closed. *)
LEMMA LeaveInTime ==
    ASSUME Belong, InTime, NEW w \in Worker, Leave(w),
           UNCHANGED <<targets, faults, now, cancelled>>
    PROVE  InTime'
<1>0. Target' = Target /\ Worker' = Worker /\ Longest' = Longest /\ Capacity' = Capacity
  BY DEF Target, Worker, Longest, Capacity
<1>1. /\ closed /\ worker'[w] = [worker[w] EXCEPT !.at = "gone"]
      /\ \A v \in Worker \ {w} : worker'[v] = worker[v]
      /\ UNCHANGED <<next, caller, outcome, closed, results>>
  BY DEF Belong, TypeOK, Leave
<1>2. worker'[w].at = "gone"
  BY <1>1 DEF Belong, TypeOK
<1>3. EachWithinLongest' /\ BegunInTime'
  BY <1>0, <1>1, <1>2 DEF InTime, EachWithinLongest, BegunInTime
<1>4. NextInTime' /\ WorkersStay' /\ Uncut' /\ ("cancel" \notin faults => ~cancelled)'
  BY <1>0, <1>1 DEF InTime, NextInTime, WorkersStay, Uncut, Roomy
<1> QED BY <1>3, <1>4 DEF InTime

(* The request's goroutine gives up only without room. *)
LEMMA CallerInTime ==
    ASSUME Belong, InTime, Close \/ GiveUp \/ Return,
           UNCHANGED <<targets, faults, now, cancelled>>
    PROVE  InTime'
<1>0. Target' = Target /\ Worker' = Worker /\ Longest' = Longest /\ Capacity' = Capacity
  BY DEF Target, Worker, Longest, Capacity
<1>1. UNCHANGED <<next, worker, results>> /\ caller' # "dispatch"
  BY DEF Close, GiveUp, Return
<1>2. EachWithinLongest' /\ BegunInTime' /\ NextInTime' /\ WorkersStay'
  BY <1>0, <1>1 DEF InTime, EachWithinLongest, BegunInTime, NextInTime, WorkersStay
<1>3. ASSUME Roomy PROVE outcome' # "timeout"
  <2>1. ~GiveUp
    BY <1>3, NotDoneWhileDispatching DEF GiveUp
  <2> QED BY <1>3, <2>1 DEF Close, Return, InTime, Uncut
<1>4. Uncut'
  BY <1>0, <1>1, <1>3 DEF InTime, Uncut, Roomy
<1> QED BY <1>0, <1>2, <1>4 DEF InTime

(* Time passes while all workers probe; the earliest of the probes says how long
   the next target may still have to wait. *)
LEMMA TimeInTime ==
    ASSUME Belong, InTime, Tick \/ Cancel, UNCHANGED <<targets, faults>>
    PROVE  InTime'
<1>0. Target' = Target /\ Worker' = Worker /\ Longest' = Longest /\ Capacity' = Capacity
  BY DEF Target, Worker, Longest, Capacity
<1>1. UNCHANGED <<next, caller, outcome, closed, worker, results>>
  BY DEF Tick, Cancel
<1>2. BegunInTime' /\ WorkersStay' /\ Uncut' /\ ("cancel" \notin faults => ~cancelled)'
  BY <1>0, <1>1 DEF InTime, BegunInTime, WorkersStay, Uncut, Roomy, Tick, Cancel
<1>3. CASE Cancel
  BY <1>0, <1>1, <1>2, <1>3 DEF Cancel, InTime, EachWithinLongest, NextInTime
<1>4. CASE Tick
  <2>0. now \in Nat /\ now' = now + 1
    BY <1>4 DEF Tick, Belong, TypeOK
  <2>1. \A w \in Worker : worker[w].at = "probe" => now < worker[w].since + Longest
    <3> SUFFICES ASSUME NEW w \in Worker, worker[w].at = "probe"
                 PROVE  now < worker[w].since + Longest
      OBVIOUS
    <3>1. MayWait(w) /\ worker[w].since \in Int /\ now \in Int
      BY <1>4 DEF Tick, Belong, TypeOK
    <3> QED BY <3>1 DEF MayWait, Killed, Longest
  <2>2. EachWithinLongest'
    BY <1>0, <1>1, <2>0, <2>1, LongestType DEF EachWithinLongest, Belong, TypeOK
  <2>3. ASSUME caller = "dispatch", next <= targets, NEW k \in Nat, next <= (k + 1) * Workers
        PROVE  now + 1 <= k * Longest
    <3>1. PICK w \in Worker : worker[w].at = "probe" /\ worker[w].item <= next - Workers
      BY <1>4, <2>3, AnEarlyProbe DEF InTime
    <3>2. worker[w].item \in Nat /\ worker[w].item >= 1 /\ next \in Nat /\ worker[w].since \in Nat
      BY <3>1 DEF Belong, TypeOK, OneWorkerEach
    <3>3. (k + 1) * Workers = k * Workers + Workers /\ k * Workers \in Nat
      OBVIOUS
    <3>4. worker[w].item <= k * Workers
      BY <2>3, <3>1, <3>2, <3>3
    <3>5. k >= 1
      BY <3>2, <3>4
    <3>6. k - 1 \in Nat /\ ((k - 1) + 1) * Workers = k * Workers
      BY <3>5
    <3>7. worker[w].since <= (k - 1) * Longest
      BY <3>1, <3>4, <3>6 DEF InTime, BegunInTime
    <3>8. (k - 1) * Longest + Longest = k * Longest /\ (k - 1) * Longest \in Nat
      BY <3>5, LongestType
    <3> QED BY <2>0, <2>1, <3>1, <3>2, <3>7, <3>8, LongestType
  <2>4. NextInTime'
    BY <1>0, <1>1, <2>0, <2>3 DEF NextInTime
  <2> QED BY <1>2, <2>2, <2>4 DEF InTime
<1> QED BY <1>3, <1>4

LEMMA StepInTime == Belong /\ InTime /\ [Next]_vars => InTime'
<1> SUFFICES ASSUME Belong, InTime, [Next]_vars PROVE InTime'
  OBVIOUS
<1>1. CASE Step /\ UNCHANGED <<targets, faults>>
  <2>1. UNCHANGED <<targets, faults, now, cancelled>>
    BY <1>1 DEF Step
  <2>2. ASSUME NEW w \in Worker, Handover(w) PROVE InTime'
    BY <2>1, <2>2, HandoverInTime
  <2>3. ASSUME NEW w \in Worker, Answer(w) \/ LosePatience(w) \/ Kill(w) PROVE InTime'
    <3>1. PICK verdict \in Verdict : /\ Store(w, verdict) /\ worker[w].at = "probe"
                                     /\ verdict = "cut" => Killed(w)
      BY <2>3 DEF Answer, LosePatience, Kill, Verdict
    <3> QED BY <2>1, <3>1, StoreInTime
  <2>4. ASSUME NEW w \in Worker, Leave(w) PROVE InTime'
    BY <2>1, <2>4, LeaveInTime
  <2>5. CASE Close \/ GiveUp \/ Return
    BY <2>1, <2>5, CallerInTime
  <2> QED BY <1>1, <2>2, <2>3, <2>4, <2>5 DEF Step
<1>2. CASE (Tick \/ Cancel) /\ UNCHANGED <<targets, faults>>
  BY <1>2, TimeInTime
<1>3. CASE UNCHANGED vars
  BY <1>3 DEF vars, InTime, EachWithinLongest, BegunInTime, NextInTime, WorkersStay, Uncut, Roomy,
              Capacity, Longest, Target, Worker
<1> QED BY <1>1, <1>2, <1>3 DEF Next

(* Up to Capacity targets the deadline of the whole check takes no target's time,
   and no dig outlasts forwardCheckTargetTimeout: for all numbers of workers and
   targets, for all times, and whatever the targets do. *)
THEOREM TargetsHaveTheirTime == Spec => []EveryProbeHasItsTime
<1>1. Spec => []InTime
  BY InitInTime, StepInTime, AlwaysBelong, PTL DEF Spec
<1>2. Belong /\ InTime => EveryProbeHasItsTime
  BY DEF Belong, LimitHolds, InTime, Uncut, Roomy, EveryProbeHasItsTime
<1> QED BY <1>1, <1>2, AlwaysBelong, PTL
=============================================================================
