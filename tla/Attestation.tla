---------------------------- MODULE Attestation ----------------------------
(***************************************************************************)
(* The check of release attestations: CheckStackAttestations in            *)
(* internal/stack/status.go with internal/stack/attestation.go.            *)
(*                                                                         *)
(* A status request starts one goroutine per released service.  It looks   *)
(* the image up in the cache, and without a fresh entry runs cosign and    *)
(* stores the verdict; the cache is unlocked in between, so that several   *)
(* requests verify one image at once and store in any order.               *)
(*                                                                         *)
(* Time is counted in units and passes only while cosign runs or nobody    *)
(* asks.  What is attached to an image in the registry appears after the   *)
(* image, and a genuine attestation may be withdrawn.  The inspections     *)
(* before the goroutines are one step with the request: no property        *)
(* compares the containers with each other.                                *)
(*                                                                         *)
(* cosign succeeds only on an attestation that satisfies the policy.  Its  *)
(* failures are told apart by words of its output, which the registry, the *)
(* network and the operating system write as well: a failure may be given  *)
(* any of the three statuses, whatever is attached.                        *)
(***************************************************************************)
EXTENDS Integers, FiniteSets

CONSTANTS
    Service,        \* attestationPolicies: core, webapp
    Image,          \* [Service -> SUBSET image]: references by digest under its prefix
    Other,          \* any other reference: mutable or foreign
    Request,        \* status requests at one time
    CacheTTL,       \* attestationCacheTTL: 10 min
    Deadline,       \* of one run of cosign: 20 s
    MaxNow,         \* bound: no request starts later
    NoEntry         \* an image without an entry in the cache

ASSUME ImageAssumption ==
    /\ \A s, t \in Service : s # t => Image[s] \cap Image[t] = {}
    /\ \A s \in Service : Other \notin Image[s]
ASSUME ServiceAssumption == IsFiniteSet(Service)
ASSUME TimeAssumption == {CacheTTL, Deadline, MaxNow} \subseteq Nat \ {0}

VARIABLES
    now,
    registry,   \* what is attached to each image, and since when
    request,    \* each request: where it is, and whether its client has left
    check,      \* its goroutines: where, the image, since when, status, checkedAt
    cache       \* attestationCache.items

vars == <<now, registry, request, check, cache>>

Images == UNION {Image[s] : s \in Service}

(* "foreign" is an attestation that does not satisfy the policy; "withdrawn" is a
   genuine one that was deleted or replaced by such a one. *)
Attached == {"nothing", "genuine", "foreign", "withdrawn"}
Status == {"verified", "missing", "failed", "unavailable", "not_applicable"}

(* classifyAttestationResult of an error, by the words that came with it *)
Failure == {"missing", "unavailable", "failed"}

(* classifyAttestationResult of a run of cosign, which may fail in any case. *)
Verdicts(attached) == Failure \cup (IF attached = "genuine" THEN {"verified"} ELSE {})

NoCheck == [at |-> "done", image |-> Other, since |-> 0, status |-> "none", checkedAt |-> 0]

At(r, s, where) == request[r].at = "checking" /\ check[r][s].at = where

-----------------------------------------------------------------------------
(* Requests *)

(* The containers run any image; wait.Add and the goroutines. *)
Ask(r) ==
    /\ request[r].at = "idle" /\ now < MaxNow
    /\ \E shown \in [Service -> Images \cup {Other}] :
           /\ \A s \in Service : shown[s] \in Image[s] \cup {Other}
           /\ check' = [check EXCEPT ![r] = [s \in Service |->
                  [NoCheck EXCEPT !.at = "lookup", !.image = shown[s]]]]
    /\ request' = [request EXCEPT ![r] = [at |-> "checking", cancelled |-> FALSE]]
    /\ UNCHANGED <<now, registry, cache>>

Cancel(r) ==
    /\ request[r].at = "checking" /\ ~request[r].cancelled
    /\ request' = [request EXCEPT ![r].cancelled = TRUE]
    /\ UNCHANGED <<now, registry, check, cache>>

(* wait.Wait and the answer. *)
Respond(r) ==
    /\ \A s \in Service : At(r, s, "done")
    /\ request' = [request EXCEPT ![r] = [at |-> "idle", cancelled |-> FALSE]]
    /\ check' = [check EXCEPT ![r] = [s \in Service |-> NoCheck]]
    /\ UNCHANGED <<now, registry, cache>>

-----------------------------------------------------------------------------
(* verifyReleaseAttestationWith *)

(* Mutant: an entry is used as long as it exists. *)
FreshForEver(entry) == entry # NoEntry

Fresh(entry) == entry # NoEntry /\ now < entry.expires

Lookup(r, s) ==
    /\ At(r, s, "lookup")
    /\ LET image == check[r][s].image
           entry == cache[image]
       IN check' = [check EXCEPT ![r][s] =
              IF image = Other
              THEN [@ EXCEPT !.at = "done", !.status = "not_applicable"]
              ELSE IF Fresh(entry)
              THEN [@ EXCEPT !.at = "done", !.status = entry.status,
                             !.checkedAt = entry.checkedAt]
              ELSE [@ EXCEPT !.at = "verify", !.since = now]]
    /\ UNCHANGED <<now, registry, request, cache>>

(* cosign ends, or is killed: the time is taken and the entry stored.  The lock
   is taken in between, for which nothing else is waited. *)
Store(r, s, status) ==
    /\ cache' = [cache EXCEPT ![check[r][s].image] =
           [status |-> status, checkedAt |-> now, expires |-> now + CacheTTL]]
    /\ check' = [check EXCEPT ![r][s] =
           [@ EXCEPT !.at = "done", !.since = 0, !.status = status, !.checkedAt = now]]
    /\ UNCHANGED <<now, registry, request>>

(* cosign learns what is attached, or fails on the way. *)
ReadRegistry(r, s) ==
    /\ At(r, s, "verify")
    /\ \E status \in Verdicts(registry[check[r][s].image].attached) :
           check' = [check EXCEPT ![r][s].at = "report", ![r][s].status = status]
    /\ UNCHANGED <<now, registry, request, cache>>

Report(r, s) == At(r, s, "report") /\ Store(r, s, check[r][s].status)

(* Mutant: only the request's own end ends cosign. *)
KilledWithRequest(r, s) == request[r].cancelled

Killed(r, s) == request[r].cancelled \/ now >= check[r][s].since + Deadline

(* The context is done.  A command that was not started yet reports the
   context's error; one that was killed reports the signal, and is classified by
   the words cosign had printed. *)
Kill(r, s) ==
    /\ At(r, s, "verify") \/ At(r, s, "report")
    /\ Killed(r, s)
    /\ \E status \in Failure : Store(r, s, status)

-----------------------------------------------------------------------------

Publish(i) ==
    /\ registry[i].attached = "nothing" /\ now < MaxNow
    /\ \E what \in {"genuine", "foreign"} :
           registry' = [registry EXCEPT ![i] = [attached |-> what, since |-> now]]
    /\ UNCHANGED <<now, request, check, cache>>

Withdraw(i) ==
    /\ registry[i].attached = "genuine" /\ now < MaxNow
    /\ registry' = [registry EXCEPT ![i] = [attached |-> "withdrawn", since |-> now]]
    /\ UNCHANGED <<now, request, check, cache>>

(* Nothing but cosign is waited for. *)
Tick ==
    /\ \/ now < MaxNow
       \/ now < MaxNow + Deadline /\ \E r \in Request : request[r].at = "checking"
    /\ \A r \in Request : request[r].at = "checking" =>
           /\ \E s \in Service : check[r][s].at \in {"verify", "report"}
           /\ \A s \in Service :
                  \/ check[r][s].at = "done"
                  \/ check[r][s].at \in {"verify", "report"} /\ ~Killed(r, s)
    /\ now' = now + 1
    /\ UNCHANGED <<registry, request, check, cache>>

Init ==
    /\ now = 0
    /\ registry = [i \in Images |-> [attached |-> "nothing", since |-> 0]]
    /\ request = [r \in Request |-> [at |-> "idle", cancelled |-> FALSE]]
    /\ check = [r \in Request |-> [s \in Service |-> NoCheck]]
    /\ cache = [i \in Images |-> NoEntry]

Goroutine(r, s) ==
    Lookup(r, s) \/ ReadRegistry(r, s) \/ Report(r, s) \/ Kill(r, s)

Next ==
    \/ \E r \in Request :
           Ask(r) \/ Cancel(r) \/ Respond(r) \/ \E s \in Service : Goroutine(r, s)
    \/ \E i \in Images : Publish(i) \/ Withdraw(i)
    \/ Tick

Spec == Init /\ [][Next]_vars

(* Goroutines that can go on do, and time passes, whatever else happens; cosign
   may hang. *)
FairSpec ==
    /\ Spec
    /\ \A r \in Request :
           WF_vars(Respond(r) \/ \E s \in Service : Lookup(r, s) \/ Kill(r, s))
    /\ SF_vars(Tick)

-----------------------------------------------------------------------------
(* Properties *)

(* Every variable stays in the set of values the code can give it. *)
TypeOK ==
    /\ now \in 0..(MaxNow + Deadline)
    /\ registry \in [Images -> [attached: Attached, since: 0..MaxNow]]
    /\ request \in [Request -> [at: {"idle", "checking"}, cancelled: BOOLEAN]]
    /\ check \in [Request -> [Service ->
           [at: {"lookup", "verify", "report", "done"},
            image: Images \cup {Other}, since: 0..now,
            status: Status \cup {"none"}, checkedAt: 0..now]]]
    /\ cache \in [Images -> {NoEntry} \cup
           [status: Status, checkedAt: 0..now, expires: 0..(now + CacheTTL)]]

(* What a request is about to answer for s. *)
Answers(r, s, status) == At(r, s, "done") /\ check[r][s].status = status

(* The longest time between cosign's end and an answer from it: the entry expires,
   the slower goroutine ends. *)
CacheAge == CacheTTL - 1 + (IF Cardinality(Service) > 1 THEN Deadline ELSE 0)

(* Whatever requests overlap, are cancelled or find each other's entries: an
   image is called verified only if its own attestation is genuine, or was no
   longer ago than one verification and the age of a cached entry; and the time
   shown with any verdict is at most that age ago. *)
AnswersAreTrue ==
    \A r \in Request, s \in Service :
        LET image == check[r][s].image IN
        /\ Answers(r, s, "not_applicable") => image = Other
        /\ Answers(r, s, "verified") =>
               /\ image # Other
               /\ \/ registry[image].attached = "genuine"
                  \/ /\ registry[image].attached = "withdrawn"
                     /\ now <= registry[image].since + Deadline + CacheAge
        /\ At(r, s, "done") /\ image # Other =>
               now <= check[r][s].checkedAt + CacheAge

(* A status request is answered although cosign may hang. *)
RequestsReturn ==
    \A r \in Request : request[r].at = "checking" ~> request[r].at = "idle"

(* attestation_test.go:71 expects "unavailable" of a verification that ran out of
   time. *)
OutOfTimeIsUnavailable ==
    [][\A r \in Request, s \in Service :
           At(r, s, "verify") /\ Killed(r, s) /\ At(r, s, "done")' =>
               check'[r][s].status = "unavailable"]_vars

(* A verdict is in force until it expires: verifications of one image that overlap
   do not replace one that knows of the attestation. *)
VerifiedStays ==
    [][\A i \in Images :
           Fresh(cache[i]) /\ cache[i].status = "verified" =>
               cache'[i].status = "verified"]_vars

=============================================================================
