-------------------------- MODULE AttestationProofs --------------------------
(***************************************************************************)
(* Proofs about Attestation: for any number of services, images and        *)
(* requests, and all times, what a status request answers is true          *)
(* (AnswersAreTrue).                                                       *)
(*                                                                         *)
(* The inductive invariant follows a verdict from cosign's reading of the  *)
(* registry through the cache to the answer, and says how old it is at     *)
(* each of these places.                                                   *)
(***************************************************************************)
EXTENDS Attestation, FiniteSetTheorems, TLAPS

USE TimeAssumption

CheckRecord ==
    [at: {"lookup", "verify", "report", "done"}, image: Images \cup {Other}, since: 0..now,
     status: Status \cup {"none"}, checkedAt: 0..now]

(* A verdict on image i that was read at a given time or later is true, or was until
   the attestation was withdrawn. *)
Backed(i, status, read) ==
    /\ status # "not_applicable"
    /\ status = "verified" =>
           \/ registry[i].attached = "genuine"
           \/ registry[i].attached = "withdrawn" /\ read <= registry[i].since

(* An entry was read at most Deadline before its time. *)
EntryTrue(i) ==
    cache[i] # NoEntry =>
        /\ cache[i].expires = cache[i].checkedAt + CacheTTL
        /\ Backed(i, cache[i].status, cache[i].checkedAt - Deadline)

(* While cosign runs: no longer than Deadline, and what it has read is backed. *)
RunTrue(r, s) ==
    check[r][s].at \in {"verify", "report"} =>
        /\ check[r][s].image # Other
        /\ now <= check[r][s].since + Deadline
        /\ check[r][s].at = "report" =>
               /\ check[r][s].status \in Status
               /\ Backed(check[r][s].image, check[r][s].status, check[r][s].since)

(* A goroutine that has ended; its verdict is as old as an entry may be, and the
   wait for the request's other goroutines. *)
DoneTrue(r, s) ==
    check[r][s].at = "done" =>
        /\ check[r][s].image = Other => check[r][s].status \in {"none", "not_applicable"}
        /\ check[r][s].image # Other =>
               /\ Backed(check[r][s].image, check[r][s].status, check[r][s].checkedAt - Deadline)
               /\ now <= check[r][s].checkedAt + CacheAge
               /\ \A t \in Service :
                      /\ check[r][t].at = "lookup" => now < check[r][s].checkedAt + CacheTTL
                      /\ check[r][t].at \in {"verify", "report"} =>
                             check[r][t].since < check[r][s].checkedAt + CacheTTL

IdleIsEmpty(r) == request[r].at = "idle" => check[r] = [s \in Service |-> NoCheck]

AllTrue ==
    /\ TypeOK
    /\ \A i \in Images : EntryTrue(i)
    /\ \A r \in Request : IdleIsEmpty(r) /\ \A s \in Service : RunTrue(r, s) /\ DoneTrue(r, s)

-----------------------------------------------------------------------------
(* Lemmas *)

(* More than one goroutine, more than one service. *)
LEMMA TwoServices ==
    ASSUME NEW s \in Service, NEW t \in Service, s # t
    PROVE  CacheAge = CacheTTL - 1 + Deadline
<1>1. IsFiniteSet({s, t}) /\ Cardinality({s, t}) = 2
  <2>1. IsFiniteSet({s}) /\ Cardinality({s}) = 1
    BY FS_Singleton
  <2>2. /\ IsFiniteSet({s} \cup {t})
        /\ Cardinality({s} \cup {t}) =
               IF t \in {s} THEN Cardinality({s}) ELSE Cardinality({s}) + 1
    BY <2>1, FS_AddElement, Zenon
  <2>3. {s, t} = {s} \cup {t} /\ t \notin {s}
    OBVIOUS
  <2>4. Cardinality({s} \cup {t}) = 2
    BY <2>1, <2>2, <2>3
  <2> QED BY <2>2, <2>3, <2>4
<1>2. Cardinality({s, t}) <= Cardinality(Service) /\ Cardinality(Service) \in Nat
  BY ServiceAssumption, FS_Subset, FS_CardinalityType
<1> QED BY <1>1, <1>2 DEF CacheAge

LEMMA CacheAgeBounds == CacheAge \in Nat /\ CacheTTL - 1 <= CacheAge
  BY DEF CacheAge

(* What a step of one goroutine writes, and what it leaves. *)
Writes(r, s, c) ==
    /\ check'[r][s] = c
    /\ \A q \in Request, t \in Service : q # r \/ t # s => check'[q][t] = check[q][t]
    /\ \A q \in Request : q # r => check'[q] = check[q]

LEMMA OneCheck ==
    ASSUME TypeOK, NEW r \in Request, NEW s \in Service, NEW c \in CheckRecord,
           check' = [check EXCEPT ![r][s] = c]
    PROVE  Writes(r, s, c) /\ check' \in [Request -> [Service -> CheckRecord]]
  BY DEF TypeOK, CheckRecord, Writes

(* A verdict that is backed stays so, whatever is attached or withdrawn later. *)
BackedNext(i, status, read) ==
    /\ status # "not_applicable"
    /\ status = "verified" =>
           \/ registry'[i].attached = "genuine"
           \/ registry'[i].attached = "withdrawn" /\ read <= registry'[i].since

LEMMA BackedStays ==
    ASSUME TypeOK, NEW p \in Images, Publish(p) \/ Withdraw(p), NEW i \in Images, NEW status,
           NEW read \in Int, read <= now, Backed(i, status, read)
    PROVE  BackedNext(i, status, read)
<1>1. CASE p = i
  <2>1. CASE Publish(p)
    <3>1. registry[i].attached = "nothing"
      BY <1>1, <2>1 DEF Publish
    <3> QED BY <3>1 DEF Backed, BackedNext
  <2>2. CASE Withdraw(p)
    <3>1. registry'[i].attached = "withdrawn" /\ registry'[i].since = now
      BY <1>1, <2>2 DEF Withdraw, TypeOK
    <3> QED BY <3>1 DEF Backed, BackedNext
  <2> QED BY <2>1, <2>2
<1>2. CASE p # i
  <2>1. registry'[i] = registry[i]
    BY <1>2 DEF Publish, Withdraw, TypeOK
  <2> QED BY <2>1 DEF Backed, BackedNext
<1> QED BY <1>1, <1>2

(* A goroutine's step keeps the invariant if what it writes is true and does not
   make an ended one too old. *)
LEMMA GoroutineStep ==
    ASSUME AllTrue, NEW r \in Request, NEW s \in Service, NEW c \in CheckRecord,
           Writes(r, s, c), UNCHANGED <<now, registry, request>>,
           request[r].at = "checking",
           TypeOK', \A i \in Images : EntryTrue(i)',
           RunTrue(r, s)', DoneTrue(r, s)',
           \* a goroutine that looks up or runs did so before
           c.at = "lookup" => check[r][s].at = "lookup",
           c.at \in {"verify", "report"} =>
               \/ check[r][s].at = "lookup" /\ c.since = now
               \/ check[r][s].at = "verify" /\ c.since = check[r][s].since
    PROVE  AllTrue'
<1>1. /\ check'[r][s] = c
      /\ \A q \in Request, t \in Service : q # r \/ t # s => check'[q][t] = check[q][t]
      /\ \A q \in Request : q # r => check'[q] = check[q]
  BY DEF Writes
<1>2. ASSUME NEW q \in Request PROVE IdleIsEmpty(q)'
  BY <1>1 DEF AllTrue, IdleIsEmpty
<1>3. ASSUME NEW q \in Request, NEW t \in Service, q # r \/ t # s
      PROVE  RunTrue(q, t)' /\ DoneTrue(q, t)'
  <2>1. check'[q][t] = check[q][t] /\ RunTrue(q, t) /\ DoneTrue(q, t)
    BY <1>1, <1>3 DEF AllTrue
  <2>2. RunTrue(q, t)'
    BY <2>1 DEF RunTrue, Backed
  <2>3. ASSUME check[q][t].at = "done", check[q][t].image # Other, NEW u \in Service
        PROVE  /\ check'[q][u].at = "lookup" => now < check[q][t].checkedAt + CacheTTL
               /\ check'[q][u].at \in {"verify", "report"} =>
                      check'[q][u].since < check[q][t].checkedAt + CacheTTL
    <3>1. CASE q = r /\ u = s
      BY <1>1, <2>1, <2>3, <3>1 DEF DoneTrue
    <3>2. CASE ~(q = r /\ u = s)
      <4>1. check'[q][u] = check[q][u]
        BY <1>1, <3>2
      <4> QED BY <2>1, <2>3, <4>1 DEF DoneTrue
    <3> QED BY <3>1, <3>2
  <2>4. DoneTrue(q, t)'
    BY <2>1, <2>3 DEF DoneTrue, Backed, CacheAge
  <2> QED BY <2>2, <2>4
<1> QED BY <1>2, <1>3 DEF AllTrue

-----------------------------------------------------------------------------
(* The steps *)

LEMMA InitTrue == Init => AllTrue
<1> SUFFICES ASSUME Init PROVE AllTrue
  OBVIOUS
<1>1. NoCheck \in CheckRecord
  BY DEF Init, NoCheck, CheckRecord
<1>2. TypeOK
  BY <1>1 DEF Init, TypeOK, CheckRecord, Attached
<1>3. \A r \in Request : IdleIsEmpty(r) /\ \A s \in Service : RunTrue(r, s) /\ DoneTrue(r, s)
  BY DEF Init, IdleIsEmpty, RunTrue, DoneTrue, NoCheck
<1>4. \A i \in Images : EntryTrue(i)
  BY DEF Init, EntryTrue
<1> QED BY <1>2, <1>3, <1>4 DEF AllTrue

(* Request r's goroutines are at work on whatever is running. *)
LEMMA AskTrue ==
    ASSUME AllTrue, NEW r \in Request, Ask(r)
    PROVE  AllTrue'
<1>0. TypeOK /\ UNCHANGED <<now, registry, cache>>
  BY DEF AllTrue, Ask
<1>1. PICK shown \in [Service -> Images \cup {Other}] :
          check' = [check EXCEPT ![r] = [s \in Service |->
                       [NoCheck EXCEPT !.at = "lookup", !.image = shown[s]]]]
  BY DEF Ask
<1>2. /\ \A s \in Service : check'[r][s] \in CheckRecord /\ check'[r][s].at = "lookup"
      /\ \A q \in Request \ {r} : check'[q] = check[q]
      /\ check' \in [Request -> [Service -> CheckRecord]]
  <2>1. ASSUME NEW s \in Service
        PROVE  [NoCheck EXCEPT !.at = "lookup", !.image = shown[s]] \in CheckRecord
    <3>1. NoCheck \in CheckRecord
      BY <1>0 DEF TypeOK, NoCheck, CheckRecord
    <3>2. shown[s] \in Images \cup {Other}
      OBVIOUS
    <3> QED BY <3>1, <3>2 DEF CheckRecord
  <2>2. \A s \in Service : [NoCheck EXCEPT !.at = "lookup", !.image = shown[s]].at = "lookup"
    BY DEF NoCheck
  <2> QED BY <1>0, <1>1, <2>1, <2>2 DEF TypeOK, CheckRecord
<1>3. /\ request'[r].at = "checking"
      /\ \A q \in Request \ {r} : request'[q] = request[q]
      /\ request' \in [Request -> [at: {"idle", "checking"}, cancelled: BOOLEAN]]
  BY <1>0 DEF Ask, TypeOK
<1>4. TypeOK'
  BY <1>0, <1>2, <1>3 DEF TypeOK, CheckRecord
<1>5. \A i \in Images : EntryTrue(i)'
  BY <1>0 DEF AllTrue, EntryTrue, Backed
<1>6. \A s \in Service : RunTrue(r, s)' /\ DoneTrue(r, s)'
  BY <1>2 DEF RunTrue, DoneTrue
<1>7. ASSUME NEW q \in Request \ {r}, NEW s \in Service PROVE RunTrue(q, s)' /\ DoneTrue(q, s)'
  BY <1>0, <1>2 DEF AllTrue, RunTrue, DoneTrue, Backed, CacheAge
<1>8. \A q \in Request : IdleIsEmpty(q)'
  BY <1>2, <1>3 DEF AllTrue, IdleIsEmpty
<1> QED BY <1>4, <1>5, <1>6, <1>7, <1>8 DEF AllTrue

LEMMA CancelTrue ==
    ASSUME AllTrue, NEW r \in Request, Cancel(r)
    PROVE  AllTrue'
<1>0. TypeOK /\ UNCHANGED <<now, registry, check, cache>>
  BY DEF AllTrue, Cancel
<1>1. /\ request' \in [Request -> [at: {"idle", "checking"}, cancelled: BOOLEAN]]
      /\ \A q \in Request : request'[q].at = request[q].at
  BY <1>0 DEF Cancel, TypeOK
<1>2. TypeOK'
  BY <1>0, <1>1 DEF TypeOK
<1> QED BY <1>0, <1>1, <1>2
        DEF AllTrue, EntryTrue, IdleIsEmpty, RunTrue, DoneTrue, Backed, CacheAge

LEMMA RespondTrue ==
    ASSUME AllTrue, NEW r \in Request, Respond(r)
    PROVE  AllTrue'
<1>0. TypeOK /\ UNCHANGED <<now, registry, cache>>
  BY DEF AllTrue, Respond
<1>1. /\ check'[r] = [s \in Service |-> NoCheck]
      /\ \A q \in Request \ {r} : check'[q] = check[q]
      /\ check' \in [Request -> [Service -> CheckRecord]]
  <2>1. NoCheck \in CheckRecord
    BY <1>0 DEF TypeOK, NoCheck, CheckRecord
  <2>2. [s \in Service |-> NoCheck] \in [Service -> CheckRecord]
    BY <2>1
  <2>3. check \in [Request -> [Service -> CheckRecord]]
    BY <1>0 DEF TypeOK, CheckRecord
  <2> QED BY <2>2, <2>3 DEF Respond
<1>2. /\ \A q \in Request \ {r} : request'[q] = request[q]
      /\ request' \in [Request -> [at: {"idle", "checking"}, cancelled: BOOLEAN]]
  BY <1>0 DEF Respond, TypeOK
<1>3. TypeOK'
  BY <1>0, <1>1, <1>2 DEF TypeOK, CheckRecord
<1>4. \A i \in Images : EntryTrue(i)'
  BY <1>0 DEF AllTrue, EntryTrue, Backed
<1>5. \A s \in Service : RunTrue(r, s)' /\ DoneTrue(r, s)'
  BY <1>1 DEF RunTrue, DoneTrue, NoCheck
<1>6. ASSUME NEW q \in Request \ {r}, NEW s \in Service PROVE RunTrue(q, s)' /\ DoneTrue(q, s)'
  BY <1>0, <1>1 DEF AllTrue, RunTrue, DoneTrue, Backed, CacheAge
<1>7. \A q \in Request : IdleIsEmpty(q)'
  BY <1>1, <1>2 DEF AllTrue, IdleIsEmpty
<1> QED BY <1>3, <1>4, <1>5, <1>6, <1>7 DEF AllTrue

(* A fresh entry is as old as its time allows, and its verdict is backed. *)
LEMMA LookupTrue ==
    ASSUME AllTrue, NEW r \in Request, NEW s \in Service, Lookup(r, s)
    PROVE  AllTrue'
<1> DEFINE image == check[r][s].image
<1> DEFINE entry == cache[image]
<1>0. /\ TypeOK /\ UNCHANGED <<now, registry, request, cache>>
      /\ request[r].at = "checking" /\ check[r][s].at = "lookup"
      /\ check[r][s] \in CheckRecord /\ now \in Nat
  BY DEF AllTrue, Lookup, At, TypeOK, CheckRecord
<1>1. \A i \in Images : EntryTrue(i)'
  BY <1>0 DEF AllTrue, EntryTrue, Backed
<1>2. CASE image = Other
  <2> DEFINE c == [check[r][s] EXCEPT !.at = "done", !.status = "not_applicable"]
  <2>1. check' = [check EXCEPT ![r][s] = c]
    BY <1>2 DEF Lookup
  <2>2. c \in CheckRecord /\ c.at = "done" /\ c.image = Other /\ c.status = "not_applicable"
    BY <1>0, <1>2 DEF CheckRecord, Status
  <2> HIDE DEF c
  <2>3. Writes(r, s, c) /\ TypeOK'
    BY <1>0, <2>1, <2>2, OneCheck DEF TypeOK, CheckRecord
  <2>4. RunTrue(r, s)' /\ DoneTrue(r, s)'
    BY <2>2, <2>3 DEF RunTrue, DoneTrue, Writes
  <2> QED BY <1>0, <1>1, <2>2, <2>3, <2>4, GoroutineStep
<1>3. CASE image # Other /\ Fresh(entry)
  <2> DEFINE c == [check[r][s] EXCEPT !.at = "done", !.status = entry.status,
                                      !.checkedAt = entry.checkedAt]
  <2>0. /\ image \in Images /\ entry # NoEntry /\ now < entry.expires
        /\ entry \in [status: Status, checkedAt: 0..now, expires: 0..(now + CacheTTL)]
        /\ entry.expires = entry.checkedAt + CacheTTL
        /\ Backed(image, entry.status, entry.checkedAt - Deadline)
    BY <1>0, <1>3 DEF Fresh, CheckRecord, TypeOK, AllTrue, EntryTrue
  <2>1. check' = [check EXCEPT ![r][s] = c]
    BY <1>3 DEF Lookup
  <2>2. /\ c \in CheckRecord /\ c.at = "done" /\ c.image = image
        /\ c.status = entry.status /\ c.checkedAt = entry.checkedAt
    BY <1>0, <2>0 DEF CheckRecord
  <2> HIDE DEF c
  <2>3. Writes(r, s, c) /\ TypeOK'
    BY <1>0, <2>1, <2>2, OneCheck DEF TypeOK, CheckRecord
  <2>4. now < c.checkedAt + CacheTTL /\ now <= c.checkedAt + CacheAge
    BY <1>0, <2>0, <2>2, CacheAgeBounds
  <2>5. ASSUME NEW t \in Service
        PROVE  /\ check'[r][t].at = "lookup" => now < c.checkedAt + CacheTTL
               /\ check'[r][t].at \in {"verify", "report"} =>
                      check'[r][t].since < c.checkedAt + CacheTTL
    <3>1. check'[r][t].since \in 0..now
      BY <1>0, <2>3 DEF TypeOK
    <3> QED BY <1>0, <2>2, <2>4, <3>1 DEF CheckRecord
  <2>6. RunTrue(r, s)' /\ DoneTrue(r, s)'
    BY <1>0, <1>3, <2>0, <2>2, <2>3, <2>4, <2>5 DEF RunTrue, DoneTrue, Writes, Backed, CacheAge
  <2> QED BY <1>0, <1>1, <2>2, <2>3, <2>6, GoroutineStep
<1>4. CASE image # Other /\ ~Fresh(entry)
  <2> DEFINE c == [check[r][s] EXCEPT !.at = "verify", !.since = now]
  <2>1. check' = [check EXCEPT ![r][s] = c]
    BY <1>4 DEF Lookup
  <2>2. c \in CheckRecord /\ c.at = "verify" /\ c.image = image /\ c.since = now
    <3>1. now \in 0..now
      BY <1>0
    <3> QED BY <1>0, <3>1 DEF CheckRecord
  <2> HIDE DEF c
  <2>3. Writes(r, s, c) /\ TypeOK'
    BY <1>0, <2>1, <2>2, OneCheck DEF TypeOK, CheckRecord
  <2>4. RunTrue(r, s)' /\ DoneTrue(r, s)'
    BY <1>0, <1>4, <2>2, <2>3 DEF RunTrue, DoneTrue, Writes
  <2> QED BY <1>0, <1>1, <2>2, <2>3, <2>4, GoroutineStep
<1> QED BY <1>2, <1>3, <1>4

(* cosign ends, its result is stored and returned: true at this time. *)
LEMMA StoreTrue ==
    ASSUME AllTrue, NEW r \in Request, NEW s \in Service, NEW status \in Status,
           request[r].at = "checking", check[r][s].at \in {"verify", "report"},
           Backed(check[r][s].image, status, check[r][s].since),
           Store(r, s, status)
    PROVE  AllTrue'
<1> DEFINE image == check[r][s].image
<1> DEFINE c == [check[r][s] EXCEPT !.at = "done", !.since = 0, !.status = status,
                                    !.checkedAt = now]
<1> DEFINE entry == [status |-> status, checkedAt |-> now, expires |-> now + CacheTTL]
<1>0. /\ TypeOK /\ UNCHANGED <<now, registry, request>>
      /\ check[r][s] \in CheckRecord /\ now \in Nat /\ now \in 0..now
      /\ image \in Images /\ check[r][s].since \in 0..now /\ now <= check[r][s].since + Deadline
  BY DEF AllTrue, Store, TypeOK, CheckRecord, RunTrue
<1>1. check' = [check EXCEPT ![r][s] = c] /\ cache' = [cache EXCEPT ![image] = entry]
  BY DEF Store
<1>2. c \in CheckRecord /\ c.at = "done" /\ c.image = image /\ c.status = status /\ c.checkedAt = now
  <2>1. 0 \in 0..now
    BY <1>0
  <2>2. c \in CheckRecord
    BY <1>0, <2>1 DEF CheckRecord
  <2> QED BY <1>0, <2>2 DEF CheckRecord
<1>3. entry \in [status: Status, checkedAt: 0..now, expires: 0..(now + CacheTTL)]
  BY <1>0
<1>4. /\ cache'[image] = entry /\ \A i \in Images \ {image} : cache'[i] = cache[i]
      /\ cache' \in [Images -> {NoEntry} \cup
             [status: Status, checkedAt: 0..now, expires: 0..(now + CacheTTL)]]
  <2> HIDE DEF image, entry
  <2> QED BY <1>0, <1>1, <1>3 DEF TypeOK
<1>5. Backed(image, status, now - Deadline)
  BY <1>0 DEF Backed, TypeOK
<1>6. /\ entry.status = status /\ entry.checkedAt = now
      /\ entry.expires = entry.checkedAt + CacheTTL
  OBVIOUS
<1> HIDE DEF c, entry
<1>7. Writes(r, s, c) /\ TypeOK'
  BY <1>0, <1>1, <1>2, <1>4, OneCheck DEF TypeOK, CheckRecord
<1>8. ASSUME NEW i \in Images PROVE EntryTrue(i)'
  <2>1. CASE i = image
    BY <1>0, <1>4, <1>5, <1>6, <2>1 DEF EntryTrue, Backed
  <2>2. CASE i # image
    BY <1>0, <1>4, <2>2 DEF AllTrue, EntryTrue, Backed
  <2> QED BY <2>1, <2>2
<1>9. image # Other
  BY DEF AllTrue, RunTrue
<1>10. RunTrue(r, s)'
  BY <1>2, <1>7 DEF RunTrue, Writes
<1>11. ASSUME NEW t \in Service
       PROVE  /\ check'[r][t].at = "lookup" => now < now + CacheTTL
              /\ check'[r][t].at \in {"verify", "report"} =>
                     check'[r][t].since < now + CacheTTL
  <2>1. check'[r][t].since \in 0..now
    BY <1>0, <1>7 DEF TypeOK
  <2> QED BY <1>0, <2>1
<1>12. now <= now + CacheAge
  BY <1>0, CacheAgeBounds
<1>13. DoneTrue(r, s)'
  BY <1>0, <1>2, <1>5, <1>7, <1>9, <1>11, <1>12 DEF DoneTrue, Writes, Backed, CacheAge
<1> QED BY <1>0, <1>2, <1>7, <1>8, <1>10, <1>13, GoroutineStep

(* What is attached now is not later than what cosign reads now. *)
LEMMA ReadTrue ==
    ASSUME AllTrue, NEW r \in Request, NEW s \in Service, ReadRegistry(r, s)
    PROVE  AllTrue'
<1> DEFINE image == check[r][s].image
<1>0. /\ TypeOK /\ UNCHANGED <<now, registry, request, cache>>
      /\ request[r].at = "checking" /\ check[r][s].at = "verify"
      /\ check[r][s] \in CheckRecord /\ image \in Images
      /\ registry[image].attached \in Attached
      /\ now <= check[r][s].since + Deadline
  BY DEF AllTrue, ReadRegistry, At, TypeOK, CheckRecord, RunTrue
<1>1. PICK status \in Verdicts(registry[image].attached) :
          check' = [check EXCEPT ![r][s].at = "report", ![r][s].status = status]
  BY DEF ReadRegistry
<1>2. status \in Status /\ Backed(image, status, check[r][s].since)
  BY <1>0, <1>1 DEF Verdicts, Failure, Status, Backed
<1> DEFINE c == [check[r][s] EXCEPT !.at = "report", !.status = status]
<1>3. check' = [check EXCEPT ![r][s] = c]
  BY <1>0, <1>1 DEF TypeOK
<1>4. /\ c \in CheckRecord /\ c.at = "report" /\ c.image = image /\ c.status = status
      /\ c.since = check[r][s].since
  BY <1>0, <1>2 DEF CheckRecord
<1> HIDE DEF c
<1>5. Writes(r, s, c) /\ TypeOK'
  BY <1>0, <1>3, <1>4, OneCheck DEF TypeOK, CheckRecord
<1>6. \A i \in Images : EntryTrue(i)'
  BY <1>0 DEF AllTrue, EntryTrue, Backed
<1>7. image # Other
  BY <1>0 DEF AllTrue, RunTrue
<1>8. RunTrue(r, s)' /\ DoneTrue(r, s)'
  BY <1>0, <1>2, <1>4, <1>5, <1>7 DEF RunTrue, DoneTrue, Writes, Backed
<1> QED BY <1>0, <1>4, <1>5, <1>6, <1>8, GoroutineStep

LEMMA GoroutineTrue ==
    ASSUME AllTrue, NEW r \in Request, NEW s \in Service, Goroutine(r, s)
    PROVE  AllTrue'
<1>1. CASE Lookup(r, s)
  BY <1>1, LookupTrue
<1>2. CASE ReadRegistry(r, s)
  BY <1>2, ReadTrue
<1>3. CASE Report(r, s)
  <2>1. /\ request[r].at = "checking" /\ check[r][s].at = "report"
        /\ check[r][s].status \in Status
        /\ Backed(check[r][s].image, check[r][s].status, check[r][s].since)
        /\ Store(r, s, check[r][s].status)
    BY <1>3 DEF Report, At, AllTrue, RunTrue
  <2> QED BY <2>1, StoreTrue
<1>4. CASE Kill(r, s)
  <2>1. PICK status \in Failure :
            /\ request[r].at = "checking" /\ check[r][s].at \in {"verify", "report"}
            /\ Store(r, s, status)
    BY <1>4 DEF Kill, At
  <2>2. status \in Status /\ Backed(check[r][s].image, status, check[r][s].since)
    BY <2>1 DEF Status, Failure, Backed
  <2> QED BY <2>1, <2>2, StoreTrue
<1> QED BY <1>1, <1>2, <1>3, <1>4 DEF Goroutine

(* What is attached or withdrawn now does not make an earlier verdict wrong. *)
LEMMA RegistryTrue ==
    ASSUME AllTrue, NEW p \in Images, Publish(p) \/ Withdraw(p)
    PROVE  AllTrue'
<1>0. TypeOK /\ UNCHANGED <<now, request, check, cache>> /\ now \in Nat
  BY DEF AllTrue, Publish, Withdraw, TypeOK
<1>1. TypeOK'
  <2>1. PICK what \in {"genuine", "foreign", "withdrawn"} :
            registry' = [registry EXCEPT ![p] = [attached |-> what, since |-> now]]
    BY DEF Publish, Withdraw
  <2>2. [attached |-> what, since |-> now] \in [attached: Attached, since: 0..MaxNow]
    BY <1>0 DEF Publish, Withdraw, Attached
  <2>3. registry' \in [Images -> [attached: Attached, since: 0..MaxNow]]
    BY <1>0, <2>1, <2>2 DEF TypeOK
  <2> QED BY <1>0, <2>3 DEF TypeOK
<1>2. ASSUME NEW i \in Images PROVE EntryTrue(i)'
  <2> SUFFICES ASSUME cache[i] # NoEntry
               PROVE  /\ cache[i].expires = cache[i].checkedAt + CacheTTL
                      /\ Backed(i, cache[i].status, cache[i].checkedAt - Deadline)'
    BY <1>0 DEF EntryTrue, Backed
  <2>1. cache[i].checkedAt \in 0..now
    BY <1>0 DEF TypeOK
  <2>2. cache[i].checkedAt - Deadline \in Int /\ cache[i].checkedAt - Deadline <= now
    BY <1>0, <2>1
  <2>3. /\ cache[i].expires = cache[i].checkedAt + CacheTTL
        /\ Backed(i, cache[i].status, cache[i].checkedAt - Deadline)
    BY DEF AllTrue, EntryTrue
  <2>4. BackedNext(i, cache[i].status, cache[i].checkedAt - Deadline)
    BY <1>0, <2>2, <2>3, BackedStays
  <2>5. Backed(i, cache[i].status, cache[i].checkedAt - Deadline)'
    BY <1>0, <2>4 DEF Backed, BackedNext
  <2> QED BY <2>3, <2>5
<1>3. ASSUME NEW r \in Request, NEW s \in Service PROVE RunTrue(r, s)' /\ DoneTrue(r, s)'
  <2> DEFINE c == check[r][s]
  <2>0. /\ c \in CheckRecord /\ c' = c /\ RunTrue(r, s) /\ DoneTrue(r, s)
        /\ c.since \in 0..now /\ c.checkedAt \in 0..now
    BY <1>0 DEF AllTrue, TypeOK, CheckRecord
  <2>1. /\ c.since \in Int /\ c.since <= now
        /\ c.checkedAt - Deadline \in Int /\ c.checkedAt - Deadline <= now
    BY <1>0, <2>0
  <2>2. c.image # Other => c.image \in Images
    BY <2>0 DEF CheckRecord
  <2>3. \A i \in Images : \A read \in Int : read <= now /\ Backed(i, c.status, read) =>
            BackedNext(i, c.status, read)
    BY <1>0, BackedStays
  <2>4. RunTrue(r, s)'
    BY <1>0, <2>0, <2>1, <2>2, <2>3 DEF RunTrue, Backed, BackedNext
  <2>5. DoneTrue(r, s)'
    BY <1>0, <2>0, <2>1, <2>2, <2>3 DEF DoneTrue, Backed, BackedNext, CacheAge
  <2> QED BY <2>4, <2>5
<1>4. \A r \in Request : IdleIsEmpty(r)'
  BY <1>0 DEF AllTrue, IdleIsEmpty
<1> QED BY <1>1, <1>2, <1>3, <1>4 DEF AllTrue

(* Time passes only while a request waits for cosign, and bounds the age of what its
   other goroutines have found; or nobody asks. *)
LEMMA TickTrue ==
    ASSUME AllTrue, Tick
    PROVE  AllTrue'
<1>0. TypeOK /\ UNCHANGED <<registry, request, check, cache>> /\ now \in Nat /\ now' = now + 1
  BY DEF AllTrue, Tick, TypeOK
<1>1. TypeOK'
  <2>1. now' \in 0..(MaxNow + Deadline)
    BY <1>0 DEF Tick
  <2>2. \A n \in 0..now : n \in 0..now'
    BY <1>0
  <2>3. \A n \in 0..(now + CacheTTL) : n \in 0..(now' + CacheTTL)
    BY <1>0
  <2>4. cache' \in [Images -> {NoEntry} \cup
            [status: Status, checkedAt: 0..now', expires: 0..(now' + CacheTTL)]]
    BY <1>0, <2>2, <2>3 DEF TypeOK
  <2>5. check' \in [Request -> [Service ->
           [at: {"lookup", "verify", "report", "done"},
            image: Images \cup {Other}, since: 0..now',
            status: Status \cup {"none"}, checkedAt: 0..now']]]
    BY <1>0, <2>2 DEF TypeOK
  <2> QED BY <1>0, <2>1, <2>4, <2>5 DEF TypeOK
<1>2. \A i \in Images : EntryTrue(i)'
  BY <1>0 DEF AllTrue, EntryTrue, Backed
<1>3. ASSUME NEW r \in Request, NEW s \in Service PROVE RunTrue(r, s)' /\ DoneTrue(r, s)'
  <2>0. /\ check[r][s] \in CheckRecord /\ RunTrue(r, s) /\ DoneTrue(r, s) /\ IdleIsEmpty(r)
        /\ \A t \in Service : check[r][t] \in CheckRecord /\ RunTrue(r, t)
    BY <1>0 DEF AllTrue, TypeOK, CheckRecord
  <2>1. request[r].at \in {"idle", "checking"}
    BY <1>0 DEF TypeOK
  <2>2. CASE request[r].at = "idle"
    <3>1. check[r][s] = NoCheck
      BY <2>0, <2>2 DEF IdleIsEmpty
    <3> QED BY <1>0, <3>1 DEF RunTrue, DoneTrue, NoCheck
  <2>3. CASE request[r].at = "checking"
    <3>1. \A t \in Service : /\ check[r][t].at # "lookup"
                             /\ check[r][t].at \in {"verify", "report"} =>
                                    ~(now >= check[r][t].since + Deadline)
      BY <2>3 DEF Tick, Killed
    <3>2. \A t \in Service : check[r][t].since \in Nat
      BY <2>0 DEF CheckRecord
    <3>3. PICK t \in Service : check[r][t].at \in {"verify", "report"}
      BY <2>3 DEF Tick
    <3>4. RunTrue(r, s)'
      BY <1>0, <2>0, <3>1, <3>2 DEF RunTrue, Backed
    <3>5. ASSUME check[r][s].at = "done", check[r][s].image # Other
          PROVE  now + 1 <= check[r][s].checkedAt + CacheAge
      <4>1. CacheAge = CacheTTL - 1 + Deadline
        BY <3>3, <3>5, TwoServices
      <4>2. check[r][t].since < check[r][s].checkedAt + CacheTTL
        BY <2>0, <3>3, <3>5 DEF DoneTrue
      <4>3. check[r][s].checkedAt \in Nat
        BY <2>0 DEF CheckRecord
      <4> QED BY <1>0, <3>1, <3>2, <3>3, <4>1, <4>2, <4>3
    <3>6. DoneTrue(r, s)'
      BY <1>0, <2>0, <3>1, <3>5 DEF DoneTrue, Backed, CacheAge
    <3> QED BY <3>4, <3>6
  <2> QED BY <2>1, <2>2, <2>3
<1>4. \A r \in Request : IdleIsEmpty(r)'
  BY <1>0 DEF AllTrue, IdleIsEmpty
<1> QED BY <1>1, <1>2, <1>3, <1>4 DEF AllTrue

LEMMA StepTrue == AllTrue /\ [Next]_vars => AllTrue'
<1> SUFFICES ASSUME AllTrue, [Next]_vars PROVE AllTrue'
  OBVIOUS
<1>1. ASSUME NEW r \in Request,
             Ask(r) \/ Cancel(r) \/ Respond(r) \/ \E s \in Service : Goroutine(r, s)
      PROVE  AllTrue'
  BY <1>1, AskTrue, CancelTrue, RespondTrue, GoroutineTrue
<1>2. CASE \E p \in Images : Publish(p) \/ Withdraw(p)
  BY <1>2, RegistryTrue
<1>3. CASE Tick
  BY <1>3, TickTrue
<1>4. CASE UNCHANGED vars
  BY <1>4 DEF vars, AllTrue, TypeOK, EntryTrue, IdleIsEmpty, RunTrue, DoneTrue, Backed, CacheAge
<1> QED BY <1>1, <1>2, <1>3, <1>4 DEF Next

LEMMA AlwaysTrue == Spec => []AllTrue
  BY InitTrue, StepTrue, PTL DEF Spec

-----------------------------------------------------------------------------
(* The theorems *)

(* Every variable of the attestation check keeps its type. *)
THEOREM AttestationTyped == Spec => []TypeOK
<1>1. AllTrue => TypeOK
  BY DEF AllTrue
<1> QED BY <1>1, AlwaysTrue, PTL

(* Whatever requests overlap, are cancelled or find each other's entries, and
   whatever words cosign fails with: CheckStackAttestations calls only an image
   verified whose own attestation is genuine, or was no longer ago than one
   verification and the age of a cached entry; and it shows no older verdict. *)
THEOREM AnswersAreKnown == Spec => []AnswersAreTrue
<1>1. ASSUME AllTrue, NEW r \in Request, NEW s \in Service
      PROVE  LET image == check[r][s].image IN
             /\ Answers(r, s, "not_applicable") => image = Other
             /\ Answers(r, s, "verified") =>
                    /\ image # Other
                    /\ \/ registry[image].attached = "genuine"
                       \/ /\ registry[image].attached = "withdrawn"
                          /\ now <= registry[image].since + Deadline + CacheAge
             /\ At(r, s, "done") /\ image # Other =>
                    now <= check[r][s].checkedAt + CacheAge
  <2> SUFFICES ASSUME At(r, s, "done")
               PROVE  LET image == check[r][s].image IN
                      /\ Answers(r, s, "not_applicable") => image = Other
                      /\ Answers(r, s, "verified") =>
                             /\ image # Other
                             /\ \/ registry[image].attached = "genuine"
                                \/ /\ registry[image].attached = "withdrawn"
                                   /\ now <= registry[image].since + Deadline + CacheAge
                      /\ image # Other => now <= check[r][s].checkedAt + CacheAge
    BY DEF Answers
  <2>1. DoneTrue(r, s) /\ check[r][s].at = "done" /\ TypeOK /\ check[r][s] \in CheckRecord
    BY <1>1 DEF AllTrue, At, TypeOK, CheckRecord
  <2>2. CASE check[r][s].image = Other
    BY <2>1, <2>2 DEF DoneTrue, Answers
  <2>3. CASE check[r][s].image # Other
    <3>1. check[r][s].image \in Images /\ check[r][s].checkedAt \in Nat /\ now \in Nat
      BY <2>1, <2>3 DEF CheckRecord, TypeOK
    <3>2. registry[check[r][s].image].since \in Nat
      BY <2>1, <3>1 DEF TypeOK
    <3>3. /\ now <= check[r][s].checkedAt + CacheAge
          /\ Backed(check[r][s].image, check[r][s].status, check[r][s].checkedAt - Deadline)
      BY <2>1, <2>3 DEF DoneTrue
    <3> QED BY <2>3, <3>1, <3>2, <3>3, CacheAgeBounds DEF Answers, Backed
  <2> QED BY <2>2, <2>3
<1>2. AllTrue => AnswersAreTrue
  BY <1>1 DEF AnswersAreTrue
<1> QED BY <1>2, AlwaysTrue, PTL
=============================================================================
