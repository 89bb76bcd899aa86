----------------------- MODULE AdGuardBootstrapProofs -----------------------
(***************************************************************************)
(* Proofs about AdGuardBootstrap: for any number of calls and passwords    *)
(* and whatever may go wrong, credentials.json is written once             *)
(* (StoredOnce), a reported success is one (SuccessIsReal), and without    *)
(* calls at the same time the stored password is AdGuard's                 *)
(* (StoredIsInForce).                                                      *)
(*                                                                         *)
(* All three rest on AdGuard taking the wizard once: of all calls, ever,   *)
(* one gets to the rename.                                                 *)
(***************************************************************************)
EXTENDS AdGuardBootstrap, TLAPS

USE NoneAssumption

CallRecord ==
    [at: Early, password: {None}, result: {"none"}]
        \cup [at: Late, password: Password, result: {"none", "error"}]
        \cup [at: {"return"}, password: Password \cup {None}, result: {"ok", "error"}]

Alone == "overlap" \notin faults

(* What is true while a call is at its point. *)
CallKnows(c) ==
    /\ call[c].at = "activate" => adguard = call[c].password /\ stored = None
    /\ call[c].at \in {"test", "dns", "filtering", "report"} => adguard # None
    /\ call[c].at \in {"filtering", "report"} => "dns" \in baseline
    /\ call[c].at = "report" => "filtering" \in baseline
    /\ call[c].at = "return" /\ call[c].result = "ok" =>
           stored = adguard /\ adguard # None /\ baseline = {"dns", "filtering"}
    /\ Alone /\ call[c].at \in {"configure", "activate"} => temp = call[c].password

OneActivates ==
    \A c, d \in Caller : call[c].at = "activate" /\ call[d].at = "activate" => c = d

(* Without calls at the same time. *)
AloneKnows ==
    Alone => /\ stored # None => stored = adguard
             /\ \A c, d \in Caller : call[c].at # "idle" /\ call[d].at # "idle" => c = d

Inv ==
    /\ TypeOK /\ OneActivates /\ AloneKnows
    /\ stored # None => adguard # None
    /\ \A c \in Caller : CallKnows(c)

-----------------------------------------------------------------------------
(* Lemmas *)

(* What a step of call c leaves of the others. *)
Becomes(c, r) ==
    /\ call'[c] = r
    /\ \A d \in Caller : d # c => call'[d] = call[d]

LEMMA OneCall ==
    ASSUME TypeOK, NEW c \in Caller, NEW r \in CallRecord, call' = [call EXCEPT ![c] = r]
    PROVE  Becomes(c, r) /\ call' \in [Caller -> CallRecord]
  BY DEF TypeOK, CallRecord, Becomes

(* A call is replaced as a whole, although only some of it changes. *)
LEMMA RecordOf == ASSUME TypeOK, NEW c \in Caller PROVE call[c] \in CallRecord
  BY DEF TypeOK, CallRecord

LEMMA RecordAt ==
    ASSUME TypeOK, NEW c \in Caller, NEW point, call' = [call EXCEPT ![c].at = point]
    PROVE  call' = [call EXCEPT ![c] = [call[c] EXCEPT !.at = point]]
  BY DEF TypeOK, CallRecord

LEMMA RecordFields ==
    ASSUME NEW r \in CallRecord
    PROVE  /\ r.at \in Early => r.password = None /\ r.result = "none"
           /\ r.at \in Late => r.password \in Password /\ r.result \in {"none", "error"}
           /\ r.password \in Password \cup {None}
           /\ r.at \in Early \cup Late \cup {"return"}
<1>1. CASE r \in [at: Early, password: {None}, result: {"none"}]
  BY <1>1 DEF Early, Late
<1>2. CASE r \in [at: Late, password: Password, result: {"none", "error"}]
  BY <1>2 DEF Early, Late
<1>3. CASE r \in [at: {"return"}, password: Password \cup {None}, result: {"ok", "error"}]
  BY <1>3 DEF Early, Late
<1> QED BY <1>1, <1>2, <1>3 DEF CallRecord

Admissible(point, password, result) ==
    \/ point \in Early /\ password = None /\ result = "none"
    \/ point \in Late /\ password \in Password /\ result \in {"none", "error"}
    \/ point = "return" /\ password \in Password \cup {None} /\ result \in {"ok", "error"}

LEMMA ChangedAt ==
    ASSUME NEW r \in CallRecord, NEW point, Admissible(point, r.password, r.result)
    PROVE  /\ [r EXCEPT !.at = point] \in CallRecord
           /\ [r EXCEPT !.at = point].at = point
           /\ [r EXCEPT !.at = point].password = r.password
           /\ [r EXCEPT !.at = point].result = r.result
  BY DEF CallRecord, Admissible

(* Call c goes on to a point, with a password and a result. *)
Moves(c, point, password, result) ==
    \E r \in CallRecord : /\ call' = [call EXCEPT ![c] = r]
                          /\ r.at = point /\ r.password = password /\ r.result = result

LEMMA GotoMoves ==
    ASSUME TypeOK, NEW c \in Caller, NEW point, Goto(c, point),
           Admissible(point, call[c].password, call[c].result)
    PROVE  Moves(c, point, call[c].password, call[c].result)
<1> DEFINE r == [call[c] EXCEPT !.at = point]
<1>1. call' = [call EXCEPT ![c] = r] /\ call[c] \in CallRecord
  BY RecordOf, RecordAt DEF Goto
<1>2. r \in CallRecord /\ r.at = point /\ r.password = call[c].password /\ r.result = call[c].result
  BY <1>1, ChangedAt
<1> QED BY <1>1, <1>2 DEF Moves

LEMMA ResultRecord ==
    ASSUME TypeOK, NEW c \in Caller, NEW point, NEW result,
           call' = [call EXCEPT ![c].at = point, ![c].result = result]
    PROVE  call' = [call EXCEPT ![c] = [call[c] EXCEPT !.at = point, !.result = result]]
  BY DEF TypeOK, CallRecord

LEMMA PasswordRecord ==
    ASSUME TypeOK, NEW c \in Caller, NEW point, NEW password,
           call' = [call EXCEPT ![c].at = point, ![c].password = password]
    PROVE  call' = [call EXCEPT ![c] = [call[c] EXCEPT !.at = point, !.password = password]]
  BY DEF TypeOK, CallRecord

LEMMA ResultMoves ==
    ASSUME TypeOK, NEW c \in Caller, NEW point, NEW result,
           call' = [call EXCEPT ![c].at = point, ![c].result = result],
           Admissible(point, call[c].password, result)
    PROVE  Moves(c, point, call[c].password, result)
<1>1. call' = [call EXCEPT ![c] = [call[c] EXCEPT !.at = point, !.result = result]]
  BY ResultRecord
<1>2. PICK q \in CallRecord : q = call[c]
  BY RecordOf
<1> DEFINE r == [q EXCEPT !.at = point, !.result = result]
<1>3. call' = [call EXCEPT ![c] = r]
  BY <1>1, <1>2, Zenon
<1>4. Admissible(point, q.password, result)
  BY <1>2
<1>5. /\ r \in CallRecord
      /\ r.at = point /\ r.password = q.password /\ r.result = result
  BY <1>4 DEF CallRecord, Admissible
<1> QED BY <1>2, <1>3, <1>5 DEF Moves

LEMMA PasswordMoves ==
    ASSUME TypeOK, NEW c \in Caller, NEW point, NEW password,
           call' = [call EXCEPT ![c].at = point, ![c].password = password],
           Admissible(point, password, call[c].result)
    PROVE  Moves(c, point, password, call[c].result)
<1>1. call' = [call EXCEPT ![c] = [call[c] EXCEPT !.at = point, !.password = password]]
  BY PasswordRecord
<1>2. PICK q \in CallRecord : q = call[c]
  BY RecordOf
<1> DEFINE r == [q EXCEPT !.at = point, !.password = password]
<1>3. call' = [call EXCEPT ![c] = r]
  BY <1>1, <1>2, Zenon
<1>4. Admissible(point, password, q.result)
  BY <1>2
<1>5. /\ r \in CallRecord
      /\ r.at = point /\ r.password = password /\ r.result = q.result
  BY <1>4 DEF CallRecord, Admissible
<1> QED BY <1>2, <1>3, <1>5 DEF Moves

LEMMA MovedTo ==
    ASSUME TypeOK, NEW c \in Caller, NEW point, NEW password, NEW result,
           Moves(c, point, password, result)
    PROVE  call'[c].at = point /\ call'[c].password = password /\ call'[c].result = result
  BY OneCall DEF Moves, Becomes

(* A call that ends with an error can do so anywhere. *)
LEMMA FinishMoves ==
    ASSUME TypeOK, NEW c \in Caller, NEW result \in {"ok", "error"}, Finish(c, result)
    PROVE  Moves(c, "return", call[c].password, result)
<1>1. call[c].password \in Password \cup {None}
  BY RecordOf, RecordFields
<1> QED BY <1>1, ResultMoves DEF Finish, Admissible

LEMMA LeaveMoves ==
    ASSUME TypeOK, NEW c \in Caller, NEW result \in {"none", "error"}, Leave(c, result),
           call[c].at \in Late
    PROVE  Moves(c, "cleanup", call[c].password, result)
<1>1. call[c].password \in Password
  BY RecordOf, RecordFields
<1> QED BY <1>1, ResultMoves DEF Leave, Admissible, Late

(* A step of call c that keeps AdGuard's password and the credentials once they are
   set, and undoes no baseline. *)
Careful(c) ==
    /\ adguard' = adguard \/ (adguard = None /\ call[c].at = "configure")
    /\ stored' = stored \/ (stored = None /\ call[c].at = "activate")
    /\ baseline \subseteq baseline' /\ baseline' \subseteq {"dns", "filtering"}
    /\ temp' = temp \/ call[c].at # "idle"

LEMMA OthersKnow ==
    ASSUME Inv, NEW c \in Caller, NEW d \in Caller, d # c,
           call'[d] = call[d], Careful(c), faults' = faults
    PROVE  CallKnows(d)'
<1>1. call[d] \in CallRecord /\ CallKnows(d)
  BY DEF Inv, TypeOK, CallRecord
<1>2. CASE call[d].at = "activate"
  <2>1. /\ adguard = call[d].password /\ stored = None /\ call[c].at # "activate"
        /\ call[d].password # None
    BY <1>1, <1>2, RecordFields DEF CallKnows, Inv, OneActivates, Late
  <2>2. adguard' = adguard /\ stored' = stored
    BY <2>1 DEF Careful
  <2>3. Alone => temp' = temp
    BY <1>2 DEF Careful, Inv, AloneKnows
  <2> QED BY <1>1, <1>2, <2>2, <2>3 DEF CallKnows, Alone
<1>3. CASE call[d].at = "configure"
  <2>1. Alone => temp' = temp
    BY <1>3 DEF Careful, Inv, AloneKnows
  <2> QED BY <1>1, <1>3, <2>1 DEF CallKnows, Alone
<1>4. CASE call[d].at = "return" /\ call[d].result = "ok"
  BY <1>1, <1>4 DEF CallKnows, Careful
<1>5. CASE call[d].at \in {"test", "dns", "filtering", "report"}
  BY <1>1, <1>5 DEF CallKnows, Careful
<1>6. CASE /\ call[d].at \notin {"activate", "configure", "test", "dns", "filtering", "report"}
           /\ ~(call[d].at = "return" /\ call[d].result = "ok")
  BY <1>6 DEF CallKnows
<1> QED BY <1>2, <1>3, <1>4, <1>5, <1>6

(* A careful step of call c to its next point keeps the invariant if the call knows
   there what it has to. *)
LEMMA CarefulStep ==
    ASSUME Inv, NEW c \in Caller, NEW point, NEW password, NEW result,
           Moves(c, point, password, result), Careful(c), faults' = faults,
           adguard' \in Password \cup {None}, temp' \in Content,
           stored' \in Content,
           call[c].at = "idle" => (~Alone \/ AllIdle),
           point = "activate" => call[c].at = "configure" /\ adguard = None,
           stored' # None => adguard' # None,
           Alone /\ stored' # None => stored' = adguard',
           CallKnows(c)'
    PROVE  Inv'
<1>0. PICK r \in CallRecord : call' = [call EXCEPT ![c] = r] /\ r.at = point
  BY DEF Moves
<1>1. Becomes(c, r) /\ call' \in [Caller -> CallRecord]
  BY <1>0, OneCall DEF Inv
<1>2. TypeOK'
  BY <1>1 DEF Inv, TypeOK, CallRecord, Careful
<1>3. \A d \in Caller : CallKnows(d)'
  <2>1. ASSUME NEW d \in Caller, d # c PROVE CallKnows(d)'
    BY <1>1, <2>1, OthersKnow DEF Becomes
  <2> QED BY <2>1
<1>4. OneActivates'
  <2>1. ASSUME NEW d \in Caller, d # c, call[d].at = "activate" PROVE point # "activate"
    <3>1. call[d] \in CallRecord /\ CallKnows(d)
      BY DEF Inv, TypeOK, CallRecord
    <3>2. call[d].password \in Password
      BY <2>1, <3>1, RecordFields DEF Late
    <3>3. adguard # None
      BY <2>1, <3>1, <3>2 DEF CallKnows
    <3> QED BY <3>3
  <2> QED BY <1>0, <1>1, <2>1 DEF Inv, OneActivates, Becomes
<1>5. AloneKnows'
  <2> SUFFICES ASSUME Alone
               PROVE  \A b, d \in Caller : call'[b].at # "idle" /\ call'[d].at # "idle" => b = d
    BY DEF AloneKnows, Alone
  <2>1. \A d \in Caller : d # c => call'[d].at = "idle"
    <3>1. CASE call[c].at = "idle"
      BY <1>1, <3>1 DEF AllIdle, Becomes
    <3>2. CASE call[c].at # "idle"
      BY <1>1, <3>2 DEF Inv, AloneKnows, Becomes
    <3> QED BY <3>1, <3>2
  <2> QED BY <2>1
<1> QED BY <1>2, <1>3, <1>4, <1>5 DEF Inv

(* At these points a call relies on nothing. *)
LEMMA NothingToKnow ==
    ASSUME Inv, NEW c \in Caller, NEW point, NEW password, NEW result,
           Moves(c, point, password, result),
           point \in Early \cup {"cleanup", "ready"} \/ (point = "return" /\ result = "error")
    PROVE  CallKnows(c)'
  BY MovedTo DEF Inv, CallKnows, Early

(* A step that touches nothing but the call, which goes to such a point. *)
LEMMA IdleStep ==
    ASSUME Inv, NEW c \in Caller, NEW point, NEW password, NEW result,
           Moves(c, point, password, result),
           point \in Early \cup {"cleanup", "ready"} \/ (point = "return" /\ result = "error"),
           call[c].at = "idle" => (~Alone \/ AllIdle),
           UNCHANGED <<adguard, baseline, temp, stored, faults>>
    PROVE  Inv'
<1>1. CallKnows(c)'
  BY NothingToKnow
<1>2. Careful(c) /\ point # "activate"
  BY DEF Careful, Inv, TypeOK, Early
<1>3. /\ adguard' \in Password \cup {None} /\ temp' \in Content
      /\ stored' \in Content /\ faults' = faults
      /\ stored' # None => adguard' # None
      /\ Alone /\ stored' # None => stored' = adguard'
  BY DEF Inv, TypeOK, AloneKnows
<1> QED BY <1>1, <1>2, <1>3, CarefulStep

-----------------------------------------------------------------------------
(* The steps *)

LEMMA InitInv == Init => Inv
<1> SUFFICES ASSUME Init PROVE Inv
  OBVIOUS
<1>1. Idle \in CallRecord /\ Idle.at = "idle"
  BY DEF Idle, CallRecord, Early
<1>2. call = [c \in Caller |-> Idle]
  BY DEF Init
<1>3. TypeOK
  BY <1>1, <1>2, FaultAssumption DEF Init, TypeOK, CallRecord, Content
<1> QED BY <1>1, <1>2, <1>3 DEF Init, Inv, OneActivates, AloneKnows, CallKnows

LEMMA BeginInv ==
    ASSUME Inv, NEW c \in Caller, Begin(c), faults' = faults
    PROVE  Inv'
<1>0. /\ call[c].at = "idle" /\ (~Alone \/ AllIdle)
      /\ UNCHANGED <<adguard, baseline, temp, stored>>
      /\ call[c].password = None /\ call[c].result = "none" /\ TypeOK
      /\ stored \in Content
  BY RecordOf, RecordFields DEF Begin, Alone, Inv, Early, TypeOK
<1>1. CASE stored = None
  <2>1. Moves(c, "installer", None, "none")
    BY <1>0, <1>1, GotoMoves DEF Begin, Admissible, Early
  <2> QED BY <1>0, <2>1, IdleStep DEF Early
<1>2. CASE stored \in Password
  <2>1. Moves(c, "ready", stored, "none")
    BY <1>0, <1>2, PasswordMoves DEF Begin, Admissible, Late
  <2> QED BY <1>0, <2>1, IdleStep
<1>3. CASE stored = Truncated
  <2>1. Moves(c, "return", None, "error")
    BY <1>0, <1>3, FinishMoves DEF Begin
  <2> QED BY <1>0, <2>1, IdleStep
<1> QED BY <1>0, <1>1, <1>2, <1>3 DEF Content

LEMMA AskInstallerInv ==
    ASSUME Inv, NEW c \in Caller, WaitForInstaller(c) \/ CheckConfig(c), faults' = faults
    PROVE  Inv'
<1>0. /\ call[c].at \in {"installer", "check"} /\ UNCHANGED <<adguard, baseline, temp, stored>>
      /\ call[c].password = None /\ call[c].result = "none" /\ TypeOK
  BY RecordOf, RecordFields DEF WaitForInstaller, CheckConfig, AskInstaller, Inv, Early
<1>1. CASE \E next \in {"check", "generate"} : Goto(c, next)
  <2>1. PICK next \in {"check", "generate"} : Goto(c, next)
    BY <1>1
  <2>2. Moves(c, next, None, "none")
    BY <1>0, <2>1, GotoMoves DEF Admissible, Early
  <2> QED BY <1>0, <2>2, IdleStep DEF Early
<1>2. CASE Finish(c, "error")
  <2>1. Moves(c, "return", None, "error")
    BY <1>0, <1>2, FinishMoves
  <2> QED BY <1>0, <2>1, IdleStep
<1> QED BY <1>1, <1>2 DEF WaitForInstaller, CheckConfig, AskInstaller

LEMMA WriteTemporaryInv ==
    ASSUME Inv, NEW c \in Caller, WriteTemporary(c), faults' = faults
    PROVE  Inv'
<1>0. /\ call[c].at = "generate" /\ UNCHANGED <<adguard, baseline, stored>>
      /\ call[c].password = None /\ call[c].result = "none" /\ TypeOK
  BY RecordOf, RecordFields DEF WriteTemporary, Inv, Early
<1>1. ASSUME NEW p \in Password, temp' = p,
             call' = [call EXCEPT ![c].at = "configure", ![c].password = p]
      PROVE  Inv'
  <2>1. Moves(c, "configure", p, "none")
    BY <1>0, <1>1, PasswordMoves DEF Admissible, Late
  <2>2. call'[c].at = "configure" /\ call'[c].password = p
    BY <1>0, <2>1, MovedTo
  <2>3. CallKnows(c)'
    BY <1>1, <2>2 DEF CallKnows
  <2>4. Careful(c)
    BY <1>0 DEF Careful, TypeOK
  <2>5. /\ adguard' \in Password \cup {None} /\ temp' \in Content
        /\ stored' \in Content
        /\ stored' # None => adguard' # None
        /\ Alone /\ stored' # None => stored' = adguard'
    BY <1>0, <1>1 DEF Inv, TypeOK, AloneKnows
  <2> QED BY <1>0, <2>1, <2>3, <2>4, <2>5, CarefulStep
<1>2. CASE temp' \in {temp, Truncated} /\ Finish(c, "error")
  <2>1. Moves(c, "return", None, "error")
    BY <1>0, <1>2, FinishMoves
  <2>2. CallKnows(c)'
    BY <2>1, NothingToKnow
  <2>3. Careful(c)
    BY <1>0 DEF Careful, TypeOK
  <2>4. /\ adguard' \in Password \cup {None} /\ temp' \in Content /\ stored' \in Content
        /\ stored' # None => adguard' # None
        /\ Alone /\ stored' # None => stored' = adguard'
    BY <1>0, <1>2 DEF Inv, TypeOK, AloneKnows, Content
  <2> QED BY <1>0, <2>1, <2>2, <2>3, <2>4, CarefulStep
<1> QED BY <1>1, <1>2 DEF WriteTemporary, Fresh

(* The wizard takes one password. *)
LEMMA ConfigureInv ==
    ASSUME Inv, NEW c \in Caller, Configure(c), faults' = faults
    PROVE  Inv'
<1> DEFINE p == call[c].password
<1>0. /\ call[c].at = "configure" /\ UNCHANGED <<baseline, temp, stored>> /\ TypeOK
      /\ call[c] \in CallRecord
  BY RecordOf DEF Configure, Inv
<1>1. p \in Password /\ call[c].result \in {"none", "error"}
  BY <1>0, RecordFields DEF Late
<1>2. CASE adguard = None /\ adguard' = p /\ (Goto(c, "activate") \/ Leave(c, "error"))
  <2>1. stored = None
    BY <1>2 DEF Inv
  <2>2. Careful(c)
    BY <1>0, <1>2 DEF Careful, TypeOK
  <2>3. /\ adguard' \in Password \cup {None} /\ temp' \in Content
        /\ stored' \in Content
        /\ stored' # None => adguard' # None
        /\ Alone /\ stored' # None => stored' = adguard'
    BY <1>0, <1>1, <1>2, <2>1 DEF TypeOK
  <2>4. CASE Goto(c, "activate")
    <3>1. Moves(c, "activate", p, call[c].result)
      BY <1>0, <1>1, <2>4, GotoMoves DEF Admissible, Late
    <3>2. call'[c].at = "activate" /\ call'[c].password = p
      BY <1>0, <3>1, MovedTo
    <3>3. Alone => temp = p
      BY <1>0 DEF Inv, CallKnows
    <3>4. CallKnows(c)'
      BY <1>0, <1>2, <2>1, <3>2, <3>3 DEF CallKnows, Alone
    <3> QED BY <1>0, <1>2, <2>2, <2>3, <3>1, <3>4, CarefulStep
  <2>5. CASE Leave(c, "error")
    <3>1. Moves(c, "cleanup", p, "error")
      BY <1>0, <2>5, LeaveMoves DEF Late
    <3>2. CallKnows(c)'
      BY <3>1, NothingToKnow
    <3> QED BY <1>0, <2>2, <2>3, <3>1, <3>2, CarefulStep
  <2> QED BY <1>2, <2>4, <2>5
<1>3. CASE UNCHANGED adguard /\ Leave(c, "error")
  <2>1. Moves(c, "cleanup", p, "error")
    BY <1>0, <1>3, LeaveMoves DEF Late
  <2> QED BY <1>0, <1>3, <2>1, IdleStep
<1> QED BY <1>2, <1>3 DEF Configure

(* The rename: of the calls, ever, the one that AdGuard took the password of. *)
LEMMA ActivateInv ==
    ASSUME Inv, NEW c \in Caller, Activate(c), faults' = faults
    PROVE  Inv'
<1> DEFINE p == call[c].password
<1>0. /\ call[c].at = "activate" /\ UNCHANGED <<adguard, baseline>> /\ TypeOK
      /\ call[c] \in CallRecord /\ CallKnows(c)
  BY RecordOf DEF Activate, Inv
<1>1. p \in Password /\ adguard = p /\ stored = None /\ (Alone => temp = p)
  BY <1>0, RecordFields DEF Late, CallKnows
<1>2. CASE temp # None /\ stored' = temp /\ temp' = None /\ Leave(c, "none")
  <2>1. Moves(c, "cleanup", p, "none")
    BY <1>0, <1>2, LeaveMoves DEF Late
  <2>2. CallKnows(c)'
    BY <2>1, NothingToKnow
  <2>3. Careful(c)
    BY <1>0, <1>1 DEF Careful, TypeOK
  <2>4. /\ adguard' \in Password \cup {None} /\ temp' \in Content
        /\ stored' \in Content
        /\ stored' # None => adguard' # None
        /\ Alone /\ stored' # None => stored' = adguard'
    BY <1>0, <1>1, <1>2 DEF TypeOK
  <2> QED BY <1>0, <2>1, <2>2, <2>3, <2>4, CarefulStep
<1>3. CASE UNCHANGED <<stored, temp>> /\ Leave(c, "error")
  <2>1. Moves(c, "cleanup", p, "error")
    BY <1>0, <1>3, LeaveMoves DEF Late
  <2> QED BY <1>0, <1>3, <2>1, IdleStep
<1> QED BY <1>2, <1>3 DEF Activate

LEMMA RemoveTemporaryInv ==
    ASSUME Inv, NEW c \in Caller, RemoveTemporary(c), faults' = faults
    PROVE  Inv'
<1>0. /\ call[c].at = "cleanup" /\ UNCHANGED <<adguard, baseline, stored>> /\ temp' = None
      /\ TypeOK /\ call[c] \in CallRecord
  BY RecordOf DEF RemoveTemporary, Inv
<1>1. call[c].password \in Password /\ call[c].result \in {"none", "error"}
  BY <1>0, RecordFields DEF Late
<1>2. PICK point \in {"return", "ready"} :
          /\ Goto(c, point)
          /\ point = "return" => call[c].result = "error"
  BY <1>0, <1>1 DEF RemoveTemporary
<1>3. Moves(c, point, call[c].password, call[c].result)
  BY <1>0, <1>1, <1>2, GotoMoves DEF Admissible, Late
<1>4. CallKnows(c)'
  BY <1>0, <1>1, <1>2, <1>3, NothingToKnow
<1>5. Careful(c)
  BY <1>0 DEF Careful, TypeOK
<1>6. /\ adguard' \in Password \cup {None} /\ temp' \in Content
      /\ stored' \in Content
      /\ stored' # None => adguard' # None
      /\ Alone /\ stored' # None => stored' = adguard'
  BY <1>0 DEF Inv, TypeOK, AloneKnows, Content
<1> QED BY <1>0, <1>3, <1>4, <1>5, <1>6, CarefulStep

(* A request to the API goes on only if the call's password is AdGuard's. *)
LEMMA AskApiInv ==
    ASSUME Inv, NEW c \in Caller, NEW from, NEW done, NEW next, AskApi(c, from, done, next),
           faults' = faults,
           \/ from = "ready" /\ done = {} /\ next = "test"
           \/ from = "test" /\ done = {} /\ next = "dns"
           \/ from = "dns" /\ done = {"dns"} /\ next = "filtering"
           \/ from = "filtering" /\ done = {"filtering"} /\ next = "report"
    PROVE  Inv'
<1> DEFINE p == call[c].password
<1>0. /\ call[c].at = from /\ from \in {"ready", "test", "dns", "filtering"}
      /\ UNCHANGED <<adguard, temp, stored>> /\ TypeOK
      /\ call[c] \in CallRecord /\ CallKnows(c) /\ done \subseteq {"dns", "filtering"}
  BY RecordOf DEF AskApi, Inv
<1>1. p \in Password /\ call[c].result \in {"none", "error"}
  BY <1>0, RecordFields DEF Late
<1>2. ASSUME baseline' = baseline \cup done
      PROVE  Careful(c)
  BY <1>0, <1>2 DEF Careful, TypeOK
<1>3. /\ adguard' \in Password \cup {None} /\ temp' \in Content
      /\ stored' \in Content
      /\ stored' # None => adguard' # None
      /\ Alone /\ stored' # None => stored' = adguard'
  BY <1>0 DEF Inv, TypeOK, AloneKnows
<1>4. CASE adguard = p /\ baseline' = baseline \cup done /\ Goto(c, next)
  <2>1. Moves(c, next, p, call[c].result)
    BY <1>0, <1>1, <1>4, GotoMoves DEF Admissible, Late
  <2>2. call'[c].at = next
    BY <1>0, <2>1, MovedTo
  <2>3. CallKnows(c)'
    BY <1>0, <1>1, <1>4, <2>2 DEF CallKnows
  <2> QED BY <1>0, <1>2, <1>3, <1>4, <2>1, <2>3, CarefulStep
<1>5. CASE UNCHANGED baseline /\ Finish(c, "error")
  <2>1. Moves(c, "return", p, "error")
    BY <1>0, <1>5, FinishMoves
  <2> QED BY <1>0, <1>5, <2>1, IdleStep
<1>6. CASE baseline' = baseline \cup done /\ Finish(c, "error")
  <2>1. Moves(c, "return", p, "error")
    BY <1>0, <1>6, FinishMoves
  <2>2. CallKnows(c)'
    BY <2>1, NothingToKnow
  <2> QED BY <1>0, <1>2, <1>3, <1>6, <2>1, <2>2, CarefulStep
<1> QED BY <1>4, <1>5, <1>6 DEF AskApi

(* The status is read with the stored credentials, which AdGuard takes. *)
LEMMA ReportInv ==
    ASSUME Inv, NEW c \in Caller, Report(c), faults' = faults
    PROVE  Inv'
<1>0. /\ call[c].at = "report" /\ UNCHANGED <<adguard, baseline, temp, stored>> /\ TypeOK
      /\ CallKnows(c)
  BY DEF Report, Inv
<1>1. CASE adguard = stored /\ Finish(c, "ok")
  <2>1. Moves(c, "return", call[c].password, "ok")
    BY <1>0, <1>1, FinishMoves
  <2>2. call'[c].at = "return" /\ call'[c].result = "ok"
    BY <1>0, <2>1, MovedTo
  <2>3. adguard # None /\ baseline = {"dns", "filtering"}
    BY <1>0 DEF CallKnows, TypeOK
  <2>4. CallKnows(c)'
    BY <1>0, <1>1, <2>2, <2>3 DEF CallKnows
  <2>5. Careful(c)
    BY <1>0 DEF Careful, TypeOK
  <2>6. /\ adguard' \in Password \cup {None} /\ temp' \in Content
        /\ stored' \in Content
        /\ stored' # None => adguard' # None
        /\ Alone /\ stored' # None => stored' = adguard'
    BY <1>0, <1>1 DEF Inv, TypeOK, AloneKnows
  <2> QED BY <1>0, <2>1, <2>4, <2>5, <2>6, CarefulStep
<1>2. CASE Finish(c, "error")
  <2>1. Moves(c, "return", call[c].password, "error")
    BY <1>0, <1>2, FinishMoves
  <2> QED BY <1>0, <2>1, IdleStep
<1> QED BY <1>1, <1>2 DEF Report

LEMMA ReturnInv ==
    ASSUME Inv, NEW c \in Caller, Return(c), faults' = faults
    PROVE  Inv'
<1>1. /\ call[c].at = "return" /\ UNCHANGED <<adguard, baseline, temp, stored>>
      /\ call' = [call EXCEPT ![c] = Idle]
  BY DEF Return
<1>2. Idle \in CallRecord /\ Idle.at = "idle" /\ Idle.password = None /\ Idle.result = "none"
  BY DEF Idle, CallRecord, Early
<1>3. Moves(c, "idle", None, "none")
  BY <1>1, <1>2 DEF Moves
<1> QED BY <1>1, <1>3, IdleStep DEF Early

LEMMA CrashInv ==
    ASSUME Inv, Crash, faults' = faults
    PROVE  Inv'
<1>1. UNCHANGED <<adguard, baseline, temp, stored>> /\ call' = [c \in Caller |-> Idle]
  BY DEF Crash
<1>2. Idle \in CallRecord /\ Idle.at = "idle"
  BY DEF Idle, CallRecord, Early
<1>3. TypeOK'
  BY <1>1, <1>2 DEF Inv, TypeOK, CallRecord
<1>4. \A c \in Caller : call'[c].at = "idle"
  BY <1>1, <1>2
<1>5. \A c \in Caller : CallKnows(c)'
  BY <1>4 DEF CallKnows
<1>6. OneActivates' /\ AloneKnows'
  BY <1>1, <1>4 DEF Inv, OneActivates, AloneKnows, Alone
<1> QED BY <1>1, <1>3, <1>5, <1>6 DEF Inv

LEMMA StepInv == Inv /\ [Next]_vars => Inv'
<1> SUFFICES ASSUME Inv, [Next]_vars PROVE Inv'
  OBVIOUS
<1>1. ASSUME NEW c \in Caller, Begin(c) \/ Step(c), faults' = faults PROVE Inv'
  <2>1. ASSUME \/ WaitUntilReady(c) \/ TestUpstream(c) \/ ConfigureDNS(c) \/ ConfigureFiltering(c)
        PROVE  Inv'
    <3>1. CASE WaitUntilReady(c)
      BY <1>1, <3>1, AskApiInv DEF WaitUntilReady
    <3>2. CASE TestUpstream(c)
      BY <1>1, <3>2, AskApiInv DEF TestUpstream
    <3>3. CASE ConfigureDNS(c)
      BY <1>1, <3>3, AskApiInv DEF ConfigureDNS
    <3>4. CASE ConfigureFiltering(c)
      BY <1>1, <3>4, AskApiInv DEF ConfigureFiltering
    <3> QED BY <2>1, <3>1, <3>2, <3>3, <3>4
  <2> QED BY <1>1, <2>1, BeginInv, AskInstallerInv, WriteTemporaryInv, ConfigureInv, ActivateInv,
             RemoveTemporaryInv, ReportInv, ReturnInv DEF Step
<1>2. CASE Crash /\ faults' = faults
  BY <1>2, CrashInv
<1>3. CASE UNCHANGED vars
  BY <1>3 DEF vars, Inv, TypeOK, OneActivates, AloneKnows, CallKnows, Alone
<1> QED BY <1>1, <1>2, <1>3 DEF Next

LEMMA AlwaysInv == Spec => []Inv
  BY InitInv, StepInv, PTL DEF Spec

-----------------------------------------------------------------------------
(* The theorems *)

(* Every variable of the bootstrap keeps its type. *)
THEOREM BootstrapTyped == Spec => []TypeOK
<1>1. Inv => TypeOK
  BY DEF Inv
<1> QED BY <1>1, AlwaysInv, PTL

(* A Bootstrap that reports success left credentials that open AdGuard, and the
   whole baseline, whatever other calls did meanwhile. *)
THEOREM ReportedSuccessIsReal == Spec => []SuccessIsReal
<1>1. Inv => SuccessIsReal
  BY DEF Inv, CallKnows, SuccessIsReal
<1> QED BY <1>1, AlwaysInv, PTL

(* Without calls at the same time the stored credentials are AdGuard's, after any
   failure and restart. *)
THEOREM StoredIsAdGuards == Spec => []StoredIsInForce
<1>1. Inv => StoredIsInForce
  BY DEF Inv, AloneKnows, Alone, StoredIsInForce
<1> QED BY <1>1, AlwaysInv, PTL

(* credentials.json is written once: no step of any call replaces it. *)
THEOREM CredentialsAreWrittenOnce == Spec => StoredOnce
<1>1. ASSUME Inv, [Next]_vars, stored # None PROVE stored' = stored
  <2>1. ASSUME NEW c \in Caller PROVE ~Activate(c)
    BY <1>1 DEF Inv, CallKnows, Activate
  <2> QED BY <1>1, <2>1
      DEF Next, vars, Begin, Step, WaitForInstaller, CheckConfig, AskInstaller, WriteTemporary,
          Configure, RemoveTemporary, WaitUntilReady, TestUpstream, ConfigureDNS,
          ConfigureFiltering, AskApi, Report, Return, Crash
<1>2. Inv /\ [Next]_vars => [stored # None => stored' = stored]_vars
  BY <1>1
<1> QED BY <1>2, AlwaysInv, PTL DEF Spec, StoredOnce
=============================================================================
