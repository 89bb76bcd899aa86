---------------------- MODULE DiagnosticLoggingProofs ----------------------
(***************************************************************************)
(* Theorems about DiagnosticLogging for every set of requests, timers,     *)
(* levels and faults.  The conjuncts of the inductive invariant say who    *)
(* does what (a callback is a timer's, and an armed timer has none), what  *)
(* a Start that nothing overlaps may rely on, and where the resolver is    *)
(* between a command and the critical section that records it.             *)
(***************************************************************************)
EXTENDS DiagnosticLogging, TLAPS

USE LevelAssumption, TimerAssumption DEF Process

Working(p) == call[p].at # "idle"

(* Callbacks are the timers' and nobody else's, and only they retry. *)
RolesFit ==
    \A p \in Process :
        /\ Working(p) => (call[p].op = "expire" <=> p \in Timer)
        /\ call[p].at = "retry" => call[p].op = "expire"

(* A timer that will fire has no callback at work. *)
ArmedWait == \A t \in armed : ~Working(t)

(* Without races a Start is in progress alone. *)
StartsAlone ==
    "race" \notin faults =>
        \A p, q \in Process :
            Working(p) /\ call[p].op = "start" /\ Working(q) => p = q

Pending(t) == t \in armed \/ Working(t)

(* Without races one timer at most is armed or has its callback at work. *)
OneSession ==
    "race" \notin faults => \A t, u \in Timer : Pending(t) /\ Pending(u) => t = u

Undisturbed == faults \cap {"race", "lost", "core"} = {}

(* Undisturbed, the diagnostic level is either announced or about to be. *)
VerboseIsKnown ==
    Undisturbed /\ level = Verbose =>
        \/ expiresAt # "none"
        \/ \E p \in Process : call[p].op = "start" /\ call[p].at = "settle"

(* Undisturbed, what a Stop or an activation has sent still holds when it is
   recorded. *)
QuietBeforeRecorded ==
    Undisturbed /\ (\E p \in Process : call[p].op # "start" /\ call[p].at = "settle")
        => level # Verbose

Inv ==
    /\ TypeOK /\ RolesFit /\ ArmedWait /\ AnnouncedSessionEnds
    /\ StartsAlone /\ OneSession /\ OneTimer
    /\ VerboseIsKnown /\ QuietBeforeRecorded


-----------------------------------------------------------------------------
(* One process goes on, the others stay where they are. *)

Becomes(p, r) ==
    /\ call' \in [Process -> Call]
    /\ call'[p] = r
    /\ \A q \in Process : q # p => call'[q] = call[q]

LEMMA IdleIsCall == Idle \in Call /\ Idle.at = "idle"
  BY DEF Idle, Call

LEMMA CallOf ==
    ASSUME TypeOK, NEW p \in Process
    PROVE  /\ call[p] \in Call /\ call[p].level \in Quiet
           /\ call[p].op \in {"start", "stop", "expire", "apply"}
           /\ call[p].at \in {"idle", "command", "settle", "retry"}
  BY DEF TypeOK, Call

LEMMA ProcessBecomes ==
    ASSUME TypeOK, NEW p \in Process, NEW r \in Call, call' = [call EXCEPT ![p] = r]
    PROVE  Becomes(p, r)
  BY DEF TypeOK, Becomes

LEMMA FinishBecomes ==
    ASSUME TypeOK, NEW p \in Process, Finish(p)
    PROVE  Becomes(p, Idle)
  BY IdleIsCall, ProcessBecomes DEF Finish

LEMMA GotoBecomes ==
    ASSUME TypeOK, NEW p \in Process, NEW point \in {"settle", "retry"}, Goto(p, point)
    PROVE  \E r \in Call : /\ Becomes(p, r)
                           /\ r.at = point /\ r.op = call[p].op /\ r.level = call[p].level
<1>1. PICK q \in Call : q = call[p]
  BY CallOf
<1> DEFINE r == [q EXCEPT !.at = point]
<1>2. r \in Call /\ r.at = point /\ r.op = q.op /\ r.level = q.level
  BY DEF Call
<1>3. call' = [call EXCEPT ![p] = [call[p] EXCEPT !.at = point]]
  BY DEF Goto, TypeOK, Call
<1>4. call' = [call EXCEPT ![p] = r]
  BY <1>1, <1>3
<1>5. Becomes(p, r)
  BY <1>2, <1>4, ProcessBecomes
<1> QED BY <1>1, <1>2, <1>5

-----------------------------------------------------------------------------
(* The actions keep the invariant. *)

LEMMA BeginKeepsInv ==
    ASSUME Inv, NEW p \in Process, NEW op \in {"start", "stop", "apply", "expire"},
           NEW l \in Quiet, faults' = faults, MayBegin(op), ~Working(p),
           op = "expire" <=> p \in Timer,
           call' = [call EXCEPT ![p] = [op |-> op, at |-> "command", level |-> l]],
           UNCHANGED <<level, saved, timer, base>>,
           \/ UNCHANGED <<armed, expiresAt>> /\ op # "expire"
           \/ /\ p \in armed /\ armed' = armed \ {p}
              /\ expiresAt' = IF p = timer THEN "past" ELSE expiresAt
    PROVE  Inv'
<1> DEFINE r == [op |-> op, at |-> "command", level |-> l]
<1>1. r \in Call /\ r.op = op /\ r.at = "command"
  BY DEF Call
<1>2. Becomes(p, r)
  BY <1>1, ProcessBecomes DEF Inv
<1> HIDE DEF r
<1>3. TypeOK'
  BY <1>2 DEF Inv, TypeOK, Becomes
<1>4. RolesFit'
  BY <1>1, <1>2 DEF Inv, RolesFit, Working, Becomes
<1>5. ArmedWait'
  BY <1>1, <1>2 DEF Inv, ArmedWait, Working, Becomes, TypeOK
<1>6. AnnouncedSessionEnds'
  <2>1. CASE UNCHANGED <<armed, expiresAt>> /\ op # "expire"
    BY <1>1, <1>2, <2>1 DEF Inv, AnnouncedSessionEnds, Becomes, TypeOK
  <2>2. CASE p \in armed /\ armed' = armed \ {p} /\ p = timer
    BY <1>1, <1>2, <2>2 DEF Inv, AnnouncedSessionEnds, Becomes, TypeOK
  <2>3. CASE p \in armed /\ armed' = armed \ {p} /\ p # timer /\ expiresAt' = expiresAt
    BY <1>1, <1>2, <2>3 DEF Inv, AnnouncedSessionEnds, Becomes, TypeOK
  <2> QED BY <2>1, <2>2, <2>3
<1>7. StartsAlone'
  <2> SUFFICES ASSUME "race" \notin faults, NEW q \in Process, NEW s \in Process,
                      Working(q)', call'[q].op = "start", Working(s)', q # s
               PROVE  FALSE
    BY DEF StartsAlone
  <2>1. \A t \in Process : Working(t) => "start" \notin {op, call[t].op}
    BY DEF MayBegin, Working
  <2> QED BY <1>1, <1>2, <2>1 DEF Becomes, Inv, StartsAlone, Working
<1>8. OneSession'
  BY <1>1, <1>2 DEF Inv, OneSession, Pending, Becomes, Working, TypeOK
<1>9. OneTimer'
  BY DEF Inv, OneTimer
<1>10. VerboseIsKnown'
  <2> SUFFICES ASSUME Undisturbed, level = Verbose, expiresAt' = "none"
               PROVE  \E q \in Process : call'[q].op = "start" /\ call'[q].at = "settle"
    BY DEF VerboseIsKnown, Undisturbed
  <2>1. expiresAt = "none"
    OBVIOUS
  <2>2. PICK q \in Process : call[q].op = "start" /\ call[q].at = "settle"
    BY <2>1 DEF Inv, VerboseIsKnown
  <2> QED BY <1>2, <2>2 DEF Becomes, Working
<1>11. QuietBeforeRecorded'
  BY <1>1, <1>2 DEF Inv, QuietBeforeRecorded, Undisturbed, Becomes
<1> QED BY <1>3, <1>4, <1>5, <1>6, <1>7, <1>8, <1>9, <1>10, <1>11 DEF Inv


LEMMA CallerBeginsKeepsInv ==
    ASSUME Inv, NEW c \in Caller, faults' = faults,
           BeginStart(c) \/ BeginStop(c) \/ BeginApply(c)
    PROVE  Inv'
<1>1. PICK op \in {"start", "stop", "apply"}, l \in Quiet : Begin(c, op, l)
  BY DEF BeginStart, BeginStop, BeginApply, Inv, TypeOK
<1>2. c \in Process /\ c \notin Timer
  OBVIOUS
<1> QED BY <1>1, <1>2, BeginKeepsInv DEF Begin, Working

LEMMA FireKeepsInv ==
    ASSUME Inv, NEW t \in Timer, faults' = faults, Fire(t)
    PROVE  Inv'
<1>1. ~Working(t) /\ saved \in Quiet
  BY DEF Fire, Inv, ArmedWait, TypeOK
<1>2. /\ t \in armed /\ armed' = armed \ {t}
      /\ expiresAt' = IF t = timer THEN "past" ELSE expiresAt
      /\ MayBegin("expire") /\ UNCHANGED <<level, saved, timer, base>>
      /\ call' = [call EXCEPT ![t] = [op |-> "expire", at |-> "command", level |-> saved]]
  BY DEF Fire
<1> QED BY <1>1, <1>2, BeginKeepsInv

LEMMA CommandSucceedsKeepsInv ==
    ASSUME Inv, NEW p \in Process, faults' = faults, CommandSucceeds(p)
    PROVE  Inv'
<1>1. PICK r \in Call : /\ Becomes(p, r)
                        /\ r.at = "settle" /\ r.op = call[p].op /\ r.level = call[p].level
  BY GotoBecomes DEF CommandSucceeds, Inv
<1>2. /\ level' = Sent(call[p]) /\ call[p].at = "command" /\ call[p].op # "apply"
      /\ UNCHANGED <<saved, expiresAt, timer, base, armed>>
  BY DEF CommandSucceeds
<1>3. call[p].level \in Quiet
  BY CallOf DEF Inv
<1>4. TypeOK'
  BY <1>1, <1>2, <1>3 DEF Inv, TypeOK, Becomes, Sent
<1>5. RolesFit'
  BY <1>1, <1>2 DEF Inv, RolesFit, Working, Becomes
<1>6. ArmedWait'
  BY <1>1, <1>2 DEF Inv, ArmedWait, Working, Becomes, TypeOK
<1>7. AnnouncedSessionEnds'
  BY <1>1, <1>2 DEF Inv, AnnouncedSessionEnds, Becomes, TypeOK
<1>8. StartsAlone'
  BY <1>1, <1>2 DEF Inv, StartsAlone, Becomes, Working
<1>9. OneSession'
  BY <1>1, <1>2 DEF Inv, OneSession, Pending, Becomes, Working, TypeOK
<1>10. OneTimer'
  BY <1>2 DEF Inv, OneTimer
<1>11. CASE call[p].op = "start"
  <2>1. VerboseIsKnown'
    BY <1>1, <1>11 DEF VerboseIsKnown, Becomes
  <2>2. Undisturbed => \A q \in Process : q # p => ~Working(q)
    BY <1>2, <1>11 DEF Inv, StartsAlone, Undisturbed, Working
  <2>3. QuietBeforeRecorded'
    BY <1>1, <1>11, <2>2 DEF QuietBeforeRecorded, Becomes, Working, Undisturbed
  <2> QED BY <1>4, <1>5, <1>6, <1>7, <1>8, <1>9, <1>10, <2>1, <2>3 DEF Inv
<1>12. CASE call[p].op # "start"
  <2>1. level' # Verbose
    BY <1>2, <1>3, <1>12 DEF Sent
  <2>2. VerboseIsKnown' /\ QuietBeforeRecorded'
    BY <2>1 DEF VerboseIsKnown, QuietBeforeRecorded
  <2> QED BY <1>4, <1>5, <1>6, <1>7, <1>8, <1>9, <1>10, <2>2 DEF Inv
<1> QED BY <1>11, <1>12

(* A callback whose command fails goes on to its retry. *)
LEMMA CallbackFailsKeepsInv ==
    ASSUME Inv, NEW p \in Process, faults' = faults, CommandFails(p),
           call[p].op = "expire"
    PROVE  Inv'
<1>1. PICK r \in Call : /\ Becomes(p, r)
                        /\ r.at = "retry" /\ r.op = "expire" /\ r.level = call[p].level
  BY GotoBecomes DEF CommandFails, Inv
<1>2. /\ call[p].at = "command" /\ UNCHANGED <<saved, expiresAt, timer, base, armed>>
      /\ level' \in {level, call[p].level}
      /\ "lost" \notin faults => level' = level
  BY DEF CommandFails, Sent
<1>3. call[p].level \in Quiet
  BY CallOf DEF Inv
<1>4. TypeOK'
  BY <1>1, <1>2, <1>3 DEF Inv, TypeOK, Becomes
<1>5. RolesFit'
  BY <1>1, <1>2 DEF Inv, RolesFit, Working, Becomes
<1>6. ArmedWait'
  BY <1>1, <1>2 DEF Inv, ArmedWait, Working, Becomes, TypeOK
<1>7. AnnouncedSessionEnds'
  BY <1>1, <1>2 DEF Inv, AnnouncedSessionEnds, Becomes, TypeOK
<1>8. StartsAlone'
  BY <1>1, <1>2 DEF Inv, StartsAlone, Becomes, Working
<1>9. OneSession'
  BY <1>1, <1>2 DEF Inv, OneSession, Pending, Becomes, Working, TypeOK
<1>10. OneTimer'
  BY <1>2 DEF Inv, OneTimer
<1>11. VerboseIsKnown'
  BY <1>1, <1>2 DEF Inv, VerboseIsKnown, Becomes, Undisturbed
<1>12. QuietBeforeRecorded'
  BY <1>1, <1>2 DEF Inv, QuietBeforeRecorded, Becomes, Undisturbed
<1> QED BY <1>4, <1>5, <1>6, <1>7, <1>8, <1>9, <1>10, <1>11, <1>12 DEF Inv


LEMMA RequestFailsKeepsInv ==
    ASSUME Inv, NEW p \in Process, faults' = faults,
           call[p].at = "command", call[p].op # "expire", Finish(p),
           UNCHANGED <<saved, expiresAt, timer, base, armed>>,
           level' \in Quiet \cup {Verbose},
           Undisturbed => level' \in {level} \cup Quiet
    PROVE  Inv'
<1>1. Becomes(p, Idle) /\ Idle \in Call /\ Idle.at = "idle"
  BY FinishBecomes, IdleIsCall DEF Inv
<1>2. p \notin Timer
  BY DEF Inv, RolesFit, Working
<1>3. TypeOK'
  BY <1>1 DEF Inv, TypeOK, Becomes
<1>4. RolesFit'
  BY <1>1 DEF Inv, RolesFit, Working, Becomes
<1>5. ArmedWait'
  BY <1>1, <1>2 DEF Inv, ArmedWait, Working, Becomes, TypeOK
<1>6. AnnouncedSessionEnds'
  BY <1>1, <1>2 DEF Inv, AnnouncedSessionEnds, Becomes, TypeOK
<1>7. StartsAlone'
  BY <1>1 DEF Inv, StartsAlone, Becomes, Working
<1>8. OneSession'
  BY <1>1, <1>2 DEF Inv, OneSession, Pending, Becomes, Working, TypeOK
<1>9. OneTimer'
  BY DEF Inv, OneTimer
<1>10. VerboseIsKnown'
  BY <1>1 DEF Inv, VerboseIsKnown, Becomes, Undisturbed
<1>11. QuietBeforeRecorded'
  BY <1>1 DEF Inv, QuietBeforeRecorded, Becomes, Undisturbed
<1> QED BY <1>3, <1>4, <1>5, <1>6, <1>7, <1>8, <1>9, <1>10, <1>11 DEF Inv

LEMMA CommandFailsKeepsInv ==
    ASSUME Inv, NEW p \in Process, faults' = faults, CommandFails(p)
    PROVE  Inv'
<1>1. CASE call[p].op = "expire"
  BY <1>1, CallbackFailsKeepsInv
<1>2. CASE call[p].op # "expire"
  <2>1. /\ call[p].at = "command" /\ Finish(p)
        /\ UNCHANGED <<saved, expiresAt, timer, base, armed>>
        /\ level' = level \/ (level' = Sent(call[p]) /\ "lost" \in faults)
    BY <1>2 DEF CommandFails
  <2>2. level' \in Quiet \cup {Verbose} /\ (Undisturbed => level' \in {level} \cup Quiet)
    BY <2>1, CallOf DEF Sent, Inv, TypeOK, Undisturbed
  <2> QED BY <1>2, <2>1, <2>2, RequestFailsKeepsInv
<1> QED BY <1>1, <1>2

LEMMA ActivateAndRestartKeepsInv ==
    ASSUME Inv, NEW p \in Process, faults' = faults, ActivateAndRestart(p)
    PROVE  Inv'
<1>1. /\ call[p].at = "command" /\ call[p].op = "apply"
      /\ UNCHANGED <<expiresAt, timer, base, armed>>
  BY DEF ActivateAndRestart
<1>2. CASE level' \in {level, saved} /\ saved' = saved /\ Finish(p)
  BY <1>1, <1>2, RequestFailsKeepsInv DEF Inv, TypeOK
<1>3. CASE saved' = call[p].level /\ level' = saved' /\ Goto(p, "settle")
  <2>1. PICK r \in Call : /\ Becomes(p, r)
                          /\ r.at = "settle" /\ r.op = "apply" /\ r.level = call[p].level
    BY <1>1, <1>3, GotoBecomes DEF Inv
  <2>2. level' \in Quiet /\ saved' \in Quiet
    BY <1>3, CallOf DEF Inv
  <2>3. TypeOK'
    BY <1>1, <2>1, <2>2 DEF Inv, TypeOK, Becomes
  <2>4. RolesFit'
    BY <1>1, <2>1 DEF Inv, RolesFit, Working, Becomes
  <2>5. ArmedWait'
    BY <1>1, <2>1 DEF Inv, ArmedWait, Working, Becomes, TypeOK
  <2>6. AnnouncedSessionEnds'
    BY <1>1, <2>1 DEF Inv, AnnouncedSessionEnds, Becomes, TypeOK
  <2>7. StartsAlone'
    BY <1>1, <2>1 DEF Inv, StartsAlone, Becomes, Working
  <2>8. OneSession'
    BY <1>1, <2>1 DEF Inv, OneSession, Pending, Becomes, Working, TypeOK
  <2>9. OneTimer'
    BY <1>1 DEF Inv, OneTimer
  <2>10. VerboseIsKnown' /\ QuietBeforeRecorded'
    BY <2>2 DEF VerboseIsKnown, QuietBeforeRecorded
  <2> QED BY <2>3, <2>4, <2>5, <2>6, <2>7, <2>8, <2>9, <2>10 DEF Inv
<1> QED BY <1>2, <1>3 DEF ActivateAndRestart

(* A name for a new timer belongs to no timer that is armed and no callback at work. *)
LEMMA FreeOnStartIsFree ==
    ASSUME Inv, NEW t \in FreeOnStart
    PROVE  t \in Timer /\ ~Working(t) /\ t \notin armed \ {timer}
  BY DEF FreeOnStart, FreeWithout, Working

LEMMA SettleStartKeepsInv ==
    ASSUME Inv, NEW p \in Process, faults' = faults, SettleStart(p)
    PROVE  Inv'
<1>1. PICK t \in FreeOnStart : armed' = (armed \ {timer}) \cup {t} /\ timer' = t
  BY DEF SettleStart
<1>2. t \in Timer /\ ~Working(t)
  BY FreeOnStartIsFree
<1>3. Becomes(p, Idle) /\ Idle \in Call /\ Idle.at = "idle"
  BY FinishBecomes, IdleIsCall DEF Inv, SettleStart
<1>4. /\ call[p].at = "settle" /\ call[p].op = "start"
      /\ expiresAt' = "future" /\ base' = call[p].level /\ UNCHANGED <<level, saved>>
  BY DEF SettleStart
<1>5. p \notin Timer
  BY <1>4 DEF Inv, RolesFit, Working
<1>6. base' \in Quiet
  BY <1>4, CallOf DEF Inv
<1>7. "race" \notin faults => \A q \in Process : q # p => ~Working(q)
  BY <1>4 DEF Inv, StartsAlone, Working
<1>8. TypeOK'
  BY <1>1, <1>2, <1>3, <1>4, <1>6 DEF Inv, TypeOK, Becomes
<1>9. RolesFit'
  BY <1>3 DEF Inv, RolesFit, Working, Becomes
<1>10. ArmedWait'
  BY <1>1, <1>2, <1>3, <1>5 DEF Inv, ArmedWait, Working, Becomes, TypeOK
<1>11. AnnouncedSessionEnds'
  BY <1>1, <1>2 DEF AnnouncedSessionEnds
<1>12. StartsAlone'
  BY <1>3 DEF Inv, StartsAlone, Becomes, Working
<1>13. "race" \notin faults => armed' = {t}
  BY <1>1 DEF Inv, OneTimer
<1>14. OneSession'
  BY <1>3, <1>7, <1>13 DEF OneSession, Pending, Becomes, Working
<1>15. OneTimer'
  BY <1>1, <1>13 DEF OneTimer
<1>16. VerboseIsKnown'
  BY <1>4 DEF VerboseIsKnown
<1>17. QuietBeforeRecorded'
  BY <1>3, <1>4 DEF Inv, QuietBeforeRecorded, Becomes, Undisturbed
<1> QED BY <1>8, <1>9, <1>10, <1>11, <1>12, <1>14, <1>15, <1>16, <1>17 DEF Inv

LEMMA SettleStopKeepsInv ==
    ASSUME Inv, NEW p \in Process, faults' = faults, SettleStop(p)
    PROVE  Inv'
<1>1. Becomes(p, Idle) /\ Idle \in Call /\ Idle.at = "idle"
  BY FinishBecomes, IdleIsCall DEF Inv, SettleStop
<1>2. /\ call[p].at = "settle" /\ call[p].op # "start"
      /\ armed' = armed \ {timer} /\ timer' = None
      /\ expiresAt' = "none" /\ base' = call[p].level /\ UNCHANGED <<level, saved>>
  BY DEF SettleStop
<1>3. base' \in Quiet
  BY <1>2, CallOf DEF Inv
<1>4. TypeOK'
  BY <1>1, <1>2, <1>3 DEF Inv, TypeOK, Becomes
<1>5. RolesFit'
  BY <1>1 DEF Inv, RolesFit, Working, Becomes
<1>6. ArmedWait'
  BY <1>1, <1>2 DEF Inv, ArmedWait, Working, Becomes, TypeOK
<1>7. AnnouncedSessionEnds'
  BY <1>2 DEF AnnouncedSessionEnds
<1>8. StartsAlone'
  BY <1>1 DEF Inv, StartsAlone, Becomes, Working
<1>9. OneSession'
  BY <1>1, <1>2 DEF Inv, OneSession, Pending, Becomes, Working, TypeOK
<1>10. OneTimer'
  BY <1>2 DEF Inv, OneTimer
<1>11. Undisturbed => level # Verbose
  BY <1>2 DEF Inv, QuietBeforeRecorded
<1>12. VerboseIsKnown' /\ QuietBeforeRecorded'
  BY <1>2, <1>11 DEF VerboseIsKnown, QuietBeforeRecorded, Undisturbed
<1> QED BY <1>4, <1>5, <1>6, <1>7, <1>8, <1>9, <1>10, <1>12 DEF Inv


LEMMA RetryKeepsInv ==
    ASSUME Inv, NEW p \in Process, faults' = faults, Retry(p)
    PROVE  Inv'
<1>1. PICK u \in FreeWithout({p}) : armed' = armed \cup {u} /\ timer' = u
  BY DEF Retry
<1>2. /\ call[p].at = "retry" /\ expiresAt' = "future" /\ UNCHANGED <<level, saved, base>>
  BY DEF Retry
<1>3. u \in Timer /\ (u = p \/ ~Working(u))
  BY DEF FreeWithout, Working
<1>4. p \in Timer /\ Working(p)
  BY <1>2 DEF Inv, RolesFit, Working
<1>5. Becomes(p, Idle) /\ Idle \in Call /\ Idle.at = "idle"
  BY FinishBecomes, IdleIsCall DEF Inv, Retry
<1>6. TypeOK'
  BY <1>1, <1>2, <1>3, <1>5 DEF Inv, TypeOK, Becomes
<1>7. RolesFit'
  BY <1>5 DEF Inv, RolesFit, Working, Becomes
<1>8. ArmedWait'
  BY <1>1, <1>3, <1>5 DEF Inv, ArmedWait, Working, Becomes, TypeOK
<1>9. AnnouncedSessionEnds'
  BY <1>1, <1>3 DEF AnnouncedSessionEnds
<1>10. StartsAlone'
  BY <1>5 DEF Inv, StartsAlone, Becomes, Working
<1>11. "race" \notin faults => armed = {} /\ \A v \in Timer : v # p => ~Working(v)
  BY <1>4 DEF Inv, OneSession, ArmedWait, Pending, TypeOK
<1>12. OneSession'
  BY <1>1, <1>5, <1>11 DEF OneSession, Pending, Becomes, Working
<1>13. OneTimer'
  BY <1>1, <1>11 DEF OneTimer
<1>14. VerboseIsKnown'
  BY <1>2 DEF VerboseIsKnown
<1>15. QuietBeforeRecorded'
  BY <1>2, <1>5 DEF Inv, QuietBeforeRecorded, Becomes, Undisturbed
<1> QED BY <1>6, <1>7, <1>8, <1>9, <1>10, <1>12, <1>13, <1>14, <1>15 DEF Inv

LEMMA ProceedKeepsInv ==
    ASSUME Inv, NEW p \in Process, faults' = faults, Proceed(p)
    PROVE  Inv'
  BY CommandSucceedsKeepsInv, CommandFailsKeepsInv, ActivateAndRestartKeepsInv,
     SettleStartKeepsInv, SettleStopKeepsInv, RetryKeepsInv DEF Proceed

LEMMA ControlRestartKeepsInv ==
    ASSUME Inv, faults' = faults, ControlRestart
    PROVE  Inv'
<1>1. level' \in Quiet /\ UNCHANGED <<saved, expiresAt, timer, base, armed, call>>
  BY DEF ControlRestart, Inv, TypeOK
<1>2. TypeOK' /\ RolesFit' /\ ArmedWait' /\ AnnouncedSessionEnds'
  BY <1>1 DEF Inv, TypeOK, RolesFit, ArmedWait, AnnouncedSessionEnds, Working
<1>3. StartsAlone' /\ OneSession' /\ OneTimer'
  BY <1>1 DEF Inv, StartsAlone, OneSession, OneTimer, Pending, Working
<1>4. VerboseIsKnown' /\ QuietBeforeRecorded'
  BY <1>1 DEF VerboseIsKnown, QuietBeforeRecorded
<1> QED BY <1>2, <1>3, <1>4 DEF Inv

(* A Core that has just started: nothing is armed and nothing is in progress. *)
LEMMA NewManagerKnows ==
    ASSUME level \in Quiet \cup {Verbose}, saved \in Quiet, faults \subseteq FaultKinds,
           expiresAt = "none", timer = None, armed = {}, base = Initial,
           call = [p \in Process |-> Idle],
           Undisturbed => level # Verbose
    PROVE  Inv
<1>1. \A p \in Process : call[p] = Idle /\ call[p].at = "idle"
  BY IdleIsCall
<1>2. TypeOK
  BY IdleIsCall DEF TypeOK
<1>3. RolesFit /\ ArmedWait /\ AnnouncedSessionEnds
  BY <1>1 DEF RolesFit, ArmedWait, AnnouncedSessionEnds, Working
<1>4. StartsAlone /\ OneSession /\ OneTimer
  BY <1>1 DEF StartsAlone, OneSession, OneTimer, Pending, Working
<1>5. VerboseIsKnown /\ QuietBeforeRecorded
  BY DEF VerboseIsKnown, QuietBeforeRecorded
<1> QED BY <1>2, <1>3, <1>4, <1>5 DEF Inv

LEMMA InitKnows == ASSUME Init PROVE Inv
<1>1. level = Initial /\ Initial \in Quiet /\ faults \subseteq FaultKinds
  BY FaultAssumption DEF Init
<1> QED BY <1>1, NewManagerKnows DEF Init

LEMMA CoreRestartKeepsInv ==
    ASSUME Inv, faults' = faults, CoreRestart
    PROVE  Inv'
<1>1. /\ "core" \in faults /\ UNCHANGED <<level, saved>>
      /\ expiresAt' = "none" /\ timer' = None /\ armed' = {} /\ base' = Initial
      /\ call' = [p \in Process |-> Idle]
  BY DEF CoreRestart
<1>2. \A p \in Process : call'[p] = Idle /\ call'[p].at = "idle"
  BY <1>1, IdleIsCall
<1>3. TypeOK'
  BY <1>1, IdleIsCall DEF Inv, TypeOK
<1>4. RolesFit' /\ ArmedWait' /\ AnnouncedSessionEnds'
  BY <1>1, <1>2 DEF RolesFit, ArmedWait, AnnouncedSessionEnds, Working
<1>5. StartsAlone' /\ OneSession' /\ OneTimer'
  BY <1>1, <1>2 DEF StartsAlone, OneSession, OneTimer, Pending, Working
<1>6. VerboseIsKnown' /\ QuietBeforeRecorded'
  BY <1>1 DEF VerboseIsKnown, QuietBeforeRecorded, Undisturbed
<1> QED BY <1>3, <1>4, <1>5, <1>6 DEF Inv

LEMMA StepKeepsInv == ASSUME Inv, [Next]_vars PROVE Inv'
<1>1. CASE Next
  <2>1. faults' = faults
    BY <1>1 DEF Next
  <2>2. ASSUME NEW c \in Caller, BeginStart(c) \/ BeginStop(c) \/ BeginApply(c) PROVE Inv'
    BY <2>1, <2>2, CallerBeginsKeepsInv
  <2>3. ASSUME NEW t \in Timer, Fire(t) PROVE Inv'
    BY <2>1, <2>3, FireKeepsInv
  <2>4. ASSUME NEW p \in Process, Proceed(p) PROVE Inv'
    BY <2>1, <2>4, ProceedKeepsInv
  <2> QED BY <1>1, <2>1, <2>2, <2>3, <2>4, ControlRestartKeepsInv, CoreRestartKeepsInv DEF Next
<1>2. CASE UNCHANGED vars
  <2>1. UNCHANGED <<level, saved, expiresAt, timer, base, armed, call, faults>>
    BY <1>2 DEF vars
  <2> QED BY <2>1 DEF Inv, TypeOK, RolesFit, ArmedWait, AnnouncedSessionEnds, StartsAlone,
                      OneSession, OneTimer, VerboseIsKnown, QuietBeforeRecorded,
                      Working, Pending, Undisturbed
<1> QED BY <1>1, <1>2

LEMMA AlwaysInv == Spec => []Inv
<1>1. Init => Inv
  BY InitKnows
<1>2. Inv /\ [Next]_vars => Inv'
  BY StepKeepsInv
<1> QED BY <1>1, <1>2, PTL DEF Spec

-----------------------------------------------------------------------------
(* The theorems *)

(* Every variable of the manager keeps its type, whatever overlaps and fails. *)
THEOREM LoggingTyped == Spec => []TypeOK
<1>1. Inv => TypeOK
  BY DEF Inv
<1> QED BY <1>1, AlwaysInv, PTL

(* However requests, callbacks, failures and restarts interleave, an expiry that
   the status announces has its timer armed or its callback at work. *)
THEOREM EverySessionIsEnded == Spec => []AnnouncedSessionEnds
<1>1. Inv => AnnouncedSessionEnds
  BY DEF Inv
<1> QED BY <1>1, AlwaysInv, PTL

(* Unless a Start overlaps another call, no timer of an earlier session is left
   to cut a later one short: diagnostic_logging.go stops it and retries by one. *)
THEOREM NoTimerIsLeftBehind == Spec => []OneTimer
<1>1. Inv => OneTimer
  BY DEF Inv
<1> QED BY <1>1, AlwaysInv, PTL

(* What the status calls inactive is: at rest without an expiry the resolver is
   not at the diagnostic level, the named exceptions apart. *)
THEOREM InactiveIsQuiet == Spec => []InactiveMeansQuiet
<1>1. Inv => InactiveMeansQuiet
  BY DEF Inv, VerboseIsKnown, InactiveMeansQuiet, AllIdle, Undisturbed
<1> QED BY <1>1, AlwaysInv, PTL
=============================================================================
