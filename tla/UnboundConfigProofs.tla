------------------------ MODULE UnboundConfigProofs ------------------------
(***************************************************************************)
(* Theorems about UnboundConfig for every set of settings, texts, requests *)
(* and faults.                                                             *)
(*                                                                         *)
(* The inductive invariant comes in layers, each proved with the help of   *)
(* those before it: the types and the lock (Base); what the holder of the  *)
(* lock knows of the files (FilesKnown), of its two checks (ChecksKnown),  *)
(* of the container (RunningKnown, UndisturbedKnown) and of the history    *)
(* (HistoryKnown); and what one request leaves to the next (SoundKnown).   *)
(* The last part maps the holder's steps to those of AtomicActivation.     *)
(***************************************************************************)
EXTENDS UnboundConfig, SequenceTheorems, TLAPS
LOCAL INSTANCE SequencesExt

USE ValuesAssumption, PairsAssumption, LimitAssumption

(* Request c is between Lock and Unlock. *)
InProgress(c) == pc[c] \notin {"idle", "waiting"}

Exclusive == \A c \in Caller : InProgress(c) <=> lock = c

Base == TypeOK /\ Exclusive

-----------------------------------------------------------------------------
(* What the holder of the lock knows *)

Names == {"config", "settings", "custom"}

(* The half of the pair that is not requested is the one found under the lock. *)
HalfKept(r) ==
    /\ r.op = "apply" => r.custom = r.old.custom
    /\ r.op \in {"custom", "preview"} => r.settings = LoadSettings(r.old)

(* The file is among those still to be put back. *)
StillUndone(name, names) == \E n \in 1..Len(names) : names[n] = name

(* No restoration of a file has failed. *)
Mended(r) == "restore" \notin Faults \/ r.result = "restored"

Activated(r) == r.result \in {"ok", "unrecorded"} /\ r.op # "preview"

FilesKnown(c) ==
    LET r == req[c] IN
    /\ pc[c] = "waiting" => r.result = "none"
    /\ pc[c] \in {"validate", "record", "writeConfig"} => files = r.old /\ r.result = "none"
    /\ pc[c] \in {"writeSettings", "writeCustom", "effective", "restart", "recordNew"} =>
           /\ r.result = "none"
           /\ files.config = r.settings
           /\ files.settings = IF pc[c] = "writeSettings" THEN r.old.settings ELSE r.settings
           /\ files.custom = IF pc[c] \in {"writeSettings", "writeCustom"} THEN r.old.custom
                                                                          ELSE r.custom
    /\ pc[c] = "undo" =>
           /\ r.undo # <<>> /\ r.result \in {"rejected", "restored", "rollbackFailed"}
           /\ r.restarted => r.result # "rejected"
           /\ Mended(r) => \A n \in Names : files[n] = r.old[n] \/ StillUndone(n, r.undo)
    /\ pc[c] = "restartOld" =>
           /\ r.restarted /\ r.result \in {"restored", "rollbackFailed"}
           /\ Mended(r) => files = r.old
    /\ pc[c] = "return" =>
           /\ r.result # "none" /\ (r.result = "unrecorded" => r.op # "preview")
           /\ IF Activated(r) THEN files = NewFiles(r)
                              ELSE r.result = "ok" \/ Mended(r) => files = r.old

ChecksKnown(c) ==
    LET r == req[c] IN
    /\ InProgress(c) => HalfKept(r)
    /\ pc[c] \in {"record", "writeConfig", "writeSettings", "writeCustom", "effective",
                  "restart", "recordNew"} =>
           r.op # "preview" /\ r.settings \notin Invalid /\ Wanted(r) \notin CandidateBad
    /\ pc[c] \in {"undo", "restartOld"} => r.op # "preview"
    /\ pc[c] \in {"restart", "recordNew"} => Wanted(r) \notin EffectiveBad
    /\ pc[c] = "return" /\ Activated(r) => Wanted(r) \notin CandidateBad \cup EffectiveBad

RunningKnown(c) ==
    LET r == req[c] IN
    /\ pc[c] = "recordNew" => running = Wanted(r)
    /\ pc[c] = "return" =>
           /\ Activated(r) => running = Wanted(r)
           /\ r.result = "restored" /\ r.restarted => running = OnDisk(files)

(* Nobody else restarts the container, and every file can be put back. *)
Undisturbed == {"control", "restore"} \cap Faults = {}

(* Before its own restart a request leaves the container as it found it. *)
UndisturbedKnown(c) ==
    LET r == req[c] IN
    Undisturbed =>
        /\ pc[c] \in {"validate", "record", "writeConfig", "writeSettings", "writeCustom",
                      "effective", "restart"} => running = r.was
        /\ pc[c] = "undo" /\ ~r.restarted => running = r.was
        /\ /\ pc[c] = "return" /\ ~Activated(r) /\ r.result # "rollbackFailed"
           /\ r.result = "restored" => ~r.restarted
           => running = r.was

(* The version in force is recorded as the newest before anything is written. *)
HistoryKnown(c) ==
    LET r == req[c] IN
    "clock" \notin Faults =>
        /\ pc[c] \in {"writeConfig", "writeSettings", "writeCustom", "effective",
                      "restart", "recordNew"} => IsNewest(Current(r.old))
        /\ pc[c] = "return" /\ r.result = "ok" /\ r.op # "preview" =>
               VersionOf(r) \in Recorded /\ Current(r.old) \in Recorded

(* The files of one activation that passed both checks. *)
Sound(f) == f.config = f.settings /\ OnDisk(f) \notin CandidateBad \cup EffectiveBad

SoundKnown ==
    {"crash", "restore"} \cap Faults = {} =>
        /\ lock = Absent => Sound(files)
        /\ \A c \in Caller : InProgress(c) => Sound(req[c].old)


Known(c) ==
    /\ FilesKnown(c) /\ ChecksKnown(c) /\ RunningKnown(c)
    /\ UndisturbedKnown(c) /\ HistoryKnown(c)

Inv == Base /\ (\A c \in Caller : Known(c)) /\ SoundKnown

-----------------------------------------------------------------------------
(* The operators *)

LEMMA FilesEqual ==
    ASSUME NEW f \in Files, NEW g \in Files, \A n \in Names : f[n] = g[n]
    PROVE  f = g
<1>1. f.config = g.config /\ f.settings = g.settings /\ f.custom = g.custom
  BY DEF Names
<1> QED BY <1>1 DEF Files

(* The files f with one file as it is in g. *)
WithFileOf(f, g, name) == [f EXCEPT ![name] = g[name]]

LEMMA ReadSettings ==
    ASSUME NEW f \in Files
    PROVE  /\ LoadSettings(f) \in Settings /\ OnDisk(f) \in Loaded
           /\ Current(f) \in Version
  BY DEF Files, LoadSettings, OnDisk, ActiveConfig, Current, Version, Loaded

(* What a container reads from the files of one activation is the pair requested. *)
LEMMA ReadNewFiles ==
    ASSUME NEW r \in Request
    PROVE  /\ NewFiles(r) \in Files /\ Wanted(r) \in Loaded /\ VersionOf(r) \in Version
           /\ \A f \in Files : /\ f.config = r.settings /\ f.custom = r.custom => OnDisk(f) = Wanted(r)
                               /\ f = NewFiles(r) => /\ f.config = r.settings
                                                     /\ f.settings = r.settings
                                                     /\ f.custom = r.custom
  BY DEF Request, NewFiles, Files, Wanted, Loaded, VersionOf, Version, OnDisk

LEMMA OneUndone ==
    ASSUME NEW names, names \in {<<"config">>, <<"settings">>, <<"custom">>}
    PROVE  /\ Tail(names) = <<>> /\ Tail(names) \in Undone /\ Len(names) = 1
           /\ Head(names) \in Names
           /\ \A n : StillUndone(n, names) => n = Head(names)
<1>0. PICK name \in Names : names = <<name>>
  BY DEF Names
<1>1. Tail(<<name>>) = <<>> /\ Len(<<name>>) = 1 /\ Head(<<name>>) = name /\ <<name>>[1] = name
  OBVIOUS
<1>2. \A n : StillUndone(n, <<name>>) => n = name
  BY <1>1 DEF StillUndone
<1> QED BY <1>0, <1>1, <1>2 DEF Undone

LEMMA TwoUndone ==
    ASSUME NEW names, names \in {<<"config", "settings">>, <<"settings", "custom">>}
    PROVE  /\ Tail(names) # <<>> /\ Tail(names) \in Undone /\ Len(names) = 2
           /\ Head(names) \in Names
           /\ \A n : StillUndone(n, names) => n = Head(names) \/ StillUndone(n, Tail(names))
<1>1. CASE names = <<"config", "settings">>
  <2>1. Tail(names) = <<"settings">> /\ Head(names) = "config" /\ Len(names) = 2
    BY <1>1
  <2> QED BY <1>1, <2>1 DEF Undone, StillUndone, Names
<1>2. CASE names = <<"settings", "custom">>
  <2>1. Tail(names) = <<"custom">> /\ Head(names) = "settings" /\ Len(names) = 2
    BY <1>2
  <2> QED BY <1>2, <2>1 DEF Undone, StillUndone, Names
<1> QED BY <1>1, <1>2

LEMMA AllUndone ==
    /\ Tail(AllFiles) = <<"settings", "custom">> /\ Tail(AllFiles) \in Undone
    /\ Len(AllFiles) = 3 /\ Head(AllFiles) \in Names
    /\ \A n : StillUndone(n, AllFiles) => n = Head(AllFiles) \/ StillUndone(n, Tail(AllFiles))
<1>1. Tail(AllFiles) = <<"settings", "custom">> /\ Len(AllFiles) = 3 /\ Head(AllFiles) = "config"
  BY DEF AllFiles
<1>2. AllFiles[1] = "config" /\ AllFiles[2] = "settings" /\ AllFiles[3] = "custom"
  BY DEF AllFiles
<1>3. StillUndone("settings", <<"settings", "custom">>) /\ StillUndone("custom", <<"settings", "custom">>)
  BY DEF StillUndone
<1>4. \A n : StillUndone(n, AllFiles) => n \in {"config", "settings", "custom"}
  BY <1>1, <1>2 DEF StillUndone
<1> QED BY <1>1, <1>3, <1>4 DEF Undone, Names

(* Putting back the first of the files that are left leaves the others. *)
LEMMA UndoneShrinks ==
    ASSUME NEW names \in Undone, names # <<>>
    PROVE  /\ Head(names) \in Names /\ Tail(names) \in Undone
           /\ Len(names) > 1 <=> Tail(names) # <<>>
           /\ \A n : StillUndone(n, names) => n = Head(names) \/ StillUndone(n, Tail(names))
<1>1. CASE names \in {<<"config">>, <<"settings">>, <<"custom">>}
  BY <1>1, OneUndone
<1>2. CASE names \in {<<"config", "settings">>, <<"settings", "custom">>}
  BY <1>2, TwoUndone
<1>3. CASE names = AllFiles
  BY <1>3, AllUndone
<1> QED BY <1>1, <1>2, <1>3 DEF Undone

LEMMA NothingUndone == ASSUME NEW n PROVE ~StillUndone(n, <<>>)
  BY DEF StillUndone

LEMMA AllFilesAreUndone ==
    /\ <<"config">> \in Undone /\ <<"config", "settings">> \in Undone /\ AllFiles \in Undone
    /\ <<"config">> # <<>> /\ <<"config", "settings">> # <<>> /\ AllFiles # <<>>
    /\ StillUndone("config", <<"config">>)
    /\ StillUndone("config", <<"config", "settings">>)
    /\ StillUndone("settings", <<"config", "settings">>)
    /\ \A n \in Names : StillUndone(n, AllFiles)
<1>1. /\ <<"config">>[1] = "config" /\ Len(<<"config">>) = 1
      /\ <<"config", "settings">>[1] = "config" /\ <<"config", "settings">>[2] = "settings"
      /\ Len(<<"config", "settings">>) = 2
      /\ AllFiles[1] = "config" /\ AllFiles[2] = "settings" /\ AllFiles[3] = "custom"
      /\ Len(AllFiles) = 3
  BY DEF AllFiles
<1>2. \A n \in Names : StillUndone(n, AllFiles)
  BY <1>1 DEF StillUndone, Names
<1>3. /\ StillUndone("config", <<"config">>)
      /\ StillUndone("config", <<"config", "settings">>)
      /\ StillUndone("settings", <<"config", "settings">>)
  BY <1>1 DEF StillUndone
<1>4. <<"config">> # <<>> /\ <<"config", "settings">> # <<>> /\ AllFiles # <<>>
  BY DEF AllFiles
<1> QED BY <1>2, <1>3, <1>4 DEF Undone


-----------------------------------------------------------------------------
(* The history *)

TypedHistory(h) == h \in Seq(Version)

(* Of the history h, g has the newest versions that fit beside a new one. *)
Keeps(h, g) ==
    \A n \in 1..(HistoryLimit - 1) \cap DOMAIN h :
        \E m \in {n, n + 1} \cap DOMAIN g : g[m] = h[n]

(* g begins with the versions of h that are not to be pruned. *)
SameNewest(g, h) ==
    \A m \in 1..HistoryLimit \cap DOMAIN h : m \in DOMAIN g /\ g[m] = h[m]

LEMMA InsertedShifts ==
    ASSUME NEW h \in Seq(Version), NEW n \in 1..(Len(h) + 1), NEW v \in Version
    PROVE  /\ InsertAt(h, n, v) \in Seq(Version)
           /\ Len(InsertAt(h, n, v)) = Len(h) + 1
           /\ n = 1 => /\ InsertAt(h, n, v)[1] = v
                       /\ \A m \in 1..Len(h) : InsertAt(h, n, v)[m + 1] = h[m]
           /\ \A m \in 1..Len(h) : /\ m < n => InsertAt(h, n, v)[m] = h[m]
                                   /\ m >= n => InsertAt(h, n, v)[m + 1] = h[m]
<1> DEFINE before == SubSeq(h, 1, n - 1)
           after  == SubSeq(h, n, Len(h))
<1>1. /\ before \in Seq(Version) /\ Len(before) = n - 1
      /\ after \in Seq(Version) /\ Len(after) = Len(h) + 1 - n
  OBVIOUS
<1>2. /\ \A m \in 1..(n - 1) : before[m] = h[m]
      /\ \A m \in n..Len(h) : after[m - (n - 1)] = h[m]
  OBVIOUS
<1>3. <<v>> \in Seq(Version) /\ Len(<<v>>) = 1 /\ <<v>>[1] = v
  OBVIOUS
<1> HIDE DEF before, after
<1>4. PICK b \in Seq(Version) : b = before \o <<v>>
  BY <1>1, <1>3, ConcatProperties
<1>5. Len(b) = n /\ (n = 1 => b[1] = v)
  BY <1>1, <1>3, <1>4, ConcatProperties
<1>6. b \o after \in Seq(Version) /\ Len(b \o after) = Len(h) + 1
  <2>1. b \o after \in Seq(Version) /\ Len(b \o after) = Len(b) + Len(after)
    BY <1>1, ConcatProperties, Zenon
  <2>2. Len(h) \in Nat /\ n \in Nat
    OBVIOUS
  <2> QED BY <1>1, <1>5, <2>1, <2>2
<1>7. n = 1 => (b \o after)[1] = v
  BY <1>1, <1>5, ConcatProperties
<1>8. ASSUME NEW m \in 1..Len(h)
      PROVE  /\ m < n => (b \o after)[m] = h[m]
             /\ m >= n => (b \o after)[m + 1] = h[m]
  <2>1. CASE m < n
    <3>1. m \in 1..(n - 1) /\ m \in 1..Len(b) /\ m \in 1..(Len(b) + Len(after))
          /\ m <= Len(b) /\ m <= Len(before) /\ m \in 1..(Len(before) + 1)
      BY <1>1, <1>5, <2>1
    <3>2. (b \o after)[m] = b[m]
      BY <1>1, <3>1, ConcatProperties
    <3>3. b[m] = before[m]
      BY <1>1, <1>3, <1>4, <3>1, ConcatProperties
    <3> QED BY <1>2, <2>1, <3>1, <3>2, <3>3
  <2>2. CASE ~(m < n)
    <3>1. m + 1 \in 1..(Len(b) + Len(after)) /\ m + 1 > Len(b) /\ m \in n..Len(h)
      BY <1>1, <1>5, <2>2
    <3>2. (b \o after)[m + 1] = after[m + 1 - Len(b)]
      BY <1>1, <3>1, ConcatProperties
    <3>3. m + 1 - Len(b) = m - (n - 1)
      BY <1>1, <1>5, <3>1
    <3> QED BY <1>2, <2>2, <3>1, <3>2, <3>3
  <2> QED BY <2>1, <2>2
<1>9. n = 1 => \A m \in 1..Len(h) : (b \o after)[m + 1] = h[m]
  <2>1. n = 1 => \A m \in 1..Len(h) : m >= n
    OBVIOUS
  <2> QED BY <1>8, <2>1
<1> QED BY <1>4, <1>6, <1>7, <1>8, <1>9 DEF InsertAt, before, after

LEMMA Inserted ==
    ASSUME NEW h \in Seq(Version), NEW n \in 1..(Len(h) + 1), NEW v \in Version
    PROVE  InsertAt(h, n, v) \in Seq(Version) /\ Len(InsertAt(h, n, v)) = Len(h) + 1
  BY InsertedShifts

LEMMA InsertedFirst ==
    ASSUME NEW h \in Seq(Version), NEW v \in Version
    PROVE  /\ InsertAt(h, 1, v)[1] = v
           /\ \A m \in 1..Len(h) : InsertAt(h, 1, v)[m + 1] = h[m]
<1>1. 1 \in 1..(Len(h) + 1)
  OBVIOUS
<1> QED BY <1>1, InsertedShifts

(* Inserting a version moves those that are older by one place. *)
LEMMA InsertedKeeps ==
    ASSUME NEW h \in Seq(Version), NEW n \in 1..(Len(h) + 1), NEW v \in Version,
           NEW g \in Seq(Version), SameNewest(g, InsertAt(h, n, v))
    PROVE  Keeps(h, g)
<1> DEFINE i == InsertAt(h, n, v)
<1>1. /\ i \in Seq(Version) /\ Len(i) = Len(h) + 1
      /\ \A m \in 1..Len(h) : (m < n => i[m] = h[m]) /\ (m >= n => i[m + 1] = h[m])
  BY InsertedShifts
<1> SUFFICES ASSUME NEW m \in 1..(HistoryLimit - 1) \cap DOMAIN h
             PROVE  \E k \in {m, m + 1} \cap DOMAIN g : g[k] = h[m]
  BY DEF Keeps
<1> DEFINE k == IF m < n THEN m ELSE m + 1
<1>2. m \in 1..Len(h) /\ k \in {m, m + 1} /\ k \in 1..HistoryLimit /\ k \in 1..(Len(h) + 1)
  OBVIOUS
<1>3. i[k] = h[m]
  BY <1>1, <1>2
<1> HIDE DEF k
<1>4. k \in 1..HistoryLimit \cap DOMAIN i
  BY <1>1, <1>2
<1> HIDE DEF i
<1>5. k \in DOMAIN g /\ g[k] = i[k]
  BY <1>4 DEF SameNewest, i
<1> QED BY <1>2, <1>3, <1>5

LEMMA PrunedKeepsNewest ==
    ASSUME NEW h \in Seq(Version), h # <<>>
    PROVE  /\ Pruned(h) \in Seq(Version) /\ Len(Pruned(h)) <= HistoryLimit
           /\ Pruned(h) # <<>> /\ Pruned(h)[1] = h[1]
           /\ Len(h) >= 2 => Len(Pruned(h)) >= 2 /\ Pruned(h)[2] = h[2]
           /\ SameNewest(Pruned(h), h)
<1>1. Len(h) \in Nat /\ Len(h) >= 1
  OBVIOUS
<1>2. CASE Len(h) > HistoryLimit
  <2>1. Pruned(h) = SubSeq(h, 1, HistoryLimit)
    BY <1>2 DEF Pruned
  <2>2. /\ SubSeq(h, 1, HistoryLimit) \in Seq(Version) /\ Len(SubSeq(h, 1, HistoryLimit)) = HistoryLimit
        /\ SubSeq(h, 1, HistoryLimit)[1] = h[1] /\ SubSeq(h, 1, HistoryLimit)[2] = h[2]
        /\ \A m \in 1..HistoryLimit : SubSeq(h, 1, HistoryLimit)[m] = h[m]
    BY <1>1, <1>2
  <2>3. SameNewest(Pruned(h), h)
    BY <2>1, <2>2 DEF SameNewest
  <2> QED BY <1>1, <2>1, <2>2, <2>3
<1>3. CASE ~(Len(h) > HistoryLimit)
  BY <1>1, <1>3 DEF Pruned, SameNewest
<1> QED BY <1>2, <1>3

(* Removing some of the versions above the limit leaves the others. *)
LEMMA PartlyPrunedKeepsNewest ==
    ASSUME NEW h \in Seq(Version), NEW k \in 1..(Len(h) - HistoryLimit - 1)
    PROVE  PartlyPruned(h, k) \in Seq(Version) /\ SameNewest(PartlyPruned(h, k), h)
<1> DEFINE kept == SubSeq(h, 1, HistoryLimit)
           left == SubSeq(h, HistoryLimit + k + 1, Len(h))
<1>1. /\ kept \in Seq(Version) /\ Len(kept) = HistoryLimit
      /\ \A m \in 1..HistoryLimit : kept[m] = h[m]
      /\ left \in Seq(Version)
  OBVIOUS
<1> HIDE DEF kept, left
<1>2. /\ kept \o left \in Seq(Version)
      /\ \A m \in 1..HistoryLimit : m \in DOMAIN (kept \o left) /\ (kept \o left)[m] = kept[m]
  <2>1. kept \o left \in Seq(Version) /\ Len(kept \o left) = Len(kept) + Len(left)
    BY <1>1, ConcatProperties, Zenon
  <2>2. ASSUME NEW m \in 1..HistoryLimit
        PROVE  m \in DOMAIN (kept \o left) /\ (kept \o left)[m] = kept[m]
    <3>1. m \in 1..(Len(kept) + Len(left)) /\ m <= Len(kept)
      BY <1>1
    <3>2. (kept \o left)[m] = kept[m]
      BY <1>1, <3>1, ConcatProperties
    <3>3. m \in 1..Len(kept \o left)
      BY <2>1, <3>1
    <3> QED BY <2>1, <3>2, <3>3
  <2> QED BY <2>1, <2>2
<1>3. SameNewest(kept \o left, h)
  BY <1>1, <1>2 DEF SameNewest
<1> QED BY <1>2, <1>3 DEF PartlyPruned, kept, left

InHistory(h, v) == \E n \in DOMAIN h : h[n] = v

(* A version that is recorded is the newest; the one that was stays in the history. *)
LEMMA SnapshotRecorded ==
    ASSUME TypedHistory(history), NEW v \in Version, RecordSnapshot(v)
    PROVE  /\ TypedHistory(history')
           /\ history' # history => Keeps(history, history') /\ Len(history') <= HistoryLimit
           /\ "clock" \notin Faults =>
                  /\ IsNewest(v)' /\ InHistory(history', v)
                  /\ \A u : IsNewest(u) => InHistory(history', u)
<1>1. CASE IsNewest(v)
  <2>1. history' = history /\ history # <<>> /\ Head(history) = v
    BY <1>1 DEF RecordSnapshot, IsNewest
  <2>2. 1 \in DOMAIN history /\ history[1] = v
    BY <2>1 DEF TypedHistory
  <2>3. IsNewest(v)'
    BY <2>1 DEF IsNewest
  <2>4. \A u : IsNewest(u) => u = v
    BY <2>1 DEF IsNewest
  <2> QED BY <2>1, <2>2, <2>3, <2>4 DEF InHistory
<1>2. CASE ~IsNewest(v)
  <2>1. PICK n \in Slots : history' = Pruned(InsertAt(history, n, v))
    BY <1>2 DEF RecordSnapshot
  <2>2. n \in 1..(Len(history) + 1) /\ ("clock" \notin Faults => n = 1)
    BY <2>1 DEF Slots, TypedHistory
  <2> DEFINE h == InsertAt(history, n, v)
  <2>3. h \in Seq(Version) /\ Len(h) = Len(history) + 1
    BY <2>2, Inserted DEF TypedHistory
  <2>4. n = 1 => h[1] = v /\ \A m \in 1..Len(history) : h[m + 1] = history[m]
    <3>1. history \in Seq(Version)
      BY DEF TypedHistory
    <3>2. /\ InsertAt(history, 1, v)[1] = v
          /\ \A m \in 1..Len(history) : InsertAt(history, 1, v)[m + 1] = history[m]
      BY <3>1, InsertedFirst
    <3> QED BY <3>2
  <2>5. h # <<>>
    BY <2>3 DEF TypedHistory
  <2> HIDE DEF h
  <2>6. /\ history' \in Seq(Version) /\ Len(history') <= HistoryLimit
        /\ history' # <<>> /\ history'[1] = h[1]
        /\ Len(h) >= 2 => Len(history') >= 2 /\ history'[2] = h[2]
        /\ SameNewest(history', h)
    BY <2>1, <2>3, <2>5, PrunedKeepsNewest DEF h
  <2>7. "clock" \notin Faults => history'[1] = v
    BY <2>2, <2>4, <2>6
  <2>8. ASSUME "clock" \notin Faults, NEW u, IsNewest(u)
        PROVE  InHistory(history', u)
    <3>1. Len(history) >= 1 /\ history[1] = u
      BY <2>8 DEF IsNewest, TypedHistory
    <3>2. Len(history') >= 2 /\ history'[2] = u
      BY <2>2, <2>3, <2>4, <2>6, <2>8, <3>1
    <3> QED BY <2>6, <3>2 DEF InHistory
  <2>9. "clock" \notin Faults => IsNewest(v)' /\ InHistory(history', v)
    BY <2>6, <2>7 DEF IsNewest, InHistory
  <2>10. Keeps(history, history')
    BY <2>2, <2>6, InsertedKeeps DEF TypedHistory, h
  <2> QED BY <2>6, <2>8, <2>9, <2>10 DEF TypedHistory
<1> QED BY <1>1, <1>2

LEMMA RecordFailsTyped ==
    ASSUME TypedHistory(history), NEW v \in Version, RecordFails(v)
    PROVE  TypedHistory(history') /\ (history' # history => Keeps(history, history'))
<1>1. CASE history' = history
  BY <1>1
<1>2. CASE history' # history
  <2>1. PICK n \in Slots :
            \/ history' = InsertAt(history, n, v)
            \/ \E k \in 1..(Len(InsertAt(history, n, v)) - HistoryLimit - 1) :
                   history' = PartlyPruned(InsertAt(history, n, v), k)
    BY <1>2 DEF RecordFails
  <2>2. n \in 1..(Len(history) + 1)
    BY <2>1 DEF Slots, TypedHistory
  <2> DEFINE h == InsertAt(history, n, v)
  <2>3. h \in Seq(Version)
    BY <2>2, Inserted DEF TypedHistory
  <2>4. SameNewest(h, h)
    BY DEF SameNewest
  <2>5. history' \in Seq(Version) /\ SameNewest(history', h)
    BY <2>1, <2>3, <2>4, PartlyPrunedKeepsNewest
  <2> HIDE DEF h
  <2> QED BY <2>2, <2>5, InsertedKeeps DEF TypedHistory, h
<1> QED BY <1>1, <1>2


-----------------------------------------------------------------------------
(* The steps of one request *)

(* Request c goes on to a point with the locals r; the other requests stay. *)
Goes(c, point, r) ==
    /\ pc' \in [Caller -> Points] /\ req' \in [Caller -> Request]
    /\ pc'[c] = point /\ req'[c] = r
    /\ \A d \in Caller : d # c => pc'[d] = pc[d] /\ req'[d] = req[d]

(* r is q except for how far it has come. *)
SameRequest(r, q) ==
    /\ r.op = q.op /\ r.settings = q.settings /\ r.custom = q.custom
    /\ r.old = q.old /\ r.was = q.was

LEMMA RequestOf ==
    ASSUME TypeOK, NEW c \in Caller
    PROVE  /\ req[c] \in Request /\ req[c].settings \in Settings /\ req[c].custom \in Custom
           /\ req[c].op \in Operations /\ req[c].old \in Files /\ req[c].was \in Loaded
           /\ req[c].undo \in Undone /\ req[c].result \in Results
           /\ req[c].cancelled \in BOOLEAN /\ req[c].restarted \in BOOLEAN
           /\ files \in Files /\ running \in Loaded /\ TypedHistory(history)
           /\ pc[c] \in Points
  BY DEF TypeOK, Request, TypedHistory

LEMMA BothGo ==
    ASSUME TypeOK, NEW c \in Caller, NEW point \in Points, NEW r \in Request,
           Goto(c, point), req' = [req EXCEPT ![c] = r]
    PROVE  Goes(c, point, r)
<1>1. pc' \in [Caller -> Points] /\ pc'[c] = point /\ \A d \in Caller : d # c => pc'[d] = pc[d]
  BY DEF Goto, TypeOK
<1>2. req' \in [Caller -> Request] /\ req'[c] = r /\ \A d \in Caller : d # c => req'[d] = req[d]
  BY DEF TypeOK
<1> QED BY <1>1, <1>2 DEF Goes

LEMMA OnlyGoes ==
    ASSUME TypeOK, NEW c \in Caller, NEW point \in Points, Goto(c, point), UNCHANGED req
    PROVE  Goes(c, point, req[c])
<1>1. pc' \in [Caller -> Points] /\ pc'[c] = point /\ \A d \in Caller : d # c => pc'[d] = pc[d]
  BY DEF Goto, TypeOK
<1> QED BY <1>1 DEF Goes, TypeOK

LEMMA Finishes ==
    ASSUME TypeOK, NEW c \in Caller, NEW result \in Results, Finish(c, result)
    PROVE  \E r \in Request : /\ Goes(c, "return", r) /\ SameRequest(r, req[c])
                              /\ r.restarted = req[c].restarted /\ r.result = result
<1>1. PICK q \in Request : q = req[c]
  BY RequestOf
<1> DEFINE r == [q EXCEPT !.result = result]
<1>2. req' = [req EXCEPT ![c] = [req[c] EXCEPT !.result = result]]
  BY DEF Finish, TypeOK, Request
<1>3. r \in Request /\ SameRequest(r, q) /\ r.restarted = q.restarted /\ r.result = result
  BY DEF Request, SameRequest
<1>4. req' = [req EXCEPT ![c] = r]
  BY <1>1, <1>2, Zenon
<1>5. Goes(c, "return", r)
  BY <1>3, <1>4, BothGo DEF Finish, Points
<1> QED BY <1>1, <1>3, <1>5

LEMMA BeginsUndo ==
    ASSUME TypeOK, NEW c \in Caller, NEW names \in Undone, NEW restarted \in BOOLEAN,
           NEW cancelled \in BOOLEAN, NEW result \in Results,
           Undo(c, names, restarted, cancelled, result)
    PROVE  \E r \in Request : /\ Goes(c, "undo", r) /\ SameRequest(r, req[c])
                              /\ r.undo = names /\ r.restarted = restarted
                              /\ r.result = result
<1>1. PICK q \in Request : q = req[c]
  BY RequestOf
<1> DEFINE r == [q EXCEPT !.undo = names, !.restarted = restarted,
                          !.cancelled = cancelled, !.result = result]
<1>2. req' = [req EXCEPT ![c] = [req[c] EXCEPT !.undo = names, !.restarted = restarted,
                                               !.cancelled = cancelled, !.result = result]]
  BY DEF Undo
<1>3. r \in Request /\ SameRequest(r, q) /\ r.undo = names /\ r.restarted = restarted
      /\ r.result = result
  BY DEF Request, SameRequest
<1>4. req' = [req EXCEPT ![c] = r]
  BY <1>1, <1>2, Zenon
<1>5. Goes(c, "undo", r)
  BY <1>3, <1>4, BothGo DEF Undo, Points
<1> QED BY <1>1, <1>3, <1>5

(* Request c has names left to put back and, so far, a result. *)
NotesUndo(c, names, result) ==
    req' = [req EXCEPT ![c] = [@ EXCEPT !.undo = names, !.result = result]]

LEMMA Undoes ==
    ASSUME TypeOK, NEW c \in Caller, NEW names \in Undone, NEW result \in Results,
           NEW point \in Points, Goto(c, point), NotesUndo(c, names, result)
    PROVE  \E r \in Request : /\ Goes(c, point, r) /\ SameRequest(r, req[c])
                              /\ r.undo = names /\ r.restarted = req[c].restarted
                              /\ r.result = result
<1>1. PICK q \in Request : q = req[c]
  BY RequestOf
<1> DEFINE r == [q EXCEPT !.undo = names, !.result = result]
<1>2. req' = [req EXCEPT ![c] = [req[c] EXCEPT !.undo = names, !.result = result]]
  BY DEF NotesUndo
<1>3. r \in Request /\ SameRequest(r, q) /\ r.undo = names /\ r.restarted = q.restarted
      /\ r.result = result
  BY DEF Request, SameRequest
<1>4. req' = [req EXCEPT ![c] = r]
  BY <1>1, <1>2, Zenon
<1>5. Goes(c, point, r)
  BY <1>3, <1>4, BothGo
<1> QED BY <1>1, <1>3, <1>5


(* A request outside the lock knows nothing and relies on nothing. *)
LEMMA OutsideKnows ==
    ASSUME NEW d \in Caller, pc'[d] \in {"idle", "waiting"},
           pc'[d] = "waiting" => req'[d].result = "none"
    PROVE  Known(d)'
<1>1. FilesKnown(d)'
  BY DEF FilesKnown
<1>2. ChecksKnown(d)' /\ RunningKnown(d)'
  BY DEF ChecksKnown, RunningKnown, InProgress
<1>3. UndisturbedKnown(d)' /\ HistoryKnown(d)'
  BY DEF UndisturbedKnown, HistoryKnown
<1> QED BY <1>1, <1>2, <1>3 DEF Known

LEMMA OthersAreOutside ==
    ASSUME Base, NEW c \in Caller, InProgress(c), NEW d \in Caller, d # c
    PROVE  pc[d] \in {"idle", "waiting"}
  BY DEF Base, Exclusive, InProgress

(* What a request does that holds the lock and keeps it. *)
LEMMA HolderKeepsInv ==
    ASSUME Inv, NEW c \in Caller, InProgress(c), lock' = lock,
           NEW point \in Points \ {"idle", "waiting"}, NEW r \in Request,
           Goes(c, point, r), SameRequest(r, req[c]),
           files' \in Files, running' \in Loaded, TypedHistory(history'), Known(c)'
    PROVE  Inv'
<1>1. TypeOK'
  BY DEF Inv, Base, TypeOK, TypedHistory, Goes
<1>2. Exclusive'
  BY DEF Inv, Base, Exclusive, InProgress, Goes
<1>3. ASSUME NEW d \in Caller, d # c PROVE Known(d)'
  <2>1. pc[d] \in {"idle", "waiting"} /\ (pc[d] = "waiting" => req[d].result = "none")
    BY <1>3, OthersAreOutside DEF Inv, Known, FilesKnown
  <2> QED BY <1>3, <2>1, OutsideKnows DEF Goes
<1>4. SoundKnown'
  <2>1. lock = c /\ lock # Absent
    BY DEF Inv, Base, Exclusive
  <2>2. \A d \in Caller : InProgress(d)' => d = c
    BY <1>2, <2>1 DEF Exclusive
  <2>3. req'[c].old = req[c].old
    BY DEF Goes, SameRequest
  <2> QED BY <2>1, <2>2, <2>3 DEF Inv, SoundKnown, Sound, OnDisk
<1> QED BY <1>1, <1>2, <1>3, <1>4 DEF Inv, Base

(* The invariant, for the request that takes the step. *)
LEMMA Knows ==
    ASSUME Inv, NEW c \in Caller
    PROVE  /\ TypeOK /\ FilesKnown(c) /\ ChecksKnown(c) /\ RunningKnown(c)
           /\ UndisturbedKnown(c) /\ HistoryKnown(c)
  BY DEF Inv, Base, Known

(* A request that is answered before anything is written. *)
LEMMA AnsweredKeepsInv ==
    ASSUME Inv, NEW c \in Caller, pc[c] \in {"validate", "record", "writeConfig"},
           NEW result \in {"ok", "rejected"}, Finish(c, result),
           result = "ok" => req[c].op = "preview",
           UNCHANGED <<files, running, lock>>, TypedHistory(history')
    PROVE  Inv'
<1>1. /\ files = req[c].old /\ req[c].result = "none" /\ HalfKept(req[c])
      /\ Undisturbed => running = req[c].was
  BY Knows DEF FilesKnown, ChecksKnown, UndisturbedKnown, InProgress
<1>2. PICK r \in Request : /\ Goes(c, "return", r) /\ SameRequest(r, req[c])
                           /\ r.restarted = req[c].restarted /\ r.result = result
  BY Finishes, Knows DEF Results
<1>3. pc'[c] = "return" /\ req'[c] = r /\ ~Activated(r) /\ r.result \notin {"none", "unrecorded"}
  BY <1>2 DEF Goes, Activated, SameRequest
<1>4. FilesKnown(c)'
  BY <1>1, <1>2, <1>3 DEF FilesKnown, SameRequest
<1>5. ChecksKnown(c)'
  BY <1>1, <1>2, <1>3 DEF ChecksKnown, SameRequest, HalfKept
<1>6. RunningKnown(c)'
  BY <1>2, <1>3 DEF RunningKnown
<1>7. UndisturbedKnown(c)' /\ HistoryKnown(c)'
  BY <1>1, <1>2, <1>3 DEF UndisturbedKnown, HistoryKnown, SameRequest, Undisturbed
<1>8. Known(c)'
  BY <1>4, <1>5, <1>6, <1>7 DEF Known
<1> QED BY <1>2, <1>8, HolderKeepsInv, RequestOf, Knows DEF Points, InProgress

(* A request that goes on with the same locals, having written one file or none. *)
LEMMA OnKeepsInv ==
    ASSUME Inv, NEW c \in Caller, InProgress(c), NEW point \in Points \ {"idle", "waiting"},
           Goto(c, point), UNCHANGED <<req, lock>>,
           files' \in Files, running' \in Loaded, TypedHistory(history'),
           pc'[c] = point /\ req'[c] = req[c] => Known(c)'
    PROVE  Inv'
<1>1. Goes(c, point, req[c]) /\ SameRequest(req[c], req[c])
  BY OnlyGoes, Knows DEF SameRequest
<1>2. pc'[c] = point /\ req'[c] = req[c]
  BY <1>1 DEF Goes
<1> QED BY <1>1, <1>2, HolderKeepsInv, RequestOf, Knows

LEMMA ValidateKeepsInv ==
    ASSUME Inv, NEW c \in Caller, Validate(c) PROVE Inv'
<1>1. pc[c] = "validate" /\ UNCHANGED <<files, running, history, lock>> /\ InProgress(c)
  BY DEF Validate, InProgress
<1>2. /\ files = req[c].old /\ req[c].result = "none" /\ HalfKept(req[c])
      /\ Undisturbed => running = req[c].was
  BY <1>1, Knows DEF FilesKnown, ChecksKnown, UndisturbedKnown
<1>3. files' \in Files /\ running' \in Loaded /\ TypedHistory(history')
  BY <1>1, RequestOf, Knows
<1>4. ASSUME NEW result \in {"ok", "rejected"}, Finish(c, result),
             result = "ok" => req[c].op = "preview"
      PROVE  Inv'
  BY <1>1, <1>3, <1>4, AnsweredKeepsInv
<1>5. ASSUME Goto(c, "record"), UNCHANGED req, Acceptable(req[c]), req[c].op # "preview"
      PROVE  Inv'
  <2>1. ASSUME pc'[c] = "record", req'[c] = req[c] PROVE Known(c)'
    <3>1. FilesKnown(c)' /\ ChecksKnown(c)' /\ RunningKnown(c)'
      BY <1>1, <1>2, <1>5, <2>1 DEF FilesKnown, ChecksKnown, RunningKnown, Acceptable
    <3>2. UndisturbedKnown(c)' /\ HistoryKnown(c)'
      BY <1>1, <1>2, <2>1 DEF UndisturbedKnown, HistoryKnown
    <3> QED BY <3>1, <3>2 DEF Known
  <2> QED BY <1>1, <1>3, <1>5, <2>1, OnKeepsInv DEF Points
<1> QED BY <1>4, <1>5 DEF Validate

LEMMA RecordCurrentKeepsInv ==
    ASSUME Inv, NEW c \in Caller, RecordCurrent(c) PROVE Inv'
<1>1. pc[c] = "record" /\ UNCHANGED <<files, running, lock>> /\ InProgress(c)
  BY DEF RecordCurrent, InProgress
<1>2. /\ files = req[c].old /\ req[c].result = "none"
      /\ HalfKept(req[c]) /\ req[c].op # "preview"
      /\ req[c].settings \notin Invalid /\ Wanted(req[c]) \notin CandidateBad
      /\ Undisturbed => running = req[c].was
  BY <1>1, Knows DEF FilesKnown, ChecksKnown, UndisturbedKnown, InProgress
<1>3. files' \in Files /\ running' \in Loaded /\ Current(files) \in Version
      /\ TypedHistory(history)
  BY <1>1, RequestOf, Knows, ReadSettings
<1>4. ASSUME RecordSnapshot(Current(files)), Goto(c, "writeConfig"), UNCHANGED req
      PROVE  Inv'
  <2>1. PICK v \in Version : v = Current(req[c].old)
    BY <1>2, <1>3
  <2>2. RecordSnapshot(v)
    BY <1>2, <1>4, <2>1
  <2>3. TypedHistory(history') /\ ("clock" \notin Faults => IsNewest(v)')
    BY <1>3, <2>2, SnapshotRecorded
  <2>4. ASSUME pc'[c] = "writeConfig", req'[c] = req[c] PROVE Known(c)'
    <3>1. FilesKnown(c)' /\ ChecksKnown(c)' /\ RunningKnown(c)'
      BY <1>1, <1>2, <2>4 DEF FilesKnown, ChecksKnown, RunningKnown
    <3>2. UndisturbedKnown(c)'
      BY <1>1, <1>2, <2>4 DEF UndisturbedKnown
    <3>3. HistoryKnown(c)'
      BY <2>1, <2>3, <2>4 DEF HistoryKnown, IsNewest
    <3> QED BY <3>1, <3>2, <3>3 DEF Known
  <2> QED BY <1>1, <1>3, <1>4, <2>3, <2>4, OnKeepsInv DEF Points
<1>5. ASSUME RecordFails(Current(files)), Finish(c, "rejected")
      PROVE  Inv'
  BY <1>1, <1>3, <1>5, RecordFailsTyped, AnsweredKeepsInv
<1> QED BY <1>4, <1>5 DEF RecordCurrent


LEMMA WriteConfigKeepsInv ==
    ASSUME Inv, NEW c \in Caller, WriteConfig(c) PROVE Inv'
<1>1. pc[c] = "writeConfig" /\ UNCHANGED <<running, history, lock>> /\ InProgress(c)
  BY DEF WriteConfig, InProgress
<1>2. /\ files = req[c].old /\ req[c].result = "none"
      /\ HalfKept(req[c]) /\ req[c].op # "preview"
      /\ req[c].settings \notin Invalid /\ Wanted(req[c]) \notin CandidateBad
      /\ Undisturbed => running = req[c].was
      /\ "clock" \notin Faults => IsNewest(Current(req[c].old))
  BY <1>1, Knows DEF FilesKnown, ChecksKnown, UndisturbedKnown, HistoryKnown, InProgress
<1>3. /\ files \in Files /\ running' \in Loaded /\ TypedHistory(history')
      /\ req[c].settings \in Settings
  BY <1>1, RequestOf, Knows
<1>4. ASSUME files' = [files EXCEPT !.config = req[c].settings],
             Goto(c, "writeSettings"), UNCHANGED req
      PROVE  Inv'
  <2>1. /\ files' \in Files /\ files'.config = req[c].settings
        /\ files'.settings = files.settings /\ files'.custom = files.custom
    BY <1>3, <1>4 DEF Files
  <2>2. ASSUME pc'[c] = "writeSettings", req'[c] = req[c] PROVE Known(c)'
    <3>1. FilesKnown(c)' /\ ChecksKnown(c)' /\ RunningKnown(c)'
      BY <1>1, <1>2, <2>1, <2>2 DEF FilesKnown, ChecksKnown, RunningKnown
    <3>2. UndisturbedKnown(c)' /\ HistoryKnown(c)'
      BY <1>1, <1>2, <2>2 DEF UndisturbedKnown, HistoryKnown, IsNewest
    <3> QED BY <3>1, <3>2 DEF Known
  <2> QED BY <1>1, <1>3, <1>4, <2>1, <2>2, OnKeepsInv DEF Points
<1>5. ASSUME UNCHANGED files, Finish(c, "rejected") PROVE Inv'
  BY <1>1, <1>3, <1>5, AnsweredKeepsInv
<1> QED BY <1>4, <1>5 DEF WriteConfig

(* A request that starts to put the files back. *)
LEMMA UndoKeepsInv ==
    ASSUME Inv, NEW c \in Caller, InProgress(c), req[c].op # "preview",
           NEW names \in Undone, names # <<>>, NEW restarted \in BOOLEAN,
           NEW cancelled \in BOOLEAN, NEW result \in {"rejected", "restored"},
           Undo(c, names, restarted, cancelled, result),
           restarted => result # "rejected",
           UNCHANGED <<files, history, lock>>, running' \in Loaded,
           \A n \in Names : files[n] = req[c].old[n] \/ StillUndone(n, names),
           Undisturbed /\ ~restarted => running' = req[c].was
    PROVE  Inv'
<1>1. PICK r \in Request : /\ Goes(c, "undo", r) /\ SameRequest(r, req[c])
                           /\ r.undo = names /\ r.restarted = restarted
                           /\ r.result = result
  BY BeginsUndo, Knows DEF Results
<1>2. pc'[c] = "undo" /\ req'[c] = r
  BY <1>1 DEF Goes
<1>3. HalfKept(req[c]) /\ files \in Files /\ TypedHistory(history)
  BY RequestOf, Knows DEF ChecksKnown
<1>4. FilesKnown(c)'
  BY <1>1, <1>2 DEF FilesKnown, SameRequest
<1>5. ChecksKnown(c)' /\ RunningKnown(c)'
  BY <1>1, <1>2, <1>3 DEF ChecksKnown, RunningKnown, SameRequest, HalfKept
<1>6. UndisturbedKnown(c)' /\ HistoryKnown(c)'
  BY <1>1, <1>2 DEF UndisturbedKnown, HistoryKnown, SameRequest
<1>7. Known(c)'
  BY <1>4, <1>5, <1>6 DEF Known
<1> QED BY <1>1, <1>3, <1>7, HolderKeepsInv DEF Points

LEMMA WriteSettingsKeepsInv ==
    ASSUME Inv, NEW c \in Caller, WriteSettings(c) PROVE Inv'
<1>1. pc[c] = "writeSettings" /\ UNCHANGED <<running, history, lock>> /\ InProgress(c)
  BY DEF WriteSettings, InProgress
<1>2. /\ req[c].result = "none" /\ files.config = req[c].settings
      /\ files.settings = req[c].old.settings /\ files.custom = req[c].old.custom
      /\ HalfKept(req[c]) /\ req[c].op # "preview"
      /\ req[c].settings \notin Invalid /\ Wanted(req[c]) \notin CandidateBad
      /\ Undisturbed => running = req[c].was
      /\ "clock" \notin Faults => IsNewest(Current(req[c].old))
  BY <1>1, Knows DEF FilesKnown, ChecksKnown, UndisturbedKnown, HistoryKnown, InProgress
<1>3. /\ files \in Files /\ running' \in Loaded /\ TypedHistory(history')
      /\ req[c].settings \in Settings /\ req[c].cancelled \in BOOLEAN
  BY <1>1, RequestOf, Knows
<1>4. ASSUME files' = [files EXCEPT !.settings = req[c].settings],
             Goto(c, "writeCustom"), UNCHANGED req
      PROVE  Inv'
  <2>1. /\ files' \in Files /\ files'.settings = req[c].settings
        /\ files'.config = files.config /\ files'.custom = files.custom
    BY <1>3, <1>4 DEF Files
  <2>2. ASSUME pc'[c] = "writeCustom", req'[c] = req[c] PROVE Known(c)'
    <3>1. FilesKnown(c)' /\ ChecksKnown(c)' /\ RunningKnown(c)'
      BY <1>1, <1>2, <2>1, <2>2 DEF FilesKnown, ChecksKnown, RunningKnown
    <3>2. UndisturbedKnown(c)' /\ HistoryKnown(c)'
      BY <1>1, <1>2, <2>2 DEF UndisturbedKnown, HistoryKnown, IsNewest
    <3> QED BY <3>1, <3>2 DEF Known
  <2> QED BY <1>1, <1>3, <1>4, <2>1, <2>2, OnKeepsInv DEF Points
<1>5. ASSUME UNCHANGED files, Undo(c, <<"config">>, FALSE, req[c].cancelled, "rejected")
      PROVE  Inv'
  <2>1. \A n \in Names : files[n] = req[c].old[n] \/ StillUndone(n, <<"config">>)
    BY <1>2, AllFilesAreUndone DEF Names
  <2> QED BY <1>1, <1>2, <1>3, <1>5, <2>1, AllFilesAreUndone, UndoKeepsInv
<1> QED BY <1>4, <1>5 DEF WriteSettings

LEMMA WriteCustomKeepsInv ==
    ASSUME Inv, NEW c \in Caller, WriteCustom(c) PROVE Inv'
<1>1. pc[c] = "writeCustom" /\ UNCHANGED <<running, history, lock>> /\ InProgress(c)
  BY DEF WriteCustom, InProgress
<1>2. /\ req[c].result = "none" /\ files.config = req[c].settings
      /\ files.settings = req[c].settings /\ files.custom = req[c].old.custom
      /\ HalfKept(req[c]) /\ req[c].op # "preview"
      /\ req[c].settings \notin Invalid /\ Wanted(req[c]) \notin CandidateBad
      /\ Undisturbed => running = req[c].was
      /\ "clock" \notin Faults => IsNewest(Current(req[c].old))
  BY <1>1, Knows DEF FilesKnown, ChecksKnown, UndisturbedKnown, HistoryKnown, InProgress
<1>3. /\ files \in Files /\ running' \in Loaded /\ TypedHistory(history')
      /\ req[c].custom \in Custom /\ req[c].cancelled \in BOOLEAN
  BY <1>1, RequestOf, Knows
<1>4. ASSUME files' = [files EXCEPT !.custom = req[c].custom],
             Goto(c, "effective"), UNCHANGED req
      PROVE  Inv'
  <2>1. /\ files' \in Files /\ files'.custom = req[c].custom
        /\ files'.config = files.config /\ files'.settings = files.settings
    BY <1>3, <1>4 DEF Files
  <2>2. ASSUME pc'[c] = "effective", req'[c] = req[c] PROVE Known(c)'
    <3>1. FilesKnown(c)' /\ ChecksKnown(c)' /\ RunningKnown(c)'
      BY <1>1, <1>2, <2>1, <2>2 DEF FilesKnown, ChecksKnown, RunningKnown
    <3>2. UndisturbedKnown(c)' /\ HistoryKnown(c)'
      BY <1>1, <1>2, <2>2 DEF UndisturbedKnown, HistoryKnown, IsNewest
    <3> QED BY <3>1, <3>2 DEF Known
  <2> QED BY <1>1, <1>3, <1>4, <2>1, <2>2, OnKeepsInv DEF Points
<1>5. ASSUME UNCHANGED files,
             Undo(c, <<"config", "settings">>, FALSE, req[c].cancelled, "rejected")
      PROVE  Inv'
  <2>1. \A n \in Names : files[n] = req[c].old[n] \/ StillUndone(n, <<"config", "settings">>)
    BY <1>2, AllFilesAreUndone DEF Names
  <2> QED BY <1>1, <1>2, <1>3, <1>5, <2>1, AllFilesAreUndone, UndoKeepsInv
<1> QED BY <1>4, <1>5 DEF WriteCustom

LEMMA CheckEffectiveKeepsInv ==
    ASSUME Inv, NEW c \in Caller, CheckEffective(c) PROVE Inv'
<1>1. pc[c] = "effective" /\ UNCHANGED <<files, running, history, lock>> /\ InProgress(c)
  BY DEF CheckEffective, InProgress
<1>2. /\ req[c].result = "none" /\ files.config = req[c].settings
      /\ files.settings = req[c].settings /\ files.custom = req[c].custom
      /\ HalfKept(req[c]) /\ req[c].op # "preview"
      /\ req[c].settings \notin Invalid /\ Wanted(req[c]) \notin CandidateBad
      /\ Undisturbed => running = req[c].was
      /\ "clock" \notin Faults => IsNewest(Current(req[c].old))
  BY <1>1, Knows DEF FilesKnown, ChecksKnown, UndisturbedKnown, HistoryKnown, InProgress
<1>3. /\ files \in Files /\ running \in Loaded /\ TypedHistory(history)
      /\ req[c] \in Request /\ req[c].cancelled \in BOOLEAN
  BY RequestOf, Knows
<1>4. ASSUME OnDisk(files) \notin EffectiveBad, Goto(c, "restart"), UNCHANGED req
      PROVE  Inv'
  <2>1. Wanted(req[c]) \notin EffectiveBad
    BY <1>2, <1>3, <1>4, ReadNewFiles
  <2>2. ASSUME pc'[c] = "restart", req'[c] = req[c] PROVE Known(c)'
    <3>1. FilesKnown(c)' /\ ChecksKnown(c)' /\ RunningKnown(c)'
      BY <1>1, <1>2, <2>1, <2>2 DEF FilesKnown, ChecksKnown, RunningKnown
    <3>2. UndisturbedKnown(c)' /\ HistoryKnown(c)'
      BY <1>1, <1>2, <2>2 DEF UndisturbedKnown, HistoryKnown, IsNewest
    <3> QED BY <3>1, <3>2 DEF Known
  <2> QED BY <1>1, <1>3, <1>4, <2>2, OnKeepsInv DEF Points
<1>5. ASSUME Undo(c, AllFiles, FALSE, req[c].cancelled, "restored") PROVE Inv'
  BY <1>1, <1>2, <1>3, <1>5, AllFilesAreUndone, UndoKeepsInv
<1> QED BY <1>4, <1>5 DEF CheckEffective


LEMMA RestartNewKeepsInv ==
    ASSUME Inv, NEW c \in Caller, RestartNew(c) PROVE Inv'
<1>1. pc[c] = "restart" /\ UNCHANGED <<files, history, lock>> /\ InProgress(c)
  BY DEF RestartNew, InProgress
<1>2. /\ req[c].result = "none" /\ files.config = req[c].settings
      /\ files.settings = req[c].settings /\ files.custom = req[c].custom
      /\ HalfKept(req[c]) /\ req[c].op # "preview" /\ req[c].settings \notin Invalid
      /\ Wanted(req[c]) \notin CandidateBad /\ Wanted(req[c]) \notin EffectiveBad
      /\ "clock" \notin Faults => IsNewest(Current(req[c].old))
  BY <1>1, Knows DEF FilesKnown, ChecksKnown, HistoryKnown, InProgress
<1>3. /\ files \in Files /\ running \in Loaded /\ TypedHistory(history)
      /\ req[c] \in Request /\ req[c].cancelled \in BOOLEAN
  BY RequestOf, Knows
<1>4. OnDisk(files) = Wanted(req[c]) /\ OnDisk(files) \in Loaded
  BY <1>2, <1>3, ReadNewFiles, ReadSettings
<1>5. ASSUME running' = OnDisk(files), Goto(c, "recordNew"), UNCHANGED req
      PROVE  Inv'
  <2>1. ASSUME pc'[c] = "recordNew", req'[c] = req[c] PROVE Known(c)'
    <3>1. FilesKnown(c)' /\ ChecksKnown(c)' /\ RunningKnown(c)'
      BY <1>1, <1>2, <1>4, <1>5, <2>1 DEF FilesKnown, ChecksKnown, RunningKnown
    <3>2. UndisturbedKnown(c)' /\ HistoryKnown(c)'
      BY <1>1, <1>2, <2>1 DEF UndisturbedKnown, HistoryKnown, IsNewest
    <3> QED BY <3>1, <3>2 DEF Known
  <2> QED BY <1>1, <1>3, <1>4, <1>5, <2>1, OnKeepsInv DEF Points
<1>6. ASSUME NEW cancelled \in BOOLEAN, running' \in {running, OnDisk(files)},
             Undo(c, AllFiles, TRUE, cancelled, "restored")
      PROVE  Inv'
  <2>1. running' \in Loaded
    BY <1>3, <1>4, <1>6
  <2> QED BY <1>1, <1>2, <1>3, <1>6, <2>1, AllFilesAreUndone, UndoKeepsInv
<1> QED BY <1>3, <1>5, <1>6 DEF RestartNew, RestartContainer

LEMMA FilePutBack ==
    ASSUME files \in Files, NEW old \in Files, NEW name \in Names,
           files' = WithFileOf(files, old, name)
    PROVE  /\ files' \in Files
           /\ \A n \in Names : files'[n] = IF n = name THEN old[n] ELSE files[n]
  BY DEF Files, Names, WithFileOf

(* Request c has names left to put back, and no new result. *)
NotesLeft(c, names) == req' = [req EXCEPT ![c].undo = names]

LEMMA UndoesOne ==
    ASSUME TypeOK, NEW c \in Caller, NEW names \in Undone,
           NEW point \in Points, Goto(c, point), NotesLeft(c, names)
    PROVE  \E r \in Request : /\ Goes(c, point, r) /\ SameRequest(r, req[c])
                              /\ r.undo = names /\ r.restarted = req[c].restarted
                              /\ r.result = req[c].result
<1>1. PICK q \in Request : q = req[c]
  BY RequestOf
<1> DEFINE r == [q EXCEPT !.undo = names]
<1>2. req' = [req EXCEPT ![c] = [req[c] EXCEPT !.undo = names]]
  BY DEF NotesLeft, TypeOK, Request
<1>3. r \in Request /\ SameRequest(r, q) /\ r.undo = names /\ r.restarted = q.restarted
      /\ r.result = q.result
  BY DEF Request, SameRequest
<1>4. req' = [req EXCEPT ![c] = r]
  BY <1>1, <1>2, Zenon
<1>5. Goes(c, point, r)
  BY <1>3, <1>4, BothGo
<1> QED BY <1>1, <1>3, <1>5

LEMMA RestoreFileKeepsInv ==
    ASSUME Inv, NEW c \in Caller, RestoreFile(c) PROVE Inv'
<1>1. /\ pc[c] = "undo" /\ UNCHANGED <<running, history, lock>> /\ InProgress(c)
      /\ Goto(c, AfterUndo(req[c]))
  BY DEF RestoreFile, InProgress
<1>2. /\ req[c].undo # <<>> /\ req[c].result \in {"rejected", "restored", "rollbackFailed"}
      /\ req[c].restarted => req[c].result # "rejected"
      /\ Mended(req[c]) =>
             \A n \in Names : files[n] = req[c].old[n] \/ StillUndone(n, req[c].undo)
      /\ HalfKept(req[c]) /\ req[c].op # "preview"
      /\ Undisturbed /\ ~req[c].restarted => running = req[c].was
  BY <1>1, Knows DEF FilesKnown, ChecksKnown, UndisturbedKnown, InProgress
<1>3. /\ files \in Files /\ req[c].old \in Files /\ running' \in Loaded /\ TypedHistory(history')
      /\ req[c].undo \in Undone /\ req[c].restarted \in BOOLEAN
  BY <1>1, RequestOf, Knows
<1>4. PICK name \in Names, rest \in Undone :
          /\ name = Head(req[c].undo) /\ rest = Tail(req[c].undo)
          /\ Len(req[c].undo) > 1 <=> rest # <<>>
          /\ \A n : StillUndone(n, req[c].undo) => n = name \/ StillUndone(n, rest)
  BY <1>2, <1>3, UndoneShrinks
<1>5. PICK point \in {"undo", "restartOld", "return"} :
          /\ point = AfterUndo(req[c])
          /\ point = "undo" <=> rest # <<>>
          /\ point = "restartOld" => req[c].restarted
          /\ point = "return" => ~req[c].restarted
  BY <1>3, <1>4 DEF AfterUndo
<1>6. ASSUME NEW result \in Results, NEW r \in Request, Goes(c, point, r),
             SameRequest(r, req[c]), r.undo = rest, r.restarted = req[c].restarted,
             r.result = result, files' \in Files,
             \/ result = req[c].result
             \/ result = "rollbackFailed" /\ req[c].result = "restored",
             Mended(r) => \A n \in Names : files'[n] = req[c].old[n] \/ StillUndone(n, rest)
      PROVE  Inv'
  <2>1. pc'[c] = point /\ req'[c] = r /\ r.old = req[c].old
    BY <1>6 DEF Goes, SameRequest
  <2>2. rest = <<>> /\ Mended(r) => files' = req[c].old
    BY <1>3, <1>6, NothingUndone, FilesEqual
  <2>3. ~Activated(r) /\ result \in {"rejected", "restored", "rollbackFailed"}
    BY <1>2, <1>6 DEF Activated
  <2>4. FilesKnown(c)'
    <3>1. CASE point = "undo"
      BY <1>2, <1>5, <1>6, <2>1, <2>3, <3>1 DEF FilesKnown
    <3>2. CASE point = "restartOld"
      BY <1>2, <1>5, <1>6, <2>1, <2>2, <2>3, <3>2 DEF FilesKnown
    <3>3. CASE point = "return"
      BY <1>2, <1>5, <1>6, <2>1, <2>2, <2>3, <3>3 DEF FilesKnown
    <3> QED BY <1>5, <3>1, <3>2, <3>3
  <2>5. ChecksKnown(c)' /\ RunningKnown(c)'
    BY <1>2, <1>5, <1>6, <2>1, <2>3 DEF ChecksKnown, RunningKnown, SameRequest, HalfKept
  <2>6. UndisturbedKnown(c)' /\ HistoryKnown(c)'
    BY <1>1, <1>2, <1>5, <1>6, <2>1, <2>3 DEF UndisturbedKnown, HistoryKnown, SameRequest
  <2>7. Known(c)'
    BY <2>4, <2>5, <2>6 DEF Known
  <2> QED BY <1>1, <1>3, <1>6, <2>7, HolderKeepsInv DEF Points
<1>7. CASE files' = WithFileOf(files, req[c].old, name) /\ NotesLeft(c, rest)
  <2> Goto(c, point) /\ point \in Points
    BY <1>1, <1>5 DEF Points
  <2>1. PICK r \in Request : /\ Goes(c, point, r) /\ SameRequest(r, req[c])
                             /\ r.undo = rest /\ r.restarted = req[c].restarted
                             /\ r.result = req[c].result
    BY <1>7, UndoesOne, Knows
  <2>2. /\ files' \in Files
        /\ \A n \in Names : files'[n] = IF n = name THEN req[c].old[n] ELSE files[n]
    BY <1>3, <1>7, FilePutBack
  <2>3. Mended(r) => Mended(req[c])
    <3>1. r.result = req[c].result
      BY <2>1
    <3> QED BY <3>1 DEF Mended
  <2>4. Mended(r) => \A n \in Names : files'[n] = req[c].old[n] \/ StillUndone(n, rest)
    BY <1>2, <1>4, <2>2, <2>3
  <2> QED BY <1>2, <1>6, <2>1, <2>2, <2>4 DEF Results
<1>8. ASSUME NEW result \in Results, "restore" \in Faults, UNCHANGED files,
             result = AfterFailedRestore(req[c].result),
             NotesUndo(c, rest, result)
      PROVE  Inv'
  <2> Goto(c, point) /\ point \in Points
    BY <1>1, <1>5 DEF Points
  <2>1. PICK r \in Request : /\ Goes(c, point, r) /\ SameRequest(r, req[c])
                             /\ r.undo = rest /\ r.restarted = req[c].restarted
                             /\ r.result = result
    BY <1>8, Undoes, Knows
  <2>2. ~Mended(r)
    BY <1>8, <2>1 DEF Mended, AfterFailedRestore
  <2>3. \/ result = req[c].result
        \/ result = "rollbackFailed" /\ req[c].result = "restored"
    BY <1>8 DEF AfterFailedRestore
  <2> QED BY <1>3, <1>6, <1>8, <2>1, <2>2, <2>3
<1>9. AfterFailedRestore(req[c].result) \in Results
  BY <1>2 DEF Results, AfterFailedRestore
<1>10. \/ /\ files' = WithFileOf(files, req[c].old, Head(req[c].undo))
          /\ NotesLeft(c, Tail(req[c].undo))
       \/ /\ "restore" \in Faults /\ UNCHANGED files
          /\ NotesUndo(c, Tail(req[c].undo), AfterFailedRestore(req[c].result))
  BY DEF RestoreFile, NotesLeft, NotesUndo, WithFileOf
<1> QED BY <1>4, <1>7, <1>8, <1>9, <1>10


LEMMA RestartOldKeepsInv ==
    ASSUME Inv, NEW c \in Caller, RestartOld(c) PROVE Inv'
<1>1. pc[c] = "restartOld" /\ UNCHANGED <<files, history, lock>> /\ InProgress(c)
  BY DEF RestartOld, InProgress
<1>2. /\ req[c].restarted /\ req[c].result \in {"restored", "rollbackFailed"}
      /\ Mended(req[c]) => files = req[c].old
      /\ HalfKept(req[c])
  BY <1>1, Knows DEF FilesKnown, ChecksKnown, InProgress
<1>3. files \in Files /\ OnDisk(files) \in Loaded /\ running \in Loaded /\ TypedHistory(history)
  BY RequestOf, Knows, ReadSettings
<1>4. ASSUME NEW result \in {"restored", "rollbackFailed"}, Finish(c, result),
             running' \in {running, OnDisk(files)},
             result = "restored" => /\ req[c].result = "restored"
                                    /\ running' = OnDisk(files)
      PROVE  Inv'
  <2>1. PICK r \in Request : /\ Goes(c, "return", r) /\ SameRequest(r, req[c])
                             /\ r.restarted = req[c].restarted /\ r.result = result
    BY <1>4, Finishes, Knows DEF Results
  <2>2. pc'[c] = "return" /\ req'[c] = r /\ ~Activated(r) /\ r.result = result /\ r.restarted
    BY <1>2, <2>1 DEF Goes, Activated
  <2>3. Mended(r) => Mended(req[c])
    BY <1>4, <2>1 DEF Mended
  <2>4. OnDisk(files)' = OnDisk(files)
    BY <1>1
  <2>5. FilesKnown(c)'
    BY <1>1, <1>2, <2>1, <2>2, <2>3 DEF FilesKnown, SameRequest
  <2>6. ChecksKnown(c)' /\ RunningKnown(c)'
    BY <1>1, <1>2, <1>4, <2>1, <2>2, <2>4 DEF ChecksKnown, RunningKnown, SameRequest, HalfKept
  <2>7. UndisturbedKnown(c)' /\ HistoryKnown(c)'
    BY <2>2 DEF UndisturbedKnown, HistoryKnown
  <2>8. Known(c)'
    BY <2>5, <2>6, <2>7 DEF Known
  <2>9. files' \in Files /\ running' \in Loaded /\ TypedHistory(history')
    BY <1>1, <1>3, <1>4
  <2> QED BY <1>1, <2>1, <2>8, <2>9, HolderKeepsInv DEF Points
<1>5. CASE running' = OnDisk(files) /\ Finish(c, req[c].result)
  BY <1>2, <1>4, <1>5
<1>6. CASE running' \in {running, OnDisk(files)} /\ Finish(c, "rollbackFailed")
  BY <1>4, <1>6
<1> QED BY <1>5, <1>6 DEF RestartOld, RestartContainer

LEMMA RecordNewKeepsInv ==
    ASSUME Inv, NEW c \in Caller, RecordNew(c) PROVE Inv'
<1>1. pc[c] = "recordNew" /\ UNCHANGED <<files, running, lock>> /\ InProgress(c)
  BY DEF RecordNew, InProgress
<1>2. /\ files.config = req[c].settings /\ files.settings = req[c].settings
      /\ files.custom = req[c].custom
      /\ HalfKept(req[c]) /\ req[c].op # "preview" /\ req[c].settings \notin Invalid
      /\ Wanted(req[c]) \notin CandidateBad /\ Wanted(req[c]) \notin EffectiveBad
      /\ running = Wanted(req[c])
      /\ "clock" \notin Faults => IsNewest(Current(req[c].old))
  BY <1>1, Knows DEF FilesKnown, ChecksKnown, HistoryKnown, RunningKnown, InProgress
<1>3. files \in Files /\ running \in Loaded /\ TypedHistory(history) /\ req[c] \in Request
  BY RequestOf, Knows
<1>4. files = NewFiles(req[c])
  <2>1. /\ NewFiles(req[c]) \in Files
        /\ NewFiles(req[c]).config = req[c].settings
        /\ NewFiles(req[c]).settings = req[c].settings
        /\ NewFiles(req[c]).custom = req[c].custom
    BY <1>3, ReadNewFiles DEF NewFiles
  <2> QED BY <1>2, <1>3, <2>1 DEF Files
<1>5. ASSUME NEW result \in {"ok", "unrecorded"}, Finish(c, result),
             TypedHistory(history'),
             result = "ok" /\ "clock" \notin Faults =>
                 /\ InHistory(history', VersionOf(req[c]))
                 /\ InHistory(history', Current(req[c].old))
      PROVE  Inv'
  <2>1. PICK r \in Request : /\ Goes(c, "return", r) /\ SameRequest(r, req[c])
                             /\ r.restarted = req[c].restarted /\ r.result = result
    BY <1>5, Finishes, Knows DEF Results
  <2>2. pc'[c] = "return" /\ req'[c] = r /\ Activated(r) /\ r.result \notin {"none", "restored"}
    BY <1>2, <2>1 DEF Goes, Activated, SameRequest
  <2>3. /\ NewFiles(r) = NewFiles(req[c]) /\ Wanted(r) = Wanted(req[c])
        /\ VersionOf(r) = VersionOf(req[c]) /\ r.old = req[c].old
    BY <2>1 DEF NewFiles, Wanted, VersionOf, SameRequest
  <2>4. FilesKnown(c)'
    BY <1>1, <1>2, <1>4, <2>1, <2>2, <2>3 DEF FilesKnown, SameRequest
  <2>5. ChecksKnown(c)' /\ RunningKnown(c)'
    BY <1>1, <1>2, <2>1, <2>2, <2>3 DEF ChecksKnown, RunningKnown, SameRequest, HalfKept
  <2>6. UndisturbedKnown(c)'
    BY <2>2 DEF UndisturbedKnown
  <2>7. HistoryKnown(c)'
    BY <1>5, <2>1, <2>2, <2>3 DEF HistoryKnown, Recorded, InHistory
  <2>8. Known(c)'
    BY <2>4, <2>5, <2>6, <2>7 DEF Known
  <2> QED BY <1>1, <1>3, <1>5, <2>1, <2>8, HolderKeepsInv DEF Points
<1>6. PICK v \in Version, u \in Version : v = VersionOf(req[c]) /\ u = Current(req[c].old)
  BY <1>3, ReadNewFiles, ReadSettings DEF Request
<1>7. CASE RecordSnapshot(v) /\ Finish(c, "ok")
  BY <1>2, <1>3, <1>5, <1>6, <1>7, SnapshotRecorded
<1>8. CASE RecordFails(v) /\ Finish(c, "unrecorded")
  BY <1>3, <1>5, <1>8, RecordFailsTyped
<1> QED BY <1>6, <1>7, <1>8 DEF RecordNew


-----------------------------------------------------------------------------
(* Into the lock and out of it *)

LEMMA NoRequestTyped == NoRequest \in Request /\ NoRequest.result = "none"
  BY DEF NoRequest, Request, Files, Loaded, Undone, Operations, Results

LEMMA OthersKeepKnowing ==
    ASSUME Inv, NEW c \in Caller, NEW point, NEW r, Goes(c, point, r),
           \A d \in Caller : d # c => ~InProgress(d)
    PROVE  \A d \in Caller : d # c => Known(d)'
<1> SUFFICES ASSUME NEW d \in Caller, d # c PROVE Known(d)'
  OBVIOUS
<1>1. pc[d] \in {"idle", "waiting"} /\ (pc[d] = "waiting" => req[d].result = "none")
  BY DEF Inv, Known, FilesKnown, InProgress
<1> QED BY <1>1, OutsideKnows DEF Goes

LEMMA AcquireKeepsInv ==
    ASSUME Inv, NEW c \in Caller, Acquire(c) PROVE Inv'
<1>1. /\ pc[c] = "waiting" /\ lock = Absent /\ lock' = c /\ Goto(c, "validate")
      /\ UNCHANGED <<files, running, history>>
  BY DEF Acquire
<1>2. PICK q \in Request : q = req[c]
  BY RequestOf, Knows
<1>3. PICK s \in Settings : s = IF q.op \in {"custom", "preview"} THEN LoadSettings(files)
                                                                ELSE q.settings
  BY RequestOf, ReadSettings, Knows, <1>2
<1>4. PICK t \in Custom : t = IF q.op = "apply" THEN files.custom ELSE q.custom
  BY RequestOf, Knows, <1>2 DEF Files
<1>5. PICK f \in Files, w \in Loaded : f = files /\ w = running
  BY RequestOf, Knows
<1> DEFINE r == [q EXCEPT !.settings = s, !.custom = t, !.old = f, !.was = w]
<1>6. req' = [req EXCEPT ![c] = r]
  BY <1>2, <1>3, <1>4, <1>5, Zenon DEF Acquire
<1>7. /\ r \in Request /\ r.op = q.op /\ r.settings = s /\ r.custom = t /\ r.old = f
      /\ r.was = w /\ r.result = q.result
  BY DEF Request
<1> HIDE DEF r
<1>8. Goes(c, "validate", r)
  BY <1>1, <1>6, <1>7, BothGo, Knows DEF Points
<1>9. pc'[c] = "validate" /\ req'[c] = r
  BY <1>8 DEF Goes
<1>10. \A d \in Caller : ~InProgress(d)
  BY <1>1 DEF Inv, Base, Exclusive
<1>11. r.result = "none" /\ HalfKept(r)
  BY <1>1, <1>2, <1>3, <1>4, <1>5, <1>7, Knows DEF FilesKnown, HalfKept, LoadSettings
<1>12. Known(c)'
  <2>1. FilesKnown(c)' /\ ChecksKnown(c)' /\ RunningKnown(c)'
    BY <1>1, <1>5, <1>7, <1>9, <1>11 DEF FilesKnown, ChecksKnown, RunningKnown
  <2>2. UndisturbedKnown(c)' /\ HistoryKnown(c)'
    BY <1>1, <1>5, <1>7, <1>9 DEF UndisturbedKnown, HistoryKnown
  <2> QED BY <2>1, <2>2 DEF Known
<1>13. TypeOK'
  BY <1>1, <1>8 DEF Inv, Base, TypeOK, Goes
<1>14. Exclusive'
  BY <1>1, <1>8, <1>10 DEF Exclusive, InProgress, Goes
<1>15. SoundKnown'
  <2>1. \A d \in Caller : InProgress(d)' => d = c
    BY <1>1, <1>14 DEF Exclusive
  <2> QED BY <1>1, <1>5, <1>7, <1>9, <2>1 DEF Inv, SoundKnown
<1>16. \A d \in Caller : d # c => Known(d)'
  BY <1>8, <1>10, OthersKeepKnowing
<1> QED BY <1>12, <1>13, <1>14, <1>15, <1>16 DEF Inv, Base

LEMMA ReturnKeepsInv ==
    ASSUME Inv, NEW c \in Caller, Return(c) PROVE Inv'
<1>1. /\ pc[c] = "return" /\ lock' = Absent /\ UNCHANGED <<files, running, history>>
      /\ Goto(c, "idle") /\ req' = [req EXCEPT ![c] = NoRequest] /\ InProgress(c)
  BY DEF Return, InProgress
<1>2. Goes(c, "idle", NoRequest)
  BY <1>1, NoRequestTyped, BothGo, Knows DEF Points
<1>3. pc'[c] = "idle"
  BY <1>2 DEF Goes
<1>4. lock = c /\ \A d \in Caller : d # c => ~InProgress(d)
  BY <1>1 DEF Inv, Base, Exclusive
<1>5. TypeOK'
  BY <1>1, <1>2 DEF Inv, Base, TypeOK, Goes
<1>6. \A d \in Caller : ~InProgress(d)'
  BY <1>2, <1>3, <1>4 DEF InProgress, Goes
<1>7. Exclusive'
  BY <1>1, <1>6 DEF Exclusive
<1>8. {"crash", "restore"} \cap Faults = {} => Sound(files)
  <2>1. req[c] \in Request /\ files \in Files
    BY RequestOf, Knows
  <2>2. CASE Activated(req[c])
    <3>1. files = NewFiles(req[c]) /\ Wanted(req[c]) \notin CandidateBad \cup EffectiveBad
      BY <1>1, <2>2, Knows DEF FilesKnown, ChecksKnown
    <3> QED BY <2>1, <3>1, ReadNewFiles DEF Sound
  <2>3. CASE ~Activated(req[c])
    <3>1. "restore" \notin Faults => files = req[c].old
      BY <1>1, <2>3, Knows DEF FilesKnown, Mended
    <3> QED BY <1>1, <3>1 DEF Inv, SoundKnown
  <2> QED BY <2>2, <2>3
<1>9. SoundKnown'
  BY <1>1, <1>6, <1>8 DEF SoundKnown, Sound, OnDisk
<1>10. Known(c)'
  BY <1>3, OutsideKnows
<1>11. \A d \in Caller : d # c => Known(d)'
  BY <1>2, <1>4, OthersKeepKnowing
<1> QED BY <1>5, <1>7, <1>9, <1>10, <1>11 DEF Inv, Base


-----------------------------------------------------------------------------
(* What happens around the lock *)

LEMMA UnmovedKnows ==
    ASSUME Inv, NEW d \in Caller, pc'[d] = pc[d], SameRequest(req'[d], req[d]),
           req'[d].undo = req[d].undo, req'[d].restarted = req[d].restarted,
           req'[d].result = req[d].result, UNCHANGED <<files, running, history>>
    PROVE  Known(d)'
<1>1. /\ NewFiles(req'[d]) = NewFiles(req[d]) /\ Wanted(req'[d]) = Wanted(req[d])
      /\ VersionOf(req'[d]) = VersionOf(req[d]) /\ Mended(req'[d]) = Mended(req[d])
      /\ Activated(req'[d]) = Activated(req[d]) /\ HalfKept(req'[d]) = HalfKept(req[d])
  BY DEF NewFiles, Wanted, VersionOf, Mended, Activated, HalfKept, SameRequest
<1>2. FilesKnown(d)'
  BY <1>1, Knows DEF FilesKnown, SameRequest
<1>3. ChecksKnown(d)'
  BY <1>1, Knows DEF ChecksKnown, SameRequest, InProgress
<1>4. RunningKnown(d)'
  BY <1>1, Knows DEF RunningKnown, OnDisk
<1>5. UndisturbedKnown(d)'
  BY <1>1, Knows DEF UndisturbedKnown, SameRequest
<1>6. HistoryKnown(d)'
  BY <1>1, Knows DEF HistoryKnown, SameRequest, IsNewest, Recorded
<1> QED BY <1>2, <1>3, <1>4, <1>5, <1>6 DEF Known

LEMMA UnlockedKeepsInv ==
    ASSUME Inv, NEW c \in Caller, NEW point \in Points, NEW r \in Request, Goes(c, point, r),
           UNCHANGED <<files, running, history, lock>>, Known(c)',
           point \in {"idle", "waiting"} <=> pc[c] \in {"idle", "waiting"},
           point \notin {"idle", "waiting"} => r.old = req[c].old
    PROVE  Inv'
<1>1. TypeOK'
  BY DEF Inv, Base, TypeOK, Goes
<1>2. \A d \in Caller : InProgress(d)' <=> InProgress(d)
  BY DEF InProgress, Goes
<1>3. Exclusive'
  BY <1>2 DEF Inv, Base, Exclusive
<1>4. ASSUME NEW d \in Caller, d # c PROVE Known(d)'
  <2>1. pc'[d] = pc[d] /\ req'[d] = req[d]
    BY <1>4 DEF Goes
  <2> QED BY <2>1, UnmovedKnows DEF SameRequest
<1>5. \A d \in Caller : InProgress(d)' => req'[d].old = req[d].old
  BY DEF InProgress, Goes
<1>6. SoundKnown'
  BY <1>2, <1>5 DEF Inv, SoundKnown, Sound, OnDisk
<1> QED BY <1>1, <1>3, <1>4, <1>6 DEF Inv, Base

LEMMA SubmitKeepsInv ==
    ASSUME Inv, NEW c \in Caller, NEW op \in Operations, NEW s \in Settings, NEW t \in Custom,
           Submit(c, op, s, t)
    PROVE  Inv'
<1>1. PICK q \in Request : q = NoRequest /\ q.result = "none"
  BY NoRequestTyped
<1> DEFINE r == [q EXCEPT !.op = op, !.settings = s, !.custom = t]
<1>2. r \in Request /\ r.result = "none"
  BY <1>1 DEF Request
<1>3. req' = [req EXCEPT ![c] = r]
  BY <1>1, Zenon DEF Submit
<1>4. Goes(c, "waiting", r)
  BY <1>2, <1>3, BothGo, Knows DEF Submit, Points
<1> HIDE DEF r
<1>5. pc[c] = "idle" /\ UNCHANGED <<files, running, history, lock>>
  BY DEF Submit
<1>6. Known(c)'
  BY <1>2, <1>4, OutsideKnows DEF Goes
<1> QED BY <1>2, <1>4, <1>5, <1>6, UnlockedKeepsInv DEF Points

LEMMA SubmissionsKeepInv ==
    ASSUME Inv, NEW c \in Caller,
           SubmitApply(c) \/ SubmitCustom(c) \/ SubmitPreview(c) \/ SubmitRestore(c)
    PROVE  Inv'
<1>1. \A n \in DOMAIN history : history[n].settings \in Settings /\ history[n].custom \in Custom
  <2>1. history \in Seq(Version)
    BY DEF Inv, Base, TypeOK
  <2>2. \A n \in DOMAIN history : history[n] \in Version
    BY <2>1
  <2> QED BY <2>2 DEF Version
<1>2. PICK op \in Operations, s \in Settings, t \in Custom : Submit(c, op, s, t)
  BY <1>1 DEF SubmitApply, SubmitCustom, SubmitPreview, SubmitRestore, Operations
<1> QED BY <1>2, SubmitKeepsInv

LEMMA CancelKeepsInv ==
    ASSUME Inv, NEW c \in Caller, Cancel(c) PROVE Inv'
<1>1. PICK q \in Request : q = req[c]
  BY RequestOf, Knows
<1> DEFINE r == [q EXCEPT !.cancelled = TRUE]
<1>2. /\ r \in Request /\ SameRequest(r, q) /\ r.undo = q.undo
      /\ r.restarted = q.restarted /\ r.result = q.result
  BY DEF Request, SameRequest
<1>3. req' = [req EXCEPT ![c] = [req[c] EXCEPT !.cancelled = TRUE]]
  BY Knows DEF Cancel, TypeOK, Request
<1>4. req' = [req EXCEPT ![c] = r]
  BY <1>1, <1>3, Zenon
<1> HIDE DEF r
<1>5. pc' = pc /\ UNCHANGED <<files, running, history, lock>>
  BY DEF Cancel
<1>6. Goes(c, pc[c], r) /\ pc[c] \in Points
  BY <1>2, <1>4, <1>5, Knows DEF Goes, TypeOK
<1>7. Known(c)'
  BY <1>1, <1>2, <1>5, <1>6, UnmovedKnows DEF Goes
<1> QED BY <1>1, <1>2, <1>5, <1>6, <1>7, UnlockedKeepsInv DEF SameRequest

LEMMA ControlRestartKeepsInv ==
    ASSUME Inv, ControlRestart PROVE Inv'
<1>1. /\ "control" \in Faults /\ running' = OnDisk(files)
      /\ UNCHANGED <<files, history, lock, pc, req>>
  BY DEF ControlRestart
<1>2. files \in Files /\ OnDisk(files) \in Loaded
  BY ReadSettings DEF Inv, Base, TypeOK
<1>3. TypeOK' /\ Exclusive'
  BY <1>1, <1>2 DEF Inv, Base, TypeOK, Exclusive, InProgress
<1>4. ASSUME NEW c \in Caller PROVE Known(c)'
  <2>1. req[c] \in Request
    BY RequestOf, Knows
  <2>2. pc[c] = "recordNew" \/ (pc[c] = "return" /\ Activated(req[c]))
            => OnDisk(files) = Wanted(req[c])
    BY <1>2, <2>1, ReadNewFiles, Knows DEF FilesKnown
  <2>3. FilesKnown(c)' /\ ChecksKnown(c)'
    BY <1>1, Knows DEF FilesKnown, ChecksKnown, InProgress
  <2>4. RunningKnown(c)'
    BY <1>1, <2>2, Knows DEF RunningKnown, OnDisk
  <2>5. UndisturbedKnown(c)' /\ HistoryKnown(c)'
    BY <1>1, Knows DEF UndisturbedKnown, Undisturbed, HistoryKnown, IsNewest, Recorded
  <2> QED BY <2>3, <2>4, <2>5 DEF Known
<1>5. SoundKnown'
  BY <1>1 DEF Inv, SoundKnown, Sound, OnDisk, InProgress
<1> QED BY <1>3, <1>4, <1>5 DEF Inv, Base

LEMMA CrashKeepsInv ==
    ASSUME Inv, Crash PROVE Inv'
<1>1. /\ "crash" \in Faults /\ lock' = Absent /\ UNCHANGED <<files, running, history>>
      /\ pc' = [c \in Caller |-> "idle"] /\ req' = [c \in Caller |-> NoRequest]
  BY DEF Crash
<1>2. TypeOK'
  BY <1>1, NoRequestTyped DEF Inv, Base, TypeOK, Points
<1>3. Exclusive'
  BY <1>1 DEF Exclusive, InProgress
<1>4. ASSUME NEW c \in Caller PROVE Known(c)'
  BY <1>1, OutsideKnows
<1>5. SoundKnown'
  BY <1>1 DEF SoundKnown
<1> QED BY <1>2, <1>3, <1>4, <1>5 DEF Inv, Base


-----------------------------------------------------------------------------
(* The theorems *)

LEMMA InitKnows == ASSUME Init PROVE Inv
<1>1. /\ files = [config |-> Absent, settings |-> Absent, custom |-> NoText]
      /\ running = <<Default, NoText>> /\ history = <<>> /\ lock = Absent
      /\ pc = [c \in Caller |-> "idle"] /\ req = [c \in Caller |-> NoRequest]
  BY DEF Init
<1>2. files \in Files /\ running \in Loaded
  BY <1>1 DEF Files, Loaded
<1>3. TypedHistory(history)
  BY <1>1 DEF TypedHistory
<1>4. TypeOK
  BY <1>1, <1>2, <1>3, NoRequestTyped DEF TypeOK, TypedHistory, Points
<1>5. \A c \in Caller : pc[c] = "idle"
  BY <1>1
<1>6. Exclusive
  BY <1>1, <1>5 DEF Exclusive, InProgress
<1>7. ASSUME NEW c \in Caller PROVE Known(c)
  <2>1. FilesKnown(c)
    BY <1>5 DEF FilesKnown
  <2>2. ChecksKnown(c) /\ RunningKnown(c) /\ UndisturbedKnown(c) /\ HistoryKnown(c)
    BY <1>5 DEF ChecksKnown, RunningKnown, UndisturbedKnown, HistoryKnown, InProgress
  <2> QED BY <2>1, <2>2 DEF Known
<1>8. Sound(files)
  BY <1>1 DEF Sound, OnDisk
<1>9. SoundKnown
  BY <1>5, <1>8 DEF SoundKnown, InProgress
<1> QED BY <1>4, <1>6, <1>7, <1>9 DEF Inv, Base

LEMMA StepKeepsInv == ASSUME Inv, [Next]_vars PROVE Inv'
<1>1. CASE UNCHANGED vars
  <2>1. UNCHANGED <<files, running, history, lock, pc, req>>
    BY <1>1 DEF vars
  <2>2. TypeOK' /\ Exclusive' /\ SoundKnown'
    BY <2>1 DEF Inv, Base, TypeOK, Exclusive, InProgress, SoundKnown, Sound, OnDisk
  <2>3. \A c \in Caller : Known(c)'
    BY <2>1, UnmovedKnows DEF SameRequest
  <2> QED BY <2>2, <2>3 DEF Inv, Base
<1>2. ASSUME NEW c \in Caller,
             SubmitApply(c) \/ SubmitCustom(c) \/ SubmitPreview(c) \/ SubmitRestore(c)
      PROVE  Inv'
  BY <1>2, SubmissionsKeepInv
<1>3. ASSUME NEW c \in Caller, Step(c) PROVE Inv'
  BY <1>3, AcquireKeepsInv, ValidateKeepsInv, RecordCurrentKeepsInv, WriteConfigKeepsInv,
     WriteSettingsKeepsInv, WriteCustomKeepsInv, CheckEffectiveKeepsInv, RestartNewKeepsInv,
     RestoreFileKeepsInv, RestartOldKeepsInv, RecordNewKeepsInv, ReturnKeepsInv DEF Step
<1>4. ASSUME NEW c \in Caller, Cancel(c) PROVE Inv'
  BY <1>4, CancelKeepsInv
<1> QED BY <1>1, <1>2, <1>3, <1>4, ControlRestartKeepsInv, CrashKeepsInv DEF Next

LEMMA AlwaysInv == Spec => []Inv
<1>1. Init => Inv
  BY InitKnows
<1>2. Inv /\ [Next]_vars => Inv'
  BY StepKeepsInv
<1> QED BY <1>1, <1>2, PTL DEF Spec

(* Every variable keeps its type, whatever fails, overlaps or ends, and however many
   versions failed prunings leave. *)
THEOREM ConfigTyped == Spec => []TypeOK
<1>1. Inv => TypeOK
  BY DEF Inv, Base
<1> QED BY <1>1, AlwaysInv, PTL

(* recordSnapshot and pruneHistory, wherever the clock puts a version and whatever
   cannot be written or removed: the newest versions that fit beside a new one stay,
   and versions above the limit are left only by a request that says so. *)
THEOREM VersionsAreKept == Spec => NewestVersionsKept
<1> DEFINE Reported ==
        \E c \in Caller : pc'[c] = "return" /\ req'[c].result \in {"rejected", "unrecorded"}
<1>1. ASSUME Inv, [Next]_vars, history' # history
      PROVE  Keeps(history, history') /\ (Len(history') <= HistoryLimit \/ Reported)
  <2>1. PICK c \in Caller : RecordCurrent(c) \/ RecordNew(c)
    <3>1. ~(UNCHANGED vars) /\ ~ControlRestart /\ ~Crash
      BY <1>1 DEF vars, ControlRestart, Crash
    <3>2. ASSUME NEW c \in Caller
          PROVE  /\ ~(SubmitApply(c) \/ SubmitCustom(c) \/ SubmitPreview(c) \/ SubmitRestore(c))
                 /\ ~Cancel(c)
      <4>1. \A op, t, u : ~Submit(c, op, t, u)
        BY <1>1 DEF Submit
      <4>2. ~Cancel(c)
        BY <1>1 DEF Cancel
      <4> QED BY <4>1, <4>2 DEF SubmitApply, SubmitCustom, SubmitPreview, SubmitRestore
    <3>3. ASSUME NEW c \in Caller, Step(c) PROVE RecordCurrent(c) \/ RecordNew(c)
      <4>1. ~Acquire(c) /\ ~Validate(c) /\ ~WriteConfig(c) /\ ~WriteSettings(c) /\ ~WriteCustom(c)
        BY <1>1 DEF Acquire, Validate, WriteConfig, WriteSettings, WriteCustom
      <4>2. /\ ~CheckEffective(c) /\ ~RestartNew(c) /\ ~RestoreFile(c) /\ ~RestartOld(c)
            /\ ~Return(c)
        BY <1>1 DEF CheckEffective, RestartNew, RestoreFile, RestartOld, Return
      <4> QED BY <3>3, <4>1, <4>2 DEF Step
    <3> QED BY <1>1, <3>1, <3>2, <3>3 DEF Next
  <2>2. TypedHistory(history) /\ Current(files) \in Version /\ VersionOf(req[c]) \in Version
    BY <1>1, RequestOf, ReadSettings, ReadNewFiles DEF Inv, Base
  <2>3. ASSUME NEW v \in Version, RecordSnapshot(v)
        PROVE  Keeps(history, history') /\ Len(history') <= HistoryLimit
    BY <1>1, <2>2, <2>3, SnapshotRecorded
  <2>4. ASSUME NEW v \in Version, RecordFails(v)
        PROVE  Keeps(history, history')
    BY <1>1, <2>2, <2>4, RecordFailsTyped
  <2>5. ASSUME NEW result \in {"rejected", "unrecorded"}, Finish(c, result)
        PROVE  Reported
    <3>1. pc'[c] = "return" /\ req'[c].result = result
      BY <1>1, <2>5, RequestOf DEF Finish, Goto, Inv, Base, TypeOK, Request
    <3> QED BY <3>1
  <2> HIDE DEF Reported
  <2>6. CASE RecordCurrent(c)
    BY <2>2, <2>3, <2>4, <2>5, <2>6 DEF RecordCurrent
  <2>7. CASE RecordNew(c)
    BY <2>2, <2>3, <2>4, <2>5, <2>7 DEF RecordNew
  <2> QED BY <2>1, <2>6, <2>7
<1>2. Inv /\ [Next]_vars =>
          [history' # history =>
               /\ \A n \in 1..(HistoryLimit - 1) \cap DOMAIN history :
                      \E m \in {n, n + 1} \cap DOMAIN history' : history'[m] = history[n]
               /\ Len(history') <= HistoryLimit \/ Reported]_vars
  BY <1>1 DEF Keeps
<1> QED BY <1>2, AlwaysInv, PTL DEF Spec, NewestVersionsKept

(* applyStateLocked's report is true whatever fails and whoever else restarts the
   container: after a success files and container are as requested, and "restored"
   means that every file is as it was and the container has read it. *)
THEOREM ReportsAreTrue == Spec => []ReportIsTrue
<1>1. Inv => SuccessIsTrue
  <2> SUFFICES ASSUME Inv, NEW c \in Caller, pc[c] = "return",
                      req[c].result \in {"ok", "unrecorded"}, req[c].op # "preview"
               PROVE  /\ files = NewFiles(req[c]) /\ running = Wanted(req[c])
                      /\ req[c].op = "apply" => files.custom = req[c].old.custom
                      /\ req[c].op = "custom" => files.settings = LoadSettings(req[c].old)
    BY DEF SuccessIsTrue
  <2>1. Activated(req[c]) /\ InProgress(c)
    BY DEF Activated, InProgress
  <2>2. files = NewFiles(req[c]) /\ running = Wanted(req[c]) /\ HalfKept(req[c])
    BY <2>1, Knows DEF FilesKnown, RunningKnown, ChecksKnown
  <2>3. files.settings = req[c].settings /\ files.custom = req[c].custom
    BY <2>2, RequestOf, ReadNewFiles, Knows
  <2> QED BY <2>2, <2>3 DEF HalfKept
<1>2. Inv => RestorationIsTrue
  BY Knows DEF RestorationIsTrue, FilesKnown, RunningKnown, Mended, Activated
<1> QED BY <1>1, <1>2, AlwaysInv, PTL DEF ReportIsTrue

(* After any other refusal nothing has changed, unless a file could not be put
   back or the service control restarted the container meanwhile. *)
THEOREM RefusalsChangeNothing ==
    ASSUME {"control", "restore"} \cap Faults = {}
    PROVE  Spec => []RefusalIsTrue
<1>1. Inv => RefusalIsTrue
  BY Knows DEF RefusalIsTrue, FilesKnown, UndisturbedKnown, Undisturbed, Mended, Activated
<1> QED BY <1>1, AlwaysInv, PTL

(* Between requests the files come from one activation that passed both checks,
   unless the Core ended in the middle of one or a file could not be put back. *)
THEOREM FilesStayTogether ==
    ASSUME {"crash", "restore"} \cap Faults = {}
    PROVE  Spec => []FilesBelongTogether
<1>1. Inv => FilesBelongTogether
  BY DEF Inv, SoundKnown, Sound, FilesBelongTogether
<1> QED BY <1>1, AlwaysInv, PTL

(* A request leaves a container that runs what the files say so, unless it reports
   a failed rollback; nobody else restarting it and every file restorable. *)
THEOREM RunningStaysInForce ==
    ASSUME {"control", "restore"} \cap Faults = {}
    PROVE  Spec => []RunningIsInForce
<1>1. Inv => RunningIsInForce
  <2> SUFFICES ASSUME Inv, NEW c \in Caller, pc[c] = "return",
                      req[c].result # "rollbackFailed", req[c].was = OnDisk(req[c].old)
               PROVE  running = OnDisk(files)
    BY DEF RunningIsInForce
  <2>1. req[c] \in Request /\ files \in Files /\ req[c].result \in Results
    BY RequestOf, Knows
  <2>2. CASE Activated(req[c])
    <3>1. files = NewFiles(req[c]) /\ running = Wanted(req[c])
      BY <2>2, Knows DEF FilesKnown, RunningKnown
    <3> QED BY <2>1, <3>1, ReadNewFiles
  <2>3. CASE ~Activated(req[c])
    <3>1. files = req[c].old
      BY <2>3, Knows DEF FilesKnown, Mended
    <3>2. CASE req[c].result = "restored" /\ req[c].restarted
      BY <3>2, Knows DEF RunningKnown
    <3>3. CASE req[c].result = "restored" => ~req[c].restarted
      BY <2>3, <3>1, <3>3, Knows DEF UndisturbedKnown, Undisturbed
    <3> QED BY <3>2, <3>3
  <2> QED BY <2>2, <2>3
<1> QED BY <1>1, AlwaysInv, PTL

(* A successful activation has recorded the version in force and the one before
   it, as long as the wall clock is not set back (lifecycle.go orders by it). *)
THEOREM BothVersionsStay ==
    ASSUME "clock" \notin Faults
    PROVE  Spec => []BothVersionsRecorded
<1>1. Inv => BothVersionsRecorded
  BY Knows DEF BothVersionsRecorded, HistoryKnown
<1> QED BY <1>1, AlwaysInv, PTL
-----------------------------------------------------------------------------
(* An activation is one atomic step *)

(* Until the resolver is restarted the register has what the request found. *)
Shown(c, verdict) ==
    IF req[c].op # "preview" /\ verdict = "accepted" THEN Wanted(req[c]) ELSE PairOf(req[c].old)

TurnOf(c, verdict) ==
    IF req[c].op = "preview" THEN NoTurn ELSE
    [op |-> req[c].op, wanted |-> Wanted(req[c]), before |-> req[c].was, verdict |-> verdict]

(* What the register looks like while c holds the lock. *)
LEMMA HolderShows ==
    ASSUME NEW c \in Caller, lock = c
    PROVE  InForce = Shown(c, Verdict(c)) /\ Turn = TurnOf(c, Verdict(c))
<1>1. lock # Absent
  OBVIOUS
<1> QED BY <1>1 DEF InForce, Turn, Serving, Shown, TurnOf

(* The files of one activation hold the pair that the resolver reads from them. *)
LEMMA PairOnDisk ==
    ASSUME NEW f, Sound(f)
    PROVE  PairOf(f) = OnDisk(f)
  BY DEF Sound, PairOf, OnDisk, LoadSettings

(* A step of the request c that keeps the lock, seen from the register. *)
LEMMA HolderActs ==
    ASSUME NEW c \in Caller, lock = c, lock' = lock, SameRequest(req'[c], req[c]),
           \/ /\ running' = running
              /\ req[c].op = "preview" \/ Verdict(c)' = Verdict(c)
           \/ /\ req[c].op # "preview" /\ Verdict(c) = "open" /\ Verdict(c)' = "open"
              /\ running' = Wanted(req[c])
           \/ /\ req[c].op # "preview" /\ Verdict(c) = "open" /\ Verdict(c)' = "accepted"
              /\ running' = Wanted(req[c]) /\ Wanted(req[c]) \in LegalPairs
           \/ /\ req[c].op # "preview" /\ Verdict(c) = "open" /\ Verdict(c)' = "refused"
              /\ running' \in {req[c].was, PairOf(req[c].old)}
           \/ /\ req[c].op # "preview" /\ Verdict(c) = "open" /\ Verdict(c)' = "broken"
              /\ running' \in {running, PairOf(req[c].old)}
    PROVE  [Register!Next]_Register!vars
<1> DEFINE v == Verdict(c)
           w == Verdict(c)'
<1>1. InForce = Shown(c, v) /\ Turn = TurnOf(c, v)
  BY HolderShows
<1>2. InForce' = Shown(c, Verdict(c))' /\ Turn' = TurnOf(c, Verdict(c))'
  <2>1. lock' = c /\ lock' # Absent
    OBVIOUS
  <2> QED BY <2>1 DEF InForce, Turn, Serving, Shown, TurnOf
<1>3. /\ req'[c].op = req[c].op /\ Wanted(req'[c]) = Wanted(req[c])
      /\ PairOf(req'[c].old) = PairOf(req[c].old) /\ req'[c].was = req[c].was
  BY DEF SameRequest, Wanted, PairOf, LoadSettings
<1>4. InForce' = Shown(c, w) /\ Turn' = TurnOf(c, w)
  BY <1>2, <1>3 DEF Shown, TurnOf, NoTurn
<1> HIDE DEF v, w
<1>5. CASE req[c].op = "preview" \/ w = v
  <2>1. UNCHANGED <<InForce, Turn>>
    BY <1>1, <1>4, <1>5 DEF Shown, TurnOf
  <2>2. CASE running' = running
    BY <2>1, <2>2 DEF Register!vars
  <2>3. CASE running' = Wanted(req[c]) /\ v = "open" /\ req[c].op # "preview"
    BY <1>1, <2>1, <2>3 DEF TurnOf, Register!Next, Register!Try
  <2> QED BY <1>5, <2>2, <2>3 DEF v, w
<1>6. CASE req[c].op # "preview" /\ w # v
  <2>1. /\ v = "open" /\ w \in {"accepted", "refused", "broken"}
        /\ InForce = PairOf(req[c].old)
        /\ Turn = [op |-> req[c].op, wanted |-> Wanted(req[c]), before |-> req[c].was,
                   verdict |-> "open"]
        /\ Turn' = [Turn EXCEPT !.verdict = w]
    BY <1>1, <1>4, <1>6 DEF v, w, Shown, TurnOf
  <2>2. Register!Decide(w)
    BY <2>1 DEF Register!Decide
  <2>3. w = "accepted" => Register!Accept
    BY <1>4, <1>6, <2>1, <2>2 DEF v, w, Shown, Register!Accept
  <2>4. w = "refused" => Register!Refuse
    BY <1>4, <1>6, <2>1, <2>2 DEF v, w, Shown, Register!Refuse
  <2>5. w = "broken" => Register!Break
    BY <1>4, <1>6, <2>1, <2>2 DEF v, w, Shown, Register!Break
  <2> QED BY <2>1, <2>3, <2>4, <2>5 DEF Register!Next
<1> QED BY <1>5, <1>6

(* The failures under which the register is kept. *)
Quiet == {"crash", "control", "restore"} \cap Faults = {}

(* What the holder knows of its request and of the resolver. *)
LEMMA HolderFacts ==
    ASSUME Quiet, Inv, NEW c \in Caller, InProgress(c)
    PROVE  /\ lock = c /\ Undisturbed /\ Sound(req[c].old)
           /\ PairOf(req[c].old) = OnDisk(req[c].old)
           /\ Wanted(req[c]) \in Settings \X Custom
<1>1. lock = c /\ Undisturbed
  BY DEF Inv, Base, Exclusive, Quiet, Undisturbed
<1>2. Sound(req[c].old)
  BY DEF Inv, SoundKnown, Quiet
<1>3. Wanted(req[c]) \in Settings \X Custom
  BY RequestOf, Knows DEF Wanted
<1> QED BY <1>1, <1>2, <1>3, PairOnDisk

(* A request that goes on before its outcome is decided. *)
LEMMA GoesOnActs ==
    ASSUME Inv, NEW c \in Caller, lock = c, UNCHANGED <<lock, req, running>>,
           NEW point \in Points, point \notin {"return", "recordNew"}, Goto(c, point),
           pc[c] \notin {"return", "recordNew"}
    PROVE  [Register!Next]_Register!vars
<1>1. Goes(c, point, req[c])
  BY OnlyGoes, Knows
<1>2. Verdict(c) = "open" /\ Verdict(c)' = "open"
  BY <1>1 DEF Verdict, Goes
<1> QED BY <1>1, <1>2, HolderActs DEF Goes, SameRequest

(* A request that is refused before anything is written, or a preview's answer. *)
LEMMA AnsweredActs ==
    ASSUME Quiet, Inv, NEW c \in Caller, pc[c] \in {"validate", "record", "writeConfig"},
           NEW result \in {"ok", "rejected"}, Finish(c, result),
           result = "ok" => req[c].op = "preview", UNCHANGED <<running, lock>>
    PROVE  [Register!Next]_Register!vars
<1>1. lock = c /\ running = req[c].was
  BY HolderFacts, Knows DEF InProgress, UndisturbedKnown
<1>2. PICK r \in Request : /\ Goes(c, "return", r) /\ SameRequest(r, req[c])
                           /\ r.result = result
  BY Finishes, Knows DEF Results
<1>3. Verdict(c) = "open" /\ (result = "rejected" => Verdict(c)' = "refused")
  BY <1>2 DEF Verdict, Goes
<1>4. SameRequest(req'[c], req[c])
  BY <1>2 DEF Goes
<1>5. CASE req[c].op = "preview"
  BY <1>1, <1>4, <1>5, HolderActs
<1>6. CASE req[c].op # "preview"
  <2>1. Verdict(c)' = "refused" /\ running' \in {req[c].was, PairOf(req[c].old)}
    BY <1>1, <1>3, <1>6
  <2> QED BY <1>1, <1>3, <1>4, <1>6, <2>1, HolderActs
<1> QED BY <1>5, <1>6

(* A request that begins to put the files back has tried its pair, or has not. *)
LEMMA UndoActs ==
    ASSUME Quiet, Inv, NEW c \in Caller, InProgress(c), pc[c] \notin {"return", "recordNew"},
           NEW names \in Undone, NEW restarted \in BOOLEAN, NEW cancelled \in BOOLEAN,
           NEW result \in Results, Undo(c, names, restarted, cancelled, result),
           UNCHANGED lock,
           running' = running \/ (running' = Wanted(req[c]) /\ req[c].op # "preview")
    PROVE  [Register!Next]_Register!vars
<1>1. lock = c
  BY HolderFacts
<1>2. PICK r \in Request : Goes(c, "undo", r) /\ SameRequest(r, req[c])
  BY BeginsUndo, Knows
<1>3. Verdict(c) = "open" /\ Verdict(c)' = "open" /\ SameRequest(req'[c], req[c])
  BY <1>2 DEF Verdict, Goes
<1>4. CASE running' = running
  BY <1>1, <1>3, <1>4, HolderActs
<1>5. CASE running' = Wanted(req[c]) /\ req[c].op # "preview"
  BY <1>1, <1>3, <1>5, HolderActs
<1> QED BY <1>4, <1>5

(* The restart with the new pair accepts it, or has tried it. *)
LEMMA RestartNewActs ==
    ASSUME Quiet, Inv, NEW c \in Caller, RestartNew(c)
    PROVE  [Register!Next]_Register!vars
<1>1. pc[c] = "restart" /\ UNCHANGED <<files, lock>> /\ InProgress(c)
  BY DEF RestartNew, InProgress
<1>2. /\ files.config = req[c].settings /\ files.custom = req[c].custom
      /\ req[c].op # "preview" /\ req[c].settings \notin Invalid
      /\ Wanted(req[c]) \notin CandidateBad /\ Wanted(req[c]) \notin EffectiveBad
  BY <1>1, Knows DEF FilesKnown, ChecksKnown
<1>3. lock = c /\ req[c].settings \in Settings /\ req[c].custom \in Custom
      /\ req[c].cancelled \in BOOLEAN
  BY <1>1, HolderFacts, RequestOf, Knows
<1>4. OnDisk(files) = Wanted(req[c]) /\ Wanted(req[c]) \in LegalPairs
  <2>1. OnDisk(files) = Wanted(req[c])
    BY <1>2, RequestOf, ReadNewFiles, Knows
  <2> QED BY <1>2, <1>3, <2>1 DEF LegalPairs, Wanted
<1>5. ASSUME running' = OnDisk(files), Goto(c, "recordNew"), UNCHANGED req
      PROVE  [Register!Next]_Register!vars
  <2>1. Goes(c, "recordNew", req[c])
    BY <1>5, OnlyGoes, Knows DEF Points
  <2>2. Verdict(c) = "open" /\ Verdict(c)' = "accepted" /\ SameRequest(req'[c], req[c])
    BY <1>1, <2>1 DEF Verdict, Goes, SameRequest
  <2> QED BY <1>1, <1>2, <1>3, <1>4, <1>5, <2>2, HolderActs
<1>6. ASSUME NEW cancelled \in BOOLEAN, running' \in {running, OnDisk(files)},
             Undo(c, AllFiles, TRUE, cancelled, "restored")
      PROVE  [Register!Next]_Register!vars
  BY <1>1, <1>2, <1>4, <1>6, UndoActs DEF Undone, Results
<1> QED BY <1>3, <1>5, <1>6 DEF RestartNew, RestartContainer

(* The last file is back: without a restart the request has been refused. *)
LEMMA RestoreFileActs ==
    ASSUME Quiet, Inv, NEW c \in Caller, RestoreFile(c)
    PROVE  [Register!Next]_Register!vars
<1>1. /\ pc[c] = "undo" /\ UNCHANGED <<running, lock>> /\ InProgress(c)
      /\ Goto(c, AfterUndo(req[c])) /\ NotesLeft(c, Tail(req[c].undo))
  BY DEF RestoreFile, InProgress, Quiet, NotesLeft
<1>2. /\ lock = c /\ req[c].undo # <<>> /\ req[c].undo \in Undone
      /\ req[c].result \in {"rejected", "restored", "rollbackFailed"}
      /\ ~req[c].restarted => running = req[c].was
  <2>1. req[c].result \in {"rejected", "restored", "rollbackFailed"}
        /\ req[c].undo # <<>>
    BY <1>1, Knows DEF FilesKnown
  <2>2. lock = c /\ (~req[c].restarted => running = req[c].was)
    BY <1>1, HolderFacts, Knows DEF UndisturbedKnown
  <2> QED BY <2>1, <2>2, RequestOf, Knows
<1>3. PICK rest \in Undone : rest = Tail(req[c].undo)
  BY <1>2, UndoneShrinks
<1>4. AfterUndo(req[c]) \in {"undo", "restartOld", "return"}
      /\ (AfterUndo(req[c]) = "return" => ~req[c].restarted)
  BY DEF AfterUndo
<1>5. PICK r \in Request : /\ Goes(c, AfterUndo(req[c]), r) /\ SameRequest(r, req[c])
                           /\ r.result = req[c].result
  BY <1>1, <1>3, <1>4, UndoesOne, Knows DEF Points
<1>6. Verdict(c) = "open" /\ req[c].op # "preview" /\ SameRequest(req'[c], req[c])
  BY <1>1, <1>5, Knows DEF Verdict, ChecksKnown, Goes
<1>7. CASE AfterUndo(req[c]) = "return"
  <2>1. Verdict(c)' = IF req[c].result = "rollbackFailed" THEN "broken" ELSE "refused"
    BY <1>2, <1>5, <1>7 DEF Verdict, Goes
  <2> QED BY <1>1, <1>2, <1>4, <1>6, <1>7, <2>1, HolderActs
<1>8. CASE AfterUndo(req[c]) # "return"
  <2>1. Verdict(c)' = "open"
    BY <1>4, <1>5, <1>8 DEF Verdict, Goes
  <2> QED BY <1>1, <1>2, <1>6, <2>1, HolderActs
<1> QED BY <1>7, <1>8

(* The resolver runs the old pair again, or nobody knows. *)
LEMMA RestartOldActs ==
    ASSUME Quiet, Inv, NEW c \in Caller, RestartOld(c)
    PROVE  [Register!Next]_Register!vars
<1>1. pc[c] = "restartOld" /\ UNCHANGED <<files, lock>> /\ InProgress(c)
  BY DEF RestartOld, InProgress
<1>2. /\ lock = c /\ req[c].result \in {"restored", "rollbackFailed"}
      /\ req[c].op # "preview" /\ OnDisk(files) = PairOf(req[c].old)
  <2>1. /\ req[c].result \in {"restored", "rollbackFailed"} /\ req[c].op # "preview"
        /\ files = req[c].old
    BY <1>1, Knows DEF FilesKnown, ChecksKnown, Mended, Quiet
  <2> QED BY <1>1, <2>1, HolderFacts
<1>3. ASSUME NEW result \in {"restored", "rollbackFailed"}, Finish(c, result),
             running' \in {running, OnDisk(files)},
             result = "restored" => running' = OnDisk(files)
      PROVE  [Register!Next]_Register!vars
  <2>1. PICK r \in Request : /\ Goes(c, "return", r) /\ SameRequest(r, req[c])
                             /\ r.result = result
    BY <1>3, Finishes, Knows DEF Results
  <2>2. /\ Verdict(c) = "open" /\ SameRequest(req'[c], req[c])
        /\ Verdict(c)' = IF result = "restored" THEN "refused" ELSE "broken"
    BY <1>1, <2>1 DEF Verdict, Goes
  <2> QED BY <1>1, <1>2, <1>3, <2>2, HolderActs
<1>4. CASE running' = OnDisk(files) /\ Finish(c, req[c].result)
  BY <1>2, <1>3, <1>4
<1>5. CASE running' \in {running, OnDisk(files)} /\ Finish(c, "rollbackFailed")
  BY <1>3, <1>5
<1> QED BY <1>4, <1>5 DEF RestartOld, RestartContainer

(* What becomes of the history does not matter to the register. *)
LEMMA RecordNewActs ==
    ASSUME Quiet, Inv, NEW c \in Caller, RecordNew(c)
    PROVE  [Register!Next]_Register!vars
<1>1. pc[c] = "recordNew" /\ UNCHANGED <<running, lock>> /\ InProgress(c)
  BY DEF RecordNew, InProgress
<1>2. PICK result \in {"ok", "unrecorded"} : Finish(c, result)
  BY DEF RecordNew
<1>3. PICK r \in Request : /\ Goes(c, "return", r) /\ SameRequest(r, req[c])
                           /\ r.result = result
  BY <1>2, Finishes, Knows DEF Results
<1>4. Verdict(c) = "accepted" /\ Verdict(c)' = "accepted" /\ SameRequest(req'[c], req[c])
  BY <1>1, <1>3 DEF Verdict, Goes
<1> QED BY <1>1, <1>4, HolderActs, HolderFacts

(* A turn begins with the half that is in force, a preview begins none. *)
LEMMA AcquireActs ==
    ASSUME Quiet, Inv, NEW c \in Caller, Acquire(c)
    PROVE  [Register!Next]_Register!vars
<1>1. /\ pc[c] = "waiting" /\ lock = Absent /\ lock' = c /\ lock' # Absent
      /\ Goto(c, "validate") /\ UNCHANGED <<files, running>>
  BY DEF Acquire
<1>2. PICK q \in Request : q = req[c]
  BY RequestOf, Knows
<1>3. PICK s \in Settings : s = IF q.op \in {"custom", "preview"} THEN LoadSettings(files)
                                                                ELSE q.settings
  BY RequestOf, ReadSettings, Knows, <1>2
<1>4. PICK t \in Custom : t = IF q.op = "apply" THEN files.custom ELSE q.custom
  BY RequestOf, Knows, <1>2 DEF Files
<1>5. PICK f \in Files, w \in Loaded : f = files /\ w = running
  BY RequestOf, Knows
<1> DEFINE r == [q EXCEPT !.settings = s, !.custom = t, !.old = f, !.was = w]
<1>6. req' = [req EXCEPT ![c] = r]
  BY <1>2, <1>3, <1>4, <1>5, Zenon DEF Acquire
<1>7. /\ r \in Request /\ r.op = q.op /\ r.settings = s /\ r.custom = t /\ r.old = f
      /\ r.was = w
  BY DEF Request
<1> HIDE DEF r
<1>8. pc'[c] = "validate" /\ req'[c] = r
  BY <1>1, <1>6, <1>7, BothGo, Knows DEF Points, Goes
<1>9. InForce = PairOf(files) /\ Turn = NoTurn
  BY <1>1 DEF InForce, Turn, Serving
<1>10. InForce' = PairOf(files)
  BY <1>1, <1>5, <1>7, <1>8 DEF InForce, Serving, Verdict
<1>11. CASE q.op = "preview"
  <2>1. Turn' = NoTurn
    BY <1>1, <1>7, <1>8, <1>11 DEF Turn, Serving, NoTurn
  <2> QED BY <1>1, <1>9, <1>10, <2>1 DEF Register!vars
<1>12. CASE q.op # "preview"
  <2>1. Turn' = [op |-> q.op, wanted |-> <<s, t>>, before |-> running, verdict |-> "open"]
    BY <1>1, <1>5, <1>7, <1>8, <1>12 DEF Turn, Serving, Verdict, Wanted
  <2>2. <<s, t>> = Register!Requested(q.op, q.settings, q.custom)
    BY <1>3, <1>4, <1>9, <1>12 DEF Register!Requested, PairOf
  <2>3. q.op \in Register!Operations /\ q.settings \in Settings /\ q.custom \in Custom
    BY <1>12 DEF Request, Operations, Register!Operations
  <2>4. Register!Begin(q.op, q.settings, q.custom)
    BY <1>1, <1>9, <1>10, <2>1, <2>2 DEF Register!Begin, NoTurn
  <2> QED BY <2>3, <2>4 DEF Register!Next
<1> QED BY <1>11, <1>12

(* When a turn ends, the files hold what the register says. *)
LEMMA ReturnActs ==
    ASSUME Quiet, Inv, NEW c \in Caller, Return(c)
    PROVE  [Register!Next]_Register!vars
<1>1. /\ pc[c] = "return" /\ lock' = Absent /\ UNCHANGED <<files, running>> /\ InProgress(c)
  BY DEF Return, InProgress
<1>2. lock = c /\ PairOf(req[c].old) = OnDisk(req[c].old) /\ req[c].result \in Results
  BY <1>1, HolderFacts, RequestOf, Knows
<1>3. /\ req[c].result # "none" /\ (req[c].result = "unrecorded" => req[c].op # "preview")
      /\ files = IF Activated(req[c]) THEN NewFiles(req[c]) ELSE req[c].old
  BY <1>1, Knows DEF FilesKnown, Mended, Quiet
<1>4. PairOf(NewFiles(req[c])) = Wanted(req[c])
  BY RequestOf, Knows DEF PairOf, NewFiles, LoadSettings, Wanted
<1>5. Activated(req[c]) <=> req[c].op # "preview" /\ Verdict(c) = "accepted"
  BY <1>1 DEF Activated, Verdict
<1>6. InForce = PairOf(files) /\ Turn = TurnOf(c, Verdict(c))
  BY <1>2, <1>3, <1>4, <1>5, HolderShows DEF Shown
<1>7. InForce' = PairOf(files) /\ Turn' = NoTurn
  BY <1>1 DEF InForce, Turn, Serving, NoTurn
<1>8. CASE req[c].op = "preview"
  BY <1>1, <1>6, <1>7, <1>8 DEF TurnOf, Register!vars
<1>9. CASE req[c].op # "preview"
  <2>1. Turn.verdict \in {"accepted", "refused", "broken"}
    BY <1>1, <1>6, <1>9 DEF TurnOf, Verdict
  <2> QED BY <1>1, <1>6, <1>7, <2>1 DEF Register!Next, Register!End, NoTurn, Register!NoTurn
<1> QED BY <1>8, <1>9

(* Steps on the way to the outcome. *)
LEMMA OnTheWayActs ==
    ASSUME Quiet, Inv, NEW c \in Caller,
           \/ Validate(c) \/ RecordCurrent(c) \/ WriteConfig(c) \/ WriteSettings(c)
           \/ WriteCustom(c) \/ CheckEffective(c)
    PROVE  [Register!Next]_Register!vars
<1>1. /\ UNCHANGED <<running, lock>> /\ InProgress(c)
      /\ pc[c] \in {"validate", "record", "writeConfig", "writeSettings", "writeCustom",
                    "effective"}
  BY DEF Validate, RecordCurrent, WriteConfig, WriteSettings, WriteCustom, CheckEffective,
         InProgress
<1>2. lock = c /\ req[c].cancelled \in BOOLEAN
  BY <1>1, HolderFacts, RequestOf, Knows
<1>3. ASSUME NEW point \in Points \ {"return", "recordNew"}, Goto(c, point), UNCHANGED req
      PROVE  [Register!Next]_Register!vars
  BY <1>1, <1>2, <1>3, GoesOnActs
<1>4. ASSUME NEW names \in Undone, NEW result \in Results,
             Undo(c, names, FALSE, req[c].cancelled, result)
      PROVE  [Register!Next]_Register!vars
  <2>1. PICK cancelled \in BOOLEAN : Undo(c, names, FALSE, cancelled, result)
    BY <1>2, <1>4
  <2>2. pc[c] \notin {"return", "recordNew"} /\ running' = running
    BY <1>1
  <2> QED BY <1>1, <1>4, <2>1, <2>2, UndoActs
<1>5. CASE Validate(c) \/ RecordCurrent(c) \/ WriteConfig(c)
  <2>1. pc[c] \in {"validate", "record", "writeConfig"}
    BY <1>5 DEF Validate, RecordCurrent, WriteConfig
  <2>2. \/ \E point \in {"record", "writeConfig", "writeSettings"} :
              Goto(c, point) /\ UNCHANGED req
        \/ Finish(c, "rejected")
        \/ Finish(c, "ok") /\ req[c].op = "preview"
    BY <1>5 DEF Validate, RecordCurrent, WriteConfig
  <2> QED BY <1>1, <1>3, <2>1, <2>2, AnsweredActs DEF Points
<1>6. CASE WriteSettings(c) \/ WriteCustom(c) \/ CheckEffective(c)
  <2>1. \/ \E point \in {"writeCustom", "effective", "restart"} :
              Goto(c, point) /\ UNCHANGED req
        \/ \E names \in {<<"config">>, <<"config", "settings">>, AllFiles},
              result \in {"rejected", "restored"} :
              Undo(c, names, FALSE, req[c].cancelled, result)
    BY <1>6 DEF WriteSettings, WriteCustom, CheckEffective
  <2> QED BY <1>3, <1>4, <2>1 DEF Points, Undone, Results
<1> QED BY <1>5, <1>6

(* Requests that wait, and callers that go away, are not seen in the register. *)
LEMMA WaitingActs ==
    ASSUME Quiet, Inv, NEW c \in Caller,
           \/ SubmitApply(c) \/ SubmitCustom(c) \/ SubmitPreview(c) \/ SubmitRestore(c)
           \/ Cancel(c)
    PROVE  [Register!Next]_Register!vars
<1>1. /\ UNCHANGED <<files, running, lock>>
      /\ \A d \in Caller : InProgress(d) =>
             /\ pc'[d] = pc[d] /\ req'[d].result = req[d].result
             /\ SameRequest(req'[d], req[d])
  <2>1. CASE Cancel(c)
    <3>1. PICK q \in Request : q = req[c]
      BY RequestOf, Knows
    <3> DEFINE r == [q EXCEPT !.cancelled = TRUE]
    <3>2. r.result = q.result /\ SameRequest(r, q) /\ r \in Request
      BY DEF Request, SameRequest
    <3>3. req' = [req EXCEPT ![c] = [req[c] EXCEPT !.cancelled = TRUE]]
      BY <2>1, Knows DEF Cancel, TypeOK, Request
    <3>4. req' = [req EXCEPT ![c] = r]
      BY <3>1, <3>3, Zenon
    <3> HIDE DEF r
    <3>5. \A d \in Caller : req'[d] = IF d = c THEN r ELSE req[d]
      BY <3>4, Knows DEF TypeOK
    <3> QED BY <2>1, <3>1, <3>2, <3>5 DEF Cancel, SameRequest
  <2>2. CASE ~Cancel(c)
    <3>1. PICK op, s, t : Submit(c, op, s, t)
      BY <2>2 DEF SubmitApply, SubmitCustom, SubmitPreview, SubmitRestore
    <3>2. pc[c] = "idle" /\ UNCHANGED <<files, running, lock>>
      BY <3>1 DEF Submit
    <3>3. \A d \in Caller : d # c => pc'[d] = pc[d] /\ req'[d] = req[d]
      BY <3>1, Knows DEF Submit, Goto, TypeOK
    <3> QED BY <3>2, <3>3 DEF InProgress, SameRequest
  <2> QED BY <2>1, <2>2
<1>2. CASE lock = Absent
  <2>1. UNCHANGED <<InForce, Turn>>
    BY <1>1, <1>2 DEF InForce, Turn, Serving, PairOf, LoadSettings, NoTurn
  <2> QED BY <1>1, <2>1 DEF Register!vars
<1>3. ASSUME NEW d \in Caller, lock = d PROVE [Register!Next]_Register!vars
  <2>1. InProgress(d)
    BY <1>3 DEF Inv, Base, Exclusive
  <2>2. Verdict(d)' = Verdict(d)
    BY <1>1, <2>1 DEF Verdict
  <2> QED BY <1>1, <1>3, <2>1, <2>2, HolderActs
<1> QED BY <1>2, <1>3, Knows DEF TypeOK

(* Every step of the manager is a step of the register or leaves it alone. *)
LEMMA StepActs ==
    ASSUME Quiet, Inv, [Next]_vars
    PROVE  [Register!Next]_Register!vars
<1>1. CASE UNCHANGED vars
  <2>1. UNCHANGED <<files, running, history, lock, pc, req>>
    BY <1>1 DEF vars
  <2>2. UNCHANGED <<InForce, Turn, running>>
    BY <2>1 DEF InForce, Turn, Serving, PairOf, LoadSettings, NoTurn, Verdict, Wanted
  <2> QED BY <2>2 DEF Register!vars
<1>2. ASSUME NEW c \in Caller, Step(c) PROVE [Register!Next]_Register!vars
  BY <1>2, AcquireActs, OnTheWayActs, RestartNewActs, RestoreFileActs, RestartOldActs,
     RecordNewActs, ReturnActs DEF Step
<1>3. ASSUME NEW c \in Caller,
             \/ SubmitApply(c) \/ SubmitCustom(c) \/ SubmitPreview(c) \/ SubmitRestore(c)
             \/ Cancel(c)
      PROVE  [Register!Next]_Register!vars
  BY <1>3, WaitingActs
<1>4. ~Crash /\ ~ControlRestart
  BY DEF Quiet, Crash, ControlRestart
<1> QED BY <1>1, <1>2, <1>3, <1>4 DEF Next

(* Apply, ApplyCustom and Restore are one atomic step on the pair in force: under
   applyMu no request sees half of another one's, and a refusal leaves no trace,
   whatever commands, writes and callers fail; for as long as the Core does not end
   in the middle of one, no file resists being put back and nobody else restarts
   the container. *)
THEOREM ActivationsAreAtomic ==
    ASSUME {"crash", "control", "restore"} \cap Faults = {}
    PROVE  Spec => ActivationIsAtomic
<1>1. Init => Register!Init
  BY DEF Init, Register!Init, InForce, Turn, Serving, PairOf, LoadSettings, NoTurn,
         Register!NoTurn
<1>2. Inv /\ [Next]_vars => [Register!Next]_Register!vars
  BY StepActs DEF Quiet
<1> QED BY <1>1, <1>2, AlwaysInv, PTL DEF Spec, ActivationIsAtomic, Register!Spec

=============================================================================
