------------------------ MODULE GuidedSettingsProofs ------------------------
(***************************************************************************)
(* Proofs about GuidedSettings for every set of documents, texts, names,   *)
(* limits and habits: what one activation has written is what the next     *)
(* reading, comparison and restoration find.                               *)
(***************************************************************************)
EXTENDS GuidedSettings, SequenceTheorems, TLAPS

(* The names of the numbers, without their bounds. *)
LEMMA NumberNames ==
    Numbers = {"edns_buffer_size", "log_verbosity", "serve_expired_ttl",
               "serve_expired_client_timeout", "cache_min_ttl", "cache_max_ttl", "threads"}
BY SMT DEF Numbers, Bounds

LEMMA TtlIsNotZero ==
    ASSUME NEW s, Valid(s)
    PROVE  s["serve_expired_ttl"] # 0
<1>1. Bounds["serve_expired_ttl"] = 3600..Week
  BY SMT DEF Bounds
<1>2. s["serve_expired_ttl"] \in Bounds["serve_expired_ttl"]
  BY NumberNames DEF Valid
<1> QED BY <1>1, <1>2, SMT

LEMMA DefaultReverseZones == DefaultSettings["reverse_zones"] = DefaultReverse
<1>1. DefaultSettings.reverse_zones = DefaultReverse
  BY SMT DEF DefaultSettings
<1> QED BY <1>1, SMT

(* Settings with a value for every field, as Decoded and Loaded return them. *)
Complete(s) == s = [f \in Field |-> s[f]]

LEMMA DecodedIsComplete ==
    ASSUME NEW document
    PROVE  Complete(Decoded(document))
BY DEF Complete, Decoded

LEMMA DefaultIsComplete == Complete(DefaultSettings)
BY NumberNames, SMT DEF Complete, DefaultSettings, Field, Flags, Lists

LEMMA LoadedIsComplete ==
    ASSUME NEW document
    PROVE  Complete(Loaded(document))
<1>1. CASE document = None
  BY <1>1, DefaultIsComplete DEF Loaded
<1>2. CASE document # None
  BY <1>2 DEF Complete, Loaded
<1> QED BY <1>1, <1>2

(* Decoding complete settings changes nothing. *)
LEMMA DecodedComplete ==
    ASSUME NEW s, Complete(s)
    PROVE  Decoded(s) = s
<1>1. DOMAIN s = Field
  BY DEF Complete
<1>2. Decoded(s) = [f \in Field |-> s[f]]
  BY <1>1 DEF Decoded
<1> QED BY <1>2 DEF Complete

-----------------------------------------------------------------------------
(* What is rendered depends on the fields as they are compared *)

LEMMA EqualFieldsRenderEqual ==
    ASSUME NEW s, NEW t, \A f \in Field \ Lists : s[f] = t[f],
           \A f \in Lists : Items(s[f]) = Items(t[f])
    PROVE  Rendered(s) = Rendered(t)
<1>1. \A f \in Flags \cup Numbers : s[f] = t[f]
  BY NumberNames DEF Field, Flags, Lists
<1>2. s["resource_profile"] = t["resource_profile"] /\ s["network_mode"] = t["network_mode"]
  BY DEF Field, Lists
<1>3. /\ Items(s["forward_zones"]) = Items(t["forward_zones"])
      /\ Items(s["private_domains"]) = Items(t["private_domains"])
      /\ Items(s["reverse_zones"]) = Items(t["reverse_zones"])
  BY DEF Lists
<1>4. [f \in Flags \cup Numbers |-> s[f]] = [f \in Flags \cup Numbers |-> t[f]]
  BY <1>1
<1> QED BY <1>2, <1>3, <1>4 DEF Rendered

(* Valid settings that were activated read back as they are, but for null lists:
   those are empty, and the default for the reverse zones. *)
LEMMA ReadBack ==
    ASSUME NEW s, s # None, Complete(s), Valid(s)
    PROVE  /\ \A f \in Field \ Lists : Loaded(s)[f] = s[f]
           /\ \A f \in Lists \ {"reverse_zones"} : Items(Loaded(s)[f]) = Items(s[f])
           /\ s["reverse_zones"] # Null => Loaded(s)["reverse_zones"] = s["reverse_zones"]
           /\ s["reverse_zones"] = Null => Loaded(s)["reverse_zones"] = DefaultReverse
<1>1. DOMAIN s = Field /\ Decoded(s) = s
  BY DecodedComplete DEF Complete
<1>2. \A f \in Field : Loaded(s)[f] =
          IF f \in FilledWhenZero /\ s[f] = Zero[f] THEN DefaultSettings[f]
          ELSE IF f \in Lists /\ s[f] = Null THEN <<>> ELSE s[f]
  BY <1>1 DEF Loaded
<1>3. /\ s["network_mode"] # "" /\ s["resource_profile"] # ""
      /\ s["serve_expired_ttl"] # 0
  BY TtlIsNotZero DEF Valid, Profile, Mode
<1>4. /\ Zero["network_mode"] = "" /\ Zero["resource_profile"] = ""
      /\ Zero["serve_expired_ttl"] = 0 /\ Zero["reverse_zones"] = Null
  BY NumberNames DEF Zero, Field, Flags, Lists
<1>5. DefaultSettings["reverse_zones"] = DefaultReverse
  BY DefaultReverseZones
<1>6. \A f \in FilledWhenZero \ {"reverse_zones"} : s[f] # Zero[f]
  BY <1>3, <1>4 DEF FilledWhenZero
<1>7. ASSUME NEW f \in Field \ Lists PROVE Loaded(s)[f] = s[f]
  BY <1>2, <1>6, <1>7 DEF Lists
<1>8. ASSUME NEW f \in Lists \ {"reverse_zones"} PROVE Items(Loaded(s)[f]) = Items(s[f])
  BY <1>2, <1>8 DEF Lists, Field, FilledWhenZero, Items
<1>9. "reverse_zones" \in Field /\ "reverse_zones" \in FilledWhenZero /\ "reverse_zones" \in Lists
  BY DEF Field, Lists, FilledWhenZero
<1>10. /\ s["reverse_zones"] # Null => Loaded(s)["reverse_zones"] = s["reverse_zones"]
       /\ s["reverse_zones"] = Null => Loaded(s)["reverse_zones"] = DefaultReverse
  BY <1>2, <1>4, <1>5, <1>9
<1> QED BY <1>7, <1>8, <1>10

LEMMA ReadBackRendersEqual ==
    ASSUME NEW s, s # None, Complete(s), Valid(s), s["reverse_zones"] # Null
    PROVE  Rendered(Loaded(s)) = Rendered(s)
<1>1. \A f \in Lists : Items(Loaded(s)[f]) = Items(s[f])
  BY ReadBack DEF Lists
<1> QED BY <1>1, ReadBack, EqualFieldsRenderEqual

LEMMA ReadBackIsValid ==
    ASSUME NEW s, s # None, Complete(s), Valid(s)
    PROVE  Valid(Loaded(s))
<1> DEFINE t == Loaded(s)
<1>1. \A f \in Numbers \cup {"resource_profile", "network_mode"} : t[f] = s[f]
  BY ReadBack, NumberNames DEF Field, Lists
<1>2. /\ Items(t["forward_zones"]) = Items(s["forward_zones"])
      /\ Items(t["private_domains"]) = Items(s["private_domains"])
  BY ReadBack DEF Lists
<1>3. ValidPolicies(Items(t["reverse_zones"]))
  <2>2. ValidPolicies(Items(DefaultReverse))
    BY DefaultReverseZones, DefaultAssumption DEF Valid
  <2>3. ValidPolicies(Items(s["reverse_zones"]))
    BY DEF Valid
  <2> QED BY <2>2, <2>3, ReadBack
<1>4. t["cache_min_ttl"] = s["cache_min_ttl"] /\ t["cache_max_ttl"] = s["cache_max_ttl"]
  BY <1>1, NumberNames
<1> HIDE DEF t
<1>5. Valid(t)
  BY <1>1, <1>2, <1>3, <1>4 DEF Valid
<1> QED BY <1>5 DEF t


-----------------------------------------------------------------------------
(* Types: decoding and reading back lead to nothing new *)

LEMMA NormalizedTwice ==
    ASSUME NEW text \in Text \cup {NoText}
    PROVE  /\ Normalized(text) =
                 [directives |-> text.directives, length |-> text.length,
                  tail |-> IF text.length > 0 THEN 1 ELSE 0]
           /\ Normalized(Normalized(text)) = Normalized(text)
           /\ Normalized(NoText) = NoText
<1>1. text = [directives |-> text.directives, length |-> text.length, tail |-> text.tail]
  BY TextAssumption DEF NoText
<1>2. Normalized(text) = [directives |-> text.directives, length |-> text.length,
                          tail |-> IF text.length > 0 THEN 1 ELSE 0]
  BY <1>1 DEF Normalized
<1>3. Normalized(NoText) = NoText
  BY DEF Normalized, NoText
<1>4. Normalized(Normalized(text)) = Normalized(text)
  BY <1>2 DEF Normalized
<1> QED BY <1>2, <1>3, <1>4

(* What has been loaded loads as it is. *)
LEMMA LoadedTwice ==
    ASSUME NEW document, Loaded(document) # None
    PROVE  Loaded(Loaded(document)) = Loaded(document)
<1> DEFINE s == Loaded(document)
<1>0. Complete(s)
  BY LoadedIsComplete
<1>1. DOMAIN s = Field /\ Decoded(s) = s
  BY <1>0, DecodedComplete DEF Complete
<1>2. Loaded(s) = [f \in Field |->
          IF f \in FilledWhenZero /\ s[f] = Zero[f] THEN DefaultSettings[f]
          ELSE IF f \in Lists /\ s[f] = Null THEN <<>> ELSE s[f]]
  BY <1>1 DEF Loaded
<1>3. ASSUME NEW f \in Field
      PROVE  /\ f \in FilledWhenZero /\ s[f] = Zero[f] => s[f] = DefaultSettings[f]
             /\ f \in Lists \ FilledWhenZero /\ s[f] = Null => s[f] = <<>>
             /\ f = "reverse_zones" => s[f] # Null
  <2>1. CASE document = None
    <3>1. s = DefaultSettings
      BY <2>1 DEF Loaded
    <3>2. DefaultSettings.forward_zones = <<>> /\ DefaultSettings.private_domains = <<>>
      BY SMT DEF DefaultSettings
    <3>3. DefaultSettings["forward_zones"] = <<>> /\ DefaultSettings["private_domains"] = <<>>
      BY <3>2, SMT
    <3>4. f \in Lists \ FilledWhenZero => f \in {"forward_zones", "private_domains"}
      BY DEF Lists, FilledWhenZero
    <3>5. f = "reverse_zones" => s[f] # Null
      BY <3>1, DefaultReverseZones, DefaultAssumption
    <3> HIDE DEF s
    <3> QED BY <3>1, <3>3, <3>4, <3>5
  <2>2. CASE document # None
    <3> DEFINE d == Decoded(document)
    <3>1. s[f] = IF \/ f \in FilledWhenZero /\ d[f] = Zero[f]
                    \/ f \in FilledWhenAbsent /\ f \notin DOMAIN document
                 THEN DefaultSettings[f]
                 ELSE IF f \in Lists /\ d[f] = Null THEN <<>> ELSE d[f]
      BY <2>2 DEF Loaded
    <3>2. f \in Lists => f \notin FilledWhenAbsent
      BY DEF Lists, FilledWhenAbsent
    <3>3. f = "reverse_zones" =>
              f \in FilledWhenZero /\ Zero[f] = Null /\ DefaultSettings[f] # Null
      BY NumberNames, DefaultReverseZones, DefaultAssumption
         DEF FilledWhenZero, Zero, Field, Flags, Lists
    <3>4. f \in Lists /\ f # "reverse_zones" => f \notin FilledWhenZero
      BY DEF Lists, FilledWhenZero
    <3>5. f \in FilledWhenZero => f \notin FilledWhenAbsent
      BY DEF FilledWhenAbsent, FilledWhenZero
    <3>6. f = "reverse_zones" => f \in Lists
      BY DEF Lists
    <3> HIDE DEF s, d
    <3> QED BY <3>1, <3>2, <3>3, <3>4, <3>5, <3>6
  <2> QED BY <2>1, <2>2
<1>4. \A f \in Field : Loaded(s)[f] = s[f]
  <2>1. "reverse_zones" \in FilledWhenZero /\ \A f \in Lists : f \in FilledWhenZero => f = "reverse_zones"
    BY DEF FilledWhenZero, Lists
  <2> HIDE DEF s
  <2> QED BY <1>2, <1>3, <2>1
<1>5. Complete(Loaded(s))
  BY LoadedIsComplete
<1> HIDE DEF s
<1>6. Loaded(s) = s
  BY <1>0, <1>4, <1>5 DEF Complete
<1> QED BY <1>6 DEF s

LEMMA KnownIsClosed ==
    /\ \A s \in Known : Complete(s) /\ s # None /\ Decoded(s) = s /\ Loaded(s) \in Known
    /\ \A d \in OldDocument : d # None /\ Decoded(d) \in Known /\ Loaded(d) \in Known
    /\ \A d \in Document : Decoded(d) \in Known
    /\ Loaded(None) \in Known
<1>1. ASSUME NEW s \in Known PROVE Complete(s) /\ s # None /\ Decoded(s) = s /\ Loaded(s) \in Known
  <2>1. Complete(s)
    BY DecodedIsComplete, LoadedIsComplete DEF Known
  <2>2. s # None
    BY NoneAssumption
  <2>3. Loaded(s) \in Known
    <3>1. CASE \E d \in Received : s = Decoded(d)
      BY <3>1 DEF Known
    <3>2. CASE \E d : s = Loaded(d)
      BY <2>2, <3>2, LoadedTwice
    <3> QED BY <3>1, <3>2 DEF Known
  <2> QED BY <2>1, <2>2, <2>3, DecodedComplete
<1>2. \A d \in OldDocument : d # None /\ Decoded(d) \in Known /\ Loaded(d) \in Known
  BY NoneAssumption DEF Known, Received
<1> QED BY <1>1, <1>2 DEF Known, Received

(* The history after recording: the versions that were there, and the new one. *)
LEMMA RecordedVersions ==
    ASSUME NEW S, NEW history \in Seq(S), Len(history) <= MaxVersions, NEW version \in S
    PROVE  /\ Recorded(history, version) \in Seq(S)
           /\ Len(Recorded(history, version)) <= MaxVersions
           /\ \A n \in DOMAIN Recorded(history, version) :
                  \/ Recorded(history, version)[n] = version
                  \/ \E m \in DOMAIN history : Recorded(history, version)[n] = history[m]
<1>0. MaxVersions \in Nat /\ MaxVersions > 0
  BY LimitAssumption
<1> DEFINE longer == <<version>> \o history
           cut == IF Len(longer) < MaxVersions THEN Len(longer) ELSE MaxVersions
<1>1. longer \in Seq(S) /\ Len(longer) = Len(history) + 1
  OBVIOUS
<1>2. \A n \in 1..Len(longer) :
          longer[n] = version \/ \E m \in DOMAIN history : longer[n] = history[m]
  <2> SUFFICES ASSUME NEW n \in 1..Len(longer)
               PROVE  longer[n] = version \/ \E m \in DOMAIN history : longer[n] = history[m]
    OBVIOUS
  <2>1. n = 1 => longer[n] = version
    OBVIOUS
  <2>2. n # 1 => n - 1 \in DOMAIN history /\ longer[n] = history[n - 1]
    OBVIOUS
  <2> QED BY <2>1, <2>2
<1> HIDE DEF longer
<1>3. cut \in 1..Len(longer) /\ cut <= MaxVersions
  BY <1>0, <1>1
<1> HIDE DEF cut
<1>4. /\ SubSeq(longer, 1, cut) \in Seq(S) /\ Len(SubSeq(longer, 1, cut)) = cut
      /\ \A n \in DOMAIN SubSeq(longer, 1, cut) :
             n \in 1..Len(longer) /\ SubSeq(longer, 1, cut)[n] = longer[n]
  BY <1>1, <1>3
<1>5. Recorded(history, version) \in {history, SubSeq(longer, 1, cut)}
  BY DEF Recorded, longer, cut
<1> QED BY <1>2, <1>3, <1>4, <1>5


Custom == {NoText} \cup {Normalized(text) : text \in Text}

LEMMA CustomIsNormalized ==
    ASSUME NEW text \in Custom
    PROVE  Normalized(text) = text
BY NormalizedTwice DEF Custom

(* The version of what is on disk. *)
LEMMA CurrentType ==
    ASSUME TypeOK
    PROVE  /\ Loaded(file) \in Known /\ Current \in Version
           /\ custom \in Custom /\ versions \in Seq(Version)
<1>1. Loaded(file) \in Known
  BY KnownIsClosed DEF TypeOK, Version
<1>2. custom \in Custom /\ versions \in Seq(Version)
  BY DEF TypeOK, Version, Custom
<1>3. config = None \/ config \in {Earlier} \cup {Rendered(s) : s \in Known}
  BY DEF TypeOK, Version
<1> QED BY <1>1, <1>2, <1>3 DEF Current, Version, Custom

(* Every activation is of known settings and a text that is normalised by then. *)
LEMMA Activations ==
    ASSUME TypeOK, Next
    PROVE  \E s \in Known : \E text :
               /\ Activate(s, text) /\ Normalized(text) \in Custom
               /\ \/ \E document \in Document :
                        /\ s = Decoded(document) /\ text = custom
                        /\ "null" \in habits \/ s["reverse_zones"] # Null
                  \/ s = Loaded(file) /\ Normalized(text) = text
                  \/ \E n \in DOMAIN versions :
                        s = Decoded(versions[n].settings) /\ text = versions[n].custom
<1>0. versions \in Seq(Version)
  BY DEF TypeOK
<1>1. ASSUME NEW document \in Document, Apply(document)
      PROVE  /\ Decoded(document) \in Known /\ Activate(Decoded(document), custom)
             /\ Normalized(custom) \in Custom
             /\ "null" \in habits \/ Decoded(document)["reverse_zones"] # Null
  BY <1>1, CurrentType, CustomIsNormalized, KnownIsClosed DEF Apply
<1>2. ASSUME NEW text \in Text, ApplyCustom(text)
      PROVE  /\ Loaded(file) \in Known /\ Activate(Loaded(file), Normalized(text))
             /\ Normalized(Normalized(text)) = Normalized(text) /\ Normalized(text) \in Custom
  BY <1>2, CurrentType, NormalizedTwice DEF ApplyCustom, Custom
<1>3. ASSUME NEW n \in DOMAIN versions, Restore(versions[n])
      PROVE  /\ Decoded(versions[n].settings) \in Known
             /\ Activate(Decoded(versions[n].settings), versions[n].custom)
             /\ Normalized(versions[n].custom) \in Custom
  <2>1. versions[n] \in Version
    BY <1>0
  <2>2. versions[n].settings \in Known \cup OldDocument /\ versions[n].custom \in Custom
    BY <2>1 DEF Version, Custom
  <2> QED BY <1>3, <2>2, CustomIsNormalized, KnownIsClosed DEF Restore
<1>4. \/ \E document \in Document : Apply(document)
      \/ \E text \in Text : ApplyCustom(text)
      \/ \E n \in DOMAIN versions : Restore(versions[n])
  BY DEF Next, Values
<1>5. CASE \E document \in Document : Apply(document)
  BY <1>1, <1>5
<1>6. CASE \E text \in Text : ApplyCustom(text)
  BY <1>2, <1>6
<1>7. CASE \E n \in DOMAIN versions : Restore(versions[n])
  BY <1>3, <1>7
<1> QED BY <1>4, <1>5, <1>6, <1>7

(* What an activation records: the current version, and the new one if it is
   carried out. *)
LEMMA ActivationRecords ==
    ASSUME TypeOK, NEW s \in Known, NEW text, Normalized(text) \in Custom, Activate(s, text)
    PROVE  /\ versions' \in Seq(Version) /\ Len(versions') <= MaxVersions
           /\ \A n \in DOMAIN versions' :
                  \/ \E m \in DOMAIN versions : versions'[n] = versions[m]
                  \/ versions'[n] = Current
                  \/ versions'[n] = [settings |-> s, config |-> Rendered(s),
                                     custom |-> Normalized(text)]
<1> DEFINE new == [settings |-> s, config |-> Rendered(s), custom |-> Normalized(text)]
           once == Recorded(versions, Current)
<1>1. new \in Version
  BY DEF Version, Custom
<1>2. Current \in Version /\ versions \in Seq(Version) /\ Len(versions) <= MaxVersions
  BY CurrentType DEF TypeOK
<1> HIDE DEF new
<1>3. /\ once \in Seq(Version) /\ Len(once) <= MaxVersions
      /\ \A n \in DOMAIN once :
             once[n] = Current \/ \E m \in DOMAIN versions : once[n] = versions[m]
  BY <1>2, RecordedVersions
<1> HIDE DEF once
<1>4. /\ Recorded(once, new) \in Seq(Version) /\ Len(Recorded(once, new)) <= MaxVersions
      /\ \A n \in DOMAIN Recorded(once, new) :
             Recorded(once, new)[n] = new \/ \E m \in DOMAIN once : Recorded(once, new)[n] = once[m]
  BY <1>1, <1>3, RecordedVersions
<1>5. versions' = once \/ versions' = Recorded(once, new)
  BY DEF Activate, once, new
<1>6. CASE versions' = once
  BY <1>3, <1>6
<1>7. CASE versions' = Recorded(once, new)
  BY <1>3, <1>4, <1>7 DEF new
<1> QED BY <1>5, <1>6, <1>7

LEMMA TypeStep ==
    ASSUME TypeOK, Next
    PROVE  TypeOK'
<1>1. PICK s, text : s \in Known /\ Activate(s, text) /\ Normalized(text) \in Custom
  BY Activations
<1>2. versions' \in Seq(Version) /\ Len(versions') <= MaxVersions
  BY <1>1, ActivationRecords
<1>3. habits' = habits
  BY <1>1 DEF Activate
<1>4. \/ UNCHANGED <<file, config, custom>>
      \/ file' = s /\ config' = Rendered(s) /\ custom' = Normalized(text)
  BY <1>1 DEF Activate
<1>5. [settings |-> s, config |-> Rendered(s), custom |-> Normalized(text)] \in Version
  BY <1>1 DEF Version, Custom
<1> QED BY <1>2, <1>3, <1>4, <1>5 DEF TypeOK

(* Files and versions stay among the configurations that requests, defaults and
   the earlier release give rise to: reading back and restoring add none. *)
THEOREM GuidedTyped == Spec => []TypeOK
<1>1. Init => TypeOK
  <2> SUFFICES ASSUME Init PROVE TypeOK
    OBVIOUS
  <2>0. MaxVersions \in Nat /\ MaxVersions > 0
    BY LimitAssumption
  <2>1. CASE file = None /\ config = None /\ versions = <<>>
    BY <2>0, <2>1 DEF Init, TypeOK
  <2>2. CASE /\ file \in OldDocument /\ config = Earlier
             /\ versions = <<[settings |-> file, config |-> Earlier, custom |-> NoText]>>
    <3>1. [settings |-> file, config |-> Earlier, custom |-> NoText] \in Version
      BY <2>2 DEF Version
    <3>2. versions \in Seq(Version) /\ Len(versions) = 1
      BY <2>2, <3>1
    <3> QED BY <2>0, <2>2, <3>1, <3>2 DEF Init, TypeOK
  <2> QED BY <2>1, <2>2 DEF Init
<1>2. TypeOK /\ UNCHANGED vars => TypeOK'
  BY DEF TypeOK, vars
<1> QED BY <1>1, <1>2, TypeStep, PTL DEF Spec


-----------------------------------------------------------------------------
(* What is active, and what can be gone back to *)

(* Text that normalisation accepts and leaves alone. *)
Clean(text) == Normalizable(text) /\ Normalized(text) = text

(* Settings, a configuration and a text that were accepted together; null reverse
   zones are found only where requests may leave them out. *)
Together(s, rendered, text) ==
    /\ Complete(s) /\ Valid(s) /\ rendered = Rendered(s) /\ ~Conflicts(s, text)
    /\ habits = {} => s["reverse_zones"] # Null

(* A new installation, one as an earlier release left it, or an activation. *)
FilesKnown ==
    /\ Clean(custom)
    /\ \/ file = None /\ config = None /\ custom = NoText
       \/ file \in OldDocument /\ config = Earlier /\ habits # {}
       \/ file # None /\ Together(file, config, custom)

VersionKnown(version) ==
    /\ Clean(version.custom)
    /\ habits = {} => Together(Decoded(version.settings), version.config, version.custom)

VersionsKnown == \A n \in DOMAIN versions : VersionKnown(versions[n])

LEMMA NoTextIsClean == Clean(NoText) /\ \A s : ~Conflicts(s, NoText)
<1>1. Clean(NoText)
  BY NormalizedTwice, LimitAssumption DEF Clean, Normalizable, NoText
<1>2. \A key : ~Uses(NoText, key)
  BY DEF Uses, NoText
<1>3. NoText.directives = {}
  BY DEF NoText
<1> QED BY <1>1, <1>2, <1>3 DEF Conflicts

LEMMA EqualListsConflictEqual ==
    ASSUME NEW s, NEW t, NEW text, \A f \in Lists : Items(s[f]) = Items(t[f])
    PROVE  Conflicts(s, text) <=> Conflicts(t, text)
<1>1. /\ Items(s["forward_zones"]) = Items(t["forward_zones"])
      /\ Items(s["private_domains"]) = Items(t["private_domains"])
      /\ Items(s["reverse_zones"]) = Items(t["reverse_zones"])
  BY DEF Lists
<1> QED BY <1>1 DEF Conflicts

(* What is in force reads back as it is rendered. *)
LEMMA ActiveReadsBack ==
    ASSUME FilesKnown
    PROVE  /\ Valid(Loaded(file))
           /\ habits = {} => /\ config \in {None, Rendered(Loaded(file))}
                             /\ ~Conflicts(Loaded(file), custom)
                             /\ Loaded(file)["reverse_zones"] # Null
<1>1. CASE file = None /\ config = None /\ custom = NoText
  <2>1. Loaded(file) = DefaultSettings
    BY <1>1 DEF Loaded
  <2> QED BY <1>1, <2>1, NoTextIsClean, DefaultAssumption, DefaultReverseZones
<1>2. CASE file \in OldDocument /\ config = Earlier /\ habits # {}
  BY <1>2, EarlierAssumption
<1>3. CASE file # None /\ Together(file, config, custom)
  <2>1. Complete(file) /\ Valid(file)
    BY <1>3 DEF Together
  <2>2. Valid(Loaded(file))
    BY <1>3, <2>1, ReadBackIsValid
  <2>3. ASSUME habits = {}
        PROVE  /\ config = Rendered(Loaded(file)) /\ ~Conflicts(Loaded(file), custom)
               /\ Loaded(file)["reverse_zones"] # Null
    <3>1. file["reverse_zones"] # Null /\ config = Rendered(file) /\ ~Conflicts(file, custom)
      BY <1>3, <2>3 DEF Together
    <3>2. Loaded(file)["reverse_zones"] = file["reverse_zones"]
      BY <1>3, <2>1, <3>1, ReadBack
    <3>3. \A f \in Lists : Items(Loaded(file)[f]) = Items(file[f])
      BY <1>3, <2>1, <3>2, ReadBack DEF Lists
    <3> QED BY <1>3, <2>1, <3>1, <3>2, <3>3, ReadBackRendersEqual, EqualListsConflictEqual
  <2> QED BY <2>2, <2>3
<1> QED BY <1>1, <1>2, <1>3 DEF FilesKnown

(* The current version can be gone back to. *)
LEMMA CurrentIsKnown ==
    ASSUME TypeOK, FilesKnown
    PROVE  VersionKnown(Current)
<1> DEFINE s == Loaded(file)
<1>1. /\ Current.settings = s /\ Current.custom = custom
      /\ Current.config = IF config = None THEN Rendered(s) ELSE config
  BY DEF Current
<1>2. Decoded(s) = s /\ Complete(s)
  BY LoadedIsComplete, DecodedComplete
<1>3. habits = {} => Current.config = Rendered(s)
  BY <1>1, ActiveReadsBack
<1>4. Clean(custom)
  BY DEF FilesKnown
<1> HIDE DEF s
<1>5. habits = {} => Together(s, Rendered(s), custom)
  BY <1>2, ActiveReadsBack DEF Together, s
<1> QED BY <1>1, <1>2, <1>3, <1>4, <1>5 DEF VersionKnown

LEMMA ActivationKnows ==
    ASSUME TypeOK, FilesKnown, VersionsKnown, Next
    PROVE  FilesKnown' /\ VersionsKnown'
<1>1. PICK s, text :
          /\ s \in Known /\ Activate(s, text) /\ Normalized(text) \in Custom
          /\ \/ \E document \in Document :
                   /\ s = Decoded(document) /\ text = custom
                   /\ "null" \in habits \/ s["reverse_zones"] # Null
             \/ s = Loaded(file) /\ Normalized(text) = text
             \/ \E n \in DOMAIN versions :
                   s = Decoded(versions[n].settings) /\ text = versions[n].custom
  BY Activations
<1>2. Valid(s) /\ Normalizable(text) /\ ~Conflicts(s, Normalized(text)) /\ habits' = habits
  BY <1>1 DEF Activate, Acceptable
<1>3. Complete(s) /\ s # None
  BY <1>1, KnownIsClosed
<1>4. Clean(Normalized(text))
  <2>1. Normalized(text) = text
    BY <1>1 DEF FilesKnown, VersionsKnown, VersionKnown, Clean
  <2> QED BY <1>2, <2>1 DEF Clean
<1>5. habits = {} => s["reverse_zones"] # Null
  BY <1>1, ActiveReadsBack DEF VersionsKnown, VersionKnown, Together
<1>6. Together(s, Rendered(s), Normalized(text))
  BY <1>2, <1>3, <1>5 DEF Together
<1>7. FilesKnown'
  <2>1. CASE UNCHANGED <<file, config, custom>>
    BY <1>2, <2>1 DEF FilesKnown, Together
  <2>2. CASE file' = s /\ config' = Rendered(s) /\ custom' = Normalized(text)
    BY <1>2, <1>3, <1>4, <1>6, <2>2 DEF FilesKnown, Together
  <2> QED BY <1>1, <2>1, <2>2 DEF Activate
<1>8. VersionsKnown'
  <2> DEFINE new == [settings |-> s, config |-> Rendered(s), custom |-> Normalized(text)]
  <2>1. VersionKnown(new)
    <3>1. new.settings = s /\ new.config = Rendered(s) /\ new.custom = Normalized(text)
      OBVIOUS
    <3>2. Decoded(new.settings) = s
      BY <1>3, <3>1, DecodedComplete
    <3> HIDE DEF new
    <3> QED BY <1>4, <1>6, <3>1, <3>2 DEF VersionKnown
  <2>2. VersionKnown(Current)
    BY CurrentIsKnown
  <2>3. \A n \in DOMAIN versions' :
            \/ \E m \in DOMAIN versions : versions'[n] = versions[m]
            \/ versions'[n] = Current \/ versions'[n] = new
    BY <1>1, ActivationRecords
  <2> HIDE DEF new
  <2>4. \A n \in DOMAIN versions' : VersionKnown(versions'[n])
    BY <2>1, <2>2, <2>3 DEF VersionsKnown
  <2> QED BY <1>2, <2>4 DEF VersionsKnown, VersionKnown, Together
<1> QED BY <1>7, <1>8

LEMMA AlwaysKnown == Spec => [](FilesKnown /\ VersionsKnown)
<1>1. Init => FilesKnown /\ VersionsKnown
  <2> SUFFICES ASSUME Init PROVE FilesKnown /\ VersionsKnown
    OBVIOUS
  <2>1. FilesKnown
    BY NoTextIsClean DEF Init, FilesKnown
  <2>2. CASE versions = <<>>
    BY <2>1, <2>2 DEF VersionsKnown
  <2>3. CASE /\ habits # {}
             /\ versions = <<[settings |-> file, config |-> Earlier, custom |-> NoText]>>
    BY <2>1, <2>3, NoTextIsClean DEF VersionsKnown, VersionKnown
  <2> QED BY <2>1, <2>2, <2>3 DEF Init
<1>2. FilesKnown /\ VersionsKnown /\ UNCHANGED vars => FilesKnown' /\ VersionsKnown'
  BY DEF vars, FilesKnown, VersionsKnown, VersionKnown, Together
<1> QED BY <1>1, <1>2, ActivationKnows, GuidedTyped, PTL DEF Spec

-----------------------------------------------------------------------------
(* The properties *)

(* What the API shows as the settings is always valid, and it is what the
   resolver's configuration was rendered from. *)
THEOREM ReadBackIsAlwaysActive == Spec => []ReadBackIsActive
<1>1. FilesKnown => ReadBackIsActive
  BY ActiveReadsBack DEF ReadBackIsActive
<1> QED BY <1>1, AlwaysKnown, PTL

(* Every version of the history is accepted again and gives what it recorded. *)
THEOREM VersionsAreRestorable == Spec => []VersionsRestorable
<1>1. FilesKnown /\ VersionsKnown => VersionsRestorable
  <2> SUFFICES ASSUME FilesKnown, VersionsKnown, habits = {}, NEW n \in DOMAIN versions
               PROVE  LET version == versions[n]
                          s == Decoded(version.settings)
                      IN  /\ Acceptable(s, version.custom)
                          /\ Rendered(s) = version.config
                          /\ Normalized(version.custom) = version.custom
    BY DEF VersionsRestorable, Values
  <2>1. VersionKnown(versions[n]) /\ Valid(Loaded(file))
    BY ActiveReadsBack DEF VersionsKnown
  <2> QED BY <2>1 DEF VersionKnown, Together, Clean, Acceptable
<1> QED BY <1>1, AlwaysKnown, PTL

(* Whatever configurations are activated in whatever order, no zone gets two
   directives, from the settings among themselves or from settings and text, where
   the text's reverse zones count if they are quoted. *)
THEOREM NothingIsDefinedTwice == Spec => []NothingTwice
<1>1. ASSUME FilesKnown, config \notin {None, Earlier}
      PROVE  NothingTwice
  <2> DEFINE zones    == Items(file["forward_zones"])
             domains  == Items(file["private_domains"])
             policies == Items(file["reverse_zones"])
  <2>1. Together(file, config, custom)
    BY <1>1 DEF FilesKnown
  <2>2. /\ ValidZones(zones) /\ ValidDomains(domains, zones) /\ ValidPolicies(policies)
        /\ config = Rendered(file) /\ ~Conflicts(file, custom)
    BY <2>1 DEF Together, Valid
  <2>3. /\ config.domains = domains
        /\ config.private = NamesWhere(zones, "private")
        /\ config.insecure = NamesWhere(zones, "unsigned")
        /\ config.local = [i \in DOMAIN policies |-> <<policies[i].network, policies[i].mode>>]
        /\ config.forward =
               [i \in DOMAIN zones |-> <<zones[i].name, zones[i].servers, zones[i].first>>]
    BY <2>2 DEF Rendered
  <2>4. /\ zones # <<>> => ~Uses(custom, "forward-zone")
        /\ domains # <<>> \/ (\E i \in DOMAIN zones : zones[i].private) =>
               ~Uses(custom, "private-domain")
        /\ \A i \in DOMAIN policies, d \in custom.directives :
               d.key = "local-zone" /\ d.quoted => d.zone \notin ReverseZones[policies[i].network]
    BY <2>2 DEF Conflicts
  <2> HIDE DEF zones, domains, policies
  <2>5. \A i, j \in DOMAIN zones : zones[i].name = zones[j].name => i = j
    BY <2>2 DEF ValidZones, Distinct, NamesOf
  <2>6. Distinct(config.private) /\ Distinct(config.insecure)
    BY <2>3, <2>5 DEF Distinct, NamesWhere
  <2>7. Distinct(config.domains) /\ Values(config.domains) \cap Values(config.private) = {}
    <3>1. DOMAIN config.private \subseteq DOMAIN zones
          /\ \A i \in DOMAIN config.private :
                 zones[i].private /\ config.private[i] = zones[i].name
      BY <2>3 DEF NamesWhere
    <3>2. \A i \in DOMAIN zones : zones[i].private => zones[i].name \notin Values(domains)
      BY <2>2 DEF ValidDomains
    <3> QED BY <2>2, <2>3, <3>1, <3>2 DEF ValidDomains, Values
  <2>8. Distinct([i \in DOMAIN config.forward |-> config.forward[i][1]])
    BY <2>3, <2>5 DEF Distinct
  <2>9. Distinct([i \in DOMAIN config.local |-> config.local[i][1]])
    <3>1. \A i, j \in DOMAIN policies : policies[i].network = policies[j].network => i = j
      BY <2>2 DEF ValidPolicies, Distinct
    <3> QED BY <2>3, <3>1 DEF Distinct
  <2>10. /\ config.forward # <<>> => ~Uses(custom, "forward-zone")
         /\ config.domains # <<>> \/ config.private # <<>> => ~Uses(custom, "private-domain")
    <3>1. zones = <<>> => config.forward = <<>>
      BY <2>3
    <3>2. (\A i \in DOMAIN zones : ~zones[i].private) => config.private = <<>>
      BY <2>3 DEF NamesWhere
    <3> QED BY <2>3, <2>4, <3>1, <3>2
  <2>11. \A i \in DOMAIN config.local, d \in custom.directives :
             d.key = "local-zone" /\ d.quoted => d.zone \notin ReverseZones[config.local[i][1]]
    BY <2>3, <2>4
  <2> QED BY <2>6, <2>7, <2>8, <2>9, <2>10, <2>11 DEF NothingTwice
<1>2. FilesKnown => NothingTwice
  BY <1>1 DEF NothingTwice
<1> QED BY <1>2, AlwaysKnown, PTL

(* A preview accepts exactly what an activation goes on with, and one without
   changes leaves the configuration as it is. *)
THEOREM PreviewsAreExact == Spec => []PreviewIsExact
<1>1. ASSUME FilesKnown, NEW s
      PROVE  /\ Previewed(s) <=> Acceptable(s, custom)
             /\ habits = {} /\ Previewed(s) /\ ~PreviewChanged(s) => config \in {None, Rendered(s)}
  <2>1. Previewed(s) <=> Acceptable(s, custom)
    BY <1>1 DEF Previewed, Acceptable, FilesKnown, Clean
  <2>2. ASSUME habits = {}, ~PreviewChanged(s) PROVE config \in {None, Rendered(s)}
    <3>1. Rendered(Loaded(file)) = Rendered(s)
      BY <2>2, EqualFieldsRenderEqual DEF PreviewChanged, Changes
    <3> QED BY <1>1, <2>2, <3>1, ActiveReadsBack
  <2> QED BY <2>1, <2>2
<1>2. FilesKnown => PreviewIsExact
  BY <1>1 DEF PreviewIsExact
<1> QED BY <1>2, AlwaysKnown, PTL
=============================================================================
