--------------------------- MODULE GuidedSettings ---------------------------
(***************************************************************************)
(* What the guided settings mean: Validate, Render, Load, the scan for     *)
(* conflicts with expert text, the comparison behind previews, and the     *)
(* versions (internal/unbound/settings.go, custom.go, lifecycle.go).       *)
(*                                                                         *)
(* UnboundConfig models how an activation writes its files and what fails  *)
(* or overlaps meanwhile, with the contents as plain names.  Here an       *)
(* activation is one step that is carried out or leaves no new contents,   *)
(* and the contents are what counts.                                       *)
(*                                                                         *)
(* Data: settings are a function from field names to values; a JSON        *)
(* document is such a function with the fields the document has.  A nil    *)
(* slice (JSON null) is Null, which is not the empty list.  Zone names,    *)
(* addresses and networks are model values; of expert text only the        *)
(* directives that other code looks at, and its length.  A rendered        *)
(* configuration is a record of its directives; comments are left out.     *)
(***************************************************************************)
EXTENDS Integers, Sequences, FiniteSets

CONSTANTS
    Canonical,     \* zone names that validateCanonicalZoneName accepts
    Forwardable,   \* canonical addresses that are not local or reserved
    ReverseZones,  \* the reverse zones of each private network: rfc1918ReverseZones
    DefaultReverse, \* the reverse policies of DefaultSettings
    Null,          \* a nil slice
    None,          \* no file
    Earlier,       \* a configuration that an earlier release rendered
    MaxZones,      \* maxForwardZones: 32
    MaxServers,    \* maxForwardServers: 8
    MaxTargets,    \* maxForwardTargets: 32
    MaxDomains,    \* maxPrivateDomains: 32
    MaxLength,     \* MaxCustomConfigBytes: 65536
    MaxVersions,   \* historyLimit: 20
    Document,      \* settings that requests carry
    OldDocument,   \* settings.json as an earlier release wrote it
    Text,          \* expert text that requests carry
    HabitSets      \* sets of what the installation has to live with: see Habits

(* "null": requests without reverse_zones, or with null; "earlier": the files of
   an earlier release are there. *)
Habits == {"null", "earlier"}

ASSUME LimitAssumption ==
    \A limit \in {MaxZones, MaxServers, MaxTargets, MaxDomains, MaxLength, MaxVersions} :
        limit \in Nat \ {0}
ASSUME HabitAssumption == HabitSets \subseteq SUBSET Habits
ASSUME TextAssumption ==
    \A text \in Text :
        /\ text = [directives |-> text.directives, length |-> text.length, tail |-> text.tail]
        /\ text.length \in Nat /\ text.tail \in Nat

VARIABLES
    file,      \* settings.json: a document
    config,    \* 50-rootguard.conf, which the resolver runs
    custom,    \* 90-rootguard-custom.conf, which it includes
    versions,  \* the history, newest first
    habits     \* what holds in this behaviour

vars == <<file, config, custom, versions, habits>>

-----------------------------------------------------------------------------
(* Settings and their documents *)

Flags == {"qname_minimisation", "prefetch", "prefetch_key", "aggressive_nsec", "serve_expired"}

Week == 604800  \* seconds

Bounds == [edns_buffer_size |-> 512..4096, log_verbosity |-> 0..1,
           serve_expired_ttl |-> 3600..Week, serve_expired_client_timeout |-> 0..5000,
           cache_min_ttl |-> 0..3600, cache_max_ttl |-> 60..Week, threads |-> 1..32]

Numbers == DOMAIN Bounds
Lists   == {"forward_zones", "private_domains", "reverse_zones"}
Field   == Flags \cup Numbers \cup Lists \cup {"resource_profile", "network_mode"}

Profile == {"small", "medium", "large"}
Mode    == {"ipv4", "dual", "ipv6"}

DefaultSettings ==
    [qname_minimisation |-> TRUE, prefetch |-> TRUE, prefetch_key |-> TRUE,
     aggressive_nsec |-> TRUE, serve_expired |-> TRUE,
     edns_buffer_size |-> 1232, log_verbosity |-> 1, serve_expired_ttl |-> 86400,
     serve_expired_client_timeout |-> 1800, cache_min_ttl |-> 0, cache_max_ttl |-> 86400,
     threads |-> 2, resource_profile |-> "medium", network_mode |-> "ipv4",
     forward_zones |-> <<>>, private_domains |-> <<>>, reverse_zones |-> DefaultReverse]

Zero == [f \in Field |->
    IF f \in Flags THEN FALSE ELSE IF f \in Numbers THEN 0 ELSE IF f \in Lists THEN Null ELSE ""]

(* json.Unmarshal into an empty Settings *)
Decoded(document) ==
    [f \in Field |-> IF f \in DOMAIN document THEN document[f] ELSE Zero[f]]

FilledWhenZero   == {"reverse_zones", "network_mode", "resource_profile", "serve_expired_ttl"}
FilledWhenAbsent == {"serve_expired_client_timeout", "prefetch_key", "aggressive_nsec",
                     "edns_buffer_size", "log_verbosity"}

(* Mutant: a client timeout of zero is taken for a missing one. *)
LoadedZeroAsMissing(document) ==
    IF document = None THEN DefaultSettings ELSE
    LET s == Decoded(document) IN
    [f \in Field |->
        IF f \in FilledWhenZero \cup FilledWhenAbsent /\ s[f] = Zero[f] THEN DefaultSettings[f]
        ELSE IF f \in Lists /\ s[f] = Null THEN <<>> ELSE s[f]]

(* Load: a missing file is the defaults; null lists, empty names and missing
   fields are filled in. *)
Loaded(document) ==
    IF document = None THEN DefaultSettings ELSE
    LET s == Decoded(document) IN
    [f \in Field |->
        IF \/ f \in FilledWhenZero /\ s[f] = Zero[f]
           \/ f \in FilledWhenAbsent /\ f \notin DOMAIN document
        THEN DefaultSettings[f]
        ELSE IF f \in Lists /\ s[f] = Null THEN <<>> ELSE s[f]]

-----------------------------------------------------------------------------
(* Validate *)

Items(list) == IF list = Null THEN <<>> ELSE list

Distinct(q) == \A i, j \in DOMAIN q : q[i] = q[j] => i = j

Values(q) == {q[i] : i \in DOMAIN q}

NamesOf(zones) == [i \in DOMAIN zones |-> zones[i].name]

Targets(zones) == UNION {{i} \X DOMAIN zones[i].servers : i \in DOMAIN zones}

ValidZones(zones) ==
    /\ Len(zones) <= MaxZones
    /\ Values(NamesOf(zones)) \subseteq Canonical /\ Distinct(NamesOf(zones))
    /\ \A i \in DOMAIN zones :
           /\ Len(zones[i].servers) \in 1..MaxServers
           /\ Values(zones[i].servers) \subseteq Forwardable /\ Distinct(zones[i].servers)
    /\ Cardinality(Targets(zones)) <= MaxTargets

(* Mutant: a private domain may name a forwarding zone with the same exception. *)
ValidDomainsAlone(domains, zones) ==
    /\ Len(domains) <= MaxDomains
    /\ Values(domains) \subseteq Canonical /\ Distinct(domains)

ValidDomains(domains, zones) ==
    /\ Len(domains) <= MaxDomains
    /\ Values(domains) \subseteq Canonical /\ Distinct(domains)
    /\ \A i \in DOMAIN zones : zones[i].private => zones[i].name \notin Values(domains)

ValidPolicies(policies) ==
    /\ \A i \in DOMAIN policies :
           policies[i].network \in DOMAIN ReverseZones
           /\ policies[i].mode \in {"nxdomain", "transparent"}
    /\ Distinct([i \in DOMAIN policies |-> policies[i].network])

Valid(s) ==
    /\ \A f \in Numbers : s[f] \in Bounds[f]
    /\ s["cache_min_ttl"] <= s["cache_max_ttl"]
    /\ s["resource_profile"] \in Profile /\ s["network_mode"] \in Mode
    /\ ValidZones(Items(s["forward_zones"]))
    /\ ValidDomains(Items(s["private_domains"]), Items(s["forward_zones"]))
    /\ ValidPolicies(Items(s["reverse_zones"]))

(* The defaults are valid, and so is what an earlier release has left, once read. *)
ASSUME DefaultAssumption == Valid(DefaultSettings) /\ DefaultReverse # Null
ASSUME EarlierAssumption == \A document \in OldDocument : Valid(Loaded(document))

-----------------------------------------------------------------------------
(* Render *)

(* The names of the zones with an option, at the places of their zones. *)
NamesWhere(zones, option) ==
    [i \in {i \in DOMAIN zones : zones[i][option]} |-> zones[i].name]

Rendered(s) ==
    LET zones    == Items(s["forward_zones"])
        policies == Items(s["reverse_zones"])
    IN  [options  |-> [f \in Flags \cup Numbers |-> s[f]],
         cache    |-> s["resource_profile"],
         ip4      |-> s["network_mode"] # "ipv6",
         ip6      |-> s["network_mode"] # "ipv4",
         domains  |-> Items(s["private_domains"]),
         private  |-> NamesWhere(zones, "private"),
         insecure |-> NamesWhere(zones, "unsigned"),
         local    |-> [i \in DOMAIN policies |-> <<policies[i].network, policies[i].mode>>],
         forward  |-> [i \in DOMAIN zones |-> <<zones[i].name, zones[i].servers, zones[i].first>>]]

-----------------------------------------------------------------------------
(* Expert text *)

(* Text with nothing in it; trailing blanks and line ends are counted in tail. *)
NoText == [directives |-> {}, length |-> 0, tail |-> 0]

(* A directive that belongs to RootGuard: blockedDirectives. *)
Blocked == [key |-> "blocked", zone |-> None, quoted |-> FALSE]

Uses(text, key) == \E d \in text.directives : d.key = key

(* normalizeCustom: what it refuses and what it returns. *)
Normalizable(text) == text.length + text.tail <= MaxLength /\ Blocked \notin text.directives

(* Mutant: a line end is added although there is one. *)
NormalizedAppending(text) == [text EXCEPT !.tail = IF text.length > 0 THEN text.tail + 1 ELSE 0]

Normalized(text) == [text EXCEPT !.tail = IF text.length > 0 THEN 1 ELSE 0]

(* validateGuidedConflicts; a zone is found in its quoted form only. *)
Conflicts(s, text) ==
    LET zones    == Items(s["forward_zones"])
        policies == Items(s["reverse_zones"])
    IN  \/ zones # <<>> /\ Uses(text, "forward-zone")
        \/ /\ Items(s["private_domains"]) # <<>> \/ \E i \in DOMAIN zones : zones[i].private
           /\ Uses(text, "private-domain")
        \/ \E i \in DOMAIN policies, d \in text.directives :
               /\ d.key = "local-zone" /\ d.quoted
               /\ d.zone \in ReverseZones[policies[i].network]

-----------------------------------------------------------------------------
(* Comparisons *)

(* settingsEqual *)
SettingsEqual(s, t) ==
    /\ \A f \in Field \ Lists : s[f] = t[f]
    /\ \A f \in Lists : Items(s[f]) = Items(t[f])

(* Mutant: zones are compared by their names. *)
ChangesByName(s, t) ==
    {f \in Field \ Lists : s[f] # t[f]}
    \cup {f \in Lists \ {"forward_zones"} : Items(s[f]) # Items(t[f])}
    \cup {f \in {"forward_zones"} : NamesOf(Items(s[f])) # NamesOf(Items(t[f]))}

(* settingsChanges: the fields that a preview lists. *)
Changes(s, t) ==
    {f \in Field \ Lists : s[f] # t[f]} \cup {f \in Lists : Items(s[f]) # Items(t[f])}

-----------------------------------------------------------------------------
(* Versions *)

Current ==
    LET s == Loaded(file) IN
    [settings |-> s, config |-> IF config = None THEN Rendered(s) ELSE config, custom |-> custom]

(* recordSnapshot and pruneHistory *)
Recorded(history, version) ==
    IF /\ history # <<>>
       /\ SettingsEqual(Decoded(history[1].settings), version.settings)
       /\ history[1].config = version.config /\ history[1].custom = version.custom
    THEN history
    ELSE LET longer == <<version>> \o history
         IN  SubSeq(longer, 1, IF Len(longer) < MaxVersions THEN Len(longer) ELSE MaxVersions)

-----------------------------------------------------------------------------
(* Requests *)

(* The checks of applyStateLocked that come before its first write; the IPv6
   probe and unbound-checkconf may refuse besides. *)
Acceptable(s, text) ==
    /\ Valid(s)
    /\ Normalizable(text)
    /\ ~Conflicts(s, Normalized(text))
    /\ Valid(Loaded(file))

(* applyStateLocked: the current version is recorded; then the new one replaces
   it and is recorded, or a command fails and everything is put back. *)
Activate(s, text) ==
    /\ Acceptable(s, text)
    /\ \/ /\ file' = s /\ config' = Rendered(s) /\ custom' = Normalized(text)
          /\ versions' = Recorded(Recorded(versions, Current),
                             [settings |-> s, config |-> config', custom |-> custom'])
       \/ /\ versions' = Recorded(versions, Current)
          /\ UNCHANGED <<file, config, custom>>
    /\ UNCHANGED habits

Apply(document) ==
    /\ "null" \in habits \/ Decoded(document)["reverse_zones"] # Null
    /\ Activate(Decoded(document), custom)

(* The text is normalised before it is handed to applyStateLocked, which does
   so again. *)
ApplyCustom(text) == Normalizable(text) /\ Activate(Loaded(file), Normalized(text))

Restore(version) == Activate(Decoded(version.settings), version.custom)

-----------------------------------------------------------------------------
(* Previews: they write nothing *)

Previewed(s) == Valid(s) /\ ~Conflicts(s, custom) /\ Valid(Loaded(file))

PreviewChanged(s) == Changes(Loaded(file), s) # {}

PreviewedCustom(text) ==
    Normalizable(text) /\ Valid(Loaded(file)) /\ ~Conflicts(Loaded(file), Normalized(text))

-----------------------------------------------------------------------------

(* A new installation, or one that an earlier release has left. *)
Init ==
    /\ habits \in HabitSets
    /\ custom = NoText
    /\ \/ "earlier" \notin habits /\ file = None /\ config = None /\ versions = <<>>
       \/ /\ "earlier" \in habits /\ file \in OldDocument /\ config = Earlier
          /\ versions = <<[settings |-> file, config |-> Earlier, custom |-> NoText]>>

Next ==
    \/ \E document \in Document : Apply(document)
    \/ \E text \in Text : ApplyCustom(text)
    \/ \E version \in Values(versions) : Restore(version)

Spec == Init /\ [][Next]_vars

-----------------------------------------------------------------------------
(* Properties *)

(* Documents as they come in, decoded, and read back from the file. *)
Received == Document \cup OldDocument

Known ==
    {Decoded(d) : d \in Received}
    \cup {Loaded(Decoded(d)) : d \in Received} \cup {Loaded(d) : d \in Received \cup {None}}

(* No file is not an empty one. *)
ASSUME NoneAssumption == None \notin Known \cup OldDocument

Version == [settings: Known \cup OldDocument,
            config: {Earlier} \cup {Rendered(s) : s \in Known},
            custom: {NoText} \cup {Normalized(text) : text \in Text}]

(* Every variable stays in the set of values the code can give it. *)
TypeOK ==
    /\ \/ file = None /\ config = None /\ custom = NoText
       \/ [settings |-> file, config |-> config, custom |-> custom] \in Version
    /\ Len(versions) <= MaxVersions
    /\ versions \in Seq(Version)
    /\ habits \in HabitSets

(* What GET /api/unbound/settings shows is what the resolver runs, through any
   sequence of guided, expert and restored configurations: the file that one
   activation wrote reads back as what it rendered.  Without reverse_zones in a
   request, and after a change of release, Load shows the default policies
   although they are not in force; that the file is accepted holds always. *)
ReadBackIsActive ==
    /\ Valid(Loaded(file))
    /\ habits = {} => config \in {None, Rendered(Loaded(file))}

(* The history can be gone back to: each version is accepted again, together
   with its expert text, and gives the configuration recorded with it. *)
VersionsRestorable ==
    habits = {} => \A version \in Values(versions) :
        LET s == Decoded(version.settings) IN
        /\ Acceptable(s, version.custom)
        /\ Rendered(s) = version.config /\ Normalized(version.custom) = version.custom

(* The active files hold no two directives for the same zone: not by the lists of
   the settings among themselves, and not by settings and expert text, in whatever
   order the two were activated.  Of the reverse zones in expert text this is said
   of quoted ones: the conflict scan looks for `local-zone: "zone"` and accepts a
   zone written without quotes (NoReverseZoneTwice). *)
NothingTwice ==
    config \notin {None, Earlier} =>
        /\ Distinct(config.domains) /\ Distinct(config.private) /\ Distinct(config.insecure)
        /\ Values(config.domains) \cap Values(config.private) = {}
        /\ Distinct([i \in DOMAIN config.local |-> config.local[i][1]])
        /\ Distinct([i \in DOMAIN config.forward |-> config.forward[i][1]])
        /\ config.forward # <<>> => ~Uses(custom, "forward-zone")
        /\ config.domains # <<>> \/ config.private # <<>> => ~Uses(custom, "private-domain")
        /\ \A i \in DOMAIN config.local, d \in custom.directives :
               d.key = "local-zone" /\ d.quoted => d.zone \notin ReverseZones[config.local[i][1]]

(* A preview is exact: it accepts the drafts that Apply goes on with, and a
   draft said to change nothing leaves the configuration as it is. *)
PreviewIsExact ==
    \A document \in Document :
        LET s == Decoded(document) IN
        /\ Previewed(s) <=> Acceptable(s, custom)
        /\ habits = {} /\ Previewed(s) /\ ~PreviewChanged(s) =>
               config \in {None, Rendered(s)}

(* docs/api.md:93 calls GET /api/unbound/settings "Read active guided settings":
   ReadBackIsActive without the exceptions. *)
SettingsShownAreActive == config \in {None, Rendered(Loaded(file))}

(* custom.go:147 refuses expert text that "conflicts with guided RFC1918 reverse
   handling": NothingTwice for zones however they are written. *)
NoReverseZoneTwice ==
    config \notin {None, Earlier} =>
        \A i \in DOMAIN config.local, d \in custom.directives :
            d.key = "local-zone" => d.zone \notin ReverseZones[config.local[i][1]]

(* docs/api.md:135 says "Preview and validate a custom draft" of it: a draft
   that it accepts is accepted for activation. *)
PreviewedTextIsAccepted ==
    \A text \in Text :
        PreviewedCustom(text) => Acceptable(Loaded(file), Normalized(text))

=============================================================================
