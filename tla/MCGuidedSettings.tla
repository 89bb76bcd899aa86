-------------------------- MODULE MCGuidedSettings --------------------------
(***************************************************************************)
(* Instances of GuidedSettings for TLC: settings that differ from the      *)
(* defaults in what Validate, Render, Load and the conflicts look at, and  *)
(* short lists, so that every limit is exceeded by some of them.           *)
(***************************************************************************)
EXTENDS GuidedSettings, TLC

CONSTANTS home, corp, Root, reverse10, target1, target2, loopback, net10, net172

MCCanonical      == {home, corp}
MCForwardable    == {target1, target2}
MCReverseZones   == (net10 :> {reverse10}) @@ (net172 :> {})
MCDefaultReverse == <<[network |-> net10, mode |-> "nxdomain"]>>

Set(field, value) == (field :> value) @@ DefaultSettings

Zone(name, servers, private) ==
    [name |-> name, servers |-> servers, first |-> FALSE, unsigned |-> private, private |-> private]

Forwarding(zones, domains) ==
    ("forward_zones" :> zones) @@ ("private_domains" :> domains) @@ DefaultSettings

(* Requests that are accepted unless expert text is in the way. *)
Plain == {
    DefaultSettings,
    Set("serve_expired_client_timeout", 0),
    [f \in Field \ {"forward_zones", "private_domains"} |-> DefaultSettings[f]],
    Set("network_mode", "ipv6"),
    Set("reverse_zones", <<>>),
    Set("reverse_zones", <<[network |-> net10, mode |-> "transparent"],
                           [network |-> net172, mode |-> "nxdomain"]>>),
    Forwarding(<<Zone(home, <<target1>>, TRUE)>>, <<corp>>),
    Forwarding(<<Zone(home, <<target2, target1>>, TRUE)>>, <<corp>>),
    Forwarding(<<Zone(home, <<target1>>, FALSE), Zone(corp, <<target2>>, FALSE)>>, <<home>>)}

(* Requests that are refused, by one rule each. *)
Wrong == {
    [f \in Field \ {"edns_buffer_size"} |-> DefaultSettings[f]],
    [f \in Field \ {"resource_profile"} |-> DefaultSettings[f]],
    Set("log_verbosity", 2),
    ("cache_min_ttl" :> 3600) @@ Set("cache_max_ttl", 60),
    Set("reverse_zones", <<[network |-> net10, mode |-> "nxdomain"],
                           [network |-> net10, mode |-> "transparent"]>>),
    Forwarding(<<Zone(Root, <<target1>>, FALSE)>>, <<>>),
    Forwarding(<<Zone(home, <<loopback>>, FALSE)>>, <<>>),
    Forwarding(<<Zone(home, <<>>, FALSE)>>, <<>>),
    Forwarding(<<Zone(home, <<target1>>, FALSE), Zone(home, <<target2>>, FALSE)>>, <<>>),
    Forwarding(<<Zone(home, <<target1, target2>>, FALSE), Zone(corp, <<target1, target2>>, FALSE)>>, <<>>),
    Forwarding(<<Zone(home, <<target1>>, TRUE)>>, <<home>>),
    Forwarding(<<>>, <<home, corp, home>>)}

WithoutReverse == [f \in Field \ {"reverse_zones"} |-> DefaultSettings[f]]

MCDocument == Plain \cup Wrong \cup {WithoutReverse}

(* An earlier release knew fewer fields. *)
MCOldDocument == {
    [f \in Field \ {"prefetch_key", "edns_buffer_size", "reverse_zones"} |-> DefaultSettings[f]],
    [f \in Field \ {"network_mode", "resource_profile", "serve_expired_ttl",
                     "serve_expired_client_timeout", "forward_zones"} |-> DefaultSettings[f]]}

Directive(key, zone, quoted) == [key |-> key, zone |-> zone, quoted |-> quoted]

Lines(directives, length, tail) == [directives |-> directives, length |-> length, tail |-> tail]

MCText == {
    NoText,
    Lines({}, 0, 2),
    Lines({Blocked}, 1, 1),
    Lines({Directive("forward-zone", None, FALSE)}, 1, 0),
    Lines({Directive("private-domain", None, FALSE)}, 1, 2),
    Lines({Directive("local-zone", reverse10, TRUE)}, 1, 1),
    Lines({}, MaxLength, 1)}

(* The text that is as long as it may be, and the zone without quotes. *)
LongText     == {Lines({}, MaxLength, 0)}
UnquotedText == {Lines({Directive("local-zone", reverse10, FALSE)}, 1, 1)}

Everything == SUBSET Habits
NoHabit    == {{}}
NullHabit  == {{"null"}}
=============================================================================
