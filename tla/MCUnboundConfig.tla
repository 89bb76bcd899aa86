-------------------------- MODULE MCUnboundConfig --------------------------
(***************************************************************************)
(* Instances of UnboundConfig for TLC: the default settings, others that   *)
(* need IPv6 and invalid ones, an expert text besides the empty one, and a *)
(* pair that is refused.                                                   *)
(***************************************************************************)
EXTENDS UnboundConfig, TLC

CONSTANTS default, ipv6, invalid, none, text, c1, c2

MCSettings  == {default, ipv6, invalid}
MCInvalid   == {invalid}
FewSettings == {default, ipv6}
NoSettings  == {}
MCNeedsIPv6 == {ipv6}
MCCustom    == {none, text}
MCBad       == {<<ipv6, text>>}
NoPairs     == {}
MCCaller    == {c1, c2}
MCOneCaller == {c1}

Symmetric == Permutations(Caller)
=============================================================================
