----------------------------- MODULE MCDnsStack -----------------------------
(***************************************************************************)
(* Instances of DnsStack for TLC: AdGuard Home, whose image and ports      *)
(* depend on the configuration, or Unbound, deployed and updated from the  *)
(* same reference.                                                         *)
(***************************************************************************)
EXTENDS DnsStack

CONSTANTS adguard, unbound, A, B, stable, beta

AdGuardReference == [s \in {adguard} |-> [c \in Config |-> IF c = stable THEN A ELSE B]]
UnboundReference == [s \in {unbound} |-> [c \in Config |-> Target]]
=============================================================================
