-------------------------- MODULE MCResourceTable --------------------------
(* Small tables for TLC: one compiled-in resource and three keys.          *)
EXTENDS ResourceTable

CONSTANTS kS, k1, k2, k3, v1, v2

MCLiterals     == <<kS>>
MCLiteralValue == [k \in Keys |-> v1]
=============================================================================
