----------------------------- MODULE MCGateway -----------------------------
(* Three messages of one conversation and one of another.                  *)
EXTENDS Gateway, TLC

CONSTANTS a1, a2, a3, b1, a, b, w1, w2

MCKey == (a1 :> a) @@ (a2 :> a) @@ (a3 :> a) @@ (b1 :> b)
MCBefore == (a1 :> {}) @@ (a2 :> {a1}) @@ (a3 :> {a1, a2}) @@ (b1 :> {})
=============================================================================
