--------------------------- MODULE MCTokenManager ---------------------------
(***************************************************************************)
(* Instances of TokenManager: account a1 has had two refresh tokens (a     *)
(* reconnect rotated them), account a2 has one.                            *)
(***************************************************************************)
EXTENDS TokenManager, TLC

CONSTANTS a1, a2, r1, r2, s1, c1, c2, c3

MCAccountOf == (r1 :> a1) @@ (r2 :> a1) @@ (s1 :> a2)
MCFingerprint == 1..3
MCFingerprintOf == (r1 :> 1) @@ (r2 :> 2) @@ (s1 :> 3)

Callers == Permutations({c1, c2, c3})
=============================================================================
