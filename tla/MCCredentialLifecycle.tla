------------------------ MODULE MCCredentialLifecycle ------------------------
(***************************************************************************)
(* One account that is reconnected at most once, and two requests.  The    *)
(* two refresh tokens differ in nothing but their names, so it is enough   *)
(* to start with the first.                                                *)
(***************************************************************************)
EXTENDS CredentialLifecycle, TLC

CONSTANTS a1, r1, r2

MCAccountOf == (r1 :> a1) @@ (r2 :> a1)
MCFingerprint == 1..2
MCFingerprintOf == (r1 :> 1) @@ (r2 :> 2)
MCInit == LInit /\ stored = (a1 :> r1)
MCFairSpec == MCInit /\ [][LNext]_lvars /\ LFairness
=============================================================================
