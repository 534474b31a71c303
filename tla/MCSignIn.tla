------------------------------ MODULE MCSignIn ------------------------------
(***************************************************************************)
(* Three requests about two sessions of one or two users; two people who   *)
(* each have a Google account, one of whom has connected the other's, with *)
(* two trips and two returns from Google.  Nobody is signed in at first,   *)
(* or the one with the account; the other has to sign in.                  *)
(***************************************************************************)
EXTENDS SignIn, TLC

CONSTANTS b1, b2, g1, g2, a1, v1, v2, t1, t2

MCOwnerOf == a1 :> g1
MCGoogleOf == a1 :> g2
MCInit == SignInInit /\ user[b1] # g2
MCSpec == MCInit /\ [][SignInNext]_signInVars
MCSymmetry == Permutations({v1, v2}) \cup Permutations({t1, t2})
=============================================================================
