------------------------------- MODULE SignIn -------------------------------
(***************************************************************************)
(* Signing in and staying so: the round trip to Google and the sessions.   *)
(* A trip knows of a session only whose it is, and a session of a trip     *)
(* only that it came back, so neither reads what the other writes.  Each   *)
(* behaviour follows one of the two while the other is at rest.            *)
(***************************************************************************)
EXTENDS Sessions, OAuthFlow

VARIABLE part

signInVars == <<part, sessionVars, vars>>

SignInInit ==
  /\ SessionInit /\ Init
  /\ part \in {"sessions", "trips"}
  /\ part = "sessions" => user = [b \in Browser |-> Nobody]

SignInNext ==
  \/ part = "sessions" /\ SessionNext /\ UNCHANGED <<part, vars>>
  \/ part = "trips" /\ Next /\ UNCHANGED <<part, sessionVars>>

SignInSpec == SignInInit /\ [][SignInNext]_signInVars
=============================================================================
