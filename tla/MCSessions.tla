----------------------------- MODULE MCSessions -----------------------------
(***************************************************************************)
(* Requests of one or two Google accounts with two sessions between them.  *)
(***************************************************************************)
EXTENDS Sessions, TLC

Symmetric == Permutations(Req) \cup Permutations(Session) \cup Permutations(Email)
               \cup Permutations(User)
=============================================================================
