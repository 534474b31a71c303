---------------------------- MODULE AccessTokens ----------------------------
(***************************************************************************)
(* What the rest of the API is promised by its source of access tokens:    *)
(* the AccessTokens interface of internal/accounts/service.go, seen as a   *)
(* service that is asked and that answers.                                 *)
(*                                                                         *)
(* One answer may be given to several callers at once ("concurrent callers *)
(* for the same account share one refresh"), but only to callers of one    *)
(* account, and a token only if one of those it is given to asked for it   *)
(* with the refresh token it was minted from.                              *)
(***************************************************************************)
CONSTANTS
  Account, Cred, Caller, accountOf, NoToken, NoAccount

Failure == {"reauth_required", "upstream_unavailable"}

VARIABLES
  phase,  \* "idle", "asked" or "answered"
  acct,   \* the account asked about
  cred,   \* the refresh token it was asked with
  token,  \* the answer
  err     \* the error answered, "" when nil

vars == <<phase, acct, cred, token, err>>

Init ==
  /\ phase = [c \in Caller |-> "idle"]
  /\ acct = [c \in Caller |-> NoAccount]
  /\ cred = [c \in Caller |-> NoToken]
  /\ token = [c \in Caller |-> NoToken]
  /\ err = [c \in Caller |-> ""]

Ask(c, r) ==
  /\ phase[c] = "idle"
  /\ phase' = [phase EXCEPT ![c] = "asked"]
  /\ acct' = [acct EXCEPT ![c] = accountOf[r]]
  /\ cred' = [cred EXCEPT ![c] = r]
  /\ UNCHANGED <<token, err>>

\* t is the token and e the error of an answer to the callers of group.
Sound(group, t, e) ==
  \/ e = "" /\ t \in {cred[c] : c \in group}
  \/ e \in Failure /\ t = NoToken

AnswerAll(group, t, e) ==
  /\ \A c, d \in group : phase[c] = "asked" /\ acct[c] = acct[d]
  /\ Sound(group, t, e)
  /\ phase' = [c \in Caller |-> IF c \in group THEN "answered" ELSE phase[c]]
  /\ token' = [c \in Caller |-> IF c \in group THEN t ELSE token[c]]
  /\ err' = [c \in Caller |-> IF c \in group THEN e ELSE err[c]]
  /\ UNCHANGED <<acct, cred>>

Leave(c) ==
  /\ phase[c] = "answered"
  /\ phase' = [phase EXCEPT ![c] = "idle"]
  /\ acct' = [acct EXCEPT ![c] = NoAccount]
  /\ cred' = [cred EXCEPT ![c] = NoToken]
  /\ token' = [token EXCEPT ![c] = NoToken]
  /\ err' = [err EXCEPT ![c] = ""]

Next ==
  \/ \E c \in Caller, r \in Cred : Ask(c, r)
  \/ \E group \in SUBSET Caller :
       \E t \in Cred \cup {NoToken}, e \in Failure \cup {""} : AnswerAll(group, t, e)
  \/ \E c \in Caller : Leave(c)

Spec == Init /\ [][Next]_vars
=============================================================================
