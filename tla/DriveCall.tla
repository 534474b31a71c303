------------------------------ MODULE DriveCall ------------------------------
(***************************************************************************)
(* One call of the Drive client (call of internal/google/drive.go): a      *)
(* request to Google that is repeated, after a pause, while it fails in a  *)
(* way that may pass, if the caller said repeating is safe.                *)
(*                                                                         *)
(* Google carries a request out when it gets to it, which may be after the *)
(* client has given up on it; the request or its answer may be lost on the *)
(* way; and it may answer 5xx to what it did.  The context of the call     *)
(* ends at DRIVE_TIMEOUT or when the caller goes away.                     *)
(***************************************************************************)
EXTENDS Integers, FiniteSets

CONSTANT
  MaxAttempts   \* maxAttempts

ASSUME AttemptsAssumption == MaxAttempts \in Nat \ {0}

\* What the callers in drive.go and files.go ask for.
Kind == {"get", "create", "update", "delete"}
Transient == {"rate_limited", "upstream_unavailable"}
Refusal == {"reauth_required", "forbidden", "not_found"}
Answer == {"ok", "unreadable"} \cup Transient \cup Refusal
Result == {"ok"} \cup Transient \cup Refusal

VARIABLES
  kind,     \* what the call is
  pc,       \* "send", "await", "backoff" or "done"
  attempt,  \* the attempt it is at, from 1
  answer,   \* Google's answer to the attempt, "" while there is none
  lastErr,  \* the failure of the attempt before
  result,   \* how the call ended
  expired,  \* whether its context has ended
  flying,   \* attempts on their way to Google, not carried out yet
  file,     \* Google: whether the file is there
  applied   \* Google: how often it did what the call asks

caller == <<kind, pc, attempt, lastErr, result, expired>>
google == <<flying, file, applied>>
callVars == <<caller, answer, google>>

CallTypeOK ==
  /\ kind \in Kind
  /\ pc \in {"send", "await", "backoff", "done"}
  /\ attempt \in 1..MaxAttempts
  /\ answer \in Answer \cup {""}
  /\ lastErr \in Transient \cup {""}
  /\ result \in Result \cup {""}
  /\ expired \in BOOLEAN
  /\ flying \subseteq 1..MaxAttempts
  /\ file \in BOOLEAN
  /\ applied \in 0..MaxAttempts

CallInit ==
  /\ kind \in Kind
  /\ pc = "send"
  /\ attempt = 1
  /\ answer = "" /\ lastErr = "" /\ result = ""
  /\ expired \in BOOLEAN
  /\ flying = {}
  /\ file \in BOOLEAN
  /\ applied = 0

\* Mutant: every call may be repeated.
Idempotent_All == TRUE

\* callSpec.idempotent, as the callers set it.
Idempotent == kind \in {"get", "update", "delete"}
Attempts == IF Idempotent THEN MaxAttempts ELSE 1

-----------------------------------------------------------------------------
(* The client.                                                             *)

EndCall(r) == pc' = "done" /\ result' = r /\ UNCHANGED <<attempt, lastErr>>

\* Mutants: attempts are not counted; the last error is lost.
Failed_NotCounted(e) == pc' = "backoff" /\ lastErr' = e /\ UNCHANGED <<attempt, result>>

Failed_Swallowed(e) ==
  IF attempt < Attempts
  THEN pc' = "backoff" /\ attempt' = attempt + 1 /\ lastErr' = e /\ UNCHANGED result
  ELSE pc' = "done" /\ lastErr' = e /\ result' = "ok" /\ UNCHANGED attempt

\* The attempt failed with e, which may pass: pause before the next, if one is left.
Failed(e) ==
  IF attempt < Attempts
  THEN pc' = "backoff" /\ attempt' = attempt + 1 /\ lastErr' = e /\ UNCHANGED result
  ELSE pc' = "done" /\ lastErr' = e /\ result' = e /\ UNCHANGED attempt

\* Mutant: the request does not carry the context.
Send_NoContext ==
  /\ pc = "send"
  /\ flying' = flying \cup {attempt}
  /\ pc' = "await"
  /\ answer' = ""
  /\ UNCHANGED <<kind, attempt, lastErr, result, expired, file, applied>>

Send ==
  /\ pc = "send"
  /\ IF expired
     THEN Failed("upstream_unavailable") /\ UNCHANGED flying
     ELSE /\ flying' = flying \cup {attempt}
          /\ pc' = "await"
          /\ UNCHANGED <<attempt, lastErr, result>>
  /\ answer' = ""
  /\ UNCHANGED <<kind, expired, file, applied>>

\* Do returns an error: the connection broke, or the context ended.  The request may
\* have got away, and so may its answer.
TransportError ==
  /\ pc = "await"
  /\ Failed("upstream_unavailable")
  /\ flying' \in {flying, flying \ {attempt}}
  /\ UNCHANGED <<kind, expired, answer, file, applied>>

\* mapAPIError and IsRetryable: what may pass is tried again, the rest is final, and so
\* is an answer that says yes and cannot be read.
Receive ==
  /\ pc = "await"
  /\ answer # ""
  /\ \/ answer \in Transient /\ Failed(answer)
     \/ answer = "unreadable" /\ EndCall("upstream_unavailable")
     \/ answer \in Refusal \cup {"ok"} /\ EndCall(answer)
  /\ UNCHANGED <<kind, expired, answer, google>>

\* sleepCtx: the timer fires, or the context ends the call.
Backoff ==
  /\ pc = "backoff"
  /\ \/ pc' = "send" /\ UNCHANGED <<attempt, lastErr, result>>
     \/ expired /\ EndCall("upstream_unavailable")
  /\ UNCHANGED <<kind, expired, answer, google>>

Expire ==
  /\ ~expired /\ pc # "done"
  /\ expired' = TRUE
  /\ UNCHANGED <<kind, pc, attempt, answer, lastErr, result, google>>

-----------------------------------------------------------------------------
(* Google.                                                                 *)

\* Nobody listens to the answer of an attempt the client has given up on.
Says(n, a) == answer' = IF pc = "await" /\ n = attempt THEN a ELSE answer

CarryOut(n) ==
  /\ n \in flying
  /\ flying' = flying \ {n}
  /\ \/ /\ \E a \in Transient \cup (Refusal \ {"not_found"}) : Says(n, a)
        /\ UNCHANGED <<file, applied>>
     \/ /\ kind # "create" /\ ~file
        /\ Says(n, "not_found")
        /\ UNCHANGED <<file, applied>>
     \/ /\ kind = "create" \/ file
        /\ applied' = applied + 1
        /\ file' = (file /\ kind # "delete")
        /\ \E a \in {"ok", "unreadable", "upstream_unavailable"} :
             /\ a = "unreadable" => kind # "delete"   \* its body is not read
             /\ Says(n, a)
  /\ UNCHANGED caller

\* Somebody else deletes the file, or restores it.
OthersChange ==
  /\ file' = ~file
  /\ UNCHANGED <<caller, answer, flying, applied>>

Client == Send \/ TransportError \/ Receive \/ Backoff

CallNext == Client \/ Expire \/ (\E n \in 1..MaxAttempts : CarryOut(n)) \/ OthersChange

CallSpec == CallInit /\ [][CallNext]_callVars

\* The call's context has a deadline, and Do returns when it is reached.
CallFairness == WF_callVars(Client) /\ WF_callVars(Expire)

CallFairSpec == CallSpec /\ CallFairness

-----------------------------------------------------------------------------
(* Properties                                                              *)

\* docs/api.md: "a retried create would leave two folders behind".  However requests and
\* answers are lost, delayed and answered with errors, a create happens at most once.
CreatedAtMostOnce == kind = "create" => applied <= 1

\* What the user is told has been done was done, by this very call.
OkMeansDone == result = "ok" => applied > 0

\* An answer to a call that was not repeated is the whole truth, and stays it: Google did
\* what was asked exactly if it said so, and nothing of the call is left that could undo a
\* newer change.  After a retry neither holds: an attempt thought lost may be done late.
UnretriedAnswerIsFinal ==
  pc = "done" /\ attempt = 1 /\ result \notin Transient =>
    flying = {} /\ applied = (IF result = "ok" THEN 1 ELSE 0)

\* A failure that may pass reaches the user only when every attempt is spent, when the
\* time is, or when Google's "yes" could not be read.
GivesUpOnlyWhenSpent ==
  result \in Transient => attempt = Attempts \/ expired \/ answer = "unreadable"

\* Once the context of a call has ended it sends Google nothing more.
SilentAfterExpiry == [][expired => flying' \subseteq flying]_callVars

\* Every attempt on its way is one that was made, each answered one was, and a create
\* has only one.
IInv ==
  /\ CallTypeOK
  /\ attempt <= Attempts
  /\ flying \subseteq 1..attempt
  /\ pc = "send" \/ pc = "backoff" => attempt \notin flying
  /\ pc = "await" /\ answer # "" => attempt \notin flying
  /\ applied + Cardinality(flying) <= attempt
  /\ pc = "send" => applied + Cardinality(flying) < attempt
  /\ pc = "backoff" => applied + Cardinality(flying) < attempt
  /\ pc = "await" /\ answer \in {"ok", "unreadable"} => applied > 0
  /\ result = "ok" => applied > 0
  /\ pc # "done" => result = ""
  /\ GivesUpOnlyWhenSpent
=============================================================================
