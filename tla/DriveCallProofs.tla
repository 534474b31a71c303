--------------------------- MODULE DriveCallProofs ---------------------------
(***************************************************************************)
(* What DriveCall promises, for any number of attempts, of a call by       *)
(* itself and of the calls of a handler (FileOperations).                  *)
(*                                                                         *)
(* The argument is a count: what Google did, and the attempts that may     *)
(* still reach it, are together no more than the attempts made, and the    *)
(* client makes no more than Attempts, which is one for a create.          *)
(***************************************************************************)
EXTENDS FileOperations, TLAPS, FiniteSetTheorems

\* The count of IInv, and that every attempt on its way is one that was made.
Count ==
  /\ flying \subseteq 1..attempt
  /\ applied + Cardinality(flying) <= attempt
  /\ pc = "send" \/ pc = "backoff" =>
       attempt \notin flying /\ applied + Cardinality(flying) < attempt

LEMMA AttemptsBound ==
  /\ MaxAttempts \in Nat /\ Attempts \in Nat
  /\ 1 <= Attempts /\ Attempts <= MaxAttempts
BY AttemptsAssumption DEF Attempts

\* Attempts on their way are finitely many.
LEMMA FlyingFinite ==
  CallTypeOK => IsFiniteSet(flying) /\ Cardinality(flying) \in Nat
<1> SUFFICES ASSUME CallTypeOK PROVE IsFiniteSet(flying) /\ Cardinality(flying) \in Nat
  OBVIOUS
<1>1. IsFiniteSet(1..MaxAttempts)
  BY FS_Interval, AttemptsBound
<1> QED BY <1>1, FS_Subset, FS_CardinalityType DEF CallTypeOK

LEMMA InitIInv == CallInit => IInv
<1> SUFFICES ASSUME CallInit PROVE IInv
  OBVIOUS
<1>1. Cardinality(flying) = 0
  BY FS_EmptySet DEF CallInit
<1>2. 1 \in 1..MaxAttempts /\ 0 \in 0..MaxAttempts
  BY AttemptsAssumption
<1>3. CallTypeOK
  BY <1>2 DEF CallInit, CallTypeOK
<1>4. attempt <= Attempts
  <2>1. attempt = 1
    BY DEF CallInit
  <2> QED BY <2>1, AttemptsBound
<1>5. flying = {} /\ applied = 0 /\ attempt = 1
  BY DEF CallInit
<1>6. applied + Cardinality(flying) <= attempt /\ applied + Cardinality(flying) < attempt
  BY <1>1, <1>5
<1>7. flying \subseteq 1..attempt /\ attempt \notin flying
  BY <1>5
<1>8. pc = "send" /\ result = ""
  BY DEF CallInit
<1>9. "" \notin Transient
  BY DEF Transient
<1> QED BY <1>3, <1>4, <1>6, <1>7, <1>8, <1>9 DEF IInv, GivesUpOnlyWhenSpent

-----------------------------------------------------------------------------
(* The attempts.                                                           *)

\* IInv, in parts: the types but for the counter, the count, and what the client knows.
Typed ==
  /\ kind \in Kind
  /\ pc \in {"send", "await", "backoff", "done"}
  /\ attempt \in 1..MaxAttempts
  /\ answer \in Answer \cup {""}
  /\ lastErr \in Transient \cup {""}
  /\ result \in Result \cup {""}
  /\ expired \in BOOLEAN
  /\ file \in BOOLEAN
  /\ applied \in Nat
Known ==
  /\ attempt <= Attempts
  /\ pc = "await" /\ answer # "" => attempt \notin flying
  /\ pc = "await" /\ answer \in {"ok", "unreadable"} => applied > 0
  /\ result = "ok" => applied > 0
  /\ pc # "done" => result = ""
  /\ GivesUpOnlyWhenSpent

Parted == Typed /\ Count /\ Known

LEMMA Parts == IInv <=> Parted
<1>1. IInv => Parted
  <2> SUFFICES ASSUME IInv PROVE Parted
    OBVIOUS
  <2>1. Typed
    <3>1. applied \in Nat
      <4>1. applied \in 0..MaxAttempts
        BY DEF IInv, CallTypeOK
      <4> QED BY <4>1, AttemptsBound
    <3> QED BY <3>1 DEF IInv, CallTypeOK, Typed
  <2> QED BY <2>1 DEF Parted, IInv, Count, Known
<1>2. Parted => IInv
  <2> SUFFICES ASSUME Parted PROVE IInv
    OBVIOUS
  <2>1. flying \subseteq 1..MaxAttempts
    <3>1. attempt \in 1..MaxAttempts /\ flying \subseteq 1..attempt
      BY DEF Parted, Typed, Count
    <3> QED BY <3>1, AttemptsBound
  <2>2. Cardinality(flying) \in Nat
    <3>1. IsFiniteSet(1..MaxAttempts)
      BY FS_Interval, AttemptsBound
    <3> QED BY <2>1, <3>1, FS_Subset, FS_CardinalityType
  <2>3. applied \in 0..MaxAttempts
    <3>1. /\ applied \in Nat /\ attempt \in 1..MaxAttempts
          /\ applied + Cardinality(flying) <= attempt
      BY DEF Parted, Typed, Count
    <3> QED BY <2>2, <3>1, AttemptsBound
  <2>4. CallTypeOK
    BY <2>1, <2>3 DEF Parted, CallTypeOK, Typed
  <2> QED BY <2>4 DEF Parted, IInv, Count, Known
<1> QED BY <1>1, <1>2

\* What a failure that may pass does to the client.
LEMMA FailedStep ==
  \A e \in Transient : Typed /\ Known /\ pc # "done" /\ Failed(e) =>
    /\ pc' \in {"backoff", "done"}
    /\ lastErr' = e
    /\ attempt' \in 1..MaxAttempts /\ attempt' <= Attempts
    /\ pc' = "backoff" => attempt' = attempt + 1 /\ result' = ""
    /\ pc' = "done" => attempt' = attempt /\ attempt' = Attempts /\ result' = e
<1> SUFFICES ASSUME NEW e \in Transient, Typed, Known, pc # "done", Failed(e)
             PROVE  /\ pc' \in {"backoff", "done"}
                    /\ lastErr' = e
                    /\ attempt' \in 1..MaxAttempts /\ attempt' <= Attempts
                    /\ pc' = "backoff" => attempt' = attempt + 1 /\ result' = ""
                    /\ pc' = "done" => attempt' = attempt /\ attempt' = Attempts /\ result' = e
  OBVIOUS
<1>1. attempt \in 1..MaxAttempts /\ attempt <= Attempts
  BY DEF Typed, Known
<1>0. result = ""
  BY DEF Known
<1>2. CASE attempt < Attempts
  <2>1. pc' = "backoff" /\ attempt' = attempt + 1 /\ lastErr' = e /\ result' = result
    BY <1>2 DEF Failed
  <2>2. attempt' \in 1..MaxAttempts /\ attempt' <= Attempts
    BY <1>1, <1>2, <2>1, AttemptsBound
  <2> QED BY <1>0, <2>1, <2>2
<1>3. CASE ~(attempt < Attempts)
  <2>1. pc' = "done" /\ lastErr' = e /\ result' = e /\ attempt' = attempt
    BY <1>3 DEF Failed
  <2>2. attempt' \in 1..MaxAttempts /\ attempt' = Attempts /\ attempt' <= Attempts
    BY <1>1, <1>3, <2>1, AttemptsBound
  <2> QED BY <2>1, <2>2
<1> QED BY <1>2, <1>3

\* An attempt that failed leaves fewer attempts on their way than it found, or as many.
LEMMA FailedCount ==
  \A e \in Transient :
    /\ Parted /\ pc # "done" /\ Failed(e)
    /\ flying' \subseteq flying /\ applied' = applied
    => Count'
<1> SUFFICES ASSUME NEW e \in Transient, Parted, pc # "done", Failed(e),
                    flying' \subseteq flying, applied' = applied
             PROVE  Count'
  OBVIOUS
<1>1. IsFiniteSet(flying) /\ Cardinality(flying) \in Nat
  BY FlyingFinite, Parts DEF IInv
<1>2. Cardinality(flying') \in Nat /\ Cardinality(flying') <= Cardinality(flying)
  BY <1>1, FS_Subset, FS_CardinalityType
<1>3. Typed /\ Known /\ Count
  BY DEF Parted
<1>4. /\ pc' \in {"backoff", "done"}
      /\ pc' = "backoff" => attempt' = attempt + 1
      /\ pc' = "done" => attempt' = attempt
  BY <1>3, FailedStep
<1>5. attempt \in Nat /\ applied \in Nat
  <2>1. attempt \in 1..MaxAttempts /\ applied \in Nat
    BY <1>3 DEF Typed
  <2> QED BY <2>1, AttemptsBound
<1>6. /\ flying \subseteq 1..attempt
      /\ applied + Cardinality(flying) <= attempt
  BY <1>3 DEF Count
<1>7. CASE pc' = "backoff"
  <2>1. attempt' = attempt + 1
    BY <1>4, <1>7
  <2>2. flying' \subseteq 1..attempt'
    BY <1>5, <1>6, <2>1
  <2>3. attempt' \notin flying'
    BY <1>5, <1>6, <2>1
  <2>4. applied' + Cardinality(flying') < attempt'
    BY <1>2, <1>1, <1>5, <1>6, <2>1
  <2>5. applied' + Cardinality(flying') <= attempt'
    BY <1>2, <1>1, <1>5, <1>6, <2>1
  <2> QED BY <2>2, <2>3, <2>4, <2>5 DEF Count
<1>8. CASE pc' = "done"
  <2>1. applied' + Cardinality(flying') <= attempt'
    BY <1>2, <1>1, <1>4, <1>5, <1>6, <1>8
  <2> QED BY <1>4, <1>6, <1>8, <2>1 DEF Count
<1> QED BY <1>4, <1>7, <1>8

\* A failure that may pass keeps the invariant, whatever becomes of the request.
LEMMA FailedKeeps ==
  \A e \in Transient :
    /\ Parted /\ pc # "done" /\ Failed(e)
    /\ flying' \subseteq flying /\ answer' \in Answer \cup {""}
    /\ UNCHANGED <<kind, expired, file, applied>>
    => Parted'
<1> SUFFICES ASSUME NEW e \in Transient, Parted, pc # "done", Failed(e),
                    flying' \subseteq flying, answer' \in Answer \cup {""},
                    UNCHANGED <<kind, expired, file, applied>>
             PROVE  Parted'
  OBVIOUS
<1>1. Typed /\ Known
  BY DEF Parted
<1>2. Count'
  BY FailedCount
<1>3. /\ pc' \in {"backoff", "done"}
      /\ lastErr' = e
      /\ attempt' \in 1..MaxAttempts /\ attempt' <= Attempts
      /\ pc' = "backoff" => result' = ""
      /\ pc' = "done" => result' = e
  BY <1>1, FailedStep
<1>4. e \in Result /\ e # "ok"
  BY DEF Transient, Result
<1>5. Attempts' = Attempts
  BY DEF Attempts, Idempotent
<1>6. Typed'
  BY <1>1, <1>3, <1>4 DEF Typed
<1>7. Known'
  <2>1. "" \notin Transient
    BY DEF Transient
  <2>2. result' # "ok" /\ (pc' # "done" => result' = "") /\ attempt' <= Attempts'
    BY <1>3, <1>4, <1>5
  <2>3. result' \in Transient => attempt' = Attempts'
    BY <1>1, <1>3, <1>5, <2>1, FailedStep
  <2>4. pc' # "await"
    BY <1>3
  <2> QED BY <2>2, <2>3, <2>4 DEF Known, GivesUpOnlyWhenSpent
<1> QED BY <1>2, <1>6, <1>7 DEF Parted

LEMMA SendStep == Parted /\ Send => Parted'
<1> SUFFICES ASSUME Parted, Send PROVE Parted'
  OBVIOUS
<1>0. pc = "send" /\ answer' = "" /\ UNCHANGED <<kind, expired, file, applied>>
  BY DEF Send
<1>1. CASE expired
  <2>1. Failed("upstream_unavailable") /\ flying' = flying
    BY <1>1 DEF Send
  <2>2. "upstream_unavailable" \in Transient
    BY DEF Transient
  <2> QED BY <1>0, <2>1, <2>2, FailedKeeps
<1>2. CASE ~expired
  <2>1. /\ flying' = flying \cup {attempt} /\ pc' = "await"
        /\ UNCHANGED <<attempt, lastErr, result>>
    BY <1>2 DEF Send
  <2>2. Typed'
    BY <1>0, <2>1 DEF Parted, Typed
  <2>3. Attempts' = Attempts
    BY <1>0 DEF Attempts, Idempotent
  <2>4. Known'
    <3>1. "" \notin Transient
      BY DEF Transient
    <3> QED BY <1>0, <2>1, <2>3, <3>1 DEF Parted, Known, GivesUpOnlyWhenSpent
  <2>5. /\ flying \subseteq 1..attempt /\ attempt \notin flying
        /\ applied + Cardinality(flying) < attempt
    BY <1>0 DEF Parted, Count
  <2>6. IsFiniteSet(flying) /\ Cardinality(flying) \in Nat
    BY FlyingFinite, Parts DEF IInv
  <2>7. Cardinality(flying') = Cardinality(flying) + 1
    BY <2>1, <2>5, <2>6, FS_AddElement
  <2>8. attempt \in Nat /\ applied \in Nat /\ 1 <= attempt
    <3>1. attempt \in 1..MaxAttempts /\ applied \in Nat
      BY DEF Parted, Typed
    <3> QED BY <3>1, AttemptsBound
  <2>9. applied' + Cardinality(flying') <= attempt'
    <3>1. applied + Cardinality(flying) < attempt
      BY <2>5
    <3>2. applied + (Cardinality(flying) + 1) <= attempt
      BY <2>6, <2>8, <3>1
    <3> QED BY <1>0, <2>1, <2>7, <3>2
  <2>10. flying' \subseteq 1..attempt'
    BY <2>1, <2>5, <2>8
  <2>11. Count'
    BY <2>1, <2>9, <2>10 DEF Count
  <2> QED BY <2>2, <2>4, <2>11 DEF Parted
<1> QED BY <1>1, <1>2

LEMMA TransportStep == Parted /\ TransportError => Parted'
<1> SUFFICES ASSUME Parted, TransportError PROVE Parted'
  OBVIOUS
<1>1. "upstream_unavailable" \in Transient
  BY DEF Transient
<1>2. flying' \subseteq flying
  BY DEF TransportError
<1>3. answer' \in Answer \cup {""}
  BY DEF Parted, Typed, TransportError
<1> QED BY <1>1, <1>2, <1>3, FailedKeeps DEF TransportError

\* A call that ends keeps the counts, and may end as done if it was done.
LEMMA EndKeeps ==
  \A r \in Result :
    /\ Parted /\ EndCall(r) /\ (r = "ok" => applied > 0)
    /\ r \in Transient => expired \/ answer = "unreadable"
    /\ UNCHANGED <<kind, expired, answer, google>>
    => Parted'
<1> SUFFICES ASSUME NEW r \in Result, Parted, EndCall(r), r = "ok" => applied > 0,
                    r \in Transient => expired \/ answer = "unreadable",
                    UNCHANGED <<kind, expired, answer, google>>
             PROVE  Parted'
  OBVIOUS
<1>1. pc' = "done" /\ result' = r /\ UNCHANGED <<attempt, lastErr, flying, file, applied>>
  BY DEF EndCall, google
<1>2. Typed'
  BY <1>1 DEF Parted, Typed
<1>3. Count'
  BY <1>1 DEF Parted, Count
<1>4. Attempts' = Attempts
  BY DEF Attempts, Idempotent
<1>5. Known'
  BY <1>1, <1>4 DEF Parted, Known, GivesUpOnlyWhenSpent
<1> QED BY <1>2, <1>3, <1>5 DEF Parted

LEMMA ReceiveStep == Parted /\ Receive => Parted'
<1> SUFFICES ASSUME Parted, Receive PROVE Parted'
  OBVIOUS
<1>1. pc = "await" /\ answer # "" /\ UNCHANGED <<kind, expired, answer, google>>
  BY DEF Receive
<1>2. CASE answer \in Transient /\ Failed(answer)
  <2>1. answer' \in Answer \cup {""}
    BY <1>1 DEF Parted, Typed
  <2>2. flying' \subseteq flying /\ UNCHANGED <<file, applied>>
    BY <1>1 DEF google
  <2> QED BY <1>1, <1>2, <2>1, <2>2, FailedKeeps
<1>3. CASE answer = "unreadable" /\ EndCall("upstream_unavailable")
  <2>1. "upstream_unavailable" \in Result
    BY DEF Result, Transient
  <2> QED BY <1>1, <1>3, <2>1, EndKeeps
<1>4. CASE answer \in Refusal \cup {"ok"} /\ EndCall(answer)
  <2>1. answer \in Result
    BY <1>4 DEF Result
  <2>2. answer = "ok" => applied > 0
    BY <1>1 DEF Parted, Known
  <2>3. answer \notin Transient
    BY <1>4 DEF Refusal, Transient
  <2> QED BY <1>1, <1>4, <2>1, <2>2, <2>3, EndKeeps
<1> QED BY <1>2, <1>3, <1>4 DEF Receive

LEMMA BackoffStep == Parted /\ Backoff => Parted'
<1> SUFFICES ASSUME Parted, Backoff PROVE Parted'
  OBVIOUS
<1>1. pc = "backoff" /\ UNCHANGED <<kind, expired, answer, google>>
  BY DEF Backoff
<1>2. CASE pc' = "send" /\ UNCHANGED <<attempt, lastErr, result>>
  <2>1. UNCHANGED <<flying, file, applied>>
    BY <1>1 DEF google
  <2>2. Typed'
    BY <1>1, <1>2, <2>1 DEF Parted, Typed
  <2>3. Count'
    BY <1>1, <1>2, <2>1 DEF Parted, Count
  <2>4. Attempts' = Attempts
    BY <1>1 DEF Attempts, Idempotent
  <2>5. Known'
    BY <1>1, <1>2, <2>1, <2>4 DEF Parted, Known, GivesUpOnlyWhenSpent
  <2> QED BY <2>2, <2>3, <2>5 DEF Parted
<1>3. CASE expired /\ EndCall("upstream_unavailable")
  <2>1. "upstream_unavailable" \in Result
    BY DEF Result, Transient
  <2> QED BY <1>1, <1>3, <2>1, EndKeeps
<1> QED BY <1>2, <1>3 DEF Backoff

-----------------------------------------------------------------------------
(* Google.                                                                 *)

\* Google gets to an attempt: one fewer is on its way, and at most one more is done.
LEMMA CarryOutCount ==
  \A n \in flying :
    /\ Parted /\ flying' = flying \ {n}
    /\ applied' \in {applied, applied + 1}
    /\ UNCHANGED <<pc, attempt>>
    => Count'
<1> SUFFICES ASSUME NEW n \in flying, Parted, flying' = flying \ {n},
                    applied' \in {applied, applied + 1}, UNCHANGED <<pc, attempt>>
             PROVE  Count'
  OBVIOUS
<1>1. IsFiniteSet(flying) /\ Cardinality(flying) \in Nat
  BY FlyingFinite, Parts DEF IInv
<1>2. Cardinality(flying') = Cardinality(flying) - 1
  BY <1>1, FS_RemoveElement
<1>3. attempt \in Nat /\ applied \in Nat
  <2>1. attempt \in 1..MaxAttempts /\ applied \in Nat
    BY DEF Parted, Typed
  <2> QED BY <2>1, AttemptsBound
<1>4. applied + Cardinality(flying) <= attempt
  BY DEF Parted, Count
<1>5. applied' + Cardinality(flying') <= attempt'
  BY <1>1, <1>2, <1>3, <1>4
<1>6. pc = "send" \/ pc = "backoff" => applied' + Cardinality(flying') < attempt'
  <2>1. pc = "send" \/ pc = "backoff" => applied + Cardinality(flying) < attempt
    BY DEF Parted, Count
  <2> QED BY <1>1, <1>2, <1>3, <2>1
<1>7. flying' \subseteq 1..attempt'
  BY DEF Parted, Count
<1>8. pc = "send" \/ pc = "backoff" => attempt' \notin flying'
  BY DEF Parted, Count
<1> QED BY <1>5, <1>6, <1>7, <1>8 DEF Count

LEMMA CarryOutStep == \A n \in 1..MaxAttempts : Parted /\ CarryOut(n) => Parted'
<1> SUFFICES ASSUME NEW n \in 1..MaxAttempts, Parted, CarryOut(n) PROVE Parted'
  OBVIOUS
<1>1. n \in flying /\ flying' = flying \ {n}
  BY DEF CarryOut
<1>2. UNCHANGED <<kind, pc, attempt, lastErr, result, expired>>
  BY DEF CarryOut, caller
<1>3. /\ applied' = applied \/ applied' = applied + 1
      /\ file' \in BOOLEAN
      /\ \E a \in Answer :
           /\ Says(n, a)
           /\ a \in {"ok", "unreadable"} => applied' = applied + 1
  <2>1. CASE /\ \E a \in Transient \cup (Refusal \ {"not_found"}) : Says(n, a)
             /\ UNCHANGED <<file, applied>>
    <3>1. PICK a \in Transient \cup (Refusal \ {"not_found"}) : Says(n, a)
      BY <2>1
    <3>2. a \in Answer /\ a \notin {"ok", "unreadable"}
      BY DEF Answer, Transient, Refusal
    <3> QED BY <2>1, <3>1, <3>2 DEF Parted, Typed
  <2>2. CASE Says(n, "not_found") /\ UNCHANGED <<file, applied>>
    <3>1. "not_found" \in Answer
      BY DEF Answer, Refusal
    <3> QED BY <2>2, <3>1 DEF Parted, Typed
  <2>3. CASE /\ applied' = applied + 1
             /\ file' = (file /\ kind # "delete")
             /\ \E a \in {"ok", "unreadable", "upstream_unavailable"} : Says(n, a)
    <3>1. PICK a \in {"ok", "unreadable", "upstream_unavailable"} : Says(n, a)
      BY <2>3
    <3>2. a \in Answer
      BY DEF Answer, Transient
    <3>3. file' \in BOOLEAN
      BY <2>3
    <3> QED BY <2>3, <3>1, <3>2, <3>3
  <2> QED BY <2>1, <2>2, <2>3 DEF CarryOut
<1>4. PICK a \in Answer :
           /\ Says(n, a)
           /\ a \in {"ok", "unreadable"} => applied' = applied + 1
  BY <1>3
<1>5. applied \in Nat
  BY DEF Parted, Typed
<1>6. applied' \in Nat /\ (applied > 0 => applied' > 0)
  BY <1>3, <1>5
<1>7. a \in {"ok", "unreadable"} => applied' > 0
  BY <1>4, <1>5
<1>8. answer' = IF pc = "await" /\ n = attempt THEN a ELSE answer
  BY <1>4 DEF Says
<1>9. Typed'
  <2>1. answer' \in Answer \cup {""}
    BY <1>8 DEF Parted, Typed
  <2> QED BY <1>2, <1>3, <1>6, <2>1 DEF Parted, Typed
<1>10. Count'
  BY <1>1, <1>2, <1>3, CarryOutCount
<1>11. Attempts' = Attempts
  BY <1>2 DEF Attempts, Idempotent
<1>12. attempt' <= Attempts' /\ (result' = "ok" => applied' > 0) /\ (pc' # "done" => result' = "")
  BY <1>2, <1>6, <1>11 DEF Parted, Known
<1>13. pc' = "await" /\ answer' # "" => attempt' \notin flying'
  BY <1>1, <1>2, <1>8 DEF Parted, Known
<1>14. pc' = "await" /\ answer' \in {"ok", "unreadable"} => applied' > 0
  BY <1>2, <1>6, <1>7, <1>8 DEF Parted, Known
<1>15. GivesUpOnlyWhenSpent'
  <2>1. "" \notin Transient
    BY DEF Transient
  <2> QED BY <1>2, <1>8, <1>11, <2>1 DEF Parted, Known, GivesUpOnlyWhenSpent
<1>16. Known'
  BY <1>12, <1>13, <1>14, <1>15 DEF Known
<1> QED BY <1>9, <1>10, <1>16 DEF Parted

LEMMA QuietStep == Parted /\ (Expire \/ OthersChange \/ UNCHANGED callVars) => Parted'
<1> SUFFICES ASSUME Parted, Expire \/ OthersChange \/ UNCHANGED callVars PROVE Parted'
  OBVIOUS
<1>1. /\ UNCHANGED <<kind, pc, attempt, answer, lastErr, result, flying, applied>>
      /\ expired' \in BOOLEAN /\ file' \in BOOLEAN
  BY DEF Expire, OthersChange, callVars, caller, google, Parted, Typed
<1>2. Typed'
  BY <1>1 DEF Parted, Typed
<1>3. Count'
  BY <1>1 DEF Parted, Count
<1>4. Attempts' = Attempts
  BY <1>1 DEF Attempts, Idempotent
<1>5. Known'
  <2>1. expired => expired'
    BY DEF Expire, OthersChange, callVars, caller
  <2> QED BY <1>1, <1>4, <2>1 DEF Parted, Known, GivesUpOnlyWhenSpent
<1> QED BY <1>2, <1>3, <1>5 DEF Parted

LEMMA PartedStep == Parted /\ [CallNext]_callVars => Parted'
BY SendStep, TransportStep, ReceiveStep, BackoffStep, CarryOutStep, QuietStep DEF CallNext, Client

LEMMA PartedInv == CallSpec => []Parted
<1>1. CallInit => Parted
  BY InitIInv, Parts
<1> QED BY <1>1, PartedStep, PTL DEF CallSpec

-----------------------------------------------------------------------------
(* What follows.                                                           *)

\* The inductive invariant: what Google did and may yet do is no more than was tried.
THEOREM Invariance == CallSpec => []IInv
BY PartedInv, Parts, PTL

\* Every variable keeps its type; above all the attempts stay within maxAttempts.
THEOREM TypeCorrect == CallSpec => []CallTypeOK
<1>1. IInv => CallTypeOK
  BY DEF IInv
<1> QED BY <1>1, Invariance, PTL

LEMMA CreateOnceOfIInv == IInv => CreatedAtMostOnce
<1> SUFFICES ASSUME IInv, kind = "create" PROVE applied <= 1
  BY DEF CreatedAtMostOnce
<1>1. Attempts = 1
  BY DEF Attempts, Idempotent
<1>2. attempt <= Attempts /\ applied + Cardinality(flying) <= attempt
  BY DEF IInv
<1>3. Cardinality(flying) \in Nat
  BY FlyingFinite DEF IInv
<1>4. attempt \in 1..MaxAttempts /\ applied \in Nat
  BY Parts DEF Parted, Typed
<1> QED BY <1>1, <1>2, <1>3, <1>4, AttemptsBound

\* A create reaches Google at most once, whatever is lost, late or answered 5xx: it has
\* one attempt (callSpec.idempotent is false).
THEOREM CreateOnce == CallSpec => []CreatedAtMostOnce
BY CreateOnceOfIInv, Invariance, PTL

\* "ok" is the answer of a Google that did what the call asks.
THEOREM OkIsDone == CallSpec => []OkMeansDone
<1>1. IInv => OkMeansDone
  BY DEF IInv, OkMeansDone
<1> QED BY <1>1, Invariance, PTL

\* A failure that may pass is the user's only when repeating it was of no use any more:
\* call returns lastErr after the last attempt, or the context's end.
THEOREM GivesUpLast == CallSpec => []GivesUpOnlyWhenSpent
<1>1. IInv => GivesUpOnlyWhenSpent
  BY DEF IInv
<1> QED BY <1>1, Invariance, PTL

\* No attempt is made with a context that has ended.
THEOREM Silent == CallSpec => SilentAfterExpiry
<1>1. [CallNext]_callVars => [expired => flying' \subseteq flying]_callVars
  <2> SUFFICES ASSUME [CallNext]_callVars, expired PROVE flying' \subseteq flying
    OBVIOUS
  <2>1. CASE Client
    BY <2>1 DEF Client, Send, TransportError, Receive, Backoff, google
  <2>2. CASE Expire \/ OthersChange \/ UNCHANGED callVars
    BY <2>2 DEF Expire, OthersChange, callVars, google
  <2>3. CASE \E n \in 1..MaxAttempts : CarryOut(n)
    BY <2>3 DEF CarryOut
  <2> QED BY <2>1, <2>2, <2>3 DEF CallNext
<1> QED BY <1>1, PTL DEF CallSpec, SilentAfterExpiry

-----------------------------------------------------------------------------
(* The first attempt: as long as it is the only one, what Google has done  *)
(* of it and what the client has heard of it agree.                        *)

First ==
  attempt = 1 =>
    /\ pc = "send" => flying = {} /\ applied = 0
    /\ pc = "await" /\ answer = "" => flying = {1} /\ applied = 0
    /\ pc = "await" /\ answer # "" => flying = {}
    /\ pc = "await" /\ answer \in Refusal => applied = 0
    /\ pc = "await" /\ answer = "ok" => applied = 1
    /\ pc # "backoff"
    /\ UnretriedAnswerIsFinal

LEMMA Apart ==
  /\ "ok" \notin Transient /\ "ok" \notin Refusal /\ "unreadable" \notin Refusal
  /\ "" \notin Transient \cup Refusal \cup {"ok", "unreadable"}
  /\ "upstream_unavailable" \in Transient
  /\ Refusal \cap Transient = {} /\ "not_found" \in Refusal
BY DEF Transient, Refusal

LEMMA FirstClient == Parted /\ First /\ Client => First'
<1> SUFFICES ASSUME Parted, First, Client, attempt' = 1 PROVE First'
  BY DEF First
<1>1. attempt \in Nat /\ 1 <= attempt
  <2>1. attempt \in 1..MaxAttempts
    BY DEF Parted, Typed
  <2> QED BY <2>1, AttemptsBound
<1>2. ASSUME NEW e \in Transient, Failed(e) PROVE attempt = 1 /\ pc' = "done" /\ result' \in Transient
  BY <1>1, <1>2 DEF Failed
<1>3. CASE Send
  <2>1. CASE expired
    BY <1>2, <1>3, <2>1, Apart DEF Send, First, UnretriedAnswerIsFinal
  <2>2. CASE ~expired
    BY <1>3, <2>2 DEF Send, First, UnretriedAnswerIsFinal
  <2> QED BY <2>1, <2>2
<1>4. CASE TransportError
  BY <1>2, <1>4, Apart DEF TransportError, First, UnretriedAnswerIsFinal
<1>5. CASE Receive
  <2>1. CASE answer \in Transient /\ Failed(answer)
    BY <1>2, <1>5, <2>1, Apart DEF Receive, First, UnretriedAnswerIsFinal
  <2>2. CASE answer = "unreadable" /\ EndCall("upstream_unavailable")
    BY <1>5, <2>2, Apart DEF Receive, EndCall, First, UnretriedAnswerIsFinal
  <2>3. CASE answer \in Refusal \cup {"ok"} /\ EndCall(answer)
    BY <1>5, <2>3, Apart DEF Receive, EndCall, First, UnretriedAnswerIsFinal, google
  <2> QED BY <1>5, <2>1, <2>2, <2>3 DEF Receive
<1>6. CASE Backoff
  BY <1>6 DEF Backoff, First, EndCall
<1> QED BY <1>3, <1>4, <1>5, <1>6 DEF Client

LEMMA FirstCarryOut == \A n \in 1..MaxAttempts : Parted /\ First /\ CarryOut(n) => First'
<1> SUFFICES ASSUME NEW n \in 1..MaxAttempts, Parted, First, CarryOut(n), attempt' = 1
             PROVE  First'
  BY DEF First
<1>1. /\ n \in flying /\ flying' = flying \ {n}
      /\ UNCHANGED <<kind, pc, attempt, lastErr, result, expired>>
  BY DEF CarryOut, caller
<1>2. pc # "send" /\ pc # "backoff"
  BY <1>1 DEF First
<1>3. CASE pc = "await"
  <2>0. attempt = 1
    BY <1>1
  <2>1. answer = "" /\ flying = {1} /\ applied = 0
    BY <1>1, <1>3, <2>0 DEF First
  <2>2. n = 1 /\ flying' = {}
    BY <1>1, <2>1
  <2>3. \/ answer' \in Transient \cup Refusal /\ applied' = 0
        \/ answer' \in {"ok", "unreadable", "upstream_unavailable"} /\ applied' = 1
    <3>1. \A a : Says(n, a) => answer' = a
      BY <1>3, <2>0, <2>2 DEF Says
    <3>2. CASE (\E a \in Transient \cup (Refusal \ {"not_found"}) : Says(n, a)) /\ applied' = applied
      BY <3>1, <3>2, <2>1
    <3>3. CASE Says(n, "not_found") /\ applied' = applied
      BY <3>1, <3>3, <2>1, Apart
    <3>4. CASE /\ applied' = applied + 1
               /\ \E a \in {"ok", "unreadable", "upstream_unavailable"} : Says(n, a)
      <4>1. applied' = 1
        <5>1. applied' = applied + 1 /\ applied = 0
          BY <3>4, <2>1
        <5> QED BY <5>1
      <4> QED BY <3>1, <3>4, <4>1
    <3> QED BY <3>2, <3>3, <3>4 DEF CarryOut
  <2>4. /\ attempt' = 1 /\ pc' = "await" /\ flying' = {} /\ answer' # ""
        /\ answer' \in Refusal => applied' = 0
        /\ answer' = "ok" => applied' = 1
    <3>1. attempt' = 1 /\ pc' = "await" /\ flying' = {}
      BY <1>1, <1>3, <2>0, <2>2
    <3>2. CASE answer' \in Transient \cup Refusal /\ applied' = 0
      BY <3>1, <3>2, Apart
    <3>3. CASE answer' \in {"ok", "unreadable", "upstream_unavailable"} /\ applied' = 1
      BY <3>1, <3>3, Apart
    <3> QED BY <2>3, <3>2, <3>3
  <2> QED BY <2>4 DEF First, UnretriedAnswerIsFinal
<1>4. CASE pc = "done"
  BY <1>1, <1>4 DEF First, UnretriedAnswerIsFinal
<1> QED BY <1>2, <1>3, <1>4 DEF Parted, Typed

LEMMA FirstStep == Parted /\ First /\ [CallNext]_callVars => First'
<1>1. Parted /\ First /\ (Expire \/ OthersChange \/ UNCHANGED callVars) => First'
  BY DEF First, UnretriedAnswerIsFinal, Expire, OthersChange, callVars, caller, google
<1> QED BY <1>1, FirstClient, FirstCarryOut DEF CallNext

LEMMA FirstInit == CallInit => First
BY DEF CallInit, First, UnretriedAnswerIsFinal

\* An answer to the first attempt is final: Google did what it said it did, and nothing of
\* the call is still on its way (call returns what it has, and does not repeat it).
THEOREM FirstAnswerFinal == CallSpec => []UnretriedAnswerIsFinal
<1>1. Parted /\ First => UnretriedAnswerIsFinal
  BY DEF First, UnretriedAnswerIsFinal
<1> QED BY <1>1, PartedInv, PartedStep, FirstInit, FirstStep, PTL DEF CallSpec

-----------------------------------------------------------------------------
(* The calls of a handler.                                                 *)

\* The second call of a move begins as any call does.
LEMMA WriteMoveStep == Parted /\ WriteMove => (Parted /\ First)'
<1> SUFFICES ASSUME Parted, WriteMove PROVE (Parted /\ First)'
  OBVIOUS
<1>1. /\ kind' = "update" /\ pc' = "send" /\ attempt' = 1 /\ answer' = "" /\ lastErr' = ""
      /\ result' = "" /\ flying' = {} /\ applied' = 0 /\ UNCHANGED <<expired, file>>
  BY DEF WriteMove
<1>2. Cardinality(flying') = 0
  BY <1>1, FS_EmptySet
<1>3. 1 \in 1..MaxAttempts
  BY AttemptsBound
<1>4. Typed'
  BY <1>1, <1>3 DEF Parted, Typed, Kind
<1>5. Count'
  <2>1. applied' + Cardinality(flying') <= attempt' /\ applied' + Cardinality(flying') < attempt'
    <3>1. applied' = 0 /\ attempt' = 1
      BY <1>1
    <3> QED BY <3>1, <1>2
  <2>2. flying' \subseteq 1..attempt' /\ attempt' \notin flying'
    BY <1>1
  <2> QED BY <2>1, <2>2 DEF Count
<1>6. attempt' <= Attempts'
  <2>1. Attempts' = MaxAttempts
    BY <1>1 DEF Attempts, Idempotent
  <2>2. attempt' = 1
    BY <1>1
  <2>3. MaxAttempts \in Nat /\ 1 <= MaxAttempts
    BY AttemptsBound
  <2> QED BY <2>1, <2>2, <2>3
<1>7. Known'
  BY <1>1, <1>6, Apart DEF Known, GivesUpOnlyWhenSpent
<1>8. First'
  BY <1>1 DEF First, UnretriedAnswerIsFinal
<1> QED BY <1>4, <1>5, <1>7, <1>8 DEF Parted

LEMMA HandlerStep == [FNext]_fvars => [CallNext]_callVars \/ WriteMove
BY DEF FNext, fvars, FClient, FCarryOut, Interfere, CallNext, callVars

LEMMA HandlerInv == FSpec => [](Parted /\ First)
<1>1. FInit => Parted /\ First
  BY InitIInv, Parts, FirstInit DEF FInit
<1>2. Parted /\ First /\ [FNext]_fvars => (Parted /\ First)'
  BY HandlerStep, PartedStep, FirstStep, WriteMoveStep
<1> QED BY <1>1, <1>2, PTL DEF FSpec

\* What is promised of a call holds of each call of a handler, both calls of a move
\* included, whoever else changes the file.
THEOREM HandlersKeepPromises ==
  FSpec => [](CallTypeOK /\ CreatedAtMostOnce /\ OkMeansDone /\ UnretriedAnswerIsFinal)
<1>1. Parted /\ First => CallTypeOK /\ OkMeansDone /\ UnretriedAnswerIsFinal
  BY Parts DEF IInv, OkMeansDone, First, UnretriedAnswerIsFinal
<1>2. Parted => CreatedAtMostOnce
  BY Parts, CreateOnceOfIInv
<1> QED BY <1>1, <1>2, HandlerInv, PTL

-----------------------------------------------------------------------------
(* The file, as long as nobody else touches it.                            *)

CallOfOp == op \in Op /\ (kind = FirstCall[op] \/ (op = "move" /\ kind = "update"))

\* How far the change has come is known from whether Google has done what the call asks.
Lone ==
  /\ CallOfOp
  /\ ~disturbed =>
       /\ op = "rename" /\ applied > 0 => name = Mine
       /\ op = "move" /\ kind = "get" =>
            /\ parents = {Start}
            /\ (pc = "await" /\ answer = "ok") \/ result = "ok" => seen = {Start}
       /\ op = "move" /\ kind = "update" =>
            seen = {Start} /\ parents = (IF applied > 0 THEN {Dest} ELSE {Start})
       /\ op = "delete" =>
            (applied > 0 \/ answer = "not_found" \/ result = "not_found" => ~file)

LEMMA LoneInit == FInit => Lone
<1> SUFFICES ASSUME FInit PROVE Lone
  OBVIOUS
<1>1. op \in Op /\ kind = FirstCall[op] /\ parents = {Start} /\ name = Old
  BY DEF FInit
<1>2. applied = 0 /\ answer = "" /\ result = ""
  BY DEF FInit, CallInit
<1>3. op = "move" => kind # "update"
  BY <1>1 DEF FirstCall, Op
<1>4. ~(applied > 0)
  <2>1. applied = 0
    BY <1>2
  <2>2. ~(0 > 0)
    OBVIOUS
  <2> QED BY <2>1, <2>2
<1> QED BY <1>1, <1>2, <1>3, <1>4 DEF Lone, CallOfOp

LEMMA LoneClient == Parted /\ Lone /\ Client /\ UNCHANGED <<op, seen, fileState, disturbed>> => Lone'
<1> SUFFICES ASSUME Parted, Lone, Client, UNCHANGED <<op, seen, fileState, disturbed>> PROVE Lone'
  OBVIOUS
<1>1. UNCHANGED <<op, seen, parents, name, disturbed, kind, file, applied>>
  BY DEF Client, Send, TransportError, Receive, Backoff, google, fileState
<1>2. /\ pc' = "await" => answer' = ""
      /\ answer' \in {answer, ""}
      /\ result' = "ok" => result = "ok" \/ (pc = "await" /\ answer = "ok")
      /\ result' = "not_found" => result = "not_found" \/ answer = "not_found"
  <2>1. ASSUME NEW e \in Transient, Failed(e)
        PROVE  pc' # "await" /\ result' \in Transient \cup {result}
    BY <2>1 DEF Failed
  <2>2. "ok" \notin Transient /\ "not_found" \notin Transient /\ "upstream_unavailable" \in Transient
    BY DEF Transient
  <2>3. CASE Send
    <3>1. CASE expired
      BY <2>1, <2>2, <2>3, <3>1 DEF Send
    <3>2. CASE ~expired
      BY <2>3, <3>2 DEF Send
    <3> QED BY <3>1, <3>2
  <2>4. CASE TransportError
    BY <2>1, <2>2, <2>4 DEF TransportError
  <2>5. CASE Receive
    <3>1. CASE answer \in Transient /\ Failed(answer)
      BY <2>1, <2>2, <2>5, <3>1 DEF Receive
    <3>2. CASE answer = "unreadable" /\ EndCall("upstream_unavailable")
      BY <2>5, <3>2 DEF Receive, EndCall
    <3>3. CASE answer \in Refusal \cup {"ok"} /\ EndCall(answer)
      BY <2>5, <3>3 DEF Receive, EndCall
    <3> QED BY <2>5, <3>1, <3>2, <3>3 DEF Receive
  <2>6. CASE Backoff
    BY <2>6 DEF Backoff, EndCall
  <2> QED BY <2>3, <2>4, <2>5, <2>6 DEF Client
<1>3. CallOfOp'
  BY <1>1 DEF Lone, CallOfOp
<1>4. CASE disturbed
  BY <1>1, <1>3, <1>4 DEF Lone
<1>5. CASE ~disturbed
  <2>1. op = "rename" /\ applied' > 0 => name' = Mine
    BY <1>1, <1>5 DEF Lone
  <2>2. op = "move" /\ kind = "get" =>
          /\ parents' = {Start}
          /\ (pc' = "await" /\ answer' = "ok") \/ result' = "ok" => seen' = {Start}
    BY <1>1, <1>2, <1>5 DEF Lone
  <2>3. op = "move" /\ kind = "update" =>
          seen' = {Start} /\ parents' = (IF applied' > 0 THEN {Dest} ELSE {Start})
    BY <1>1, <1>5 DEF Lone
  <2>4. op = "delete" =>
          (applied' > 0 \/ answer' = "not_found" \/ result' = "not_found" => ~file')
    BY <1>1, <1>2, <1>5 DEF Lone
  <2> QED BY <1>1, <1>3, <2>1, <2>2, <2>3, <2>4 DEF Lone
<1> QED BY <1>4, <1>5

LEMMA LoneWriteMove == Parted /\ Lone /\ WriteMove => Lone'
<1> SUFFICES ASSUME Parted, Lone, WriteMove PROVE Lone'
  OBVIOUS
<1>1. /\ op = "move" /\ kind = "get" /\ result = "ok"
      /\ kind' = "update" /\ applied' = 0
      /\ UNCHANGED <<op, seen, parents, disturbed>>
  BY DEF WriteMove, MoreToDo, fileState
<1>2. op' \in Op
  BY <1>1 DEF Op
<1> QED BY <1>1, <1>2 DEF Lone, CallOfOp

LEMMA LoneCarryOut == \A n \in 1..MaxAttempts : Parted /\ Lone /\ FCarryOut(n) => Lone'
<1> SUFFICES ASSUME NEW n \in 1..MaxAttempts, Parted, Lone, FCarryOut(n) PROVE Lone'
  OBVIOUS
<1>1. /\ CarryOut(n) /\ n \in flying
      /\ UNCHANGED <<kind, pc, attempt, result, op, disturbed>>
  BY DEF FCarryOut, CarryOut, caller
<1>2. applied \in Nat
  BY DEF Parted, Typed
<1>3. (pc = "await" /\ n = attempt) \/ answer' = answer
  BY <1>1 DEF CarryOut, Says
<1>4. CASE applied' = applied /\ UNCHANGED <<file, fileState, seen>>
  <2>1. pc = "await" /\ n = attempt => answer' # "ok"
    <3>1. "ok" \notin Transient \cup Refusal
      BY DEF Transient, Refusal
    <3> QED BY <1>1, <1>2, <1>4, <3>1 DEF CarryOut, Says
  <2>2. answer' = "not_found" => answer = "not_found" \/ ~file
    <3>1. "not_found" \notin Transient
      BY DEF Transient
    <3> QED BY <1>1, <1>2, <1>4, <3>1 DEF CarryOut, Says
  <2> QED BY <1>1, <1>3, <1>4, <2>1, <2>2 DEF Lone, CallOfOp, fileState
<1>5. CASE applied' = applied + 1 /\ Effect
  <2>1. file' = (file /\ kind # "delete") /\ (answer' # "not_found" \/ answer' = answer)
    BY <1>1, <1>2, <1>5 DEF CarryOut, Says
  <2>2. applied' > applied /\ applied' > 0
    BY <1>2, <1>5
  <2>3. seen' = IF kind = "get" /\ pc = "await" /\ n = attempt THEN parents ELSE seen
    BY <2>2 DEF FCarryOut, Answered
  <2>4. /\ op = "rename" => name' = Mine
        /\ kind = "get" => parents' = parents
        /\ op = "move" /\ kind = "update" => parents' = (parents \ seen) \cup {Dest}
    BY <1>5 DEF Effect, Removed
  <2>5. CASE disturbed
    BY <1>1, <2>5 DEF Lone, CallOfOp
  <2>6. CASE ~disturbed
    <3>1. CASE op \in {"create", "rename"}
      BY <1>1, <2>4, <3>1 DEF Lone, CallOfOp
    <3>2. CASE op = "delete"
      <4>1. kind = "delete"
        BY <3>2 DEF Lone, CallOfOp, FirstCall, Op
      <4> QED BY <1>1, <2>1, <3>2, <4>1 DEF Lone, CallOfOp
    <3>3. CASE op = "move" /\ kind = "get"
      <4>1. parents' = {Start}
        BY <2>4, <2>6, <3>3 DEF Lone
      <4>2. (pc = "await" /\ answer' = "ok") \/ result = "ok" => seen' = {Start}
        BY <1>3, <2>3, <2>6, <3>3 DEF Lone
      <4> QED BY <1>1, <3>3, <4>1, <4>2 DEF Lone, CallOfOp
    <3>4. CASE op = "move" /\ kind = "update"
      <4>1. seen' = {Start}
        BY <2>3, <2>6, <3>4 DEF Lone
      <4>2. parents' = {Dest}
        BY <2>4, <2>6, <3>4 DEF Lone
      <4> QED BY <1>1, <2>2, <3>4, <4>1, <4>2 DEF Lone, CallOfOp
    <3> QED BY <3>1, <3>2, <3>3, <3>4 DEF Lone, CallOfOp, Op, FirstCall
  <2> QED BY <2>5, <2>6
<1>6. \/ applied' = applied /\ UNCHANGED file
      \/ applied' = applied + 1
  BY <1>1 DEF CarryOut
<1>7. applied' = applied => UNCHANGED <<fileState, seen>>
  BY <1>2 DEF FCarryOut, Answered
<1>8. applied' = applied + 1 => Effect
  BY <1>2 DEF FCarryOut
<1> QED BY <1>4, <1>5, <1>6, <1>7, <1>8

LEMMA LoneStep == Parted /\ Lone /\ [FNext]_fvars => Lone'
<1>1. Lone /\ Interfere => Lone'
  BY DEF Lone, CallOfOp, Interfere, OthersChange, callVars, caller
<1>2. Lone /\ Expire /\ UNCHANGED <<op, seen, fileState, disturbed>> => Lone'
  BY DEF Lone, CallOfOp, Expire, google, fileState
<1>3. Lone /\ UNCHANGED fvars => Lone'
  BY DEF Lone, CallOfOp, fvars, callVars, caller, google, fileState
<1> QED BY <1>1, <1>2, <1>3, LoneClient, LoneWriteMove, LoneCarryOut DEF FNext, FClient

\* A change that nobody else interferes with is what the user is told: the new name, the
\* new folder and no other, or the file gone, however often the call was repeated and also
\* if the answer to the attempt that deleted it was lost (Update and Delete).
THEOREM LoneChanges == FSpec => []LoneChangeTakesEffect
<1>1. Parted /\ Lone => LoneChangeTakesEffect
  <2> SUFFICES ASSUME Parted, Lone, Ended, ~disturbed
               PROVE  /\ op = "rename" /\ result = "ok" => name = Mine
                      /\ op = "move" /\ result = "ok" => parents = {Dest}
                      /\ op = "delete" /\ result \in {"ok", "not_found"} => ~file
    BY DEF LoneChangeTakesEffect
  <2>1. result = "ok" => applied > 0
    BY DEF Parted, Known
  <2>2. op = "move" /\ result = "ok" => kind = "update"
    BY DEF Ended, MoreToDo, Lone, CallOfOp, FirstCall, Op
  <2> QED BY <2>1, <2>2 DEF Lone
<1> QED BY <1>1, HandlerInv, LoneInit, LoneStep, PTL DEF FSpec

\* Every variable of a handler keeps its type (Update and Delete).
THEOREM HandlerTypes == FSpec => []FTypeOK
<1> DEFINE Mixed == /\ op \in Op /\ seen \subseteq Dir /\ parents \subseteq Dir
                    /\ name \in FileName /\ disturbed \in BOOLEAN
<1>1. FInit => Mixed
  BY DirAssumption DEF FInit, FileName
<1>2. Mixed /\ [FNext]_fvars => Mixed'
  <2> SUFFICES ASSUME Mixed, [FNext]_fvars PROVE Mixed'
    OBVIOUS
  <2>1. CASE FClient \/ (Expire /\ UNCHANGED <<op, seen, fileState, disturbed>>) \/ UNCHANGED fvars
    BY <2>1 DEF FClient, WriteMove, fvars, fileState
  <2>2. ASSUME NEW n \in 1..MaxAttempts, FCarryOut(n) PROVE Mixed'
    BY <2>2, DirAssumption DEF FCarryOut, Effect, Removed, fileState, FileName
  <2>3. CASE Interfere
    BY <2>3 DEF Interfere, fileState, FileName
  <2> QED BY <2>1, <2>2, <2>3 DEF FNext
<1>3. CallTypeOK /\ Mixed => FTypeOK
  BY DEF FTypeOK
<1> QED BY <1>1, <1>2, <1>3, HandlersKeepPromises, PTL DEF FSpec
=============================================================================
