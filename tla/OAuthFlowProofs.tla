--------------------------- MODULE OAuthFlowProofs ---------------------------
(***************************************************************************)
(* What ties the two ends of a round trip together, for any number of      *)
(* browsers, tabs and returns.                                             *)
(*                                                                         *)
(* The state cookie of a browser names a trip of that browser which is at  *)
(* Google (Cookies), so a callback that gets past VerifyState is in the    *)
(* browser its trip began in and in time (Verified).  The answer to a      *)
(* callback takes the cookie away and nothing puts the same one back       *)
(* (Cleared), so the state is used up; and until somebody else writes it   *)
(* the cookie stays (Undisturbed), so nobody is turned away without cause. *)
(***************************************************************************)
EXTENDS OAuthFlow, TLAPS

Cookies ==
  \A b \in Browser : nonce[b] # NoTrip =>
    stage[nonce[b]] = "consent" /\ trip[nonce[b]].browser = b

\* Only the owner of an account sets out to reconnect it.
TripsWellFormed ==
  \A t \in Trip : stage[t] # "new" =>
    /\ trip[t] \in State
    /\ trip[t].intent = "reconnect" => /\ trip[t].account \in Account
                                       /\ trip[t].starter = ownerOf[trip[t].account]

VisitsWellFormed ==
  \A v \in Visit :
    /\ at[v] # "new" => visit[v] \in Callback /\ stage[visit[v].trip] = "consent"
    /\ at[v] \in {"new", "exchange", "complete"} => out[v] = ""

Verified ==
  \A v \in Visit : at[v] \in {"exchange", "complete"} =>
    /\ visit[v].browser = trip[visit[v].trip].browser /\ ~visit[v].late
    /\ visit[v].code # NoVisit

Cleared ==
  \A v \in Visit : at[v] = "done" => nonce[visit[v].browser] # visit[v].trip

Replays ==
  \A v \in replay : at[v] \in {"respond", "done", "lost"} /\ out[v] \in {"denied", "invalid"}

Undisturbed ==
  \A t \in Trip : stage[t] = "consent" /\ t \notin disturbed => nonce[trip[t].browser] = t

\* What a completed trip has done is for good.
Done ==
  \A v \in Visit : out[v] = "done" => at[v] \in {"respond", "done", "lost"}

IInv ==
  /\ TypeOK
  /\ Cookies /\ TripsWellFormed /\ VisitsWellFormed /\ Verified
  /\ Cleared /\ Replays /\ Undisturbed /\ Done
  /\ OwnRoundTrip

LEMMA InitIInv == Init => IInv
<1> SUFFICES ASSUME Init PROVE IInv
  OBVIOUS
<1>1. TypeOK
  BY DEF Init, TypeOK, Outcome
<1>2. Cookies /\ TripsWellFormed /\ VisitsWellFormed /\ Verified
  BY DEF Init, Cookies, TripsWellFormed, VisitsWellFormed, Verified
<1>3. Cleared /\ Replays /\ Undisturbed /\ Done /\ OwnRoundTrip
  BY DEF Init, Cleared, Replays, Undisturbed, Done, OwnRoundTrip
<1> QED BY <1>1, <1>2, <1>3 DEF IInv

\* Logouts, disconnections and the passing of time touch no trip and no visit.
LEMMA MeanwhileStep ==
  ASSUME IInv, UNCHANGED <<nonce, trips, visits, history>>,
         mishaps' \in Nat, aged' \subseteq Trip, present' \subseteq Account,
         user' \in [Browser -> Profile \cup {Nobody}]
  PROVE  IInv'
<1>1. UNCHANGED <<stage, trip, at, visit, out, acted, spent, disturbed, replay, crossed>>
  BY DEF trips, visits, history
<1>2. TypeOK'
  BY <1>1 DEF IInv, TypeOK
<1>3. Cookies' /\ TripsWellFormed' /\ VisitsWellFormed' /\ Verified'
  BY <1>1 DEF IInv, Cookies, TripsWellFormed, VisitsWellFormed, Verified
<1>4. Cleared' /\ Replays' /\ Undisturbed' /\ Done' /\ OwnRoundTrip'
  BY <1>1 DEF IInv, Cleared, Replays, Undisturbed, Done, OwnRoundTrip
<1> QED BY <1>2, <1>3, <1>4 DEF IInv

LEMMA MishapType == TypeOK /\ Mishap => mishaps' \in Nat
BY MishapAssumption DEF TypeOK, Mishap

LEMMA Others ==
  IInv /\ ((\E b \in Browser : SignOut(b)) \/ (\E a \in Account : Disconnect(a)) \/ (\E t \in Trip : Age(t))
           \/ UNCHANGED vars) => IInv'
<1> SUFFICES ASSUME IInv,
                    (\E b \in Browser : SignOut(b)) \/ (\E a \in Account : Disconnect(a))
                      \/ (\E t \in Trip : Age(t)) \/ UNCHANGED vars
             PROVE  IInv'
  OBVIOUS
<1>0. TypeOK
  BY DEF IInv
<1>1. ASSUME NEW b \in Browser, SignOut(b) PROVE IInv'
  <2>1. /\ UNCHANGED <<nonce, trips, visits, history>> /\ UNCHANGED <<aged, present>>
        /\ user' = [user EXCEPT ![b] = Nobody]
    BY <1>1 DEF SignOut
  <2>2. mishaps' \in Nat
    BY <1>0, <1>1, MishapType DEF SignOut
  <2>3. user' \in [Browser -> Profile \cup {Nobody}]
    BY <1>0, <2>1 DEF TypeOK
  <2> QED BY <1>0, <2>1, <2>2, <2>3, MeanwhileStep DEF TypeOK
<1>2. ASSUME NEW a \in Account, Disconnect(a) PROVE IInv'
  <2>1. /\ UNCHANGED <<nonce, trips, visits, history>> /\ UNCHANGED <<aged, user>>
        /\ present' \subseteq present
    BY <1>2 DEF Disconnect, jar
  <2>2. mishaps' \in Nat
    BY <1>0, <1>2, MishapType DEF Disconnect
  <2> QED BY <1>0, <2>1, <2>2, MeanwhileStep DEF TypeOK
<1>3. ASSUME NEW t \in Trip, Age(t) PROVE IInv'
  <2>1. /\ UNCHANGED <<nonce, trips, visits, history>> /\ UNCHANGED <<present, user>>
        /\ aged' = aged \cup {t}
    BY <1>3 DEF Age, jar
  <2>2. mishaps' \in Nat
    BY <1>0, <1>3, MishapType DEF Age
  <2> QED BY <1>0, <2>1, <2>2, MeanwhileStep DEF TypeOK
<1>4. CASE UNCHANGED vars
  <2>1. UNCHANGED <<nonce, trips, visits, history>> /\ UNCHANGED <<mishaps, aged, present, user>>
    BY <1>4 DEF vars, jar
  <2> QED BY <1>0, <2>1, MeanwhileStep DEF TypeOK
<1> QED BY <1>1, <1>2, <1>3, <1>4

\* As long as the trips at Google stay there with their states, what was said of the
\* visits remains true.
LEMMA VisitsKept ==
  ASSUME IInv, UNCHANGED <<at, visit, out, acted, replay>>,
         \A s \in Trip : stage[s] = "consent" => stage'[s] = "consent" /\ trip'[s] = trip[s]
  PROVE  VisitsWellFormed' /\ Verified' /\ Replays' /\ Done' /\ OwnRoundTrip'
<1>1. \A v \in Visit : at[v] # "new" =>
        /\ visit[v] \in Callback /\ visit[v].trip \in Trip
        /\ stage'[visit[v].trip] = "consent" /\ trip'[visit[v].trip] = trip[visit[v].trip]
  <2> SUFFICES ASSUME NEW v \in Visit, at[v] # "new"
               PROVE  /\ visit[v] \in Callback /\ visit[v].trip \in Trip
                      /\ stage'[visit[v].trip] = "consent" /\ trip'[visit[v].trip] = trip[visit[v].trip]
    OBVIOUS
  <2>1. visit[v] \in Callback /\ stage[visit[v].trip] = "consent"
    BY DEF IInv, VisitsWellFormed
  <2>2. visit[v].trip \in Trip
    BY <2>1 DEF Callback
  <2> QED BY <2>1, <2>2
<1>2. VisitsWellFormed'
  BY <1>1 DEF IInv, VisitsWellFormed
<1>3. Verified'
  BY <1>1 DEF IInv, Verified
<1>4. Replays' /\ Done'
  BY DEF IInv, Replays, Done
<1>5. OwnRoundTrip'
  <2>1. \A v \in Visit : out[v] = "done" => trip'[visit[v].trip] = trip[visit[v].trip]
    BY <1>1 DEF IInv, Done
  <2> QED BY <2>1 DEF IInv, OwnRoundTrip
<1> QED BY <1>2, <1>3, <1>4, <1>5

-----------------------------------------------------------------------------
(* handleAuthStart                                                         *)

LEMMA StartStep ==
  \A t \in Trip, b \in Home, i \in Intent, a \in Account \cup {NoAccount} :
    IInv /\ Start(t, b, i, a) => IInv'
<1> SUFFICES ASSUME NEW t \in Trip, NEW b \in Home, NEW i \in Intent,
                    NEW a \in Account \cup {NoAccount}, IInv, Start(t, b, i, a)
             PROVE  IInv'
  OBVIOUS
<1> DEFINE new == [browser |-> b, starter |-> user[b], intent |-> i, account |-> a]
<1>0. TypeOK /\ b \in Browser
  BY HomeAssumption DEF IInv
<1>1. /\ stage[t] = "new" /\ MayStart(b, i, a)
      /\ stage' = [stage EXCEPT ![t] = "starting"]
      /\ trip' = [trip EXCEPT ![t] = new]
      /\ UNCHANGED <<mishaps, aged, nonce, user, present, at, visit, out, acted, spent,
                     disturbed, replay>>
  BY DEF Start, jar, visits
<1>2. new \in State
  BY <1>0 DEF State, TypeOK
<1>3. i = "reconnect" => a \in Account /\ user[b] = ownerOf[a]
  BY <1>0, <1>1 DEF MayStart, TypeOK
<1>4. \A s \in Trip : /\ s # t => stage'[s] = stage[s] /\ trip'[s] = trip[s]
                      /\ stage'[t] = "starting" /\ trip'[t] = new
  BY <1>0, <1>1 DEF TypeOK
<1>5. crossed' \subseteq Visit \X Trip
  BY <1>0 DEF Start, VisitsOf, TypeOK
<1>6. TypeOK'
  <2>1. trip' \in [Trip -> State \cup {NoTrip}] /\ stage' \in [Trip -> {"new", "starting", "consent", "lost"}]
    BY <1>0, <1>1, <1>2 DEF TypeOK
  <2> QED BY <1>0, <1>1, <1>5, <2>1 DEF TypeOK
<1>7. Cookies'
  BY <1>0, <1>1, <1>4 DEF IInv, Cookies, TypeOK
<1>8. TripsWellFormed'
  BY <1>2, <1>3, <1>4 DEF IInv, TripsWellFormed
<1>9. VisitsWellFormed' /\ Verified' /\ Replays' /\ Done' /\ OwnRoundTrip'
  <2>1. \A s \in Trip : stage[s] = "consent" => stage'[s] = "consent" /\ trip'[s] = trip[s]
    BY <1>1, <1>4
  <2> QED BY <1>1, <2>1, VisitsKept
<1>10. Cleared'
  BY <1>1 DEF IInv, Cleared
<1>11. Undisturbed'
  BY <1>1, <1>4 DEF IInv, Undisturbed
<1> QED BY <1>6, <1>7, <1>8, <1>9, <1>10, <1>11 DEF IInv

\* A nonce is given out once, so a cookie that was cleared does not come back.
LEMMA LeaveStep == \A t \in Trip : IInv /\ LeaveForGoogle(t) => IInv'
<1> SUFFICES ASSUME NEW t \in Trip, IInv, LeaveForGoogle(t) PROVE IInv'
  OBVIOUS
<1> DEFINE b == trip[t].browser
<1>1. /\ stage[t] = "starting" /\ stage' = [stage EXCEPT ![t] = "consent"]
      /\ nonce' = [nonce EXCEPT ![b] = t]
      /\ disturbed' = disturbed \cup {s \in TripsOf(b) \ {t} : stage[s] = "consent"}
      /\ UNCHANGED <<mishaps, aged, user, present, trip, at, visit, out, acted, spent, replay, crossed>>
  BY DEF LeaveForGoogle, NonceAfterStart, visits
<1>2. TypeOK
  BY DEF IInv
<1>3. trip[t] \in State /\ b \in Browser
  BY <1>1 DEF IInv, TripsWellFormed, State
<1> HIDE DEF b
<1>4. \A s \in Trip : stage'[s] = IF s = t THEN "consent" ELSE stage[s]
  BY <1>1, <1>2 DEF TypeOK
<1>5. \A c \in Browser : nonce'[c] = IF c = b THEN t ELSE nonce[c]
  BY <1>1, <1>2, <1>3 DEF TypeOK
<1>6. TypeOK'
  <2>1. nonce' \in [Browser -> Trip \cup {NoTrip}] /\ stage' \in [Trip -> {"new", "starting", "consent", "lost"}]
    BY <1>1, <1>2, <1>3 DEF TypeOK
  <2>2. disturbed' \subseteq Trip
    BY <1>1, <1>2 DEF TypeOK, TripsOf
  <2> QED BY <1>1, <1>2, <2>1, <2>2 DEF TypeOK
<1>7. Cookies'
  <2> SUFFICES ASSUME NEW c \in Browser, nonce'[c] # NoTrip
               PROVE  stage'[nonce'[c]] = "consent" /\ trip[nonce'[c]].browser = c
    BY <1>1 DEF Cookies
  <2>1. CASE c = b
    BY <1>4, <1>5, <2>1 DEF b
  <2>2. CASE c # b
    <3>1. nonce'[c] = nonce[c] /\ nonce[c] \in Trip
      BY <1>2, <1>5, <2>2 DEF TypeOK
    <3> QED BY <1>4, <3>1 DEF IInv, Cookies
  <2> QED BY <2>1, <2>2
<1>8. TripsWellFormed'
  BY <1>1, <1>4 DEF IInv, TripsWellFormed
<1>9. \A v \in Visit : at[v] # "new" =>
        visit[v].trip \in Trip /\ visit[v].trip # t /\ visit[v].browser \in Browser
  BY <1>1 DEF IInv, VisitsWellFormed, Callback
<1>10. VisitsWellFormed' /\ Verified' /\ Replays' /\ Done' /\ OwnRoundTrip'
  <2>1. \A s \in Trip : stage[s] = "consent" => stage'[s] = "consent" /\ trip'[s] = trip[s]
    BY <1>1, <1>4
  <2> QED BY <1>1, <2>1, VisitsKept
<1>11. Cleared'
  BY <1>1, <1>5, <1>9 DEF IInv, Cleared
<1>12. Undisturbed'
  <2> SUFFICES ASSUME NEW s \in Trip, stage'[s] = "consent", s \notin disturbed'
               PROVE  nonce'[trip[s].browser] = s
    BY <1>1 DEF Undisturbed
  <2>1. CASE s = t
    BY <1>3, <1>5, <2>1 DEF b
  <2>2. CASE s # t
    <3>1. stage[s] = "consent" /\ s \notin disturbed /\ trip[s].browser # b
      BY <1>1, <1>4, <2>2 DEF TripsOf
    <3>2. trip[s].browser \in Browser
      BY <3>1 DEF IInv, TripsWellFormed, State
    <3> QED BY <1>5, <3>1, <3>2 DEF IInv, Undisturbed
  <2> QED BY <2>1, <2>2
<1> QED BY <1>6, <1>7, <1>8, <1>10, <1>11, <1>12 DEF IInv

LEMMA LoseStartStep == \A t \in Trip : IInv /\ LoseStart(t) => IInv'
<1> SUFFICES ASSUME NEW t \in Trip, IInv, LoseStart(t) PROVE IInv'
  OBVIOUS
<1>1. /\ stage[t] = "starting" /\ stage' = [stage EXCEPT ![t] = "lost"]
      /\ UNCHANGED <<aged, nonce, user, present, trip, at, visit, out, acted, spent,
                     disturbed, replay, crossed>>
  BY DEF LoseStart, jar, visits, history
<1>2. TypeOK
  BY DEF IInv
<1>3. mishaps' \in Nat
  BY <1>2, MishapType DEF LoseStart
<1>4. \A s \in Trip : stage'[s] = IF s = t THEN "lost" ELSE stage[s]
  BY <1>1, <1>2 DEF TypeOK
<1>5. TypeOK'
  <2>1. stage' \in [Trip -> {"new", "starting", "consent", "lost"}]
    BY <1>1, <1>2 DEF TypeOK
  <2> QED BY <1>1, <1>2, <1>3, <2>1 DEF TypeOK
<1>6. Cookies'
  BY <1>1, <1>2, <1>4 DEF IInv, Cookies, TypeOK
<1>7. TripsWellFormed'
  BY <1>1, <1>4 DEF IInv, TripsWellFormed
<1>8. VisitsWellFormed' /\ Verified' /\ Replays' /\ Done' /\ OwnRoundTrip'
  <2>1. \A s \in Trip : stage[s] = "consent" => stage'[s] = "consent" /\ trip'[s] = trip[s]
    BY <1>1, <1>4
  <2> QED BY <1>1, <2>1, VisitsKept
<1>9. Cleared'
  BY <1>1 DEF IInv, Cleared
<1>10. Undisturbed'
  BY <1>1, <1>4 DEF IInv, Undisturbed
<1> QED BY <1>5, <1>6, <1>7, <1>8, <1>9, <1>10 DEF IInv

-----------------------------------------------------------------------------
(* handleAuthCallback                                                      *)

\* What gets past VerifyState is in the browser its trip began in and in time, and its
\* browser has not had the answer to another callback of the trip.
LEMMA ReturnStep ==
  \A v \in Visit, t \in Trip, b \in Browser, c \in Visit \cup {NoVisit}, p \in Profile \cup {Nobody},
     n \in Trip \cup {NoTrip} : IInv /\ Return(v, t, b, c, p, n) => IInv'
<1> SUFFICES ASSUME NEW v \in Visit, NEW t \in Trip, NEW b \in Browser, NEW c \in Visit \cup {NoVisit},
                    NEW p \in Profile \cup {Nobody}, NEW n \in Trip \cup {NoTrip},
                    IInv, Return(v, t, b, c, p, n)
             PROVE  IInv'
  OBVIOUS
<1> DEFINE new == [trip |-> t, browser |-> b, session |-> user[b], code |-> c,
                   profile |-> p, late |-> t \in aged]
           x == IF out'[v] = "" THEN "exchange" ELSE "respond"
<1>1. /\ at[v] = "new" /\ stage[t] = "consent" /\ n \in Sent(b)
      /\ visit' = [visit EXCEPT ![v] = new]
      /\ at' = [at EXCEPT ![v] = x]
      /\ UNCHANGED <<mishaps, aged, nonce, user, present, stage, trip, acted, spent, disturbed>>
  BY DEF Return, jar, trips
<1>2. TypeOK
  BY DEF IInv
<1>3. new \in Callback
  BY <1>2 DEF TypeOK, Callback
<1>4. out[v] = ""
  BY <1>1 DEF IInv, VisitsWellFormed
<1>5. VerifyState(t, n) => nonce[b] = t /\ t \notin aged
  BY <1>1, NullAssumption DEF VerifyState, Sent
<1>6. /\ out' \in [Visit -> Outcome]
      /\ out'[v] \in {"", "denied", "invalid", "failed"}
      /\ \A w \in Visit : w # v => out'[w] = out[w]
      /\ out'[v] \in {"", "failed"} => VerifyState(t, n)
      /\ out'[v] = "" => c # NoVisit
  <2>1. CASE c = NoVisit /\ out' = [out EXCEPT ![v] = "denied"]
    BY <1>2, <2>1 DEF TypeOK, Outcome
  <2>2. CASE ~VerifyState(t, n) /\ out' = [out EXCEPT ![v] = "invalid"]
    BY <1>2, <2>2 DEF TypeOK, Outcome
  <2>3. CASE VerifyState(t, n) /\ out' = [out EXCEPT ![v] = "failed"]
    BY <1>2, <2>3 DEF TypeOK, Outcome
  <2>4. CASE VerifyState(t, n) /\ c # NoVisit /\ UNCHANGED out
    BY <1>2, <1>4, <2>4 DEF TypeOK, Outcome
  <2> QED BY <2>1, <2>2, <2>3, <2>4 DEF Return
<1>7. /\ visit' \in [Visit -> Callback \cup {NoVisit}] /\ visit'[v] = new
      /\ \A w \in Visit : w # v => visit'[w] = visit[w]
  BY <1>1, <1>2, <1>3 DEF TypeOK
<1> HIDE DEF x
<1>8. /\ at' \in [Visit -> {"new", "exchange", "complete", "respond", "done", "lost"}] /\ at'[v] = x
      /\ \A w \in Visit : w # v => at'[w] = at[w]
  <2>1. x \in {"exchange", "respond"}
    BY DEF x
  <2> QED BY <1>1, <1>2, <2>1 DEF TypeOK
<1>9. x \in {"exchange", "respond"} /\ (x = "exchange" <=> out'[v] = "")
  BY DEF x
<1>10. new.trip = t /\ new.browser = b /\ new.late = (t \in aged) /\ new.code = c
  OBVIOUS
<1> HIDE DEF new
<1>11. TypeOK'
  <2>1. replay' \subseteq Visit
    BY <1>2 DEF Return, TypeOK
  <2>2. crossed' \subseteq Visit \X Trip
    <3>1. crossed' = crossed \cup {<<v, s>> : s \in {r \in TripsOf(b) : stage[r] = "starting"}}
      BY DEF Return
    <3>2. crossed \subseteq Visit \X Trip /\ TripsOf(b) \subseteq Trip
      BY <1>2 DEF TypeOK, TripsOf
    <3> QED BY <3>1, <3>2
  <2> QED BY <1>1, <1>2, <1>6, <1>7, <1>8, <2>1, <2>2 DEF TypeOK
<1>12. Cookies' /\ TripsWellFormed' /\ Undisturbed'
  BY <1>1 DEF IInv, Cookies, TripsWellFormed, Undisturbed
<1>13. VisitsWellFormed'
  <2> SUFFICES ASSUME NEW w \in Visit
               PROVE  /\ at'[w] # "new" => visit'[w] \in Callback /\ stage[visit'[w].trip] = "consent"
                      /\ at'[w] \in {"new", "exchange", "complete"} => out'[w] = ""
    BY <1>1 DEF VisitsWellFormed
  <2>1. CASE w = v
    BY <1>1, <1>3, <1>7, <1>8, <1>9, <1>10, <2>1
  <2>2. CASE w # v
    BY <1>6, <1>7, <1>8, <2>2 DEF IInv, VisitsWellFormed
  <2> QED BY <2>1, <2>2
<1>14. Verified'
  <2> SUFFICES ASSUME NEW w \in Visit, at'[w] \in {"exchange", "complete"}
               PROVE  /\ visit'[w].browser = trip[visit'[w].trip].browser /\ ~visit'[w].late
                      /\ visit'[w].code # NoVisit
    BY <1>1 DEF Verified
  <2>1. CASE w = v
    <3>1. out'[v] = "" /\ nonce[b] = t /\ t \notin aged /\ c # NoVisit
      BY <1>5, <1>6, <1>8, <1>9, <2>1
    <3>2. trip[t].browser = b
      BY <3>1, NullAssumption DEF IInv, Cookies
    <3> QED BY <1>7, <1>10, <2>1, <3>1, <3>2
  <2>2. CASE w # v
    BY <1>7, <1>8, <2>2 DEF IInv, Verified
  <2> QED BY <2>1, <2>2
<1>15. Cleared'
  <2> SUFFICES ASSUME NEW w \in Visit, at'[w] = "done" PROVE nonce[visit'[w].browser] # visit'[w].trip
    BY <1>1 DEF Cleared
  <2>1. w # v
    BY <1>8, <1>9
  <2> QED BY <1>7, <1>8, <2>1 DEF IInv, Cleared
<1>16. Replays'
  <2> SUFFICES ASSUME NEW w \in replay'
               PROVE  at'[w] \in {"respond", "done", "lost"} /\ out'[w] \in {"denied", "invalid"}
    BY DEF Replays
  <2>1. CASE w \in replay
    <3>1. w \in Visit /\ w # v
      BY <1>1, <1>2, <2>1 DEF IInv, Replays, TypeOK
    <3> QED BY <1>6, <1>8, <2>1, <3>1 DEF IInv, Replays
  <2>2. CASE w \notin replay
    <3>1. w = v /\ \E y \in VisitsOf(b) : at[y] = "done" /\ visit[y].trip = t
      BY <2>2 DEF Return
    <3>2. nonce[b] # t
      BY <3>1 DEF IInv, Cleared, VisitsOf
    <3>3. ~VerifyState(t, n)
      BY <1>5, <3>2
    <3> QED BY <1>6, <1>8, <1>9, <3>1, <3>3
  <2> QED BY <2>1, <2>2
<1>17. Done' /\ OwnRoundTrip'
  <2>1. \A w \in Visit : out'[w] = "done" =>
          /\ w # v /\ out[w] = "done" /\ at'[w] = at[w] /\ visit'[w] = visit[w]
    BY <1>6, <1>7, <1>8
  <2>2. Done'
    BY <2>1 DEF IInv, Done
  <2> QED BY <1>1, <2>1, <2>2 DEF IInv, OwnRoundTrip
<1> QED BY <1>11, <1>12, <1>13, <1>14, <1>15, <1>16, <1>17 DEF IInv

\* A callback that is on its way comes a step further, is answered, or is lost.
Moves(v, x, o, u) ==
  /\ UnderWay(v)
  /\ UNCHANGED <<aged, nonce, user, present, stage, trip, visit, disturbed, replay, crossed>>
  /\ mishaps' \in Nat /\ spent' \subseteq Visit
  /\ at' = [at EXCEPT ![v] = x]
  /\ out' = [out EXCEPT ![v] = o]
  /\ acted' = [acted EXCEPT ![v] = u]
  /\ x = "complete" => at[v] = "exchange" /\ o = out[v]
  /\ x = "respond" => at[v] \in {"exchange", "complete"}
  /\ x = "lost" => o = out[v] /\ u = acted[v]
  /\ x = "respond" /\ o = "done" =>
       LET s == trip[visit[v].trip] IN
       s.intent = "reconnect" => /\ u = s.starter /\ u = ownerOf[s.account]
                                 /\ visit[v].profile = googleOf[s.account]

LEMMA VisitStep ==
  \A v \in Visit, x \in {"complete", "respond", "lost"}, o \in Outcome, u \in Profile \cup {Nobody} :
    IInv /\ Moves(v, x, o, u) => IInv'
<1> SUFFICES ASSUME NEW v \in Visit, NEW x \in {"complete", "respond", "lost"}, NEW o \in Outcome,
                    NEW u \in Profile \cup {Nobody}, IInv, Moves(v, x, o, u)
             PROVE  IInv'
  OBVIOUS
<1> USE DEF Moves
<1>1. TypeOK
  BY DEF IInv
<1>2. /\ at'[v] = x /\ out'[v] = o /\ acted'[v] = u
      /\ \A w \in Visit : w # v => at'[w] = at[w] /\ out'[w] = out[w] /\ acted'[w] = acted[w]
  BY <1>1 DEF TypeOK
<1>3. TypeOK'
  <2>1. at' \in [Visit -> {"new", "exchange", "complete", "respond", "done", "lost"}]
    BY <1>1 DEF TypeOK
  <2>2. out' \in [Visit -> Outcome] /\ acted' \in [Visit -> Profile \cup {Nobody}]
    BY <1>1 DEF TypeOK
  <2> QED BY <1>1, <2>1, <2>2 DEF TypeOK
<1>4. Cookies' /\ TripsWellFormed' /\ Undisturbed'
  BY DEF IInv, Cookies, TripsWellFormed, Undisturbed
<1>5. VisitsWellFormed'
  BY <1>2 DEF IInv, VisitsWellFormed, UnderWay
<1>6. Verified'
  BY <1>2 DEF IInv, Verified
<1>7. Cleared'
  BY <1>2 DEF IInv, Cleared
<1>8. Replays'
  <2> SUFFICES ASSUME NEW w \in replay
               PROVE  at'[w] \in {"respond", "done", "lost"} /\ out'[w] \in {"denied", "invalid"}
    BY DEF Replays
  <2>1. w \in Visit /\ at[w] \in {"respond", "done", "lost"} /\ out[w] \in {"denied", "invalid"}
    BY <1>1 DEF TypeOK, IInv, Replays
  <2> QED BY <1>2, <2>1
<1>9. Done'
  <2> SUFFICES ASSUME NEW w \in Visit, out'[w] = "done" PROVE at'[w] \in {"respond", "done", "lost"}
    BY DEF Done
  <2>1. CASE w = v
    <3>1. x = "complete" => out[v] = ""
      BY DEF IInv, VisitsWellFormed
    <3> QED BY <1>2, <2>1, <3>1
  <2>2. CASE w # v
    BY <1>2, <2>2 DEF IInv, Done
  <2> QED BY <2>1, <2>2
<1>10. OwnRoundTrip'
  <2> SUFFICES ASSUME NEW w \in Visit, out'[w] = "done"
               PROVE  LET s == trip[visit[w].trip] IN
                      /\ visit[w].browser = s.browser
                      /\ ~visit[w].late
                      /\ s.intent = "reconnect" => /\ acted'[w] = s.starter /\ acted'[w] = ownerOf[s.account]
                                                   /\ visit[w].profile = googleOf[s.account]
    BY DEF OwnRoundTrip
  <2>1. CASE w = v /\ x = "respond"
    BY <1>2, <2>1 DEF IInv, Verified
  <2>2. CASE w = v /\ x # "respond"
    <3>1. out[v] = "done" /\ x = "lost"
      BY <1>2, <2>2 DEF IInv, VisitsWellFormed
    <3> QED BY <1>2, <2>2, <3>1 DEF IInv, OwnRoundTrip
  <2>3. CASE w # v
    BY <1>2, <2>3 DEF IInv, OwnRoundTrip
  <2> QED BY <2>1, <2>2, <2>3
<1> QED BY <1>3, <1>4, <1>5, <1>6, <1>7, <1>8, <1>9, <1>10 DEF IInv

LEMMA ExchangeStep == \A v \in Visit : IInv /\ Exchange(v) => IInv'
<1> SUFFICES ASSUME NEW v \in Visit, IInv, Exchange(v) PROVE IInv'
  OBVIOUS
<1>1. /\ at[v] = "exchange" /\ UnderWay(v)
      /\ UNCHANGED <<mishaps, aged, nonce, user, present, stage, trip, visit, acted, disturbed,
                     replay, crossed>>
  BY DEF Exchange, UnderWay, jar, trips, history
<1>2. TypeOK /\ mishaps' \in Nat
  BY <1>1 DEF IInv, TypeOK
<1>3. acted' = [acted EXCEPT ![v] = acted[v]] /\ acted[v] \in Profile \cup {Nobody}
  BY <1>1, <1>2 DEF TypeOK
<1>4. visit[v].code \in Visit
  BY <1>1 DEF IInv, Verified, VisitsWellFormed, Callback
<1>5. CASE /\ spent' = spent \cup {visit[v].code} /\ at' = [at EXCEPT ![v] = "complete"]
           /\ UNCHANGED out
  <2>1. out' = [out EXCEPT ![v] = out[v]] /\ out[v] \in Outcome /\ spent' \subseteq Visit
    BY <1>2, <1>4, <1>5 DEF TypeOK
  <2>2. Moves(v, "complete", out[v], acted[v])
    BY <1>1, <1>2, <1>3, <1>5, <2>1 DEF Moves
  <2> QED BY <1>3, <2>1, <2>2, VisitStep
<1>6. CASE spent' \in {spent, spent \cup {visit[v].code}} /\ Answer(v, "failed")
  <2>1. "failed" \in Outcome /\ spent' \subseteq Visit
    BY <1>2, <1>4, <1>6 DEF TypeOK, Outcome
  <2>2. Moves(v, "respond", "failed", acted[v])
    BY <1>1, <1>2, <1>3, <1>6, <2>1 DEF Moves, Answer
  <2> QED BY <1>3, <2>1, <2>2, VisitStep
<1> QED BY <1>5, <1>6 DEF Exchange

LEMMA Intents ==
  IInv => \A v \in Visit : at[v] # "new" => trip[visit[v].trip].intent \in Intent
BY DEF IInv, VisitsWellFormed, TripsWellFormed, Callback, State

LEMMA CompleteStep == \A v \in Visit : IInv /\ Complete(v) => IInv'
<1> SUFFICES ASSUME NEW v \in Visit, IInv, Complete(v) PROVE IInv'
  OBVIOUS
<1> DEFINE s == trip[visit[v].trip]
<1>1. /\ at[v] = "complete" /\ UnderWay(v)
      /\ UNCHANGED <<mishaps, aged, nonce, user, present, stage, trip, visit, spent, disturbed,
                     replay, crossed>>
  BY DEF Complete, UnderWay, jar, trips, history
<1>2. TypeOK /\ mishaps' \in Nat /\ spent' \subseteq Visit
  BY <1>1 DEF IInv, TypeOK
<1>3. visit[v] \in Callback /\ s \in State /\ (s.intent = "reconnect" => s.account \in Account
                                                                     /\ s.starter = ownerOf[s.account])
  <2>1. visit[v] \in Callback /\ stage[visit[v].trip] = "consent"
    BY <1>1 DEF IInv, VisitsWellFormed
  <2>2. visit[v].trip \in Trip
    BY <2>1 DEF Callback
  <2> QED BY <2>1, <2>2 DEF IInv, TripsWellFormed
<1>4. ASSUME NEW u \in Profile \cup {Nobody}, Act(v, u),
             s.intent = "reconnect" => /\ u = s.starter /\ u = ownerOf[s.account]
                                       /\ visit[v].profile = googleOf[s.account]
      PROVE  IInv'
  <2>1. Moves(v, "respond", "done", u)
    BY <1>1, <1>2, <1>4 DEF Moves, Act, Answer
  <2>2. "done" \in Outcome
    BY DEF Outcome
  <2> QED BY <2>1, <2>2, VisitStep
<1>5. ASSUME Fail(v) PROVE IInv'
  <2>1. acted' = [acted EXCEPT ![v] = acted[v]] /\ acted[v] \in Profile \cup {Nobody}
    BY <1>2, <1>5 DEF Fail, TypeOK
  <2>2. Moves(v, "respond", "failed", acted[v])
    BY <1>1, <1>2, <1>5, <2>1 DEF Moves, Fail, Answer
  <2>3. "failed" \in Outcome
    BY DEF Outcome
  <2> QED BY <2>1, <2>2, <2>3, VisitStep
<1>6. CASE s.intent = "login"
  <2>1. Act(v, visit[v].profile) \/ Fail(v)
    BY <1>6 DEF Complete, CompleteLogin, ForLogin
  <2>2. visit[v].profile \in Profile \cup {Nobody}
    BY <1>3 DEF Callback
  <2> QED BY <1>4, <1>5, <1>6, <2>1, <2>2
<1>7. CASE s.intent = "link"
  <2>1. Act(v, visit[v].session) \/ Fail(v)
    BY <1>7 DEF Complete, CompleteLink, ForLogin
  <2>2. visit[v].session \in Profile \cup {Nobody}
    BY <1>3 DEF Callback
  <2> QED BY <1>4, <1>5, <1>7, <2>1, <2>2
<1>8. CASE s.intent = "reconnect"
  <2>1. \/ /\ Found(visit[v].session, s.account) /\ googleOf[s.account] = visit[v].profile
           /\ Act(v, visit[v].session)
        \/ Fail(v)
    BY <1>8 DEF Complete, CompleteReconnect, ForLogin
  <2>2. visit[v].session \in Profile \cup {Nobody}
    BY <1>3 DEF Callback
  <2> QED BY <1>3, <1>4, <1>5, <1>8, <2>1, <2>2 DEF Found
<1> QED BY <1>3, <1>6, <1>7, <1>8 DEF State, Intent

LEMMA LoseStep == \A v \in Visit : IInv /\ Lose(v) => IInv'
<1> SUFFICES ASSUME NEW v \in Visit, IInv, Lose(v) PROVE IInv'
  OBVIOUS
<1>1. /\ UnderWay(v) /\ at' = [at EXCEPT ![v] = "lost"]
      /\ UNCHANGED <<aged, nonce, user, present, stage, trip, visit, out, acted, spent, disturbed,
                     replay, crossed>>
  BY DEF Lose, jar, trips, history
<1>2. TypeOK /\ mishaps' \in Nat /\ spent' \subseteq Visit
  BY <1>1, MishapType DEF IInv, Lose, TypeOK
<1>3. /\ out' = [out EXCEPT ![v] = out[v]] /\ out[v] \in Outcome
      /\ acted' = [acted EXCEPT ![v] = acted[v]] /\ acted[v] \in Profile \cup {Nobody}
  BY <1>1, <1>2 DEF TypeOK
<1>4. Moves(v, "lost", out[v], acted[v])
  BY <1>1, <1>2, <1>3 DEF Moves
<1> QED BY <1>3, <1>4, VisitStep

\* The answer takes the cookie away; whoever was waiting with it has been disturbed.
LEMMA RespondStep == \A v \in Visit : IInv /\ Respond(v) => IInv'
<1> SUFFICES ASSUME NEW v \in Visit, IInv, Respond(v) PROVE IInv'
  OBVIOUS
<1> DEFINE b == visit[v].browser
           u == IF SignsIn(v) THEN acted[v] ELSE user[b]
<1>1. /\ at[v] = "respond" /\ at' = [at EXCEPT ![v] = "done"]
      /\ nonce' = [nonce EXCEPT ![b] = NoTrip]
      /\ user' = [user EXCEPT ![b] = u]
      /\ disturbed' = disturbed \cup {t \in TripsOf(b) : stage[t] = "consent"}
      /\ UNCHANGED <<mishaps, aged, present, stage, trip, visit, out, acted, spent, replay, crossed>>
  BY DEF Respond, CookieAfter, trips
<1>2. TypeOK
  BY DEF IInv
<1>3. b \in Browser
  BY <1>1 DEF IInv, VisitsWellFormed, Callback
<1>4. u \in Profile \cup {Nobody}
  BY <1>2, <1>3 DEF TypeOK
<1> HIDE DEF b, u
<1>5. \A c \in Browser : nonce'[c] = IF c = b THEN NoTrip ELSE nonce[c]
  BY <1>1, <1>2, <1>3 DEF TypeOK
<1>6. \A w \in Visit : at'[w] = IF w = v THEN "done" ELSE at[w]
  BY <1>1, <1>2 DEF TypeOK
<1>7. TypeOK'
  <2>1. nonce' \in [Browser -> Trip \cup {NoTrip}] /\ user' \in [Browser -> Profile \cup {Nobody}]
    BY <1>1, <1>2, <1>3, <1>4 DEF TypeOK
  <2>2. at' \in [Visit -> {"new", "exchange", "complete", "respond", "done", "lost"}]
    BY <1>1, <1>2 DEF TypeOK
  <2>3. disturbed' \subseteq Trip
    BY <1>1, <1>2 DEF TypeOK, TripsOf
  <2> QED BY <1>1, <1>2, <2>1, <2>2, <2>3 DEF TypeOK
<1>8. Cookies'
  BY <1>1, <1>5 DEF IInv, Cookies
<1>9. TripsWellFormed' /\ OwnRoundTrip'
  BY <1>1 DEF IInv, TripsWellFormed, OwnRoundTrip
<1>10. VisitsWellFormed' /\ Verified'
  <2>1. \A w \in Visit : /\ at'[w] # "new" => at[w] # "new"
                         /\ at'[w] \in {"new", "exchange", "complete"} => at'[w] = at[w]
    BY <1>1, <1>6
  <2>2. VisitsWellFormed'
    BY <1>1, <2>1 DEF IInv, VisitsWellFormed
  <2> QED BY <1>1, <2>1, <2>2 DEF IInv, Verified
<1>11. Cleared'
  <2> SUFFICES ASSUME NEW w \in Visit, at'[w] = "done" PROVE nonce'[visit[w].browser] # visit[w].trip
    BY <1>1 DEF Cleared
  <2>1. at[w] # "new" /\ (w # v => at[w] = "done")
    BY <1>1, <1>6
  <2>2. visit[w].browser \in Browser /\ visit[w].trip \in Trip
    BY <2>1 DEF IInv, VisitsWellFormed, Callback
  <2>3. CASE visit[w].browser = b
    BY <1>5, <2>2, <2>3, NullAssumption
  <2>4. CASE visit[w].browser # b
    BY <1>5, <2>1, <2>2, <2>4 DEF IInv, Cleared, b
  <2> QED BY <2>3, <2>4
<1>12. Replays' /\ Done'
  BY <1>1, <1>2, <1>6 DEF IInv, Replays, Done, TypeOK
<1>13. Undisturbed'
  <2> SUFFICES ASSUME NEW t \in Trip, stage[t] = "consent", t \notin disturbed'
               PROVE  nonce'[trip[t].browser] = t
    BY <1>1 DEF Undisturbed
  <2>1. t \notin disturbed /\ trip[t].browser # b
    BY <1>1 DEF TripsOf
  <2>2. trip[t].browser \in Browser
    BY DEF IInv, TripsWellFormed, State
  <2> QED BY <1>5, <2>1, <2>2 DEF IInv, Undisturbed
<1> QED BY <1>7, <1>8, <1>9, <1>10, <1>11, <1>12, <1>13 DEF IInv

-----------------------------------------------------------------------------
(* Theorems                                                                *)

LEMMA Step == IInv /\ [Next]_vars => IInv'
BY StartStep, LeaveStep, LoseStartStep, ReturnStep, ExchangeStep, CompleteStep, RespondStep,
   LoseStep, Others DEF Next

\* The invariant the others rest on.
THEOREM Invariance == Spec => []IInv
BY InitIInv, Step, PTL DEF Spec

\* Every variable keeps its type, whatever callbacks arrive where.
THEOREM TypeCorrect == Spec => []TypeOK
<1>1. IInv => TypeOK
  BY DEF IInv
<1> QED BY <1>1, Invariance, PTL

\* A trip is completed in the browser that started it and in time, and a reconnection
\* reaches only the account its user set out to reconnect.
THEOREM OwnTrips == Spec => []OwnRoundTrip
<1>1. IInv => OwnRoundTrip
  BY DEF IInv
<1> QED BY <1>1, Invariance, PTL

\* Once its browser has had an answer, a state is used up.
THEOREM UsedUp == Spec => []StateUsedUp
<1>1. IInv => StateUsedUp
  BY DEF IInv, Replays, StateUsedUp
<1> QED BY <1>1, Invariance, PTL

\* Nobody is told that his link is no longer valid while his browser still holds the
\* nonce of a trip that is in time.
THEOREM ToldWithCause == Spec => InvalidOnlyIfDisturbed
<1>1. IInv /\ [Next]_vars =>
        [\A v \in Visit :
           out[v] = "" /\ out'[v] = "invalid" =>
             LET t == visit'[v].trip IN
             \/ t \in disturbed
             \/ visit'[v].browser # trip[t].browser
             \/ t \in aged]_vars
  <2> SUFFICES ASSUME IInv, [Next]_vars, NEW v \in Visit, out[v] = "", out'[v] = "invalid"
               PROVE  LET t == visit'[v].trip IN
                      t \in disturbed \/ visit'[v].browser # trip[t].browser \/ t \in aged
    OBVIOUS
  <2>0. TypeOK
    BY DEF IInv
  <2>1. PICK w \in Visit, t \in Trip, b \in Browser, c \in Visit \cup {NoVisit}, p \in Profile \cup {Nobody},
             n \in Trip \cup {NoTrip} : Return(w, t, b, c, p, n)
    <3>1. CASE \E w \in Visit : Exchange(w) \/ Complete(w) \/ Respond(w) \/ Lose(w)
      <4>1. PICK w \in Visit : Exchange(w) \/ Complete(w) \/ Respond(w) \/ Lose(w)
        BY <3>1
      <4>2. CASE Respond(w) \/ Lose(w)
        BY <4>2 DEF Respond, Lose
      <4>3. CASE Exchange(w)
        BY <2>0, <4>3 DEF TypeOK, Exchange, Answer
      <4>4. CASE Complete(w)
        <5>1. out' = [out EXCEPT ![w] = "done"] \/ out' = [out EXCEPT ![w] = "failed"]
          <6>1. trip[visit[w].trip].intent \in Intent
            BY <4>4, Intents DEF Complete
          <6>2. CompleteLogin(w) \/ CompleteLink(w) \/ CompleteReconnect(w)
            BY <4>4, <6>1 DEF Complete, Intent, ForLogin
          <6> QED BY <6>2 DEF CompleteLogin, CompleteLink, CompleteReconnect, Act, Fail, Answer
        <5> QED BY <2>0, <5>1 DEF TypeOK
      <4> QED BY <4>1, <4>2, <4>3, <4>4
    <3>2. CASE UNCHANGED visits
      BY <3>2 DEF visits
    <3> QED BY <3>1, <3>2 DEF Next, vars, Start, LeaveForGoogle, LoseStart, SignOut, Disconnect, Age
  <2>2. /\ stage[t] = "consent" /\ n \in Sent(b) /\ out' # out
        /\ visit' = [visit EXCEPT ![w] = [trip |-> t, browser |-> b, session |-> user[b], code |-> c,
                                          profile |-> p, late |-> t \in aged]]
    BY <2>1 DEF Return
  <2>3. w = v /\ ~VerifyState(t, n)
    BY <2>0, <2>1 DEF Return, TypeOK
  <2>4. visit'[v].trip = t /\ visit'[v].browser = b
    BY <2>0, <2>2, <2>3 DEF TypeOK
  <2>5. ASSUME t \notin disturbed, b = trip[t].browser, t \notin aged PROVE FALSE
    <3>1. nonce[b] = t
      BY <2>2, <2>5 DEF IInv, Undisturbed
    <3>2. n = t
      BY <2>2, <2>5, <3>1 DEF Sent
    <3> QED BY <2>3, <2>5, <3>2 DEF VerifyState
  <2> QED BY <2>4, <2>5
<1> QED BY <1>1, Invariance, PTL DEF Spec, InvalidOnlyIfDisturbed

-----------------------------------------------------------------------------
(* Whom a link is for.  A login that is answered while a trip is at Google *)
(* takes its nonce away; so only one whose request crosses the start of    *)
(* the trip can put another user in its browser.                           *)

Strayed(t, p) == \E w \in Visit : <<w, t>> \in crossed /\ out[w] = "done" /\ acted[w] = p
Whose(t, p) == p \in {trip[t].starter, Nobody} \/ Strayed(t, p)

\* The same of a user of now, after the step.
WhoseThen(t, p) ==
  \/ p \in {trip'[t].starter, Nobody}
  \/ \E w \in Visit : <<w, t>> \in crossed' /\ out'[w] = "done" /\ acted'[w] = p

SignedIn ==
  \A t \in Trip :
    stage[t] = "starting" \/ (stage[t] = "consent" /\ nonce[trip[t].browser] = t) =>
      Whose(t, user[trip[t].browser])

Crossing ==
  \A t \in Trip, w \in Visit :
    stage[t] = "starting" /\ UnderWay(w) /\ ForLogin(w) /\ visit[w].browser = trip[t].browser =>
      <<w, t>> \in crossed

Carried ==
  \A v \in Visit : at[v] \in {"exchange", "complete"} => Whose(visit[v].trip, visit[v].session)

Links == SignedIn /\ Crossing /\ Carried /\ LinkStraysOnlyOnCrossing

\* What has been is not undone.
Kept ==
  /\ crossed \subseteq crossed'
  /\ \A w \in Visit : out[w] = "done" => out'[w] = "done" /\ acted'[w] = acted[w]
  /\ \A t \in Trip : stage[t] # "new" => trip'[t] = trip[t]
  /\ \A v \in Visit : at[v] # "new" => visit'[v] = visit[v]

LEMMA WhoseKept ==
  Kept => \A t \in Trip : stage[t] # "new" => \A p : Whose(t, p) => WhoseThen(t, p)
BY DEF Kept, Whose, Strayed, WhoseThen

\* The trip of a visit is at Google.
LEMMA TripOfVisit ==
  IInv => \A v \in Visit : at[v] # "new" =>
    visit[v].trip \in Trip /\ stage[visit[v].trip] = "consent" /\ visit[v].browser \in Browser
BY DEF IInv, VisitsWellFormed, Callback

\* What a step that touches no visit leaves of the visits.
LEMMA VisitsQuiet ==
  ASSUME IInv, Links, Kept, UNCHANGED <<at, visit, out, acted>>
  PROVE  Carried' /\ LinkStraysOnlyOnCrossing'
<1>1. Carried'
  <2> SUFFICES ASSUME NEW v \in Visit, at[v] \in {"exchange", "complete"}
               PROVE  WhoseThen(visit[v].trip, visit[v].session)
    BY DEF Carried, Whose, Strayed, WhoseThen
  <2>1. Whose(visit[v].trip, visit[v].session)
    BY DEF Links, Carried
  <2>2. visit[v].trip \in Trip /\ stage[visit[v].trip] # "new"
    BY TripOfVisit
  <2> QED BY <2>1, <2>2, WhoseKept
<1>2. \A v \in Visit : out[v] = "done" =>
        visit[v].trip \in Trip /\ trip'[visit[v].trip] = trip[visit[v].trip]
  <2>1. \A v \in Visit : out[v] = "done" => at[v] # "new"
    BY DEF IInv, Done
  <2> QED BY <2>1, TripOfVisit DEF Kept
<1>3. LinkStraysOnlyOnCrossing'
  BY <1>2 DEF Links, LinkStraysOnlyOnCrossing, Kept
<1> QED BY <1>1, <1>3

LEMMA LinksInit == Init => Links
BY DEF Init, Links, SignedIn, Crossing, Carried, LinkStraysOnlyOnCrossing

LEMMA LinksStart ==
  \A t \in Trip, b \in Home, i \in Intent, a \in Account \cup {NoAccount} :
    IInv /\ Links /\ Start(t, b, i, a) => Links'
<1> SUFFICES ASSUME NEW t \in Trip, NEW b \in Home, NEW i \in Intent,
                    NEW a \in Account \cup {NoAccount}, IInv, Links, Start(t, b, i, a)
             PROVE  Links'
  OBVIOUS
<1> DEFINE new == [browser |-> b, starter |-> user[b], intent |-> i, account |-> a]
<1>0. TypeOK
  BY DEF IInv
<1>1. /\ stage[t] = "new"
      /\ stage' = [stage EXCEPT ![t] = "starting"]
      /\ trip' = [trip EXCEPT ![t] = new]
      /\ crossed' = crossed \cup {<<v, t>> : v \in {w \in VisitsOf(b) : UnderWay(w) /\ ForLogin(w)}}
      /\ UNCHANGED <<nonce, user, at, visit, out, acted>>
  BY DEF Start, jar, visits
<1>2. /\ \A s \in Trip : s # t => stage'[s] = stage[s] /\ trip'[s] = trip[s]
      /\ stage'[t] = "starting" /\ trip'[t] = new
  BY <1>0, <1>1 DEF TypeOK
<1>3. new.browser = b /\ new.starter = user[b]
  OBVIOUS
<1> HIDE DEF new
<1>4. Kept
  BY <1>1, <1>2 DEF Kept
<1>5. SignedIn'
  <2> SUFFICES ASSUME NEW s \in Trip,
                      stage'[s] = "starting" \/ (stage'[s] = "consent" /\ nonce[trip'[s].browser] = s)
               PROVE  WhoseThen(s, user[trip'[s].browser])
    BY <1>1 DEF SignedIn, Whose, Strayed, WhoseThen
  <2>1. CASE s = t
    BY <1>2, <1>3, <2>1 DEF WhoseThen
  <2>2. CASE s # t
    <3>1. trip'[s] = trip[s] /\ stage'[s] = stage[s]
      BY <1>2, <2>2
    <3>2. Whose(s, user[trip[s].browser]) /\ stage[s] # "new"
      BY <3>1 DEF Links, SignedIn
    <3> QED BY <1>4, <3>1, <3>2, WhoseKept
  <2> QED BY <2>1, <2>2
<1>6. Crossing'
  <2> SUFFICES ASSUME NEW s \in Trip, NEW w \in Visit, stage'[s] = "starting", UnderWay(w)',
                      ForLogin(w)', visit[w].browser = trip'[s].browser
               PROVE  <<w, s>> \in crossed'
    BY <1>1 DEF Crossing
  <2>1. UnderWay(w) /\ ForLogin(w) /\ at[w] # "new"
    <3>1. UnderWay(w) /\ at[w] # "new"
      BY <1>1 DEF UnderWay
    <3> QED BY <1>1, <1>2, <3>1, TripOfVisit DEF ForLogin
  <2>2. CASE s = t
    BY <1>1, <1>2, <1>3, <2>1, <2>2 DEF VisitsOf
  <2>3. CASE s # t
    BY <1>1, <1>2, <2>1, <2>3 DEF Links, Crossing
  <2> QED BY <2>2, <2>3
<1> QED BY <1>1, <1>4, <1>5, <1>6, VisitsQuiet DEF Links

LEMMA LinksLeave == \A t \in Trip : IInv /\ Links /\ LeaveForGoogle(t) => Links'
<1> SUFFICES ASSUME NEW t \in Trip, IInv, Links, LeaveForGoogle(t) PROVE Links'
  OBVIOUS
<1> DEFINE b == trip[t].browser
<1>1. /\ stage[t] = "starting" /\ stage' = [stage EXCEPT ![t] = "consent"]
      /\ nonce' = [nonce EXCEPT ![b] = t]
      /\ UNCHANGED <<user, trip, at, visit, out, acted, crossed>>
  BY DEF LeaveForGoogle, NonceAfterStart, visits
<1>2. TypeOK
  BY DEF IInv
<1>3. \A s \in Trip : stage'[s] = IF s = t THEN "consent" ELSE stage[s]
  BY <1>1, <1>2 DEF TypeOK
<1>4. \A c \in Browser : nonce'[c] = IF c = b THEN t ELSE nonce[c]
  BY <1>1, <1>2 DEF TypeOK
<1>5. Kept
  BY <1>1 DEF Kept
<1>6. SignedIn'
  <2> SUFFICES ASSUME NEW s \in Trip,
                      stage'[s] = "starting" \/ (stage'[s] = "consent" /\ nonce'[trip[s].browser] = s)
               PROVE  Whose(s, user[trip[s].browser])
    BY <1>1 DEF SignedIn, Whose, Strayed
  <2>1. CASE s = t
    BY <1>1, <2>1 DEF Links, SignedIn
  <2>2. CASE s # t
    <3>1. stage[s] = stage'[s] /\ stage[s] # "new"
      BY <1>3, <2>2
    <3>2. trip[s].browser \in Browser
      BY <3>1 DEF IInv, TripsWellFormed, State
    <3> QED BY <1>4, <2>2, <3>1, <3>2 DEF Links, SignedIn
  <2> QED BY <2>1, <2>2
<1>7. Crossing'
  BY <1>1, <1>3 DEF Links, Crossing, UnderWay, ForLogin
<1> QED BY <1>1, <1>5, <1>6, <1>7, VisitsQuiet DEF Links

\* A callback that gets past VerifyState carries the session its browser has.
LEMMA LinksReturn ==
  \A v \in Visit, t \in Trip, b \in Browser, c \in Visit \cup {NoVisit}, p \in Profile \cup {Nobody},
     n \in Trip \cup {NoTrip} : IInv /\ Links /\ Return(v, t, b, c, p, n) => Links'
<1> SUFFICES ASSUME NEW v \in Visit, NEW t \in Trip, NEW b \in Browser, NEW c \in Visit \cup {NoVisit},
                    NEW p \in Profile \cup {Nobody}, NEW n \in Trip \cup {NoTrip},
                    IInv, Links, Return(v, t, b, c, p, n)
             PROVE  Links'
  OBVIOUS
<1> DEFINE new == [trip |-> t, browser |-> b, session |-> user[b], code |-> c,
                   profile |-> p, late |-> t \in aged]
           x == IF out'[v] = "" THEN "exchange" ELSE "respond"
<1>1. /\ at[v] = "new" /\ stage[t] = "consent" /\ n \in Sent(b)
      /\ visit' = [visit EXCEPT ![v] = new]
      /\ at' = [at EXCEPT ![v] = x]
      /\ crossed' = crossed \cup {<<v, s>> : s \in {r \in TripsOf(b) : stage[r] = "starting"}}
      /\ UNCHANGED <<nonce, user, stage, trip, acted>>
  BY DEF Return, jar, trips
<1>2. TypeOK
  BY DEF IInv
<1>3. /\ visit'[v] = new /\ at'[v] = x
      /\ \A w \in Visit : w # v => visit'[w] = visit[w] /\ at'[w] = at[w]
  BY <1>1, <1>2 DEF TypeOK
<1>4. new.trip = t /\ new.browser = b /\ new.session = user[b]
  OBVIOUS
<1>5. x = "exchange" => out'[v] = ""
  OBVIOUS
<1> HIDE DEF new, x
<1>6. /\ \A w \in Visit : w # v => out'[w] = out[w]
      /\ out'[v] # "done"
      /\ out'[v] = "" => VerifyState(t, n)
  <2>1. out[v] = ""
    BY <1>1 DEF IInv, VisitsWellFormed
  <2> QED BY <1>2, <2>1 DEF Return, TypeOK
<1>7. Kept
  <2>1. out[v] # "done"
    BY <1>1 DEF IInv, VisitsWellFormed
  <2> QED BY <1>1, <1>3, <1>6, <2>1 DEF Kept
<1>8. SignedIn'
  <2> SUFFICES ASSUME NEW s \in Trip,
                      stage[s] = "starting" \/ (stage[s] = "consent" /\ nonce[trip[s].browser] = s)
               PROVE  WhoseThen(s, user[trip[s].browser])
    BY <1>1 DEF SignedIn, Whose, Strayed, WhoseThen
  <2>1. Whose(s, user[trip[s].browser])
    BY DEF Links, SignedIn
  <2> QED BY <1>7, <2>1, WhoseKept
<1>9. Crossing'
  <2> SUFFICES ASSUME NEW s \in Trip, NEW w \in Visit, stage[s] = "starting", UnderWay(w)',
                      ForLogin(w)', visit'[w].browser = trip[s].browser
               PROVE  <<w, s>> \in crossed'
    BY <1>1 DEF Crossing
  <2>1. CASE w = v
    BY <1>1, <1>3, <1>4, <2>1 DEF TripsOf
  <2>2. CASE w # v
    BY <1>1, <1>3, <2>2 DEF Links, Crossing, UnderWay, ForLogin
  <2> QED BY <2>1, <2>2
<1>10. Carried'
  <2> SUFFICES ASSUME NEW w \in Visit, at'[w] \in {"exchange", "complete"}
               PROVE  WhoseThen(visit'[w].trip, visit'[w].session)
    BY DEF Carried, Whose, Strayed, WhoseThen
  <2>1. CASE w = v
    <3>1. nonce[b] = t
      <4>1. x = "exchange"
        BY <1>3, <2>1 DEF x
      <4> QED BY <1>1, <1>5, <1>6, <4>1, NullAssumption DEF VerifyState, Sent
    <3>2. trip[t].browser = b
      BY <3>1, NullAssumption DEF IInv, Cookies
    <3>3. Whose(t, user[b])
      BY <1>1, <3>1, <3>2 DEF Links, SignedIn
    <3>4. visit'[w].trip = t /\ visit'[w].session = user[b]
      BY <1>3, <1>4, <2>1
    <3> QED BY <1>1, <1>7, <3>3, <3>4, WhoseKept
  <2>2. CASE w # v
    <3>1. visit'[w] = visit[w] /\ at[w] \in {"exchange", "complete"}
      BY <1>3, <2>2
    <3>2. Whose(visit[w].trip, visit[w].session)
      BY <3>1 DEF Links, Carried
    <3>3. visit[w].trip \in Trip /\ stage[visit[w].trip] # "new"
      BY <3>1, TripOfVisit
    <3> QED BY <1>7, <3>1, <3>2, <3>3, WhoseKept
  <2> QED BY <2>1, <2>2
<1>11. LinkStraysOnlyOnCrossing'
  <2>1. \A w \in Visit : out'[w] = "done" => out[w] = "done" /\ visit'[w] = visit[w]
    BY <1>3, <1>6
  <2> QED BY <1>1, <1>7, <2>1 DEF Links, LinkStraysOnlyOnCrossing, Kept
<1> QED BY <1>8, <1>9, <1>10, <1>11 DEF Links

\* A callback on its way comes a step further; a link is completed for the user whose
\* session it carries.
LEMMA LinksVisit ==
  \A v \in Visit : IInv /\ Links /\ (Exchange(v) \/ Complete(v) \/ Lose(v)) => Links'
<1> SUFFICES ASSUME NEW v \in Visit, IInv, Links, Exchange(v) \/ Complete(v) \/ Lose(v)
             PROVE  Links'
  OBVIOUS
<1>0. TypeOK
  BY DEF IInv
<1>1. /\ UnderWay(v) /\ at[v] # "new"
      /\ UNCHANGED <<nonce, user, stage, trip, visit, crossed>>
  BY DEF Exchange, Complete, Lose, UnderWay, jar, trips, history
<1>2. \A w \in Visit : w # v => at'[w] = at[w] /\ out'[w] = out[w] /\ acted'[w] = acted[w]
  <2>1. CASE Exchange(v) \/ Lose(v)
    BY <1>0, <2>1 DEF Exchange, Lose, Answer, TypeOK
  <2>2. CASE Complete(v)
    <3>1. CompleteLogin(v) \/ CompleteLink(v) \/ CompleteReconnect(v)
      BY <2>2, <1>1, Intents DEF Complete, Intent, ForLogin
    <3> QED BY <1>0, <3>1 DEF CompleteLogin, CompleteLink, CompleteReconnect, Act, Fail, Answer, TypeOK
  <2> QED BY <2>1, <2>2
<1>3. /\ at'[v] \in {"exchange", "complete"} => at[v] = "exchange"
      /\ out[v] = "done" => out'[v] = "done" /\ acted'[v] = acted[v]
  <2>1. out[v] = "done" => Lose(v)
    BY <1>1 DEF IInv, VisitsWellFormed, Exchange, Complete
  <2>2. out[v] = "done" => out'[v] = "done" /\ acted'[v] = acted[v]
    BY <2>1 DEF Lose
  <2>3. CASE Exchange(v) \/ Lose(v)
    BY <1>0, <2>2, <2>3 DEF Exchange, Lose, Answer, TypeOK
  <2>4. CASE Complete(v)
    <3>1. CompleteLogin(v) \/ CompleteLink(v) \/ CompleteReconnect(v)
      BY <2>4, <1>1, Intents DEF Complete, Intent, ForLogin
    <3>2. at' = [at EXCEPT ![v] = "respond"]
      BY <3>1 DEF CompleteLogin, CompleteLink, CompleteReconnect, Act, Fail, Answer
    <3> QED BY <1>0, <2>2, <3>2 DEF TypeOK
  <2> QED BY <2>3, <2>4
<1>4. Kept
  BY <1>1, <1>2, <1>3 DEF Kept
<1>5. SignedIn'
  <2> SUFFICES ASSUME NEW s \in Trip,
                      stage[s] = "starting" \/ (stage[s] = "consent" /\ nonce[trip[s].browser] = s)
               PROVE  WhoseThen(s, user[trip[s].browser])
    BY <1>1 DEF SignedIn, Whose, Strayed, WhoseThen
  <2>1. Whose(s, user[trip[s].browser])
    BY DEF Links, SignedIn
  <2> QED BY <1>4, <2>1, WhoseKept
<1>6. Crossing'
  <2>1. \A w \in Visit : UnderWay(w)' => UnderWay(w)
    BY <1>1, <1>2 DEF UnderWay
  <2> QED BY <1>1, <2>1 DEF Links, Crossing, ForLogin
<1>7. Carried'
  <2> SUFFICES ASSUME NEW w \in Visit, at'[w] \in {"exchange", "complete"}
               PROVE  WhoseThen(visit[w].trip, visit[w].session)
    BY <1>1 DEF Carried, Whose, Strayed, WhoseThen
  <2>1. at[w] \in {"exchange", "complete"}
    BY <1>2, <1>3
  <2>2. Whose(visit[w].trip, visit[w].session)
    BY <2>1 DEF Links, Carried
  <2>3. visit[w].trip \in Trip /\ stage[visit[w].trip] # "new"
    BY <2>1, TripOfVisit
  <2> QED BY <1>4, <2>2, <2>3, WhoseKept
<1>8. LinkStraysOnlyOnCrossing'
  <2> SUFFICES ASSUME NEW w \in Visit, out'[w] = "done", trip[visit[w].trip].intent = "link"
               PROVE  \/ acted'[w] = trip[visit[w].trip].starter
                      \/ \E y \in Visit : /\ <<y, visit[w].trip>> \in crossed
                                          /\ out'[y] = "done" /\ acted'[y] = acted'[w]
    BY <1>1 DEF LinkStraysOnlyOnCrossing
  <2>1. CASE out[w] = "done"
    <3>1. out'[w] = "done" /\ acted'[w] = acted[w]
      BY <1>4, <2>1 DEF Kept
    <3>2. \/ acted[w] = trip[visit[w].trip].starter
          \/ \E y \in Visit : /\ <<y, visit[w].trip>> \in crossed
                              /\ out[y] = "done" /\ acted[y] = acted[w]
      BY <2>1 DEF Links, LinkStraysOnlyOnCrossing
    <3>3. CASE acted[w] = trip[visit[w].trip].starter
      BY <3>1, <3>3
    <3>4. CASE \E y \in Visit : /\ <<y, visit[w].trip>> \in crossed
                                /\ out[y] = "done" /\ acted[y] = acted[w]
      <4>1. PICK y \in Visit : /\ <<y, visit[w].trip>> \in crossed
                               /\ out[y] = "done" /\ acted[y] = acted[w]
        BY <3>4
      <4>2. out'[y] = "done" /\ acted'[y] = acted[y]
        BY <1>4, <4>1 DEF Kept
      <4> QED BY <3>1, <4>1, <4>2
    <3> QED BY <3>2, <3>3, <3>4
  <2>2. CASE out[w] # "done"
    <3>1. w = v
      BY <1>2, <2>2
    <3>2. Complete(v)
      BY <1>0, <2>2, <3>1 DEF Exchange, Lose, Answer, TypeOK
    <3>3. at[v] = "complete" /\ CompleteLink(v)
      BY <3>1, <3>2 DEF Complete, ForLogin
    <3>4. visit[v].session # Nobody /\ acted'[v] = visit[v].session
      BY <1>0, <2>2, <3>1, <3>3 DEF CompleteLink, Act, Fail, Answer, TypeOK
    <3>5. Whose(visit[v].trip, visit[v].session)
      BY <3>3 DEF Links, Carried
    <3>6. visit[v].trip \in Trip /\ stage[visit[v].trip] # "new"
      BY <3>3, TripOfVisit
    <3>7. WhoseThen(visit[v].trip, visit[v].session)
      BY <1>4, <3>5, <3>6, WhoseKept
    <3> QED BY <1>1, <3>1, <3>4, <3>7 DEF WhoseThen
  <2> QED BY <2>1, <2>2
<1> QED BY <1>5, <1>6, <1>7, <1>8 DEF Links

\* A login that arrives finds the trips of its browser without their nonce, or crossed.
LEMMA LinksRespond == \A v \in Visit : IInv /\ Links /\ Respond(v) => Links'
<1> SUFFICES ASSUME NEW v \in Visit, IInv, Links, Respond(v) PROVE Links'
  OBVIOUS
<1> DEFINE b == visit[v].browser
           u == IF SignsIn(v) THEN acted[v] ELSE user[b]
<1>1. /\ at[v] = "respond" /\ at' = [at EXCEPT ![v] = "done"]
      /\ nonce' = [nonce EXCEPT ![b] = NoTrip]
      /\ user' = [user EXCEPT ![b] = u]
      /\ UNCHANGED <<stage, trip, visit, out, acted, crossed>>
  BY DEF Respond, CookieAfter, trips
<1>2. TypeOK
  BY DEF IInv
<1>3. \A c \in Browser : /\ nonce'[c] = IF c = b THEN NoTrip ELSE nonce[c]
                         /\ user'[c] = IF c = b THEN u ELSE user[c]
  BY <1>1, <1>2 DEF TypeOK
<1>4. \A w \in Visit : at'[w] = IF w = v THEN "done" ELSE at[w]
  BY <1>1, <1>2 DEF TypeOK
<1>5. Kept
  BY <1>1 DEF Kept
<1>6. SignedIn'
  <2> SUFFICES ASSUME NEW s \in Trip,
                      stage[s] = "starting" \/ (stage[s] = "consent" /\ nonce'[trip[s].browser] = s)
               PROVE  Whose(s, user'[trip[s].browser])
    BY <1>1 DEF SignedIn, Whose, Strayed
  <2>1. trip[s].browser \in Browser
    BY DEF IInv, TripsWellFormed, State
  <2>2. CASE trip[s].browser # b
    BY <1>3, <2>1, <2>2 DEF Links, SignedIn
  <2>3. CASE trip[s].browser = b
    <3>1. stage[s] = "starting"
      BY <1>3, <2>1, <2>3, NullAssumption
    <3>2. CASE SignsIn(v)
      <4>1. <<v, s>> \in crossed
        BY <1>1, <2>3, <3>1, <3>2 DEF Links, Crossing, UnderWay, SignsIn
      <4>2. user'[b] = acted[v] /\ out[v] = "done"
        BY <1>3, <2>1, <2>3, <3>2 DEF SignsIn
      <4> QED BY <2>3, <4>1, <4>2 DEF Whose, Strayed
    <3>3. CASE ~SignsIn(v)
      <4>1. user'[b] = user[b]
        BY <1>3, <2>1, <2>3, <3>3
      <4> QED BY <2>3, <3>1, <4>1 DEF Links, SignedIn
    <3> QED BY <3>2, <3>3
  <2> QED BY <2>2, <2>3
<1>7. Crossing' /\ Carried' /\ LinkStraysOnlyOnCrossing'
  <2>1. \A w \in Visit : /\ UnderWay(w)' => UnderWay(w)
                         /\ at'[w] \in {"exchange", "complete"} => at'[w] = at[w]
    BY <1>4 DEF UnderWay
  <2>2. Crossing'
    BY <1>1, <2>1 DEF Links, Crossing, ForLogin
  <2>3. Carried'
    BY <1>1, <2>1 DEF Links, Carried, Whose, Strayed
  <2>4. LinkStraysOnlyOnCrossing'
    BY <1>1 DEF Links, LinkStraysOnlyOnCrossing
  <2> QED BY <2>2, <2>3, <2>4
<1> QED BY <1>6, <1>7 DEF Links

LEMMA LinksOthers ==
  IInv /\ Links /\ ((\E t \in Trip : LoseStart(t) \/ Age(t)) \/ (\E b \in Browser : SignOut(b))
                    \/ (\E a \in Account : Disconnect(a)) \/ UNCHANGED vars) => Links'
<1> SUFFICES ASSUME IInv, Links,
                    (\E t \in Trip : LoseStart(t) \/ Age(t)) \/ (\E b \in Browser : SignOut(b))
                      \/ (\E a \in Account : Disconnect(a)) \/ UNCHANGED vars
             PROVE  Links'
  OBVIOUS
<1>0. TypeOK
  BY DEF IInv
<1>1. UNCHANGED <<nonce, trip, at, visit, out, acted, crossed>>
  BY DEF LoseStart, Age, SignOut, Disconnect, vars, jar, trips, visits, history
<1>2. \A s \in Trip : stage'[s] \in {stage[s], "lost"}
  BY <1>0 DEF LoseStart, Age, SignOut, Disconnect, vars, trips, TypeOK
<1>3. \A c \in Browser : user'[c] \in {user[c], Nobody}
  BY <1>0 DEF LoseStart, Age, SignOut, Disconnect, vars, jar, TypeOK
<1>4. SignedIn'
  <2> SUFFICES ASSUME NEW s \in Trip,
                      stage[s] = "starting" \/ (stage[s] = "consent" /\ nonce[trip[s].browser] = s)
               PROVE  Whose(s, user'[trip[s].browser])
    BY <1>1, <1>2 DEF SignedIn, Whose, Strayed
  <2>1. trip[s].browser \in Browser
    BY DEF IInv, TripsWellFormed, State
  <2> QED BY <1>3, <2>1 DEF Links, SignedIn, Whose
<1>5. Crossing'
  BY <1>1, <1>2 DEF Links, Crossing, UnderWay, ForLogin
<1>6. Carried' /\ LinkStraysOnlyOnCrossing'
  BY <1>1 DEF Links, Carried, Whose, Strayed, LinkStraysOnlyOnCrossing
<1> QED BY <1>4, <1>5, <1>6 DEF Links

LEMMA LinksStep == IInv /\ Links /\ [Next]_vars => Links'
BY LinksStart, LinksLeave, LinksReturn, LinksVisit, LinksRespond, LinksOthers DEF Next

\* A link is completed for the user who set out, but for one whose login in the same
\* browser was under way just when the link was started (completeLink).
THEOREM LinksFindTheirUser == Spec => []LinkStraysOnlyOnCrossing
<1>1. Links => LinkStraysOnlyOnCrossing
  BY DEF Links
<1> QED BY <1>1, LinksInit, LinksStep, Invariance, PTL DEF Spec
=============================================================================
