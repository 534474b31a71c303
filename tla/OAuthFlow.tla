------------------------------ MODULE OAuthFlow ------------------------------
(***************************************************************************)
(* The round trip to Google's consent screen (handleAuthStart,             *)
(* handleAuthCallback and completeOAuth of internal/server/routes_auth.go, *)
(* SignState and VerifyState of internal/auth/state.go, the cookies of     *)
(* internal/auth/auth.go).                                                 *)
(*                                                                         *)
(* Nothing of a round trip is stored at the server: what it is for travels *)
(* in a signed state, and a nonce in the one state cookie of the browser   *)
(* ties the two ends together.  A browser has several tabs, so trips       *)
(* overlap: a cookie is read when a request leaves and written when an     *)
(* answer arrives, and answers may be late or lost.  A trip stands for its *)
(* state and its nonce, a visit for one request to the callback and for    *)
(* the code Google may have issued with it.                                *)
(*                                                                         *)
(* The session cookie is the user it is of; whether the session is still   *)
(* valid is Sessions' business, so resolving one may always fail.  What a  *)
(* completed trip writes to the accounts is in ConnectedAccounts; here     *)
(* their rows only disappear.  "reconnect" stands for upgrade as well.     *)
(***************************************************************************)
EXTENDS Naturals, FiniteSets

CONSTANTS
  Browser,
  Home,      \* the browsers trips are started in; an address may be opened in any
  Trip, Visit,
  Profile,   \* Google accounts; the user who signs in with one is it
  Account,   \* the accounts connected at first
  ownerOf,   \* [Account -> Profile]: the user an account is connected by
  googleOf,  \* [Account -> Profile]: the Google account it is of
  MaxMishaps, \* bound on what happens besides: logouts, disconnects, lost answers, delays
  NoTrip, NoVisit, Nobody, NoAccount

ASSUME AccountAssumption == ownerOf \in [Account -> Profile] /\ googleOf \in [Account -> Profile]
ASSUME HomeAssumption == Home \subseteq Browser
ASSUME MishapAssumption == MaxMishaps \in Nat
ASSUME NullAssumption ==
  NoTrip \notin Trip /\ NoVisit \notin Visit /\ Nobody \notin Profile /\ NoAccount \notin Account

Intent == {"login", "link", "reconnect"}

\* The signed state, and the browser and user of the request that began the trip.
State == [browser: Browser, starter: Profile \cup {Nobody}, intent: Intent,
          account: Account \cup {NoAccount}]

\* A request to the callback: the session cookie it carries, the code Google adds, for
\* which of its accounts, and whether the state was too old by then.
Callback == [trip: Trip, browser: Browser, session: Profile \cup {Nobody},
             code: Visit \cup {NoVisit}, profile: Profile \cup {Nobody}, late: BOOLEAN]

\* "failed" stands for the errors after VerifyState, one code or another.
Outcome == {"", "done", "denied", "invalid", "failed"}

VARIABLES
  mishaps,   \* how much has happened besides
  aged,      \* trips that began more than stateTTL ago
  nonce,     \* the state cookie of each browser
  user,      \* whose session cookie each browser has
  present,   \* the accounts still connected
  stage,     \* of each trip: "new", "starting", "consent" or "lost"
  trip,      \* its state
  at,        \* where each visit is: "new", "exchange", "complete", "respond", "done" or "lost"
  visit,     \* its request
  out,       \* how it was answered
  acted,     \* for whom
  spent,     \* codes exchanged
  disturbed, \* trips in whose browser an answer has written the cookie since they left
  replay,    \* visits that left after the answer to another one of their trip
  crossed    \* visits under way while a trip was being started in their browser

jar == <<nonce, user>>
trips == <<stage, trip>>
visits == <<at, visit, out, acted, spent>>
history == <<disturbed, replay, crossed>>
vars == <<mishaps, aged, jar, present, trips, visits, history>>

TypeOK ==
  /\ mishaps \in Nat
  /\ aged \subseteq Trip
  /\ nonce \in [Browser -> Trip \cup {NoTrip}]
  /\ user \in [Browser -> Profile \cup {Nobody}]
  /\ present \subseteq Account
  /\ stage \in [Trip -> {"new", "starting", "consent", "lost"}]
  /\ trip \in [Trip -> State \cup {NoTrip}]
  /\ at \in [Visit -> {"new", "exchange", "complete", "respond", "done", "lost"}]
  /\ visit \in [Visit -> Callback \cup {NoVisit}]
  /\ out \in [Visit -> Outcome]
  /\ acted \in [Visit -> Profile \cup {Nobody}]
  /\ spent \subseteq Visit
  /\ disturbed \subseteq Trip /\ replay \subseteq Visit
  /\ crossed \subseteq Visit \X Trip

Init ==
  /\ mishaps = 0 /\ aged = {}
  /\ nonce = [b \in Browser |-> NoTrip]
  /\ user \in {u \in [Browser -> Profile \cup {Nobody}] : \A b \in Browser \ Home : u[b] = Nobody}
  /\ present = Account
  /\ stage = [t \in Trip |-> "new"] /\ trip = [t \in Trip |-> NoTrip]
  /\ at = [v \in Visit |-> "new"] /\ visit = [v \in Visit |-> NoVisit]
  /\ out = [v \in Visit |-> ""] /\ acted = [v \in Visit |-> Nobody]
  /\ spent = {}
  /\ disturbed = {} /\ replay = {} /\ crossed = {}

UnderWay(v) == at[v] \in {"exchange", "complete", "respond"}
TripsOf(b) == {t \in Trip : stage[t] \in {"starting", "consent"} /\ trip[t].browser = b}
ForLogin(v) == trip[visit[v].trip].intent = "login"
VisitsOf(b) == {v \in Visit : at[v] # "new" /\ visit[v].browser = b}

Mishap == mishaps < MaxMishaps /\ mishaps' = mishaps + 1

-----------------------------------------------------------------------------
(* handleAuthStart                                                         *)

\* RequiresSession and RequiresAccount, and GetAccount for the signed-in user.
MayStart(b, i, a) ==
  /\ i # "login" => user[b] # Nobody
  /\ IF i = "reconnect" THEN a \in present /\ ownerOf[a] = user[b] ELSE a = NoAccount

\* A start that may not is answered with an error and changes nothing.
Start(t, b, i, a) ==
  /\ stage[t] = "new"
  /\ MayStart(b, i, a)
  /\ stage' = [stage EXCEPT ![t] = "starting"]
  /\ trip' = [trip EXCEPT ![t] = [browser |-> b, starter |-> user[b], intent |-> i,
                                  account |-> a]]
  /\ crossed' = crossed \cup {<<v, t>> : v \in {w \in VisitsOf(b) : UnderWay(w) /\ ForLogin(w)}}
  /\ UNCHANGED <<mishaps, aged, jar, present, visits, disturbed, replay>>

\* Mutant: a nonce that is still pending is kept.
NonceAfterStart_Pending(t) ==
  LET n == nonce[trip[t].browser] IN IF n # NoTrip THEN n ELSE t

\* SetStateCookie
NonceAfterStart(t) == t

\* The redirect arrives: the browser takes the nonce and goes on to Google.
LeaveForGoogle(t) ==
  LET b == trip[t].browser IN
  /\ stage[t] = "starting"
  /\ stage' = [stage EXCEPT ![t] = "consent"]
  /\ nonce' = [nonce EXCEPT ![b] = NonceAfterStart(t)]
  /\ disturbed' = disturbed \cup {s \in TripsOf(b) \ {t} : stage[s] = "consent"}
  /\ UNCHANGED <<mishaps, aged, user, present, trip, visits, replay, crossed>>

LoseStart(t) ==
  /\ Mishap
  /\ stage[t] = "starting"
  /\ stage' = [stage EXCEPT ![t] = "lost"]
  /\ UNCHANGED <<aged, jar, present, trip, visits, history>>

-----------------------------------------------------------------------------
(* handleAuthCallback                                                      *)

\* The cookie lives as long as the state: the browser drops it then, unless its clock is
\* behind.
Sent(b) == {nonce[b]} \cup (IF nonce[b] \in aged THEN {NoTrip} ELSE {})

\* Mutants: the signature is enough; an old state will do.
VerifyState_NoNonce(t, n) == t \notin aged
VerifyState_AnyAge(t, n) == n = t

\* VerifyState: the nonce of the cookie and the age of the state.
VerifyState(t, n) == n = t /\ t \notin aged

\* Google sends the browser back: with a new code for the account the user chose, with
\* the code of an earlier visit when he reloads or goes back, with an error or with
\* neither.  The address may also have been carried to another browser.
Codes(v, t) == {v} \cup {w \in Visit : at[w] # "new" /\ visit[w].trip = t /\ visit[w].code = w}

Return(v, t, b, c, p, n) ==
  /\ at[v] = "new" /\ stage[t] = "consent"
  /\ c \in Codes(v, t) \cup {NoVisit} /\ n \in Sent(b)
  /\ c \notin {v, NoVisit} => p = visit[c].profile
  /\ (c = NoVisit) = (p = Nobody)
  /\ visit' = [visit EXCEPT ![v] = [trip |-> t, browser |-> b, session |-> user[b], code |-> c,
                                    profile |-> p, late |-> t \in aged]]
  /\ \/ /\ c = NoVisit
        /\ out' = [out EXCEPT ![v] = "denied"]
     \/ /\ ~VerifyState(t, n)
        /\ out' = [out EXCEPT ![v] = "invalid"]
     \/ /\ c = NoVisit /\ VerifyState(t, n)
        /\ out' = [out EXCEPT ![v] = "failed"]
     \/ /\ c # NoVisit /\ VerifyState(t, n)
        /\ UNCHANGED out
  /\ at' = [at EXCEPT ![v] = IF out'[v] = "" THEN "exchange" ELSE "respond"]
  /\ replay' = IF \E w \in VisitsOf(b) : at[w] = "done" /\ visit[w].trip = t
               THEN replay \cup {v} ELSE replay
  /\ crossed' = crossed \cup {<<v, s>> : s \in {r \in TripsOf(b) : stage[r] = "starting"}}
  /\ UNCHANGED <<mishaps, aged, jar, present, trips, acted, spent, disturbed>>

Answer(v, o) ==
  /\ out' = [out EXCEPT ![v] = o]
  /\ at' = [at EXCEPT ![v] = "respond"]

\* Exchange and Profile, and the checks of what they return: the code works once, the
\* refresh token is there, the email verified and the scope granted.
Exchange(v) ==
  /\ at[v] = "exchange"
  /\ \/ /\ visit[v].code \notin spent
        /\ spent' = spent \cup {visit[v].code}
        /\ at' = [at EXCEPT ![v] = "complete"]
        /\ UNCHANGED out
     \/ /\ spent' \in {spent, spent \cup {visit[v].code}}
        /\ Answer(v, "failed")
  /\ UNCHANGED <<mishaps, aged, jar, present, trips, visit, acted, history>>

Act(v, u) == Answer(v, "done") /\ acted' = [acted EXCEPT ![v] = u]
Fail(v) == Answer(v, "failed") /\ UNCHANGED acted

\* completeLogin: whoever Google says the user is.
CompleteLogin(v) == Act(v, visit[v].profile) \/ Fail(v)

\* completeLink: whoever is signed in now.
CompleteLink(v) ==
  \/ visit[v].session # Nobody /\ Act(v, visit[v].session)
  \/ Fail(v)

\* GetAccount
Found(u, a) == a \in present /\ ownerOf[a] = u

\* completeReconnect: whoever is signed in now, if the account is his.
CompleteReconnect(v) ==
  LET u == visit[v].session
      a == trip[visit[v].trip].account
  IN \/ u # Nobody /\ Found(u, a) /\ googleOf[a] = visit[v].profile /\ Act(v, u)
     \/ Fail(v)

Complete(v) ==
  /\ at[v] = "complete"
  /\ CASE ForLogin(v) -> CompleteLogin(v)
       [] trip[visit[v].trip].intent = "link" -> CompleteLink(v)
       [] trip[visit[v].trip].intent = "reconnect" -> CompleteReconnect(v)
  /\ UNCHANGED <<mishaps, aged, jar, present, trips, visit, spent, history>>

\* Mutant: the cookie is cleared when the trip succeeds.
CookieAfter_OnSuccess(v) == IF out[v] = "done" THEN NoTrip ELSE nonce[visit[v].browser]

\* ClearStateCookie, in every answer of the callback.
CookieAfter(v) == NoTrip

\* SetSessionCookies, in the answer to a login.
SignsIn(v) == out[v] = "done" /\ ForLogin(v)

\* The redirect back into the web application arrives.
Respond(v) ==
  LET b == visit[v].browser IN
  /\ at[v] = "respond"
  /\ at' = [at EXCEPT ![v] = "done"]
  /\ nonce' = [nonce EXCEPT ![b] = CookieAfter(v)]
  /\ user' = [user EXCEPT ![b] = IF SignsIn(v) THEN acted[v] ELSE @]
  /\ disturbed' = disturbed \cup {t \in TripsOf(b) : stage[t] = "consent"}
  /\ UNCHANGED <<mishaps, aged, present, trips, visit, out, acted, spent, replay, crossed>>

\* The connection breaks or the server goes down, and no answer arrives.
Lose(v) ==
  /\ Mishap
  /\ UnderWay(v)
  /\ at' = [at EXCEPT ![v] = "lost"]
  /\ UNCHANGED <<aged, jar, present, trips, visit, out, acted, spent, history>>

-----------------------------------------------------------------------------
(* Meanwhile                                                               *)

\* ClearSessionCookies
SignOut(b) ==
  /\ Mishap
  /\ user[b] # Nobody
  /\ user' = [user EXCEPT ![b] = Nobody]
  /\ UNCHANGED <<aged, nonce, present, trips, visits, history>>

Disconnect(a) ==
  /\ Mishap
  /\ a \in present
  /\ present' = present \ {a}
  /\ UNCHANGED <<aged, jar, trips, visits, history>>

\* stateTTL passes.
Age(t) ==
  /\ Mishap
  /\ stage[t] = "consent" /\ t \notin aged
  /\ aged' = aged \cup {t}
  /\ UNCHANGED <<jar, present, trips, visits, history>>

Next ==
  \/ \E t \in Trip, b \in Home, i \in Intent, a \in Account \cup {NoAccount} : Start(t, b, i, a)
  \/ \E t \in Trip : LeaveForGoogle(t) \/ LoseStart(t)
  \/ \E v \in Visit, t \in Trip, b \in Browser, c \in Visit \cup {NoVisit}, p \in Profile \cup {Nobody},
        n \in Trip \cup {NoTrip} : Return(v, t, b, c, p, n)
  \/ \E v \in Visit : Exchange(v) \/ Complete(v) \/ Respond(v) \/ Lose(v)
  \/ \E b \in Browser : SignOut(b)
  \/ \E a \in Account : Disconnect(a)
  \/ \E t \in Trip : Age(t)

Spec == Init /\ [][Next]_vars

-----------------------------------------------------------------------------
(* Properties                                                              *)

\* A trip is completed in the browser that started it and while its state is valid, and
\* what is reconnected is the account of the user who set out to reconnect it, with the
\* Google account it is of, whatever logins and logouts came in between.
OwnRoundTrip ==
  \A v \in Visit :
    out[v] = "done" =>
      LET s == trip[visit[v].trip] IN
      /\ visit[v].browser = s.browser
      /\ ~visit[v].late
      /\ s.intent = "reconnect" => /\ acted[v] = s.starter /\ acted[v] = ownerOf[s.account]
                                   /\ visit[v].profile = googleOf[s.account]

\* A link goes to the user who is signed in when it comes back.  That is the one who set
\* out, unless a login of the same browser was under way just when the link was started:
\* any other login takes the nonce with it.
LinkStraysOnlyOnCrossing ==
  \A v \in Visit :
    out[v] = "done" /\ trip[visit[v].trip].intent = "link" =>
      \/ acted[v] = trip[visit[v].trip].starter
      \/ \E w \in Visit :
           /\ <<w, visit[v].trip>> \in crossed
           /\ out[w] = "done" /\ acted[w] = acted[v]

\* Once the answer to a callback has reached the browser, whatever it said, no later
\* callback of that trip gets past VerifyState: the state is used up.
StateUsedUp == \A v \in replay : out[v] \in {"denied", "invalid"}

\* A callback in the right browser and in time is told that its link is no longer valid
\* only if another trip of that browser has written the state cookie meanwhile.
InvalidOnlyIfDisturbed ==
  [][\A v \in Visit :
       out[v] = "" /\ out'[v] = "invalid" =>
         LET t == visit'[v].trip IN
         \/ t \in disturbed
         \/ visit'[v].browser # trip[t].browser
         \/ t \in aged]_vars
=============================================================================
