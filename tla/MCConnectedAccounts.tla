------------------------ MODULE MCConnectedAccounts ------------------------
(***************************************************************************)
(* Two users, three account ids, two Google accounts; tables with one or   *)
(* two cards of the first user, and two requests of any kind.              *)
(***************************************************************************)
EXTENDS ConnectedAccounts, TLC

CONSTANTS u1, u2, i1, i2, i3, g1, g2, r1, r2, r3, r4

MCSubOf == (r1 :> g1) @@ (r2 :> g2) @@ (r3 :> g1) @@ (r4 :> g2)

Card(s, sc, r, k) ==
  [user |-> u1, sub |-> s, scope |-> sc, status |-> "connected",
   cred |-> r, order |-> k, used |-> FALSE]

NoCards == [i \in AcctId |-> NoRow]
OneCard == [NoCards EXCEPT ![i1] = Card(g1, "drive.file", r1, 0)]
TwoCards == [OneCard EXCEPT ![i2] = Card(g2, "drive", r2, 1)]

MCSeeds == {OneCard, TwoCards}
MCSeedsEmpty == {NoCards}
MCSeedsTwo == {TwoCards}

\* The order there is, another, one with a card twice, and one that misses a card.
MCOrders == {<<i1, i2>>, <<i2, i1>>, <<i1, i1>>, <<i1>>}

MCOps == {"link", "reconnect", "disconnect", "reorder", "use", "list"}

Requests == Permutations(Req)
=============================================================================
