---------------------------- MODULE MCVenueWallet ----------------------------
(* An instance of VenueWallet for TLC. *)
EXTENDS VenueWallet

\* Assets with and without a price, some of them locked or owed; wallets with
\* none, one or two of them.
Assets ==
  {[qty |-> q, locked |-> l, avg |-> p[1], price |-> p[2]] :
     q \in {-2, 0, 2}, l \in {0, 1},
     p \in {<<0, Nothing>>, <<3, Nothing>>, <<-3, 4>>, <<3, -4>>}}

MCSpots ==
  {[free |-> m[1], locked |-> m[2], assets |-> a] :
     m \in {<<0, 1>>, <<5, -5>>, <<5, 1>>},
     a \in {<<>>} \cup {<<b>> : b \in Assets}
           \cup {<<b, [qty |-> 1, locked |-> 0, avg |-> 0, price |-> 7]>> : b \in Assets}}

\* Futures of both modes, with money of the account, of positions, or both.
MCFutures ==
  {[mode |-> m, initial |-> n, positions |-> p] :
     m \in {"", "isolated", "cross"}, n \in {-5, 0, 5, 1005},
     p \in {<<>>, <<[margin |-> 5, leverage |-> 5]>>, <<[margin |-> 0, leverage |-> 0]>>,
            <<[margin |-> -5, leverage |-> 5]>>,
            <<[margin |-> 5, leverage |-> 5], [margin |-> 0, leverage |-> 0]>>}}

\* Wallets after a short sale, measured well, badly or not at all.
Open == [margin |-> 5, leverage |-> 2, qty |-> -1, entry |-> 4, mark |-> 6, pnl |-> 2]

MCEvolved ==
  {[spot |-> [free |-> 5, locked |-> 0, assets |-> <<>>],
    futures |-> [mode |-> m, initial |-> 5, balance |-> 5, pnl |-> 2, positions |-> <<Open>>],
    total |-> 15, balance |-> 5, available |-> 3, measured |-> Measures(a, s, 10)] :
     m \in {"isolated", "cross"}, a \in BOOLEAN, s \in {4, 5}}
=============================================================================
