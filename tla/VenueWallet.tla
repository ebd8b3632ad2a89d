----------------------------- MODULE VenueWallet -----------------------------
(***************************************************************************)
(* Venues and their wallets: a venue is created for one environment, with  *)
(* credentials if it is a real one and with a simulated wallet if it is    *)
(* for backtests; its wallet is then shown with its value split into a     *)
(* spot part and a futures part.  The total is worked out when the venue   *)
(* is created, by wallet_bootstrap.go; the parts when it is shown, by      *)
(* walletagg, unless core-service has measured them.                       *)
(*                                                                         *)
(* Amounts are whole numbers of either sign (the gateway checks none),     *)
(* below 10^8, of which prices are a multiple of leverages: TotalsMatch is *)
(* then equality.                                                          *)
(***************************************************************************)
EXTENDS Integers, Sequences, Functions

CONSTANTS
  Venues,
  Spots, Futures,  \* wallets a client may ask for
  Initials,        \*   and initial balances
  Evolved,         \* wallets as core-service has them after trades
  Nothing          \* a field left out

Environments == {"backtest", "demo", "live"}

VenueEntries ==
  [environment : Environments, credential : BOOLEAN, marginMode : {"none", "cross", "isolated"}]

ASSUME VenueWalletAssumption ==
  /\ \A s \in Spots :
       /\ s.free \in Int /\ s.locked \in Int
       /\ s.assets \in Seq([qty : Int, locked : Int, avg : Int, price : Int \cup {Nothing}])
  /\ \A f \in Futures :
       /\ f.mode \in {"", "isolated", "cross"} /\ f.initial \in Int
       /\ f.positions \in Seq([margin : Int, leverage : Int])
  /\ Initials \subseteq Int
  /\ Nothing \notin Int /\ Nothing \notin Spots /\ Nothing \notin Futures
  /\ Nothing \notin Evolved /\ Nothing \notin VenueEntries

VARIABLES
  venue,   \* the venues core-service has
  wallet,  \* and their wallets
  fresh,   \* those that are still as they were created
  page     \* the last wallet shown of each

vars == <<venue, wallet, fresh, page>>

Bodies ==
  [environment : Environments \cup {""}, market : {"spot", "futures"},
   marginMode : {"", "none", "cross", "isolated"}, credential : BOOLEAN,
   initial : Initials \cup {Nothing}, spot : Spots \cup {Nothing},
   futures : Futures \cup {Nothing}]

-----------------------------------------------------------------------------
(* The codes of a venue.                                                   *)

venueEnvironmentCode(raw) == IF raw = "" THEN "demo" ELSE raw

\* A spot venue has no margin mode, another one that is crossed by default.
MarginModeIsValid(raw, market) ==
  IF market = "spot" THEN raw \in {"", "none"} ELSE raw \in {"", "cross", "isolated"}

BugModeAsTyped(raw, market) == raw

venueMarginModeCode(raw, market) ==
  IF market = "spot" THEN "none" ELSE IF raw = "" THEN "cross" ELSE raw

-----------------------------------------------------------------------------
(* The wallet of a new backtest venue.                                     *)

\* The initial balance is free money of a spot wallet, if none is described.
buildSpotWallet(spot, initial) ==
  IF spot # Nothing THEN spot
  ELSE IF initial <= 0 THEN Nothing
  ELSE [free |-> initial, locked |-> 0, assets |-> <<>>]

Position(p) ==
  [margin |-> IF p.margin = 0 THEN 1000 ELSE p.margin,
   leverage |-> IF p.leverage = 0 THEN 10 ELSE p.leverage,
   qty |-> 0, entry |-> 0, mark |-> 0, pnl |-> 0]

\* Money of the account as a whole is a balance only when it is crossed.
buildFuturesWallet(f) ==
  IF f = Nothing THEN Nothing
  ELSE LET crossed == f.mode = "cross" /\ f.initial > 0
       IN  [mode |-> IF f.mode = "" THEN "isolated" ELSE f.mode,
            initial |-> f.initial,
            balance |-> IF crossed THEN f.initial ELSE 0,
            pnl |-> 0,
            positions |-> [i \in DOMAIN f.positions |-> Position(f.positions[i])]]

\* What an asset is worth each, or nothing if no price is known.
BootstrapPrice(a) == IF a.price # Nothing THEN a.price ELSE a.avg

AssetBootstrapValue(a) ==
  IF BootstrapPrice(a) > 0 THEN (a.qty + a.locked) * BootstrapPrice(a) ELSE 0

spotBootstrapValue(s) ==
  IF s = Nothing THEN 0
  ELSE s.free + s.locked + SumFunction([i \in DOMAIN s.assets |-> AssetBootstrapValue(s.assets[i])])

Margins(f) == SumFunction([i \in DOMAIN f.positions |-> f.positions[i].margin])

BugSumsMargins(f) == IF f = Nothing THEN 0 ELSE f.initial + Margins(f)

\* The balance of the account, or what it starts with, or its positions.
futuresBootstrapValue(f) ==
  IF f = Nothing THEN 0
  ELSE IF f.balance # 0 THEN f.balance
  ELSE IF f.initial # 0 THEN f.initial
  ELSE Margins(f)

Measures(authoritative, spot, futures) ==
  [authoritative |-> authoritative, spot |-> spot, futures |-> futures]

BugSpotIsAvailable(spot, futures) ==
  IF spot = Nothing THEN futuresBootstrapValue(futures) ELSE spot.free

\* What can be spent: of the futures wallet, if there is one.
AvailableBalance(spot, futures) ==
  IF futures # Nothing THEN futuresBootstrapValue(futures)
  ELSE IF spot # Nothing THEN spot.free ELSE 0

\* The total and the balances sent with a new wallet; nothing is measured.
buildWalletBootstrap(spotIn, futuresIn, initialBalance) ==
  LET initial == IF initialBalance = Nothing THEN 0 ELSE initialBalance
      spot == buildSpotWallet(spotIn, initial)
      futures == buildFuturesWallet(futuresIn)
  IN  [spot |-> spot, futures |-> futures,
       total |-> spotBootstrapValue(spot) + futuresBootstrapValue(futures),
       balance |-> IF futures = Nothing THEN spotBootstrapValue(spot)
                   ELSE futuresBootstrapValue(futures),
       available |-> AvailableBalance(spot, futures),
       measured |-> Measures(FALSE, 0, 0)]

-----------------------------------------------------------------------------
(* The wallet as it is shown.                                              *)

spotAssetMark(a) == IF a.price # Nothing THEN a.price ELSE IF a.avg > 0 THEN a.avg ELSE 0

AssetValue(a) == IF a.qty = 0 \/ spotAssetMark(a) <= 0 THEN 0 ELSE a.qty * spotAssetMark(a)

SpotEstimatedValue(s) ==
  IF s = Nothing THEN 0
  ELSE s.free + s.locked + SumFunction([i \in DOMAIN s.assets |-> AssetValue(s.assets[i])])

Magnitude(n) == IF n < 0 THEN -n ELSE n

Mark(p) == IF p.mark = 0 THEN p.entry ELSE p.mark

CrossMargin(p) ==
  IF p.qty = 0 \/ p.leverage <= 0 THEN 0 ELSE (Magnitude(p.qty) * Mark(p)) \div p.leverage

IsolatedEquity(p) ==
  IF p.qty = 0 THEN p.margin
  ELSE p.margin + p.pnl
       + (IF p.leverage > 0 /\ p.entry > 0
          THEN (Magnitude(p.qty) * p.entry) \div p.leverage ELSE 0)

NoPositions(f) == DOMAIN f.positions = {}

CrossEquity(f) ==
  LET used == SumFunction([i \in DOMAIN f.positions |-> CrossMargin(f.positions[i])]) IN
  IF NoPositions(f) THEN f.initial
  ELSE IF f.balance = 0 /\ f.pnl = 0 /\ used = 0 /\ f.initial > 0 THEN f.initial
  ELSE f.balance + f.pnl + used

FuturesPositionEquity(f) ==
  IF f = Nothing THEN 0
  ELSE IF f.mode = "cross" THEN CrossEquity(f)
  ELSE SumFunction([i \in DOMAIN f.positions |-> IsolatedEquity(f.positions[i])])

TotalsMatch(sum, total) == sum = total

\* Measures are shown only if they add up to the total.
MeasuresAreShown(w) ==
  w.measured.authoritative /\ TotalsMatch(w.measured.spot + w.measured.futures, w.total)

accountWalletStateToJSON(w) ==
  LET shown == MeasuresAreShown(w) IN
  [total |-> w.total,
   spot |-> IF shown THEN w.measured.spot ELSE SpotEstimatedValue(w.spot),
   futures |-> IF shown THEN w.measured.futures ELSE FuturesPositionEquity(w.futures),
   authoritative |-> shown]

-----------------------------------------------------------------------------
Init ==
  /\ venue = [v \in Venues |-> Nothing]
  /\ wallet = [v \in Venues |-> Nothing]
  /\ fresh = [v \in Venues |-> FALSE]
  /\ page = [v \in Venues |-> Nothing]

BugKeysAnywhere(environment, body) ==
  environment # "backtest" => <<body.initial, body.spot, body.futures>> = <<Nothing, Nothing, Nothing>>

\* Backtest venues take no credentials, the others no wallet.
FitsEnvironment(environment, body) ==
  IF environment = "backtest" THEN ~body.credential
  ELSE <<body.initial, body.spot, body.futures>> = <<Nothing, Nothing, Nothing>>

\* POST /api/venues; v is the id the venue is given.
createVenue(v, body) ==
  LET environment == venueEnvironmentCode(body.environment) IN
  /\ FitsEnvironment(environment, body)
  /\ MarginModeIsValid(body.marginMode, body.market)
  /\ venue' = [venue EXCEPT ![v] =
       [environment |-> environment, credential |-> body.credential,
        marginMode |-> venueMarginModeCode(body.marginMode, body.market)]]
  /\ wallet' = [wallet EXCEPT ![v] =
       IF environment = "backtest"
       THEN buildWalletBootstrap(body.spot, body.futures, body.initial)
       ELSE Nothing]
  /\ fresh' = [fresh EXCEPT ![v] = TRUE]
  /\ UNCHANGED page

\* GET /api/venues/{id}/wallet, not found while there is none.
getVenueWallet(v) ==
  /\ wallet[v] # Nothing
  /\ page' = [page EXCEPT ![v] = accountWalletStateToJSON(wallet[v])]
  /\ UNCHANGED <<venue, wallet, fresh>>

\* Outside: core-service has traded, or has asked the exchange, and measured.
UpdateWallet(v, w) ==
  /\ venue[v] # Nothing
  /\ wallet' = [wallet EXCEPT ![v] = w]
  /\ fresh' = [fresh EXCEPT ![v] = FALSE]
  /\ UNCHANGED <<venue, page>>

Next ==
  \E v \in Venues :
    \/ venue[v] = Nothing /\ \E body \in Bodies : createVenue(v, body)
    \/ getVenueWallet(v)
    \/ \E w \in Evolved : UpdateWallet(v, w)

Spec == Init /\ [][Next]_vars

-----------------------------------------------------------------------------
(* Properties.                                                             *)

\* The shape of the state: only a venue has a wallet, and only a wallet a page.
TypeOK ==
  /\ venue \in [Venues -> VenueEntries \cup {Nothing}]
  /\ fresh \in [Venues -> BOOLEAN]
  /\ \A v \in Venues :
       /\ fresh[v] \/ wallet[v] # Nothing => venue[v] # Nothing
       /\ page[v] # Nothing => wallet[v] # Nothing

\* No backtest venue has credentials and no real one a simulated wallet
\* (venues.go 141-150).
EnvironmentsApart ==
  \A v \in Venues :
    venue[v] # Nothing =>
      /\ venue[v].credential => venue[v].environment # "backtest"
      /\ fresh[v] /\ wallet[v] # Nothing => venue[v].environment = "backtest"

\* Wallets whose value the two sides of the code see alike: assets have
\* nothing locked, and money of the account as a whole is either crossed, and
\* then not owed, or what its positions have.
Plain(w) ==
  /\ w.spot # Nothing => \A i \in DOMAIN w.spot.assets : w.spot.assets[i].locked = 0
  /\ w.futures # Nothing =>
       IF w.futures.mode = "cross" THEN NoPositions(w.futures) \/ w.futures.initial > 0
       ELSE w.futures.initial \in {0, Margins(w.futures)}

\* A new wallet is shown with parts that add up to the total it was created
\* with, if it is plain (wallet_bootstrap.go 138-200; totalvalue.go 28-126).
FreshWalletAddsUp ==
  \A v \in Venues :
    fresh[v] /\ page[v] # Nothing /\ Plain(wallet[v])
    => page[v].spot + page[v].futures = page[v].total

\* No amount of a spot wallet is negative.
Unsigned(spot) ==
  spot # Nothing =>
    /\ spot.free >= 0 /\ spot.locked >= 0
    /\ \A i \in DOMAIN spot.assets : spot.assets[i].qty >= 0 /\ spot.assets[i].locked >= 0

\* What can be spent of a new wallet is part of its balance, and the balance of
\* its total, unless an amount of its spot wallet is negative, which nothing
\* rules out; prices, and all that is in the futures wallet, may be negative
\* (wallet_bootstrap.go 138-200).
BalancesNest ==
  \A v \in Venues :
    fresh[v] /\ wallet[v] # Nothing /\ Unsigned(wallet[v].spot)
    => wallet[v].available <= wallet[v].balance /\ wallet[v].balance <= wallet[v].total
=============================================================================
