-------------------------- MODULE VenueWalletProofs --------------------------
(***************************************************************************)
(* Proofs about VenueWallet, for any wallets and amounts, with any number  *)
(* of assets and positions.                                                *)
(***************************************************************************)
EXTENDS VenueWallet, InductionLemmas

-----------------------------------------------------------------------------
(* The two computations of a value.                                        *)

\* Without locked quantities an asset is worth the same to both.
LEMMA AssetsAgree ==
  ASSUME NEW a, a.qty \in Int, a.locked = 0, a.avg \in Int, a.price \in Int \cup {Nothing}
  PROVE  AssetBootstrapValue(a) = AssetValue(a)
<1> DEFINE price == BootstrapPrice(a)
           mark == spotAssetMark(a)
<1>1. price \in Int /\ mark \in Int /\ (price = mark \/ (price <= 0 /\ mark <= 0))
  <2>1. CASE a.price = Nothing
    BY <2>1 DEF BootstrapPrice, spotAssetMark
  <2>2. CASE a.price # Nothing
    BY <2>2 DEF BootstrapPrice, spotAssetMark
  <2> QED
    BY <2>1, <2>2
<1>2. (a.qty + a.locked) * price = a.qty * price
  BY <1>1
<1>3. a.qty = 0 => a.qty * price = 0
  BY <1>1
<1> HIDE DEF price, mark
<1>4. AssetBootstrapValue(a) = IF price > 0 THEN a.qty * price ELSE 0
  BY <1>2 DEF AssetBootstrapValue, price
<1>5. AssetValue(a) = IF a.qty = 0 \/ mark <= 0 THEN 0 ELSE a.qty * mark
  BY DEF AssetValue, mark
<1> QED
  BY <1>1, <1>3, <1>4, <1>5

LEMMA SpotAgrees ==
  ASSUME NEW s, s # Nothing => \A i \in DOMAIN s.assets :
           /\ s.assets[i].locked = 0
           /\ s.assets[i].qty \in Int /\ s.assets[i].avg \in Int
           /\ s.assets[i].price \in Int \cup {Nothing}
  PROVE  SpotEstimatedValue(s) = spotBootstrapValue(s)
<1>1. CASE s = Nothing
  BY <1>1 DEF SpotEstimatedValue, spotBootstrapValue
<1>2. CASE s # Nothing
  <2>1. \A i \in DOMAIN s.assets : AssetBootstrapValue(s.assets[i]) = AssetValue(s.assets[i])
    BY <1>2, AssetsAgree
  <2>2. [i \in DOMAIN s.assets |-> AssetBootstrapValue(s.assets[i])]
          = [i \in DOMAIN s.assets |-> AssetValue(s.assets[i])]
    BY <2>1
  <2> QED
    BY <1>2, <2>2 DEF SpotEstimatedValue, spotBootstrapValue
<1> QED
  BY <1>1, <1>2

LEMMA FuturesAgree ==
  ASSUME NEW in, in # Nothing => /\ in.initial \in Int /\ in.mode \in {"", "isolated", "cross"}
                                 /\ IsFiniteSet(DOMAIN in.positions),
         NEW f, f = buildFuturesWallet(in),
         f # Nothing => IF f.mode = "cross" THEN NoPositions(f) \/ f.initial > 0
                        ELSE f.initial \in {0, Margins(f)}
  PROVE  FuturesPositionEquity(f) = futuresBootstrapValue(f)
<1>1. CASE f = Nothing
  BY <1>1 DEF FuturesPositionEquity, futuresBootstrapValue
<1>2. CASE f # Nothing
  <2> DEFINE crossed == in.mode = "cross" /\ in.initial > 0
             mode == IF in.mode = "" THEN "isolated" ELSE in.mode
             positions == [i \in DOMAIN in.positions |-> Position(in.positions[i])]
  <2>1. in # Nothing
    BY <1>2 DEF buildFuturesWallet
  <2>2. /\ f.mode = mode /\ f.initial = in.initial
        /\ f.balance = IF crossed THEN in.initial ELSE 0
        /\ f.pnl = 0 /\ f.positions = positions
    BY <2>1 DEF buildFuturesWallet
  <2>3. \A i \in DOMAIN positions :
          /\ positions[i].qty = 0
          /\ CrossMargin(positions[i]) = 0
          /\ IsolatedEquity(positions[i]) = positions[i].margin
    <3> SUFFICES ASSUME NEW i \in DOMAIN positions
                 PROVE  /\ positions[i].qty = 0
                        /\ CrossMargin(positions[i]) = 0
                        /\ IsolatedEquity(positions[i]) = positions[i].margin
      OBVIOUS
    <3>1. positions[i] = Position(in.positions[i])
      OBVIOUS
    <3>2. positions[i].qty = 0
      BY <3>1 DEF Position
    <3> QED
      BY <3>2 DEF CrossMargin, IsolatedEquity
  <2> HIDE DEF positions, mode, crossed
  <2>4. CASE f.mode # "cross"
    <3>1. FuturesPositionEquity(f) = Margins(f)
      <4>1. [i \in DOMAIN f.positions |-> IsolatedEquity(f.positions[i])]
              = [i \in DOMAIN f.positions |-> f.positions[i].margin]
        BY <2>2, <2>3
      <4> QED
        BY <1>2, <2>4, <4>1 DEF FuturesPositionEquity, Margins
    <3>2. f.balance = 0
      BY <2>2, <2>4 DEF crossed, mode
    <3>3. futuresBootstrapValue(f) = IF f.initial # 0 THEN f.initial ELSE Margins(f)
      BY <1>2, <3>2 DEF futuresBootstrapValue
    <3> QED
      BY <1>2, <2>4, <3>1, <3>3
  <2>5. CASE f.mode = "cross"
    <3>1. in.mode = "cross" /\ in.initial \in Int
      BY <2>1, <2>2, <2>5 DEF mode
    <3>2. FuturesPositionEquity(f) = CrossEquity(f)
      BY <1>2, <2>5 DEF FuturesPositionEquity
    <3>3. CASE ~ (in.initial > 0)
      <4>1. NoPositions(f) /\ f.balance = 0 /\ f.initial = in.initial
        BY <1>2, <2>2, <2>5, <3>3 DEF crossed
      <4>2. CrossEquity(f) = in.initial
        BY <4>1 DEF CrossEquity
      <4>3. Margins(f) = 0
        <5>1. IsFiniteSet(DOMAIN f.positions)
          BY <4>1, FS_EmptySet DEF NoPositions
        <5> DEFINE margins == [i \in DOMAIN f.positions |-> f.positions[i].margin]
        <5>2. DOMAIN margins = DOMAIN f.positions /\ \A i \in DOMAIN margins : margins[i] = 0
          BY <4>1 DEF NoPositions
        <5> HIDE DEF margins
        <5>3. SumFunction(margins) = 0
          BY <5>1, <5>2, SumOfZeroes
        <5> QED
          BY <5>3 DEF Margins, margins
      <4>4. futuresBootstrapValue(f) = in.initial
        BY <1>2, <4>1, <4>3 DEF futuresBootstrapValue
      <4> QED
        BY <3>2, <4>2, <4>4
    <3>4. CASE in.initial > 0
      <4>1. f.balance = in.initial /\ f.initial = in.initial
        BY <2>2, <3>1, <3>4 DEF crossed
      <4>2. futuresBootstrapValue(f) = in.initial
        BY <1>2, <3>1, <3>4, <4>1 DEF futuresBootstrapValue
      <4>3. SumFunction([i \in DOMAIN f.positions |-> CrossMargin(f.positions[i])]) = 0
        <5> DEFINE used == [i \in DOMAIN f.positions |-> CrossMargin(f.positions[i])]
        <5>1. IsFiniteSet(DOMAIN f.positions)
          BY <2>1, <2>2 DEF positions
        <5>2. DOMAIN used = DOMAIN f.positions /\ \A i \in DOMAIN used : used[i] = 0
          BY <2>2, <2>3
        <5> HIDE DEF used
        <5>3. SumFunction(used) = 0
          BY <5>1, <5>2, SumOfZeroes
        <5> QED
          BY <5>3 DEF used
      <4>4. CrossEquity(f) = in.initial
        BY <2>2, <3>1, <4>1, <4>3 DEF CrossEquity
      <4> QED
        BY <3>2, <4>2, <4>4
    <3> QED
      BY <3>3, <3>4
  <2> QED
    BY <2>4, <2>5
<1> QED
  BY <1>1, <1>2

-----------------------------------------------------------------------------
(* A new wallet.                                                           *)

NewWallet(body) == buildWalletBootstrap(body.spot, body.futures, body.initial)

\* A spot wallet of whole amounts.
WholeSpot(s) ==
  /\ s.free \in Int /\ s.locked \in Int
  /\ IsFiniteSet(DOMAIN s.assets)
  /\ \A i \in DOMAIN s.assets :
       /\ s.assets[i].qty \in Int /\ s.assets[i].locked \in Int /\ s.assets[i].avg \in Int
       /\ s.assets[i].price \in Int \cup {Nothing}

LEMMA SpotsAreWhole ==
  ASSUME NEW s \in Spots
  PROVE  WholeSpot(s)
<1> DEFINE Asset == [qty : Int, locked : Int, avg : Int, price : Int \cup {Nothing}]
<1>1. s.free \in Int /\ s.locked \in Int /\ s.assets \in Seq(Asset)
  BY VenueWalletAssumption DEF VenueWalletAssumption
<1> HIDE DEF Asset
<1>2. IsFiniteSet(DOMAIN s.assets) /\ \A i \in DOMAIN s.assets : s.assets[i] \in Asset
  BY <1>1, PlacesAreFinite
<1> QED
  BY <1>1, <1>2 DEF Asset, WholeSpot

LEMMA FuturesAreWhole ==
  ASSUME NEW f \in Futures
  PROVE  /\ f.initial \in Int /\ f.mode \in {"", "isolated", "cross"}
         /\ IsFiniteSet(DOMAIN f.positions)
         /\ \A i \in DOMAIN f.positions : f.positions[i].margin \in Int
<1> DEFINE Entry == [margin : Int, leverage : Int]
<1>1. f.initial \in Int /\ f.mode \in {"", "isolated", "cross"} /\ f.positions \in Seq(Entry)
  BY VenueWalletAssumption DEF VenueWalletAssumption
<1> HIDE DEF Entry
<1>2. IsFiniteSet(DOMAIN f.positions) /\ \A i \in DOMAIN f.positions : f.positions[i] \in Entry
  BY <1>1, PlacesAreFinite
<1> QED
  BY <1>1, <1>2 DEF Entry

LEMMA NewWalletAddsUp ==
  ASSUME NEW body \in Bodies, Plain(NewWallet(body))
  PROVE  LET p == accountWalletStateToJSON(NewWallet(body))
         IN  p.spot + p.futures = p.total
<1> DEFINE initial == IF body.initial = Nothing THEN 0 ELSE body.initial
           spot == buildSpotWallet(body.spot, initial)
           futures == buildFuturesWallet(body.futures)
           w == NewWallet(body)
<1>1. /\ w.spot = spot /\ w.futures = futures
      /\ w.total = spotBootstrapValue(spot) + futuresBootstrapValue(futures)
      /\ w.measured.authoritative = FALSE
  BY DEF NewWallet, buildWalletBootstrap, Measures
<1>2. body.spot \in Spots \cup {Nothing} /\ body.futures \in Futures \cup {Nothing}
  BY DEF Bodies
<1> HIDE DEF w
<1>3. SpotEstimatedValue(spot) = spotBootstrapValue(spot)
  <2>1. CASE body.spot # Nothing
    <3>1. spot = body.spot /\ body.spot \in Spots
      BY <1>2, <2>1 DEF buildSpotWallet
    <3>2. \A i \in DOMAIN spot.assets : spot.assets[i].locked = 0
      BY <1>1, <2>1, <3>1 DEF Plain, w
    <3>3. WholeSpot(spot)
      BY <3>1, SpotsAreWhole
    <3> HIDE DEF spot
    <3> QED
      BY <3>2, <3>3, SpotAgrees DEF WholeSpot
  <2>2. CASE body.spot = Nothing
    <3>1. spot = Nothing \/ spot.assets = <<>>
      BY <2>2 DEF buildSpotWallet
    <3> QED
      BY <3>1, SpotAgrees
  <2> QED
    BY <2>1, <2>2
<1>4. FuturesPositionEquity(futures) = futuresBootstrapValue(futures)
  <2>1. body.futures # Nothing =>
          /\ body.futures.initial \in Int /\ body.futures.mode \in {"", "isolated", "cross"}
          /\ IsFiniteSet(DOMAIN body.futures.positions)
    BY <1>2, FuturesAreWhole
  <2>2. futures # Nothing =>
          IF futures.mode = "cross" THEN NoPositions(futures) \/ futures.initial > 0
          ELSE futures.initial \in {0, Margins(futures)}
    BY <1>1 DEF Plain, w
  <2> QED
    BY <2>1, <2>2, FuturesAgree
<1> HIDE DEF spot, futures
<1>5. ~MeasuresAreShown(w)
  BY <1>1 DEF MeasuresAreShown
<1>6. /\ accountWalletStateToJSON(w).spot = SpotEstimatedValue(spot)
      /\ accountWalletStateToJSON(w).futures = FuturesPositionEquity(futures)
      /\ accountWalletStateToJSON(w).total
           = spotBootstrapValue(spot) + futuresBootstrapValue(futures)
  BY <1>1, <1>5 DEF accountWalletStateToJSON
<1> QED
  BY <1>3, <1>4, <1>6 DEF w

-----------------------------------------------------------------------------
(* The balances of a new wallet.                                           *)

\* The value of a spot wallet without negative amounts.
LEMMA SpotValueIsNatural ==
  ASSUME NEW s, WholeSpot(s), s # Nothing, Unsigned(s)
  PROVE  spotBootstrapValue(s) \in Nat /\ s.free <= spotBootstrapValue(s)
<1> DEFINE values == [i \in DOMAIN s.assets |-> AssetBootstrapValue(s.assets[i])]
<1>1. \A i \in DOMAIN s.assets : AssetBootstrapValue(s.assets[i]) \in Nat
  <2> SUFFICES ASSUME NEW a, a.qty \in Nat, a.locked \in Nat, a.avg \in Int,
                      a.price \in Int \cup {Nothing}
               PROVE  AssetBootstrapValue(a) \in Nat
    BY DEF WholeSpot, Unsigned
  <2> DEFINE price == BootstrapPrice(a)
             qty == a.qty + a.locked
  <2>1. price \in Int
    BY DEF BootstrapPrice
  <2>2. qty \in Nat
    OBVIOUS
  <2>3. AssetBootstrapValue(a) = IF price > 0 THEN qty * price ELSE 0
    BY DEF AssetBootstrapValue
  <2> HIDE DEF price, qty
  <2>4. price > 0 => qty * price \in Nat
    BY <2>1, <2>2
  <2> QED
    BY <2>3, <2>4
<1>2. DOMAIN values = DOMAIN s.assets /\ \A i \in DOMAIN values : values[i] \in Nat
  BY <1>1
<1>3. spotBootstrapValue(s) = s.free + s.locked + SumFunction(values)
  BY DEF spotBootstrapValue
<1> HIDE DEF values
<1>4. SumFunction(values) \in Nat
  BY <1>2, SumOfNaturals DEF WholeSpot
<1>5. s.free \in Nat /\ s.locked \in Nat
  BY DEF WholeSpot, Unsigned
<1> QED
  BY <1>3, <1>4, <1>5

LEMMA FuturesValueIsWhole ==
  ASSUME NEW in \in Futures, NEW f, f = buildFuturesWallet(in), f # Nothing
  PROVE  futuresBootstrapValue(f) \in Int
<1> DEFINE margins == [i \in DOMAIN f.positions |-> f.positions[i].margin]
           positions == [i \in DOMAIN in.positions |-> Position(in.positions[i])]
<1>1. in # Nothing
  BY DEF buildFuturesWallet
<1>2. /\ in.initial \in Int /\ IsFiniteSet(DOMAIN in.positions)
      /\ \A i \in DOMAIN in.positions : in.positions[i].margin \in Int
  BY FuturesAreWhole
<1>3. f.initial = in.initial /\ f.balance \in {0, in.initial} /\ f.positions = positions
  BY <1>1 DEF buildFuturesWallet
<1>4. \A i \in DOMAIN in.positions : Position(in.positions[i]).margin \in Int
  BY <1>2 DEF Position
<1>5. DOMAIN margins = DOMAIN in.positions /\ \A i \in DOMAIN margins : margins[i] \in Int
  BY <1>3, <1>4
<1> HIDE DEF margins
<1>6. SumFunction(margins) \in Int
  BY <1>2, <1>5, SumOfIntegers
<1>7. Margins(f) \in Int
  BY <1>6 DEF Margins, margins
<1> QED
  BY <1>2, <1>3, <1>7 DEF futuresBootstrapValue

LEMMA NewBalancesNest ==
  ASSUME NEW body \in Bodies, Unsigned(NewWallet(body).spot)
  PROVE  LET w == NewWallet(body)
         IN  w.available <= w.balance /\ w.balance <= w.total
<1> DEFINE initial == IF body.initial = Nothing THEN 0 ELSE body.initial
           spot == buildSpotWallet(body.spot, initial)
           futures == buildFuturesWallet(body.futures)
           w == NewWallet(body)
<1>1. /\ w.total = spotBootstrapValue(spot) + futuresBootstrapValue(futures)
      /\ w.balance = IF futures = Nothing THEN spotBootstrapValue(spot)
                     ELSE futuresBootstrapValue(futures)
      /\ w.available = AvailableBalance(spot, futures)
      /\ Unsigned(spot)
  BY DEF NewWallet, buildWalletBootstrap
<1>2. spot # Nothing => spotBootstrapValue(spot) \in Nat /\ spot.free <= spotBootstrapValue(spot)
  <2>1. CASE body.spot # Nothing
    <3>1. WholeSpot(spot)
      BY <2>1, SpotsAreWhole DEF Bodies, buildSpotWallet
    <3>2. spot # Nothing
      BY <2>1, VenueWalletAssumption DEF VenueWalletAssumption, Bodies, buildSpotWallet
    <3> QED
      BY <1>1, <3>1, <3>2, SpotValueIsNatural
  <2>2. CASE body.spot = Nothing /\ spot # Nothing
    <3>1. body.initial \in Initials \cup {Nothing} /\ Initials \subseteq Int
      BY VenueWalletAssumption DEF VenueWalletAssumption, Bodies
    <3>2. initial \in Int
      <4>1. CASE body.initial = Nothing
        BY <4>1
      <4>2. CASE body.initial # Nothing
        <5>1. body.initial \in Int
          BY <3>1, <4>2
        <5>2. initial = body.initial
          BY <4>2
        <5> QED
          BY <5>1, <5>2, Zenon
      <4> QED
        BY <4>1, <4>2
    <3> HIDE DEF initial
    <3>3. ~ (initial <= 0) /\ spot = [free |-> initial, locked |-> 0, assets |-> <<>>]
      BY <2>2 DEF buildSpotWallet
    <3>4. WholeSpot(spot)
      BY <3>2, <3>3, FS_EmptySet DEF WholeSpot
    <3> HIDE DEF spot
    <3> QED
      BY <1>1, <2>2, <3>4, SpotValueIsNatural
  <2> QED
    BY <2>1, <2>2
<1>3. futures # Nothing => futuresBootstrapValue(futures) \in Int
  <2>1. futures # Nothing => body.futures \in Futures
    BY DEF Bodies, buildFuturesWallet
  <2> HIDE DEF futures
  <2> QED
    BY <2>1, FuturesValueIsWhole DEF futures
<1> HIDE DEF w, spot, futures
<1>4. spot = Nothing => spotBootstrapValue(spot) = 0
  BY DEF spotBootstrapValue
<1>5. futures = Nothing => futuresBootstrapValue(futures) = 0
  BY DEF futuresBootstrapValue
<1> QED
  BY <1>1, <1>2, <1>3, <1>4, <1>5 DEF AvailableBalance, w

-----------------------------------------------------------------------------
(* The invariant.                                                          *)

FreshOK ==
  \A v \in Venues : fresh[v] =>
    /\ wallet[v] # Nothing => \E body \in Bodies : wallet[v] = NewWallet(body)
    /\ page[v] # Nothing => page[v] = accountWalletStateToJSON(wallet[v])

WalletInv ==
  /\ wallet = [v \in Venues |-> wallet[v]] /\ page = [v \in Venues |-> page[v]]
  /\ TypeOK
  /\ EnvironmentsApart
  /\ FreshOK

LEMMA InitWallet == Init => WalletInv
<1> SUFFICES ASSUME Init
             PROVE  WalletInv
  OBVIOUS
<1>1. \A v \in Venues : /\ venue[v] = Nothing /\ wallet[v] = Nothing /\ ~fresh[v]
                        /\ page[v] = Nothing
  BY DEF Init
<1>2. TypeOK
  BY <1>1 DEF Init, TypeOK
<1>3. wallet = [v \in Venues |-> wallet[v]] /\ page = [v \in Venues |-> page[v]]
  BY DEF Init
<1> QED
  BY <1>1, <1>2, <1>3 DEF WalletInv, EnvironmentsApart, FreshOK

\* The entry of a venue that a body is accepted for.
LEMMA EntriesAreEntries ==
  ASSUME NEW body \in Bodies, MarginModeIsValid(body.marginMode, body.market)
  PROVE  /\ venueEnvironmentCode(body.environment) \in Environments
         /\ venueMarginModeCode(body.marginMode, body.market) \in {"none", "cross", "isolated"}
<1>1. body.environment \in Environments \cup {""}
  BY DEF Bodies
<1>2. venueEnvironmentCode(body.environment) \in Environments
  BY <1>1 DEF venueEnvironmentCode, Environments
<1>3. venueMarginModeCode(body.marginMode, body.market) \in {"none", "cross", "isolated"}
  BY DEF venueMarginModeCode, MarginModeIsValid
<1> QED
  BY <1>2, <1>3

LEMMA VenueCreated ==
  ASSUME WalletInv, NEW v \in Venues, venue[v] = Nothing, NEW body \in Bodies,
         createVenue(v, body)
  PROVE  WalletInv'
<1> DEFINE environment == venueEnvironmentCode(body.environment)
           entry == [environment |-> environment, credential |-> body.credential,
                     marginMode |-> venueMarginModeCode(body.marginMode, body.market)]
           w == IF environment = "backtest" THEN NewWallet(body) ELSE Nothing
<1>1. /\ FitsEnvironment(environment, body)
      /\ venue' = [venue EXCEPT ![v] = entry]
      /\ wallet' = [wallet EXCEPT ![v] = w]
      /\ fresh' = [fresh EXCEPT ![v] = TRUE]
      /\ page' = page
  BY DEF createVenue, NewWallet
<1>2. entry \in VenueEntries
  <2>1. MarginModeIsValid(body.marginMode, body.market) /\ body.credential \in BOOLEAN
    BY DEF createVenue, Bodies
  <2> QED
    BY <2>1, EntriesAreEntries DEF VenueEntries
<1>3. entry # Nothing
  BY <1>2, VenueWalletAssumption DEF VenueWalletAssumption
<1>4. entry.credential = body.credential /\ entry.environment = environment
  OBVIOUS
<1>5. environment = "backtest" => ~body.credential
  BY <1>1 DEF FitsEnvironment
<1>6. w # Nothing => environment = "backtest" /\ w = NewWallet(body)
  OBVIOUS
<1> HIDE DEF environment, entry, w
<1>7. /\ venue'[v] = entry /\ wallet'[v] = w /\ fresh'[v] = TRUE
      /\ \A u \in Venues \ {v} :
           venue'[u] = venue[u] /\ wallet'[u] = wallet[u] /\ fresh'[u] = fresh[u]
      /\ wallet' = [u \in Venues |-> wallet'[u]]
  BY <1>1 DEF WalletInv, TypeOK
<1>8. page[v] = Nothing
  BY DEF WalletInv, TypeOK
<1>9. TypeOK'
  <2>1. venue' \in [Venues -> VenueEntries \cup {Nothing}] /\ fresh' \in [Venues -> BOOLEAN]
    BY <1>1, <1>2 DEF WalletInv, TypeOK
  <2>2. \A u \in Venues : /\ fresh'[u] \/ wallet'[u] # Nothing => venue'[u] # Nothing
                          /\ page[u] # Nothing => wallet'[u] # Nothing
    BY <1>3, <1>7, <1>8 DEF WalletInv, TypeOK
  <2> QED
    BY <1>1, <2>1, <2>2 DEF TypeOK
<1>10. EnvironmentsApart'
  BY <1>4, <1>5, <1>6, <1>7 DEF WalletInv, EnvironmentsApart
<1>11. FreshOK'
  BY <1>1, <1>6, <1>7, <1>8 DEF WalletInv, FreshOK
<1> QED
  BY <1>1, <1>7, <1>9, <1>10, <1>11 DEF WalletInv

LEMMA WalletShown ==
  ASSUME WalletInv, NEW v \in Venues, getVenueWallet(v)
  PROVE  WalletInv'
<1> DEFINE p == accountWalletStateToJSON(wallet[v])
<1>1. /\ wallet[v] # Nothing /\ page' = [page EXCEPT ![v] = p]
      /\ UNCHANGED <<venue, wallet, fresh>>
  BY DEF getVenueWallet
<1> HIDE DEF p
<1>2. /\ page'[v] = p /\ \A u \in Venues \ {v} : page'[u] = page[u]
      /\ page' = [u \in Venues |-> page'[u]]
  BY <1>1 DEF WalletInv
<1>3. TypeOK'
  BY <1>1, <1>2 DEF WalletInv, TypeOK
<1>4. EnvironmentsApart'
  BY <1>1 DEF WalletInv, EnvironmentsApart
<1>5. FreshOK'
  BY <1>1, <1>2 DEF WalletInv, FreshOK, p
<1> QED
  BY <1>1, <1>2, <1>3, <1>4, <1>5 DEF WalletInv

LEMMA WalletUpdated ==
  ASSUME WalletInv, NEW v \in Venues, NEW w \in Evolved, UpdateWallet(v, w)
  PROVE  WalletInv'
<1>1. /\ venue[v] # Nothing /\ wallet' = [wallet EXCEPT ![v] = w]
      /\ fresh' = [fresh EXCEPT ![v] = FALSE] /\ UNCHANGED <<venue, page>>
  BY DEF UpdateWallet
<1>2. w # Nothing
  BY VenueWalletAssumption DEF VenueWalletAssumption
<1>3. /\ wallet'[v] = w /\ fresh'[v] = FALSE
      /\ \A u \in Venues \ {v} : wallet'[u] = wallet[u] /\ fresh'[u] = fresh[u]
      /\ wallet' = [u \in Venues |-> wallet'[u]] /\ fresh' \in [Venues -> BOOLEAN]
  BY <1>1 DEF WalletInv, TypeOK
<1>4. TypeOK'
  BY <1>1, <1>2, <1>3 DEF WalletInv, TypeOK
<1>5. EnvironmentsApart'
  BY <1>1, <1>3 DEF WalletInv, EnvironmentsApart
<1>6. FreshOK'
  BY <1>1, <1>3 DEF WalletInv, FreshOK
<1> QED
  BY <1>1, <1>3, <1>4, <1>5, <1>6 DEF WalletInv

THEOREM WalletInvariant == Spec => []WalletInv
<1>1. WalletInv /\ [Next]_vars => WalletInv'
  <2> SUFFICES ASSUME WalletInv, [Next]_vars
               PROVE  WalletInv'
    OBVIOUS
  <2>1. ASSUME NEW v \in Venues, venue[v] = Nothing, NEW body \in Bodies, createVenue(v, body)
        PROVE  WalletInv'
    BY <2>1, VenueCreated
  <2>2. ASSUME NEW v \in Venues, getVenueWallet(v)
        PROVE  WalletInv'
    BY <2>2, WalletShown
  <2>3. ASSUME NEW v \in Venues, NEW w \in Evolved, UpdateWallet(v, w)
        PROVE  WalletInv'
    BY <2>3, WalletUpdated
  <2>4. CASE UNCHANGED vars
    BY <2>4 DEF vars, WalletInv, TypeOK, EnvironmentsApart, FreshOK
  <2> QED
    BY <2>1, <2>2, <2>3, <2>4 DEF Next
<1> QED
  BY <1>1, InitWallet, PTL DEF Spec

-----------------------------------------------------------------------------
(* The theorems.                                                           *)

\* The state has its shape.
THEOREM TypeCorrect == Spec => []TypeOK
<1>1. WalletInv => TypeOK
  BY DEF WalletInv
<1> QED
  BY <1>1, WalletInvariant, PTL

\* Whatever is asked for, backtest venues never have credentials and new real
\* ones never a simulated wallet.
THEOREM EnvironmentsStayApart == Spec => []EnvironmentsApart
<1>1. WalletInv => EnvironmentsApart
  BY DEF WalletInv
<1> QED
  BY <1>1, WalletInvariant, PTL

\* The two computations of a new wallet's value agree for all amounts of either
\* sign and any number of assets and positions, if the wallet is plain.
THEOREM FreshWalletsAddUp == Spec => []FreshWalletAddsUp
<1>1. WalletInv => FreshWalletAddsUp
  <2> SUFFICES ASSUME WalletInv, NEW v \in Venues,
                      fresh[v], page[v] # Nothing, Plain(wallet[v])
               PROVE  page[v].spot + page[v].futures = page[v].total
    BY DEF FreshWalletAddsUp
  <2>1. wallet[v] # Nothing
    BY DEF WalletInv, TypeOK
  <2>2. PICK body \in Bodies : wallet[v] = NewWallet(body)
    BY <2>1 DEF WalletInv, FreshOK
  <2>3. page[v] = accountWalletStateToJSON(NewWallet(body))
    BY <2>2 DEF WalletInv, FreshOK
  <2> QED
    BY <2>2, <2>3, NewWalletAddsUp
<1> QED
  BY <1>1, WalletInvariant, PTL

\* What can be spent of a new wallet is part of its balance, and that of its
\* total, for any number of assets and positions and all amounts of which those
\* of the spot wallet are not negative.
THEOREM NewBalancesAreNested == Spec => []BalancesNest
<1>1. WalletInv => BalancesNest
  <2> SUFFICES ASSUME WalletInv, NEW v \in Venues, fresh[v], wallet[v] # Nothing,
                      Unsigned(wallet[v].spot)
               PROVE  wallet[v].available <= wallet[v].balance
                      /\ wallet[v].balance <= wallet[v].total
    BY DEF BalancesNest
  <2>1. PICK body \in Bodies : wallet[v] = NewWallet(body)
    BY DEF WalletInv, FreshOK
  <2> QED
    BY <2>1, NewBalancesNest
<1> QED
  BY <1>1, WalletInvariant, PTL
=============================================================================
