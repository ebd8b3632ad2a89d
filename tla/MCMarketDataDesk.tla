-------------------------- MODULE MCMarketDataDesk --------------------------
(* An instance of MarketDataDesk for TLC. *)
EXTENDS MarketDataDesk

CONSTANTS tidy, untidy

Key(exchange, market, kind, symbol) ==
  [exchange |-> exchange, market |-> Plain(market), kind |-> kind, symbol |-> symbol,
   interval |-> Plain("1m")]

\* A tidy key that cannot be downloaded, one with blanks for the defaults, and
\* that with its symbol in the wrong letters.
Btc == Key(Plain("binance"), "spot", Plain("kline"), Plain("btc"))
Eth == Key(Plain(""), "perpetual_futures", Plain(""), Plain("eth"))
Sloppy == Key(Plain("binance"), "futures", Plain("kline"),
              [word |-> "eth", cased |-> FALSE, trimmed |-> TRUE])

MCInputs == [st \in {tidy, untidy} |-> IF st = tidy THEN {Btc, Eth} ELSE {Sloppy}]

MCTyped == {Sloppy}
MCUndownloadable == {marketDataKeyFromLiveBinding(Btc)}
=============================================================================
