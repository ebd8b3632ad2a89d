--------------------------- MODULE MarketDataDesk ---------------------------
(***************************************************************************)
(* What the pages about historical data do with one plane: the preview of  *)
(* a strategy's coverage, the coverage of a stream, requests made by hand, *)
(* and the requests a download-and-run job makes.  Each of these handlers  *)
(* writes the key of a stream in its own way: some clean the letters and   *)
(* spaces of what they are given, some do not, some say "futures" for      *)
(* "perpetual_futures", some fill in what was left blank.  The plane takes *)
(* a key as it is written, so two pages mean the same stream only if their *)
(* ways agree.                                                             *)
(***************************************************************************)
EXTENDS Naturals

CONSTANTS
  Strategies,
  Inputs,          \* the bindings each strategy declares, as it writes them
  Typed,           \* keys a user may write by hand
  Undownloadable,  \* keys for which coverage reports a non_downloadable_reason
  NoStrategy,
  MaxErrors        \* bound: failing calls

Texts == {"", "binance", "spot", "futures", "perpetual_futures", "kline", "btc", "eth", "1m"}

\* A text as it is written: the word, whether in its usual letters, and
\* whether without spaces around it.
Fields == [word : Texts, cased : BOOLEAN, trimmed : BOOLEAN]

StreamKeys == [exchange : Fields, market : Fields, kind : Fields, symbol : Fields, interval : Fields]

ASSUME MarketDataDeskAssumption ==
  /\ \A st \in Strategies : \A b \in Inputs[st] : b \in StreamKeys
  /\ \A k \in Typed : k \in StreamKeys
  /\ \A k \in Undownloadable : k \in StreamKeys
  /\ NoStrategy \notin Strategies
  /\ MaxErrors \in Nat

VARIABLES
  stored,      \* the plane: keys whose history in the range is complete
  requested,   \*   and keys there is an open request for
  previewed,   \* the strategy a coverage preview is being made for
  todo,        \*   its declared inputs still to be queried
  gaps,        \*   those found incomplete
  barred,      \*   whether one of them cannot be downloaded
  sheet,       \* the last preview a client was answered
  job,         \* the strategy of the download-and-run job
  jobTodo, jobEnd,
  jobMade,     \* the keys it made requests for
  jobSheet,    \* what its client had been answered of the strategy
  errors

plane   == <<stored, requested>>
preview == <<previewed, todo, gaps, barred>>
jobVars == <<job, jobTodo, jobEnd, jobMade, jobSheet>>
vars    == <<plane, preview, sheet, jobVars, errors>>

-----------------------------------------------------------------------------
(* Keys.                                                                   *)

Plain(word) == [word |-> word, cased |-> TRUE, trimmed |-> TRUE]
Trimmed(f) == [word |-> f.word, cased |-> f.cased, trimmed |-> TRUE]
Clean(f) == Plain(f.word)
OrDefault(f, word) == IF f.word = "" THEN Plain(word) ELSE f

strategyMarketToMarketDataMarket(m) ==
  IF m.word = "perpetual_futures" THEN Plain("futures") ELSE Clean(m)

marketDataMarketToStrategyMarket(m) ==
  IF m.word = "futures" THEN Plain("perpetual_futures") ELSE Clean(m)

StreamKey(exchange, market, kind, symbol, interval) ==
  [exchange |-> exchange, market |-> market, kind |-> kind, symbol |-> symbol,
   interval |-> interval]

\* The plane's key of a request made by hand, with no kind for a kline.
streamKeyJSONToMarketDataProto(k) ==
  StreamKey(Clean(k.exchange), strategyMarketToMarketDataMarket(k.market),
            Clean(OrDefault(k.kind, "kline")), Clean(k.symbol), Trimmed(k.interval))

\* A plane's key as it is displayed.
streamKeyToJSON(k) ==
  StreamKey(Clean(k.exchange), marketDataMarketToStrategyMarket(k.market),
            Clean(k.kind), Clean(k.symbol), Trimmed(k.interval))

BugQueryAsWritten(k) ==
  StreamKey(k.exchange, k.market, OrDefault(k.kind, "kline"), k.symbol, k.interval)

\* The key a page of coverage or of klines asks for.
parseCoverageQuery(k) ==
  StreamKey(k.exchange, strategyMarketToMarketDataMarket(k.market),
            OrDefault(k.kind, "kline"), k.symbol, k.interval)

\* The key a stream's status is asked by: a kind of spaces is not blank here.
getMarketDataStreamByKey(k) ==
  StreamKey(k.exchange, strategyMarketToMarketDataMarket(k.market),
            IF k.kind = Plain("") THEN Plain("kline") ELSE k.kind, k.symbol, k.interval)

BugBindingAsWritten(b) ==
  StreamKey(OrDefault(Trimmed(b.exchange), "binance"), b.market,
            OrDefault(Trimmed(b.kind), "kline"), b.symbol, b.interval)

\* The key of an input, for the preview and for the job.
marketDataKeyFromLiveBinding(b) ==
  StreamKey(OrDefault(Trimmed(b.exchange), "binance"),
            strategyMarketToMarketDataMarket(b.market),
            OrDefault(Trimmed(b.kind), "kline"), b.symbol, b.interval)

\* That key as the coverage preview shows it, and as the preview of a run does.
displayKey(b) ==
  LET k == marketDataKeyFromLiveBinding(b)
  IN  StreamKey(k.exchange, marketDataMarketToStrategyMarket(b.market), k.kind, k.symbol, k.interval)

liveBindingToStreamKeyJSON(b) ==
  StreamKey(OrDefault(Clean(b.exchange), "binance"),
            marketDataMarketToStrategyMarket(b.market),
            OrDefault(Clean(b.kind), "kline"), Clean(b.symbol), Trimmed(b.interval))

\* Written in the usual letters and without spaces.
TidyField(f) == f.cased /\ f.trimmed
Tidy(k) ==
  /\ TidyField(k.exchange) /\ TidyField(k.market) /\ TidyField(k.kind)
  /\ TidyField(k.symbol) /\ TidyField(k.interval)

InputKeys(st) == {marketDataKeyFromLiveBinding(b) : b \in Inputs[st]}

\* QueryMarketDataCoverage's non_downloadable_reason is not empty.  That the
\* plane gives none for a key that is complete is assumed; the gateway takes the
\* two fields as they come.
NotDownloadable(k) == k \in Undownloadable /\ k \notin stored

-----------------------------------------------------------------------------
Verdict(complete, canAuto) == [complete |-> complete, canAuto |-> canAuto]

NoVerdict == Verdict(FALSE, FALSE)

Init ==
  /\ stored \in SUBSET (UNION {InputKeys(st) : st \in Strategies})
  /\ requested = {}
  /\ previewed = NoStrategy /\ todo = {} /\ gaps = {} /\ barred = FALSE
  /\ sheet = [of |-> NoStrategy, verdict |-> NoVerdict, gaps |-> {}]
  /\ job = NoStrategy /\ jobTodo = {} /\ jobEnd = "none" /\ jobMade = {}
  /\ jobSheet = NoVerdict
  /\ errors = 0

\* POST .../coverage-preview, once the strategy has been previewed with the
\* backtest profile; st is the active one if no path was given.
handleCoveragePreview(st) ==
  /\ previewed = NoStrategy
  /\ previewed' = st /\ todo' = Inputs[st] /\ gaps' = {} /\ barred' = FALSE
  /\ UNCHANGED <<plane, sheet, jobVars, errors>>

\* The loop of buildCoveragePreview: coverage of the next input.
QueryInput(b) ==
  LET k == marketDataKeyFromLiveBinding(b) IN
  /\ b \in todo
  /\ todo' = todo \ {b}
  /\ gaps' = IF k \in stored THEN gaps ELSE gaps \cup {b}
  /\ barred' = (barred \/ NotDownloadable(k))
  /\ UNCHANGED <<previewed, plane, sheet, jobVars, errors>>

BugKeepsGaps == previewed' = NoStrategy /\ todo' = {} /\ UNCHANGED <<gaps, barred>>

\* The request is over, and its locals with it.
EndPreview == previewed' = NoStrategy /\ todo' = {} /\ gaps' = {} /\ barred' = FALSE

BugAutoUnlessComplete(incomplete, stuck) == incomplete # {}

\* can_auto_download, of a preview with such gaps.
CanAutoDownload(incomplete, stuck) == incomplete # {} /\ ~stuck

\* After the last input the client is answered.
buildCoveragePreview ==
  /\ previewed # NoStrategy /\ todo = {}
  /\ sheet' = [of |-> previewed,
                verdict |-> Verdict(gaps = {}, CanAutoDownload(gaps, barred)),
                gaps |-> {displayKey(b) : b \in gaps}]
  /\ EndPreview
  /\ UNCHANGED <<plane, jobVars, errors>>

\* A call fails, and the request with it.
PreviewError ==
  /\ previewed # NoStrategy /\ todo # {}
  /\ errors < MaxErrors
  /\ errors' = errors + 1
  /\ EndPreview
  /\ UNCHANGED <<plane, sheet, jobVars>>

\* POST /api/market-data/requests of scope historical for the range, an upsert;
\* the default scope, live, asks for no history.
createMarketDataRequest(k) ==
  /\ requested' = requested \cup {streamKeyJSONToMarketDataProto(k)}
  /\ UNCHANGED <<stored, preview, sheet, jobVars, errors>>

cancelMarketDataRequest(key) ==
  /\ key \in requested
  /\ requested' = requested \ {key}
  /\ UNCHANGED <<stored, preview, sheet, jobVars, errors>>

-----------------------------------------------------------------------------
(* The job, up to its last request; DownloadRun has it all.                *)

handleDownloadAndRun(st) ==
  /\ jobEnd # "running"
  /\ job' = st
  /\ jobSheet' = IF sheet.of = st THEN sheet.verdict ELSE NoVerdict
  /\ jobMade' = {}
  /\ jobTodo' = Inputs[st]
  /\ jobEnd' = IF Inputs[st] = {} THEN "no inputs" ELSE "running"
  /\ UNCHANGED <<plane, preview, sheet, errors>>

\* The next input's coverage, and a request if it has a gap.
createMissingCoverageRequests(b) ==
  LET k == marketDataKeyFromLiveBinding(b) IN
  /\ jobEnd = "running" /\ b \in jobTodo
  /\ \/ /\ NotDownloadable(k)
        /\ jobEnd' = "not downloadable"
        /\ UNCHANGED <<jobTodo, jobMade, requested>>
     \/ /\ ~NotDownloadable(k)
        /\ \/ k \in stored /\ UNCHANGED <<jobMade, requested>>
           \/ /\ k \notin stored
              /\ jobMade' = jobMade \cup {k}
              /\ requested' = requested \cup {k}
        /\ jobTodo' = jobTodo \ {b}
        /\ jobEnd' = IF jobTodo = {b} THEN "asked" ELSE jobEnd
  /\ UNCHANGED <<stored, preview, sheet, job, jobSheet, errors>>

-----------------------------------------------------------------------------
(* Outside: history only grows.                                            *)

CompleteRequest(k) ==
  /\ k \in requested /\ k \notin Undownloadable
  /\ stored' = stored \cup {k}
  /\ requested' = requested \ {k}
  /\ UNCHANGED <<preview, sheet, jobVars, errors>>

Ingest(k) ==
  /\ stored' = stored \cup {k}
  /\ UNCHANGED <<requested, preview, sheet, jobVars, errors>>

-----------------------------------------------------------------------------
AllInputs == UNION {Inputs[st] : st \in Strategies}

\* The keys a client has on his screen.
Shown ==
  {streamKeyToJSON(k) : k \in requested}
    \cup sheet.gaps
    \cup {liveBindingToStreamKeyJSON(b) : b \in AllInputs}

\* A client asks for what a preview showed him to be missing.
RequestShown(k) == k \in sheet.gaps /\ createMarketDataRequest(k)

Next ==
  \/ \E st \in Strategies : handleCoveragePreview(st) \/ handleDownloadAndRun(st)
  \/ \E b \in AllInputs : QueryInput(b) \/ createMissingCoverageRequests(b)
  \/ buildCoveragePreview
  \/ PreviewError
  \/ \E k \in Typed \cup Shown : createMarketDataRequest(k)
  \/ \E k \in requested : cancelMarketDataRequest(k) \/ CompleteRequest(k)
  \/ \E st \in Strategies : \E k \in InputKeys(st) : Ingest(k)

SafeSpec == Init /\ [][Next]_vars

\* The plane answers, downloads what is not cancelled each time, and a client
\* goes on asking for the coverage and for what it shows to be missing.
Fairness ==
  /\ WF_vars(\E b \in AllInputs : QueryInput(b))
  /\ WF_vars(buildCoveragePreview)
  /\ \A st \in Strategies : SF_vars(handleCoveragePreview(st))
  /\ \A b \in AllInputs : /\ SF_vars(RequestShown(displayKey(b)))
                          /\ SF_vars(CompleteRequest(marketDataKeyFromLiveBinding(b)))

Spec == SafeSpec /\ Fairness

-----------------------------------------------------------------------------
(* Properties.                                                             *)

\* The shape of the state.
TypeOK ==
  /\ \A k \in stored \cup requested \cup jobMade : k \in StreamKeys
  /\ previewed \in Strategies \cup {NoStrategy}
  /\ \A b \in todo \cup gaps : previewed # NoStrategy /\ b \in Inputs[previewed]
  /\ barred \in BOOLEAN
  /\ sheet.of \in Strategies \cup {NoStrategy}
  /\ \A v \in {sheet.verdict, jobSheet} : v.complete \in BOOLEAN /\ v.canAuto \in BOOLEAN
  /\ \A k \in sheet.gaps : k \in StreamKeys
  /\ job \in Strategies \cup {NoStrategy}
  /\ \A b \in jobTodo : job # NoStrategy /\ b \in Inputs[job]
  /\ jobEnd \in {"none", "running", "asked", "not downloadable", "no inputs"}
  /\ errors \in 0..MaxErrors

\* A job keeps what the preview promised: after "complete" it downloads
\* nothing, after either verdict it is not refused as not downloadable, and
\* the two verdicts are never given at once (backtest_coverage.go 149-160,
\* backtest_download_jobs.go 254-257).
PreviewIsKept ==
  /\ jobSheet.complete => jobMade = {} /\ ~jobSheet.canAuto
  /\ jobSheet.complete \/ jobSheet.canAuto => jobEnd # "not downloadable"

\* The pages refuse a key with one of these blank.
Named(k) == "" \notin {k.exchange.word, k.market.word, k.symbol.word, k.interval.word}

\* The pages of coverage, klines and streams find the stream by the key it is
\* displayed with, and asking for that key by hand is the same request.
Found(k) ==
  LET shown == streamKeyToJSON(k) IN
  /\ parseCoverageQuery(shown) = k
  /\ getMarketDataStreamByKey(shown) = k
  /\ streamKeyJSONToMarketDataProto(shown) = k

\* A binding keeps its letters and spaces in these places.
Unclean(b) ==
  ~b.exchange.cased \/ ~b.kind.cased \/ ~TidyField(b.symbol) \/ ~b.interval.trimmed

\* A stream that was requested is found by the key it is displayed with, however
\* the key was typed that it was asked for with.  The one exception is what a job
\* asks for: the symbol and the interval of a binding go to the plane as they
\* are declared, and its exchange and kind in the letters they are declared in,
\* but all are cleaned on display, so that the stream of an unclean binding is
\* listed under a key that is not its own (market_data.go 198-219, 595-608,
\* 705-716; backtest_coverage.go 167-186).
ListedIsFound ==
  \A k \in requested :
    Named(k) => \/ Found(k)
                \/ \E b \in AllInputs : Unclean(b) /\ k = marketDataKeyFromLiveBinding(b)

\* What a preview shows to be missing goes away if it is asked for as shown: an
\* input that is tidily written and can be downloaded is in the end stored,
\* whatever the other inputs of its strategy are (backtest_coverage.go 123-148,
\* market_data.go 451-517).
GapsGoAway ==
  \A st \in Strategies : \A b \in Inputs[st] :
    LET k == marketDataKeyFromLiveBinding(b) IN
    Tidy(b) /\ k \notin Undownloadable => <>(k \in stored)
-----------------------------------------------------------------------------
(* Why previews are kept: an invariant that every step preserves.          *)

\* What such verdicts on inputs say is so, and stays so.
Tells(verdict, bindings) ==
  \A b \in bindings :
    LET k == marketDataKeyFromLiveBinding(b) IN
    /\ verdict.complete => k \in stored
    /\ verdict.complete \/ verdict.canAuto => ~NotDownloadable(k)

PreviewTells ==
  previewed # NoStrategy => \A b \in Inputs[previewed] \ todo :
    LET k == marketDataKeyFromLiveBinding(b) IN
    /\ b \notin gaps => k \in stored
    /\ ~barred => ~NotDownloadable(k)

DeskInv ==
  /\ TypeOK
  /\ PreviewTells
  /\ sheet.of # NoStrategy => Tells(sheet.verdict, Inputs[sheet.of])
  /\ sheet.of = NoStrategy => sheet.verdict = NoVerdict
  /\ job # NoStrategy => Tells(jobSheet, Inputs[job])
  /\ ~(sheet.verdict.complete /\ sheet.verdict.canAuto)
  /\ jobEnd # "none" => job # NoStrategy
  /\ PreviewIsKept
  /\ ListedIsFound
=============================================================================
