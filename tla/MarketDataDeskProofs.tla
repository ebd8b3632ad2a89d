------------------------ MODULE MarketDataDeskProofs ------------------------
(***************************************************************************)
(* Proofs about MarketDataDesk, for any strategies, inputs and keys.       *)
(***************************************************************************)
EXTENDS MarketDataDesk, TLAPS

\* Cleaning gives a field that is written tidily.
LEMMA PlainFields ==
  ASSUME NEW f \in Fields
  PROVE  /\ Clean(f) \in Fields /\ Trimmed(f) \in Fields
         /\ strategyMarketToMarketDataMarket(f) \in Fields
         /\ marketDataMarketToStrategyMarket(f) \in Fields
         /\ OrDefault(f, "kline") \in Fields /\ OrDefault(f, "binance") \in Fields
  BY DEF Fields, Texts, Clean, Plain, Trimmed, OrDefault, strategyMarketToMarketDataMarket,
         marketDataMarketToStrategyMarket

\* A market goes to the plane and back, from the plane's own name of it.
LEMMA MarketsRoundTrip ==
  ASSUME NEW f \in Fields
  PROVE  LET m == strategyMarketToMarketDataMarket(f)
         IN  strategyMarketToMarketDataMarket(marketDataMarketToStrategyMarket(m)) = m
  BY DEF Fields, Clean, Plain, strategyMarketToMarketDataMarket, marketDataMarketToStrategyMarket

\* Every page makes keys of keys.
LEMMA KeysOfKeys ==
  ASSUME NEW k \in StreamKeys
  PROVE  /\ streamKeyJSONToMarketDataProto(k) \in StreamKeys
         /\ streamKeyToJSON(k) \in StreamKeys
         /\ marketDataKeyFromLiveBinding(k) \in StreamKeys
         /\ displayKey(k) \in StreamKeys
         /\ liveBindingToStreamKeyJSON(k) \in StreamKeys
<1>1. \A e, m, d, s, i \in Fields : StreamKey(e, m, d, s, i) \in StreamKeys
  BY DEF StreamKey, StreamKeys
<1>2. /\ k.exchange \in Fields /\ k.market \in Fields /\ k.kind \in Fields
      /\ k.symbol \in Fields /\ k.interval \in Fields
  BY DEF StreamKeys
<1>3. \A f \in Fields : /\ Clean(f) \in Fields /\ Trimmed(f) \in Fields
                        /\ strategyMarketToMarketDataMarket(f) \in Fields
                        /\ marketDataMarketToStrategyMarket(f) \in Fields
                        /\ OrDefault(f, "kline") \in Fields /\ OrDefault(f, "binance") \in Fields
  BY PlainFields
<1>4. streamKeyJSONToMarketDataProto(k) \in StreamKeys /\ streamKeyToJSON(k) \in StreamKeys
  BY <1>1, <1>2, <1>3 DEF streamKeyJSONToMarketDataProto, streamKeyToJSON
<1>5. marketDataKeyFromLiveBinding(k) \in StreamKeys
  BY <1>1, <1>2, <1>3 DEF marketDataKeyFromLiveBinding
<1>6. displayKey(k) \in StreamKeys
  <2>1. \A j \in StreamKeys : /\ j.exchange \in Fields /\ j.kind \in Fields
                              /\ j.symbol \in Fields /\ j.interval \in Fields
    BY DEF StreamKeys
  <2> QED
    BY <1>1, <1>2, <1>3, <1>5, <2>1 DEF displayKey
<1>7. liveBindingToStreamKeyJSON(k) \in StreamKeys
  BY <1>1, <1>2, <1>3 DEF liveBindingToStreamKeyJSON
<1> QED
  BY <1>4, <1>5, <1>6, <1>7

\* A key with a kind, the plane's name of its market and everything that is
\* cleaned on display clean is found by the key it is displayed with.
PlaneKey(k) ==
  /\ k \in StreamKeys
  /\ k.kind.word # ""
  /\ strategyMarketToMarketDataMarket(marketDataMarketToStrategyMarket(k.market)) = k.market
  /\ Clean(k.exchange) = k.exchange /\ Clean(k.kind) = k.kind
  /\ Clean(k.symbol) = k.symbol /\ Trimmed(k.interval) = k.interval

\* What is to be shown of a key that is requested.
Listed(k) ==
  Named(k) => \/ Found(k)
              \/ \E b \in AllInputs : Unclean(b) /\ k = marketDataKeyFromLiveBinding(b)

LEMMA PlaneKeysAreFound ==
  ASSUME NEW k, PlaneKey(k)
  PROVE  Found(k)
<1> DEFINE shown == streamKeyToJSON(k)
           m == marketDataMarketToStrategyMarket(k.market)
<1>1. k = [exchange |-> k.exchange, market |-> k.market, kind |-> k.kind,
           symbol |-> k.symbol, interval |-> k.interval]
  BY DEF PlaneKey, StreamKeys
<1>2. /\ Clean(k.exchange) = k.exchange /\ Clean(k.kind) = k.kind
      /\ Clean(k.symbol) = k.symbol /\ Trimmed(k.interval) = k.interval
  BY DEF PlaneKey
<1>3. shown = StreamKey(k.exchange, m, k.kind, k.symbol, k.interval)
  BY <1>2 DEF streamKeyToJSON
<1>4. strategyMarketToMarketDataMarket(m) = k.market /\ k.kind.word # ""
  BY DEF PlaneKey
<1>5. OrDefault(k.kind, "kline") = k.kind
  BY <1>4 DEF OrDefault
<1>6. k.kind # Plain("")
  <2>1. Plain("").word = ""
    BY DEF Plain
  <2> QED
    BY <1>4, <2>1
<1> HIDE DEF shown, m
<1>7. /\ shown.exchange = k.exchange /\ shown.market = m /\ shown.kind = k.kind
      /\ shown.symbol = k.symbol /\ shown.interval = k.interval
  BY <1>3 DEF StreamKey
<1>8. k = StreamKey(k.exchange, k.market, k.kind, k.symbol, k.interval)
  BY <1>1 DEF StreamKey
<1>9. parseCoverageQuery(shown) = k
  BY <1>4, <1>5, <1>7, <1>8 DEF parseCoverageQuery
<1>10. getMarketDataStreamByKey(shown) = k
  BY <1>4, <1>6, <1>7, <1>8 DEF getMarketDataStreamByKey
<1>11. streamKeyJSONToMarketDataProto(shown) = k
  BY <1>2, <1>4, <1>5, <1>7, <1>8 DEF streamKeyJSONToMarketDataProto
<1> QED
  BY <1>9, <1>10, <1>11 DEF shown, Found

\* Cleaning is done once and for all, and a field that is clean is left alone.
LEMMA CleanFields ==
  ASSUME NEW f \in Fields
  PROVE  /\ Clean(Clean(f)) = Clean(f) /\ Trimmed(Trimmed(f)) = Trimmed(f)
         /\ TidyField(f) => Clean(f) = f
         /\ f.trimmed => Trimmed(f) = f
         /\ f.cased => Clean(Trimmed(f)) = Trimmed(f)
<1>1. /\ f = [word |-> f.word, cased |-> f.cased, trimmed |-> f.trimmed]
      /\ f.cased \in BOOLEAN /\ f.trimmed \in BOOLEAN
  BY DEF Fields
<1>2. Trimmed(f) = [word |-> f.word, cased |-> f.cased, trimmed |-> TRUE]
  BY DEF Trimmed
<1>3. Clean(f) = [word |-> f.word, cased |-> TRUE, trimmed |-> TRUE]
  BY DEF Clean, Plain
<1>4. Clean(Clean(f)) = Clean(f)
  BY DEF Clean, Plain
<1>5. Trimmed(Trimmed(f)) = Trimmed(f)
  BY <1>2 DEF Trimmed
<1>6. TidyField(f) => Clean(f) = f
  BY <1>1, <1>3 DEF TidyField
<1>7. f.trimmed => Trimmed(f) = f
  BY <1>1, <1>2
<1>8. f.cased => Clean(Trimmed(f)) = Trimmed(f)
  BY <1>2 DEF Clean, Plain
<1> QED
  BY <1>4, <1>5, <1>6, <1>7, <1>8

LEMMA KindsAreNamed ==
  ASSUME NEW f
  PROVE  OrDefault(f, "kline").word # "" /\ Clean(OrDefault(f, "kline")).word # ""
<1>1. OrDefault(f, "kline").word # ""
  BY DEF OrDefault, Plain
<1> QED
  BY <1>1 DEF Clean, Plain

LEMMA CleanDefaults ==
  ASSUME NEW f \in Fields, NEW word \in {"kline", "binance"}, Clean(f) = f
  PROVE  Clean(OrDefault(f, word)) = OrDefault(f, word)
  BY DEF OrDefault, Clean, Plain

\* Whatever is typed, the request is for a key that is found.
LEMMA TypedAreFound ==
  ASSUME NEW k \in StreamKeys
  PROVE  Listed(streamKeyJSONToMarketDataProto(k))
<1> DEFINE key == streamKeyJSONToMarketDataProto(k)
<1>1. /\ k.exchange \in Fields /\ k.market \in Fields /\ k.kind \in Fields
      /\ k.symbol \in Fields /\ k.interval \in Fields
  BY DEF StreamKeys
<1>2. /\ key.exchange = Clean(k.exchange) /\ key.kind = Clean(OrDefault(k.kind, "kline"))
      /\ key.symbol = Clean(k.symbol) /\ key.interval = Trimmed(k.interval)
      /\ key.market = strategyMarketToMarketDataMarket(k.market)
  BY DEF streamKeyJSONToMarketDataProto, StreamKey
<1>3. key \in StreamKeys
  BY KeysOfKeys
<1> HIDE DEF key
<1>4. key.kind.word # ""
  BY <1>2, KindsAreNamed
<1>5. OrDefault(k.kind, "kline") \in Fields
  BY <1>1, PlainFields
<1>6. /\ Clean(key.exchange) = key.exchange /\ Clean(key.kind) = key.kind
      /\ Clean(key.symbol) = key.symbol /\ Trimmed(key.interval) = key.interval
  BY <1>1, <1>2, <1>5, CleanFields
<1>7. PlaneKey(key)
  BY <1>1, <1>2, <1>3, <1>4, <1>6, MarketsRoundTrip DEF PlaneKey
<1> QED
  BY <1>7, PlaneKeysAreFound DEF Listed, key

\* So is the key of a binding, unless the binding is unclean.
LEMMA DeclaredAreFound ==
  ASSUME NEW b \in AllInputs, b \in StreamKeys
  PROVE  Listed(marketDataKeyFromLiveBinding(b))
<1> DEFINE key == marketDataKeyFromLiveBinding(b)
<1>1. /\ b.exchange \in Fields /\ b.market \in Fields /\ b.kind \in Fields
      /\ b.symbol \in Fields /\ b.interval \in Fields
  BY DEF StreamKeys
<1>2. CASE Unclean(b)
  BY <1>2 DEF Listed
<1>3. CASE ~Unclean(b)
  <2>1. /\ key.exchange = OrDefault(Trimmed(b.exchange), "binance")
        /\ key.kind = OrDefault(Trimmed(b.kind), "kline")
        /\ key.symbol = b.symbol /\ key.interval = b.interval
        /\ key.market = strategyMarketToMarketDataMarket(b.market)
    BY DEF marketDataKeyFromLiveBinding, StreamKey
  <2>2. key \in StreamKeys
    BY KeysOfKeys
  <2> HIDE DEF key
  <2>3. key.kind.word # ""
    BY <2>1, KindsAreNamed
  <2>4. /\ b.exchange.cased /\ b.kind.cased /\ TidyField(b.symbol) /\ b.interval.trimmed
    BY <1>3 DEF Unclean
  <2>5. /\ Trimmed(b.exchange) \in Fields /\ Trimmed(b.kind) \in Fields
        /\ Clean(Trimmed(b.exchange)) = Trimmed(b.exchange)
        /\ Clean(Trimmed(b.kind)) = Trimmed(b.kind)
        /\ Clean(b.symbol) = b.symbol /\ Trimmed(b.interval) = b.interval
    BY <1>1, <2>4, CleanFields, PlainFields
  <2>6. /\ Clean(key.exchange) = key.exchange /\ Clean(key.kind) = key.kind
        /\ Clean(key.symbol) = key.symbol /\ Trimmed(key.interval) = key.interval
    BY <2>1, <2>5, CleanDefaults
  <2>7. PlaneKey(key)
    BY <1>1, <2>1, <2>2, <2>3, <2>6, MarketsRoundTrip DEF PlaneKey
  <2> QED
    BY <2>7, PlaneKeysAreFound DEF Listed, key
<1> QED
  BY <1>2, <1>3

-----------------------------------------------------------------------------
(* The invariant.                                                          *)

\* The keys an input stands for, in the coverage preview and in the job.
InputKey(b) == marketDataKeyFromLiveBinding(b)

LEMMA InputsAreKeys ==
  ASSUME NEW st \in Strategies, NEW b \in Inputs[st]
  PROVE  b \in StreamKeys /\ InputKey(b) \in StreamKeys /\ displayKey(b) \in StreamKeys
BY MarketDataDeskAssumption, KeysOfKeys DEF MarketDataDeskAssumption, InputKey

\* What a verdict tells stays so while the plane's history only grows.
LEMMA TellsForGood ==
  ASSUME NEW v, NEW B, Tells(v, B), stored \subseteq stored'
  PROVE  Tells(v, B)'
BY DEF Tells, NotDownloadable

LEMMA PreviewTellsForGood ==
  ASSUME PreviewTells, stored \subseteq stored', UNCHANGED preview
  PROVE  PreviewTells'
BY DEF PreviewTells, NotDownloadable, preview

\* A verdict that says nothing tells no lie.
LEMMA NoVerdictTells == \A B : Tells(NoVerdict, B)
BY DEF Tells, NoVerdict, Verdict

\* It has the fields a verdict has, both false.
LEMMA NoVerdictFields ==
  /\ NoVerdict.complete = FALSE /\ NoVerdict.canAuto = FALSE
BY DEF NoVerdict, Verdict

LEMMA InitDesk == Init => DeskInv
<1> SUFFICES ASSUME Init
             PROVE  DeskInv
  OBVIOUS
<1>1. \A k \in stored : k \in StreamKeys
  <2>1. \A st \in Strategies : \A k \in InputKeys(st) : k \in StreamKeys
    BY InputsAreKeys DEF InputKeys, InputKey
  <2> QED
    BY <2>1 DEF Init
<1>2. /\ requested = {} /\ previewed = NoStrategy /\ todo = {} /\ gaps = {} /\ barred = FALSE
      /\ job = NoStrategy /\ jobTodo = {} /\ jobEnd = "none" /\ jobMade = {}
      /\ jobSheet = NoVerdict /\ errors = 0
  BY DEF Init
<1>3. sheet.of = NoStrategy /\ sheet.verdict = NoVerdict /\ sheet.gaps = {}
  BY DEF Init
<1>4. TypeOK
  <2>1. errors \in 0..MaxErrors
    BY <1>2, MarketDataDeskAssumption DEF MarketDataDeskAssumption
  <2> QED
    BY <1>1, <1>2, <1>3, <2>1, NoVerdictFields DEF TypeOK
<1>5. PreviewTells
  BY <1>2 DEF PreviewTells
<1>6. PreviewIsKept
  BY <1>2, NoVerdictFields DEF PreviewIsKept
<1>7. ListedIsFound
  BY <1>2 DEF ListedIsFound
<1>8. ~(sheet.verdict.complete /\ sheet.verdict.canAuto)
  BY <1>3, NoVerdictFields
<1> QED
  BY <1>2, <1>3, <1>4, <1>5, <1>6, <1>7, <1>8 DEF DeskInv

\* The parts of the invariant about a group of variables, which a step that
\* leaves the group alone keeps.
PreviewOK ==
  /\ previewed \in Strategies \cup {NoStrategy}
  /\ \A b \in todo \cup gaps : previewed # NoStrategy /\ b \in Inputs[previewed]
  /\ barred \in BOOLEAN

SheetOK ==
  /\ sheet.of \in Strategies \cup {NoStrategy}
  /\ sheet.verdict.complete \in BOOLEAN /\ sheet.verdict.canAuto \in BOOLEAN
  /\ \A k \in sheet.gaps : k \in StreamKeys
  /\ sheet.of = NoStrategy => sheet.verdict = NoVerdict
  /\ ~(sheet.verdict.complete /\ sheet.verdict.canAuto)

SheetTells == sheet.of # NoStrategy => Tells(sheet.verdict, Inputs[sheet.of])

JobOK ==
  /\ jobSheet.complete \in BOOLEAN /\ jobSheet.canAuto \in BOOLEAN
  /\ \A k \in jobMade : k \in StreamKeys
  /\ job \in Strategies \cup {NoStrategy}
  /\ \A b \in jobTodo : job # NoStrategy /\ b \in Inputs[job]
  /\ jobEnd \in {"none", "running", "asked", "not downloadable", "no inputs"}
  /\ jobEnd # "none" => job # NoStrategy
  /\ PreviewIsKept

JobTells == job # NoStrategy => Tells(jobSheet, Inputs[job])

PlaneOK ==
  /\ \A k \in stored \cup requested : k \in StreamKeys
  /\ \A k \in requested : Listed(k)

ErrorsOK == errors \in 0..MaxErrors

LEMMA DeskParts ==
  DeskInv <=> /\ PlaneOK /\ PreviewOK /\ PreviewTells /\ SheetOK /\ SheetTells
              /\ JobOK /\ JobTells /\ ErrorsOK
BY DEF DeskInv, TypeOK, PlaneOK, PreviewOK, SheetOK, SheetTells, JobOK, JobTells, ErrorsOK,
       ListedIsFound, Listed

LEMMA DeskPartsNext ==
  /\ PlaneOK' /\ PreviewOK' /\ PreviewTells' /\ SheetOK' /\ SheetTells'
  /\ JobOK' /\ JobTells' /\ ErrorsOK'
  => DeskInv'
BY DEF DeskInv, TypeOK, PlaneOK, PreviewOK, SheetOK, SheetTells, JobOK, JobTells, ErrorsOK,
       ListedIsFound, Listed

LEMMA PlaneStays ==
  ASSUME PlaneOK, UNCHANGED plane
  PROVE  PlaneOK'
BY DEF PlaneOK, plane, Listed

LEMMA PreviewStays ==
  ASSUME PreviewOK, UNCHANGED preview
  PROVE  PreviewOK'
BY DEF PreviewOK, preview

LEMMA SheetStays ==
  ASSUME SheetOK, SheetTells, UNCHANGED sheet, stored \subseteq stored'
  PROVE  SheetOK' /\ SheetTells'
<1>1. SheetOK'
  BY DEF SheetOK
<1>2. SheetTells'
  <2> SUFFICES ASSUME sheet.of # NoStrategy
               PROVE  Tells(sheet.verdict, Inputs[sheet.of])'
    BY DEF SheetTells
  <2>1. Tells(sheet.verdict, Inputs[sheet.of])
    BY DEF SheetTells
  <2> QED
    BY <2>1 DEF Tells, NotDownloadable
<1> QED
  BY <1>1, <1>2

LEMMA JobStays ==
  ASSUME JobOK, JobTells, UNCHANGED jobVars, stored \subseteq stored'
  PROVE  JobOK' /\ JobTells'
<1>1. JobOK'
  BY DEF JobOK, jobVars, PreviewIsKept
<1>2. JobTells'
  <2> SUFFICES ASSUME job # NoStrategy
               PROVE  Tells(jobSheet, Inputs[job])'
    BY DEF JobTells, jobVars
  <2>1. Tells(jobSheet, Inputs[job])
    BY DEF JobTells
  <2>2. UNCHANGED <<job, jobSheet>>
    BY DEF jobVars
  <2> QED
    BY <2>1, <2>2 DEF Tells, NotDownloadable
<1> QED
  BY <1>1, <1>2
-----------------------------------------------------------------------------
(* One lemma per action.                                                   *)

LEMMA PreviewBegins ==
  ASSUME DeskInv, NEW st \in Strategies, handleCoveragePreview(st)
  PROVE  DeskInv'
<1>1. PreviewOK'
  BY MarketDataDeskAssumption DEF MarketDataDeskAssumption, PreviewOK, handleCoveragePreview
<1>2. PreviewTells'
  BY DEF PreviewTells, handleCoveragePreview
<1>3. UNCHANGED plane /\ UNCHANGED sheet /\ UNCHANGED jobVars /\ UNCHANGED errors
  BY DEF handleCoveragePreview
<1>4. stored \subseteq stored' /\ ErrorsOK'
  BY <1>3, DeskParts DEF plane, ErrorsOK
<1> QED
  BY <1>1, <1>2, <1>3, <1>4, DeskParts, DeskPartsNext, PlaneStays, SheetStays, JobStays

LEMMA InputQueried ==
  ASSUME DeskInv, NEW b \in AllInputs, QueryInput(b)
  PROVE  DeskInv'
<1> DEFINE k == marketDataKeyFromLiveBinding(b)
<1>1. /\ b \in todo /\ todo' = todo \ {b} /\ previewed' = previewed
      /\ gaps' = IF k \in stored THEN gaps ELSE gaps \cup {b}
      /\ barred' = (barred \/ NotDownloadable(k))
  BY DEF QueryInput
<1>2. UNCHANGED plane /\ UNCHANGED sheet /\ UNCHANGED jobVars /\ UNCHANGED errors
  BY DEF QueryInput
<1>3. stored' = stored /\ ErrorsOK'
  BY <1>2, DeskParts DEF plane, ErrorsOK
<1>4. PreviewOK'
  <2>1. PreviewOK
    BY DeskParts
  <2>2. barred' \in BOOLEAN
    BY <1>1, <2>1 DEF PreviewOK, NotDownloadable
  <2>3. gaps' \subseteq gaps \cup todo /\ todo' \subseteq todo
    BY <1>1
  <2> QED
    BY <1>1, <2>1, <2>2, <2>3 DEF PreviewOK
<1>5. PreviewTells'
  <2> SUFFICES ASSUME previewed # NoStrategy,
                      NEW d \in Inputs[previewed] \ todo'
               PROVE  LET key == marketDataKeyFromLiveBinding(d) IN
                      /\ d \notin gaps' => key \in stored
                      /\ ~barred' => ~NotDownloadable(key)
    BY <1>1, <1>3 DEF PreviewTells, NotDownloadable
  <2>1. CASE d = b
    BY <1>1, <2>1
  <2>2. CASE d # b
    <3>1. d \in Inputs[previewed] \ todo
      BY <1>1, <2>2
    <3>2. PreviewTells
      BY DeskParts
    <3> QED
      BY <1>1, <3>1, <3>2 DEF PreviewTells
  <2> QED
    BY <2>1, <2>2
<1> QED
  BY <1>2, <1>3, <1>4, <1>5, DeskParts, DeskPartsNext, PlaneStays, SheetStays, JobStays

LEMMA EndedPreview ==
  ASSUME EndPreview
  PROVE  PreviewOK' /\ PreviewTells'
BY DEF EndPreview, PreviewOK, PreviewTells

LEMMA PreviewAnswered ==
  ASSUME DeskInv, buildCoveragePreview
  PROVE  DeskInv'
<1> DEFINE verdict == Verdict(gaps = {}, CanAutoDownload(gaps, barred))
           shown == {displayKey(b) : b \in gaps}
<1>1. /\ previewed # NoStrategy /\ todo = {}
      /\ sheet' = [of |-> previewed, verdict |-> verdict, gaps |-> shown]
  BY DEF buildCoveragePreview
<1>2. UNCHANGED plane /\ UNCHANGED jobVars /\ UNCHANGED errors /\ EndPreview
  BY DEF buildCoveragePreview
<1>3. stored' = stored /\ ErrorsOK'
  BY <1>2, DeskParts DEF plane, ErrorsOK
<1>4. verdict.complete = (gaps = {}) /\ verdict.canAuto = (gaps # {} /\ ~barred)
  BY DEF Verdict, CanAutoDownload
<1>5. PreviewOK /\ PreviewTells
  BY DeskParts
<1> HIDE DEF verdict, shown
<1>6. sheet'.of = previewed /\ sheet'.verdict = verdict /\ sheet'.gaps = shown
  BY <1>1
<1>7. \A k \in shown : k \in StreamKeys
  BY <1>1, <1>5, InputsAreKeys DEF PreviewOK, shown
<1>8. SheetOK'
  <2>1. previewed \in Strategies
    BY <1>1, <1>5 DEF PreviewOK
  <2>2. verdict.complete \in BOOLEAN /\ verdict.canAuto \in BOOLEAN
    BY <1>4, <1>5 DEF PreviewOK
  <2> QED
    BY <1>1, <1>4, <1>6, <1>7, <2>1, <2>2 DEF SheetOK
<1>9. SheetTells'
  <2>1. Tells(verdict, Inputs[previewed])
    BY <1>1, <1>4, <1>5 DEF Tells, PreviewTells, NotDownloadable
  <2>2. Tells(sheet.verdict, Inputs[sheet.of])'
    BY <1>3, <1>6, <2>1 DEF Tells, NotDownloadable
  <2> QED
    BY <2>2 DEF SheetTells
<1> QED
  BY <1>2, <1>3, <1>8, <1>9, EndedPreview, DeskParts, DeskPartsNext, PlaneStays, JobStays

LEMMA PreviewFails ==
  ASSUME DeskInv, PreviewError
  PROVE  DeskInv'
<1>1. UNCHANGED plane /\ UNCHANGED sheet /\ UNCHANGED jobVars /\ EndPreview
  BY DEF PreviewError
<1>2. stored \subseteq stored'
  BY <1>1 DEF plane
<1>3. ErrorsOK'
  BY DeskParts, MarketDataDeskAssumption DEF PreviewError, ErrorsOK, MarketDataDeskAssumption
<1> QED
  BY <1>1, <1>2, <1>3, EndedPreview, DeskParts, DeskPartsNext, PlaneStays, SheetStays, JobStays

\* A step that only adds or removes requests of keys that are found.
LEMMA RequestsChange ==
  ASSUME DeskInv,
         \A k \in requested' : k \in requested \/ (k \in StreamKeys /\ Listed(k)),
         stored' = stored, UNCHANGED <<preview, sheet, jobVars, errors>>
  PROVE  DeskInv'
<1>1. UNCHANGED preview /\ UNCHANGED sheet /\ UNCHANGED jobVars /\ UNCHANGED errors
  OBVIOUS
<1>2. PlaneOK'
  <2>1. \A k : Listed(k)' <=> Listed(k)
    BY DEF Listed
  <2> QED
    BY <2>1, DeskParts DEF PlaneOK, Listed
<1>3. ErrorsOK'
  BY <1>1, DeskParts DEF ErrorsOK
<1> QED
  BY <1>1, <1>2, <1>3, DeskParts, DeskPartsNext, PreviewStays, PreviewTellsForGood,
     SheetStays, JobStays

LEMMA RequestCreated ==
  ASSUME DeskInv, NEW k \in StreamKeys, createMarketDataRequest(k)
  PROVE  DeskInv'
<1>1. requested' = requested \cup {streamKeyJSONToMarketDataProto(k)}
  BY DEF createMarketDataRequest
<1>2. stored' = stored /\ UNCHANGED <<preview, sheet, jobVars, errors>>
  BY DEF createMarketDataRequest
<1> QED
  BY <1>1, <1>2, KeysOfKeys, TypedAreFound, RequestsChange

LEMMA RequestCancelled ==
  ASSUME DeskInv, NEW k, cancelMarketDataRequest(k)
  PROVE  DeskInv'
<1>1. requested' \subseteq requested
  BY DEF cancelMarketDataRequest
<1>2. stored' = stored /\ UNCHANGED <<preview, sheet, jobVars, errors>>
  BY DEF cancelMarketDataRequest
<1> QED
  BY <1>1, <1>2, RequestsChange

LEMMA JobBegins ==
  ASSUME DeskInv, NEW st \in Strategies, handleDownloadAndRun(st)
  PROVE  DeskInv'
<1>1. /\ job' = st /\ jobMade' = {} /\ jobTodo' = Inputs[st]
      /\ jobSheet' = IF sheet.of = st THEN sheet.verdict ELSE NoVerdict
      /\ jobEnd' = IF Inputs[st] = {} THEN "no inputs" ELSE "running"
  BY DEF handleDownloadAndRun
<1>2. UNCHANGED plane /\ UNCHANGED preview /\ UNCHANGED sheet /\ UNCHANGED errors
  BY DEF handleDownloadAndRun
<1>3. stored' = stored /\ ErrorsOK'
  BY <1>2, DeskParts DEF plane, ErrorsOK
<1>4. SheetOK /\ SheetTells
  BY DeskParts
<1>5. /\ jobSheet'.complete \in BOOLEAN /\ jobSheet'.canAuto \in BOOLEAN
      /\ ~(jobSheet'.complete /\ jobSheet'.canAuto)
  BY <1>1, <1>4, NoVerdictFields DEF SheetOK
<1>6. JobOK'
  <2>1. st # NoStrategy
    BY MarketDataDeskAssumption DEF MarketDataDeskAssumption
  <2>2. jobEnd' \in {"running", "no inputs"} /\ jobEnd' # "not downloadable"
    BY <1>1
  <2>3. PreviewIsKept'
    BY <1>1, <1>5, <2>2 DEF PreviewIsKept
  <2> QED
    BY <1>1, <1>5, <2>1, <2>2, <2>3 DEF JobOK
<1>7. JobTells'
  <2>1. Tells(jobSheet', Inputs[st])
    BY <1>1, <1>4, NoVerdictTells, MarketDataDeskAssumption
       DEF SheetTells, MarketDataDeskAssumption
  <2> QED
    BY <1>1, <1>3, <2>1 DEF JobTells, Tells, NotDownloadable
<1> QED
  BY <1>2, <1>3, <1>6, <1>7, DeskParts, DeskPartsNext, PlaneStays, PreviewStays,
     PreviewTellsForGood, SheetStays

LEMMA InputRequested ==
  ASSUME DeskInv, NEW b \in AllInputs, createMissingCoverageRequests(b)
  PROVE  DeskInv'
<1> DEFINE k == marketDataKeyFromLiveBinding(b)
<1>1. /\ jobEnd = "running" /\ b \in jobTodo
      /\ stored' = stored /\ job' = job /\ jobSheet' = jobSheet
      /\ jobTodo' \subseteq jobTodo
  BY DEF createMissingCoverageRequests
<1>2. UNCHANGED preview /\ UNCHANGED sheet /\ UNCHANGED errors
  BY DEF createMissingCoverageRequests
<1>3. \/ NotDownloadable(k) /\ jobEnd' = "not downloadable" /\ UNCHANGED <<jobMade, requested>>
      \/ ~NotDownloadable(k) /\ k \in stored /\ jobEnd' \in {"running", "asked"}
           /\ UNCHANGED <<jobMade, requested>>
      \/ /\ ~NotDownloadable(k) /\ k \notin stored /\ jobEnd' \in {"running", "asked"}
         /\ jobMade' = jobMade \cup {k} /\ requested' = requested \cup {k}
  BY DEF createMissingCoverageRequests
<1>4. PlaneOK /\ JobOK /\ JobTells
  BY DeskParts
<1>5. job # NoStrategy /\ job \in Strategies /\ b \in Inputs[job]
  BY <1>1, <1>4 DEF JobOK
<1>6. b \in StreamKeys /\ k \in StreamKeys
  BY <1>5, InputsAreKeys DEF InputKey
<1> HIDE DEF k
<1>7. Listed(k)
  BY <1>6, DeclaredAreFound DEF k
<1>8. PlaneOK'
  BY <1>1, <1>3, <1>4, <1>6, <1>7 DEF PlaneOK, Listed
<1>9. /\ jobSheet.complete => k \in stored
      /\ jobSheet.complete \/ jobSheet.canAuto => ~NotDownloadable(k)
  BY <1>4, <1>5 DEF JobTells, Tells, k
<1>10. PreviewIsKept'
  BY <1>1, <1>3, <1>4, <1>9 DEF JobOK, PreviewIsKept
<1>11. JobOK'
  <2>1. \A j \in jobMade' : j \in StreamKeys
    BY <1>3, <1>4, <1>6 DEF JobOK
  <2>2. jobEnd' \in {"running", "asked", "not downloadable"}
    BY <1>3
  <2> QED
    BY <1>1, <1>4, <1>5, <1>10, <2>1, <2>2 DEF JobOK
<1>12. JobTells'
  BY <1>1, <1>4 DEF JobTells, Tells, NotDownloadable
<1>13. ErrorsOK'
  BY <1>2, DeskParts DEF ErrorsOK
<1> QED
  BY <1>1, <1>2, <1>8, <1>11, <1>12, <1>13, DeskParts, DeskPartsNext, PreviewStays,
     PreviewTellsForGood, SheetStays

\* A step of the plane, which stores a key of a request or of an input.
LEMMA HistoryGrows ==
  ASSUME DeskInv, NEW k \in StreamKeys, stored' = stored \cup {k},
         requested' \subseteq requested, UNCHANGED <<preview, sheet, jobVars, errors>>
  PROVE  DeskInv'
<1>1. UNCHANGED preview /\ UNCHANGED sheet /\ UNCHANGED jobVars /\ UNCHANGED errors
  OBVIOUS
<1>2. PlaneOK'
  BY DeskParts DEF PlaneOK, Listed
<1>3. ErrorsOK'
  BY <1>1, DeskParts DEF ErrorsOK
<1>4. stored \subseteq stored'
  OBVIOUS
<1> QED
  BY <1>1, <1>2, <1>3, <1>4, DeskParts, DeskPartsNext, PreviewStays, PreviewTellsForGood,
     SheetStays, JobStays

LEMMA RequestCompleted ==
  ASSUME DeskInv, NEW k \in requested, CompleteRequest(k)
  PROVE  DeskInv'
<1>1. k \in StreamKeys
  BY DeskParts DEF PlaneOK
<1>2. /\ stored' = stored \cup {k} /\ requested' \subseteq requested
      /\ UNCHANGED <<preview, sheet, jobVars, errors>>
  BY DEF CompleteRequest
<1> QED
  BY <1>1, <1>2, HistoryGrows

LEMMA Ingested ==
  ASSUME DeskInv, NEW st \in Strategies, NEW k \in InputKeys(st), Ingest(k)
  PROVE  DeskInv'
<1>1. k \in StreamKeys
  BY InputsAreKeys DEF InputKeys, InputKey
<1>2. /\ stored' = stored \cup {k} /\ requested' \subseteq requested
      /\ UNCHANGED <<preview, sheet, jobVars, errors>>
  BY DEF Ingest
<1> QED
  BY <1>1, <1>2, HistoryGrows

\* Everything a client may ask for by hand is a key.
LEMMA ShownAreKeys ==
  ASSUME DeskInv
  PROVE  \A k \in Typed \cup Shown : k \in StreamKeys
<1>1. \A k \in Typed : k \in StreamKeys
  BY MarketDataDeskAssumption DEF MarketDataDeskAssumption
<1>2. \A k \in requested : streamKeyToJSON(k) \in StreamKeys
  BY DeskParts, KeysOfKeys DEF PlaneOK
<1>3. \A k \in sheet.gaps : k \in StreamKeys
  BY DeskParts DEF SheetOK
<1>4. \A b \in AllInputs : liveBindingToStreamKeyJSON(b) \in StreamKeys
  BY MarketDataDeskAssumption, KeysOfKeys DEF AllInputs, MarketDataDeskAssumption
<1> QED
  BY <1>1, <1>2, <1>3, <1>4 DEF Shown

LEMMA NextDesk == DeskInv /\ [Next]_vars => DeskInv'
<1> SUFFICES ASSUME DeskInv, [Next]_vars
             PROVE  DeskInv'
  OBVIOUS
<1>1. ASSUME NEW st \in Strategies, handleCoveragePreview(st)
      PROVE  DeskInv'
  BY <1>1, PreviewBegins
<1>2. ASSUME NEW st \in Strategies, handleDownloadAndRun(st)
      PROVE  DeskInv'
  BY <1>2, JobBegins
<1>3. ASSUME NEW b \in AllInputs, QueryInput(b)
      PROVE  DeskInv'
  BY <1>3, InputQueried
<1>4. ASSUME NEW b \in AllInputs, createMissingCoverageRequests(b)
      PROVE  DeskInv'
  BY <1>4, InputRequested
<1>5. CASE buildCoveragePreview
  BY <1>5, PreviewAnswered
<1>6. CASE PreviewError
  BY <1>6, PreviewFails
<1>7. ASSUME NEW k \in Typed \cup Shown, createMarketDataRequest(k)
      PROVE  DeskInv'
  BY <1>7, ShownAreKeys, RequestCreated
<1>8. ASSUME NEW k \in requested, cancelMarketDataRequest(k)
      PROVE  DeskInv'
  BY <1>8, RequestCancelled
<1>9. ASSUME NEW k \in requested, CompleteRequest(k)
      PROVE  DeskInv'
  BY <1>9, RequestCompleted
<1>10. ASSUME NEW st \in Strategies, NEW k \in InputKeys(st), Ingest(k)
       PROVE  DeskInv'
  BY <1>10, Ingested
<1>11. CASE UNCHANGED vars
  <2>1. /\ UNCHANGED plane /\ UNCHANGED preview /\ UNCHANGED sheet /\ UNCHANGED jobVars
        /\ UNCHANGED errors
    BY <1>11 DEF vars
  <2>2. requested' = requested /\ stored' = stored
    BY <2>1 DEF plane
  <2> QED
    BY <2>1, <2>2, RequestsChange
<1> QED
  BY <1>1, <1>2, <1>3, <1>4, <1>5, <1>6, <1>7, <1>8, <1>9, <1>10, <1>11 DEF Next

THEOREM DeskInvariant == SafeSpec => []DeskInv
<1> QED
  BY InitDesk, NextDesk, PTL DEF SafeSpec

-----------------------------------------------------------------------------
(* The theorems.                                                           *)

\* The state has its shape.
THEOREM TypeCorrect == SafeSpec => []TypeOK
<1>1. DeskInv => TypeOK
  BY DEF DeskInv
<1> QED
  BY <1>1, DeskInvariant, PTL

\* A job keeps what the preview of coverage promised, though the preview and
\* the job each read the plane input by input, at different times and with
\* requests, cancellations and ingestion between any two of these reads.
THEOREM PreviewsAreKept == SafeSpec => []PreviewIsKept
<1>1. DeskInv => PreviewIsKept
  BY DEF DeskInv
<1> QED
  BY <1>1, DeskInvariant, PTL

\* Whatever keys are typed and whatever bindings are declared, a requested stream
\* is found by the key it is displayed with, unless it is the stream of a binding
\* with letters or spaces that only the display cleans.
THEOREM ListedAreFound == SafeSpec => []ListedIsFound
<1>1. DeskInv => ListedIsFound
  BY DEF DeskInv
<1> QED
  BY <1>1, DeskInvariant, PTL
=============================================================================
