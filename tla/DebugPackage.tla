---------------------------- MODULE DebugPackage ----------------------------
(***************************************************************************)
(* POST /api/accounts/{id}/debug-package: the BFF asks the market-data     *)
(* plane whether a range of klines is covered, reads the range page by     *)
(* page with a cursor, checks the rows it got and packs them.  Between two *)
(* of its calls the plane may store and drop bars, so the validation may   *)
(* be stale when the rows are read.                                        *)
(*                                                                         *)
(* Times are milliseconds in the code and small numbers here; bars open at *)
(* multiples of Step.                                                      *)
(***************************************************************************)
EXTENDS Integers, FiniteSets

CONSTANTS
  Step,      \* length of the interval
  Last,      \* the latest time there is
  Limit      \* debugPackageKlineLimit, rows in one answer

\* The shortest interval is a minute, 60000 ms.
ASSUME DebugPackageAssumption ==
  /\ Step \in Nat /\ Step > 1
  /\ Last \in Nat
  /\ Limit \in Nat \ {0}

VARIABLES
  history,   \* how the plane stores the bar that opens at a time
  pc,        \* the call whose answer the handler awaits
  startMS, endMS,
  cursor,
  copies,    \* how many of the rows read open at a time
  undated,   \* a row read has no open_time
  answer,    \* what the client is told
  whole      \* history: the range has been complete since it was validated

vars == <<history, pc, startMS, endMS, cursor, copies, undated, answer, whole>>

Times == 0..Last
Opens == {t \in 1..Last : t % Step = 0}

\* A stored bar says when it closes, one tick before or at the next open, or
\* lacks its close_time, its open_time, or both.
Kinds == {"absent", "closes before", "closes at", "no close", "no open", "no times"}
Dated == {"closes before", "closes at", "no close"}

Answers ==
  {"", "rejected", "plane error", "not covered", "stuck", "incomplete", "not encoded", "sent"}

-----------------------------------------------------------------------------
(* The plane.                                                              *)

\* The bars of a range that the plane holds.  Whether endMS itself is still in
\* the range is the plane's business.
Stored(lo, hi) == {t \in Opens : lo <= t /\ t <= hi /\ history[t] # "absent"}

\* An answer to QueryMarketDataKlines: the first rows of the range, and
\* truncated if the range goes on.
Page(batch, truncated) ==
  \E hi \in {endMS - 1, endMS} :
    LET all == Stored(cursor, hi) IN
    /\ batch \subseteq all
    /\ Cardinality(batch) <= Limit
    /\ batch = {} => all = {}
    /\ \A t \in batch : \A u \in all \ batch : t < u
    /\ truncated = (batch # all)

-----------------------------------------------------------------------------
(* The handler.                                                            *)

\* The open times validateDebugPackageKlineRows expects.
Expected == {t \in startMS..(endMS - 1) : (t - startMS) % Step = 0}

\* In the plane's history h every bar of the range is stored, and no row of it lacks its
\* open_time.
Complete(h) ==
  /\ \A t \in Expected : t \in Opens /\ h[t] \in Dated
  /\ endMS \in Opens => h[endMS] \in Dated \cup {"absent"}

BugCursorFromKline(t) ==
  IF history[t] \in {"closes before", "no open"} THEN t + Step
  ELSE IF history[t] = "closes at" THEN t + Step + 1
  ELSE IF history[t] = "no close" THEN t + Step ELSE 0

BugCursorAtOpen(t) == IF history[t] = "no times" THEN 0 ELSE t

\* Where the next page starts after the row that opens at t.
cursorFromKline(t) ==
  IF history[t] \in {"closes before", "no open"} THEN t + Step - 1
  ELSE IF history[t] \in {"closes at", "no close"} THEN t + Step
  ELSE 0

Init ==
  /\ history \in [Opens -> Kinds]
  /\ pc = "idle"
  /\ startMS = 0 /\ endMS = 0 /\ cursor = 0
  /\ copies = [t \in Opens |-> 0]
  /\ undated = FALSE
  /\ answer = ""
  /\ whole = FALSE

Answer(a) == pc' = "done" /\ answer' = a

BugAcceptAnyRange(lo, hi, fits) ==
  /\ pc = "idle"
  /\ pc' = "validate" /\ startMS' = lo /\ endMS' = hi
  /\ UNCHANGED <<answer, history, cursor, copies, undated, whole>>

\* The request is refused before any market data is looked at, unless it fits
\* (the account is the user's, the rest of the body what is served) and its
\* range is a proper one.
handleAccountDebugPackage(lo, hi, fits) ==
  /\ pc = "idle"
  /\ IF fits /\ 0 < lo /\ lo < hi
     THEN /\ pc' = "validate" /\ startMS' = lo /\ endMS' = hi
          /\ UNCHANGED answer
     ELSE Answer("rejected") /\ UNCHANGED <<startMS, endMS>>
  /\ UNCHANGED <<history, cursor, copies, undated, whole>>

\* ValidateMarketDataCoverage answers; ok may be stale.
ValidateCoverage(ok) ==
  /\ pc = "validate"
  /\ IF ok
     THEN pc' = "query" /\ cursor' = startMS /\ whole' = Complete(history) /\ UNCHANGED answer
     ELSE Answer("not covered") /\ UNCHANGED <<cursor, whole>>
  /\ UNCHANGED <<history, startMS, endMS, copies, undated>>

BugQueryNeverStuck(batch, truncated) ==
  /\ pc = "query"
  /\ Page(batch, truncated)
  /\ copies' = [t \in Opens |->
                  IF t \in batch /\ history[t] \in Dated THEN copies[t] + 1 ELSE copies[t]]
  /\ undated' = (undated \/ \E t \in batch : history[t] \notin Dated)
  /\ IF batch = {}
     THEN pc' = "check" /\ UNCHANGED cursor
     ELSE \E last \in batch :
            /\ \A t \in batch : t <= last
            /\ cursor' = cursorFromKline(last)
            /\ pc' = IF truncated /\ cursorFromKline(last) < endMS THEN "query" ELSE "check"
  /\ UNCHANGED <<history, startMS, endMS, answer, whole>>

\* QueryMarketDataKlines answers.  The loop goes on if the answer was truncated
\* and the cursor is still short of the end.
QueryKlines(batch, truncated) ==
  /\ pc = "query"
  /\ Page(batch, truncated)
  /\ copies' = [t \in Opens |->
                  IF t \in batch /\ history[t] \in Dated THEN copies[t] + 1 ELSE copies[t]]
  /\ undated' = (undated \/ \E t \in batch : history[t] \notin Dated)
  /\ IF batch = {}
     THEN pc' = "check" /\ UNCHANGED <<cursor, answer>>
     ELSE \E last \in batch :
            /\ \A t \in batch : t <= last
            /\ IF cursorFromKline(last) <= cursor
               THEN Answer("stuck") /\ UNCHANGED cursor
               ELSE /\ cursor' = cursorFromKline(last)
                    /\ pc' = IF truncated /\ cursorFromKline(last) < endMS
                             THEN "query" ELSE "check"
                    /\ UNCHANGED answer
  /\ UNCHANGED <<history, startMS, endMS, whole>>

BugSendUnchecked(encodes) ==
  /\ pc = "check"
  /\ Answer("sent")
  /\ UNCHANGED <<history, startMS, endMS, cursor, copies, undated, whole>>

\* validateDebugPackageKlineRows: no row without open_time, and as many of the
\* expected open times were seen as there are.  Rows that are not expected and
\* repeated rows are let through.  The package is sent if the rows encode.
validateDebugPackageKlineRows(encodes) ==
  /\ pc = "check"
  /\ LET seen == {t \in Expected \cap Opens : copies[t] > 0} IN
     Answer(IF undated \/ Cardinality(seen) # Cardinality(Expected)
            THEN "incomplete" ELSE IF encodes THEN "sent" ELSE "not encoded")
  /\ UNCHANGED <<history, startMS, endMS, cursor, copies, undated, whole>>

\* A call to the plane fails.
PlaneError ==
  /\ pc \in {"validate", "query"}
  /\ Answer("plane error")
  /\ UNCHANGED <<history, startMS, endMS, cursor, copies, undated, whole>>

-----------------------------------------------------------------------------
(* The plane stores, repairs or drops a bar while the handler is at work.  *)

Store(t, kind) ==
  /\ pc \in {"validate", "query"}
  /\ history[t] # kind
  /\ history' = [history EXCEPT ![t] = kind]
  /\ whole' = (whole /\ Complete(history'))
  /\ UNCHANGED <<pc, startMS, endMS, cursor, copies, undated, answer>>

-----------------------------------------------------------------------------
Handler ==
  \/ \E lo, hi \in Times, fits \in BOOLEAN : handleAccountDebugPackage(lo, hi, fits)
  \/ \E ok \in BOOLEAN : ValidateCoverage(ok)
  \/ \E batch \in SUBSET Opens, truncated \in BOOLEAN : QueryKlines(batch, truncated)
  \/ \E encodes \in BOOLEAN : validateDebugPackageKlineRows(encodes)
  \/ PlaneError

Next == Handler \/ \E t \in Opens, kind \in Kinds : Store(t, kind)

SafeSpec == Init /\ [][Next]_vars

\* The plane answers every call, if only with an error.
Spec == SafeSpec /\ WF_vars(Handler)

-----------------------------------------------------------------------------
(* Properties.                                                             *)

TypeOK ==
  /\ history \in [Opens -> Kinds]
  /\ pc \in {"idle", "validate", "query", "check", "done"}
  /\ startMS \in Times /\ endMS \in Times
  /\ pc \in {"validate", "query", "check"} => 0 < startMS /\ startMS < endMS
  /\ cursor \in Nat
  /\ copies \in [Opens -> Nat]
  /\ undated \in BOOLEAN
  /\ answer \in Answers
  /\ whole \in BOOLEAN

\* A package that is sent holds every bar of the range, whatever the
\* validation said and whatever was stored or dropped since (208, 214-234).
PackageIsComplete ==
  answer = "sent" => \A t \in Expected : t \in Opens /\ copies[t] > 0

\* No bar is read twice, whichever way bars say when they close, so no package
\* repeats one: the row check would not notice (177-207, 225-228).
NoBarTwice == \A t \in Opens : copies[t] <= 1

\* A range that was complete when it was validated and has stayed complete is
\* not refused for its rows: no bar falls between two pages (199-206, 236-244).
NoFalseAlarm == whole => answer \notin {"stuck", "incomplete"}

\* Every request ends: the cursor moves on or the handler gives up (182-207).
DownloadEnds == pc = "validate" ~> pc = "done"
=============================================================================
