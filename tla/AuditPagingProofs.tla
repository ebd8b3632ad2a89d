------------------------- MODULE AuditPagingProofs --------------------------
(***************************************************************************)
(* Proofs about AuditPaging, for any limits and lists of any length.       *)
(***************************************************************************)
EXTENDS AuditPaging, TLAPS

\* What a client at some position was given: of events, and of a list paged
\* from the oldest, the rows up to there; of one paged from the newest at
\* least the last rows that there were.  No walk is past the end.
Ahead == list # "events" /\ newestFirst

PagingInv ==
  /\ TypeOK
  /\ ~Ahead => listed = 1..at /\ again = {}
  /\ Ahead => \A r \in 1..start : rows - r < at => r \in listed
  /\ Ahead /\ rows = start => listed = (rows - at + 1)..rows /\ again = {}
  /\ walk = "done" => 1..start \subseteq listed

\* A request is given a limit within the bounds.
LEMMA LimitBounded ==
  ASSUME NEW raw \in Limits
  PROVE  parseAuditListPaging(raw) \in 1..MaxLimit
  BY PagingAssumption DEF parseAuditListPaging

\* A page is no longer than the list's rest, whatever the limit.
LEMMA PageFits ==
  ASSUME rows \in Nat, NEW k \in 0..rows, NEW limit \in Nat
  PROVE  PageLen(k, limit) \in 0..(rows - k)
  BY PagingAssumption DEF PageLen

\* One that is not full is the last.
LEMMA PageBounded ==
  ASSUME rows \in Nat, NEW k \in 0..rows, NEW limit \in 1..MaxLimit
  PROVE  /\ PageLen(k, limit) \in 0..(rows - k)
         /\ PageLen(k, limit) >= limit \/ PageLen(k, limit) = rows - k
  BY PagingAssumption DEF PageLen

\* Whatever the handler, a page that follows the last one, with more to come
\* unless it reaches the end, keeps the invariant.
LEMMA AnswerKeeps ==
  ASSUME PagingInv,
         NEW n \in 0..(rows - at), NEW then \in {"going", "done", "array"},
         NEW count \in {0, rows},
         Answer(PageRows(at, n, Ahead), at + n, then, count),
         then = "done" => at + n = rows
  PROVE  PagingInv'
<1> DEFINE page == PageRows(at, n, Ahead)
<1>1. /\ rows \in Nat /\ at \in 0..rows /\ start \in 0..rows
      /\ listed \subseteq 1..rows /\ again \subseteq listed
  BY PagingAssumption DEF PagingInv, TypeOK
<1>2. /\ listed' = listed \cup page
      /\ again' = again \cup (listed \cap page)
      /\ at' = at + n
      /\ walk' = then
      /\ UNCHANGED <<rows, newestFirst, list, start>>
  BY DEF Answer
<1>3. page \subseteq 1..rows
  BY <1>1 DEF PageRows
<1>4. TypeOK'
  <2>1. at' \in 0..rows' /\ total' \in 0..rows'
    BY <1>1, <1>2 DEF Answer
  <2>2. listed' \subseteq 1..rows' /\ again' \subseteq listed'
    BY <1>1, <1>2, <1>3
  <2> QED
    BY <1>2, <2>1, <2>2 DEF PagingInv, TypeOK
<1>5. Ahead' = Ahead
  BY <1>2 DEF Ahead
<1>6. CASE ~Ahead
  <2>1. listed = 1..at /\ again = {} /\ page = (at + 1)..(at + n)
    BY <1>6 DEF PagingInv, PageRows
  <2>2. listed' = 1..at' /\ again' = {}
    BY <1>1, <1>2, <2>1
  <2>3. walk' = "done" => 1..start' \subseteq listed'
    BY <1>1, <1>2, <2>2
  <2> QED
    BY <1>4, <1>5, <1>6, <2>2, <2>3 DEF PagingInv
<1>7. CASE Ahead
  <2>1. page = (rows - at - n + 1)..(rows - at)
    BY <1>7 DEF PageRows
  <2>2. \A r \in 1..start : rows - r < at => r \in listed
    BY <1>7 DEF PagingInv
  <2>3. \A r \in 1..start' : rows' - r < at' => r \in listed'
    <3>1. SUFFICES ASSUME NEW r \in 1..start, rows - r < at + n
                   PROVE  r \in listed \cup page
      BY <1>2
    <3>2. CASE rows - r < at
      BY <2>2, <3>2
    <3>3. CASE ~(rows - r < at)
      BY <1>1, <2>1, <3>1, <3>3
    <3> QED
      BY <3>2, <3>3
  <2>4. rows' = start' => listed' = (rows' - at' + 1)..rows' /\ again' = {}
    <3>1. SUFFICES ASSUME rows = start
                   PROVE  /\ listed \cup page = (rows - at - n + 1)..rows
                          /\ again \cup (listed \cap page) = {}
      BY <1>1, <1>2
    <3>2. listed = (rows - at + 1)..rows /\ again = {}
      BY <1>7, <3>1 DEF PagingInv
    <3> QED
      BY <1>1, <2>1, <3>2
  <2>5. walk' = "done" => 1..start' \subseteq listed'
    <3>1. SUFFICES ASSUME at + n = rows
                   PROVE  1..start' \subseteq listed'
      BY <1>2
    <3> QED
      BY <1>1, <1>2, <2>3, <3>1
  <2> QED
    BY <1>4, <1>5, <1>7, <2>3, <2>4, <2>5 DEF PagingInv
<1> QED
  BY <1>6, <1>7

\* A page that goes on from the last one, whatever limit is asked for, and says
\* that there is more exactly if it does not reach the end, keeps it.
LEMMA PageKeeps ==
  ASSUME PagingInv, NEW limit \in Nat, list # "events",
         Answer(PageRows(at, PageLen(at, limit), newestFirst), at + PageLen(at, limit),
                IfMore(at + PageLen(at, limit) < rows), rows)
  PROVE  PagingInv'
<1>1. rows \in Nat /\ at \in 0..rows
  BY PagingAssumption DEF PagingInv, TypeOK
<1> DEFINE n == PageLen(at, limit)
<1>2. n \in 0..(rows - at)
  BY <1>1, PageFits
<1>3. newestFirst = Ahead
  BY DEF Ahead, PagingInv, TypeOK
<1>4. Answer(PageRows(at, n, Ahead), at + n, IfMore(at + n < rows), rows)
  BY <1>3
<1> HIDE DEF n
<1>5. /\ IfMore(at + n < rows) \in {"going", "done", "array"}
      /\ IfMore(at + n < rows) = "done" => at + n = rows
  BY <1>1, <1>2 DEF IfMore
<1> QED
  BY <1>2, <1>4, <1>5, AnswerKeeps

\* The four forms of an answer by offset are such pages.
LEMMA OffsetPagesKeep ==
  ASSUME PagingInv, NEW limit \in Nat, list # "events",
         \/ CountedPage(limit)
         \/ CollectionPage(limit)
         \/ RelayedPage(limit)
         \/ HistoryPage(limit)
  PROVE  PagingInv'
<1> DEFINE n == PageLen(at, limit)
<1>1. Answer(PageRows(at, n, newestFirst), at + n, IfMore(at + n < rows), rows)
  BY DEF CountedPage, CollectionPage, RelayedPage, HistoryPage, nextOffset, hasMore,
         ServiceHasMore
<1> QED
  BY <1>1, PageKeeps

\* A plain array is the first page, of any length.
LEMMA ArrayKeeps ==
  ASSUME PagingInv, list # "events", PlainArray
  PROVE  PagingInv'
<1>1. PICK n \in 0..rows : Answer(PageRows(0, n, newestFirst), n, "array", 0)
  BY DEF PlainArray
<1>2. at = 0 /\ rows \in Nat
  BY PagingAssumption DEF PlainArray, PagingInv, TypeOK
<1>3. newestFirst = Ahead
  BY DEF Ahead, PagingInv, TypeOK
<1>4. n \in 0..(rows - at) /\ at + n = n
  BY <1>2
<1>5. Answer(PageRows(at, n, Ahead), at + n, "array", 0)
  BY <1>1, <1>2, <1>3, <1>4
<1> QED
  BY <1>4, <1>5, AnswerKeeps

\* So is a page of events, unless it is not full: then it is the last.
LEMMA EventsKeep ==
  ASSUME PagingInv, NEW raw \in Limits, NEW asOffset \in BOOLEAN,
         getSessionLifecycleEvents(raw, asOffset)
  PROVE  PagingInv'
<1> DEFINE limit == parseAuditListPaging(raw)
           after == parseLifecycleEventPaging(IF asOffset THEN 0 ELSE at,
                                              IF asOffset THEN at ELSE 0)
           m == PageLen(after, limit)
           n == PageLen(at, limit)
<1>1. rows \in Nat /\ at \in 0..rows
  BY PagingAssumption DEF PagingInv, TypeOK
<1>2. limit \in 1..MaxLimit
  BY LimitBounded
<1>3. n \in 0..(rows - at) /\ (n >= limit \/ n = rows - at)
  BY <1>1, <1>2, PageBounded
<1>4. after = at
  BY DEF parseLifecycleEventPaging
<1>5. /\ list = "events"
      /\ Answer(PageRows(after, m, FALSE), IF m = 0 THEN after ELSE after + m,
                IfMore(m >= limit), 0)
  BY Zenon DEF getSessionLifecycleEvents
<1>6. m = n
  BY <1>4
<1> HIDE DEF limit, after, m, n
<1>7. Answer(PageRows(at, n, FALSE), IF n = 0 THEN at ELSE at + n, IfMore(n >= limit), 0)
  BY <1>4, <1>5, <1>6
<1>8. (IF n = 0 THEN at ELSE at + n) = at + n
  BY <1>1, <1>3
<1>9. /\ IfMore(n >= limit) \in {"going", "done", "array"}
      /\ IfMore(n >= limit) = "done" => at + n = rows
  BY <1>1, <1>2, <1>3 DEF IfMore
<1>10. FALSE = Ahead
  BY <1>5 DEF Ahead
<1> QED
  BY <1>3, <1>7, <1>8, <1>9, <1>10, AnswerKeeps

\* Each of the handlers answers in one of these ways.
LEMMA HandlersKeep ==
  ASSUME PagingInv, ReadPage
  PROVE  PagingInv'
<1>1. PICK raw \in Limits : SessionPage(raw) \/ OrderPage(raw) \/ CollectionRead(raw)
  BY DEF ReadPage
<1>2. /\ parseAuditListPaging(raw) \in Nat
      /\ parseCollectionPaging(raw) \in Nat
      /\ parseOrderHistoryFilters(raw) \in Nat
  BY PagingAssumption
     DEF parseAuditListPaging, parseCollectionPaging, parseOrderHistoryFilters
<1>3. CASE SessionPage(raw)
  <2>1. CASE \E asOffset \in BOOLEAN : getSessionLifecycleEvents(raw, asOffset)
    BY <2>1, EventsKeep
  <2>2. CASE ~ \E asOffset \in BOOLEAN : getSessionLifecycleEvents(raw, asOffset)
    <3>1. /\ list # "events"
          /\ \/ RelayedPage(parseAuditListPaging(raw))
             \/ CountedPage(parseAuditListPaging(raw))
      BY <1>3, <2>2
         DEF SessionPage, getSessionSnapshots, getSessionReconciliation, getSessionIntents,
             getSessionOrders, getSessionAttempts, getSessionFills
    <3> QED
      BY <1>2, <3>1, OffsetPagesKeep
  <2> QED
    BY <2>1, <2>2
<1>4. CASE OrderPage(raw)
  <2>1. list # "events" /\ HistoryPage(parseOrderHistoryFilters(raw))
    BY <1>4 DEF OrderPage, handleOrderIntents, handleOrderHistory, handleOrderAttempts,
                handleOrderFills
  <2> QED
    BY <1>2, <2>1, OffsetPagesKeep
<1>5. CASE CollectionRead(raw)
  <2>1. list # "events" /\ (CollectionPage(parseCollectionPaging(raw)) \/ PlainArray)
    BY <1>5 DEF CollectionRead, CollectionAnswer, listSessionsHandler, listAccounts,
                listMarketDataRequests, listRuntimeCredentials, listStrategies, listVenues
  <2> QED
    BY <1>2, <2>1, OffsetPagesKeep, ArrayKeeps
<1> QED
  BY <1>1, <1>3, <1>4, <1>5

\* PagingInv is an inductive invariant.
LEMMA PagingInvariant == SafeSpec => []PagingInv
<1>1. Init => PagingInv
  BY PagingAssumption DEF Init, PagingInv, TypeOK, Lists, SessionLists, Ahead
<1>2. PagingInv /\ [Next]_vars => PagingInv'
  <2> SUFFICES ASSUME PagingInv, [Next]_vars
               PROVE  PagingInv'
    OBVIOUS
  <2>1. ASSUME Append
        PROVE  PagingInv'
    <3>1. TypeOK'
      BY <2>1, PagingAssumption DEF Append, PagingInv, TypeOK, Lists
    <3>2. rows' # start'
      BY <2>1, PagingAssumption DEF Append, PagingInv, TypeOK, Lists
    <3>3. Ahead => \A r \in 1..start' : rows' - r < at' => r \in listed'
      BY <2>1, PagingAssumption DEF Append, PagingInv, TypeOK, Lists
    <3>4. UNCHANGED <<newestFirst, list, walk, at, start, listed, again>>
      BY <2>1 DEF Append
    <3> QED
      BY <3>1, <3>2, <3>3, <3>4 DEF PagingInv, Ahead
  <2>2. ASSUME NEW which \in Lists, Start(which)
        PROVE  PagingInv'
    BY <2>2, PagingAssumption DEF Start, PagingInv, TypeOK, Lists, Ahead
  <2>3. ASSUME Poll
        PROVE  PagingInv'
    BY <2>3, PagingAssumption DEF Poll, PagingInv, TypeOK, Lists, Ahead
  <2>4. CASE UNCHANGED vars
    BY <2>4 DEF vars, PagingInv, TypeOK, Lists, Ahead
  <2> QED
    BY <2>1, <2>2, <2>3, <2>4, HandlersKeep DEF Next
<1> QED
  BY <1>1, <1>2, PTL DEF SafeSpec

\* No walk runs past the end of its list (session_history.go 363-364).
THEOREM TypeCorrect == SafeSpec => []TypeOK
  BY PagingInvariant, PTL DEF PagingInv

\* A client that is told there is no more has every row there was when it asked
\* (session_history.go 363-364, 673-687).
THEOREM WalksAreComplete == SafeSpec => []WalkIsComplete
<1>1. PagingInv => WalkIsComplete
  BY DEF PagingInv, WalkIsComplete
<1> QED
  BY <1>1, PagingInvariant, PTL

\* Events, and rows of a list that has not grown, are given once
\* (session_history.go 673-686, 707-713).
THEOREM RowsComeOnce == SafeSpec => []ListedOnce
<1>1. PagingInv => ListedOnce
  <2>1. SUFFICES ASSUME PagingInv, again # {}
                 PROVE  list # "events" /\ newestFirst /\ rows > start
    BY DEF ListedOnce
  <2>2. Ahead
    BY <2>1 DEF PagingInv
  <2>3. rows # start
    BY <2>1, <2>2 DEF PagingInv
  <2>4. rows \in Nat /\ start \in 0..rows
    BY <2>1, PagingAssumption DEF PagingInv, TypeOK
  <2>5. rows > start
    BY <2>3, <2>4
  <2> QED
    BY <2>2, <2>5, Zenon DEF Ahead
<1> QED
  BY <1>1, PagingInvariant, PTL

-----------------------------------------------------------------------------
(* A walk moves on.                                                        *)

\* A page with more to come has at least one row, and leaves at least one.
\* While a walk goes on, nothing but its next page moves it.
MovesOn ==
  walk = "going" /\ walk' = "going" =>
    \/ rows' = rows /\ at < at' /\ at' <= rows
    \/ rows' > rows /\ at' = at

\* There is more only where there is a row.
LEMMA PageNotEmpty ==
  ASSUME rows \in Nat, NEW k \in 0..rows, k < rows, NEW limit \in Nat \ {0}
  PROVE  PageLen(k, limit) \in 1..(rows - k)
  BY PagingAssumption DEF PageLen

\* A page from where the last one ended, one that has more to come only if it
\* falls short of the end and only with a row in it, moves on.
LEMMA AnswerMovesOn ==
  ASSUME rows \in Nat, at \in 0..rows, NEW limit \in Nat \ {0}, NEW page, NEW then, NEW count,
         Answer(page, at + PageLen(at, limit), then, count),
         then = "going" => at < rows
  PROVE  MovesOn
<1> DEFINE n == PageLen(at, limit)
<1>1. /\ at' = at + n
      /\ walk' = then
      /\ rows' = rows
  BY DEF Answer
<1>2. at < rows => n \in 1..(rows - at)
  BY PageNotEmpty
<1> HIDE DEF n
<1> QED
  BY <1>1, <1>2 DEF MovesOn

LEMMA OffsetPagesMoveOn ==
  ASSUME PagingInv, NEW limit \in Nat \ {0},
         \/ CountedPage(limit)
         \/ CollectionPage(limit)
         \/ RelayedPage(limit)
         \/ HistoryPage(limit)
  PROVE  MovesOn
<1>1. rows \in Nat /\ at \in 0..rows
  BY PagingAssumption DEF PagingInv, TypeOK
<1> DEFINE n == PageLen(at, limit)
<1>2. n \in 0..(rows - at)
  BY <1>1, PageFits
<1>3. Answer(PageRows(at, n, newestFirst), at + n, IfMore(at + n < rows), rows)
  BY DEF CountedPage, CollectionPage, RelayedPage, HistoryPage, nextOffset, hasMore,
         ServiceHasMore
<1>4. IfMore(at + n < rows) = "going" => at < rows
  <2> HIDE DEF n
  <2> QED
    BY <1>1, <1>2 DEF IfMore
<1> QED
  BY <1>1, <1>3, <1>4, AnswerMovesOn

\* The walk that events are read by has no total to compare with: a page that
\* is full has a row, since no limit is zero.
LEMMA EventsMoveOn ==
  ASSUME PagingInv, NEW raw \in Limits, NEW asOffset \in BOOLEAN,
         getSessionLifecycleEvents(raw, asOffset)
  PROVE  MovesOn
<1> DEFINE limit == parseAuditListPaging(raw)
           after == parseLifecycleEventPaging(IF asOffset THEN 0 ELSE at,
                                              IF asOffset THEN at ELSE 0)
           m == PageLen(after, limit)
           n == PageLen(at, limit)
<1>1. rows \in Nat /\ at \in 0..rows
  BY PagingAssumption DEF PagingInv, TypeOK
<1>2. limit \in 1..MaxLimit
  BY LimitBounded
<1>3. n \in 0..(rows - at)
  BY <1>1, <1>2, PageBounded
<1>4. after = at
  BY DEF parseLifecycleEventPaging
<1>5. Answer(PageRows(after, m, FALSE), IF m = 0 THEN after ELSE after + m,
             IfMore(m >= limit), 0)
  BY Zenon DEF getSessionLifecycleEvents
<1>6. m = n
  BY <1>4
<1> HIDE DEF limit, after, m, n
<1>7. Answer(PageRows(at, n, FALSE), IF n = 0 THEN at ELSE at + n, IfMore(n >= limit), 0)
  BY <1>4, <1>5, <1>6
<1>8. /\ at' = IF n = 0 THEN at ELSE at + n
      /\ walk' = IfMore(n >= limit)
      /\ rows' = rows
  BY <1>7 DEF Answer
<1>9. MaxLimit \in Nat
  BY PagingAssumption
<1>10. walk' = "going" => n >= limit
  BY <1>8 DEF IfMore
<1> QED
  BY <1>1, <1>2, <1>3, <1>8, <1>9, <1>10 DEF MovesOn

LEMMA HandlersMoveOn ==
  ASSUME PagingInv, ReadPage
  PROVE  MovesOn
<1>1. PICK raw \in Limits : SessionPage(raw) \/ OrderPage(raw) \/ CollectionRead(raw)
  BY DEF ReadPage
<1>2. /\ parseAuditListPaging(raw) \in Nat \ {0}
      /\ parseCollectionPaging(raw) \in Nat \ {0}
      /\ parseOrderHistoryFilters(raw) \in Nat \ {0}
  BY PagingAssumption
     DEF parseAuditListPaging, parseCollectionPaging, parseOrderHistoryFilters
<1>3. CASE SessionPage(raw)
  BY <1>2, <1>3, OffsetPagesMoveOn, EventsMoveOn
     DEF SessionPage, getSessionSnapshots, getSessionReconciliation, getSessionIntents,
         getSessionOrders, getSessionAttempts, getSessionFills
<1>4. CASE OrderPage(raw)
  BY <1>2, <1>4, OffsetPagesMoveOn
     DEF OrderPage, handleOrderIntents, handleOrderHistory, handleOrderAttempts,
         handleOrderFills
<1>5. CASE CollectionRead(raw)
  <2>1. CollectionPage(parseCollectionPaging(raw)) \/ PlainArray
    BY <1>5 DEF CollectionRead, CollectionAnswer, listSessionsHandler, listAccounts,
                listMarketDataRequests, listRuntimeCredentials, listStrategies, listVenues
  <2>2. PlainArray => walk' = "array"
    BY DEF PlainArray, Answer
  <2> QED
    BY <1>2, <2>1, <2>2, OffsetPagesMoveOn DEF MovesOn
<1> QED
  BY <1>1, <1>3, <1>4, <1>5

\* Every page of a walk that goes on brings it nearer to the end of the list,
\* whatever the limits, so that it ends when rows stop coming
\* (session_history.go 363-364, 673-687, 707-713).
THEOREM WalksMoveOn == SafeSpec => [][MovesOn]_vars
<1>1. PagingInv /\ [Next]_vars => [MovesOn]_vars
  <2> SUFFICES ASSUME PagingInv, [Next]_vars
               PROVE  [MovesOn]_vars
    OBVIOUS
  <2>1. rows \in Nat
    BY PagingAssumption DEF PagingInv, TypeOK
  <2>2. CASE Append
    BY <2>1, <2>2 DEF Append, MovesOn
  <2>3. CASE (\E which \in Lists : Start(which)) \/ Poll
    BY <2>3 DEF Start, Poll, MovesOn
  <2> QED
    BY <2>2, <2>3, HandlersMoveOn DEF Next
<1> QED
  BY <1>1, PagingInvariant, PTL DEF SafeSpec

-----------------------------------------------------------------------------
(* What total says.                                                        *)

\* TotalIsListSize, of every list of a session but the events.
TotalsButOfEvents ==
  (list \in SessionLists \ {"events"} /\ listed' # listed /\ listed' # {}) => total' = rows

\* The events are the one list of a session whose total is not its length,
\* however pages are asked for (session_history.go 16-21, 363-371, 673-687).
THEOREM OtherTotalsAreTrue == SafeSpec => [][TotalsButOfEvents]_vars
<1>1. [Next]_vars => [TotalsButOfEvents]_vars
  <2> SUFFICES ASSUME Next
               PROVE  TotalsButOfEvents
    OBVIOUS
  <2>1. CASE Append \/ (\E which \in Lists : Start(which)) \/ Poll
    BY <2>1 DEF Append, Start, Poll, TotalsButOfEvents
  <2>2. ASSUME NEW raw \in Limits, SessionPage(raw)
        PROVE  TotalsButOfEvents
    BY <2>2 DEF SessionPage, getSessionSnapshots, getSessionReconciliation,
                getSessionIntents, getSessionOrders, getSessionAttempts, getSessionFills,
                getSessionLifecycleEvents, CountedPage, RelayedPage, Answer,
                TotalsButOfEvents
  <2>3. ASSUME NEW raw \in Limits, OrderPage(raw) \/ CollectionRead(raw)
        PROVE  list \notin SessionLists
    BY <2>3 DEF OrderPage, handleOrderIntents, handleOrderHistory, handleOrderAttempts,
                handleOrderFills, CollectionRead, listSessionsHandler, listAccounts,
                listMarketDataRequests, listRuntimeCredentials, listStrategies, listVenues,
                SessionLists
  <2> QED
    BY <2>1, <2>2, <2>3 DEF Next, ReadPage, TotalsButOfEvents
<1> QED
  BY <1>1, PTL DEF SafeSpec
=============================================================================
