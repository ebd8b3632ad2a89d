----------------------------- MODULE AuditPaging -----------------------------
(***************************************************************************)
(* A client that walks a list of the gateway's, page by page, while rows   *)
(* are added to it.  A session's intents, orders, attempts and fills are   *)
(* paged by offset and derive has_more from the total; the collections     *)
(* relay the service's has_more, or come as a plain array that says        *)
(* nothing of what it leaves out; snapshots and reconciliation runs relay  *)
(* next_offset too; the account's order history is answered with its total *)
(* alone; lifecycle events are paged by a cursor, the last event_id, and   *)
(* have more if the page is full.  The gateway keeps nothing: the client   *)
(* brings back what it was answered.                                       *)
(*                                                                         *)
(* Rows are numbered in the order they are added, as events are by their   *)
(* event_id.  A service reads a page and counts the list at once.          *)
(***************************************************************************)
EXTENDS Integers

CONSTANTS
  Limits,        \* the values of ?limit=, 0 for none or one that is not a number
  DefaultLimit,  \* auditListDefaultLimit
  CollectionDefault,  \* the default of parseCollectionPaging
  HistoryDefault,     \* and of parseOrderHistoryFilters
  MaxLimit,      \* auditListMaxLimit
  ServiceMax,    \* core-service's own limit on a page
  MaxRows        \* bound of the model on the length of the list

ASSUME PagingAssumption ==
  /\ Limits \subseteq Nat /\ MaxRows \in Nat
  /\ {DefaultLimit, CollectionDefault, HistoryDefault} \subseteq Nat \ {0}
  /\ MaxLimit \in Nat /\ ServiceMax \in Nat
  /\ DefaultLimit <= MaxLimit /\ MaxLimit <= ServiceMax

VARIABLES
  rows,         \* the length of the list
  newestFirst,  \* the order core-service pages it in by offset
  list,         \* what is walked
  walk,         \* "idle", "going", "done", or ended by an "array"
  at,           \* next_offset or next_event_id of the last page
  start,        \* rows when the walk, or the poll, began
  listed, again,  \* the rows the client was given, and those it was given twice
  total         \* of the last page

vars == <<rows, newestFirst, list, walk, at, start, listed, again, total>>

-----------------------------------------------------------------------------
(* The gateway's paging.                                                   *)

BugNoClamp(raw) == IF raw > 0 THEN raw ELSE DefaultLimit

\* The limit a request is given: its own up to a maximum, else the default.
parseAuditListPaging(raw) ==
  IF raw > 0 THEN IF raw > MaxLimit THEN MaxLimit ELSE raw ELSE DefaultLimit

parseCollectionPaging(raw) ==
  IF raw > 0 THEN IF raw > MaxLimit THEN MaxLimit ELSE raw ELSE CollectionDefault

\* The history of orders has no maximum of its own.
parseOrderHistoryFilters(raw) == IF raw > 0 THEN raw ELSE HistoryDefault

BugNoAlias(after, offset) == after

\* The cursor a request means: after_event_id, or offset in its place.
parseLifecycleEventPaging(after, offset) == IF after = 0 THEN offset ELSE after

BugMoreAtTheEnd(next, count) == next <= count

hasMore(next, count) == next < count

BugNextIsLimit(offset, n, limit) == offset + limit

nextOffset(offset, n, limit) == offset + n

-----------------------------------------------------------------------------
(* core-service's pages.                                                   *)

\* How many rows a page past the first k has, and which.
PageLen(k, limit) ==
  LET most == IF limit > ServiceMax THEN ServiceMax ELSE limit
  IN  IF rows - k < most THEN IF rows > k THEN rows - k ELSE 0 ELSE most

ServiceHasMore(k, n) == k + n < rows

PageRows(k, n, descending) ==
  IF descending THEN (rows - k - n + 1)..(rows - k) ELSE (k + 1)..(k + n)

-----------------------------------------------------------------------------
\* The lists of a session, by the last part of their path.
SessionLists == {"snapshots", "intents", "orders", "attempts", "fills", "events", "reconciliation"}

Lists == SessionLists \cup
  {"order-intents", "order-history", "order-attempts", "order-fills",
   "sessions", "accounts", "venues", "requests", "credentials", "strategies"}

Init ==
  /\ rows \in 0..MaxRows
  /\ newestFirst \in BOOLEAN
  /\ list = "none" /\ walk = "idle"
  /\ at = 0 /\ start = 0 /\ total = 0
  /\ listed = {} /\ again = {}

\* The session goes on, and another row is added.
Append ==
  /\ rows < MaxRows
  /\ rows' = rows + 1
  /\ UNCHANGED <<newestFirst, list, walk, at, start, listed, again, total>>

\* A client begins at the first page of a list.
Start(which) ==
  /\ walk # "going"
  /\ list' = which /\ walk' = "going"
  /\ at' = 0 /\ start' = rows /\ total' = 0
  /\ listed' = {} /\ again' = {}
  /\ UNCHANGED <<rows, newestFirst>>

\* One that has all events asks for what has come since.
Poll ==
  /\ list = "events" /\ walk = "done"
  /\ walk' = "going" /\ start' = rows
  /\ UNCHANGED <<rows, newestFirst, list, at, listed, again, total>>

\* A page is handed to the client, who goes on if there is more.
Answer(page, next, then, count) ==
  /\ walk = "going"
  /\ listed' = listed \cup page
  /\ again' = again \cup (listed \cap page)
  /\ at' = next
  /\ walk' = then
  /\ total' = count
  /\ UNCHANGED <<rows, newestFirst, list, start>>

IfMore(more) == IF more THEN "going" ELSE "done"

\* The gateway adds up next_offset and compares it with the total.
CountedPage(limit) ==
  LET n == PageLen(at, limit)
      next == nextOffset(at, n, limit)
  IN  Answer(PageRows(at, n, newestFirst), next, IfMore(hasMore(next, rows)), rows)

\* It adds up next_offset and relays has_more.
CollectionPage(limit) ==
  LET n == PageLen(at, limit)
      next == nextOffset(at, n, limit)
  IN  Answer(PageRows(at, n, newestFirst), next, IfMore(ServiceHasMore(at, n)), rows)

\* It relays both.
RelayedPage(limit) ==
  LET n == PageLen(at, limit)
  IN  Answer(PageRows(at, n, newestFirst), at + n, IfMore(ServiceHasMore(at, n)), rows)

\* It answers the total alone: the client goes on by the rows it counted,
\* until it has that many.
HistoryPage(limit) ==
  LET n == PageLen(at, limit)
  IN  Answer(PageRows(at, n, newestFirst), at + n, IfMore(at + n < rows), rows)

\* Without ?page=true the rows come as a plain array, as many as the service
\* gives when no limit is sent to it: nothing says whether there are more.
PlainArray ==
  /\ at = 0
  /\ \E n \in 0..rows : Answer(PageRows(0, n, newestFirst), n, "array", 0)

CollectionAnswer(raw, page) ==
  \/ page /\ CollectionPage(parseCollectionPaging(raw))
  \/ ~page /\ PlainArray

getSessionSnapshots(raw) == list = "snapshots" /\ RelayedPage(parseAuditListPaging(raw))

getSessionReconciliation(raw) == list = "reconciliation" /\ RelayedPage(parseAuditListPaging(raw))

getSessionIntents(raw) == list = "intents" /\ CountedPage(parseAuditListPaging(raw))

getSessionOrders(raw) == list = "orders" /\ CountedPage(parseAuditListPaging(raw))

getSessionAttempts(raw) == list = "attempts" /\ CountedPage(parseAuditListPaging(raw))

getSessionFills(raw) == list = "fills" /\ CountedPage(parseAuditListPaging(raw))

\* The client sends its position as the one parameter or as the other.
getSessionLifecycleEvents(raw, asOffset) ==
  LET limit == parseAuditListPaging(raw)
      after == parseLifecycleEventPaging(IF asOffset THEN 0 ELSE at, IF asOffset THEN at ELSE 0)
      n == PageLen(after, limit)
  IN  /\ list = "events"
      /\ Answer(PageRows(after, n, FALSE), IF n = 0 THEN after ELSE after + n, IfMore(n >= limit), 0)

handleOrderIntents(raw) == list = "order-intents" /\ HistoryPage(parseOrderHistoryFilters(raw))

handleOrderHistory(raw) == list = "order-history" /\ HistoryPage(parseOrderHistoryFilters(raw))

handleOrderAttempts(raw) == list = "order-attempts" /\ HistoryPage(parseOrderHistoryFilters(raw))

handleOrderFills(raw) == list = "order-fills" /\ HistoryPage(parseOrderHistoryFilters(raw))

listSessionsHandler(raw, page) == list = "sessions" /\ CollectionAnswer(raw, page)

listAccounts(raw, page) == list = "accounts" /\ CollectionAnswer(raw, page)

listMarketDataRequests(raw, page) == list = "requests" /\ CollectionAnswer(raw, page)

listRuntimeCredentials(raw, page) == list = "credentials" /\ CollectionAnswer(raw, page)

listStrategies(raw, page) == list = "strategies" /\ CollectionAnswer(raw, page)

\* Venues are always paged.
listVenues(raw) == list = "venues" /\ CollectionPage(parseCollectionPaging(raw))

SessionPage(raw) ==
  \/ getSessionSnapshots(raw)
  \/ getSessionReconciliation(raw)
  \/ getSessionIntents(raw)
  \/ getSessionOrders(raw)
  \/ getSessionAttempts(raw)
  \/ getSessionFills(raw)
  \/ \E asOffset \in BOOLEAN : getSessionLifecycleEvents(raw, asOffset)

OrderPage(raw) ==
  \/ handleOrderIntents(raw)
  \/ handleOrderHistory(raw)
  \/ handleOrderAttempts(raw)
  \/ handleOrderFills(raw)

CollectionRead(raw) ==
  \/ \E page \in BOOLEAN : \/ listSessionsHandler(raw, page)
                           \/ listAccounts(raw, page)
                           \/ listMarketDataRequests(raw, page)
                           \/ listRuntimeCredentials(raw, page)
                           \/ listStrategies(raw, page)
  \/ listVenues(raw)

ReadPage == \E raw \in Limits : SessionPage(raw) \/ OrderPage(raw) \/ CollectionRead(raw)

Next ==
  \/ Append
  \/ \E which \in Lists : Start(which)
  \/ Poll
  \/ ReadPage

SafeSpec == Init /\ [][Next]_vars

\* A client that is told there is more asks for it.
Spec == SafeSpec /\ WF_vars(ReadPage)

-----------------------------------------------------------------------------
(* Properties.                                                             *)

\* The variables keep their types, and no walk runs past the end of its list.
TypeOK ==
  /\ rows \in 0..MaxRows /\ newestFirst \in BOOLEAN
  /\ list \in Lists \cup {"none"}
  /\ walk \in {"idle", "going", "done", "array"}
  /\ at \in 0..rows /\ start \in 0..rows /\ total \in 0..rows
  /\ listed \subseteq 1..rows /\ again \subseteq listed

\* Whatever the limits, the order and the rows that come in between, a client
\* that is told there is no more has every row there was when it began, or, of
\* events, when it last asked (session_history.go 363-364, 673-687).
WalkIsComplete == walk = "done" => 1..start \subseteq listed

\* Events come once each, however often the client comes back, and so do the
\* rows of a list, unless it is paged from the newest and has grown
\* (session_history.go 673-686, 707-713).
ListedOnce == again # {} => list # "events" /\ newestFirst /\ rows > start

\* A walk ends once rows stop coming: a page is never answered with more to
\* come where there is none (session_history.go 364, 687).
WalksEnd == walk = "going" ~> walk # "going"

\* total is the length of the list regardless of the page
\* (session_history.go 16-21).
TotalIsListSize ==
  [][(list \in SessionLists /\ listed' # listed /\ listed' # {}) => total' = rows]_vars
==============================================================================
