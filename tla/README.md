# quant-handler: a verification project

quant-handler is the backend-for-frontend (BFF) of a trading platform: one Go
process that serves a REST API to the browser and keeps almost no state of its
own.  It authenticates the caller, splits a request into calls to
control-panel-service (runtimes, routes, the market-data plane, the strategy
proxy), to core-service (users, accounts, venues, sessions, notifications) and
to the order API, and reshapes the answers.  What can go wrong in it is mostly
what can happen *between* those calls.  The modules here model the handlers in
which that matters, check them with TLC on small instances, and prove the main
results with TLAPS for every value of the constants.

Line numbers are of `src/internal/app/` unless another path is given.

## 1. The system

### 1.1 Components, their state and operations

| component | source | state it keeps | operations |
|---|---|---|---|
| Download-and-run jobs | `backtest_download_jobs.go` | a map of jobs in memory, one goroutine per running job | accept a job, poll its status; the goroutine previews, queries coverage, creates requests, polls, runs |
| Market-data facade | `market_data.go` | none | list, create and cancel requests, coverage, streams, source jobs |
| Coverage preview | `backtest_coverage.go` | none | preview a strategy, query the coverage of its inputs |
| Debug package | `debug_package.go`, `debug_package_parquet.go` | cursor and rows of one request | validate, page through klines, check, pack |
| Strategy sessions | `strategy.go`, `strategy_route.go` | none between requests; within one: policy, route, the record it read | run, preview, status, stop |
| Runtime management | `runtime_management.go` | none | list, show, end, ensure hosted, debug workspace, admission failures |
| Control-panel client | `../controlpanel/client.go` | none | one gRPC call per method |
| Runtime credentials | `runtime_credentials.go` | none | issue, list, revoke |
| Session history and audit lists | `session_history.go` | none; the client holds the position | pages of sessions, snapshots, intents, orders, attempts, fills, events, reconciliation runs |
| Order history | `order_history.go` | none | account-wide lists of the same rows |
| Accounts | `app.go`, `accounts_ext.go` | none | create, list, show, portfolio |
| Venues | `venues.go` | none | create, list, show, bind, release, archive |
| Wallet bootstrap and display | `wallet_bootstrap.go`, `../walletagg/totalvalue.go` | none | pure functions |
| Strategy registry and mounts | `strategy_mgmt.go`, `strategy_mount.go` | none | create, archive, mount, activate |
| Debugger | `debugger.go` | none | load a data set into a runtime |
| Notifications | `notification.go` | none | settings, bindings, test message |
| Gateway | `app.go`, `cmd/quant-handler/main.go`, `../config/config.go` | configuration | CORS, JWT, routes, start-up |
| Route marker; logger and labels | `runtime_route.go`; `../logger/logger.go`, `enum_labels.go` | none | formatting |

`PROJECT.json` says for each whether it is modelled, and why not where it is not.

### 1.2 How they interact

* A **job** calls the strategy proxy (preview, run) and the market-data plane
  (coverage, create request, list requests, validate).  It shares *requests*
  with every other job for the same data, because creating is an upsert, and
  with the market-data page, where the user cancels them.  It shares the
  *active strategy* with the account page: an empty `strategy_path` means
  "whatever is active when the call is served".
* A **session** request reads an account or a session from core-service, chooses
  a policy (`strategyRoutePolicyFor...`), resolves a route at
  control-panel-service, and sends one RPC through its proxy.  The record read
  first and the RPC's answer come from two services of which one trails the other.
* A **debug package** validates a range at the plane, then reads it page by
  page from the same plane, which meanwhile stores, repairs or drops bars.
* A **list** is read page by page by a client who brings back the position he
  was answered, while orders and fills are added.
* The **market-data pages** and the coverage preview talk to the same plane as
  the jobs, each with its own way of writing the key of a stream.  What one of
  them shows, another is asked for.
* A **venue** is created with a wallet whose total the gateway works out; later
  its parts are worked out again, by other code, from what core-service has.
* A **runtime** is listed (and picked for a session), provisioned and ended by
  several pages and scripts of one user at the same time.

### 1.3 What is hard, and what makes each part correct

* Jobs: interleaving of goroutines over shared requests, lost answers to calls
  that did take effect, a deadline that may fall anywhere, a restart that loses
  the store.  Correct means: no session runs on history with a hole; at most
  one session per job, and none that nobody can find; a job blames only its own
  requests; it gives up early only when there is nothing to wait for; its status
  keeps the API's promise; it always ends.
* Sessions: records that lag, routes that vanish between being resolved and
  being used, two sources for one status.  Correct means: "stopped" is true;
  what is over stays over for whoever was told; a session can be reached under
  the policy of the handlers; a run in a runtime that the picker offered is not
  refused for the runtime's role; a session whose runtime is gone can still be closed.
* Debug package: a validation that is stale when rows are read, and a cursor
  computed from rows that may lack either of their times.  Correct means: what
  is sent is complete and without repeats, what stayed complete is sent, and the
  loop ends.
* Lists: offsets that move while rows come in, three kinds of `has_more`.
  Correct means: a finished walk saw every row there was, nothing twice where
  the order allows that, and it finishes.

* Market data: keys written five ways, verdicts on a plane that changes while
  they are put together and after.  Correct means: what a preview promised the
  job keeps; every page finds what another one asked for; asking for what is
  shown to be missing makes it go away.
* Venues and wallets: two pieces of code that must agree on what a wallet is
  worth, and two kinds of venue that must not mix.  Correct means: the parts add
  up to the total, what can be spent is within the balance unless something is owed, and no credential
  meets a simulated wallet.
* Runtimes: a list that is filtered after it was paged, a slot that two clients
  ask for at once or again after an error.  Correct means: reading on gives the
  rows in order and ends; the answer is a runtime of the name asked for, and
  one answer at most claims to have provisioned it.

`PROJECT.json` lists each hazard at its line with the properties that cover it, or the reason none does.

## 2. Modules

| module | what it is |
|---|---|
| `JobContract` | abstract specification: what the job API promises its client |
| `DownloadRun` | the jobs, shared requests, the plane and the strategy service; `Contract` is its refinement mapping to `JobContract` |
| `DownloadRunProofs` | theorems about it |
| `DebugPackage`, `DebugPackageProofs` | the debug package and theorems |
| `SessionContract` | abstract specification: what the session API promises its clients |
| `SessionControl`, `SessionControlProofs` | strategy sessions, routing, ending a runtime; `Contract` is its refinement mapping to `SessionContract`; theorems |
| `AuditPaging`, `AuditPagingProofs` | walks of the paged lists; theorems |
| `MarketDataDesk`, `MarketDataDeskProofs` | coverage preview, requests by hand, keys, and the requesting half of a job, against one plane; theorems |
| `VenueWallet`, `VenueWalletProofs` | venues, the wallet they start with and the wallet that is shown; theorems |
| `RuntimeDesk`, `RuntimeDeskProofs` | the list of runtimes, the hosted runtime's slot; theorems |
| `InductionLemmas` | induction over the naturals and over finite sets, and what it says of recursive functions and sums; used by the two before |
| `MC...` | instances for TLC: model values, symmetry, functions a `.cfg` cannot write |

Definitions keep the names of the Go functions they stand for.  A definition
called `Bug...` is not part of any specification: it is a plausible slip in the
definition that follows it, and section 5 says which property notices it.

### 2.1 DownloadRun

`status`, `progress`, `sessionID` and `error` are the fields of a job in
`downloadRunJobStore`; `pc` is where its goroutine is, named for the call it
awaits; `declared`, `todo`, `missing` and `own` are the locals (`own` is
`requestIDs`).  An action is the handling of one answer, with everything the
goroutine then does up to its next call: `PreviewAccepted` is the check of the
profile and the inputs *and* the progress update *and* the first coverage
query.  So anything may happen between a call and its answer.  A declared list
is visited in any order, which covers the order of the code.  `RpcError` is any
`err != nil`; for calls with an effect it also stands for an answer that was
lost after the effect (`CreateLost`, and `StartSession` after `RpcError`).
`Expire` lets the 30 minutes pass at any point from arming to the end, and
`DeadlineError` is the return of the call or the `select` in progress.  `Tick`
stays possible after the deadline: Go's `select` picks either ready case.
`Restart` empties the store and ends the goroutines; calls already sent are
still served.

Left out: the checks of the request body and of the route before a job is
accepted (a request that is refused changes nothing), and the texts of errors, of
which only the kind is kept.

### 2.2 DebugPackage

One request.  `cursor` is the loop's cursor; `copies[t]` counts the rows read
whose open time is `t`, `undated` says that a row without open time was read.
`history[t]` is *how* a bar is stored, because the cursor depends on it: the
close may be one tick before the next open (the exchange's convention), at it,
or missing, and the open time may be missing.  `Page` is the plane's answer:
the first rows of the range, no more than the limit, `truncated` when the range
goes on; whether the end of the range is inclusive is left open.  `whole` is a
history variable: the range has been complete ever since it was validated.  A
request may be refused before the plane is asked, for the caller's access to the account
or for its body (`fits`), and rows that were read and checked may fail to be
encoded (`encodes`).  Left out: a write that fails once the answer is under way.

### 2.3 SessionControl

`live` is the session as its runtime has it, `record` as core-service has it;
`Report` copies the one to the other at some later time.  `link` says whether
control-panel-service reaches a runtime.  `pc` of a client is the call his
request awaits: `account` (GetAccount), `load` (GetSession), `policy`
(GetRuntime, for a backtest), `route` (ResolveRouteByID), `rpc` (the proxied
call), `reread` (GetSession after a stop).  `told` is what a client was last told of
a session.  `pick` is the runtime a client took up from a list, and what the list
had been asked for.  A row of that list (`Rows`) is what control-panel-service has *stored* of
a runtime: a status, whether it was ever heard of, whether it has an owner.  The code
does not ask how old that is (`runtime_management.go` 432-439), so a row may say anything
at any time, whatever `link` is.  `EndRuntime` is `DELETE /api/runtimes/{id}`, which may come between
any two calls of another request.

`SessionContract` is what is left of this for a client: a session goes on in one
place and is over once, closing a place ends what goes on there, and whoever is told of a
session is told what it is at that moment (`Inform`).  It has no record, no
route and no error.  The mapping takes `Phase(s)` of `live` for its phase, `home` for the
place and the ended runtimes for what is closed; `told` is the same variable.

### 2.4 AuditPaging

Rows are numbered as they are added.  `at` is the position the client brings
back, `listed` what he has, `again` what he was given twice, `start` how long
the list was when his walk, or his poll for new events, began.  Seventeen lists are walked, in six ways:

| action | lists | next position | has more |
|---|---|---|---|
| `CountedPage` | a session's intents, orders, attempts, fills | offset + rows | below the total |
| `CollectionPage` | sessions, accounts, venues, market-data requests, credentials, strategies | offset + rows | the service's |
| `RelayedPage` | snapshots, reconciliation runs | core-service's | core-service's |
| `HistoryPage` | an account's intents, orders, attempts, fills | counted by the client | below the total |
| `getSessionLifecycleEvents` | lifecycle events | largest event id | the page is as long as the limit |
| `PlainArray` | the collections but venues, asked without paging | none | not said |

`newestFirst` leaves open in which order core-service pages by offset.

### 2.5 MarketDataDesk

`stored` and `requested` are the plane's: keys whose history in the range is
complete, and keys with an open request.  A key is a record of five fields, and
a field is the word it means, whether it is in its usual letters and whether it
has spaces around it; that is all the ways of writing tell apart.  Each
function that makes a key out of another is an operator of its own name
(`marketDataKeyFromLiveBinding`, `streamKeyJSONToMarketDataProto`,
`parseCoverageQuery`, `getMarketDataStreamByKey`, `displayKey`, ...), with its
own set of trims, lower-casings and defaults.  The plane takes keys literally.
`previewed`, `todo`, `gaps` and `barred` are the locals of one preview, whose
loop asks for one input at a time (`QueryInput`), so history may come in
between two inputs; `sheet` is the last preview a client was answered.  A job
keeps in `jobSheet` what its client had been told of the strategy, for
`PreviewIsKept`.  The job here ends with its last request; what follows is
`DownloadRun`'s.  `createMarketDataRequest` is a request of scope `historical`
for the one range of the model.  One of scope `live`, the default, asks for no
history, and the checks of the range (475-501) refuse a request without
changing anything; both are left out, as is a binding that is nil
(`backtest_coverage.go` 168-170).

### 2.6 VenueWallet

`venue` and `wallet` are core-service's; `fresh` says that a wallet is still as
it was created and `page` is what was last shown of it.  The arithmetic of
`wallet_bootstrap.go` (values at creation) and of `walletagg` and
`accountWalletStateToJSON` (values on display) is translated function by
function.  `UpdateWallet` stands for trading and for core-service's own
measurements.  Amounts are whole numbers of either sign, since the gateway
checks none (`wallet_bootstrap.go` 55-80, 112-135).  They are below 10^8 and prices are
multiples of leverages, so that `TotalsMatch`, a relative tolerance in the code, is equality.
Rows with a blank symbol are left out.

### 2.7 RuntimeDesk

`registry` is the list control-panel-service has of one user's runtimes, in
order.  `req` is the request for a hosted runtime each client waits for, which
has two calls: `ensure` (provision, or find the one in the slot) and `lookup`
(the details of the answered id); in between, and after a lost answer
(`EnsureError`), anything may happen.  `told` is the last answer, `claims[i]`
how many answers said that runtime `i` had been provisioned for them.
`listRuntimes` is what a query is answered, and `Walk` what a client has who
reads on.  `Selected(s, T)` is the loop of `filterRuntimeListForSelection`: it
appends each row that fits to what it has of the rows before.  A status is `healthy`, `ended` or `unfit`; the last stands for every
status, missing heartbeat or missing owner the eligibility rule excludes.  The service
filters by source and status before it pages, the gateway by health, role and environment after.

## 3. What is checked

| run | instance | question |
|---|---|---|
| `job_one` | 1 job, 2 keys, 3 strategies, 2 requests, 1 restart | does a session ever run on a hole, and is "validation failed" ever said too early? |
| `job_shared` | 2 jobs, 1 key of 2 segments, 2 requests | do jobs that share requests stay out of each other's way? |
| `job_contract` | 2 jobs, 1 request, 2 sessions, 1 restart, fairness | is the API's promise kept, and does each job settle, with one session that can be accounted for? |
| `job_polling` | 1 job, 2 keys, fair callees, no deadline needed | does the polling notice what it waits for? |
| `package` | 3 bars, 2 per page, 6 forms of a row | is the package complete, free of repeats, not refused wrongly, and finished? |
| `sessions` | 2 clients, 1 runtime, 1 session | are the answers about sessions true, do they keep the API's promise, and does the routing fit? |
| `sessions_live` | 1 client who keeps asking, 5 queries of the picker | is a run in a runtime the picker offered refused? is a session of an ended runtime released? |
| `paging` | lists of up to 7 rows, pages of up to 3 | are walks complete, free of repeats, and finite? |
| `paging_total` | the same | is `total` the length of the list?  **No**, see section 6 |
| `market_data` | 2 strategies, 3 inputs, one of them untidy, another not downloadable, 1 failing call | does a job keep what the preview promised, do the pages find one another's requests, do gaps go away? |
| `venue_wallets` | 1 venue, 147 spot and 60 futures wallets with amounts of either sign, 8 traded ones | do the parts add up to the total, and do real and simulated venues stay apart? |
| `runtimes` | 2 clients, 3 runtimes, 6 queries, 3 limits | do filtered walks keep the order and end, and are two clients at one slot answered truly? |

### 3.1 The bounds, and why they are enough

* *Jobs.*  Two keys make the order of query, creation and validation matter and
  let one key be undownloadable or one input be covered while the other is not;
  three strategies give the active strategy something to change to, with both
  inputs, with one and with none.  Two segments of one key make a job hold more
  than one request; a second job makes requests shared.  Two requests let an id
  be in error while another is open, and a failed one be asked for anew.  One
  restart suffices because nothing survives it.  Jobs interact with one another
  only through requests, segments and the active strategy, so a third job adds
  no new kind of interference.  `MaxRestarts` and the finite sets of jobs, requests and
  sessions are the only bounds; they are why the job runs say
  `CHECK_DEADLOCK FALSE`: with all ids used the system stops.
* *Package.*  `Step = 2` is the smallest interval with a time strictly inside a
  bar; three bars at two to a page give a page boundary with a bar on each
  side.  One request per behaviour: a finished request is the end, hence
  `CHECK_DEADLOCK FALSE`.
* *Sessions.*  Two clients give one who stops while the other watches or ends the
  runtime.  One session suffices for the safety properties since each is about
  one session and one runtime, and requests for different sessions share
  nothing else.  Sessions are not started twice, so runs of a used-up instance
  end in errors, not in a deadlock.  The picker is in the run with one client only:
  what a client took from a list is compared with the answer to his own next
  request.  Its queries name each environment, none, and a debugger of whatever health.
* *Paging.*  With a maximum of 3 and lists of 7, a walk has at least three
  pages; the limits include none, one, the maximum and one beyond it
  (`Limits = {0, 1, 3, 9}`).  The real values 20, 50, 100 and 200 only scale this.

* *Market data.*  One input is written in full, one leaves the defaults blank, and one is
  in the wrong letters: the ways of writing a key differ on exactly these.  The
  first cannot be downloaded, so a preview of its strategy shows one gap that can be
  filled and one that cannot.  Two inputs in one strategy let history come in between them.  One
  failing call suffices, since a failed preview leaves nothing behind
  (`MaxErrors`).
* *Venues.*  Venues share nothing, so one is enough.  The wallets cover each
  branch of the arithmetic: assets with a price, with an average price only,
  with neither, with something locked; futures of each mode with money
  of the account, of positions, of both or of none; quantities, locked amounts, prices, margins
  and initial balances below zero; measurements that add up and that do not.
* *Runtimes.*  Three runtimes give a page of one or two and a rest, with the
  row the filter drops in any place; two clients give two requests at once; a name and the
  empty one give equal and different names, as the empty name is answered with a generated one.  A
  third client could only repeat what one of two does.

Symmetry is used in the safety runs alone (requests, sessions, jobs, clients: no definition orders them).

### 3.2 Fairness, and why the code justifies it

* `DownloadRun!Spec`: a runnable goroutine runs (`StartJob`, `NextKey`), the
  timer of `context.WithTimeout` fires (`Expire`, 180-181), and a call whose context is
  over returns (`DeadlineError`; gRPC and the `select` at 297-301).  No callee
  is assumed to answer.  That is all `JobsSettle` and the liveness half of
  `JobContract` need.
* `AnsweringSpec` (only `job_polling`): callees answer and the ticker ticks, but
  the deadline need never pass.  It asks whether the loop itself notices.
* `DebugPackage!Spec`: weak fairness of the handler as a whole: the plane answers
  each call, if only with an error.
* `SessionControl!Spec`: each call is answered, if only with an error; GetSession
  does not fail for ever (strong fairness: it may fail any number of times); the
  record catches up.  `EndedRuntimeReleases` further supposes a client who
  keeps asking: the handler has no retry of its own.
* `AuditPaging!Spec`: a client who is told there is more asks for it.  `Append`
  is not fair and is bounded by `MaxRows`: a walk need not end while rows come
  in faster than they are read.
* `MarketDataDesk!Spec`: the plane answers coverage queries (weak), a download
  that is asked for again and again is not cancelled each time, and the client
  goes on previewing and asking for what he is shown (strong: a failing call or
  a cancelled request may come in between).  The handlers have no retry; the
  client's persistence is the one thing assumed of him.
* `VenueWallet` and `RuntimeDesk` state safety only: each of their requests is
  answered or fails, and nothing waits.

### 3.3 The properties

`DownloadRun`: `SessionsAreCovered`, `OneSessionPerJob`, `SessionsAccountedFor`,
`BlamesOwnRequest`, `EveryGapIsRequested`, `GivesUpWithNothingToDownload`,
`ImplementsContract` (refinement), `JobsSettle`, `PollingNotices` (liveness).
`DebugPackage`: `PackageIsComplete`, `NoBarTwice`, `NoFalseAlarm`, `DownloadEnds`
(liveness).  `SessionControl`: `StoppedMeansStopped`, `SessionsFitTheirRuntime`,
`PicksAreNotRefused`, `NoResurrection` (action property), `ImplementsContract` (refinement),
`EndedRuntimeReleases` (liveness).  `AuditPaging`: `WalkIsComplete`, `ListedOnce`, `WalksEnd`
(liveness), `TotalIsListSize` (action property, violated).  `MarketDataDesk`:
`PreviewIsKept`, `ListedIsFound`, `GapsGoAway` (liveness).  `VenueWallet`:
`EnvironmentsApart`, `FreshWalletAddsUp`, `BalancesNest`.
`RuntimeDesk`: `WalksAreInOrder`, `TotalsCountTheOffered`, `AnswersFitTheName`,
`ProvisionedOnce`.  Each module has one
`TypeOK` besides.  Each is stated in words above its definition.

What some of them do *not* say.  `SessionsAreCovered` with an empty
`strategy_path` promises coverage of the inputs that were *previewed*; if the
active strategy changes before RunStrategy is served, another strategy runs, and
its inputs may have holes.  `SessionsAccountedFor` allows a session under a job in
`error`, when the answer to RunStrategy was lost or late: progress 90 then
tells so.  `ListedOnce` allows repeats in a list paged from the newest that has
grown.  `StoppedMeansStopped` is about the answer's `stopped`; the `status`
beside it is only as new as the record.

`PicksAreNotRefused` speaks of a refusal for the runtime's *role*.  A runtime that was
offered may have ended or be out of reach by the time it is used: the picker asks for
a stored status and a heartbeat of whatever age.  Nor does it say that what *could* run is
offered: see section 6 for live accounts.  `WalkIsComplete` and `ListedOnce` are about
lists to which rows are added.

`ListedIsFound` is promised of every key that was requested, however it was typed,
with one exception: what a job asks for when a binding is declared in capital letters
or with spaces, which goes to the plane as declared and is displayed cleaned
(`Unclean`).  A gap of such an input stays if it is asked for by hand as displayed, so
`GapsGoAway` is of inputs that are tidily written, and that can be downloaded.
`PreviewIsKept` speaks of a strategy with inputs: a
preview of one without says *complete*, the job ends with "no inputs".
`FreshWalletAddsUp` is about *plain* wallets.  For others the two sides of the
code differ: locked quantities of an asset count in the total and not in the
parts; an isolated wallet with money of the account and other margins, and a crossed one
with positions and no money, or less than none, are valued differently.  `BalancesNest` is promised
unless an amount of the spot wallet is negative: with something owed in it more
can be spent than there is, or more is there than the total, and nothing in the
gateway refuses such a wallet.  Measured parts are shown only if they add up (`accounts_ext.go` 201);
that is one guard, and no property repeats it.
A futures venue described by an initial
balance alone gets a spot wallet.  `WalksAreInOrder` does not promise a *whole*
list once the filter drops a row: that page says that there is no more, though
matching rows may follow (`runtime_management.go` 358-361).  `AnswersFitTheName`
allows an empty name to conflict with the caller's own runtime, made by an
earlier call whose answer was lost under a generated name; and a lookup
that fails answers an error although the runtime is there (459): asking again by name finds it.

## 4. What is proved

All proofs are for arbitrary constants, under the named assumptions of the
modules only (`DownloadRunAssumption`, `DebugPackageAssumption`,
`SessionControlAssumption`, `PagingAssumption`, `MarketDataDeskAssumption`,
`VenueWalletAssumption`, `RuntimeDeskAssumption`, `PickerAssumption`), which TLC evaluates in the runs.
They are of the specifications without fairness (`SafeSpec`).

* **DownloadRunProofs.** `TypeCorrect`; `SessionInvariant` (`SafeSpec =>
  []SessionInv`) and from it `CoveredSessions`, `SingleSession` and
  `AccountedSessions`.  `SessionsAreCovered` is not inductive: when a session
  starts one has to know that the *call* was made over covered inputs
  (`CallsAreCovered`), which needs that the keys this round has visited are
  still valid (`VisitedAreValid`), which in turn needs that history only
  improves.  The clause about named paths needs `PreviewedPath`; a single
  session needs that a job has a call or a session and never both
  (`CalledOnce`); and finding it again needs `CallsAccountedFor`.

  `RequestInvariant` and from it `BlameIsRight`, `GapsAreRequested` and
  `SurrenderIsRight`.  That a polling job holds a request for each gap is not
  inductive: it has to be known of the keys the first loop has visited
  already, where a gap may still be in the list of those to be requested
  (`GapsAreHeld`), a list that must be empty outside that loop
  (`NoGapLeftOver`).  A request that is held is never free again
  (`OwnAreIssued`), so its slot stays and a bad end stays bad; and no segment
  becomes missing.  Giving up is then right because a job with no request at
  all can have no gap.  The proof goes job by job: `IdleJob` for a step that
  leaves what is said of a job, `FailedJob` for one that ends it, and
  `ActiveJob` for the rest.

  `KeepsContract`: the safety part of `ImplementsContract`, `SafeSpec =>
  Contract!SafeSpec`.  `StoreInvariant` says which status and progress a job
  shows at each place of its goroutine; with it every update of the store is
  one step of `JobContract` (an advance is to a *larger* progress, an error
  comes only to a running job), a restart is its `Forget`, and every other step is a
  stutter.

  `AnswersGoForward` says from the same facts what a client that polls can count
  on, as an action property: no poll shows less progress than the one before,
  a settled job stays as it is, and one that a restart lost does not come back.
* **DebugPackageProofs.** `TypeCorrect`; `PagesAreDisjoint`: every row counted so
  far opens before the cursor, and the next page starts at the cursor, so no
  bar is counted twice; `SentIsComplete`: as many distinct expected times were
  seen as there are, and a subset of a finite set with its cardinality is the
  set; `CompleteIsServed`: while the range has stayed complete every bar before
  the cursor was read, the cursor has moved on, and no row lacks its time.
  `DownloadsReadOn`, an action property: each page that is followed by another
  moves the cursor on by at least `Step - 1` and leaves it short of the end, and
  nothing else moves it, though bars come and go.  That bounds the number of
  pages, which is the half of `DownloadEnds` that is not about fairness.
* **SessionControlProofs.** `TypeCorrect`; `SessionsFit` through `FitInv`: a session is placed where its environment fits
  the runtime's role (`Placed`), and what a request carries about it agrees
  (`Suits`); `PicksFit` from it and `Picked`: what a client took from a list has the role
  the list was asked for, and stays his choice as long as his request is about it, so
  that a mismatch can only come from another environment than the list was asked for; `StopIsTrue` and `OverIsFinal` through `OverInv`: a record
  that says over is right (`Trails`), and what a client was told or is about to be
  told is right (`Truthful`).

  `KeepsContract`: `SafeSpec => ImplementsContract`, all of it.  There are five ways a step
  can look from outside: a session starts (`Started`), it moves on or is
  over (`Moved`), its runtime ends (`Ended`), somebody is told (`Informed`), or the
  contract sees nothing (`Unseen`); each action is one of
  them.  That somebody is told what *is* so is `OverInv` again, for the two
  answers that come from a record or from a runtime's earlier word.
  `ClientsCanRely` then argues about the contract alone, so it holds of
  whatever keeps it: a client that was told a session is over can count on it, and
  nothing goes on in a runtime that was ended (`ContractInv`: a session that was
  not started has no place, and nothing is started in a closed one).
* **AuditPagingProofs.** `TypeCorrect`, `WalksAreComplete`, `RowsComeOnce`
  through `PagingInv`: paged from the oldest, the client has exactly the rows
  up to his position; paged from the newest, he has at least every old row that close
  to the end, and exactly those while the list has not grown.  One lemma covers
  any handler that answers with the page that follows the last one and says
  "no more" only at the end; each handler is shown to be of that form.

  Two action properties: `WalksMoveOn`, by which every page of a walk that goes
  on has a row and leaves one, since no request is given a limit of zero, so that only new
  rows can keep a walk from its end (`WalksEnd` without the fairness); and
  `OtherTotalsAreTrue`, which says how far the finding of section 6 reaches: `total` is
  the length of every list of a session but the events.
* **MarketDataDeskProofs.** `DeskInvariant`, and from it `TypeCorrect`,
  `PreviewsAreKept` and `ListedAreFound`.  `PreviewIsKept` compares a verdict
  with what a job finds later: what is invariant is that a verdict says what is
  *still* so (`Tells`), for the loop under way (`PreviewTells`), the sheet and
  the job's copy of it; history that only grows keeps it.  `ListedIsFound` is
  about where keys come from: what a client types is cleaned before it is stored, so it
  comes back from the display as it went in, and what a job asks for does if its
  binding was clean to begin with (`TypedAreFound`, `DeclaredAreFound`).
* **VenueWalletProofs.** `WalletInvariant`, and from it `TypeCorrect`,
  `EnvironmentsStayApart` and `FreshWalletsAddUp`.  A fresh wallet is
  `buildWalletBootstrap` of some body and its page is `accountWalletStateToJSON`
  of the wallet it shows; what remains is that the two valuations agree, asset by
  asset and position by position, on plain wallets, and sums of equal functions
  are equal.  `NewBalancesAreNested` is for any wallet whose
  spot amounts are not negative: what can be spent
  is the value of the futures, or the free money where there are none; spot is worth
  at least the free money in it, as nothing that is added to it is negative, and the value of the
  futures, of whatever sign, is on both sides.  That a sum of any number of values is a natural
  number, or a whole one, takes an induction over the assets (`SumOfNaturals`, `SumOfIntegers`).
* **RuntimeDeskProofs.** Of the requests: `RuntimeInvariant`, and from it `TypeCorrect`, `NamesDecide` and
  `ClaimsAreUnique`.  A request that waits for its lookup points at a runtime
  of the name it asked for, unless it asked for none (`LookupFits`); the last
  answer speaks of a runtime, whose name never changes; and the claim to have
  had a runtime provisioned is made by one answer or with one request under way
  (`ClaimedOnce`).

  Of the list: `WalksStayInOrder` and `TotalsAreTrue`, from typing, for a
  registry of any length.  `Selected` is a recursive function, of which an
  induction over the places of its sequence says that it goes place by place
  (`SelectedByPlaces`): so it is decided by the rows it is given (`SelectsAlike`), and what it
  selects of a sequence in two parts is what it selects of each (`SelectedConcat`), whence
  a beginning yields a beginning (`SelectedBeginning`).  A walk is followed page by page
  (`WalkedPageByPage`).  What holds after each page is that the client has a
  beginning of what fits and, as long as it is told there is more, that the
  filter has dropped none of the rows up to there (`Untouched`), so the number it has got
  is the offset of the next page (`NextPage`).  It is the reason why
  `has_more` must be withdrawn once a row is dropped.  A page with more to come
  has a row, so the walk ends within as many pages as there are rows.
* **InductionLemmas.** `Induction` and `SubsetInduction` follow from the library's facts on
  well-founded relations and cardinality.  They speak of a *set* of numbers, or of sets, the
  ones a claim holds of, and so can be cited without an operator as a
  parameter.  From them: that functions given by iteration and folds over a finite
  set exist (`IterationExists`, `FoldExists`), and that a sum of a function's values
  stays in any set that is closed under adding them (`SumIn`).

Only model-checked: the liveness properties (`JobsSettle`, `PollingNotices`,
`DownloadEnds`, `EndedRuntimeReleases`, `WalksEnd`, `GapsGoAway`) and with them
the fairness half of `DownloadRun`'s `ImplementsContract`, which are beyond the prover.
Every invariant and every action property that a run checks and that holds is
proved, for all values of the constants.

## 5. Do the properties notice?

Each property is broken by a slip in the definition it is written for, in the same module:

| slip | in place of | breaks |
|---|---|---|
| `BugReachAdds` adds to the progress | `Reach` | `TypeOK` |
| `BugValidateFirst` runs after the first valid key | `ValidateCoverage` | `SessionsAreCovered` |
| `BugCreateForgets` does not keep the request's id | `CreateRequest` | `GivesUpWithNothingToDownload` |
| `BugFailOnAny` does not filter by own requests | `failOnHistoricalRequestError` | `BlamesOwnRequest` |
| `BugNextKeyEarly` leaves segments unrequested | `NextKey` | `EveryGapIsRequested` |
| `BugRpcRetries` retries RunStrategy | `RpcError` | `OneSessionPerJob` |
| `BugFailResets` sets the progress to 0 | `Fail` | `SessionsAccountedFor` |
| `BugNextKeyBackwards` lets the progress fall | `NextKey` | `ImplementsContract` |
| `BugNoDeadline` arms no deadline | `Expire` | `JobsSettle` |
| `BugFailIgnoresCancel` looks for errors alone | `failOnHistoricalRequestError` | `PollingNotices` |
| `BugAcceptAnyRange` does not check the range | `handleAccountDebugPackage` | `TypeOK` |
| `BugSendUnchecked` skips the row check | `validateDebugPackageKlineRows` | `PackageIsComplete` |
| `BugCursorAtOpen` goes on from the open time | `cursorFromKline` | `NoBarTwice` |
| `BugCursorFromKline` goes on one tick late | `cursorFromKline` | `NoFalseAlarm` |
| `BugQueryNeverStuck` drops the check of the cursor | `QueryKlines` | `DownloadEnds` |
| `BugLoadUnbound` drops the check that the session was found | `loadSessionForRuntimeRoute` | `TypeOK` |
| `BugStoppingIsTerminal` counts stopping as over | `strategySessionTerminal` | `StoppedMeansStopped` |
| `BugAlwaysExecutor` asks an executor's route for backtests | `RouteRole` | `SessionsFitTheirRuntime` |
| `BugMatchesAnyEnvironment` ignores the environment | `runtimeMatchesSelectionEligibility` | `PicksAreNotRefused` |
| `BugAnswerFromRecord` falls back to the record | `UpstreamError` | `NoResurrection` |
| `BugStopIsOver` tells who stops that it is over | `handleStopStrategy` | `ImplementsContract` |
| `BugRecoverableIsNot` does not count recoverable as over | `strategySessionTerminal` | `EndedRuntimeReleases` |
| `BugNextIsLimit` adds the limit to the offset | `nextOffset` | `TypeOK` |
| `BugNoClamp` lets any limit through | `parseAuditListPaging` | `WalkIsComplete` |
| `BugNoAlias` reads the cursor from one parameter only | `parseLifecycleEventPaging` | `ListedOnce` |
| `BugMoreAtTheEnd` says more at the end | `hasMore` | `WalksEnd` |
| `BugKeepsGaps` leaves a preview's gaps behind | `EndPreview` | `TypeOK` |
| `BugAutoUnlessComplete` offers the download of what cannot be had | `CanAutoDownload` | `PreviewIsKept` |
| `BugQueryAsWritten` does not translate the market | `parseCoverageQuery` | `ListedIsFound` |
| `BugBindingAsWritten` does not translate it either | `marketDataKeyFromLiveBinding` | `GapsGoAway` |
| `BugModeAsTyped` has no default margin mode | `venueMarginModeCode` | `TypeOK` |
| `BugKeysAnywhere` lets a backtest venue have credentials | `FitsEnvironment` | `EnvironmentsApart` |
| `BugSumsMargins` counts the account's money and the margins | `futuresBootstrapValue` | `FreshWalletAddsUp` |
| `BugSpotIsAvailable` lets spot money back futures | `AvailableBalance` | `BalancesNest` |
| `BugFoundNoId` loses the id of the answer | `Found` | `TypeOK` |
| `BugMoreAsListed` keeps `has_more` of an unfiltered page | `RuntimeList` | `WalksAreInOrder` |
| `BugTotalAsListed` keeps its total | `RuntimeList` | `TotalsCountTheOffered` |
| `BugNameAsTyped` does not trim the name | `TrimSpace` | `AnswersFitTheName` |
| `BugAlwaysProvisioned` claims every runtime it finds | `Provisioned` | `ProvisionedOnce` |

## 6. What was found

`paging_total`: the comment on the paging contract (`session_history.go` 16-21)
says that every session-scoped list answers `total`, "the session-wide count
regardless of page", which the frontend's pager uses.  Lifecycle events answer
`"total": 0` on every page (688), however many there are.

Seen while modelling, and not the matter of a run, since the source nowhere says
otherwise or no state is involved:

* `README.md` 50-51 says that `GET /api/_debug/runtime-route` answers 410, but the
  routes (`app.go` 109-141) have no such entry.
* The picker offers no runtime for environment 2, live (`runtime_management.go` 404-430),
  though the route's policy takes an executor there as in environment 1 (`strategy_route.go` 67-72).
* A stream that a job asked for with an unclean binding is listed under a key that is not
  its own, by which no page finds it.
* Negative amounts of a wallet are accepted and taken into the total.

## 7. Assumptions about what is not in the repository

* The plane's history of a segment only improves while a job runs (`Better`);
  `SessionsAreCovered` would fail otherwise, since inputs are validated one after
  the other.  `DebugPackage` does *not* assume it: there bars may be dropped.
* CreateMarketDataRequest is an upsert: it answers a new request, an open one
  for the same slot, or none if the slot is no longer missing.  A closed
  request is not reused.
* ListMarketDataRequests, called without a limit (306), answers with all of the
  user's requests.
* A successful RunStrategy answers with a session id.  The profile in the
  preview is the service's answer and may be anything.
* Pages of klines are the first rows of the range in order, and an empty one
  means an empty range.  A row with one of its times has the right one.
* The range of a package starts on the bar grid where `NoFalseAlarm` is
  concerned: one off the grid expects bars that do not exist and is refused.
* core-service's record of a session may lag behind but never runs ahead, and
  says recoverable only after the runtime has ended.  `completed` and `failed`
  are folded into `finished`; `stop_failed` is not a status of the model, since
  nothing in the repository says what such a session still does.
* Rows are only ever added to a list.  Collections are filtered by what may change (a
  session's status, archived, revoked: 189, `venues.go` 227-234), and a row that leaves one
  between two pages makes an offset skip another; no client of the gateway can tell.
* A page and the total beside it are read at once; core-service's own maximum is
  no smaller than the gateway's (`PagingAssumption`); event ids become visible
  in their order.
* In `MarketDataDesk` the plane takes keys literally and its history only grows; a request for
  a key with an open one is the same request.  A key that is complete has no reason
  not to be downloadable (`NotDownloadable`): the gateway reads the two fields
  independently of one another (`backtest_coverage.go` 153-158), and with both set a
  preview could say complete and the job be refused.
* core-service stores a new wallet as it is sent and has not measured it.
* control-panel-service has one slot for a hosted runtime per user
  (`runtime_management_test.go` 312-331, 409), compares names literally, gives
  the runtime in the slot to who asks for it by name (`client.go` 142-144) and
  generates a name for who asks for none (`client.go` 28-30).

## 8. Not modelled, and the plan

The order so far was by weight: the jobs (the only state and concurrency the
process has of its own), then the package, sessions and lists; then, of the
first plan, the proofs about requests and the contract, runtimes, the
coverage preview, wallets and the creation of venues.  What is left:

1. The parsing of an interval (`debug_package.go` 246-270) over a small word, where
   a large amount wraps.
2. `Gateway`: which routes exist under which configuration (`app.go` 109-141) and
   the token's life.  It is a table rather than a behaviour.

Not planned, because they keep no state and only forward one call and reshape
its answer: the strategy registry and mounts, notifications, the debugger, the
debug workspace, admission failures, issuing and revoking credentials, binding,
releasing and archiving a venue, the rest of the control-panel client, labels, logging,
parquet and zip writing.  What such a call changes is core-service's or
control-panel-service's, whose rules are not in this repository.  Also left
out: `walletagg.TotalValue`, which only a test calls, and
`FuturesWalletBalanceAndAvailable`, which nothing calls; and the truncation of `limit` and
`offset` to 32 bits in the list of runtimes.

## 9. Running it

In this directory: `tlc -config MCDownloadRun_one.cfg MCDownloadRun`, and likewise
for the other `.cfg` files, each named after its MC module; `tlapm
DownloadRunProofs.tla`, and likewise for the other `...Proofs` modules.  The
largest runs, `MCSessionControl_safe.cfg` among them (1.6 million distinct states), take one to three minutes each.
