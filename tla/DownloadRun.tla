---------------------------- MODULE DownloadRun ----------------------------
(***************************************************************************)
(* The download-and-run job of the BFF: POST .../download-and-run records  *)
(* a job in an in-memory store and starts a goroutine that previews the    *)
(* strategy, asks the market-data plane for the history its declared       *)
(* inputs lack, polls until that history validates, and then runs the      *)
(* strategy.  Every call that leaves the process is two steps here, the    *)
(* call and its answer, so anything may happen in between: a user cancels  *)
(* a request, another job asks for the same data, the active strategy is   *)
(* switched, the 30 minute deadline passes, the BFF restarts.              *)
(*                                                                         *)
(* The market-data plane and the strategy service are not in this          *)
(* repository; the section "outside" holds what the BFF's use of them      *)
(* lets them do.                                                           *)
(***************************************************************************)
EXTENDS Naturals, FiniteSets

CONSTANTS
  Jobs,            \* job ids the store can issue
  Keys,            \* stream keys (exchange, market, kind, symbol, interval)
  Segments,        \* the pieces a key's requested time range splits into
  Requests,        \* ids of market-data requests
  Sessions,        \* ids of strategy sessions
  Strategies,      \* strategies an account can run
  Inputs,          \* the keys each strategy declares
  Undownloadable,  \* keys for which coverage reports a non_downloadable_reason
  ActivePath,      \* strategy_path "": run whatever strategy is active
  NoSession,       \* the empty session_id
  NoJob, NoSlot, NoStrategy,
  MaxRestarts      \* bound: restarts of the BFF

ASSUME DownloadRunAssumption ==
  /\ Inputs \in [Strategies -> SUBSET Keys]
  /\ Undownloadable \subseteq Keys
  /\ ActivePath \notin Strategies
  /\ NoStrategy \notin Strategies
  /\ NoSession \notin Sessions
  /\ NoJob \notin Jobs
  /\ NoSlot \notin Keys \X Segments
  /\ MaxRestarts \in Nat

VARIABLES
  \* the BFF: the job store, and the locals of each job's goroutine
  status,      \* downloadRunJobStore.jobs, one function per field of a job:
  progress,    \*   its status, progress in percent, session_id and error
  sessionID,
  error,
  pc,          \* where the goroutine of a job is
  path,        \* strategy_path of the submitted body
  declared,    \* declared inputs the preview returned
  todo,        \* declared inputs the current loop has still to visit
  missing,     \* missing segments of the current key still to be requested
  own,         \* requestIDs
  expired,     \* the job's context is past its deadline
  restarts,
  \* outside: the market-data plane and the strategy service
  seg,         \* how good the stored history of each key and segment is
  reqSlot,     \* the key and segment a request is for
  reqStatus,   \* status of a request
  active,      \* the account's active strategy
  sent,        \* jobs whose RunStrategy call the service has yet to act on
  owner,       \* the job that started a session
  code         \* the strategy a session runs

store     == <<status, progress, sessionID, error>>
goroutine == <<pc, path, declared, todo, missing, own, expired>>
plane     == <<seg, reqSlot, reqStatus>>
service   == <<active, sent, owner, code>>
vars      == <<store, goroutine, restarts, plane, service>>

Slots == Keys \X Segments
Paths == Strategies \cup {ActivePath}

\* Goroutine positions, named for the call whose answer is awaited.
RpcWaits == {"preview", "query", "create", "validate", "list", "run"}
Polling  == {"validate", "list", "wait"}
Alive    == RpcWaits \cup {"start", "wait"}

Statuses == {"absent", "pending", "running", "ready", "error"}
Reasons  == {"", "rpc", "deadline", "profile", "no inputs", "not downloadable",
             "not validated", "request"}
Bad      == {"error", "cancelled"}

-----------------------------------------------------------------------------
(* What the plane answers.  A segment is missing, stored but not passing   *)
(* validation ("loaded"), or valid.                                        *)

MissingOf(k) == {s \in Segments : seg[<<k, s>>] = "missing"}
KeyValid(k)  == \A s \in Segments : seg[<<k, s>>] = "valid"
Covered(K)   == \A k \in K : KeyValid(k)

\* QueryMarketDataCoverage's non_downloadable_reason is not empty.
NotDownloadable(k) == k \in Undownloadable /\ MissingOf(k) # {}

\* Job j awaits the answer of a call.
InCall(j) == pc[j] \in RpcWaits /\ (pc[j] = "create" => missing[j] # {})

\* An own request that ended badly.
Broken(j) == \E r \in own[j] : reqStatus[r] \in Bad

\* The strategy an empty path stands for is looked up when the call is served.
Resolve(p) == IF p = ActivePath THEN active ELSE p

-----------------------------------------------------------------------------
Init ==
  /\ status = [j \in Jobs |-> "absent"]
  /\ progress = [j \in Jobs |-> 0]
  /\ sessionID = [j \in Jobs |-> NoSession]
  /\ error = [j \in Jobs |-> ""]
  /\ pc = [j \in Jobs |-> "off"]
  /\ path = [j \in Jobs |-> ActivePath]
  /\ declared = [j \in Jobs |-> {}]
  /\ todo = [j \in Jobs |-> {}]
  /\ missing = [j \in Jobs |-> {}]
  /\ own = [j \in Jobs |-> {}]
  /\ expired = [j \in Jobs |-> FALSE]
  /\ restarts = 0
  /\ seg \in [Slots -> {"missing", "loaded", "valid"}]
  /\ reqSlot = [r \in Requests |-> NoSlot]
  /\ reqStatus = [r \in Requests |-> "free"]
  /\ active \in Strategies
  /\ sent = {}
  /\ owner = [x \in Sessions |-> NoJob]
  /\ code = [x \in Sessions |-> NoStrategy]

-----------------------------------------------------------------------------
(* The BFF.                                                                *)

\* Every definition called Bug... is a slip one could make in the definition
\* after it; README.md says which property each of them breaks.

BugReachAdds(j, p) ==
  /\ progress' = [progress EXCEPT ![j] = @ + p]
  /\ UNCHANGED <<status, sessionID, error>>

\* store.update of one job's progress.
Reach(j, p) ==
  /\ progress' = [progress EXCEPT ![j] = p]
  /\ UNCHANGED <<status, sessionID, error>>

Goto(j, l) == pc' = [pc EXCEPT ![j] = l]

BugFailResets(j, why) ==
  /\ status' = [status EXCEPT ![j] = "error"]
  /\ error' = [error EXCEPT ![j] = why]
  /\ progress' = [progress EXCEPT ![j] = 0]
  /\ Goto(j, "done")
  /\ UNCHANGED sessionID

\* fail(err), and the goroutine returns.
Fail(j, why) ==
  /\ status' = [status EXCEPT ![j] = "error"]
  /\ error' = [error EXCEPT ![j] = why]
  /\ Goto(j, "done")
  /\ UNCHANGED <<progress, sessionID>>

\* POST download-and-run with a valid body and a runtime that routes.  The
\* requests it rejects change nothing.
handleDownloadAndRun(j, p) ==
  /\ pc[j] = "off"
  /\ status' = [status EXCEPT ![j] = "pending"]
  /\ path' = [path EXCEPT ![j] = p]
  /\ Goto(j, "start")
  /\ UNCHANGED <<progress, sessionID, error, declared, todo, missing, own, expired, restarts, plane, service>>

\* The goroutine marks the job running, arms the deadline and calls Preview.
StartJob(j) ==
  /\ pc[j] = "start"
  /\ status' = [status EXCEPT ![j] = "running"]
  /\ progress' = [progress EXCEPT ![j] = 5]
  /\ Goto(j, "preview")
  /\ UNCHANGED <<sessionID, error, path, declared, todo, missing, own, expired, restarts, plane, service>>

\* A preview with the backtest profile and at least one declared input.
PreviewAccepted(j) ==
  LET st == Resolve(path[j]) IN
  /\ pc[j] = "preview" /\ ~expired[j]
  /\ Inputs[st] # {}
  /\ declared' = [declared EXCEPT ![j] = Inputs[st]]
  /\ todo' = [todo EXCEPT ![j] = Inputs[st]]
  /\ Reach(j, 15)
  /\ Goto(j, "query")
  /\ UNCHANGED <<path, missing, own, expired, restarts, plane, service>>

\* The profile is the service's answer; it need not be "backtest".
PreviewRejected(j) ==
  /\ pc[j] = "preview" /\ ~expired[j]
  /\ \/ Fail(j, "profile")
     \/ Inputs[Resolve(path[j])] = {} /\ Fail(j, "no inputs")
  /\ UNCHANGED <<path, declared, todo, missing, own, expired, restarts, plane, service>>

\* QueryMarketDataCoverage answers for the next declared key.
QueryCoverage(j, k) ==
  /\ pc[j] = "query" /\ ~expired[j]
  /\ k \in todo[j]
  /\ IF NotDownloadable(k)
     THEN Fail(j, "not downloadable") /\ UNCHANGED <<todo, missing>>
     ELSE /\ todo' = [todo EXCEPT ![j] = @ \ {k}]
          /\ missing' = [missing EXCEPT ![j] = {k} \X MissingOf(k)]
          /\ Goto(j, "create")
          /\ UNCHANGED store
  /\ UNCHANGED <<path, declared, own, expired, restarts, plane, service>>

\* What CreateMarketDataRequest, an upsert, may do with slot c and answer: a
\* new request, an open one for the same slot, or (c was stored meanwhile)
\* no request at all, which the caller sees as id 0.
Upsert(c, ids) ==
  \/ \E r \in Requests :
       /\ reqStatus[r] = "free"
       /\ reqStatus' = [reqStatus EXCEPT ![r] = "open"]
       /\ reqSlot' = [reqSlot EXCEPT ![r] = c]
       /\ ids = {r}
  \/ \E r \in Requests :
       /\ reqStatus[r] = "open" /\ reqSlot[r] = c
       /\ ids = {r}
       /\ UNCHANGED <<reqSlot, reqStatus>>
  \/ /\ seg[c] # "missing"
     /\ ids = {}
     /\ UNCHANGED <<reqSlot, reqStatus>>

BugCreateForgets(j, c) ==
  /\ pc[j] = "create" /\ ~expired[j]
  /\ c \in missing[j]
  /\ \E ids \in SUBSET Requests : Upsert(c, ids)
  /\ missing' = [missing EXCEPT ![j] = @ \ {c}]
  /\ UNCHANGED <<store, pc, path, declared, todo, own, expired, restarts, seg, service>>

CreateRequest(j, c) ==
  /\ pc[j] = "create" /\ ~expired[j]
  /\ c \in missing[j]
  /\ \E ids \in SUBSET Requests :
       /\ Upsert(c, ids)
       /\ own' = [own EXCEPT ![j] = @ \cup ids]
  /\ missing' = [missing EXCEPT ![j] = @ \ {c}]
  /\ UNCHANGED <<store, pc, path, declared, todo, expired, restarts, seg, service>>

BugNextKeyEarly(j) ==
  /\ pc[j] = "create"
  /\ IF todo[j] # {}
     THEN Goto(j, "query") /\ UNCHANGED <<store, todo>>
     ELSE /\ Reach(j, 35)
          /\ Goto(j, "validate")
          /\ todo' = [todo EXCEPT ![j] = declared[j]]
  /\ UNCHANGED <<path, declared, missing, own, expired, restarts, plane, service>>

BugNextKeyBackwards(j) ==
  /\ pc[j] = "create" /\ missing[j] = {}
  /\ IF todo[j] # {}
     THEN Goto(j, "query") /\ UNCHANGED <<store, todo>>
     ELSE /\ Reach(j, 5)
          /\ Goto(j, "validate")
          /\ todo' = [todo EXCEPT ![j] = declared[j]]
  /\ UNCHANGED <<path, declared, missing, own, expired, restarts, plane, service>>

\* The inner loop is over: on to the next key, or to the validation loop.
NextKey(j) ==
  /\ pc[j] = "create" /\ missing[j] = {}
  /\ IF todo[j] # {}
     THEN Goto(j, "query") /\ UNCHANGED <<store, todo>>
     ELSE /\ Reach(j, 35)
          /\ Goto(j, "validate")
          /\ todo' = [todo EXCEPT ![j] = declared[j]]
  /\ UNCHANGED <<path, declared, missing, own, expired, restarts, plane, service>>

BugValidateFirst(j, k) ==
  /\ pc[j] = "validate" /\ ~expired[j]
  /\ k \in todo[j]
  /\ \/ ~KeyValid(k) /\ own[j] = {} /\ Fail(j, "not validated") /\ UNCHANGED sent
     \/ ~KeyValid(k) /\ own[j] # {} /\ Goto(j, "list") /\ UNCHANGED <<store, sent>>
     \/ KeyValid(k) /\ Reach(j, 90) /\ sent' = sent \cup {j} /\ Goto(j, "run")
  /\ UNCHANGED <<path, declared, todo, missing, own, expired, restarts, plane, active, owner, code>>

\* ValidateMarketDataCoverage answers for the next declared key.  The first
\* key that is not ok ends the round; with no request to wait for it ends the
\* job.  After the last key that is ok the job calls RunStrategy.
ValidateCoverage(j, k) ==
  /\ pc[j] = "validate" /\ ~expired[j]
  /\ k \in todo[j]
  /\ \/ /\ ~KeyValid(k) /\ own[j] = {}
        /\ Fail(j, "not validated")
        /\ UNCHANGED <<todo, sent>>
     \/ /\ ~KeyValid(k) /\ own[j] # {}
        /\ Goto(j, "list")
        /\ UNCHANGED <<store, todo, sent>>
     \/ /\ KeyValid(k) /\ todo[j] # {k}
        /\ todo' = [todo EXCEPT ![j] = @ \ {k}]
        /\ UNCHANGED <<store, pc, sent>>
     \/ /\ KeyValid(k) /\ todo[j] = {k}
        /\ todo' = [todo EXCEPT ![j] = {}]
        /\ Reach(j, 90)
        /\ sent' = sent \cup {j}
        /\ Goto(j, "run")
  /\ UNCHANGED <<path, declared, missing, own, expired, restarts, plane, active, owner, code>>

BugFailOnAny(j) ==
  /\ pc[j] = "list" /\ ~expired[j]
  /\ IF \E r \in Requests : reqStatus[r] \in Bad
     THEN Fail(j, "request")
     ELSE Goto(j, "wait") /\ UNCHANGED store
  /\ UNCHANGED <<path, declared, todo, missing, own, expired, restarts, plane, service>>

BugFailIgnoresCancel(j) ==
  /\ pc[j] = "list" /\ ~expired[j]
  /\ IF \E r \in own[j] : reqStatus[r] = "error"
     THEN Fail(j, "request")
     ELSE Goto(j, "wait") /\ UNCHANGED store
  /\ UNCHANGED <<path, declared, todo, missing, own, expired, restarts, plane, service>>

\* ListMarketDataRequests answers with the user's requests.
failOnHistoricalRequestError(j) ==
  /\ pc[j] = "list" /\ ~expired[j]
  /\ IF Broken(j) THEN Fail(j, "request") ELSE Goto(j, "wait") /\ UNCHANGED store
  /\ UNCHANGED <<path, declared, todo, missing, own, expired, restarts, plane, service>>

\* The 2 second ticker.  Once the deadline has passed too, select may still
\* pick the ticker.
Tick(j) ==
  /\ pc[j] = "wait"
  /\ todo' = [todo EXCEPT ![j] = declared[j]]
  /\ Goto(j, "validate")
  /\ UNCHANGED <<store, path, declared, missing, own, expired, restarts, plane, service>>

\* RunStrategy's answer arrives with the session it started.
RunReply(j) ==
  /\ pc[j] = "run" /\ ~expired[j]
  /\ \E x \in Sessions :
       /\ owner[x] = j
       /\ sessionID' = [sessionID EXCEPT ![j] = x]
  /\ status' = [status EXCEPT ![j] = "ready"]
  /\ progress' = [progress EXCEPT ![j] = 100]
  /\ error' = [error EXCEPT ![j] = ""]
  /\ Goto(j, "done")
  /\ UNCHANGED <<path, declared, todo, missing, own, expired, restarts, plane, service>>

BugRpcRetries(j) ==
  /\ InCall(j) /\ ~expired[j]
  /\ IF pc[j] = "run"
     THEN sent' = sent \cup {j} /\ UNCHANGED <<store, pc>>
     ELSE Fail(j, "rpc") /\ UNCHANGED sent
  /\ UNCHANGED <<path, declared, todo, missing, own, expired, restarts, plane, active, owner, code>>

\* A call fails: refused, or its answer is lost.  A lost answer to RunStrategy
\* or CreateMarketDataRequest says nothing of what the callee did.
RpcError(j) ==
  /\ InCall(j) /\ ~expired[j]
  /\ Fail(j, "rpc")
  /\ UNCHANGED <<path, declared, todo, missing, own, expired, restarts, plane, service>>

BugNoDeadline(j) == FALSE

\* The 30 minutes are over ...
Expire(j) ==
  /\ pc[j] \in Alive \ {"start"} /\ ~expired[j]
  /\ expired' = [expired EXCEPT ![j] = TRUE]
  /\ UNCHANGED <<store, pc, path, declared, todo, missing, own, restarts, plane, service>>

\* ... and the call in progress, or the select, returns the context's error.
DeadlineError(j) ==
  /\ InCall(j) \/ pc[j] = "wait"
  /\ expired[j]
  /\ Fail(j, "deadline")
  /\ UNCHANGED <<path, declared, todo, missing, own, expired, restarts, plane, service>>

\* The BFF restarts: the store and every goroutine are gone.  path and
\* declared of a lost job are kept as history for the properties.
Restart ==
  /\ restarts < MaxRestarts
  /\ restarts' = restarts + 1
  /\ status' = [j \in Jobs |-> "absent"]
  /\ progress' = [j \in Jobs |-> 0]
  /\ sessionID' = [j \in Jobs |-> NoSession]
  /\ error' = [j \in Jobs |-> ""]
  /\ pc' = [j \in Jobs |-> IF pc[j] = "off" THEN "off" ELSE "lost"]
  /\ todo' = [j \in Jobs |-> {}]
  /\ missing' = [j \in Jobs |-> {}]
  /\ own' = [j \in Jobs |-> {}]
  /\ UNCHANGED <<path, declared, expired, plane, service>>

\* DELETE /api/market-data/requests/{id}, by the user, of any open request.
cancelMarketDataRequest(r) ==
  /\ reqStatus[r] = "open"
  /\ reqStatus' = [reqStatus EXCEPT ![r] = "cancelled"]
  /\ UNCHANGED <<store, goroutine, restarts, seg, reqSlot, service>>

\* POST /api/market-data/requests with scope historical, by the user.
createMarketDataRequest(c) ==
  /\ \E ids \in SUBSET Requests : Upsert(c, ids)
  /\ UNCHANGED <<store, goroutine, restarts, seg, service>>

-----------------------------------------------------------------------------
(* Outside.                                                                *)

\* A segment's history only gets better.
Better(q) == {b \in {"loaded", "valid"} : q = "missing" \/ (q = "loaded" /\ b = "valid")}

\* The plane stores or repairs a segment for reasons of its own.
Ingest(c) ==
  /\ \E q \in Better(seg[c]) : seg' = [seg EXCEPT ![c] = q]
  /\ UNCHANGED <<store, goroutine, restarts, reqSlot, reqStatus, service>>

\* A download ends; what it stored need not validate.
CompleteRequest(r) ==
  /\ reqStatus[r] = "open"
  /\ reqStatus' = [reqStatus EXCEPT ![r] = "done"]
  /\ \E q \in Better(seg[reqSlot[r]]) \cup ({seg[reqSlot[r]]} \ {"missing"}) :
       seg' = [seg EXCEPT ![reqSlot[r]] = q]
  /\ UNCHANGED <<store, goroutine, restarts, reqSlot, service>>

FailRequest(r) ==
  /\ reqStatus[r] = "open"
  /\ reqStatus' = [reqStatus EXCEPT ![r] = "error"]
  /\ UNCHANGED <<store, goroutine, restarts, seg, reqSlot, service>>

\* A create call that fails at its caller may have been carried out.
CreateLost(j, c) ==
  /\ pc[j] = "create" /\ c \in missing[j]
  /\ \E ids \in SUBSET Requests : Upsert(c, ids)
  /\ Fail(j, IF expired[j] THEN "deadline" ELSE "rpc")
  /\ UNCHANGED <<path, declared, todo, missing, own, expired, restarts, seg, service>>

\* The service acts on a RunStrategy call, whether or not the caller waits.
StartSession(j, x) ==
  /\ j \in sent
  /\ owner[x] = NoJob
  /\ sent' = sent \ {j}
  /\ owner' = [owner EXCEPT ![x] = j]
  /\ code' = [code EXCEPT ![x] = Resolve(path[j])]
  /\ UNCHANGED <<store, goroutine, restarts, plane, active>>

\* The user activates another strategy on the account.
Activate(st) ==
  /\ active # st
  /\ active' = st
  /\ UNCHANGED <<store, goroutine, restarts, plane, sent, owner, code>>

-----------------------------------------------------------------------------
JobStep(j) ==
  \/ \E p \in Paths : handleDownloadAndRun(j, p)
  \/ StartJob(j) \/ PreviewAccepted(j) \/ PreviewRejected(j)
  \/ \E k \in Keys : QueryCoverage(j, k) \/ ValidateCoverage(j, k)
  \/ \E c \in Slots : CreateRequest(j, c) \/ CreateLost(j, c)
  \/ NextKey(j) \/ failOnHistoricalRequestError(j) \/ Tick(j) \/ RunReply(j)
  \/ RpcError(j) \/ Expire(j) \/ DeadlineError(j)
  \/ \E x \in Sessions : StartSession(j, x)

Next ==
  \/ \E j \in Jobs : JobStep(j)
  \/ \E r \in Requests : cancelMarketDataRequest(r) \/ CompleteRequest(r) \/ FailRequest(r)
  \/ \E c \in Slots : createMarketDataRequest(c) \/ Ingest(c)
  \/ \E st \in Strategies : Activate(st)
  \/ Restart

\* Go schedules a runnable goroutine, the 30 minute timer fires, and a call
\* whose context is over returns.  No callee is assumed to answer.
Fairness ==
  \A j \in Jobs : /\ WF_vars(StartJob(j))
                  /\ WF_vars(NextKey(j))
                  /\ WF_vars(Expire(j))
                  /\ WF_vars(DeadlineError(j))

SafeSpec == Init /\ [][Next]_vars

Spec == SafeSpec /\ Fairness

\* The callees answer and the ticker ticks, but the deadline need never pass.
Answering ==
  \A j \in Jobs : /\ WF_vars(Tick(j))
                  /\ WF_vars(failOnHistoricalRequestError(j))
                  /\ WF_vars(\E k \in Keys : ValidateCoverage(j, k))
                  /\ WF_vars(\E x \in Sessions : StartSession(j, x))
                  /\ WF_vars(RunReply(j))
                  /\ WF_vars(DeadlineError(j))

AnsweringSpec == SafeSpec /\ Answering

-----------------------------------------------------------------------------
(* Properties.                                                             *)

\* The shape of the state.
TypeOK ==
  /\ status \in [Jobs -> Statuses]
  /\ progress \in [Jobs -> {0, 5, 15, 35, 90, 100}]
  /\ sessionID \in [Jobs -> Sessions \cup {NoSession}]
  /\ error \in [Jobs -> Reasons]
  /\ pc \in [Jobs -> Alive \cup {"off", "done", "lost"}]
  /\ path \in [Jobs -> Paths]
  /\ declared \in [Jobs -> SUBSET Keys]
  /\ todo \in [Jobs -> SUBSET Keys]
  /\ missing \in [Jobs -> SUBSET Slots]
  /\ own \in [Jobs -> SUBSET Requests]
  /\ expired \in [Jobs -> BOOLEAN]
  /\ restarts \in 0..MaxRestarts
  /\ seg \in [Slots -> {"missing", "loaded", "valid"}]
  /\ reqSlot \in [Requests -> Slots \cup {NoSlot}]
  /\ reqStatus \in [Requests -> {"free", "open", "done"} \cup Bad]
  /\ active \in Strategies
  /\ sent \subseteq Jobs
  /\ owner \in [Sessions -> Jobs \cup {NoJob}]
  /\ code \in [Sessions -> Strategies \cup {NoStrategy}]

\* A session a job started never runs on history with a hole: every input the
\* preview declared is valid in full, and unless the path was left empty these
\* are the inputs of the strategy that runs (the wait loop guards the run, 214).
SessionsAreCovered ==
  \A x \in Sessions : owner[x] # NoJob =>
    LET j == owner[x] IN
    /\ Covered(declared[j])
    /\ path[j] # ActivePath => Inputs[code[x]] \subseteq declared[j]

\* A job starts at most one session, whatever calls fail or are answered late
\* (RunStrategy is called once and never retried, 220-233).
OneSessionPerJob ==
  \A x, y \in Sessions : owner[x] # NoJob /\ owner[x] = owner[y] => x = y

\* A job that failed while RunStrategy was under way.
FailedInRun(j) ==
  status[j] = "error" /\ progress[j] = 90 /\ error[j] \in {"rpc", "deadline"}

\* Every session of a job is found again: the ready job names it, or the job
\* is still waiting for the answer, or it failed in that very call (progress
\* is then 90), or the restart lost the job.  No job names another's session.
SessionsAccountedFor ==
  /\ \A x \in Sessions : owner[x] # NoJob =>
       LET j == owner[x] IN
       \/ status[j] = "ready" /\ sessionID[j] = x
       \/ pc[j] = "run"
       \/ FailedInRun(j)
       \/ pc[j] = "lost"
  /\ \A j \in Jobs : status[j] = "ready" =>
       \E x \in Sessions : sessionID[j] = x /\ owner[x] = j

\* A job that blames a request blames one it waits for, and that request did
\* end in error or was cancelled (the requestIDs filter, 310-322).
BlamesOwnRequest ==
  \A j \in Jobs : error[j] = "request" => Broken(j)

\* While a job polls, it holds a request for every segment its inputs still
\* miss, and it never sleeps with nothing to wait for (242-276, 289-291).
EveryGapIsRequested ==
  \A j \in Jobs : pc[j] \in Polling =>
    /\ pc[j] \in {"list", "wait"} => own[j] # {}
    /\ \A k \in declared[j] : \A s \in MissingOf(k) :
         \E r \in own[j] : reqSlot[r] = <<k, s>>

\* "market-data coverage validation failed" (290) is said only when there is
\* nothing left to download: the history is all stored but does not validate.
GivesUpWithNothingToDownload ==
  \A j \in Jobs : error[j] = "not validated" =>
    \A k \in declared[j] : MissingOf(k) = {}

-----------------------------------------------------------------------------
(* Why sessions are covered, single and accounted for: an invariant that   *)
(* every step preserves.                                                   *)

\* Keys the current validation round has visited are valid.
VisitedAreValid ==
  \A j \in Jobs : pc[j] = "validate" => Covered(declared[j] \ todo[j])

\* A call of RunStrategy is only made, and stays, over covered inputs.
CallsAreCovered ==
  \A j \in Jobs : pc[j] = "run" \/ j \in sent => Covered(declared[j])

\* Past the preview of a named path, its inputs are the declared ones.
PreviewedPath ==
  \A j \in Jobs :
    /\ path[j] # ActivePath
    /\ j \in sent \/ pc[j] \in {"query", "create", "run"} \cup Polling
    => declared[j] = Inputs[path[j]]

\* Only a job that reached RunStrategy has a call or a session, never both.
CalledOnce ==
  /\ \A j \in sent : pc[j] \in {"run", "done", "lost"}
  /\ \A x \in Sessions : owner[x] # NoJob =>
       owner[x] \notin sent /\ pc[owner[x]] \in {"run", "done", "lost"}

CallsAccountedFor ==
  /\ \A j \in sent : pc[j] = "run" \/ FailedInRun(j) \/ pc[j] = "lost"
  /\ \A j \in Jobs : pc[j] = "run" => progress[j] = 90

SessionInv ==
  /\ VisitedAreValid
  /\ CallsAreCovered
  /\ PreviewedPath
  /\ CalledOnce
  /\ CallsAccountedFor
  /\ SessionsAreCovered
  /\ OneSessionPerJob
  /\ SessionsAccountedFor

-----------------------------------------------------------------------------
(* Why gaps are requested, and why blame and surrender are right: another  *)
(* invariant that every step preserves.                                    *)

\* A request someone holds is never free again, so its slot stays.
OwnAreIssued == \A j \in Jobs : \A r \in own[j] : reqStatus[r] # "free"

\* Gaps are only left to be requested in the loop that requests them.
NoGapLeftOver ==
  \A j \in Jobs : pc[j] \in {"off", "start", "preview", "query"} \cup Polling => missing[j] = {}

\* Job j has seen the gaps of its input k.
Queried(j, k) ==
  /\ k \in declared[j]
  /\ pc[j] \in Polling \/ (pc[j] \in {"query", "create"} /\ k \notin todo[j])

GapsAreHeld ==
  \A j \in Jobs : \A k \in Keys : Queried(j, k) => \A s \in MissingOf(k) :
    <<k, s>> \in missing[j] \/ \E r \in own[j] : reqSlot[r] = <<k, s>>

\* Only a job that is over has an error.
ErrorsAreFinal == \A j \in Jobs : error[j] # "" => pc[j] = "done"

RequestInv ==
  /\ OwnAreIssued
  /\ NoGapLeftOver
  /\ GapsAreHeld
  /\ ErrorsAreFinal
  /\ BlamesOwnRequest
  /\ EveryGapIsRequested
  /\ GivesUpWithNothingToDownload

-----------------------------------------------------------------------------
(* What the store says of a job, by where its goroutine is.                *)

Stored(j, st, p) == status[j] = st /\ progress[j] = p /\ sessionID[j] = NoSession

StoreInv ==
  \A j \in Jobs :
    /\ pc[j] \in {"off", "lost"} => Stored(j, "absent", 0)
    /\ pc[j] = "start" => Stored(j, "pending", 0)
    /\ pc[j] = "preview" => Stored(j, "running", 5)
    /\ pc[j] \in {"query", "create"} => Stored(j, "running", 15)
    /\ pc[j] \in Polling => Stored(j, "running", 35)
    /\ pc[j] = "run" => Stored(j, "running", 90)

-----------------------------------------------------------------------------
\* What the API promises of a job, for the store as the status handler reads it.
Contract == INSTANCE JobContract WITH
  issued <- {j \in Jobs : pc[j] # "off"},
  board <- [j \in Jobs |-> [status |-> status[j], progress |-> progress[j],
                            session |-> sessionID[j]]]

ImplementsContract == Contract!Spec

Settled(j) == status[j] \in {"ready", "error", "absent"}

\* An accepted job ends, even if no callee ever answers (the deadline, 180),
\* or the restart loses it.
JobsSettle == \A j \in Jobs : pc[j] = "start" ~> Settled(j)

\* Data that has arrived, and a request that has failed, end the polling
\* without the deadline's help (278-303).
PollingNotices ==
  \A j \in Jobs :
    (pc[j] \in Polling /\ (Covered(declared[j]) \/ Broken(j))) ~> Settled(j)
=============================================================================
