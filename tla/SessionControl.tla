--------------------------- MODULE SessionControl ---------------------------
(***************************************************************************)
(* Running, watching and stopping strategy sessions.  quant-handler keeps  *)
(* nothing between requests: a request reads the account or the session    *)
(* from core-service, picks a route policy, has control-panel-service      *)
(* resolve the runtime, and sends the strategy RPC through its proxy.      *)
(* Between two of these calls sessions move on, runtimes come, go and end, *)
(* and other requests are served.                                          *)
(*                                                                         *)
(* core-service's record of a session trails the session itself, which     *)
(* lives in its runtime.                                                   *)
(***************************************************************************)
EXTENDS Integers

CONSTANTS
  Clients,     \* callers, each with one request at a time
  Runtimes,
  Sessions,
  NoRuntime,   \* the empty runtime_id
  NoSession,   \* the empty session_id
  Queries      \* what the picker of runtimes is asked for

Environments == {0, 1, 2}   \* backtest, demo, live
NoEnvironment == -1         \* none given, or not a number

ASSUME SessionControlAssumption ==
  NoRuntime \notin Runtimes /\ NoSession \notin Sessions

ASSUME PickerAssumption ==
  Queries \subseteq [eligible: BOOLEAN, role: {"", "executor", "debugger"},
                     environment: Environments \cup {NoEnvironment}]

VARIABLES
  kind,         \* the role a runtime registered with
  link,         \* whether control-panel can reach a runtime
  live,         \* a session, in its runtime
  home,         \* the runtime a session was started in
  environment,  \* the environment it was started for
  record,       \* its status according to core-service
  op, pc,       \* a client's request and the call whose answer it awaits
  sess, rt, env,
  role,         \* the role of the route policy
  stopped,      \* StopStrategy's answer
  answer,       \* of the client's last request
  told,         \* what a client was last told of a session
  pick          \* the runtime a client chose from a list, and what it asked for

world == <<kind, link, live, home, environment, record>>
scratch == <<rt, role, stopped>>
vars == <<world, op, pc, sess, env, scratch, answer, told, pick>>

Statuses == {"none", "running", "stopping", "stopping_failed", "stopped", "finished",
             "recoverable"}
Over == {"stopped", "finished", "recoverable"}

\* A request ends with one of these.
Answers == {"none", "error", "unreachable", "mismatch", "started", "previewed", "status",
            "stopped", "not stopped", "ended", "listed"}

\* A runtime as control-panel has it stored: how long ago it was so, the list
\* does not ask.
Rows == [status: {"active", "unhealthy"}, heartbeat: BOOLEAN, owned: BOOLEAN]

NoPick == [runtime |-> NoRuntime, role |-> "", environment |-> NoEnvironment]

-----------------------------------------------------------------------------
(* Policies.                                                               *)

BugStoppingIsTerminal(status) ==
  status \in {"completed", "finished", "stopped", "failed", "stop_failed", "recoverable",
              "stopping"}

BugRecoverableIsNot(status) ==
  status \in {"completed", "finished", "stopped", "failed", "stop_failed"}

strategySessionTerminal(status) ==
  status \in {"completed", "finished", "stopped", "failed", "stop_failed", "recoverable"}

normalizedRuntimeRole(r) == IF kind[r] = "unset" THEN "executor" ELSE kind[r]

BugAlwaysExecutor(r, e) == "executor"

\* The role a request asks a route for: a backtest runs in whatever the
\* runtime is, anything else in an executor.
RouteRole(r, e) == IF e = 0 THEN normalizedRuntimeRole(r) ELSE "executor"

\* Whether control-panel has such a runtime for the environment.
RoleFits(r, ro, e) ==
  /\ ro = normalizedRuntimeRole(r)
  /\ ro = "executor" \/ e = 0

\* The role the picker looks for.
WantedRole(q) ==
  IF q.role = "" /\ q.eligible /\ q.environment = NoEnvironment THEN "executor" ELSE q.role

runtimeHealthyForSelection(row) == row.status = "active" /\ row.heartbeat /\ row.owned

BugMatchesAnyEnvironment(q, row, r) ==
  /\ q.eligible => runtimeHealthyForSelection(row)
  /\ WantedRole(q) # "" => normalizedRuntimeRole(r) = WantedRole(q)

\* The runtimes the picker offers.
runtimeMatchesSelectionEligibility(q, row, r) ==
  /\ q.eligible => runtimeHealthyForSelection(row)
  /\ WantedRole(q) # "" => normalizedRuntimeRole(r) = WantedRole(q)
  /\ q.environment # NoEnvironment =>
       \/ normalizedRuntimeRole(r) = "executor" /\ q.environment \in {0, 1}
       \/ normalizedRuntimeRole(r) = "debugger" /\ q.environment = 0

-----------------------------------------------------------------------------
Init ==
  /\ kind \in [Runtimes -> {"unset", "executor", "debugger"}]
  /\ link = [r \in Runtimes |-> "online"]
  /\ live = [s \in Sessions |-> "none"]
  /\ home = [s \in Sessions |-> NoRuntime]
  /\ environment = [s \in Sessions |-> 0]
  /\ record = [s \in Sessions |-> "none"]
  /\ op = [c \in Clients |-> "none"]
  /\ pc = [c \in Clients |-> "idle"]
  /\ sess = [c \in Clients |-> NoSession]
  /\ rt = [c \in Clients |-> NoRuntime]
  /\ env = [c \in Clients |-> 0]
  /\ role = [c \in Clients |-> "unset"]
  /\ stopped = [c \in Clients |-> FALSE]
  /\ answer = [c \in Clients |-> "none"]
  /\ told = [c \in Clients |-> [s \in Sessions |-> "nothing"]]
  /\ pick = [c \in Clients |-> NoPick]

-----------------------------------------------------------------------------
(* The handlers.  A call to another service and the handling of its answer *)
(* are one action: it takes effect where the service handles it.           *)

Go(c, where) == pc' = [pc EXCEPT ![c] = where] /\ UNCHANGED <<answer, told>>

\* The request is answered and what it worked with is gone, except for the
\* environment that a mismatch was about.
Reply(c, a) ==
  /\ pc' = [pc EXCEPT ![c] = "idle"]
  /\ answer' = [answer EXCEPT ![c] = a]
  /\ rt' = [rt EXCEPT ![c] = NoRuntime]
  /\ role' = [role EXCEPT ![c] = "unset"]
  /\ stopped' = [stopped EXCEPT ![c] = FALSE]
  /\ env' = [env EXCEPT ![c] = IF a = "mismatch" THEN env[c] ELSE 0]

Begin(c, which, where) ==
  /\ pc[c] = "idle"
  /\ op' = [op EXCEPT ![c] = which]
  /\ pc' = [pc EXCEPT ![c] = where]
  /\ answer' = [answer EXCEPT ![c] = "none"]

Tell(c, s, what) == told' = [told EXCEPT ![c] = [told[c] EXCEPT ![s] = what]]

\* GET /api/runtimes: the client takes up one of the runtimes it is offered.
listRuntimes(c, q, row, r) ==
  /\ pc[c] = "idle"
  /\ runtimeMatchesSelectionEligibility(q, row, r)
  /\ op' = [op EXCEPT ![c] = "list"]
  /\ pick' = [pick EXCEPT ![c] = [runtime |-> r, role |-> WantedRole(q),
                                  environment |-> q.environment]]
  /\ Reply(c, "listed")
  /\ UNCHANGED <<world, sess, told>>

\* handleRunStrategy and handlePreviewRunStrategy.  A client that names
\* another runtime than it was offered has given that one up.
handleRunStrategy(c, which, r) ==
  /\ Begin(c, which, "account")
  /\ rt' = [rt EXCEPT ![c] = r]
  /\ sess' = [sess EXCEPT ![c] = NoSession]
  /\ pick' = [pick EXCEPT ![c] = IF pick[c].runtime = r THEN pick[c] ELSE NoPick]
  /\ UNCHANGED <<world, env, role, stopped, told>>

\* handleStrategySession, GET or POST .../stop.
handleStrategySession(c, which, s) ==
  /\ Begin(c, which, "load")
  /\ sess' = [sess EXCEPT ![c] = s]
  /\ UNCHANGED <<world, env, scratch, told, pick>>

\* GetAccount answers with the account's environment.
strategyRoutePolicyForAccount(c, e) ==
  /\ pc[c] = "account"
  /\ env' = [env EXCEPT ![c] = e]
  /\ Go(c, "policy")
  /\ UNCHANGED <<world, op, sess, scratch, pick>>

BugLoadUnbound(c) ==
  /\ pc[c] = "load"
  /\ env' = [env EXCEPT ![c] = environment[sess[c]]]
  /\ rt' = [rt EXCEPT ![c] = home[sess[c]]]
  /\ Go(c, "policy")
  /\ UNCHANGED <<world, op, sess, role, stopped, pick>>

\* GetSession answers.  A session that is over is reported from the record,
\* and a stop of it is answered without asking its runtime.
loadSessionForRuntimeRoute(c) ==
  LET s == sess[c] IN
  /\ pc[c] = "load"
  /\ IF record[s] = "none"
     THEN Reply(c, "error") /\ UNCHANGED told
     ELSE IF strategySessionTerminal(record[s])
     THEN /\ Reply(c, IF op[c] = "stop" THEN "stopped" ELSE "status")
          /\ Tell(c, s, "over")
     ELSE /\ env' = [env EXCEPT ![c] = environment[s]]
          /\ rt' = [rt EXCEPT ![c] = home[s]]
          /\ Go(c, "policy")
          /\ UNCHANGED <<role, stopped>>
  /\ UNCHANGED <<world, op, sess, pick>>

\* For a backtest GetRuntime answers with the runtime's role.
strategyRoutePolicyForSelectedRuntime(c) ==
  /\ pc[c] = "policy"
  /\ role' = [role EXCEPT ![c] = RouteRole(rt[c], env[c])]
  /\ Go(c, "route")
  /\ UNCHANGED <<world, op, sess, rt, env, stopped, pick>>

\* ResolveRouteByID answers.
resolveStrategyRuntime(c) ==
  /\ pc[c] = "route"
  /\ IF RoleFits(rt[c], role[c], env[c]) /\ link[rt[c]] = "online"
     THEN Go(c, "rpc") /\ UNCHANGED <<env, scratch>>
     ELSE /\ Reply(c, IF RoleFits(rt[c], role[c], env[c]) THEN "unreachable" ELSE "mismatch")
          /\ UNCHANGED told
  /\ UNCHANGED <<world, op, sess, pick>>

Proxied(c, which) == pc[c] = "rpc" /\ op[c] = which /\ link[rt[c]] = "online"

\* RunStrategy starts a session; its answer may be lost on the way back.
RunStrategy(c, s, lost) ==
  /\ Proxied(c, "run")
  /\ live[s] = "none"
  /\ live' = [live EXCEPT ![s] = "running"]
  /\ home' = [home EXCEPT ![s] = rt[c]]
  /\ environment' = [environment EXCEPT ![s] = env[c]]
  /\ IF lost
     THEN Reply(c, "error") /\ UNCHANGED told
     ELSE Reply(c, "started") /\ Tell(c, s, "going")
  /\ UNCHANGED <<kind, link, record, op, sess, pick>>

PreviewRunStrategy(c) ==
  /\ Proxied(c, "preview")
  /\ Reply(c, "previewed")
  /\ UNCHANGED <<world, op, sess, told, pick>>

GetStrategyStatus(c) ==
  /\ Proxied(c, "status")
  /\ Reply(c, "status")
  /\ Tell(c, sess[c], IF live[sess[c]] \in Over THEN "over" ELSE "going")
  /\ UNCHANGED <<world, op, sess, pick>>

\* StopStrategy stops the session, begins to, or fails to; asked again after
\* the session is over it may say either.  Its answer may be lost.
StopStrategy(c, outcome, said, lost) ==
  LET s == sess[c] IN
  /\ Proxied(c, "stop")
  /\ IF live[s] \in Over
     THEN outcome = live[s]
     ELSE outcome \in {"stopping", "stopping_failed", "stopped"} /\ said = (outcome = "stopped")
  /\ live' = [live EXCEPT ![s] = outcome]
  /\ IF lost
     THEN Reply(c, "error") /\ UNCHANGED told
     ELSE /\ stopped' = [stopped EXCEPT ![c] = said]
          /\ Go(c, "reread")
          /\ UNCHANGED <<env, rt, role>>
  /\ UNCHANGED <<kind, link, home, environment, record, op, sess, pick>>

BugStopIsOver(c, read) ==
  /\ pc[c] = "reread"
  /\ Reply(c, IF stopped[c] THEN "stopped" ELSE "not stopped")
  /\ Tell(c, sess[c], "over")
  /\ UNCHANGED <<world, op, sess, pick>>

\* After a stop the session is read again for its status, if that succeeds.
handleStopStrategy(c, read) ==
  /\ pc[c] = "reread"
  /\ Reply(c, IF stopped[c] THEN "stopped" ELSE "not stopped")
  /\ IF stopped[c] \/ (read /\ record[sess[c]] \in Over)
     THEN Tell(c, sess[c], "over") ELSE UNCHANGED told
  /\ UNCHANGED <<world, op, sess, pick>>

BugAnswerFromRecord(c) ==
  /\ pc[c] \in {"account", "load", "route", "rpc"} \/ (pc[c] = "policy" /\ env[c] = 0)
  /\ IF pc[c] = "rpc" /\ op[c] = "status"
     THEN /\ Reply(c, "status")
          /\ Tell(c, sess[c], IF record[sess[c]] \in Over THEN "over" ELSE "going")
     ELSE Reply(c, "error") /\ UNCHANGED told
  /\ UNCHANGED <<world, op, sess, pick>>

\* A call before the strategy RPC's answer fails.
UpstreamError(c) ==
  /\ pc[c] \in {"account", "load", "route", "rpc"} \/ (pc[c] = "policy" /\ env[c] = 0)
  /\ Reply(c, "error")
  /\ UNCHANGED <<world, op, sess, told, pick>>

\* DELETE /api/runtimes/{id}: the runtime ends, and with it what ran in it.
EndRuntime(c, r) ==
  /\ pc[c] = "idle"
  /\ link[r] # "ended"
  /\ link' = [link EXCEPT ![r] = "ended"]
  /\ live' = [s \in Sessions |->
                IF home[s] = r /\ live[s] \notin Over THEN "recoverable" ELSE live[s]]
  /\ op' = [op EXCEPT ![c] = "end"]
  /\ Reply(c, "ended")
  /\ UNCHANGED <<kind, home, environment, record, sess, told, pick>>

-----------------------------------------------------------------------------
(* Runtimes and core-service on their own.                                 *)

\* A session goes on: it finishes, or a stop that was begun is done or fails.
Proceed(s, status) ==
  /\ \/ live[s] = "running" /\ status = "finished"
     \/ live[s] = "stopping" /\ status \in {"stopped", "stopping_failed"}
  /\ live' = [live EXCEPT ![s] = status]
  /\ UNCHANGED <<kind, link, home, environment, record, op, pc, sess, env, scratch, answer, told, pick>>

\* core-service learns how a session is.
Report(s) ==
  /\ record[s] # live[s]
  /\ record' = [record EXCEPT ![s] = live[s]]
  /\ UNCHANGED <<kind, link, live, home, environment, op, pc, sess, env, scratch, answer, told, pick>>

\* A runtime's channel drops or comes back.
Relink(r, state) ==
  /\ link[r] # "ended"
  /\ link[r] # state
  /\ link' = [link EXCEPT ![r] = state]
  /\ UNCHANGED <<kind, live, home, environment, record, op, pc, sess, env, scratch, answer, told, pick>>

-----------------------------------------------------------------------------
Call(c) ==
  \/ \E q \in Queries, row \in Rows, r \in Runtimes : listRuntimes(c, q, row, r)
  \/ \E which \in {"run", "preview"}, r \in Runtimes : handleRunStrategy(c, which, r)
  \/ \E which \in {"status", "stop"}, s \in Sessions : handleStrategySession(c, which, s)
  \/ \E r \in Runtimes : EndRuntime(c, r)

Serve(c) ==
  \/ \E e \in Environments : strategyRoutePolicyForAccount(c, e)
  \/ loadSessionForRuntimeRoute(c)
  \/ strategyRoutePolicyForSelectedRuntime(c)
  \/ resolveStrategyRuntime(c)
  \/ \E s \in Sessions, lost \in BOOLEAN : RunStrategy(c, s, lost)
  \/ PreviewRunStrategy(c)
  \/ GetStrategyStatus(c)
  \/ \E outcome \in Statuses, said, lost \in BOOLEAN : StopStrategy(c, outcome, said, lost)
  \/ \E read \in BOOLEAN : handleStopStrategy(c, read)
  \/ UpstreamError(c)

World ==
  \/ \E s \in Sessions, status \in Statuses : Proceed(s, status)
  \/ \E s \in Sessions : Report(s)
  \/ \E r \in Runtimes, state \in {"online", "offline"} : Relink(r, state)

Next == World \/ \E c \in Clients : Call(c) \/ Serve(c)

SafeSpec == Init /\ [][Next]_vars

\* Every call is answered, if only with an error, GetSession does not fail for
\* ever, and core-service learns in the end how a session is.
Fairness ==
  /\ \A c \in Clients : WF_vars(Serve(c)) /\ SF_vars(op[c] = "stop" /\ loadSessionForRuntimeRoute(c))
  /\ \A s \in Sessions : WF_vars(Report(s))

Spec == SafeSpec /\ Fairness

-----------------------------------------------------------------------------
(* The contract.                                                           *)

\* What a session is, to its client.
Phase(s) == IF live[s] = "none" THEN "nothing" ELSE IF live[s] \in Over THEN "over" ELSE "going"

Contract == INSTANCE SessionContract WITH
  phase <- [s \in Sessions |-> Phase(s)],
  place <- home,
  closed <- {r \in Runtimes : link[r] = "ended"}

-----------------------------------------------------------------------------
(* Properties.                                                             *)

\* Whatever source an answer comes from, what a client is told of a session was
\* so when it was told, and sessions move as the contract says, while the
\* record trails, runtimes drop and answers are lost (strategy.go 365-400, 430-463).
ImplementsContract == Contract!Spec

\* The variables keep their types; a request that has a policy to find has a
\* runtime, and one that is to be routed asks for a known role.
TypeOK ==
  /\ kind \in [Runtimes -> {"unset", "executor", "debugger"}]
  /\ link \in [Runtimes -> {"online", "offline", "ended"}]
  /\ live \in [Sessions -> Statuses] /\ record \in [Sessions -> Statuses]
  /\ home \in [Sessions -> Runtimes \cup {NoRuntime}]
  /\ environment \in [Sessions -> Environments]
  /\ op \in [Clients -> {"none", "list", "run", "preview", "status", "stop", "end"}]
  /\ pc \in [Clients -> {"idle", "account", "load", "policy", "route", "rpc", "reread"}]
  /\ sess \in [Clients -> Sessions \cup {NoSession}]
  /\ rt \in [Clients -> Runtimes \cup {NoRuntime}]
  /\ env \in [Clients -> Environments]
  /\ role \in [Clients -> {"unset", "executor", "debugger"}]
  /\ stopped \in [Clients -> BOOLEAN]
  /\ answer \in [Clients -> Answers]
  /\ told \in [Clients -> [Sessions -> {"nothing", "going", "over"}]]
  /\ pick \in [Clients -> [runtime: Runtimes \cup {NoRuntime}, role: {"", "executor", "debugger"},
                           environment: Environments \cup {NoEnvironment}]]
  /\ \A c \in Clients : pc[c] \in {"policy", "route", "rpc"} => rt[c] \in Runtimes
  /\ \A c \in Clients : pc[c] \in {"load", "reread"} => sess[c] \in Sessions

\* A stop that is answered with stopped has left nothing running, whether the
\* answer comes from the record or from the runtime, and however the session
\* moved on in between (strategy.go 430-463, 502-509).
StoppedMeansStopped ==
  \A c \in Clients :
    op[c] = "stop" /\ answer[c] = "stopped" => live[sess[c]] \in Over

\* A client that was told a session is over is never told later that it goes
\* on, although the record trails the runtime and the runtime may be out of
\* reach: status requests mix both sources (strategy.go 365-400).
NoResurrection ==
  [][\A c \in Clients, s \in Sessions :
       told[c][s] = "over" => told'[c][s] = "over"]_vars

\* A session that was started can be watched and stopped with the policy of
\* the handler: no status or stop request is refused for the runtime's role,
\* and a run only if it asks an executor's work of a debugger (107-128).
SessionsFitTheirRuntime ==
  \A c \in Clients :
    answer[c] = "mismatch" => op[c] \notin {"status", "stop"} /\ env[c] # 0

\* A client that runs or previews in a runtime it chose from the list is not
\* refused for the runtime's role in the environment it asked for, nor at all if
\* it asked for an executor: the rows may be out of date, so that the runtime is
\* gone or out of reach by then, yet the picker's rules and the route's, in two
\* services, agree (runtime_management.go 373-430; strategy.go 107-128).
PicksAreNotRefused ==
  \A c \in Clients :
    answer[c] = "mismatch" => env[c] # pick[c].environment /\ pick[c].role # "executor"

\* A session whose runtime has ended can be stopped: a client that keeps
\* asking is told that it is, without a route (strategy.go 434-440, 504).
EndedRuntimeReleases ==
  \A c \in Clients, s \in Sessions :
    /\ []<>(pc[c] = "load" /\ op[c] = "stop" /\ sess[c] = s)
    /\ <>(live[s] = "recoverable")
    => <>(answer[c] = "stopped" /\ sess[c] = s)
=============================================================================
