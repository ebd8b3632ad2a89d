------------------------ MODULE SessionControlProofs ------------------------
(***************************************************************************)
(* Proofs about SessionControl, for any number of clients, runtimes and    *)
(* sessions.                                                               *)
(***************************************************************************)
EXTENDS SessionControl, TLAPS

-----------------------------------------------------------------------------
(* Type correctness.                                                       *)

\* The world is well formed, and a session was started in some runtime before
\* core-service has a record of it.
WorldOK ==
  /\ kind \in [Runtimes -> {"unset", "executor", "debugger"}]
  /\ link \in [Runtimes -> {"online", "offline", "ended"}]
  /\ live \in [Sessions -> Statuses] /\ record \in [Sessions -> Statuses]
  /\ home \in [Sessions -> Runtimes \cup {NoRuntime}]
  /\ environment \in [Sessions -> Environments]
  /\ \A s \in Sessions : live[s] = "none" => record[s] = "none" /\ home[s] = NoRuntime
  /\ \A s \in Sessions : live[s] # "none" => home[s] \in Runtimes

\* What a client may have taken from a list.
Picks == [runtime: Runtimes \cup {NoRuntime}, role: {"", "executor", "debugger"},
          environment: Environments \cup {NoEnvironment}]

\* Requests are well formed, and each knows what it works on.
RequestOK ==
  /\ op \in [Clients -> {"none", "list", "run", "preview", "status", "stop", "end"}]
  /\ pc \in [Clients -> {"idle", "account", "load", "policy", "route", "rpc", "reread"}]
  /\ sess \in [Clients -> Sessions \cup {NoSession}]
  /\ rt \in [Clients -> Runtimes \cup {NoRuntime}]
  /\ env \in [Clients -> Environments]
  /\ role \in [Clients -> {"unset", "executor", "debugger"}]
  /\ stopped \in [Clients -> BOOLEAN]
  /\ answer \in [Clients -> Answers]
  /\ told \in [Clients -> [Sessions -> {"nothing", "going", "over"}]]
  /\ pick \in [Clients -> Picks]
  /\ \A c \in Clients : pc[c] \in {"account", "policy", "route", "rpc"} => rt[c] \in Runtimes
  /\ \A c \in Clients : pc[c] = "load" => op[c] \in {"status", "stop"}
  /\ \A c \in Clients : pc[c] = "reread" => op[c] = "stop"
  /\ \A c \in Clients : pc[c] = "account" => op[c] \in {"run", "preview"}
  /\ \A c \in Clients : op[c] \in {"status", "stop"} => sess[c] \in Sessions

\* A status or a stop request past its record works on a session that was
\* started, in that session's runtime and for its environment.
Linked ==
  \A c \in Clients :
    op[c] \in {"status", "stop"} /\ pc[c] \in {"policy", "route", "rpc"} =>
      /\ live[sess[c]] # "none"
      /\ rt[c] = home[sess[c]]
      /\ env[c] = environment[sess[c]]

TypeInv == WorldOK /\ RequestOK /\ Linked

\* A session that was started stays where it was started, and one that is
\* over stays over.
GoesOn(s) ==
  /\ live[s] # "none" => /\ live'[s] # "none"
                         /\ home'[s] = home[s]
                         /\ environment'[s] = environment[s]
  /\ live[s] \in Over => live'[s] \in Over

\* A route is asked for in one of the two roles there are.
LEMMA RolesKnown ==
  ASSUME WorldOK, NEW r \in Runtimes, NEW e
  PROVE  RouteRole(r, e) \in {"executor", "debugger"}
  BY DEF normalizedRuntimeRole, RouteRole, WorldOK

\* The answers and statuses the handlers give.
LEMMA Values ==
  /\ {"none", "error", "unreachable", "mismatch", "started", "previewed", "status",
      "stopped", "not stopped", "ended", "listed"} \subseteq Answers
  /\ {"none", "running", "stopping", "stopping_failed", "stopped", "finished", "recoverable"}
       \subseteq Statuses
  /\ 0 \in Environments
  BY DEF Answers, Statuses, Environments

\* What a client takes from a list, for a query that is answered.
LEMMA PickTyped ==
  ASSUME NEW q \in Queries, NEW r \in Runtimes
  PROVE  [runtime |-> r, role |-> WantedRole(q), environment |-> q.environment] \in Picks
<1>1. q \in [eligible: BOOLEAN, role: {"", "executor", "debugger"},
            environment: Environments \cup {NoEnvironment}]
  BY PickerAssumption
<1> QED
  BY <1>1 DEF Picks, WantedRole

\* Answering a request leaves it well formed.
LEMMA ReplyTyped ==
  ASSUME RequestOK, NEW c \in Clients, NEW a \in Answers, Reply(c, a),
         UNCHANGED <<op, sess, pick>>,
         \/ UNCHANGED told
         \/ \E s \in Sessions, w \in {"going", "over"} : Tell(c, s, w)
  PROVE  RequestOK'
<1>1. told' \in [Clients -> [Sessions -> {"nothing", "going", "over"}]]
  <2>1. CASE UNCHANGED told
    BY <2>1 DEF RequestOK
  <2>2. CASE \E s \in Sessions, w \in {"going", "over"} : Tell(c, s, w)
    <3>1. PICK s \in Sessions, w \in {"going", "over"} : Tell(c, s, w)
      BY <2>2
    <3>2. told \in [Clients -> [Sessions -> {"nothing", "going", "over"}]]
      BY DEF RequestOK
    <3>3. [told[c] EXCEPT ![s] = w] \in [Sessions -> {"nothing", "going", "over"}]
      BY <3>2
    <3> QED
      BY <3>1, <3>2, <3>3 DEF Tell
  <2> QED
    BY <2>1, <2>2
<1>2. env' \in [Clients -> Environments]
  BY Values DEF RequestOK, Reply
<1> QED
  BY <1>1, <1>2 DEF RequestOK, Reply

\* Every step lets every session go on.
LEMMA SessionsGoOn ==
  ASSUME TypeInv, [Next]_vars
  PROVE  \A t \in Sessions : GoesOn(t)
<1> USE DEF GoesOn, world
<1> QED
  <2>0. ASSUME NEW c \in Clients, NEW q \in Queries, NEW row \in Rows, NEW r \in Runtimes,
               listRuntimes(c, q, row, r)
        PROVE  \A t \in Sessions : GoesOn(t)
    BY <2>0 DEF listRuntimes
  <2>1. ASSUME NEW c \in Clients, NEW which \in {"run", "preview"}, NEW r \in Runtimes,
               handleRunStrategy(c, which, r)
        PROVE  \A t \in Sessions : GoesOn(t)
    BY <2>1 DEF handleRunStrategy
  <2>2. ASSUME NEW c \in Clients, NEW which \in {"status", "stop"}, NEW s \in Sessions,
               handleStrategySession(c, which, s)
        PROVE  \A t \in Sessions : GoesOn(t)
    BY <2>2 DEF handleStrategySession
  <2>3. ASSUME NEW c \in Clients, NEW r \in Runtimes, EndRuntime(c, r)
        PROVE  \A t \in Sessions : GoesOn(t)
    <3>1. live' = [s \in Sessions |->
                     IF home[s] = r /\ live[s] \notin Over THEN "recoverable" ELSE live[s]]
      BY <2>3 DEF EndRuntime
    <3>2. UNCHANGED <<home, environment>>
      BY <2>3 DEF EndRuntime
    <3> QED
      BY <3>1, <3>2 DEF Over
  <2>4. ASSUME NEW c \in Clients, NEW e \in Environments,
               strategyRoutePolicyForAccount(c, e)
        PROVE  \A t \in Sessions : GoesOn(t)
    BY <2>4 DEF strategyRoutePolicyForAccount
  <2>5. ASSUME NEW c \in Clients, loadSessionForRuntimeRoute(c)
        PROVE  \A t \in Sessions : GoesOn(t)
    BY <2>5 DEF loadSessionForRuntimeRoute
  <2>6. ASSUME NEW c \in Clients, strategyRoutePolicyForSelectedRuntime(c)
        PROVE  \A t \in Sessions : GoesOn(t)
    BY <2>6 DEF strategyRoutePolicyForSelectedRuntime
  <2>7. ASSUME NEW c \in Clients, resolveStrategyRuntime(c)
        PROVE  \A t \in Sessions : GoesOn(t)
    BY <2>7 DEF resolveStrategyRuntime
  <2>8. ASSUME NEW c \in Clients, NEW s \in Sessions, NEW lost \in BOOLEAN,
               RunStrategy(c, s, lost)
        PROVE  \A t \in Sessions : GoesOn(t)
    <3>1. /\ live[s] = "none"
          /\ live' = [live EXCEPT ![s] = "running"]
          /\ home' = [home EXCEPT ![s] = rt[c]]
          /\ environment' = [environment EXCEPT ![s] = env[c]]
      BY <2>8 DEF RunStrategy
    <3> QED
      BY <3>1 DEF Over, TypeInv, WorldOK
  <2>9. ASSUME NEW c \in Clients, PreviewRunStrategy(c)
        PROVE  \A t \in Sessions : GoesOn(t)
    BY <2>9 DEF PreviewRunStrategy
  <2>10. ASSUME NEW c \in Clients, GetStrategyStatus(c)
        PROVE  \A t \in Sessions : GoesOn(t)
    BY <2>10 DEF GetStrategyStatus
  <2>11. ASSUME NEW c \in Clients, NEW outcome \in Statuses, NEW said \in BOOLEAN, NEW lost \in BOOLEAN,
               StopStrategy(c, outcome, said, lost)
        PROVE  \A t \in Sessions : GoesOn(t)
    <3>1. live' = [live EXCEPT ![sess[c]] = outcome] /\ UNCHANGED <<home, environment>>
      BY <2>11 DEF StopStrategy
    <3>2. outcome = live[sess[c]] \/ outcome \in {"stopping", "stopping_failed", "stopped"}
      BY <2>11 DEF StopStrategy
    <3>3. live[sess[c]] \in Over => outcome = live[sess[c]]
      BY <2>11 DEF StopStrategy
    <3> QED
      BY <3>1, <3>2, <3>3 DEF TypeInv, WorldOK
  <2>12. ASSUME NEW c \in Clients, NEW read \in BOOLEAN, handleStopStrategy(c, read)
        PROVE  \A t \in Sessions : GoesOn(t)
    BY <2>12 DEF handleStopStrategy
  <2>13. ASSUME NEW c \in Clients, UpstreamError(c)
        PROVE  \A t \in Sessions : GoesOn(t)
    BY <2>13 DEF UpstreamError
  <2>14. ASSUME NEW s \in Sessions, NEW status \in Statuses, Proceed(s, status)
        PROVE  \A t \in Sessions : GoesOn(t)
    <3>1. /\ live[s] \in {"running", "stopping"}
          /\ status \in {"finished", "stopped", "stopping_failed"}
          /\ live' = [live EXCEPT ![s] = status]
          /\ UNCHANGED <<home, environment>>
      BY <2>14 DEF Proceed
    <3> QED
      BY <3>1 DEF Over, TypeInv, WorldOK
  <2>15. ASSUME NEW s \in Sessions, Report(s)
        PROVE  \A t \in Sessions : GoesOn(t)
    BY <2>15 DEF Report
  <2>16. ASSUME NEW r \in Runtimes, NEW state \in {"online", "offline"}, Relink(r, state)
        PROVE  \A t \in Sessions : GoesOn(t)
    BY <2>16 DEF Relink
  <2>17. CASE UNCHANGED vars
    BY <2>17 DEF vars
  <2> HIDE DEF GoesOn, world
  <2> QED
    <3>1. CASE \E c \in Clients : Call(c)
      BY <2>0, <2>1, <2>2, <2>3, <3>1 DEF Call
    <3>2. CASE \E c \in Clients : Serve(c)
      BY <2>4, <2>5, <2>6, <2>7, <2>8, <2>9, <2>10, <2>11, <2>12, <2>13, <3>2 DEF Serve
    <3>3. CASE World
      BY <2>14, <2>15, <2>16, <3>3 DEF World
    <3> QED
      BY <2>17, <3>1, <3>2, <3>3 DEF Next

\* Every step keeps the world well formed.
LEMMA WorldTyped ==
  ASSUME TypeInv, [Next]_vars
  PROVE  WorldOK'
<1> USE Values DEF WorldOK, world
<1> QED
  <2>0. ASSUME NEW c \in Clients, NEW q \in Queries, NEW row \in Rows, NEW r \in Runtimes,
               listRuntimes(c, q, row, r)
        PROVE  WorldOK'
    BY <2>0 DEF listRuntimes, TypeInv
  <2>1. ASSUME NEW c \in Clients, NEW which \in {"run", "preview"}, NEW r \in Runtimes,
               handleRunStrategy(c, which, r)
        PROVE  WorldOK'
    BY <2>1 DEF handleRunStrategy, TypeInv
  <2>2. ASSUME NEW c \in Clients, NEW which \in {"status", "stop"}, NEW s \in Sessions,
               handleStrategySession(c, which, s)
        PROVE  WorldOK'
    BY <2>2 DEF handleStrategySession, TypeInv
  <2>3. ASSUME NEW c \in Clients, NEW r \in Runtimes, EndRuntime(c, r)
        PROVE  WorldOK'
    <3>1. live' \in [Sessions -> Statuses]
      BY <2>3 DEF EndRuntime, TypeInv
    <3>2. ASSUME NEW s \in Sessions
          PROVE  /\ live'[s] = "none" => live[s] = "none"
                 /\ live'[s] # "none" => live[s] # "none" \/ home[s] \in Runtimes
      BY <2>3 DEF EndRuntime, TypeInv
    <3>3. UNCHANGED <<kind, home, environment, record>>
      BY <2>3 DEF EndRuntime
    <3>4. link' \in [Runtimes -> {"online", "offline", "ended"}]
      BY <2>3 DEF EndRuntime, TypeInv
    <3> QED
      BY <3>1, <3>2, <3>3, <3>4 DEF TypeInv
  <2>4. ASSUME NEW c \in Clients, NEW e \in Environments,
               strategyRoutePolicyForAccount(c, e)
        PROVE  WorldOK'
    BY <2>4 DEF strategyRoutePolicyForAccount, TypeInv
  <2>5. ASSUME NEW c \in Clients, loadSessionForRuntimeRoute(c)
        PROVE  WorldOK'
    BY <2>5 DEF loadSessionForRuntimeRoute, TypeInv
  <2>6. ASSUME NEW c \in Clients, strategyRoutePolicyForSelectedRuntime(c)
        PROVE  WorldOK'
    BY <2>6 DEF strategyRoutePolicyForSelectedRuntime, TypeInv
  <2>7. ASSUME NEW c \in Clients, resolveStrategyRuntime(c)
        PROVE  WorldOK'
    BY <2>7 DEF resolveStrategyRuntime, TypeInv
  <2>8. ASSUME NEW c \in Clients, NEW s \in Sessions, NEW lost \in BOOLEAN,
               RunStrategy(c, s, lost)
        PROVE  WorldOK'
    <3>1. rt[c] \in Runtimes /\ env[c] \in Environments
      BY <2>8 DEF RunStrategy, Proxied, TypeInv, RequestOK
    <3> QED
      BY <2>8, <3>1 DEF RunStrategy, TypeInv
  <2>9. ASSUME NEW c \in Clients, PreviewRunStrategy(c)
        PROVE  WorldOK'
    BY <2>9 DEF PreviewRunStrategy, TypeInv
  <2>10. ASSUME NEW c \in Clients, GetStrategyStatus(c)
        PROVE  WorldOK'
    BY <2>10 DEF GetStrategyStatus, TypeInv
  <2>11. ASSUME NEW c \in Clients, NEW outcome \in Statuses, NEW said \in BOOLEAN, NEW lost \in BOOLEAN,
               StopStrategy(c, outcome, said, lost)
        PROVE  WorldOK'
    <3>1. /\ live' = [live EXCEPT ![sess[c]] = outcome]
          /\ UNCHANGED <<kind, link, home, environment, record>>
      BY <2>11 DEF StopStrategy
    <3>2. outcome = "none" => live[sess[c]] = "none"
      BY <2>11 DEF StopStrategy
    <3>3. live[sess[c]] # "none"
      BY <2>11 DEF StopStrategy, Proxied, TypeInv, Linked, RequestOK
    <3> QED
      BY <3>1, <3>2, <3>3 DEF TypeInv
  <2>12. ASSUME NEW c \in Clients, NEW read \in BOOLEAN, handleStopStrategy(c, read)
        PROVE  WorldOK'
    BY <2>12 DEF handleStopStrategy, TypeInv
  <2>13. ASSUME NEW c \in Clients, UpstreamError(c)
        PROVE  WorldOK'
    BY <2>13 DEF UpstreamError, TypeInv
  <2>14. ASSUME NEW s \in Sessions, NEW status \in Statuses, Proceed(s, status)
        PROVE  WorldOK'
    BY <2>14 DEF Proceed, TypeInv
  <2>15. ASSUME NEW s \in Sessions, Report(s)
        PROVE  WorldOK'
    BY <2>15 DEF Report, TypeInv
  <2>16. ASSUME NEW r \in Runtimes, NEW state \in {"online", "offline"}, Relink(r, state)
        PROVE  WorldOK'
    BY <2>16 DEF Relink, TypeInv
  <2>17. CASE UNCHANGED vars
    BY <2>17 DEF vars, TypeInv
  <2> HIDE DEF WorldOK, world
  <2> QED
    <3>1. CASE \E c \in Clients : Call(c)
      BY <2>0, <2>1, <2>2, <2>3, <3>1 DEF Call
    <3>2. CASE \E c \in Clients : Serve(c)
      BY <2>4, <2>5, <2>6, <2>7, <2>8, <2>9, <2>10, <2>11, <2>12, <2>13, <3>2 DEF Serve
    <3>3. CASE World
      BY <2>14, <2>15, <2>16, <3>3 DEF World
    <3> QED
      BY <2>17, <3>1, <3>2, <3>3 DEF Next

\* Every step keeps the requests well formed.
LEMMA RequestTyped ==
  ASSUME TypeInv, [Next]_vars
  PROVE  RequestOK'
<1> USE DEF world, scratch, Go, Begin
<1> QED
  <2>0. ASSUME NEW c \in Clients, NEW q \in Queries, NEW row \in Rows, NEW r \in Runtimes,
               listRuntimes(c, q, row, r)
        PROVE  RequestOK'
    <3>1. pick' \in [Clients -> Picks]
      BY <2>0, PickTyped DEF listRuntimes, TypeInv, RequestOK
    <3> QED
      BY <2>0, <3>1, Values DEF listRuntimes, TypeInv, RequestOK, Reply
  <2>1. ASSUME NEW c \in Clients, NEW which \in {"run", "preview"}, NEW r \in Runtimes,
               handleRunStrategy(c, which, r)
        PROVE  RequestOK'
    <3>1. pick' \in [Clients -> Picks]
      <4>1. NoPick \in Picks
        BY DEF NoPick, Picks
      <4> QED
        BY <2>1, <4>1 DEF handleRunStrategy, TypeInv, RequestOK
    <3> QED
      BY <2>1, <3>1, Values DEF handleRunStrategy, TypeInv, RequestOK
  <2>2. ASSUME NEW c \in Clients, NEW which \in {"status", "stop"}, NEW s \in Sessions,
               handleStrategySession(c, which, s)
        PROVE  RequestOK'
    BY <2>2, Values DEF handleStrategySession, TypeInv, RequestOK
  <2>3. ASSUME NEW c \in Clients, NEW r \in Runtimes, EndRuntime(c, r)
        PROVE  RequestOK'
    BY <2>3, Values DEF EndRuntime, TypeInv, RequestOK, Reply
  <2>4. ASSUME NEW c \in Clients, NEW e \in Environments,
               strategyRoutePolicyForAccount(c, e)
        PROVE  RequestOK'
    BY <2>4 DEF strategyRoutePolicyForAccount, TypeInv, RequestOK
  <2>5. ASSUME NEW c \in Clients, loadSessionForRuntimeRoute(c)
        PROVE  RequestOK'
    <3>1. sess[c] \in Sessions
      BY <2>5 DEF loadSessionForRuntimeRoute, TypeInv, RequestOK
    <3>2. CASE record[sess[c]] = "none"
      BY <2>5, <3>2, Values, ReplyTyped DEF loadSessionForRuntimeRoute, TypeInv
    <3>3. CASE record[sess[c]] # "none" /\ strategySessionTerminal(record[sess[c]])
      <4>1. Tell(c, sess[c], "over")
        BY <2>5, <3>3 DEF loadSessionForRuntimeRoute
      <4>2. PICK a \in Answers : Reply(c, a)
        BY <2>5, <3>3, Values DEF loadSessionForRuntimeRoute
      <4>3. UNCHANGED <<op, sess, pick>>
        BY <2>5, <3>3 DEF loadSessionForRuntimeRoute
      <4> QED
        BY <3>1, <4>1, <4>2, <4>3, ReplyTyped DEF TypeInv
    <3>4. CASE record[sess[c]] # "none" /\ ~strategySessionTerminal(record[sess[c]])
      <4>1. home[sess[c]] \in Runtimes /\ environment[sess[c]] \in Environments
        BY <3>1, <3>4 DEF TypeInv, WorldOK
      <4>2. /\ env' = [env EXCEPT ![c] = environment[sess[c]]]
            /\ rt' = [rt EXCEPT ![c] = home[sess[c]]]
            /\ Go(c, "policy")
            /\ UNCHANGED <<role, stopped, op, sess, pick>>
        BY <2>5, <3>4 DEF loadSessionForRuntimeRoute
      <4> QED
        BY <4>1, <4>2 DEF TypeInv, RequestOK
    <3> QED
      BY <3>2, <3>3, <3>4
  <2>6. ASSUME NEW c \in Clients, strategyRoutePolicyForSelectedRuntime(c)
        PROVE  RequestOK'
    <3>1. role' \in [Clients -> {"unset", "executor", "debugger"}]
      BY <2>6, RolesKnown DEF strategyRoutePolicyForSelectedRuntime, TypeInv, RequestOK
    <3> QED
      BY <2>6, <3>1 DEF strategyRoutePolicyForSelectedRuntime, TypeInv, RequestOK
  <2>7. ASSUME NEW c \in Clients, resolveStrategyRuntime(c)
        PROVE  RequestOK'
    <3>1. CASE RoleFits(rt[c], role[c], env[c]) /\ link[rt[c]] = "online"
      <4>1. /\ pc[c] = "route" /\ Go(c, "rpc")
            /\ UNCHANGED scratch /\ UNCHANGED <<op, sess, env, pick>>
        BY <2>7, <3>1 DEF resolveStrategyRuntime
      <4>2. pc' \in [Clients -> {"idle", "account", "load", "policy", "route", "rpc", "reread"}]
        BY <4>1 DEF TypeInv, RequestOK
      <4> QED
        BY <4>1, <4>2 DEF TypeInv, RequestOK
    <3>2. CASE ~(RoleFits(rt[c], role[c], env[c]) /\ link[rt[c]] = "online")
      <4>1. UNCHANGED told /\ UNCHANGED <<op, sess, pick>>
        BY <2>7, <3>2 DEF resolveStrategyRuntime
      <4>2. PICK a \in {"unreachable", "mismatch"} : Reply(c, a)
        BY <2>7, <3>2 DEF resolveStrategyRuntime
      <4>3. a \in Answers
        BY Values
      <4> QED
        BY <4>1, <4>2, <4>3, ReplyTyped DEF TypeInv
    <3> QED
      BY <3>1, <3>2
  <2>8. ASSUME NEW c \in Clients, NEW s \in Sessions, NEW lost \in BOOLEAN,
               RunStrategy(c, s, lost)
        PROVE  RequestOK'
    <3>1. CASE lost
      BY <2>8, <3>1, Values, ReplyTyped DEF RunStrategy, TypeInv
    <3>2. CASE ~lost
      BY <2>8, <3>2, Values, ReplyTyped DEF RunStrategy, TypeInv
    <3> QED
      BY <3>1, <3>2
  <2>9. ASSUME NEW c \in Clients, PreviewRunStrategy(c)
        PROVE  RequestOK'
    BY <2>9, Values, ReplyTyped DEF PreviewRunStrategy, TypeInv
  <2>10. ASSUME NEW c \in Clients, GetStrategyStatus(c)
        PROVE  RequestOK'
    <3>1. sess[c] \in Sessions
      BY <2>10 DEF GetStrategyStatus, Proxied, TypeInv, RequestOK
    <3> QED
      BY <2>10, <3>1, Values, ReplyTyped DEF GetStrategyStatus, TypeInv
  <2>11. ASSUME NEW c \in Clients, NEW outcome \in Statuses, NEW said \in BOOLEAN, NEW lost \in BOOLEAN,
               StopStrategy(c, outcome, said, lost)
        PROVE  RequestOK'
    <3>1. CASE lost
      BY <2>11, <3>1, Values, ReplyTyped DEF StopStrategy, TypeInv
    <3>2. CASE ~lost
      <4>1. op[c] = "stop"
        BY <2>11 DEF StopStrategy, Proxied
      <4>2. /\ pc' = [pc EXCEPT ![c] = "reread"]
            /\ stopped' = [stopped EXCEPT ![c] = said]
            /\ UNCHANGED <<op, sess, rt, env, role, answer, told, pick>>
        BY <2>11, <3>2 DEF StopStrategy
      <4> QED
        BY <2>11, <4>1, <4>2 DEF TypeInv, RequestOK
    <3> QED
      BY <3>1, <3>2
  <2>12. ASSUME NEW c \in Clients, NEW read \in BOOLEAN, handleStopStrategy(c, read)
        PROVE  RequestOK'
    <3>1. sess[c] \in Sessions
      BY <2>12 DEF handleStopStrategy, TypeInv, RequestOK
    <3>2. UNCHANGED told \/ Tell(c, sess[c], "over")
      BY <2>12 DEF handleStopStrategy
    <3>3. PICK a \in Answers : Reply(c, a)
      BY <2>12, Values DEF handleStopStrategy
    <3>4. UNCHANGED <<op, sess, pick>>
      BY <2>12 DEF handleStopStrategy
    <3> QED
      BY <3>1, <3>2, <3>3, <3>4, ReplyTyped DEF TypeInv
  <2>13. ASSUME NEW c \in Clients, UpstreamError(c)
        PROVE  RequestOK'
    BY <2>13, Values, ReplyTyped DEF UpstreamError, TypeInv
  <2>14. ASSUME NEW s \in Sessions, NEW status \in Statuses, Proceed(s, status)
        PROVE  RequestOK'
    BY <2>14 DEF Proceed, TypeInv, RequestOK
  <2>15. ASSUME NEW s \in Sessions, Report(s)
        PROVE  RequestOK'
    BY <2>15 DEF Report, TypeInv, RequestOK
  <2>16. ASSUME NEW r \in Runtimes, NEW state \in {"online", "offline"}, Relink(r, state)
        PROVE  RequestOK'
    BY <2>16 DEF Relink, TypeInv, RequestOK
  <2>17. CASE UNCHANGED vars
    BY <2>17 DEF vars, TypeInv, RequestOK
  <2> HIDE DEF world, scratch, Go, Begin
  <2> QED
    <3>1. CASE \E c \in Clients : Call(c)
      BY <2>0, <2>1, <2>2, <2>3, <3>1 DEF Call
    <3>2. CASE \E c \in Clients : Serve(c)
      BY <2>4, <2>5, <2>6, <2>7, <2>8, <2>9, <2>10, <2>11, <2>12, <2>13, <3>2 DEF Serve
    <3>3. CASE World
      BY <2>14, <2>15, <2>16, <3>3 DEF World
    <3> QED
      BY <2>17, <3>1, <3>2, <3>3 DEF Next

\* Whatever becomes of its session, a request that is left alone stays linked.
LEMMA LinkedKept ==
  ASSUME TypeInv, [Next]_vars, NEW c \in Clients,
         op'[c] \in {"status", "stop"} /\ pc'[c] \in {"policy", "route", "rpc"},
         op[c] = op'[c], pc[c] \in {"policy", "route", "rpc"},
         sess[c] = sess'[c], rt[c] = rt'[c], env[c] = env'[c]
  PROVE  /\ live'[sess'[c]] # "none"
         /\ rt'[c] = home'[sess'[c]]
         /\ env'[c] = environment'[sess'[c]]
<1>1. sess[c] \in Sessions
  BY DEF TypeInv, RequestOK
<1>2. live[sess[c]] # "none" /\ rt[c] = home[sess[c]] /\ env[c] = environment[sess[c]]
  BY DEF TypeInv, Linked
<1> QED
  BY <1>1, <1>2, SessionsGoOn DEF GoesOn

\* Every step keeps requests linked to their sessions.
LEMMA LinkTyped ==
  ASSUME TypeInv, [Next]_vars
  PROVE  Linked'
<1> USE DEF world, scratch, Go, Begin, Proxied
<1> QED
  <2>0. ASSUME NEW c \in Clients, NEW q \in Queries, NEW row \in Rows, NEW r \in Runtimes,
               listRuntimes(c, q, row, r)
        PROVE  Linked'
    <3>1. ASSUME NEW d \in Clients, pc'[d] \in {"policy", "route", "rpc"}
          PROVE  pc[d] = pc'[d] /\ rt'[d] = rt[d] /\ op'[d] = op[d] /\ env'[d] = env[d]
      BY <2>0, <3>1 DEF listRuntimes, Reply, TypeInv, RequestOK
    <3>2. UNCHANGED sess
      BY <2>0 DEF listRuntimes
    <3> QED
      BY <3>1, <3>2, LinkedKept DEF Linked
  <2>1. ASSUME NEW c \in Clients, NEW which \in {"run", "preview"}, NEW r \in Runtimes,
               handleRunStrategy(c, which, r)
        PROVE  Linked'
    BY <2>1, LinkedKept DEF handleRunStrategy, Linked, TypeInv, RequestOK
  <2>2. ASSUME NEW c \in Clients, NEW which \in {"status", "stop"}, NEW s \in Sessions,
               handleStrategySession(c, which, s)
        PROVE  Linked'
    BY <2>2, LinkedKept DEF handleStrategySession, Linked, TypeInv, RequestOK
  <2>3. ASSUME NEW c \in Clients, NEW r \in Runtimes, EndRuntime(c, r)
        PROVE  Linked'
    <3>1. ASSUME NEW d \in Clients, pc'[d] \in {"policy", "route", "rpc"}
          PROVE  pc[d] = pc'[d] /\ rt'[d] = rt[d] /\ op'[d] = op[d] /\ env'[d] = env[d]
      BY <2>3, <3>1 DEF EndRuntime, Reply, TypeInv, RequestOK
    <3>2. UNCHANGED sess
      BY <2>3 DEF EndRuntime
    <3> QED
      BY <3>1, <3>2, LinkedKept DEF Linked
  <2>4. ASSUME NEW c \in Clients, NEW e \in Environments,
               strategyRoutePolicyForAccount(c, e)
        PROVE  Linked'
    <3>1. op[c] \in {"run", "preview"}
      BY <2>4 DEF strategyRoutePolicyForAccount, TypeInv, RequestOK
    <3> QED
      BY <2>4, <3>1, LinkedKept DEF strategyRoutePolicyForAccount, Linked, TypeInv, RequestOK
  <2>5. ASSUME NEW c \in Clients, loadSessionForRuntimeRoute(c)
        PROVE  Linked'
    <3>1. sess[c] \in Sessions /\ UNCHANGED <<op, sess>>
      BY <2>5 DEF loadSessionForRuntimeRoute, TypeInv, RequestOK
    <3>2. ASSUME NEW d \in Clients, d # c
          PROVE  pc'[d] = pc[d] /\ rt'[d] = rt[d] /\ env'[d] = env[d]
      BY <2>5, <3>2 DEF loadSessionForRuntimeRoute, Reply, TypeInv, RequestOK
    <3>3. pc'[c] \in {"policy", "route", "rpc"} =>
            /\ record[sess[c]] # "none"
            /\ env' = [env EXCEPT ![c] = environment[sess[c]]]
            /\ rt' = [rt EXCEPT ![c] = home[sess[c]]]
      BY <2>5 DEF loadSessionForRuntimeRoute, Reply, TypeInv, RequestOK
    <3>4. UNCHANGED <<live, home, environment>>
      BY <2>5 DEF loadSessionForRuntimeRoute
    <3>5. record[sess[c]] # "none" => live[sess[c]] # "none"
      BY <3>1 DEF TypeInv, WorldOK
    <3> QED
      BY <3>1, <3>2, <3>3, <3>4, <3>5, LinkedKept DEF Linked, TypeInv, RequestOK
  <2>6. ASSUME NEW c \in Clients, strategyRoutePolicyForSelectedRuntime(c)
        PROVE  Linked'
    BY <2>6, LinkedKept DEF strategyRoutePolicyForSelectedRuntime, Linked, TypeInv, RequestOK
  <2>7. ASSUME NEW c \in Clients, resolveStrategyRuntime(c)
        PROVE  Linked'
    <3>1. ASSUME NEW d \in Clients, pc'[d] \in {"policy", "route", "rpc"}
          PROVE  pc[d] \in {"policy", "route", "rpc"} /\ rt'[d] = rt[d] /\ env'[d] = env[d]
      BY <2>7, <3>1 DEF resolveStrategyRuntime, Reply, TypeInv, RequestOK
    <3>2. UNCHANGED <<op, sess>>
      BY <2>7 DEF resolveStrategyRuntime
    <3> QED
      BY <3>1, <3>2, LinkedKept DEF Linked
  <2>8. ASSUME NEW c \in Clients, NEW s \in Sessions, NEW lost \in BOOLEAN,
               RunStrategy(c, s, lost)
        PROVE  Linked'
    <3>1. ASSUME NEW d \in Clients, pc'[d] \in {"policy", "route", "rpc"}
          PROVE  pc[d] \in {"policy", "route", "rpc"} /\ rt'[d] = rt[d] /\ env'[d] = env[d]
      BY <2>8, <3>1 DEF RunStrategy, Reply, TypeInv, RequestOK
    <3>2. UNCHANGED <<op, sess>>
      BY <2>8 DEF RunStrategy
    <3> QED
      BY <3>1, <3>2, LinkedKept DEF Linked
  <2>9. ASSUME NEW c \in Clients, PreviewRunStrategy(c)
        PROVE  Linked'
    <3>1. ASSUME NEW d \in Clients, pc'[d] \in {"policy", "route", "rpc"}
          PROVE  pc[d] \in {"policy", "route", "rpc"} /\ rt'[d] = rt[d] /\ env'[d] = env[d]
      BY <2>9, <3>1 DEF PreviewRunStrategy, Reply, TypeInv, RequestOK
    <3>2. UNCHANGED <<op, sess>>
      BY <2>9 DEF PreviewRunStrategy
    <3> QED
      BY <3>1, <3>2, LinkedKept DEF Linked
  <2>10. ASSUME NEW c \in Clients, GetStrategyStatus(c)
        PROVE  Linked'
    <3>1. ASSUME NEW d \in Clients, pc'[d] \in {"policy", "route", "rpc"}
          PROVE  pc[d] \in {"policy", "route", "rpc"} /\ rt'[d] = rt[d] /\ env'[d] = env[d]
      BY <2>10, <3>1 DEF GetStrategyStatus, Reply, TypeInv, RequestOK
    <3>2. UNCHANGED <<op, sess>>
      BY <2>10 DEF GetStrategyStatus
    <3> QED
      BY <3>1, <3>2, LinkedKept DEF Linked
  <2>11. ASSUME NEW c \in Clients, NEW outcome \in Statuses, NEW said \in BOOLEAN, NEW lost \in BOOLEAN,
               StopStrategy(c, outcome, said, lost)
        PROVE  Linked'
    <3>1. ASSUME NEW d \in Clients, pc'[d] \in {"policy", "route", "rpc"}
          PROVE  pc[d] \in {"policy", "route", "rpc"} /\ rt'[d] = rt[d] /\ env'[d] = env[d]
      BY <2>11, <3>1 DEF StopStrategy, Reply, TypeInv, RequestOK
    <3>2. UNCHANGED <<op, sess>>
      BY <2>11 DEF StopStrategy
    <3> QED
      BY <3>1, <3>2, LinkedKept DEF Linked
  <2>12. ASSUME NEW c \in Clients, NEW read \in BOOLEAN, handleStopStrategy(c, read)
        PROVE  Linked'
    <3>1. ASSUME NEW d \in Clients, pc'[d] \in {"policy", "route", "rpc"}
          PROVE  pc[d] \in {"policy", "route", "rpc"} /\ rt'[d] = rt[d] /\ env'[d] = env[d]
      BY <2>12, <3>1 DEF handleStopStrategy, Reply, TypeInv, RequestOK
    <3>2. UNCHANGED <<op, sess>>
      BY <2>12 DEF handleStopStrategy
    <3> QED
      BY <3>1, <3>2, LinkedKept DEF Linked
  <2>13. ASSUME NEW c \in Clients, UpstreamError(c)
        PROVE  Linked'
    <3>1. ASSUME NEW d \in Clients, pc'[d] \in {"policy", "route", "rpc"}
          PROVE  pc[d] \in {"policy", "route", "rpc"} /\ rt'[d] = rt[d] /\ env'[d] = env[d]
      BY <2>13, <3>1 DEF UpstreamError, Reply, TypeInv, RequestOK
    <3>2. UNCHANGED <<op, sess>>
      BY <2>13 DEF UpstreamError
    <3> QED
      BY <3>1, <3>2, LinkedKept DEF Linked
  <2>14. ASSUME NEW s \in Sessions, NEW status \in Statuses, Proceed(s, status)
        PROVE  Linked'
    BY <2>14, LinkedKept DEF Proceed, Linked, TypeInv, RequestOK
  <2>15. ASSUME NEW s \in Sessions, Report(s)
        PROVE  Linked'
    BY <2>15, LinkedKept DEF Report, Linked, TypeInv, RequestOK
  <2>16. ASSUME NEW r \in Runtimes, NEW state \in {"online", "offline"}, Relink(r, state)
        PROVE  Linked'
    BY <2>16, LinkedKept DEF Relink, Linked, TypeInv, RequestOK
  <2>17. CASE UNCHANGED vars
    BY <2>17, LinkedKept DEF vars, Linked, TypeInv, RequestOK
  <2> HIDE DEF world, scratch, Go, Begin
  <2> QED
    <3>1. CASE \E c \in Clients : Call(c)
      BY <2>0, <2>1, <2>2, <2>3, <3>1 DEF Call
    <3>2. CASE \E c \in Clients : Serve(c)
      BY <2>4, <2>5, <2>6, <2>7, <2>8, <2>9, <2>10, <2>11, <2>12, <2>13, <3>2 DEF Serve
    <3>3. CASE World
      BY <2>14, <2>15, <2>16, <3>3 DEF World
    <3> QED
      BY <2>17, <3>1, <3>2, <3>3 DEF Next

\* TypeInv is an inductive invariant.
LEMMA TypeInvariant == SafeSpec => []TypeInv
<1>1. Init => TypeInv
  <2>1. Init => WorldOK
    <3>1. ASSUME Init
          PROVE  /\ kind \in [Runtimes -> {"unset", "executor", "debugger"}]
                 /\ link = [r \in Runtimes |-> "online"]
                 /\ live = [s \in Sessions |-> "none"]
                 /\ home = [s \in Sessions |-> NoRuntime]
                 /\ environment = [s \in Sessions |-> 0]
                 /\ record = [s \in Sessions |-> "none"]
      BY <3>1 DEF Init
    <3> QED
      BY <3>1, Values DEF WorldOK
  <2>2. ASSUME Init
        PROVE  told \in [Clients -> [Sessions -> {"nothing", "going", "over"}]]
    <3>1. [s \in Sessions |-> "nothing"] \in [Sessions -> {"nothing", "going", "over"}]
      OBVIOUS
    <3>2. told = [c \in Clients |-> [s \in Sessions |-> "nothing"]]
      BY <2>2 DEF Init
    <3> QED
      BY <3>1, <3>2
  <2>3. ASSUME Init
        PROVE  RequestOK
    <3>1. /\ op = [c \in Clients |-> "none"]
          /\ pc = [c \in Clients |-> "idle"]
          /\ sess = [c \in Clients |-> NoSession]
          /\ rt = [c \in Clients |-> NoRuntime]
          /\ env = [c \in Clients |-> 0]
          /\ role = [c \in Clients |-> "unset"]
          /\ stopped = [c \in Clients |-> FALSE]
          /\ answer = [c \in Clients |-> "none"]
          /\ pick = [c \in Clients |-> NoPick]
      BY <2>3 DEF Init
    <3>2. NoPick \in Picks
      BY DEF NoPick, Picks
    <3> QED
      BY <2>2, <2>3, <3>1, <3>2, Values DEF RequestOK
  <2>4. Init => Linked
    BY DEF Init, Linked
  <2> QED
    BY <2>1, <2>3, <2>4 DEF TypeInv
<1>2. TypeInv /\ [Next]_vars => TypeInv'
  BY WorldTyped, RequestTyped, LinkTyped DEF TypeInv
<1> QED
  BY <1>1, <1>2, PTL DEF SafeSpec

\* Every variable keeps its type, a request past its record has a runtime, and
\* one that reads a session's record has a session (strategy.go 365-400, 430-463).
THEOREM TypeCorrect == SafeSpec => []TypeOK
<1>1. TypeInv => TypeOK
  BY DEF TypeInv, WorldOK, RequestOK, Picks, TypeOK
<1> QED
  BY <1>1, TypeInvariant, PTL

-----------------------------------------------------------------------------
(* Roles.                                                                  *)

\* A session runs where the policy routes to.
Placed(s) ==
  live[s] # "none" => RoleFits(home[s], RouteRole(home[s], environment[s]), environment[s])

\* A request asks for the policy's role, and one that is refused for it is not
\* about a session, nor about a backtest.
Suits(c) ==
  /\ pc[c] \in {"route", "rpc"} => role[c] = RouteRole(rt[c], env[c])
  /\ pc[c] = "rpc" => RoleFits(rt[c], role[c], env[c])
  /\ pc[c] # "idle" => answer[c] = "none"
  /\ answer[c] = "mismatch" => op[c] \notin {"status", "stop"} /\ env[c] # 0

FitInv == (\A s \in Sessions : Placed(s)) /\ (\A c \in Clients : Suits(c))

\* A request that is left alone suits as before.
LEMMA SuitsStill ==
  ASSUME NEW c \in Clients, Suits(c), UNCHANGED kind,
         op'[c] = op[c], pc'[c] = pc[c], rt'[c] = rt[c], env'[c] = env[c],
         role'[c] = role[c], answer'[c] = answer[c]
  PROVE  Suits(c)'
  BY DEF Suits, RoleFits, RouteRole, normalizedRuntimeRole

\* So does one that is answered, unless it is refused for a role.
LEMMA SuitsAnswered ==
  ASSUME TypeInv, FitInv, NEW c \in Clients, NEW a, a # "mismatch", Reply(c, a),
         UNCHANGED <<kind, op, sess>>
  PROVE  \A d \in Clients : Suits(d)'
<1>1. Suits(c)'
  BY DEF Suits, Reply, TypeInv, RequestOK
<1>2. ASSUME NEW d \in Clients, d # c
      PROVE  Suits(d)'
  BY <1>2, SuitsStill DEF FitInv, Reply, TypeInv, RequestOK
<1> QED
  BY <1>1, <1>2

\* Every step keeps sessions placed.
LEMMA SessionsStayPlaced ==
  ASSUME TypeInv, FitInv, [Next]_vars
  PROVE  \A t \in Sessions : Placed(t)'
<1> USE DEF world
<1>1. UNCHANGED kind
  <2>0. ASSUME NEW c \in Clients, NEW q \in Queries, NEW row \in Rows, NEW r \in Runtimes,
               listRuntimes(c, q, row, r)
        PROVE  UNCHANGED kind
    BY <2>0 DEF listRuntimes
  <2>1. ASSUME NEW c \in Clients, NEW which \in {"run", "preview"}, NEW r \in Runtimes,
               handleRunStrategy(c, which, r)
        PROVE  UNCHANGED kind
    BY <2>1 DEF handleRunStrategy
  <2>2. ASSUME NEW c \in Clients, NEW which \in {"status", "stop"}, NEW s \in Sessions,
               handleStrategySession(c, which, s)
        PROVE  UNCHANGED kind
    BY <2>2 DEF handleStrategySession
  <2>3. ASSUME NEW c \in Clients, NEW r \in Runtimes, EndRuntime(c, r)
        PROVE  UNCHANGED kind
    BY <2>3 DEF EndRuntime
  <2>4. ASSUME NEW c \in Clients, NEW e \in Environments,
               strategyRoutePolicyForAccount(c, e)
        PROVE  UNCHANGED kind
    BY <2>4 DEF strategyRoutePolicyForAccount
  <2>5. ASSUME NEW c \in Clients, loadSessionForRuntimeRoute(c)
        PROVE  UNCHANGED kind
    BY <2>5 DEF loadSessionForRuntimeRoute
  <2>6. ASSUME NEW c \in Clients, strategyRoutePolicyForSelectedRuntime(c)
        PROVE  UNCHANGED kind
    BY <2>6 DEF strategyRoutePolicyForSelectedRuntime
  <2>7. ASSUME NEW c \in Clients, resolveStrategyRuntime(c)
        PROVE  UNCHANGED kind
    BY <2>7 DEF resolveStrategyRuntime
  <2>8. ASSUME NEW c \in Clients, NEW s \in Sessions, NEW lost \in BOOLEAN,
               RunStrategy(c, s, lost)
        PROVE  UNCHANGED kind
    BY <2>8 DEF RunStrategy
  <2>9. ASSUME NEW c \in Clients, PreviewRunStrategy(c)
        PROVE  UNCHANGED kind
    BY <2>9 DEF PreviewRunStrategy
  <2>10. ASSUME NEW c \in Clients, GetStrategyStatus(c)
        PROVE  UNCHANGED kind
    BY <2>10 DEF GetStrategyStatus
  <2>11. ASSUME NEW c \in Clients, NEW outcome \in Statuses, NEW said \in BOOLEAN, NEW lost \in BOOLEAN,
               StopStrategy(c, outcome, said, lost)
        PROVE  UNCHANGED kind
    BY <2>11 DEF StopStrategy
  <2>12. ASSUME NEW c \in Clients, NEW read \in BOOLEAN, handleStopStrategy(c, read)
        PROVE  UNCHANGED kind
    BY <2>12 DEF handleStopStrategy
  <2>13. ASSUME NEW c \in Clients, UpstreamError(c)
        PROVE  UNCHANGED kind
    BY <2>13 DEF UpstreamError
  <2>14. ASSUME NEW s \in Sessions, NEW status \in Statuses, Proceed(s, status)
        PROVE  UNCHANGED kind
    BY <2>14 DEF Proceed
  <2>15. ASSUME NEW s \in Sessions, Report(s)
        PROVE  UNCHANGED kind
    BY <2>15 DEF Report
  <2>16. ASSUME NEW r \in Runtimes, NEW state \in {"online", "offline"}, Relink(r, state)
        PROVE  UNCHANGED kind
    BY <2>16 DEF Relink
  <2>17. CASE UNCHANGED vars
    BY <2>17 DEF vars
  <2> QED
    <3>1. CASE \E c \in Clients : Call(c)
      BY <2>0, <2>1, <2>2, <2>3, <3>1 DEF Call
    <3>2. CASE \E c \in Clients : Serve(c)
      BY <2>4, <2>5, <2>6, <2>7, <2>8, <2>9, <2>10, <2>11, <2>12, <2>13, <3>2 DEF Serve
    <3>3. CASE World
      BY <2>14, <2>15, <2>16, <3>3 DEF World
    <3> QED
      BY <2>17, <3>1, <3>2, <3>3 DEF Next
<1>2. SUFFICES ASSUME NEW t \in Sessions, live'[t] # "none"
               PROVE  Placed(t)'
  BY DEF Placed
<1>3. CASE live[t] # "none"
  <2>1. home'[t] = home[t] /\ environment'[t] = environment[t]
    BY <1>3, SessionsGoOn DEF GoesOn
  <2> QED
    BY <1>1, <1>3, <2>1 DEF FitInv, Placed, RoleFits, RouteRole, normalizedRuntimeRole
<1>4. CASE live[t] = "none"
  <2>0. ASSUME NEW c \in Clients, NEW q \in Queries, NEW row \in Rows, NEW r \in Runtimes,
               listRuntimes(c, q, row, r)
        PROVE  Placed(t)'
    BY <2>0, <1>2, <1>4 DEF listRuntimes
  <2>1. ASSUME NEW c \in Clients, NEW which \in {"run", "preview"}, NEW r \in Runtimes,
               handleRunStrategy(c, which, r)
        PROVE  Placed(t)'
    BY <2>1, <1>2, <1>4 DEF handleRunStrategy
  <2>2. ASSUME NEW c \in Clients, NEW which \in {"status", "stop"}, NEW s \in Sessions,
               handleStrategySession(c, which, s)
        PROVE  Placed(t)'
    BY <2>2, <1>2, <1>4 DEF handleStrategySession
  <2>3. ASSUME NEW c \in Clients, NEW r \in Runtimes, EndRuntime(c, r)
        PROVE  Placed(t)'
    <3>1. home[t] = r => live[t] # "none"
      BY <2>3, SessionControlAssumption DEF TypeInv, WorldOK
    <3> QED
      BY <2>3, <1>2, <1>4, <3>1 DEF EndRuntime
  <2>4. ASSUME NEW c \in Clients, NEW e \in Environments,
               strategyRoutePolicyForAccount(c, e)
        PROVE  Placed(t)'
    BY <2>4, <1>2, <1>4 DEF strategyRoutePolicyForAccount
  <2>5. ASSUME NEW c \in Clients, loadSessionForRuntimeRoute(c)
        PROVE  Placed(t)'
    BY <2>5, <1>2, <1>4 DEF loadSessionForRuntimeRoute
  <2>6. ASSUME NEW c \in Clients, strategyRoutePolicyForSelectedRuntime(c)
        PROVE  Placed(t)'
    BY <2>6, <1>2, <1>4 DEF strategyRoutePolicyForSelectedRuntime
  <2>7. ASSUME NEW c \in Clients, resolveStrategyRuntime(c)
        PROVE  Placed(t)'
    BY <2>7, <1>2, <1>4 DEF resolveStrategyRuntime
  <2>8. ASSUME NEW c \in Clients, NEW s \in Sessions, NEW lost \in BOOLEAN,
               RunStrategy(c, s, lost)
        PROVE  Placed(t)'
    <3>1. /\ RoleFits(rt[c], RouteRole(rt[c], env[c]), env[c])
          /\ rt[c] \in Runtimes
      BY <2>8 DEF RunStrategy, Proxied, FitInv, Suits, TypeInv, RequestOK
    <3>2. /\ live' = [live EXCEPT ![s] = "running"]
          /\ home' = [home EXCEPT ![s] = rt[c]]
          /\ environment' = [environment EXCEPT ![s] = env[c]]
      BY <2>8 DEF RunStrategy
    <3>3. CASE t = s
      <4>1. home'[t] = rt[c] /\ environment'[t] = env[c]
        BY <3>2, <3>3 DEF TypeInv, WorldOK
      <4> QED
        BY <1>1, <3>1, <4>1 DEF Placed, RoleFits, RouteRole, normalizedRuntimeRole
    <3>4. CASE t # s
      BY <1>2, <1>4, <3>2, <3>4 DEF TypeInv, WorldOK
    <3> QED
      BY <3>3, <3>4
  <2>9. ASSUME NEW c \in Clients, PreviewRunStrategy(c)
        PROVE  Placed(t)'
    BY <2>9, <1>2, <1>4 DEF PreviewRunStrategy
  <2>10. ASSUME NEW c \in Clients, GetStrategyStatus(c)
        PROVE  Placed(t)'
    BY <2>10, <1>2, <1>4 DEF GetStrategyStatus
  <2>11. ASSUME NEW c \in Clients, NEW outcome \in Statuses, NEW said \in BOOLEAN, NEW lost \in BOOLEAN,
               StopStrategy(c, outcome, said, lost)
        PROVE  Placed(t)'
    <3>1. live[sess[c]] # "none"
      BY <2>11 DEF StopStrategy, Proxied, TypeInv, Linked
    <3> QED
      BY <2>11, <1>2, <1>4, <3>1 DEF StopStrategy, TypeInv, WorldOK
  <2>12. ASSUME NEW c \in Clients, NEW read \in BOOLEAN, handleStopStrategy(c, read)
        PROVE  Placed(t)'
    BY <2>12, <1>2, <1>4 DEF handleStopStrategy
  <2>13. ASSUME NEW c \in Clients, UpstreamError(c)
        PROVE  Placed(t)'
    BY <2>13, <1>2, <1>4 DEF UpstreamError
  <2>14. ASSUME NEW s \in Sessions, NEW status \in Statuses, Proceed(s, status)
        PROVE  Placed(t)'
    BY <2>14, <1>2, <1>4 DEF Proceed, TypeInv, WorldOK
  <2>15. ASSUME NEW s \in Sessions, Report(s)
        PROVE  Placed(t)'
    BY <2>15, <1>2, <1>4 DEF Report
  <2>16. ASSUME NEW r \in Runtimes, NEW state \in {"online", "offline"}, Relink(r, state)
        PROVE  Placed(t)'
    BY <2>16, <1>2, <1>4 DEF Relink
  <2>17. CASE UNCHANGED vars
    BY <2>17, <1>2, <1>4 DEF vars
  <2> QED
    <3>1. CASE \E c \in Clients : Call(c)
      BY <2>0, <2>1, <2>2, <2>3, <3>1 DEF Call
    <3>2. CASE \E c \in Clients : Serve(c)
      BY <2>4, <2>5, <2>6, <2>7, <2>8, <2>9, <2>10, <2>11, <2>12, <2>13, <3>2 DEF Serve
    <3>3. CASE World
      BY <2>14, <2>15, <2>16, <3>3 DEF World
    <3> QED
      BY <2>17, <3>1, <3>2, <3>3 DEF Next
<1> QED
  BY <1>3, <1>4

\* Every step keeps requests suited.
LEMMA RequestsStaySuited ==
  ASSUME TypeInv, FitInv, [Next]_vars
  PROVE  \A d \in Clients : Suits(d)'
<1> USE DEF world
<1> QED
  <2>0. ASSUME NEW c \in Clients, NEW q \in Queries, NEW row \in Rows, NEW r \in Runtimes,
               listRuntimes(c, q, row, r)
        PROVE  \A d \in Clients : Suits(d)'
    <3>1. Suits(c)'
      BY <2>0 DEF listRuntimes, Reply, Suits, TypeInv, RequestOK
    <3>2. ASSUME NEW d \in Clients, d # c
          PROVE  Suits(d)'
      BY <2>0, <3>2, SuitsStill DEF listRuntimes, Reply, FitInv, TypeInv, RequestOK
    <3> QED
      BY <3>1, <3>2
  <2>1. ASSUME NEW c \in Clients, NEW which \in {"run", "preview"}, NEW r \in Runtimes,
               handleRunStrategy(c, which, r)
        PROVE  \A d \in Clients : Suits(d)'
    <3>1. ASSUME NEW d \in Clients, d # c
          PROVE  Suits(d)'
      BY <2>1, <3>1, SuitsStill DEF handleRunStrategy, Go, Begin, scratch, FitInv, TypeInv, RequestOK
    <3>2. Suits(c)'
      BY <2>1 DEF handleRunStrategy, Go, Begin, scratch, FitInv, Suits, TypeInv, RequestOK
    <3> QED
      BY <3>1, <3>2
  <2>2. ASSUME NEW c \in Clients, NEW which \in {"status", "stop"}, NEW s \in Sessions,
               handleStrategySession(c, which, s)
        PROVE  \A d \in Clients : Suits(d)'
    <3>1. ASSUME NEW d \in Clients, d # c
          PROVE  Suits(d)'
      BY <2>2, <3>1, SuitsStill DEF handleStrategySession, Go, Begin, scratch, FitInv, TypeInv, RequestOK
    <3>2. Suits(c)'
      BY <2>2 DEF handleStrategySession, Go, Begin, scratch, FitInv, Suits, TypeInv, RequestOK
    <3> QED
      BY <3>1, <3>2
  <2>3. ASSUME NEW c \in Clients, NEW r \in Runtimes, EndRuntime(c, r)
        PROVE  \A d \in Clients : Suits(d)'
    <3>1. Suits(c)'
      BY <2>3 DEF EndRuntime, Reply, Suits, TypeInv, RequestOK
    <3>2. ASSUME NEW d \in Clients, d # c
          PROVE  Suits(d)'
      BY <2>3, <3>2, SuitsStill DEF EndRuntime, Reply, FitInv, TypeInv, RequestOK
    <3> QED
      BY <3>1, <3>2
  <2>4. ASSUME NEW c \in Clients, NEW e \in Environments,
               strategyRoutePolicyForAccount(c, e)
        PROVE  \A d \in Clients : Suits(d)'
    <3>1. ASSUME NEW d \in Clients, d # c
          PROVE  Suits(d)'
      BY <2>4, <3>1, SuitsStill DEF strategyRoutePolicyForAccount, Go, Begin, scratch, FitInv, TypeInv, RequestOK
    <3>2. Suits(c)'
      BY <2>4 DEF strategyRoutePolicyForAccount, Go, Begin, scratch, FitInv, Suits, TypeInv, RequestOK
    <3> QED
      BY <3>1, <3>2
  <2>5. ASSUME NEW c \in Clients, loadSessionForRuntimeRoute(c)
        PROVE  \A d \in Clients : Suits(d)'
    <3>1. CASE pc'[c] = "idle"
      <4>1. PICK a : a # "mismatch" /\ Reply(c, a)
        BY <2>5, <3>1 DEF loadSessionForRuntimeRoute, Go, TypeInv, RequestOK
      <4> QED
        BY <2>5, <4>1, SuitsAnswered DEF loadSessionForRuntimeRoute
    <3>2. CASE pc'[c] # "idle"
      <4>1. /\ env' = [env EXCEPT ![c] = environment[sess[c]]]
            /\ rt' = [rt EXCEPT ![c] = home[sess[c]]]
            /\ pc' = [pc EXCEPT ![c] = "policy"]
            /\ UNCHANGED <<kind, op, role, answer>>
        BY <2>5, <3>2 DEF loadSessionForRuntimeRoute, Go, Reply, TypeInv, RequestOK
      <4>2. Suits(c)'
        BY <2>5, <4>1 DEF loadSessionForRuntimeRoute, FitInv, Suits, TypeInv, RequestOK
      <4>3. ASSUME NEW d \in Clients, d # c
            PROVE  Suits(d)'
        BY <4>1, <4>3, SuitsStill DEF FitInv, TypeInv, RequestOK
      <4> QED
        BY <4>2, <4>3
    <3> QED
      BY <3>1, <3>2
  <2>6. ASSUME NEW c \in Clients, strategyRoutePolicyForSelectedRuntime(c)
        PROVE  \A d \in Clients : Suits(d)'
    <3>1. /\ pc' = [pc EXCEPT ![c] = "route"]
          /\ role' = [role EXCEPT ![c] = RouteRole(rt[c], env[c])]
          /\ UNCHANGED <<kind, op, rt, env, answer>>
      BY <2>6 DEF strategyRoutePolicyForSelectedRuntime, Go
    <3>2. ASSUME NEW d \in Clients, d # c
          PROVE  Suits(d)'
      BY <3>1, <3>2, SuitsStill DEF FitInv, TypeInv, RequestOK
    <3>3. role'[c] = RouteRole(rt[c], env[c])
      BY <3>1 DEF TypeInv, RequestOK
    <3>4. answer[c] = "none" /\ pc'[c] = "route"
      BY <2>6, <3>1 DEF strategyRoutePolicyForSelectedRuntime, FitInv, Suits, TypeInv, RequestOK
    <3>5. Suits(c)'
      BY <3>1, <3>3, <3>4 DEF Suits, RouteRole, normalizedRuntimeRole
    <3> QED
      BY <3>2, <3>5
  <2>7. ASSUME NEW c \in Clients, resolveStrategyRuntime(c)
        PROVE  \A d \in Clients : Suits(d)'
    <3>1. role[c] = RouteRole(rt[c], env[c]) /\ answer[c] = "none"
      BY <2>7 DEF resolveStrategyRuntime, FitInv, Suits
    <3>2. CASE RoleFits(rt[c], role[c], env[c]) /\ link[rt[c]] = "online"
      <4>1. pc' = [pc EXCEPT ![c] = "rpc"] /\ UNCHANGED <<kind, op, rt, env, role, answer>>
        BY <2>7, <3>2 DEF resolveStrategyRuntime, Go, scratch
      <4>2. Suits(c)'
        BY <3>1, <3>2, <4>1 DEF Suits, RoleFits, RouteRole, normalizedRuntimeRole
      <4>3. ASSUME NEW d \in Clients, d # c
            PROVE  Suits(d)'
        BY <4>1, <4>3, SuitsStill DEF FitInv, TypeInv, RequestOK
      <4> QED
        BY <4>2, <4>3
    <3>3. CASE RoleFits(rt[c], role[c], env[c]) /\ link[rt[c]] # "online"
      <4>1. Reply(c, "unreachable") /\ UNCHANGED <<kind, op, sess>>
        BY <2>7, <3>3 DEF resolveStrategyRuntime
      <4> QED
        BY <4>1, SuitsAnswered
    <3>4. CASE ~RoleFits(rt[c], role[c], env[c])
      <4>1. Reply(c, "mismatch") /\ UNCHANGED <<kind, op>>
        BY <2>7, <3>4 DEF resolveStrategyRuntime
      <4>2. env[c] # 0
        BY <3>1, <3>4 DEF RoleFits, RouteRole
      <4>3. op[c] \notin {"status", "stop"}
        <5>1. SUFFICES ASSUME op[c] \in {"status", "stop"}
                       PROVE  FALSE
          OBVIOUS
        <5>2. /\ sess[c] \in Sessions
              /\ live[sess[c]] # "none"
              /\ rt[c] = home[sess[c]] /\ env[c] = environment[sess[c]]
          BY <2>7, <5>1 DEF resolveStrategyRuntime, TypeInv, RequestOK, Linked
        <5> QED
          BY <3>1, <3>4, <5>2 DEF FitInv, Placed
      <4>4. Suits(c)'
        BY <4>1, <4>2, <4>3 DEF Suits, Reply, TypeInv, RequestOK
      <4>5. ASSUME NEW d \in Clients, d # c
            PROVE  Suits(d)'
        BY <4>1, <4>5, SuitsStill DEF FitInv, Reply, TypeInv, RequestOK
      <4> QED
        BY <4>4, <4>5
    <3> QED
      BY <3>2, <3>3, <3>4
  <2>8. ASSUME NEW c \in Clients, NEW s \in Sessions, NEW lost \in BOOLEAN,
               RunStrategy(c, s, lost)
        PROVE  \A d \in Clients : Suits(d)'
    <3>1. PICK a : a # "mismatch" /\ Reply(c, a)
      BY <2>8 DEF RunStrategy
    <3> QED
      BY <2>8, <3>1, SuitsAnswered DEF RunStrategy
  <2>9. ASSUME NEW c \in Clients, PreviewRunStrategy(c)
        PROVE  \A d \in Clients : Suits(d)'
    <3>1. PICK a : a # "mismatch" /\ Reply(c, a)
      BY <2>9 DEF PreviewRunStrategy
    <3> QED
      BY <2>9, <3>1, SuitsAnswered DEF PreviewRunStrategy
  <2>10. ASSUME NEW c \in Clients, GetStrategyStatus(c)
        PROVE  \A d \in Clients : Suits(d)'
    <3>1. PICK a : a # "mismatch" /\ Reply(c, a)
      BY <2>10 DEF GetStrategyStatus
    <3> QED
      BY <2>10, <3>1, SuitsAnswered DEF GetStrategyStatus
  <2>11. ASSUME NEW c \in Clients, NEW outcome \in Statuses, NEW said \in BOOLEAN, NEW lost \in BOOLEAN,
               StopStrategy(c, outcome, said, lost)
        PROVE  \A d \in Clients : Suits(d)'
    <3>1. CASE lost
      BY <2>11, <3>1, SuitsAnswered DEF StopStrategy
    <3>2. CASE ~lost
      <4>1. pc' = [pc EXCEPT ![c] = "reread"] /\ UNCHANGED <<kind, op, rt, env, role, answer>>
        BY <2>11, <3>2 DEF StopStrategy, Go
      <4>2. answer[c] = "none"
        BY <2>11 DEF StopStrategy, Proxied, FitInv, Suits
      <4>3. Suits(c)'
        BY <4>1, <4>2 DEF Suits, TypeInv, RequestOK
      <4>4. ASSUME NEW d \in Clients, d # c
            PROVE  Suits(d)'
        BY <4>1, <4>4, SuitsStill DEF FitInv, TypeInv, RequestOK
      <4> QED
        BY <4>3, <4>4
    <3> QED
      BY <3>1, <3>2
  <2>12. ASSUME NEW c \in Clients, NEW read \in BOOLEAN, handleStopStrategy(c, read)
        PROVE  \A d \in Clients : Suits(d)'
    <3>1. PICK a : a # "mismatch" /\ Reply(c, a)
      BY <2>12 DEF handleStopStrategy
    <3> QED
      BY <2>12, <3>1, SuitsAnswered DEF handleStopStrategy
  <2>13. ASSUME NEW c \in Clients, UpstreamError(c)
        PROVE  \A d \in Clients : Suits(d)'
    <3>1. PICK a : a # "mismatch" /\ Reply(c, a)
      BY <2>13 DEF UpstreamError
    <3> QED
      BY <2>13, <3>1, SuitsAnswered DEF UpstreamError
  <2>14. ASSUME NEW s \in Sessions, NEW status \in Statuses, Proceed(s, status)
        PROVE  \A d \in Clients : Suits(d)'
    BY <2>14, SuitsStill DEF Proceed, scratch, FitInv
  <2>15. ASSUME NEW s \in Sessions, Report(s)
        PROVE  \A d \in Clients : Suits(d)'
    BY <2>15, SuitsStill DEF Report, scratch, FitInv
  <2>16. ASSUME NEW r \in Runtimes, NEW state \in {"online", "offline"}, Relink(r, state)
        PROVE  \A d \in Clients : Suits(d)'
    BY <2>16, SuitsStill DEF Relink, scratch, FitInv
  <2>17. CASE UNCHANGED vars
    BY <2>17, SuitsStill DEF vars, scratch, FitInv
  <2> QED
    <3>1. CASE \E c \in Clients : Call(c)
      BY <2>0, <2>1, <2>2, <2>3, <3>1 DEF Call
    <3>2. CASE \E c \in Clients : Serve(c)
      BY <2>4, <2>5, <2>6, <2>7, <2>8, <2>9, <2>10, <2>11, <2>12, <2>13, <3>2 DEF Serve
    <3>3. CASE World
      BY <2>14, <2>15, <2>16, <3>3 DEF World
    <3> QED
      BY <2>17, <3>1, <3>2, <3>3 DEF Next

\* Watching and stopping a session is never refused for the runtime's role:
\* the policy that started it is the policy that reaches it (strategy.go 107-128, 346-360).
THEOREM SessionsFit == SafeSpec => []SessionsFitTheirRuntime
<1>1. Init => FitInv
  BY DEF Init, FitInv, Placed, Suits
<1>2. TypeInv /\ FitInv /\ [Next]_vars => FitInv'
  BY SessionsStayPlaced, RequestsStaySuited DEF FitInv
<1>3. FitInv => SessionsFitTheirRuntime
  BY DEF FitInv, Suits, SessionsFitTheirRuntime
<1> QED
  BY <1>1, <1>2, <1>3, TypeInvariant, PTL DEF SafeSpec

\* What a client took from the list is what the list offered, its run is in the
\* runtime it took, and is not refused for what was asked of the list.
Picked(c) ==
  /\ pick[c].runtime \in Runtimes =>
       (pick[c].role = "executor" \/ pick[c].environment \in {1, 2}
          => normalizedRuntimeRole(pick[c].runtime) = "executor")
  /\ pick[c].runtime \notin Runtimes => pick[c] = NoPick
  /\ op[c] \notin {"status", "stop"} /\ pc[c] # "idle" /\ pick[c].runtime \in Runtimes
       => rt[c] = pick[c].runtime
  /\ answer[c] = "mismatch" => env[c] # pick[c].environment /\ pick[c].role # "executor"

LEMMA NothingPicked ==
  /\ NoPick.runtime \notin Runtimes
  /\ NoPick.role = "" /\ NoPick.role # "executor"
  /\ NoPick.environment = NoEnvironment
  /\ NoEnvironment \notin {1, 2}
<1>1. NoPick.runtime = NoRuntime /\ NoPick.role = "" /\ NoPick.environment = NoEnvironment
  BY DEF NoPick
<1>2. NoEnvironment \notin {1, 2}
  BY DEF NoEnvironment
<1> QED
  BY <1>1, <1>2, SessionControlAssumption

\* A pick stays good as long as its request goes on in the runtime, is answered
\* with anything but a mismatch, or is left alone.
LEMMA PickedStill ==
  ASSUME NEW c \in Clients, Picked(c), kind' = kind, pick'[c] = pick[c],
         \/ pc'[c] = "idle"
         \/ op'[c] \in {"status", "stop"}
         \/ op'[c] = op[c] /\ pc[c] # "idle" /\ rt'[c] = rt[c],
         answer'[c] # "mismatch" \/ (answer'[c] = answer[c] /\ env'[c] = env[c])
  PROVE  Picked(c)'
  BY DEF Picked, normalizedRuntimeRole

LEMMA PickedAnswered ==
  ASSUME TypeInv, \A d \in Clients : Picked(d), NEW c \in Clients, NEW a, a # "mismatch",
         Reply(c, a), UNCHANGED <<kind, op, pick>>
  PROVE  \A d \in Clients : Picked(d)'
<1>1. ASSUME NEW d \in Clients
      PROVE  /\ d = c => pc'[d] = "idle" /\ answer'[d] # "mismatch"
             /\ d # c => /\ pc'[d] = pc[d] /\ rt'[d] = rt[d]
                         /\ answer'[d] = answer[d] /\ env'[d] = env[d]
  BY DEF Reply, TypeInv, RequestOK
<1> QED
  BY <1>1, PickedStill

\* Every step keeps picks good.
LEMMA PicksStay ==
  ASSUME TypeInv, FitInv, \A d \in Clients : Picked(d), [Next]_vars
  PROVE  \A d \in Clients : Picked(d)'
<1> USE DEF world
<1> QED
  <2>0. ASSUME NEW c \in Clients, NEW q \in Queries, NEW row \in Rows, NEW r \in Runtimes,
               listRuntimes(c, q, row, r)
        PROVE  \A d \in Clients : Picked(d)'
    <3>1. ASSUME NEW d \in Clients
          PROVE  /\ d # c => /\ op'[d] = op[d] /\ pc'[d] = pc[d] /\ rt'[d] = rt[d]
                             /\ answer'[d] = answer[d] /\ env'[d] = env[d]
                             /\ pick'[d] = pick[d]
                 /\ d = c => /\ pc'[d] = "idle" /\ answer'[d] = "listed"
                             /\ pick'[d] = [runtime |-> r, role |-> WantedRole(q),
                                            environment |-> q.environment]
      BY <2>0 DEF listRuntimes, Reply, TypeInv, RequestOK
    <3>2. kind' = kind
      BY <2>0 DEF listRuntimes
    <3>3. WantedRole(q) = "executor" => normalizedRuntimeRole(r) = "executor"
      BY <2>0 DEF listRuntimes, runtimeMatchesSelectionEligibility
    <3>4. q.environment \in {1, 2} => normalizedRuntimeRole(r) = "executor"
      <4>1. q.environment \in {1, 2} => q.environment # NoEnvironment /\ q.environment # 0
        BY DEF NoEnvironment
      <4> QED
        BY <2>0, <4>1 DEF listRuntimes, runtimeMatchesSelectionEligibility
    <3>5. Picked(c)'
      BY <3>1, <3>2, <3>3, <3>4 DEF Picked, normalizedRuntimeRole
    <3>6. ASSUME NEW d \in Clients, d # c
          PROVE  Picked(d)'
      BY <3>1, <3>2, <3>6, PickedStill
    <3> QED
      BY <3>5, <3>6
  <2>1. ASSUME NEW c \in Clients, NEW which \in {"run", "preview"}, NEW r \in Runtimes,
               handleRunStrategy(c, which, r)
        PROVE  \A d \in Clients : Picked(d)'
    <3>1. ASSUME NEW d \in Clients
          PROVE  /\ d # c => /\ op'[d] = op[d] /\ pc'[d] = pc[d] /\ rt'[d] = rt[d]
                             /\ answer'[d] = answer[d] /\ env'[d] = env[d]
                             /\ pick'[d] = pick[d]
                 /\ d = c => /\ answer'[d] = "none" /\ rt'[d] = r
                             /\ pick'[d] = IF pick[d].runtime = r THEN pick[d] ELSE NoPick
      BY <2>1 DEF handleRunStrategy, Begin, TypeInv, RequestOK
    <3>2. kind' = kind
      BY <2>1 DEF handleRunStrategy
    <3>3. ASSUME pick[c].runtime = r
          PROVE  Picked(c)'
      <4>1. pick'[c] = pick[c] /\ rt'[c] = pick[c].runtime /\ answer'[c] = "none"
        BY <3>1, <3>3
      <4> QED
        BY <3>2, <4>1 DEF Picked, normalizedRuntimeRole
    <3>4. ASSUME pick[c].runtime # r
          PROVE  Picked(c)'
      <4>1. pick'[c] = NoPick /\ answer'[c] = "none"
        BY <3>1, <3>4
      <4> QED
        BY <4>1, NothingPicked DEF Picked
    <3>5. ASSUME NEW d \in Clients, d # c
          PROVE  Picked(d)'
      BY <3>1, <3>2, <3>5, PickedStill
    <3> QED
      BY <3>3, <3>4, <3>5
  <2>2. ASSUME NEW c \in Clients, NEW which \in {"status", "stop"}, NEW s \in Sessions,
               handleStrategySession(c, which, s)
        PROVE  \A d \in Clients : Picked(d)'
    <3>1. ASSUME NEW d \in Clients
          PROVE  /\ d # c => /\ op'[d] = op[d] /\ pc'[d] = pc[d] /\ answer'[d] = answer[d]
                 /\ d = c => op'[d] \in {"status", "stop"} /\ answer'[d] = "none"
      BY <2>2 DEF handleStrategySession, Begin, TypeInv, RequestOK
    <3> QED
      BY <2>2, <3>1, PickedStill DEF handleStrategySession, scratch
  <2>3. ASSUME NEW c \in Clients, NEW r \in Runtimes, EndRuntime(c, r)
        PROVE  \A d \in Clients : Picked(d)'
    <3>1. ASSUME NEW d \in Clients
          PROVE  /\ d # c => /\ op'[d] = op[d] /\ pc'[d] = pc[d] /\ rt'[d] = rt[d]
                             /\ answer'[d] = answer[d] /\ env'[d] = env[d]
                 /\ d = c => pc'[d] = "idle" /\ answer'[d] = "ended"
      BY <2>3 DEF EndRuntime, Reply, TypeInv, RequestOK
    <3> QED
      BY <2>3, <3>1, PickedStill DEF EndRuntime
  <2>4. ASSUME NEW c \in Clients, NEW e \in Environments,
               strategyRoutePolicyForAccount(c, e)
        PROVE  \A d \in Clients : Picked(d)'
    <3>1. ASSUME NEW d \in Clients
          PROVE  /\ d # c => pc'[d] = pc[d] /\ env'[d] = env[d]
                 /\ d = c => pc[d] # "idle" /\ answer[d] = "none"
      BY <2>4 DEF strategyRoutePolicyForAccount, Go, FitInv, Suits, TypeInv, RequestOK
    <3> QED
      BY <2>4, <3>1, PickedStill DEF strategyRoutePolicyForAccount, Go, scratch
  <2>5. ASSUME NEW c \in Clients, loadSessionForRuntimeRoute(c)
        PROVE  \A d \in Clients : Picked(d)'
    <3>1. CASE pc'[c] = "idle"
      <4>1. PICK a : a # "mismatch" /\ Reply(c, a)
        BY <2>5, <3>1 DEF loadSessionForRuntimeRoute, Go, TypeInv, RequestOK
      <4> QED
        BY <2>5, <4>1, PickedAnswered DEF loadSessionForRuntimeRoute
    <3>2. CASE pc'[c] # "idle"
      <4>1. /\ env' = [env EXCEPT ![c] = environment[sess[c]]]
            /\ rt' = [rt EXCEPT ![c] = home[sess[c]]]
            /\ pc' = [pc EXCEPT ![c] = "policy"]
            /\ UNCHANGED <<kind, op, answer, pick>>
        BY <2>5, <3>2 DEF loadSessionForRuntimeRoute, Go, Reply, TypeInv, RequestOK
      <4>2. op[c] \in {"status", "stop"} /\ answer[c] = "none"
        BY <2>5 DEF loadSessionForRuntimeRoute, FitInv, Suits, TypeInv, RequestOK
      <4>3. ASSUME NEW d \in Clients, d # c
            PROVE  pc'[d] = pc[d] /\ rt'[d] = rt[d] /\ env'[d] = env[d]
        BY <4>1, <4>3 DEF TypeInv, RequestOK
      <4> QED
        BY <4>1, <4>2, <4>3, PickedStill
    <3> QED
      BY <3>1, <3>2
  <2>6. ASSUME NEW c \in Clients, strategyRoutePolicyForSelectedRuntime(c)
        PROVE  \A d \in Clients : Picked(d)'
    <3>1. ASSUME NEW d \in Clients
          PROVE  /\ d # c => pc'[d] = pc[d]
                 /\ d = c => pc[d] # "idle"
      BY <2>6 DEF strategyRoutePolicyForSelectedRuntime, Go, TypeInv, RequestOK
    <3> QED
      BY <2>6, <3>1, PickedStill DEF strategyRoutePolicyForSelectedRuntime, Go
  <2>7. ASSUME NEW c \in Clients, resolveStrategyRuntime(c)
        PROVE  \A d \in Clients : Picked(d)'
    <3>1. /\ role[c] = RouteRole(rt[c], env[c]) /\ pc[c] = "route"
          /\ rt[c] \in Runtimes /\ env[c] \in Environments
          /\ UNCHANGED <<kind, op, pick>>
      BY <2>7 DEF resolveStrategyRuntime, FitInv, Suits, TypeInv, RequestOK
    <3>2. CASE RoleFits(rt[c], role[c], env[c]) /\ link[rt[c]] = "online"
      <4>1. pc' = [pc EXCEPT ![c] = "rpc"] /\ UNCHANGED <<rt, env, answer>>
        BY <2>7, <3>2 DEF resolveStrategyRuntime, Go, scratch
      <4>2. \A d \in Clients : d # c => pc'[d] = pc[d]
        BY <4>1 DEF TypeInv, RequestOK
      <4> QED
        BY <3>1, <4>1, <4>2, PickedStill
    <3>3. CASE RoleFits(rt[c], role[c], env[c]) /\ link[rt[c]] # "online"
      <4>1. Reply(c, "unreachable")
        BY <2>7, <3>3 DEF resolveStrategyRuntime
      <4> QED
        BY <3>1, <4>1, PickedAnswered
    <3>4. CASE ~RoleFits(rt[c], role[c], env[c])
      <4>1. Reply(c, "mismatch")
        BY <2>7, <3>4 DEF resolveStrategyRuntime
      <4>2. ASSUME NEW d \in Clients
            PROVE  /\ d # c => /\ pc'[d] = pc[d] /\ rt'[d] = rt[d]
                               /\ answer'[d] = answer[d] /\ env'[d] = env[d]
                   /\ d = c => pc'[d] = "idle" /\ env'[d] = env[d]
        BY <4>1 DEF Reply, TypeInv, RequestOK
      <4>3. env[c] \in {1, 2} /\ normalizedRuntimeRole(rt[c]) # "executor"
        BY <3>1, <3>4 DEF RoleFits, RouteRole, Environments
      <4>4. op[c] \notin {"status", "stop"}
        <5>1. SUFFICES ASSUME op[c] \in {"status", "stop"}
                       PROVE  FALSE
          OBVIOUS
        <5>2. /\ sess[c] \in Sessions /\ live[sess[c]] # "none"
              /\ rt[c] = home[sess[c]] /\ env[c] = environment[sess[c]]
          BY <3>1, <5>1 DEF TypeInv, RequestOK, Linked
        <5> QED
          BY <3>1, <3>4, <5>2 DEF FitInv, Placed
      <4>5. pick[c].environment # env[c] /\ pick[c].role # "executor"
        <5>1. CASE pick[c].runtime \in Runtimes
          BY <3>1, <4>3, <4>4, <5>1 DEF Picked
        <5>2. CASE pick[c].runtime \notin Runtimes
          <6>1. pick[c] = NoPick
            BY <5>2 DEF Picked
          <6>2. env[c] # NoEnvironment
            BY <4>3 DEF NoEnvironment
          <6> QED
            BY <6>1, <6>2, NothingPicked
        <5> QED
          BY <5>1, <5>2
      <4>6. Picked(c)'
        BY <3>1, <4>2, <4>5 DEF Picked, normalizedRuntimeRole
      <4>7. ASSUME NEW d \in Clients, d # c
            PROVE  Picked(d)'
        BY <3>1, <4>2, <4>7, PickedStill
      <4> QED
        BY <4>6, <4>7
    <3> QED
      BY <3>2, <3>3, <3>4
  <2>8. ASSUME NEW c \in Clients, NEW s \in Sessions, NEW lost \in BOOLEAN,
               RunStrategy(c, s, lost)
        PROVE  \A d \in Clients : Picked(d)'
    <3>1. PICK a : a # "mismatch" /\ Reply(c, a)
      BY <2>8 DEF RunStrategy
    <3> QED
      BY <2>8, <3>1, PickedAnswered DEF RunStrategy
  <2>9. ASSUME NEW c \in Clients, PreviewRunStrategy(c)
        PROVE  \A d \in Clients : Picked(d)'
    <3>1. PICK a : a # "mismatch" /\ Reply(c, a)
      BY <2>9 DEF PreviewRunStrategy
    <3> QED
      BY <2>9, <3>1, PickedAnswered DEF PreviewRunStrategy
  <2>10. ASSUME NEW c \in Clients, GetStrategyStatus(c)
        PROVE  \A d \in Clients : Picked(d)'
    <3>1. PICK a : a # "mismatch" /\ Reply(c, a)
      BY <2>10 DEF GetStrategyStatus
    <3> QED
      BY <2>10, <3>1, PickedAnswered DEF GetStrategyStatus
  <2>11. ASSUME NEW c \in Clients, NEW outcome \in Statuses, NEW said \in BOOLEAN, NEW lost \in BOOLEAN,
               StopStrategy(c, outcome, said, lost)
        PROVE  \A d \in Clients : Picked(d)'
    <3>1. CASE lost
      BY <2>11, <3>1, PickedAnswered DEF StopStrategy
    <3>2. CASE ~lost
      <4>1. pc' = [pc EXCEPT ![c] = "reread"] /\ UNCHANGED <<kind, op, rt, env, answer, pick>>
        BY <2>11, <3>2 DEF StopStrategy, Go
      <4>2. pc[c] # "idle" /\ \A d \in Clients : d # c => pc'[d] = pc[d]
        BY <2>11, <4>1 DEF StopStrategy, Proxied, TypeInv, RequestOK
      <4> QED
        BY <4>1, <4>2, PickedStill
    <3> QED
      BY <3>1, <3>2
  <2>12. ASSUME NEW c \in Clients, NEW read \in BOOLEAN, handleStopStrategy(c, read)
        PROVE  \A d \in Clients : Picked(d)'
    <3>1. PICK a : a # "mismatch" /\ Reply(c, a)
      BY <2>12 DEF handleStopStrategy
    <3> QED
      BY <2>12, <3>1, PickedAnswered DEF handleStopStrategy
  <2>13. ASSUME NEW c \in Clients, UpstreamError(c)
        PROVE  \A d \in Clients : Picked(d)'
    <3>1. PICK a : a # "mismatch" /\ Reply(c, a)
      BY <2>13 DEF UpstreamError
    <3> QED
      BY <2>13, <3>1, PickedAnswered DEF UpstreamError
  <2>14. ASSUME NEW s \in Sessions, NEW status \in Statuses, Proceed(s, status)
        PROVE  \A d \in Clients : Picked(d)'
    BY <2>14, PickedStill DEF Proceed, scratch
  <2>15. ASSUME NEW s \in Sessions, Report(s)
        PROVE  \A d \in Clients : Picked(d)'
    BY <2>15, PickedStill DEF Report, scratch
  <2>16. ASSUME NEW r \in Runtimes, NEW state \in {"online", "offline"}, Relink(r, state)
        PROVE  \A d \in Clients : Picked(d)'
    BY <2>16, PickedStill DEF Relink, scratch
  <2>17. CASE UNCHANGED vars
    BY <2>17, PickedStill DEF vars, scratch
  <2> QED
    <3>1. CASE \E c \in Clients : Call(c)
      BY <2>0, <2>1, <2>2, <2>3, <3>1 DEF Call
    <3>2. CASE \E c \in Clients : Serve(c)
      BY <2>4, <2>5, <2>6, <2>7, <2>8, <2>9, <2>10, <2>11, <2>12, <2>13, <3>2 DEF Serve
    <3>3. CASE World
      BY <2>14, <2>15, <2>16, <3>3 DEF World
    <3> QED
      BY <2>17, <3>1, <3>2, <3>3 DEF Next

\* A run or a preview in a runtime taken from the list is not refused for its
\* role in the environment the list was asked for, however old the rows were and
\* whatever happened since: roles stay, and the picker's rule for them implies the
\* route's (runtime_management.go 373-430; strategy.go 107-128).
THEOREM PicksFit == SafeSpec => []PicksAreNotRefused
<1>1. Init => FitInv /\ \A c \in Clients : Picked(c)
  <2>1. ASSUME Init
        PROVE  FitInv
    BY <2>1 DEF Init, FitInv, Placed, Suits
  <2>2. ASSUME Init, NEW c \in Clients
        PROVE  Picked(c)
    <3>1. pick[c] = NoPick /\ pc[c] = "idle" /\ answer[c] = "none"
      BY <2>2 DEF Init
    <3> QED
      BY <3>1, NothingPicked DEF Picked
  <2> QED
    BY <2>1, <2>2
<1>2. TypeInv /\ FitInv /\ (\A c \in Clients : Picked(c)) /\ [Next]_vars
        => FitInv' /\ (\A c \in Clients : Picked(c))'
  BY SessionsStayPlaced, RequestsStaySuited, PicksStay DEF FitInv
<1>3. (\A c \in Clients : Picked(c)) => PicksAreNotRefused
  BY DEF Picked, PicksAreNotRefused
<1> QED
  BY <1>1, <1>2, <1>3, TypeInvariant, PTL DEF SafeSpec

-----------------------------------------------------------------------------
(* Stopping.                                                               *)

\* The record of a session says that it is over only when it is.
Trails(s) == record[s] \in Over => live[s] \in Over

\* What a request says, or is about to say, is over is over.
Truthful(c) ==
  /\ pc[c] = "reread" /\ stopped[c] => live[sess[c]] \in Over
  /\ op[c] = "stop" /\ answer[c] = "stopped" => live[sess[c]] \in Over
  /\ \A s \in Sessions : told[c][s] = "over" => live[s] \in Over

OverInv == (\A s \in Sessions : Trails(s)) /\ (\A c \in Clients : Truthful(c))

\* A record says over of a session that is.
LEMMA RecordIsTrue ==
  ASSUME TypeInv, OverInv, NEW s \in Sessions, strategySessionTerminal(record[s])
  PROVE  live[s] \in Over
  BY DEF TypeInv, WorldOK, OverInv, Trails, Over, Statuses, strategySessionTerminal

\* A request that is left alone is as truthful as before.
LEMMA TruthfulStill ==
  ASSUME TypeInv, [Next]_vars, NEW c \in Clients, Truthful(c),
         op'[c] = op[c], pc'[c] = pc[c], sess'[c] = sess[c],
         stopped'[c] = stopped[c], answer'[c] = answer[c], told'[c] = told[c]
  PROVE  Truthful(c)'
<1>1. \A s \in Sessions : told'[c][s] = "over" => live'[s] \in Over
  BY SessionsGoOn DEF Truthful, GoesOn
<1>2. (pc[c] = "reread" \/ op[c] = "stop") => sess[c] \in Sessions
  BY DEF TypeInv, RequestOK
<1> QED
  BY <1>1, <1>2, SessionsGoOn DEF Truthful, GoesOn

\* A request answers truthfully if what it says is over is.
LEMMA TruthfulAnswered ==
  ASSUME TypeInv, OverInv, [Next]_vars, NEW c \in Clients, NEW a, Reply(c, a),
         UNCHANGED <<op, sess>>,
         op[c] = "stop" /\ a = "stopped" => live'[sess[c]] \in Over,
         \/ UNCHANGED told
         \/ \E s \in Sessions, w \in {"going", "over"} :
              Tell(c, s, w) /\ (w = "over" => live'[s] \in Over)
  PROVE  \A d \in Clients : Truthful(d)'
<1>1. /\ pc'[c] = "idle" /\ answer'[c] = a
      /\ \A d \in Clients : d # c => /\ pc'[d] = pc[d] /\ stopped'[d] = stopped[d]
                                     /\ answer'[d] = answer[d]
  BY DEF Reply, TypeInv, RequestOK
<1>2. /\ \A d \in Clients : d # c => told'[d] = told[d]
      /\ \A s \in Sessions : told'[c][s] = "over" => live'[s] \in Over
  <2>1. told \in [Clients -> [Sessions -> {"nothing", "going", "over"}]]
    BY DEF TypeInv, RequestOK
  <2>2. \A s \in Sessions : told[c][s] = "over" => live'[s] \in Over
    BY SessionsGoOn DEF OverInv, Truthful, GoesOn
  <2>3. CASE UNCHANGED told
    BY <2>2, <2>3
  <2>4. CASE ~UNCHANGED told
    <3>1. PICK s \in Sessions, w \in {"going", "over"} :
            Tell(c, s, w) /\ (w = "over" => live'[s] \in Over)
      BY <2>4
    <3>2. told' = [told EXCEPT ![c] = [told[c] EXCEPT ![s] = w]]
      BY <3>1 DEF Tell
    <3>3. \A d \in Clients : d # c => told'[d] = told[d]
      BY <2>1, <3>2
    <3>4. told'[c] = [told[c] EXCEPT ![s] = w]
      BY <2>1, <3>2
    <3>5. told[c] \in [Sessions -> {"nothing", "going", "over"}]
      BY <2>1
    <3> QED
      BY <2>2, <3>1, <3>3, <3>4, <3>5
  <2> QED
    BY <2>3, <2>4
<1>3. Truthful(c)'
  BY <1>1, <1>2 DEF Truthful
<1>4. ASSUME NEW d \in Clients, d # c
      PROVE  Truthful(d)'
  BY <1>1, <1>2, <1>4, TruthfulStill DEF OverInv
<1> QED
  BY <1>3, <1>4

\* Every step keeps records trailing.
LEMMA RecordsTrail ==
  ASSUME TypeInv, OverInv, [Next]_vars
  PROVE  \A t \in Sessions : Trails(t)'
<1>1. SUFFICES ASSUME NEW t \in Sessions
               PROVE  Trails(t)'
  OBVIOUS
<1>2. (record'[t] = record[t]) \/ (record'[t] = live[t])
  <2>0. ASSUME NEW c \in Clients, NEW q \in Queries, NEW row \in Rows, NEW r \in Runtimes,
               listRuntimes(c, q, row, r)
        PROVE  record'[t] = record[t] \/ record'[t] = live[t]
    BY <2>0 DEF listRuntimes, world
  <2>1. ASSUME NEW c \in Clients, NEW which \in {"run", "preview"}, NEW r \in Runtimes,
               handleRunStrategy(c, which, r)
        PROVE  record'[t] = record[t] \/ record'[t] = live[t]
    BY <2>1 DEF handleRunStrategy, world
  <2>2. ASSUME NEW c \in Clients, NEW which \in {"status", "stop"}, NEW s \in Sessions,
               handleStrategySession(c, which, s)
        PROVE  record'[t] = record[t] \/ record'[t] = live[t]
    BY <2>2 DEF handleStrategySession, world
  <2>3. ASSUME NEW c \in Clients, NEW r \in Runtimes, EndRuntime(c, r)
        PROVE  record'[t] = record[t] \/ record'[t] = live[t]
    BY <2>3 DEF EndRuntime, world
  <2>4. ASSUME NEW c \in Clients, NEW e \in Environments,
               strategyRoutePolicyForAccount(c, e)
        PROVE  record'[t] = record[t] \/ record'[t] = live[t]
    BY <2>4 DEF strategyRoutePolicyForAccount, world
  <2>5. ASSUME NEW c \in Clients, loadSessionForRuntimeRoute(c)
        PROVE  record'[t] = record[t] \/ record'[t] = live[t]
    BY <2>5 DEF loadSessionForRuntimeRoute, world
  <2>6. ASSUME NEW c \in Clients, strategyRoutePolicyForSelectedRuntime(c)
        PROVE  record'[t] = record[t] \/ record'[t] = live[t]
    BY <2>6 DEF strategyRoutePolicyForSelectedRuntime, world
  <2>7. ASSUME NEW c \in Clients, resolveStrategyRuntime(c)
        PROVE  record'[t] = record[t] \/ record'[t] = live[t]
    BY <2>7 DEF resolveStrategyRuntime, world
  <2>8. ASSUME NEW c \in Clients, NEW s \in Sessions, NEW lost \in BOOLEAN,
               RunStrategy(c, s, lost)
        PROVE  record'[t] = record[t] \/ record'[t] = live[t]
    BY <2>8 DEF RunStrategy, world
  <2>9. ASSUME NEW c \in Clients, PreviewRunStrategy(c)
        PROVE  record'[t] = record[t] \/ record'[t] = live[t]
    BY <2>9 DEF PreviewRunStrategy, world
  <2>10. ASSUME NEW c \in Clients, GetStrategyStatus(c)
        PROVE  record'[t] = record[t] \/ record'[t] = live[t]
    BY <2>10 DEF GetStrategyStatus, world
  <2>11. ASSUME NEW c \in Clients, NEW outcome \in Statuses, NEW said \in BOOLEAN, NEW lost \in BOOLEAN,
               StopStrategy(c, outcome, said, lost)
        PROVE  record'[t] = record[t] \/ record'[t] = live[t]
    BY <2>11 DEF StopStrategy, world
  <2>12. ASSUME NEW c \in Clients, NEW read \in BOOLEAN, handleStopStrategy(c, read)
        PROVE  record'[t] = record[t] \/ record'[t] = live[t]
    BY <2>12 DEF handleStopStrategy, world
  <2>13. ASSUME NEW c \in Clients, UpstreamError(c)
        PROVE  record'[t] = record[t] \/ record'[t] = live[t]
    BY <2>13 DEF UpstreamError, world
  <2>14. ASSUME NEW s \in Sessions, NEW status \in Statuses, Proceed(s, status)
        PROVE  record'[t] = record[t] \/ record'[t] = live[t]
    BY <2>14 DEF Proceed, world
  <2>15. ASSUME NEW s \in Sessions, Report(s)
        PROVE  record'[t] = record[t] \/ record'[t] = live[t]
    BY <2>15 DEF Report, TypeInv, WorldOK
  <2>16. ASSUME NEW r \in Runtimes, NEW state \in {"online", "offline"}, Relink(r, state)
        PROVE  record'[t] = record[t] \/ record'[t] = live[t]
    BY <2>16 DEF Relink, world
  <2>17. CASE UNCHANGED vars
    BY <2>17 DEF vars, world
  <2> QED
    <3>1. CASE \E c \in Clients : Call(c)
      BY <2>0, <2>1, <2>2, <2>3, <3>1 DEF Call
    <3>2. CASE \E c \in Clients : Serve(c)
      BY <2>4, <2>5, <2>6, <2>7, <2>8, <2>9, <2>10, <2>11, <2>12, <2>13, <3>2 DEF Serve
    <3>3. CASE World
      BY <2>14, <2>15, <2>16, <3>3 DEF World
    <3> QED
      BY <2>17, <3>1, <3>2, <3>3 DEF Next
<1> QED
  BY <1>2, SessionsGoOn DEF OverInv, Trails, GoesOn

\* Every step keeps requests truthful.
LEMMA RequestsStayTruthful ==
  ASSUME TypeInv, OverInv, [Next]_vars
  PROVE  \A d \in Clients : Truthful(d)'
<1> USE DEF world, scratch
<1> QED
  <2>0. ASSUME NEW c \in Clients, NEW q \in Queries, NEW row \in Rows, NEW r \in Runtimes,
               listRuntimes(c, q, row, r)
        PROVE  \A d \in Clients : Truthful(d)'
    <3>1. ASSUME NEW d \in Clients, d # c
          PROVE  Truthful(d)'
      BY <2>0, <3>1, TruthfulStill DEF listRuntimes, Reply, OverInv, TypeInv, RequestOK
    <3>2. pc'[c] # "reread" /\ answer'[c] # "stopped" /\ UNCHANGED <<told, live>>
      BY <2>0 DEF listRuntimes, Reply, TypeInv, RequestOK
    <3>3. Truthful(c)'
      BY <3>2 DEF OverInv, Truthful
    <3> QED
      BY <3>1, <3>3
  <2>1. ASSUME NEW c \in Clients, NEW which \in {"run", "preview"}, NEW r \in Runtimes,
               handleRunStrategy(c, which, r)
        PROVE  \A d \in Clients : Truthful(d)'
    <3>1. ASSUME NEW d \in Clients, d # c
          PROVE  Truthful(d)'
      BY <2>1, <3>1, TruthfulStill DEF handleRunStrategy, Begin, OverInv, TypeInv, RequestOK
    <3>2. pc'[c] # "reread" /\ answer'[c] # "stopped" /\ UNCHANGED <<told, live>>
      BY <2>1 DEF handleRunStrategy, Begin, TypeInv, RequestOK
    <3>3. Truthful(c)'
      BY <3>2 DEF OverInv, Truthful
    <3> QED
      BY <3>1, <3>3
  <2>2. ASSUME NEW c \in Clients, NEW which \in {"status", "stop"}, NEW s \in Sessions,
               handleStrategySession(c, which, s)
        PROVE  \A d \in Clients : Truthful(d)'
    <3>1. ASSUME NEW d \in Clients, d # c
          PROVE  Truthful(d)'
      BY <2>2, <3>1, TruthfulStill DEF handleStrategySession, Begin, OverInv, TypeInv, RequestOK
    <3>2. pc'[c] # "reread" /\ answer'[c] # "stopped" /\ UNCHANGED <<told, live>>
      BY <2>2 DEF handleStrategySession, Begin, TypeInv, RequestOK
    <3>3. Truthful(c)'
      BY <3>2 DEF OverInv, Truthful
    <3> QED
      BY <3>1, <3>3
  <2>3. ASSUME NEW c \in Clients, NEW r \in Runtimes, EndRuntime(c, r)
        PROVE  \A d \in Clients : Truthful(d)'
    <3>1. ASSUME NEW d \in Clients, d # c
          PROVE  Truthful(d)'
      BY <2>3, <3>1, TruthfulStill DEF EndRuntime, Reply, OverInv, TypeInv, RequestOK
    <3>2. pc'[c] # "reread" /\ answer'[c] # "stopped" /\ UNCHANGED told
      BY <2>3 DEF EndRuntime, Reply, TypeInv, RequestOK
    <3>3. Truthful(c)'
      BY <3>2, SessionsGoOn DEF OverInv, Truthful, GoesOn
    <3> QED
      BY <3>1, <3>3
  <2>4. ASSUME NEW c \in Clients, NEW e \in Environments,
               strategyRoutePolicyForAccount(c, e)
        PROVE  \A d \in Clients : Truthful(d)'
    <3>1. ASSUME NEW d \in Clients, d # c
          PROVE  Truthful(d)'
      BY <2>4, <3>1, TruthfulStill DEF strategyRoutePolicyForAccount, Go, OverInv, TypeInv, RequestOK
    <3>2. pc'[c] # "reread" /\ UNCHANGED <<op, sess, answer, told, live>>
      BY <2>4 DEF strategyRoutePolicyForAccount, Go, TypeInv, RequestOK
    <3>3. Truthful(c)'
      BY <3>2 DEF OverInv, Truthful
    <3> QED
      BY <3>1, <3>3
  <2>5. ASSUME NEW c \in Clients, loadSessionForRuntimeRoute(c)
        PROVE  \A d \in Clients : Truthful(d)'
    <3>1. sess[c] \in Sessions /\ UNCHANGED <<op, sess, live>>
      BY <2>5 DEF loadSessionForRuntimeRoute, TypeInv, RequestOK
    <3>2. CASE record[sess[c]] = "none"
      BY <2>5, <3>1, <3>2, TruthfulAnswered DEF loadSessionForRuntimeRoute
    <3>3. CASE record[sess[c]] # "none" /\ strategySessionTerminal(record[sess[c]])
      <4>1. live'[sess[c]] \in Over
        BY <3>1, <3>3, RecordIsTrue
      <4>2. PICK a : Reply(c, a)
        BY <2>5, <3>3 DEF loadSessionForRuntimeRoute
      <4>3. Tell(c, sess[c], "over")
        BY <2>5, <3>3 DEF loadSessionForRuntimeRoute
      <4> QED
        BY <3>1, <4>1, <4>2, <4>3, TruthfulAnswered
    <3>4. CASE record[sess[c]] # "none" /\ ~strategySessionTerminal(record[sess[c]])
      <4>1. pc' = [pc EXCEPT ![c] = "policy"] /\ UNCHANGED <<stopped, answer, told>>
        BY <2>5, <3>4 DEF loadSessionForRuntimeRoute, Go
      <4>2. pc'[c] # "reread"
        BY <4>1 DEF TypeInv, RequestOK
      <4>3. Truthful(c)'
        BY <3>1, <4>1, <4>2 DEF OverInv, Truthful
      <4>4. ASSUME NEW d \in Clients, d # c
            PROVE  Truthful(d)'
        BY <3>1, <4>1, <4>4, TruthfulStill DEF OverInv, TypeInv, RequestOK
      <4> QED
        BY <4>3, <4>4
    <3> QED
      BY <3>2, <3>3, <3>4
  <2>6. ASSUME NEW c \in Clients, strategyRoutePolicyForSelectedRuntime(c)
        PROVE  \A d \in Clients : Truthful(d)'
    <3>1. ASSUME NEW d \in Clients, d # c
          PROVE  Truthful(d)'
      BY <2>6, <3>1, TruthfulStill DEF strategyRoutePolicyForSelectedRuntime, Go, OverInv, TypeInv, RequestOK
    <3>2. pc'[c] # "reread" /\ UNCHANGED <<op, sess, answer, told, live>>
      BY <2>6 DEF strategyRoutePolicyForSelectedRuntime, Go, TypeInv, RequestOK
    <3>3. Truthful(c)'
      BY <3>2 DEF OverInv, Truthful
    <3> QED
      BY <3>1, <3>3
  <2>7. ASSUME NEW c \in Clients, resolveStrategyRuntime(c)
        PROVE  \A d \in Clients : Truthful(d)'
    <3>1. CASE RoleFits(rt[c], role[c], env[c]) /\ link[rt[c]] = "online"
      <4>1. /\ pc' = [pc EXCEPT ![c] = "rpc"]
            /\ UNCHANGED <<op, sess, stopped, answer, told, live>>
        BY <2>7, <3>1 DEF resolveStrategyRuntime, Go
      <4>2. pc'[c] # "reread"
        BY <4>1 DEF TypeInv, RequestOK
      <4>3. Truthful(c)'
        BY <4>1, <4>2 DEF OverInv, Truthful
      <4>4. ASSUME NEW d \in Clients, d # c
            PROVE  Truthful(d)'
        BY <4>1, <4>4, TruthfulStill DEF OverInv, TypeInv, RequestOK
      <4> QED
        BY <4>3, <4>4
    <3>2. CASE ~(RoleFits(rt[c], role[c], env[c]) /\ link[rt[c]] = "online")
      <4>1. PICK a : Reply(c, a) /\ a # "stopped"
        BY <2>7, <3>2 DEF resolveStrategyRuntime
      <4> QED
        BY <2>7, <3>2, <4>1, TruthfulAnswered DEF resolveStrategyRuntime
    <3> QED
      BY <3>1, <3>2
  <2>8. ASSUME NEW c \in Clients, NEW s \in Sessions, NEW lost \in BOOLEAN,
               RunStrategy(c, s, lost)
        PROVE  \A d \in Clients : Truthful(d)'
    <3>1. PICK a : Reply(c, a) /\ a # "stopped"
      BY <2>8 DEF RunStrategy
    <3>2. UNCHANGED told \/ Tell(c, s, "going")
      BY <2>8 DEF RunStrategy
    <3> QED
      BY <2>8, <3>1, <3>2, TruthfulAnswered DEF RunStrategy
  <2>9. ASSUME NEW c \in Clients, PreviewRunStrategy(c)
        PROVE  \A d \in Clients : Truthful(d)'
    <3>1. PICK a : Reply(c, a) /\ a # "stopped"
      BY <2>9 DEF PreviewRunStrategy
    <3> QED
      BY <2>9, <3>1, TruthfulAnswered DEF PreviewRunStrategy
  <2>10. ASSUME NEW c \in Clients, GetStrategyStatus(c)
        PROVE  \A d \in Clients : Truthful(d)'
    <3>1. sess[c] \in Sessions
      BY <2>10 DEF GetStrategyStatus, Proxied, TypeInv, RequestOK
    <3>2. PICK w \in {"going", "over"} :
            Tell(c, sess[c], w) /\ (w = "over" => live[sess[c]] \in Over)
      BY <2>10 DEF GetStrategyStatus
    <3>3. Reply(c, "status") /\ UNCHANGED <<op, sess, live>>
      BY <2>10 DEF GetStrategyStatus
    <3> QED
      BY <3>1, <3>2, <3>3, TruthfulAnswered
  <2>11. ASSUME NEW c \in Clients, NEW outcome \in Statuses, NEW said \in BOOLEAN, NEW lost \in BOOLEAN,
               StopStrategy(c, outcome, said, lost)
        PROVE  \A d \in Clients : Truthful(d)'
    <3>1. CASE lost
      BY <2>11, <3>1, TruthfulAnswered DEF StopStrategy
    <3>2. CASE ~lost
      <4>1. /\ stopped' = [stopped EXCEPT ![c] = said]
            /\ pc' = [pc EXCEPT ![c] = "reread"]
            /\ UNCHANGED <<op, sess, answer, told>>
        BY <2>11, <3>2 DEF StopStrategy, Go
      <4>2. live'[sess[c]] \in Over \/ ~said
        <5>1. sess[c] \in Sessions /\ live'[sess[c]] = outcome
          BY <2>11 DEF StopStrategy, Proxied, TypeInv, WorldOK, RequestOK
        <5>2. outcome \in Over \/ said = (outcome = "stopped")
          BY <2>11 DEF StopStrategy
        <5> QED
          BY <2>11, <5>1, <5>2 DEF Over
      <4>3. (op[c] = "stop" /\ answer[c] = "stopped") => live'[sess[c]] \in Over
        BY SessionsGoOn DEF GoesOn, OverInv, Truthful, TypeInv, RequestOK
      <4>4. \A s \in Sessions : told[c][s] = "over" => live'[s] \in Over
        BY SessionsGoOn DEF GoesOn, OverInv, Truthful
      <4>5. stopped'[c] = said
        BY <4>1 DEF TypeInv, RequestOK
      <4>6. Truthful(c)'
        BY <4>1, <4>2, <4>3, <4>4, <4>5 DEF Truthful
      <4>7. ASSUME NEW d \in Clients, d # c
            PROVE  Truthful(d)'
        BY <4>1, <4>7, TruthfulStill DEF OverInv, TypeInv, RequestOK
      <4> QED
        BY <4>6, <4>7
    <3> QED
      BY <3>1, <3>2
  <2>12. ASSUME NEW c \in Clients, NEW read \in BOOLEAN, handleStopStrategy(c, read)
        PROVE  \A d \in Clients : Truthful(d)'
    <3>1. sess[c] \in Sessions /\ UNCHANGED <<op, sess, live>>
      BY <2>12 DEF handleStopStrategy, TypeInv, RequestOK
    <3>2. stopped[c] => live[sess[c]] \in Over
      BY <2>12 DEF handleStopStrategy, OverInv, Truthful
    <3>3. UNCHANGED told \/ (Tell(c, sess[c], "over") /\ live[sess[c]] \in Over)
      <4>1. CASE UNCHANGED told
        BY <4>1
      <4>2. CASE ~UNCHANGED told
        <5>1. Tell(c, sess[c], "over") /\ (stopped[c] \/ record[sess[c]] \in Over)
          BY <2>12, <4>2 DEF handleStopStrategy
        <5> QED
          BY <3>1, <3>2, <5>1 DEF OverInv, Trails
      <4> QED
        BY <4>1, <4>2
    <3>4. PICK a : Reply(c, a) /\ (a = "stopped" => stopped[c])
      <4>1. CASE stopped[c]
        BY <2>12, <4>1 DEF handleStopStrategy
      <4>2. CASE ~stopped[c]
        <5>1. Reply(c, "not stopped")
          BY <2>12, <4>2 DEF handleStopStrategy
        <5>2. "not stopped" # "stopped"
          OBVIOUS
        <5> QED
          BY <5>1, <5>2, Zenon
      <4> QED
        BY <4>1, <4>2
    <3> QED
      BY <3>1, <3>2, <3>3, <3>4, TruthfulAnswered
  <2>13. ASSUME NEW c \in Clients, UpstreamError(c)
        PROVE  \A d \in Clients : Truthful(d)'
    <3>1. PICK a : Reply(c, a) /\ a # "stopped"
      BY <2>13 DEF UpstreamError
    <3> QED
      BY <2>13, <3>1, TruthfulAnswered DEF UpstreamError
  <2>14. ASSUME NEW s \in Sessions, NEW status \in Statuses, Proceed(s, status)
        PROVE  \A d \in Clients : Truthful(d)'
    BY <2>14, TruthfulStill DEF Proceed, OverInv
  <2>15. ASSUME NEW s \in Sessions, Report(s)
        PROVE  \A d \in Clients : Truthful(d)'
    BY <2>15, TruthfulStill DEF Report, OverInv
  <2>16. ASSUME NEW r \in Runtimes, NEW state \in {"online", "offline"}, Relink(r, state)
        PROVE  \A d \in Clients : Truthful(d)'
    BY <2>16, TruthfulStill DEF Relink, OverInv
  <2>17. CASE UNCHANGED vars
    BY <2>17, TruthfulStill DEF vars, OverInv
  <2> QED
    <3>1. CASE \E c \in Clients : Call(c)
      BY <2>0, <2>1, <2>2, <2>3, <3>1 DEF Call
    <3>2. CASE \E c \in Clients : Serve(c)
      BY <2>4, <2>5, <2>6, <2>7, <2>8, <2>9, <2>10, <2>11, <2>12, <2>13, <3>2 DEF Serve
    <3>3. CASE World
      BY <2>14, <2>15, <2>16, <3>3 DEF World
    <3> QED
      BY <2>17, <3>1, <3>2, <3>3 DEF Next

\* OverInv is an inductive invariant.
LEMMA OverInvariant == SafeSpec => []OverInv
<1>1. Init => OverInv
  <2>1. ASSUME Init
        PROVE  /\ record = [s \in Sessions |-> "none"]
               /\ pc = [c \in Clients |-> "idle"]
               /\ answer = [c \in Clients |-> "none"]
               /\ told = [c \in Clients |-> [s \in Sessions |-> "nothing"]]
    BY <2>1 DEF Init
  <2> QED
    BY <2>1 DEF OverInv, Trails, Truthful, Over
<1>2. TypeInv /\ OverInv /\ [Next]_vars => OverInv'
  BY RecordsTrail, RequestsStayTruthful DEF OverInv
<1> QED
  BY <1>1, <1>2, TypeInvariant, PTL DEF SafeSpec

\* An answer of stopped is the truth, whether the record or the runtime gave it
\* (strategy.go 430-463).
THEOREM StopIsTrue == SafeSpec => []StoppedMeansStopped
<1>1. OverInv => StoppedMeansStopped
  BY DEF OverInv, Truthful, StoppedMeansStopped
<1> QED
  BY <1>1, OverInvariant, PTL

\* Telling a client about one session leaves what it was told of the others.
LEMMA ToldKept ==
  ASSUME told \in [Clients -> [Sessions -> {"nothing", "going", "over"}]],
         NEW c \in Clients, NEW s, NEW what,
         UNCHANGED told \/ Tell(c, s, what),
         NEW d \in Clients, NEW t \in Sessions, told[d][t] = "over",
         (c = d /\ s = t) => what = "over"
  PROVE  told'[d][t] = "over"
<1>1. CASE UNCHANGED told
  BY <1>1
<1>2. CASE Tell(c, s, what)
  <2>1. told'[d] = IF d = c THEN [told[c] EXCEPT ![s] = what] ELSE told[d]
    BY <1>2 DEF Tell
  <2>2. CASE d = c
    <3>1. told'[d] = [told[d] EXCEPT ![s] = what]
      BY <2>1, <2>2
    <3>2. told[d] \in [Sessions -> {"nothing", "going", "over"}]
      OBVIOUS
    <3>3. told'[d][t] = IF t = s THEN what ELSE told[d][t]
      BY <3>1, <3>2
    <3> QED
      BY <2>2, <3>3
  <2>3. CASE d # c
    BY <2>1, <2>3
  <2> QED
    BY <2>2, <2>3
<1> QED
  BY <1>1, <1>2

\* Every step leaves what was told.
LEMMA ToldStays ==
  ASSUME TypeInv, OverInv, [Next]_vars, NEW d \in Clients, NEW t \in Sessions,
         told[d][t] = "over"
  PROVE  told'[d][t] = "over"
<1> USE DEF Go, Begin, world, scratch
<1>1. told \in [Clients -> [Sessions -> {"nothing", "going", "over"}]]
  BY DEF TypeInv, RequestOK
<1> QED
  <2>0. ASSUME NEW c \in Clients, NEW q \in Queries, NEW row \in Rows, NEW r \in Runtimes,
               listRuntimes(c, q, row, r)
        PROVE  told'[d][t] = "over"
    BY <2>0 DEF listRuntimes
  <2>1. ASSUME NEW c \in Clients, NEW which \in {"run", "preview"}, NEW r \in Runtimes,
               handleRunStrategy(c, which, r)
        PROVE  told'[d][t] = "over"
    BY <2>1 DEF handleRunStrategy
  <2>2. ASSUME NEW c \in Clients, NEW which \in {"status", "stop"}, NEW s \in Sessions,
               handleStrategySession(c, which, s)
        PROVE  told'[d][t] = "over"
    BY <2>2 DEF handleStrategySession
  <2>3. ASSUME NEW c \in Clients, NEW r \in Runtimes, EndRuntime(c, r)
        PROVE  told'[d][t] = "over"
    BY <2>3 DEF EndRuntime
  <2>4. ASSUME NEW c \in Clients, NEW e \in Environments,
               strategyRoutePolicyForAccount(c, e)
        PROVE  told'[d][t] = "over"
    BY <2>4 DEF strategyRoutePolicyForAccount
  <2>5. ASSUME NEW c \in Clients, loadSessionForRuntimeRoute(c)
        PROVE  told'[d][t] = "over"
    <3>1. UNCHANGED told \/ Tell(c, sess[c], "over")
      <4>1. CASE record[sess[c]] = "none"
        BY <2>5, <4>1 DEF loadSessionForRuntimeRoute
      <4>2. CASE record[sess[c]] # "none" /\ strategySessionTerminal(record[sess[c]])
        BY <2>5, <4>2 DEF loadSessionForRuntimeRoute
      <4>3. CASE record[sess[c]] # "none" /\ ~strategySessionTerminal(record[sess[c]])
        BY <2>5, <4>3 DEF loadSessionForRuntimeRoute
      <4> QED
        BY <4>1, <4>2, <4>3
    <3> QED
      BY <1>1, <3>1, ToldKept
  <2>6. ASSUME NEW c \in Clients, strategyRoutePolicyForSelectedRuntime(c)
        PROVE  told'[d][t] = "over"
    BY <2>6 DEF strategyRoutePolicyForSelectedRuntime
  <2>7. ASSUME NEW c \in Clients, resolveStrategyRuntime(c)
        PROVE  told'[d][t] = "over"
    <3>1. UNCHANGED told
      BY <2>7 DEF resolveStrategyRuntime
    <3> QED
      BY <3>1
  <2>8. ASSUME NEW c \in Clients, NEW s \in Sessions, NEW lost \in BOOLEAN,
               RunStrategy(c, s, lost)
        PROVE  told'[d][t] = "over"
    <3>1. live[s] \notin Over
      BY <2>8 DEF RunStrategy, Over
    <3>2. told[c][s] # "over"
      BY <3>1 DEF OverInv, Truthful
    <3>3. UNCHANGED told \/ Tell(c, s, "going")
      BY <2>8 DEF RunStrategy
    <3> QED
      BY <1>1, <3>2, <3>3, ToldKept
  <2>9. ASSUME NEW c \in Clients, PreviewRunStrategy(c)
        PROVE  told'[d][t] = "over"
    BY <2>9 DEF PreviewRunStrategy
  <2>10. ASSUME NEW c \in Clients, GetStrategyStatus(c)
        PROVE  told'[d][t] = "over"
    <3>1. sess[c] \in Sessions
      BY <2>10 DEF GetStrategyStatus, Proxied, TypeInv, RequestOK
    <3>2. told[c][sess[c]] = "over" => Tell(c, sess[c], "over")
      BY <2>10, <3>1 DEF GetStrategyStatus, OverInv, Truthful
    <3>3. PICK w : Tell(c, sess[c], w)
      BY <2>10 DEF GetStrategyStatus
    <3>4. CASE told[c][sess[c]] = "over"
      BY <1>1, <3>2, <3>4, ToldKept
    <3>5. CASE told[c][sess[c]] # "over"
      BY <1>1, <3>3, <3>5, ToldKept
    <3> QED
      BY <3>4, <3>5
  <2>11. ASSUME NEW c \in Clients, NEW outcome \in Statuses, NEW said \in BOOLEAN, NEW lost \in BOOLEAN,
               StopStrategy(c, outcome, said, lost)
        PROVE  told'[d][t] = "over"
    BY <2>11 DEF StopStrategy
  <2>12. ASSUME NEW c \in Clients, NEW read \in BOOLEAN, handleStopStrategy(c, read)
        PROVE  told'[d][t] = "over"
    <3>1. UNCHANGED told \/ Tell(c, sess[c], "over")
      BY <2>12 DEF handleStopStrategy
    <3> QED
      BY <1>1, <3>1, ToldKept
  <2>13. ASSUME NEW c \in Clients, UpstreamError(c)
        PROVE  told'[d][t] = "over"
    BY <2>13 DEF UpstreamError
  <2>14. ASSUME NEW s \in Sessions, NEW status \in Statuses, Proceed(s, status)
        PROVE  told'[d][t] = "over"
    BY <2>14 DEF Proceed
  <2>15. ASSUME NEW s \in Sessions, Report(s)
        PROVE  told'[d][t] = "over"
    BY <2>15 DEF Report
  <2>16. ASSUME NEW r \in Runtimes, NEW state \in {"online", "offline"}, Relink(r, state)
        PROVE  told'[d][t] = "over"
    BY <2>16 DEF Relink
  <2>17. CASE UNCHANGED vars
    BY <2>17 DEF vars
  <2> QED
    <3>1. CASE \E c \in Clients : Call(c)
      BY <2>0, <2>1, <2>2, <2>3, <3>1 DEF Call
    <3>2. CASE \E c \in Clients : Serve(c)
      BY <2>4, <2>5, <2>6, <2>7, <2>8, <2>9, <2>10, <2>11, <2>12, <2>13, <3>2 DEF Serve
    <3>3. CASE World
      BY <2>14, <2>15, <2>16, <3>3 DEF World
    <3> QED
      BY <2>17, <3>1, <3>2, <3>3 DEF Next

\* A session that was over once is never reported as going on, for no source
\* of a status is ahead of the session, and it is over for good (strategy.go 365-400).
THEOREM OverIsFinal == SafeSpec => NoResurrection
<1>1. ASSUME TypeInv, OverInv, [Next]_vars
      PROVE  [\A c \in Clients, s \in Sessions :
                told[c][s] = "over" => told'[c][s] = "over"]_vars
  BY <1>1, ToldStays
<1> QED
  BY <1>1, TypeInvariant, OverInvariant, PTL DEF SafeSpec, NoResurrection

-----------------------------------------------------------------------------
(* The contract.                                                           *)

\* What the contract sees of a state.
Closed == {r \in Runtimes : link[r] = "ended"}
Phases == [s \in Sessions |-> Phase(s)]

\* A step that the contract allows.
ContractAllows == [Contract!Next]_(Contract!vars)

\* The contract's variables, in the state and in the next.
LEMMA Seen ==
  /\ Contract!vars = <<Phases, home, Closed, told>>
  /\ Contract!vars' = <<Phases', home', Closed', told'>>
  BY DEF Contract!vars, Phases, Closed

\* A step the contract does not see.
LEMMA Unseen ==
  ASSUME \A s \in Sessions : Phase(s)' = Phase(s),
         UNCHANGED <<home, told>>,
         \A r \in Runtimes : (link'[r] = "ended") <=> (link[r] = "ended")
  PROVE  ContractAllows
<1>1. Phases' = Phases
  BY DEF Phases
<1>2. Closed' = Closed
  BY DEF Closed
<1> QED
  BY <1>1, <1>2, Seen DEF ContractAllows

\* A client is told what a session is.
LEMMA Informed ==
  ASSUME UNCHANGED <<live, home, link>>, NEW c \in Clients, NEW s \in Sessions,
         live[s] # "none", Tell(c, s, Phase(s))
  PROVE  ContractAllows
<1>1. Phases' = Phases /\ Closed' = Closed /\ home' = home
  BY DEF Phases, Phase, Closed
<1>2. Phases[s] = Phase(s) /\ Phase(s) # "nothing"
  BY DEF Phases, Phase
<1>3. told' = [told EXCEPT ![c] = [told[c] EXCEPT ![s] = Phases[s]]]
  BY <1>2 DEF Tell
<1>4. Contract!Inform(c, s)
  BY <1>1, <1>2, <1>3 DEF Contract!Inform, Contract!Told, Phases, Closed
<1> QED
  BY <1>4 DEF Contract!Next, ContractAllows

\* A session that goes on moves on: it is over now, or the contract sees nothing.
LEMMA Moved ==
  ASSUME WorldOK, NEW s \in Sessions, live[s] # "none", NEW x \in Statuses \ {"none"},
         live[s] \in Over => x = live[s],
         live' = [live EXCEPT ![s] = x], UNCHANGED <<home, link, told>>
  PROVE  ContractAllows
<1>1. live \in [Sessions -> Statuses]
  BY DEF WorldOK
<1>2. live'[s] = x /\ \A t \in Sessions \ {s} : live'[t] = live[t]
  BY <1>1
<1>3. CASE x \in Over /\ live[s] \notin Over
  <2>1. Phases[s] = "going" /\ Phase(s)' = "over"
    BY <1>2, <1>3 DEF Phases, Phase
  <2>2. Phases' = [Phases EXCEPT ![s] = "over"]
    <3>1. \A t \in Sessions \ {s} : Phase(t)' = Phase(t)
      BY <1>2 DEF Phase
    <3> QED
      BY <2>1, <3>1 DEF Phases
  <2>3. Closed' = Closed
    BY DEF Closed
  <2>4. Contract!Finish(s)
    BY <2>1, <2>2, <2>3 DEF Contract!Finish, Phases, Closed
  <2> QED
    BY <2>4 DEF Contract!Next, ContractAllows
<1>4. CASE ~(x \in Over /\ live[s] \notin Over)
  <2>1. \A t \in Sessions : Phase(t)' = Phase(t)
    BY <1>2, <1>4 DEF Phase, Over
  <2> QED
    BY <2>1, Unseen
<1> QED
  BY <1>3, <1>4

\* A session is started.
LEMMA Started ==
  ASSUME WorldOK, NEW c \in Clients, NEW s \in Sessions, NEW r \in Runtimes,
         live[s] = "none", link[r] = "online",
         live' = [live EXCEPT ![s] = "running"], home' = [home EXCEPT ![s] = r],
         UNCHANGED link, UNCHANGED told \/ Tell(c, s, "going")
  PROVE  ContractAllows
<1>1. live \in [Sessions -> Statuses]
  BY DEF WorldOK
<1>2. Phases[s] = "nothing" /\ Phase(s)' = "going"
  BY <1>1 DEF Phases, Phase, Over
<1>3. Phases' = [Phases EXCEPT ![s] = "going"]
  <2>1. \A t \in Sessions \ {s} : Phase(t)' = Phase(t)
    BY <1>1 DEF Phase
  <2> QED
    BY <1>2, <2>1 DEF Phases
<1>4. Closed' = Closed /\ r \notin Closed
  BY DEF Closed
<1>5. Contract!Start(s, r)
  BY <1>2, <1>3, <1>4 DEF Contract!Start, Contract!Told, Tell, Phases, Closed
<1> QED
  BY <1>5 DEF Contract!Next, ContractAllows

\* A runtime is ended.
LEMMA Ended ==
  ASSUME WorldOK, NEW c \in Clients, NEW r \in Runtimes, EndRuntime(c, r)
  PROVE  ContractAllows
<1>1. /\ link[r] # "ended"
      /\ link' = [link EXCEPT ![r] = "ended"]
      /\ live' = [s \in Sessions |->
                    IF home[s] = r /\ live[s] \notin Over THEN "recoverable" ELSE live[s]]
      /\ UNCHANGED <<home, told>>
  BY DEF EndRuntime
<1>2. r \notin Closed /\ Closed' = Closed \cup {r}
  BY <1>1 DEF WorldOK, Closed
<1>3. Phases' = [s \in Sessions |->
                   IF home[s] = r /\ Phases[s] = "going" THEN "over" ELSE Phases[s]]
  <2> SUFFICES ASSUME NEW s \in Sessions
               PROVE  Phase(s)' = IF home[s] = r /\ Phase(s) = "going" THEN "over" ELSE Phase(s)
    BY DEF Phases
  <2>1. live[s] = "none" => home[s] = NoRuntime /\ NoRuntime # r
    BY SessionControlAssumption DEF WorldOK
  <2> QED
    BY <1>1, <2>1 DEF Phase, Over
<1>4. Contract!Close(r)
  BY <1>1, <1>2, <1>3 DEF Contract!Close, Phases, Closed
<1> QED
  BY <1>4 DEF Contract!Next, ContractAllows

\* A step that leaves the sessions and what was told.
LEMMA Elsewhere ==
  ASSUME UNCHANGED <<live, home, link, told>>
  PROVE  ContractAllows
<1>1. \A s \in Sessions : Phase(s)' = Phase(s)
  BY DEF Phase
<1> QED
  BY <1>1, Unseen

LEMMA ContractStep ==
  ASSUME TypeInv, OverInv, [Next]_vars
  PROVE  ContractAllows
<1> USE DEF Go, Begin, world, scratch
<1>0. WorldOK
  BY DEF TypeInv
<1> QED
  <2>0. ASSUME NEW c \in Clients, NEW q \in Queries, NEW row \in Rows, NEW r \in Runtimes,
               listRuntimes(c, q, row, r)
        PROVE  ContractAllows
    BY <2>0, Elsewhere DEF listRuntimes
  <2>1. ASSUME NEW c \in Clients, NEW which \in {"run", "preview"}, NEW r \in Runtimes,
               handleRunStrategy(c, which, r)
        PROVE  ContractAllows
    BY <2>1, Elsewhere DEF handleRunStrategy
  <2>2. ASSUME NEW c \in Clients, NEW which \in {"status", "stop"}, NEW s \in Sessions,
               handleStrategySession(c, which, s)
        PROVE  ContractAllows
    BY <2>2, Elsewhere DEF handleStrategySession
  <2>3. ASSUME NEW c \in Clients, NEW r \in Runtimes, EndRuntime(c, r)
        PROVE  ContractAllows
    BY <1>0, <2>3, Ended
  <2>4. ASSUME NEW c \in Clients, NEW e \in Environments,
               strategyRoutePolicyForAccount(c, e)
        PROVE  ContractAllows
    BY <2>4, Elsewhere DEF strategyRoutePolicyForAccount
  <2>5. ASSUME NEW c \in Clients, loadSessionForRuntimeRoute(c)
        PROVE  ContractAllows
    <3>1. UNCHANGED <<live, home, link>>
      BY <2>5 DEF loadSessionForRuntimeRoute
    <3>2. CASE record[sess[c]] # "none" /\ strategySessionTerminal(record[sess[c]])
      <4>1. sess[c] \in Sessions
        BY <2>5 DEF loadSessionForRuntimeRoute, TypeInv, RequestOK
      <4>2. live[sess[c]] \in Over
        BY <3>2, <4>1, RecordIsTrue DEF OverInv
      <4>3. live[sess[c]] # "none" /\ Phase(sess[c]) = "over"
        BY <4>2 DEF Over, Phase
      <4>4. Tell(c, sess[c], "over")
        BY <2>5, <3>2 DEF loadSessionForRuntimeRoute
      <4> QED
        BY <3>1, <4>1, <4>3, <4>4, Informed
    <3>3. CASE ~(record[sess[c]] # "none" /\ strategySessionTerminal(record[sess[c]]))
      <4>1. UNCHANGED told
        BY <2>5, <3>3 DEF loadSessionForRuntimeRoute
      <4> QED
        BY <3>1, <4>1, Elsewhere
    <3> QED
      BY <3>2, <3>3
  <2>6. ASSUME NEW c \in Clients, strategyRoutePolicyForSelectedRuntime(c)
        PROVE  ContractAllows
    BY <2>6, Elsewhere DEF strategyRoutePolicyForSelectedRuntime
  <2>7. ASSUME NEW c \in Clients, resolveStrategyRuntime(c)
        PROVE  ContractAllows
    BY <2>7, Elsewhere DEF resolveStrategyRuntime
  <2>8. ASSUME NEW c \in Clients, NEW s \in Sessions, NEW lost \in BOOLEAN,
               RunStrategy(c, s, lost)
        PROVE  ContractAllows
    <3>1. rt[c] \in Runtimes /\ link[rt[c]] = "online"
      BY <2>8 DEF RunStrategy, Proxied, TypeInv, RequestOK
    <3>2. /\ live[s] = "none"
          /\ live' = [live EXCEPT ![s] = "running"]
          /\ home' = [home EXCEPT ![s] = rt[c]]
          /\ UNCHANGED link
          /\ UNCHANGED told \/ Tell(c, s, "going")
      BY <2>8 DEF RunStrategy
    <3> QED
      BY <1>0, <3>1, <3>2, Started
  <2>9. ASSUME NEW c \in Clients, PreviewRunStrategy(c)
        PROVE  ContractAllows
    BY <2>9, Elsewhere DEF PreviewRunStrategy
  <2>10. ASSUME NEW c \in Clients, GetStrategyStatus(c)
        PROVE  ContractAllows
    <3>1. sess[c] \in Sessions /\ live[sess[c]] # "none"
      BY <2>10 DEF GetStrategyStatus, Proxied, TypeInv, RequestOK, Linked
    <3>2. Tell(c, sess[c], Phase(sess[c])) /\ UNCHANGED <<live, home, link>>
      BY <2>10, <3>1 DEF GetStrategyStatus, Phase
    <3> QED
      BY <3>1, <3>2, Informed
  <2>11. ASSUME NEW c \in Clients, NEW outcome \in Statuses, NEW said \in BOOLEAN, NEW lost \in BOOLEAN,
               StopStrategy(c, outcome, said, lost)
        PROVE  ContractAllows
    <3>1. sess[c] \in Sessions /\ live[sess[c]] # "none"
      BY <2>11 DEF StopStrategy, Proxied, TypeInv, RequestOK, Linked
    <3>2. /\ outcome # "none" /\ (live[sess[c]] \in Over => outcome = live[sess[c]])
          /\ live' = [live EXCEPT ![sess[c]] = outcome]
          /\ UNCHANGED <<home, link, told>>
      BY <2>11, <3>1 DEF StopStrategy
    <3> QED
      BY <1>0, <3>1, <3>2, Moved
  <2>12. ASSUME NEW c \in Clients, NEW read \in BOOLEAN, handleStopStrategy(c, read)
        PROVE  ContractAllows
    <3>1. UNCHANGED <<live, home, link>>
      BY <2>12 DEF handleStopStrategy
    <3>2. CASE stopped[c] \/ (read /\ record[sess[c]] \in Over)
      <4>1. sess[c] \in Sessions
        BY <2>12 DEF handleStopStrategy, TypeInv, RequestOK
      <4>2. live[sess[c]] \in Over
        BY <2>12, <3>2, <4>1 DEF handleStopStrategy, OverInv, Truthful, Trails
      <4>3. live[sess[c]] # "none" /\ Phase(sess[c]) = "over"
        BY <4>2 DEF Over, Phase
      <4>4. Tell(c, sess[c], "over")
        BY <2>12, <3>2 DEF handleStopStrategy
      <4> QED
        BY <3>1, <4>1, <4>3, <4>4, Informed
    <3>3. CASE ~(stopped[c] \/ (read /\ record[sess[c]] \in Over))
      <4>1. UNCHANGED told
        BY <2>12, <3>3 DEF handleStopStrategy
      <4> QED
        BY <3>1, <4>1, Elsewhere
    <3> QED
      BY <3>2, <3>3
  <2>13. ASSUME NEW c \in Clients, UpstreamError(c)
        PROVE  ContractAllows
    BY <2>13, Elsewhere DEF UpstreamError
  <2>14. ASSUME NEW s \in Sessions, NEW status \in Statuses, Proceed(s, status)
        PROVE  ContractAllows
    <3>1. /\ live[s] # "none" /\ live[s] \notin Over /\ status # "none"
          /\ live' = [live EXCEPT ![s] = status]
          /\ UNCHANGED <<home, link, told>>
      BY <2>14 DEF Proceed, Over
    <3> QED
      BY <1>0, <3>1, Moved
  <2>15. ASSUME NEW s \in Sessions, Report(s)
        PROVE  ContractAllows
    BY <2>15, Elsewhere DEF Report
  <2>16. ASSUME NEW r \in Runtimes, NEW state \in {"online", "offline"}, Relink(r, state)
        PROVE  ContractAllows
    <3>1. /\ link[r] # "ended" /\ link' = [link EXCEPT ![r] = state]
          /\ UNCHANGED <<live, home, told>>
      BY <2>16 DEF Relink
    <3>2. \A q \in Runtimes : (link'[q] = "ended") <=> (link[q] = "ended")
      BY <1>0, <3>1 DEF WorldOK
    <3>3. \A s \in Sessions : Phase(s)' = Phase(s)
      BY <3>1 DEF Phase
    <3> QED
      BY <3>1, <3>2, <3>3, Unseen
  <2>17. CASE UNCHANGED vars
    BY <2>17, Elsewhere DEF vars
  <2> QED
    <3>1. CASE \E c \in Clients : Call(c)
      BY <2>0, <2>1, <2>2, <2>3, <3>1 DEF Call
    <3>2. CASE \E c \in Clients : Serve(c)
      BY <2>4, <2>5, <2>6, <2>7, <2>8, <2>9, <2>10, <2>11, <2>12, <2>13, <3>2 DEF Serve
    <3>3. CASE World
      BY <2>14, <2>15, <2>16, <3>3 DEF World
    <3> QED
      BY <2>17, <3>1, <3>2, <3>3 DEF Next

\* The handlers, with a record that trails, runtimes that drop and answers that
\* are lost, do what the contract allows: what a client is told of a session
\* is so when it is told, whichever of the two sources it comes from
\* (strategy.go 365-400, 430-463).
THEOREM KeepsContract == SafeSpec => ImplementsContract
<1>1. Init => Contract!Init
  <2>1. ASSUME Init
        PROVE  Phases = [s \in Sessions |-> "nothing"] /\ Closed = {}
    BY <2>1 DEF Init, Phases, Phase, Closed
  <2>2. Init => /\ home = [s \in Sessions |-> NoRuntime]
                /\ told = [c \in Clients |-> [s \in Sessions |-> "nothing"]]
    BY DEF Init
  <2> QED
    BY <2>1, <2>2 DEF Contract!Init, Phases, Closed
<1> QED
  BY <1>1, ContractStep, TypeInvariant, OverInvariant, PTL
     DEF SafeSpec, ImplementsContract, Contract!Spec, ContractAllows

-----------------------------------------------------------------------------
(* What follows from the contract.                                         *)

\* What a client can rely on, with what it rests on: a session that was not
\* started is in no runtime, and only runtimes are closed.
ContractInv ==
  /\ home \in [Sessions -> Runtimes \cup {NoRuntime}]
  /\ told \in [Clients -> [Sessions -> {"nothing", "going", "over"}]]
  /\ Closed \subseteq Runtimes
  /\ \A s \in Sessions : Phases[s] = "nothing" => home[s] = NoRuntime
  /\ \A c \in Clients, s \in Sessions :
       /\ told[c][s] = "over" => Phases[s] = "over"
       /\ told[c][s] = "going" => Phases[s] # "nothing"
  /\ \A s \in Sessions : home[s] \in Closed => Phases[s] = "over"

LEMMA ReliesOn == ContractInv => Contract!ToldIsSo /\ Contract!ClosedIsOver
  BY DEF ContractInv, Contract!ToldIsSo, Contract!ClosedIsOver, Phases, Closed

\* One client is told one thing.
LEMMA OneIsTold ==
  ASSUME told \in [Clients -> [Sessions -> {"nothing", "going", "over"}]],
         NEW c \in Clients, NEW s \in Sessions, NEW what \in {"nothing", "going", "over"},
         Contract!Told(c, s, what)
  PROVE  /\ told' \in [Clients -> [Sessions -> {"nothing", "going", "over"}]]
         /\ \A d \in Clients, t \in Sessions :
              (told'[d][t] = what /\ d = c /\ t = s) \/ told'[d][t] = told[d][t]
  BY DEF Contract!Told

LEMMA ContractKeeps ==
  ASSUME ContractInv, ContractAllows
  PROVE  ContractInv'
<1> USE DEF ContractInv
<1>0. \A s \in Sessions : Phases[s] \in {"nothing", "going", "over"}
  BY DEF Phases, Phase
<1>1. ASSUME NEW s \in Sessions, Contract!Finish(s)
      PROVE  ContractInv'
  <2>1. /\ Phases[s] = "going" /\ Phases' = [Phases EXCEPT ![s] = "over"]
        /\ UNCHANGED <<home, Closed, told>>
    BY <1>1 DEF Contract!Finish, Phases, Closed
  <2>2. \A t \in Sessions : Phases'[t] = IF t = s THEN "over" ELSE Phases[t]
    BY <2>1 DEF Phases
  <2> QED
    BY <2>1, <2>2
<1>2. ASSUME NEW s \in Sessions, NEW r \in Runtimes, Contract!Start(s, r)
      PROVE  ContractInv'
  <2>1. /\ Phases[s] = "nothing" /\ r \notin Closed
        /\ Phases' = [Phases EXCEPT ![s] = "going"]
        /\ home' = [home EXCEPT ![s] = r] /\ Closed' = Closed
        /\ UNCHANGED told \/ \E c \in Clients : Contract!Told(c, s, "going")
    BY <1>2 DEF Contract!Start, Phases, Closed
  <2>2. \A t \in Sessions : Phases'[t] = IF t = s THEN "going" ELSE Phases[t]
    BY <2>1 DEF Phases
  <2>3. /\ told' \in [Clients -> [Sessions -> {"nothing", "going", "over"}]]
        /\ \A d \in Clients, t \in Sessions :
             (told'[d][t] = "going" /\ t = s) \/ told'[d][t] = told[d][t]
    BY <2>1, OneIsTold
  <2>4. \A d \in Clients : told[d][s] = "nothing"
    BY <2>1
  <2> QED
    BY <2>1, <2>2, <2>3, <2>4, SessionControlAssumption
<1>3. ASSUME NEW c \in Clients, NEW s \in Sessions, Contract!Inform(c, s)
      PROVE  ContractInv'
  <2>1. /\ Phases[s] # "nothing" /\ Contract!Told(c, s, Phases[s])
        /\ Phases' = Phases /\ Closed' = Closed /\ home' = home
    BY <1>3 DEF Contract!Inform, Phases, Closed
  <2>2. /\ told' \in [Clients -> [Sessions -> {"nothing", "going", "over"}]]
        /\ \A d \in Clients, t \in Sessions :
             (told'[d][t] = Phases[s] /\ t = s) \/ told'[d][t] = told[d][t]
    BY <1>0, <2>1, OneIsTold
  <2> QED
    BY <2>1, <2>2
<1>4. ASSUME NEW r \in Runtimes, Contract!Close(r)
      PROVE  ContractInv'
  <2>1. /\ Closed' = Closed \cup {r} /\ UNCHANGED <<home, told>>
        /\ Phases' = [s \in Sessions |->
                        IF home[s] = r /\ Phases[s] = "going" THEN "over" ELSE Phases[s]]
    BY <1>4 DEF Contract!Close, Phases, Closed
  <2> QED
    BY <1>0, <2>1, SessionControlAssumption
<1>5. CASE UNCHANGED Contract!vars
  BY <1>5, Seen
<1> QED
  BY <1>1, <1>2, <1>3, <1>4, <1>5 DEF ContractAllows, Contract!Next

\* Whatever keeps the contract keeps this: a client that was told a session is
\* over can count on it, one that was told of a session has one, and nothing
\* goes on in a runtime that was ended (strategy.go 430-463,
\* runtime_management.go 250-311).
THEOREM ClientsCanRely == ImplementsContract => [](Contract!ToldIsSo /\ Contract!ClosedIsOver)
<1>1. Contract!Init => ContractInv
  BY SessionControlAssumption DEF Contract!Init, ContractInv, Phases, Closed
<1> QED
  BY <1>1, ContractKeeps, ReliesOn, PTL DEF ImplementsContract, Contract!Spec, ContractAllows

\* So it holds of the handlers.
THEOREM WhatIsToldHolds == SafeSpec => [](Contract!ToldIsSo /\ Contract!ClosedIsOver)
  BY KeepsContract, ClientsCanRely, PTL
=============================================================================
