-------------------------- MODULE DownloadRunProofs --------------------------
(***************************************************************************)
(* Proofs about DownloadRun, for every set of jobs, keys, segments,        *)
(* requests, sessions and strategies.                                      *)
(***************************************************************************)
EXTENDS DownloadRun, TLAPS

\* An error record of a typed job is typed.
LEMMA FailType ==
  ASSUME TypeOK, NEW j \in Jobs, NEW why \in Reasons, Fail(j, why)
  PROVE  /\ status' \in [Jobs -> Statuses]
         /\ progress' \in [Jobs -> {0, 5, 15, 35, 90, 100}]
         /\ sessionID' \in [Jobs -> Sessions \cup {NoSession}]
         /\ error' \in [Jobs -> Reasons]
         /\ pc' \in [Jobs -> Alive \cup {"off", "done", "lost"}]
BY DEF TypeOK, Fail, Goto, Statuses

\* The upsert keeps the plane's requests typed.
LEMMA UpsertType ==
  ASSUME TypeOK, NEW c \in Slots, NEW ids \in SUBSET Requests, Upsert(c, ids)
  PROVE  /\ reqSlot' \in [Requests -> Slots \cup {NoSlot}]
         /\ reqStatus' \in [Requests -> {"free", "open", "done"} \cup Bad]
BY DEF TypeOK, Upsert

LEMMA ResolveType ==
  ASSUME TypeOK, NEW p \in Paths
  PROVE  Resolve(p) \in Strategies
BY DEF TypeOK, Paths, Resolve

\* TypeOK: the job store, the goroutines' locals, the plane and the service
\* keep their shape in every reachable state.
THEOREM TypeCorrect == SafeSpec => []TypeOK
<1>1. Init => TypeOK
  <2> SUFFICES ASSUME Init
               PROVE  TypeOK
    OBVIOUS
  <2>1. 0 \in 0..MaxRestarts
    BY DownloadRunAssumption DEF DownloadRunAssumption
  <2>2. path \in [Jobs -> Paths]
    BY DEF Init, Paths
  <2> QED
    BY <2>1, <2>2 DEF Init, TypeOK, Statuses, Reasons
<1>2. TypeOK /\ [Next]_vars => TypeOK'
  <2> SUFFICES ASSUME TypeOK, [Next]_vars
               PROVE  TypeOK'
    OBVIOUS
  <2> USE DownloadRunAssumption DEF store, goroutine, plane, service
  <2>1. ASSUME NEW j \in Jobs, NEW p \in Paths, handleDownloadAndRun(j, p)
        PROVE  TypeOK'
    BY <2>1 DEF handleDownloadAndRun, Goto, TypeOK, Statuses, Alive
  <2>2. ASSUME NEW j \in Jobs, StartJob(j)
        PROVE  TypeOK'
    BY <2>2 DEF StartJob, Goto, TypeOK, Statuses, Alive, RpcWaits
  <2>3. ASSUME NEW j \in Jobs, PreviewAccepted(j)
        PROVE  TypeOK'
    <3>1. Resolve(path[j]) \in Strategies
      BY ResolveType DEF TypeOK
    <3>2. Inputs[Resolve(path[j])] \in SUBSET Keys
      BY <3>1
    <3> QED
      BY <2>3, <3>2 DEF PreviewAccepted, Reach, Goto, TypeOK, Alive, RpcWaits
  <2>4. ASSUME NEW j \in Jobs, PreviewRejected(j)
        PROVE  TypeOK'
    <3>1. PICK why \in Reasons : Fail(j, why)
      BY <2>4 DEF PreviewRejected, Reasons
    <3> QED
      BY <2>4, <3>1, FailType DEF PreviewRejected, TypeOK
  <2>5. ASSUME NEW j \in Jobs, NEW k \in Keys, QueryCoverage(j, k)
        PROVE  TypeOK'
    <3>1. CASE NotDownloadable(k)
      <4>1. Fail(j, "not downloadable")
        BY <2>5, <3>1 DEF QueryCoverage
      <4> QED
        BY <2>5, <3>1, <4>1, FailType DEF QueryCoverage, TypeOK, Reasons
    <3>2. CASE ~NotDownloadable(k)
      <4>1. {k} \X MissingOf(k) \in SUBSET Slots
        BY DEF MissingOf, Slots
      <4>2. missing' = [missing EXCEPT ![j] = {k} \X MissingOf(k)]
        BY <2>5, <3>2 DEF QueryCoverage
      <4>3. missing' \in [Jobs -> SUBSET Slots]
        BY <4>1, <4>2 DEF TypeOK
      <4> QED
        BY <2>5, <3>2, <4>3 DEF QueryCoverage, Goto, TypeOK, Alive, RpcWaits
    <3> QED
      BY <3>1, <3>2
  <2>6. ASSUME NEW j \in Jobs, NEW k \in Keys, ValidateCoverage(j, k)
        PROVE  TypeOK'
    <3> USE <2>6 DEF ValidateCoverage
    <3>1. CASE Fail(j, "not validated") /\ UNCHANGED <<todo, sent>>
      BY <3>1, FailType DEF TypeOK, Reasons
    <3>2. CASE Goto(j, "list") /\ UNCHANGED <<store, todo, sent>>
      BY <3>2 DEF Goto, TypeOK, Alive, RpcWaits
    <3>3. CASE /\ todo' = [todo EXCEPT ![j] = @ \ {k}]
               /\ UNCHANGED <<store, pc, sent>>
      BY <3>3 DEF TypeOK
    <3>4. CASE /\ todo' = [todo EXCEPT ![j] = {}]
               /\ Reach(j, 90) /\ sent' = sent \cup {j} /\ Goto(j, "run")
      BY <3>4 DEF Reach, Goto, TypeOK, Alive, RpcWaits
    <3> QED
      BY <3>1, <3>2, <3>3, <3>4
  <2>7. ASSUME NEW j \in Jobs, NEW c \in Slots, CreateRequest(j, c)
        PROVE  TypeOK'
    <3>1. PICK ids \in SUBSET Requests : Upsert(c, ids) /\ own' = [own EXCEPT ![j] = @ \cup ids]
      BY <2>7 DEF CreateRequest
    <3> QED
      BY <2>7, <3>1, UpsertType DEF CreateRequest, TypeOK
  <2>8. ASSUME NEW j \in Jobs, NEW c \in Slots, CreateLost(j, c)
        PROVE  TypeOK'
    <3>1. PICK ids \in SUBSET Requests : Upsert(c, ids)
      BY <2>8 DEF CreateLost
    <3>2. PICK why \in Reasons : Fail(j, why)
      BY <2>8 DEF CreateLost, Reasons
    <3> QED
      BY <2>8, <3>1, <3>2, UpsertType, FailType DEF CreateLost, TypeOK
  <2>9. ASSUME NEW j \in Jobs, NextKey(j)
        PROVE  TypeOK'
    BY <2>9 DEF NextKey, Reach, Goto, TypeOK, Alive, RpcWaits
  <2>10. ASSUME NEW j \in Jobs, failOnHistoricalRequestError(j)
         PROVE  TypeOK'
    <3>1. CASE Broken(j)
      BY <2>10, <3>1, FailType DEF failOnHistoricalRequestError, TypeOK, Reasons
    <3>2. CASE ~Broken(j)
      BY <2>10, <3>2 DEF failOnHistoricalRequestError, Goto, TypeOK, Alive
    <3> QED
      BY <3>1, <3>2
  <2>11. ASSUME NEW j \in Jobs, Tick(j)
         PROVE  TypeOK'
    BY <2>11 DEF Tick, Goto, TypeOK, Alive, RpcWaits
  <2>12. ASSUME NEW j \in Jobs, RunReply(j)
         PROVE  TypeOK'
    <3>1. PICK x \in Sessions : sessionID' = [sessionID EXCEPT ![j] = x]
      BY <2>12 DEF RunReply
    <3> QED
      BY <2>12, <3>1 DEF RunReply, Goto, TypeOK, Statuses, Reasons
  <2>13. ASSUME NEW j \in Jobs, RpcError(j) \/ DeadlineError(j)
         PROVE  TypeOK'
    <3>1. PICK why \in Reasons : Fail(j, why)
      BY <2>13 DEF RpcError, DeadlineError, Reasons
    <3> QED
      BY <2>13, <3>1, FailType DEF RpcError, DeadlineError, TypeOK
  <2>14. ASSUME NEW j \in Jobs, Expire(j)
         PROVE  TypeOK'
    BY <2>14 DEF Expire, TypeOK
  <2>15. ASSUME NEW j \in Jobs, NEW x \in Sessions, StartSession(j, x)
         PROVE  TypeOK'
    <3>1. Resolve(path[j]) \in Strategies
      BY ResolveType DEF TypeOK
    <3> QED
      BY <2>15, <3>1 DEF StartSession, TypeOK
  <2>16. CASE Restart
    <3>1. pc' \in [Jobs -> Alive \cup {"off", "done", "lost"}]
      BY <2>16 DEF Restart
    <3>2. restarts' \in 0..MaxRestarts
      <4>1. restarts \in 0..MaxRestarts /\ MaxRestarts \in Nat
        BY DEF TypeOK
      <4>2. restarts < MaxRestarts /\ restarts' = restarts + 1
        BY <2>16 DEF Restart
      <4> QED
        BY ONLY <4>1, <4>2
    <3> QED
      BY <2>16, <3>1, <3>2 DEF Restart, TypeOK, Statuses, Reasons
  <2>17. ASSUME NEW r \in Requests,
                cancelMarketDataRequest(r) \/ CompleteRequest(r) \/ FailRequest(r)
         PROVE  TypeOK'
    BY <2>17 DEF cancelMarketDataRequest, CompleteRequest, FailRequest, Better, Bad, TypeOK
  <2>18. ASSUME NEW c \in Slots, createMarketDataRequest(c)
         PROVE  TypeOK'
    BY <2>18, UpsertType DEF createMarketDataRequest, TypeOK
  <2>19. ASSUME NEW c \in Slots, Ingest(c)
         PROVE  TypeOK'
    BY <2>19 DEF Ingest, Better, TypeOK
  <2>20. ASSUME NEW st \in Strategies, Activate(st)
         PROVE  TypeOK'
    BY <2>20 DEF Activate, TypeOK
  <2>21. CASE UNCHANGED vars
    BY <2>21 DEF vars, TypeOK
  <2> QED
    BY <2>1, <2>2, <2>3, <2>4, <2>5, <2>6, <2>7, <2>8, <2>9, <2>10, <2>11, <2>12, <2>13,
       <2>14, <2>15, <2>16, <2>17, <2>18, <2>19, <2>20, <2>21 DEF Next, JobStep
<1> QED
  BY <1>1, <1>2, PTL DEF SafeSpec

-----------------------------------------------------------------------------
(* Sessions are covered, single and accounted for.                         *)

\* The plane never spoils history that validates, nor loses what it stores.
LEMMA HistoryImproves ==
  ASSUME TypeOK, [Next]_vars
  PROVE  \A d \in Slots : /\ seg[d] = "valid" => seg'[d] = "valid"
                          /\ seg'[d] = "missing" => seg[d] = "missing"
<1> DEFINE Improves == \A d \in Slots : /\ seg[d] = "valid" => seg'[d] = "valid"
                                        /\ seg'[d] = "missing" => seg[d] = "missing"
<1> USE DEF TypeOK, store, goroutine, plane, service
<1>1. ASSUME NEW c \in Slots, Ingest(c)
      PROVE  Improves
  BY <1>1 DEF Ingest, Better
<1>2. ASSUME NEW r \in Requests, CompleteRequest(r)
      PROVE  Improves
  BY <1>2 DEF CompleteRequest, Better
<1>3. ASSUME UNCHANGED seg
      PROVE  Improves
  BY <1>3
<1>4. \/ \E c \in Slots : Ingest(c)
      \/ \E r \in Requests : CompleteRequest(r)
      \/ UNCHANGED seg
  <2>1. ASSUME NEW j \in Jobs, JobStep(j)
        PROVE  UNCHANGED seg
    <3>1. ASSUME NEW k \in Keys, QueryCoverage(j, k) \/ ValidateCoverage(j, k)
          PROVE  UNCHANGED seg
      BY <3>1 DEF QueryCoverage, ValidateCoverage
    <3>2. ASSUME NEW c \in Slots, CreateRequest(j, c) \/ CreateLost(j, c)
          PROVE  UNCHANGED seg
      BY <3>2 DEF CreateRequest, CreateLost
    <3>3. CASE \/ \E p \in Paths : handleDownloadAndRun(j, p)
               \/ StartJob(j) \/ PreviewAccepted(j) \/ PreviewRejected(j) \/ NextKey(j)
      BY <3>3 DEF handleDownloadAndRun, StartJob, PreviewAccepted, PreviewRejected, NextKey
    <3>4. CASE \/ failOnHistoricalRequestError(j) \/ Tick(j) \/ RunReply(j)
               \/ RpcError(j) \/ Expire(j) \/ DeadlineError(j)
      BY <3>4 DEF failOnHistoricalRequestError, Tick, RunReply, RpcError, Expire, DeadlineError
    <3>5. ASSUME NEW x \in Sessions, StartSession(j, x)
          PROVE  UNCHANGED seg
      BY <3>5 DEF StartSession
    <3> QED
      BY <2>1, <3>1, <3>2, <3>3, <3>4, <3>5 DEF JobStep
  <2>2. CASE \/ \E r \in Requests : cancelMarketDataRequest(r) \/ FailRequest(r)
             \/ \E c \in Slots : createMarketDataRequest(c)
             \/ \E st \in Strategies : Activate(st)
             \/ Restart
             \/ UNCHANGED vars
    BY <2>2 DEF cancelMarketDataRequest, FailRequest, createMarketDataRequest, Activate,
                Restart, vars
  <2> QED
    BY <2>1, <2>2 DEF Next
<1> QED
  BY <1>1, <1>2, <1>3, <1>4

LEMMA ValidStays ==
  ASSUME TypeOK, [Next]_vars
  PROVE  \A k \in Keys : KeyValid(k) => KeyValid(k)'
BY HistoryImproves DEF KeyValid, Slots

\* A step of the plane or the user touches nothing the invariant speaks of but
\* the history, which only gets better.
LEMMA OutsideStep ==
  ASSUME TypeOK, SessionInv, [Next]_vars,
         UNCHANGED <<store, pc, path, declared, todo, sent, owner, code>>
  PROVE  SessionInv'
<1> USE ValidStays DEF TypeOK, SessionInv, store
<1>1. VisitedAreValid'
  BY DEF VisitedAreValid, Covered
<1>2. CallsAreCovered'
  BY DEF CallsAreCovered, Covered
<1>3. PreviewedPath' /\ CalledOnce' /\ CallsAccountedFor'
  BY DEF PreviewedPath, CalledOnce, CallsAccountedFor, FailedInRun
<1>4. SessionsAreCovered'
  BY DEF SessionsAreCovered, Covered
<1>5. OneSessionPerJob' /\ SessionsAccountedFor'
  BY DEF OneSessionPerJob, SessionsAccountedFor, FailedInRun
<1> QED
  BY <1>1, <1>2, <1>3, <1>4, <1>5

\* A step of one job that has not called RunStrategy yet and does not now.
LEMMA EarlyStep ==
  ASSUME TypeOK, TypeOK', SessionInv, [Next]_vars, NEW j \in Jobs,
         UNCHANGED <<path, declared, sent, owner, code, sessionID>>,
         \A i \in Jobs \ {j} : /\ pc'[i] = pc[i] /\ todo'[i] = todo[i]
                               /\ status'[i] = status[i] /\ progress'[i] = progress[i]
                               /\ error'[i] = error[i],
         pc[j] \in Alive \ {"run"},
         \/ pc'[j] = "done"
         \/ pc[j] \notin {"start", "preview"} /\ pc'[j] \in {"query", "create"} \cup Polling,
         pc'[j] = "validate" => \A k \in declared[j] \ todo'[j] : KeyValid(k),
         status'[j] \in {status[j], "error"}
  PROVE  SessionInv'
<1> USE ValidStays DEF SessionInv
<1>1. j \notin sent /\ \A x \in Sessions : owner[x] # j
  BY DownloadRunAssumption DEF CalledOnce, Alive, RpcWaits
<1>2. status'[j] # "ready"
  BY <1>1 DEF SessionsAccountedFor
<1>3. pc'[j] \notin {"run", "lost"}
  BY DEF Polling
<1>4. \A x \in Sessions : owner[x] # NoJob => owner[x] \in Jobs \ {j}
  BY <1>1 DEF TypeOK
<1>5. sent \subseteq Jobs \ {j}
  BY <1>1 DEF TypeOK
<1>6. VisitedAreValid'
  BY DEF VisitedAreValid, Covered, TypeOK
<1>7. CallsAreCovered'
  BY <1>1, <1>3 DEF CallsAreCovered, Covered, TypeOK
<1>8. PreviewedPath'
  BY <1>1 DEF PreviewedPath, Polling, Alive, RpcWaits
<1>9. CalledOnce'
  BY <1>4, <1>5 DEF CalledOnce
<1>10. CallsAccountedFor'
  BY <1>3, <1>5 DEF CallsAccountedFor, FailedInRun
<1>11. SessionsAreCovered'
  BY DEF SessionsAreCovered, Covered, TypeOK
<1>12. OneSessionPerJob'
  BY DEF OneSessionPerJob
<1>13. SessionsAccountedFor'
  BY <1>2, <1>4 DEF SessionsAccountedFor, FailedInRun
<1> QED
  BY <1>6, <1>7, <1>8, <1>9, <1>10, <1>11, <1>12, <1>13

LEMMA GotoStep ==
  ASSUME TypeOK, NEW j \in Jobs, NEW l, Goto(j, l)
  PROVE  pc'[j] = l /\ \A i \in Jobs \ {j} : pc'[i] = pc[i]
BY DEF TypeOK, Goto

\* A job that fails before it calls RunStrategy.
LEMMA FailStep ==
  ASSUME TypeOK, TypeOK', SessionInv, [Next]_vars, NEW j \in Jobs, NEW why, Fail(j, why),
         pc[j] \in Alive \ {"run"},
         UNCHANGED <<path, declared, todo, sent, owner, code>>
  PROVE  SessionInv'
<1>1. pc'[j] = "done" /\ status'[j] = "error"
  BY DEF Fail, Goto, TypeOK
<1>2. \A i \in Jobs \ {j} : /\ pc'[i] = pc[i] /\ todo'[i] = todo[i]
                            /\ status'[i] = status[i] /\ progress'[i] = progress[i]
                            /\ error'[i] = error[i]
  BY DEF Fail, Goto, TypeOK
<1>3. sessionID' = sessionID
  BY DEF Fail
<1> QED
  BY <1>1, <1>2, <1>3, EarlyStep

LEMMA SessionInvInit == Init => SessionInv
BY DownloadRunAssumption
   DEF Init, SessionInv, VisitedAreValid, CallsAreCovered, PreviewedPath, CalledOnce,
       CallsAccountedFor, SessionsAreCovered, OneSessionPerJob, SessionsAccountedFor, Polling

LEMMA SessionInvStep == TypeOK /\ TypeOK' /\ SessionInv /\ [Next]_vars => SessionInv'
<1> SUFFICES ASSUME TypeOK, TypeOK', SessionInv, [Next]_vars
             PROVE  SessionInv'
  OBVIOUS
<1> USE DownloadRunAssumption DEF store, goroutine, plane, service
<1>1. ASSUME NEW j \in Jobs, NEW p \in Paths, handleDownloadAndRun(j, p)
      PROVE  SessionInv'
  BY <1>1, ValidStays
     DEF handleDownloadAndRun, Goto, TypeOK, SessionInv, VisitedAreValid, CallsAreCovered,
         PreviewedPath, CalledOnce, CallsAccountedFor, FailedInRun, SessionsAreCovered,
         OneSessionPerJob, SessionsAccountedFor, Covered, Polling
<1>2. ASSUME NEW j \in Jobs, StartJob(j)
      PROVE  SessionInv'
  BY <1>2, ValidStays
     DEF StartJob, Goto, TypeOK, SessionInv, VisitedAreValid, CallsAreCovered,
         PreviewedPath, CalledOnce, CallsAccountedFor, FailedInRun, SessionsAreCovered,
         OneSessionPerJob, SessionsAccountedFor, Covered, Polling
<1>3. ASSUME NEW j \in Jobs, PreviewAccepted(j)
      PROVE  SessionInv'
  <2>1. path[j] # ActivePath => Resolve(path[j]) = path[j]
    BY DEF Resolve
  <2> QED
    BY <1>3, <2>1, ValidStays
       DEF PreviewAccepted, Reach, Goto, TypeOK, SessionInv, VisitedAreValid, CallsAreCovered,
           PreviewedPath, CalledOnce, CallsAccountedFor, FailedInRun, SessionsAreCovered,
           OneSessionPerJob, SessionsAccountedFor, Covered, Polling
<1>4. ASSUME NEW j \in Jobs, PreviewRejected(j)
      PROVE  SessionInv'
  <2>1. PICK why \in Reasons : Fail(j, why)
    BY <1>4 DEF PreviewRejected, Reasons
  <2> QED
    BY <1>4, <2>1, FailStep DEF PreviewRejected, Alive, RpcWaits
<1>5. ASSUME NEW j \in Jobs, NEW k \in Keys, QueryCoverage(j, k)
      PROVE  SessionInv'
  <2> USE <1>5 DEF QueryCoverage
  <2>1. CASE NotDownloadable(k)
    BY <2>1, FailStep DEF Alive, RpcWaits
  <2>2. CASE ~NotDownloadable(k)
    BY <2>2, EarlyStep DEF Goto, TypeOK, Alive, RpcWaits, Polling
  <2> QED
    BY <2>1, <2>2
<1>6. ASSUME NEW j \in Jobs, NEW k \in Keys, ValidateCoverage(j, k)
      PROVE  SessionInv'
  <2> USE <1>6 DEF ValidateCoverage
  <2>1. CASE Fail(j, "not validated") /\ UNCHANGED <<todo, sent>>
    BY <2>1, FailStep DEF Alive, RpcWaits
  <2>2. CASE Goto(j, "list") /\ UNCHANGED <<store, todo, sent>>
    <3>1. pc'[j] = "list" /\ \A i \in Jobs \ {j} : pc'[i] = pc[i]
      BY <2>2, GotoStep
    <3> QED
      BY <2>2, <3>1, EarlyStep DEF Alive, RpcWaits, Polling
  <2>3. CASE KeyValid(k) /\ todo' = [todo EXCEPT ![j] = @ \ {k}] /\ UNCHANGED <<store, pc, sent>>
    BY <2>3, EarlyStep DEF TypeOK, SessionInv, VisitedAreValid, Covered, Alive, RpcWaits, Polling
  <2>4. CASE /\ KeyValid(k) /\ todo[j] = {k}
             /\ todo' = [todo EXCEPT ![j] = {}]
             /\ Reach(j, 90) /\ sent' = sent \cup {j} /\ Goto(j, "run")
    <3>1. Covered(declared[j])
      BY <2>4 DEF SessionInv, VisitedAreValid, Covered
    <3> QED
      BY <2>4, <3>1, ValidStays
         DEF Reach, Goto, TypeOK, SessionInv, VisitedAreValid, CallsAreCovered,
             PreviewedPath, CalledOnce, CallsAccountedFor, FailedInRun, SessionsAreCovered,
             OneSessionPerJob, SessionsAccountedFor, Covered, Polling
  <2> QED
    BY <2>1, <2>2, <2>3, <2>4
<1>7. ASSUME NEW j \in Jobs, NEW c \in Slots, CreateRequest(j, c)
      PROVE  SessionInv'
  BY <1>7, OutsideStep DEF CreateRequest
<1>8. ASSUME NEW j \in Jobs, NEW c \in Slots, CreateLost(j, c)
      PROVE  SessionInv'
  BY <1>8, FailStep DEF CreateLost, Alive, RpcWaits
<1>9. ASSUME NEW j \in Jobs, NextKey(j)
      PROVE  SessionInv'
  BY <1>9, EarlyStep DEF NextKey, Reach, Goto, TypeOK, Alive, RpcWaits, Polling
<1>10. ASSUME NEW j \in Jobs, failOnHistoricalRequestError(j)
       PROVE  SessionInv'
  BY <1>10, EarlyStep DEF failOnHistoricalRequestError, Fail, Goto, TypeOK, Alive, RpcWaits, Polling
<1>11. ASSUME NEW j \in Jobs, Tick(j)
       PROVE  SessionInv'
  BY <1>11, EarlyStep DEF Tick, Goto, TypeOK, Alive, RpcWaits, Polling
<1>12. ASSUME NEW j \in Jobs, RunReply(j)
       PROVE  SessionInv'
  <2> USE ValidStays DEF SessionInv
  <2>1. PICK x \in Sessions : owner[x] = j /\ sessionID' = [sessionID EXCEPT ![j] = x]
    BY <1>12 DEF RunReply
  <2>2. j # NoJob /\ j \notin sent
    BY <2>1 DEF CalledOnce
  <2>3. \A y \in Sessions : owner[y] = j => y = x
    BY <2>1, <2>2 DEF OneSessionPerJob
  <2>4. /\ status' = [status EXCEPT ![j] = "ready"]
        /\ progress' = [progress EXCEPT ![j] = 100]
        /\ error' = [error EXCEPT ![j] = ""]
        /\ Goto(j, "done")
        /\ UNCHANGED <<path, declared, todo, sent, owner, code>>
    BY <1>12 DEF RunReply
  <2>5. status'[j] = "ready" /\ sessionID'[j] = x /\ pc'[j] = "done"
    BY <2>1, <2>4, GotoStep DEF TypeOK
  <2>6. \A i \in Jobs \ {j} : /\ status'[i] = status[i] /\ sessionID'[i] = sessionID[i]
                              /\ progress'[i] = progress[i] /\ error'[i] = error[i]
    BY <2>1, <2>4 DEF TypeOK
  <2>7. \A i \in Jobs \ {j} : pc'[i] = pc[i]
    BY <2>4, GotoStep
  <2>8. \A y \in Sessions : owner[y] # NoJob => owner[y] \in Jobs
    BY DEF TypeOK
  <2>9. sent \subseteq Jobs \ {j}
    BY <2>2 DEF TypeOK
  <2>10. VisitedAreValid' /\ CallsAreCovered'
    BY <2>4, <2>5, <2>6, <2>7, ZenonT(60) DEF VisitedAreValid, CallsAreCovered, Covered, TypeOK
  <2>11. PreviewedPath'
    BY <2>2, <2>4, <2>5, <2>6, <2>7 DEF PreviewedPath, Polling
  <2>12. CalledOnce'
    BY <2>4, <2>5, <2>6, <2>7, <2>8, <2>9 DEF CalledOnce
  <2>13. CallsAccountedFor'
    <3>1. \A i \in sent : i \in Jobs /\ i # j /\ (pc[i] = "run" \/ FailedInRun(i) \/ pc[i] = "lost")
      BY <2>9 DEF CallsAccountedFor
    <3>2. \A i \in sent : pc'[i] = "run" \/ FailedInRun(i)' \/ pc'[i] = "lost"
      BY ONLY <2>6, <2>7, <3>1 DEF FailedInRun
    <3>3. \A i \in Jobs : pc'[i] = "run" => progress'[i] = 90
      BY <2>5, <2>6, <2>7 DEF CallsAccountedFor
    <3> QED
      BY ONLY <2>4, <3>2, <3>3 DEF CallsAccountedFor, FailedInRun
  <2>14. SessionsAreCovered' /\ OneSessionPerJob'
    BY <2>4 DEF SessionsAreCovered, Covered, OneSessionPerJob, TypeOK
  <2>15. SessionsAccountedFor'
    <3>1. ASSUME NEW y \in Sessions, NEW i \in Jobs \ {j}, owner[y] = i
          PROVE  \/ status'[i] = "ready" /\ sessionID'[i] = y
                 \/ pc'[i] = "run" \/ FailedInRun(i)' \/ pc'[i] = "lost"
      <4>1. \/ status[i] = "ready" /\ sessionID[i] = y
            \/ pc[i] = "run" \/ FailedInRun(i) \/ pc[i] = "lost"
        BY <3>1 DEF SessionsAccountedFor
      <4> QED
        BY ONLY <2>6, <2>7, <4>1 DEF FailedInRun
    <3>2. \A y \in Sessions : owner[y] # NoJob =>
            \/ status'[owner[y]] = "ready" /\ sessionID'[owner[y]] = y
            \/ pc'[owner[y]] = "run"
            \/ /\ status'[owner[y]] = "error" /\ progress'[owner[y]] = 90
               /\ error'[owner[y]] \in {"rpc", "deadline"}
            \/ pc'[owner[y]] = "lost"
      BY ONLY <2>3, <2>5, <2>8, <3>1 DEF FailedInRun
    <3>3. \A i \in Jobs : status[i] = "ready" => \E y \in Sessions : sessionID[i] = y /\ owner[y] = i
      BY DEF SessionsAccountedFor
    <3>4. \A i \in Jobs : status'[i] = "ready" => \E y \in Sessions : sessionID'[i] = y /\ owner[y] = i
      BY ONLY <2>1, <2>5, <2>6, <3>3
    <3>5. owner' = owner
      BY <2>4
    <3> QED
      BY ONLY <3>2, <3>4, <3>5 DEF SessionsAccountedFor, FailedInRun
  <2> QED
    BY <2>10, <2>11, <2>12, <2>13, <2>14, <2>15
<1>13. ASSUME NEW j \in Jobs, RpcError(j) \/ DeadlineError(j)
       PROVE  SessionInv'
  <2>1. PICK why \in {"rpc", "deadline"} : Fail(j, why)
    BY <1>13 DEF RpcError, DeadlineError
  <2>2. CASE pc[j] # "run"
    BY <1>13, <2>1, <2>2, FailStep DEF RpcError, DeadlineError, InCall, Alive, RpcWaits
  <2>3. CASE pc[j] = "run"
    <3> USE <2>1, <2>3 DEF Fail, Goto, TypeOK, SessionInv
    <3>1. UNCHANGED <<path, declared, todo, service, progress>>
      BY <1>13 DEF RpcError, DeadlineError
    <3>2. VisitedAreValid' /\ CallsAreCovered'
      BY <3>1, ValidStays DEF VisitedAreValid, CallsAreCovered, Covered, service
    <3>3. PreviewedPath' /\ CalledOnce'
      BY <3>1 DEF PreviewedPath, CalledOnce, Polling, service
    <3>4. CallsAccountedFor'
      BY <3>1 DEF CallsAccountedFor, FailedInRun, service
    <3>5. SessionsAreCovered' /\ OneSessionPerJob'
      BY <3>1, ValidStays DEF SessionsAreCovered, Covered, OneSessionPerJob, service
    <3>6. SessionsAccountedFor'
      BY <3>1 DEF SessionsAccountedFor, CallsAccountedFor, FailedInRun, service
    <3> QED
      BY <3>2, <3>3, <3>4, <3>5, <3>6
  <2> QED
    BY <2>2, <2>3
<1>14. ASSUME NEW j \in Jobs, Expire(j)
       PROVE  SessionInv'
  BY <1>14, OutsideStep DEF Expire
<1>15. ASSUME NEW j \in Jobs, NEW x \in Sessions, StartSession(j, x)
       PROVE  SessionInv'
  <2> USE <1>15 DEF StartSession, TypeOK, SessionInv
  <2>1. path[j] # ActivePath => Resolve(path[j]) = path[j]
    BY DEF Resolve
  <2>2. VisitedAreValid' /\ CallsAreCovered'
    BY ValidStays DEF VisitedAreValid, CallsAreCovered, Covered
  <2>3. PreviewedPath' /\ CalledOnce'
    BY DEF PreviewedPath, CalledOnce, Polling
  <2>4. CallsAccountedFor'
    BY DEF CallsAccountedFor, FailedInRun
  <2>5. SessionsAreCovered'
    BY <2>1, ValidStays DEF SessionsAreCovered, CallsAreCovered, PreviewedPath, Covered
  <2>6. OneSessionPerJob'
    BY DEF OneSessionPerJob, CalledOnce
  <2>7. SessionsAccountedFor'
    <3>1. status[j] # "ready"
      BY DEF SessionsAccountedFor, CalledOnce
    <3>2. \A y \in Sessions : owner'[y] = IF y = x THEN j ELSE owner[y]
      OBVIOUS
    <3>3. pc[j] = "run" \/ FailedInRun(j) \/ pc[j] = "lost"
      BY DEF CallsAccountedFor
    <3> QED
      BY <3>2, <3>3 DEF SessionsAccountedFor, FailedInRun
  <2> QED
    BY <2>2, <2>3, <2>4, <2>5, <2>6, <2>7
<1>16. CASE Restart
  <2>1. /\ \A j \in Jobs : /\ pc'[j] = IF pc[j] = "off" THEN "off" ELSE "lost"
                           /\ status'[j] = "absent"
        /\ UNCHANGED <<path, declared, plane, service>>
    BY <1>16 DEF Restart
  <2>2. UNCHANGED <<path, declared, sent, owner, code>>
    BY <2>1 DEF service
  <2>3. sent \subseteq Jobs /\ \A x \in Sessions : owner[x] \in Jobs \cup {NoJob}
    BY DEF TypeOK
  <2>4. /\ \A j \in sent : pc[j] # "off"
        /\ \A x \in Sessions : owner[x] # NoJob => owner[x] \notin sent /\ pc[owner[x]] # "off"
    BY DEF SessionInv, CalledOnce
  <2>5. VisitedAreValid' /\ CallsAreCovered'
    BY <2>1, <2>2, <2>3, ValidStays DEF VisitedAreValid, CallsAreCovered, Covered, SessionInv, TypeOK
  <2>6. PreviewedPath'
    <3>1. ASSUME NEW j \in Jobs, path[j] # ActivePath, j \in sent
          PROVE  declared[j] = Inputs[path[j]]
      BY <3>1 DEF SessionInv, PreviewedPath
    <3> QED
      BY ONLY <2>1, <2>2, <3>1 DEF PreviewedPath, Polling
  <2>7. CalledOnce'
    BY ONLY <2>1, <2>2, <2>3, <2>4 DEF CalledOnce
  <2>8. CallsAccountedFor'
    BY ONLY <2>1, <2>2, <2>3, <2>4 DEF CallsAccountedFor
  <2>9. SessionsAreCovered' /\ OneSessionPerJob'
    BY <2>2, <2>3, ValidStays DEF SessionInv, SessionsAreCovered, Covered, OneSessionPerJob, TypeOK
  <2>10. SessionsAccountedFor'
    BY ONLY <2>1, <2>2, <2>3, <2>4 DEF SessionsAccountedFor
  <2> QED
    BY <2>5, <2>6, <2>7, <2>8, <2>9, <2>10 DEF SessionInv
<1>17. ASSUME NEW r \in Requests,
              cancelMarketDataRequest(r) \/ CompleteRequest(r) \/ FailRequest(r)
       PROVE  SessionInv'
  BY <1>17, OutsideStep DEF cancelMarketDataRequest, CompleteRequest, FailRequest
<1>18. ASSUME NEW c \in Slots, createMarketDataRequest(c) \/ Ingest(c)
       PROVE  SessionInv'
  BY <1>18, OutsideStep DEF createMarketDataRequest, Ingest
<1>19. ASSUME NEW st \in Strategies, Activate(st)
       PROVE  SessionInv'
  BY <1>19, OutsideStep DEF Activate
<1>20. CASE UNCHANGED vars
  BY <1>20, OutsideStep DEF vars
<1> QED
  BY <1>1, <1>2, <1>3, <1>4, <1>5, <1>6, <1>7, <1>8, <1>9, <1>10, <1>11, <1>12, <1>13,
     <1>14, <1>15, <1>16, <1>17, <1>18, <1>19, <1>20 DEF Next, JobStep

THEOREM SessionInvariant == SafeSpec => []SessionInv
<1>1. TypeOK /\ TypeOK' /\ SessionInv /\ [Next]_vars => SessionInv'
  BY SessionInvStep
<1> QED
  BY <1>1, SessionInvInit, TypeCorrect, PTL DEF SafeSpec

\* SessionsAreCovered: no session a job starts runs on history with a hole.
THEOREM CoveredSessions == SafeSpec => []SessionsAreCovered
<1>1. SessionInv => SessionsAreCovered
  BY DEF SessionInv
<1> QED
  BY <1>1, SessionInvariant, PTL

\* OneSessionPerJob: a job starts at most one session.
THEOREM SingleSession == SafeSpec => []OneSessionPerJob
<1>1. SessionInv => OneSessionPerJob
  BY DEF SessionInv
<1> QED
  BY <1>1, SessionInvariant, PTL

\* SessionsAccountedFor: every session of a job is found from the job.
THEOREM AccountedSessions == SafeSpec => []SessionsAccountedFor
<1>1. SessionInv => SessionsAccountedFor
  BY DEF SessionInv
<1> QED
  BY <1>1, SessionInvariant, PTL

-----------------------------------------------------------------------------
(* Gaps are requested, and blame and surrender are right.                  *)

\* Job j holds a request for slot c, or has yet to make one.
Held(j, c) == c \in missing[j] \/ \E r \in own[j] : reqSlot[r] = c

\* What RequestInv says of one job.
JobInv(j) ==
  /\ \A r \in own[j] : reqStatus[r] # "free"
  /\ pc[j] \in {"off", "start", "preview", "query"} \cup Polling => missing[j] = {}
  /\ \A k \in Keys : \A s \in Segments :
       Queried(j, k) /\ seg[<<k, s>>] = "missing" => Held(j, <<k, s>>)
  /\ error[j] # "" => pc[j] = "done"
  /\ error[j] = "request" => \E r \in own[j] : reqStatus[r] \in Bad
  /\ pc[j] \in {"list", "wait"} => own[j] # {}
  /\ error[j] = "not validated" =>
       \A k \in declared[j] : \A s \in Segments : seg[<<k, s>>] # "missing"

LEMMA JobByJob == TypeOK => (RequestInv <=> \A j \in Jobs : JobInv(j))
<1> SUFFICES ASSUME TypeOK
             PROVE  RequestInv <=> \A j \in Jobs : JobInv(j)
  OBVIOUS
<1> USE DEF JobInv, Queried, Held, MissingOf, Polling
<1>1. ASSUME \A j \in Jobs : JobInv(j)
      PROVE  RequestInv
  <2>1. OwnAreIssued /\ NoGapLeftOver /\ ErrorsAreFinal
    BY <1>1 DEF OwnAreIssued, NoGapLeftOver, ErrorsAreFinal
  <2>2. GapsAreHeld
    BY <1>1 DEF GapsAreHeld
  <2>3. BlamesOwnRequest /\ GivesUpWithNothingToDownload
    BY <1>1 DEF BlamesOwnRequest, Broken, GivesUpWithNothingToDownload
  <2>4. EveryGapIsRequested
    <3>1. \A j \in Jobs : declared[j] \subseteq Keys
      BY DEF TypeOK
    <3>2. ASSUME NEW j \in Jobs, pc[j] \in Polling, NEW k \in declared[j], NEW s \in MissingOf(k)
          PROVE  \E r \in own[j] : reqSlot[r] = <<k, s>>
      BY <1>1, <3>1, <3>2
    <3>3. \A j \in Jobs : pc[j] \in {"list", "wait"} => own[j] # {}
      BY <1>1
    <3> QED
      BY <3>2, <3>3 DEF EveryGapIsRequested
  <2> QED
    BY <2>1, <2>2, <2>3, <2>4 DEF RequestInv
<1>2. ASSUME RequestInv, NEW j \in Jobs
      PROVE  JobInv(j)
  BY <1>2 DEF RequestInv, OwnAreIssued, NoGapLeftOver, GapsAreHeld, ErrorsAreFinal,
     BlamesOwnRequest, Broken, EveryGapIsRequested, GivesUpWithNothingToDownload
<1> QED
  BY <1>1, <1>2

LEMMA UpsertKeeps ==
  ASSUME TypeOK, NEW c \in Slots, NEW ids \in SUBSET Requests, Upsert(c, ids)
  PROVE  /\ \A r \in Requests : reqStatus[r] # "free" =>
              reqStatus'[r] = reqStatus[r] /\ reqSlot'[r] = reqSlot[r]
         /\ \A r \in ids : reqStatus'[r] # "free" /\ reqSlot'[r] = c
         /\ ids = {} => seg[c] # "missing"
BY DEF TypeOK, Upsert

\* A request that was made keeps its slot, and one that ended badly its end.
LEMMA RequestsStay ==
  ASSUME TypeOK, [Next]_vars
  PROVE  \A r \in Requests : reqStatus[r] # "free" =>
           /\ reqStatus'[r] # "free" /\ reqSlot'[r] = reqSlot[r]
           /\ reqStatus[r] \in Bad => reqStatus'[r] \in Bad
<1> DEFINE Stay == \A r \in Requests : reqStatus[r] # "free" =>
             /\ reqStatus'[r] # "free" /\ reqSlot'[r] = reqSlot[r]
             /\ reqStatus[r] \in Bad => reqStatus'[r] \in Bad
<1> USE DEF store, goroutine, plane, service
<1>1. ASSUME UNCHANGED <<reqSlot, reqStatus>>
      PROVE  Stay
  BY <1>1
<1>2. ASSUME NEW c \in Slots, NEW ids \in SUBSET Requests, Upsert(c, ids)
      PROVE  Stay
  BY <1>2, UpsertKeeps
<1>3. ASSUME NEW j \in Jobs, JobStep(j)
      PROVE  Stay
  <2>1. ASSUME NEW k \in Keys, QueryCoverage(j, k) \/ ValidateCoverage(j, k)
        PROVE  Stay
    BY <1>1, <2>1 DEF QueryCoverage, ValidateCoverage
  <2>2. ASSUME NEW c \in Slots, CreateRequest(j, c) \/ CreateLost(j, c)
        PROVE  Stay
    BY <1>2, <2>2 DEF CreateRequest, CreateLost
  <2>3. CASE \/ \E p \in Paths : handleDownloadAndRun(j, p)
             \/ StartJob(j) \/ PreviewAccepted(j) \/ PreviewRejected(j) \/ NextKey(j)
    BY <1>1, <2>3 DEF handleDownloadAndRun, StartJob, PreviewAccepted, PreviewRejected, NextKey
  <2>4. CASE \/ failOnHistoricalRequestError(j) \/ Tick(j) \/ RunReply(j)
             \/ RpcError(j) \/ Expire(j) \/ DeadlineError(j)
    BY <1>1, <2>4 DEF failOnHistoricalRequestError, Tick, RunReply, RpcError, Expire, DeadlineError
  <2>5. ASSUME NEW x \in Sessions, StartSession(j, x)
        PROVE  Stay
    BY <1>1, <2>5 DEF StartSession
  <2> QED
    BY <1>3, <2>1, <2>2, <2>3, <2>4, <2>5 DEF JobStep
<1>4. ASSUME NEW r \in Requests,
             cancelMarketDataRequest(r) \/ CompleteRequest(r) \/ FailRequest(r)
      PROVE  Stay
  BY <1>4 DEF cancelMarketDataRequest, CompleteRequest, FailRequest, Bad, TypeOK
<1>5. ASSUME NEW c \in Slots, createMarketDataRequest(c)
      PROVE  Stay
  BY <1>2, <1>5 DEF createMarketDataRequest
<1>6. CASE \/ \E c \in Slots : Ingest(c)
           \/ \E st \in Strategies : Activate(st)
           \/ Restart
           \/ UNCHANGED vars
  BY <1>1, <1>6 DEF Ingest, Activate, Restart, vars
<1> QED
  BY <1>3, <1>4, <1>5, <1>6 DEF Next

\* The requests a job holds keep their slots, and the bad ones are never mended.
LEMMA OwnStay ==
  ASSUME TypeOK, [Next]_vars, NEW j \in Jobs, JobInv(j)
  PROVE  \A r \in own[j] : /\ reqStatus'[r] # "free" /\ reqSlot'[r] = reqSlot[r]
                           /\ reqStatus[r] \in Bad => reqStatus'[r] \in Bad
<1>1. own[j] \subseteq Requests
  BY DEF TypeOK
<1> QED
  BY <1>1, RequestsStay DEF JobInv

\* No step opens a gap.
LEMMA NoNewGap ==
  ASSUME TypeOK, [Next]_vars
  PROVE  \A k \in Keys : \A s \in Segments :
           seg'[<<k, s>>] = "missing" => seg[<<k, s>>] = "missing"
BY HistoryImproves DEF Slots

\* A step keeps JobInv of a job if it keeps the job's locals, up to moving on
\* without an error, to a place where no more gaps are seen than before.
LEMMA IdleJob ==
  ASSUME TypeOK, [Next]_vars, NEW j \in Jobs, JobInv(j),
         declared'[j] = declared[j], missing'[j] = missing[j], own'[j] = own[j],
         error'[j] = error[j], error[j] # "" => pc'[j] = "done",
         pc'[j] \in {"off", "start", "preview", "query"} \cup Polling => missing[j] = {},
         pc'[j] \in {"list", "wait"} => own[j] # {},
         \A k \in Keys : Queried(j, k)' => Queried(j, k)
  PROVE  JobInv(j)'
<1>1. declared[j] \subseteq Keys
  BY DEF TypeOK
<1>2. ASSUME NEW k \in Keys, NEW s \in Segments, Queried(j, k)', seg'[<<k, s>>] = "missing"
      PROVE  Held(j, <<k, s>>)'
  <2>1. Queried(j, k) /\ seg[<<k, s>>] = "missing"
    BY <1>2, NoNewGap
  <2>2. Held(j, <<k, s>>)
    BY <2>1 DEF JobInv
  <2> QED
    BY <2>2, OwnStay DEF Held
<1>3. error[j] = "not validated" =>
        \A k \in declared[j] : \A s \in Segments : seg'[<<k, s>>] # "missing"
  BY <1>1, NoNewGap DEF JobInv
<1>4. error[j] = "request" => \E r \in own[j] : reqStatus'[r] \in Bad
  BY OwnStay DEF JobInv
<1>5. \A r \in own[j] : reqStatus'[r] # "free"
  BY OwnStay
<1> QED
  BY <1>2, <1>3, <1>4, <1>5 DEF JobInv

\* A step of one job leaves the locals of the others.
LEMMA OthersIdle ==
  ASSUME TypeOK, NEW j \in Jobs, JobStep(j), NEW i \in Jobs, i # j
  PROVE  /\ pc'[i] = pc[i] /\ declared'[i] = declared[i] /\ todo'[i] = todo[i]
         /\ missing'[i] = missing[i] /\ own'[i] = own[i] /\ error'[i] = error[i]
<1> USE DEF TypeOK, Goto, Reach, store, goroutine
<1>1. ASSUME NEW why, Fail(j, why)
      PROVE  pc'[i] = pc[i] /\ error'[i] = error[i]
  BY <1>1 DEF Fail
<1>2. ASSUME NEW k \in Keys, QueryCoverage(j, k) \/ ValidateCoverage(j, k)
      PROVE  /\ pc'[i] = pc[i] /\ declared'[i] = declared[i] /\ todo'[i] = todo[i]
             /\ missing'[i] = missing[i] /\ own'[i] = own[i] /\ error'[i] = error[i]
  BY <1>1, <1>2 DEF QueryCoverage, ValidateCoverage
<1>3. ASSUME NEW c \in Slots, CreateRequest(j, c) \/ CreateLost(j, c)
      PROVE  /\ pc'[i] = pc[i] /\ declared'[i] = declared[i] /\ todo'[i] = todo[i]
             /\ missing'[i] = missing[i] /\ own'[i] = own[i] /\ error'[i] = error[i]
  BY <1>1, <1>3 DEF CreateRequest, CreateLost
<1>4. CASE \/ \E p \in Paths : handleDownloadAndRun(j, p)
           \/ StartJob(j) \/ PreviewAccepted(j) \/ PreviewRejected(j) \/ NextKey(j)
  BY <1>1, <1>4 DEF handleDownloadAndRun, StartJob, PreviewAccepted, PreviewRejected, NextKey
<1>5. CASE \/ failOnHistoricalRequestError(j) \/ Tick(j) \/ RunReply(j)
           \/ RpcError(j) \/ Expire(j) \/ DeadlineError(j)
  BY <1>1, <1>5 DEF failOnHistoricalRequestError, Tick, RunReply, RpcError, Expire, DeadlineError
<1>6. CASE \E x \in Sessions : StartSession(j, x)
  BY <1>6 DEF StartSession
<1> QED
  BY <1>2, <1>3, <1>4, <1>5, <1>6 DEF JobStep

\* A job that fails keeps its invariant if the reason is true.
LEMMA FailedJob ==
  ASSUME TypeOK, [Next]_vars, NEW j \in Jobs, JobInv(j), NEW why \in Reasons, Fail(j, why),
         own'[j] = own[j], declared'[j] = declared[j],
         why = "request" => Broken(j),
         why = "not validated" => \A k \in declared[j] : MissingOf(k) = {}
  PROVE  JobInv(j)'
<1>1. pc'[j] = "done" /\ error'[j] = why
  BY DEF Fail, Goto, TypeOK
<1>2. declared[j] \subseteq Keys
  BY DEF TypeOK
<1>3. why = "request" => \E r \in own[j] : reqStatus'[r] \in Bad
  BY OwnStay DEF Broken
<1>4. why = "not validated" =>
        \A k \in declared[j] : \A s \in Segments : seg'[<<k, s>>] # "missing"
  BY <1>2, NoNewGap DEF MissingOf
<1>5. \A r \in own[j] : reqStatus'[r] # "free"
  BY OwnStay
<1> QED
  BY <1>1, <1>3, <1>4, <1>5 DEF JobInv, Queried, Polling

LEMMA ActiveJob ==
  ASSUME TypeOK, TypeOK', [Next]_vars, NEW j \in Jobs, JobStep(j), JobInv(j)
  PROVE  JobInv(j)'
<1> USE DEF store, goroutine, plane, service
<1>1. own[j] \subseteq Requests /\ declared[j] \subseteq Keys
  BY DEF TypeOK
<1>2. ASSUME own'[j] = own[j]
      PROVE  \A r \in own'[j] : reqStatus'[r] # "free"
  BY <1>2, OwnStay
<1>3. CASE (\E p \in Paths : handleDownloadAndRun(j, p)) \/ StartJob(j)
  BY <1>2, <1>3 DEF handleDownloadAndRun, StartJob, Goto, TypeOK, JobInv, Queried, Polling
<1>4. CASE PreviewAccepted(j)
  <2>1. /\ pc'[j] = "query" /\ declared'[j] = todo'[j] /\ error'[j] = ""
        /\ missing'[j] = {} /\ own'[j] = own[j]
    BY <1>4 DEF PreviewAccepted, Goto, Reach, TypeOK, JobInv
  <2> QED
    BY <1>2, <2>1 DEF JobInv, Queried, Polling
<1>5. CASE PreviewRejected(j)
  <2>1. PICK why \in {"profile", "no inputs"} : Fail(j, why)
    BY <1>5 DEF PreviewRejected
  <2> QED
    BY <1>5, <2>1, FailedJob DEF PreviewRejected, Reasons
<1>6. ASSUME NEW k \in Keys, QueryCoverage(j, k)
      PROVE  JobInv(j)'
  <2>1. CASE NotDownloadable(k)
    BY <1>6, <2>1, FailedJob DEF QueryCoverage, Reasons
  <2>2. CASE ~NotDownloadable(k)
    <3>1. /\ pc[j] = "query" /\ pc'[j] = "create" /\ todo'[j] = todo[j] \ {k}
          /\ missing'[j] = {k} \X MissingOf(k) /\ missing[j] = {}
          /\ declared'[j] = declared[j] /\ own'[j] = own[j] /\ error'[j] = error[j] /\ error[j] = ""
      <4>1. /\ pc[j] = "query" /\ Goto(j, "create")
            /\ todo' = [todo EXCEPT ![j] = @ \ {k}]
            /\ missing' = [missing EXCEPT ![j] = {k} \X MissingOf(k)]
            /\ declared' = declared /\ own' = own /\ error' = error
        BY <1>6, <2>2 DEF QueryCoverage
      <4>2. missing[j] = {} /\ error[j] = ""
        BY <4>1 DEF JobInv
      <4> QED
        BY <4>1, <4>2 DEF Goto, TypeOK
    <3>2. ASSUME NEW l \in Keys, NEW s \in Segments, Queried(j, l)', seg'[<<l, s>>] = "missing"
          PROVE  Held(j, <<l, s>>)'
      <4>1. seg[<<l, s>>] = "missing"
        BY <3>2, NoNewGap
      <4>2. CASE l = k
        BY <3>1, <4>1, <4>2 DEF Held, MissingOf
      <4>3. CASE l # k
        <5>1. Queried(j, l)
          BY <3>1, <3>2, <4>3 DEF Queried, Polling
        <5>2. \E r \in own[j] : reqSlot[r] = <<l, s>>
          BY <3>1, <4>1, <5>1 DEF JobInv, Held
        <5> QED
          BY <3>1, <5>2, OwnStay DEF Held
      <4> QED
        BY <4>2, <4>3
    <3> QED
      BY <1>2, <3>1, <3>2 DEF JobInv, Polling
  <2> QED
    BY <2>1, <2>2
<1>7. ASSUME NEW c \in Slots, CreateRequest(j, c)
      PROVE  JobInv(j)'
  <2>1. PICK ids \in SUBSET Requests : Upsert(c, ids) /\ own' = [own EXCEPT ![j] = @ \cup ids]
    BY <1>7 DEF CreateRequest
  <2>2. /\ pc[j] = "create" /\ pc'[j] = "create" /\ todo'[j] = todo[j]
        /\ declared'[j] = declared[j] /\ error'[j] = error[j] /\ error[j] = "" /\ seg' = seg
        /\ missing'[j] = missing[j] \ {c} /\ own'[j] = own[j] \cup ids
    BY <1>7, <2>1 DEF CreateRequest, TypeOK, JobInv
  <2>3. /\ \A r \in ids : reqStatus'[r] # "free" /\ reqSlot'[r] = c
        /\ ids = {} => seg[c] # "missing"
    BY <2>1, UpsertKeeps
  <2>4. ASSUME NEW k \in Keys, NEW s \in Segments, Queried(j, k)', seg'[<<k, s>>] = "missing"
        PROVE  Held(j, <<k, s>>)'
    <3>1. Held(j, <<k, s>>)
      BY <2>2, <2>4 DEF JobInv, Queried, Polling
    <3>2. CASE <<k, s>> = c
      BY <2>2, <2>3, <2>4, <3>2 DEF Held
    <3>3. CASE <<k, s>> # c
      BY <2>2, <3>1, <3>3, OwnStay DEF Held
    <3> QED
      BY <3>2, <3>3
  <2>5. \A r \in own'[j] : reqStatus'[r] # "free"
    BY <2>2, <2>3, OwnStay
  <2> QED
    BY <2>2, <2>4, <2>5 DEF JobInv, Polling
<1>8. ASSUME NEW c \in Slots, CreateLost(j, c)
      PROVE  JobInv(j)'
  <2>1. PICK why \in {"deadline", "rpc"} : Fail(j, why)
    BY <1>8 DEF CreateLost
  <2> QED
    BY <1>8, <2>1, FailedJob DEF CreateLost, Reasons
<1>9. CASE NextKey(j)
  <2>1. /\ pc[j] = "create" /\ missing[j] = {} /\ missing'[j] = missing[j]
        /\ declared'[j] = declared[j] /\ own'[j] = own[j]
        /\ error'[j] = error[j] /\ error[j] = ""
    BY <1>9 DEF NextKey, Reach, JobInv
  <2>2. \/ pc'[j] = "query" /\ todo'[j] = todo[j]
        \/ pc'[j] = "validate" /\ todo[j] = {}
    BY <1>9 DEF NextKey, Goto, TypeOK
  <2>3. \A k \in Keys : Queried(j, k)' => Queried(j, k)
    BY <2>1, <2>2 DEF Queried, Polling
  <2> QED
    BY <2>1, <2>2, <2>3, IdleJob
<1>10. ASSUME NEW k \in Keys, ValidateCoverage(j, k)
       PROVE  JobInv(j)'
  <2>1. /\ pc[j] = "validate" /\ missing[j] = {} /\ missing'[j] = missing[j]
        /\ declared'[j] = declared[j] /\ own'[j] = own[j]
        /\ error[j] = "" /\ seg' = seg
    BY <1>10 DEF ValidateCoverage, JobInv, Polling
  <2>2. CASE own[j] = {} /\ Fail(j, "not validated")
    <3>1. \A l \in declared[j] : MissingOf(l) = {}
      BY <1>1, <2>1, <2>2 DEF JobInv, Queried, Polling, Held, MissingOf
    <3> QED
      BY <2>1, <2>2, <3>1, FailedJob DEF Reasons
  <2>3. CASE /\ error'[j] = error[j]
             /\ \/ own[j] # {} /\ pc'[j] = "list"
                \/ pc'[j] \in {"validate", "run"}
    <3>1. \A l \in Keys : Queried(j, l)' => Queried(j, l)
      BY <2>1, <2>3 DEF Queried, Polling
    <3> QED
      BY <2>1, <2>3, <3>1, IdleJob DEF Polling
  <2> QED
    BY <1>10, <2>1, <2>2, <2>3 DEF ValidateCoverage, Goto, Reach, TypeOK
<1>11. CASE failOnHistoricalRequestError(j)
  <2>1. CASE Broken(j)
    BY <1>11, <2>1, FailedJob DEF failOnHistoricalRequestError, Reasons
  <2>2. CASE ~Broken(j)
    <3>1. /\ pc[j] = "list" /\ pc'[j] = "wait" /\ missing'[j] = missing[j]
          /\ declared'[j] = declared[j] /\ own'[j] = own[j]
          /\ error'[j] = error[j] /\ error[j] = ""
      BY <1>11, <2>2 DEF failOnHistoricalRequestError, Goto, TypeOK, JobInv
    <3>2. missing[j] = {} /\ own[j] # {} /\ \A k \in Keys : Queried(j, k)' => Queried(j, k)
      BY <3>1 DEF JobInv, Queried, Polling
    <3> QED
      BY <3>1, <3>2, IdleJob
  <2> QED
    BY <2>1, <2>2
<1>12. CASE Tick(j)
  <2>1. /\ pc[j] = "wait" /\ pc'[j] = "validate" /\ missing'[j] = missing[j]
        /\ declared'[j] = declared[j] /\ own'[j] = own[j]
        /\ error'[j] = error[j] /\ error[j] = ""
    BY <1>12 DEF Tick, Goto, TypeOK, JobInv
  <2>2. missing[j] = {} /\ \A k \in Keys : Queried(j, k)' => Queried(j, k)
    BY <2>1 DEF JobInv, Queried, Polling
  <2> QED
    BY <2>1, <2>2, IdleJob
<1>13. CASE RunReply(j)
  <2>1. pc'[j] = "done" /\ error'[j] = "" /\ own'[j] = own[j]
    BY <1>13 DEF RunReply, Goto, TypeOK
  <2> QED
    BY <1>2, <2>1 DEF JobInv, Queried, Polling
<1>14. CASE RpcError(j) \/ DeadlineError(j)
  <2>1. PICK why \in {"rpc", "deadline"} : Fail(j, why)
    BY <1>14 DEF RpcError, DeadlineError
  <2> QED
    BY <1>14, <2>1, FailedJob DEF RpcError, DeadlineError, Reasons
<1>15. CASE Expire(j) \/ \E x \in Sessions : StartSession(j, x)
  <2>1. /\ pc'[j] = pc[j] /\ declared'[j] = declared[j] /\ todo'[j] = todo[j]
        /\ missing'[j] = missing[j] /\ own'[j] = own[j] /\ error'[j] = error[j]
    BY <1>15 DEF Expire, StartSession
  <2>2. \A k \in Keys : Queried(j, k)' => Queried(j, k)
    BY <2>1 DEF Queried
  <2> QED
    BY <2>1, <2>2, IdleJob DEF JobInv
<1> QED
  BY <1>3, <1>4, <1>5, <1>6, <1>7, <1>8, <1>9, <1>10, <1>11, <1>12, <1>13, <1>14, <1>15
     DEF JobStep

LEMMA RequestInvInit == Init => RequestInv
BY DEF Init, RequestInv, OwnAreIssued, NoGapLeftOver, GapsAreHeld, Queried, ErrorsAreFinal,
       BlamesOwnRequest, EveryGapIsRequested, GivesUpWithNothingToDownload, Polling

LEMMA RequestInvStep == TypeOK /\ TypeOK' /\ RequestInv /\ [Next]_vars => RequestInv'
<1> SUFFICES ASSUME TypeOK, TypeOK', RequestInv, [Next]_vars
             PROVE  RequestInv'
  OBVIOUS
<1>1. \A i \in Jobs : JobInv(i)
  BY JobByJob
<1>2. ASSUME NEW i \in Jobs,
             pc'[i] = pc[i], declared'[i] = declared[i], todo'[i] = todo[i],
             missing'[i] = missing[i], own'[i] = own[i], error'[i] = error[i]
      PROVE  JobInv(i)'
  <2>1. \A k \in Keys : Queried(i, k)' => Queried(i, k)
    BY <1>2 DEF Queried
  <2>2. JobInv(i)
    BY <1>1
  <2> QED
    BY <1>2, <2>1, <2>2, IdleJob DEF JobInv
<1>3. ASSUME NEW i \in Jobs, NEW j \in Jobs, JobStep(j)
      PROVE  JobInv(i)'
  <2>1. CASE i = j
    BY <1>1, <1>3, <2>1, ActiveJob
  <2>2. CASE i # j
    BY <1>2, <1>3, <2>2, OthersIdle
  <2> QED
    BY <2>1, <2>2
<1>4. ASSUME NEW i \in Jobs, Restart
      PROVE  JobInv(i)'
  BY <1>4 DEF Restart, JobInv, Queried, Polling
<1>5. ASSUME NEW i \in Jobs, UNCHANGED <<store, goroutine>>
      PROVE  JobInv(i)'
  BY <1>2, <1>5 DEF store, goroutine
<1>6. ASSUME NEW i \in Jobs,
             \/ \E r \in Requests : cancelMarketDataRequest(r) \/ CompleteRequest(r) \/ FailRequest(r)
             \/ \E c \in Slots : createMarketDataRequest(c) \/ Ingest(c)
             \/ \E st \in Strategies : Activate(st)
             \/ UNCHANGED vars
      PROVE  JobInv(i)'
  <2>1. UNCHANGED <<store, goroutine>>
    BY <1>6 DEF cancelMarketDataRequest, CompleteRequest, FailRequest,
       createMarketDataRequest, Ingest, Activate, vars
  <2> QED
    BY <1>5, <2>1
<1>7. \A i \in Jobs : JobInv(i)'
  BY <1>3, <1>4, <1>6 DEF Next
<1>8. (RequestInv <=> \A j \in Jobs : JobInv(j))'
  BY JobByJob, PTL
<1> QED
  BY <1>7, <1>8

THEOREM RequestInvariant == SafeSpec => []RequestInv
<1>1. TypeOK /\ TypeOK' /\ RequestInv /\ [Next]_vars => RequestInv'
  BY RequestInvStep
<1> QED
  BY <1>1, RequestInvInit, TypeCorrect, PTL DEF SafeSpec

\* BlamesOwnRequest: a job that blames a request waited for it, and it ended badly.
THEOREM BlameIsRight == SafeSpec => []BlamesOwnRequest
<1>1. RequestInv => BlamesOwnRequest
  BY DEF RequestInv
<1> QED
  BY <1>1, RequestInvariant, PTL

\* EveryGapIsRequested: a polling job holds a request for all its inputs miss.
THEOREM GapsAreRequested == SafeSpec => []EveryGapIsRequested
<1>1. RequestInv => EveryGapIsRequested
  BY DEF RequestInv
<1> QED
  BY <1>1, RequestInvariant, PTL

\* GivesUpWithNothingToDownload: a job that says its data does not validate
\* leaves nothing to download.
THEOREM SurrenderIsRight == SafeSpec => []GivesUpWithNothingToDownload
<1>1. RequestInv => GivesUpWithNothingToDownload
  BY DEF RequestInv
<1> QED
  BY <1>1, RequestInvariant, PTL
-----------------------------------------------------------------------------
(* The job API keeps its contract.                                         *)

\* What StoreInv says of one job.
JobStored(j) ==
  /\ pc[j] \in {"off", "lost"} => Stored(j, "absent", 0)
  /\ pc[j] = "start" => Stored(j, "pending", 0)
  /\ pc[j] = "preview" => Stored(j, "running", 5)
  /\ pc[j] \in {"query", "create"} => Stored(j, "running", 15)
  /\ pc[j] \in Polling => Stored(j, "running", 35)
  /\ pc[j] = "run" => Stored(j, "running", 90)

\* What a step of job j may do to the store, with the place it moves to.
StoreStep(j) ==
  \/ /\ pc[j] = "off" /\ pc' = [pc EXCEPT ![j] = "start"]
     /\ status' = [status EXCEPT ![j] = "pending"]
     /\ UNCHANGED <<progress, sessionID>>
  \/ /\ pc[j] = "start" /\ pc' = [pc EXCEPT ![j] = "preview"]
     /\ status' = [status EXCEPT ![j] = "running"]
     /\ progress' = [progress EXCEPT ![j] = 5]
     /\ UNCHANGED sessionID
  \/ /\ \/ pc[j] = "preview" /\ pc' = [pc EXCEPT ![j] = "query"]
           /\ progress' = [progress EXCEPT ![j] = 15]
        \/ pc[j] = "create" /\ pc' = [pc EXCEPT ![j] = "validate"]
           /\ progress' = [progress EXCEPT ![j] = 35]
        \/ pc[j] = "validate" /\ pc' = [pc EXCEPT ![j] = "run"]
           /\ progress' = [progress EXCEPT ![j] = 90]
     /\ UNCHANGED <<status, sessionID>>
  \/ /\ pc[j] = "run" /\ pc' = [pc EXCEPT ![j] = "done"]
     /\ \E x \in Sessions : sessionID' = [sessionID EXCEPT ![j] = x]
     /\ status' = [status EXCEPT ![j] = "ready"]
     /\ progress' = [progress EXCEPT ![j] = 100]
  \/ /\ pc[j] \in RpcWaits \cup {"wait"} /\ pc' = [pc EXCEPT ![j] = "done"]
     /\ status' = [status EXCEPT ![j] = "error"]
     /\ UNCHANGED <<progress, sessionID>>
  \/ /\ \/ pc[j] = "query" /\ pc' = [pc EXCEPT ![j] = "create"]
        \/ pc[j] = "create" /\ pc' = [pc EXCEPT ![j] = "query"]
        \/ pc[j] \in Polling /\ \E l \in Polling : pc' = [pc EXCEPT ![j] = l]
        \/ pc' = pc
     /\ UNCHANGED <<status, progress, sessionID>>

LEMMA JobStepStores ==
  ASSUME NEW j \in Jobs, JobStep(j)
  PROVE  StoreStep(j)
<1> USE DEF StoreStep, store, goroutine, Goto, Reach, Fail
<1>1. ASSUME NEW p \in Paths, handleDownloadAndRun(j, p)
      PROVE  StoreStep(j)
  BY <1>1 DEF handleDownloadAndRun
<1>2. CASE StartJob(j)
  BY <1>2 DEF StartJob
<1>3. CASE PreviewAccepted(j)
  BY <1>3 DEF PreviewAccepted
<1>4. CASE PreviewRejected(j)
  BY <1>4 DEF PreviewRejected, RpcWaits
<1>5. ASSUME NEW k \in Keys, QueryCoverage(j, k)
      PROVE  StoreStep(j)
  BY <1>5 DEF QueryCoverage, RpcWaits
<1>6. ASSUME NEW k \in Keys, ValidateCoverage(j, k)
      PROVE  StoreStep(j)
  BY <1>6 DEF ValidateCoverage, RpcWaits, Polling
<1>7. ASSUME NEW c \in Slots, CreateRequest(j, c) \/ CreateLost(j, c)
      PROVE  StoreStep(j)
  BY <1>7 DEF CreateRequest, CreateLost, RpcWaits
<1>8. CASE NextKey(j)
  BY <1>8 DEF NextKey
<1>9. CASE failOnHistoricalRequestError(j)
  BY <1>9 DEF failOnHistoricalRequestError, RpcWaits, Polling
<1>10. CASE Tick(j)
  BY <1>10 DEF Tick, Polling
<1>11. CASE RunReply(j)
  BY <1>11 DEF RunReply
<1>12. CASE RpcError(j) \/ DeadlineError(j)
  BY <1>12 DEF RpcError, DeadlineError, InCall, RpcWaits
<1>13. CASE Expire(j) \/ \E x \in Sessions : StartSession(j, x)
  BY <1>13 DEF Expire, StartSession
<1> QED
  BY <1>1, <1>2, <1>3, <1>4, <1>5, <1>6, <1>7, <1>8, <1>9, <1>10, <1>11, <1>12, <1>13 DEF JobStep

\* Every other step but a restart leaves the store and the goroutines alone.
LEMMA OtherStepStores ==
  ASSUME [Next]_vars
  PROVE  \/ \E j \in Jobs : JobStep(j)
         \/ Restart
         \/ UNCHANGED <<status, progress, sessionID, pc>>
<1> USE DEF store, goroutine
<1>1. CASE \/ \E r \in Requests : cancelMarketDataRequest(r) \/ CompleteRequest(r) \/ FailRequest(r)
           \/ \E c \in Slots : createMarketDataRequest(c) \/ Ingest(c)
           \/ \E st \in Strategies : Activate(st)
           \/ UNCHANGED vars
  BY <1>1 DEF cancelMarketDataRequest, CompleteRequest, FailRequest,
     createMarketDataRequest, Ingest, Activate, vars
<1> QED
  BY <1>1 DEF Next

LEMMA StoreInvStep == TypeOK /\ StoreInv /\ [Next]_vars => StoreInv'
<1> SUFFICES ASSUME TypeOK, StoreInv, [Next]_vars
             PROVE  StoreInv'
  OBVIOUS
<1> USE DEF Stored
<1>1. ASSUME NEW j \in Jobs, StoreStep(j)
      PROVE  StoreInv'
  <2>1. ASSUME NEW i \in Jobs, i # j
        PROVE  pc'[i] = pc[i] /\ status'[i] = status[i] /\ progress'[i] = progress[i]
               /\ sessionID'[i] = sessionID[i]
    BY <1>1, <2>1 DEF StoreStep, TypeOK
  <2>2. JobStored(j)'
    BY <1>1 DEF StoreStep, TypeOK, JobStored, StoreInv, Polling, RpcWaits
  <2>3. ASSUME NEW i \in Jobs
        PROVE  JobStored(i)'
    BY <2>1, <2>2 DEF StoreInv, JobStored
  <2> QED
    BY <2>3 DEF StoreInv, JobStored
<1>2. CASE Restart
  BY <1>2 DEF Restart, StoreInv, Polling
<1>3. CASE UNCHANGED <<status, progress, sessionID, pc>>
  BY <1>3 DEF StoreInv
<1> QED
  BY <1>1, <1>2, <1>3, JobStepStores, OtherStepStores

\* StoreInv: progress and status tell how far a job's goroutine is.
THEOREM StoreInvariant == SafeSpec => []StoreInv
<1>1. ASSUME Init, NEW j \in Jobs
      PROVE  pc[j] = "off" /\ Stored(j, "absent", 0)
  BY <1>1 DEF Init, Stored
<1>2. Init => StoreInv
  BY <1>1 DEF StoreInv, Polling
<1> QED
  BY <1>2, StoreInvStep, TypeCorrect, PTL DEF SafeSpec

\* Every step of the BFF is a step of the contract, or none.
LEMMA ContractStep ==
  ASSUME TypeOK, TypeOK', StoreInv, [Next]_vars
  PROVE  [Contract!Next]_(Contract!vars)
<1> DEFINE issued == {j \in Jobs : pc[j] # "off"}
           row(j) == [status |-> status[j], progress |-> progress[j], session |-> sessionID[j]]
           board == [j \in Jobs |-> row(j)]
<1> USE DEF Contract!Row
<1>1. ASSUME NEW j \in Jobs, StoreStep(j)
      PROVE  [Contract!Next]_(Contract!vars)
  <2>1. ASSUME NEW i \in Jobs, i # j
        PROVE  (pc'[i] # "off" <=> pc[i] # "off") /\ row(i)' = row(i)
    BY <1>1, <2>1 DEF StoreStep, TypeOK
  <2>2. board' = [board EXCEPT ![j] = row(j)']
    BY <2>1
  <2>3. CASE pc[j] = "off" /\ pc'[j] = "start"
    <3>1. issued' = issued \cup {j} /\ j \notin issued
      BY <2>1, <2>3
    <3>2. row(j)' = Contract!Row("pending", 0)
      BY <1>1, <2>3 DEF StoreStep, StoreInv, Stored, TypeOK, RpcWaits, Polling
    <3>3. Contract!Accept(j)
      BY <2>2, <3>1, <3>2 DEF Contract!Accept
    <3> QED
      BY <3>3 DEF Contract!Next
  <2>4. CASE pc'[j] = pc[j] /\ row(j)' = row(j)
    BY <2>1, <2>2, <2>4 DEF Contract!vars
  <2>5. CASE pc[j] # "off" /\ pc'[j] # "off"
    <3>1. issued' = issued
      BY <2>1, <2>5
    <3>2. CASE pc[j] = "start" /\ pc'[j] = "preview"
      <4>1. status[j] = "pending" /\ row(j)' = Contract!Row("running", 5)
        BY <1>1, <3>2 DEF StoreStep, StoreInv, Stored, TypeOK, RpcWaits, Polling
      <4>2. board' = [board EXCEPT ![j] = [status |-> "running", progress |-> 5, session |-> NoSession]]
        BY <2>2, <4>1
      <4>3. board[j].status = "pending" /\ 5 \in 1..99
        BY <4>1
      <4>4. Contract!Begin(j)
        BY <3>1, <4>2, <4>3, Zenon DEF Contract!Begin
      <4> QED
        BY <4>4 DEF Contract!Next
    <3>3. CASE \/ pc[j] = "preview" /\ pc'[j] = "query"
               \/ pc[j] = "create" /\ pc'[j] = "validate"
               \/ pc[j] = "validate" /\ pc'[j] = "run"
      <4>1. PICK p \in {15, 35, 90} :
              progress[j] < p /\ status[j] = "running" /\ row(j)' = Contract!Row("running", p)
        BY <1>1, <3>3 DEF StoreStep, StoreInv, Stored, TypeOK, RpcWaits, Polling
      <4>2. board' = [board EXCEPT ![j] = [status |-> "running", progress |-> p, session |-> NoSession]]
        BY <2>2, <4>1
      <4>3. progress[j] \in 0..100
        BY DEF TypeOK
      <4>4. p \in (progress[j] + 1)..99
        BY <4>1, <4>3
      <4>5. board[j].status = "running" /\ board[j].progress = progress[j]
        BY <4>1
      <4>6. p \in (board[j].progress + 1)..99
        BY <4>4, <4>5, Zenon
      <4>7. Contract!Advance(j)
        BY <3>1, <4>2, <4>5, <4>6, Zenon DEF Contract!Advance
      <4> QED
        BY <4>7 DEF Contract!Next
    <3>4. CASE pc[j] = "run" /\ pc'[j] = "done" /\ status'[j] = "ready"
      <4>1. PICK x \in Sessions :
              row(j)' = [status |-> "ready", progress |-> 100, session |-> x]
        BY <1>1, <3>4 DEF StoreStep, StoreInv, Stored, TypeOK
      <4>2. status[j] = "running"
        BY <3>4 DEF StoreInv, Stored
      <4>3. board' = [board EXCEPT ![j] = [status |-> "ready", progress |-> 100, session |-> x]]
        BY <2>2, <4>1
      <4>4. board[j].status = "running"
        BY <4>2
      <4>5. Contract!Succeed(j)
        BY <3>1, <4>3, <4>4, Zenon DEF Contract!Succeed
      <4> QED
        BY <4>5 DEF Contract!Next, Contract!Settle
    <3>5. CASE pc[j] \in RpcWaits \cup {"wait"} /\ status'[j] = "error"
               /\ progress'[j] = progress[j] /\ sessionID'[j] = sessionID[j]
      <4>1. status[j] = "running" /\ row(j)' = Contract!Row("error", progress[j])
        BY <3>5 DEF StoreInv, Stored, RpcWaits, Polling
      <4>2. Contract!GiveUp(j)
        BY <2>2, <3>1, <4>1 DEF Contract!GiveUp
      <4> QED
        BY <4>2 DEF Contract!Next, Contract!Settle
    <3>6. CASE row(j)' = row(j)
      BY <2>2, <3>1, <3>6 DEF Contract!vars
    <3> QED
      BY <1>1, <2>5, <3>2, <3>3, <3>4, <3>5, <3>6 DEF StoreStep, TypeOK
  <2> QED
    BY <1>1, <2>3, <2>4, <2>5 DEF StoreStep, TypeOK, RpcWaits, Polling
<1>2. CASE Restart
  <2>1. issued' = issued
    BY <1>2 DEF Restart, TypeOK
  <2>2. board' = [j \in Jobs |-> Contract!Unknown]
    BY <1>2 DEF Restart, Contract!Unknown
  <2> QED
    BY <2>1, <2>2 DEF Contract!Next, Contract!Forget
<1>3. CASE UNCHANGED <<status, progress, sessionID, pc>>
  BY <1>3 DEF Contract!vars
<1> QED
  BY <1>1, <1>2, <1>3, JobStepStores, OtherStepStores

\* ImplementsContract, its safety: what polling a job shows goes only the way
\* the contract allows (the fairness of the contract is left to the runs).
THEOREM KeepsContract == SafeSpec => Contract!SafeSpec
<1>1. ASSUME Init
      PROVE  Contract!Init
  <2>1. {j \in Jobs : pc[j] # "off"} = {}
    BY <1>1 DEF Init
  <2>2. [j \in Jobs |-> [status |-> status[j], progress |-> progress[j], session |-> sessionID[j]]]
          = [j \in Jobs |-> Contract!Unknown]
    BY <1>1 DEF Init, Contract!Unknown, Contract!Row
  <2> QED
    BY <2>1, <2>2 DEF Contract!Init
<1> QED
  BY <1>1, ContractStep, StoreInvariant, TypeCorrect, PTL DEF SafeSpec, Contract!SafeSpec

-----------------------------------------------------------------------------
(* What a client that polls a job can count on.                            *)

\* From one answer to the next a job goes forward, or the restart has lost it:
\* its progress never falls, one that settled stays as it is, and one that is
\* unknown appears only if its id was never issued.
GoesForward(j) ==
  \/ status'[j] = "absent"
  \/ /\ progress[j] <= progress'[j]
     /\ status[j] \in {"ready", "error"} =>
          status'[j] = status[j] /\ progress'[j] = progress[j] /\ sessionID'[j] = sessionID[j]
     /\ status[j] = "running" => status'[j] # "pending"
     /\ status[j] = "absent" => pc[j] = "off"

JobsGoForward == \A j \in Jobs : GoesForward(j)

\* A job's own step takes it forward.
LEMMA StepGoesForward ==
  ASSUME TypeOK, StoreInv, NEW j \in Jobs, StoreStep(j)
  PROVE  GoesForward(j)
<1>1. /\ pc[j] \in Alive \cup {"off", "done", "lost"}
      /\ progress[j] \in {0, 5, 15, 35, 90, 100}
      /\ JobStored(j)
  BY DEF TypeOK, StoreInv, JobStored
<1>2. CASE UNCHANGED <<status, progress, sessionID>>
  BY <1>1, <1>2 DEF GoesForward, StoreStep
<1>3. CASE ~ UNCHANGED <<status, progress, sessionID>>
  BY <1>1, <1>3 DEF StoreStep, GoesForward, JobStored, Stored, TypeOK, Polling, RpcWaits
<1> QED
  BY <1>2, <1>3

LEMMA JobsGoForwardStep ==
  ASSUME TypeOK, StoreInv, [Next]_vars
  PROVE  [JobsGoForward]_vars
<1>1. ASSUME NEW j \in Jobs
      PROVE  progress[j] \in {0, 5, 15, 35, 90, 100}
  BY DEF TypeOK
<1>2. ASSUME NEW i \in Jobs, StoreStep(i), NEW j \in Jobs
      PROVE  GoesForward(j)
  <2>1. CASE j = i
    BY <1>2, <2>1, StepGoesForward
  <2>2. CASE j # i
    <3>1. status'[j] = status[j] /\ progress'[j] = progress[j] /\ sessionID'[j] = sessionID[j]
      BY <1>2, <2>2 DEF StoreStep, TypeOK
    <3> QED
      BY <1>1, <3>1 DEF GoesForward
  <2> QED
    BY <2>1, <2>2
<1>3. CASE Restart
  BY <1>3 DEF Restart, JobsGoForward, GoesForward
<1>4. CASE UNCHANGED <<status, progress, sessionID, pc>>
  BY <1>1, <1>4 DEF JobsGoForward, GoesForward
<1> QED
  BY <1>2, <1>3, <1>4, JobStepStores, OtherStepStores DEF JobsGoForward

\* Whatever the jobs beside it do, what a client is told of a job only goes
\* forward: no poll shows less progress than the one before, another end, or a
\* job again that was lost (backtest_download_jobs.go 62-101, 177-240).
THEOREM AnswersGoForward == SafeSpec => [][JobsGoForward]_vars
  BY JobsGoForwardStep, StoreInvariant, TypeCorrect, PTL DEF SafeSpec
=============================================================================
