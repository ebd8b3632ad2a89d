---------------------------- MODULE JobContract ----------------------------
(***************************************************************************)
(* What the download-and-run API promises about one job, as its client     *)
(* sees it through GET /api/strategy/download-and-run-jobs/{id}: a job is  *)
(* accepted as pending, runs with a progress that only grows, and settles  *)
(* once, either ready with the session it started or in error.  A settled  *)
(* job never changes.  The server keeps jobs in memory only, so a restart  *)
(* may make every job unknown; an id is never issued twice.                *)
(***************************************************************************)
EXTENDS Naturals

CONSTANTS
  Jobs,       \* job ids
  Sessions,   \* ids of strategy sessions
  NoSession   \* the empty session_id

VARIABLES
  issued,     \* ids ever answered with 202 Accepted
  board       \* what a poll of each id returns

vars == <<issued, board>>

\* A job with status st that has reached p percent and started no session.
Row(st, p) == [status |-> st, progress |-> p, session |-> NoSession]

Unknown == Row("absent", 0)

Init ==
  /\ issued = {}
  /\ board = [j \in Jobs |-> Unknown]

Accept(j) ==
  /\ j \notin issued
  /\ issued' = issued \cup {j}
  /\ board' = [board EXCEPT ![j] = Row("pending", 0)]

Begin(j) ==
  /\ board[j].status = "pending"
  /\ \E p \in 1..99 : board' = [board EXCEPT ![j] = Row("running", p)]
  /\ UNCHANGED issued

Advance(j) ==
  /\ board[j].status = "running"
  /\ \E p \in (board[j].progress + 1)..99 : board' = [board EXCEPT ![j] = Row("running", p)]
  /\ UNCHANGED issued

Succeed(j) ==
  /\ board[j].status = "running"
  /\ \E x \in Sessions :
       board' = [board EXCEPT ![j] = [status |-> "ready", progress |-> 100, session |-> x]]
  /\ UNCHANGED issued

\* An error leaves the progress where the job stopped.
GiveUp(j) ==
  /\ board[j].status = "running"
  /\ board' = [board EXCEPT ![j] = Row("error", @.progress)]
  /\ UNCHANGED issued

Forget ==
  /\ board' = [j \in Jobs |-> Unknown]
  /\ UNCHANGED issued

Settle(j) == Succeed(j) \/ GiveUp(j)

Next ==
  \/ \E j \in Jobs : Accept(j) \/ Begin(j) \/ Advance(j) \/ Settle(j)
  \/ Forget

Fairness == \A j \in Jobs : WF_vars(Begin(j)) /\ WF_vars(Settle(j))

SafeSpec == Init /\ [][Next]_vars

Spec == SafeSpec /\ Fairness
=============================================================================
