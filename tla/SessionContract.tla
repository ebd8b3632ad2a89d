-------------------------- MODULE SessionContract --------------------------
(***************************************************************************)
(* What the session API promises.  A session is started in one runtime and *)
(* stays there, goes on, and is over once and for good; it goes on only    *)
(* while its runtime does.  What a client is told of a session, by its     *)
(* status, by a stop or by the run that started it, is so when it is told. *)
(* There is no record that trails here, no route and no call that fails:   *)
(* a client that gets no answer was told nothing.                          *)
(***************************************************************************)
CONSTANTS
  Clients, Runtimes, Sessions,
  NoRuntime   \* the empty runtime_id

VARIABLES
  phase,      \* of a session: "nothing" before it is started, "going", "over"
  place,      \* the runtime it was started in
  closed,     \* the runtimes that were ended
  told        \* what a client was last told of a session

vars == <<phase, place, closed, told>>

Init ==
  /\ phase = [s \in Sessions |-> "nothing"]
  /\ place = [s \in Sessions |-> NoRuntime]
  /\ closed = {}
  /\ told = [c \in Clients |-> [s \in Sessions |-> "nothing"]]

Told(c, s, what) == told' = [told EXCEPT ![c] = [told[c] EXCEPT ![s] = what]]

\* Whoever had it started is told so, or is told nothing.
Start(s, r) ==
  /\ phase[s] = "nothing" /\ r \notin closed
  /\ phase' = [phase EXCEPT ![s] = "going"]
  /\ place' = [place EXCEPT ![s] = r]
  /\ UNCHANGED told \/ \E c \in Clients : Told(c, s, "going")
  /\ UNCHANGED closed

\* It finishes by itself, or is stopped.
Finish(s) ==
  /\ phase[s] = "going"
  /\ phase' = [phase EXCEPT ![s] = "over"]
  /\ UNCHANGED <<place, closed, told>>

Inform(c, s) ==
  /\ phase[s] # "nothing"
  /\ Told(c, s, phase[s])
  /\ UNCHANGED <<phase, place, closed>>

\* What goes on in a runtime is over when the runtime is ended.
Close(r) ==
  /\ r \notin closed
  /\ closed' = closed \cup {r}
  /\ phase' = [s \in Sessions |->
                 IF place[s] = r /\ phase[s] = "going" THEN "over" ELSE phase[s]]
  /\ UNCHANGED <<place, told>>

Next ==
  \/ \E s \in Sessions : Finish(s) \/ \E r \in Runtimes : Start(s, r)
  \/ \E c \in Clients, s \in Sessions : Inform(c, s)
  \/ \E r \in Runtimes : Close(r)

Spec == Init /\ [][Next]_vars

-----------------------------------------------------------------------------
(* What a client can rely on.                                              *)

\* A session that a client was told is over is over, and one it was told of
\* was started.
ToldIsSo ==
  \A c \in Clients, s \in Sessions :
    /\ told[c][s] = "over" => phase[s] = "over"
    /\ told[c][s] = "going" => phase[s] # "nothing"

\* Nothing goes on in a runtime that was ended.
ClosedIsOver == \A s \in Sessions : place[s] \in closed => phase[s] = "over"
=============================================================================
