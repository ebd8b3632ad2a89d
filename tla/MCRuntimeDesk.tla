----------------------------- MODULE MCRuntimeDesk -----------------------------
(* An instance of RuntimeDesk for TLC. *)
EXTENDS RuntimeDesk

MCNames == {"a"}

\* Everything; what a session can start in; what a backtest can; what a demo
\* can, of an executor; the debuggers of the user's own; and hosted live ones
\* that are unfit.
MCQueries ==
  {[source |-> q[1], status |-> q[2], eligible |-> q[3], role |-> q[4], environment |-> q[5]] :
     q \in {<<"", "", FALSE, "", "all">>, <<"", "", TRUE, "", "">>, <<"", "", TRUE, "", "0">>,
            <<"", "", TRUE, "executor", "1">>, <<"self_hosted", "", FALSE, "debugger", "">>,
            <<"hosted", "unfit", FALSE, "", "2">>}}

MCLimits == {0, 1, 2}

MCOwnRoles == {"", "debugger"}

Symmetry == Permutations(Clients)
=============================================================================
