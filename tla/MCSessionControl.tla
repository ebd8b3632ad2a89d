-------------------------- MODULE MCSessionControl --------------------------
(* SessionControl for TLC. *)
EXTENDS SessionControl, TLC

ClientSymmetry == Permutations(Clients)

\* For an eligible runtime of any environment, of the first two and of the one
\* no runtime is offered for, and for a debugger of whatever health.
PickerQueries ==
  {[eligible |-> TRUE, role |-> "", environment |-> e] : e \in {NoEnvironment, 0, 1, 2}}
  \cup {[eligible |-> FALSE, role |-> "debugger", environment |-> NoEnvironment]}
=============================================================================
