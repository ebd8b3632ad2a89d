--------------------------- MODULE MCDownloadRun ---------------------------
(* Instances of DownloadRun for TLC. *)
EXTENDS DownloadRun, TLC

CONSTANTS j1, j2, k1, k2, s1, s2, r1, r2, x1, x2, both, one, none

\* Strategies that declare both keys, one of them, or no input at all.
MCInputs == [st \in {both, one, none} |->
               CASE st = both -> {k1, k2} [] st = one -> {k1} [] st = none -> {}]
MCInputsBoth == [st \in {both} |-> {k1, k2}]
MCInputsOne == [st \in {one} |-> {k1}]

\* Request ids, and session ids, are interchangeable.
Symmetry == Permutations(Requests) \cup Permutations(Sessions)
JobSymmetry == Symmetry \cup Permutations(Jobs)
=============================================================================
