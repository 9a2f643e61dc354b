---------------------------- MODULE MCCudaGraph ----------------------------
(* A small instance of CudaGraph for TLC.                                  *)
EXTENDS CudaGraph, TLC

Symmetry == {p @@ q @@ r : p \in Permutations(Ops), q \in Permutations(Streams),
                           r \in Permutations(Graphs)}

\* While capture_on is between the end of a capture and its return, which is
\* nothing that an operation looks at, one operation runs beside it.
Bound ==
  (\E g \in Graphs : phase[g] \in {"ended", "upload", "destroy", "leave"}) =>
    Cardinality({o \in Ops : stage[o] \notin {"new", "gone"}}) <= 1
=============================================================================
