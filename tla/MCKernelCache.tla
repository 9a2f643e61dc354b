--------------------------- MODULE MCKernelCache ---------------------------
(* An instance in which the library's path leads to a fixed file at first, *)
(* which loses nothing because files are interchangeable; so are threads.  *)
EXTENDS KernelCache, TLC

CONSTANT f1

MCInit == Init /\ link = f1
MCSpec == MCInit /\ [][Next]_vars

Symmetry == Permutations(Threads)

\* After a stamp has come back the properties say nothing of the library any
\* more, and neither slots nor defaults depend on it.  Two launches meet two
\* changes or evictions, three launches one.
Bound == ~repeated /\ launches + changes + evictions <= 4
=============================================================================
