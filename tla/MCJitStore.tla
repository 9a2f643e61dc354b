----------------------------- MODULE MCJitStore -----------------------------
(* An instance of the store with one small kernel and one that is too      *)
(* large to keep, and with the compiler of one process fixed, which loses  *)
(* nothing because processes and binaries are interchangeable.             *)
EXTENDS JitStore

CONSTANTS p1, b1, small, large

MCSize == [k \in {small, large} |-> IF k = small THEN 2 ELSE 3]

MCInit == Init /\ bin[p1] = b1

MCSpec == MCInit /\ [][Next]_vars /\ \A p \in Procs : WF_vars(ProcStep(p))
MCSwapSpec == MCInit /\ [][SwapNext]_vars
=============================================================================
