---------------------------- MODULE MCExecuteOnce ----------------------------
(* Two clones of B meet: b1 from thread T2 on stream s2, and nb, executed  *)
(* by the chain of A, which a1 runs from T1 on s1.  A's closure also calls *)
(* its own cell from then_unchecked (na) and B from a plain then (nt).     *)
EXTENDS ExecuteOnce

SharedOp == [c \in Calls |-> IF c \in {"b1", "nb", "nt"} THEN "B" ELSE "A"]
SharedRoute == [c \in Calls |-> CASE c = "nb" -> "chain"
                                  [] c = "nt" -> "then"
                                  [] c = "na" -> "unchecked"
                                  [] OTHER    -> "top"]
SharedParent == [c \in Calls |-> IF SharedRoute[c] = "top" THEN None ELSE "A"]
SharedThread == [c \in Calls |-> IF c = "a1" THEN "T1" ELSE "T2"]
SharedStream == [c \in Calls |-> IF c \in {"a1", "na"} THEN "s1" ELSE "s2"]
=============================================================================
