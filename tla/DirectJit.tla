----------------------------- MODULE DirectJit -----------------------------
(***************************************************************************)
(* What a launch that misses the in-memory cache is owed, stated without a *)
(* disk cache (compile_and_load_kernel with no store installed): a request *)
(* is answered with a cubin of its own kernel, built by the requesting     *)
(* process's compiler, or it fails because the compiler failed or the      *)
(* driver rejected what the compiler had just built.                       *)
(***************************************************************************)
EXTENDS Naturals

CONSTANTS Procs, Kernels, Bins, None, Failure, MaxRequests, MaxToolFaults

VARIABLES
  request,     \* the kernel a process waits for
  answer,      \* the cubin it got, Failure, or None
  bin,         \* the compiler binary of a process
  toolFaults,  \* failures of the compiler and of the driver on fresh cubins
  requests

vars == <<request, answer, bin, toolFaults, requests>>

Cubins == [kernel : Kernels, by : Bins]

Init ==
  /\ request = [p \in Procs |-> None] /\ answer = [p \in Procs |-> None]
  /\ bin \in [Procs -> Bins] /\ toolFaults = 0 /\ requests = 0

Ask(p, k) ==
  /\ request[p] = None /\ requests < MaxRequests
  /\ request' = [request EXCEPT ![p] = k]
  /\ answer' = [answer EXCEPT ![p] = None]
  /\ requests' = requests + 1
  /\ UNCHANGED <<bin, toolFaults>>

Answer(p) ==
  /\ request[p] # None
  /\ answer' = [answer EXCEPT ![p] = [kernel |-> request[p], by |-> bin[p]]]
  /\ request' = [request EXCEPT ![p] = None]
  /\ UNCHANGED <<bin, toolFaults, requests>>

Fail(p) ==
  /\ request[p] # None /\ toolFaults < MaxToolFaults
  /\ toolFaults' = toolFaults + 1
  /\ answer' = [answer EXCEPT ![p] = Failure]
  /\ request' = [request EXCEPT ![p] = None]
  /\ UNCHANGED <<bin, requests>>

\* The process dies, with or without a request.
Die(p) ==
  /\ request' = [request EXCEPT ![p] = None]
  /\ answer' = [answer EXCEPT ![p] = None]
  /\ UNCHANGED <<bin, toolFaults, requests>>

DieAll ==
  /\ request' = [p \in Procs |-> None] /\ answer' = [p \in Procs |-> None]
  /\ UNCHANGED <<bin, toolFaults, requests>>

Next ==
  \/ \E p \in Procs : Answer(p) \/ Fail(p) \/ Die(p) \/ \E k \in Kernels : Ask(p, k)
  \/ DieAll

Spec ==
  /\ Init /\ [][Next]_vars
  /\ \A p \in Procs : WF_vars(Answer(p) \/ Fail(p) \/ (request[p] # None /\ Die(p)))
=============================================================================
