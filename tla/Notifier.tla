------------------------------ MODULE Notifier ------------------------------
(***************************************************************************)
(* What the completion reactor promises to a future that registers: one    *)
(* notice, "signalled" only after its work is done, "woken" (without being *)
(* marked complete) only once its context is down.  Work that finished     *)
(* just before the context went down may get either.  A refused            *)
(* registration gets no notice; the caller falls back to a host callback.  *)
(***************************************************************************)
CONSTANT Tokens

VARIABLES
  work,     \* state of the work behind a registration, as the device has it
  down,     \* registrations whose context was killed by a fault
  notice    \* what the reactor told the future

vars == <<work, down, notice>>

Init ==
  /\ work = [t \in Tokens |-> "new"]
  /\ down = {}
  /\ notice = [t \in Tokens |-> "none"]

Become(t, from, to) ==
  /\ work[t] = from /\ work' = [work EXCEPT ![t] = to]
  /\ UNCHANGED <<down, notice>>

Refuse(t) == Become(t, "new", "refused")
Submit(t) == t \notin down /\ Become(t, "new", "pending")
Finish(t) == Become(t, "pending", "done")

\* A context fault takes the pending work of all its registrations with it.
Fault(ctx) ==
  /\ down' = down \cup ctx
  /\ work' = [t \in Tokens |->
               IF t \in ctx /\ work[t] = "pending" THEN "faulted" ELSE work[t]]
  /\ UNCHANGED notice

Tell(t, what) ==
  /\ notice[t] = "none"
  /\ notice' = [notice EXCEPT ![t] = what]
  /\ UNCHANGED <<work, down>>

Signal(t) == work[t] = "done" /\ Tell(t, "signalled")
Wake(t) == t \in down /\ work[t] \in {"done", "faulted"} /\ Tell(t, "woken")

Next ==
  \/ \E t \in Tokens : Refuse(t) \/ Submit(t) \/ Finish(t) \/ Signal(t) \/ Wake(t)
  \/ \E ctx \in SUBSET Tokens : Fault(ctx)

Spec ==
  /\ Init /\ [][Next]_vars
  /\ \A t \in Tokens : WF_vars(Signal(t) \/ Wake(t))
=============================================================================
