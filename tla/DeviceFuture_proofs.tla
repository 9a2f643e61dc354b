------------------------- MODULE DeviceFuture_proofs -------------------------
(***************************************************************************)
(* Proofs about DeviceFuture for every set of tasks and every number of    *)
(* hand-overs and deferred errors.                                         *)
(***************************************************************************)
EXTENDS DeviceFuture, TLAPS

\* Where a poll can be in each state: until the operation is executed nothing
\* was submitted, registered or signalled.
PhaseInv ==
  /\ state = "Idle" /\ pc \in {"out", "execute"} => work = "new" /\ result = "none"
  /\ state = "Failed" => pc = "out" /\ work = "new"
  /\ state # "Executing" /\ pc # "out" =>
       state = "Idle" /\ pc \in {"execute", "spin", "register"}
  /\ state = "Idle" => path = "none" /\ owners = "held"
  /\ state = "Executing" => pc \notin {"execute", "spin", "register"}
  /\ path = "none" => notice = "none"

\* The flag is raised by the signal alone, and the signal follows the work,
\* unless the slot was handed over with a write to come.
SignalInv ==
  /\ complete <=> notice \in {"stored", "signalled"}
  /\ complete => work = "done" \/ (stale /\ path = "reactor")
  /\ OkMeansDone

\* A task that waits has left its waker, or will be polled anyway; a signal
\* turns the one into the other.
WakerInv ==
  /\ pc \in {"spin", "register"} => waker = owner
  /\ state = "Executing" /\ pc \in {"out", "recheck"} /\ notice \in {"none", "stored"} =>
       waker = owner \/ owner \in sched
  /\ SignalReachesOwner

\* A query fails for a reason that stays.
CauseInv ==
  /\ errState => deferred > 0
  /\ ErrHasCause

IndInv == TypeOK /\ PhaseInv /\ SignalInv /\ WakerInv /\ CauseInv

\* A future begins unpolled, and the task that has it will poll it.
LEMMA InitInv == Init => IndInv
<1> SUFFICES ASSUME Init PROVE IndInv
  OBVIOUS
<1> USE FutureAssumption DEF Init
<1>1. TypeOK
  <2>1. {owner} \in SUBSET Tasks
    OBVIOUS
  <2>2. /\ complete \in BOOLEAN /\ otherWork \in BOOLEAN /\ down \in BOOLEAN
        /\ errState \in BOOLEAN /\ misread \in BOOLEAN /\ stale \in BOOLEAN
    BY Zenon
  <2> QED BY <2>1, <2>2 DEF TypeOK
<1>2. PhaseInv /\ SignalInv
  BY DEF PhaseInv, SignalInv, OkMeansDone
<1>3. WakerInv /\ CauseInv
  BY DEF WakerInv, CauseInv, SignalReachesOwner, ErrHasCause
<1> QED BY <1>1, <1>2, <1>3 DEF IndInv

\* The steps of poll.
LEMMA PollStepInv ==
  ASSUME IndInv, PollStep
  PROVE  IndInv'
<1> USE FutureAssumption DEF IndInv, TypeOK, PhaseInv, SignalInv, WakerInv, CauseInv,
        OkMeansDone, SignalReachesOwner, ErrHasCause, Errors,
        pollVars, taskVars, streamVars, errVars
<1>1. CASE PollFailed
  BY <1>1 DEF PollFailed, ResolveErr
<1>2. CASE PollReentrant
  BY <1>2 DEF PollReentrant, ResolveErr
<1>3. CASE Execute
  BY <1>3 DEF Execute, Goto
<1>4. CASE ExecuteFails
  BY <1>4 DEF ExecuteFails, ResolveErr
<1>5. CASE SpinErr
  BY <1>5 DEF SpinErr, ResolveErr, QueryErr
<1>6. CASE SpinIdle
  BY <1>6 DEF SpinIdle, ResolveOk, StreamIdle, QueryErr
<1>7. CASE SpinDeadline
  BY <1>7 DEF SpinDeadline, Goto
<1>8. CASE RegisterReactor
  BY <1>8 DEF RegisterReactor
<1>9. CASE RegisterHost
  BY <1>9 DEF RegisterHost
<1>10. CASE RegisterFails
  BY <1>10 DEF RegisterFails, ResolveErr
<1>11. CASE CheckComplete("check", "bind")
  BY <1>11 DEF CheckComplete, ResolveOk, Goto
<1>12. CASE BindForProbe
  <2>1. /\ UNCHANGED <<state, result, owners, taskVars, waker, complete, streamVars>>
        /\ UNCHANGED <<deferred, misread, stale, path, notice>> /\ pc = "bind" /\ pc' = "probe" /\ errState' = FALSE
    BY <1>12 DEF BindForProbe, Goto
  <2>2. errState' \in BOOLEAN
    BY <2>1, Zenon
  <2>3. TypeOK'
    BY <2>1, <2>2
  <2>4. PhaseInv'
    BY <2>1
  <2>5. SignalInv' /\ WakerInv'
    BY <2>1
  <2>6. CauseInv'
    BY <2>1
  <2> QED BY <2>3, <2>4, <2>5, <2>6
<1>13. CASE ProbeFaulted
  <2>1. /\ errState \/ down
        /\ pc = "probe" /\ pc' = "out" /\ state' = "Complete" /\ result' = "probe"
        /\ errState' = FALSE \/ errState' = errState
        /\ UNCHANGED <<owners, taskVars, waker, complete, streamVars, deferred, misread, stale>>
        /\ UNCHANGED <<path, notice>>
    BY <1>13 DEF ProbeFaulted, ResolveErr, QueryErr
  <2>2. errState' \in BOOLEAN
    <3>1. errState \in BOOLEAN
      OBVIOUS
    <3> QED BY <2>1, <3>1, Zenon
  <2>3. TypeOK'
    BY <2>1, <2>2
  <2>4. PhaseInv'
    BY <2>1
  <2>5. SignalInv' /\ WakerInv'
    BY <2>1
  <2>6. CauseInv'
    BY <2>1
  <2> QED BY <2>3, <2>4, <2>5, <2>6
<1>14. CASE ProbeIdle
  BY <1>14 DEF ProbeIdle, ResolveOk, StreamIdle, QueryErr
<1>15. CASE ProbeBusy
  BY <1>15 DEF ProbeBusy, Goto
<1>16. CASE UpdateWaker
  BY <1>16 DEF UpdateWaker, Goto
<1>17. CASE CheckComplete("recheck", "out")
  BY <1>17 DEF CheckComplete, ResolveOk, Goto
<1> QED BY <1>1, <1>2, <1>3, <1>4, <1>5, <1>6, <1>7, <1>8, <1>9, <1>10, <1>11, <1>12, <1>13, <1>14, <1>15, <1>16, <1>17 DEF PollStep

\* The tasks, the completion side, the stream and the other threads.
LEMMA OtherStepInv ==
  ASSUME IndInv, [Next]_vars, ~PollStep
  PROVE  IndInv'
<1> USE FutureAssumption DEF IndInv, TypeOK, PhaseInv, SignalInv, WakerInv, CauseInv,
        OkMeansDone, SignalReachesOwner, ErrHasCause, Errors,
        pollVars, taskVars, streamVars, errVars
<1>1. CASE Poll
  BY <1>1 DEF Poll
<1>2. CASE \E t \in Tasks : Move(t)
  BY <1>2 DEF Move
<1>3. CASE DropFuture
  BY <1>3 DEF DropFuture
<1>4. CASE SignalStore
  BY <1>4 DEF SignalStore
<1>5. CASE SignalWake
  BY <1>5 DEF SignalWake, WakeTask
<1>6. CASE FaultWake
  BY <1>6 DEF FaultWake, WakeTask
<1>7. CASE WorkDone
  BY <1>7 DEF WorkDone
<1>8. CASE Fault
  BY <1>8 DEF Fault
<1>9. CASE OtherWork
  BY <1>9 DEF OtherWork
<1>10. CASE RecordErr
  BY <1>10 DEF RecordErr
<1>11. CASE UNCHANGED vars
  BY <1>11 DEF vars
<1>12. CASE MisreadWake
  <2>1. /\ notice = "none" /\ path = "reactor" /\ notice' = "woken"
        /\ errState' = FALSE /\ misread' = TRUE /\ waker' = None
        /\ sched' = IF waker = None THEN sched ELSE sched \cup {waker}
        /\ UNCHANGED <<pollVars, owner, moves, complete, streamVars, deferred, stale, path>>
    BY <1>12 DEF MisreadWake, WakeTask
  <2>2. errState' \in BOOLEAN /\ misread' \in BOOLEAN
    BY <2>1, Zenon
  <2>3. TypeOK'
    BY <2>1, <2>2
  <2>4. PhaseInv'
    BY <2>1
  <2>5. SignalInv' /\ WakerInv'
    BY <2>1
  <2>6. CauseInv'
    BY <2>1
  <2> QED BY <2>3, <2>4, <2>5, <2>6
<1>13. CASE MisreadOther
  BY <1>13 DEF MisreadOther
<1> QED BY <1>1, <1>2, <1>3, <1>4, <1>5, <1>6, <1>7, <1>8, <1>9, <1>10, <1>11, <1>12,
           <1>13 DEF Next

\* The invariant holds in every reachable state.
THEOREM Invariance == Spec => []IndInv
<1>1. IndInv /\ [Next]_vars => IndInv'
  BY PollStepInv, OtherStepInv
<1> QED BY <1>1, InitInv, PTL DEF Spec

\* poll: a future resolves with a result, and its submission lets go of owners
\* and leases, only after the work is done, unless its slot was inherited from a
\* registration that the reactor misread.
THEOREM OkAfterWork == Spec => []OkMeansDone
<1>1. IndInv => OkMeansDone
  BY DEF IndInv, SignalInv
<1> QED BY <1>1, Invariance, PTL

\* poll, StreamCallbackState::signal: no wake-up is lost, whichever task has
\* the future by then.
THEOREM NoLostWakeup == Spec => []SignalReachesOwner
<1>1. IndInv => SignalReachesOwner
  BY DEF IndInv, WakerInv
<1> QED BY <1>1, Invariance, PTL

\* poll: a query fails the future only if the context is dead or another
\* thread recorded an error.
THEOREM FailureHasCause == Spec => []ErrHasCause
<1>1. IndInv => ErrHasCause
  BY DEF IndInv, CauseInv
<1> QED BY <1>1, Invariance, PTL

-----------------------------------------------------------------------------
(* A future that waits: what DoneResolves and FaultResolvesInPlace rest on. *)

\* A registration is woken without a flag on a dead context only, or because
\* an error was misread.  While the future stays with one task its waker is
\* there for the completion side to take, and a task woken for a fault polls:
\* the probe sees the fault.
FaultInv ==
  /\ notice = "woken" => down \/ misread
  /\ state = "Executing" => path # "none"
  /\ moves = 0 /\ state = "Executing" /\ notice \in {"none", "stored"} => waker = owner
  /\ moves = 0 /\ state = "Executing" /\ notice = "woken" /\ ~misread =>
       owner \in sched \/ pc \in {"check", "bind", "probe"}

\* A future that nobody polls is not abandoned: its task will poll it, or has
\* a waker that the completion side has still to call.  The exceptions are a
\* future whose one notice was spent on a misread error, and one that was
\* handed over before the wake-up for a fault.
NeverAbandoned ==
  state = "Executing" /\ pc = "out" =>
    \/ owner \in sched
    \/ waker = owner /\ path # "none" /\ notice \in {"none", "stored"}
    \/ misread
    \/ down /\ moves > 0

\* Every step keeps it so.
LEMMA FaultStep ==
  ASSUME IndInv, FaultInv, [Next]_vars
  PROVE  FaultInv'
<1> USE FutureAssumption DEF FaultInv, pollVars, taskVars, streamVars, errVars
<1>0. moves \in Nat /\ (notice = "woken" => ~complete)
  BY DEF IndInv, TypeOK, SignalInv
<1>1. CASE PollStep
  <2>1. CASE PollFailed \/ PollReentrant \/ ExecuteFails \/ SpinErr \/ SpinIdle
             \/ RegisterFails \/ ProbeFaulted \/ ProbeIdle
    BY <2>1 DEF PollFailed, PollReentrant, ExecuteFails, SpinErr, SpinIdle, RegisterFails,
                ProbeFaulted, ProbeIdle, ResolveErr, ResolveOk
  <2>2. CASE Execute \/ SpinDeadline
    BY <2>2 DEF Execute, SpinDeadline, Goto, IndInv, PhaseInv
  <2>3. CASE RegisterReactor \/ RegisterHost
    BY <2>3 DEF RegisterReactor, RegisterHost, IndInv, PhaseInv, WakerInv
  <2>4. CASE CheckComplete("check", "bind") \/ CheckComplete("recheck", "out")
    BY <1>0, <2>4 DEF CheckComplete, ResolveOk, Goto
  <2>5. CASE BindForProbe
    BY <2>5 DEF BindForProbe, Goto
  <2>6. CASE ProbeBusy
    BY <2>6 DEF ProbeBusy, Goto, QueryErr
  <2>7. CASE UpdateWaker
    BY <2>7 DEF UpdateWaker, Goto
  <2> QED BY <1>1, <2>1, <2>2, <2>3, <2>4, <2>5, <2>6, <2>7 DEF PollStep
<1>2. CASE Poll
  BY <1>2 DEF Poll, IndInv, PhaseInv
<1>3. ASSUME NEW t \in Tasks, Move(t) PROVE FaultInv'
  BY <1>0, <1>3 DEF Move
<1>4. CASE DropFuture
  BY <1>4 DEF DropFuture
<1>5. CASE SignalStore \/ SignalWake
  BY <1>5 DEF SignalStore, SignalWake, WakeTask
<1>6. CASE FaultWake
  BY <1>6 DEF FaultWake, WakeTask, IndInv, TypeOK
<1>7. CASE WorkDone \/ Fault \/ OtherWork \/ RecordErr \/ MisreadOther \/ UNCHANGED vars
  BY <1>7 DEF WorkDone, Fault, OtherWork, RecordErr, MisreadOther, vars
<1>8. CASE MisreadWake
  BY <1>8 DEF MisreadWake, WakeTask
<1> QED BY <1>1, <1>2, <1>3, <1>4, <1>5, <1>6, <1>7, <1>8 DEF Next

\* poll, signal and the reactor's wake: no executing future hangs without a
\* wake-up to come, except one that moved between tasks before a fault, or one
\* that the reactor's probe misread.
THEOREM NoAbandonedFuture == Spec => []NeverAbandoned
<1>1. Init => FaultInv
  BY DEF Init, FaultInv
<1>2. IndInv /\ FaultInv /\ [Next]_vars => FaultInv'
  BY FaultStep
<1>3. IndInv /\ FaultInv => NeverAbandoned
  BY DEF IndInv, TypeOK, FaultInv, WakerInv, SignalReachesOwner, NeverAbandoned
<1> QED BY <1>1, <1>2, <1>3, Invariance, PTL DEF Spec
=============================================================================
