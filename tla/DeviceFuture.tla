---------------------------- MODULE DeviceFuture ----------------------------
(***************************************************************************)
(* One DeviceFuture of cuda-async/src/device_future.rs: its poll function  *)
(* step by step, the StreamCallbackState it shares with the completion     *)
(* side, the tasks that poll it, and the stream its operation runs on.     *)
(* The completion side is the reactor, or a host function that the driver  *)
(* runs after the work.  The reactor is the Notifier that it implements,   *)
(* until its fault probe takes a deferred error for a fault (see Reactor): *)
(* it then wakes a future whose stream is fine, and gives the slot, with a *)
(* flag write still queued, to another one.  An AtomicWaker is a register  *)
(* that wake() empties; its own interleavings are not modelled.            *)
(***************************************************************************)
EXTENDS Naturals

CONSTANTS
  Tasks,        \* tasks that may come to own the future
  None,
  SpinBudget,   \* CUDA_ASYNC_SPIN_BUDGET_US is not 0
  MaxMoves,     \* bound on hand-overs of the future to another task
  MaxDeferred   \* bound on deferred errors recorded by other threads

ASSUME FutureAssumption ==
  /\ None \notin Tasks /\ MaxMoves \in Nat /\ MaxDeferred \in Nat
  /\ SpinBudget \in BOOLEAN

VARIABLES
  state,      \* DeviceFutureState
  pc,         \* where the running poll is, "out" between polls
  owner,      \* the task that owns (and polls) the future
  sched,      \* tasks that will be polled again
  moves,
  waker,      \* StreamCallbackState::waker
  complete,   \* StreamCallbackState::complete
  work,       \* the submitted operation, as the device has it
  otherWork,  \* the stream has work of others behind ours
  down,       \* the context was killed by a fault
  errState,   \* Context::error_state holds a deferred error
  deferred,
  misread,    \* the reactor's probe took a deferred error for our fault
  stale,      \* a flag write of a misread registration may land in our slot
  path,       \* which completion path was registered
  notice,     \* what the completion side has done
  owners,     \* the submission's owners and leases
  result      \* how the future resolved: "ok", or where its error came from

pollVars == <<state, pc, result, owners>>
taskVars == <<owner, sched, moves>>
streamVars == <<work, otherWork, down>>
errVars == <<errState, deferred, misread, stale>>
vars == <<pollVars, taskVars, waker, complete, streamVars, errVars, path, notice>>

Errors == {"failed", "locked", "execute", "spin", "register", "probe"}

TypeOK ==
  /\ state \in {"Failed", "Idle", "Executing", "Complete", "Dropped"}
  /\ pc \in {"out", "execute", "spin", "register", "check", "bind", "probe",
             "waker", "recheck"}
  /\ owner \in Tasks /\ sched \in SUBSET Tasks /\ moves \in 0 .. MaxMoves
  /\ waker \in Tasks \cup {None} /\ complete \in BOOLEAN
  /\ work \in {"new", "running", "done", "faulted"}
  /\ otherWork \in BOOLEAN /\ down \in BOOLEAN
  /\ errState \in BOOLEAN /\ deferred \in 0 .. MaxDeferred
  /\ misread \in BOOLEAN /\ stale \in BOOLEAN
  /\ path \in {"none", "reactor", "host"}
  /\ notice \in {"none", "stored", "signalled", "woken"}
  /\ owners \in {"held", "released"}
  /\ result \in {"none", "ok"} \cup Errors

\* scheduled() or failed(); the owning task polls first.
Init ==
  /\ state \in {"Idle", "Failed"} /\ pc = "out"
  /\ owner \in Tasks /\ sched = {owner} /\ moves = 0
  /\ waker = None /\ complete = FALSE
  /\ work = "new" /\ otherWork = FALSE /\ down = FALSE
  /\ errState = FALSE /\ deferred = 0 /\ misread = FALSE /\ stale = FALSE
  /\ path = "none" /\ notice = "none" /\ owners = "held" /\ result = "none"

-----------------------------------------------------------------------------
(* The tasks.                                                              *)

\* An executor polls a task that was woken, or a join / select polls its
\* children whoever was woken; never a future that has resolved.
Poll ==
  /\ pc = "out" /\ state \in {"Idle", "Executing"}
  /\ pc' = IF state = "Idle" THEN "execute" ELSE "check"
  /\ sched' = sched \ {owner}
  /\ UNCHANGED <<state, result, owners, owner, moves, waker, complete,
                 streamVars, errVars, path, notice>>

\* The future is handed to another task, which will poll it.
Move(t) ==
  /\ pc = "out" /\ state \in {"Idle", "Executing"}
  /\ t # owner /\ moves < MaxMoves
  /\ owner' = t /\ sched' = sched \cup {t} /\ moves' = moves + 1
  /\ UNCHANGED <<pollVars, waker, complete, streamVars, errVars, path, notice>>

\* Drop: the output goes, the submission keeps the owners (see Leases).
DropFuture ==
  /\ pc = "out" /\ state' = "Dropped"
  /\ UNCHANGED <<pc, result, owners, taskVars, waker, complete, streamVars,
                 errVars, path, notice>>

-----------------------------------------------------------------------------
(* poll.                                                                   *)

Goto(from, to) ==
  /\ pc = from /\ pc' = to
  /\ UNCHANGED <<state, result, owners>>

\* Poll::Ready(Err): the output drops, the owners stay with the submission.
ResolveErr(from, cause) ==
  /\ pc = from /\ pc' = "out" /\ state' = "Complete" /\ result' = cause
  /\ UNCHANGED owners

\* Poll::Ready(Ok(take_completed_result())): ctx.complete() frees the owners.
ResolveOk(from) ==
  /\ pc = from /\ pc' = "out" /\ state' = "Complete" /\ result' = "ok"
  /\ owners' = "released"

\* A future made by failed().
PollFailed ==
  /\ state = "Failed" /\ ResolveErr("out", "failed")
  /\ sched' = sched \ {owner}
  /\ UNCHANGED <<owner, moves, waker, complete, streamVars, errVars, path, notice>>

\* Idle: the thread is already executing another DeviceOp.
PollReentrant ==
  /\ ResolveErr("execute", "locked")
  /\ UNCHANGED <<taskVars, waker, complete, streamVars, errVars, path, notice>>

\* Idle: register the waker and execute the operation.
Execute ==
  /\ Goto("execute", IF SpinBudget THEN "spin" ELSE "register")
  /\ waker' = owner
  /\ ~down /\ work' = "running"
  /\ UNCHANGED <<taskVars, complete, otherWork, down, errVars, path, notice>>

\* execute() fails, possibly after some of its work was submitted.
ExecuteFails ==
  /\ ResolveErr("execute", "execute")
  /\ waker' = owner
  /\ work' \in IF down THEN {"new"} ELSE {"new", "running"}
  /\ UNCHANGED <<taskVars, complete, otherWork, down, errVars, path, notice>>

\* Mutant: NOT_READY is an error like any other.
QueryErrBusy == errState \/ down \/ work = "running"

\* Stream::query: a deferred error or the fault, else whether all is done.
QueryErr == errState \/ down
\* Mutant: a query that does not fail means idle.
StreamIdleAny == ~QueryErr

StreamIdle == ~QueryErr /\ work = "done" /\ ~otherWork

\* One query of the inline spin.
SpinErr ==
  /\ QueryErr /\ ResolveErr("spin", "spin") /\ errState' = FALSE
  /\ UNCHANGED <<taskVars, waker, complete, streamVars, deferred, misread, stale,
                 path, notice>>

SpinIdle ==
  /\ StreamIdle /\ ResolveOk("spin")
  /\ UNCHANGED <<taskVars, waker, complete, streamVars, errVars, path, notice>>

\* The deadline passes after a query that found the stream busy.
SpinDeadline ==
  /\ ~QueryErr /\ ~StreamIdle /\ Goto("spin", "register")
  /\ UNCHANGED <<taskVars, waker, complete, streamVars, errVars, path, notice>>

\* register_callback through the reactor: accepted on a live context.
RegisterReactor ==
  /\ ~down
  /\ pc = "register" /\ pc' = "out" /\ state' = "Executing" /\ path' = "reactor"
  /\ UNCHANGED <<result, owners, taskVars, waker, complete, streamVars, errVars, notice>>

\* The host function: by configuration (CUDA_ASYNC_HOST_SYNC), or because the
\* reactor refused.
RegisterHost ==
  /\ ~errState /\ ~down
  /\ pc = "register" /\ pc' = "out" /\ state' = "Executing" /\ path' = "host"
  /\ UNCHANGED <<result, owners, taskVars, waker, complete, streamVars, errVars, notice>>

\* launch_host_function binds the context, and the driver may refuse it.
RegisterFails ==
  /\ ResolveErr("register", "register") /\ errState' = FALSE
  /\ UNCHANGED <<taskVars, waker, complete, streamVars, deferred, misread, stale,
                 path, notice>>

\* Executing: is complete set?
CheckComplete(from, to) ==
  /\ IF complete THEN ResolveOk(from) ELSE Goto(from, to)
  /\ UNCHANGED <<taskVars, waker, complete, streamVars, errVars, path, notice>>

\* bind_to_thread, its result ignored.
BindForProbe ==
  /\ Goto("bind", "probe") /\ errState' = FALSE
  /\ UNCHANGED <<taskVars, waker, complete, streamVars, deferred, misread, stale,
                 path, notice>>

\* probe_stream: Faulted (cuStreamIsCapturing fails, or query), Idle, or Busy.
ProbeFaulted ==
  /\ QueryErr /\ ResolveErr("probe", "probe")
  /\ errState' = FALSE \/ (down /\ UNCHANGED errState)
  /\ UNCHANGED <<taskVars, waker, complete, streamVars, deferred, misread, stale,
                 path, notice>>

ProbeIdle ==
  /\ StreamIdle /\ ResolveOk("probe")
  /\ UNCHANGED <<taskVars, waker, complete, streamVars, errVars, path, notice>>

ProbeBusy ==
  /\ ~QueryErr /\ ~StreamIdle /\ Goto("probe", "waker")
  /\ UNCHANGED <<taskVars, waker, complete, streamVars, errVars, path, notice>>

\* Mutant: the waker of the first poll stays registered.
UpdateWakerSkipped ==
  /\ Goto("waker", "recheck")
  /\ UNCHANGED <<taskVars, waker, complete, streamVars, errVars, path, notice>>

\* Mutant: no second look at complete.
UpdateWakerReturns ==
  /\ Goto("waker", "out") /\ waker' = owner
  /\ UNCHANGED <<taskVars, complete, streamVars, errVars, path, notice>>

\* Register the waker of the task that polls now.
UpdateWaker ==
  /\ Goto("waker", "recheck") /\ waker' = owner
  /\ UNCHANGED <<taskVars, complete, streamVars, errVars, path, notice>>

PollStep ==
  \/ PollFailed \/ PollReentrant \/ Execute \/ ExecuteFails
  \/ SpinErr \/ SpinIdle \/ SpinDeadline
  \/ RegisterReactor \/ RegisterHost \/ RegisterFails
  \/ CheckComplete("check", "bind") \/ BindForProbe
  \/ ProbeFaulted \/ ProbeIdle \/ ProbeBusy \/ UpdateWaker
  \/ CheckComplete("recheck", "out")

-----------------------------------------------------------------------------
(* The completion side.                                                    *)

\* AtomicWaker::wake().
WakeTask ==
  /\ sched' = IF waker = None THEN sched ELSE sched \cup {waker}
  /\ waker' = None
  /\ UNCHANGED <<owner, moves>>

\* signal(): store complete, then wake.  From the reactor's scanner, which sees
\* the flag of the slot raised by our own write or by a stale one, or from the
\* host function, which a dead context no longer runs.
SignalStore ==
  /\ notice = "none" /\ path # "none"
  /\ work = "done" \/ (stale /\ path = "reactor")
  /\ path = "host" => ~down
  /\ complete' = TRUE /\ notice' = "stored"
  /\ UNCHANGED <<pollVars, taskVars, waker, streamVars, errVars, path>>

SignalWake ==
  /\ notice = "stored" /\ notice' = "signalled" /\ WakeTask
  /\ UNCHANGED <<pollVars, complete, streamVars, errVars, path>>

\* Mutant: a faulted registration is retired without a wake-up.
FaultWakeSilent ==
  /\ notice = "none" /\ path = "reactor" /\ down
  /\ notice' = "woken"
  /\ UNCHANGED <<pollVars, taskVars, waker, complete, streamVars, errVars, path>>

\* The reactor retires the slot of a dead context: wake() only.
FaultWake ==
  /\ notice = "none" /\ path = "reactor" /\ down
  /\ notice' = "woken" /\ WakeTask
  /\ UNCHANGED <<pollVars, complete, streamVars, errVars, path>>

\* The same for a live one: the query of the probe took the deferred error.
MisreadWake ==
  /\ notice = "none" /\ path = "reactor" /\ errState
  /\ errState' = FALSE /\ misread' = TRUE
  /\ notice' = "woken" /\ WakeTask
  /\ UNCHANGED <<pollVars, complete, streamVars, deferred, stale, path>>

\* An error, of this context or another, was misread before we register: a slot
\* with a flag write to come is free.
MisreadOther ==
  /\ path = "none" /\ ~stale /\ deferred < MaxDeferred
  /\ stale' = TRUE /\ deferred' = deferred + 1
  /\ UNCHANGED <<pollVars, taskVars, waker, complete, streamVars, errState, misread,
                 path, notice>>

-----------------------------------------------------------------------------
(* The stream, its context, and other threads.                             *)

WorkDone ==
  /\ work = "running" /\ work' = "done"
  /\ UNCHANGED <<pollVars, taskVars, waker, complete, otherWork, down, errVars, path, notice>>

Fault ==
  /\ ~down /\ down' = TRUE
  /\ work' = IF work = "running" THEN "faulted" ELSE work
  /\ UNCHANGED <<pollVars, taskVars, waker, complete, otherWork, errVars, path, notice>>

\* Someone else submits to the stream, or that work finishes.
OtherWork ==
  /\ ~down /\ otherWork' = ~otherWork
  /\ UNCHANGED <<pollVars, taskVars, waker, complete, work, down, errVars, path, notice>>

RecordErr ==
  /\ deferred < MaxDeferred
  /\ errState' = TRUE /\ deferred' = deferred + 1
  /\ UNCHANGED <<pollVars, taskVars, waker, complete, streamVars, misread, stale,
                 path, notice>>

Next ==
  \/ Poll \/ (\E t \in Tasks : Move(t)) \/ DropFuture \/ PollStep
  \/ SignalStore \/ SignalWake \/ FaultWake \/ MisreadWake \/ MisreadOther
  \/ WorkDone \/ Fault \/ OtherWork \/ RecordErr

Spec == Init /\ [][Next]_vars

(* A woken task is polled and a poll returns; the notifier gives the       *)
(* notice it owes (Reactor!ImplementsNotifier); running work finishes or   *)
(* faults.  Nothing is assumed of spurious polls, misreads and stale flags. *)
FairSpec ==
  /\ Spec
  /\ WF_vars(Poll /\ owner \in sched) /\ WF_vars(PollStep)
  /\ WF_vars((work = "done" /\ SignalStore) \/ FaultWake) /\ WF_vars(SignalWake)
  /\ WF_vars(work = "running" /\ (WorkDone \/ Fault))

-----------------------------------------------------------------------------
(* Properties.                                                             *)

\* Ok means done: neither a flag nor a query that looks at too little hands out
\* a result, or releases the owners and access leases of the submission, while
\* the work is still running.  The one exception is a slot that was taken over
\* from a misread registration: its late flag does exactly that.
OkMeansDone ==
  result = "ok" \/ owners = "released" => work = "done" \/ (stale /\ path = "reactor")

\* No lost wake-up: once the signal is complete, an unresolved future that
\* nobody is polling belongs to a task that will poll it again, whichever task
\* registered a waker before.
SignalReachesOwner ==
  notice = "signalled" /\ state = "Executing" /\ pc = "out" => owner \in sched

\* A future fails on a query after submission only if its context is dead or
\* a deferred error was recorded by somebody else: never because its work is
\* still running.
ErrHasCause == result \in {"spin", "probe"} => down \/ deferred > 0

\* Finished work resolves its future, however often the future moves, as long
\* as the context lives and the probe has not used up the one notice on an
\* error of somebody else.
DoneResolves ==
  state = "Executing" /\ work = "done" ~>
    state \in {"Complete", "Dropped"} \/ down \/ misread

\* An awaiting future on the reactor path resolves after a fault instead of
\* hanging (cuda-async/README.md, "Device faults").
FaultResolves ==
  path = "reactor" /\ down ~> state \in {"Complete", "Dropped"}

\* The same for a future that stays with one task, the case in which the
\* probe and the waker of poll are enough, and whose notice was not used up by
\* a misread error.
FaultResolvesInPlace ==
  path = "reactor" /\ down ~>
    state \in {"Complete", "Dropped"} \/ moves > 0 \/ misread
=============================================================================
