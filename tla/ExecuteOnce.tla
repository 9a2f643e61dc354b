----------------------------- MODULE ExecuteOnce -----------------------------
(***************************************************************************)
(* Execute-once memoisation and the thread-local execution lock of         *)
(* cuda-async/src/device_operation.rs.  A call is one execution of a clone *)
(* of a shared operation (or of one half of an unzip): a top-level sync_on *)
(* or a call made while another operation's closure runs.  The Mutex is    *)
(* held from lock() to the match arm's end, so each arm is one action; the *)
(* closure runs unlocked, and the store of the outcome and notify_all are  *)
(* separate steps.  A stream is a log of submitted items and the number of *)
(* them the device has executed.                                           *)
(***************************************************************************)
EXTENDS Naturals, Sequences, Functions

CONSTANTS
  Ops,         \* ExecuteOnce cells
  Calls,       \* executions of their clones
  Threads, Streams,
  Op,          \* the cell a call executes
  Route,       \* how a call is made: a member of Routes
  Parent,      \* the cell whose closure makes the call, None for "top"
  Thread,      \* the thread of a top-level call
  Stream,      \* the stream given to sync_on
  None

\* "top": sync_on from plain code.  "chain": the closure's chain executes the
\* clone on its own context.  "then" / "unchecked": the closure calls sync_on
\* from a `then` or a `then_unchecked` body.
Routes == {"top", "chain", "then", "unchecked"}
Outcomes == {"none", "value", "failed", "panic", "reentered", "locked",
             "joinErr", "syncErr"}

ASSUME CallsAssumption ==
  /\ None \notin Ops \cup Calls \cup Streams
  /\ Op \in [Calls -> Ops] /\ Route \in [Calls -> Routes]
  /\ Parent \in [Calls -> Ops \cup {None}]
  /\ Thread \in [Calls -> Threads] /\ Stream \in [Calls -> Streams]
  /\ \A c \in Calls : Route[c] = "top" <=> Parent[c] = None

VARIABLES
  once,       \* OnceState of a cell
  runner,     \* the call that took the operation (Running { thread })
  producer,   \* Done's Producer: the stream of its event, None without one
  pc, out,    \* where a call is, what it returned
  thr, str,   \* the thread a call runs on and the stream of its context
  wasHeld,    \* ExecutionLockRelease::was_held of an "unchecked" call
  mark,       \* what a call's synchronize() waits for
  executing,  \* DEVICE_OP_EXECUTING
  log, done   \* items submitted to a stream, how many have executed

cellVars == <<once, runner, producer>>
callVars == <<pc, out, thr, str, wasHeld, mark>>
vars == <<cellVars, callVars, executing, log, done>>

PcStates == {"start", "enter", "wait", "run", "record", "settleDone",
             "settleFailed", "unwind", "notify", "leave", "sync", "returned"}
Items == {"work", "event", "wait", "use"} \X Ops \X Calls

TypeOK ==
  /\ once \in [Ops -> {"pending", "running", "done", "failed"}]
  /\ runner \in [Ops -> Calls \cup {None}]
  /\ producer \in [Ops -> Streams \cup {None}]
  /\ pc \in [Calls -> PcStates] /\ out \in [Calls -> Outcomes]
  /\ thr \in [Calls -> Threads] /\ str \in [Calls -> Streams]
  /\ wasHeld \in [Calls -> BOOLEAN] /\ mark \in [Calls -> Nat]
  /\ executing \in [Threads -> BOOLEAN]
  /\ log \in [Streams -> Seq(Items)]
  /\ done \in [Streams -> Nat] /\ \A s \in Streams : done[s] <= Len(log[s])

\* pending(op), or shared(value): done without GPU work behind it.
Init ==
  /\ once \in [Ops -> {"pending", "done"}]
  /\ runner = [o \in Ops |-> None] /\ producer = [o \in Ops |-> None]
  /\ pc = [c \in Calls |-> "start"] /\ out = [c \in Calls |-> "none"]
  /\ thr = Thread /\ str = Stream
  /\ wasHeld = [c \in Calls |-> FALSE] /\ mark = [c \in Calls |-> 0]
  /\ executing = [t \in Threads |-> FALSE]
  /\ log = [s \in Streams |-> <<>>] /\ done = [s \in Streams |-> 0]

Active(c) == pc[c] \notin {"start", "returned"}
Nested(o) == {c \in Calls : Parent[c] = o}
Go(c, to) == pc' = [pc EXCEPT ![c] = to]
Submit(s, items) == log' = [log EXCEPT ![s] = @ \o items]

-----------------------------------------------------------------------------
(* Entering and leaving: sync_on, the execution lock and its release.      *)

\* acquire_execution_lock()?: the flag decides whether the call goes on.
Acquire(c, t, held) ==
  IF held THEN /\ Go(c, "returned") /\ out' = [out EXCEPT ![c] = "locked"]
               /\ UNCHANGED executing
          ELSE /\ Go(c, "enter") /\ UNCHANGED out
               /\ executing' = [executing EXCEPT ![t] = TRUE]

CallTop(c) ==
  /\ pc[c] = "start" /\ Route[c] = "top"
  /\ \A d \in Calls : Active(d) => thr[d] # Thread[c]
  /\ Acquire(c, Thread[c], executing[Thread[c]])
  /\ UNCHANGED <<cellVars, thr, str, wasHeld, mark, log, done>>

\* The closure of o, run by r, makes the next call of its body.
InClosure(c, r) ==
  /\ pc[c] = "start" /\ Parent[c] # None /\ r = runner[Parent[c]]
  /\ r # None /\ pc[r] = "run"
  /\ \A d \in Nested(Parent[c]) : ~Active(d) /\ out[d] # "panic"
  /\ thr' = [thr EXCEPT ![c] = thr[r]]

\* A combinator executes the clone on the chain's own context.
CallChain(c, r) ==
  /\ Route[c] = "chain" /\ InClosure(c, r)
  /\ str' = [str EXCEPT ![c] = str[r]]
  /\ Go(c, "enter")
  /\ UNCHANGED <<cellVars, out, wasHeld, mark, executing, log, done>>

CallThen(c, r) ==
  /\ Route[c] = "then" /\ InClosure(c, r)
  /\ Acquire(c, thr[r], executing[thr[r]])
  /\ UNCHANGED <<cellVars, str, wasHeld, mark, log, done>>

\* ExecutionLockRelease::new clears the flag, sync_on takes it again.
CallUnchecked(c, r) ==
  /\ Route[c] = "unchecked" /\ InClosure(c, r)
  /\ wasHeld' = [wasHeld EXCEPT ![c] = executing[thr[r]]]
  /\ Acquire(c, thr[r], FALSE)
  /\ UNCHANGED <<cellVars, str, mark, log, done>>

\* Mutant: every exit clears the flag.
UnlockPlain(c) ==
  executing' = IF Route[c] \in {"top", "unchecked"}
               THEN [executing EXCEPT ![thr[c]] = FALSE] ELSE executing

\* The guard drops (false), then an ExecutionLockRelease restores the flag.
Unlock(c) ==
  executing' = CASE Route[c] = "top"       -> [executing EXCEPT ![thr[c]] = FALSE]
                 [] Route[c] = "unchecked" -> [executing EXCEPT ![thr[c]] = wasHeld[c]]
                 [] OTHER                  -> executing

Return(c, result) ==
  /\ Go(c, "returned") /\ out' = [out EXCEPT ![c] = result] /\ Unlock(c)

\* Mutant: sync_on does not synchronize.
LeaveUnsynchronized(c) ==
  /\ pc[c] = "leave" /\ Return(c, out[c])
  /\ UNCHANGED <<cellVars, thr, str, wasHeld, mark, log, done>>

\* execute() is over: a chain goes on, sync_on synchronizes its stream.
Leave(c) ==
  /\ pc[c] = "leave"
  /\ IF Route[c] = "chain"
     THEN Return(c, out[c]) /\ UNCHANGED mark
     ELSE /\ Go(c, "sync") /\ UNCHANGED <<out, executing>>
          /\ mark' = [mark EXCEPT ![c] = Len(log[str[c]])]
  /\ UNCHANGED <<cellVars, thr, str, wasHeld, log, done>>

\* stream.synchronize() returns; `?` makes its error the call's.
Synchronized(c) ==
  /\ pc[c] = "sync" /\ done[str[c]] >= mark[c]
  /\ \E result \in {out[c], "syncErr"} : Return(c, result)
  /\ UNCHANGED <<cellVars, thr, str, wasHeld, mark, log, done>>

-----------------------------------------------------------------------------
(* ExecuteOnce::execute: one action per arm of the match under the lock.   *)

LockAndSee(c, state) == pc[c] = "enter" /\ once[Op[c]] = state

\* Mutant: check-then-act, the state is not marked Running.
TakeOpUnmarked(c) ==
  /\ LockAndSee(c, "pending")
  /\ runner' = [runner EXCEPT ![Op[c]] = c]
  /\ Go(c, "run")
  /\ UNCHANGED <<once, producer, out, thr, str, wasHeld, mark, executing, log, done>>

TakeOp(c) ==
  /\ LockAndSee(c, "pending")
  /\ once' = [once EXCEPT ![Op[c]] = "running"]
  /\ runner' = [runner EXCEPT ![Op[c]] = c]
  /\ Go(c, "run")
  /\ UNCHANGED <<producer, out, thr, str, wasHeld, mark, executing, log, done>>

\* Running by this very thread: an error, not a wait.
Reentered(c) ==
  /\ LockAndSee(c, "running") /\ thr[runner[Op[c]]] = thr[c]
  /\ Go(c, "leave") /\ out' = [out EXCEPT ![c] = "reentered"]
  /\ UNCHANGED <<cellVars, thr, str, wasHeld, mark, executing, log, done>>

\* settled.wait releases the lock and blocks in one step.
Wait(c) ==
  /\ LockAndSee(c, "running") /\ thr[runner[Op[c]]] # thr[c]
  /\ Go(c, "wait")
  /\ UNCHANGED <<cellVars, out, thr, str, wasHeld, mark, executing, log, done>>

SpuriousWake(c) ==
  /\ pc[c] = "wait"
  /\ Go(c, "enter")
  /\ UNCHANGED <<cellVars, out, thr, str, wasHeld, mark, executing, log, done>>

SeeFailed(c) ==
  /\ LockAndSee(c, "failed")
  /\ Go(c, "leave") /\ out' = [out EXCEPT ![c] = "failed"]
  /\ UNCHANGED <<cellVars, thr, str, wasHeld, mark, executing, log, done>>

\* Mutant: no cross-stream wait.
JoinNever(c) == <<>>

\* Producer::join orders nothing on the producing stream itself.
Join(c) == IF producer[Op[c]] \in {None, str[c]} THEN <<>>
           ELSE << <<"wait", Op[c], c>> >>

\* join, then take: what the caller submits next uses the value.
TakeValue(c) ==
  /\ LockAndSee(c, "done")
  /\ Submit(str[c], Join(c) \o << <<"use", Op[c], c>> >>)
  /\ Go(c, "leave") /\ out' = [out EXCEPT ![c] = "value"]
  /\ UNCHANGED <<cellVars, thr, str, wasHeld, mark, executing, done>>

\* wait_event fails: this caller gets the error, the value stays.
JoinFails(c) ==
  /\ LockAndSee(c, "done") /\ Join(c) # <<>>
  /\ Go(c, "leave") /\ out' = [out EXCEPT ![c] = "joinErr"]
  /\ UNCHANGED <<cellVars, thr, str, wasHeld, mark, executing, log, done>>

-----------------------------------------------------------------------------
(* The closure, outside the lock, and the settling of its outcome.         *)

\* It submits its work, in one piece.
RunWork(c) ==
  /\ pc[c] = "run" /\ <<"work", Op[c], c>> \notin Range(log[str[c]])
  /\ \A d \in Nested(Op[c]) : ~Active(d)
  /\ Submit(str[c], << <<"work", Op[c], c>> >>)
  /\ UNCHANGED <<cellVars, callVars, executing, done>>

\* It returns or unwinds once its own calls have; a panic below passes through.
ClosureEnds(c, to) ==
  /\ pc[c] = "run" /\ \A d \in Nested(Op[c]) : ~Active(d)
  /\ to # "unwind" => \A d \in Nested(Op[c]) : out[d] # "panic"
  /\ Go(c, to)
  /\ UNCHANGED <<cellVars, out, thr, str, wasHeld, mark, executing, log, done>>

\* A chain fails with its first failed operation.
RunOk(c) ==
  /\ \A d \in Nested(Op[c]) : pc[d] = "returned"
                              /\ (Route[d] = "chain" => out[d] = "value")
  /\ ClosureEnds(c, "record")

RunErr(c) == ClosureEnds(c, "settleFailed")

RunPanics(c) == ClosureEnds(c, "unwind")

\* settle_done: Producer::record, before the lock.
Record(c) ==
  /\ pc[c] = "record"
  /\ producer' = [producer EXCEPT ![Op[c]] = str[c]]
  /\ Submit(str[c], << <<"event", Op[c], c>> >>)
  /\ Go(c, "settleDone")
  /\ UNCHANGED <<once, runner, out, thr, str, wasHeld, mark, executing, done>>

\* Without an event the value is leaked and the cell fails.
RecordFails(c) ==
  /\ pc[c] = "record"
  /\ Go(c, "settleFailed")
  /\ UNCHANGED <<cellVars, out, thr, str, wasHeld, mark, executing, log, done>>

\* Mutant: an unwound cell can be run again.
SettleRetries(c) ==
  /\ pc[c] \in {"settleDone", "settleFailed", "unwind"}
  /\ once' = [once EXCEPT ![Op[c]] = CASE pc[c] = "settleDone"   -> "done"
                                       [] pc[c] = "settleFailed" -> "failed"
                                       [] pc[c] = "unwind"       -> "pending"]
  /\ out' = [out EXCEPT ![c] = IF pc[c] = "unwind" THEN "panic" ELSE @]
  /\ Go(c, "notify")
  /\ UNCHANGED <<runner, producer, thr, str, wasHeld, mark, executing, log, done>>

\* *self.lock() = outcome; SettleOnUnwind stores Failed.
Settle(c) ==
  /\ pc[c] \in {"settleDone", "settleFailed", "unwind"}
  /\ once' = [once EXCEPT ![Op[c]] =
                IF pc[c] = "settleDone" THEN "done" ELSE "failed"]
  /\ out' = [out EXCEPT ![c] = IF pc[c] = "unwind" THEN "panic" ELSE @]
  /\ Go(c, "notify")
  /\ UNCHANGED <<runner, producer, thr, str, wasHeld, mark, executing, log, done>>

Waiters(o) == {d \in Calls : Op[d] = o /\ pc[d] = "wait"}

\* notify_all.  The runner locks again and sees the outcome as the others do.
Notify(c) ==
  /\ pc[c] = "notify" /\ out[c] # "panic"
  /\ pc' = [d \in Calls |-> IF d \in Waiters(Op[c]) \cup {c} THEN "enter" ELSE pc[d]]
  /\ UNCHANGED <<cellVars, out, thr, str, wasHeld, mark, executing, log, done>>

\* Mutant: unwinding stores Failed and tells nobody.
NotifyUnwindingSilent(c) ==
  /\ pc[c] = "notify" /\ out[c] = "panic"
  /\ Go(c, "returned")
  /\ Unlock(c)
  /\ UNCHANGED <<cellVars, out, thr, str, wasHeld, mark, log, done>>

\* After a panic the frames unwind: sync_on's guard drops, nothing synchronizes.
NotifyUnwinding(c) ==
  /\ pc[c] = "notify" /\ out[c] = "panic"
  /\ pc' = [d \in Calls |-> CASE d \in Waiters(Op[c]) -> "enter"
                              [] d = c                -> "returned"
                              [] OTHER                -> pc[d]]
  /\ Unlock(c)
  /\ UNCHANGED <<cellVars, out, thr, str, wasHeld, mark, log, done>>

-----------------------------------------------------------------------------
(* The device: a stream executes in order, a wait needs its event.         *)

Executed(item) == \E s \in Streams : \E i \in 1 .. done[s] : log[s][i] = item
EventFired(o) == Executed(<<"event", o, runner[o]>>)

DeviceStep(s) ==
  /\ done[s] < Len(log[s])
  /\ LET item == log[s][done[s] + 1] IN item[1] = "wait" => EventFired(item[2])
  /\ done' = [done EXCEPT ![s] = @ + 1]
  /\ UNCHANGED <<cellVars, callVars, executing, log>>

-----------------------------------------------------------------------------
Enter(c) == CallTop(c) \/ \E r \in Calls : CallChain(c, r) \/ CallThen(c, r)
                                           \/ CallUnchecked(c, r)

Execute(c) == TakeOp(c) \/ Reentered(c) \/ Wait(c) \/ SeeFailed(c)
              \/ TakeValue(c) \/ JoinFails(c)

Outcome(c) == RunOk(c) \/ RunErr(c) \/ RunPanics(c)

SettleStep(c) == Record(c) \/ RecordFails(c) \/ Settle(c) \/ Notify(c)
                 \/ NotifyUnwinding(c)

Next ==
  \/ \E c \in Calls :
       \/ Enter(c) \/ Execute(c) \/ SpuriousWake(c) \/ RunWork(c) \/ Outcome(c)
       \/ SettleStep(c) \/ Leave(c) \/ Synchronized(c)
  \/ \E s \in Streams : DeviceStep(s)

Spec == Init /\ [][Next]_vars

(* Threads run, the closures terminate and the device executes.  Nothing   *)
(* is assumed of spurious wake-ups.                                        *)
Fairness ==
  /\ \A c \in Calls : /\ WF_vars(Enter(c)) /\ WF_vars(Execute(c))
                      /\ WF_vars(Outcome(c)) /\ WF_vars(SettleStep(c))
                      /\ WF_vars(Leave(c)) /\ WF_vars(Synchronized(c))
  /\ \A s \in Streams : WF_vars(DeviceStep(s))

FairSpec == Spec /\ Fairness

-----------------------------------------------------------------------------
(* Properties.                                                             *)

WorkExecuted(o) == runner[o] # None => Executed(<<"work", o, runner[o]>>)
WorkSubmitted(o) == \E s \in Streams : <<"work", o, runner[o]>> \in Range(log[s])

\* "Runs an operation exactly once across any number of concurrent callers":
\* the GPU work of a cell is submitted by one call only.
RunOnce ==
  \A s, t \in Streams : \A i \in DOMAIN log[s] : \A j \in DOMAIN log[t] :
    /\ log[s][i][1] = "work" /\ log[t][j][1] = "work"
    /\ log[s][i][2] = log[t][j][2]
    => log[s][i] = log[t][j]

\* Work that consumes a memoised value never executes on the device before
\* the work that produces it, whatever the two streams are (Producer::join).
UseOrdered ==
  \A c \in Calls :
    Executed(<<"use", Op[c], c>>) /\ WorkSubmitted(Op[c]) => WorkExecuted(Op[c])

\* sync_on hands the value to the host only when the producing work is over,
\* also when another stream produced it.
HostSeesFinishedWork ==
  \A c \in Calls :
    /\ pc[c] = "returned" /\ out[c] = "value" /\ Route[c] # "chain"
    /\ WorkSubmitted(Op[c])
    => WorkExecuted(Op[c])

\* "If the operation fails, every clone receives the same error": no caller
\* gets a value of a cell that failed for another caller or for the runner.
SameOutcome ==
  \A c, d \in Calls :
    Op[c] = Op[d] /\ out[c] = "value" => out[d] \notin {"failed", "panic"}

\* DEVICE_OP_EXECUTING is set exactly while a guard is alive on the thread:
\* no exit (return, `?`, panic, then_unchecked region) leaks or loses it.
LockHeldWhileExecuting ==
  \A t \in Threads :
    executing[t] <=>
      \E c \in Calls : Active(c) /\ thr[c] = t /\ Route[c] \in {"top", "unchecked"}

\* Nobody waits forever on Running: every top-level call returns, whatever
\* the closures do (error, panic, re-entrance) and however waits race settling.
EveryCallReturns == \A c \in Calls : Route[c] = "top" => <>(pc[c] = "returned")
=============================================================================
