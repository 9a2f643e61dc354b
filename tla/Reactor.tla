------------------------------- MODULE Reactor -------------------------------
(***************************************************************************)
(* The flag-write completion reactor, cuda-async/src/reactor.rs: register  *)
(* with its unpark, the scanner thread's scan_loop with parking, spinning  *)
(* and the rate-limited fault probe, over the slot table.  Streams are     *)
(* FIFO queues of flag writes; a device fault kills a context and discards *)
(* what its streams have queued.  Contexts also carry the deferred error   *)
(* of cuda-core's Context::record_err, which the next bind_to_thread of    *)
(* whichever thread takes and reports.                                     *)
(***************************************************************************)
EXTENDS SlotTable, Sequences

CONSTANTS
  StreamOf,      \* the stream each registration is for
  ContextOf,     \* the context of each stream
  SpinPasses,    \* SPIN_PASSES
  PassWrap,      \* 2^32 in the code: idle_passes is a u32
  MaxDeferred    \* bound on record_err calls by other threads

Streams == {StreamOf[t] : t \in Tokens}
Contexts == {ContextOf[s] : s \in Streams}
Ctx(t) == ContextOf[StreamOf[t]]

ASSUME ReactorAssumption ==
  SpinPasses \in Nat \ {0} /\ PassWrap > SpinPasses /\ MaxDeferred \in Nat

VARIABLES
  unparked,    \* registrations whose register() returned Ok
  queue,       \* flag writes queued on each stream
  faulted,     \* contexts killed by a device fault
  errState,    \* contexts whose error_state is set
  deferred,    \* record_err calls so far
  loop,        \* where scan_loop is: "top", "scan", "signal", "gate", "park",
               \* "slow", "probe" or "answer"
  idlePasses,  \* idle_passes
  parkToken,   \* the park token of the scanner thread
  memo,        \* probe_stale_slots: memo
  bound,       \* stream_is_faulted: bind_to_thread succeeded
  notice       \* signal() or wake() called on a registration's waker_state

deviceVars == <<queue, faulted, errState, deferred>>
loopVars == <<loop, idlePasses, parkToken, memo, bound, notice>>
rvars == <<vars, unparked, deviceVars, loopVars>>

RInit ==
  /\ Init
  /\ unparked = {} /\ queue = [s \in Streams |-> <<>>]
  /\ faulted = {} /\ errState = {} /\ deferred = 0
  /\ loop = "top" /\ idlePasses = 0 /\ parkToken = FALSE
  /\ memo = [s \in Streams |-> "unknown"] /\ bound = FALSE
  /\ notice = [t \in Tokens |-> "none"]

-----------------------------------------------------------------------------
(* register.                                                               *)

\* Every step of register() up to publish() except the device write.
RegisterHost(t) ==
  /\ \/ \E s \in Slots : Claim(t, s)
     \/ ClaimExhausted(t) \/ ResetFlag(t) \/ ArmRefused(t) \/ Release(t)
     \/ WritePayload(t) \/ CountArmed(t) \/ SetBit(t)
  /\ UNCHANGED <<unparked, deviceVars, loopVars>>

\* cuStreamWriteValue32 is accepted on a healthy context only.
RegisterWrite(t) ==
  /\ Ctx(t) \notin faulted
  /\ Arm(t)
  /\ queue' = [queue EXCEPT ![StreamOf[t]] = Append(@, t)]
  /\ UNCHANGED <<unparked, faulted, errState, deferred, loopVars>>

\* Mutant: the scanner is not unparked.
RegisterReturnQuiet(t) ==
  /\ reg[t] = "published" /\ t \notin unparked
  /\ unparked' = unparked \cup {t}
  /\ UNCHANGED <<vars, deviceVars, loopVars>>

\* Unpark the scanner on the idle -> active transition; return Ok.
RegisterReturn(t) ==
  /\ reg[t] = "published" /\ t \notin unparked
  /\ unparked' = unparked \cup {t}
  /\ parkToken' = (parkToken \/ wasIdle[t])
  /\ UNCHANGED <<vars, deviceVars, loop, idlePasses, memo, bound, notice>>

Register(t) == RegisterHost(t) \/ RegisterWrite(t) \/ RegisterReturn(t)

-----------------------------------------------------------------------------
(* The device, and threads that share the contexts.                        *)

DeviceWrite(t) ==
  /\ queue[StreamOf[t]] # <<>> /\ t = Head(queue[StreamOf[t]])
  /\ FlagWrite(t)
  /\ queue' = [queue EXCEPT ![StreamOf[t]] = Tail(@)]
  /\ UNCHANGED <<unparked, faulted, errState, deferred, loopVars>>

\* A fault is sticky and takes the whole context.
DeviceFault(c) ==
  /\ c \notin faulted
  /\ faulted' = faulted \cup {c}
  /\ FlagWritesLost({t \in Tokens : Ctx(t) = c /\ write[t] = "queued"})
  /\ queue' = [s \in Streams |-> IF ContextOf[s] = c THEN <<>> ELSE queue[s]]
  /\ UNCHANGED <<unparked, errState, deferred, loopVars>>

\* A Drop on another thread records a driver error that is not a fault.
RecordErr(c) ==
  /\ deferred < MaxDeferred
  /\ errState' = errState \cup {c} /\ deferred' = deferred + 1
  /\ UNCHANGED <<vars, unparked, queue, faulted, loopVars>>

\* bind_to_thread on another thread takes it.
OtherBind(c) ==
  /\ c \in errState
  /\ errState' = errState \ {c}
  /\ UNCHANGED <<vars, unparked, queue, faulted, deferred, loopVars>>

-----------------------------------------------------------------------------
(* scan_loop.                                                              *)

ToSignal == {t \in Tokens : woken[t] > 0 /\ notice[t] = "none"}
ToWake == {t \in Tokens : dead[t] > 0 /\ notice[t] = "none"}

StartScan ==
  /\ loop = "top" /\ loop' = "scan"
  /\ StartPass(FALSE)
  /\ UNCHANGED <<unparked, deviceVars, idlePasses, parkToken, memo, bound, notice>>

ScanPass ==
  /\ loop \in {"scan", "probe"}
  /\ PassStep
  /\ UNCHANGED <<unparked, deviceVars, loopVars>>

ScanReturns ==
  /\ loop = "scan" /\ scan = "idle"
  /\ loop' = IF ToSignal # {} THEN "signal" ELSE "gate"
  /\ UNCHANGED <<vars, unparked, deviceVars, idlePasses, parkToken, memo, bound, notice>>

\* for reg in woken.drain(..): reg.waker_state.signal().
SignalNext(t) ==
  /\ loop \in {"signal", "answer"} /\ t \in ToSignal
  /\ notice' = [notice EXCEPT ![t] = "signalled"]
  /\ UNCHANGED <<vars, unparked, deviceVars, loop, idlePasses, parkToken, memo, bound>>

SignalsDone ==
  /\ loop = "signal" /\ ToSignal = {}
  /\ loop' = "top" /\ idlePasses' = 0
  /\ UNCHANGED <<vars, unparked, deviceVars, parkToken, memo, bound, notice>>

\* is_idle(): park, or count the pass and spin or go slow.
GateIdle ==
  /\ loop = "gate" /\ nArmed = 0
  /\ loop' = "park"
  /\ UNCHANGED <<vars, unparked, deviceVars, idlePasses, parkToken, memo, bound, notice>>

\* Mutant: the scanner spins and never gets to the slow phase.
GateArmedSpins ==
  /\ loop = "gate" /\ nArmed # 0
  /\ loop' = "top"
  /\ UNCHANGED <<vars, unparked, deviceVars, idlePasses, parkToken, memo, bound, notice>>

\* idle_passes wraps: after 2^32 passes over one armed slot the scanner spins
\* again (a build with overflow checks would panic).
GateArmed ==
  /\ loop = "gate" /\ nArmed # 0
  /\ idlePasses' = (idlePasses + 1) % PassWrap
  /\ loop' = IF idlePasses' < SpinPasses THEN "top" ELSE "slow"
  /\ UNCHANGED <<vars, unparked, deviceVars, parkToken, memo, bound, notice>>

\* thread::park() returns and takes the token.
Unparked ==
  /\ loop = "park" /\ parkToken
  /\ loop' = "top" /\ idlePasses' = 0 /\ parkToken' = FALSE
  /\ UNCHANGED <<vars, unparked, deviceVars, memo, bound, notice>>

\* thread::park() may also return for no reason.
SpuriousUnpark ==
  /\ loop = "park" /\ ~parkToken
  /\ loop' = "top" /\ idlePasses' = 0
  /\ UNCHANGED <<vars, unparked, deviceVars, parkToken, memo, bound, notice>>

\* STALE_PROBE_INTERVAL has not elapsed.
SlowSkip ==
  /\ loop = "slow" /\ loop' = "top"
  /\ UNCHANGED <<vars, unparked, deviceVars, idlePasses, parkToken, memo, bound, notice>>

SlowProbe ==
  /\ loop = "slow" /\ loop' = "probe"
  /\ StartPass(TRUE)
  /\ memo' = [s \in Streams |-> "unknown"]
  /\ UNCHANGED <<unparked, deviceVars, idlePasses, parkToken, bound, notice>>

-----------------------------------------------------------------------------
(* The is_dead predicate of probe_stale_slots, on the payload of `cur`.    *)

Probing(s) == scan = "probe" /\ s = StreamOf[payload[cur]]

ProbeMemo(s) ==
  /\ Probing(s) /\ memo[s] # "unknown"
  /\ ProbeSlot(memo[s] = "dead")
  /\ UNCHANGED <<unparked, deviceVars, loopVars>>

Answer(s, isDead) ==
  /\ ProbeSlot(isDead)
  /\ memo' = [memo EXCEPT ![s] = IF isDead THEN "dead" ELSE "alive"]
  /\ bound' = FALSE

\* stream_is_faulted: bind_to_thread takes a deferred error and fails.
ProbeBindFails(s) ==
  /\ Probing(s) /\ memo[s] = "unknown" /\ ~bound
  /\ ContextOf[s] \in errState
  /\ errState' = errState \ {ContextOf[s]}
  /\ Answer(s, FALSE)
  /\ UNCHANGED <<unparked, queue, faulted, deferred, loop, idlePasses, parkToken, notice>>

ProbeBinds(s) ==
  /\ Probing(s) /\ memo[s] = "unknown" /\ ~bound
  /\ ContextOf[s] \notin errState
  /\ bound' = TRUE
  /\ UNCHANGED <<vars, unparked, deviceVars, loop, idlePasses, parkToken, memo, notice>>

\* Mutant: a stream that is not ready is taken for a faulted one.
ProbeQueryBusyIsDead(s) ==
  /\ Probing(s) /\ memo[s] = "unknown" /\ bound
  /\ errState' = errState \ {ContextOf[s]}
  /\ Answer(s, queue[s] # <<>> \/ ContextOf[s] \in faulted \cup errState)
  /\ UNCHANGED <<unparked, queue, faulted, deferred, loop, idlePasses, parkToken, notice>>

\* probe_stream: query() binds again, so it too reports a deferred error;
\* otherwise the driver's answer is an error exactly on a dead context, where
\* cuStreamIsCapturing may already have failed.
ProbeQuery(s) ==
  /\ Probing(s) /\ memo[s] = "unknown" /\ bound
  /\ \/ errState' = errState \ {ContextOf[s]}
     \/ ContextOf[s] \in faulted /\ UNCHANGED errState
  /\ Answer(s, ContextOf[s] \in faulted \cup errState)
  /\ UNCHANGED <<unparked, queue, faulted, deferred, loop, idlePasses, parkToken, notice>>

ProbeReturns ==
  /\ loop = "probe" /\ scan = "idle"
  /\ loop' = "answer"
  /\ UNCHANGED <<vars, unparked, deviceVars, idlePasses, parkToken, memo, bound, notice>>

\* Mutant: signal() instead of wake() on a faulted registration.
WakeNextSignals(t) ==
  /\ loop = "answer" /\ ToSignal = {} /\ t \in ToWake
  /\ notice' = [notice EXCEPT ![t] = "signalled"]
  /\ UNCHANGED <<vars, unparked, deviceVars, loop, idlePasses, parkToken, memo, bound>>

\* for reg in faulted.drain(..): reg.waker_state.wake(), after the signals.
WakeNext(t) ==
  /\ loop = "answer" /\ ToSignal = {} /\ t \in ToWake
  /\ notice' = [notice EXCEPT ![t] = "woken"]
  /\ UNCHANGED <<vars, unparked, deviceVars, loop, idlePasses, parkToken, memo, bound>>

AnswersDone ==
  /\ loop = "answer" /\ ToSignal = {} /\ ToWake = {}
  /\ loop' = "top"
  /\ UNCHANGED <<vars, unparked, deviceVars, idlePasses, parkToken, memo, bound, notice>>

ProbeStep == \E s \in Streams :
  ProbeMemo(s) \/ ProbeBindFails(s) \/ ProbeBinds(s) \/ ProbeQuery(s)

ScannerRuns ==
  \/ StartScan \/ ScanPass \/ ScanReturns \/ SignalsDone \/ GateIdle
  \/ GateArmed \/ Unparked \/ SlowSkip \/ SlowProbe \/ ProbeStep
  \/ ProbeReturns \/ AnswersDone
  \/ \E t \in Tokens : SignalNext(t) \/ WakeNext(t)

RNext ==
  \/ \E t \in Tokens : Register(t) \/ DeviceWrite(t)
  \/ \E c \in Contexts : DeviceFault(c) \/ RecordErr(c) \/ OtherBind(c)
  \/ ScannerRuns
  \/ SpuriousUnpark

RSpec == RInit /\ [][RNext]_rvars

(* Threads run; a stream on a live context drains; in the slow phase the   *)
(* probe interval elapses again and again.  Nothing is assumed of faults,  *)
(* deferred errors or spurious returns of park().                          *)
RFairSpec ==
  /\ RSpec
  /\ \A t \in Tokens : WF_rvars(Register(t)) /\ WF_rvars(DeviceWrite(t))
  /\ WF_rvars(ScannerRuns) /\ SF_rvars(SlowProbe)

-----------------------------------------------------------------------------
(* Properties.                                                             *)

\* The scanner never sleeps on armed slots: if it is parked with no token
\* while something is counted, the register() call that made the 0 -> 1
\* transition has still to unpark it.
NoSleepOnArmed ==
  loop = "park" /\ ~parkToken /\ nArmed > 0 =>
    \E t \in Tokens : /\ reg[t] \in {"counted", "published"}
                      /\ wasIdle[t] /\ t \notin unparked

\* stream_is_faulted's comment: a slot retired as dead is one whose flag write
\* can no longer land, so a recycled slot is not written by its old owner.
RetiredNeverLands == \A t \in Tokens : dead[t] > 0 => write[t] # "queued"

\* The refinement mapping: a registration's work as the Notifier sees it.
WorkOf(t) ==
  CASE reg[t] = "failed"    -> "refused"
    [] write[t] = "queued"  -> "pending"
    [] write[t] = "landed"  -> "done"
    [] write[t] = "lost"    -> "faulted"
    [] OTHER                -> "new"

N == INSTANCE Notifier WITH
       work <- [t \in Tokens |-> WorkOf(t)],
       down <- {t \in Tokens : Ctx(t) \in faulted}

\* The reactor implements the abstract notifier, fairness included: one
\* notice per registration, the right one, and always in the end.
ImplementsNotifier == N!Spec

\* Its slot-table steps are steps of the slot-table protocol: the probe keeps
\* the contract of is_dead and a fault only loses queued writes.
ImplementsSlotTable == Spec

\* Once everything is answered the scanner goes to sleep and stays asleep
\* apart from spurious wake-ups: it does not spin on faulted slots.
ScannerRests == []<>(loop = "park")
=============================================================================
