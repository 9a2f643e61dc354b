-------------------------- MODULE ExecuteOnce_proofs --------------------------
(***************************************************************************)
(* Proofs about ExecuteOnce, for any cells, calls, threads and streams and *)
(* any nesting of the calls.  The inductive invariant has three layers:    *)
(*   CellInv  who runs a cell, and what its settled state says of the      *)
(*            outcomes handed out;                                         *)
(*   LogInv   the order of work, event, wait and use items in the streams; *)
(*   NestInv  the frames of a thread: a nested call's parent is running    *)
(*            its closure, one innermost frame per thread, one outermost   *)
(*            frame that holds the execution lock.                         *)
(***************************************************************************)
EXTENDS ExecuteOnce, TLAPS

\* The call that took the operation has not settled the cell yet.
Running == {"run", "record", "settleDone", "settleFailed", "unwind"}

RunnerInv ==
  /\ \A c \in Calls : pc[c] \in Running => runner[Op[c]] = c /\ once[Op[c]] = "running"
  /\ \A o \in Ops : once[o] = "pending" => runner[o] = None
  /\ \A o \in Ops : runner[o] # None => Op[runner[o]] = o /\ pc[runner[o]] # "start"

OutcomeInv ==
  \A c \in Calls : /\ out[c] = "value" => once[Op[c]] = "done"
                   /\ out[c] \in {"failed", "panic"} => once[Op[c]] = "failed"

CellInv == RunnerInv /\ OutcomeInv

-----------------------------------------------------------------------------
Submitted(s, i, kind, o, c) == i \in 1 .. Len(log[s]) /\ log[s][i] = <<kind, o, c>>

\* Work is submitted by the runner, to the stream of its context.
WorkInv ==
  \A s \in Streams, i \in Nat, o \in Ops, c \in Calls :
    Submitted(s, i, "work", o, c) => c = runner[o] /\ s = str[c]

\* So is the event, after all the work and when no more can follow.
EventInv ==
  \A s \in Streams, i \in Nat, o \in Ops, c \in Calls :
    Submitted(s, i, "event", o, c) =>
      /\ c = runner[o] /\ s = str[c] /\ pc[c] \notin {"run", "record"}
      /\ \A j \in Nat : Submitted(s, j, "work", o, c) => j < i

\* A computed value has its event, on the stream the cell names.
ProducerInv ==
  \A c \in Calls :
    runner[Op[c]] = c /\ (pc[c] = "settleDone" \/ once[Op[c]] = "done") =>
      /\ producer[Op[c]] = str[c]
      /\ \E i \in Nat : Submitted(str[c], i, "event", Op[c], c)

\* The event of a cell has been reached by the device: EventFired, by index.
Fired(o) == \E s \in Streams, i \in Nat :
              Submitted(s, i, "event", o, runner[o]) /\ i <= done[s]

\* A wait that the device has passed saw the event.
WaitInv ==
  \A s \in Streams, i \in Nat, o \in Ops, c \in Calls :
    Submitted(s, i, "wait", o, c) =>
      once[o] = "done" /\ (i <= done[s] => Fired(o))

\* A use comes after the work on its stream, or after a wait for the event.
UseInv ==
  \A s \in Streams, i \in Nat, o \in Ops, c \in Calls :
    Submitted(s, i, "use", o, c) =>
      /\ once[o] = "done"
      /\ \A t \in Streams, j \in Nat, d \in Calls :
           Submitted(t, j, "work", o, d) =>
             \/ t = s /\ j < i
             \/ \E k \in Nat : k < i /\ Submitted(s, k, "wait", o, c)

\* Where the use of a call that got the value is, and what it is waited for.
ValueInv ==
  \A c \in Calls : out[c] = "value" =>
    /\ pc[c] \in {"leave", "sync", "returned"}
    /\ \E i \in Nat :
         /\ Submitted(str[c], i, "use", Op[c], c)
         /\ pc[c] = "sync" => i <= mark[c]
         /\ pc[c] = "returned" /\ Route[c] # "chain" => i <= done[str[c]]

OrderInv == WorkInv /\ EventInv /\ WaitInv /\ UseInv

LogInv == OrderInv /\ ProducerInv /\ ValueInv

-----------------------------------------------------------------------------
Child(d, c) == Active(d) /\ Parent[d] # None /\ runner[Parent[d]] = c

\* A nested call runs inside the closure that makes it, on its thread.
FrameInv ==
  \A d \in Calls : Active(d) =>
    /\ Route[d] # "then"
    /\ Route[d] = "unchecked" => wasHeld[d]
    /\ Parent[d] # None => /\ runner[Parent[d]] # None
                           /\ pc[runner[Parent[d]]] = "run"
                           /\ thr[d] = thr[runner[Parent[d]]]

TopThread == \A c \in Calls : Route[c] = "top" => thr[c] = Thread[c]

\* Nesting is well founded: every set of calls has one without child in it.
Grounded ==
  \A S \in SUBSET Calls : S # {} => \E c \in S : \A d \in S : ~Child(d, c)

\* A thread has one innermost frame.
Innermost(c) == Active(c) /\ \A d \in Calls : ~Child(d, c)
OneInnermost ==
  \A c, d \in Calls : Innermost(c) /\ Innermost(d) /\ thr[c] = thr[d] => c = d

\* Its outermost frame is a sync_on of plain code, which holds the lock.
Holder(c, t) == Active(c) /\ thr[c] = t /\ Route[c] = "top"
OuterInv ==
  /\ \A c \in Calls : Active(c) => executing[thr[c]]
  /\ \A t \in Threads : executing[t] <=> \E c \in Calls : Holder(c, t)

NestInv == FrameInv /\ TopThread /\ Grounded /\ OneInnermost /\ OuterInv

IndInv == TypeOK /\ CellInv /\ LogInv /\ NestInv

-----------------------------------------------------------------------------
(* Submitting to a stream.                                                 *)

\* What Submit does to the logs: nothing is lost, the items come last.
LEMMA Appends ==
  ASSUME log \in [Streams -> Seq(Items)], NEW s \in Streams,
         NEW items \in Seq(Items), Submit(s, items)
  PROVE  /\ log' \in [Streams -> Seq(Items)]
         /\ Len(log'[s]) = Len(log[s]) + Len(items)
         /\ \A t \in Streams : t # s => log'[t] = log[t]
         /\ \A i \in 1 .. Len(log[s]) : log'[s][i] = log[s][i]
         /\ \A i \in 1 .. Len(items) : log'[s][Len(log[s]) + i] = items[i]
<1>1. log[s] \in Seq(Items) /\ log'[s] = log[s] \o items
  BY DEF Submit
<1> QED BY <1>1 DEF Submit

\* One item is appended by RunWork and Record.
LEMMA AppendsOne ==
  ASSUME log \in [Streams -> Seq(Items)], NEW s \in Streams,
         NEW item \in Items, Submit(s, <<item>>)
  PROVE  /\ log' \in [Streams -> Seq(Items)]
         /\ Len(log'[s]) = Len(log[s]) + 1
         /\ \A t \in Streams : t # s => log'[t] = log[t]
         /\ \A i \in 1 .. Len(log[s]) : log'[s][i] = log[s][i]
         /\ log'[s][Len(log[s]) + 1] = item
<1> DEFINE items == <<item>>
<1>1. items \in Seq(Items) /\ Len(items) = 1 /\ items[1] = item
  OBVIOUS
<1>2. Submit(s, items)
  OBVIOUS
<1> HIDE DEF items
<1>3. 1 \in 1 .. Len(items)
  BY <1>1
<1> QED BY <1>1, <1>2, <1>3, Appends

\* TakeValue appends a use, after a wait when another stream produced it.
LEMMA AppendsUse ==
  ASSUME TypeOK, NEW c \in Calls, TakeValue(c)
  PROVE  LET s == str[c]
             n == Len(log[s])
             m == Len(log'[s])
         IN /\ log' \in [Streams -> Seq(Items)]
            /\ \A t \in Streams : t # s => log'[t] = log[t]
            /\ \A i \in 1 .. n : log'[s][i] = log[s][i]
            /\ log'[s][m] = <<"use", Op[c], c>>
            /\ \/ m = n + 1 /\ producer[Op[c]] \in {None, s}
               \/ m = n + 2 /\ log'[s][n + 1] = <<"wait", Op[c], c>>
                  /\ producer[Op[c]] \notin {None, s}
<1> DEFINE use == <<"use", Op[c], c>>
           wait == <<"wait", Op[c], c>>
<1>1. use \in Items /\ wait \in Items /\ str[c] \in Streams
      /\ log \in [Streams -> Seq(Items)] /\ Len(log[str[c]]) \in Nat
  BY CallsAssumption DEF TypeOK, Items
<1>2. Submit(str[c], Join(c) \o <<use>>)
  BY DEF TakeValue
<1> HIDE DEF use, wait
<1>3. CASE producer[Op[c]] \in {None, str[c]}
  <2>1. Submit(str[c], <<use>>)
    <3>1. Join(c) = <<>>
      BY <1>3 DEF Join
    <3>2. <<>> \o <<use>> = <<use>>
      OBVIOUS
    <3> QED BY <1>2, <3>1, <3>2
  <2>2. /\ log' \in [Streams -> Seq(Items)]
        /\ Len(log'[str[c]]) = Len(log[str[c]]) + 1
        /\ \A t \in Streams : t # str[c] => log'[t] = log[t]
        /\ \A i \in 1 .. Len(log[str[c]]) : log'[str[c]][i] = log[str[c]][i]
        /\ log'[str[c]][Len(log[str[c]]) + 1] = use
    BY <1>1, <2>1, AppendsOne
  <2> QED BY <1>1, <1>3, <2>2 DEF use
<1>4. CASE producer[Op[c]] \notin {None, str[c]}
  <2> DEFINE items == <<wait>> \o <<use>>
  <2>1. Join(c) = <<wait>>
    BY <1>4 DEF Join, wait
  <2>2. /\ items \in Seq(Items) /\ Len(items) = 2
        /\ items[1] = wait /\ items[2] = use
    BY <1>1
  <2>3. Submit(str[c], items)
    BY <1>2, <2>1
  <2> HIDE DEF items
  <2>4. /\ log' \in [Streams -> Seq(Items)]
        /\ Len(log'[str[c]]) = Len(log[str[c]]) + 2
        /\ \A t \in Streams : t # str[c] => log'[t] = log[t]
        /\ \A i \in 1 .. Len(log[str[c]]) : log'[str[c]][i] = log[str[c]][i]
        /\ log'[str[c]][Len(log[str[c]]) + 1] = wait
        /\ log'[str[c]][Len(log[str[c]]) + 2] = use
    <3>1. 1 \in 1 .. Len(items) /\ 2 \in 1 .. Len(items)
      BY <2>2
    <3>2. /\ log' \in [Streams -> Seq(Items)]
          /\ Len(log'[str[c]]) = Len(log[str[c]]) + Len(items)
          /\ \A t \in Streams : t # str[c] => log'[t] = log[t]
          /\ \A i \in 1 .. Len(log[str[c]]) : log'[str[c]][i] = log[str[c]][i]
          /\ \A i \in 1 .. Len(items) : log'[str[c]][Len(log[str[c]]) + i] = items[i]
      BY <1>1, <2>2, <2>3, Appends
    <3> QED BY <2>2, <3>1, <3>2
  <2> QED BY <1>1, <1>4, <2>4 DEF use, wait
<1> QED BY <1>3, <1>4

-----------------------------------------------------------------------------
(* Type correctness.                                                       *)

\* The steps that leave the streams alone preserve the types.
LEMMA TypeCalls ==
  ASSUME TypeOK, NEW c \in Calls,
         \/ Enter(c) \/ SpuriousWake(c) \/ Outcome(c) \/ Leave(c) \/ Synchronized(c)
         \/ TakeOp(c) \/ Reentered(c) \/ Wait(c) \/ SeeFailed(c) \/ JoinFails(c)
         \/ RecordFails(c) \/ Settle(c) \/ Notify(c) \/ NotifyUnwinding(c)
  PROVE  TypeOK'
<1> USE CallsAssumption DEF TypeOK, PcStates, Outcomes, Go, cellVars, callVars
<1>1. CASE Enter(c)
  <2>1. CASE CallTop(c) BY <2>1 DEF CallTop, Acquire
  <2>2. ASSUME NEW r \in Calls, CallChain(c, r) PROVE TypeOK'
    BY <2>2 DEF CallChain, InClosure
  <2>3. ASSUME NEW r \in Calls, CallThen(c, r) PROVE TypeOK'
    <3>1. \/ /\ Go(c, "returned") /\ out' = [out EXCEPT ![c] = "locked"]
             /\ UNCHANGED executing
          \/ /\ Go(c, "enter") /\ UNCHANGED out
             /\ executing' = [executing EXCEPT ![thr[r]] = TRUE]
      BY <2>3, Zenon DEF CallThen, Acquire
    <3> QED BY <2>3, <3>1 DEF CallThen, InClosure
  <2>4. ASSUME NEW r \in Calls, CallUnchecked(c, r) PROVE TypeOK'
    BY <2>4 DEF CallUnchecked, InClosure, Acquire
  <2> QED BY <1>1, <2>1, <2>2, <2>3, <2>4 DEF Enter
<1>2. CASE SpuriousWake(c) BY <1>2 DEF SpuriousWake
<1>3. CASE Outcome(c)
  BY <1>3 DEF Outcome, RunOk, RunErr, RunPanics, ClosureEnds
<1>4. CASE Leave(c)
  <2>1. Len(log[str[c]]) \in Nat
    OBVIOUS
  <2>2. CASE Route[c] = "chain"
    BY <1>4, <2>2 DEF Leave, Return, Unlock
  <2>3. CASE Route[c] # "chain"
    <3>1. /\ Go(c, "sync") /\ out' = out /\ executing' = executing
          /\ mark' = [mark EXCEPT ![c] = Len(log[str[c]])]
      BY <1>4, <2>3, Zenon DEF Leave
    <3> QED BY <1>4, <2>1, <3>1 DEF Leave
  <2> QED BY <2>2, <2>3
<1>5. CASE Synchronized(c)
  <2>1. PICK result \in {out[c], "syncErr"} : Return(c, result)
    BY <1>5 DEF Synchronized
  <2> QED BY <1>5, <2>1 DEF Synchronized, Return, Unlock
<1>6. CASE TakeOp(c) BY <1>6 DEF TakeOp
<1>7. CASE Reentered(c) BY <1>7 DEF Reentered
<1>8. CASE Wait(c) BY <1>8 DEF Wait
<1>9. CASE SeeFailed(c) BY <1>9 DEF SeeFailed
<1>10. CASE JoinFails(c) BY <1>10 DEF JoinFails
<1>11. CASE RecordFails(c) BY <1>11 DEF RecordFails
<1>12. CASE Settle(c) BY <1>12 DEF Settle
<1>13. CASE Notify(c) BY <1>13 DEF Notify
<1>14. CASE NotifyUnwinding(c)
  <2>1. pc' \in [Calls -> PcStates]
    BY <1>14 DEF NotifyUnwinding
  <2> QED BY <1>14, <2>1 DEF NotifyUnwinding, Unlock
<1> QED BY <1>1, <1>2, <1>3, <1>4, <1>5, <1>6, <1>7, <1>8, <1>9, <1>10, <1>11,
           <1>12, <1>13, <1>14

\* So do the steps that submit to a stream and those of the device.
LEMMA TypeStreams ==
  ASSUME TypeOK,
         \/ \E c \in Calls : RunWork(c) \/ Record(c) \/ TakeValue(c)
         \/ \E s \in Streams : DeviceStep(s)
  PROVE  TypeOK'
<1> USE CallsAssumption DEF TypeOK, cellVars, callVars
<1>0. \A s \in Streams : Len(log[s]) \in Nat
  OBVIOUS
<1>1. ASSUME NEW c \in Calls, RunWork(c) PROVE TypeOK'
  <2> DEFINE item == <<"work", Op[c], c>>
  <2>1. item \in Items
    BY DEF Items
  <2>2. Submit(str[c], <<item>>)
    BY <1>1 DEF RunWork
  <2> HIDE DEF item
  <2>3. /\ log' \in [Streams -> Seq(Items)]
        /\ \A t \in Streams : t # str[c] => log'[t] = log[t]
        /\ Len(log'[str[c]]) = Len(log[str[c]]) + 1
    BY <2>1, <2>2, AppendsOne
  <2>4. ASSUME NEW s \in Streams PROVE done[s] <= Len(log'[s])
    <3>1. CASE s = str[c] BY <1>0, <2>3, <3>1
    <3>2. CASE s # str[c] BY <1>0, <2>3, <3>2
    <3> QED BY <3>1, <3>2
  <2> QED BY <1>1, <2>3, <2>4 DEF RunWork
<1>2. ASSUME NEW c \in Calls, Record(c) PROVE TypeOK'
  <2> DEFINE item == <<"event", Op[c], c>>
  <2>1. item \in Items
    BY DEF Items
  <2>2. Submit(str[c], <<item>>)
    BY <1>2 DEF Record
  <2> HIDE DEF item
  <2>3. /\ log' \in [Streams -> Seq(Items)]
        /\ \A t \in Streams : t # str[c] => log'[t] = log[t]
        /\ Len(log'[str[c]]) = Len(log[str[c]]) + 1
    BY <2>1, <2>2, AppendsOne
  <2>4. ASSUME NEW s \in Streams PROVE done[s] <= Len(log'[s])
    <3>1. CASE s = str[c] BY <1>0, <2>3, <3>1
    <3>2. CASE s # str[c] BY <1>0, <2>3, <3>2
    <3> QED BY <3>1, <3>2
  <2> QED BY <1>2, <2>3, <2>4 DEF Record, Go, PcStates
<1>3. ASSUME NEW c \in Calls, TakeValue(c) PROVE TypeOK'
  <2>1. /\ log' \in [Streams -> Seq(Items)]
        /\ \A t \in Streams : t # str[c] => log'[t] = log[t]
        /\ Len(log'[str[c]]) = Len(log[str[c]]) + 1
           \/ Len(log'[str[c]]) = Len(log[str[c]]) + 2
    BY <1>3, AppendsUse
  <2>2. ASSUME NEW s \in Streams PROVE done[s] <= Len(log'[s])
    <3>1. CASE s = str[c] BY <1>0, <2>1, <3>1
    <3>2. CASE s # str[c] BY <1>0, <2>1, <3>2
    <3> QED BY <3>1, <3>2
  <2> QED BY <1>3, <2>1, <2>2 DEF TakeValue, Go, PcStates, Outcomes
<1>4. ASSUME NEW s \in Streams, DeviceStep(s) PROVE TypeOK'
  BY <1>4 DEF DeviceStep
<1> QED BY <1>1, <1>2, <1>3, <1>4

\* Every step preserves the types.
LEMMA TypeStep == TypeOK /\ [Next]_vars => TypeOK'
<1>1. CASE UNCHANGED vars
  BY <1>1 DEF vars, cellVars, callVars, TypeOK
<1>2. ASSUME TypeOK, Next PROVE TypeOK'
  BY <1>2, TypeCalls, TypeStreams DEF Next, Execute, SettleStep
<1> QED BY <1>1, <1>2

-----------------------------------------------------------------------------
(* The cells.                                                              *)

\* Steps that leave the cells alone: nobody becomes a runner, an outcome
\* handed out says what the cell says.
LEMMA CellFrame ==
  ASSUME TypeOK, CellInv, UNCHANGED <<once, runner>>,
         \A d \in Calls : /\ pc[d] # "start" => pc'[d] # "start"
                          /\ pc'[d] \in Running => pc[d] \in Running,
         \A d \in Calls :
           \/ out'[d] = out[d] \/ out'[d] \notin {"value", "failed", "panic"}
           \/ out'[d] = "value" /\ once[Op[d]] = "done"
           \/ out'[d] = "failed" /\ once[Op[d]] = "failed"
  PROVE  CellInv'
<1>1. RunnerInv'
  BY CallsAssumption DEF CellInv, RunnerInv, TypeOK
<1>2. OutcomeInv'
  BY CallsAssumption DEF CellInv, OutcomeInv, TypeOK
<1> QED BY <1>1, <1>2 DEF CellInv

\* Entering, leaving, waiting and seeing an outcome.
LEMMA CellCalls ==
  ASSUME TypeOK, CellInv, NEW c \in Calls,
         \/ Enter(c) \/ SpuriousWake(c) \/ Leave(c) \/ Synchronized(c)
         \/ Reentered(c) \/ Wait(c) \/ SeeFailed(c) \/ TakeValue(c) \/ JoinFails(c)
  PROVE  CellInv'
<1> USE DEF TypeOK, Go, cellVars, Running
<1>1. UNCHANGED <<once, runner>>
  BY DEF Enter, CallTop, CallChain, CallThen, CallUnchecked, SpuriousWake, Leave,
         Synchronized, Reentered, Wait, SeeFailed, TakeValue, JoinFails
<1>2. \E to \in {"enter", "wait", "leave", "sync", "returned"} : Go(c, to)
  <2>1. CASE Enter(c)
    BY <2>1 DEF Enter, CallTop, CallChain, CallThen, CallUnchecked, Acquire
  <2>2. CASE Leave(c)
    BY <2>2 DEF Leave, Return
  <2>3. CASE Synchronized(c)
    BY <2>3 DEF Synchronized, Return
  <2> QED BY <2>1, <2>2, <2>3 DEF SpuriousWake, Reentered, Wait, SeeFailed,
             TakeValue, JoinFails
<1>3. \A d \in Calls : /\ pc[d] # "start" => pc'[d] # "start"
                       /\ pc'[d] \in Running => pc[d] \in Running
  BY <1>2
<1>4. \A d \in Calls :
        \/ out'[d] = out[d] \/ out'[d] \notin {"value", "failed", "panic"}
        \/ out'[d] = "value" /\ once[Op[d]] = "done"
        \/ out'[d] = "failed" /\ once[Op[d]] = "failed"
  <2>1. CASE Enter(c)
    BY <2>1 DEF Enter, CallTop, CallChain, CallThen, CallUnchecked, Acquire
  <2>2. CASE Leave(c)
    BY <2>2 DEF Leave, Return
  <2>3. CASE Synchronized(c)
    BY <2>3 DEF Synchronized, Return
  <2>4. CASE SeeFailed(c) \/ TakeValue(c)
    BY <2>4 DEF SeeFailed, TakeValue, LockAndSee
  <2> QED BY <2>1, <2>2, <2>3, <2>4 DEF SpuriousWake, Reentered, Wait, JoinFails
<1> QED BY <1>1, <1>3, <1>4, CellFrame

\* Running the closure, recording, notifying.
LEMMA CellRuns ==
  ASSUME TypeOK, CellInv, NEW c \in Calls,
         RunWork(c) \/ Outcome(c) \/ Record(c) \/ RecordFails(c) \/ Notify(c)
         \/ NotifyUnwinding(c)
  PROVE  CellInv'
<1> USE DEF TypeOK, Go, cellVars, callVars, Running
<1>1. UNCHANGED <<once, runner, out>>
  BY DEF RunWork, Outcome, RunOk, RunErr, RunPanics, ClosureEnds, Record,
         RecordFails, Notify, NotifyUnwinding
<1>2. \A d \in Calls : /\ pc[d] # "start" => pc'[d] # "start"
                       /\ pc'[d] \in Running => pc[d] \in Running
  <2>1. CASE RunWork(c) BY <2>1 DEF RunWork
  <2>2. CASE Outcome(c)
    BY <2>2 DEF Outcome, RunOk, RunErr, RunPanics, ClosureEnds
  <2>3. CASE Record(c) \/ RecordFails(c) BY <2>3 DEF Record, RecordFails
  <2>4. CASE Notify(c) BY <2>4 DEF Notify
  <2>5. CASE NotifyUnwinding(c) BY <2>5 DEF NotifyUnwinding
  <2> QED BY <2>1, <2>2, <2>3, <2>4, <2>5
<1> QED BY <1>1, <1>2, CellFrame

\* A cell has one runner, which alone settles it, and for good.
LEMMA CellStep == TypeOK /\ CellInv /\ [Next]_vars => CellInv'
<1> SUFFICES ASSUME TypeOK, CellInv, [Next]_vars PROVE CellInv'
  OBVIOUS
<1> USE CallsAssumption DEF TypeOK, Go, cellVars, callVars, Running
<1>1. ASSUME NEW c \in Calls, TakeOp(c) PROVE CellInv'
  <2>1. pc[c] = "enter" /\ once[Op[c]] = "pending" /\ runner[Op[c]] = None
    BY <1>1 DEF TakeOp, LockAndSee, CellInv, RunnerInv
  <2>2. \A d \in Calls : d # c /\ pc[d] \in Running => Op[d] # Op[c]
    BY <2>1 DEF CellInv, RunnerInv
  <2>3. RunnerInv'
    BY <1>1, <2>1, <2>2 DEF TakeOp, CellInv, RunnerInv
  <2>4. OutcomeInv'
    BY <1>1, <2>1 DEF TakeOp, CellInv, OutcomeInv
  <2> QED BY <2>3, <2>4 DEF CellInv
<1>2. ASSUME NEW c \in Calls, Settle(c) PROVE CellInv'
  <2>1. pc[c] \in Running /\ runner[Op[c]] = c /\ once[Op[c]] = "running"
    BY <1>2 DEF Settle, CellInv, RunnerInv
  <2>2. \A d \in Calls : d # c /\ pc[d] \in Running => Op[d] # Op[c]
    BY <2>1 DEF CellInv, RunnerInv
  <2>3. RunnerInv'
    BY <1>2, <2>1, <2>2 DEF Settle, CellInv, RunnerInv
  <2>4. OutcomeInv'
    BY <1>2, <2>1 DEF Settle, CellInv, OutcomeInv
  <2> QED BY <2>3, <2>4 DEF CellInv
<1>3. ASSUME NEW s \in Streams, DeviceStep(s) PROVE CellInv'
  BY <1>3, CellFrame DEF DeviceStep
<1>4. CASE UNCHANGED vars
  BY <1>4, CellFrame DEF vars
<1> QED BY <1>1, <1>2, <1>3, <1>4, CellCalls, CellRuns
        DEF Next, Execute, SettleStep

-----------------------------------------------------------------------------
(* The streams.                                                            *)

Kinds == {"work", "event", "wait", "use"}

\* Submitting one item adds one position to one log.
LEMMA SubmitOne ==
  ASSUME TypeOK, NEW s \in Streams, NEW kind \in Kinds, NEW o \in Ops,
         NEW c \in Calls, Submit(s, << <<kind, o, c>> >>)
  PROVE  \A t \in Streams, i \in Nat, k \in Kinds, p \in Ops, d \in Calls \cup {None} :
           Submitted(t, i, k, p, d)' <=>
             \/ Submitted(t, i, k, p, d)
             \/ t = s /\ i = Len(log[s]) + 1 /\ k = kind /\ p = o /\ d = c
<1> DEFINE item == <<kind, o, c>>
<1>1. item \in Items
  BY DEF Items, Kinds
<1>2. \A k, p, d : <<k, p, d>> = item <=> k = kind /\ p = o /\ d = c
  OBVIOUS
<1> HIDE DEF item
<1>3. /\ Len(log'[s]) = Len(log[s]) + 1
      /\ \A t \in Streams : t # s => log'[t] = log[t]
      /\ \A i \in 1 .. Len(log[s]) : log'[s][i] = log[s][i]
      /\ log'[s][Len(log[s]) + 1] = item
  <2>1. log \in [Streams -> Seq(Items)] /\ Submit(s, <<item>>)
    BY DEF TypeOK, item
  <2> QED BY <1>1, <2>1, AppendsOne
<1>4. Len(log[s]) \in Nat
  BY DEF TypeOK
<1> SUFFICES ASSUME NEW t \in Streams, NEW i \in Nat, NEW k \in Kinds, NEW p \in Ops,
                    NEW d \in Calls \cup {None}
             PROVE  Submitted(t, i, k, p, d)' <=>
                      \/ Submitted(t, i, k, p, d)
                      \/ t = s /\ i = Len(log[s]) + 1 /\ <<k, p, d>> = item
  BY <1>2
<1>5. CASE t # s
  BY <1>3, <1>5 DEF Submitted
<1>6. CASE t = s
  <2>1. i \in 1 .. Len(log[s]) + 1 <=> i \in 1 .. Len(log[s]) \/ i = Len(log[s]) + 1
    BY <1>4
  <2>2. Len(log[s]) + 1 \notin 1 .. Len(log[s])
    BY <1>4
  <2> QED BY <1>3, <1>6, <2>1, <2>2 DEF Submitted
<1> QED BY <1>5, <1>6

\* TakeValue adds a use, and before it a wait or nothing.
LEMMA SubmitUse ==
  ASSUME TypeOK, NEW c \in Calls, TakeValue(c)
  PROVE  LET n == Len(log[str[c]])
         IN \/ /\ producer[Op[c]] \in {None, str[c]}
               /\ \A t \in Streams, i \in Nat, k \in Kinds, p \in Ops,
                    d \in Calls \cup {None} :
                    Submitted(t, i, k, p, d)' <=>
                      \/ Submitted(t, i, k, p, d)
                      \/ /\ t = str[c] /\ p = Op[c] /\ d = c
                         /\ k = "use" /\ i = n + 1
            \/ /\ producer[Op[c]] \notin {None, str[c]}
               /\ \A t \in Streams, i \in Nat, k \in Kinds, p \in Ops,
                    d \in Calls \cup {None} :
                    Submitted(t, i, k, p, d)' <=>
                      \/ Submitted(t, i, k, p, d)
                      \/ /\ t = str[c] /\ p = Op[c] /\ d = c
                         /\ (k = "wait" /\ i = n + 1) \/ (k = "use" /\ i = n + 2)
<1> DEFINE s == str[c]
           n == Len(log[s])
           m == Len(log'[s])
           use == <<"use", Op[c], c>>
           wait == <<"wait", Op[c], c>>
<1>1. /\ \A t \in Streams : t # s => log'[t] = log[t]
      /\ \A i \in 1 .. n : log'[s][i] = log[s][i]
      /\ log'[s][m] = use
      /\ \/ m = n + 1 /\ producer[Op[c]] \in {None, s}
         \/ m = n + 2 /\ log'[s][n + 1] = wait /\ producer[Op[c]] \notin {None, s}
  BY AppendsUse
<1>2. \A k, p, d : /\ <<k, p, d>> = use <=> k = "use" /\ p = Op[c] /\ d = c
                   /\ <<k, p, d>> = wait <=> k = "wait" /\ p = Op[c] /\ d = c
  OBVIOUS
<1>3. n \in Nat /\ s \in Streams
  BY DEF TypeOK
<1> HIDE DEF use, wait, n, m, s
<1>4. ASSUME m = n + 1, producer[Op[c]] \in {None, s},
             NEW t \in Streams, NEW i \in Nat, NEW k \in Kinds, NEW p \in Ops,
             NEW d \in Calls \cup {None}
      PROVE  Submitted(t, i, k, p, d)' <=>
               \/ Submitted(t, i, k, p, d)
               \/ t = s /\ i = n + 1 /\ <<k, p, d>> = use
  <2>1. CASE t # s
    <3>1. log'[t] = log[t]
      BY <1>1, <2>1
    <3> QED BY <2>1, <3>1 DEF Submitted
  <2>2. CASE t = s
    <3>1. i \in 1 .. m <=> i \in 1 .. n \/ i = n + 1
      BY <1>3, <1>4
    <3>2. n + 1 \notin 1 .. n
      BY <1>3
    <3>3. log'[s][n + 1] = use
      BY <1>1, <1>4
    <3>4. \A j \in 1 .. n : log'[s][j] = log[s][j]
      BY <1>1
    <3> QED BY <2>2, <3>1, <3>2, <3>3, <3>4 DEF Submitted, m, n
  <2> QED BY <2>1, <2>2
<1>5. ASSUME m = n + 2, log'[s][n + 1] = wait,
             NEW t \in Streams, NEW i \in Nat, NEW k \in Kinds, NEW p \in Ops,
             NEW d \in Calls \cup {None}
      PROVE  Submitted(t, i, k, p, d)' <=>
               \/ Submitted(t, i, k, p, d)
               \/ t = s /\ i = n + 1 /\ <<k, p, d>> = wait
               \/ t = s /\ i = n + 2 /\ <<k, p, d>> = use
  <2>1. CASE t # s
    BY <1>1, <2>1 DEF Submitted
  <2>2. CASE t = s
    <3>1. i \in 1 .. m <=> i \in 1 .. n \/ i = n + 1 \/ i = n + 2
      BY <1>3, <1>5
    <3>2. n + 1 \notin 1 .. n /\ n + 2 \notin 1 .. n /\ n + 2 # n + 1
      BY <1>3
    <3> QED BY <1>1, <1>5, <2>2, <3>1, <3>2 DEF Submitted, m, n
  <2> QED BY <2>1, <2>2
<1>6. CASE m = n + 1 /\ producer[Op[c]] \in {None, s}
  <2>1. \A t \in Streams, i \in Nat, k \in Kinds, p \in Ops, d \in Calls \cup {None} :
          Submitted(t, i, k, p, d)' <=>
            \/ Submitted(t, i, k, p, d)
            \/ t = s /\ p = Op[c] /\ d = c /\ k = "use" /\ i = n + 1
    BY <1>2, <1>4, <1>6
  <2> QED BY <1>6, <2>1 DEF s, n
<1>7. CASE m = n + 2 /\ log'[s][n + 1] = wait /\ producer[Op[c]] \notin {None, s}
  <2>1. \A t \in Streams, i \in Nat, k \in Kinds, p \in Ops, d \in Calls \cup {None} :
          Submitted(t, i, k, p, d)' <=>
            \/ Submitted(t, i, k, p, d)
            \/ /\ t = s /\ p = Op[c] /\ d = c
               /\ (k = "wait" /\ i = n + 1) \/ (k = "use" /\ i = n + 2)
    BY <1>2, <1>5, <1>7
  <2> QED BY <1>7, <2>1 DEF s, n
<1> QED BY <1>1, <1>6, <1>7

\* EventFired says the same by index.
LEMMA FiredEvent ==
  ASSUME TypeOK, NEW o \in Ops
  PROVE  EventFired(o) <=> Fired(o)
<1>1. \A s \in Streams : Len(log[s]) \in Nat /\ done[s] \in Nat /\ done[s] <= Len(log[s])
  BY DEF TypeOK
<1>2. \A s \in Streams, i \in Nat :
        i \in 1 .. done[s] <=> i \in 1 .. Len(log[s]) /\ i <= done[s]
  BY <1>1
<1> DEFINE item == <<"event", o, runner[o]>>
<1> HIDE DEF item
<1>3. Executed(item) <=> \E s \in Streams, i \in Nat : i \in 1 .. done[s] /\ log[s][i] = item
  BY <1>1 DEF Executed
<1> QED BY <1>2, <1>3 DEF EventFired, Fired, Submitted, item

\* Steps that submit nothing keep the order of the streams, if they settle
\* cells only forward and keep the streams of the calls in progress.
LEMMA OrderFrame ==
  ASSUME TypeOK, CellInv, OrderInv, UNCHANGED <<log, done>>,
         \A o \in Ops : /\ once[o] # "pending" => runner'[o] = runner[o]
                        /\ once[o] = "done" => once'[o] = "done",
         \A d \in Calls : /\ pc[d] # "start" => str'[d] = str[d]
                          /\ pc'[d] \in {"run", "record"} =>
                               pc[d] \in {"run", "record"} \/ runner[Op[d]] = None
  PROVE  OrderInv'
<1> USE CallsAssumption DEF TypeOK
<1>1. \A s \in Streams, i \in Nat, k \in Kinds, o \in Ops, c \in Calls \cup {None} :
        Submitted(s, i, k, o, c)' <=> Submitted(s, i, k, o, c)
  BY DEF Submitted
<1>2. \A o \in Ops : runner[o] # None =>
        /\ runner'[o] = runner[o] /\ str'[runner[o]] = str[runner[o]]
        /\ Op[runner[o]] = o
  BY DEF CellInv, RunnerInv
<1>0. \A c \in Calls : c # None
  OBVIOUS
<1>3. WorkInv'
  <2> SUFFICES ASSUME NEW s \in Streams, NEW i \in Nat, NEW o \in Ops, NEW c \in Calls,
                      Submitted(s, i, "work", o, c)'
               PROVE  c = runner'[o] /\ s = str'[c]
    BY DEF WorkInv
  <2>1. Submitted(s, i, "work", o, c)
    BY <1>1 DEF Kinds
  <2>2. c = runner[o] /\ s = str[c]
    BY <2>1 DEF OrderInv, WorkInv
  <2> QED BY <1>0, <1>2, <2>2
<1>4. EventInv'
  <2> SUFFICES ASSUME NEW s \in Streams, NEW i \in Nat, NEW o \in Ops, NEW c \in Calls,
                      Submitted(s, i, "event", o, c)'
               PROVE  /\ c = runner'[o] /\ s = str'[c] /\ pc'[c] \notin {"run", "record"}
                      /\ \A j \in Nat : Submitted(s, j, "work", o, c)' => j < i
    BY DEF EventInv
  <2>1. /\ c = runner[o] /\ s = str[c] /\ pc[c] \notin {"run", "record"}
        /\ \A j \in Nat : Submitted(s, j, "work", o, c) => j < i
    BY <1>1 DEF OrderInv, EventInv, Kinds
  <2>2. c = runner'[o] /\ s = str'[c] /\ Op[c] = o
    BY <1>2, <2>1
  <2>3. pc'[c] \notin {"run", "record"}
    BY <1>0, <2>1, <2>2
  <2>4. \A j \in Nat : Submitted(s, j, "work", o, c)' => j < i
    BY <1>1, <2>1 DEF Kinds
  <2> QED BY <2>2, <2>3, <2>4
<1>5. WaitInv'
  <2> SUFFICES ASSUME NEW s \in Streams, NEW i \in Nat, NEW o \in Ops, NEW c \in Calls,
                      Submitted(s, i, "wait", o, c)'
               PROVE  once'[o] = "done" /\ (i <= done'[s] => Fired(o)')
    BY DEF WaitInv
  <2>1. once[o] = "done" /\ (i <= done[s] => Fired(o))
    BY <1>1 DEF OrderInv, WaitInv, Kinds
  <2>2. runner'[o] = runner[o] /\ once'[o] = "done"
    BY <2>1
  <2>3. Fired(o) => Fired(o)'
    BY <1>1, <2>2 DEF Fired, Kinds
  <2> QED BY <2>1, <2>2, <2>3
<1>6. UseInv'
  <2> SUFFICES ASSUME NEW s \in Streams, NEW i \in Nat, NEW o \in Ops, NEW c \in Calls,
                      Submitted(s, i, "use", o, c)'
               PROVE  /\ once'[o] = "done"
                      /\ \A t \in Streams, j \in Nat, d \in Calls :
                           Submitted(t, j, "work", o, d)' =>
                             \/ t = s /\ j < i
                             \/ \E k \in Nat : k < i /\ Submitted(s, k, "wait", o, c)'
    BY DEF UseInv
  <2>1. /\ once[o] = "done"
        /\ \A t \in Streams, j \in Nat, d \in Calls :
             Submitted(t, j, "work", o, d) =>
               \/ t = s /\ j < i
               \/ \E k \in Nat : k < i /\ Submitted(s, k, "wait", o, c)
    BY <1>1 DEF OrderInv, UseInv, Kinds
  <2> QED BY <1>1, <2>1 DEF Kinds
<1> QED BY <1>3, <1>4, <1>5, <1>6 DEF OrderInv

\* The same of the values' events.
LEMMA ProducerFrame ==
  ASSUME TypeOK, CellInv, ProducerInv, UNCHANGED <<runner, producer>>,
         \A s \in Streams, c \in Calls, i \in Nat :
           Submitted(s, i, "event", Op[c], c) => Submitted(s, i, "event", Op[c], c)',
         \A o \in Ops : once'[o] = "done" =>
                          \/ once[o] = "done"
                          \/ runner[o] # None /\ pc[runner[o]] = "settleDone",
         \A d \in Calls : /\ pc[d] # "start" => str'[d] = str[d]
                          /\ pc'[d] = "settleDone" => pc[d] = "settleDone"
  PROVE  ProducerInv'
<1> SUFFICES ASSUME NEW c \in Calls, runner[Op[c]] = c,
                    pc'[c] = "settleDone" \/ once'[Op[c]] = "done"
             PROVE  /\ producer[Op[c]] = str'[c]
                    /\ \E i \in Nat : Submitted(str[c], i, "event", Op[c], c)'
  BY DEF ProducerInv
<1>1. c # None /\ Op[c] \in Ops
  BY CallsAssumption
<1>2. str'[c] = str[c]
  BY <1>1 DEF CellInv, RunnerInv
<1>3. pc[c] = "settleDone" \/ once[Op[c]] = "done"
  BY <1>1
<1>4. PICK i \in Nat : Submitted(str[c], i, "event", Op[c], c)
  BY <1>3 DEF ProducerInv
<1>5. Submitted(str[c], i, "event", Op[c], c)'
  <2>1. str[c] \in Streams /\ str'[c] = str[c]
    BY <1>2 DEF TypeOK
  <2> QED BY <1>4, <2>1
<1> QED BY <1>2, <1>3, <1>5 DEF ProducerInv

\* The uses of the values handed out, under the moves of the calls.
LEMMA ValueFrame ==
  ASSUME TypeOK, TypeOK', ValueInv,
         \A s \in Streams, c \in Calls, i \in Nat :
           Submitted(s, i, "use", Op[c], c) => Submitted(s, i, "use", Op[c], c)',
         \A s \in Streams : done[s] <= done'[s],
         \A c \in Calls : out'[c] = "value" =>
           /\ out[c] = "value" /\ str'[c] = str[c]
           /\ \/ pc'[c] = pc[c] /\ mark'[c] = mark[c]
              \/ pc[c] = "leave" /\ pc'[c] = "returned" /\ Route[c] = "chain"
              \/ pc'[c] = "sync" /\ mark'[c] = Len(log[str[c]])
              \/ pc[c] = "sync" /\ pc'[c] = "returned" /\ done[str[c]] >= mark[c]
  PROVE  ValueInv'
<1> SUFFICES ASSUME NEW c \in Calls, out'[c] = "value"
             PROVE  /\ pc'[c] \in {"leave", "sync", "returned"}
                    /\ \E i \in Nat :
                         /\ Submitted(str[c], i, "use", Op[c], c)'
                         /\ pc'[c] = "sync" => i <= mark'[c]
                         /\ pc'[c] = "returned" /\ Route[c] # "chain" => i <= done'[str'[c]]
  BY DEF ValueInv
<1> DEFINE s == str[c]
<1>1. out[c] = "value" /\ str'[c] = s /\ s \in Streams
  BY DEF TypeOK
<1>2. PICK i \in Nat :
        /\ pc[c] \in {"leave", "sync", "returned"}
        /\ Submitted(s, i, "use", Op[c], c)
        /\ pc[c] = "sync" => i <= mark[c]
        /\ pc[c] = "returned" /\ Route[c] # "chain" => i <= done[s]
  BY <1>1 DEF ValueInv
<1>3. i <= Len(log[s])
  BY <1>1, <1>2 DEF Submitted, TypeOK
<1>4. mark[c] \in Nat /\ done[s] \in Nat /\ done'[s] \in Nat /\ done[s] <= done'[s]
  BY <1>1 DEF TypeOK
<1> HIDE DEF s
<1>5. Submitted(s, i, "use", Op[c], c)'
  BY <1>1, <1>2 DEF s
<1>6. Submitted(str[c], i, "use", Op[c], c)'
  BY <1>1, <1>5 DEF s
<1>7. /\ pc'[c] \in {"leave", "sync", "returned"}
      /\ pc'[c] = "sync" => i <= mark'[c]
      /\ pc'[c] = "returned" /\ Route[c] # "chain" => i <= done'[s]
  <2>1. CASE pc'[c] = pc[c] /\ mark'[c] = mark[c]
    BY <1>2, <1>4, <2>1
  <2>2. CASE pc[c] = "leave" /\ pc'[c] = "returned" /\ Route[c] = "chain"
    BY <2>2
  <2>3. CASE pc'[c] = "sync" /\ mark'[c] = Len(log[s])
    BY <1>3, <2>3
  <2>4. CASE pc[c] = "sync" /\ pc'[c] = "returned" /\ done[s] >= mark[c]
    BY <1>2, <1>4, <2>4
  <2> QED BY <1>1, <2>1, <2>2, <2>3, <2>4 DEF s
<1> QED BY <1>1, <1>6, <1>7

\* The moves of the calls that submit nothing, and settling.
LEMMA LogCalls ==
  ASSUME TypeOK, TypeOK', CellInv, LogInv, NEW c \in Calls,
         \/ Enter(c) \/ SpuriousWake(c) \/ Outcome(c) \/ Leave(c) \/ Synchronized(c)
         \/ Reentered(c) \/ Wait(c) \/ SeeFailed(c) \/ JoinFails(c)
         \/ RecordFails(c) \/ Settle(c) \/ Notify(c) \/ NotifyUnwinding(c)
  PROVE  LogInv'
<1> USE CallsAssumption DEF cellVars
<1>0. /\ once \in [Ops -> {"pending", "running", "done", "failed"}]
      /\ pc \in [Calls -> PcStates] /\ out \in [Calls -> Outcomes]
      /\ str \in [Calls -> Streams] /\ mark \in [Calls -> Nat]
  BY DEF TypeOK
<1>1. UNCHANGED <<log, done, runner, producer>>
  BY DEF Enter, CallTop, CallChain, CallThen, CallUnchecked, SpuriousWake, Leave,
         Synchronized, Reentered, Wait, SeeFailed, JoinFails, RecordFails, Settle,
         Notify, NotifyUnwinding, Outcome, RunOk, RunErr, RunPanics, ClosureEnds
<1>2. \A s \in Streams, i \in Nat : \A k, o, d :
        Submitted(s, i, k, o, d) => Submitted(s, i, k, o, d)'
  BY <1>1 DEF Submitted
<1>3. \A o \in Ops : \/ once'[o] = once[o]
                     \/ /\ once'[o] = "done" /\ once[o] = "running"
                        /\ runner[o] # None /\ pc[runner[o]] = "settleDone"
                     \/ once'[o] = "failed" /\ once[o] = "running"
  <2>1. CASE Settle(c)
    <3>1. runner[Op[c]] = c /\ once[Op[c]] = "running"
      BY <2>1 DEF Settle, CellInv, RunnerInv, Running
    <3> QED BY <1>0, <2>1, <3>1 DEF Settle
  <2>2. CASE ~Settle(c)
    <3>1. once' = once
      BY <2>2 DEF Enter, CallTop, CallChain, CallThen, CallUnchecked, SpuriousWake,
                  Leave, Synchronized, Reentered, Wait, SeeFailed, JoinFails,
                  RecordFails, Notify, NotifyUnwinding, Outcome, RunOk, RunErr,
                  RunPanics, ClosureEnds
    <3> QED BY <3>1
  <2> QED BY <2>1, <2>2
<1>4. \A d \in Calls : pc[d] # "start" => str'[d] = str[d]
  <2>1. CASE Enter(c)
    BY <1>0, <2>1 DEF Enter, CallTop, CallChain, CallThen, CallUnchecked, InClosure
  <2>2. CASE ~Enter(c)
    BY <2>2 DEF SpuriousWake, Leave, Synchronized, Reentered, Wait, SeeFailed,
                JoinFails, RecordFails, Settle, Notify, NotifyUnwinding, Outcome,
                RunOk, RunErr, RunPanics, ClosureEnds
  <2> QED BY <2>1, <2>2
<1>5. \A d \in Calls : /\ pc'[d] \in {"run", "record"} => pc[d] \in {"run", "record"}
                       /\ pc'[d] = "settleDone" => pc[d] = "settleDone"
  <2> USE <1>0 DEF Go
  <2>1. CASE Enter(c)
    <3>1. \E to \in {"enter", "returned"} : Go(c, to)
      BY <2>1 DEF Enter, CallTop, CallChain, CallThen, CallUnchecked, Acquire
    <3> QED BY <3>1
  <2>2. CASE Outcome(c)
    BY <2>2 DEF Outcome, RunOk, RunErr, RunPanics, ClosureEnds
  <2>3. CASE Leave(c) \/ Synchronized(c)
    <3>1. \E to \in {"sync", "returned"} : Go(c, to)
      BY <2>3 DEF Leave, Synchronized, Return
    <3> QED BY <3>1
  <2>4. CASE Notify(c)
    BY <2>4 DEF Notify
  <2>5. CASE NotifyUnwinding(c)
    BY <2>5 DEF NotifyUnwinding
  <2>6. CASE \/ SpuriousWake(c) \/ Reentered(c) \/ Wait(c) \/ SeeFailed(c)
             \/ JoinFails(c) \/ RecordFails(c) \/ Settle(c)
    <3>1. \E to \in {"enter", "leave", "wait", "settleFailed", "notify"} : Go(c, to)
      BY <2>6 DEF SpuriousWake, Reentered, Wait, SeeFailed, JoinFails, RecordFails,
                  Settle
    <3> QED BY <3>1
  <2> QED BY <2>1, <2>2, <2>3, <2>4, <2>5, <2>6
<1>6. ASSUME NEW d \in Calls, out'[d] = "value"
      PROVE  /\ out[d] = "value" /\ str'[d] = str[d]
             /\ \/ pc'[d] = pc[d] /\ mark'[d] = mark[d]
                \/ pc[d] = "leave" /\ pc'[d] = "returned" /\ Route[d] = "chain"
                \/ pc'[d] = "sync" /\ mark'[d] = Len(log[str[d]])
                \/ pc[d] = "sync" /\ pc'[d] = "returned" /\ done[str[d]] >= mark[d]
  <2> USE <1>0 DEF Go
  <2>1. out[d] = "value"
    <3>1. CASE Enter(c)
      BY <1>6, <3>1 DEF Enter, CallTop, CallChain, CallThen, CallUnchecked, Acquire
    <3>2. CASE Leave(c)
      <4>1. out' = out \/ out' = [out EXCEPT ![c] = out[c]]
        BY <3>2 DEF Leave, Return
      <4> QED BY <1>6, <4>1
    <3>3. CASE Synchronized(c)
      BY <1>6, <3>3 DEF Synchronized, Return
    <3>4. CASE \/ SpuriousWake(c) \/ Outcome(c) \/ Wait(c) \/ RecordFails(c)
               \/ Notify(c) \/ NotifyUnwinding(c)
      BY <1>6, <3>4 DEF SpuriousWake, Wait, RecordFails, Notify, NotifyUnwinding,
         Outcome, RunOk, RunErr, RunPanics, ClosureEnds
    <3>5. CASE Reentered(c) \/ SeeFailed(c) \/ JoinFails(c) \/ Settle(c)
      BY <1>6, <3>5 DEF Reentered, SeeFailed, JoinFails, Settle
    <3> QED BY <3>1, <3>2, <3>3, <3>4, <3>5
  <2>2. pc[d] \in {"leave", "sync", "returned"} /\ str'[d] = str[d]
    BY <1>4, <2>1 DEF LogInv, ValueInv
  <2>3. CASE Leave(c)
    <3>1. \/ Go(c, "returned") /\ Route[c] = "chain" /\ mark' = mark
          \/ Go(c, "sync") /\ mark' = [mark EXCEPT ![c] = Len(log[str[c]])]
      BY <2>3, Zenon DEF Leave, Return
    <3>2. pc[c] = "leave"
      BY <2>3 DEF Leave
    <3> QED BY <2>1, <2>2, <3>1, <3>2
  <2>4. CASE Synchronized(c)
    BY <2>1, <2>2, <2>4 DEF Synchronized, Return
  <2>5. CASE Enter(c)
    <3>1. d # c /\ mark' = mark
      BY <2>2, <2>5 DEF Enter, CallTop, CallChain, CallThen, CallUnchecked, InClosure
    <3>2. \E to \in {"enter", "returned"} : Go(c, to)
      BY <2>5 DEF Enter, CallTop, CallChain, CallThen, CallUnchecked, Acquire
    <3> QED BY <2>1, <2>2, <3>1, <3>2
  <2>6. CASE Notify(c) \/ NotifyUnwinding(c)
    <3>1. d # c /\ d \notin Waiters(Op[c]) /\ mark' = mark
      BY <2>2, <2>6 DEF Notify, NotifyUnwinding, Waiters
    <3>2. pc'[d] = pc[d]
      BY <2>6, <3>1 DEF Notify, NotifyUnwinding
    <3> QED BY <2>1, <2>2, <3>1, <3>2
  <2>7. CASE \/ SpuriousWake(c) \/ Outcome(c) \/ Reentered(c) \/ Wait(c) \/ SeeFailed(c)
             \/ JoinFails(c) \/ RecordFails(c) \/ Settle(c)
    <3>1. d # c /\ mark' = mark
      BY <2>2, <2>7 DEF SpuriousWake, Reentered, Wait, SeeFailed, JoinFails,
         RecordFails, Settle, Outcome, RunOk, RunErr, RunPanics, ClosureEnds, LockAndSee
    <3>2. pc'[d] = pc[d]
      BY <2>7, <3>1 DEF SpuriousWake, Reentered, Wait, SeeFailed, JoinFails,
         RecordFails, Settle, Outcome, RunOk, RunErr, RunPanics, ClosureEnds
    <3> QED BY <2>1, <2>2, <3>1, <3>2
  <2> QED BY <2>3, <2>4, <2>5, <2>6, <2>7
<1>7. OrderInv'
  BY <1>1, <1>3, <1>4, <1>5, OrderFrame DEF LogInv
<1>8. ProducerInv'
  <2>1. \A o \in Ops : once'[o] = "done" =>
          \/ once[o] = "done"
          \/ runner[o] # None /\ pc[runner[o]] = "settleDone"
    BY <1>3
  <2> QED BY <1>1, <1>2, <1>4, <1>5, <2>1, ProducerFrame DEF LogInv
<1>9. ValueInv'
  <2>1. \A s \in Streams : done[s] <= done'[s]
    BY <1>1 DEF TypeOK
  <2> QED BY <1>2, <1>6, <2>1, ValueFrame DEF LogInv
<1> QED BY <1>7, <1>8, <1>9 DEF LogInv

\* Taking the operation: the cell had no runner, hence no work and no event.
LEMMA LogTakeOp ==
  ASSUME TypeOK, TypeOK', CellInv, LogInv, NEW c \in Calls, TakeOp(c)
  PROVE  LogInv'
<1> USE CallsAssumption DEF LogInv
<1>0. /\ once \in [Ops -> {"pending", "running", "done", "failed"}]
      /\ runner \in [Ops -> Calls \cup {None}]
      /\ pc \in [Calls -> PcStates]
  BY DEF TypeOK
<1>1. /\ pc[c] = "enter" /\ once[Op[c]] = "pending" /\ runner[Op[c]] = None
      /\ once' = [once EXCEPT ![Op[c]] = "running"]
      /\ runner' = [runner EXCEPT ![Op[c]] = c] /\ pc' = [pc EXCEPT ![c] = "run"]
      /\ UNCHANGED <<producer, out, str, mark, log, done>>
  BY DEF TakeOp, LockAndSee, Go, CellInv, RunnerInv
<1>2. \A s \in Streams, i \in Nat : \A k, o, d :
        Submitted(s, i, k, o, d)' <=> Submitted(s, i, k, o, d)
  BY <1>1 DEF Submitted
<1>3. OrderInv'
  BY <1>0, <1>1, OrderFrame
<1>4. ProducerInv'
  <2> SUFFICES ASSUME NEW d \in Calls, runner'[Op[d]] = d,
                      pc'[d] = "settleDone" \/ once'[Op[d]] = "done"
               PROVE  /\ producer[Op[d]] = str[d]
                      /\ \E i \in Nat : Submitted(str[d], i, "event", Op[d], d)
    BY <1>1 DEF ProducerInv, Submitted
  <2>1. /\ runner[Op[d]] = d
        /\ pc[d] = "settleDone" \/ once[Op[d]] = "done"
    BY <1>0, <1>1
  <2> QED BY <2>1 DEF ProducerInv
<1>5. ValueInv'
  <2>1. \A s \in Streams : done[s] <= done'[s]
    BY <1>1 DEF TypeOK
  <2>2. ASSUME NEW d \in Calls, out'[d] = "value"
        PROVE  /\ out[d] = "value" /\ str'[d] = str[d]
               /\ pc'[d] = pc[d] /\ mark'[d] = mark[d]
    BY <1>0, <1>1, <2>2 DEF ValueInv
  <2> QED BY <1>2, <2>1, <2>2, ValueFrame
<1> QED BY <1>3, <1>4, <1>5

\* The runner submits its work: no event and no use of the value yet.
LEMMA LogRunWork ==
  ASSUME TypeOK, TypeOK', CellInv, LogInv, NEW c \in Calls, RunWork(c)
  PROVE  LogInv'
<1> USE CallsAssumption DEF LogInv, OrderInv
<1> DEFINE n == Len(log[str[c]])
           o == Op[c]
<1>1. /\ pc[c] = "run" /\ runner[o] = c /\ once[o] = "running"
      /\ o \in Ops /\ str[c] \in Streams /\ n \in Nat
  BY DEF RunWork, CellInv, RunnerInv, Running, TypeOK
<1>2. UNCHANGED <<once, runner, producer, pc, out, str, mark, done>>
  BY DEF RunWork, cellVars, callVars
<1>3. \A t \in Streams, i \in Nat, k \in Kinds, p \in Ops, d \in Calls \cup {None} :
        Submitted(t, i, k, p, d)' <=>
          \/ Submitted(t, i, k, p, d)
          \/ t = str[c] /\ i = n + 1 /\ k = "work" /\ p = o /\ d = c
  <2>1. Submit(str[c], << <<"work", o, c>> >>)
    BY DEF RunWork
  <2> QED BY <1>1, <2>1, SubmitOne DEF Kinds
<1> HIDE DEF n, o
<1>4. \A t \in Streams, i \in Nat, k \in {"event", "wait", "use"}, p \in Ops,
         d \in Calls \cup {None} : Submitted(t, i, k, p, d)' <=> Submitted(t, i, k, p, d)
  BY <1>3 DEF Kinds
<1>5. WorkInv'
  <2> SUFFICES ASSUME NEW s \in Streams, NEW i \in Nat, NEW p \in Ops, NEW d \in Calls,
                      Submitted(s, i, "work", p, d)'
               PROVE  d = runner[p] /\ s = str[d]
    BY <1>2 DEF WorkInv
  <2>1. \/ Submitted(s, i, "work", p, d)
        \/ s = str[c] /\ p = o /\ d = c
    BY <1>3 DEF Kinds
  <2> QED BY <1>1, <2>1 DEF WorkInv
<1>6. EventInv'
  <2> SUFFICES ASSUME NEW s \in Streams, NEW i \in Nat, NEW p \in Ops, NEW d \in Calls,
                      Submitted(s, i, "event", p, d)
               PROVE  /\ d = runner[p] /\ s = str[d] /\ pc[d] \notin {"run", "record"}
                      /\ \A j \in Nat : Submitted(s, j, "work", p, d)' => j < i
    BY <1>2, <1>4 DEF EventInv
  <2>1. /\ d = runner[p] /\ s = str[d] /\ pc[d] \notin {"run", "record"}
        /\ \A j \in Nat : Submitted(s, j, "work", p, d) => j < i
    BY DEF EventInv
  <2>2. \A j \in Nat : Submitted(s, j, "work", p, d)' => Submitted(s, j, "work", p, d)
    BY <1>1, <1>3, <2>1 DEF Kinds
  <2> QED BY <2>1, <2>2
<1>7. WaitInv'
  <2> SUFFICES ASSUME NEW s \in Streams, NEW i \in Nat, NEW p \in Ops, NEW d \in Calls,
                      Submitted(s, i, "wait", p, d)
               PROVE  once[p] = "done" /\ (i <= done[s] => Fired(p)')
    BY <1>2, <1>4 DEF WaitInv
  <2>1. once[p] = "done" /\ (i <= done[s] => Fired(p))
    BY DEF WaitInv
  <2>2. runner[p] \in Calls \cup {None}
    BY DEF TypeOK
  <2>3. Fired(p) => Fired(p)'
    BY <1>2, <1>4, <2>2 DEF Fired
  <2> QED BY <2>1, <2>3
<1>8. UseInv'
  <2> SUFFICES ASSUME NEW s \in Streams, NEW i \in Nat, NEW p \in Ops, NEW d \in Calls,
                      Submitted(s, i, "use", p, d)
               PROVE  /\ once[p] = "done"
                      /\ \A t \in Streams, j \in Nat, e \in Calls :
                           Submitted(t, j, "work", p, e)' =>
                             \/ t = s /\ j < i
                             \/ \E k \in Nat : k < i /\ Submitted(s, k, "wait", p, d)'
    BY <1>2, <1>4 DEF UseInv
  <2>1. once[p] = "done" /\ p # o
    BY <1>1 DEF UseInv
  <2>2. ASSUME NEW t \in Streams, NEW j \in Nat, NEW e \in Calls,
               Submitted(t, j, "work", p, e)'
        PROVE  \/ t = s /\ j < i
               \/ \E k \in Nat : k < i /\ Submitted(s, k, "wait", p, d)'
    <3>1. Submitted(t, j, "work", p, e)
      BY <1>3, <2>1, <2>2 DEF Kinds
    <3>2. \/ t = s /\ j < i
          \/ \E k \in Nat : k < i /\ Submitted(s, k, "wait", p, d)
      BY <3>1 DEF UseInv
    <3> QED BY <1>4, <3>2
  <2> QED BY <2>1, <2>2
<1>9. ProducerInv'
  BY <1>2, <1>4, ProducerFrame
<1>10. ValueInv'
  <2>1. \A s \in Streams : done[s] <= done'[s]
    BY <1>2 DEF TypeOK
  <2> QED BY <1>2, <1>4, <2>1, ValueFrame
<1> QED BY <1>5, <1>6, <1>7, <1>8, <1>9, <1>10

\* The runner records its event after all its work.
LEMMA LogRecord ==
  ASSUME TypeOK, TypeOK', CellInv, LogInv, NEW c \in Calls, Record(c)
  PROVE  LogInv'
<1> USE CallsAssumption DEF LogInv, OrderInv
<1> DEFINE n == Len(log[str[c]])
           o == Op[c]
<1>1. /\ pc[c] = "record" /\ runner[o] = c /\ once[o] = "running"
      /\ o \in Ops /\ str[c] \in Streams /\ n \in Nat
  BY DEF Record, CellInv, RunnerInv, Running, TypeOK
<1>2. /\ UNCHANGED <<once, runner, out, str, mark, done>>
      /\ pc' = [pc EXCEPT ![c] = "settleDone"]
      /\ producer' = [producer EXCEPT ![o] = str[c]]
      /\ pc \in [Calls -> PcStates] /\ producer \in [Ops -> Streams \cup {None}]
  BY DEF Record, Go, TypeOK
<1>3. \A t \in Streams, i \in Nat, k \in Kinds, p \in Ops, d \in Calls \cup {None} :
        Submitted(t, i, k, p, d)' <=>
          \/ Submitted(t, i, k, p, d)
          \/ t = str[c] /\ i = n + 1 /\ k = "event" /\ p = o /\ d = c
  <2>1. Submit(str[c], << <<"event", o, c>> >>)
    BY DEF Record
  <2> QED BY <1>1, <2>1, SubmitOne DEF Kinds
<1>4. \A k, p, d, i : Submitted(str[c], i, k, p, d) => i < n + 1
  BY <1>1 DEF Submitted
<1> HIDE DEF n, o
<1>5. \A t \in Streams, i \in Nat, k \in {"work", "wait", "use"}, p \in Ops,
         d \in Calls \cup {None} : Submitted(t, i, k, p, d)' <=> Submitted(t, i, k, p, d)
  <2>1. \A k \in {"work", "wait", "use"} : k \in Kinds /\ k # "event"
    BY DEF Kinds
  <2> QED BY <1>3, <2>1
<1>6. WorkInv'
  BY <1>2, <1>5 DEF WorkInv
<1>7. EventInv'
  <2> SUFFICES ASSUME NEW s \in Streams, NEW i \in Nat, NEW p \in Ops, NEW d \in Calls,
                      Submitted(s, i, "event", p, d)'
               PROVE  /\ d = runner[p] /\ s = str[d] /\ pc'[d] \notin {"run", "record"}
                      /\ \A j \in Nat : Submitted(s, j, "work", p, d) => j < i
    BY <1>2, <1>5 DEF EventInv
  <2>1. CASE Submitted(s, i, "event", p, d)
    <3>1. /\ d = runner[p] /\ s = str[d] /\ pc[d] \notin {"run", "record"}
          /\ \A j \in Nat : Submitted(s, j, "work", p, d) => j < i
      BY <2>1 DEF EventInv
    <3> QED BY <1>2, <3>1
  <2>2. CASE s = str[c] /\ i = n + 1 /\ p = o /\ d = c
    BY <1>1, <1>2, <1>4, <2>2
  <2> QED BY <1>3, <2>1, <2>2 DEF Kinds
<1>8. WaitInv'
  <2> SUFFICES ASSUME NEW s \in Streams, NEW i \in Nat, NEW p \in Ops, NEW d \in Calls,
                      Submitted(s, i, "wait", p, d)
               PROVE  once[p] = "done" /\ (i <= done[s] => Fired(p)')
    BY <1>2, <1>5 DEF WaitInv
  <2>1. once[p] = "done" /\ (i <= done[s] => Fired(p))
    BY DEF WaitInv
  <2>2. runner[p] \in Calls \cup {None}
    BY DEF TypeOK
  <2>3. Fired(p) => Fired(p)'
    BY <1>2, <1>3, <2>2 DEF Fired, Kinds
  <2> QED BY <2>1, <2>3
<1>9. UseInv'
  <2> SUFFICES ASSUME NEW s \in Streams, NEW i \in Nat, NEW p \in Ops, NEW d \in Calls,
                      Submitted(s, i, "use", p, d)
               PROVE  /\ once[p] = "done"
                      /\ \A t \in Streams, j \in Nat, e \in Calls :
                           Submitted(t, j, "work", p, e) =>
                             \/ t = s /\ j < i
                             \/ \E k \in Nat : k < i /\ Submitted(s, k, "wait", p, d)
    <3>1. \A t \in Streams, i \in Nat, p \in Ops, d \in Calls :
            /\ Submitted(t, i, "work", p, d)' <=> Submitted(t, i, "work", p, d)
            /\ Submitted(t, i, "wait", p, d)' <=> Submitted(t, i, "wait", p, d)
            /\ Submitted(t, i, "use", p, d)' <=> Submitted(t, i, "use", p, d)
      BY <1>5
    <3> QED BY <1>2, <3>1 DEF UseInv
  <2> QED BY DEF UseInv
<1>10. ProducerInv'
  <2> SUFFICES ASSUME NEW d \in Calls, runner[Op[d]] = d,
                      pc'[d] = "settleDone" \/ once[Op[d]] = "done"
               PROVE  /\ producer'[Op[d]] = str[d]
                      /\ \E i \in Nat : Submitted(str[d], i, "event", Op[d], d)'
    BY <1>2 DEF ProducerInv
  <2>1. CASE d = c
    <3>1. PICK i \in Nat : i = n + 1
      BY <1>1
    <3>2. Op[d] = o /\ str'[d] = str[c]
      BY <1>2, <2>1 DEF o
    <3>3. Submitted(str[d], i, "event", Op[d], d)'
      BY <1>1, <1>2, <1>3, <2>1, <3>1, <3>2 DEF Kinds
    <3> QED BY <1>1, <1>2, <2>1, <3>2, <3>3
  <2>2. CASE d # c
    <3>1. Op[d] # o /\ Op[d] \in Ops /\ str[d] \in Streams
      BY <1>1, <2>2 DEF TypeOK
    <3>2. pc[d] = "settleDone" \/ once[Op[d]] = "done"
      BY <1>2, <2>2
    <3>3. PICK i \in Nat : Submitted(str[d], i, "event", Op[d], d)
      BY <3>2 DEF ProducerInv
    <3>4. Submitted(str[d], i, "event", Op[d], d)'
      BY <1>2, <1>3, <3>1, <3>3 DEF Kinds
    <3> QED BY <1>2, <3>1, <3>2, <3>4 DEF ProducerInv
  <2> QED BY <2>1, <2>2
<1>11. ValueInv'
  <2>1. \A s \in Streams : done[s] <= done'[s]
    BY <1>2 DEF TypeOK
  <2>2. ASSUME NEW d \in Calls, out'[d] = "value"
        PROVE  /\ out[d] = "value" /\ str'[d] = str[d]
               /\ pc'[d] = pc[d] /\ mark'[d] = mark[d]
    BY <1>1, <1>2, <2>2 DEF ValueInv
  <2> QED BY <1>5, <2>1, <2>2, ValueFrame
<1> QED BY <1>6, <1>7, <1>8, <1>9, <1>10, <1>11

\* Taking the value: its use comes after the work, or after the wait.
LEMMA LogTakeValue ==
  ASSUME TypeOK, TypeOK', CellInv, LogInv, NEW c \in Calls, TakeValue(c)
  PROVE  LogInv'
<1> USE CallsAssumption DEF LogInv, OrderInv
<1> DEFINE n == Len(log[str[c]])
           o == Op[c]
<1>1. /\ pc[c] = "enter" /\ once[o] = "done"
      /\ o \in Ops /\ str[c] \in Streams /\ n \in Nat /\ done[str[c]] <= n
  <2>1. pc[c] = "enter" /\ once[o] = "done" /\ o \in Ops /\ str[c] \in Streams
    BY DEF TakeValue, LockAndSee, TypeOK
  <2>2. n \in Nat /\ done[str[c]] <= n
    BY <2>1 DEF TypeOK
  <2> QED BY <2>1, <2>2
<1>2. /\ UNCHANGED <<once, runner, producer, str, mark, done>>
      /\ pc' = [pc EXCEPT ![c] = "leave"] /\ out' = [out EXCEPT ![c] = "value"]
      /\ pc \in [Calls -> PcStates] /\ out \in [Calls -> Outcomes]
  BY DEF TakeValue, cellVars, Go, TypeOK
<1>3. PICK u \in Nat, waits \in BOOLEAN :
        /\ u > n
        /\ waits => u = n + 2
        /\ ~waits => producer[o] \in {None, str[c]}
        /\ \A t \in Streams, i \in Nat, k \in Kinds, p \in Ops, d \in Calls \cup {None} :
             Submitted(t, i, k, p, d)' <=>
               \/ Submitted(t, i, k, p, d)
               \/ /\ t = str[c] /\ p = o /\ d = c
                  /\ (k = "wait" /\ i = n + 1 /\ waits) \/ (k = "use" /\ i = u)
  <2> DEFINE Adds(u, waits) ==
        \A t \in Streams, i \in Nat, k \in Kinds, p \in Ops, d \in Calls \cup {None} :
          Submitted(t, i, k, p, d)' <=>
            \/ Submitted(t, i, k, p, d)
            \/ /\ t = str[c] /\ p = o /\ d = c
               /\ (k = "wait" /\ i = n + 1 /\ waits) \/ (k = "use" /\ i = u)
  <2>1. \/ producer[o] \in {None, str[c]} /\ Adds(n + 1, FALSE)
        \/ Adds(n + 2, TRUE)
    BY SubmitUse
  <2>2. n + 1 \in Nat /\ n + 1 > n /\ n + 2 \in Nat /\ n + 2 > n
    BY <1>1
  <2> HIDE DEF n, o, Adds
  <2>3. \E u \in Nat, waits \in BOOLEAN :
          /\ u > n /\ (waits => u = n + 2)
          /\ ~waits => producer[o] \in {None, str[c]}
          /\ Adds(u, waits)
    BY <2>1, <2>2
  <2> QED BY <2>3 DEF Adds
<1>4. \A t \in Streams, i \in Nat, p \in Ops, d \in Calls \cup {None} :
        /\ Submitted(t, i, "work", p, d)' <=> Submitted(t, i, "work", p, d)
        /\ Submitted(t, i, "event", p, d)' <=> Submitted(t, i, "event", p, d)
        /\ Submitted(t, i, "wait", p, d) => Submitted(t, i, "wait", p, d)'
        /\ Submitted(t, i, "use", p, d) => Submitted(t, i, "use", p, d)'
  <2>1. \A k \in {"work", "event", "wait", "use"} : k \in Kinds
    BY DEF Kinds
  <2> QED BY <1>3, <2>1
<1>5. \A k, p, d, i : Submitted(str[c], i, k, p, d) => i <= n
  BY <1>1 DEF Submitted
<1> HIDE DEF n, o
<1>6. WorkInv'
  BY <1>2, <1>4 DEF WorkInv
<1>7. EventInv'
  <2> SUFFICES ASSUME NEW s \in Streams, NEW i \in Nat, NEW p \in Ops, NEW d \in Calls,
                      Submitted(s, i, "event", p, d)
               PROVE  /\ d = runner[p] /\ s = str[d] /\ pc'[d] \notin {"run", "record"}
                      /\ \A j \in Nat : Submitted(s, j, "work", p, d) => j < i
    BY <1>2, <1>4 DEF EventInv
  <2>1. /\ d = runner[p] /\ s = str[d] /\ pc[d] \notin {"run", "record"}
        /\ \A j \in Nat : Submitted(s, j, "work", p, d) => j < i
    BY DEF EventInv
  <2> QED BY <1>2, <2>1
<1>8. WaitInv'
  <2> SUFFICES ASSUME NEW s \in Streams, NEW i \in Nat, NEW p \in Ops, NEW d \in Calls,
                      Submitted(s, i, "wait", p, d)'
               PROVE  once[p] = "done" /\ (i <= done[s] => Fired(p)')
    BY <1>2 DEF WaitInv
  <2>1. CASE Submitted(s, i, "wait", p, d)
    <3>1. once[p] = "done" /\ (i <= done[s] => Fired(p))
      BY <2>1 DEF WaitInv
    <3>2. runner[p] \in Calls \cup {None}
      BY DEF TypeOK
    <3>3. Fired(p) => Fired(p)'
      BY <1>2, <1>4, <3>2 DEF Fired
    <3> QED BY <3>1, <3>3
  <2>2. CASE s = str[c] /\ i = n + 1 /\ p = o
    <3>1. done[s] \in Nat /\ done[s] <= n
      BY <1>1, <2>2 DEF TypeOK
    <3> QED BY <1>1, <2>2, <3>1
  <2> QED BY <1>3, <2>1, <2>2 DEF Kinds
<1>9. UseInv'
  <2> SUFFICES ASSUME NEW s \in Streams, NEW i \in Nat, NEW p \in Ops, NEW d \in Calls,
                      Submitted(s, i, "use", p, d)',
                      NEW t \in Streams, NEW j \in Nat, NEW e \in Calls
               PROVE  /\ once[p] = "done"
                      /\ Submitted(t, j, "work", p, e) =>
                             \/ t = s /\ j < i
                             \/ \E k \in Nat : k < i /\ Submitted(s, k, "wait", p, d)'
    <3>1. \A t1 \in Streams, j1 \in Nat, p1 \in Ops, e1 \in Calls :
            Submitted(t1, j1, "work", p1, e1)' <=> Submitted(t1, j1, "work", p1, e1)
      BY <1>4
    <3> QED BY <1>2, <3>1 DEF UseInv
  <2>1. CASE Submitted(s, i, "use", p, d)
    <3>1. /\ once[p] = "done"
          /\ Submitted(t, j, "work", p, e) =>
               \/ t = s /\ j < i
               \/ \E k \in Nat : k < i /\ Submitted(s, k, "wait", p, d)
      BY <2>1 DEF UseInv
    <3> QED BY <1>4, <3>1
  <2>2. CASE s = str[c] /\ i = u /\ p = o /\ d = c
    <3> SUFFICES ASSUME Submitted(t, j, "work", o, e)
                 PROVE  \/ t = s /\ j < i
                        \/ \E k \in Nat : k < i /\ Submitted(s, k, "wait", p, d)'
      BY <1>1, <2>2
    <3>1. e = runner[o] /\ t = str[e]
      BY <1>1 DEF WorkInv
    <3>2. Op[e] = o
      BY <1>1, <3>1 DEF CellInv, RunnerInv
    <3>3. producer[o] = t
      BY <1>1, <3>1, <3>2 DEF ProducerInv
    <3>4. CASE waits
      <4>1. PICK k \in Nat : k = n + 1
        BY <1>1
      <4>2. k < i
        BY <1>1, <1>3, <2>2, <3>4, <4>1
      <4>3. Submitted(s, k, "wait", p, d)'
        BY <1>1, <1>3, <2>2, <3>4, <4>1 DEF Kinds
      <4> QED BY <4>2, <4>3
    <3>5. CASE ~waits
      <4>1. t = s
        BY <1>3, <2>2, <3>3, <3>5
      <4>2. j <= n
        BY <1>5, <2>2, <4>1
      <4> QED BY <1>1, <1>3, <2>2, <4>1, <4>2
    <3> QED BY <3>4, <3>5
  <2> QED BY <1>3, <2>1, <2>2 DEF Kinds
<1>10. ProducerInv'
  <2>1. \A s \in Streams, d \in Calls, i \in Nat :
          Submitted(s, i, "event", Op[d], d) => Submitted(s, i, "event", Op[d], d)'
    BY <1>4
  <2>2. \A d \in Calls : /\ pc[d] # "start" => str'[d] = str[d]
                         /\ pc'[d] = "settleDone" => pc[d] = "settleDone"
    BY <1>2
  <2> QED BY <1>2, <2>1, <2>2, ProducerFrame
<1>11. ValueInv'
  <2> SUFFICES ASSUME NEW d \in Calls, out'[d] = "value"
               PROVE  /\ pc'[d] \in {"leave", "sync", "returned"}
                      /\ \E i \in Nat :
                           /\ Submitted(str[d], i, "use", Op[d], d)'
                           /\ pc'[d] = "sync" => i <= mark[d]
                           /\ pc'[d] = "returned" /\ Route[d] # "chain" => i <= done[str[d]]
    BY <1>2 DEF ValueInv
  <2>1. CASE d = c
    <3>1. Submitted(str[d], u, "use", Op[d], d)'
      BY <1>1, <1>2, <1>3, <2>1 DEF Kinds, o
    <3> QED BY <1>2, <2>1, <3>1
  <2>2. CASE d # c
    <3>1. out[d] = "value" /\ pc'[d] = pc[d] /\ str'[d] = str[d] /\ str[d] \in Streams
      BY <1>2, <2>2 DEF TypeOK
    <3>2. PICK i \in Nat :
            /\ pc[d] \in {"leave", "sync", "returned"}
            /\ Submitted(str[d], i, "use", Op[d], d)
            /\ pc[d] = "sync" => i <= mark[d]
            /\ pc[d] = "returned" /\ Route[d] # "chain" => i <= done[str[d]]
      BY <3>1 DEF ValueInv
    <3>3. Submitted(str[d], i, "use", Op[d], d)'
      BY <1>4, <3>1, <3>2
    <3> QED BY <3>1, <3>2, <3>3
  <2> QED BY <2>1, <2>2
<1> QED BY <1>6, <1>7, <1>8, <1>9, <1>10, <1>11

\* The device passes a wait only when the event has fired.
LEMMA LogDevice ==
  ASSUME TypeOK, TypeOK', CellInv, LogInv, NEW s \in Streams, DeviceStep(s)
  PROVE  LogInv'
<1> USE CallsAssumption DEF LogInv, OrderInv
<1>1. /\ UNCHANGED <<once, runner, producer, pc, out, str, mark, log>>
      /\ done' = [done EXCEPT ![s] = done[s] + 1] /\ done \in [Streams -> Nat]
  BY DEF DeviceStep, cellVars, callVars, TypeOK
<1>2. \A t \in Streams, i \in Nat : \A k, o, d :
        Submitted(t, i, k, o, d)' <=> Submitted(t, i, k, o, d)
  BY <1>1 DEF Submitted
<1>3. \A t \in Streams : done[t] <= done'[t] /\ done'[t] \in Nat
  BY <1>1
<1>4. ASSUME NEW o \in Ops, Fired(o) PROVE Fired(o)'
  BY <1>1, <1>2, <1>3, <1>4 DEF Fired
<1>5. WorkInv' /\ EventInv' /\ UseInv'
  <2>1. WorkInv' /\ EventInv'
    BY <1>1 DEF WorkInv, EventInv, Submitted
  <2>2. UseInv'
    <3> SUFFICES ASSUME NEW t \in Streams, NEW i \in Nat, NEW o \in Ops, NEW c \in Calls,
                        Submitted(t, i, "use", o, c)
                 PROVE  /\ once[o] = "done"
                        /\ \A t1 \in Streams, j \in Nat, d \in Calls :
                             Submitted(t1, j, "work", o, d) =>
                               \/ t1 = t /\ j < i
                               \/ \E k \in Nat : k < i /\ Submitted(t, k, "wait", o, c)
      BY <1>1, <1>2 DEF UseInv
    <3> QED BY DEF UseInv
  <2> QED BY <2>1, <2>2
<1>6. WaitInv'
  <2> SUFFICES ASSUME NEW t \in Streams, NEW i \in Nat, NEW o \in Ops, NEW c \in Calls,
                      Submitted(t, i, "wait", o, c)
               PROVE  once[o] = "done" /\ (i <= done'[t] => Fired(o)')
    BY <1>1, <1>2 DEF WaitInv
  <2>1. once[o] = "done" /\ (i <= done[t] => Fired(o))
    BY DEF WaitInv
  <2>2. CASE i <= done[t] \/ ~(i <= done'[t])
    BY <1>4, <2>1, <2>2
  <2>3. CASE ~(i <= done[t]) /\ i <= done'[t]
    <3>1. t = s /\ i = done[s] + 1
      BY <1>1, <2>3
    <3>2. log[s][done[s] + 1] = <<"wait", o, c>>
      BY <3>1 DEF Submitted
    <3>3. EventFired(o)
      BY <3>2 DEF DeviceStep
    <3> QED BY <1>4, <2>1, <3>3, FiredEvent
  <2> QED BY <2>2, <2>3
<1>7. ProducerInv'
  BY <1>1, <1>2, ProducerFrame
<1>8. ValueInv'
  BY <1>1, <1>2, <1>3, ValueFrame
<1> QED BY <1>5, <1>6, <1>7, <1>8

\* Every step keeps the streams in order.
LEMMA LogStep == TypeOK /\ CellInv /\ LogInv /\ [Next]_vars => LogInv'
<1> SUFFICES ASSUME TypeOK, CellInv, LogInv, [Next]_vars PROVE LogInv'
  OBVIOUS
<1>1. TypeOK'
  BY TypeStep
<1>2. CASE UNCHANGED vars
  <2>1. UNCHANGED <<once, runner, producer, pc, out, str, mark, log, done>>
    BY <1>2 DEF vars, cellVars, callVars
  <2>2. \A s \in Streams, i \in Nat : \A k, o, d :
          Submitted(s, i, k, o, d) => Submitted(s, i, k, o, d)'
    BY <2>1 DEF Submitted
  <2>3. OrderInv'
    BY <2>1, OrderFrame DEF LogInv
  <2>4. ProducerInv'
    BY <2>1, <2>2, ProducerFrame DEF LogInv
  <2>5. \A s \in Streams : done[s] <= done'[s]
    BY <2>1 DEF TypeOK
  <2>6. ValueInv'
    BY <1>1, <2>1, <2>2, <2>5, ValueFrame DEF LogInv
  <2> QED BY <2>3, <2>4, <2>6 DEF LogInv
<1>3. CASE Next
  BY <1>1, <1>3, LogCalls, LogTakeOp, LogRunWork, LogRecord, LogTakeValue, LogDevice
     DEF Next, Execute, SettleStep
<1> QED BY <1>2, <1>3

-----------------------------------------------------------------------------
(* The frames of the threads.                                              *)

\* Steps that neither enter nor leave a frame.
LEMMA NestFrame ==
  ASSUME TypeOK, NestInv, executing' = executing,
         \A d \in Calls : /\ Active(d)' <=> Active(d)
                          /\ Active(d) \/ Route[d] = "top" => thr'[d] = thr[d]
                          /\ Active(d) => wasHeld'[d] = wasHeld[d],
         \A d \in Calls : Active(d) /\ Parent[d] # None =>
                            /\ runner'[Parent[d]] = runner[Parent[d]]
                            /\ pc'[runner[Parent[d]]] = "run"
  PROVE  NestInv'
<1> USE CallsAssumption DEF NestInv
<1>1. \A d \in Calls : \A c : Child(d, c)' <=> Child(d, c)
  BY DEF Child
<1>2. FrameInv'
  <2> SUFFICES ASSUME NEW d \in Calls, Active(d)
               PROVE  /\ Route[d] # "then"
                      /\ Route[d] = "unchecked" => wasHeld'[d]
                      /\ Parent[d] # None => /\ runner'[Parent[d]] # None
                                             /\ pc'[runner'[Parent[d]]] = "run"
                                             /\ thr'[d] = thr'[runner'[Parent[d]]]
    BY DEF FrameInv
  <2>1. /\ Route[d] # "then"
        /\ Route[d] = "unchecked" => wasHeld[d]
        /\ Parent[d] # None => /\ runner[Parent[d]] # None
                               /\ pc[runner[Parent[d]]] = "run"
                               /\ thr[d] = thr[runner[Parent[d]]]
    BY DEF FrameInv
  <2>2. ASSUME Parent[d] # None
        PROVE  /\ runner'[Parent[d]] # None
               /\ pc'[runner'[Parent[d]]] = "run"
               /\ thr'[d] = thr'[runner'[Parent[d]]]
    <3>1. runner[Parent[d]] \in Calls /\ Active(runner[Parent[d]])
      BY <2>1, <2>2 DEF TypeOK, Active
    <3> QED BY <2>1, <2>2, <3>1
  <2>3. wasHeld'[d] = wasHeld[d]
    OBVIOUS
  <2> QED BY <2>1, <2>2, <2>3
<1>3. TopThread'
  BY DEF TopThread
<1>4. Grounded'
  BY <1>1 DEF Grounded
<1>5. OneInnermost'
  BY <1>1 DEF OneInnermost, Innermost
<1>6. OuterInv'
  <2>1. \A c \in Calls, t \in Threads : Holder(c, t)' <=> Holder(c, t)
    BY DEF Holder
  <2>2. \A c \in Calls : Active(c)' => executing'[thr'[c]]
    BY DEF OuterInv
  <2>3. \A t \in Threads : executing'[t] <=> \E c \in Calls : Holder(c, t)'
    BY <2>1 DEF OuterInv
  <2> QED BY <2>2, <2>3 DEF OuterInv
<1> QED BY <1>2, <1>3, <1>4, <1>5, <1>6

\* A sync_on of plain code that is about to return is alone on its thread.
LEMMA Alone ==
  ASSUME TypeOK, NestInv, NEW c \in Calls, Active(c), pc[c] # "run", Route[c] = "top"
  PROVE  \A d \in Calls : Active(d) /\ d # c => thr[d] # thr[c]
<1> USE CallsAssumption DEF NestInv
<1> DEFINE S == {d \in Calls : Active(d) /\ d # c /\ thr[d] = thr[c]}
<1> SUFFICES ASSUME S # {} PROVE FALSE
  OBVIOUS
<1>1. PICK w \in S : \A d \in S : ~Child(d, w)
  BY DEF Grounded
<1>2. ASSUME NEW d \in Calls, Child(d, w) PROVE FALSE
  <2>1. d \in S
    BY <1>2 DEF Child, FrameInv
  <2> QED BY <1>1, <1>2, <2>1
<1>3. Innermost(w) /\ Innermost(c)
  BY <1>2 DEF Innermost, Child, FrameInv
<1> QED BY <1>3 DEF OneInnermost

\* Leaving a frame: the flag is as before it was entered.
LEMMA NestExit ==
  ASSUME TypeOK, NestInv, NEW c \in Calls, Active(c), pc[c] # "run", Unlock(c),
         UNCHANGED <<runner, thr, wasHeld>>,
         \A d \in Calls : /\ Active(d)' <=> Active(d) /\ d # c
                          /\ pc[d] = "run" => pc'[d] = "run"
  PROVE  NestInv'
<1> USE CallsAssumption DEF NestInv
<1>1. \A d \in Calls : \A e : Child(d, e)' <=> Child(d, e) /\ d # c
  BY DEF Child
<1>2. FrameInv'
  <2> SUFFICES ASSUME NEW d \in Calls, Active(d)
               PROVE  /\ Route[d] # "then"
                      /\ Route[d] = "unchecked" => wasHeld[d]
                      /\ Parent[d] # None => /\ runner[Parent[d]] # None
                                             /\ pc'[runner[Parent[d]]] = "run"
                                             /\ thr[d] = thr[runner[Parent[d]]]
    BY DEF FrameInv
  <2>1. runner[Parent[d]] \in Calls \/ runner[Parent[d]] = None \/ Parent[d] = None
    BY DEF TypeOK
  <2> QED BY <2>1 DEF FrameInv
<1>3. TopThread'
  BY DEF TopThread
<1>4. Grounded'
  BY <1>1 DEF Grounded
<1>5. Innermost(c)
  BY DEF Innermost, Child, FrameInv
<1>6. OneInnermost'
  <2> SUFFICES ASSUME NEW x \in Calls, NEW y \in Calls, Innermost(x)', Innermost(y)',
                      thr[x] = thr[y]
               PROVE  x = y
    BY DEF OneInnermost
  <2>1. Active(x) /\ x # c /\ Active(y) /\ y # c
    BY DEF Innermost
  <2>2. \A z \in {x, y} : Innermost(z) \/ Child(c, z)
    BY <1>1, <2>1 DEF Innermost
  <2>3. \A z \in {x, y} : Child(c, z) => thr[z] = thr[c]
    BY DEF Child, FrameInv
  <2>4. CASE Innermost(x) /\ Innermost(y)
    BY <2>4 DEF OneInnermost
  <2>5. CASE Child(c, x) /\ Child(c, y)
    BY <2>5 DEF Child
  <2>6. CASE Innermost(x) /\ Child(c, y)
    BY <1>5, <2>1, <2>3, <2>6 DEF OneInnermost
  <2>7. CASE Child(c, x) /\ Innermost(y)
    BY <1>5, <2>1, <2>3, <2>7 DEF OneInnermost
  <2> QED BY <2>2, <2>4, <2>5, <2>6, <2>7
<1>7. OuterInv'
  <2>1. \A d \in Calls, t \in Threads : Holder(d, t)' <=> Holder(d, t) /\ d # c
    BY DEF Holder
  <2>2. CASE Route[c] = "top"
    <3>1. \A d \in Calls : Active(d) /\ d # c => thr[d] # thr[c]
      BY <2>2, Alone
    <3>2. executing' = [executing EXCEPT ![thr[c]] = FALSE]
      BY <2>2 DEF Unlock
    <3>3. executing \in [Threads -> BOOLEAN] /\ thr \in [Calls -> Threads]
      BY DEF TypeOK
    <3>4. \A t \in Threads : executing'[t] <=> (executing[t] /\ t # thr[c])
      BY <3>2, <3>3
    <3>5. \A d \in Calls : Active(d)' => executing'[thr[d]]
      BY <3>1, <3>3, <3>4 DEF OuterInv
    <3>6. \A t \in Threads : executing'[t] <=> \E d \in Calls : Holder(d, t)'
      BY <2>1, <2>2, <3>1, <3>3, <3>4 DEF OuterInv, Holder
    <3> QED BY <3>5, <3>6 DEF OuterInv
  <2>3. CASE Route[c] # "top"
    <3>1. executing[thr[c]]
      BY DEF OuterInv
    <3>2. executing \in [Threads -> BOOLEAN] /\ thr \in [Calls -> Threads]
      BY DEF TypeOK
    <3>3. \A t \in Threads : executing'[t] <=> executing[t]
      <4>1. CASE Route[c] = "unchecked"
        <5>1. wasHeld[c]
          BY <4>1 DEF FrameInv
        <5>2. executing' = [executing EXCEPT ![thr[c]] = wasHeld[c]]
          BY <4>1 DEF Unlock
        <5> QED BY <3>1, <3>2, <5>1, <5>2
      <4>2. CASE Route[c] # "unchecked"
        BY <2>3, <4>2 DEF Unlock
      <4> QED BY <4>1, <4>2
    <3>4. \A d \in Calls : Active(d)' => executing'[thr[d]]
      BY <3>2, <3>3 DEF OuterInv
    <3>5. \A t \in Threads : executing'[t] <=> \E d \in Calls : Holder(d, t)'
      BY <2>1, <2>3, <3>3 DEF OuterInv, Holder
    <3> QED BY <3>4, <3>5 DEF OuterInv
  <2> QED BY <2>2, <2>3
<1> QED BY <1>2, <1>3, <1>4, <1>6, <1>7

\* Entering a frame from plain code: the thread had none.
LEMMA NestTop ==
  ASSUME TypeOK, NestInv, NEW c \in Calls, CallTop(c)
  PROVE  NestInv'
<1> USE CallsAssumption DEF NestInv
<1>0. /\ executing \in [Threads -> BOOLEAN] /\ thr \in [Calls -> Threads]
      /\ pc \in [Calls -> PcStates]
  BY DEF TypeOK
<1>1. /\ pc[c] = "start" /\ Route[c] = "top" /\ Parent[c] = None
      /\ Thread[c] \in Threads /\ thr[c] = Thread[c]
      /\ UNCHANGED <<runner, thr, wasHeld>>
      /\ \A d \in Calls : Active(d) => thr[d] # Thread[c]
  BY DEF CallTop, cellVars, TopThread
<1>2. ~executing[Thread[c]]
  BY <1>1 DEF OuterInv, Holder
<1>3. /\ pc' = [pc EXCEPT ![c] = "enter"]
      /\ executing' = [executing EXCEPT ![Thread[c]] = TRUE]
  BY <1>2, Zenon DEF CallTop, Acquire, Go
<1>4. \A d \in Calls : Active(d)' <=> Active(d) \/ d = c
  BY <1>0, <1>1, <1>3 DEF Active
<1>5. \A d \in Calls : \A e : Child(d, e)' <=> Child(d, e)
  BY <1>1, <1>4 DEF Child
<1>6. FrameInv'
  <2> SUFFICES ASSUME NEW d \in Calls, Active(d)'
               PROVE  /\ Route[d] # "then"
                      /\ Route[d] = "unchecked" => wasHeld[d]
                      /\ Parent[d] # None => /\ runner[Parent[d]] # None
                                             /\ pc'[runner[Parent[d]]] = "run"
                                             /\ thr[d] = thr[runner[Parent[d]]]
    BY <1>1 DEF FrameInv
  <2>1. runner[Parent[d]] \in Calls \/ runner[Parent[d]] = None \/ Parent[d] = None
    BY DEF TypeOK
  <2> QED BY <1>0, <1>1, <1>3, <1>4, <2>1 DEF FrameInv
<1>7. TopThread'
  BY <1>1 DEF TopThread
<1>8. Grounded'
  BY <1>5 DEF Grounded
<1>9. OneInnermost'
  BY <1>1, <1>4, <1>5 DEF OneInnermost, Innermost
<1>10. OuterInv'
  <2>1. \A t \in Threads : executing'[t] <=> executing[t] \/ t = Thread[c]
    BY <1>0, <1>1, <1>3
  <2>2. \A d \in Calls, t \in Threads :
          Holder(d, t)' <=> Holder(d, t) \/ (d = c /\ t = Thread[c])
    BY <1>1, <1>4 DEF Holder
  <2>3. \A d \in Calls : Active(d)' => executing'[thr[d]]
    BY <1>0, <1>1, <1>4, <2>1 DEF OuterInv
  <2>4. \A t \in Threads : executing'[t] <=> \E d \in Calls : Holder(d, t)'
    BY <2>1, <2>2 DEF OuterInv
  <2> QED BY <1>1, <2>3, <2>4 DEF OuterInv
<1> QED BY <1>6, <1>7, <1>8, <1>9, <1>10

\* Entering a frame from a closure, which was the innermost of its thread.
LEMMA NestEnter ==
  ASSUME TypeOK, CellInv, NestInv, NEW c \in Calls, NEW r \in Calls,
         InClosure(c, r), Go(c, "enter"), Route[c] # "then", UNCHANGED runner,
         \A t \in Threads : executing'[t] <=> executing[t],
         \A d \in Calls : d # c => wasHeld'[d] = wasHeld[d],
         Route[c] = "unchecked" => wasHeld'[c]
  PROVE  NestInv'
<1> USE CallsAssumption DEF NestInv
<1>0. pc \in [Calls -> PcStates] /\ thr \in [Calls -> Threads]
  BY DEF TypeOK
<1>1. /\ pc[c] = "start" /\ Parent[c] # None /\ r = runner[Parent[c]]
      /\ Parent[c] \in Ops /\ pc[r] = "run" /\ Route[c] # "top" /\ r # c
      /\ \A d \in Calls : Parent[d] = Parent[c] => ~Active(d)
      /\ thr' = [thr EXCEPT ![c] = thr[r]] /\ pc' = [pc EXCEPT ![c] = "enter"]
  BY DEF InClosure, Go, Nested
<1>2. \A d \in Calls : Active(d)' <=> Active(d) \/ d = c
  BY <1>0, <1>1 DEF Active
<1>3. ~Active(c)
  BY <1>1 DEF Active
<1>4. \A d \in Calls : \A e : Child(d, e)' <=> Child(d, e) \/ (d = c /\ e = r)
  BY <1>1, <1>2, <1>3 DEF Child
<1>5. \A d \in Calls : ~Child(d, c)
  BY <1>1 DEF Child, FrameInv
<1>6. Innermost(r)
  <2>1. Op[r] = Parent[c]
    BY <1>1 DEF CellInv, RunnerInv
  <2>2. ASSUME NEW d \in Calls, Child(d, r) PROVE FALSE
    <3>1. Parent[d] \in Ops /\ runner[Parent[d]] = r /\ Active(d)
      BY <2>2 DEF Child
    <3>2. Op[r] = Parent[d]
      BY <3>1 DEF CellInv, RunnerInv
    <3> QED BY <1>1, <2>1, <3>1, <3>2
  <2>3. Active(r)
    BY <1>1 DEF Active
  <2> QED BY <2>2, <2>3 DEF Innermost
<1>7. FrameInv'
  <2> SUFFICES ASSUME NEW d \in Calls, Active(d)'
               PROVE  /\ Route[d] # "then"
                      /\ Route[d] = "unchecked" => wasHeld'[d]
                      /\ Parent[d] # None => /\ runner[Parent[d]] # None
                                             /\ pc'[runner[Parent[d]]] = "run"
                                             /\ thr'[d] = thr'[runner[Parent[d]]]
    BY DEF FrameInv
  <2>1. CASE d = c
    BY <1>0, <1>1, <2>1
  <2>2. CASE d # c
    <3>1. Active(d) /\ wasHeld'[d] = wasHeld[d] /\ thr'[d] = thr[d]
      BY <1>0, <1>1, <1>2, <2>2
    <3>2. runner[Parent[d]] \in Calls \/ runner[Parent[d]] = None \/ Parent[d] = None
      BY DEF TypeOK
    <3> QED BY <1>0, <1>1, <3>1, <3>2 DEF FrameInv
  <2> QED BY <2>1, <2>2
<1>8. TopThread'
  BY <1>0, <1>1 DEF TopThread
<1>9. Grounded'
  <2> SUFFICES ASSUME NEW S \in SUBSET Calls, S # {}
               PROVE  \E x \in S : \A d \in S : ~Child(d, x)'
    BY DEF Grounded
  <2>1. CASE c \in S
    <3>1. \A d \in S : ~Child(d, c)'
      BY <1>1, <1>4, <1>5
    <3> QED BY <2>1, <3>1
  <2>2. CASE c \notin S
    <3>1. PICK x \in S : \A d \in S : ~Child(d, x)
      BY DEF Grounded
    <3>2. \A d \in S : ~Child(d, x)'
      BY <1>4, <2>2, <3>1
    <3> QED BY <3>2
  <2> QED BY <2>1, <2>2
<1>10. OneInnermost'
  <2> SUFFICES ASSUME NEW x \in Calls, NEW y \in Calls, Innermost(x)', Innermost(y)',
                      thr'[x] = thr'[y]
               PROVE  x = y
    BY DEF OneInnermost
  <2>1. x # r /\ y # r
    <3>1. Child(c, r)'
      BY <1>4
    <3> QED BY <3>1 DEF Innermost
  <2>2. \A z \in {x, y} : z # c => Innermost(z) /\ thr'[z] = thr[z]
    BY <1>0, <1>1, <1>2, <1>4 DEF Innermost
  <2>3. thr'[c] = thr[r]
    BY <1>0, <1>1
  <2> QED BY <1>6, <2>1, <2>2, <2>3 DEF OneInnermost
<1>11. OuterInv'
  <2>1. \A d \in Calls, t \in Threads : Holder(d, t)' <=> Holder(d, t)
    BY <1>0, <1>1, <1>2, <1>3 DEF Holder
  <2>2. \A d \in Calls : Active(d)' => executing'[thr'[d]]
    <3> SUFFICES ASSUME NEW d \in Calls, Active(d)' PROVE executing'[thr'[d]]
      OBVIOUS
    <3>1. CASE d = c
      <4>1. thr'[d] = thr[r] /\ thr[r] \in Threads /\ executing[thr[r]]
        BY <1>0, <1>1, <1>6, <3>1 DEF OuterInv, Innermost
      <4> QED BY <4>1
    <3>2. CASE d # c
      <4>1. thr'[d] = thr[d] /\ thr[d] \in Threads /\ executing[thr[d]]
        BY <1>0, <1>1, <1>2, <3>2 DEF OuterInv
      <4> QED BY <4>1
    <3> QED BY <3>1, <3>2
  <2>3. \A t \in Threads : executing'[t] <=> \E d \in Calls : Holder(d, t)'
    BY <2>1 DEF OuterInv
  <2> QED BY <2>2, <2>3 DEF OuterInv
<1> QED BY <1>7, <1>8, <1>9, <1>10, <1>11

\* Every way to make a call.
LEMMA NestCalls ==
  ASSUME TypeOK, CellInv, NestInv, NEW c \in Calls, Enter(c)
  PROVE  NestInv'
<1> USE CallsAssumption
<1>0. /\ executing \in [Threads -> BOOLEAN] /\ thr \in [Calls -> Threads]
      /\ pc \in [Calls -> PcStates] /\ wasHeld \in [Calls -> BOOLEAN]
  BY DEF TypeOK
<1>1. ASSUME NEW r \in Calls, InClosure(c, r)
      PROVE  executing[thr[r]] /\ thr[r] \in Threads
  BY <1>0, <1>1 DEF InClosure, NestInv, OuterInv, Active
<1>2. ASSUME NEW r \in Calls, CallChain(c, r) PROVE NestInv'
  BY <1>2, NestEnter DEF CallChain, cellVars
<1>3. ASSUME NEW r \in Calls, CallThen(c, r) PROVE NestInv'
  <2>1. executing[thr[r]] /\ thr[r] \in Threads
    BY <1>1, <1>3 DEF CallThen
  <2>2. Go(c, "returned") /\ executing' = executing
    BY <1>3, <2>1, Zenon DEF CallThen, Acquire
  <2>3. /\ pc[c] = "start" /\ Route[c] = "then" /\ UNCHANGED <<runner, wasHeld>>
        /\ thr' = [thr EXCEPT ![c] = thr[r]] /\ pc' = [pc EXCEPT ![c] = "returned"]
    BY <1>3, <2>2 DEF CallThen, InClosure, cellVars, Go
  <2>4. \A d \in Calls : /\ Active(d)' <=> Active(d)
                         /\ Active(d) \/ Route[d] = "top" => thr'[d] = thr[d]
                         /\ Active(d) => wasHeld'[d] = wasHeld[d]
    BY <1>0, <2>3 DEF Active
  <2>5. ASSUME NEW d \in Calls, Active(d), Parent[d] # None
        PROVE  /\ runner'[Parent[d]] = runner[Parent[d]]
               /\ pc'[runner[Parent[d]]] = "run"
    <3>1. /\ runner[Parent[d]] \in Calls \cup {None} /\ runner[Parent[d]] # None
          /\ pc[runner[Parent[d]]] = "run"
      BY <2>5 DEF NestInv, FrameInv, TypeOK
    <3> QED BY <1>0, <2>3, <3>1
  <2> QED BY <2>2, <2>4, <2>5, NestFrame
<1>4. ASSUME NEW r \in Calls, CallUnchecked(c, r) PROVE NestInv'
  <2>1. executing[thr[r]] /\ thr[r] \in Threads
    BY <1>1, <1>4 DEF CallUnchecked
  <2>2. Go(c, "enter") /\ executing' = [executing EXCEPT ![thr[r]] = TRUE]
    BY <1>4, Zenon DEF CallUnchecked, Acquire
  <2>3. /\ Route[c] = "unchecked" /\ InClosure(c, r) /\ UNCHANGED runner
        /\ wasHeld' = [wasHeld EXCEPT ![c] = executing[thr[r]]]
    BY <1>4 DEF CallUnchecked, cellVars
  <2>4. \A t \in Threads : executing'[t] <=> executing[t]
    BY <1>0, <2>1, <2>2
  <2>5. wasHeld'[c] /\ \A d \in Calls : d # c => wasHeld'[d] = wasHeld[d]
    BY <1>0, <2>1, <2>3
  <2> QED BY <2>2, <2>3, <2>4, <2>5, NestEnter
<1> QED BY <1>2, <1>3, <1>4, NestTop DEF Enter

\* Steps inside the frames: a closure ends only when its calls have returned,
\* and an operation is taken only when no closure of its cell runs.
LEMMA NestInside ==
  ASSUME TypeOK, CellInv, NestInv, UNCHANGED <<executing, thr, wasHeld>>,
         \A d \in Calls : /\ Active(d)' <=> Active(d)
                          /\ pc[d] = "run" => \/ pc'[d] = "run"
                                              \/ \A e \in Nested(Op[d]) : ~Active(e),
         \A o \in Ops : runner[o] # None => runner'[o] = runner[o]
  PROVE  NestInv'
<1>1. ASSUME NEW d \in Calls, Active(d), Parent[d] # None
      PROVE  /\ runner'[Parent[d]] = runner[Parent[d]]
             /\ pc'[runner[Parent[d]]] = "run"
  <2> DEFINE r == runner[Parent[d]]
  <2>1. Parent[d] \in Ops /\ r # None /\ r \in Calls /\ pc[r] = "run"
    BY <1>1, CallsAssumption DEF NestInv, FrameInv, TypeOK
  <2>2. d \in Nested(Op[r])
    BY <2>1 DEF CellInv, RunnerInv, Nested
  <2> QED BY <1>1, <2>1, <2>2
<1>2. \A d \in Calls : /\ Active(d)' <=> Active(d)
                       /\ Active(d) \/ Route[d] = "top" => thr'[d] = thr[d]
                       /\ Active(d) => wasHeld'[d] = wasHeld[d]
  OBVIOUS
<1> QED BY <1>1, <1>2, NestFrame

\* Every step keeps the frames and the execution lock.
LEMMA NestStep == TypeOK /\ CellInv /\ NestInv /\ [Next]_vars => NestInv'
<1> SUFFICES ASSUME TypeOK, CellInv, NestInv, [Next]_vars PROVE NestInv'
  OBVIOUS
<1> USE CallsAssumption DEF cellVars, callVars
<1>0. pc \in [Calls -> PcStates]
  BY DEF TypeOK
<1>1. ASSUME NEW c \in Calls, NEW to \in PcStates \ {"start", "returned"},
             pc[c] \notin {"start", "returned", "run"}, Go(c, to),
             UNCHANGED <<runner, executing, thr, wasHeld>>
      PROVE  NestInv'
  <2>1. \A d \in Calls : /\ Active(d)' <=> Active(d)
                         /\ pc[d] = "run" => pc'[d] = "run"
    BY <1>0, <1>1 DEF Go, Active
  <2> QED BY <1>1, <2>1, NestInside
<1>2. ASSUME NEW c \in Calls, TakeOp(c) PROVE NestInv'
  <2>1. /\ pc[c] = "enter" /\ Go(c, "run") /\ runner[Op[c]] = None
        /\ runner' = [runner EXCEPT ![Op[c]] = c] /\ UNCHANGED <<executing, thr, wasHeld>>
    BY <1>2 DEF TakeOp, LockAndSee, CellInv, RunnerInv
  <2>2. \A d \in Calls : /\ Active(d)' <=> Active(d)
                         /\ pc[d] = "run" => pc'[d] = "run"
    BY <1>0, <2>1 DEF Go, Active
  <2>3. \A o \in Ops : runner[o] # None => runner'[o] = runner[o]
    BY <2>1 DEF TypeOK
  <2> QED BY <2>1, <2>2, <2>3, NestInside
<1>3. ASSUME NEW c \in Calls,
             \/ Reentered(c) \/ Wait(c) \/ SpuriousWake(c) \/ SeeFailed(c)
             \/ TakeValue(c) \/ JoinFails(c) \/ Record(c) \/ RecordFails(c) \/ Settle(c)
      PROVE  NestInv'
  <2>1. /\ pc[c] \notin {"start", "returned", "run"}
        /\ UNCHANGED <<runner, executing, thr, wasHeld>>
    BY <1>3 DEF Reentered, Wait, SpuriousWake, SeeFailed, TakeValue, JoinFails,
                Record, RecordFails, Settle, LockAndSee
  <2>2. \E to \in {"leave", "wait", "enter", "settleDone", "settleFailed", "notify"} :
          Go(c, to)
    BY <1>3 DEF Reentered, Wait, SpuriousWake, SeeFailed, TakeValue, JoinFails,
                Record, RecordFails, Settle
  <2> QED BY <1>1, <2>1, <2>2 DEF PcStates
<1>4. ASSUME NEW c \in Calls, Outcome(c) PROVE NestInv'
  <2>1. PICK to \in {"record", "settleFailed", "unwind"} : ClosureEnds(c, to)
    BY <1>4 DEF Outcome, RunOk, RunErr, RunPanics
  <2>2. \A d \in Calls : /\ Active(d)' <=> Active(d)
                         /\ pc[d] = "run" => \/ pc'[d] = "run"
                                             \/ \A e \in Nested(Op[d]) : ~Active(e)
    BY <1>0, <2>1 DEF ClosureEnds, Go, Active
  <2> QED BY <2>1, <2>2, NestInside DEF ClosureEnds
<1>5. ASSUME NEW c \in Calls, Notify(c) PROVE NestInv'
  <2>1. \A d \in Calls : /\ Active(d)' <=> Active(d)
                         /\ pc[d] = "run" => pc'[d] = "run"
    BY <1>0, <1>5 DEF Notify, Waiters, Active
  <2> QED BY <1>5, <2>1, NestInside DEF Notify
<1>6. ASSUME NEW c \in Calls, RunWork(c) PROVE NestInv'
  BY <1>6, NestInside DEF RunWork, Active
<1>7. ASSUME NEW s \in Streams, DeviceStep(s) PROVE NestInv'
  BY <1>7, NestInside DEF DeviceStep, Active
<1>8. CASE UNCHANGED vars
  BY <1>8, NestInside DEF vars, Active
<1>9. ASSUME NEW c \in Calls, pc[c] \notin {"start", "returned", "run"},
             Go(c, "returned"), Unlock(c), UNCHANGED <<runner, thr, wasHeld>>
      PROVE  NestInv'
  <2>1. \A d \in Calls : /\ Active(d)' <=> Active(d) /\ d # c
                         /\ pc[d] = "run" => pc'[d] = "run"
    BY <1>0, <1>9 DEF Go, Active
  <2> QED BY <1>9, <2>1, NestExit DEF Active
<1>10. ASSUME NEW c \in Calls, Leave(c) PROVE NestInv'
  <2>1. pc[c] = "leave" /\ UNCHANGED <<runner, thr, wasHeld>>
    BY <1>10 DEF Leave
  <2>2. \/ Go(c, "returned") /\ Unlock(c)
        \/ Go(c, "sync") /\ executing' = executing
    BY <1>10, Zenon DEF Leave, Return
  <2> QED BY <1>1, <1>9, <2>1, <2>2 DEF PcStates
<1>11. ASSUME NEW c \in Calls, Synchronized(c) PROVE NestInv'
  BY <1>9, <1>11 DEF Synchronized, Return
<1>12. ASSUME NEW c \in Calls, NotifyUnwinding(c) PROVE NestInv'
  <2>1. \A d \in Calls : /\ Active(d)' <=> Active(d) /\ d # c
                         /\ pc[d] = "run" => pc'[d] = "run"
    BY <1>0, <1>12 DEF NotifyUnwinding, Waiters, Active
  <2> QED BY <1>12, <2>1, NestExit DEF NotifyUnwinding, Active
<1> QED BY <1>2, <1>3, <1>4, <1>5, <1>6, <1>7, <1>8, <1>10, <1>11, <1>12, NestCalls
        DEF Next, Execute, SettleStep

-----------------------------------------------------------------------------
(* The theorems.                                                           *)

\* The initial states.
LEMMA Initially == Init => IndInv
<1> SUFFICES ASSUME Init PROVE IndInv
  OBVIOUS
<1> USE CallsAssumption DEF Init
<1>1. \A c \in Calls : ~Active(c)
  BY DEF Active
<1>2. TypeOK
  BY DEF TypeOK, PcStates, Outcomes
<1>3. CellInv
  BY DEF CellInv, RunnerInv, OutcomeInv, Running
<1>4. LogInv
  <2>1. \A s \in Streams : \A i, k, o, c : ~Submitted(s, i, k, o, c)
    BY DEF Submitted
  <2>2. OrderInv
    BY <2>1 DEF OrderInv, WorkInv, EventInv, WaitInv, UseInv
  <2>3. ProducerInv /\ ValueInv
    BY DEF ProducerInv, ValueInv
  <2> QED BY <2>2, <2>3 DEF LogInv
<1>5. NestInv
  BY <1>1 DEF NestInv, FrameInv, TopThread, Grounded, OneInnermost, OuterInv, Child,
              Innermost, Holder
<1> QED BY <1>2, <1>3, <1>4, <1>5 DEF IndInv

\* The inductive invariant of execute-once memoisation and its lock.
THEOREM Invariance == Spec => []IndInv
<1>1. IndInv /\ [Next]_vars => IndInv'
  BY TypeStep, CellStep, LogStep, NestStep DEF IndInv
<1> QED BY <1>1, Initially, PTL DEF Spec

\* The work of a cell is submitted by one call, the one that took Pending.
THEOREM RunsOnce == Spec => []RunOnce
<1>1. ASSUME IndInv PROVE RunOnce
  <2> SUFFICES ASSUME NEW s \in Streams, NEW t \in Streams,
                      NEW i \in DOMAIN log[s], NEW j \in DOMAIN log[t],
                      log[s][i][1] = "work", log[t][j][1] = "work",
                      log[s][i][2] = log[t][j][2]
               PROVE  log[s][i] = log[t][j]
    BY DEF RunOnce
  <2>1. /\ log[s] \in Seq(Items) /\ log[t] \in Seq(Items)
    BY <1>1 DEF IndInv, TypeOK
  <2>2. /\ i \in Nat /\ i \in 1 .. Len(log[s]) /\ log[s][i] \in Items
        /\ j \in Nat /\ j \in 1 .. Len(log[t]) /\ log[t][j] \in Items
    BY <2>1
  <2>3. PICK o \in Ops, c \in Calls : log[s][i] = <<"work", o, c>>
    BY <2>2 DEF Items
  <2>4. PICK d \in Calls : log[t][j] = <<"work", o, d>>
    BY <2>2, <2>3 DEF Items
  <2>5. Submitted(s, i, "work", o, c) /\ Submitted(t, j, "work", o, d)
    BY <2>2, <2>3, <2>4 DEF Submitted
  <2>6. c = runner[o] /\ d = runner[o]
    BY <1>1, <2>2, <2>5 DEF IndInv, LogInv, OrderInv, WorkInv
  <2> QED BY <2>3, <2>4, <2>6
<1> QED BY <1>1, Invariance, PTL

\* Whoever gets a value of a cell, nobody gets its failure.
THEOREM OutcomeIsShared == Spec => []SameOutcome
<1>1. IndInv => SameOutcome
  BY CallsAssumption DEF IndInv, CellInv, OutcomeInv, SameOutcome
<1> QED BY <1>1, Invariance, PTL

\* The thread-local flag is set exactly while a guard is alive on the thread.
THEOREM LockIsExact == Spec => []LockHeldWhileExecuting
<1>1. ASSUME IndInv, NEW t \in Threads
      PROVE  executing[t] <=>
               \E c \in Calls : /\ Active(c) /\ thr[c] = t
                                /\ Route[c] \in {"top", "unchecked"}
  BY <1>1 DEF IndInv, NestInv, OuterInv, Holder
<1>2. IndInv => LockHeldWhileExecuting
  BY <1>1 DEF LockHeldWhileExecuting
<1> QED BY <1>2, Invariance, PTL

\* A use the device has executed comes after the work it depends on.
LEMMA UseFollowsWork ==
  ASSUME IndInv, NEW o \in Ops, NEW c \in Calls, NEW s \in Streams, NEW i \in Nat,
         Submitted(s, i, "use", o, c), i <= done[s], WorkSubmitted(o)
  PROVE  WorkExecuted(o)
<1> USE DEF IndInv, LogInv, OrderInv
<1>0. \A t \in Streams : Len(log[t]) \in Nat /\ done[t] \in Nat
  BY DEF TypeOK
<1> SUFFICES ASSUME runner[o] # None
             PROVE  \E t \in Streams, j \in Nat :
                      Submitted(t, j, "work", o, runner[o]) /\ j <= done[t]
  <2>1. \A t \in Streams, j \in Nat :
          j \in 1 .. Len(log[t]) /\ j <= done[t] => j \in 1 .. done[t]
    BY <1>0
  <2> QED BY <2>1 DEF WorkExecuted, Executed, Submitted
<1>1. runner[o] \in Calls
  BY DEF TypeOK
<1>2. PICK t \in Streams, j \in Nat : Submitted(t, j, "work", o, runner[o])
  <2>1. PICK t \in Streams : <<"work", o, runner[o]>> \in Range(log[t])
    BY DEF WorkSubmitted
  <2>2. PICK j \in DOMAIN log[t] : log[t][j] = <<"work", o, runner[o]>>
    BY <2>1 DEF Range
  <2>3. DOMAIN log[t] = 1 .. Len(log[t])
    BY DEF TypeOK
  <2>4. j \in Nat /\ j \in 1 .. Len(log[t])
    BY <1>0, <2>3
  <2> QED BY <2>2, <2>4 DEF Submitted
<1>3. CASE t = s /\ j < i
  BY <1>0, <1>2, <1>3
<1>4. CASE \E k \in Nat : k < i /\ Submitted(s, k, "wait", o, c)
  <2>1. Fired(o)
    BY <1>0, <1>4 DEF WaitInv
  <2>2. PICK u \in Streams, m \in Nat :
          Submitted(u, m, "event", o, runner[o]) /\ m <= done[u]
    BY <2>1 DEF Fired
  <2>3. u = t
    BY <1>1, <1>2, <2>2 DEF EventInv, WorkInv
  <2>4. j < m
    BY <1>1, <1>2, <2>2, <2>3 DEF EventInv
  <2> QED BY <1>0, <1>2, <2>2, <2>3, <2>4
<1> QED BY <1>1, <1>2, <1>3, <1>4 DEF UseInv

\* On the device, no use of a value overtakes the work that produces it.
THEOREM ProducerBeforeUse == Spec => []UseOrdered
<1>1. ASSUME IndInv, NEW c \in Calls, Executed(<<"use", Op[c], c>>), WorkSubmitted(Op[c])
      PROVE  WorkExecuted(Op[c])
  <2>1. PICK s \in Streams : \E i \in 1 .. done[s] : log[s][i] = <<"use", Op[c], c>>
    BY <1>1 DEF Executed
  <2>2. PICK i \in 1 .. done[s] : log[s][i] = <<"use", Op[c], c>>
    BY <2>1
  <2>3. i \in Nat /\ i <= done[s] /\ i \in 1 .. Len(log[s])
    BY <1>1 DEF IndInv, TypeOK
  <2>4. Submitted(s, i, "use", Op[c], c)
    BY <2>2, <2>3 DEF Submitted
  <2> QED BY <1>1, <2>3, <2>4, UseFollowsWork, CallsAssumption
<1>2. IndInv => UseOrdered
  BY <1>1 DEF UseOrdered
<1> QED BY <1>2, Invariance, PTL

\* A value that sync_on returns to the host is backed by finished work.
THEOREM HostIsSynchronized == Spec => []HostSeesFinishedWork
<1>1. ASSUME IndInv, NEW c \in Calls, pc[c] = "returned", out[c] = "value",
             Route[c] # "chain", WorkSubmitted(Op[c])
      PROVE  WorkExecuted(Op[c])
  <2>1. str[c] \in Streams
    BY <1>1 DEF IndInv, TypeOK
  <2>2. PICK i \in Nat : Submitted(str[c], i, "use", Op[c], c) /\ i <= done[str[c]]
    BY <1>1 DEF IndInv, LogInv, ValueInv
  <2> QED BY <1>1, <2>1, <2>2, UseFollowsWork, CallsAssumption
<1>2. IndInv => HostSeesFinishedWork
  BY <1>1 DEF HostSeesFinishedWork
<1> QED BY <1>2, Invariance, PTL
-----------------------------------------------------------------------------
(* Nobody waits for nobody: what EveryCallReturns rests on.                *)

\* A running cell has a call that will settle it; a call that waits has one
\* that will notify it, on another thread.
SettlerInv ==
  /\ \A o \in Ops : once[o] = "running" => runner[o] # None /\ pc[runner[o]] \in Running
  /\ \A c \in Calls : pc[c] = "notify" => runner[Op[c]] = c
  /\ \A c \in Calls : pc[c] = "wait" =>
       /\ runner[Op[c]] # None /\ pc[runner[Op[c]]] \in Running \cup {"notify"}
       /\ thr[runner[Op[c]]] # thr[c]

\* What a synchronize waits for is in the stream, and what a wait item waits
\* for has a producer.
DebtInv ==
  /\ \A c \in Calls : pc[c] = "sync" => mark[c] <= Len(log[str[c]])
  /\ \A o \in Ops : producer[o] # None => runner[o] # None
  /\ \A s \in Streams, i \in Nat, o \in Ops, c \in Calls :
       Submitted(s, i, "wait", o, c) => runner[o] # None

\* The device reaches place p after place q: later in the same stream, or
\* because p waits for the event at q.
Places == {p \in Streams \X Nat : p[2] \in 1 .. Len(log[p[1]])}
Awaits(p, q) ==
  \E o \in Ops, c, d \in Calls :
    Submitted(p[1], p[2], "wait", o, c) /\ Submitted(q[1], q[2], "event", o, d)
Behind(p, q) == (p[1] = q[1] /\ q[2] < p[2]) \/ Awaits(p, q)

\* These orders do not go in circles, whatever the streams.
Ordered ==
  \A S \in SUBSET Places : S # {} => \E p \in S : \A q \in S : ~Behind(p, q)

ProgressInv == SettlerInv /\ DebtInv /\ Ordered

\* The guard of the next step of a call that has begun.
Ready(c) ==
  /\ Active(c) /\ pc[c] # "wait"
  /\ pc[c] = "run" => \A d \in Nested(Op[c]) : ~Active(d)
  /\ pc[c] = "sync" => done[str[c]] >= mark[c]

\* The guard of DeviceStep.
DeviceReady(s) ==
  /\ done[s] < Len(log[s])
  /\ log[s][done[s] + 1][1] = "wait" => EventFired(log[s][done[s] + 1][2])

\* The cross-stream waits of Producer::join never stop the device: as long as
\* work is queued, some stream can execute its next item.
DeviceGoesOn ==
  (\E s \in Streams : done[s] < Len(log[s])) => \E s \in Streams : DeviceReady(s)

\* A closure executes its own cell or clones of operations that existed before
\* its own: every set of cells has one that executes no other cell of the set.
Acyclic ==
  \A S \in SUBSET Ops : S # {} =>
    \E o \in S : \A c \in Nested(o) : Op[c] \notin S \ {o}

\* W holds, with a cell, the cells that its closure executes.
Closed(W) == \A o \in W : \A c \in Nested(o) : Op[c] \in W

\* A call that has begun is never part of a standstill of the cell it executes
\* and of the cells that one is built from: one of their calls or the device
\* can take a step.
NoStandstill ==
  \A W \in SUBSET Ops :
    Closed(W) /\ (\E c \in Calls : Active(c) /\ Op[c] \in W) =>
      \/ \E s \in Streams : DeviceReady(s)
      \/ \E d \in Calls : Ready(d) /\ Op[d] \in W

\* Steps that settle nothing and wake nobody that must be notified.
LEMMA SettlerFrame ==
  ASSUME TypeOK, CellInv, SettlerInv, UNCHANGED <<once, runner>>,
         \A d \in Calls :
           /\ pc[d] # "start" => thr'[d] = thr[d]
           /\ pc[d] \in Running => pc'[d] \in Running
           /\ pc[d] = "notify" <=> pc'[d] = "notify"
           /\ pc'[d] = "wait" => \/ pc[d] = "wait"
                                 \/ /\ pc[d] # "start" /\ once[Op[d]] = "running"
                                    /\ thr[runner[Op[d]]] # thr[d]
  PROVE  SettlerInv'
<1> USE CallsAssumption
<1>1. \A o \in Ops : runner[o] # None =>
        runner[o] \in Calls /\ thr'[runner[o]] = thr[runner[o]]
  BY DEF TypeOK, CellInv, RunnerInv
<1>2. \A o \in Ops : once'[o] = "running" =>
        runner'[o] # None /\ pc'[runner'[o]] \in Running
  BY <1>1 DEF SettlerInv
<1>3. \A d \in Calls : pc'[d] = "notify" => runner'[Op[d]] = d
  BY DEF SettlerInv
<1>4. ASSUME NEW d \in Calls, pc'[d] = "wait"
      PROVE  /\ runner'[Op[d]] # None /\ pc'[runner'[Op[d]]] \in Running \cup {"notify"}
             /\ thr'[runner'[Op[d]]] # thr'[d]
  <2>1. /\ Op[d] \in Ops /\ runner[Op[d]] # None /\ thr[runner[Op[d]]] # thr[d]
        /\ pc[runner[Op[d]]] \in Running \cup {"notify"}
    BY <1>4 DEF SettlerInv
  <2>2. thr'[d] = thr[d]
    BY <1>4
  <2> QED BY <1>1, <2>1, <2>2
<1> QED BY <1>2, <1>3, <1>4 DEF SettlerInv


\* A runner settles its cell, then notifies; nobody it must wake is forgotten.
LEMMA SettlerStep == TypeOK /\ CellInv /\ SettlerInv /\ [Next]_vars => SettlerInv'
<1> SUFFICES ASSUME TypeOK, CellInv, SettlerInv, [Next]_vars PROVE SettlerInv'
  OBVIOUS
<1> USE CallsAssumption DEF cellVars, callVars
<1>0. /\ pc \in [Calls -> PcStates] /\ thr \in [Calls -> Threads]
      /\ once \in [Ops -> {"pending", "running", "done", "failed"}]
      /\ runner \in [Ops -> Calls \cup {None}]
  BY DEF TypeOK
<1>a. \A o \in Ops : runner[o] # None =>
        runner[o] \in Calls /\ Op[runner[o]] = o /\ pc[runner[o]] # "start"
  BY <1>0 DEF CellInv, RunnerInv
<1>1. ASSUME NEW c \in Calls,
             NEW to \in {"enter", "leave", "sync", "returned"},
             Go(c, to), pc[c] \in {"start", "enter", "wait", "leave", "sync"},
             UNCHANGED <<once, runner>>,
             \A d \in Calls : pc[d] # "start" => thr'[d] = thr[d]
      PROVE  SettlerInv'
  <2>1. \A d \in Calls :
          /\ pc[d] \in Running => pc'[d] \in Running
          /\ pc[d] = "notify" <=> pc'[d] = "notify"
          /\ pc'[d] = "wait" => pc[d] = "wait"
    BY <1>0, <1>1 DEF Go, Running
  <2> QED BY <1>1, <2>1, SettlerFrame
<1>2. ASSUME NEW c \in Calls, Enter(c) PROVE SettlerInv'
  <2>1. UNCHANGED <<once, runner>> /\ pc[c] = "start"
    BY <1>2 DEF Enter, CallTop, CallChain, CallThen, CallUnchecked, InClosure
  <2>2. \A d \in Calls : pc[d] # "start" => thr'[d] = thr[d]
    BY <1>0, <1>2, <2>1 DEF Enter, CallTop, CallChain, CallThen, CallUnchecked, InClosure
  <2>3. Go(c, "enter") \/ Go(c, "returned")
    BY <1>2, Zenon DEF Enter, CallTop, CallChain, CallThen, CallUnchecked, Acquire
  <2> QED BY <1>1, <2>1, <2>2, <2>3
<1>3. ASSUME NEW c \in Calls,
             \/ SpuriousWake(c) \/ Leave(c) \/ Synchronized(c) \/ Reentered(c)
             \/ SeeFailed(c) \/ TakeValue(c) \/ JoinFails(c)
      PROVE  SettlerInv'
  <2>1. /\ UNCHANGED <<once, runner, thr>>
        /\ pc[c] \in {"start", "enter", "wait", "leave", "sync"}
    BY <1>3 DEF SpuriousWake, Leave, Synchronized, Reentered, SeeFailed, TakeValue,
                JoinFails, LockAndSee
  <2>2. \E to \in {"enter", "leave", "sync", "returned"} : Go(c, to)
    BY <1>3 DEF SpuriousWake, Leave, Return, Synchronized, Reentered, SeeFailed,
                TakeValue, JoinFails
  <2> QED BY <1>1, <2>1, <2>2
<1>4. ASSUME NEW c \in Calls,
             RunWork(c) \/ Outcome(c) \/ Record(c) \/ RecordFails(c) \/ Wait(c)
      PROVE  SettlerInv'
  <2>1. UNCHANGED <<once, runner, thr>>
    BY <1>4 DEF RunWork, Outcome, RunOk, RunErr, RunPanics, ClosureEnds, Record,
                RecordFails, Wait
  <2>2. \/ UNCHANGED pc
        \/ /\ pc[c] \in {"run", "record"}
           /\ \E to \in {"record", "settleDone", "settleFailed", "unwind"} : Go(c, to)
        \/ pc[c] = "enter" /\ Go(c, "wait") /\ once[Op[c]] = "running"
           /\ thr[runner[Op[c]]] # thr[c]
    BY <1>4 DEF RunWork, Outcome, RunOk, RunErr, RunPanics, ClosureEnds, Record,
                RecordFails, Wait, LockAndSee
  <2>3. \A d \in Calls :
           /\ pc[d] \in Running => pc'[d] \in Running
           /\ pc[d] = "notify" <=> pc'[d] = "notify"
           /\ pc'[d] = "wait" => \/ pc[d] = "wait"
                                 \/ /\ pc[d] # "start" /\ once[Op[d]] = "running"
                                    /\ thr[runner[Op[d]]] # thr[d]
    BY <1>0, <2>2 DEF Go, Running
  <2> QED BY <2>1, <2>3, SettlerFrame
<1>5. ASSUME NEW c \in Calls, TakeOp(c) PROVE SettlerInv'
  <2>1. /\ pc[c] = "enter" /\ once[Op[c]] = "pending" /\ runner[Op[c]] = None
        /\ pc' = [pc EXCEPT ![c] = "run"] /\ runner' = [runner EXCEPT ![Op[c]] = c]
        /\ once' = [once EXCEPT ![Op[c]] = "running"] /\ thr' = thr
    BY <1>5 DEF TakeOp, LockAndSee, Go, CellInv, RunnerInv
  <2>2. \A d \in Calls : pc'[d] \in {"notify", "wait"} =>
          pc[d] = pc'[d] /\ runner'[Op[d]] = runner[Op[d]] /\ runner[Op[d]] # None
    BY <1>0, <2>1 DEF SettlerInv
  <2>3. \A o \in Ops : runner[o] # None => pc'[runner[o]] = pc[runner[o]] \/ runner[o] = c
    BY <1>0, <1>a, <2>1
  <2>4. \A o \in Ops : runner[o] # None => runner[o] # c
    BY <1>a, <2>1
  <2>5. \A o \in Ops : once'[o] = "running" =>
          runner'[o] # None /\ pc'[runner'[o]] \in Running
    BY <1>0, <2>1, <2>3, <2>4 DEF SettlerInv, Running
  <2> QED BY <2>1, <2>2, <2>3, <2>4, <2>5 DEF SettlerInv
<1>6. ASSUME NEW c \in Calls, Settle(c) PROVE SettlerInv'
  <2>1. /\ pc[c] \in Running /\ runner[Op[c]] = c
        /\ pc' = [pc EXCEPT ![c] = "notify"] /\ UNCHANGED <<runner, thr>>
        /\ once'[Op[c]] # "running" /\ \A o \in Ops : o # Op[c] => once'[o] = once[o]
    BY <1>0, <1>6 DEF Settle, Go, CellInv, RunnerInv, Running
  <2>2. \A o \in Ops : o # Op[c] /\ runner[o] # None => pc'[runner[o]] = pc[runner[o]]
    BY <1>0, <1>a, <2>1
  <2>3. \A o \in Ops : once'[o] = "running" =>
          runner'[o] # None /\ pc'[runner'[o]] \in Running
    BY <2>1, <2>2 DEF SettlerInv
  <2>4. \A d \in Calls : pc'[d] = "notify" => runner'[Op[d]] = d
    BY <1>0, <2>1 DEF SettlerInv
  <2>5. ASSUME NEW d \in Calls, pc'[d] = "wait"
        PROVE  /\ runner[Op[d]] # None /\ pc'[runner[Op[d]]] \in Running \cup {"notify"}
               /\ thr[runner[Op[d]]] # thr[d]
    <3>1. pc[d] = "wait"
      BY <1>0, <2>1, <2>5
    <3> QED BY <1>0, <2>1, <2>2, <3>1 DEF SettlerInv
  <2> QED BY <2>1, <2>3, <2>4, <2>5 DEF SettlerInv
<1>7. ASSUME NEW c \in Calls, Notify(c) \/ NotifyUnwinding(c) PROVE SettlerInv'
  <2>1. /\ pc[c] = "notify" /\ UNCHANGED <<once, runner, thr>>
        /\ pc'[c] \in {"enter", "returned"}
        /\ \A d \in Calls : d # c => \/ pc'[d] = pc[d] /\ d \notin Waiters(Op[c])
                                     \/ pc[d] = "wait" /\ pc'[d] = "enter"
    BY <1>7 DEF Notify, NotifyUnwinding, Waiters
  <2>2. \A o \in Ops :
          /\ runner[o] # None /\ (o # Op[c] \/ runner[o] # c)
          /\ pc[runner[o]] \in Running \cup {"notify"}
          => pc'[runner[o]] = pc[runner[o]]
    BY <1>a, <2>1 DEF Running
  <2>3. \A o \in Ops : once[o] = "running" => runner[o] # c
    BY <2>1 DEF SettlerInv, Running
  <2>4. \A o \in Ops : once'[o] = "running" =>
          runner'[o] # None /\ pc'[runner'[o]] \in Running
    BY <2>1, <2>2, <2>3 DEF SettlerInv
  <2>5. \A d \in Calls : pc'[d] = "notify" => runner'[Op[d]] = d
    BY <2>1 DEF SettlerInv
  <2>6. ASSUME NEW d \in Calls, pc'[d] = "wait"
        PROVE  /\ runner[Op[d]] # None /\ pc'[runner[Op[d]]] \in Running \cup {"notify"}
               /\ thr[runner[Op[d]]] # thr[d]
    <3>1. pc[d] = "wait" /\ Op[d] # Op[c]
      BY <2>1, <2>6 DEF Waiters
    <3> QED BY <1>a, <2>2, <3>1 DEF SettlerInv
  <2> QED BY <2>1, <2>4, <2>5, <2>6 DEF SettlerInv
<1>8. CASE (\E s \in Streams : DeviceStep(s)) \/ UNCHANGED vars
  BY <1>8, SettlerFrame DEF DeviceStep, vars
<1> QED BY <1>2, <1>3, <1>4, <1>5, <1>6, <1>7, <1>8 DEF Next, Execute, SettleStep

\* The streams grow, and what a step starts to wait for is there.
LEMMA DebtFrame ==
  ASSUME TypeOK, TypeOK', DebtInv,
         \A s \in Streams : Len(log[s]) <= Len(log'[s]),
         \A o \in Ops : /\ runner[o] # None => runner'[o] # None
                        /\ producer'[o] # producer[o] => runner'[o] # None,
         \A d \in Calls : pc'[d] = "sync" =>
           \/ pc[d] = "sync" /\ mark'[d] = mark[d] /\ str'[d] = str[d]
           \/ mark'[d] <= Len(log'[str'[d]]),
         \A s \in Streams, i \in Nat, o \in Ops, d \in Calls :
           Submitted(s, i, "wait", o, d)' =>
             Submitted(s, i, "wait", o, d) \/ runner[o] # None
  PROVE  DebtInv'
<1>1. ASSUME NEW d \in Calls, pc'[d] = "sync" PROVE mark'[d] <= Len(log'[str'[d]])
  <2>1. CASE pc[d] = "sync" /\ mark'[d] = mark[d] /\ str'[d] = str[d]
    <3>1. /\ str[d] \in Streams /\ mark[d] \in Nat /\ Len(log[str[d]]) \in Nat
          /\ Len(log'[str[d]]) \in Nat
      BY DEF TypeOK
    <3>2. mark[d] <= Len(log[str[d]]) /\ Len(log[str[d]]) <= Len(log'[str[d]])
      BY <2>1, <3>1 DEF DebtInv
    <3> QED BY <2>1, <3>1, <3>2
  <2> QED BY <1>1, <2>1
<1>2. \A o \in Ops : producer'[o] # None => runner'[o] # None
  BY DEF DebtInv
<1>3. \A s \in Streams, i \in Nat, o \in Ops, d \in Calls :
        Submitted(s, i, "wait", o, d)' => runner'[o] # None
  BY DEF DebtInv
<1> QED BY <1>1, <1>2, <1>3 DEF DebtInv

\* Places added at the end of a stream: none of them is an event that a wait
\* was already there for.
LEMMA OrderedAppend ==
  ASSUME TypeOK, TypeOK', Ordered, NEW s \in Streams,
         \A t \in Streams : t # s => log'[t] = log[t],
         Len(log'[s]) \in {Len(log[s]) + 1, Len(log[s]) + 2},
         \A i \in 1 .. Len(log[s]) : log'[s][i] = log[s][i],
         \A i \in Nat, o \in Ops, d \in Calls :
           Submitted(s, i, "event", o, d)' /\ i > Len(log[s]) =>
             \A t \in Streams, j \in Nat, c \in Calls : ~Submitted(t, j, "wait", o, c)'
  PROVE  Ordered'
<1> DEFINE n == Len(log[s])
<1>0. /\ n \in Nat /\ Len(log'[s]) \in Nat
      /\ \A t \in Streams : Len(log[t]) \in Nat /\ Len(log'[t]) \in Nat
  BY DEF TypeOK
<1>1. \A t \in Streams : \A i \in 1 .. Len(log[t]) :
        i \in 1 .. Len(log'[t]) /\ log'[t][i] = log[t][i]
  BY <1>0
<1>2. \A p \in Places : /\ p[1] \in Streams /\ p[2] \in Nat /\ p \in Places'
                        /\ \A k, o, c : Submitted(p[1], p[2], k, o, c)' <=>
                                          Submitted(p[1], p[2], k, o, c)
  BY <1>1 DEF Places, Submitted
<1>3. \A p \in Places' : p \notin Places =>
        /\ p \in Streams \X Nat /\ p[1] = s /\ p[2] \in {n + 1, n + 2}
  BY <1>0 DEF Places
<1>4. ASSUME NEW p \in Places', NEW q \in Places', q \notin Places PROVE ~Awaits(p, q)'
  <2>1. q[1] = s /\ q[2] \in Nat /\ q[2] > n /\ p[1] \in Streams /\ p[2] \in Nat
    BY <1>0, <1>3, <1>4 DEF Places
  <2> HIDE DEF n
  <2> SUFFICES ASSUME NEW o \in Ops, NEW c \in Calls, NEW d \in Calls,
                      Submitted(p[1], p[2], "wait", o, c)',
                      Submitted(q[1], q[2], "event", o, d)'
               PROVE  FALSE
    BY DEF Awaits
  <2> QED BY <2>1 DEF n
<1> SUFFICES ASSUME NEW S \in SUBSET Places', S # {}
             PROVE  \E p \in S : \A q \in S : ~Behind(p, q)'
  BY DEF Ordered
<1>5. CASE S \cap Places # {}
  <2>1. PICK p \in S \cap Places : \A q \in S \cap Places : ~Behind(p, q)
    BY <1>5 DEF Ordered
  <2>2. ASSUME NEW q \in S PROVE ~Behind(p, q)'
    <3>1. CASE q \in Places
      <4>1. ~Behind(p, q) /\ p \in Places
        BY <2>1, <3>1
      <4>2. Awaits(p, q)' <=> Awaits(p, q)
        <5>1. \A k, o, c : /\ Submitted(p[1], p[2], k, o, c)' <=>
                               Submitted(p[1], p[2], k, o, c)
                           /\ Submitted(q[1], q[2], k, o, c)' <=>
                               Submitted(q[1], q[2], k, o, c)
          BY <1>2, <3>1, <4>1
        <5> QED BY <5>1 DEF Awaits
      <4> QED BY <4>1, <4>2 DEF Behind
    <3>2. CASE q \notin Places
      <4>1. p \in Places' /\ q \in Places'
        BY <1>2
      <4>2. ~(p[1] = q[1] /\ q[2] < p[2])
        <5>1. q[1] = s /\ q[2] \in {n + 1, n + 2}
          BY <1>3, <3>2, <4>1
        <5>2. p[2] \in 1 .. Len(log[p[1]])
          BY DEF Places
        <5> QED BY <1>0, <5>1, <5>2
      <4> QED BY <1>4, <3>2, <4>1, <4>2 DEF Behind
    <3> QED BY <3>1, <3>2
  <2> QED BY <2>1, <2>2
<1>6. CASE S \cap Places = {}
  <2>1. \A p \in S : p \in Streams \X Nat /\ p[1] = s /\ p[2] \in {n + 1, n + 2}
    BY <1>3, <1>6
  <2>2. PICK p \in S : \A q \in S : ~(q[2] < p[2])
    <3>1. ASSUME NEW p \in S, p[2] = n + 1 PROVE \A q \in S : ~(q[2] < p[2])
      BY <1>0, <2>1, <3>1
    <3>2. CASE \A p \in S : p[2] # n + 1
      BY <1>0, <2>1, <3>2
    <3> QED BY <3>1, <3>2
  <2>3. \A q \in S : ~Awaits(p, q)'
    BY <1>4, <1>6
  <2> QED BY <2>2, <2>3 DEF Behind
<1> QED BY <1>5, <1>6

\* Steps that submit nothing.
LEMMA OrderedFrame ==
  ASSUME Ordered, UNCHANGED log
  PROVE  Ordered'
<1>1. Places' = Places
  BY DEF Places
<1>2. \A t, i, k, o, c : Submitted(t, i, k, o, c)' <=> Submitted(t, i, k, o, c)
  BY DEF Submitted
<1>3. \A p, q : Behind(p, q)' <=> Behind(p, q)
  BY <1>2 DEF Behind, Awaits
<1> QED BY <1>1, <1>3 DEF Ordered

\* The steps that submit to a stream.
LEMMA ProgressSubmit ==
  ASSUME TypeOK, TypeOK', CellInv, LogInv, DebtInv, Ordered, NEW c \in Calls,
         RunWork(c) \/ Record(c) \/ TakeValue(c)
  PROVE  DebtInv' /\ Ordered'
<1> USE CallsAssumption DEF cellVars, callVars
<1> DEFINE s == str[c]
           o == Op[c]
           n == Len(log[s])
<1>0. /\ s \in Streams /\ o \in Ops /\ n \in Nat /\ log \in [Streams -> Seq(Items)]
      /\ \A t \in Streams : Len(log[t]) \in Nat
      /\ pc \in [Calls -> PcStates] /\ producer \in [Ops -> Streams \cup {None}]
  BY DEF TypeOK
<1>1. /\ UNCHANGED <<runner, mark, str>>
      /\ \A d \in Calls : pc'[d] = "sync" => pc[d] = "sync"
  BY <1>0 DEF RunWork, Record, TakeValue, Go
<1>a. s' = s
  BY <1>1
<1> SUFFICES
       /\ \A t \in Streams : t # s => log'[t] = log[t]
       /\ Len(log'[s]) \in {n + 1, n + 2}
       /\ \A i \in 1 .. n : log'[s][i] = log[s][i]
       /\ \A i \in Nat, p \in Ops, d \in Calls :
            Submitted(s, i, "event", p, d)' /\ i > n =>
              \A t \in Streams, j \in Nat, e \in Calls : ~Submitted(t, j, "wait", p, e)'
       /\ \A p \in Ops : producer'[p] # producer[p] => runner[p] # None
       /\ \A t \in Streams, i \in Nat, p \in Ops, d \in Calls :
            Submitted(t, i, "wait", p, d)' =>
              Submitted(t, i, "wait", p, d) \/ runner[p] # None
  <2>1. \A t \in Streams : Len(log[t]) <= Len(log'[t])
    <3>1. Len(log[s]) <= Len(log'[s])
      BY <1>0
    <3>2. \A t \in Streams : t # s => Len(log[t]) <= Len(log'[t])
      BY <1>0
    <3> HIDE DEF s
    <3> QED BY <3>1, <3>2
  <2>2. DebtInv'
    BY <1>1, <2>1, DebtFrame
  <2>3. Ordered'
    <3> HIDE DEF s
    <3> QED BY <1>0, <1>a, OrderedAppend
  <2> QED BY <2>2, <2>3
<1>2. \A i \in Nat, p \in Ops, d \in Calls : Submitted(s, i, "event", p, d) => i <= n
  BY <1>0 DEF Submitted
<1>3. CASE RunWork(c) \/ Record(c)
  <2>1. PICK kind \in {"work", "event"} :
          /\ Submit(s, << <<kind, o, c>> >>)
          /\ kind = "event" => runner[o] = c /\ once[o] = "running"
    BY <1>3 DEF RunWork, Record, CellInv, RunnerInv, Running
  <2>2. /\ \A t \in Streams : t # s => log'[t] = log[t]
        /\ Len(log'[s]) = n + 1
        /\ \A i \in 1 .. n : log'[s][i] = log[s][i]
    <3> DEFINE item == <<kind, o, c>>
    <3>1. item \in Items /\ Submit(s, <<item>>)
      BY <1>0, <2>1 DEF Items
    <3> HIDE DEF item, s
    <3> QED BY <1>0, <3>1, AppendsOne
  <2>3. \A t \in Streams, i \in Nat, k \in Kinds, p \in Ops, d \in Calls \cup {None} :
          Submitted(t, i, k, p, d)' <=>
            \/ Submitted(t, i, k, p, d)
            \/ t = s /\ i = n + 1 /\ k = kind /\ p = o /\ d = c
    <3> HIDE DEF s, o
    <3> QED BY <1>0, <2>1, SubmitOne DEF Kinds
  <2> HIDE DEF s, o, n
  <2>4. \A t \in Streams, i \in Nat, p \in Ops, d \in Calls :
          Submitted(t, i, "wait", p, d)' => Submitted(t, i, "wait", p, d)
    BY <2>3 DEF Kinds
  <2>5. ASSUME NEW i \in Nat, NEW p \in Ops, NEW d \in Calls,
               Submitted(s, i, "event", p, d)', i > n,
               NEW t \in Streams, NEW j \in Nat, NEW e \in Calls
        PROVE  ~Submitted(t, j, "wait", p, e)'
    <3>1. kind = "event" /\ p = o
      <4>1. Submitted(s, i, "event", p, d) \/ (kind = "event" /\ p = o)
        BY <1>0, <1>a, <2>3, <2>5 DEF Kinds
      <4>2. ~(i <= n)
        BY <1>0, <2>5
      <4> QED BY <1>2, <4>1, <4>2
    <3>2. once[p] = "running"
      BY <2>1, <3>1
    <3> QED BY <2>4, <3>2 DEF LogInv, OrderInv, WaitInv
  <2>6. \A p \in Ops : producer'[p] # producer[p] => runner[p] # None
    <3>1. CASE RunWork(c)
      BY <3>1 DEF RunWork
    <3>2. CASE Record(c)
      <4>1. runner[o] = c /\ producer' = [producer EXCEPT ![o] = s]
        BY <3>2 DEF Record, CellInv, RunnerInv, Running, o, s
      <4> QED BY <1>0, <4>1
    <3> QED BY <1>3, <3>1, <3>2
  <2> QED BY <2>2, <2>4, <2>5, <2>6
<1>4. CASE TakeValue(c)
  <2>1. /\ \A t \in Streams : t # s => log'[t] = log[t]
        /\ Len(log'[s]) \in {n + 1, n + 2}
        /\ \A i \in 1 .. n : log'[s][i] = log[s][i]
    BY <1>4, AppendsUse
  <2>2. \A t \in Streams, i \in Nat, p \in Ops, d \in Calls :
          Submitted(t, i, "event", p, d)' => Submitted(t, i, "event", p, d)
    BY <1>4, SubmitUse DEF Kinds
  <2>3. \A t \in Streams, i \in Nat, p \in Ops, d \in Calls :
          Submitted(t, i, "wait", p, d)' =>
            Submitted(t, i, "wait", p, d) \/ (p = o /\ producer[o] # None)
    BY <1>4, SubmitUse DEF Kinds
  <2>4. \A t \in Streams, i \in Nat, p \in Ops, d \in Calls :
          Submitted(t, i, "wait", p, d)' =>
            Submitted(t, i, "wait", p, d) \/ runner[p] # None
    BY <1>0, <2>3 DEF DebtInv
  <2>5. producer' = producer
    BY <1>4 DEF TakeValue
  <2> HIDE DEF s, o, n
  <2>6. ASSUME NEW i \in Nat, NEW p \in Ops, NEW d \in Calls,
               Submitted(s, i, "event", p, d)'
        PROVE  ~(i > n)
    <3>1. i <= n
      BY <1>0, <1>a, <1>2, <2>2, <2>6
    <3> QED BY <1>0, <3>1
  <2> QED BY <2>1, <2>4, <2>5, <2>6
<1> QED BY <1>3, <1>4

\* Every step: whoever waits is owed something that can come.
LEMMA ProgressStep ==
  ASSUME IndInv, TypeOK', ProgressInv, [Next]_vars
  PROVE  ProgressInv'
<1> USE CallsAssumption DEF cellVars, callVars
<1>0. /\ TypeOK /\ CellInv /\ LogInv /\ SettlerInv /\ DebtInv /\ Ordered
      /\ pc \in [Calls -> PcStates] /\ runner \in [Ops -> Calls \cup {None}]
      /\ str \in [Calls -> Streams] /\ mark \in [Calls -> Nat]
      /\ \A t \in Streams : Len(log[t]) \in Nat
  BY DEF IndInv, ProgressInv, TypeOK
<1>1. SettlerInv'
  BY <1>0, SettlerStep
<1>2. ASSUME UNCHANGED <<log, producer>>,
             \A o \in Ops : runner[o] # None => runner'[o] # None,
             \A d \in Calls : pc'[d] = "sync" =>
               \/ pc[d] = "sync" /\ mark'[d] = mark[d] /\ str'[d] = str[d]
               \/ mark'[d] <= Len(log[str'[d]])
      PROVE  ProgressInv'
  <2>1. \A s \in Streams : Len(log[s]) <= Len(log'[s])
    BY <1>0, <1>2
  <2>2. \A s \in Streams, i \in Nat, o \in Ops, d \in Calls :
          Submitted(s, i, "wait", o, d)' => Submitted(s, i, "wait", o, d)
    BY <1>2 DEF Submitted
  <2>3. DebtInv'
    BY <1>0, <1>2, <2>1, <2>2, DebtFrame
  <2> QED BY <1>0, <1>1, <1>2, <2>3, OrderedFrame DEF ProgressInv
<1>3. ASSUME NEW c \in Calls, Enter(c) PROVE ProgressInv'
  <2>1. UNCHANGED <<log, producer, runner, mark>> /\ pc[c] = "start"
    BY <1>3 DEF Enter, CallTop, CallChain, CallThen, CallUnchecked, InClosure
  <2>2. \A d \in Calls : d # c => str'[d] = str[d]
    BY <1>0, <1>3 DEF Enter, CallTop, CallChain, CallThen, CallUnchecked
  <2>3. Go(c, "enter") \/ Go(c, "returned")
    BY <1>3, Zenon DEF Enter, CallTop, CallChain, CallThen, CallUnchecked, Acquire
  <2>4. \A d \in Calls : pc'[d] = "sync" => pc[d] = "sync" /\ d # c
    BY <1>0, <2>1, <2>3 DEF Go
  <2> QED BY <1>2, <2>1, <2>2, <2>4
<1>4. ASSUME NEW c \in Calls,
             \/ SpuriousWake(c) \/ Synchronized(c) \/ Reentered(c) \/ SeeFailed(c)
             \/ JoinFails(c) \/ Wait(c) \/ RecordFails(c) \/ Outcome(c) \/ Settle(c)
      PROVE  ProgressInv'
  <2>1. UNCHANGED <<log, producer, runner, mark, str>>
    BY <1>4 DEF SpuriousWake, Synchronized, Reentered, SeeFailed, JoinFails, Wait,
                RecordFails, Outcome, RunOk, RunErr, RunPanics, ClosureEnds, Settle
  <2>2. \E to \in PcStates \ {"sync"} : Go(c, to)
    BY <1>4 DEF SpuriousWake, Synchronized, Return, Reentered, SeeFailed, JoinFails, Wait,
                RecordFails, Outcome, RunOk, RunErr, RunPanics, ClosureEnds, Settle, PcStates
  <2>3. \A d \in Calls : pc'[d] = "sync" => pc[d] = "sync"
    BY <1>0, <2>2 DEF Go
  <2> QED BY <1>2, <2>1, <2>3
<1>5. ASSUME NEW c \in Calls, Leave(c) PROVE ProgressInv'
  <2>1. UNCHANGED <<log, producer, runner, str>>
    BY <1>5 DEF Leave
  <2>2. \/ Go(c, "returned") /\ mark' = mark
        \/ Go(c, "sync") /\ mark' = [mark EXCEPT ![c] = Len(log[str[c]])]
    BY <1>5, Zenon DEF Leave, Return
  <2>3. Len(log[str[c]]) \in Nat
    BY <1>0
  <2>4. \A d \in Calls : pc'[d] = "sync" =>
          \/ pc[d] = "sync" /\ mark'[d] = mark[d]
          \/ d = c /\ mark'[d] = Len(log[str[d]])
    BY <1>0, <2>2 DEF Go
  <2>5. \A d \in Calls : pc'[d] = "sync" =>
          \/ pc[d] = "sync" /\ mark'[d] = mark[d]
          \/ mark'[d] <= Len(log[str[d]])
    BY <2>3, <2>4
  <2> QED BY <1>2, <2>1, <2>5
<1>6. ASSUME NEW c \in Calls, TakeOp(c) PROVE ProgressInv'
  <2>1. /\ UNCHANGED <<log, producer, mark, str>> /\ Go(c, "run")
        /\ runner' = [runner EXCEPT ![Op[c]] = c]
    BY <1>6 DEF TakeOp
  <2>2. \A o \in Ops : runner[o] # None => runner'[o] # None
    BY <1>0, <2>1
  <2>3. \A d \in Calls : pc'[d] = "sync" => pc[d] = "sync"
    BY <1>0, <2>1 DEF Go
  <2> QED BY <1>2, <2>1, <2>2, <2>3
<1>7. ASSUME NEW c \in Calls, Notify(c) \/ NotifyUnwinding(c) PROVE ProgressInv'
  <2>1. UNCHANGED <<log, producer, runner, mark, str>>
    BY <1>7 DEF Notify, NotifyUnwinding
  <2>2. \A d \in Calls : pc'[d] = "sync" => pc[d] = "sync"
    BY <1>7 DEF Notify, NotifyUnwinding
  <2> QED BY <1>2, <2>1, <2>2
<1>8. ASSUME NEW c \in Calls, RunWork(c) \/ Record(c) \/ TakeValue(c) PROVE ProgressInv'
  BY <1>0, <1>1, <1>8, ProgressSubmit DEF ProgressInv
<1>9. CASE (\E s \in Streams : DeviceStep(s)) \/ UNCHANGED vars
  <2>1. UNCHANGED <<log, producer, runner, mark, str, pc>>
    BY <1>9 DEF DeviceStep, vars
  <2> QED BY <1>2, <2>1
<1> QED BY <1>3, <1>4, <1>5, <1>6, <1>7, <1>8, <1>9 DEF Next, Execute, SettleStep

\* The progress invariant of execute-once cells and the streams they join.
THEOREM ProgressInvariance == Spec => [](IndInv /\ ProgressInv)
<1>1. Init => ProgressInv
  <2> SUFFICES ASSUME Init PROVE ProgressInv
    OBVIOUS
  <2>1. \A s \in Streams : Len(log[s]) = 0
    BY DEF Init
  <2>2. Places = {}
    BY <2>1 DEF Places
  <2>3. SettlerInv
    BY CallsAssumption DEF Init, SettlerInv
  <2>4. DebtInv
    BY <2>1 DEF Init, DebtInv, Submitted
  <2> QED BY <2>2, <2>3, <2>4 DEF ProgressInv, Ordered
<1>2. IndInv /\ ProgressInv /\ [Next]_vars => ProgressInv'
  BY ProgressStep, TypeStep DEF IndInv
<1> QED BY <1>1, <1>2, Invariance, PTL DEF Spec

\* No notification is lost: a call that waits on Running has a runner, on
\* another thread, that has not reached its notify_all yet.
THEOREM WaitersAreOwed == Spec => []SettlerInv
<1>1. IndInv /\ ProgressInv => SettlerInv
  BY DEF ProgressInv
<1> QED BY <1>1, ProgressInvariance, PTL

\* The first place that the device has not reached, in the order of the waits,
\* is the next of its stream, and what it waits for has fired.
LEMMA DeviceMoves == IndInv /\ ProgressInv => DeviceGoesOn
<1> SUFFICES ASSUME IndInv, ProgressInv, NEW z \in Streams, done[z] < Len(log[z])
             PROVE  \E s \in Streams : DeviceReady(s)
  BY DEF DeviceGoesOn
<1> USE CallsAssumption
<1>0. /\ TypeOK /\ log \in [Streams -> Seq(Items)]
      /\ \A s \in Streams : /\ done[s] \in Nat /\ Len(log[s]) \in Nat
                            /\ done[s] <= Len(log[s])
  BY DEF IndInv, TypeOK
<1> DEFINE Queued == {p \in Places : p[2] > done[p[1]]}
<1>1. ASSUME NEW s \in Streams, NEW i \in Nat, i \in 1 .. Len(log[s]), i > done[s]
      PROVE  <<s, i>> \in Queued
  BY <1>1 DEF Places
<1>2. Queued \in SUBSET Places /\ Queued # {}
  <2>1. /\ done[z] + 1 \in Nat /\ done[z] + 1 \in 1 .. Len(log[z])
        /\ done[z] + 1 > done[z]
    BY <1>0
  <2>2. <<z, done[z] + 1>> \in Queued
    BY <1>1, <2>1
  <2> QED BY <2>2
<1>3. PICK p \in Queued : \A q \in Queued : ~Behind(p, q)
  BY <1>2 DEF ProgressInv, Ordered
<1>4. PICK s \in Streams, i \in Nat : p = <<s, i>> /\ i \in 1 .. Len(log[s]) /\ i > done[s]
  BY DEF Places
<1> HIDE DEF Queued
<1>5. i = done[s] + 1
  <2> SUFFICES ASSUME i # done[s] + 1 PROVE FALSE
    OBVIOUS
  <2> DEFINE j == done[s] + 1
  <2>1. j \in Nat /\ j \in 1 .. Len(log[s]) /\ j > done[s] /\ j < i
    BY <1>0, <1>4
  <2> HIDE DEF j
  <2>2. <<s, j>> \in Queued
    BY <1>1, <2>1
  <2>3. Behind(p, <<s, j>>)
    BY <1>4, <2>1 DEF Behind
  <2> QED BY <1>3, <2>2, <2>3
<1>6. ASSUME log[s][i][1] = "wait" PROVE EventFired(log[s][i][2])
  <2>1. log[s][i] \in Items
    BY <1>0, <1>4
  <2>2. PICK o \in Ops, c \in Calls : log[s][i] = <<"wait", o, c>>
    BY <1>6, <2>1 DEF Items
  <2>3. Submitted(s, i, "wait", o, c)
    BY <1>4, <2>2 DEF Submitted
  <2>4. once[o] = "done" /\ runner[o] # None
    BY <2>3 DEF IndInv, LogInv, OrderInv, WaitInv, ProgressInv, DebtInv
  <2>5. runner[o] \in Calls /\ Op[runner[o]] = o
    BY <2>4 DEF IndInv, TypeOK, CellInv, RunnerInv
  <2>6. PICK j \in Nat : Submitted(str[runner[o]], j, "event", o, runner[o])
    BY <2>4, <2>5 DEF IndInv, LogInv, ProducerInv
  <2>7. PICK t \in Streams : t = str[runner[o]]
    BY <1>0, <2>5 DEF TypeOK
  <2>8. j <= done[t]
    <3> SUFFICES ASSUME j > done[t] PROVE FALSE
      BY <1>0
    <3>1. <<t, j>> \in Queued
      BY <1>1, <2>6, <2>7 DEF Submitted
    <3>2. Behind(p, <<t, j>>)
      <4>1. Submitted(p[1], p[2], "wait", o, c)
        BY <1>4, <2>3
      <4>2. Submitted(<<t, j>>[1], <<t, j>>[2], "event", o, runner[o])
        BY <2>6, <2>7
      <4> QED BY <2>5, <4>1, <4>2 DEF Behind, Awaits
    <3> QED BY <1>3, <3>1, <3>2
  <2>9. Fired(o)
    BY <2>6, <2>7, <2>8 DEF Fired
  <2> QED BY <1>0, <2>2, <2>9, FiredEvent
<1> QED BY <1>0, <1>4, <1>5, <1>6 DEF DeviceReady

\* However the cells' streams wait for one another, the device is never stuck.
THEOREM DeviceNeverStuck == Spec => []DeviceGoesOn
BY DeviceMoves, ProgressInvariance, PTL

\* Among the cells that are in progress, one that executes no other has an
\* innermost frame on every thread that is in it.
LEMMA InnermostOf ==
  ASSUME IndInv, NEW o \in Ops, NEW c \in Calls, Active(c), Op[c] = o,
         \A d \in Nested(o) : Active(d) => Op[d] = o
  PROVE  \E e \in Calls : Innermost(e) /\ Op[e] = o /\ thr[e] = thr[c]
<1> USE CallsAssumption
<1> DEFINE T == {d \in Calls : Active(d) /\ Op[d] = o /\ thr[d] = thr[c]}
<1>1. PICK e \in T : \A d \in T : ~Child(d, e)
  <2>1. T \in SUBSET Calls /\ c \in T
    OBVIOUS
  <2> HIDE DEF T
  <2> QED BY <2>1 DEF IndInv, NestInv, Grounded
<1>2. ASSUME NEW d \in Calls, Child(d, e) PROVE FALSE
  <2>1. Active(d) /\ Parent[d] \in Ops /\ runner[Parent[d]] = e /\ e # None
    BY <1>2 DEF Child
  <2>2. Parent[d] = o
    BY <2>1 DEF IndInv, CellInv, RunnerInv
  <2>3. Op[d] = o
    BY <2>1, <2>2 DEF Nested
  <2>4. thr[d] = thr[e]
    BY <2>1 DEF IndInv, NestInv, FrameInv
  <2>5. d \in T
    BY <2>1, <2>3, <2>4
  <2> QED BY <1>1, <1>2, <2>5
<1> QED BY <1>2 DEF Innermost

\* A call that nothing runs inside of goes on, unless it waits to be notified
\* or for the device.
LEMMA InnermostMoves ==
  ASSUME IndInv, ProgressInv, NEW e \in Calls, Innermost(e), pc[e] # "wait"
  PROVE  Ready(e) \/ \E s \in Streams : DeviceReady(s)
<1> USE CallsAssumption
<1>1. Active(e) /\ \A d \in Calls : ~Child(d, e)
  BY DEF Innermost
<1>2. ASSUME pc[e] = "run", NEW d \in Nested(Op[e]) PROVE ~Active(d)
  <2>1. runner[Op[e]] = e
    BY <1>2 DEF IndInv, CellInv, RunnerInv, Running
  <2> QED BY <1>1, <2>1 DEF Nested, Child
<1>3. CASE pc[e] = "sync" /\ ~(done[str[e]] >= mark[e])
  <2>1. /\ str[e] \in Streams /\ done[str[e]] \in Nat /\ mark[e] \in Nat
        /\ Len(log[str[e]]) \in Nat
    BY DEF IndInv, TypeOK
  <2>2. mark[e] <= Len(log[str[e]])
    BY <1>3 DEF ProgressInv, DebtInv
  <2>3. done[str[e]] < Len(log[str[e]])
    BY <1>3, <2>1, <2>2
  <2> QED BY <2>1, <2>3, DeviceMoves DEF DeviceGoesOn
<1> QED BY <1>1, <1>2, <1>3 DEF Ready

\* The calls of a cell in progress, and those it is built from, do not all wait
\* for one another: take a cell in progress that executes no other one, and on
\* its thread the innermost call; if that one waits, take the runner's thread,
\* whose innermost call cannot wait for the runner.
LEMMA SomebodyMoves == Acyclic /\ IndInv /\ ProgressInv => NoStandstill
<1> SUFFICES ASSUME Acyclic, IndInv, ProgressInv, NEW W \in SUBSET Ops, Closed(W),
                    NEW a \in Calls, Active(a), Op[a] \in W
             PROVE  \/ \E s \in Streams : DeviceReady(s)
                    \/ \E d \in Calls : Ready(d) /\ Op[d] \in W
  BY DEF NoStandstill
<1> USE CallsAssumption
<1> DEFINE S == {o \in W : \E d \in Calls : Active(d) /\ Op[d] = o}
<1>1. PICK o \in S : \A d \in Nested(o) : Op[d] \notin S \ {o}
  <2>1. S \in SUBSET Ops /\ Op[a] \in S
    OBVIOUS
  <2> HIDE DEF S
  <2> QED BY <2>1 DEF Acyclic
<1>2. PICK c \in Calls : Active(c) /\ Op[c] = o
  OBVIOUS
<1>3. o \in Ops /\ o \in W
  OBVIOUS
<1>4. \A d \in Nested(o) : Active(d) => Op[d] = o
  BY <1>1, <1>3 DEF Closed, Nested
<1> HIDE DEF S
<1>5. PICK e \in Calls : Innermost(e) /\ Op[e] = o /\ thr[e] = thr[c]
  BY <1>2, <1>3, <1>4, InnermostOf
<1>6. CASE pc[e] # "wait"
  BY <1>3, <1>5, <1>6, InnermostMoves
<1>7. CASE pc[e] = "wait"
  <2>1. PICK r \in Calls : /\ r = runner[o] /\ pc[r] \in Running \cup {"notify"}
                           /\ thr[r] # thr[e]
    BY <1>3, <1>5, <1>7 DEF IndInv, TypeOK, ProgressInv, SettlerInv
  <2>2. Active(r) /\ Op[r] = o
    BY <1>3, <2>1 DEF Active, Running, IndInv, CellInv, RunnerInv
  <2>3. PICK f \in Calls : Innermost(f) /\ Op[f] = o /\ thr[f] = thr[r]
    BY <1>3, <1>4, <2>2, InnermostOf
  <2>4. pc[f] # "wait"
    BY <2>1, <2>3 DEF ProgressInv, SettlerInv
  <2> QED BY <1>3, <2>3, <2>4, InnermostMoves
<1> QED BY <1>6, <1>7

\* Without cycles among the operations, no set of threads deadlocks on Running,
\* on a synchronize or on a cross-stream wait.
THEOREM NobodyStuck ==
  ASSUME Acyclic
  PROVE  Spec => []NoStandstill
<1>1. IndInv /\ ProgressInv => NoStandstill
  BY SomebodyMoves
<1> QED BY <1>1, ProgressInvariance, PTL
=============================================================================
