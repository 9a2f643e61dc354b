--------------------------- MODULE Reactor_proofs ---------------------------
(***************************************************************************)
(* Proofs about Reactor, for any number of slots, registrations, streams   *)
(* and contexts.  Whatever errors other threads record and the probe reads, *)
(* the scanner does not sleep on armed slots and the table keeps its       *)
(* discipline.  While no probe takes a deferred error for a fault, the     *)
(* reactor implements the slot-table protocol and, in its safety part, the *)
(* Notifier.  The lemmas of SlotTable_proofs are used as they are.         *)
(***************************************************************************)
EXTENDS Reactor, SlotTable_proofs

-----------------------------------------------------------------------------
(* Parking.                                                                *)

\* While the scanner is not in a pass the table is not scanned; nobody
\* returns before publishing; the count a parked scanner missed is positive.
ParkInv ==
  /\ reg \in [Tokens -> RegStates] /\ wasIdle \in [Tokens -> BOOLEAN]
  /\ \A t \in unparked : reg[t] = "published"
  /\ loop \notin {"scan", "probe"} => scan = "idle"
  /\ loop = "park" => nArmed \in Nat
  /\ NoSleepOnArmed

\* The steps of register(): the one that counts 0 -> 1 owes an unpark.
LEMMA ParkRegister ==
  ASSUME ParkInv, NEW t \in Tokens, Register(t)
  PROVE  ParkInv'
<1> USE DEF ParkInv, loopVars, vars, scanVars, tableVars, regVars
<1>1. CASE RegisterReturn(t)
  <2>1. /\ UNCHANGED <<reg, wasIdle, loop, scan, nArmed>> /\ unparked' = unparked \cup {t}
        /\ reg[t] = "published"
    BY <1>1 DEF RegisterReturn
  <2>2. NoSleepOnArmed'
    <3>1. SUFFICES ASSUME loop' = "park", ~parkToken', nArmed' > 0
                   PROVE  \E u \in Tokens : /\ reg'[u] \in {"counted", "published"}
                                            /\ wasIdle'[u] /\ u \notin unparked'
      BY DEF NoSleepOnArmed
    <3>2. ~parkToken /\ ~wasIdle[t]
      BY <1>1, <3>1 DEF RegisterReturn
    <3>3. PICK u \in Tokens : /\ reg[u] \in {"counted", "published"}
                              /\ wasIdle[u] /\ u \notin unparked
      BY <2>1, <3>1, <3>2 DEF NoSleepOnArmed
    <3> QED BY <2>1, <3>2, <3>3
  <2> QED BY <2>1, <2>2
<1>2. CASE RegisterHost(t) \/ RegisterWrite(t)
  <2>1. UNCHANGED <<unparked, loop, parkToken, scan>>
    BY <1>2 DEF RegisterHost, RegisterWrite, Claim, ClaimExhausted, ResetFlag, Arm,
       ArmRefused, Release, WritePayload, CountArmed, SetBit
  <2>2. reg' \in [Tokens -> RegStates]
    BY <1>2 DEF RegisterHost, RegisterWrite, Claim, ClaimExhausted, ResetFlag, Arm,
       ArmRefused, Release, WritePayload, CountArmed, SetBit, RegStep, RegStates
  <2>3. /\ reg[t] # "published" /\ \A u \in Tokens : u # t => reg'[u] = reg[u]
        /\ reg[t] = "counted" => reg'[t] = "published"
    BY <1>2 DEF RegisterHost, RegisterWrite, Claim, ClaimExhausted, ResetFlag, Arm,
       ArmRefused, Release, WritePayload, CountArmed, SetBit, RegStep
  <2>4. CASE CountArmed(t)
    <3>1. /\ reg[t] = "paid" /\ reg'[t] = "counted" /\ nArmed' = nArmed + 1
          /\ wasIdle' = [wasIdle EXCEPT ![t] = (nArmed = 0)]
      BY <2>4 DEF CountArmed, RegStep
    <3>2. /\ wasIdle' \in [Tokens -> BOOLEAN] /\ (nArmed = 0 => wasIdle'[t])
          /\ \A u \in Tokens : u # t => wasIdle'[u] = wasIdle[u]
      BY <3>1
    <3>3. \A u \in unparked : u # t
      BY <3>1
    <3>4. NoSleepOnArmed'
      <4>1. SUFFICES ASSUME loop' = "park", ~parkToken', nArmed' > 0
                     PROVE  \E u \in Tokens : /\ reg'[u] \in {"counted", "published"}
                                              /\ wasIdle'[u] /\ u \notin unparked'
        BY DEF NoSleepOnArmed
      <4>2. CASE nArmed = 0
        BY <2>1, <3>1, <3>2, <3>3, <4>2
      <4>3. CASE nArmed # 0
        <5>1. nArmed > 0 /\ loop = "park" /\ ~parkToken
          BY <2>1, <4>1, <4>3
        <5>2. PICK u \in Tokens : /\ reg[u] \in {"counted", "published"}
                                  /\ wasIdle[u] /\ u \notin unparked
          BY <5>1 DEF NoSleepOnArmed
        <5>3. u # t
          BY <3>1, <5>2
        <5> QED BY <2>1, <2>3, <3>2, <5>2, <5>3
      <4> QED BY <4>2, <4>3
    <3>5. loop' = "park" => nArmed' \in Nat
      BY <2>1, <3>1
    <3>6. \A u \in unparked' : reg'[u] = "published"
      <4>1. reg' = [reg EXCEPT ![t] = "counted"]
        BY <2>4 DEF CountArmed, RegStep
      <4> QED BY <2>1, <3>3, <4>1
    <3> QED BY <2>1, <2>2, <3>2, <3>4, <3>5, <3>6
  <2>5. CASE ~CountArmed(t)
    <3>1. UNCHANGED <<wasIdle, nArmed>>
      BY <1>2, <2>5 DEF RegisterHost, RegisterWrite, Claim, ClaimExhausted, ResetFlag, Arm,
         ArmRefused, Release, WritePayload, SetBit
    <3>2. NoSleepOnArmed'
      BY <2>1, <2>3, <3>1 DEF NoSleepOnArmed
    <3>3. \E to : reg' = [reg EXCEPT ![t] = to]
      BY <1>2, <2>5 DEF RegisterHost, RegisterWrite, Claim, ClaimExhausted, ResetFlag, Arm,
         ArmRefused, Release, WritePayload, SetBit, RegStep
    <3>4. \A u \in unparked' : reg'[u] = "published"
      BY <2>1, <2>3, <3>3
    <3> QED BY <2>1, <2>2, <3>1, <3>2, <3>4
  <2> QED BY <2>4, <2>5
<1> QED BY <1>1, <1>2 DEF Register

\* The scanner parks only after it has read 0.
LEMMA ParkStep ==
  ASSUME ParkInv, [RNext]_rvars
  PROVE  ParkInv'
<1> USE DEF ParkInv, loopVars, deviceVars, vars, scanVars, tableVars, regVars
<1>1. ASSUME NEW t \in Tokens, Register(t) PROVE ParkInv'
  BY <1>1, ParkRegister
<1>2. CASE \/ \E t \in Tokens : DeviceWrite(t)
           \/ \E c \in Contexts : DeviceFault(c) \/ RecordErr(c) \/ OtherBind(c)
  <2>1. UNCHANGED <<reg, wasIdle, unparked, loop, scan, nArmed, parkToken>>
    BY <1>2 DEF DeviceWrite, DeviceFault, RecordErr, OtherBind, FlagWrite, FlagWritesLost
  <2> QED BY <2>1 DEF NoSleepOnArmed
<1>3. CASE ScanPass \/ ProbeStep
  <2>1. UNCHANGED <<reg, wasIdle, unparked, loop>>
    BY <1>3 DEF ScanPass, PassStep, ProbeStep, LoadWord, WordDone, LoadFlag, ClearBit,
       TakePayload, WordsDone, Recycle, CountRetired, ProbeMemo, ProbeBindFails, ProbeBinds,
       ProbeQuery, Answer, ProbeSlot
  <2>2. loop \in {"scan", "probe"}
    BY <1>3 DEF ScanPass, ProbeStep, ProbeMemo, ProbeBindFails, ProbeBinds, ProbeQuery,
       Probing
  <2> QED BY <2>1, <2>2 DEF NoSleepOnArmed
<1>4. CASE \/ StartScan \/ ScanReturns \/ SignalsDone \/ GateArmed \/ SlowSkip \/ SlowProbe
           \/ ProbeReturns \/ AnswersDone \/ Unparked \/ SpuriousUnpark
           \/ \E t \in Tokens : SignalNext(t) \/ WakeNext(t)
  <2>1. UNCHANGED <<reg, wasIdle, unparked>>
    BY <1>4 DEF StartScan, ScanReturns, SignalsDone, GateArmed, SlowSkip, SlowProbe,
       ProbeReturns, AnswersDone, Unparked, SpuriousUnpark, SignalNext, WakeNext, StartPass
  <2>2. loop' # "park" /\ (loop' \notin {"scan", "probe"} => scan' = "idle")
    BY <1>4 DEF StartScan, ScanReturns, SignalsDone, GateArmed, SlowSkip, SlowProbe,
       ProbeReturns, AnswersDone, Unparked, SpuriousUnpark, SignalNext, WakeNext, StartPass
  <2> QED BY <2>1, <2>2 DEF NoSleepOnArmed
<1>5. CASE GateIdle
  BY <1>5 DEF GateIdle, NoSleepOnArmed
<1>6. CASE UNCHANGED rvars
  BY <1>6 DEF rvars, NoSleepOnArmed
<1> QED BY <1>1, <1>2, <1>3, <1>4, <1>5, <1>6 DEF RNext, ScannerRuns

\* A parked scanner is never left asleep on an armed slot, whatever errors
\* other threads record and however the probe reads them.
THEOREM NoSleep == RSpec => []NoSleepOnArmed
<1>1. RInit => ParkInv
  BY DEF RInit, Init, ParkInv, NoSleepOnArmed, RegStates
<1>2. ParkInv => NoSleepOnArmed
  BY DEF ParkInv
<1> QED BY <1>1, <1>2, ParkStep, PTL DEF RSpec

-----------------------------------------------------------------------------
(* The table, whatever the probe answers.                                  *)

\* ProbeMemo, ProbeBindFails, ProbeQuery: the steps in which is_dead answers.
Answers(s) == ProbeMemo(s) \/ ProbeBindFails(s) \/ ProbeQuery(s)

\* Apart from the answers of is_dead, every step of the reactor is a step of
\* the slot-table protocol or leaves the table alone.
LEMMA OtherSteps ==
  ASSUME [RNext]_rvars, \A s \in Streams : ~Answers(s)
  PROVE  [Next]_vars
<1>1. ASSUME NEW t \in Tokens, Register(t) PROVE [Next]_vars
  <2>1. CASE RegisterHost(t)
    BY <2>1 DEF RegisterHost, RegisterStep, Next
  <2>2. CASE RegisterWrite(t)
    BY <2>2 DEF RegisterWrite, RegisterStep, Next
  <2>3. CASE RegisterReturn(t)
    BY <2>3 DEF RegisterReturn
  <2> QED BY <1>1, <2>1, <2>2, <2>3 DEF Register
<1>2. ASSUME NEW t \in Tokens, DeviceWrite(t) PROVE [Next]_vars
  BY <1>2 DEF DeviceWrite, Next
<1>3. ASSUME NEW c \in Contexts, DeviceFault(c) PROVE [Next]_vars
  <2>1. {t \in Tokens : Ctx(t) = c /\ write[t] = "queued"} \in SUBSET Tokens
    OBVIOUS
  <2> QED BY <1>3, <2>1 DEF DeviceFault, Next
<1>4. ASSUME NEW c \in Contexts, RecordErr(c) \/ OtherBind(c) PROVE [Next]_vars
  BY <1>4 DEF RecordErr, OtherBind
<1>5. CASE StartScan \/ SlowProbe \/ ScanPass
  BY <1>5 DEF StartScan, SlowProbe, ScanPass, ScannerStep, Next
<1>6. CASE \/ ScanReturns \/ SignalsDone \/ GateIdle \/ GateArmed \/ SlowSkip
           \/ ProbeReturns \/ AnswersDone \/ Unparked \/ SpuriousUnpark
           \/ \E t \in Tokens : SignalNext(t) \/ WakeNext(t)
           \/ \E s \in Streams : ProbeBinds(s)
  BY <1>6 DEF ScanReturns, SignalsDone, GateIdle, GateArmed, SlowSkip, ProbeReturns,
     AnswersDone, Unparked, SpuriousUnpark, SignalNext, WakeNext, ProbeBinds
<1>7. CASE UNCHANGED rvars
  BY <1>7 DEF rvars
<1> QED BY <1>1, <1>2, <1>3, <1>4, <1>5, <1>6, <1>7
     DEF RNext, ScannerRuns, ProbeStep, Answers

\* Whatever is_dead answers, the step is one that the table survives.
LEMMA AnyStep ==
  ASSUME [RNext]_rvars
  PROVE  [TableNext]_vars
<1>1. ASSUME NEW s \in Streams, Answers(s) PROVE TableNext
  <2>1. ProbeSlot(TRUE) \/ ProbeSlot(FALSE)
    BY <1>1 DEF Answers, ProbeMemo, ProbeBindFails, ProbeQuery, Answer, ProbeSlot
  <2> QED BY <2>1 DEF TableNext, ProbeAlive, ScannerStep, Next
<1> QED BY <1>1, OtherSteps DEF TableNext

\* The table's discipline holds in the reactor whatever errors other threads
\* record and however its probe misreads them: each index has one owner, each
\* payload leaves the table once, no cell is shared, the counter is exact.
THEOREM SoundDespiteMisreads ==
  RSpec => [](SlotOwnedOnce /\ DeliveredOnce /\ PayloadExclusive /\ NoUnderflow)
<1>1. RInit => TableInv
  BY InitInv DEF RInit, IndInv
<1>2. TableInv /\ [RNext]_rvars => TableInv'
  BY AnyStep, TableStep
<1>3. TableInv => SlotOwnedOnce /\ DeliveredOnce /\ PayloadExclusive /\ NoUnderflow
  BY ExclusiveCell, SoundCounter DEF TableInv, CoreInv, StageInv, DeliveredOnce
<1> QED BY <1>1, <1>2, <1>3, PTL DEF RSpec

-----------------------------------------------------------------------------
(* The slot-table protocol.                                                *)

\* No query of the probe meets a deferred error, which it would report as the
\* stream's own.
NoMisread == \A s \in Streams : ProbeQuery(s) => ContextOf[s] \notin errState

\* Only registrations of dead contexts are taken for dead, and nothing of a
\* dead context is queued any more.
DeadInv ==
  /\ memo \in [Streams -> {"unknown", "alive", "dead"}]
  /\ notice \in [Tokens -> {"none", "signalled", "woken"}]
  /\ \A s \in Streams : memo[s] = "dead" => ContextOf[s] \in faulted
  /\ \A t \in Tokens : Ctx(t) \in faulted => write[t] # "queued"
  /\ \A t \in Tokens : dead[t] > 0 => Ctx(t) \in faulted
  /\ scan \in {"clear", "take"} /\ ~landed => Ctx(payload[cur]) \in faulted

\* What the probe answers: dead only on a dead context.
LEMMA ProbeAnswer ==
  ASSUME IndInv, DeadInv, NoMisread, NEW s \in Streams,
         ProbeMemo(s) \/ ProbeBindFails(s) \/ ProbeQuery(s)
  PROVE  /\ scan = "probe" /\ s = StreamOf[payload[cur]]
         /\ \/ ProbeSlot(FALSE) /\ (memo' = memo \/ memo' = [memo EXCEPT ![s] = "alive"])
            \/ /\ ProbeSlot(TRUE) /\ ContextOf[s] \in faulted
               /\ memo' = memo \/ memo' = [memo EXCEPT ![s] = "dead"]
<1>0. scan = "probe" /\ s = StreamOf[payload[cur]]
  BY DEF ProbeMemo, ProbeBindFails, ProbeQuery, Probing
<1>1. CASE ProbeMemo(s)
  <2>1. memo' = memo /\ ProbeSlot(memo[s] = "dead")
    BY <1>1 DEF ProbeMemo, loopVars
  <2>2. CASE memo[s] = "dead"
    <3>1. ProbeSlot(TRUE)
      BY <2>1, <2>2 DEF ProbeSlot
    <3> QED BY <1>0, <2>1, <2>2, <3>1 DEF DeadInv
  <2>3. CASE memo[s] # "dead"
    <3>1. ProbeSlot(FALSE)
      BY <2>1, <2>3 DEF ProbeSlot
    <3> QED BY <1>0, <2>1, <3>1
  <2> QED BY <2>2, <2>3
<1>2. CASE ProbeBindFails(s)
  BY <1>0, <1>2 DEF ProbeBindFails, Answer
<1>3. CASE ProbeQuery(s)
  <2>1. Answer(s, ContextOf[s] \in faulted \cup errState) /\ ContextOf[s] \notin errState
    BY <1>3 DEF ProbeQuery, NoMisread
  <2>2. CASE ContextOf[s] \in faulted
    <3>1. ProbeSlot(TRUE) /\ memo' = [memo EXCEPT ![s] = "dead"]
      BY <2>1, <2>2 DEF Answer, ProbeSlot
    <3> QED BY <1>0, <2>2, <3>1
  <2>3. CASE ContextOf[s] \notin faulted
    <3>1. ProbeSlot(FALSE) /\ memo' = [memo EXCEPT ![s] = "alive"]
      BY <2>1, <2>3 DEF Answer, ProbeSlot
    <3> QED BY <1>0, <3>1
  <2> QED BY <2>2, <2>3
<1> QED BY <1>1, <1>2, <1>3

\* Every step of the reactor is a step of the slot-table protocol or leaves
\* the table alone.
LEMMA ProtocolStep ==
  ASSUME IndInv, DeadInv, [RNext]_rvars, [NoMisread]_rvars
  PROVE  [Next]_vars
<1>1. ASSUME NEW s \in Streams, Answers(s), NoMisread
      PROVE  [Next]_vars
  <2>1. /\ scan = "probe" /\ s = StreamOf[payload[cur]]
        /\ ProbeSlot(FALSE) \/ (ProbeSlot(TRUE) /\ ContextOf[s] \in faulted)
    BY <1>1, ProbeAnswer DEF Answers
  <2>2. payload[cur] \in Tokens /\ write[payload[cur]] # "none"
    BY <2>1, CurrentOwner DEF IndInv, TableInv
  <2>3. CASE ProbeSlot(FALSE)
    BY <2>3 DEF ProbeAlive, ScannerStep, Next
  <2>4. CASE ProbeSlot(TRUE) /\ ContextOf[s] \in faulted
    <3>1. write[payload[cur]] # "queued"
      BY <2>1, <2>2, <2>4 DEF DeadInv, Ctx
    <3>2. write[payload[cur]] \in {"landed", "lost"}
      BY <2>2, <3>1 DEF IndInv, TableInv, CoreInv, TypeOK
    <3>3. ProbeDead
      BY <2>2, <2>4, <3>2, NoneAssumption DEF ProbeDead
    <3> QED BY <3>3 DEF ScannerStep, Next
  <2> QED BY <2>1, <2>3, <2>4
<1>2. CASE UNCHANGED rvars
  BY <1>2 DEF rvars
<1> QED BY <1>1, <1>2, OtherSteps

\* The registrations taken for dead are those of dead contexts.
LEMMA DeadStep ==
  ASSUME IndInv, DeadInv, [RNext]_rvars, [NoMisread]_rvars
  PROVE  DeadInv'
<1> USE DEF loopVars, deviceVars, vars, scanVars, tableVars, regVars
<1>0. /\ write \in [Tokens -> {"none", "queued", "landed", "lost"}]
      /\ payload \in [Slots -> Tokens \cup {None}] /\ dead \in [Tokens -> Nat]
  BY DEF IndInv, TableInv, CoreInv, TypeOK
<1>a. ASSUME memo' = memo \/ memo' = [x \in Streams |-> "unknown"],
             UNCHANGED <<notice, faulted, dead, cur>>,
             \A t \in Tokens : write'[t] # "queued" \/ write'[t] = write[t],
             \/ scan' \notin {"clear", "take"} \/ landed'
             \/ UNCHANGED <<scan, landed, payload>>
      PROVE  DeadInv'
  BY <1>a DEF DeadInv, Ctx
<1>1. ASSUME NEW t \in Tokens, Register(t) PROVE DeadInv'
  <2>1. CASE RegisterReturn(t)
    BY <1>a, <2>1 DEF RegisterReturn
  <2>2. CASE RegisterHost(t) /\ ~WritePayload(t)
    <3>1. UNCHANGED <<memo, notice, faulted, dead, cur, write, scan, landed, payload>>
      BY <2>2 DEF RegisterHost, Claim, ClaimExhausted, ResetFlag, ArmRefused, Release,
         CountArmed, SetBit
    <3> QED BY <1>a, <3>1
  <2>3. CASE RegisterHost(t) /\ WritePayload(t)
    <3>1. /\ UNCHANGED <<memo, notice, faulted, dead, cur, write, scan, landed>>
          /\ payload' = [payload EXCEPT ![slot[t]] = t] /\ reg[t] = "armed"
      BY <2>3 DEF RegisterHost, WritePayload, RegStep
    <3>2. scan \in {"clear", "take"} => payload'[cur] = payload[cur]
      BY <1>0, <3>1, CurrentOwner DEF IndInv, TableInv
    <3> QED BY <3>1, <3>2 DEF DeadInv, Ctx
  <2>4. CASE RegisterWrite(t)
    <3>1. /\ UNCHANGED <<memo, notice, faulted, dead, cur, scan, landed, payload>>
          /\ Ctx(t) \notin faulted /\ write' = [write EXCEPT ![t] = "queued"]
      BY <2>4 DEF RegisterWrite, Arm
    <3>2. \A u \in Tokens : Ctx(u) \in faulted => write'[u] = write[u]
      BY <1>0, <3>1
    <3> QED BY <3>1, <3>2 DEF DeadInv, Ctx
  <2> QED BY <1>1, <2>1, <2>2, <2>3, <2>4 DEF Register
<1>2. ASSUME NEW t \in Tokens, DeviceWrite(t) PROVE DeadInv'
  <2>1. /\ UNCHANGED <<memo, notice, faulted, dead, cur, scan, landed, payload>>
        /\ write' = [write EXCEPT ![t] = "landed"]
    BY <1>2 DEF DeviceWrite, FlagWrite
  <2> QED BY <1>0, <1>a, <2>1
<1>3. ASSUME NEW c \in Contexts, DeviceFault(c) PROVE DeadInv'
  <2>1. /\ UNCHANGED <<memo, notice, dead, cur, scan, landed, payload>>
        /\ faulted' = faulted \cup {c}
        /\ \A t \in Tokens : write'[t] = IF Ctx(t) = c /\ write[t] = "queued" THEN "lost"
                                         ELSE write[t]
    BY <1>3 DEF DeviceFault, FlagWritesLost
  <2> QED BY <2>1 DEF DeadInv, Ctx
<1>4. ASSUME NEW c \in Contexts, RecordErr(c) \/ OtherBind(c) PROVE DeadInv'
  BY <1>a, <1>4 DEF RecordErr, OtherBind
<1>5. CASE StartScan \/ SlowProbe
  BY <1>a, <1>5 DEF StartScan, SlowProbe, StartPass
<1>6. CASE ScanPass
  <2>0. UNCHANGED <<memo, notice, faulted>>
    BY <1>6 DEF ScanPass
  <2>1. CASE LoadWord \/ WordDone \/ WordsDone \/ Recycle \/ CountRetired
    BY <1>a, <2>0, <2>1 DEF LoadWord, WordDone, WordsDone, Recycle, CountRetired
  <2>2. ASSUME NEW s \in Slots, LoadFlag(s) PROVE DeadInv'
    <3>1. /\ UNCHANGED <<dead, write, payload>>
          /\ scan' \notin {"clear", "take"} \/ landed'
      BY <2>2 DEF LoadFlag, IndInv, TableInv, CoreInv, TypeOK
    <3> QED BY <2>0, <3>1 DEF DeadInv, Ctx
  <2>3. CASE ClearBit
    BY <2>0, <2>3 DEF ClearBit, DeadInv, Ctx
  <2>4. CASE TakePayload
    <3>1. scan = "take" /\ scan' = "bits" /\ write' = write
      BY <2>4 DEF TakePayload
    <3>2. \A t \in Tokens : dead'[t] > 0 => dead[t] > 0 \/ (t = payload[cur] /\ ~landed)
      BY <1>0, <2>4 DEF TakePayload
    <3> QED BY <2>0, <3>1, <3>2 DEF DeadInv, Ctx
  <2> QED BY <1>6, <2>1, <2>2, <2>3, <2>4 DEF ScanPass, PassStep
<1>7. CASE \/ ScanReturns \/ SignalsDone \/ GateIdle \/ GateArmed \/ SlowSkip
           \/ ProbeReturns \/ AnswersDone \/ Unparked \/ SpuriousUnpark
           \/ \E s \in Streams : ProbeBinds(s)
           \/ UNCHANGED rvars
  <2>1. UNCHANGED <<memo, notice, faulted, dead, cur, write, scan, landed, payload>>
    BY <1>7 DEF ScanReturns, SignalsDone, GateIdle, GateArmed, SlowSkip, ProbeReturns,
       AnswersDone, Unparked, SpuriousUnpark, ProbeBinds, rvars
  <2> QED BY <1>a, <2>1
<1>8. ASSUME NEW t \in Tokens, SignalNext(t) \/ WakeNext(t) PROVE DeadInv'
  <2>1. UNCHANGED <<memo, faulted, dead, cur, write, scan, landed, payload>>
    BY <1>8 DEF SignalNext, WakeNext
  <2>2. notice' \in [Tokens -> {"none", "signalled", "woken"}]
    BY <1>8 DEF SignalNext, WakeNext, DeadInv
  <2> QED BY <2>1, <2>2 DEF DeadInv, Ctx
<1>9. ASSUME NEW s \in Streams, ProbeMemo(s) \/ ProbeBindFails(s) \/ ProbeQuery(s), NoMisread
      PROVE  DeadInv'
  <2>1. /\ scan = "probe" /\ s = StreamOf[payload[cur]]
        /\ \/ ProbeSlot(FALSE) /\ (memo' = memo \/ memo' = [memo EXCEPT ![s] = "alive"])
           \/ /\ ProbeSlot(TRUE) /\ ContextOf[s] \in faulted
              /\ memo' = memo \/ memo' = [memo EXCEPT ![s] = "dead"]
    BY <1>9, ProbeAnswer
  <2>2. UNCHANGED <<notice, faulted, dead, cur, write, landed, payload>>
    BY <1>9 DEF ProbeMemo, ProbeBindFails, ProbeQuery, Answer, ProbeSlot
  <2>3. CASE ProbeSlot(FALSE) /\ (memo' = memo \/ memo' = [memo EXCEPT ![s] = "alive"])
    <3>1. scan' = "bits"
      BY <2>3 DEF ProbeSlot
    <3> QED BY <2>2, <2>3, <3>1 DEF DeadInv, Ctx
  <2>4. CASE /\ ProbeSlot(TRUE) /\ ContextOf[s] \in faulted
             /\ memo' = memo \/ memo' = [memo EXCEPT ![s] = "dead"]
    BY <2>1, <2>2, <2>4 DEF DeadInv, Ctx
  <2> QED BY <2>1, <2>3, <2>4
<1> QED BY <1>1, <1>2, <1>3, <1>4, <1>5, <1>6, <1>7, <1>8, <1>9
        DEF RNext, ScannerRuns, ProbeStep

\* The reactor's invariant: that of the slot table, and that the probe tells
\* the truth.
THEOREM ReactorInvariance == RSpec /\ [][NoMisread]_rvars => [](IndInv /\ DeadInv)
<1>1. RInit => IndInv /\ DeadInv
  <2>1. RInit => DeadInv
    BY DEF RInit, Init, DeadInv
  <2> QED BY <2>1, InitInv DEF RInit
<1>2. IndInv /\ DeadInv /\ [RNext]_rvars /\ [NoMisread]_rvars => (IndInv /\ DeadInv)'
  BY ProtocolStep, DeadStep, NextInv
<1> QED BY <1>1, <1>2, PTL DEF RSpec

\* The reactor implements the slot-table protocol as long as no query of its
\* probe meets a deferred error: it keeps the contract of is_dead.
THEOREM ImplementsTable == RSpec /\ [][NoMisread]_rvars => ImplementsSlotTable
<1>1. RInit => Init
  BY DEF RInit
<1> QED BY <1>1, ProtocolStep, ReactorInvariance, PTL DEF RSpec, Spec, ImplementsSlotTable

-----------------------------------------------------------------------------
(* The Notifier.                                                           *)

\* The work of a registration, read off its state and that of its write.
WorkReads(t) ==
  /\ WorkOf(t) = "refused" <=> reg[t] = "failed"
  /\ WorkOf(t) = "pending" <=> write[t] = "queued"
  /\ WorkOf(t) = "done"    <=> write[t] = "landed"
  /\ WorkOf(t) = "faulted" <=> write[t] = "lost"
  /\ WorkOf(t) = "new"     <=> write[t] = "none" /\ reg[t] # "failed"

\* A refused registration has no write, so the cases exclude each other.
LEMMA WorkIs == (TypeOK /\ StageInv) => \A t \in Tokens : WorkReads(t)
<1> SUFFICES ASSUME TypeOK, StageInv, NEW t \in Tokens PROVE WorkReads(t)
  OBVIOUS
<1>1. write[t] \in {"none", "queued", "landed", "lost"}
  BY DEF TypeOK
<1>2. reg[t] = "failed" => write[t] = "none"
  BY DEF StageInv
<1> QED BY <1>1, <1>2 DEF WorkOf, WorkReads

\* Every step of the reactor is a step of the Notifier or invisible to it.
LEMMA NotifierStep ==
  ASSUME IndInv, DeadInv, [RNext]_rvars, IndInv'
  PROVE  [N!Next]_(N!vars)
<1> USE DEF loopVars, deviceVars, vars, scanVars, tableVars, regVars
<1>0. /\ write \in [Tokens -> {"none", "queued", "landed", "lost"}]
      /\ reg \in [Tokens -> RegStates]
      /\ notice \in [Tokens -> {"none", "signalled", "woken"}]
  BY DEF IndInv, TableInv, CoreInv, TypeOK, DeadInv
<1>1. \A t \in Tokens : WorkReads(t)
  BY WorkIs DEF IndInv, TableInv, CoreInv
<1>2. \A t \in Tokens : WorkReads(t)'
  <2> SUFFICES ASSUME NEW t \in Tokens PROVE WorkReads(t)'
    OBVIOUS
  <2>1. write'[t] \in {"none", "queued", "landed", "lost"}
    BY DEF IndInv, TableInv, CoreInv, TypeOK
  <2>2. reg'[t] = "failed" => write'[t] = "none"
    BY DEF IndInv, TableInv, CoreInv, StageInv
  <2> QED BY <2>1, <2>2 DEF WorkOf, WorkReads
<1>3. ASSUME UNCHANGED <<faulted, notice>>,
             \A t \in Tokens : reg'[t] = reg[t] /\ write'[t] = write[t]
      PROVE  UNCHANGED N!vars
  <2>1. \A t \in Tokens : WorkOf(t)' = WorkOf(t)
    BY <1>3 DEF WorkOf
  <2> QED BY <1>3, <2>1 DEF N!vars
<1>4. ASSUME UNCHANGED <<faulted, notice>>, NEW t \in Tokens, NEW from, NEW to,
             \A u \in Tokens : u # t => reg'[u] = reg[u] /\ write'[u] = write[u],
             WorkOf(t) = from, WorkOf(t)' = to
      PROVE  N!Become(t, from, to)
  <2>1. \A u \in Tokens : u # t => WorkOf(u)' = WorkOf(u)
    BY <1>4 DEF WorkOf
  <2> QED BY <1>4, <2>1 DEF N!Become
<1>5. ASSUME NEW t \in Tokens, Register(t) PROVE [N!Next]_(N!vars)
  <2>0. UNCHANGED <<faulted, notice>> /\ \A u \in Tokens : u # t => reg'[u] = reg[u]
    BY <1>0, <1>5 DEF Register, RegisterHost, RegisterWrite, RegisterReturn, Claim,
       ClaimExhausted, ResetFlag, Arm, ArmRefused, Release, WritePayload, CountArmed, SetBit,
       RegStep
  <2>1. CASE ClaimExhausted(t) \/ Release(t)
    <3>1. write' = write /\ reg[t] \in {"start", "releasing"} /\ reg'[t] = "failed"
      BY <1>0, <2>1 DEF ClaimExhausted, Release, RegStep
    <3>2. write[t] = "none"
      BY <3>1 DEF IndInv, TableInv, CoreInv, StageInv
    <3>3. WorkOf(t) = "new" /\ WorkOf(t)' = "refused"
      BY <1>1, <1>2, <3>1, <3>2 DEF WorkReads
    <3>4. N!Become(t, "new", "refused")
      BY <1>4, <2>0, <3>1, <3>3
    <3> QED BY <3>4 DEF N!Next, N!Refuse
  <2>2. CASE RegisterWrite(t)
    <3>1. /\ reg[t] = "reset" /\ reg'[t] = "armed" /\ Ctx(t) \notin faulted
          /\ write' = [write EXCEPT ![t] = "queued"]
      BY <1>0, <2>2 DEF RegisterWrite, Arm, RegStep
    <3>2. write[t] = "none"
      BY <3>1 DEF IndInv, TableInv, CoreInv, StageInv
    <3>3. WorkOf(t) = "new" /\ WorkOf(t)' = "pending"
      BY <1>0, <1>1, <1>2, <3>1, <3>2 DEF WorkReads
    <3>4. N!Become(t, "new", "pending")
      BY <1>0, <1>4, <2>0, <3>1, <3>3
    <3> QED BY <3>1, <3>4 DEF N!Next, N!Submit
  <2>3. CASE RegisterReturn(t)
    BY <1>3, <2>3 DEF RegisterReturn
  <2>4. CASE RegisterHost(t) /\ ~ClaimExhausted(t) /\ ~Release(t)
    <3>1. /\ write' = write /\ reg[t] # "failed" /\ reg'[t] # "failed"
      BY <1>0, <2>4 DEF RegisterHost, Claim, ResetFlag, ArmRefused, WritePayload, CountArmed,
         SetBit, RegStep
    <3>2. \A u \in Tokens : WorkOf(u)' = WorkOf(u)
      BY <2>0, <3>1 DEF WorkOf
    <3> QED BY <2>0, <3>2 DEF N!vars
  <2> QED BY <1>5, <2>1, <2>2, <2>3, <2>4 DEF Register
<1>6. ASSUME NEW t \in Tokens, DeviceWrite(t) PROVE [N!Next]_(N!vars)
  <2>1. /\ UNCHANGED <<faulted, notice, reg>> /\ write[t] = "queued"
        /\ write' = [write EXCEPT ![t] = "landed"]
    BY <1>6 DEF DeviceWrite, FlagWrite
  <2>2. WorkOf(t) = "pending" /\ WorkOf(t)' = "done"
    BY <1>0, <1>1, <1>2, <2>1 DEF WorkReads
  <2>3. N!Become(t, "pending", "done")
    BY <1>0, <1>4, <2>1, <2>2
  <2> QED BY <2>3 DEF N!Next, N!Finish
<1>7. ASSUME NEW c \in Contexts, DeviceFault(c) PROVE [N!Next]_(N!vars)
  <2> DEFINE ctx == {t \in Tokens : Ctx(t) = c}
  <2>1. /\ UNCHANGED <<reg, notice>> /\ faulted' = faulted \cup {c}
        /\ \A t \in Tokens : write'[t] = IF t \in ctx /\ write[t] = "queued" THEN "lost"
                                         ELSE write[t]
    BY <1>7 DEF DeviceFault, FlagWritesLost
  <2>2. \A t \in Tokens :
          WorkOf(t)' = IF t \in ctx /\ WorkOf(t) = "pending" THEN "faulted" ELSE WorkOf(t)
    <3> SUFFICES ASSUME NEW t \in Tokens
                 PROVE  WorkOf(t)' = IF t \in ctx /\ WorkOf(t) = "pending" THEN "faulted"
                                     ELSE WorkOf(t)
      OBVIOUS
    <3>1. CASE t \in ctx /\ write[t] = "queued"
      <4>1. write'[t] = "lost" /\ WorkOf(t) = "pending"
        BY <1>1, <2>1, <3>1 DEF WorkReads
      <4>2. WorkOf(t)' = "faulted"
        BY <1>2, <4>1 DEF WorkReads
      <4> QED BY <3>1, <4>1, <4>2
    <3>2. CASE ~(t \in ctx /\ write[t] = "queued")
      <4>1. write'[t] = write[t] /\ reg'[t] = reg[t]
        BY <2>1, <3>2
      <4>2. WorkOf(t)' = WorkOf(t)
        BY <4>1 DEF WorkOf
      <4>3. ~(t \in ctx /\ WorkOf(t) = "pending")
        BY <1>1, <3>2 DEF WorkReads
      <4> QED BY <4>2, <4>3
    <3> QED BY <3>1, <3>2
  <2>3. {t \in Tokens : Ctx(t) \in faulted'} = {t \in Tokens : Ctx(t) \in faulted} \cup ctx
    BY <2>1
  <2>4. ctx \in SUBSET Tokens
    OBVIOUS
  <2> HIDE DEF ctx
  <2>5. N!Fault(ctx)
    BY <2>1, <2>2, <2>3, <2>4 DEF N!Fault, Ctx
  <2> QED BY <2>4, <2>5 DEF N!Next
<1>8. ASSUME NEW t \in Tokens, SignalNext(t) PROVE [N!Next]_(N!vars)
  <2>1. /\ UNCHANGED <<reg, write, faulted>> /\ woken[t] > 0 /\ notice[t] = "none"
        /\ notice' = [notice EXCEPT ![t] = "signalled"]
    BY <1>8 DEF SignalNext, ToSignal
  <2>2. WorkOf(t) = "done"
    BY <1>1, <2>1 DEF WorkReads, IndInv, TruthInv, SettledInv, SignalOnlyIfLanded
  <2>3. \A u \in Tokens : WorkOf(u)' = WorkOf(u)
    BY <2>1 DEF WorkOf
  <2>4. N!Signal(t)
    BY <2>1, <2>2, <2>3 DEF N!Signal, N!Tell
  <2> QED BY <2>4 DEF N!Next
<1>9. ASSUME NEW t \in Tokens, WakeNext(t) PROVE [N!Next]_(N!vars)
  <2>1. /\ UNCHANGED <<reg, write, faulted>> /\ dead[t] > 0 /\ notice[t] = "none"
        /\ notice' = [notice EXCEPT ![t] = "woken"]
    BY <1>9 DEF WakeNext, ToWake
  <2>2. WorkOf(t) \in {"done", "faulted"}
    BY <1>1, <2>1 DEF WorkReads, IndInv, TruthInv, SettledInv, SignalOnlyIfLanded
  <2>3. Ctx(t) \in faulted
    BY <2>1 DEF DeadInv
  <2>4. \A u \in Tokens : WorkOf(u)' = WorkOf(u)
    BY <2>1 DEF WorkOf
  <2>5. N!Wake(t)
    BY <2>1, <2>2, <2>3, <2>4 DEF N!Wake, N!Tell
  <2> QED BY <2>5 DEF N!Next
<1>10. CASE \/ StartScan \/ ScanPass \/ ScanReturns \/ SignalsDone \/ GateIdle
            \/ GateArmed \/ Unparked \/ SlowSkip \/ SlowProbe \/ ProbeStep
            \/ ProbeReturns \/ AnswersDone \/ SpuriousUnpark
            \/ \E c \in Contexts : RecordErr(c) \/ OtherBind(c)
            \/ UNCHANGED rvars
  <2>1. UNCHANGED <<reg, write, faulted, notice>>
    <3>1. CASE ScanPass
      BY <3>1 DEF ScanPass, PassStep, LoadWord, WordDone, LoadFlag, ClearBit, TakePayload,
         WordsDone, Recycle, CountRetired
    <3>2. CASE ProbeStep
      BY <3>2 DEF ProbeStep, ProbeMemo, ProbeBindFails, ProbeBinds, ProbeQuery, Answer,
         ProbeSlot
    <3>3. CASE ~ScanPass /\ ~ProbeStep
      BY <1>10, <3>3 DEF StartScan, ScanReturns, SignalsDone, GateIdle, GateArmed, Unparked,
         SlowSkip, SlowProbe, ProbeReturns, AnswersDone, SpuriousUnpark, RecordErr, OtherBind,
         StartPass, rvars
    <3> QED BY <3>1, <3>2, <3>3
  <2> QED BY <1>3, <2>1
<1> QED BY <1>5, <1>6, <1>7, <1>8, <1>9, <1>10 DEF RNext, ScannerRuns

\* Each registration gets one notice and the right one: signalled only when
\* its work is done, woken only when its context is down.
THEOREM ImplementsNotices ==
  RSpec /\ [][NoMisread]_rvars => N!Init /\ [][N!Next]_(N!vars)
<1>1. RInit => N!Init
  <2> SUFFICES ASSUME RInit PROVE N!Init
    OBVIOUS
  <2>1. \A t \in Tokens : WorkOf(t) = "new"
    BY DEF RInit, Init, WorkOf
  <2> QED BY <2>1 DEF RInit, N!Init
<1> QED BY <1>1, NotifierStep, ReactorInvariance, PTL DEF RSpec

-----------------------------------------------------------------------------
(* A process in which nothing records a deferred error.                    *)

\* Without deferred errors no query misreads one.
LEMMA NothingToMisread ==
  MaxDeferred = 0 => (RSpec => [][NoMisread]_rvars)
<1> DEFINE Quiet == errState = {} /\ deferred = 0
<1> SUFFICES ASSUME MaxDeferred = 0 PROVE RSpec => [][NoMisread]_rvars
  OBVIOUS
<1>1. RInit => Quiet
  BY DEF RInit
<1>2. Quiet /\ [RNext]_rvars => Quiet'
  <2> SUFFICES ASSUME Quiet, [RNext]_rvars PROVE Quiet'
    OBVIOUS
  <2>1. CASE \E c \in Contexts : RecordErr(c) \/ OtherBind(c)
    BY <2>1 DEF RecordErr, OtherBind
  <2>2. CASE ProbeStep
    BY <2>2 DEF ProbeStep, ProbeMemo, ProbeBindFails, ProbeBinds, ProbeQuery, deviceVars
  <2>3. CASE ~ProbeStep /\ ~\E c \in Contexts : RecordErr(c) \/ OtherBind(c)
    BY <2>3 DEF RNext, Register, RegisterHost, RegisterWrite, RegisterReturn, DeviceWrite,
       DeviceFault, ScannerRuns, StartScan, ScanPass, ScanReturns, SignalsDone, GateIdle,
       GateArmed, Unparked, SlowSkip, SlowProbe, ProbeReturns, AnswersDone, SpuriousUnpark,
       SignalNext, WakeNext, deviceVars, rvars
  <2> QED BY <2>1, <2>2, <2>3
<1>3. Quiet => NoMisread
  BY DEF NoMisread
<1> HIDE DEF Quiet
<1> QED BY <1>1, <1>2, <1>3, PTL DEF RSpec

\* Then the reactor implements the slot-table protocol outright.
THEOREM QuietImplementsTable == MaxDeferred = 0 => (RSpec => ImplementsSlotTable)
BY NothingToMisread, ImplementsTable, PTL
=============================================================================
