--------------------------- MODULE CudaGraph_proofs ---------------------------
(***************************************************************************)
(* Proofs about CudaGraph, for any graphs, operations, streams, buffers    *)
(* and any nesting of the captures.  The inductive invariant says          *)
(*   PhaseInv   where the capture of a graph is, and its driver objects;   *)
(*   StageInv   what a submission of each stage may hold;                  *)
(*   HoldInv    whoever shares an exec finds it alive, and sharing among   *)
(*              graphs is well founded;                                    *)
(*   OwnInv     an update's context taken by a submission has one owner;   *)
(*   NodeInv    what a graph does on the device is recorded, leased by its *)
(*              capture or done by a graph it contains;                    *)
(*   LeaseInv   the tracker excludes conflicting leases on two streams;    *)
(*   QueueInv   what is queued is covered by its submission.               *)
(***************************************************************************)
EXTENDS CudaGraph, FiniteSetTheorems, TLAPS

\* A graph that was captured and has its exec: it can be launched.
Exec(g) == phase[g] = "ready" /\ "exec" \in driver[g]

\* Stages of a submission whose owners are on their way out.
Ending == {"dropping", "retiring", "leaked", "gone"}

PhaseOK(g) ==
  /\ phase[g] = "none" => stage[g] = "new" /\ driver[g] = {}
  /\ phase[g] = "capturing" =>
       /\ stage[g] = "recording" /\ driver[g] = {}
       /\ stream[g] \in Streams /\ capturing[stream[g]] = g
  /\ phase[g] \in {"ended", "destroy"} => stage[g] = "recording" /\ driver[g] = {"graph"}
  /\ phase[g] = "upload" => stage[g] = "recording" /\ driver[g] = {"graph", "exec"}
  /\ phase[g] = "leave" => stage[g] = "recording" /\ driver[g] = {}
  /\ phase[g] = "failed" => stage[g] \in Ending /\ driver[g] = {}
  /\ phase[g] = "ready" => \/ stage[g] = "held" /\ driver[g] = {"graph", "exec"}
                           \/ stage[g] \in Ending /\ driver[g] = {}

PhaseInv ==
  /\ \A g \in Graphs : PhaseOK(g)
  /\ \A s \in Streams : capturing[s] # None =>
       phase[capturing[s]] = "capturing" /\ stream[capturing[s]] = s

SubOK(x) ==
  /\ stage[x] \notin {"new", "ticket", "gone"} => stream[x] \in Streams
  /\ stage[x] \in {"new", "ticket"} => leases[x] = {}
  /\ stage[x] = "new" => holds[x] = {} /\ owned[x] = {}
  /\ stage[x] = "gone" => Empty(x)

OpOK(o) ==
  /\ stage[o] \notin {"recording", "held"}
  /\ todo[o] # {} => stage[o] = "retaining"
  /\ stage[o] \in {"ticket", "retaining"} => target[o] \in holds[o]
  /\ stage[o] = "retaining" => recorded[target[o]] \subseteq leases[o] \cup todo[o]
  /\ stage[o] = "pending" => target[o] \in Graphs /\ Exec(target[o])

StageInv == (\A x \in Subs : SubOK(x)) /\ (\A o \in Ops : OpOK(o))

HoldInv ==
  /\ \A g \in user : Exec(g)
  /\ \A x \in Subs : \A g \in holds[x] : Exec(g)
  /\ \A S \in SUBSET Graphs : S # {} => \E g \in S : \A h \in S : h \notin holds[g]

OwnInv ==
  /\ \A x, y \in Subs : x \in owned[y] => stage[x] = "owned"
  /\ \A x, y, z \in Subs : x \in owned[y] /\ x \in owned[z] => y = z
  /\ \A x \in Subs : stage[x] = "owned" => \E y \in Subs : x \in owned[y]

\* A buffer's use is among uses, or a write of it is.
Covers(uses, use) == use \in uses \/ <<use[1], "write">> \in uses

\* The graph itself keeps the allocation of a use alive.
Keeps(g, use) == \E m \in Modes : <<use[1], m>> \in recorded[g] \cup leases[g]

NodeOK(g) ==
  /\ nodes[g] # {} \/ children[g] # {} => stage[g] \in {"recording", "held"}
  /\ children[g] \subseteq holds[g]
  /\ \A use \in nodes[g] :
       /\ use[1] \in Tensors => Covers(recorded[g], use)
       /\ Keeps(g, use) \/ \E h \in holds[g] : use \in nodes[h]

NodeInv == \A g \in Graphs : NodeOK(g)

LeaseInv ==
  \A p, q \in Ops, b \in Bufs, m, n \in Modes :
    /\ stream[p] # stream[q] /\ <<b, m>> \in leases[p] /\ <<b, n>> \in leases[q]
    => m = "read" /\ n = "read"

\* Stages a submission with queued work can be in.
Sent == {"open", "pending", "owned", "dropping", "retiring", "leaked"}

\* The submission holds what its queued work uses: an access of its own, or
\* the exec that is replayed and all that the exec has recorded.
Backed(o, uses, graph) ==
  IF graph = None
  THEN uses # {} /\ uses \subseteq leases[o]
  ELSE graph \in holds[o] /\ uses = nodes[graph] /\ recorded[graph] \subseteq leases[o]

\* The work at place i of stream s is that of a submission that backs it.
Good(o, s, uses, graph, i) ==
  /\ stream[o] = s /\ stage[o] \in Sent
  /\ stage[o] = "retiring" => i <= event[o]
  /\ Backed(o, uses, graph)

QueueInv ==
  \A s \in Streams : \A i \in DOMAIN queue[s] :
    Good(queue[s][i].sub, s, queue[s][i].uses, queue[s][i].graph, i)

IndInv == /\ TypeOK /\ PhaseInv /\ StageInv /\ HoldInv /\ OwnInv /\ NodeInv
          /\ LeaseInv /\ QueueInv

-----------------------------------------------------------------------------
(* Type correctness.                                                       *)

\* A graph with an exec is ready, and keeps its capture context.
LEMMA ExecHeld ==
  ASSUME TypeOK, PhaseInv, StageInv, NEW g \in Graphs, Exec(g)
  PROVE  phase[g] = "ready" /\ stage[g] = "held" /\ stream[g] \in Streams
<1>1. phase[g] = "ready" /\ stage[g] = "held"
  BY DEF PhaseInv, PhaseOK, Exec
<1> QED BY <1>1 DEF StageInv, SubOK, OpOK, Subs

\* What capture_on does in the driver concerns a graph that nobody has yet, and
\* no submission.
LEMMA DriverFrame ==
  ASSUME TypeOK, PhaseInv, NEW g \in Graphs, DriverStep(g)
  PROVE  /\ phase[g] # "ready" /\ phase'[g] # "ready" /\ stage[g] = "recording"
         /\ \A h \in Graphs : h # g => phase'[h] = phase[h] /\ driver'[h] = driver[h]
         /\ UNCHANGED <<user, nodes, recorded, children, subVars, queue, views>>
<1>1. phase \in [Graphs -> Phases] /\ driver \in [Graphs -> SUBSET {"graph", "exec"}]
  BY DEF TypeOK
<1>2. phase[g] \in {"capturing", "ended", "upload", "destroy"}
  BY DEF DriverStep, EndErred, EndCapture, EndsCapture, InstantiateRefused, Instantiate,
         UploadFails, DestroyGraph
<1>3. \E p \in Phases \ {"ready"} : phase' = [phase EXCEPT ![g] = p]
  BY DEF DriverStep, EndErred, EndCapture, EndsCapture, InstantiateRefused, Instantiate,
         UploadFails, DestroyGraph, Phases
<1>4. driver' = driver \/ \E d : driver' = [driver EXCEPT ![g] = d]
  BY DEF DriverStep, EndErred, EndCapture, EndsCapture, InstantiateRefused, Instantiate,
         UploadFails, DestroyGraph
<1>5. UNCHANGED <<user, nodes, recorded, children, subVars, queue, views>>
  BY DEF DriverStep, EndErred, EndCapture, EndsCapture, InstantiateRefused, Instantiate,
         UploadFails, DestroyGraph
<1>6. stage[g] = "recording"
  BY <1>2 DEF PhaseInv, PhaseOK
<1> QED BY <1>1, <1>2, <1>3, <1>4, <1>5, <1>6

\* Dropping the owners of a submission keeps the types.
LEMMA TypeRelease ==
  ASSUME TypeOK, NEW x \in Subs, Release(x), UNCHANGED <<captureVars, todo, event, queue, views>>
  PROVE  TypeOK'
<1> USE DEF TypeOK, captureVars
<1>1. stage' \in [Subs -> Stages]
  BY DEF Release, Stages
<1>2. target' \in [Ops -> Graphs \cup {None}] /\ stream' \in [Subs -> Streams \cup {None}]
  BY DEF Release
<1>3. /\ leases' \in [Subs -> SUBSET Uses] /\ holds' \in [Subs -> SUBSET Graphs]
      /\ owned' \in [Subs -> SUBSET Ops]
  BY DEF Release
<1> QED BY <1>1, <1>2, <1>3

\* So do the steps of a capture.
LEMMA TypeCapture ==
  ASSUME TypeOK, PhaseInv, NEW g \in Graphs,
         \/ \E s \in Streams : Begin(g, s)
         \/ \E use \in Uses : RecordAccess(g, use)
         \/ \E h \in Graphs : RecordLaunch(g, h)
         \/ DropGraph(g) \/ CaptureStep(g)
  PROVE  TypeOK'
<1> USE DEF TypeOK, Stages, Subs, subVars
<1>1. ASSUME NEW s \in Streams, Begin(g, s) PROVE TypeOK'
  BY <1>1 DEF Begin, Phases
<1>2. ASSUME NEW use \in Uses, RecordAccess(g, use) PROVE TypeOK'
  BY <1>2 DEF RecordAccess
<1>3. ASSUME NEW h \in Graphs, RecordLaunch(g, h) PROVE TypeOK'
  <2>1. Pending(h) \subseteq Ops
    BY DEF Pending
  <2>2. stage' \in [Subs -> Stages] /\ owned' \in [Subs -> SUBSET Ops]
    BY <1>3, <2>1 DEF RecordLaunch, TakePending
  <2> QED BY <1>3, <2>2 DEF RecordLaunch
<1>4. CASE DropGraph(g) BY <1>4 DEF DropGraph
<1>5. CASE DriverStep(g)
  <2>1. capturing' \in [Streams -> Graphs \cup {None}]
    BY <1>5 DEF DriverStep, EndErred, EndCapture, EndsCapture, InstantiateRefused,
                Instantiate, UploadFails, DestroyGraph
  <2>2. phase' \in [Graphs -> Phases]
    BY <1>5 DEF DriverStep, EndErred, EndCapture, EndsCapture, InstantiateRefused,
                Instantiate, UploadFails, DestroyGraph, Phases
  <2>3. \E d \in {{"graph"}, driver[g], driver[g] \cup {"exec"}, driver[g] \ {"exec"},
                  driver[g] \ {"graph"}} : driver' = [driver EXCEPT ![g] = d]
    BY <1>5 DEF DriverStep, EndErred, EndCapture, EndsCapture, InstantiateRefused,
                Instantiate, UploadFails, DestroyGraph
  <2>4. driver' \in [Graphs -> SUBSET {"graph", "exec"}]
    <3>1. driver[g] \subseteq {"graph", "exec"}
      OBVIOUS
    <3>2. PICK d \in SUBSET {"graph", "exec"} : driver' = [driver EXCEPT ![g] = d]
      BY <2>3, <3>1
    <3> QED BY <3>2
  <2> QED BY <1>5, <2>1, <2>2, <2>4, DriverFrame
<1>7. CASE Leave(g) BY <1>7 DEF Leave, Phases
<1>8. CASE Adopt(g)
  <2>1. Subsume(recorded[g]) \subseteq Uses
    BY DEF Subsume
  <2> QED BY <1>8, <2>1 DEF Adopt, Phases
<1>9. CASE Destroy(g)
  <2>1. stage' \in [Subs -> Stages]
    BY <1>9 DEF Destroy
  <2> QED BY <1>9, <2>1 DEF Destroy
<1> QED BY <1>1, <1>2, <1>3, <1>4, <1>5, <1>7, <1>8, <1>9 DEF CaptureStep

\* Submitting work appends it to the stream's queue.
LEMMA Enqueued ==
  ASSUME queue \in [Streams -> Seq(Work)], NEW o \in Ops, NEW s \in Streams,
         NEW uses \in SUBSET Uses, NEW g \in Graphs \cup {None}, Enqueue(o, s, uses, g)
  PROVE  /\ queue' \in [Streams -> Seq(Work)]
         /\ \A r \in Streams : r # s => queue'[r] = queue[r]
         /\ DOMAIN queue'[s] = DOMAIN queue[s] \cup {Len(queue[s]) + 1}
         /\ Len(queue[s]) + 1 \notin DOMAIN queue[s]
         /\ \A i \in DOMAIN queue[s] : queue'[s][i] = queue[s][i]
         /\ queue'[s][Len(queue[s]) + 1] = [sub |-> o, uses |-> uses, graph |-> g]
<1> DEFINE item == [sub |-> o, uses |-> uses, graph |-> g]
           q == queue[s]
<1>1. item \in Work /\ item.sub = o /\ item.uses = uses /\ item.graph = g
  BY DEF Work
<1>2. queue' = [queue EXCEPT ![s] = Append(q, item)]
  BY DEF Enqueue
<1>3. q \in Seq(Work)
  OBVIOUS
<1> HIDE DEF item, q
<1>4. /\ Append(q, item) \in Seq(Work)
      /\ DOMAIN Append(q, item) = DOMAIN q \cup {Len(q) + 1} /\ Len(q) + 1 \notin DOMAIN q
      /\ \A i \in DOMAIN q : Append(q, item)[i] = q[i]
      /\ Append(q, item)[Len(q) + 1] = item
  BY <1>1, <1>3
<1>5. queue'[s] = Append(q, item) /\ \A r \in Streams : r # s => queue'[r] = queue[r]
  BY <1>2
<1> QED BY <1>1, <1>2, <1>4, <1>5 DEF q, item

\* So do the steps of an operation.
LEMMA TypeOps ==
  ASSUME TypeOK, PhaseInv, StageInv, HoldInv, NEW o \in Ops,
         \/ \E s \in Streams, use \in Uses : Plain(o, s, use)
         \/ \E g \in Graphs, use \in Uses : Update(o, g, use) \/ UpdateRefused(o, g, use)
         \/ \E g \in Graphs : MakeLaunch(o, g)
         \/ LaunchStep(o)
  PROVE  TypeOK'
<1> USE DEF TypeOK, Stages, Subs, captureVars
<1>1. ASSUME NEW s \in Streams, NEW use \in Uses, NEW done \in Stages, NEW failed \in Stages,
             Execute(o, s, use, done, failed), target' \in [Ops -> Graphs \cup {None}]
      PROVE  TypeOK'
  <2>1. {use} \in SUBSET Uses
    OBVIOUS
  <2>2. queue' \in [Streams -> Seq(Work)]
    BY <1>1, <2>1, Enqueued DEF Execute
  <2>3. stage' = [stage EXCEPT ![o] = done] \/ stage' = [stage EXCEPT ![o] = failed]
    BY <1>1 DEF Execute
  <2>4. stage' \in [Subs -> Stages]
    BY <2>3
  <2>5. leases' \in [Subs -> SUBSET Uses]
    BY <1>1, <2>1 DEF Execute
  <2>6. stream' \in [Subs -> Streams \cup {None}]
    BY <1>1 DEF Execute
  <2> QED BY <1>1, <2>2, <2>4, <2>5, <2>6 DEF Execute
<1>2. ASSUME NEW s \in Streams, NEW use \in Uses, Plain(o, s, use) PROVE TypeOK'
  BY <1>1, <1>2 DEF Plain
<1>3. ASSUME NEW g \in Graphs, NEW use \in Uses, Update(o, g, use) PROVE TypeOK'
  <2>1. stream[g] \in Streams
    BY <1>3, ExecHeld DEF Update, HoldInv
  <2> QED BY <1>1, <1>3, <2>1 DEF Update
<1>4. ASSUME NEW g \in Graphs, NEW use \in Uses, UpdateRefused(o, g, use) PROVE TypeOK'
  BY <1>4 DEF UpdateRefused
<1>5. ASSUME NEW g \in Graphs, MakeLaunch(o, g) PROVE TypeOK'
  BY <1>5 DEF MakeLaunch
<1>6. ASSUME NEW s \in Streams, StartLaunch(o, s) PROVE TypeOK'
  <2>1. target[o] \in Graphs
    BY <1>6 DEF StartLaunch, StageInv, SubOK, OpOK
  <2> QED BY <1>6, <2>1 DEF StartLaunch
<1>7. CASE DropLaunch(o) BY <1>7, TypeRelease DEF DropLaunch
<1>8. ASSUME NEW use \in Uses, Acquire(o, use) PROVE TypeOK'
  BY <1>8 DEF Acquire
<1>9. ASSUME NEW use \in Uses, Refuse(o, use) PROVE TypeOK'
  BY <1>9 DEF Refuse
<1>10. CASE Replay(o)
  <2> DEFINE g == target[o]
  <2>1. g \in Graphs /\ stream[o] \in Streams
    BY <1>10 DEF Replay, StageInv, SubOK, OpOK
  <2>2. queue' = queue \/ Enqueue(o, stream[o], nodes[g], g)
    BY <1>10 DEF Replay
  <2>3. queue' \in [Streams -> Seq(Work)]
    BY <2>1, <2>2, Enqueued
  <2>4. stage' \in [Subs -> Stages]
    BY <1>10 DEF Replay
  <2>5. owned' \in [Subs -> SUBSET Ops]
    BY <1>10 DEF Replay, TakePending, Pending
  <2> QED BY <1>10, <2>3, <2>4, <2>5 DEF Replay
<1> QED BY <1>2, <1>3, <1>4, <1>5, <1>6, <1>7, <1>8, <1>9, <1>10 DEF LaunchStep

\* Finishing the work at the head of a stream moves the rest up.
LEMMA Finished ==
  ASSUME TypeOK, NEW s \in Streams, Finish(s)
  PROVE  /\ queue' \in [Streams -> Seq(Work)]
         /\ \A r \in Streams : r # s => queue'[r] = queue[r]
         /\ \A i \in DOMAIN queue'[s] :
              i + 1 \in DOMAIN queue[s] /\ queue'[s][i] = queue[s][i + 1]
<1> DEFINE q == queue[s]
<1>1. q \in Seq(Work) /\ q # <<>> /\ queue' = [queue EXCEPT ![s] = Tail(q)]
      /\ queue \in [Streams -> Seq(Work)]
  BY DEF Finish, TypeOK
<1> HIDE DEF q
<1>2. /\ Tail(q) \in Seq(Work)
      /\ \A i \in DOMAIN Tail(q) : i + 1 \in DOMAIN q /\ Tail(q)[i] = q[i + 1]
  BY <1>1
<1>3. queue'[s] = Tail(q)
  BY <1>1
<1> QED BY <1>1, <1>2, <1>3 DEF q

\* Every step preserves the types.
LEMMA TypeStep ==
  ASSUME TypeOK, PhaseInv, StageInv, HoldInv, [Next]_vars
  PROVE  TypeOK'
<1> USE DEF captureVars, subVars
<1>1. ASSUME NEW x \in Subs, EndStep(x) PROVE TypeOK'
  <2>1. CASE x \in Ops /\ Complete(x) BY <2>1, TypeRelease DEF Complete
  <2>2. CASE x \in Ops /\ DropFuture(x) BY <2>2 DEF DropFuture, TypeOK, Stages
  <2>3. CASE DropIdle(x) BY <2>3, TypeRelease DEF DropIdle
  <2>4. CASE DropBusy(x)
    <3>1. Len(queue[stream[x]]) \in Nat
      BY <2>4 DEF DropBusy, StageInv, SubOK, OpOK, TypeOK
    <3> QED BY <2>4, <3>1 DEF DropBusy, TypeOK, Stages
  <2>5. CASE DropCapturing(x) BY <2>5 DEF DropCapturing, TypeOK, Stages
  <2>6. CASE Retire(x) BY <2>6, TypeRelease DEF Retire
  <2> QED BY <1>1, <2>1, <2>2, <2>3, <2>4, <2>5, <2>6 DEF EndStep
<1>2. ASSUME NEW s \in Streams, Finish(s) PROVE TypeOK'
  <2>1. event' \in [Subs -> Nat]
    BY <1>2 DEF Finish, TypeOK
  <2> QED BY <1>2, <2>1, Finished DEF Finish, TypeOK
<1>3. ASSUME NEW b \in Bufs, DropView(b) PROVE TypeOK'
  BY <1>3 DEF DropView, TypeOK
<1>4. CASE UNCHANGED vars
  BY <1>4 DEF vars, TypeOK
<1> QED BY <1>1, <1>2, <1>3, <1>4, TypeCapture, TypeOps DEF Next, UserStep

-----------------------------------------------------------------------------
(* Captures.                                                               *)

\* Steps that leave a graph's capture alone, or only end its submission.
LEMMA PhaseFrame ==
  ASSUME TypeOK, PhaseInv, UNCHANGED <<phase, driver, capturing>>,
         \A g \in Graphs :
           \/ stage'[g] = stage[g] /\ stream'[g] = stream[g]
           \/ stage[g] \in Ending /\ stage'[g] \in Ending
  PROVE  PhaseInv'
<1>1. ASSUME NEW g \in Graphs, phase[g] = "capturing"
      PROVE  stage'[g] = stage[g] /\ stream'[g] = stream[g]
  BY <1>1 DEF PhaseInv, PhaseOK, Ending
<1>2. ASSUME NEW g \in Graphs PROVE PhaseOK(g)'
  <2>1. CASE stage'[g] = stage[g] /\ stream'[g] = stream[g]
    BY <2>1 DEF PhaseInv, PhaseOK
  <2>2. CASE stage[g] \in Ending /\ stage'[g] \in Ending
    BY <2>2 DEF PhaseInv, PhaseOK, Ending
  <2> QED BY <2>1, <2>2
<1>3. ASSUME NEW s \in Streams, capturing[s] # None
      PROVE  phase[capturing[s]] = "capturing" /\ stream'[capturing[s]] = s
  <2>1. capturing[s] \in Graphs /\ phase[capturing[s]] = "capturing"
        /\ stream[capturing[s]] = s
    BY <1>3 DEF PhaseInv, TypeOK
  <2> QED BY <1>1, <2>1
<1> QED BY <1>2, <1>3 DEF PhaseInv

\* The steps of a capture: the stream is in capture mode exactly while it
\* records, and a failed capture has no driver object.
LEMMA PhaseCapture ==
  ASSUME TypeOK, PhaseInv, NEW g \in Graphs,
         (\E s \in Streams : Begin(g, s)) \/ CaptureStep(g)
  PROVE  PhaseInv'
<1> USE NamesAssumption DEF Subs
<1>0. /\ phase \in [Graphs -> Phases] /\ driver \in [Graphs -> SUBSET {"graph", "exec"}]
      /\ stage \in [Subs -> Stages] /\ stream \in [Subs -> Streams \cup {None}]
      /\ capturing \in [Streams -> Graphs \cup {None}]
  BY DEF TypeOK
<1>a. \A h \in Graphs : PhaseOK(h)
  BY DEF PhaseInv
<1>1. ASSUME NEW s \in Streams, Begin(g, s) PROVE PhaseInv'
  <2>1. \A h \in Graphs : phase[h] = "capturing" => stream[h] # s
    BY <1>1, <1>a DEF Begin, PhaseOK
  <2>2. \A h \in Graphs : h # g => /\ phase'[h] = phase[h] /\ driver'[h] = driver[h]
                                   /\ stage'[h] = stage[h] /\ stream'[h] = stream[h]
    BY <1>0, <1>1 DEF Begin
  <2>3. /\ phase'[g] = "capturing" /\ driver'[g] = {} /\ stage'[g] = "recording"
        /\ stream'[g] = s /\ capturing'[s] = g
        /\ \A r \in Streams : r # s => capturing'[r] = capturing[r]
    BY <1>0, <1>1, <1>a DEF Begin, PhaseOK
  <2>4. \A r \in Streams : r # s /\ capturing[r] # None => capturing[r] # g
    BY <1>1 DEF Begin, PhaseInv
  <2>5. ASSUME NEW h \in Graphs PROVE PhaseOK(h)'
    <3>1. CASE h = g BY <2>3, <3>1 DEF PhaseOK
    <3>2. CASE h # g BY <1>a, <2>1, <2>2, <2>3, <3>2 DEF PhaseOK
    <3> QED BY <3>1, <3>2
  <2>6. ASSUME NEW r \in Streams, capturing'[r] # None
        PROVE  phase'[capturing'[r]] = "capturing" /\ stream'[capturing'[r]] = r
    <3>1. CASE r = s BY <2>3, <3>1
    <3>2. CASE r # s
      <4>1. capturing'[r] = capturing[r] /\ capturing[r] \in Graphs /\ capturing[r] # g
        BY <1>0, <2>3, <2>4, <2>6, <3>2
      <4> QED BY <2>2, <2>6, <4>1 DEF PhaseInv
    <3> QED BY <3>1, <3>2
  <2> QED BY <2>5, <2>6 DEF PhaseInv
<1>2. ASSUME NEW made \in {"ended", "destroy"}, EndsCapture(g, made, "leave") PROVE PhaseInv'
  <2>1. /\ phase[g] = "capturing" /\ stream[g] \in Streams /\ capturing[stream[g]] = g
        /\ driver[g] = {} /\ stage[g] = "recording"
    BY <1>2, <1>a DEF EndsCapture, PhaseOK
  <2>2. \A h \in Graphs : h # g /\ phase[h] = "capturing" => stream[h] # stream[g]
    BY <1>a, <2>1 DEF PhaseOK
  <2>3. /\ capturing' = [capturing EXCEPT ![stream[g]] = None] /\ stage' = stage
        /\ stream' = stream
        /\ \/ /\ driver' = [driver EXCEPT ![g] = {"graph"}]
              /\ phase' = [phase EXCEPT ![g] = made]
           \/ driver' = driver /\ phase' = [phase EXCEPT ![g] = "leave"]
    BY <1>2 DEF EndsCapture, subVars
  <2>4. PhaseOK(g)'
    BY <1>0, <2>1, <2>3 DEF PhaseOK
  <2>5. ASSUME NEW h \in Graphs, h # g PROVE PhaseOK(h)'
    BY <1>0, <1>a, <2>2, <2>3, <2>5 DEF PhaseOK
  <2>6. ASSUME NEW r \in Streams, capturing'[r] # None
        PROVE  phase'[capturing'[r]] = "capturing" /\ stream'[capturing'[r]] = r
    <3>1. r # stream[g] /\ capturing'[r] = capturing[r]
      BY <1>0, <2>1, <2>3, <2>6
    <3>2. capturing[r] \in Graphs /\ capturing[r] # g
      BY <1>0, <2>6, <3>1 DEF PhaseInv
    <3> QED BY <1>0, <2>3, <2>6, <3>1, <3>2 DEF PhaseInv
  <2> QED BY <2>4, <2>5, <2>6 DEF PhaseInv
<1>3. ASSUME phase[g] # "capturing", phase'[g] # "capturing", PhaseOK(g)',
             UNCHANGED <<capturing, stream>>,
             \A h \in Graphs : h # g =>
               phase'[h] = phase[h] /\ driver'[h] = driver[h] /\ stage'[h] = stage[h]
      PROVE  PhaseInv'
  <2>1. ASSUME NEW h \in Graphs PROVE PhaseOK(h)'
    BY <1>3, <1>a DEF PhaseOK
  <2>2. ASSUME NEW r \in Streams, capturing[r] # None
        PROVE  phase'[capturing[r]] = "capturing" /\ stream[capturing[r]] = r
    BY <1>0, <1>3, <2>2 DEF PhaseInv
  <2> QED BY <1>3, <2>1, <2>2 DEF PhaseInv
<1>4. ASSUME InstantiateRefused(g) \/ Instantiate(g) \/ UploadFails(g) \/ DestroyGraph(g)
      PROVE  PhaseInv'
  <2>1. DriverStep(g)
    BY <1>4 DEF DriverStep
  <2>2. /\ \A h \in Graphs : h # g =>
             phase'[h] = phase[h] /\ driver'[h] = driver[h] /\ stage'[h] = stage[h]
        /\ UNCHANGED <<capturing, stream, stage>>
    BY <1>4, <2>1, DriverFrame DEF subVars, InstantiateRefused, Instantiate, UploadFails,
                                   DestroyGraph
  <2>3. PhaseOK(g)'
    <3>1. CASE InstantiateRefused(g)
      BY <1>0, <1>a, <2>2, <3>1 DEF InstantiateRefused, PhaseOK
    <3>2. CASE Instantiate(g)
      BY <1>0, <1>a, <2>2, <3>2 DEF Instantiate, PhaseOK
    <3>3. CASE UploadFails(g)
      BY <1>0, <1>a, <2>2, <3>3 DEF UploadFails, PhaseOK
    <3>4. CASE DestroyGraph(g)
      BY <1>0, <1>a, <2>2, <3>4 DEF DestroyGraph, PhaseOK
    <3> QED BY <1>4, <3>1, <3>2, <3>3, <3>4
  <2>4. phase[g] # "capturing" /\ phase'[g] # "capturing"
    BY <1>0, <1>4 DEF InstantiateRefused, Instantiate, UploadFails, DestroyGraph
  <2> QED BY <1>3, <2>2, <2>3, <2>4
<1>5. CASE Leave(g)
  <2>1. PhaseOK(g)'
    BY <1>0, <1>5, <1>a DEF Leave, PhaseOK, Ending
  <2> QED BY <1>0, <1>3, <1>5, <2>1 DEF Leave
<1>6. CASE Adopt(g)
  <2>1. PhaseOK(g)'
    BY <1>0, <1>6, <1>a DEF Adopt, PhaseOK
  <2> QED BY <1>0, <1>3, <1>6, <2>1 DEF Adopt
<1>7. CASE Destroy(g)
  <2>1. \A h \in Graphs : h \notin Pending(g)
    BY DEF Pending
  <2>2. phase[g] = "ready" /\ stage'[g] = "dropping" /\ driver'[g] = {}
        /\ UNCHANGED <<phase, capturing, stream>>
    BY <1>0, <1>7 DEF Destroy
  <2>3. \A h \in Graphs : h # g => stage'[h] = stage[h] /\ driver'[h] = driver[h]
    BY <1>0, <1>7, <2>1 DEF Destroy
  <2>4. PhaseOK(g)'
    BY <2>2 DEF PhaseOK, Ending
  <2> QED BY <1>3, <2>2, <2>3, <2>4
<1> QED BY <1>1, <1>2, <1>4, <1>5, <1>6, <1>7
        DEF CaptureStep, DriverStep, EndErred, EndCapture

\* Every step keeps the captures in order.
LEMMA PhaseStep ==
  ASSUME TypeOK, PhaseInv, StageInv, OwnInv, [Next]_vars
  PROVE  PhaseInv'
<1> USE NamesAssumption DEF captureVars, subVars
<1>0. \A g \in Graphs : g \in Subs /\ g \notin Ops /\ (\A y \in Subs : g \notin owned[y])
  BY DEF Subs, TypeOK
<1>1. ASSUME NEW g \in Graphs,
             \/ \E use \in Uses : RecordAccess(g, use)
             \/ DropGraph(g)
      PROVE  PhaseInv'
  BY <1>1, PhaseFrame DEF RecordAccess, DropGraph
<1>2. ASSUME NEW g \in Graphs, NEW h \in Graphs, RecordLaunch(g, h) PROVE PhaseInv'
  <2>1. \A k \in Graphs : stage'[k] = stage[k] /\ stream'[k] = stream[k]
    BY <1>0, <1>2 DEF RecordLaunch, Pending
  <2> QED BY <1>2, <2>1, PhaseFrame DEF RecordLaunch
<1>3. ASSUME NEW o \in Ops, NEW s, NEW use, NEW done, NEW failed,
             Execute(o, s, use, done, failed)
      PROVE  PhaseInv'
  <2>1. \A k \in Graphs : stage'[k] = stage[k] /\ stream'[k] = stream[k]
    BY <1>0, <1>3 DEF Execute, TypeOK
  <2> QED BY <1>3, <2>1, PhaseFrame DEF Execute
<1>4. ASSUME NEW o \in Ops,
             \/ \E g \in Graphs, use \in Uses : UpdateRefused(o, g, use)
             \/ \E g \in Graphs : MakeLaunch(o, g)
             \/ \E s \in Streams : StartLaunch(o, s)
             \/ \E use \in Uses : Acquire(o, use) \/ Refuse(o, use)
             \/ DropFuture(o)
      PROVE  PhaseInv'
  <2>1. \A k \in Graphs : stage'[k] = stage[k] /\ stream'[k] = stream[k]
    BY <1>0, <1>4 DEF UpdateRefused, MakeLaunch, StartLaunch, Acquire, Refuse,
                      DropFuture, TypeOK
  <2>2. UNCHANGED <<phase, driver, capturing>>
    BY <1>4 DEF UpdateRefused, MakeLaunch, StartLaunch, Acquire, Refuse, DropFuture
  <2> QED BY <2>1, <2>2, PhaseFrame
<1>5. ASSUME NEW o \in Ops, Replay(o) PROVE PhaseInv'
  <2>1. \A k \in Graphs : stage'[k] = stage[k] /\ stream'[k] = stream[k]
    BY <1>0, <1>5 DEF Replay, Pending
  <2> QED BY <1>5, <2>1, PhaseFrame DEF Replay
<1>6. ASSUME NEW x \in Subs, Release(x), x \in Ops \/ stage[x] \in Ending,
             UNCHANGED <<phase, driver, capturing>>
      PROVE  PhaseInv'
  <2>1. \A k \in Graphs : \/ stage'[k] = stage[k] /\ stream'[k] = stream[k]
                          \/ stage[k] \in Ending /\ stage'[k] \in Ending
    BY <1>0, <1>6 DEF Release, Ending, TypeOK
  <2> QED BY <1>6, <2>1, PhaseFrame
<1>7. ASSUME NEW x \in Subs, DropIdle(x) \/ Retire(x) PROVE PhaseInv'
  BY <1>6, <1>7 DEF DropIdle, Retire, Ending
<1>8. ASSUME NEW x \in Ops, DropLaunch(x) \/ Complete(x) PROVE PhaseInv'
  BY <1>6, <1>8 DEF DropLaunch, Complete, Subs
<1>9. ASSUME NEW x \in Subs, DropBusy(x) \/ DropCapturing(x) PROVE PhaseInv'
  <2>1. \A k \in Graphs : \/ stage'[k] = stage[k] /\ stream'[k] = stream[k]
                          \/ stage[k] \in Ending /\ stage'[k] \in Ending
    BY <1>0, <1>9 DEF DropBusy, DropCapturing, Ending, TypeOK
  <2> QED BY <1>9, <2>1, PhaseFrame DEF DropBusy, DropCapturing
<1>10. ASSUME NEW s \in Streams, Finish(s) PROVE PhaseInv'
  BY <1>10, PhaseFrame DEF Finish
<1>11. ASSUME NEW b \in Bufs, DropView(b) PROVE PhaseInv'
  BY <1>11, PhaseFrame DEF DropView
<1>12. CASE UNCHANGED vars
  BY <1>12, PhaseFrame DEF vars
<1> QED BY <1>1, <1>2, <1>3, <1>4, <1>5, <1>7, <1>8, <1>9, <1>10, <1>11, <1>12,
           PhaseCapture
        DEF Next, UserStep, LaunchStep, EndStep, Plain, Update

-----------------------------------------------------------------------------
(* Sharing of graph execs.                                                 *)

\* Nobody becomes an owner, and no exec that is shared is destroyed.
LEMMA HoldFrame ==
  ASSUME TypeOK, HoldInv, user' \subseteq user,
         \A x \in Subs : holds'[x] \subseteq holds[x],
         \A g \in Graphs : Held(g) /\ Exec(g) => Exec(g)'
  PROVE  HoldInv'
<1>1. \A g \in user : g \in Graphs /\ Held(g) /\ Exec(g)
  BY DEF HoldInv, TypeOK, Held
<1>2. \A x \in Subs : \A g \in holds[x] : g \in Graphs /\ Held(g) /\ Exec(g)
  BY DEF HoldInv, TypeOK, Held
<1>3. ASSUME NEW S \in SUBSET Graphs, S # {}
      PROVE  \E g \in S : \A h \in S : h \notin holds'[g]
  <2>1. PICK g \in S : \A h \in S : h \notin holds[g]
    BY <1>3 DEF HoldInv
  <2>2. holds'[g] \subseteq holds[g]
    BY DEF Subs
  <2> QED BY <2>1, <2>2
<1> QED BY <1>1, <1>2, <1>3 DEF HoldInv

\* Every step keeps the execs that are shared.
LEMMA HoldStep ==
  ASSUME TypeOK, PhaseInv, StageInv, HoldInv, [Next]_vars
  PROVE  HoldInv'
<1> USE NamesAssumption DEF captureVars, subVars
<1>1. ASSUME UNCHANGED <<user, phase, driver, holds>> PROVE HoldInv'
  BY <1>1, HoldFrame DEF Exec
<1>2. ASSUME NEW g \in Graphs, NEW h \in Graphs, RecordLaunch(g, h) PROVE HoldInv'
  <2>1. /\ UNCHANGED <<user, phase, driver>> /\ h \in user
        /\ holds' = [holds EXCEPT ![g] = @ \cup {h}]
        /\ holds \in [Subs -> SUBSET Graphs]
    BY <1>2 DEF RecordLaunch, TypeOK
  <2>2. ~Exec(g)
    BY <1>2 DEF RecordLaunch, Exec
  <2>3. \A x \in Subs : \A k \in holds'[x] : Exec(k)
    BY <2>1 DEF HoldInv, Subs
  <2>4. ASSUME NEW S \in SUBSET Graphs, S # {}
        PROVE  \E w \in S : \A k \in S : k \notin holds'[w]
    <3>1. CASE S = {g}
      <4>1. g \notin holds'[g]
        BY <2>2, <2>3 DEF Subs
      <4> QED BY <3>1, <4>1
    <3>2. CASE S # {g}
      <4>1. S \ {g} \in SUBSET Graphs /\ S \ {g} # {}
        BY <2>4, <3>2
      <4>2. PICK w \in S \ {g} : \A k \in S \ {g} : k \notin holds[w]
        BY <4>1 DEF HoldInv
      <4>3. holds'[w] = holds[w] /\ g \notin holds[w]
        BY <2>1, <2>2 DEF HoldInv, Subs
      <4> QED BY <4>2, <4>3
    <3> QED BY <3>1, <3>2
  <2> QED BY <2>1, <2>3, <2>4 DEF HoldInv, Exec
<1>3. ASSUME NEW g \in Graphs, DropGraph(g) PROVE HoldInv'
  BY <1>3, HoldFrame DEF DropGraph, Exec
<1>4. ASSUME NEW g \in Graphs, DriverStep(g) PROVE HoldInv'
  BY <1>4, DriverFrame, HoldFrame DEF Exec
<1>5. ASSUME NEW g \in Graphs, Adopt(g) PROVE HoldInv'
  <2>1. /\ driver' = driver /\ user' = user \cup {g} /\ phase' = [phase EXCEPT ![g] = "ready"]
        /\ UNCHANGED holds /\ phase \in [Graphs -> Phases]
        /\ user \subseteq Graphs /\ holds \in [Subs -> SUBSET Graphs]
    BY <1>5 DEF Adopt, TypeOK
  <2>2. "exec" \in driver[g]
    BY <1>5 DEF Adopt, PhaseInv, PhaseOK
  <2>3. \A k \in Graphs : Exec(k) \/ k = g => Exec(k)'
    BY <2>1, <2>2 DEF Exec
  <2> QED BY <2>1, <2>3 DEF HoldInv
<1>6. ASSUME NEW g \in Graphs, Destroy(g) PROVE HoldInv'
  <2>1. ~Held(g) /\ UNCHANGED <<user, holds>>
    BY <1>6 DEF Destroy
  <2>2. phase' = phase /\ \A k \in Graphs : k # g => driver'[k] = driver[k]
    BY <1>6 DEF Destroy, TypeOK
  <2> QED BY <2>1, <2>2, HoldFrame DEF Exec
<1>7. ASSUME NEW o \in Ops, NEW g \in Graphs, MakeLaunch(o, g) PROVE HoldInv'
  <2>1. /\ UNCHANGED <<user, phase, driver>> /\ g \in user /\ o \notin Graphs
        /\ holds' = [holds EXCEPT ![o] = {g}] /\ holds \in [Subs -> SUBSET Graphs]
    BY <1>7 DEF MakeLaunch, TypeOK
  <2>2. \A x \in Subs : \A k \in holds'[x] : Exec(k)
    BY <2>1 DEF HoldInv
  <2>3. \A k \in Graphs : holds'[k] = holds[k]
    BY <2>1 DEF Subs
  <2>4. ASSUME NEW S \in SUBSET Graphs, S # {}
        PROVE  \E w \in S : \A k \in S : k \notin holds'[w]
    BY <2>3, <2>4 DEF HoldInv
  <2> QED BY <2>1, <2>2, <2>4 DEF HoldInv, Exec
<1>8. ASSUME NEW x \in Subs, Release(x), UNCHANGED <<user, phase, driver>> PROVE HoldInv'
  <2>1. \A y \in Subs : holds'[y] \subseteq holds[y]
    BY <1>8 DEF Release, TypeOK
  <2> QED BY <1>8, <2>1, HoldFrame DEF Exec
<1>9. ASSUME NEW x \in Subs, DropIdle(x) \/ Retire(x) PROVE HoldInv'
  BY <1>8, <1>9 DEF DropIdle, Retire
<1>10. ASSUME NEW x \in Ops, DropLaunch(x) \/ Complete(x) PROVE HoldInv'
  BY <1>8, <1>10 DEF DropLaunch, Complete, Subs
<1>11. ASSUME NEW o \in Ops,
              \/ \E s \in Streams, use \in Uses : Plain(o, s, use)
              \/ \E g \in Graphs, use \in Uses : Update(o, g, use) \/ UpdateRefused(o, g, use)
              \/ \E s \in Streams : StartLaunch(o, s)
              \/ \E use \in Uses : Acquire(o, use) \/ Refuse(o, use)
              \/ Replay(o) \/ DropFuture(o)
       PROVE  HoldInv'
  BY <1>1, <1>11 DEF Plain, Update, Execute, UpdateRefused, StartLaunch, Acquire,
                     Refuse, Replay, DropFuture
<1>12. ASSUME NEW g \in Graphs, NEW use \in Uses, RecordAccess(g, use) PROVE HoldInv'
  BY <1>1, <1>12 DEF RecordAccess
<1>14. ASSUME NEW g \in Graphs, (\E s \in Streams : Begin(g, s)) \/ Leave(g) PROVE HoldInv'
  <2>1. ~Exec(g) /\ UNCHANGED <<user, holds, driver>>
    BY <1>14 DEF Begin, Leave, Exec
  <2>2. \A k \in Graphs : k # g => phase'[k] = phase[k]
    BY <1>14 DEF Begin, Leave, TypeOK
  <2> QED BY <2>1, <2>2, HoldFrame DEF Exec
<1>13. CASE \/ \E x \in Subs : DropBusy(x) \/ DropCapturing(x)
            \/ \E s \in Streams : Finish(s)
            \/ \E b \in Bufs : DropView(b)
            \/ UNCHANGED vars
  BY <1>1, <1>13 DEF DropBusy, DropCapturing, Finish, DropView, vars
<1> QED BY <1>2, <1>3, <1>4, <1>5, <1>6, <1>7, <1>9, <1>10, <1>11, <1>12, <1>13, <1>14
        DEF Next, UserStep, CaptureStep, LaunchStep, EndStep

-----------------------------------------------------------------------------
(* Ownership of update contexts.                                           *)

\* Contexts change hands in no step but these: a submission takes those that
\* wait at a graph, and hands back what it owned when it drops.
LEMMA OwnStep ==
  ASSUME TypeOK, PhaseInv, StageInv, OwnInv, [Next]_vars
  PROVE  OwnInv'
<1> USE NamesAssumption DEF captureVars, subVars
<1>0. stage \in [Subs -> Stages] /\ owned \in [Subs -> SUBSET Ops]
  BY DEF TypeOK
<1>1. ASSUME UNCHANGED owned,
             \A x \in Subs : stage'[x] = "owned" <=> stage[x] = "owned"
      PROVE  OwnInv'
  BY <1>1 DEF OwnInv
<1>2. ASSUME NEW x \in Subs, NEW g \in Graphs, TakePending(x, g), stage[x] # "owned",
             x \notin Pending(g),
             \A y \in Subs : /\ y \in Pending(g) => stage'[y] = "owned"
                             /\ y \notin Pending(g) =>
                                  (stage'[y] = "owned" <=> stage[y] = "owned")
      PROVE  OwnInv'
  <2>1. \A y \in Pending(g) : y \in Subs /\ stage[y] = "pending" /\ y \in Ops
    BY DEF Pending, Subs
  <2>2. \A y \in Subs : owned'[y] = IF y = x THEN owned[x] \cup Pending(g) ELSE owned[y]
    BY <1>0, <1>2 DEF TakePending
  <2>3. \A y, z \in Subs : y \in owned'[z] <=> y \in owned[z] \/ (z = x /\ y \in Pending(g))
    BY <2>2
  <2>4. \A y, z \in Subs : y \in owned[z] => y \notin Pending(g)
    BY <2>1 DEF OwnInv
  <2>5. \A y, z \in Subs : y \in owned'[z] => stage'[y] = "owned"
    BY <1>2, <2>3, <2>4 DEF OwnInv
  <2>6. \A y, z, w \in Subs : y \in owned'[z] /\ y \in owned'[w] => z = w
    BY <2>3, <2>4 DEF OwnInv
  <2>7. \A y \in Subs : stage'[y] = "owned" => \E z \in Subs : y \in owned'[z]
    BY <1>2, <2>3 DEF OwnInv
  <2> QED BY <2>5, <2>6, <2>7 DEF OwnInv
<1>3. ASSUME NEW x \in Subs, Release(x), stage[x] # "owned" PROVE OwnInv'
  <2>1. \A y \in Subs : owned'[y] = IF y = x THEN {} ELSE owned[y]
    BY <1>0, <1>3 DEF Release
  <2>2. x \notin owned[x] /\ \A y \in Subs : x \notin owned[y]
    BY <1>3 DEF OwnInv
  <2>3. \A y \in Subs : stage'[y] = IF y = x THEN "gone"
                                   ELSE IF y \in owned[x] THEN "dropping" ELSE stage[y]
    BY <1>3 DEF Release
  <2>4. \A y, z \in Subs : y \in owned'[z] => stage'[y] = "owned"
    BY <2>1, <2>2, <2>3 DEF OwnInv
  <2>5. \A y, z, w \in Subs : y \in owned'[z] /\ y \in owned'[w] => z = w
    BY <2>1 DEF OwnInv
  <2>6. ASSUME NEW y \in Subs, stage'[y] = "owned" PROVE \E z \in Subs : y \in owned'[z]
    <3>1. y # x /\ y \notin owned[x] /\ stage[y] = "owned"
      BY <2>3, <2>6
    <3>2. PICK z \in Subs : y \in owned[z]
      BY <3>1 DEF OwnInv
    <3> QED BY <2>1, <3>1, <3>2
  <2> QED BY <2>4, <2>5, <2>6 DEF OwnInv
<1>4. ASSUME NEW g \in Graphs, NEW h \in Graphs, RecordLaunch(g, h) PROVE OwnInv'
  <2>1. /\ TakePending(g, h) /\ g \in Subs /\ stage[g] = "recording"
        /\ g \notin Pending(h)
    BY <1>4 DEF RecordLaunch, PhaseInv, PhaseOK, Pending, Subs
  <2>2. \A y \in Subs : stage'[y] = IF y \in Pending(h) THEN "owned" ELSE stage[y]
    BY <1>4 DEF RecordLaunch
  <2> QED BY <1>2, <2>1, <2>2
<1>5. ASSUME NEW o \in Ops, Replay(o) PROVE OwnInv'
  <2>1. /\ TakePending(o, target[o]) /\ o \in Subs /\ stage[o] = "retaining"
        /\ o \notin Pending(target[o]) /\ target[o] \in Graphs
    BY <1>5 DEF Replay, Pending, Subs, StageInv, SubOK, OpOK, TypeOK
  <2>2. \A y \in Subs : /\ y \in Pending(target[o]) => stage'[y] = "owned"
                        /\ y \notin Pending(target[o]) =>
                             (stage'[y] = "owned" <=> stage[y] = "owned")
    BY <1>5, <2>1 DEF Replay
  <2> QED BY <1>2, <2>1, <2>2
<1>6. ASSUME NEW x \in Subs, DropIdle(x) \/ Retire(x) PROVE OwnInv'
  BY <1>3, <1>6 DEF DropIdle, Retire
<1>7. ASSUME NEW x \in Ops, DropLaunch(x) \/ Complete(x) PROVE OwnInv'
  BY <1>3, <1>7 DEF DropLaunch, Complete, Subs
<1>8. ASSUME NEW g \in Graphs, Destroy(g) PROVE OwnInv'
  <2>1. stage[g] # "owned"
    BY <1>8, ExecHeld DEF Destroy, Exec
  <2>2. \A y \in Subs : stage'[y] = "owned" <=> stage[y] = "owned"
    BY <1>8, <2>1 DEF Destroy, Pending
  <2> QED BY <1>1, <1>8, <2>2 DEF Destroy
<1>9. ASSUME NEW o \in Ops,
             \/ \E s \in Streams, use \in Uses : Plain(o, s, use)
             \/ \E g \in Graphs, use \in Uses : Update(o, g, use) \/ UpdateRefused(o, g, use)
             \/ \E g \in Graphs : MakeLaunch(o, g)
             \/ \E s \in Streams : StartLaunch(o, s)
             \/ \E use \in Uses : Refuse(o, use)
             \/ DropFuture(o)
      PROVE  OwnInv'
  <2>1. UNCHANGED owned
    BY <1>9 DEF Plain, Update, Execute, UpdateRefused, MakeLaunch, StartLaunch, Refuse,
                DropFuture
  <2>2. PICK to \in Stages \ {"owned"} : stage' = [stage EXCEPT ![o] = to]
    BY <1>9 DEF Plain, Update, Execute, UpdateRefused, MakeLaunch, StartLaunch, Refuse,
                DropFuture, Stages
  <2>3. stage[o] # "owned"
    BY <1>9 DEF Plain, Update, Execute, UpdateRefused, MakeLaunch, StartLaunch, Refuse,
                DropFuture, StageInv, SubOK, OpOK
  <2> QED BY <1>0, <1>1, <2>1, <2>2, <2>3
<1>10. ASSUME NEW g \in Graphs,
              \/ \E s \in Streams : Begin(g, s)
              \/ Leave(g) \/ Adopt(g)
       PROVE  OwnInv'
  <2>1. UNCHANGED owned
    BY <1>10 DEF Begin, Leave, Adopt
  <2>2. PICK to \in Stages \ {"owned"} : stage' = [stage EXCEPT ![g] = to]
    BY <1>10 DEF Begin, Leave, Adopt, Stages
  <2>3. stage[g] # "owned"
    BY <1>10 DEF Begin, Leave, Adopt, PhaseInv, PhaseOK
  <2> QED BY <1>0, <1>1, <2>1, <2>2, <2>3
<1>11. ASSUME NEW x \in Subs, DropBusy(x) \/ DropCapturing(x) PROVE OwnInv'
  <2>1. \A y \in Subs : stage'[y] = "owned" <=> stage[y] = "owned"
    BY <1>0, <1>11 DEF DropBusy, DropCapturing
  <2> QED BY <1>1, <1>11, <2>1 DEF DropBusy, DropCapturing
<1>12. CASE \/ \E g \in Graphs : \/ \E use \in Uses : RecordAccess(g, use)
                                 \/ DropGraph(g)
            \/ \E o \in Ops, use \in Uses : Acquire(o, use)
            \/ \E s \in Streams : Finish(s)
            \/ \E b \in Bufs : DropView(b)
            \/ UNCHANGED vars
  BY <1>1, <1>12 DEF RecordAccess, DropGraph, Acquire, Finish, DropView, vars
<1>13. ASSUME NEW g \in Graphs, DriverStep(g) PROVE OwnInv'
  BY <1>1, <1>13, DriverFrame
<1> QED BY <1>4, <1>5, <1>6, <1>7, <1>8, <1>9, <1>10, <1>11, <1>12, <1>13
        DEF Next, UserStep, CaptureStep, LaunchStep, EndStep

-----------------------------------------------------------------------------
(* Stages of the submissions.                                              *)

\* A submission that a step does not touch.
LEMMA SubSame ==
  ASSUME NEW x, SubOK(x), stage'[x] = stage[x], stream'[x] = stream[x],
         leases'[x] = leases[x], holds'[x] = holds[x], owned'[x] = owned[x]
  PROVE  SubOK(x)'
BY DEF SubOK, Empty

\* An operation that a step does not touch, on a graph that keeps its exec.
LEMMA OpSame ==
  ASSUME NEW o, OpOK(o), stage'[o] = stage[o], todo'[o] = todo[o],
         target'[o] = target[o], leases'[o] = leases[o], holds'[o] = holds[o],
         stage[o] = "retaining" => recorded'[target[o]] = recorded[target[o]],
         stage[o] = "pending" => (Exec(target[o]) => Exec(target[o])')
  PROVE  OpOK(o)'
BY DEF OpOK, Exec

\* A step that only moves one operation on keeps all the others.
LEMMA StageOne ==
  ASSUME StageInv, NEW o \in Ops, UNCHANGED <<phase, driver, recorded>>,
         \A y \in Subs : y # o =>
           /\ stage'[y] = stage[y] /\ stream'[y] = stream[y] /\ leases'[y] = leases[y]
           /\ holds'[y] = holds[y] /\ owned'[y] = owned[y],
         \A p \in Ops : p # o => todo'[p] = todo[p] /\ target'[p] = target[p],
         SubOK(o)', OpOK(o)'
  PROVE  StageInv'
<1>1. \A y \in Subs : y # o => SubOK(y)'
  BY SubSame DEF StageInv
<1>2. ASSUME NEW p \in Ops, p # o PROVE OpOK(p)'
  <2>1. p \in Subs
    BY DEF Subs
  <2>2. Exec(target[p]) => Exec(target[p])'
    BY <1>2 DEF Exec
  <2> QED BY <1>2, <2>1, <2>2, OpSame DEF StageInv
<1> QED BY <1>1, <1>2 DEF StageInv

\* A step of a capture, which touches no operation, of a graph without exec.
LEMMA StageCapture ==
  ASSUME TypeOK, StageInv, HoldInv, NEW g \in Graphs, ~Exec(g),
         \A y \in Subs : y # g =>
           /\ stage'[y] = stage[y] /\ stream'[y] = stream[y] /\ leases'[y] = leases[y]
           /\ holds'[y] = holds[y] /\ owned'[y] = owned[y],
         \A h \in Graphs : h # g => /\ phase'[h] = phase[h] /\ driver'[h] = driver[h]
                                    /\ recorded'[h] = recorded[h],
         UNCHANGED <<todo, target>>, SubOK(g)'
  PROVE  StageInv'
<1>1. \A y \in Subs : y # g => SubOK(y)'
  BY SubSame DEF StageInv
<1>2. ASSUME NEW o \in Ops PROVE OpOK(o)'
  <2>1. o \in Subs /\ o # g /\ OpOK(o)
    BY NamesAssumption DEF Subs, StageInv
  <2>2. stage[o] \in {"retaining", "pending"} => target[o] \in Graphs /\ target[o] # g
    BY <2>1 DEF OpOK, HoldInv, TypeOK
  <2>3. stage[o] = "pending" => (Exec(target[o]) => Exec(target[o])')
    BY <2>2 DEF Exec
  <2> QED BY <2>1, <2>2, <2>3, OpSame
<1> QED BY <1>1, <1>2 DEF StageInv

\* The owners of a submission drop.
LEMMA StageRelease ==
  ASSUME TypeOK, StageInv, OwnInv, NEW x \in Subs, Release(x),
         stage[x] \in {"ticket", "open", "dropping", "retiring"},
         UNCHANGED <<phase, driver, recorded, todo>>
  PROVE  StageInv'
<1> USE NamesAssumption
<1>1. \A y \in Subs : /\ stage'[y] = IF y = x THEN "gone"
                                     ELSE IF y \in owned[x] THEN "dropping" ELSE stage[y]
                      /\ y # x => /\ stream'[y] = stream[y] /\ leases'[y] = leases[y]
                                  /\ holds'[y] = holds[y] /\ owned'[y] = owned[y]
  BY DEF Release, TypeOK
<1>2. leases'[x] = {} /\ holds'[x] = {} /\ owned'[x] = {}
  BY DEF Release, TypeOK
<1>3. \A p \in Ops : p # x => target'[p] = target[p]
  BY DEF Release
<1>4. ASSUME NEW y \in Subs PROVE SubOK(y)'
  <2>1. CASE y = x
    BY <1>1, <1>2, <2>1 DEF SubOK, Empty
  <2>2. CASE y # x /\ y \in owned[x]
    BY <1>1, <2>2 DEF OwnInv, StageInv, SubOK, Empty
  <2>3. CASE y # x /\ y \notin owned[x]
    BY <1>1, <2>3, SubSame DEF StageInv
  <2> QED BY <2>1, <2>2, <2>3
<1>5. ASSUME NEW p \in Ops PROVE OpOK(p)'
  <2>0. p \in Subs /\ OpOK(p)
    BY DEF Subs, StageInv
  <2>1. CASE p = x
    BY <1>1, <2>0, <2>1 DEF OpOK
  <2>2. CASE p # x /\ p \in owned[x]
    BY <1>1, <2>0, <2>2 DEF OwnInv, OpOK
  <2>3. CASE p # x /\ p \notin owned[x]
    <3>1. Exec(target[p]) => Exec(target[p])'
      BY <1>3, <2>3 DEF Exec
    <3> QED BY <1>1, <1>3, <2>0, <2>3, <3>1, OpSame
  <2> QED BY <2>1, <2>2, <2>3
<1> QED BY <1>4, <1>5 DEF StageInv

\* Every step keeps the submissions in order.
LEMMA StageStep ==
  ASSUME TypeOK, PhaseInv, StageInv, HoldInv, OwnInv, [Next]_vars
  PROVE  StageInv'
<1> USE NamesAssumption DEF captureVars, subVars
<1>0. /\ stage \in [Subs -> Stages] /\ stream \in [Subs -> Streams \cup {None}]
      /\ leases \in [Subs -> SUBSET Uses] /\ holds \in [Subs -> SUBSET Graphs]
      /\ owned \in [Subs -> SUBSET Ops] /\ driver \in [Graphs -> SUBSET {"graph", "exec"}]
      /\ recorded \in [Graphs -> SUBSET Uses] /\ todo \in [Ops -> SUBSET Uses]
      /\ target \in [Ops -> Graphs \cup {None}] /\ phase \in [Graphs -> Phases]
  BY DEF TypeOK
<1>1. Graphs \subseteq Subs /\ Ops \subseteq Subs
  BY DEF Subs
<1>2. ASSUME NEW g \in Graphs,
             \/ \E s \in Streams : Begin(g, s)
             \/ \E use \in Uses : RecordAccess(g, use)
             \/ DriverStep(g) \/ Leave(g) \/ Adopt(g)
      PROVE  StageInv'
  <2>1. ~Exec(g)
    BY <1>2, DriverFrame DEF Begin, RecordAccess, Leave, Adopt, Exec
  <2>2. \A y \in Subs : y # g =>
           /\ stage'[y] = stage[y] /\ stream'[y] = stream[y] /\ leases'[y] = leases[y]
           /\ holds'[y] = holds[y] /\ owned'[y] = owned[y]
    BY <1>0, <1>2, DriverFrame DEF Begin, RecordAccess, Leave, Adopt
  <2>3. \A h \in Graphs : h # g => /\ phase'[h] = phase[h] /\ driver'[h] = driver[h]
                                   /\ recorded'[h] = recorded[h]
    BY <1>0, <1>2, DriverFrame DEF Begin, RecordAccess, Leave, Adopt
  <2>4. UNCHANGED <<todo, target>>
    BY <1>2, DriverFrame DEF Begin, RecordAccess, Leave, Adopt
  <2>5. SubOK(g)'
    <3>1. CASE \E s \in Streams : Begin(g, s)
      BY <1>0, <1>1, <3>1 DEF Begin, SubOK
    <3>2. CASE ~\E s \in Streams : Begin(g, s)
      <4>1. stage[g] = "recording" /\ stream[g] \in Streams
        BY <1>1, <1>2, <3>2, DriverFrame DEF RecordAccess, Leave, Adopt, PhaseInv, PhaseOK,
           StageInv, SubOK
      <4>2. stream' = stream /\ stage'[g] \in {"recording", "dropping", "held"}
        BY <1>0, <1>1, <1>2, <3>2, <4>1, DriverFrame DEF RecordAccess, Leave, Adopt
      <4> QED BY <4>1, <4>2 DEF SubOK
    <3> QED BY <3>1, <3>2
  <2> QED BY <2>1, <2>2, <2>3, <2>4, <2>5, StageCapture
<1>3. ASSUME NEW g \in Graphs, NEW h \in Graphs, RecordLaunch(g, h) PROVE StageInv'
  <2>1. /\ ~Exec(g) /\ stage[g] = "recording" /\ stream[g] \in Streams
    BY <1>1, <1>3 DEF RecordLaunch, PhaseInv, PhaseOK, Exec
  <2>2. \A y \in Subs : /\ stage'[y] = IF y \in Pending(h) THEN "owned" ELSE stage[y]
                        /\ stream'[y] = stream[y]
                        /\ y # g => /\ leases'[y] = leases[y] /\ holds'[y] = holds[y]
                                    /\ owned'[y] = owned[y]
    BY <1>0, <1>3 DEF RecordLaunch, TakePending
  <2>3. \A k \in Graphs : k # g => recorded'[k] = recorded[k]
    BY <1>0, <1>3 DEF RecordLaunch
  <2>4. UNCHANGED <<todo, target, phase, driver>>
    BY <1>3 DEF RecordLaunch
  <2>5. ASSUME NEW y \in Subs PROVE SubOK(y)'
    <3>1. CASE y = g
      BY <2>1, <2>2, <3>1 DEF SubOK, Pending
    <3>2. CASE y \in Pending(h)
      BY <2>2, <3>2 DEF StageInv, SubOK, Pending
    <3>3. CASE y # g /\ y \notin Pending(h)
      BY <2>2, <3>3, SubSame DEF StageInv
    <3> QED BY <3>1, <3>2, <3>3
  <2>6. ASSUME NEW o \in Ops PROVE OpOK(o)'
    <3>0. o \in Subs /\ o # g /\ OpOK(o)
      BY <1>1 DEF StageInv
    <3>1. CASE o \in Pending(h)
      BY <2>2, <2>4, <3>0, <3>1 DEF OpOK, Pending
    <3>2. CASE o \notin Pending(h)
      <4>1. stage[o] = "retaining" => target[o] \in Graphs /\ target[o] # g
        BY <1>0, <2>1, <3>0 DEF OpOK, HoldInv
      <4>2. stage[o] = "pending" => (Exec(target[o]) => Exec(target[o])')
        BY <2>4 DEF Exec
      <4> QED BY <2>2, <2>3, <2>4, <3>0, <3>2, <4>1, <4>2, OpSame
    <3> QED BY <3>1, <3>2
  <2> QED BY <2>5, <2>6 DEF StageInv
<1>4. ASSUME NEW g \in Graphs, Destroy(g) PROVE StageInv'
  <2>1. /\ ~Held(g) /\ stage[g] = "held" /\ stream[g] \in Streams
    BY <1>4, ExecHeld DEF Destroy, Exec
  <2>2. \A y \in Subs :
          stage'[y] = IF y = g \/ y \in Pending(g) THEN "dropping" ELSE stage[y]
    BY <1>4 DEF Destroy
  <2>3. UNCHANGED <<stream, leases, holds, owned, todo, target>>
    BY <1>4 DEF Destroy
  <2>4. /\ phase' = phase
        /\ \A k \in Graphs : k # g => recorded'[k] = recorded[k] /\ driver'[k] = driver[k]
    BY <1>0, <1>4 DEF Destroy
  <2>5. ASSUME NEW y \in Subs PROVE SubOK(y)'
    <3>1. CASE y = g \/ y \in Pending(g)
      BY <2>1, <2>2, <2>3, <3>1 DEF StageInv, SubOK, Pending
    <3>2. CASE y # g /\ y \notin Pending(g)
      BY <2>2, <2>3, <3>2, SubSame DEF StageInv
    <3> QED BY <3>1, <3>2
  <2>6. ASSUME NEW o \in Ops PROVE OpOK(o)'
    <3>0. o \in Subs /\ o # g /\ OpOK(o)
      BY <1>1 DEF StageInv
    <3>1. CASE o \in Pending(g)
      BY <2>2, <2>3, <3>0, <3>1 DEF OpOK, Pending
    <3>2. CASE o \notin Pending(g)
      <4>1. stage[o] \in {"retaining", "pending"} => target[o] \in Graphs /\ target[o] # g
        BY <1>0, <2>1, <3>0, <3>2 DEF OpOK, Held, Pending
      <4>2. stage[o] = "pending" => (Exec(target[o]) => Exec(target[o])')
        BY <2>3, <2>4, <4>1 DEF Exec
      <4> QED BY <2>2, <2>3, <2>4, <3>0, <3>2, <4>1, <4>2, OpSame
    <3> QED BY <3>1, <3>2
  <2> QED BY <2>5, <2>6 DEF StageInv
<1>5. ASSUME NEW x \in Subs, DropIdle(x) \/ Retire(x) PROVE StageInv'
  BY <1>5, StageRelease DEF DropIdle, Retire
<1>6. ASSUME NEW x \in Ops, DropLaunch(x) \/ Complete(x) PROVE StageInv'
  BY <1>1, <1>6, StageRelease DEF DropLaunch, Complete
<1>7. ASSUME NEW o \in Ops,
             \/ \E s \in Streams, use \in Uses : Plain(o, s, use)
             \/ \E g \in Graphs, use \in Uses : Update(o, g, use) \/ UpdateRefused(o, g, use)
      PROVE  StageInv'
  <2>0. o \in Subs /\ OpOK(o) /\ SubOK(o) /\ stage[o] = "new"
    BY <1>1, <1>7 DEF StageInv, Plain, Update, Execute, UpdateRefused
  <2>1. /\ stage'[o] \in {"open", "dropping", "pending"} /\ stream'[o] \in Streams
        /\ stage'[o] = "pending" => target'[o] \in Graphs /\ Exec(target[o])'
    <3>1. ASSUME NEW s \in Streams, NEW use \in Uses, Plain(o, s, use)
          PROVE  stage'[o] \in {"open", "dropping"} /\ stream'[o] = s
      BY <1>0, <2>0, <3>1 DEF Plain, Execute
    <3>2. ASSUME NEW g \in Graphs, NEW use \in Uses,
                 Update(o, g, use) \/ UpdateRefused(o, g, use)
          PROVE  /\ stage'[o] = "pending" /\ stream'[o] \in Streams
                 /\ target'[o] = g /\ Exec(target[o])'
      <4>1. Exec(g) /\ stream[g] \in Streams
        BY <3>2, ExecHeld DEF Update, UpdateRefused, HoldInv
      <4>2. stage'[o] = "pending" /\ stream'[o] = stream[g] /\ target'[o] = g
            /\ UNCHANGED <<phase, driver>>
        BY <1>0, <2>0, <3>2 DEF Update, Execute, UpdateRefused
      <4> QED BY <4>1, <4>2 DEF Exec
    <3> QED BY <1>7, <3>1, <3>2
  <2>2. UNCHANGED <<phase, driver, recorded, todo, holds, owned>>
    BY <1>7 DEF Plain, Update, Execute, UpdateRefused
  <2>3. \A y \in Subs : y # o => /\ stage'[y] = stage[y] /\ stream'[y] = stream[y]
                                 /\ leases'[y] = leases[y]
    BY <1>0, <1>7 DEF Plain, Update, Execute, UpdateRefused
  <2>4. \A p \in Ops : p # o => target'[p] = target[p]
    BY <1>0, <1>7 DEF Plain, Update, UpdateRefused
  <2>5. SubOK(o)' /\ OpOK(o)'
    BY <2>0, <2>1, <2>2 DEF SubOK, OpOK
  <2> QED BY <2>2, <2>3, <2>4, <2>5, StageOne
<1>8. ASSUME NEW o \in Ops, NEW g \in Graphs, MakeLaunch(o, g) PROVE StageInv'
  <2>0. o \in Subs /\ OpOK(o) /\ SubOK(o)
    BY <1>1 DEF StageInv
  <2>1. SubOK(o)' /\ OpOK(o)'
    BY <1>0, <1>8, <2>0 DEF MakeLaunch, SubOK, OpOK
  <2> QED BY <1>0, <1>8, <2>1, StageOne DEF MakeLaunch
<1>9. ASSUME NEW o \in Ops, NEW s \in Streams, StartLaunch(o, s) PROVE StageInv'
  <2>0. o \in Subs /\ OpOK(o) /\ SubOK(o)
    BY <1>1 DEF StageInv
  <2>1. SubOK(o)' /\ OpOK(o)'
    BY <1>0, <1>9, <2>0 DEF StartLaunch, SubOK, OpOK
  <2> QED BY <1>0, <1>9, <2>1, StageOne DEF StartLaunch
<1>10. ASSUME NEW o \in Ops, NEW use \in Uses, Acquire(o, use) PROVE StageInv'
  <2>0. o \in Subs /\ OpOK(o) /\ SubOK(o) /\ stage[o] = "retaining"
    BY <1>1, <1>10 DEF StageInv, Acquire, OpOK
  <2>1. SubOK(o)' /\ OpOK(o)'
    BY <1>0, <1>10, <2>0 DEF Acquire, SubOK, OpOK
  <2> QED BY <1>0, <1>10, <2>1, StageOne DEF Acquire
<1>11. ASSUME NEW o \in Ops, (\E use \in Uses : Refuse(o, use)) \/ DropFuture(o)
       PROVE  StageInv'
  <2>0. o \in Subs /\ OpOK(o) /\ SubOK(o) /\ stage[o] \in {"retaining", "open"}
    BY <1>1, <1>11 DEF StageInv, Refuse, DropFuture, OpOK
  <2>1. SubOK(o)' /\ OpOK(o)'
    BY <1>0, <1>11, <2>0 DEF Refuse, DropFuture, SubOK, OpOK
  <2> QED BY <1>0, <1>11, <2>1, StageOne DEF Refuse, DropFuture
<1>12. ASSUME NEW o \in Ops, Replay(o) PROVE StageInv'
  <2> DEFINE g == target[o]
  <2>0. o \in Subs /\ OpOK(o) /\ SubOK(o) /\ stage[o] = "retaining" /\ todo[o] = {}
    BY <1>1, <1>12 DEF StageInv, Replay
  <2>1. UNCHANGED <<stream, leases, holds, todo, target, phase, driver, recorded>>
    BY <1>12 DEF Replay
  <2>2. \A y \in Subs : y # o =>
          /\ stage'[y] = IF y \in Pending(g) THEN "owned" ELSE stage[y]
          /\ owned'[y] = owned[y]
    BY <1>0, <1>12 DEF Replay, TakePending
  <2>3. stage'[o] \in {"open", "dropping"}
    BY <1>12, <2>0 DEF Replay
  <2>4. ASSUME NEW y \in Subs PROVE SubOK(y)'
    <3>1. CASE y = o
      BY <2>0, <2>1, <2>3, <3>1 DEF SubOK
    <3>2. CASE y # o /\ y \in Pending(g)
      BY <2>1, <2>2, <3>2 DEF StageInv, SubOK, Pending
    <3>3. CASE y # o /\ y \notin Pending(g)
      BY <2>1, <2>2, <3>3, SubSame DEF StageInv
    <3> QED BY <3>1, <3>2, <3>3
  <2>5. ASSUME NEW p \in Ops PROVE OpOK(p)'
    <3>0. p \in Subs /\ OpOK(p)
      BY <1>1 DEF StageInv
    <3>1. CASE p = o
      BY <2>0, <2>1, <2>3, <3>1 DEF OpOK
    <3>2. CASE p # o /\ p \in Pending(g)
      BY <2>1, <2>2, <3>0, <3>2 DEF OpOK, Pending
    <3>3. CASE p # o /\ p \notin Pending(g)
      BY <2>1, <2>2, <3>0, <3>3 DEF OpOK, Exec
    <3> QED BY <3>1, <3>2, <3>3
  <2> QED BY <2>4, <2>5 DEF StageInv
<1>13. ASSUME NEW x \in Subs, DropBusy(x) \/ DropCapturing(x) PROVE StageInv'
  <2>1. /\ stage[x] = "dropping" /\ stage'[x] \in {"retiring", "leaked"}
        /\ \A y \in Subs : y # x => stage'[y] = stage[y]
    BY <1>0, <1>13 DEF DropBusy, DropCapturing
  <2>2. UNCHANGED <<stream, leases, holds, owned, todo, target, phase, driver, recorded>>
    BY <1>13 DEF DropBusy, DropCapturing
  <2>3. ASSUME NEW y \in Subs PROVE SubOK(y)'
    BY <2>1, <2>2 DEF StageInv, SubOK, Empty
  <2>4. ASSUME NEW p \in Ops PROVE OpOK(p)'
    BY <1>1, <2>1, <2>2 DEF StageInv, OpOK, Exec
  <2> QED BY <2>3, <2>4 DEF StageInv
<1>14. CASE \/ \E g \in Graphs : DropGraph(g)
            \/ \E s \in Streams : Finish(s)
            \/ \E b \in Bufs : DropView(b)
            \/ UNCHANGED vars
  <2>1. UNCHANGED <<stage, stream, leases, holds, owned, todo, target, phase, driver, recorded>>
    BY <1>14 DEF DropGraph, Finish, DropView, vars
  <2> QED BY <2>1 DEF StageInv, SubOK, OpOK, Empty, Exec
<1> QED BY <1>2, <1>3, <1>4, <1>5, <1>6, <1>7, <1>8, <1>9, <1>10, <1>11, <1>12, <1>13, <1>14
        DEF Next, UserStep, CaptureStep, LaunchStep, EndStep

-----------------------------------------------------------------------------
(* What the graphs do on the device.                                       *)

\* A graph that is left alone, as are the nodes of the graphs it contains.
LEMMA NodeSame ==
  ASSUME NEW g \in Graphs, NodeOK(g), nodes'[g] = nodes[g], recorded'[g] = recorded[g],
         stage'[g] = stage[g], leases[g] \subseteq leases'[g], holds'[g] = holds[g],
         children'[g] = children[g], \A h \in holds[g] : nodes'[h] = nodes[h]
  PROVE  NodeOK(g)'
<1>1. /\ nodes'[g] # {} \/ children'[g] # {} => stage'[g] \in {"recording", "held"}
      /\ children'[g] \subseteq holds'[g]
  BY DEF NodeOK
<1>2. ASSUME NEW use \in nodes[g]
      PROVE  /\ use[1] \in Tensors => Covers(recorded'[g], use)
             /\ Keeps(g, use)' \/ \E h \in holds'[g] : use \in nodes'[h]
  <2>1. Keeps(g, use) => Keeps(g, use)'
    BY DEF Keeps
  <2> QED BY <2>1 DEF NodeOK
<1> QED BY <1>1, <1>2 DEF NodeOK, Covers, Keeps

\* A graph without nodes.
LEMMA NodeEmpty ==
  ASSUME NEW g \in Graphs, nodes'[g] = {}, children'[g] = {}
  PROVE  NodeOK(g)'
BY DEF NodeOK

\* A step of one capture, whose graph no other graph contains.
LEMMA NodeOne ==
  ASSUME TypeOK, NodeInv, HoldInv, NEW g \in Graphs, ~Exec(g) \/ ~Held(g),
         \A k \in Graphs : k # g =>
           /\ nodes'[k] = nodes[k] /\ recorded'[k] = recorded[k] /\ stage'[k] = stage[k]
           /\ leases'[k] = leases[k] /\ holds'[k] = holds[k] /\ children'[k] = children[k],
         NodeOK(g)'
  PROVE  NodeInv'
<1>1. ASSUME NEW k \in Graphs, k # g PROVE NodeOK(k)'
  <2>1. \A h \in holds[k] : h \in Graphs /\ h # g
    BY DEF HoldInv, Held, Subs, TypeOK
  <2> QED BY <1>1, <2>1, NodeSame DEF NodeInv
<1> QED BY <1>1 DEF NodeInv

\* The capture records an access or the launch of a graph, and its end keeps
\* one access per storage.
LEMMA NodeRecord ==
  ASSUME TypeOK, PhaseInv, HoldInv, NodeInv, NEW g \in Graphs,
         \/ \E use \in Uses : RecordAccess(g, use)
         \/ \E h \in Graphs : RecordLaunch(g, h)
         \/ Adopt(g)
  PROVE  NodeInv'
<1> USE NamesAssumption
<1>0. /\ stage \in [Subs -> Stages] /\ nodes \in [Graphs -> SUBSET Uses]
      /\ leases \in [Subs -> SUBSET Uses] /\ holds \in [Subs -> SUBSET Graphs]
      /\ recorded \in [Graphs -> SUBSET Uses] /\ children \in [Graphs -> SUBSET Graphs]
      /\ Graphs \subseteq Subs /\ Ops \subseteq Subs
  BY DEF TypeOK, Subs
<1>1. ~Exec(g) /\ stage[g] = "recording" /\ NodeOK(g)
  BY DEF RecordAccess, RecordLaunch, Adopt, PhaseInv, PhaseOK, Exec, NodeInv
<1>2. \A k \in Graphs : k # g =>
           /\ nodes'[k] = nodes[k] /\ recorded'[k] = recorded[k] /\ stage'[k] = stage[k]
           /\ leases'[k] = leases[k] /\ holds'[k] = holds[k] /\ children'[k] = children[k]
  BY <1>0 DEF RecordAccess, RecordLaunch, Adopt, Pending
<1>3. \A h \in holds[g] : h \in Graphs /\ h # g
  BY <1>0, <1>1 DEF HoldInv
<1>4. ASSUME NEW use \in Uses, RecordAccess(g, use) PROVE NodeOK(g)'
  <2>1. /\ nodes'[g] = nodes[g] \cup {use} /\ recorded'[g] = recorded[g] \cup {use}
        /\ stage'[g] = "recording" /\ leases[g] \subseteq leases'[g] /\ holds'[g] = holds[g]
        /\ children'[g] = children[g]
    BY <1>0, <1>1, <1>4 DEF RecordAccess
  <2>2. ASSUME NEW u \in nodes'[g]
        PROVE  /\ u[1] \in Tensors => Covers(recorded'[g], u)
               /\ Keeps(g, u)' \/ \E h \in holds'[g] : u \in nodes'[h]
    <3>1. CASE u = use
      BY <2>1, <3>1 DEF Covers, Keeps, Uses
    <3>2. CASE u \in nodes[g]
      <4>1. /\ u[1] \in Tensors => Covers(recorded[g], u)
            /\ Keeps(g, u) \/ \E h \in holds[g] : u \in nodes[h]
        BY <1>1, <3>2 DEF NodeOK
      <4> QED BY <1>2, <1>3, <2>1, <4>1 DEF Covers, Keeps
    <3> QED BY <2>1, <3>1, <3>2
  <2>3. children'[g] \subseteq holds'[g]
    BY <1>1, <2>1 DEF NodeOK
  <2> QED BY <2>1, <2>2, <2>3 DEF NodeOK, Covers, Keeps
<1>5. ASSUME NEW h \in Graphs, RecordLaunch(g, h) PROVE NodeOK(g)'
  <2>0. h # g /\ NodeOK(h)
    BY <1>1, <1>5 DEF RecordLaunch, HoldInv, NodeInv
  <2>1. /\ nodes'[g] = nodes[g] \cup nodes[h] /\ holds'[g] = holds[g] \cup {h}
        /\ recorded'[g] = recorded[g] \cup {use \in recorded[h] : use[1] \in Tensors}
        /\ stage'[g] = "recording" /\ leases[g] \subseteq leases'[g]
        /\ children'[g] = children[g] \cup {h}
    BY <1>0, <1>1, <1>5 DEF RecordLaunch, Pending
  <2>2. ASSUME NEW u \in nodes'[g]
        PROVE  /\ u[1] \in Tensors => Covers(recorded'[g], u)
               /\ Keeps(g, u)' \/ \E k \in holds'[g] : u \in nodes'[k]
    <3>1. CASE u \in nodes[h]
      <4>1. u[1] \in Tensors => Covers(recorded[h], u)
        BY <2>0, <3>1 DEF NodeOK
      <4>2. u[1] \in Tensors => Covers(recorded'[g], u)
        BY <2>1, <4>1 DEF Covers
      <4> QED BY <1>2, <2>0, <2>1, <3>1, <4>2
    <3>2. CASE u \in nodes[g]
      <4>1. /\ u[1] \in Tensors => Covers(recorded[g], u)
            /\ Keeps(g, u) \/ \E k \in holds[g] : u \in nodes[k]
        BY <1>1, <3>2 DEF NodeOK
      <4> QED BY <1>2, <1>3, <2>1, <4>1 DEF Covers, Keeps
    <3> QED BY <2>1, <3>1, <3>2
  <2>3. children'[g] \subseteq holds'[g]
    BY <1>1, <2>1 DEF NodeOK
  <2> QED BY <2>1, <2>2, <2>3 DEF NodeOK, Covers, Keeps
<1>6. ASSUME Adopt(g) PROVE NodeOK(g)'
  <2>1. /\ nodes'[g] = nodes[g] /\ holds'[g] = holds[g] /\ leases'[g] = leases[g]
        /\ stage'[g] = "held" /\ recorded'[g] = Subsume(recorded[g])
        /\ children'[g] = children[g]
    BY <1>0, <1>6 DEF Adopt
  <2>2. \A u \in Uses : Covers(recorded[g], u) => Covers(recorded'[g], u)
    BY <2>1 DEF Covers, Subsume
  <2>3. ASSUME NEW u \in Uses, Keeps(g, u) PROVE Keeps(g, u)'
    <3>1. PICK m \in Modes : <<u[1], m>> \in recorded[g] \cup leases[g]
      BY <2>3 DEF Keeps
    <3>2. \/ <<u[1], m>> \in recorded'[g] \cup leases'[g]
          \/ <<u[1], "write">> \in recorded'[g]
      BY <2>1, <3>1 DEF Subsume
    <3>3. "write" \in Modes
      BY DEF Modes
    <3> QED BY <3>2, <3>3 DEF Keeps
  <2>4. ASSUME NEW u \in nodes'[g]
        PROVE  /\ u[1] \in Tensors => Covers(recorded'[g], u)
               /\ Keeps(g, u)' \/ \E k \in holds'[g] : u \in nodes'[k]
    <3>1. u \in Uses /\ u \in nodes[g]
      BY <1>0, <2>1
    <3>2. /\ u[1] \in Tensors => Covers(recorded[g], u)
          /\ Keeps(g, u) \/ \E k \in holds[g] : u \in nodes[k]
      BY <1>1, <3>1 DEF NodeOK
    <3> QED BY <1>2, <1>3, <2>1, <2>2, <2>3, <3>1, <3>2
  <2>5. children'[g] \subseteq holds'[g]
    BY <1>1, <2>1 DEF NodeOK
  <2> QED BY <2>1, <2>4, <2>5 DEF NodeOK, Covers, Keeps
<1>7. NodeOK(g)'
  BY <1>4, <1>5, <1>6
<1> QED BY <1>1, <1>2, <1>7, NodeOne

\* Every step keeps what graphs do recorded.
LEMMA NodeStep ==
  ASSUME TypeOK, PhaseInv, HoldInv, NodeInv, [Next]_vars
  PROVE  NodeInv'
<1> USE NamesAssumption DEF captureVars, subVars
<1>0. /\ stage \in [Subs -> Stages] /\ nodes \in [Graphs -> SUBSET Uses]
      /\ leases \in [Subs -> SUBSET Uses] /\ holds \in [Subs -> SUBSET Graphs]
      /\ recorded \in [Graphs -> SUBSET Uses] /\ owned \in [Subs -> SUBSET Ops]
      /\ children \in [Graphs -> SUBSET Graphs]
      /\ Graphs \subseteq Subs /\ Ops \subseteq Subs
  BY DEF TypeOK, Subs
<1>1. ASSUME NEW g \in Graphs,
             \/ \E s \in Streams : Begin(g, s)
             \/ Leave(g) \/ Destroy(g)
      PROVE  NodeInv'
  <2>1. ~Exec(g) \/ ~Held(g)
    BY <1>1 DEF Begin, Leave, Destroy, Exec
  <2>2. \A k \in Graphs : k # g =>
           /\ nodes'[k] = nodes[k] /\ recorded'[k] = recorded[k] /\ stage'[k] = stage[k]
           /\ leases'[k] = leases[k] /\ holds'[k] = holds[k] /\ children'[k] = children[k]
    BY <1>0, <1>1 DEF Begin, Leave, Destroy, Pending
  <2>3. nodes'[g] = {} /\ children'[g] = {}
    <3>1. CASE \E s \in Streams : Begin(g, s)
      <4>1. stage[g] = "new" /\ UNCHANGED <<nodes, children>>
        BY <3>1 DEF Begin, PhaseInv, PhaseOK
      <4> QED BY <4>1 DEF NodeInv, NodeOK
    <3>2. CASE Leave(g) \/ Destroy(g)
      BY <1>0, <3>2 DEF Leave, Destroy
    <3> QED BY <1>1, <3>1, <3>2
  <2> QED BY <2>1, <2>2, <2>3, NodeEmpty, NodeOne
<1>2. ASSUME NEW o \in Ops,
             \/ \E s \in Streams, use \in Uses : Plain(o, s, use)
             \/ \E g \in Graphs, use \in Uses : Update(o, g, use) \/ UpdateRefused(o, g, use)
             \/ \E g \in Graphs : MakeLaunch(o, g)
             \/ LaunchStep(o) \/ Complete(o) \/ DropFuture(o)
      PROVE  NodeInv'
  <2>1. UNCHANGED <<nodes, recorded, children>>
    BY <1>2 DEF Plain, Update, Execute, UpdateRefused, MakeLaunch, LaunchStep, StartLaunch,
                DropLaunch, Acquire, Refuse, Replay, Complete, DropFuture
  <2>2. \A k \in Graphs : k \in Subs /\ k # o /\ k \notin Ops
    BY <1>0
  <2>3. ASSUME NEW k \in Graphs
        PROVE  leases'[k] = leases[k] /\ holds'[k] = holds[k]
    BY <1>0, <1>2, <2>2 DEF Plain, Update, Execute, UpdateRefused, MakeLaunch, LaunchStep,
       StartLaunch, DropLaunch, Acquire, Refuse, Replay, Complete, DropFuture, Release
  <2>4. ASSUME NEW k \in Graphs PROVE stage'[k] = stage[k]
    <3>1. k \notin owned[o] /\ \A g \in Graphs : k \notin Pending(g)
      BY <1>0, <2>2 DEF Pending
    <3>2. k \notin Pending(target[o])
      BY <2>2 DEF Pending
    <3>3. CASE \/ \E s \in Streams, use \in Uses : Plain(o, s, use)
               \/ \E g \in Graphs, use \in Uses : Update(o, g, use) \/ UpdateRefused(o, g, use)
               \/ \E g \in Graphs : MakeLaunch(o, g)
      BY <1>0, <2>2, <3>3 DEF Plain, Update, Execute, UpdateRefused, MakeLaunch
    <3>4. CASE Replay(o)
      BY <1>0, <2>2, <3>2, <3>4 DEF Replay
    <3>5. CASE DropLaunch(o) \/ Complete(o)
      BY <2>2, <3>1, <3>5 DEF DropLaunch, Complete, Release
    <3>6. CASE \/ \E s \in Streams : StartLaunch(o, s)
               \/ \E use \in Uses : Acquire(o, use) \/ Refuse(o, use)
               \/ DropFuture(o)
      BY <1>0, <2>2, <3>6 DEF StartLaunch, Acquire, Refuse, DropFuture
    <3> QED BY <1>2, <3>3, <3>4, <3>5, <3>6 DEF LaunchStep
  <2> QED BY <2>1, <2>3, <2>4, NodeSame DEF NodeInv
<1>3. ASSUME NEW x \in Subs, DropIdle(x) \/ DropBusy(x) \/ DropCapturing(x) \/ Retire(x)
      PROVE  NodeInv'
  <2>1. stage[x] \in {"dropping", "retiring"} /\ UNCHANGED <<nodes, recorded, children>>
    BY <1>3 DEF DropIdle, DropBusy, DropCapturing, Retire
  <2>2. ASSUME NEW k \in Graphs PROVE NodeOK(k)'
    <3>1. CASE k = x
      BY <2>1, <3>1, NodeEmpty DEF NodeInv, NodeOK
    <3>2. CASE k # x
      <4>1. k \in Subs /\ k \notin owned[x]
        BY <1>0
      <4>2. /\ leases'[k] = leases[k] /\ holds'[k] = holds[k] /\ stage'[k] = stage[k]
        BY <1>0, <1>3, <3>2, <4>1 DEF DropIdle, DropBusy, DropCapturing, Retire, Release
      <4> QED BY <2>1, <4>2, NodeSame DEF NodeInv
    <3> QED BY <3>1, <3>2
  <2> QED BY <2>2 DEF NodeInv
<1>4. CASE \/ \E g \in Graphs : DropGraph(g) \/ DriverStep(g)
           \/ \E s \in Streams : Finish(s)
           \/ \E b \in Bufs : DropView(b)
           \/ UNCHANGED vars
  <2>1. UNCHANGED <<nodes, recorded, children, stage, leases, holds>>
    BY <1>4, DriverFrame DEF DropGraph, Finish, DropView, vars
  <2> QED BY <2>1, NodeSame DEF NodeInv
<1> QED BY <1>1, <1>2, <1>3, <1>4, NodeRecord DEF Next, UserStep, CaptureStep, EndStep

-----------------------------------------------------------------------------
(* The access tracker.                                                     *)

\* Steps after which an operation holds the same leases or none.
LEMMA LeaseFrame ==
  ASSUME LeaseInv,
         \A p \in Ops : \/ leases'[p] = {}
                        \/ leases'[p] = leases[p] /\ stream'[p] = stream[p]
  PROVE  LeaseInv'
<1>1. \A p \in Ops : \A use : use \in leases'[p] =>
        use \in leases[p] /\ stream'[p] = stream[p]
  OBVIOUS
<1> QED BY <1>1 DEF LeaseInv

\* An operation acquires a use that does not conflict.
LEMMA LeaseAdd ==
  ASSUME LeaseInv, NEW o \in Ops, NEW s, NEW use \in Uses, ~Conflicts(s, use),
         stream'[o] = s, leases[o] = {} \/ stream[o] = s,
         leases'[o] \subseteq leases[o] \cup {use},
         \A p \in Ops : p # o => leases'[p] = leases[p] /\ stream'[p] = stream[p]
  PROVE  LeaseInv'
<1>1. ASSUME NEW q \in Ops, NEW b \in Bufs, NEW m \in Modes, NEW n \in Modes, q # o,
             stream[q] # s, <<b, m>> \in leases'[o], <<b, n>> \in leases[q]
      PROVE  m = "read" /\ n = "read"
  <2>1. CASE <<b, m>> \in leases[o]
    BY <1>1, <2>1 DEF LeaseInv
  <2>2. CASE <<b, m>> = use
    <3>1. use[1] = b /\ use[2] = m
      BY <2>2
    <3>2. "write" \notin {n, m}
      BY <1>1, <3>1 DEF Conflicts
    <3> QED BY <3>2 DEF Modes
  <2> QED BY <1>1, <2>1, <2>2
<1>2. ASSUME NEW p \in Ops, NEW q \in Ops, NEW b \in Bufs, NEW m \in Modes, NEW n \in Modes,
             stream'[p] # stream'[q], <<b, m>> \in leases'[p], <<b, n>> \in leases'[q]
      PROVE  m = "read" /\ n = "read"
  <2>1. CASE p = o
    <3>1. q # o /\ stream[q] # s /\ <<b, n>> \in leases[q]
      BY <1>2, <2>1
    <3> QED BY <1>1, <1>2, <2>1, <3>1
  <2>2. CASE q = o
    <3>1. p # o /\ stream[p] # s /\ <<b, m>> \in leases[p]
      BY <1>2, <2>2
    <3> QED BY <1>1, <1>2, <2>2, <3>1
  <2>3. CASE p # o /\ q # o
    <3>1. /\ stream[p] # stream[q] /\ <<b, m>> \in leases[p] /\ <<b, n>> \in leases[q]
      BY <1>2, <2>3
    <3> QED BY <3>1 DEF LeaseInv
  <2> QED BY <2>1, <2>2, <2>3
<1> QED BY <1>2 DEF LeaseInv

\* Every step keeps conflicting leases on one stream.
LEMMA LeaseStep ==
  ASSUME TypeOK, PhaseInv, StageInv, LeaseInv, [Next]_vars
  PROVE  LeaseInv'
<1> USE NamesAssumption DEF captureVars, subVars
<1>0. /\ leases \in [Subs -> SUBSET Uses] /\ stream \in [Subs -> Streams \cup {None}]
      /\ Graphs \subseteq Subs /\ Ops \subseteq Subs
      /\ \A o \in Ops : \A g \in Graphs : o # g
  BY DEF TypeOK, Subs
<1>1. ASSUME NEW o \in Ops, NEW s, NEW use \in Uses, NEW done, NEW failed,
             Execute(o, s, use, done, failed)
      PROVE  LeaseInv'
  <2>1. leases[o] = {}
    BY <1>0, <1>1 DEF Execute, StageInv, SubOK
  <2>2. /\ ~Conflicts(s, use) /\ stream'[o] = s /\ leases'[o] = {use}
        /\ \A p \in Ops : p # o => leases'[p] = leases[p] /\ stream'[p] = stream[p]
    BY <1>0, <1>1 DEF Execute
  <2> QED BY <2>1, <2>2, LeaseAdd
<1>2. ASSUME NEW o \in Ops, NEW use \in Uses, Acquire(o, use) PROVE LeaseInv'
  <2>1. /\ ~Conflicts(stream[o], use) /\ stream'[o] = stream[o]
        /\ leases'[o] \subseteq leases[o] \cup {use}
        /\ \A p \in Ops : p # o => leases'[p] = leases[p] /\ stream'[p] = stream[p]
    BY <1>0, <1>2 DEF Acquire
  <2> QED BY <2>1, LeaseAdd
<1>3. ASSUME NEW o \in Ops,
             \/ \E s \in Streams : StartLaunch(o, s)
             \/ \E g \in Graphs, use \in Uses : UpdateRefused(o, g, use)
      PROVE  LeaseInv'
  <2>1. leases[o] = {} /\ leases' = leases /\ \A p \in Ops : p # o => stream'[p] = stream[p]
    BY <1>0, <1>3 DEF StartLaunch, UpdateRefused, StageInv, SubOK
  <2> QED BY <2>1, LeaseFrame
<1>4. ASSUME NEW x \in Subs, Release(x) PROVE LeaseInv'
  BY <1>0, <1>4, LeaseFrame DEF Release
<1>5. ASSUME NEW g \in Graphs,
             \/ \E s \in Streams : Begin(g, s)
             \/ \E use \in Uses : RecordAccess(g, use)
             \/ \E h \in Graphs : RecordLaunch(g, h)
             \/ DropGraph(g) \/ CaptureStep(g)
      PROVE  LeaseInv'
  <2>1. \A p \in Ops : leases'[p] = leases[p] /\ stream'[p] = stream[p]
    BY <1>0, <1>5, DriverFrame DEF Begin, RecordAccess, RecordLaunch, DropGraph, CaptureStep,
       Leave, Adopt, Destroy
  <2> QED BY <2>1, LeaseFrame
<1>6. CASE \/ \E o \in Ops : \/ \E g \in Graphs : MakeLaunch(o, g)
                             \/ \E use \in Uses : Refuse(o, use)
                             \/ Replay(o) \/ DropFuture(o)
           \/ \E x \in Subs : DropBusy(x) \/ DropCapturing(x)
           \/ \E s \in Streams : Finish(s)
           \/ \E b \in Bufs : DropView(b)
           \/ UNCHANGED vars
  <2>1. UNCHANGED <<leases, stream>>
    BY <1>6 DEF MakeLaunch, Refuse, Replay, DropFuture, DropBusy, DropCapturing, Finish,
                DropView, vars
  <2> QED BY <2>1, LeaseFrame
<1>7. ASSUME NEW o \in Ops, NEW use \in Uses,
             (\E s \in Streams : Plain(o, s, use)) \/ (\E g \in Graphs : Update(o, g, use))
      PROVE  LeaseInv'
  BY <1>1, <1>7 DEF Plain, Update
<1>8. ASSUME NEW x \in Subs, DropIdle(x) \/ Retire(x) \/ Complete(x) \/ DropLaunch(x)
      PROVE  LeaseInv'
  BY <1>4, <1>8 DEF DropIdle, Retire, Complete, DropLaunch
<1> QED BY <1>0, <1>2, <1>3, <1>5, <1>6, <1>7, <1>8 DEF Next, UserStep, LaunchStep, EndStep

-----------------------------------------------------------------------------
(* Queued work.                                                            *)

\* What a step leaves to a submission with queued work.
Kept(o) ==
  /\ stream'[o] = stream[o] /\ leases'[o] = leases[o] /\ holds'[o] = holds[o]
  /\ \A g \in holds[o] : nodes'[g] = nodes[g] /\ recorded'[g] = recorded[g]
  /\ stage'[o] \in Sent
  /\ stage'[o] = "retiring" => \/ stage[o] = "retiring" /\ event'[o] = event[o]
                               \/ event'[o] = Len(queue[stream[o]])

\* Work of a submission that keeps all this stays covered.
LEMMA KeptGood ==
  ASSUME TypeOK, NEW o \in Ops, NEW s \in Streams, NEW i \in DOMAIN queue[s],
         NEW uses \in SUBSET Uses, NEW gr \in Graphs \cup {None}, Good(o, s, uses, gr, i), Kept(o)
  PROVE  Good(o, s, uses, gr, i)'
<1>1. stream'[o] = s /\ stage'[o] \in Sent
  BY DEF Good, Kept
<1>2. stage'[o] = "retiring" => i <= event'[o]
  <2>1. CASE stage[o] = "retiring" /\ event'[o] = event[o]
    BY <2>1 DEF Good
  <2>2. CASE event'[o] = Len(queue[stream[o]])
    <3>1. stream[o] = s /\ queue[s] \in Seq(Work)
      BY DEF Good, TypeOK
    <3>2. i <= Len(queue[s])
      BY <3>1
    <3> QED BY <2>2, <3>1, <3>2
  <2> QED BY <2>1, <2>2 DEF Kept
<1>3. leases'[o] = leases[o] /\ holds'[o] = holds[o]
      /\ \A g \in holds[o] : nodes'[g] = nodes[g] /\ recorded'[g] = recorded[g]
  BY DEF Kept
<1>4. Backed(o, uses, gr)'
  BY <1>3 DEF Good, Backed
<1> QED BY <1>1, <1>2, <1>4 DEF Good

\* An item of a queue.
LEMMA Item ==
  ASSUME TypeOK, NEW s \in Streams, NEW i \in DOMAIN queue[s]
  PROVE  /\ queue[s][i].sub \in Ops /\ queue[s][i].uses \in SUBSET Uses /\ i \in Nat /\ i # 0
         /\ queue[s][i].graph \in Graphs \cup {None}
<1>1. queue[s] \in Seq(Work)
  BY DEF TypeOK
<1>2. queue[s][i] \in Work /\ i \in Nat /\ i # 0
  BY <1>1
<1> QED BY <1>2 DEF Work

\* Steps that submit nothing and keep every submission with queued work.
LEMMA QueueFrame ==
  ASSUME TypeOK, QueueInv, queue' = queue,
         \A o \in Ops : stage[o] \in Sent /\ InFlight(o) => Kept(o)
  PROVE  QueueInv'
<1>1. ASSUME NEW s \in Streams, NEW i \in DOMAIN queue[s]
      PROVE  Good(queue[s][i].sub, s, queue[s][i].uses, queue[s][i].graph, i)'
  <2>1. PICK o \in Ops : o = queue[s][i].sub
    BY Item
  <2>2. PICK uses \in SUBSET Uses, gr \in Graphs \cup {None} :
         uses = queue[s][i].uses /\ gr = queue[s][i].graph
    BY Item
  <2>3. Good(o, s, uses, gr, i)
    BY <2>1, <2>2 DEF QueueInv
  <2>4. InFlight(o) /\ stage[o] \in Sent
    BY <2>1, <2>3 DEF InFlight, Good
  <2>5. Good(o, s, uses, gr, i)'
    BY <2>3, <2>4, KeptGood
  <2> QED BY <2>1, <2>2, <2>5
<1> QED BY <1>1 DEF QueueInv

\* A submission without queued work submits.
LEMMA QueueAdd ==
  ASSUME TypeOK, QueueInv, NEW o \in Ops, NEW s \in Streams, NEW uses \in SUBSET Uses,
         NEW gr \in Graphs \cup {None}, Enqueue(o, s, uses, gr), stage[o] \notin Sent,
         stream'[o] = s, stage'[o] \in {"open", "pending"}, Backed(o, uses, gr)',
         \A p \in Ops : p # o /\ stage[p] \in Sent => Kept(p)
  PROVE  QueueInv'
<1>0. queue \in [Streams -> Seq(Work)]
  BY DEF TypeOK
<1>a. /\ \A r \in Streams : r # s => queue'[r] = queue[r]
      /\ DOMAIN queue'[s] = DOMAIN queue[s] \cup {Len(queue[s]) + 1}
      /\ \A i \in DOMAIN queue[s] : queue'[s][i] = queue[s][i]
      /\ queue'[s][Len(queue[s]) + 1].sub = o /\ queue'[s][Len(queue[s]) + 1].uses = uses
      /\ queue'[s][Len(queue[s]) + 1].graph = gr
  <2>1. gr \in Graphs \cup {None} /\ uses \in SUBSET Uses
    OBVIOUS
  <2>2. \A r \in Streams : r # s => queue'[r] = queue[r]
    BY <1>0 DEF Enqueue
  <2>3. /\ DOMAIN queue'[s] = DOMAIN queue[s] \cup {Len(queue[s]) + 1}
        /\ \A i \in DOMAIN queue[s] : queue'[s][i] = queue[s][i]
    BY <1>0, <2>1, Enqueued
  <2>4. /\ queue'[s][Len(queue[s]) + 1].sub = o
        /\ queue'[s][Len(queue[s]) + 1].uses = uses
        /\ queue'[s][Len(queue[s]) + 1].graph = gr
    <3>1. queue'[s][Len(queue[s]) + 1] = [sub |-> o, uses |-> uses, graph |-> gr]
      <4> DEFINE item == [sub |-> o, uses |-> uses, graph |-> gr]
                 q == queue[s]
      <4>1. item \in Work /\ q \in Seq(Work) /\ queue'[s] = Append(q, item)
        BY <1>0, <2>1 DEF Work, Enqueue
      <4> HIDE DEF item, q
      <4>2. queue'[s][Len(q) + 1] = item
        BY <4>1
      <4> QED BY <4>2 DEF item, q
    <3> QED BY <3>1
  <2> QED BY <2>2, <2>3, <2>4
<1>1. ASSUME NEW r \in Streams, NEW i \in DOMAIN queue[r],
             queue'[r][i] = queue[r][i]
      PROVE  Good(queue[r][i].sub, r, queue[r][i].uses, queue[r][i].graph, i)'
  <2>1. PICK p \in Ops : p = queue[r][i].sub
    BY Item
  <2>2. PICK u \in SUBSET Uses, w \in Graphs \cup {None} :
         u = queue[r][i].uses /\ w = queue[r][i].graph
    BY Item
  <2>3. Good(p, r, u, w, i)
    BY <2>1, <2>2 DEF QueueInv
  <2>4. stage[p] \in Sent /\ p # o
    BY <2>3 DEF Good
  <2>5. Good(p, r, u, w, i)'
    BY <2>3, <2>4, KeptGood
  <2>6. queue'[r][i].sub = p /\ queue'[r][i].uses = u /\ queue'[r][i].graph = w
    BY <1>1, <2>1, <2>2
  <2> QED BY <2>5, <2>6
<1>2. PICK n : n = Len(queue[s]) + 1
  OBVIOUS
<1>3. Good(queue[s][n].sub, s, queue[s][n].uses, queue[s][n].graph, n)'
  <2>1. queue'[s][n].sub = o /\ queue'[s][n].uses = uses /\ queue'[s][n].graph = gr
    BY <1>2, <1>a
  <2>2. Good(o, s, uses, gr, n)'
    BY DEF Good, Sent
  <2> QED BY <2>1, <2>2
<1>4. ASSUME NEW r \in Streams, NEW i \in DOMAIN queue'[r]
      PROVE  Good(queue[r][i].sub, r, queue[r][i].uses, queue[r][i].graph, i)'
  <2>1. CASE r = s /\ i = n
    BY <1>3, <2>1
  <2>2. CASE ~(r = s /\ i = n)
    <3>1. i \in DOMAIN queue[r] /\ queue'[r][i] = queue[r][i]
      <4>1. CASE r = s
        BY <1>2, <1>4, <1>a, <2>2, <4>1
      <4>2. CASE r # s
        BY <1>4, <1>a, <4>2
      <4> QED BY <4>1, <4>2
    <3> QED BY <1>1, <3>1
  <2> QED BY <2>1, <2>2
<1> QED BY <1>4 DEF QueueInv

\* The owners of a submission without queued work drop.
LEMMA QueueRelease ==
  ASSUME TypeOK, OwnInv, QueueInv, NEW x \in Subs, Release(x),
         UNCHANGED <<captureVars, todo, event, queue, views>>,
         x \in Ops => ~(stage[x] \in Sent /\ InFlight(x))
  PROVE  QueueInv'
<1>0. /\ leases \in [Subs -> SUBSET Uses] /\ stream \in [Subs -> Streams \cup {None}]
      /\ holds \in [Subs -> SUBSET Graphs] /\ stage \in [Subs -> Stages]
      /\ Ops \subseteq Subs
  BY DEF TypeOK, Subs
<1>1. ASSUME NEW o \in Ops, stage[o] \in Sent, InFlight(o) PROVE Kept(o)
  <2>1. o # x
    BY <1>1
  <2>2. /\ leases'[o] = leases[o] /\ holds'[o] = holds[o] /\ stream'[o] = stream[o]
        /\ stage'[o] = IF o \in owned[x] THEN "dropping" ELSE stage[o]
        /\ nodes' = nodes /\ recorded' = recorded /\ event' = event
    BY <1>0, <2>1 DEF Release, captureVars
  <2> QED BY <1>1, <2>2 DEF Kept, Sent
<1> QED BY <1>1, QueueFrame

\* The head of a stream finishes: the events recorded behind it advance.
LEMMA QueueFinish ==
  ASSUME TypeOK, QueueInv, NEW s \in Streams, Finish(s)
  PROVE  QueueInv'
<1>0. event \in [Subs -> Nat] /\ Ops \subseteq Subs
  BY DEF TypeOK, Subs
<1>1. UNCHANGED <<captureVars, stage, stream, leases, holds>>
  BY DEF Finish
<1>2. \A o \in Ops : event'[o] = IF stream[o] = s /\ event[o] > 0 THEN event[o] - 1 ELSE event[o]
  BY <1>0 DEF Finish
<1>3. ASSUME NEW r \in Streams, NEW i \in DOMAIN queue'[r]
      PROVE  Good(queue[r][i].sub, r, queue[r][i].uses, queue[r][i].graph, i)'
  <2>1. CASE r # s
    <3>1. queue'[r] = queue[r] /\ i \in DOMAIN queue[r]
      BY <1>3, <2>1, Finished
    <3>2. PICK o \in Ops : o = queue[r][i].sub
      BY <3>1, Item
    <3>3. PICK uses \in SUBSET Uses, gr \in Graphs \cup {None} :
           uses = queue[r][i].uses /\ gr = queue[r][i].graph
      BY <3>1, Item
    <3>4. Good(o, r, uses, gr, i)
      BY <3>1, <3>2, <3>3 DEF QueueInv
    <3>5. event'[o] = event[o]
      BY <1>2, <2>1, <3>4 DEF Good
    <3>6. Good(o, r, uses, gr, i)'
      BY <1>1, <3>4, <3>5 DEF Good, Backed, captureVars
    <3> QED BY <3>1, <3>2, <3>3, <3>6
  <2>2. CASE r = s
    <3>1. i + 1 \in DOMAIN queue[s] /\ queue'[s][i] = queue[s][i + 1] /\ i \in Nat
      <4>1. i + 1 \in DOMAIN queue[s] /\ queue'[s][i] = queue[s][i + 1]
        BY <1>3, <2>2, Finished
      <4>2. queue'[s] \in Seq(Work)
        BY Finished
      <4> QED BY <1>3, <2>2, <4>1, <4>2
    <3>2. PICK o \in Ops : o = queue[s][i + 1].sub
      BY <3>1, Item
    <3>3. PICK uses \in SUBSET Uses, gr \in Graphs \cup {None} :
           uses = queue[s][i + 1].uses /\ gr = queue[s][i + 1].graph
      BY <3>1, Item
    <3>4. Good(o, s, uses, gr, i + 1)
      BY <3>1, <3>2, <3>3 DEF QueueInv
    <3>5. stage'[o] = "retiring" => i <= event'[o]
      <4>1. stage[o] = "retiring" => i + 1 <= event[o] /\ stream[o] = s
        BY <3>4 DEF Good
      <4>2. event[o] \in Nat /\ stage' = stage
        BY <1>0, <1>1
      <4> QED BY <1>2, <3>1, <4>1, <4>2
    <3>6. Good(o, s, uses, gr, i)'
      BY <1>1, <3>4, <3>5 DEF Good, Backed, captureVars
    <3> QED BY <2>2, <3>1, <3>2, <3>3, <3>6
  <2> QED BY <2>1, <2>2
<1> QED BY <1>3 DEF QueueInv

\* Every step keeps what is queued covered.
LEMMA QueueStep ==
  ASSUME TypeOK, PhaseInv, StageInv, HoldInv, OwnInv, QueueInv, [Next]_vars
  PROVE  QueueInv'
<1> USE NamesAssumption DEF captureVars, subVars
<1>0. /\ leases \in [Subs -> SUBSET Uses] /\ stream \in [Subs -> Streams \cup {None}]
      /\ holds \in [Subs -> SUBSET Graphs] /\ stage \in [Subs -> Stages]
      /\ nodes \in [Graphs -> SUBSET Uses] /\ recorded \in [Graphs -> SUBSET Uses]
      /\ event \in [Subs -> Nat] /\ target \in [Ops -> Graphs \cup {None}]
      /\ Graphs \subseteq Subs /\ Ops \subseteq Subs
      /\ \A o \in Ops : \A g \in Graphs : o # g
  BY DEF TypeOK, Subs
<1>1. ASSUME NEW g \in Graphs,
             \/ \E s \in Streams : Begin(g, s)
             \/ \E use \in Uses : RecordAccess(g, use)
             \/ \E h \in Graphs : RecordLaunch(g, h)
             \/ CaptureStep(g)
      PROVE  QueueInv'
  <2>1. \A o \in Ops : g \notin holds[o]
    <3>1. ~Exec(g) \/ ~Held(g)
      BY <1>1, DriverFrame DEF Begin, RecordAccess, RecordLaunch, CaptureStep, Leave, Adopt,
                  Destroy, Exec
    <3> QED BY <1>0, <3>1 DEF HoldInv, Held
  <2>2. queue' = queue
    BY <1>1, DriverFrame DEF Begin, RecordAccess, RecordLaunch, CaptureStep, Leave, Adopt,
                Destroy
  <2>3. ASSUME NEW o \in Ops, stage[o] \in Sent PROVE Kept(o)
    <3>1. /\ stream'[o] = stream[o] /\ leases'[o] = leases[o] /\ holds'[o] = holds[o]
          /\ event' = event
      BY <1>0, <1>1, DriverFrame DEF Begin, RecordAccess, RecordLaunch, CaptureStep, Leave,
                  Adopt, Destroy
    <3>2. \A h \in Graphs : h # g => nodes'[h] = nodes[h] /\ recorded'[h] = recorded[h]
      BY <1>0, <1>1, DriverFrame DEF Begin, RecordAccess, RecordLaunch, CaptureStep, Leave,
                  Adopt, Destroy
    <3>3. \A h \in holds[o] : nodes'[h] = nodes[h] /\ recorded'[h] = recorded[h]
      BY <1>0, <2>1, <3>2
    <3>4. stage'[o] \in {stage[o], "owned", "dropping"}
      BY <1>0, <1>1, DriverFrame DEF Begin, RecordAccess, RecordLaunch, CaptureStep, Leave,
                  Adopt, Destroy
    <3> QED BY <2>3, <3>1, <3>3, <3>4 DEF Kept, Sent
  <2> QED BY <2>2, <2>3, QueueFrame
<1>2. ASSUME NEW o \in Ops, NEW s \in Streams, NEW use \in Uses,
             NEW done \in {"open", "pending"}, NEW failed \in Stages,
             Execute(o, s, use, done, failed)
      PROVE  QueueInv'
  <2>1. /\ stage[o] = "new" /\ stream'[o] = s /\ leases'[o] = {use}
        /\ UNCHANGED <<nodes, recorded, holds, event>>
    BY <1>0, <1>2 DEF Execute
  <2>2. ASSUME NEW p \in Ops, stage[p] \in Sent PROVE p # o /\ Kept(p)
    <3>1. p # o
      BY <2>1, <2>2 DEF Sent
    <3>2. stream'[p] = stream[p] /\ leases'[p] = leases[p] /\ stage'[p] = stage[p]
      BY <1>0, <1>2, <3>1 DEF Execute
    <3> QED BY <2>1, <2>2, <3>1, <3>2 DEF Kept
  <2>3. CASE queue' = queue
    BY <2>2, <2>3, QueueFrame
  <2>4. CASE Enqueue(o, s, {use}, None) /\ stage' = [stage EXCEPT ![o] = done]
    <3>1. Backed(o, {use}, None)'
      BY <2>1 DEF Backed
    <3>2. stage'[o] = done /\ stage[o] \notin Sent /\ {use} \in SUBSET Uses
      BY <1>0, <2>1, <2>4 DEF Sent
    <3> QED BY <2>1, <2>2, <2>4, <3>1, <3>2, QueueAdd
  <2> QED BY <1>2, <2>3, <2>4 DEF Execute
<1>3. ASSUME NEW o \in Ops,
             \/ \E s \in Streams, use \in Uses : Plain(o, s, use)
             \/ \E g \in Graphs, use \in Uses : Update(o, g, use)
      PROVE  QueueInv'
  <2>1. ASSUME NEW g \in Graphs, g \in user PROVE stream[g] \in Streams
    BY <2>1, ExecHeld DEF HoldInv
  <2>2. "dropping" \in Stages /\ "pending" \in Stages
    BY DEF Stages
  <2> QED BY <1>2, <1>3, <2>1, <2>2 DEF Plain, Update
<1>4. ASSUME NEW o \in Ops,
             \/ \E g \in Graphs, use \in Uses : UpdateRefused(o, g, use)
             \/ \E g \in Graphs : MakeLaunch(o, g)
             \/ \E s \in Streams : StartLaunch(o, s)
             \/ \E use \in Uses : Acquire(o, use) \/ Refuse(o, use)
      PROVE  QueueInv'
  <2>1. stage[o] \in {"new", "ticket", "retaining"}
    BY <1>4 DEF UpdateRefused, MakeLaunch, StartLaunch, Acquire, Refuse, StageInv, OpOK
  <2>2. UNCHANGED <<nodes, recorded, event, queue>>
    BY <1>4 DEF UpdateRefused, MakeLaunch, StartLaunch, Acquire, Refuse
  <2>3. ASSUME NEW p \in Ops, stage[p] \in Sent PROVE Kept(p)
    <3>1. p # o
      BY <2>1, <2>3 DEF Sent
    <3>2. /\ stream'[p] = stream[p] /\ leases'[p] = leases[p] /\ stage'[p] = stage[p]
          /\ holds'[p] = holds[p]
      BY <1>0, <1>4, <3>1 DEF UpdateRefused, MakeLaunch, StartLaunch, Acquire, Refuse
    <3> QED BY <2>2, <2>3, <3>2 DEF Kept
  <2> QED BY <2>2, <2>3, QueueFrame
<1>5. ASSUME NEW o \in Ops, Replay(o) PROVE QueueInv'
  <2>0. PICK g \in Graphs : g = target[o]
    BY <1>0, <1>5 DEF Replay, StageInv, OpOK
  <2>1. /\ stage[o] = "retaining" /\ todo[o] = {} /\ stream[o] \in Streams
        /\ g \in holds[o] /\ recorded[g] \subseteq leases[o]
    BY <1>0, <1>5, <2>0 DEF Replay, StageInv, OpOK, SubOK
  <2>2. UNCHANGED <<nodes, recorded, event, leases, holds, stream>>
    BY <1>5 DEF Replay
  <2>3. ASSUME NEW p \in Ops, stage[p] \in Sent PROVE p # o /\ Kept(p)
    <3>1. p # o
      BY <2>1, <2>3 DEF Sent
    <3>2. stage'[p] \in {stage[p], "owned"}
      BY <1>0, <1>5, <3>1 DEF Replay
    <3> QED BY <2>2, <2>3, <3>1, <3>2 DEF Kept, Sent
  <2>4. CASE queue' = queue
    BY <2>3, <2>4, QueueFrame
  <2>5. CASE Enqueue(o, stream[o], nodes[g], g) /\ stage'[o] = "open"
    <3>1. PICK s \in Streams : s = stream[o]
      BY <2>1
    <3>2. PICK uses \in SUBSET Uses : uses = nodes[g]
      BY <1>0
    <3>3. Backed(o, uses, g)'
      BY <2>1, <2>2, <3>2 DEF Backed
    <3>4. Enqueue(o, s, uses, g) /\ stage[o] \notin Sent /\ stream'[o] = s
      BY <2>0, <2>1, <2>2, <2>5, <3>1, <3>2 DEF Sent
    <3> QED BY <2>3, <2>5, <3>3, <3>4, QueueAdd
  <2>6. queue' = queue \/ (Enqueue(o, stream[o], nodes[g], g) /\ stage'[o] = "open")
    BY <1>0, <1>5, <2>0 DEF Replay
  <2> QED BY <2>4, <2>5, <2>6
<1>6. ASSUME NEW x \in Subs, DropBusy(x) \/ DropCapturing(x) PROVE QueueInv'
  <2>1. UNCHANGED <<nodes, recorded, leases, holds, stream, queue>>
    BY <1>6 DEF DropBusy, DropCapturing
  <2>2. ASSUME NEW p \in Ops, stage[p] \in Sent PROVE Kept(p)
    <3>1. CASE p # x
      <4>1. stage'[p] = stage[p] /\ event'[p] = event[p]
        BY <1>0, <1>6, <3>1 DEF DropBusy, DropCapturing
      <4> QED BY <2>1, <2>2, <4>1 DEF Kept
    <3>2. CASE p = x
      <4>1. \/ stage'[p] = "retiring" /\ event'[p] = Len(queue[stream[p]])
            \/ stage'[p] = "leaked"
        BY <1>0, <1>6, <3>2 DEF DropBusy, DropCapturing
      <4> QED BY <2>1, <4>1 DEF Kept, Sent
    <3> QED BY <3>1, <3>2
  <2> QED BY <2>1, <2>2, QueueFrame
<1>7. ASSUME NEW x \in Subs, DropIdle(x) \/ Retire(x) PROVE QueueInv'
  <2>1. ASSUME x \in Ops, InFlight(x) PROVE FALSE
    <3>1. PICK s \in Streams : \E i \in DOMAIN queue[s] : queue[s][i].sub = x
      BY <2>1 DEF InFlight
    <3>2. PICK i \in DOMAIN queue[s] : queue[s][i].sub = x
      BY <3>1
    <3>3. i \in Nat /\ i # 0
      BY Item
    <3>4. PICK uses \in SUBSET Uses, gr \in Graphs \cup {None} :
           uses = queue[s][i].uses /\ gr = queue[s][i].graph
      BY Item
    <3>5. Good(x, s, uses, gr, i)
      BY <3>2, <3>4 DEF QueueInv
    <3>6. CASE Retire(x)
      BY <3>3, <3>5, <3>6 DEF Retire, Good
    <3>7. CASE DropIdle(x) /\ Empty(x)
      BY <3>5, <3>7 DEF Good, Backed, Empty
    <3>8. CASE DropIdle(x) /\ queue[stream[x]] = <<>>
      BY <3>2, <3>5, <3>8 DEF Good
    <3> QED BY <1>7, <3>6, <3>7, <3>8 DEF DropIdle
  <2>2. Release(x) /\ UNCHANGED <<captureVars, todo, event, queue, views>>
    BY <1>7 DEF DropIdle, Retire
  <2> QED BY <2>1, <2>2, QueueRelease
<1>8. ASSUME NEW o \in Ops, DropLaunch(o) \/ Complete(o) PROVE QueueInv'
  <2>1. ~(stage[o] \in Sent /\ InFlight(o))
    BY <1>8 DEF DropLaunch, Complete, Sent
  <2>2. Release(o) /\ UNCHANGED <<captureVars, todo, event, queue, views>>
    BY <1>8 DEF DropLaunch, Complete
  <2> QED BY <1>0, <2>1, <2>2, QueueRelease
<1>9. ASSUME NEW o \in Ops, DropFuture(o) PROVE QueueInv'
  <2>1. UNCHANGED <<nodes, recorded, leases, holds, stream, queue, event>>
    BY <1>9 DEF DropFuture
  <2>2. ASSUME NEW p \in Ops, stage[p] \in Sent PROVE Kept(p)
    <3>1. stage'[p] \in {stage[p], "dropping"}
      BY <1>0, <1>9 DEF DropFuture
    <3> QED BY <2>1, <2>2, <3>1 DEF Kept, Sent
  <2> QED BY <2>1, <2>2, QueueFrame
<1>10. CASE \/ \E g \in Graphs : DropGraph(g)
            \/ \E b \in Bufs : DropView(b)
            \/ UNCHANGED vars
  <2>1. UNCHANGED <<nodes, recorded, leases, holds, stream, stage, queue, event>>
    BY <1>10 DEF DropGraph, DropView, vars
  <2> QED BY <2>1, QueueFrame DEF Kept
<1> QED BY <1>1, <1>3, <1>4, <1>5, <1>6, <1>7, <1>8, <1>9, <1>10, QueueFinish
        DEF Next, UserStep, LaunchStep, EndStep

-----------------------------------------------------------------------------
(* The theorems.                                                           *)

\* Nothing has been captured or submitted in an initial state.
LEMMA Initially == Init => IndInv
<1> SUFFICES ASSUME Init PROVE IndInv
  OBVIOUS
<1> USE DEF Init
<1>1. TypeOK
  BY DEF TypeOK, Stages, Phases
<1>2. PhaseInv
  BY DEF PhaseInv, PhaseOK, Subs
<1>3. StageInv
  BY DEF StageInv, SubOK, OpOK, Empty, Subs
<1>4. HoldInv
  BY DEF HoldInv, Subs
<1>5. OwnInv
  BY DEF OwnInv
<1>6. NodeInv /\ LeaseInv
  BY DEF NodeInv, NodeOK, LeaseInv, Subs
<1>7. QueueInv
  BY DEF QueueInv
<1> QED BY <1>1, <1>2, <1>3, <1>4, <1>5, <1>6, <1>7 DEF IndInv

\* The invariant holds throughout every behaviour of capture, update and
\* replay, however the captures are nested.
THEOREM Invariance == Spec => []IndInv
<1>1. IndInv /\ [Next]_vars => IndInv'
  <2> SUFFICES ASSUME IndInv, [Next]_vars PROVE IndInv'
    OBVIOUS
  <2>1. TypeOK' /\ PhaseInv' /\ StageInv' /\ HoldInv' /\ OwnInv'
    BY TypeStep, PhaseStep, StageStep, HoldStep, OwnStep DEF IndInv
  <2>2. NodeInv' /\ LeaseInv' /\ QueueInv'
    BY NodeStep, LeaseStep, QueueStep DEF IndInv
  <2> QED BY <2>1, <2>2 DEF IndInv
<1> QED BY Initially, <1>1, PTL DEF Spec

\* capture_on and GraphExecHandle: whether the closure, end_capture, the
\* instantiation, the upload or the wait fails, a capture is not left before
\* every driver object it made is destroyed and its stream is usable again.
THEOREM CaptureLeavesNothing == Spec => []CaptureCleansUp
<1>1. IndInv => CaptureCleansUp
  BY DEF IndInv, PhaseInv, PhaseOK, CaptureCleansUp
<1> QED BY <1>1, Invariance, PTL

\* A launch that waits, a replay that is queued and a graph that contains a
\* launch all find the exec alive: the submission of queued work, and the
\* capture context of a graph, still share it.
THEOREM LaunchesFindExec == Spec => []ExecAlive
<1>1. ASSUME IndInv, NEW o \in Ops, stage[o] \in {"ticket", "retaining"}
      PROVE  "exec" \in driver[target[o]]
  BY <1>1 DEF IndInv, HoldInv, StageInv, OpOK, Exec, Subs
<1>2. ASSUME IndInv, NEW s \in Streams, NEW i \in DOMAIN queue[s], queue[s][i].graph # None
      PROVE  "exec" \in driver[queue[s][i].graph]
  <2>1. PICK o \in Ops : o = queue[s][i].sub
    BY <1>2, Item DEF IndInv
  <2>2. queue[s][i].graph \in holds[o]
    BY <1>2, <2>1 DEF IndInv, QueueInv, Good, Backed
  <2> QED BY <1>2, <2>2 DEF IndInv, HoldInv, Exec, Subs
<1>3. ASSUME IndInv, NEW g \in Graphs, NEW h \in children[g] PROVE "exec" \in driver[h]
  BY <1>3 DEF IndInv, NodeInv, NodeOK, HoldInv, Exec, Subs
<1>4. IndInv => ExecAlive
  BY <1>1, <1>2, <1>3 DEF ExecAlive
<1> QED BY <1>4, Invariance, PTL

\* Contexts change hands without being lost or shared: graph to launch,
\* launch to retirement.
THEOREM ContextsHaveOneOwner == Spec => []NothingStranded
<1>1. ASSUME IndInv, NEW x \in Subs PROVE
        /\ stage[x] = "pending" => "exec" \in driver[target[x]]
        /\ stage[x] = "owned" => Cardinality({y \in Subs : x \in owned[y]}) = 1
        /\ stage[x] = "gone" => Empty(x)
  <2>1. ASSUME stage[x] = "pending" PROVE "exec" \in driver[target[x]]
    <3>1. x \notin Graphs
      <4>1. ASSUME x \in Graphs
            PROVE  phase[x] \in Phases
        BY <1>1, <4>1 DEF IndInv, TypeOK
      <4> QED BY <1>1, <2>1, <4>1 DEF IndInv, PhaseInv, PhaseOK, Phases, Ending
    <3> QED BY <1>1, <2>1, <3>1 DEF IndInv, StageInv, OpOK, Exec, Subs
  <2>2. ASSUME stage[x] = "owned" PROVE Cardinality({y \in Subs : x \in owned[y]}) = 1
    <3>1. PICK y \in Subs : x \in owned[y]
      BY <1>1, <2>2 DEF IndInv, OwnInv
    <3>2. {z \in Subs : x \in owned[z]} = {y}
      BY <1>1, <3>1 DEF IndInv, OwnInv
    <3> QED BY <3>2, FS_Singleton
  <2>3. stage[x] = "gone" => Empty(x)
    BY <1>1 DEF IndInv, StageInv, SubOK
  <2> QED BY <2>1, <2>2, <2>3
<1>2. IndInv => NothingStranded
  BY <1>1 DEF NothingStranded
<1> QED BY <1>2, Invariance, PTL

\* Of the graphs that share a use, the innermost one keeps its buffer.
LEMMA NodesAlive ==
  ASSUME IndInv, NEW g \in Graphs, NEW use \in nodes[g]
  PROVE  Alive(use[1])
<1> DEFINE S == {k \in Graphs : use \in nodes[k]}
<1>1. S \in SUBSET Graphs /\ S # {}
  OBVIOUS
<1>2. PICK k \in S : \A h \in S : h \notin holds[k]
  BY <1>1 DEF IndInv, HoldInv
<1>3. k \in Graphs /\ k \in Subs /\ NodeOK(k) /\ use \in nodes[k] /\ holds[k] \subseteq Graphs
  BY <1>2 DEF IndInv, NodeInv, TypeOK, Subs
<1>4. Keeps(k, use)
  <2>1. ~\E h \in holds[k] : use \in nodes[h]
    BY <1>2, <1>3
  <2> QED BY <1>3, <2>1 DEF NodeOK
<1> QED BY <1>3, <1>4 DEF Keeps, Alive

\* Memory that queued work uses, or that a graph can still be made to use,
\* is not freed, whatever the user drops.
THEOREM MemoryOutlivesGraphs == Spec => []RecordedMemoryAlive
<1>1. ASSUME IndInv, NEW s \in Streams, NEW b \in Bufs, NEW m \in Modes, Using(s, b, m)
      PROVE  Alive(b)
  <2>1. PICK i \in DOMAIN queue[s] : <<b, m>> \in queue[s][i].uses
    BY <1>1 DEF Using
  <2>2. PICK o \in Ops : o = queue[s][i].sub
    BY <1>1, Item DEF IndInv
  <2>3. Good(o, s, queue[s][i].uses, queue[s][i].graph, i)
    BY <1>1, <2>2 DEF IndInv, QueueInv
  <2>4. CASE queue[s][i].uses \subseteq leases[o]
    BY <2>1, <2>4 DEF Alive, Subs
  <2>5. CASE \E g \in holds[o] : queue[s][i].uses = nodes[g]
    <3>1. PICK g \in holds[o] : queue[s][i].uses = nodes[g]
      BY <2>5
    <3>2. g \in Graphs /\ <<b, m>> \in nodes[g] /\ <<b, m>>[1] = b
      BY <1>1, <2>1, <3>1 DEF IndInv, TypeOK, Subs
    <3> QED BY <1>1, <3>2, NodesAlive
  <2> QED BY <2>3, <2>4, <2>5 DEF Good, Backed
<1>2. IndInv => RecordedMemoryAlive
  BY <1>1, NodesAlive DEF RecordedMemoryAlive
<1> QED BY <1>2, Invariance, PTL

\* Every graph has recorded what it does with a buffer.
Recorded(b) ==
  \A g \in Graphs : \A m \in Modes : <<b, m>> \in nodes[g] => Covers(recorded[g], <<b, m>>)

\* Work on one stream does not use a buffer that work on another writes.
Exclusive(b) ==
  \A s, r \in Streams : \A m \in Modes : s # r /\ Using(s, b, "write") => ~Using(r, b, m)

\* Queued work leases what it does with a buffer that graphs have recorded.
LEMMA WorkLeased ==
  ASSUME IndInv, NEW b \in Bufs, Recorded(b), NEW s \in Streams, NEW m \in Modes,
         Using(s, b, m)
  PROVE  \E o \in Ops : stream[o] = s /\ Covers(leases[o], <<b, m>>)
<1>1. PICK i \in DOMAIN queue[s] : <<b, m>> \in queue[s][i].uses
  BY DEF Using
<1>2. PICK o \in Ops : o = queue[s][i].sub
  BY Item DEF IndInv
<1>3. Good(o, s, queue[s][i].uses, queue[s][i].graph, i)
  BY <1>2 DEF IndInv, QueueInv
<1>4. CASE queue[s][i].uses \subseteq leases[o]
  BY <1>1, <1>3, <1>4 DEF Good, Covers
<1>5. CASE \E g \in holds[o] : queue[s][i].uses = nodes[g] /\ recorded[g] \subseteq leases[o]
  <2>1. PICK g \in holds[o] : queue[s][i].uses = nodes[g] /\ recorded[g] \subseteq leases[o]
    BY <1>5
  <2>2. g \in Graphs
    BY <2>1 DEF IndInv, TypeOK, Subs
  <2>3. Covers(recorded[g], <<b, m>>)
    BY <1>1, <2>1, <2>2 DEF Recorded
  <2> QED BY <1>3, <2>1, <2>3 DEF Good, Covers
<1> QED BY <1>3, <1>4, <1>5 DEF Good, Backed

\* A race on a buffer needs a graph that uses it and has not recorded the use.
LEMMA RaceNeedsUnrecorded ==
  ASSUME IndInv, NEW b \in Bufs, Recorded(b)
  PROVE  Exclusive(b)
<1> SUFFICES ASSUME NEW s \in Streams, NEW r \in Streams, NEW m \in Modes, s # r,
                    Using(s, b, "write"), Using(r, b, m)
             PROVE  FALSE
  BY DEF Exclusive
<1>0. "write" \in Modes
  BY DEF Modes
<1>1. PICK o \in Ops : stream[o] = s /\ Covers(leases[o], <<b, "write">>)
  BY <1>0, WorkLeased
<1>2. PICK p \in Ops : stream[p] = r /\ Covers(leases[p], <<b, m>>)
  BY WorkLeased
<1>3. <<b, "write">> \in leases[o]
  BY <1>1 DEF Covers
<1>4. PICK n \in Modes : <<b, n>> \in leases[p]
  BY <1>0, <1>2 DEF Covers
<1> QED BY <1>0, <1>1, <1>2, <1>3, <1>4 DEF IndInv, LeaseInv

\* No two streams ever race on a tensor, for replays of graphs nested to any
\* depth: each launch acquires again what the capture recorded.
THEOREM TensorsNeverRace == Spec => [](\A b \in Tensors : Exclusive(b))
<1>1. ASSUME IndInv, NEW b \in Tensors PROVE Exclusive(b)
  <2>1. Recorded(b)
    BY <1>1 DEF IndInv, NodeInv, NodeOK, Recorded
  <2> QED BY <1>1, <2>1, RaceNeedsUnrecorded, TensorsAssumption
<1>2. IndInv => \A b \in Tensors : Exclusive(b)
  BY <1>1
<1> QED BY <1>2, Invariance, PTL

\* Where graphs have recorded all they do, which launching a graph inside a
\* capture breaks for a BufferAccess, replays never race, on any buffer.
THEOREM ReplaysExclude == Spec => []((\A b \in Bufs : Recorded(b)) => NoReplayRace)
<1>1. IndInv => ((\A b \in Bufs : Recorded(b)) => NoReplayRace)
  BY RaceNeedsUnrecorded DEF Exclusive, NoReplayRace
<1> QED BY <1>1, Invariance, PTL

\* In particular when all the accesses are those of tensors.
THEOREM TensorReplaysExclude == Tensors = Bufs => (Spec => []NoReplayRace)
<1> SUFFICES ASSUME Tensors = Bufs PROVE Spec => []NoReplayRace
  OBVIOUS
<1>1. (\A b \in Tensors : Exclusive(b)) => NoReplayRace
  BY DEF Exclusive, NoReplayRace
<1> QED BY <1>1, TensorsNeverRace, PTL
=============================================================================
