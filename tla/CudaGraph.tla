----------------------------- MODULE CudaGraph -----------------------------
(***************************************************************************)
(* CUDA graphs: capture, update and replay (cuda-async/src/cuda_graph.rs), *)
(* with the execution contexts and submissions that keep what they use     *)
(* alive (device_operation.rs, submission.rs).                             *)
(*                                                                         *)
(* A capture records the accesses of the operation without performing      *)
(* them; each replay must acquire them again, on its own stream.  A        *)
(* context is a submission: of an operation (o \in Ops) or of the capture  *)
(* of a graph (g \in Graphs).  The access tracker is the one of Leases,    *)
(* without faults and deferred errors; here it has to exclude replays.     *)
(* Nobody else submits to a stream while it is being captured: the         *)
(* execution lock is the thread's own, so this is up to the callers.       *)
(* Other threads do drop futures of a capturing stream.                    *)
(***************************************************************************)
EXTENDS Naturals, Sequences, FiniteSets

CONSTANTS
  Graphs, Ops, Streams, Bufs,
  Tensors,     \* buffers recorded as a StorageLease, the others as BufferAccess
  None,
  MaxNodes     \* bound on the distinct accesses recorded into one graph

ASSUME TensorsAssumption == Tensors \subseteq Bufs
ASSUME NamesAssumption == /\ Graphs \cap Ops = {}
                          /\ None \notin Graphs \cup Ops \cup Streams

Modes == {"read", "write"}
Uses == Bufs \X Modes
Subs == Graphs \cup Ops

\* A piece of work: whose, which accesses it makes and, for a replay, the graph.
Work == [sub : Ops, uses : SUBSET Uses, graph : Graphs \cup {None}]

VARIABLES
  phase,     \* how far CudaGraph::capture is
  driver,    \* the driver objects of a graph
  user,      \* graphs whose CudaGraph the user still has
  nodes,     \* what a replay does on the device
  children,  \* the graphs whose launch was captured into a graph
  recorded,  \* Submission::recorded, then GraphExecHandle::captured
  capturing, \* the graph a stream is being captured into
  stage,     \* of each submission
  target,    \* the graph an operation updates or launches
  stream,    \* the stream of a submission
  todo,      \* accesses a launch has yet to acquire
  leases,    \* accesses a submission holds
  holds,     \* graph execs a submission retains
  owned,     \* contexts a submission retains
  event,     \* work ahead of a retiring submission's event
  queue,     \* work on each stream
  views      \* buffers the user still has

captureVars == <<phase, driver, user, nodes, recorded, children, capturing>>
subVars == <<stage, target, stream, todo, leases, holds, owned, event>>
vars == <<captureVars, subVars, queue, views>>

Stages == {"new", "recording", "held", "ticket", "retaining", "open", "pending",
           "owned", "dropping", "retiring", "leaked", "gone"}

Phases == {"none", "capturing", "ended", "upload", "destroy", "leave", "ready", "failed"}

TypeOK ==
  /\ phase \in [Graphs -> Phases]
  /\ driver \in [Graphs -> SUBSET {"graph", "exec"}]
  /\ user \in SUBSET Graphs
  /\ nodes \in [Graphs -> SUBSET Uses] /\ recorded \in [Graphs -> SUBSET Uses]
  /\ children \in [Graphs -> SUBSET Graphs]
  /\ capturing \in [Streams -> Graphs \cup {None}]
  /\ stage \in [Subs -> Stages]
  /\ target \in [Ops -> Graphs \cup {None}]
  /\ stream \in [Subs -> Streams \cup {None}]
  /\ todo \in [Ops -> SUBSET Uses] /\ leases \in [Subs -> SUBSET Uses]
  /\ holds \in [Subs -> SUBSET Graphs] /\ owned \in [Subs -> SUBSET Ops]
  /\ event \in [Subs -> Nat]
  /\ queue \in [Streams -> Seq(Work)]
  /\ views \in SUBSET Bufs

Init ==
  /\ phase = [g \in Graphs |-> "none"] /\ driver = [g \in Graphs |-> {}]
  /\ user = {} /\ nodes = [g \in Graphs |-> {}] /\ recorded = [g \in Graphs |-> {}]
  /\ children = [g \in Graphs |-> {}] /\ capturing = [s \in Streams |-> None]
  /\ stage = [x \in Subs |-> "new"]
  /\ target = [o \in Ops |-> None] /\ stream = [x \in Subs |-> None]
  /\ todo = [o \in Ops |-> {}] /\ leases = [x \in Subs |-> {}]
  /\ holds = [x \in Subs |-> {}] /\ owned = [x \in Subs |-> {}]
  /\ event = [x \in Subs |-> 0]
  /\ queue = [s \in Streams |-> <<>>] /\ views = Bufs

-----------------------------------------------------------------------------
(* Ownership.                                                              *)

\* GraphExecHandle::pending.
Pending(g) == {o \in Ops : stage[o] = "pending" /\ target[o] = g}

\* Does Submission::drop find anything to keep?
Empty(x) == leases[x] = {} /\ holds[x] = {} /\ owned[x] = {}

\* The owner set of submission x drops: leases, graph execs, contexts.
Release(x) ==
  /\ leases' = [leases EXCEPT ![x] = {}]
  /\ holds' = [holds EXCEPT ![x] = {}]
  /\ owned' = [owned EXCEPT ![x] = {}]
  /\ stage' = [y \in Subs |-> IF y = x THEN "gone"
                              ELSE IF y \in owned[x] THEN "dropping" ELSE stage[y]]
  /\ stream' = [stream EXCEPT ![x] = None]
  /\ target' = [o \in Ops |-> IF o = x THEN None ELSE target[o]]

\* Mutant: a launch copies the raw handle, as GraphLaunch once did.
HeldByUser(g) == g \in user

\* Some Arc<GraphExecHandle> is left.
Held(g) == g \in user \/ \E x \in Subs : g \in holds[x]

\* The allocation has a view, a lease or a graph that recorded it.
Alive(b) ==
  \/ b \in views
  \/ \E m \in Modes : \/ \E x \in Subs : <<b, m>> \in leases[x]
                      \/ \E g \in Graphs : <<b, m>> \in recorded[g]

-----------------------------------------------------------------------------
(* CudaGraph::capture and scope: capture_on begins the capture (a failing  *)
(* cuStreamBeginCapture changes nothing), runs the closure, ends the       *)
(* capture, instantiates and uploads the graph; adopt_capture hands it the *)
(* context.  A step that fails leads to the destruction of what was made   *)
(* so far and to Leave; the driver's destroy calls themselves succeed.     *)

Begin(g, s) ==
  /\ phase[g] = "none" /\ capturing[s] = None
  /\ phase' = [phase EXCEPT ![g] = "capturing"]
  /\ capturing' = [capturing EXCEPT ![s] = g]
  /\ stage' = [stage EXCEPT ![g] = "recording"]
  /\ stream' = [stream EXCEPT ![g] = s]
  /\ UNCHANGED <<driver, user, nodes, recorded, children, target, todo, leases, holds, owned,
                 event, queue, views>>

\* Registering an access while recording never conflicts (Storage::retain
\* keeps the entry in the recorded resource, retain_buffer in the context).
RecordAccess(g, use) ==
  /\ phase[g] = "capturing" /\ use[1] \in views
  /\ use \notin nodes[g] /\ Cardinality(nodes[g]) < MaxNodes
  /\ nodes' = [nodes EXCEPT ![g] = @ \cup {use}]
  /\ recorded' = [recorded EXCEPT ![g] = @ \cup {use}]
  /\ leases' = [leases EXCEPT ![g] = IF use[1] \in Tensors THEN @ ELSE @ \cup {use}]
  /\ UNCHANGED <<phase, driver, user, children, capturing, stage, target, stream, todo, holds,
                 owned, event, queue, views>>

\* The pending updates of graph g become contexts that submission x retains.
TakePending(x, g) ==
  owned' = [owned EXCEPT ![x] = @ \cup Pending(g)]

\* The captured operation launches graph h: GraphLaunch::execute in a
\* recording context.  retain_for_launch records a tensor again; of a
\* BufferAccess it only keeps a lease.
RecordLaunch(g, h) ==
  /\ phase[g] = "capturing" /\ h \in user /\ h \notin holds[g]
  /\ nodes' = [nodes EXCEPT ![g] = @ \cup nodes[h]]
  /\ children' = [children EXCEPT ![g] = @ \cup {h}]
  /\ holds' = [holds EXCEPT ![g] = @ \cup {h}]
  /\ recorded' = [recorded EXCEPT ![g] = @ \cup {use \in recorded[h] : use[1] \in Tensors}]
  /\ leases' = [leases EXCEPT ![g] = @ \cup {use \in recorded[h] : use[1] \notin Tensors}]
  /\ TakePending(g, h)
  /\ stage' = [x \in Subs |-> IF x \in Pending(h) THEN "owned" ELSE stage[x]]
  /\ UNCHANGED <<phase, driver, user, capturing, target, stream, todo, event, queue, views>>

\* cuStreamEndCapture: the stream leaves capture mode, with or without a
\* graph.  A failing call and a null graph leave capture_on nothing to own.
EndsCapture(g, made, after) ==
  /\ phase[g] = "capturing"
  /\ capturing' = [capturing EXCEPT ![stream[g]] = None]
  /\ \/ /\ driver' = [driver EXCEPT ![g] = {"graph"}]
        /\ phase' = [phase EXCEPT ![g] = made]
     \/ /\ UNCHANGED driver
        /\ phase' = [phase EXCEPT ![g] = after]
  /\ UNCHANGED <<user, nodes, recorded, children, subVars, queue, views>>

\* Mutant: an error of the closure returns without destroying the graph that
\* the capture produced.
EndErredForgets(g) == EndsCapture(g, "leave", "leave")

\* The closure failed or panicked: the capture is ended all the same, and a
\* graph it produced has to be destroyed.
EndErred(g) == EndsCapture(g, "destroy", "leave")

\* The closure returned.
EndCapture(g) == EndsCapture(g, "ended", "leave")

\* GraphExecHandle::instantiate: cuGraphInstantiate refuses, and the graph is
\* destroyed ...
InstantiateRefused(g) ==
  /\ phase[g] = "ended"
  /\ phase' = [phase EXCEPT ![g] = "destroy"]
  /\ UNCHANGED <<driver, user, nodes, recorded, children, capturing, subVars, queue, views>>

\* ... or the handle owns both objects from here on.
Instantiate(g) ==
  /\ phase[g] = "ended"
  /\ phase' = [phase EXCEPT ![g] = "upload"]
  /\ driver' = [driver EXCEPT ![g] = @ \cup {"exec"}]
  /\ UNCHANGED <<user, nodes, recorded, children, capturing, subVars, queue, views>>

\* The upload, or the wait for it, fails: GraphExecHandle::drop begins.
UploadFails(g) ==
  /\ phase[g] = "upload"
  /\ phase' = [phase EXCEPT ![g] = "destroy"]
  /\ driver' = [driver EXCEPT ![g] = @ \ {"exec"}]
  /\ UNCHANGED <<user, nodes, recorded, children, capturing, subVars, queue, views>>

\* destroy_graph, and the cuGraphDestroy of instantiate and of the handle.
DestroyGraph(g) ==
  /\ phase[g] = "destroy"
  /\ phase' = [phase EXCEPT ![g] = "leave"]
  /\ driver' = [driver EXCEPT ![g] = @ \ {"graph"}]
  /\ UNCHANGED <<user, nodes, recorded, children, capturing, subVars, queue, views>>

\* capture returns the error or unwinds: the context drops, and with it what
\* was recorded.
Leave(g) ==
  /\ phase[g] = "leave"
  /\ phase' = [phase EXCEPT ![g] = "failed"]
  /\ nodes' = [nodes EXCEPT ![g] = {}]
  /\ recorded' = [recorded EXCEPT ![g] = {}]
  /\ children' = [children EXCEPT ![g] = {}]
  /\ stage' = [stage EXCEPT ![g] = "dropping"]
  /\ UNCHANGED <<driver, user, capturing, target, stream, todo, leases, holds, owned, event,
                 queue, views>>

\* Mutant: the first access of a buffer stands for all of them.
SubsumeFirst(uses) == {use \in uses : use[2] = "read" \/ <<use[1], "read">> \notin uses}

\* One access per storage: a write subsumes reads.
Subsume(uses) == {use \in uses : use[2] = "write" \/ <<use[1], "write">> \notin uses}

\* The wait for the upload returns; adopt_capture; the caller gets the
\* CudaGraph.
Adopt(g) ==
  /\ phase[g] = "upload"
  /\ capturing[stream[g]] = None /\ queue[stream[g]] = <<>>
  /\ phase' = [phase EXCEPT ![g] = "ready"]
  /\ user' = user \cup {g}
  /\ recorded' = [recorded EXCEPT ![g] = Subsume(@)]
  /\ stage' = [stage EXCEPT ![g] = "held"]
  /\ UNCHANGED <<driver, nodes, children, capturing, target, stream, todo, leases, holds, owned,
                 event, queue, views>>

\* Drop of the CudaGraph.
DropGraph(g) ==
  /\ g \in user /\ user' = user \ {g}
  /\ UNCHANGED <<phase, driver, nodes, recorded, children, capturing, subVars, queue, views>>

\* Mutant: the pending contexts are forgotten with the handle.
DestroyForgets(g) ==
  /\ phase[g] = "ready" /\ "exec" \in driver[g] /\ ~Held(g)
  /\ driver' = [driver EXCEPT ![g] = {}]
  /\ nodes' = [nodes EXCEPT ![g] = {}]
  /\ recorded' = [recorded EXCEPT ![g] = {}]
  /\ children' = [children EXCEPT ![g] = {}]
  /\ stage' = [stage EXCEPT ![g] = "dropping"]
  /\ UNCHANGED <<phase, user, capturing, target, stream, todo, leases, holds, owned, event,
                 queue, views>>

\* GraphExecHandle::drop by the last owner, then its fields: the capture
\* context, the recorded resources, the pending contexts.
Destroy(g) ==
  /\ phase[g] = "ready" /\ "exec" \in driver[g] /\ ~Held(g)
  /\ driver' = [driver EXCEPT ![g] = {}]
  /\ nodes' = [nodes EXCEPT ![g] = {}]
  /\ recorded' = [recorded EXCEPT ![g] = {}]
  /\ children' = [children EXCEPT ![g] = {}]
  /\ stage' = [x \in Subs |-> IF x = g \/ x \in Pending(g) THEN "dropping" ELSE stage[x]]
  /\ UNCHANGED <<phase, user, capturing, target, stream, todo, leases, holds, owned, event,
                 queue, views>>

-----------------------------------------------------------------------------
(* Operations: a kernel launch or copy with one access, on its own or as   *)
(* an update of a graph.                                                   *)

\* Accesses::register: entries of recordings do not count.
Conflicts(s, use) ==
  \E p \in Ops : \E m \in Modes :
    stream[p] # s /\ <<use[1], m>> \in leases[p] /\ "write" \in {m, use[2]}

Enqueue(o, s, uses, g) ==
  queue' = [queue EXCEPT ![s] = Append(@, [sub |-> o, uses |-> uses, graph |-> g])]

\* The operation acquires its access and submits, which the driver may
\* refuse.
Execute(o, s, use, done, failed) ==
  /\ stage[o] = "new" /\ use[1] \in views /\ capturing[s] = None
  /\ ~Conflicts(s, use)
  /\ stream' = [stream EXCEPT ![o] = s]
  /\ leases' = [leases EXCEPT ![o] = {use}]
  /\ \/ Enqueue(o, s, {use}, None) /\ stage' = [stage EXCEPT ![o] = done]
     \/ UNCHANGED queue /\ stage' = [stage EXCEPT ![o] = failed]
  /\ UNCHANGED <<captureVars, todo, holds, owned, event, views>>

Plain(o, s, use) == Execute(o, s, use, "open", "dropping") /\ UNCHANGED target

\* CudaGraph::update: on the graph's stream; the context becomes the
\* graph's, whatever came of it.
Update(o, g, use) ==
  /\ g \in user
  /\ Execute(o, stream[g], use, "pending", "pending")
  /\ target' = [target EXCEPT ![o] = g]

\* An update refused by the tracker leaves an empty context.
UpdateRefused(o, g, use) ==
  /\ g \in user /\ stage[o] = "new" /\ use[1] \in views /\ Conflicts(stream[g], use)
  /\ stage' = [stage EXCEPT ![o] = "pending"]
  /\ target' = [target EXCEPT ![o] = g]
  /\ stream' = [stream EXCEPT ![o] = stream[g]]
  /\ UNCHANGED <<captureVars, todo, leases, holds, owned, event, queue, views>>

-----------------------------------------------------------------------------
(* The replay of a graph.                                                  *)

\* CudaGraph::launch only makes the operation, which shares the exec ...
MakeLaunch(o, g) ==
  /\ stage[o] = "new" /\ g \in user
  /\ stage' = [stage EXCEPT ![o] = "ticket"]
  /\ target' = [target EXCEPT ![o] = g]
  /\ holds' = [holds EXCEPT ![o] = {g}]
  /\ UNCHANGED <<captureVars, stream, todo, leases, owned, event, queue, views>>

\* ... and is executed on a stream of the caller's choice, or dropped.
StartLaunch(o, s) ==
  /\ stage[o] = "ticket" /\ capturing[s] = None
  /\ stage' = [stage EXCEPT ![o] = "retaining"]
  /\ stream' = [stream EXCEPT ![o] = s]
  /\ todo' = [todo EXCEPT ![o] = recorded[target[o]]]
  /\ UNCHANGED <<captureVars, target, leases, holds, owned, event, queue, views>>

DropLaunch(o) ==
  /\ stage[o] = "ticket"
  /\ Release(o)
  /\ UNCHANGED <<captureVars, todo, event, queue, views>>

\* retain_for_launch, one recorded resource at a time.
Acquire(o, use) ==
  /\ use \in todo[o] /\ ~Conflicts(stream[o], use)
  /\ todo' = [todo EXCEPT ![o] = @ \ {use}]
  /\ leases' = [leases EXCEPT ![o] = @ \cup {use}]
  /\ UNCHANGED <<captureVars, stage, target, stream, holds, owned, event, queue, views>>

Refuse(o, use) ==
  /\ use \in todo[o] /\ Conflicts(stream[o], use)
  /\ stage' = [stage EXCEPT ![o] = "dropping"]
  /\ todo' = [todo EXCEPT ![o] = {}]
  /\ UNCHANGED <<captureVars, target, stream, leases, holds, owned, event, queue, views>>

\* The submission takes the pending contexts, then cuGraphLaunch.
Replay(o) ==
  LET g == target[o] IN
  /\ stage[o] = "retaining" /\ todo[o] = {} /\ capturing[stream[o]] = None
  /\ TakePending(o, g)
  /\ \E ok \in BOOLEAN :
       /\ IF ok THEN Enqueue(o, stream[o], nodes[g], g) ELSE UNCHANGED queue
       /\ stage' = [x \in Subs |-> IF x = o THEN (IF ok THEN "open" ELSE "dropping")
                                   ELSE IF x \in Pending(g) THEN "owned" ELSE stage[x]]
  /\ UNCHANGED <<captureVars, target, stream, todo, leases, holds, event, views>>

-----------------------------------------------------------------------------
(* The end of a submission.                                                *)

InFlight(o) == \E s \in Streams : \E i \in DOMAIN queue[s] : queue[s][i].sub = o

\* sync_on or the future has seen the work finish.
Complete(o) ==
  /\ stage[o] = "open" /\ ~InFlight(o)
  /\ Release(o)
  /\ UNCHANGED <<captureVars, todo, event, queue, views>>

DropFuture(o) ==
  /\ stage[o] = "open"
  /\ stage' = [stage EXCEPT ![o] = "dropping"]
  /\ UNCHANGED <<captureVars, target, stream, todo, leases, holds, owned, event, queue, views>>

\* Mutant: the stream is not asked whether it still has work.
DropIdleBlind(x) ==
  /\ stage[x] = "dropping" /\ (Empty(x) \/ capturing[stream[x]] = None)
  /\ Release(x)
  /\ UNCHANGED <<captureVars, todo, event, queue, views>>

\* Submission::drop, of an operation's context or of a capture's.
DropIdle(x) ==
  /\ stage[x] = "dropping"
  /\ Empty(x) \/ (capturing[stream[x]] = None /\ queue[stream[x]] = <<>>)
  /\ Release(x)
  /\ UNCHANGED <<captureVars, todo, event, queue, views>>

DropBusy(x) ==
  /\ stage[x] = "dropping" /\ ~Empty(x)
  /\ capturing[stream[x]] = None /\ queue[stream[x]] # <<>>
  /\ stage' = [stage EXCEPT ![x] = "retiring"]
  /\ event' = [event EXCEPT ![x] = Len(queue[stream[x]])]
  /\ UNCHANGED <<captureVars, target, stream, todo, leases, holds, owned, queue, views>>

\* The stream is being captured, by whoever: the owners are leaked.
DropCapturing(x) ==
  /\ stage[x] = "dropping" /\ ~Empty(x) /\ capturing[stream[x]] # None
  /\ stage' = [stage EXCEPT ![x] = "leaked"]
  /\ UNCHANGED <<captureVars, target, stream, todo, leases, holds, owned, event, queue, views>>

\* The retirement worker sees the event pass.
Retire(x) ==
  /\ stage[x] = "retiring" /\ event[x] = 0
  /\ Release(x)
  /\ UNCHANGED <<captureVars, todo, event, queue, views>>

-----------------------------------------------------------------------------
(* The device and the user.                                                *)

Finish(s) ==
  /\ queue[s] # <<>>
  /\ queue' = [queue EXCEPT ![s] = Tail(@)]
  /\ event' = [x \in Subs |-> IF stream[x] = s /\ event[x] > 0 THEN event[x] - 1 ELSE event[x]]
  /\ UNCHANGED <<captureVars, stage, target, stream, todo, leases, holds, owned, views>>

DropView(b) ==
  /\ b \in views /\ views' = views \ {b}
  /\ UNCHANGED <<captureVars, subVars, queue>>

UserStep ==
  \/ \E g \in Graphs : \/ \E s \in Streams : Begin(g, s)
                       \/ \E use \in Uses : RecordAccess(g, use)
                       \/ \E h \in Graphs : RecordLaunch(g, h)
                       \/ DropGraph(g)
  \/ \E o \in Ops : \/ \E s \in Streams, use \in Uses : Plain(o, s, use)
                    \/ \E g \in Graphs, use \in Uses : Update(o, g, use) \/ UpdateRefused(o, g, use)
                    \/ \E g \in Graphs : MakeLaunch(o, g)
  \/ \E b \in Bufs : DropView(b)

\* What capture_on makes and unmakes in the driver.
DriverStep(g) ==
  \/ EndErred(g) \/ EndCapture(g) \/ InstantiateRefused(g) \/ Instantiate(g)
  \/ UploadFails(g) \/ DestroyGraph(g)

CaptureStep(g) == DriverStep(g) \/ Leave(g) \/ Adopt(g) \/ Destroy(g)

LaunchStep(o) ==
  \/ \E s \in Streams : StartLaunch(o, s)
  \/ DropLaunch(o)
  \/ \E use \in Uses : Acquire(o, use) \/ Refuse(o, use)
  \/ Replay(o)

EndStep(x) ==
  \/ x \in Ops /\ (Complete(x) \/ DropFuture(x))
  \/ DropIdle(x) \/ DropBusy(x) \/ DropCapturing(x) \/ Retire(x)

Next ==
  \/ UserStep
  \/ \E g \in Graphs : CaptureStep(g)
  \/ \E o \in Ops : LaunchStep(o)
  \/ \E x \in Subs : EndStep(x)
  \/ \E s \in Streams : Finish(s)

Spec == Init /\ [][Next]_vars

-----------------------------------------------------------------------------
(* Properties.                                                             *)

Using(s, b, m) == \E i \in DOMAIN queue[s] : <<b, m>> \in queue[s][i].uses

\* Work on two streams never uses one buffer at the same time if either
\* writes it, replays included: what a graph does on the device is acquired
\* by each launch (GraphLaunch::execute, adopt_capture).
NoReplayRace ==
  \A b \in Bufs : \A s, r \in Streams : \A m \in Modes :
    s # r /\ Using(s, b, "write") => ~Using(r, b, m)

\* A buffer is alive while queued work uses it, and while a graph that has
\* recorded it can still be launched, whatever the user has dropped.
RecordedMemoryAlive ==
  /\ \A s \in Streams, b \in Bufs, m \in Modes : Using(s, b, m) => Alive(b)
  /\ \A g \in Graphs : "exec" \in driver[g] => \A use \in nodes[g] : Alive(use[1])

\* A graph is not destroyed while a launch of it waits to be executed, while
\* a replay of it is on a stream, whatever became of the submission that
\* queued it, nor while a graph that contains it exists.
ExecAlive ==
  /\ \A o \in Ops : stage[o] \in {"ticket", "retaining"} => "exec" \in driver[target[o]]
  /\ \A s \in Streams : \A i \in DOMAIN queue[s] :
       queue[s][i].graph # None => "exec" \in driver[queue[s][i].graph]
  /\ \A g \in Graphs : \A h \in children[g] : "exec" \in driver[g] => "exec" \in driver[h]

\* When a capture has failed, by its closure, in end_capture, instantiation or
\* upload, every driver object made on the way is gone; a graph object outlives
\* the capture only in a handle; and a stream is in capture mode only on behalf
\* of a capture that is still recording (capture_on, GraphExecHandle).
CaptureCleansUp ==
  /\ \A g \in Graphs : phase[g] \in {"leave", "failed"} => driver[g] = {}
  /\ \A g \in Graphs : phase[g] = "ready" => driver[g] \in {{}, {"graph", "exec"}}
  /\ \A s \in Streams : capturing[s] # None =>
       phase[capturing[s]] = "capturing" /\ stream[capturing[s]] = s

\* Nothing is lost between owners: an update's context belongs to a graph
\* that still exists or to exactly one submission that is not gone, and what
\* is gone retains nothing, so that no lease excludes other streams for good
\* (unless a context was dropped on a capturing stream, which leaks it).
NothingStranded ==
  \A x \in Subs :
    /\ stage[x] = "pending" => "exec" \in driver[target[x]]
    /\ stage[x] = "owned" => Cardinality({y \in Subs : x \in owned[y]}) = 1
    /\ stage[x] = "gone" => Empty(x)
=============================================================================
