------------------------------- MODULE Leases -------------------------------
(***************************************************************************)
(* Who may touch and who may free device memory: the access tracker and    *)
(* the deferred free of cuda-core/src/allocation.rs, the retirement worker *)
(* of cuda-core/src/completion.rs, the Submission of cuda-async's futures  *)
(* (submission.rs), and the copies of DeviceBuffer::enqueue_access.  All   *)
(* streams belong to one context.  A driver call that binds the context    *)
(* first takes the deferred error of record_err, if there is one, and      *)
(* fails with it.                                                          *)
(***************************************************************************)
EXTENDS Naturals, Sequences, FiniteSets

CONSTANTS
  Clients,       \* submissions and copies
  Allocs,        \* allocations
  Streams,       \* stream handles
  None,
  MaxLaunches,   \* bound on the launches of one client
  MaxDeferred    \* bound on record_err calls from elsewhere

ASSUME LeasesAssumption ==
  /\ None \notin Streams /\ MaxLaunches \in Nat /\ MaxDeferred \in Nat
  /\ IsFiniteSet(Clients)

Modes == {"read", "write"}

VARIABLES
  stage,     \* life of a client
  stream,    \* the stream it submits to
  leases,    \* the leases it holds: pairs of an allocation and a mode
  launches,  \* launches it made
  active,    \* Accesses::active: the clients' entries, per allocation
  settled,   \* clients whose entries carry a completion event
  event,     \* work ahead of a client's completion event
  queue,     \* work on each stream: the client and what it uses
  down,      \* the context was killed by a fault
  errState,  \* Context::error_state
  deferred,
  views,     \* allocations some user-visible view still owns
  mem        \* "live", "dying" (Drop ran), "freed" or "leaked"

clientVars == <<stage, stream, leases, launches, settled, event>>
deviceVars == <<queue, down>>
errVars == <<errState, deferred>>
vars == <<clientVars, active, deviceVars, errVars, views, mem>>

Stages == {"new", "open", "copying", "copied", "dropping", "probing", "busy",
           "retiring", "leaked", "forgotten", "gone"}

TypeOK ==
  /\ stage \in [Clients -> Stages]
  /\ stream \in [Clients -> Streams \cup {None}]
  /\ leases \in [Clients -> SUBSET (Allocs \X Modes)]
  /\ launches \in [Clients -> 0 .. MaxLaunches]
  /\ active \in [Allocs -> SUBSET (Clients \X Modes)]
  /\ settled \in SUBSET Clients
  /\ event \in [Clients -> Nat]
  /\ queue \in [Streams -> Seq([client : Clients, uses : SUBSET (Allocs \X Modes)])]
  /\ down \in BOOLEAN /\ errState \in BOOLEAN /\ deferred \in 0 .. MaxDeferred
  /\ views \in SUBSET Allocs
  /\ mem \in [Allocs -> {"live", "dying", "freed", "leaked"}]

Init ==
  /\ stage = [c \in Clients |-> "new"] /\ stream = [c \in Clients |-> None]
  /\ leases = [c \in Clients |-> {}] /\ launches = [c \in Clients |-> 0]
  /\ active = [a \in Allocs |-> {}] /\ settled = {}
  /\ event = [c \in Clients |-> 0]
  /\ queue = [s \in Streams |-> <<>>] /\ down = FALSE
  /\ errState = FALSE /\ deferred = 0
  /\ views = Allocs /\ mem = [a \in Allocs |-> "live"]

-----------------------------------------------------------------------------
(* Helpers.                                                                *)

To(c, from, to) == stage[c] = from /\ stage' = [stage EXCEPT ![c] = to]

\* A call that binds the context: takes the deferred error.
BindFails == errState /\ errState' = FALSE /\ UNCHANGED deferred
BindWorks == ~errState /\ UNCHANGED errVars

Holders(a, ls) == {c \in Clients : \E m \in Modes : <<a, m>> \in ls[c]}

\* Drop of an Allocation whose last view and last lease are gone.
Collect(vs, ls) ==
  mem' = [a \in Allocs |->
            IF mem[a] = "live" /\ a \notin vs /\ Holders(a, ls) = {}
            THEN "dying" ELSE mem[a]]

\* Mutant: the allocation outlives its last lease.
DropLeasesUncollected(c) ==
  /\ leases' = [leases EXCEPT ![c] = {}]
  /\ active' = [a \in Allocs |-> {e \in active[a] : e[1] # c}]
  /\ UNCHANGED <<views, mem>>

\* Drop of all the leases of a client (AllocationLease::drop for each).
DropLeases(c) ==
  /\ leases' = [leases EXCEPT ![c] = {}]
  /\ active' = [a \in Allocs |-> {e \in active[a] : e[1] # c}]
  /\ Collect(views, leases')
  /\ UNCHANGED views

KeepLeases == UNCHANGED <<leases, active, views, mem>>

-----------------------------------------------------------------------------
(* Accesses::register.                                                     *)

\* Entries whose completion event has passed; the query fails on a dead
\* context and keeps the exclusion.
Passed(c) == c \in settled /\ event[c] = 0 /\ ~down

\* Mutant: only an earlier write excludes.
ConflictsWithWrites(entries, s, mode) ==
  \E e \in entries : stream[e[1]] # s /\ e[2] = "write"

Conflicts(entries, s, mode) ==
  \E e \in entries : stream[e[1]] # s /\ "write" \in {mode, e[2]}

\* The entries left after pruning.  The first query takes a deferred error
\* and keeps the entry it asked about.
Pruned(a) ==
  LET stale == {e \in active[a] : Passed(e[1])}
      asked == {e \in active[a] : e[1] \in settled}
  IN IF errState /\ asked # {}
     THEN {active[a] \ (stale \ {e}) : e \in asked}
     ELSE {active[a] \ stale}

QueriesErr(a) ==
  /\ errState' = (errState /\ ~\E e \in active[a] : e[1] \in settled)
  /\ UNCHANGED deferred

\* acquire on stream s, for a holder of a view: entry and lease.
Acquire(c, s, a, mode) ==
  \E kept \in Pruned(a) :
    /\ a \in views /\ <<a, mode>> \notin leases[c]
    /\ ~Conflicts(kept, s, mode)
    /\ active' = [active EXCEPT ![a] = kept \cup {<<c, mode>>}]
    /\ leases' = [leases EXCEPT ![c] = @ \cup {<<a, mode>>}]
    /\ QueriesErr(a)
    /\ UNCHANGED <<views, mem>>

\* acquire: CUDA_ERROR_NOT_READY.
NotReady(s, a, mode) ==
  \E kept \in Pruned(a) :
    /\ a \in views
    /\ Conflicts(kept, s, mode)
    /\ active' = [active EXCEPT ![a] = kept]
    /\ QueriesErr(a)
    /\ UNCHANGED <<leases, views, mem>>

-----------------------------------------------------------------------------
(* A submission: the operation retains leases and launches, in any number  *)
(* of rounds, then completes or is dropped.                                *)

Open(c, s) ==
  /\ To(c, "new", "open")
  /\ stream' = [stream EXCEPT ![c] = s]
  /\ UNCHANGED <<leases, launches, settled, event, active, deviceVars, errVars, views, mem>>

Retain(c, a, mode) ==
  /\ stage[c] = "open"
  /\ Acquire(c, stream[c], a, mode)
  /\ UNCHANGED <<stage, stream, launches, settled, event, deviceVars>>

\* The operation fails, perhaps after work of an earlier round was launched.
RetainRefused(c, a, mode) ==
  /\ To(c, "open", "dropping")
  /\ NotReady(stream[c], a, mode)
  /\ UNCHANGED <<stream, launches, settled, event, deviceVars>>

Enqueue(c) ==
  /\ ~down /\ launches[c] < MaxLaunches
  /\ queue' = [queue EXCEPT ![stream[c]] =
                 Append(@, [client |-> c, uses |-> leases[c]])]
  /\ launches' = [launches EXCEPT ![c] = @ + 1]
  /\ UNCHANGED down

Launch(c) ==
  /\ stage[c] = "open" /\ leases[c] # {}
  /\ Enqueue(c)
  /\ KeepLeases
  /\ UNCHANGED <<stage, stream, settled, event, errVars>>

\* complete(), by a future or sync_on that has seen the work finish.
InFlight(c) == \E s \in Streams : \E i \in DOMAIN queue[s] : queue[s][i].client = c

Complete(c) ==
  /\ To(c, "open", "gone") /\ ~InFlight(c) /\ ~down
  /\ DropLeases(c)
  /\ UNCHANGED <<stream, launches, settled, event, deviceVars, errVars>>

\* The future is dropped, its operation failed, or sync_on could not wait.
DropFuture(c) ==
  /\ To(c, "open", "dropping")
  /\ KeepLeases
  /\ UNCHANGED <<stream, launches, settled, event, deviceVars, errVars>>

\* mem::forget of a future.
ForgetFuture(c) ==
  /\ To(c, "open", "forgotten")
  /\ KeepLeases
  /\ UNCHANGED <<stream, launches, settled, event, deviceVars, errVars>>

\* Submission::drop: nothing to keep, or bind the context ...
DropEmpty(c) ==
  /\ To(c, "dropping", "gone") /\ leases[c] = {}
  /\ KeepLeases
  /\ UNCHANGED <<stream, launches, settled, event, deviceVars, errVars>>

DropBinds(c) ==
  /\ leases[c] # {}
  /\ \/ To(c, "dropping", "leaked") /\ BindFails
     \/ To(c, "dropping", "probing") /\ BindWorks
  /\ KeepLeases
  /\ UNCHANGED <<stream, launches, settled, event, deviceVars>>

\* ... probe the stream ...
DropFaulted(c) ==
  /\ To(c, "probing", "leaked")
  /\ BindFails \/ (down /\ UNCHANGED errVars)
  /\ KeepLeases
  /\ UNCHANGED <<stream, launches, settled, event, deviceVars>>

\* Mutant: a busy stream is taken for an idle one.
DropIdleBlind(c) ==
  /\ To(c, "probing", "gone") /\ ~down /\ BindWorks
  /\ DropLeases(c)
  /\ UNCHANGED <<stream, launches, settled, event, deviceVars>>

DropIdle(c) ==
  /\ To(c, "probing", "gone") /\ ~down /\ queue[stream[c]] = <<>> /\ BindWorks
  /\ DropLeases(c)
  /\ UNCHANGED <<stream, launches, settled, event, deviceVars>>

DropBusy(c) ==
  /\ To(c, "probing", "busy") /\ ~down /\ queue[stream[c]] # <<>> /\ BindWorks
  /\ KeepLeases
  /\ UNCHANGED <<stream, launches, settled, event, deviceVars>>

\* Mutant: the event does not wait for what the stream has queued.
RecordEventInFront(c, from) ==
  /\ \/ To(c, from, "leaked") /\ (BindFails \/ (down /\ BindWorks)) /\ UNCHANGED event
     \/ /\ To(c, from, "retiring") /\ ~down /\ BindWorks
        /\ event' = [event EXCEPT ![c] = 0]

\* ... and retain the owners on an event behind all work queued so far.
RecordEvent(c, from) ==
  /\ \/ To(c, from, "leaked") /\ (BindFails \/ (down /\ BindWorks)) /\ UNCHANGED event
     \/ /\ To(c, from, "retiring") /\ ~down /\ BindWorks
        /\ event' = [event EXCEPT ![c] = Len(queue[stream[c]])]

DropRetains(c) ==
  /\ RecordEvent(c, "busy")
  /\ KeepLeases
  /\ UNCHANGED <<stream, launches, settled, deviceVars>>

-----------------------------------------------------------------------------
(* A copy: DeviceBuffer::enqueue_access.                                   *)

CopyAcquire(c, s, a, mode) ==
  /\ To(c, "new", "copying")
  /\ stream' = [stream EXCEPT ![c] = s]
  /\ Acquire(c, s, a, mode)
  /\ UNCHANGED <<launches, settled, event, deviceVars>>

CopyRefused(c, s, a, mode) ==
  /\ To(c, "new", "gone")
  /\ NotReady(s, a, mode)
  /\ UNCHANGED <<stream, launches, settled, event, deviceVars>>

\* bind_to_thread fails: the lease drops before anything is submitted.
CopyUnbound(c) ==
  /\ To(c, "copying", "gone") /\ BindFails
  /\ DropLeases(c)
  /\ UNCHANGED <<stream, launches, settled, event, deviceVars>>

\* The driver accepts the copy, or refuses it; the lease is retained anyway.
CopyEnqueue(c) ==
  /\ To(c, "copying", "copied") /\ BindWorks
  /\ Enqueue(c) \/ UNCHANGED <<launches, deviceVars>>
  /\ KeepLeases
  /\ UNCHANGED <<stream, settled, event>>

\* AllocationLease::retain_until_complete: the entry learns of the event too.
CopyRetains(c) ==
  /\ RecordEvent(c, "copied")
  /\ settled' = IF stage'[c] = "retiring" THEN settled \cup {c} ELSE settled
  /\ KeepLeases
  /\ UNCHANGED <<stream, launches, deviceVars>>

-----------------------------------------------------------------------------
(* The retirement worker.                                                  *)

\* Event::query says done: drop the owner.
WorkerRetires(c) ==
  /\ To(c, "retiring", "gone") /\ event[c] = 0 /\ ~down /\ BindWorks
  /\ DropLeases(c)
  /\ UNCHANGED <<stream, launches, settled, event, deviceVars>>

\* Event::query fails: leak the owner.
WorkerForgets(c) ==
  /\ To(c, "retiring", "leaked")
  /\ BindFails \/ (down /\ BindWorks)
  /\ KeepLeases
  /\ UNCHANGED <<stream, launches, settled, event, deviceVars>>

\* The deferred free of Allocation::drop.  A failed bind records its error
\* again; a failed free records the driver's.
WorkerFrees(a) ==
  /\ mem[a] = "dying"
  /\ mem' = [mem EXCEPT ![a] = IF errState \/ down THEN "leaked" ELSE "freed"]
  /\ errState' = (errState \/ down)
  /\ UNCHANGED <<clientVars, active, deviceVars, deferred, views>>

-----------------------------------------------------------------------------
(* Users, the device, other threads.                                       *)

DropView(a) ==
  /\ a \in views
  /\ views' = views \ {a}
  /\ Collect(views', leases)
  /\ UNCHANGED <<clientVars, active, deviceVars, errVars>>

\* The work at the head of a stream finishes, and so do the events behind it.
Finish(s) ==
  /\ queue[s] # <<>>
  /\ queue' = [queue EXCEPT ![s] = Tail(@)]
  /\ event' = [c \in Clients |->
                 IF stream[c] = s /\ event[c] > 0 THEN event[c] - 1 ELSE event[c]]
  /\ UNCHANGED <<stage, stream, leases, launches, settled, active, down, errVars, views, mem>>

\* A fault ends all queued work; events on the context never pass.
Fault ==
  /\ ~down /\ down' = TRUE
  /\ queue' = [s \in Streams |-> <<>>]
  /\ UNCHANGED <<clientVars, active, errVars, views, mem>>

RecordErr ==
  /\ deferred < MaxDeferred /\ errState' = TRUE /\ deferred' = deferred + 1
  /\ UNCHANGED <<clientVars, active, deviceVars, views, mem>>

\* bind_to_thread of a thread that is not modelled takes the error.
OtherBind ==
  /\ BindFails
  /\ UNCHANGED <<clientVars, active, deviceVars, views, mem>>

ClientStep(c) ==
  \/ \E s \in Streams : Open(c, s)
  \/ \E a \in Allocs, mode \in Modes : Retain(c, a, mode) \/ RetainRefused(c, a, mode)
  \/ Launch(c) \/ ForgetFuture(c)
  \/ \E s \in Streams, a \in Allocs, mode \in Modes :
       CopyAcquire(c, s, a, mode) \/ CopyRefused(c, s, a, mode)

\* What a client that has begun must go through.
EndStep(c) ==
  \/ Complete(c) \/ DropFuture(c) \/ DropEmpty(c) \/ DropBinds(c)
  \/ DropFaulted(c) \/ DropIdle(c) \/ DropBusy(c) \/ DropRetains(c)
  \/ CopyUnbound(c) \/ CopyEnqueue(c) \/ CopyRetains(c)

WorkerStep ==
  \/ \E c \in Clients : WorkerRetires(c) \/ WorkerForgets(c)
  \/ \E a \in Allocs : WorkerFrees(a)

Next ==
  \/ \E c \in Clients : ClientStep(c) \/ EndStep(c)
  \/ WorkerStep
  \/ \E a \in Allocs : DropView(a)
  \/ \E s \in Streams : Finish(s)
  \/ Fault \/ RecordErr \/ OtherBind

Spec == Init /\ [][Next]_vars

(* Futures are completed or dropped in the end, the worker runs, streams   *)
(* drain.                                                                  *)
FairSpec ==
  /\ Spec
  /\ \A c \in Clients : WF_vars(EndStep(c))
  /\ WF_vars(WorkerStep)
  /\ \A s \in Streams : WF_vars(Finish(s))

-----------------------------------------------------------------------------
(* Properties.                                                             *)

Using(s, a, mode) == \E i \in DOMAIN queue[s] : <<a, mode>> \in queue[s][i].uses

\* Cross-stream exclusion: work on two streams never holds one allocation at
\* the same time if either writes it, whatever was dropped, failed or leaked
\* (Accesses::register and the leases that outlive their futures).
NoCrossStreamRace ==
  \A a \in Allocs : \A s, r \in Streams : \A m \in Modes :
    s # r /\ Using(s, a, "write") => ~Using(r, a, m)

\* Memory is not freed under queued work that uses it, even if every view of
\* it and every future is gone.
NoFreeInFlight ==
  \A a \in Allocs : mem[a] \in {"dying", "freed"} =>
    \A s \in Streams, m \in Modes : ~Using(s, a, m)

\* What makes both true: while work is queued, the tracker still has an entry
\* for everything it uses, whoever pruned, retired or released others.
CoveredInFlight ==
  \A s \in Streams : \A i \in DOMAIN queue[s] : \A use \in queue[s][i].uses :
    <<queue[s][i].client, use[2]>> \in active[use[1]]

\* Dropping is enough: without faults and deferred errors, memory whose views
\* are gone is freed, unless a forgotten future holds it.
DroppedIsFreed ==
  \A a \in Allocs :
    a \notin views ~>
      \/ mem[a] = "freed" \/ down \/ deferred > 0
      \/ \E c \in Clients : stage[c] = "forgotten"
=============================================================================
