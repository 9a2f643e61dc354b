# A TLA+ model of the cuda-oxide runtime and the cuTile caches

This directory holds TLA+ modules, TLC configurations and TLAPS proofs for the
parts of the repository in which concurrency, failure and ordering decide
correctness. One is the runtime, the crates `cuda-async` and `cuda-core`: they
turn GPU work on CUDA streams into Rust futures and replayable graphs, keep
device memory alive and exclusive while that work is in flight, and must survive
device faults, dropped futures and racing threads. The other is cuTile's chain
of kernel caches (`cutile-rs`): launch sites, the in-memory single-flight cache
and the cubin store on disk, shared by threads and processes that may fail or
die at any step. The rest of the repository (the MIR-to-PTX compiler, the cuTile
compiler, device libraries, tools, examples) is sequential translation or
generated code and is not a protocol; it is also by far the larger part of the
repository's lines.

## 1. Inventory

| part (source) | state it keeps | operations | what is hard | what makes it correct |
|---|---|---|---|---|
| slot table (`cuda-async/src/slot_table.rs`) | pinned flags, active bitmap, payload cells, free list, `n_armed` | `claim`, `reset_flag`, `publish`, `release`, `scan_once`, `scan_probing` | lock-free producers against one scanner, device writes at any moment, slot reuse | one owner per index and per cell, a signal only for the own write, no counter underflow |
| reactor (`reactor.rs`) | the table, the scanner thread and its park token, `idle_passes`, the probe memo | `register`, `scan_loop`, `probe_stale_slots` | park/unpark race, faults that swallow writes, errors that are not faults | no sleep on armed slots, one correct notice per registration, the scanner rests |
| device future (`device_future.rs`) | future state, `StreamCallbackState` (waker, complete), result, submission | `poll`, `Drop` | signal against waker update, moves between tasks, the spin, faults | `Ok` only for finished work, no lost wake-up, faults resolve |
| submission (`submission.rs`) | owners and access leases of one submission | `retain`, `complete`, `Drop` | dropping in flight, partial failure, unknown completion | owners outlive the work |
| allocation (`cuda-core/src/allocation.rs`) | access entries per allocation, views, the owner | `acquire`, lease drop, `retain_until_complete`, deferred free | pruning by events, two retirement paths, deferred errors | no cross-stream race, no free in flight |
| retirement worker (`completion.rs`) | pending owners with their events | `enqueue`, the worker loop | query errors, leaks | what is dropped is freed |
| execute-once (`device_operation.rs`) | `OnceState` under a mutex, the condvar, the producer's event | `execute`, `settle_done`, unwinding | waiters against panics, consumers on other streams, re-entrance | runs once, one outcome, ordered consumers, everybody returns |
| execution lock (`device_operation.rs`) | thread-local `DEVICE_OP_EXECUTING` | acquire, guard drop, `then_unchecked` release | panics and nested regions | held exactly while a guard lives |
| context (`cuda-core/src/context.rs`, `runtime.rs`) | sticky `error_state`, current context | `record_err`, `check_err`, `bind_to_thread` | an error of one object surfaces in the next bind of any thread | (seen from each part that binds) |
| graphs (`cuda-async/src/cuda_graph.rs`) | driver graph and exec, recorded accesses, capture context, pending update contexts | `capture`, `scope`, `record`, `update`, `launch`, replay, drop | accesses acquired long after they were recorded and on other streams, failing captures, handles that outlive the graph, nesting | replays exclude like any other work, what they use is alive, failures clean up |
| kernel cache and launch sites (`cutile/src/tile_kernel.rs`, the generated launcher) | `KERNEL_CACHE` slots, `KERNEL_CACHE_EPOCH`, one resolution per site | probe, resolve, store, compile, evict, retain | waiters that take over a failed compile, removal under a compiling thread | single flight, nothing leaks |
| tile libraries (`cutile-compiler/src/tile_library.rs`) | default libraries and their generation, stamps, `HASHED` (hashes kept by stamp) | set, add, snapshot, check | files rebuilt, rewritten and relinked before, while and after they are hashed and linked | keys describe what was linked, nothing stale is launched |
| JIT disk cache (`cutile-compiler/src/jit_cache.rs`, `cuda_tile_runtime_utils.rs`) | entry and temp files, their mtimes, the eviction lock, trusted fingerprints | get, put, delete, clear, evict, lookup, recompile after rejection | writers, readers, collectors and crashes of several processes | invisible to a launch, only complete entries, no litter, no thrashing |
| stream pool, scheduling policies, device contexts | | | | not modelled, section 7 |

Interactions: a `DeviceFuture` executes its operation under the execution lock;
the operation retains leases in the submission and launches on a stream; the
future registers with the reactor (or falls back to a host callback); the
reactor's scanner calls `signal` or `wake` on the shared callback state; when the
future resolves `Ok` the submission is completed, when it is dropped the
submission hands its owners to the retirement worker. A graph keeps the context
of its capture and those of its updates, and each launch is an operation that
acquires the recorded accesses for its own submission. A cuTile launch finds its
function in the site, the kernel cache or, behind a compile, the disk cache, and
then retains its tensors like any operation. All parts that touch the driver bind the
context and so may meet a deferred error recorded by somebody's
`Drop`. The hazards this exposes, with the line where each bites and the
properties that would catch it, are listed in `PROJECT.json`.

## 2. Modules

| module | models | instances |
|---|---|---|
| `SlotTable` | slot_table.rs, the register() steps that drive it, device flag writes | through `Reactor` |
| `Notifier` | abstract: what the reactor promises a future | refined by `Reactor` |
| `Reactor` (extends `SlotTable`) | reactor.rs: unpark, scan_loop, fault probe, FIFO streams, faulting contexts, deferred errors | `MCReactor`, `Reactor*.cfg` |
| `DeviceFuture` | device_future.rs: poll, callback state, tasks, with the completion side as `Notifier` describes it | `Future*.cfg` |
| `Leases` | allocation.rs, completion.rs, submission.rs, `DeviceBuffer::enqueue_access` | `Leases.cfg` |
| `ExecuteOnce` | execute-once cells, execution lock, `sync_on`, producer events | `MCExecuteOnce`, `ExecuteOnce.cfg` |
| `CudaGraph` | cuda_graph.rs, recording contexts, tensor and buffer accesses as graphs replay them | `MCCudaGraph`, `CudaGraph*.cfg` |
| `KernelCache` | launch sites, kernel cache, tile-library snapshots | `MCKernelCache`, `KernelCache.cfg` |
| `DirectJit` | abstract: a launch that misses in memory, without a disk cache | refined by `JitStore` |
| `JitStore` | jit_cache.rs, the lookup around tileiras, the load and its retry | `MCJitStore`, `JitStore*.cfg` |
| `SlotTable_proofs`, `Reactor_proofs`, `DeviceFuture_proofs`, `Leases_proofs`, `ExecuteOnce_proofs`, `CudaGraph_proofs`, `KernelCache_proofs`, `JitStore_proofs` | TLAPS proofs about the module of that name; `Reactor_proofs` uses those of `SlotTable_proofs` | |

The composition is by refinement and by contract: `Reactor` extends `SlotTable`
and is checked, and proved, to implement it (`ImplementsSlotTable`: its fault
probe keeps the contract that `SlotTable` states for `is_dead`, as long as it meets
no deferred error, section 5), and it is checked to implement `Notifier`
(`ImplementsNotifier`, fairness included). `DeviceFuture` then uses the
`Notifier`'s two notices, signal and wake, instead of the whole reactor, and adds
what run `reactor_misread` shows the reactor to do beyond that contract when its
probe takes a deferred error for a fault: a wake on a live context, and a signal
from the flag write of the slot's previous owner.
`Leases` and `CudaGraph` use only the fact that a future completes its submission
when its work is over, which is `OkMeansDone` of `DeviceFuture` without its
exception: what they show is of executions in which no future inherited a slot
with a late flag write (finding 1). `CudaGraph` uses the
access tracker as `Leases` shows it, without faults: what it adds is the
indirection between recording an access and performing it. `KernelCache` sees a
compile as one step that reads the library file; `JitStore` is that step from
inside, and `ImplementsDirect` is the contract between the two.

### SlotTable

One process per registration, whose `reg[t]` walks through `register`; one
scanner whose `scan` walks through `scan_inner`. Each atomic access of the code
is one action: `publish` is `WritePayload`, `CountArmed`, `SetBit`; a retirement
is `LoadFlag`, (`ProbeSlot`), `ClearBit`, `TakePayload`, and at the end of the
pass `Recycle` and `CountRetired`. Interleavings are sequentially consistent;
the acquire/release pairs themselves are the business of the repository's loom
tests. The free list is the number of copies of each index, so that a duplicate
would be visible. `FlagWrite` and `FlagWritesLost` are the device. A registration
is used once; the reuse of slots by later registrations is what the model is
about.

### Reactor

`loop` walks through `scan_loop`. The rate limit of the probe is the
nondeterministic choice between `SlowSkip` and `SlowProbe`. `idle_passes` is a
counter modulo `PassWrap` (2^32 in the code, 3 in the instances), as in a release
build; with overflow checks its increment in the slow phase, which is never
reset, would end the scanner after 2^32 passes over one long kernel. The probe is two steps, `ProbeBinds` and
`ProbeQuery`, because both bind the context and another thread may record a
deferred error (`RecordErr`) in between. A capturing stream, which the probe
leaves alone, does not occur.

### DeviceFuture

`pc` walks through `poll`; a task owns the future, `sched` holds the tasks that
will be polled. `Move` hands the future to another task (a `select` arm, a
channel, a `JoinSet`), `Poll` may also happen without a wake-up. `signal()` is
two steps, store and wake. A stream is idle only if the work of others behind
ours is done as well (`otherWork`). `MisreadWake` is the reactor's probe taking a
deferred error for a fault of our stream: the slot is retired and the task woken,
and no further notice comes. `MisreadOther` is the same done earlier to another
registration, after which a slot with a flag write still to come is on the free
list; if ours is that slot (`stale`), `SignalStore` may come before our work is
done. The properties name these two cases as their exceptions, and hold
otherwise, deferred errors included.

### Leases

A client is a submission or a copy. A submission opens, retains leases, launches
any number of times up to the bound, completes, fails, is dropped or forgotten
(`mem::forget`, stage "forgotten", which is kept apart from the leaks of the code
itself, stage "leaked"); its drop is bind, probe, and one of drop, retain on an event, leak. `active` is
`Accesses::active`; an entry disappears by the lease's drop or by pruning once
its event has passed. `event[c]` counts the work still in front of the client's
completion event. All streams belong to one context, which may fault.

### ExecuteOnce

A call is one execution of a clone. Arms of the `match` under the mutex are one
action each; the closure runs unlocked and may itself make calls (`Route`): on
its own context, through `sync_on` under the lock (refused), or in a
`then_unchecked` body. The store of the outcome and `notify_all` are separate
steps, waits may wake spuriously. Streams are logs of work, event, wait and use
items which the device executes in order, a wait only after its event. The
halves of an `unzip` are calls as well: each half is consumed by its execution,
so its side is always still there to take.

### CudaGraph

A context, that is a submission, belongs to an operation or to the capture of a
graph; `stage` says who holds it: its owner, a graph as pending update, another
submission, the retirement worker. `phase` walks through `capture_on` one driver
call at a time and `driver` holds the objects made so far: ending the capture
makes a graph or none, whether the closure returned, failed or panicked;
instantiation adds the exec; a failure leads through the destruction of what
there is (`DestroyGraph`, the drop of the handle in `UploadFails`) to `Leave`, in
which the context drops. Two things are taken from the driver: a failing
`cuStreamBeginCapture` changes nothing, and the destroy calls, whose results the
code ignores, succeed. `nodes` is
what a replay does on the device, `recorded` what `captured` makes it acquire;
that the second covers the first is not built in, it is what `NoReplayRace`
tests. A tensor is recorded as a `StorageLease`, a `DeviceBuffer` as a
`BufferAccess`; the two differ when a capture contains the launch of another
graph (`RecordLaunch`). Dropping a context on a stream that another thread is
capturing leaks it, as `Submission::drop` does. That nobody else executes on a
capturing stream is an assumption: the execution lock is the thread's own.

### KernelCache

A thread's launch is `Begin`, the site probe, the snapshot in the order of the
code (generation, defaults and stamp, the memo, the canonical path, the contents,
the memo again), the slot, the compile, the site fill. A slot is an
`Arc<OnceCell>`; its reference count is the map's reference plus one per thread
that holds it, which is what `remove_if` looks at. A waiter of a failed
initialisation takes the cell over. A compile may also panic (the compiler unwraps
results, for one at `compile_type.rs:55`): `CompilePanics` gives up cell and slot
by unwinding, past the removal, and the empty slot stays in the map until the next
launch of its key compiles in it or fails with an error (`left`).

A library is a path that leads to one of several files, as a symbolic link does;
a file has a build and the tick of its times. `Rebuild` writes it in a new tick,
`Rewrite` within the tick of its last change, which leaves the stamp as it was,
and `Relink` turns the path to another file or back. `HASHED` is `memo`, kept for a
stamp once `settled()` finds the tick to be over; the model learns that the two
seconds have passed when the code looks. The default libraries are a version
number: each call sets a list that was not set before.

What the code promises of the library it promises while a stamp stands for one
state of the path. `repeated` records that the path came to show a stamp that it
had shown before with something else behind or in between, and the two library
properties are stated for the time before that. Each of these ways is open, and
the documentation of `FileStamp` (`tile_library.rs:132-138`) admits the first:

* a file rewritten within one tick keeps its stamp, so that sites, keys and the
  check after the link do not notice;
* the same, and the thread that hashed it is held up for two seconds between the
  `read` and `settled()`, which is evaluated after the read: the old hash is kept
  for the stamp of the new contents, for good;
* a link is turned from A to B between the `stat` and the `canonicalize` of one
  launch, which keeps the path and hash of B under the stamp of A; when the link is
  turned back, launches are served B.

That nothing else goes wrong, in particular that a memo filled during such a flip
does no harm as long as A's stamp does not come back, is what the run and the
theorems show. Eviction calls run one at a time, beside the launches.

### JitStore

A process serves one request at a time through the file operations of `get`,
`put` and `evict`; a `put` is create, write, rename. Any operation may fail, and the
removal of the temp file after a failed write or rename may fail too, which the
code ignores; a process may die anywhere (which releases the lock and leaves temp
files); a power loss tears any entry, and is counted apart from the crashes of
processes. `orphans` names the temp files that one of these left. Modification
times are an order; an entry enters it where the time of its write puts it, not
that of its rename. `Swap` replaces a
compiler binary, only under `SwapSpec`. `Direct` maps the whole module to
`DirectJit`: a request, its answer and nothing else.

## 3. Runs

| run | question | distinct states | result |
|---|---|---|---|
| `reactor` | two streams on two contexts compete for one slot: slot-table safety and its inductive invariant, no sleep on armed slots, refinement of the table and of `Notifier`, the pool refills, the scanner rests | 142,996 | holds |
| `reactor_deferred` | two slots in two words, one stream: the table stays sound when the probe misreads an error | 1,533,754 | holds |
| `reactor_misread` | "a retired slot's flag write can no longer land" | | violated |
| `future` | results, wake-ups and errors of one future over spin, reactor and host function, faults, deferred errors and their misreading; finished work resolves it whoever owns it, a fault resolves one that stays with its task, each unless its notice was spent on a misread error | 66,800 | holds |
| `future_moved` | "an awaiting future resolves ... instead of hanging", with a hand-over | | violated |
| `leases` | no cross-stream race, no free in flight, dropped memory is freed | 305,480 | holds |
| `once` | runs once, one outcome, ordered consumers, the lock is balanced, every call returns | 123,788 | holds |
| `graph` | replays do not race, memory and execs outlive their use, failed captures clean up, no context is lost | 1,135,108 | holds |
| `graph_nested` | the same race freedom with a buffer inside a nested graph | | violated |
| `kernel_cache` | single flight, no leaked slots (but for panics), keys describe what was linked and no stale launch (while no stamp comes back) | 552,528 | holds |
| `jit_store` | the disk cache is transparent, publishes complete entries, leaves no litter it could remove, keeps the newest | 350,642 | holds |
| `jit_store_swap` | a process is served only its own binary's cubins | | violated |

Deadlock checking is off in all of them: every behaviour of these bounded
instances ends once all registrations, futures, calls, operations or requests are used up (and a
device fault may end it earlier); that nothing stops too early is what the
liveness properties say.

### Bounds

* Slots and tokens. In `reactor` two registrations over one slot force reuse by a
  registration that was not its first owner, and exhaustion of the pool; in
  `reactor_deferred` two slots in two words of the bitmap make a pass load one
  slot's bit before and after the other's changes. The proofs have no bound.
* `PassWrap = 3`, `SpinPasses = 1`: the smallest values with a spin pass, a slow
  pass and a wrap.
* `MaxMoves`: one hand-over loses the fault wake-up, two let the future return to
  the task that still holds the old waker.
* `MaxDeferred`: one error suffices to be misread by any single call; two let
  both binds of one probe fail, and in `future` let one registration inherit a
  late flag and then be misread itself.
* `Leases`: two clients are the two sides of a conflict, one deferred error meets
  each bind. With `MaxLaunches = 2`, which puts work on a stream before and after
  a client's event, the same properties hold as well (1,255,744 states), and the
  invariants hold for two allocations (2,649,394 states) and for three clients
  (3,941,730 states); these instances are left out of the runs for their length.
* `ExecuteOnce`: two threads and two streams; clones of B meet from a thread of
  its own and from inside A's closure, so either may be the runner, the waiter or
  the late consumer, and there is one nested call of each kind.
* `CudaGraph`: two graphs are the least for nesting, two operations the least for
  a replay beside an update, another replay or a copy; one buffer is the one they
  conflict over. `MaxNodes = 1` bounds what a capture records itself; a nested
  launch adds the inner graph's access, so that a read and a write of one buffer
  meet in one graph. `Bound` lets one
  operation, not two, be in progress while `capture_on` is in its driver calls after
  the end of a capture, which share nothing with operations; without it the
  properties hold too (2,187,106 states), in twice the time.
* `KernelCache`: two threads (compiler and waiter, or launcher beside evictor) that
  launch one specialization which links the library; three slots, so that a key
  can be compiled again after an eviction or a failure; two files behind the path,
  so that a link can be moved while a file is hashed. `Bound` lets two launches meet
  two changes of the libraries, or one and an eviction call, and three launches one
  of these, each at every point. It also cuts off what lies behind a repeated stamp:
  there the properties say nothing of the library, and what they say of slots and
  defaults does not depend on it. Two launches beside two changes and an eviction
  have been checked as well (3,146,227 states) and hold. Two specializations at one
  site and kernels that link nothing are left to the theorems, which have no bound.
* `JitStore`: two processes with equal or different compilers, three requests, an
  entry as large as the low watermark and one above it, so that two small entries
  exceed the limit; two I/O errors, so that the removal after a failed write or
  rename can fail as well, one compiler fault and one crash or power loss, each at
  every point.

### Fairness

* Threads (`register`, the scanner, the worker, polls, callers) are weakly fair:
  they are OS threads that block only where the model says so.
* The device is weakly fair: queued work on a live context is executed or lost
  in a fault. Nothing forces a fault, a deferred error, a spurious wake-up, a
  spurious poll or a move.
* Strong fairness on `SlowProbe`: while a slot stays armed the scanner is in the
  slow phase again and again, and every 2 ms it probes. That a repeated probe
  finds a fault is not assumed; it follows from the model of the query.
* `JitStore`: a process that is not killed takes its next step. `DirectJit` asks
  for the matching progress: a request is answered, fails or dies with its
  process. `CudaGraph` and `KernelCache` state safety only.
* `DeviceFuture` assumes the notice that `ImplementsNotifier` shows the reactor
  gives: a signal for work that is done, a wake for a dead context. Nothing forces a
  misread or a late flag, and after a misread no notice is assumed any more; `ExecuteOnce` assumes that the user's closures terminate.

## 4. Findings

The four violated runs are disagreements between a comment or the README of a
crate and the code. Each has its trace in TLC.

1. `reactor_misread`: `stream_is_faulted` binds the context and then queries,
   and the query binds again. A deferred error stored in between by another
   thread comes out of the query, a busy stream is declared faulted, its slot is
   recycled and its still-queued flag write later lands in the slot's next
   owner. `reactor_deferred` shows what still holds then. For futures it means two
   things, both in `DeviceFuture`: the future of the busy stream is woken, polls,
   finds the stream busy and waits for a notice that has been spent; and the next
   owner of the slot may resolve `Ok`, and release its leases, before its work is
   done. Run `future` and its theorems except these two cases by name.
2. `future_moved`: the fault wake-up carries no flag, so the re-check after the
   waker update does not see it.
3. `graph_nested`: in a recording context `BufferAccess::retain_for_launch` takes
   a recording lease, which excludes nobody, and does not record the access again
   as a tensor's `StorageLease` does. A graph that captured `inner.launch()`
   replays the inner graph's writes to a `DeviceBuffer` without acquiring them,
   and another stream is not refused.
4. `jit_store_swap`: a fingerprint is trusted for a second and taken before the
   compile in any case. A binary replaced in between stores its cubin under the
   old binary's key, where processes that still run the old binary find it.

The deferred error of the first finding also reaches `poll`: its spin and its
probe take any query error for the stream's fault and fail the future with it.
`ErrHasCause` admits this second cause and excludes any third.

## 5. Proofs

Eight `*_proofs` modules prove the safety of the components for all values of
the constants: any number of slots, streams, threads, tasks, processes, graphs
and buffers, any nesting, and any number of faults, crashes and deferred errors.
Each has an inductive invariant `IndInv`, a conjunction of named parts which TLC
checked on the run of its module first; one lemma per action, or per conjunct
where that is shorter; and the theorems, each of which follows from `IndInv`, some
with a second invariant that is inductive relative to it. The
assumptions are those the modules name next to their CONSTANTS: sizes and bounds
are numbers, `None` is none of the model's names (nor a file), sets that are counted are
finite, and, for `CudaGraph`, graphs and operations are different things and
tensors are buffers. `PROJECT.json` lists the theorems.

**SlotTable.** `IndInv` has two halves. `TableInv` is the table's own discipline,
which every step preserves whatever `is_dead` answers. `SlotOwnedOnce` alone is not
inductive: its step for `TakePayload` needs that the cell holds the payload of the
very registration that owns the slot (`PayloadInv`), which needs that the bitmap
shows only published payloads and that what the pass still has to visit is in the
bitmap (`ScanInv`), which in turn needs that nothing is taken without its bit being
cleared (`PublishedVisible`). The counter needs `CountInv`, n_armed = counted
registrations + retired slots, proved apart because it uses the cardinality
theorems. `DeliveredOnce`, `PayloadExclusive`, `NoUnderflow` and `IdleGate` follow.
`TruthInv` is what flags and notices say of the device. `SignalOnlyIfLanded` needs
`FlagInv`: from `reset_flag` on, a raised flag is the owner's own write; this is
where the order reset, device write, publish matters, and where the `is_dead`
contract is used: a slot is recycled only when its old write can no longer land.

**Reactor.** Two theorems need no hypothesis. `NoSleep`: its invariant `ParkInv`
says that the registration that counted 0 -> 1 has not returned before its unpark.
`SoundDespiteMisreads`: each step of the reactor is a step of the table or an answer
of `is_dead`, true or not, so `TableInv` holds with any number of deferred errors.
`ImplementsTable` and `ImplementsNotices` have the hypothesis `[][NoMisread]_rvars`,
that no query of the probe meets a deferred error. It cannot be dropped: run
`reactor_misread` is the counterexample. Under it `DeadInv` (only registrations of
contexts that are down are taken for dead, and nothing of such a context is queued)
makes `ProbeSlot` keep the contract of `is_dead`, so that each step of the reactor
is a step of `SlotTable` or leaves it alone, and `IndInv` carries over.
`QuietImplementsTable` is the case without deferred errors, where the hypothesis is
proved.

**DeviceFuture.** `WakerInv` is the heart: a waiting task has left its waker or
will be polled anyway, at every point between the update of the waker and the
second look at the flag. `NoAbandonedFuture` is the other direction, with `FaultInv`:
an executing future that nobody polls is scheduled, or its waker is its owner's and
the completion side has still to call it. It names two exceptions: a future that
moved to another task before a fault, the one of run `future_moved`, and one whose
notice was spent on a misread error (finding 1). `OkAfterWork` excepts a future on
the reactor path whose slot was inherited from a misread registration; for all
others `SignalInv` says that a flag means done work.

**Leases.** Race freedom is not a property of the tracker's entries alone, since
entries are pruned. `CoveredInFlight` says that queued work still has its entry;
it needs `EventInv` (work is ahead of the event of its client, so that an event
which has passed means an empty queue for this client) and `LeaseInv` (nothing is
pruned before the event is recorded). `EntryInv`, the pairwise compatibility that
`register` checks, then excludes the race, and `MemInv` with the leases of queued
work (`WorkInv`) excludes the free. `DropIsNeverLost` says that nothing is kept for
ever by accident. Memory without a view is freed or queued for it; or it, or a client
that leases it, was leaked, and then there was a fault or a deferred error; or its
client is a future the user forgot, or is on its way to give it up, and if that
waits for an event there is queued work in front of it (`OwedInv`).

**ExecuteOnce.** `CellInv` has one runner per cell and the outcomes of a settled
cell. `LogInv` orders the items of the streams by position: work before the event,
a wait that was passed saw the event, a use behind the work on its own stream or
behind a wait. `NestInv` is about the frames of a thread: nesting is well founded,
stated as "every non-empty set of calls has one without a child in it", which
needs no induction over the depth; one innermost frame per thread; one outermost
frame, which holds the lock.

`ProgressInv` is about who waits for whom. `SettlerInv` is `WaitersAreOwed`: a waiting
call has a runner on another thread that has not reached its `notify_all`.
`Ordered` says that the positions of all streams, ordered by position within a stream
and by wait-after-event across streams, have no infinite descent, in the same
form as the nesting; each append preserves it because a wait is put behind an event
that is already there. Its first unreached position can be passed (`DeviceNeverStuck`).
`NobodyStuck` combines the three orders, of frames, cells and positions: among the
cells in progress take one that executes no other; its innermost call goes on, or
waits for the device, or waits for a runner on another thread whose innermost call
does not wait. It has the hypothesis `Acyclic`, that closures do not execute one
another in a cycle. The code gives this to operations built in the ordinary way,
whose closures own the operations they execute and so exist after them; a cycle can
only be tied through a handle with interior mutability that a closure looks into,
and it does deadlock. The case the code does detect, a cell that executes itself, is
not excluded by `Acyclic`. `Ready` and `DeviceReady`, which `NobodyStuck` speaks of, are guards written
out, since ENABLED is not available to the prover; that a `Ready` call has an enabled
step, and that `DeviceReady` is the enabledness of `DeviceStep`, TLC has checked on
the run's instance, which satisfies `Acyclic`.

**CudaGraph.** `NodeInv` says how what a graph does is kept alive: recorded, leased
by its capture, or done by a graph it contains; containment is well founded in the
same sense (`HoldInv`). `QueueInv` ties queued work to a submission that holds the
exec and has acquired the recorded accesses, `LeaseInv` makes those exclude each
other. `ExecAlive` is not only about those who hold an `Arc`: a queued replay has its
exec although the submission that queued it may be dropped, retired or leaked,
because the owners of a submission go only when its work has left the stream
(`QueueInv`), and a contained graph has its own because the outer graph's capture
context holds it. `CaptureLeavesNothing` rests on `PhaseInv`, the objects that exist
at each step of `capture_on`. So races are excluded on tensors, at any depth of nesting
(`TensorsNeverRace`, and `NoReplayRace` itself when all buffers are tensors), and
on any buffer where the graphs have recorded what they do (`ReplaysExclude`). For a
`BufferAccess` in a nested graph `NoReplayRace` is false, which is finding 3.

**KernelCache.** `SlotInv` relates slot holders, the thread that initialises a
cell and the map: whoever holds a slot that was not evicted finds it in the map
under its own key, so that `remove_if` by reference count never takes it away from
another holder; an empty slot that nobody holds is one a panic left. `LibInv` is
about the libraries: what is in a cell fits its key (`CellInv`), and a launch reads
generation and defaults in an order that cannot miss a change (`SnapInv`, `SiteInv`).
`ShownInv`, which holds as long as no stamp has come back, is the argument for
stamps. Whatever a snapshot, the memo or the site has under the stamp that the path
shows now is what the path shows now (`TrueOK`, `MemoTrue`, `SiteTrue`): a memo filled
across a flip of the link is filed under a stamp that is shown no more, and would be
wrong only if that came back, which is `repeated`. And nobody who saw the stamp that a
launch saw read contents that had been replaced before the launch began (`NewOK`,
`MemoNew`, `LaunchNew`), so that a stale hash does not reach it through the memo or a
shared key. The check after the link closes the chain.
`WrittenOnce` is an action property: a step
writes to a cell only while it is empty (`RunsInEmpty`). `WaitersHaveCompiler`: a
thread that waits for a cell waits for another one that compiles in the same cell.

**JitStore.** `NameInv` (no two requests share a temp name) and `TempOK` (a temp
file holds what its one writer wrote) give complete
entries, whatever processes die; every temp file has its put or is an orphan; `EntryInv` and `GotOK`
(an entry, and what was read from it, is the cubin of its key) give `Transparent`:
each step maps to a step of `DirectJit` or to a stutter. The proof is for `Spec`; under
`SwapSpec` it is false (finding 4).

`NewestKept` has an invariant of its own, `EvictInv`: the order of modification times
lists the entries, each once (`LruInv`); every entry, and every temp file
on its way to be one, fits under the low watermark by itself (`FitInv`, from the check at the
start of `put`); and the running total of a scan is the sum of the sizes it has still
to visit, or more than that once a removal failed (`ScanInv`). So a scan that
skipped nothing is below the watermark when a single entry is left, and stops; and no subtraction goes below zero
(`TypeCorrect`). What a sum over a set gains with one more element is proved without an
induction principle: the subsets of a finite set are well founded under inclusion, so
if the fact failed there would be a smallest set where it fails, and there is none.

Only model-checked: liveness, which is out of the prover's reach (`PoolRefills`,
`ScannerRests`, `DoneResolves`, `FaultResolvesInPlace`, `DroppedIsFreed`,
`EveryCallReturns`, and the fairness part of `ImplementsNotifier` and
`ImplementsDirect`). `NoAbandonedFuture`, `DropIsNeverLost` and `NobodyStuck` are the
safety part of four of these: in no reachable state has what must happen become
impossible. That fair steps then make it happen is what TLC adds.

## 6. Abstractions common to all modules

* The CUDA driver and the GPU are the environment: streams are FIFO, a device
  fault is sticky, kills its context, and discards what is queued on it.
* A driver call on a context with a deferred error fails with that error and
  clears it (`bind_to_thread` calls `check_err`).
* Payloads, names, sizes and error codes are model values.

* Disk files are read whole and renamed atomically; an open file survives its
  removal; the hashes of keys and checksums do not collide.

## 7. Not modelled

Weak memory (covered by the crate's loom and miri tests); other threads that
execute on a stream while it is captured, which nothing prevents and which would
be recorded; device-to-device copies, which take two accesses by nesting
`enqueue_access`; the unsafe `async_on` and `drop_async`, whose callers take over
the obligations that `Leases` is about; the order between an update and a launch
on another stream, which the documentation does not promise; the stream pool and
the scheduling policies (a round-robin counter), context teardown and the
thread-local device contexts; the race between an eviction call and a launch
site's epoch, which the callers of the unsafe eviction calls must exclude;
installation and directory permissions of the disk cache; argument packing and
launch predicates; generated FFI; both compilers, the tuner and the tools, which
are sequential programs over large data and out of the reach of explicit-state
checking.

## 8. Plan

1. Proofs: action properties of the graphs' hand-overs (what an update or a launch
   may never change).
2. `Streams`: stream pool, `RetiredStream`, context teardown lock, thread-local
   device contexts.
3. Composition of `ExecuteOnce` with `Leases`: a memoised value used on another
   stream while its producer's lease is still held.
4. The LTO-IR cache of cuda-oxide's host loader, a second on-disk cache with its
   own naming and locking.
