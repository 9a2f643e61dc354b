---------------------------- MODULE KernelCache ----------------------------
(***************************************************************************)
(* cuTile's in-memory kernel cache (cutile-rs/cutile/src/tile_kernel.rs):  *)
(* threads that launch kernels through one macro-generated launch site,    *)
(* the map from specialization keys to single-flight compilation slots,    *)
(* and the eviction calls.  A slot is an Arc<OnceCell>: the map and every  *)
(* thread that uses it hold one reference.  A key covers the kernel, the   *)
(* default tile libraries and the file and contents of the library; both   *)
(* may change at any time.  A library is a path that shows one of several  *)
(* files (a symbolic link, if there are more than one); a file has a build *)
(* and a stamp, which a write within one tick of the file system's clock   *)
(* does not change (cutile-compiler/src/tile_library.rs).  Compilation is  *)
(* one opaque step that reads the library file when it links.              *)
(***************************************************************************)
EXTENDS Naturals, FiniteSets

CONSTANTS
  Threads,
  Kernels,       \* specializations launched through the site
  Linking,       \* those that call into a tile library
  Files,         \* files the path of the library may lead to
  None,
  MaxCells,      \* bound on slots created
  MaxLaunches,   \* bound on launches
  MaxChanges,    \* bound on changes of the default libraries, the files and the link
  MaxEvictions   \* bound on eviction calls

ASSUME CacheAssumption ==
  /\ Linking \subseteq Kernels /\ None \notin Nat /\ IsFiniteSet(Threads)
  /\ None \notin Threads \cup Files \cup (Files \X Nat)
  /\ {MaxCells, MaxLaunches, MaxChanges, MaxEvictions} \subseteq Nat

VARIABLES
  pc,        \* where a thread is in its launch
  launches,  \* launches begun
  want,      \* the specialization it launches
  seen,      \* the defaults, and the contents replaced, when the launch began
  snap,      \* its TileLibrarySnapshot
  slot,      \* the Arc<OnceCell> it holds
  fn,        \* the kernel it got, or is building
  built,     \* the epoch in the SiteResolution it is about to store
  cache,     \* KERNEL_CACHE: the slot of a key
  cell,      \* the kernel in a OnceCell
  running,   \* the thread that initializes a OnceCell
  left,      \* slots a panic left, until somebody compiles in them again
  created,   \* number of slots created
  epoch,     \* KERNEL_CACHE_EPOCH
  site,      \* the launch site's SiteResolution
  sweep,     \* the eviction call in progress
  evictions,
  evicted,   \* slots an eviction call took out of the map
  defaults,  \* the default libraries and their generation
  link,      \* the file the library's path leads to
  disk,      \* the build of a file, its stamp, and whether that tick lasts
  memo,      \* HASHED, for the path
  replaced,  \* stamps and contents the path showed earlier
  repeated,  \* whether it came to show a stamp that it had shown before
  changes

threadVars == <<pc, launches, want, seen, snap, slot, fn, built>>
slotVars == <<cache, cell, running, left, created>>
sweepVars == <<sweep, evictions, evicted, epoch>>
fileVars == <<link, disk, replaced, repeated>>
libVars == <<defaults, fileVars, memo, changes>>
vars == <<threadVars, slotVars, sweepVars, libVars, site>>

Cells == 1 .. MaxCells
Versions == 0 .. MaxChanges
Stamps == Files \X Versions    \* device and inode, and the times
Contents == Files \X Versions  \* canonical path, and the build that is there
Keys == [kernel : Kernels, defaults : Versions, digest : Contents]
Compiled == [kernel : Kernels, defaults : Versions, linked : Contents]
Snapshots == [generation : Versions, defaults : Versions, stamp : Stamps \cup {None},
              file : Files \cup {None}, digest : Contents \cup {None}]
Views == [stamp : Stamps, contents : Contents]
Resolutions == [epoch : 0 .. MaxEvictions, snap : Snapshots, fn : Compiled]
Steps == {"idle", "probe", "defaults", "look", "find", "read", "note", "slot", "init",
          "compile", "linked", "failed", "remove", "fill", "store", "launch"}

TypeOK ==
  /\ pc \in [Threads -> Steps] /\ launches \in 0 .. MaxLaunches
  /\ want \in [Threads -> Kernels \cup {None}]
  /\ seen \in [Threads -> [defaults : Versions, old : SUBSET Contents]]
  /\ snap \in [Threads -> Snapshots]
  /\ slot \in [Threads -> Cells \cup {None}]
  /\ fn \in [Threads -> Compiled \cup {None}]
  /\ built \in [Threads -> 0 .. MaxEvictions]
  /\ cache \in [Keys -> Cells \cup {None}]
  /\ cell \in [Cells -> Compiled \cup {None}]
  /\ running \in [Cells -> Threads \cup {None}] /\ created \in 0 .. MaxCells
  /\ left \subseteq Cells
  /\ epoch \in 0 .. evictions /\ evictions \in 0 .. MaxEvictions
  /\ site \in Resolutions \cup {None}
  /\ sweep \in [on : BOOLEAN, todo : SUBSET Keys, removed : BOOLEAN]
  /\ evicted \subseteq 1 .. created
  /\ defaults \in Versions /\ changes \in Versions /\ link \in Files
  /\ disk \in [Files -> [build : Versions, tick : Versions, open : BOOLEAN]]
  /\ memo \in [stamp : Stamps, file : Files, digest : Contents] \cup {None}
  /\ replaced \subseteq Views /\ repeated \in BOOLEAN

NoSnapshot == [generation |-> 0, defaults |-> 0, stamp |-> None, file |-> None,
               digest |-> None]
NothingSeen == [defaults |-> 0, old |-> {}]
NoSweep == [on |-> FALSE, todo |-> {}, removed |-> FALSE]

Init ==
  /\ pc = [t \in Threads |-> "idle"] /\ launches = 0
  /\ want = [t \in Threads |-> None]
  /\ seen = [t \in Threads |-> NothingSeen]
  /\ snap = [t \in Threads |-> NoSnapshot]
  /\ slot = [t \in Threads |-> None] /\ fn = [t \in Threads |-> None]
  /\ built = [t \in Threads |-> 0]
  /\ cache = [k \in Keys |-> None] /\ cell = [c \in Cells |-> None]
  /\ running = [c \in Cells |-> None] /\ left = {} /\ created = 0
  /\ epoch = 0 /\ evictions = 0 /\ evicted = {} /\ sweep = NoSweep
  /\ site = None /\ defaults = 0 /\ changes = 0 /\ link \in Files
  /\ disk = [f \in Files |-> [build |-> 0, tick |-> 0, open |-> TRUE]]
  /\ memo = None /\ replaced = {} /\ repeated = FALSE

To(t, from, to) == pc[t] = from /\ pc' = [pc EXCEPT ![t] = to]

\* FileStamp::of the file that file_stamp finds, and what is in it.
View(f, d) == [stamp |-> <<f, d[f].tick>>, contents |-> <<f, d[f].build>>]
Now == View(link, disk)

-----------------------------------------------------------------------------
(* The generated launcher: probe the site, resolve on a miss, fill it.     *)

Begin(t, k) ==
  /\ To(t, "idle", "probe") /\ launches < MaxLaunches
  /\ launches' = launches + 1
  /\ want' = [want EXCEPT ![t] = k]
  /\ seen' = [seen EXCEPT ![t] = [defaults |-> defaults, old |-> {v.contents : v \in replaced}]]
  /\ UNCHANGED <<snap, slot, fn, built, slotVars, sweepVars, libVars, site>>

\* TileLibrarySnapshot::files_unchanged, and unchanged for a launch site: a
\* kernel that links no library is stored without its files.
FilesUnchanged(s) == s.stamp = Now.stamp
Unchanged(k, s) == s.generation = defaults /\ (k \in Linking => FilesUnchanged(s))

\* Mutant: the site is trusted whatever happened to the libraries.
SiteMatchesBlind(k) ==
  site # None /\ site.epoch = epoch /\ site.fn.kernel = k

\* LaunchSite::get.
SiteMatches(k) ==
  site # None /\ site.epoch = epoch /\ site.fn.kernel = k /\ Unchanged(k, site.snap)

ProbeHit(t) ==
  /\ To(t, "probe", "launch") /\ SiteMatches(want[t])
  /\ fn' = [fn EXCEPT ![t] = site.fn]
  /\ UNCHANGED <<launches, want, seen, snap, slot, built, slotVars, sweepVars, libVars, site>>

\* On a miss, _specialization_from_context takes the generation first ...
ProbeMiss(t) ==
  /\ To(t, "probe", "defaults") /\ ~SiteMatches(want[t])
  /\ snap' = [snap EXCEPT ![t].generation = defaults]
  /\ UNCHANGED <<launches, want, seen, slot, fn, built, slotVars, sweepVars, libVars, site>>

\* ... then the defaults and, in hash_file, the stamp of the file.
ReadDefaults(t) ==
  /\ To(t, "defaults", "look")
  /\ snap' = [snap EXCEPT ![t].defaults = defaults, ![t].stamp = Now.stamp]
  /\ UNCHANGED <<launches, want, seen, slot, fn, built, slotVars, sweepVars, libVars, site>>

\* HASHED answers for the stamp it was filled with ...
Hashed(s) == memo # None /\ memo.stamp = s

LookUp(t) ==
  /\ \/ /\ Hashed(snap[t].stamp) /\ To(t, "look", "slot")
        /\ snap' = [snap EXCEPT ![t].file = memo.file, ![t].digest = memo.digest]
     \/ ~Hashed(snap[t].stamp) /\ To(t, "look", "find") /\ UNCHANGED snap
  /\ UNCHANGED <<launches, want, seen, slot, fn, built, slotVars, sweepVars, libVars, site>>

\* ... or the path is followed, which may lead elsewhere by now ...
Canonicalize(t) ==
  /\ To(t, "find", "read")
  /\ snap' = [snap EXCEPT ![t].file = link]
  /\ UNCHANGED <<launches, want, seen, slot, fn, built, slotVars, sweepVars, libVars, site>>

\* ... the file is read ...
HashFile(t) ==
  /\ To(t, "read", "note")
  /\ snap' = [snap EXCEPT ![t].digest = <<snap[t].file, disk[snap[t].file].build>>]
  /\ UNCHANGED <<launches, want, seen, slot, fn, built, slotVars, sweepVars, libVars, site>>

\* The file cannot be found or read: the launch fails before it has a key.
HashFails(t) ==
  /\ pc[t] \in {"defaults", "find", "read"} /\ pc' = [pc EXCEPT ![t] = "idle"]
  /\ want' = [want EXCEPT ![t] = None] /\ snap' = [snap EXCEPT ![t] = NoSnapshot]
  /\ seen' = [seen EXCEPT ![t] = NothingSeen]
  /\ UNCHANGED <<launches, slot, fn, built, slotVars, sweepVars, libVars, site>>

\* FileStamp::settled holds: SETTLED has passed, so the tick of the stamp is
\* over.  Before that is looked at, nobody can tell.
Settled(s) ==
  disk' = IF disk[s[1]].tick = s[2] THEN [disk EXCEPT ![s[1]].open = FALSE] ELSE disk

\* ... and the hash is kept for the stamp, if that has settled.
Memoize(t) ==
  /\ To(t, "note", "slot")
  /\ \/ UNCHANGED <<memo, disk>>
     \/ /\ Settled(snap[t].stamp)
        /\ memo' = [stamp |-> snap[t].stamp, file |-> snap[t].file, digest |-> snap[t].digest]
  /\ UNCHANGED <<launches, want, seen, snap, slot, fn, built, slotVars, sweepVars,
                 defaults, link, replaced, repeated, changes, site>>

Key(t) == [kernel |-> want[t], defaults |-> snap[t].defaults, digest |-> snap[t].digest]

\* SiteResolution::new reads the epoch, LaunchSite::store replaces the entry.
NewResolution(t) ==
  /\ To(t, "fill", "store")
  /\ built' = [built EXCEPT ![t] = epoch]
  /\ UNCHANGED <<launches, want, seen, snap, slot, fn, slotVars, sweepVars, libVars, site>>

StoreSite(t) ==
  /\ To(t, "store", "launch")
  /\ site' = [epoch |-> built[t], snap |-> snap[t], fn |-> fn[t]]
  /\ UNCHANGED <<launches, want, seen, snap, slot, fn, built, slotVars, sweepVars, libVars>>

\* The launch is made, its function retained until it completes.
Launched(t) ==
  /\ To(t, "launch", "idle")
  /\ want' = [want EXCEPT ![t] = None] /\ fn' = [fn EXCEPT ![t] = None]
  /\ snap' = [snap EXCEPT ![t] = NoSnapshot] /\ built' = [built EXCEPT ![t] = 0]
  /\ seen' = [seen EXCEPT ![t] = NothingSeen]
  /\ UNCHANGED <<launches, slot, slotVars, sweepVars, libVars, site>>

-----------------------------------------------------------------------------
(* compile_for_launch_site.                                                *)

\* kernel_cache_slot.
GetSlot(t) ==
  /\ To(t, "slot", "init")
  /\ \/ /\ cache[Key(t)] # None
        /\ slot' = [slot EXCEPT ![t] = cache[Key(t)]]
        /\ UNCHANGED <<cache, created>>
     \/ /\ cache[Key(t)] = None /\ created < MaxCells
        /\ created' = created + 1
        /\ cache' = [cache EXCEPT ![Key(t)] = created + 1]
        /\ slot' = [slot EXCEPT ![t] = created + 1]
  /\ UNCHANGED <<launches, want, seen, snap, fn, built, cell, running, left, sweepVars, libVars, site>>

\* get_or_try_init: one thread at a time runs the closure; a waiter gets the
\* cell when the closure failed.
StartCompile(t) ==
  /\ To(t, "init", "compile") /\ cell[slot[t]] = None /\ running[slot[t]] = None
  /\ running' = [running EXCEPT ![slot[t]] = t] /\ left' = left \ {slot[t]}
  /\ UNCHANGED <<launches, want, seen, snap, slot, fn, built, cache, cell, created,
                 sweepVars, libVars, site>>

\* compile_and_load_kernel, which links the file the snapshot names.
Link(t) ==
  /\ To(t, "compile", "linked")
  /\ fn' = [fn EXCEPT ![t] = [kernel |-> want[t], defaults |-> snap[t].defaults,
                              linked |-> <<snap[t].file, disk[snap[t].file].build>>]]
  /\ UNCHANGED <<launches, want, seen, snap, slot, built, slotVars, sweepVars, libVars, site>>

\* Mutant: whatever was linked is cached.
UsableAlways(t) == TRUE

\* What was linked is what was hashed.
Usable(t) == want[t] \in Linking => FilesUnchanged(snap[t])

CompileOk(t) ==
  /\ To(t, "linked", "init") /\ Usable(t)
  /\ cell' = [cell EXCEPT ![slot[t]] = fn[t]]
  /\ running' = [running EXCEPT ![slot[t]] = None]
  /\ fn' = [fn EXCEPT ![t] = None]
  /\ UNCHANGED <<launches, want, seen, snap, slot, built, cache, left, created, sweepVars, libVars, site>>

\* The compile failed, or a library changed while it ran.
CompileFails(t) ==
  /\ To(t, "compile", "failed") \/ (To(t, "linked", "failed") /\ ~Usable(t))
  /\ running' = [running EXCEPT ![slot[t]] = None]
  /\ fn' = [fn EXCEPT ![t] = None]
  /\ UNCHANGED <<launches, want, seen, snap, slot, built, cache, cell, left, created, sweepVars, libVars, site>>

\* The closure panics, in the compiler that unwraps: the cell is given up and
\* the slot let go of by unwinding, and remove_if is never reached.
CompilePanics(t) ==
  /\ To(t, "compile", "idle")
  /\ running' = [running EXCEPT ![slot[t]] = None] /\ left' = left \cup {slot[t]}
  /\ slot' = [slot EXCEPT ![t] = None] /\ want' = [want EXCEPT ![t] = None]
  /\ snap' = [snap EXCEPT ![t] = NoSnapshot] /\ seen' = [seen EXCEPT ![t] = NothingSeen]
  /\ UNCHANGED <<launches, fn, built, cache, cell, created, sweepVars, libVars, site>>

Resolve(t) ==
  /\ To(t, "init", "fill") /\ cell[slot[t]] # None
  /\ fn' = [fn EXCEPT ![t] = cell[slot[t]]]
  /\ slot' = [slot EXCEPT ![t] = None]
  /\ UNCHANGED <<launches, want, seen, snap, built, slotVars, sweepVars, libVars, site>>

\* Mutant: the slot is looked at while this thread still holds it.
DropSlotLate(t) ==
  /\ To(t, "failed", "remove")
  /\ UNCHANGED <<launches, want, seen, snap, slot, fn, built, slotVars, sweepVars, libVars, site>>

DropSlot(t) ==
  /\ To(t, "failed", "remove")
  /\ slot' = [slot EXCEPT ![t] = None]
  /\ UNCHANGED <<launches, want, seen, snap, fn, built, slotVars, sweepVars, libVars, site>>

\* Mutant: every empty slot is removed.
AbandonedEmpty(c) == c # None /\ cell[c] = None

\* Still empty, and strong_count = 1: the map's own reference.
Abandoned(c) == c # None /\ cell[c] = None /\ \A t \in Threads : slot[t] # c

RemoveSlot(t) ==
  /\ To(t, "remove", "idle")
  /\ cache' = IF Abandoned(cache[Key(t)]) THEN [cache EXCEPT ![Key(t)] = None] ELSE cache
  /\ want' = [want EXCEPT ![t] = None] /\ snap' = [snap EXCEPT ![t] = NoSnapshot]
  /\ slot' = [slot EXCEPT ![t] = None]
  /\ seen' = [seen EXCEPT ![t] = NothingSeen]
  /\ UNCHANGED <<launches, fn, built, cell, running, left, created, sweepVars, libVars, site>>

-----------------------------------------------------------------------------
(* Eviction: the entries go first, the epoch moves afterwards.             *)

Present == {k \in Keys : cache[k] # None}

\* evict_kernel: the one entry.
EvictKernel(k) ==
  /\ ~sweep.on /\ evictions < MaxEvictions /\ k \in Present
  /\ cache' = [cache EXCEPT ![k] = None]
  /\ evicted' = evicted \cup {cache[k]}
  /\ evictions' = evictions + 1
  /\ sweep' = [on |-> TRUE, todo |-> {}, removed |-> TRUE]
  /\ UNCHANGED <<threadVars, cell, running, left, created, epoch, libVars, site>>

\* retain_kernels (clear_kernel_cache keeps none): a snapshot of the keys ...
StartRetain ==
  /\ ~sweep.on /\ evictions < MaxEvictions /\ Present # {}
  /\ evictions' = evictions + 1
  /\ sweep' = [on |-> TRUE, todo |-> Present, removed |-> FALSE]
  /\ UNCHANGED <<threadVars, slotVars, epoch, evicted, libVars, site>>

\* ... then each is kept, or removed if it is still there ...
RetainKey(k) ==
  /\ k \in sweep.todo
  /\ \/ sweep' = [sweep EXCEPT !.todo = @ \ {k}] /\ UNCHANGED <<cache, evicted>>
     \/ /\ cache[k] # None
        /\ cache' = [cache EXCEPT ![k] = None]
        /\ evicted' = evicted \cup {cache[k]}
        /\ sweep' = [sweep EXCEPT !.todo = @ \ {k}, !.removed = TRUE]
  /\ UNCHANGED <<threadVars, cell, running, left, created, evictions, epoch, libVars, site>>

\* ... and the epoch is bumped if anything went.
BumpEpoch ==
  /\ sweep.on /\ sweep.todo = {}
  /\ epoch' = IF sweep.removed THEN epoch + 1 ELSE epoch
  /\ sweep' = NoSweep
  /\ UNCHANGED <<threadVars, slotVars, evictions, evicted, libVars, site>>

-----------------------------------------------------------------------------
(* set_default_tile_libraries, and what happens to the library.            *)

Change == changes < MaxChanges /\ changes' = changes + 1

SetDefaults ==
  /\ Change /\ defaults' = defaults + 1
  /\ UNCHANGED <<threadVars, slotVars, sweepVars, fileVars, memo, site>>

\* The path leads to f and the files are d from now on.
Shows(f, d) ==
  /\ Change /\ link' = f /\ disk' = d
  /\ \/ View(f, d) = Now /\ UNCHANGED <<replaced, repeated>>
     \/ /\ View(f, d) # Now /\ replaced' = replaced \cup {Now}
        /\ repeated' = (repeated \/ \E v \in replaced' : v.stamp = View(f, d).stamp)
  /\ UNCHANGED <<threadVars, slotVars, sweepVars, defaults, memo, site>>

\* A file is built again, and has new times ...
Rebuild(f) ==
  LET n == disk[f].build + 1
  IN Shows(link, [disk EXCEPT ![f] = [build |-> n, tick |-> n, open |-> TRUE]])

\* ... or the same as before, within the tick of its last change.
Rewrite(f) ==
  disk[f].open /\ Shows(link, [disk EXCEPT ![f].build = @ + 1])

\* The path is made to lead to another file, perhaps to an earlier one.
Relink(f) == f # link /\ Shows(f, disk)

LaunchStep(t) ==
  \/ ProbeHit(t) \/ ProbeMiss(t) \/ ReadDefaults(t)
  \/ LookUp(t) \/ Canonicalize(t) \/ HashFile(t) \/ HashFails(t) \/ Memoize(t)
  \/ GetSlot(t) \/ StartCompile(t) \/ Link(t) \/ CompileOk(t) \/ CompileFails(t)
  \/ CompilePanics(t) \/ Resolve(t) \/ DropSlot(t) \/ RemoveSlot(t)
  \/ NewResolution(t) \/ StoreSite(t) \/ Launched(t)

Next ==
  \/ \E t \in Threads : LaunchStep(t) \/ \E k \in Kernels : Begin(t, k)
  \/ \E k \in Keys : EvictKernel(k) \/ RetainKey(k)
  \/ StartRetain \/ BumpEpoch \/ SetDefaults
  \/ \E f \in Files : Rebuild(f) \/ Rewrite(f) \/ Relink(f)

Spec == Init /\ [][Next]_vars

-----------------------------------------------------------------------------
(* Properties.                                                             *)

\* A failed compile never takes a slot away from a thread that compiles in
\* it or has compiled in it: only an eviction call does.  So a key is compiled
\* by two threads at once, or twice, only if it was evicted in between.
NoOrphanedCompile ==
  \A c \in 1 .. created :
    (running[c] # None \/ cell[c] # None) =>
      c \in evicted \/ \E k \in Keys : cache[k] = c

\* An empty slot in the map has a thread that will fill or remove it, unless
\* its last compile panicked: specializations that fail with an error leave
\* nothing behind, and one that panicked only until its next failure.
NoLeakedSlot ==
  \A k \in Present : cell[cache[k]] = None /\ cache[k] \notin left =>
    \E t \in Threads : slot[t] = cache[k] \/ (pc[t] = "remove" /\ Key(t) = k)

\* What the cache holds under a key was linked against the contents the key
\* names, although the file may change before, while and after it links, as
\* long as its path never shows a stamp again that it had shown before.
KeyDescribesKernel ==
  ~repeated => \A k \in Present : cell[cache[k]] # None /\ k.kernel \in Linking =>
    cell[cache[k]].linked = k.digest

\* A launch never runs a kernel linked against a library, or a set of default
\* libraries, that had been replaced when the launch began; for the library,
\* as long as its path never shows a stamp again.
FreshLibraries ==
  \A t \in Threads : pc[t] = "launch" =>
    /\ fn[t].defaults >= seen[t].defaults
    /\ want[t] \in Linking /\ ~repeated => fn[t].linked \notin seen[t].old
=============================================================================
