------------------------------ MODULE JitStore ------------------------------
(***************************************************************************)
(* cuTile's on-disk cubin cache, shared by processes: FileSystemJitStore   *)
(* and the entry codec (cutile-rs/cutile-compiler/src/jit_cache.rs), the   *)
(* lookup around tileiras (cuda_tile_runtime_utils.rs) and the load with   *)
(* its retry (cutile/src/tile_kernel.rs).  A process serves one in-memory  *)
(* miss at a time.  Any store operation may fail, processes may crash,     *)
(* and a power loss may tear what was written.  Of modification times only *)
(* the order is kept, as `lru`; an eviction scan sees one state of the     *)
(* directory.                                                              *)
(***************************************************************************)
EXTENDS Naturals, FiniteSets, SequencesExt

CONSTANTS
  Procs, Kernels,
  Bins,           \* builds of tileiras, told apart by their fingerprints
  None, Failure,
  Size,           \* size of the entry of a kernel
  Low, High,      \* watermarks, as sizes
  MaxRequests, MaxIoErrors, MaxToolFaults, MaxCrashes, MaxSwaps

ASSUME StoreAssumption ==
  /\ Size \in [Kernels -> Nat] /\ Low \in Nat /\ High \in Nat /\ Low <= High
  /\ None \notin Procs \cup Kernels \cup Bins \cup {Failure}
  /\ {MaxRequests, MaxIoErrors, MaxToolFaults, MaxCrashes, MaxSwaps} \subseteq Nat

VARIABLES
  proc,      \* the request of each process
  answer,    \* how its last request ended
  fast,      \* fingerprint_of: the value of the last second
  bin,       \* the tileiras binary a process runs
  entries,   \* the files <key>.cubin
  lru,       \* their keys, oldest modification first
  temps,     \* the temp files, by name
  locker,    \* holder of .eviction.lock
  swapped,   \* processes whose binary was replaced
  requests, ioErrors, toolFaults, crashes, powerLosses,
  orphans    \* temp names of puts that were cut short, or whose removal failed too

diskVars == <<entries, lru, temps, locker>>
history == <<crashes, powerLosses, orphans>>
counters == <<requests, ioErrors, toolFaults, history, swapped>>
vars == <<proc, answer, fast, bin, diskVars, counters>>

Keys == Kernels \X Bins
Cubins == [kernel : Kernels, by : Bins]
Files == [cubin : Cubins, whole : BOOLEAN]

ASSUME FilesAssumption == None \notin Files

Names == 1 .. MaxRequests  \* a request makes at most one put
Steps == {"idle", "get", "touch", "delete", "compile", "put", "writing",
          "rename", "trigger", "evict", "load", "reject", "recompile"}
Scans == [keys : Seq(Keys), total : Nat, failed : BOOLEAN]

NoScan == [keys |-> <<>>, total |-> 0, failed |-> FALSE]

\* A process between requests: `got` is the file read or the cubin at hand.
Idle == [pc |-> "idle", want |-> None, fp |-> None, name |-> None,
         got |-> None, disk |-> FALSE, scan |-> NoScan]

TypeOK ==
  /\ proc \in [Procs -> [pc : Steps, want : Kernels \cup {None}, fp : Bins \cup {None},
                         name : Names \cup {None}, got : Files \cup {None},
                         disk : BOOLEAN, scan : Scans]]
  /\ answer \in [Procs -> Cubins \cup {None, Failure}]
  /\ fast \in [Procs -> Bins \cup {None}] /\ bin \in [Procs -> Bins]
  /\ entries \in [Keys -> Files \cup {None}] /\ lru \in Seq(Keys)
  /\ temps \in [Names -> [key : Keys, file : Files] \cup {None}]
  /\ locker \in Procs \cup {None}
  /\ requests \in 0 .. MaxRequests /\ ioErrors \in 0 .. MaxIoErrors
  /\ toolFaults \in 0 .. MaxToolFaults
  /\ crashes \in 0 .. MaxCrashes /\ powerLosses \in 0 .. MaxCrashes
  /\ orphans \subseteq Names /\ swapped \subseteq Procs

Init ==
  /\ proc = [p \in Procs |-> Idle] /\ answer = [p \in Procs |-> None]
  /\ fast = [p \in Procs |-> None] /\ bin \in [Procs -> Bins]
  /\ entries = [k \in Keys |-> None] /\ lru = <<>>
  /\ temps = [n \in Names |-> None] /\ locker = None
  /\ requests = 0 /\ ioErrors = 0 /\ toolFaults = 0
  /\ crashes = 0 /\ powerLosses = 0 /\ orphans = {} /\ swapped = {}

-----------------------------------------------------------------------------
(* Helpers.                                                                *)

At(p, step) == proc[p].pc = step
Goto(p, step) == proc' = [proc EXCEPT ![p].pc = step]

IoOk == UNCHANGED ioErrors
IoFails == ioErrors < MaxIoErrors /\ ioErrors' = ioErrors + 1

\* l2_key, over the bytecode and the fingerprint of tileiras.
Key(p) == <<proc[p].want, proc[p].fp>>

Without(k) == RemoveFirst(lru, k)
SizeOf(k) == Size[k[1]]
Total == MapThenSumSet(SizeOf, {k \in Keys : entries[k] # None})

\* remove_file of an entry; a missing one is not an error.
RemoveEntry(k) ==
  /\ entries' = [entries EXCEPT ![k] = None]
  /\ lru' = Without(k)
  /\ UNCHANGED <<temps, locker>>

-----------------------------------------------------------------------------
(* compile_bytecode_cached: the key, and the lookup.                       *)

\* fingerprint_of: the value of the last second, or the binary of now.
Fingerprint(p) == IF fast[p] # None THEN fast[p] ELSE bin[p]

\* A miss of the in-memory cache: the request and its key.
Request(p, k) ==
  /\ At(p, "idle") /\ requests < MaxRequests
  /\ requests' = requests + 1
  /\ proc' = [proc EXCEPT ![p] = [Idle EXCEPT !.pc = "get", !.want = k,
                            !.fp = Fingerprint(p), !.name = requests + 1]]
  /\ fast' = [fast EXCEPT ![p] = Fingerprint(p)]
  /\ answer' = [answer EXCEPT ![p] = None]
  /\ UNCHANGED <<bin, diskVars, ioErrors, toolFaults, history, swapped>>

\* get: the open file is read whole even if it is unlinked or replaced.
Get(p) ==
  /\ At(p, "get") /\ IoOk
  /\ IF entries[Key(p)] = None THEN Goto(p, "compile")
     ELSE proc' = [proc EXCEPT ![p].pc = "touch", ![p].got = entries[Key(p)]]
  /\ UNCHANGED <<answer, fast, bin, diskVars, requests, toolFaults, history, swapped>>

GetFails(p) ==
  /\ At(p, "get") /\ IoFails /\ Goto(p, "compile")
  /\ UNCHANGED <<answer, fast, bin, diskVars, requests, toolFaults, history, swapped>>

\* decode_entry: complete, and of this request.
Valid(p) == proc[p].got.whole /\ proc[p].got.cubin.kernel = proc[p].want

\* The mtime of whatever file has the name by now is set, best effort; then
\* the bytes read are decoded: a hit, or an entry to be deleted.
Touch(p) ==
  /\ At(p, "touch")
  /\ \/ IoFails /\ UNCHANGED lru
     \/ IoOk /\ lru' = IF entries[Key(p)] = None THEN lru ELSE Append(Without(Key(p)), Key(p))
  /\ IF Valid(p) THEN proc' = [proc EXCEPT ![p].pc = "load", ![p].disk = TRUE]
                 ELSE Goto(p, "delete")
  /\ UNCHANGED <<answer, fast, bin, entries, temps, locker, requests, toolFaults, history, swapped>>

\* The invalid entry is deleted by name, or is not.
Delete(p, from, to) ==
  /\ At(p, from) /\ Goto(p, to)
  /\ \/ IoOk /\ RemoveEntry(Key(p))
     \/ IoFails /\ UNCHANGED diskVars
  /\ UNCHANGED <<answer, fast, bin, requests, toolFaults, history, swapped>>

\* run_tileiras, with the binary that is there now.
Compile(p, from, to) ==
  /\ At(p, from)
  /\ proc' = [proc EXCEPT ![p].pc = to, ![p].disk = FALSE,
                ![p].got = [cubin |-> [kernel |-> proc[p].want, by |-> bin[p]], whole |-> TRUE]]
  /\ UNCHANGED <<answer, fast, bin, diskVars, counters>>

Ends(p, how) ==
  /\ proc' = [proc EXCEPT ![p] = Idle]
  /\ answer' = [answer EXCEPT ![p] = how]

CompileFails(p) ==
  /\ At(p, "compile") \/ At(p, "recompile")
  /\ toolFaults < MaxToolFaults /\ toolFaults' = toolFaults + 1
  /\ Ends(p, Failure)
  /\ UNCHANGED <<fast, bin, diskVars, requests, ioErrors, history, swapped>>

-----------------------------------------------------------------------------
(* put.                                                                    *)

\* A tile library changed while it was linked: nothing is stored.
NotStored(p) ==
  /\ At(p, "put") /\ Goto(p, "load")
  /\ UNCHANGED <<answer, fast, bin, diskVars, counters>>

\* Mutant: any entry is stored.
StorableAny(k) == TRUE

\* An entry above the low watermark could never be retained.
Storable(k) == SizeOf(k) <= Low

Declined(p) ==
  /\ At(p, "put") /\ ~Storable(Key(p)) /\ Goto(p, "load")
  /\ UNCHANGED <<answer, fast, bin, diskVars, counters>>

\* Mutant: the temp file is named after the key alone.
TempNameOfKey(p) == 1

\* pid, counter and uuid: no two puts share a name.
TempName(p) == proc[p].name

\* The shard directory, and an empty temp file (truncated if it exists) ...
WriteStarts(p) ==
  /\ At(p, "put") /\ Storable(Key(p))
  /\ \/ /\ IoOk /\ Goto(p, "writing")
        /\ temps' = [temps EXCEPT ![TempName(p)] =
                       [key |-> Key(p), file |-> [proc[p].got EXCEPT !.whole = FALSE]]]
     \/ IoFails /\ Goto(p, "load") /\ UNCHANGED temps
  /\ UNCHANGED <<answer, fast, bin, entries, lru, locker, requests, toolFaults, history, swapped>>

\* ... that is filled, if it is still there.
WriteEnds(p) ==
  /\ At(p, "writing") /\ Goto(p, "rename")
  /\ temps' = IF temps[TempName(p)] = None THEN temps
              ELSE [temps EXCEPT ![TempName(p)].file = proc[p].got]
  /\ UNCHANGED <<answer, fast, bin, entries, lru, locker, counters>>

Putting(p) == proc[p].pc \in {"writing", "rename"}

\* Mutant: a failed write leaves its temp file behind.
PutFailsLeaving(p) ==
  /\ Putting(p)
  /\ IoFails /\ Goto(p, "load")
  /\ UNCHANGED <<answer, fast, bin, diskVars, requests, toolFaults, history, swapped>>

\* The write or the rename fails: the temp file is removed, if that works.
PutFails(p) ==
  /\ Putting(p) /\ Goto(p, "load")
  /\ \/ /\ IoFails /\ UNCHANGED orphans
        /\ temps' = [temps EXCEPT ![TempName(p)] = None]
     \/ /\ ioErrors + 2 <= MaxIoErrors /\ ioErrors' = ioErrors + 2
        /\ orphans' = orphans \cup {TempName(p)} /\ UNCHANGED temps
  /\ UNCHANGED <<answer, fast, bin, entries, lru, locker, requests, toolFaults,
                 crashes, powerLosses, swapped>>

\* The rename publishes the entry, unless the temp file is gone.  The file
\* keeps the modification time of its write, so others may be newer by now.
Rename(p) ==
  /\ At(p, "rename")
  /\ IF temps[TempName(p)] = None THEN Goto(p, "load") /\ UNCHANGED <<entries, lru, temps>>
     ELSE /\ Goto(p, "trigger")
          /\ entries' = [entries EXCEPT ![Key(p)] = temps[TempName(p)].file]
          /\ \E i \in 1 .. Len(Without(Key(p))) + 1 :
               lru' = InsertAt(Without(Key(p)), i, Key(p))
          /\ temps' = [temps EXCEPT ![TempName(p)] = None]
  /\ UNCHANGED <<answer, fast, bin, locker, counters>>

\* The coin flip: nothing, or a scan if nobody else is collecting.  It reaps
\* temp files older than an hour, which those of a crashed or suspended writer
\* may be, and finds the entries by age.
Trigger(p) ==
  /\ At(p, "trigger")
  /\ \/ Goto(p, "load") /\ UNCHANGED <<locker, temps>>
     \/ /\ locker = None
        /\ \E old \in SUBSET Names :
             temps' = [n \in Names |-> IF n \in old THEN None ELSE temps[n]]
        /\ IF Total <= High THEN Goto(p, "load") /\ UNCHANGED locker
           ELSE /\ locker' = p
                /\ proc' = [proc EXCEPT ![p].pc = "evict",
                      ![p].scan = [keys |-> lru, total |-> Total, failed |-> FALSE]]
  /\ UNCHANGED <<answer, fast, bin, entries, lru, counters>>

-----------------------------------------------------------------------------
(* evict.                                                                  *)

Enough(s) == s.keys = <<>> \/ s.total <= Low

EvictEnds(p) ==
  /\ At(p, "evict") /\ Enough(proc[p].scan)
  /\ proc' = [proc EXCEPT ![p].pc = "load", ![p].scan = NoScan]
  /\ locker' = None
  /\ UNCHANGED <<answer, fast, bin, entries, lru, temps, counters>>

\* The next oldest: removed, or skipped because it is gone or in use.
EvictNext(p) ==
  /\ At(p, "evict") /\ ~Enough(proc[p].scan)
  /\ LET k == Head(proc[p].scan.keys)
         take == [proc[p].scan EXCEPT !.keys = Tail(@), !.total = @ - SizeOf(k)]
         skip == [proc[p].scan EXCEPT !.keys = Tail(@), !.failed = TRUE]
     IN \/ /\ entries[k] # None /\ RemoveEntry(k) /\ IoOk
           /\ proc' = [proc EXCEPT ![p].scan = take]
        \/ /\ entries[k] = None /\ IoOk /\ UNCHANGED diskVars
           /\ proc' = [proc EXCEPT ![p].scan = skip]
        \/ /\ IoFails /\ UNCHANGED diskVars
           /\ proc' = [proc EXCEPT ![p].scan = skip]
  /\ UNCHANGED <<answer, fast, bin, requests, toolFaults, history, swapped>>

-----------------------------------------------------------------------------
(* compile_and_load_kernel: the driver takes the cubin, or rejects it.     *)

LoadOk(p) ==
  /\ At(p, "load") /\ Ends(p, proc[p].got.cubin)
  /\ UNCHANGED <<fast, bin, diskVars, counters>>

\* Mutant: a rejected cubin is an error wherever it came from.
RejectDiskFails(p) ==
  /\ At(p, "load") /\ proc[p].disk /\ Ends(p, Failure)
  /\ UNCHANGED <<fast, bin, diskVars, counters>>

\* One that came from the disk is deleted and compiled again, once.
RejectDisk(p) ==
  /\ At(p, "load") /\ proc[p].disk /\ Goto(p, "reject")
  /\ UNCHANGED <<answer, fast, bin, diskVars, counters>>

RejectFresh(p) ==
  /\ At(p, "load") /\ ~proc[p].disk
  /\ toolFaults < MaxToolFaults /\ toolFaults' = toolFaults + 1
  /\ Ends(p, Failure)
  /\ UNCHANGED <<fast, bin, diskVars, requests, ioErrors, history, swapped>>

-----------------------------------------------------------------------------
(* Everything else that happens to the store.                              *)

\* clear: a shard with all its files.
ClearShard(k) ==
  /\ entries[k] # None \/ \E n \in Names : temps[n] # None /\ temps[n].key = k
  /\ entries' = [entries EXCEPT ![k] = None]
  /\ lru' = Without(k)
  /\ temps' = [n \in Names |-> IF temps[n] # None /\ temps[n].key = k THEN None ELSE temps[n]]
  /\ UNCHANGED <<proc, answer, fast, bin, locker, counters>>

Crash(p) ==
  /\ crashes + powerLosses < MaxCrashes /\ crashes' = crashes + 1 /\ ~At(p, "idle")
  /\ orphans' = IF Putting(p) THEN orphans \cup {TempName(p)} ELSE orphans
  /\ Ends(p, None)
  /\ fast' = [fast EXCEPT ![p] = None]
  /\ locker' = IF locker = p THEN None ELSE locker
  /\ UNCHANGED <<bin, entries, lru, temps, requests, ioErrors, toolFaults, powerLosses, swapped>>

\* Nothing is synced: after a power loss any entry may be torn.
PowerLoss ==
  /\ crashes + powerLosses < MaxCrashes /\ powerLosses' = powerLosses + 1
  /\ orphans' = orphans \cup {TempName(p) : p \in {q \in Procs : Putting(q)}}
  /\ proc' = [p \in Procs |-> Idle] /\ answer' = [p \in Procs |-> None]
  /\ fast' = [p \in Procs |-> None] /\ locker' = None
  /\ \E torn \in SUBSET Keys :
       entries' = [k \in Keys |-> IF entries[k] # None /\ k \in torn
                                  THEN [entries[k] EXCEPT !.whole = FALSE] ELSE entries[k]]
  /\ UNCHANGED <<bin, lru, temps, requests, ioErrors, toolFaults, crashes, swapped>>

\* The binary behind a process's path is replaced in place.
Swap(p) ==
  /\ p \notin swapped /\ Cardinality(swapped) < MaxSwaps /\ swapped' = swapped \cup {p}
  /\ \E b \in Bins \ {bin[p]} : bin' = [bin EXCEPT ![p] = b]
  /\ UNCHANGED <<proc, answer, fast, diskVars, requests, ioErrors, toolFaults, history>>

\* REVALIDATE_EVERY passes; without a swap nobody could tell.
SecondPasses(p) ==
  /\ fast[p] \notin {None, bin[p]}
  /\ fast' = [fast EXCEPT ![p] = None]
  /\ UNCHANGED <<proc, answer, bin, diskVars, counters>>

ProcStep(p) ==
  \/ Get(p) \/ GetFails(p) \/ Touch(p)
  \/ Delete(p, "delete", "compile") \/ Delete(p, "reject", "recompile")
  \/ Compile(p, "compile", "put") \/ Compile(p, "recompile", "load") \/ CompileFails(p)
  \/ NotStored(p) \/ Declined(p) \/ WriteStarts(p) \/ WriteEnds(p) \/ PutFails(p)
  \/ Rename(p) \/ Trigger(p) \/ EvictEnds(p) \/ EvictNext(p)
  \/ LoadOk(p) \/ RejectDisk(p) \/ RejectFresh(p)

Next ==
  \/ \E p \in Procs : ProcStep(p) \/ Crash(p)
  \/ \E p \in Procs, k \in Kernels : Request(p, k)
  \/ \E k \in Keys : ClearShard(k)
  \/ PowerLoss

Spec == Init /\ [][Next]_vars /\ \A p \in Procs : WF_vars(ProcStep(p))

\* The same, where binaries are replaced while processes run.
SwapNext == Next \/ \E p \in Procs : Swap(p) \/ SecondPasses(p)
SwapSpec == Init /\ [][SwapNext]_vars

-----------------------------------------------------------------------------
(* Properties.                                                             *)

Direct == INSTANCE DirectJit WITH
  request <- [p \in Procs |-> proc[p].want]

\* The store is transparent: whatever it and the other processes do, a request
\* is answered as without it, with a cubin of its kernel built by the process's
\* own compiler, and fails only when the compiler fails or the driver rejects
\* what was just compiled ("must never turn a working launch into a failing
\* one").
ImplementsDirect == Direct!Spec

\* A reader sees one complete value: an entry under its final name is torn
\* only by a power loss, although puts of one key race, processes die between
\* the write and the rename, and files vanish.
PublishedComplete ==
  \A k \in Keys : entries[k] # None /\ ~entries[k].whole => powerLosses > 0

\* A temp file belongs to a put in progress, to one that a crash or a power
\* loss cut short, or to a failed one that could not remove it either.
NoStrayTemp ==
  \A n \in Names : temps[n] # None =>
    n \in orphans \/ \E p \in Procs : TempName(p) = n /\ Putting(p)

\* Eviction stops in time: unless removals failed on the way, the entry that
\* was the newest at the scan is not reached.
NewestSurvives ==
  \A p \in Procs : At(p, "evict") /\ ~proc[p].scan.failed => proc[p].scan.keys # <<>>

\* A process whose binary never changed is never handed another binary's
\* cubin ("the content-addressed key ... is correct by construction").
ServedByOwnBinary ==
  \A p \in Procs \ swapped : answer[p] \in Cubins => answer[p].by = bin[p]
=============================================================================
