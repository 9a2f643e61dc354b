------------------------- MODULE KernelCache_proofs -------------------------
(***************************************************************************)
(* Proofs about KernelCache for every set of threads, specializations and  *)
(* files.  The invariant has two halves: who holds and who may remove a    *)
(* slot, and what a snapshot, the memo of hashes, a slot, a kernel and the *)
(* launch site say about the libraries.  While no stamp has come back, one *)
(* that was recorded and is the library's now was its stamp ever since.    *)
(***************************************************************************)
EXTENDS KernelCache, TLAPS

Holding == {"init", "compile", "linked", "failed"}

\* Where a snapshot has a digest, a file, a stamp.
Keyed == {"note", "slot", "init", "compile", "linked", "failed", "remove", "fill", "store"}
Found == Keyed \cup {"read"}
Stamped == Found \cup {"look", "find"}

\* A thread holds a slot exactly inside compile_for_launch_site, and works for
\* a specialization from the beginning of its launch to the end.
ThreadInv ==
  \A t \in Threads :
    /\ pc[t] \in Holding <=> slot[t] # None
    /\ pc[t] # "idle" => want[t] \in Kernels
    /\ pc[t] \in {"linked", "fill", "store", "launch"} => fn[t] \in Compiled
    /\ pc[t] \in Stamped => snap[t].stamp \in Stamps
    /\ pc[t] \in Found => snap[t].file \in Files
    /\ pc[t] \in Keyed => snap[t].digest \in Contents

\* A slot is in the map under one key, or was evicted for good; a compiled one
\* is never lost otherwise.
MapInv ==
  /\ \A k \in Keys : cache[k] # None => cache[k] \in (1 .. created) \ evicted
  /\ \A k, j \in Keys : cache[k] # None /\ cache[k] = cache[j] => k = j
  /\ \A c \in Cells : c > created => cell[c] = None /\ running[c] = None
  /\ \A c \in Cells : cell[c] # None => c \in evicted \/ \E k \in Keys : cache[k] = c

\* A thread holds the slot of its own key, unless that was evicted; threads
\* that share a slot agree on the key.
HoldInv ==
  /\ \A t \in Threads : slot[t] # None =>
       slot[t] \in 1 .. created /\ (slot[t] \in evicted \/ cache[Key(t)] = slot[t])
  /\ \A t, u \in Threads : slot[t] # None /\ slot[t] = slot[u] => Key(t) = Key(u)

\* A cell is being initialized by the thread that compiles for it.
RunInv ==
  /\ \A c \in Cells : running[c] # None =>
       slot[running[c]] = c /\ pc[running[c]] \in {"compile", "linked"}
  /\ \A t \in Threads : pc[t] \in {"compile", "linked"} => running[slot[t]] = t

SlotInv == ThreadInv /\ MapInv /\ HoldInv /\ RunInv /\ NoLeakedSlot

Describes(f, k) ==
  /\ f.kernel = k.kernel /\ f.defaults = k.defaults
  /\ k.kernel \in Linking /\ ~repeated => f.linked = k.digest

\* What a slot, and a thread that resolved one, has is what the key says.
CellInv ==
  /\ \A k \in Keys : cache[k] # None /\ cell[cache[k]] # None => Describes(cell[cache[k]], k)
  /\ \A t \in Threads : slot[t] # None /\ cell[slot[t]] # None =>
       Describes(cell[slot[t]], Key(t))
  /\ \A t \in Threads : pc[t] \in {"fill", "store"} => Describes(fn[t], Key(t))

Old == {v.contents : v \in replaced}

\* The order in which a launch looks at the default libraries.
SnapOK(t) ==
  /\ pc[t] # "idle" => seen[t].defaults <= defaults
  /\ pc[t] \notin {"idle", "probe", "launch"} =>
       seen[t].defaults <= snap[t].generation /\ snap[t].generation <= defaults
  /\ pc[t] \in Stamped =>
       snap[t].generation <= snap[t].defaults /\ snap[t].defaults <= defaults
  /\ pc[t] = "linked" => fn[t].kernel = want[t] /\ fn[t].defaults = snap[t].defaults
  /\ seen[t].old \subseteq Old

\* What a launch runs is no older than the defaults when it began.
FreshOK(t) == pc[t] = "launch" => fn[t].defaults >= seen[t].defaults

SnapInv == \A t \in Threads : SnapOK(t) /\ FreshOK(t)

\* The site's kernel is no older than the generation it is checked against.
SiteInv == site # None => site.snap.generation <= site.fn.defaults

\* Builds of a file only go up, and one build never has two stamps.
HistoryInv ==
  \A v \in replaced : \E f \in Files, b, n \in Versions :
    /\ v.contents = <<f, b>> /\ v.stamp = <<f, n>>
    /\ b <= disk[f].build /\ (b = disk[f].build => n = disk[f].tick)

\* A stamp that the library has or had.
Shown(s) == s = Now.stamp \/ \E v \in replaced : v.stamp = s

\* What a thread recorded under the library's present stamp is still so.
TrueOK(t) ==
  /\ pc[t] \in Stamped => Shown(snap[t].stamp)
  /\ pc[t] \in Found /\ snap[t].stamp = Now.stamp => snap[t].file = link
  /\ pc[t] \in Keyed /\ snap[t].stamp = Now.stamp => snap[t].digest = Now.contents
  /\ pc[t] = "linked" /\ snap[t].stamp = Now.stamp => fn[t].linked = Now.contents

MemoTrue ==
  memo # None => /\ Shown(memo.stamp)
                 /\ memo.stamp = Now.stamp => memo.file = link /\ memo.digest = Now.contents

SiteTrue ==
  site # None =>
    /\ Shown(site.snap.stamp)
    /\ site.fn.kernel \in Linking /\ site.snap.stamp = Now.stamp => site.fn.linked = Now.contents

\* The contents a thread has read, or is about to.
Got(u) == IF pc[u] = "read" THEN <<snap[u].file, disk[snap[u].file].build>> ELSE snap[u].digest

\* Nobody who saw the stamp that t saw got contents replaced before t began.
NewOK(t, u) ==
  pc[t] \in Stamped /\ pc[u] \in Found /\ snap[u].stamp = snap[t].stamp => Got(u) \notin seen[t].old

MemoNew(t) ==
  pc[t] \in Stamped /\ memo # None /\ memo.stamp = snap[t].stamp => memo.digest \notin seen[t].old

\* What a launch runs had not been replaced when it began.
LaunchNew(t) == pc[t] = "launch" /\ want[t] \in Linking => fn[t].linked \notin seen[t].old

ShownInv ==
  /\ \A v \in replaced : v.stamp # Now.stamp
  /\ \A t \in Threads : TrueOK(t) /\ MemoNew(t) /\ LaunchNew(t)
  /\ \A t, u \in Threads : NewOK(t, u)
  /\ MemoTrue /\ SiteTrue

LibInv == CellInv /\ SnapInv /\ SiteInv /\ HistoryInv /\ (~repeated => ShownInv)

\* What the bounds count.
BoundInv ==
  /\ sweep.on => epoch < evictions
  /\ defaults <= changes /\ \A f \in Files : disk[f].build <= changes

IndInv == TypeOK /\ BoundInv /\ SlotInv /\ LibInv

-----------------------------------------------------------------------------
(* What steps of one thread share.                                         *)

\* A step of t leaves the variables of the other threads alone.
OnlyThread(t) ==
  \A u \in Threads \ {t} :
    /\ pc'[u] = pc[u] /\ want'[u] = want[u] /\ seen'[u] = seen[u]
    /\ snap'[u] = snap[u] /\ slot'[u] = slot[u] /\ fn'[u] = fn[u]

\* A step outside compile_for_launch_site leaves the slots as they are.
LEMMA UnheldStep ==
  ASSUME TypeOK, SlotInv, CellInv, NEW t \in Threads, OnlyThread(t),
         pc[t] \notin Holding \cup {"remove"}, pc'[t] \notin Holding \cup {"remove"},
         pc'[t] # "idle" => want'[t] \in Kernels,
         pc'[t] \in {"fill", "store", "launch"} => fn'[t] \in Compiled,
         pc'[t] \in Stamped => snap'[t].stamp \in Stamps,
         pc'[t] \in Found => snap'[t].file \in Files,
         pc'[t] \in Keyed => snap'[t].digest \in Contents,
         pc'[t] \in {"fill", "store"} => Describes(fn'[t], Key(t)'),
         UNCHANGED <<slot, slotVars, evicted, repeated>>
  PROVE  SlotInv' /\ CellInv'
<1> USE DEF SlotInv, slotVars
<1>1. slot[t] = None
  BY DEF ThreadInv
<1>2. \A u \in Threads : slot[u] # None => Key(u)' = Key(u)
  BY <1>1 DEF Key, OnlyThread
<1>3. ThreadInv'
  BY <1>1 DEF ThreadInv, OnlyThread, Holding
<1>4. MapInv'
  BY DEF MapInv
<1>5. HoldInv'
  BY <1>2 DEF HoldInv
<1>6. RunInv'
  <2>1. \A c \in Cells : running[c] # None => running[c] \in Threads \ {t}
    BY DEF RunInv, TypeOK, Holding
  <2> QED BY <2>1 DEF RunInv, OnlyThread, Holding
<1>7. NoLeakedSlot'
  <2> SUFFICES ASSUME NEW k \in Keys, cache[k] # None, cell[cache[k]] = None,
                      cache[k] \notin left
               PROVE  \E u \in Threads : slot[u] = cache[k] \/ (pc'[u] = "remove" /\ Key(u)' = k)
    BY DEF NoLeakedSlot, Present
  <2>1. PICK u \in Threads : slot[u] = cache[k] \/ (pc[u] = "remove" /\ Key(u) = k)
    BY DEF NoLeakedSlot, Present
  <2>2. u # t => pc'[u] = pc[u] /\ Key(u)' = Key(u)
    BY DEF OnlyThread, Key
  <2> QED BY <1>1, <2>1, <2>2
<1>8. CellInv'
  <2>1. \A f, k : Describes(f, k)' <=> Describes(f, k)
    BY DEF Describes
  <2>2. \A u \in Threads : pc'[u] \in {"fill", "store"} => Describes(fn'[u], Key(u)')
    BY DEF CellInv, OnlyThread, Key
  <2> QED BY <1>2, <2>1, <2>2 DEF CellInv
<1> QED BY <1>3, <1>4, <1>5, <1>6, <1>7, <1>8

\* Only the thread that moves has to look at the defaults again.
LEMMA SnapStep ==
  ASSUME SnapInv, NEW t \in Threads, OnlyThread(t), UNCHANGED <<defaults, replaced>>,
         SnapOK(t)', FreshOK(t)'
  PROVE  SnapInv'
<1>1. ASSUME NEW u \in Threads, u # t PROVE SnapOK(u)' /\ FreshOK(u)'
  BY <1>1 DEF SnapInv, SnapOK, FreshOK, OnlyThread, Old
<1> QED BY <1>1 DEF SnapInv

\* Nor do the other threads have to look at the library, if it is the same.
LEMMA ShownStep ==
  ASSUME ShownInv, NEW t \in Threads, OnlyThread(t), UNCHANGED <<link, replaced>>,
         Now' = Now, \A f \in Files : disk'[f].build = disk[f].build,
         \A u \in Threads : pc[u] = "read" => snap[u].file \in Files,
         TrueOK(t)', LaunchNew(t)', MemoTrue', SiteTrue',
         \A u \in Threads : MemoNew(u)' /\ NewOK(t, u)' /\ NewOK(u, t)'
  PROVE  ShownInv'
<1>1. \A x : Shown(x)' <=> Shown(x)
  BY DEF Shown
<1>2. ASSUME NEW u \in Threads, u # t PROVE TrueOK(u)' /\ LaunchNew(u)'
  BY <1>2 DEF ShownInv, TrueOK, LaunchNew, OnlyThread, Shown
<1>3. ASSUME NEW u \in Threads, u # t, NEW w \in Threads, w # t PROVE NewOK(u, w)'
  <2>1. pc[w] \in Found => Got(w)' = Got(w)
    BY <1>3 DEF Got, OnlyThread
  <2> QED BY <1>3, <2>1 DEF ShownInv, NewOK, OnlyThread
<1>4. \A v \in replaced' : v.stamp # Now.stamp'
  BY DEF ShownInv
<1> QED BY <1>2, <1>3, <1>4 DEF ShownInv

\* A thread without a stamp has nothing to answer for but what it launches.
LEMMA OutsideStep ==
  ASSUME ThreadInv, ShownInv, NEW t \in Threads, OnlyThread(t), UNCHANGED <<fileVars, memo>>,
         pc'[t] \notin Stamped, LaunchNew(t)', SiteTrue'
  PROVE  ShownInv'
<1> USE DEF fileVars
<1>1. Now' = Now
  BY DEF Now, View
<1>2. TrueOK(t)'
  BY DEF TrueOK, Stamped, Found, Keyed
<1>3. MemoTrue'
  BY <1>1 DEF ShownInv, MemoTrue, Shown
<1>4. \A u \in Threads : MemoNew(u)'
  BY DEF ShownInv, MemoNew, OnlyThread
<1>5. \A u \in Threads : NewOK(t, u)' /\ NewOK(u, t)'
  BY DEF NewOK, Stamped
<1>6. \A u \in Threads : pc[u] = "read" => snap[u].file \in Files
  BY DEF ThreadInv, Found
<1> QED BY <1>1, <1>2, <1>3, <1>4, <1>5, <1>6, ShownStep

\* Nor has one whose snapshot is complete and stays.
LEMMA KeyedStep ==
  ASSUME ThreadInv, ShownInv, NEW t \in Threads, OnlyThread(t),
         UNCHANGED <<fileVars, memo, snap, seen, site>>,
         pc[t] \in Keyed, pc'[t] \in Keyed,
         pc'[t] = "linked" /\ snap[t].stamp = Now.stamp => fn'[t].linked = Now.contents
  PROVE  ShownInv'
<1> USE DEF fileVars
<1>1. Now' = Now
  BY DEF Now, View
<1>2. TrueOK(t)' /\ LaunchNew(t)'
  BY <1>1 DEF ShownInv, TrueOK, Shown, LaunchNew, Stamped, Found, Keyed
<1>3. MemoTrue' /\ SiteTrue'
  BY <1>1 DEF ShownInv, MemoTrue, SiteTrue, Shown
<1>4. \A u \in Threads : pc'[u] \in Stamped => pc[u] \in Stamped
  BY DEF OnlyThread, Stamped, Found
<1>5. \A u \in Threads : pc'[u] \in Found => pc[u] \in Found /\ Got(u)' = Got(u)
  BY DEF OnlyThread, Found, Keyed, Got
<1>6. \A u \in Threads : MemoNew(u)' /\ NewOK(t, u)' /\ NewOK(u, t)'
  BY <1>4, <1>5 DEF ShownInv, MemoNew, NewOK
<1>7. \A u \in Threads : pc[u] = "read" => snap[u].file \in Files
  BY DEF ThreadInv, Found
<1> QED BY <1>1, <1>2, <1>3, <1>6, <1>7, ShownStep

\* The library's contents now were never replaced.
LEMMA NowIsNew ==
  ASSUME TypeOK, HistoryInv, ShownInv
  PROVE  Now.contents \notin Old
<1> SUFFICES ASSUME NEW v \in replaced, v.contents = Now.contents PROVE FALSE
  BY DEF Old
<1>1. PICK f \in Files, b \in Versions, n \in Versions :
        /\ v.contents = <<f, b>> /\ v.stamp = <<f, n>>
        /\ b <= disk[f].build /\ (b = disk[f].build => n = disk[f].tick)
  BY DEF HistoryInv
<1>2. f = link /\ b = disk[f].build
  BY <1>1 DEF Now, View
<1> QED BY <1>1, <1>2 DEF ShownInv, Now, View

-----------------------------------------------------------------------------
(* The launcher.                                                           *)

\* A launch begins with the libraries as they are.
LEMMA BeginStep ==
  ASSUME IndInv, NEW t \in Threads, NEW k \in Kernels, Begin(t, k)
  PROVE  IndInv'
<1> USE CacheAssumption DEF IndInv, LibInv, Begin, To, libVars, fileVars, sweepVars, slotVars
<1>1. OnlyThread(t) /\ pc[t] = "idle" /\ pc'[t] = "probe" /\ want'[t] = k
  BY DEF OnlyThread, TypeOK
<1>2. seen'[t] = [defaults |-> defaults, old |-> Old] /\ Old \subseteq Contents
  BY DEF TypeOK, Views, Old
<1>3. TypeOK'
  BY <1>2 DEF TypeOK, Steps, Old
<1>4. SlotInv' /\ CellInv'
  BY <1>1, UnheldStep DEF Holding, SlotInv, ThreadInv, Stamped, Found, Keyed
<1>5. SnapInv'
  <2>1. SnapOK(t)' /\ FreshOK(t)'
    BY <1>1, <1>2 DEF SnapOK, FreshOK, TypeOK, Versions, Old, Stamped, Found, Keyed
  <2> QED BY <1>1, <2>1, SnapStep
<1>6. SiteInv' /\ BoundInv' /\ HistoryInv'
  BY DEF SiteInv, BoundInv, HistoryInv
<1>7. ASSUME ~repeated' PROVE ShownInv'
  <2>1. ShownInv /\ SiteTrue' /\ LaunchNew(t)'
    BY <1>1, <1>7 DEF ShownInv, SiteTrue, Shown, Now, View, LaunchNew
  <2> QED BY <1>1, <2>1, OutsideStep DEF SlotInv, Stamped, Found, Keyed
<1> QED BY <1>3, <1>4, <1>5, <1>6, <1>7

\* The site answers with a kernel that is as new as the libraries are now.
LEMMA ProbeHitStep ==
  ASSUME IndInv, NEW t \in Threads, ProbeHit(t)
  PROVE  IndInv'
<1> USE CacheAssumption DEF IndInv, LibInv, ProbeHit, To, libVars, fileVars, sweepVars, slotVars
<1>1. OnlyThread(t) /\ pc[t] = "probe" /\ pc'[t] = "launch" /\ fn'[t] = site.fn
  BY DEF OnlyThread, TypeOK
<1>2. site \in Resolutions /\ site.fn \in Compiled
  BY DEF TypeOK, SiteMatches, Resolutions
<1>3. TypeOK'
  BY <1>2 DEF TypeOK, Steps
<1>4. SlotInv' /\ CellInv'
  BY <1>1, <1>2, UnheldStep DEF Holding, SlotInv, ThreadInv, Stamped, Found, Keyed
<1>5. SnapInv'
  <2>1. /\ site.fn.defaults \in Nat
        /\ site.snap.generation = defaults /\ site.fn.kernel = want[t]
    BY <1>2 DEF SiteMatches, Unchanged, Compiled, Versions
  <2>2. seen[t].defaults <= defaults /\ seen[t].defaults \in Nat /\ defaults \in Nat
    BY <1>1 DEF SnapInv, SnapOK, TypeOK, Versions
  <2>3. defaults <= site.fn.defaults
    BY <2>1 DEF SiteInv, SiteMatches
  <2>4. FreshOK(t)'
    BY <1>1, <2>1, <2>2, <2>3 DEF FreshOK
  <2>5. SnapOK(t)'
    BY <1>1, <2>2 DEF SnapInv, SnapOK, Old, Stamped, Found, Keyed
  <2> QED BY <1>1, <2>4, <2>5, SnapStep
<1>6. SiteInv' /\ BoundInv' /\ HistoryInv'
  BY DEF SiteInv, BoundInv, HistoryInv
<1>7. ASSUME ~repeated' PROVE ShownInv'
  <2>1. ShownInv /\ SiteTrue'
    BY <1>7 DEF ShownInv, SiteTrue, Shown, Now, View
  <2>2. want[t] \in Linking => site.fn.linked = Now.contents
    BY <2>1 DEF ShownInv, SiteTrue, SiteMatches, Unchanged, FilesUnchanged
  <2>3. Now.contents \notin seen[t].old
    BY <1>7, <2>1, NowIsNew DEF SnapInv, SnapOK
  <2>4. LaunchNew(t)'
    BY <1>1, <2>2, <2>3 DEF LaunchNew
  <2> QED BY <1>1, <2>1, <2>4, OutsideStep DEF SlotInv, Stamped, Found, Keyed
<1> QED BY <1>3, <1>4, <1>5, <1>6, <1>7

\* The generation is read after the launch began.
LEMMA ProbeMissStep ==
  ASSUME IndInv, NEW t \in Threads, ProbeMiss(t)
  PROVE  IndInv'
<1> USE CacheAssumption DEF IndInv, LibInv, ProbeMiss, To, libVars, fileVars, sweepVars, slotVars
<1>1. OnlyThread(t) /\ pc[t] = "probe" /\ pc'[t] = "defaults" /\ snap'[t].generation = defaults
  BY DEF OnlyThread, TypeOK, Snapshots
<1>3. TypeOK'
  <2>0. snap[t] \in Snapshots /\ defaults \in Versions
    BY DEF TypeOK
  <2>1. [snap[t] EXCEPT !.generation = defaults] \in Snapshots
    BY <2>0 DEF Snapshots
  <2>2. snap' = [snap EXCEPT ![t] = [snap[t] EXCEPT !.generation = defaults]]
    OBVIOUS
  <2>3. snap' \in [Threads -> Snapshots] /\ pc' \in [Threads -> Steps]
    BY <2>1, <2>2 DEF TypeOK, Steps
  <2> QED BY <2>3 DEF TypeOK
<1>4. SlotInv' /\ CellInv'
  BY <1>1, UnheldStep DEF Holding, SlotInv, ThreadInv, Stamped, Found, Keyed
<1>5. SnapInv'
  <2>1. SnapOK(t)' /\ FreshOK(t)'
    BY <1>1 DEF SnapInv, SnapOK, FreshOK, TypeOK, Versions, Old, Stamped, Found, Keyed
  <2> QED BY <1>1, <2>1, SnapStep
<1>6. SiteInv' /\ BoundInv' /\ HistoryInv'
  BY DEF SiteInv, BoundInv, HistoryInv
<1>7. ASSUME ~repeated' PROVE ShownInv'
  <2>1. ShownInv /\ SiteTrue' /\ LaunchNew(t)'
    BY <1>1, <1>7 DEF ShownInv, SiteTrue, Shown, Now, View, LaunchNew
  <2> QED BY <1>1, <2>1, OutsideStep DEF SlotInv, Stamped, Found, Keyed
<1> QED BY <1>3, <1>4, <1>5, <1>6, <1>7

\* The defaults and the stamp are read after the generation; whoever saw the
\* same stamp got what is in the library now.
LEMMA ReadDefaultsStep ==
  ASSUME IndInv, NEW t \in Threads, ReadDefaults(t)
  PROVE  IndInv'
<1> USE CacheAssumption DEF IndInv, LibInv, ReadDefaults, To, libVars, fileVars, sweepVars, slotVars
<1>0. Now.stamp \in Stamps /\ Now' = Now
  BY DEF TypeOK, Now, View, Stamps
<1>1. /\ OnlyThread(t) /\ pc[t] = "defaults" /\ pc'[t] = "look"
      /\ snap'[t] = [snap[t] EXCEPT !.defaults = defaults, !.stamp = Now.stamp]
      /\ snap'[t] \in Snapshots
  <2>1. snap' = [snap EXCEPT ![t] = [snap[t] EXCEPT !.defaults = defaults, !.stamp = Now.stamp]]
    OBVIOUS
  <2>0. snap[t] \in Snapshots /\ defaults \in Versions
    BY DEF TypeOK
  <2>2. [snap[t] EXCEPT !.defaults = defaults, !.stamp = Now.stamp] \in Snapshots
    BY <1>0, <2>0 DEF Snapshots
  <2> QED BY <2>1, <2>2 DEF OnlyThread, TypeOK
<1>2. /\ snap'[t].generation = snap[t].generation /\ snap'[t].defaults = defaults
      /\ snap'[t].stamp = Now.stamp
  BY <1>1 DEF TypeOK, Snapshots
<1>3. TypeOK'
  <2>1. snap' \in [Threads -> Snapshots] /\ pc' \in [Threads -> Steps]
    BY <1>1 DEF TypeOK, Steps
  <2> QED BY <2>1 DEF TypeOK
<1>4. SlotInv' /\ CellInv'
  BY <1>0, <1>1, <1>2, UnheldStep DEF Holding, SlotInv, ThreadInv, Stamped, Found, Keyed
<1>5. SnapInv'
  <2>1. SnapOK(t)' /\ FreshOK(t)'
    BY <1>1, <1>2 DEF SnapInv, SnapOK, FreshOK, TypeOK, Versions, Old, Stamped, Found, Keyed
  <2> QED BY <1>1, <2>1, SnapStep
<1>6. SiteInv' /\ BoundInv' /\ HistoryInv'
  BY DEF SiteInv, BoundInv, HistoryInv
<1>7. ASSUME ~repeated' PROVE ShownInv'
  <2>1. ShownInv /\ Now.contents \notin seen[t].old
    BY <1>7, NowIsNew DEF SnapInv, SnapOK
  <2>2. TrueOK(t)' /\ LaunchNew(t)'
    BY <1>0, <1>1, <1>2 DEF TrueOK, LaunchNew, Shown, Stamped, Found, Keyed
  <2>3. MemoTrue' /\ SiteTrue'
    BY <1>0, <2>1 DEF ShownInv, MemoTrue, SiteTrue, Shown
  <2>4. \A u \in Threads : MemoNew(u)'
    BY <1>1, <1>2, <2>1 DEF ShownInv, MemoTrue, MemoNew, OnlyThread
  <2>5. \A u \in Threads : pc'[t] \notin Found /\ NewOK(u, t)'
    BY <1>1 DEF NewOK, Found, Keyed
  <2>6. ASSUME NEW u \in Threads, pc'[u] \in Found, snap'[u].stamp = Now.stamp
        PROVE  Got(u)' = Now.contents
    <3>1. u # t /\ pc'[u] = pc[u] /\ snap'[u] = snap[u] /\ pc[u] \in Found
      BY <1>1, <2>5, <2>6 DEF OnlyThread
    <3>2. snap[u].file = link /\ (pc[u] \in Keyed => snap[u].digest = Now.contents)
      BY <2>1, <2>6, <3>1 DEF ShownInv, TrueOK
    <3>3. pc[u] # "read" => pc[u] \in Keyed
      BY <3>1 DEF Found
    <3>4. Now.contents = <<link, disk[link].build>> /\ disk' = disk
      BY DEF Now, View
    <3> QED BY <3>1, <3>2, <3>3, <3>4 DEF Got
  <2>7. \A u \in Threads : NewOK(t, u)'
    BY <1>2, <2>1, <2>6 DEF NewOK
  <2>8. \A u \in Threads : pc[u] = "read" => snap[u].file \in Files
    BY DEF SlotInv, ThreadInv, Found
  <2> QED BY <1>0, <1>1, <2>1, <2>2, <2>3, <2>4, <2>5, <2>7, <2>8, ShownStep
<1> QED BY <1>3, <1>4, <1>5, <1>6, <1>7

\* HASHED answers with what somebody read who saw the same stamp.
LEMMA LookUpStep ==
  ASSUME IndInv, NEW t \in Threads, LookUp(t)
  PROVE  IndInv'
<1> USE CacheAssumption DEF IndInv, LibInv, To, libVars, fileVars, sweepVars, slotVars
<1>0. /\ pc[t] = "look" /\ snap[t] \in Snapshots /\ Now' = Now
      /\ UNCHANGED <<launches, want, seen, slot, fn, built, slotVars, sweepVars, libVars, site>>
  BY DEF LookUp, TypeOK, Now, View
<1>1. OnlyThread(t)
  BY <1>0 DEF LookUp, OnlyThread, TypeOK
<1>2. \/ /\ pc'[t] = "slot" /\ memo # None /\ memo.stamp = snap[t].stamp
         /\ snap'[t] = [snap[t] EXCEPT !.file = memo.file, !.digest = memo.digest]
      \/ pc'[t] = "find" /\ snap'[t] = snap[t]
  BY DEF LookUp, Hashed, TypeOK
<1>3. /\ snap'[t] \in Snapshots /\ snap'[t].generation = snap[t].generation
      /\ snap'[t].defaults = snap[t].defaults /\ snap'[t].stamp = snap[t].stamp
      /\ pc'[t] = "slot" => /\ memo \in [stamp : Stamps, file : Files, digest : Contents]
                            /\ snap'[t].file = memo.file /\ snap'[t].digest = memo.digest
  <2>1. CASE pc'[t] = "slot"
    <3>1. memo \in [stamp : Stamps, file : Files, digest : Contents]
      BY <1>2, <2>1 DEF TypeOK
    <3> QED BY <1>0, <1>2, <2>1, <3>1 DEF Snapshots
  <2> QED BY <1>0, <1>2, <2>1
<1>4. TypeOK'
  <2>1. snap' = [snap EXCEPT ![t] = snap'[t]] /\ pc' = [pc EXCEPT ![t] = pc'[t]]
    BY DEF LookUp, TypeOK
  <2>2. snap' \in [Threads -> Snapshots]
    BY <1>3, <2>1 DEF TypeOK
  <2>3. pc' \in [Threads -> Steps]
    BY DEF LookUp, TypeOK, Steps
  <2> QED BY <1>0, <2>2, <2>3 DEF TypeOK
<1>5. SlotInv' /\ CellInv'
  <2>1. /\ pc'[t] \in Stamped => snap'[t].stamp \in Stamps
        /\ pc'[t] \in Found => snap'[t].file \in Files
        /\ pc'[t] \in Keyed => snap'[t].digest \in Contents
    BY <1>0, <1>2, <1>3 DEF SlotInv, ThreadInv, Stamped, Found, Keyed
  <2>2. pc'[t] \in {"slot", "find"} /\ want'[t] \in Kernels
    BY <1>0, <1>2 DEF SlotInv, ThreadInv
  <2> QED BY <1>0, <1>1, <2>1, <2>2, UnheldStep DEF Holding
<1>6. SnapInv'
  <2>1. SnapOK(t)' /\ FreshOK(t)'
    BY <1>0, <1>2, <1>3 DEF SnapInv, SnapOK, FreshOK, Old, Stamped, Found, Keyed
  <2> QED BY <1>0, <1>1, <2>1, SnapStep
<1>7. SiteInv' /\ BoundInv' /\ HistoryInv'
  BY <1>0 DEF SiteInv, BoundInv, HistoryInv
<1>8. ASSUME ~repeated' PROVE ShownInv'
  <2>1. ShownInv
    BY <1>0, <1>8
  <2>2. TrueOK(t)' /\ LaunchNew(t)'
    BY <1>0, <1>2, <1>3, <2>1 DEF ShownInv, TrueOK, MemoTrue, LaunchNew, Shown, Stamped, Found, Keyed
  <2>3. MemoTrue' /\ SiteTrue'
    BY <1>0, <2>1 DEF ShownInv, MemoTrue, SiteTrue, Shown
  <2>4. \A u \in Threads : snap'[u].stamp = snap[u].stamp /\ (pc'[u] \in Stamped <=> pc[u] \in Stamped)
    BY <1>0, <1>1, <1>2, <1>3 DEF OnlyThread, Stamped, Found, Keyed
  <2>5. \A u \in Threads : MemoNew(u)'
    BY <1>0, <2>1, <2>4 DEF ShownInv, MemoNew
  <2>6. \A u \in Threads : NewOK(u, t)'
    <3> SUFFICES ASSUME NEW u \in Threads, pc'[u] \in Stamped, pc'[t] \in Found,
                        snap'[t].stamp = snap'[u].stamp
                 PROVE  Got(t)' \notin seen'[u].old
      BY DEF NewOK
    <3>1. pc'[t] = "slot" /\ memo # None /\ memo.stamp = snap[u].stamp
      BY <1>2, <2>4 DEF Found, Keyed
    <3>2. Got(t)' = memo.digest
      BY <1>3, <3>1 DEF Got
    <3>3. MemoNew(u) /\ pc[u] \in Stamped
      BY <2>1, <2>4 DEF ShownInv
    <3> QED BY <1>0, <3>1, <3>2, <3>3 DEF MemoNew
  <2>7. \A u \in Threads : u # t => NewOK(t, u)'
    <3> SUFFICES ASSUME NEW u \in Threads, u # t, pc'[u] \in Found, snap'[u].stamp = snap'[t].stamp
                 PROVE  Got(u)' \notin seen'[t].old
      BY DEF NewOK
    <3>1. pc[u] \in Found /\ Got(u)' = Got(u) /\ snap[u].stamp = snap[t].stamp
      BY <1>0, <1>1, <2>4 DEF OnlyThread, Got
    <3>2. pc[t] \in Stamped /\ NewOK(t, u)
      BY <1>0, <2>1 DEF ShownInv, Stamped
    <3> QED BY <1>0, <3>1, <3>2 DEF NewOK
  <2>8. \A u \in Threads : pc[u] = "read" => snap[u].file \in Files
    BY DEF SlotInv, ThreadInv, Found
  <2> QED BY <1>0, <1>1, <2>1, <2>2, <2>3, <2>5, <2>6, <2>7, <2>8, ShownStep
<1> QED BY <1>4, <1>5, <1>6, <1>7, <1>8

\* The path is followed to the file that has the stamp, if that is still the
\* library's.
LEMMA CanonicalizeStep ==
  ASSUME IndInv, NEW t \in Threads, Canonicalize(t)
  PROVE  IndInv'
<1> USE CacheAssumption DEF IndInv, LibInv, Canonicalize, To, libVars, fileVars, sweepVars, slotVars
<1>0. Now' = Now /\ Now.contents = <<link, disk[link].build>> /\ link \in Files
  BY DEF TypeOK, Now, View
<1>1. /\ OnlyThread(t) /\ pc[t] = "find" /\ pc'[t] = "read"
      /\ snap'[t] = [snap[t] EXCEPT !.file = link] /\ snap'[t] \in Snapshots
  <2>1. snap[t] \in Snapshots
    BY DEF TypeOK
  <2>2. [snap[t] EXCEPT !.file = link] \in Snapshots
    BY <1>0, <2>1 DEF Snapshots
  <2> QED BY <2>2 DEF OnlyThread, TypeOK
<1>2. /\ snap'[t].generation = snap[t].generation /\ snap'[t].defaults = snap[t].defaults
      /\ snap'[t].stamp = snap[t].stamp /\ snap'[t].file = link
  BY <1>1 DEF TypeOK, Snapshots
<1>3. TypeOK'
  <2>1. snap' \in [Threads -> Snapshots] /\ pc' \in [Threads -> Steps]
    BY <1>1 DEF TypeOK, Steps
  <2> QED BY <2>1 DEF TypeOK
<1>4. SlotInv' /\ CellInv'
  <2>1. /\ pc'[t] \in Stamped => snap'[t].stamp \in Stamps
        /\ pc'[t] \in Found => snap'[t].file \in Files /\ pc'[t] \notin Keyed
    BY <1>0, <1>1, <1>2 DEF SlotInv, ThreadInv, Stamped, Found, Keyed
  <2>2. want'[t] \in Kernels
    BY <1>1 DEF SlotInv, ThreadInv
  <2> QED BY <1>1, <2>1, <2>2, UnheldStep DEF Holding, Found
<1>5. SnapInv'
  <2>1. SnapOK(t)' /\ FreshOK(t)'
    BY <1>1, <1>2 DEF SnapInv, SnapOK, FreshOK, Old, Stamped, Found, Keyed
  <2> QED BY <1>1, <2>1, SnapStep
<1>6. SiteInv' /\ BoundInv' /\ HistoryInv'
  BY DEF SiteInv, BoundInv, HistoryInv
<1>7. ASSUME ~repeated' PROVE ShownInv'
  <2>1. ShownInv /\ \A u \in Threads : Now.contents \notin seen[u].old
    BY <1>7, NowIsNew DEF SnapInv, SnapOK
  <2>2. TrueOK(t)' /\ LaunchNew(t)'
    BY <1>0, <1>1, <1>2, <2>1 DEF ShownInv, TrueOK, LaunchNew, Shown, Stamped, Found, Keyed
  <2>3. MemoTrue' /\ SiteTrue'
    BY <1>0, <2>1 DEF ShownInv, MemoTrue, SiteTrue, Shown
  <2>4. \A u \in Threads : snap'[u].stamp = snap[u].stamp /\ (pc'[u] \in Stamped <=> pc[u] \in Stamped)
    BY <1>1, <1>2 DEF OnlyThread, Stamped, Found, Keyed
  <2>5. \A u \in Threads : MemoNew(u)'
    BY <2>1, <2>4 DEF ShownInv, MemoNew
  <2>6. \A u \in Threads : NewOK(u, t)'
    <3>1. Got(t)' = Now.contents
      BY <1>0, <1>1, <1>2 DEF Got
    <3> QED BY <2>1, <3>1 DEF NewOK
  <2>7. \A u \in Threads : u # t => NewOK(t, u)'
    <3> SUFFICES ASSUME NEW u \in Threads, u # t, pc'[u] \in Found, snap'[u].stamp = snap'[t].stamp
                 PROVE  Got(u)' \notin seen'[t].old
      BY DEF NewOK
    <3>1. pc[u] \in Found /\ Got(u)' = Got(u) /\ snap[u].stamp = snap[t].stamp
      BY <1>1, <2>4 DEF OnlyThread, Got
    <3>2. pc[t] \in Stamped /\ NewOK(t, u)
      BY <1>1, <2>1 DEF ShownInv, Stamped
    <3> QED BY <3>1, <3>2 DEF NewOK
  <2>8. \A u \in Threads : pc[u] = "read" => snap[u].file \in Files
    BY DEF SlotInv, ThreadInv, Found
  <2> QED BY <1>0, <1>1, <2>1, <2>2, <2>3, <2>5, <2>6, <2>7, <2>8, ShownStep
<1> QED BY <1>3, <1>4, <1>5, <1>6, <1>7

\* The file is read as it is now.
LEMMA HashFileStep ==
  ASSUME IndInv, NEW t \in Threads, HashFile(t)
  PROVE  IndInv'
<1> USE CacheAssumption DEF IndInv, LibInv, HashFile, To, libVars, fileVars, sweepVars, slotVars
<1> DEFINE got == <<snap[t].file, disk[snap[t].file].build>>
<1>0. /\ Now' = Now /\ Now.contents = <<link, disk[link].build>>
      /\ pc[t] = "read" /\ snap[t].file \in Files /\ got \in Contents
  BY DEF TypeOK, Now, View, SlotInv, ThreadInv, Found, Contents
<1>1. /\ OnlyThread(t) /\ pc'[t] = "note"
      /\ snap'[t] = [snap[t] EXCEPT !.digest = got] /\ snap'[t] \in Snapshots
  <2>1. snap[t] \in Snapshots
    BY DEF TypeOK
  <2>2. [snap[t] EXCEPT !.digest = got] \in Snapshots
    BY <1>0, <2>1 DEF Snapshots
  <2> QED BY <2>2 DEF OnlyThread, TypeOK
<1>2. /\ snap'[t].generation = snap[t].generation /\ snap'[t].defaults = snap[t].defaults
      /\ snap'[t].stamp = snap[t].stamp /\ snap'[t].file = snap[t].file /\ snap'[t].digest = got
  BY <1>1 DEF TypeOK, Snapshots
<1>3. TypeOK'
  <2>1. snap' \in [Threads -> Snapshots] /\ pc' \in [Threads -> Steps]
    BY <1>1 DEF TypeOK, Steps
  <2> QED BY <2>1 DEF TypeOK
<1>4. SlotInv' /\ CellInv'
  <2>1. /\ pc'[t] \in Stamped => snap'[t].stamp \in Stamps
        /\ pc'[t] \in Found => snap'[t].file \in Files
        /\ pc'[t] \in Keyed => snap'[t].digest \in Contents
    BY <1>0, <1>1, <1>2 DEF SlotInv, ThreadInv, Stamped, Found, Keyed
  <2>2. want'[t] \in Kernels
    BY <1>0 DEF SlotInv, ThreadInv
  <2> QED BY <1>0, <1>1, <2>1, <2>2, UnheldStep DEF Holding
<1>5. SnapInv'
  <2>1. SnapOK(t)' /\ FreshOK(t)'
    BY <1>0, <1>1, <1>2 DEF SnapInv, SnapOK, FreshOK, Old, Stamped, Found, Keyed
  <2> QED BY <1>1, <2>1, SnapStep
<1>6. SiteInv' /\ BoundInv' /\ HistoryInv'
  BY DEF SiteInv, BoundInv, HistoryInv
<1>7. ASSUME ~repeated' PROVE ShownInv'
  <2>1. ShownInv
    BY <1>7
  <2>2. TrueOK(t)' /\ LaunchNew(t)'
    BY <1>0, <1>1, <1>2, <2>1 DEF ShownInv, TrueOK, LaunchNew, Shown, Stamped, Found, Keyed
  <2>3. MemoTrue' /\ SiteTrue'
    BY <1>0, <2>1 DEF ShownInv, MemoTrue, SiteTrue, Shown
  <2>4. \A u \in Threads : /\ snap'[u].stamp = snap[u].stamp
                           /\ pc'[u] \in Stamped <=> pc[u] \in Stamped
                           /\ pc'[u] \in Found <=> pc[u] \in Found
    BY <1>0, <1>1, <1>2 DEF OnlyThread, Stamped, Found, Keyed
  <2>5. \A u \in Threads : MemoNew(u)'
    BY <2>1, <2>4 DEF ShownInv, MemoNew
  <2>6. \A u \in Threads : Got(u)' = Got(u)
    BY <1>0, <1>1, <1>2 DEF Got, OnlyThread
  <2>7. \A u \in Threads : NewOK(t, u)' /\ NewOK(u, t)'
    BY <2>1, <2>4, <2>6 DEF ShownInv, NewOK
  <2>8. \A u \in Threads : pc[u] = "read" => snap[u].file \in Files
    BY DEF SlotInv, ThreadInv, Found
  <2> QED BY <1>0, <1>1, <2>1, <2>2, <2>3, <2>5, <2>7, <2>8, ShownStep
<1> QED BY <1>3, <1>4, <1>5, <1>6, <1>7

\* What was read is kept for the stamp, which no other thread can tell from
\* its own.
LEMMA MemoizeStep ==
  ASSUME IndInv, NEW t \in Threads, Memoize(t)
  PROVE  IndInv'
<1> USE CacheAssumption DEF IndInv, LibInv, To, fileVars, sweepVars, slotVars
<1>0. /\ pc[t] = "note" /\ pc' = [pc EXCEPT ![t] = "slot"] /\ snap[t] \in Snapshots
      /\ snap[t].stamp \in Stamps /\ snap[t].file \in Files /\ snap[t].digest \in Contents
      /\ UNCHANGED <<launches, want, seen, snap, slot, fn, built, slotVars, sweepVars,
                     defaults, link, replaced, repeated, changes, site>>
  BY DEF Memoize, TypeOK, SlotInv, ThreadInv, Stamped, Found, Keyed
<1>1. OnlyThread(t) /\ pc'[t] = "slot"
  BY <1>0 DEF OnlyThread, TypeOK
<1>2. \/ memo' = memo
      \/ memo' = [stamp |-> snap[t].stamp, file |-> snap[t].file, digest |-> snap[t].digest]
  BY DEF Memoize
<1>3. /\ disk' \in [Files -> [build : Versions, tick : Versions, open : BOOLEAN]]
      /\ \A f \in Files : disk'[f].build = disk[f].build /\ disk'[f].tick = disk[f].tick
  <2>1. PICK g \in Files : disk' = disk \/ disk' = [disk EXCEPT ![g].open = FALSE]
    BY <1>0 DEF Memoize, Settled, Stamps
  <2>2. disk \in [Files -> [build : Versions, tick : Versions, open : BOOLEAN]]
    BY DEF TypeOK
  <2> DEFINE closed == [disk[g] EXCEPT !.open = FALSE]
  <2>3. /\ closed \in [build : Versions, tick : Versions, open : BOOLEAN]
        /\ closed.build = disk[g].build /\ closed.tick = disk[g].tick
    BY <2>2
  <2>4. disk' = disk \/ disk' = [disk EXCEPT ![g] = closed]
    BY <2>1
  <2> HIDE DEF closed
  <2> QED BY <2>2, <2>3, <2>4
<1>4. Now' = Now
  BY <1>0, <1>3 DEF Now, View, TypeOK
<1>5. TypeOK'
  <2>1. pc' \in [Threads -> Steps]
    BY <1>0 DEF TypeOK, Steps
  <2>2. memo' \in [stamp : Stamps, file : Files, digest : Contents] \cup {None}
    BY <1>0, <1>2 DEF TypeOK
  <2> QED BY <1>0, <1>3, <2>1, <2>2 DEF TypeOK
<1>6. SlotInv' /\ CellInv'
  BY <1>0, <1>1, UnheldStep DEF Holding, SlotInv, ThreadInv
<1>7. SnapInv'
  <2>1. SnapOK(t)' /\ FreshOK(t)'
    BY <1>0, <1>1 DEF SnapInv, SnapOK, FreshOK, Old, Stamped, Found, Keyed
  <2> QED BY <1>0, <1>1, <2>1, SnapStep
<1>8. SiteInv' /\ BoundInv' /\ HistoryInv'
  <2>1. HistoryInv'
    BY <1>0, <1>3 DEF HistoryInv
  <2> QED BY <1>0, <1>3, <2>1 DEF SiteInv, BoundInv
<1>9. ASSUME ~repeated' PROVE ShownInv'
  <2>1. ShownInv
    BY <1>0, <1>9
  <2>2. TrueOK(t)' /\ LaunchNew(t)'
    BY <1>0, <1>1, <1>4, <2>1 DEF ShownInv, TrueOK, LaunchNew, Shown, Stamped, Found, Keyed
  <2>3. SiteTrue'
    BY <1>0, <1>4, <2>1 DEF ShownInv, SiteTrue, Shown
  <2>4. /\ Shown(snap[t].stamp)
        /\ snap[t].stamp = Now.stamp => snap[t].file = link /\ snap[t].digest = Now.contents
    BY <1>0, <2>1 DEF ShownInv, TrueOK, Stamped, Found, Keyed
  <2>5. MemoTrue'
    BY <1>0, <1>2, <1>4, <2>1, <2>4 DEF ShownInv, MemoTrue, Shown
  <2>6. \A u \in Threads : /\ pc'[u] \in Stamped <=> pc[u] \in Stamped
                           /\ pc'[u] \in Found <=> pc[u] \in Found
    BY <1>0, <1>1 DEF OnlyThread, Stamped, Found, Keyed
  <2>7. \A u \in Threads : MemoNew(u)'
    <3>1. \A u \in Threads : pc[u] \in Stamped /\ snap[t].stamp = snap[u].stamp =>
            snap[t].digest \notin seen[u].old
      BY <1>0, <2>1 DEF ShownInv, NewOK, Got, Found, Keyed
    <3> QED BY <1>0, <1>2, <2>1, <2>6, <3>1 DEF ShownInv, MemoNew
  <2>8. \A u \in Threads : pc[u] = "read" => snap[u].file \in Files
    BY DEF SlotInv, ThreadInv, Found
  <2>9. \A u \in Threads : Got(u)' = Got(u)
    BY <1>0, <1>1, <1>3, <2>8 DEF Got, OnlyThread
  <2>10. \A u \in Threads : NewOK(t, u)' /\ NewOK(u, t)'
    BY <1>0, <2>1, <2>6, <2>9 DEF ShownInv, NewOK
  <2> QED BY <1>0, <1>1, <1>3, <1>4, <2>1, <2>2, <2>3, <2>5, <2>7, <2>8, <2>10, ShownStep
<1> QED BY <1>5, <1>6, <1>7, <1>8, <1>9

\* The resolution is stamped with an epoch.
LEMMA NewResolutionStep ==
  ASSUME IndInv, NEW t \in Threads, NewResolution(t)
  PROVE  IndInv'
<1> USE CacheAssumption DEF IndInv, LibInv, NewResolution, To, libVars, fileVars, sweepVars, slotVars
<1>1. OnlyThread(t) /\ pc[t] = "fill" /\ pc'[t] = "store"
  BY DEF OnlyThread, TypeOK
<1>3. TypeOK'
  BY DEF TypeOK, Steps
<1>4. SlotInv' /\ CellInv'
  <2>1. /\ snap[t].stamp \in Stamps /\ snap[t].file \in Files /\ snap[t].digest \in Contents
        /\ fn[t] \in Compiled /\ want[t] \in Kernels
    BY <1>1 DEF SlotInv, ThreadInv, Stamped, Found, Keyed
  <2>2. Describes(fn'[t], Key(t)')
    BY <1>1 DEF CellInv, Describes, Key
  <2> QED BY <1>1, <2>1, <2>2, UnheldStep DEF Holding
<1>5. SnapInv'
  <2>1. SnapOK(t)' /\ FreshOK(t)'
    BY <1>1 DEF SnapInv, SnapOK, FreshOK, Old, Stamped, Found, Keyed
  <2> QED BY <1>1, <2>1, SnapStep
<1>6. SiteInv' /\ BoundInv' /\ HistoryInv'
  BY DEF SiteInv, BoundInv, HistoryInv
<1>7. ASSUME ~repeated' PROVE ShownInv'
  BY <1>1, <1>7, KeyedStep DEF SlotInv, Keyed
<1> QED BY <1>3, <1>4, <1>5, <1>6, <1>7

\* The site gets a kernel that its snapshot describes.
LEMMA StoreSiteStep ==
  ASSUME IndInv, NEW t \in Threads, StoreSite(t)
  PROVE  IndInv'
<1> USE CacheAssumption DEF IndInv, LibInv, StoreSite, To, libVars, fileVars, sweepVars, slotVars
<1>1. OnlyThread(t) /\ pc[t] = "store" /\ pc'[t] = "launch"
  BY DEF OnlyThread, TypeOK
<1>2. Describes(fn[t], Key(t)) /\ fn[t] \in Compiled /\ want[t] \in Kernels
  BY <1>1 DEF CellInv, SlotInv, ThreadInv
<1>3. TypeOK'
  BY <1>2 DEF TypeOK, Steps, Resolutions
<1>4. SlotInv' /\ CellInv'
  BY <1>1, <1>2, UnheldStep DEF Holding, Stamped, Found, Keyed
<1>5. fn[t].defaults = snap[t].defaults /\ fn[t].kernel = want[t]
  BY <1>2 DEF Describes, Key
<1>6. /\ seen[t].defaults <= snap[t].generation /\ snap[t].generation <= snap[t].defaults
      /\ {seen[t].defaults, snap[t].generation, snap[t].defaults} \subseteq Nat
  <2>1. {seen[t].defaults, snap[t].generation, snap[t].defaults} \subseteq Nat
    BY DEF TypeOK, Snapshots, Versions
  <2> QED BY <1>1, <2>1 DEF SnapInv, SnapOK, Stamped, Found, Keyed
<1>7. SnapInv'
  <2>1. SnapOK(t)' /\ FreshOK(t)'
    BY <1>1, <1>5, <1>6 DEF SnapInv, SnapOK, FreshOK, Old, Stamped, Found, Keyed
  <2> QED BY <1>1, <2>1, SnapStep
<1>8. SiteInv' /\ BoundInv' /\ HistoryInv'
  BY <1>5, <1>6 DEF SiteInv, BoundInv, HistoryInv
<1>9. ASSUME ~repeated' PROVE ShownInv'
  <2>1. ShownInv /\ (want[t] \in Linking => fn[t].linked = snap[t].digest)
    BY <1>2, <1>9 DEF Describes, Key
  <2>2. /\ Shown(snap[t].stamp) /\ snap[t].digest \notin seen[t].old
        /\ snap[t].stamp = Now.stamp => snap[t].digest = Now.contents
    BY <1>1, <2>1 DEF ShownInv, TrueOK, NewOK, Got, Stamped, Found, Keyed
  <2>3. LaunchNew(t)' /\ SiteTrue'
    BY <1>1, <1>5, <2>1, <2>2 DEF LaunchNew, SiteTrue, Shown, Now, View
  <2> QED BY <1>1, <2>1, <2>3, OutsideStep DEF SlotInv, Stamped, Found, Keyed
<1> QED BY <1>3, <1>4, <1>7, <1>8, <1>9

\* The launch ends without a key.
LEMMA HashFailsStep ==
  ASSUME IndInv, NEW t \in Threads, HashFails(t)
  PROVE  IndInv'
<1> USE CacheAssumption DEF IndInv, LibInv, HashFails, To, libVars, fileVars, sweepVars, slotVars
<1>1. OnlyThread(t) /\ pc[t] \in {"defaults", "find", "read"} /\ pc'[t] = "idle" /\ seen'[t] = NothingSeen
  BY DEF OnlyThread, TypeOK
<1>3. TypeOK'
  BY DEF TypeOK, Steps, Versions, Snapshots, NoSnapshot, NothingSeen
<1>4. SlotInv' /\ CellInv'
  BY <1>1, UnheldStep DEF Holding, Stamped, Found, Keyed
<1>5. SnapInv'
  <2>1. SnapOK(t)' /\ FreshOK(t)'
    BY <1>1 DEF SnapOK, FreshOK, NothingSeen, Stamped, Found, Keyed
  <2> QED BY <1>1, <2>1, SnapStep
<1>6. SiteInv' /\ BoundInv' /\ HistoryInv'
  BY DEF SiteInv, BoundInv, HistoryInv
<1>7. ASSUME ~repeated' PROVE ShownInv'
  <2>1. ShownInv /\ SiteTrue' /\ LaunchNew(t)'
    BY <1>1, <1>7 DEF ShownInv, SiteTrue, Shown, Now, View, LaunchNew
  <2> QED BY <1>1, <2>1, OutsideStep DEF SlotInv, Stamped, Found, Keyed
<1> QED BY <1>3, <1>4, <1>5, <1>6, <1>7

\* The launch is over.
LEMMA LaunchedStep ==
  ASSUME IndInv, NEW t \in Threads, Launched(t)
  PROVE  IndInv'
<1> USE CacheAssumption DEF IndInv, LibInv, Launched, To, libVars, fileVars, sweepVars, slotVars
<1>1. OnlyThread(t) /\ pc[t] = "launch" /\ pc'[t] = "idle" /\ seen'[t] = NothingSeen
  BY DEF OnlyThread, TypeOK
<1>3. TypeOK'
  BY DEF TypeOK, Steps, Versions, Snapshots, NoSnapshot, NothingSeen
<1>4. SlotInv' /\ CellInv'
  BY <1>1, UnheldStep DEF Holding, Stamped, Found, Keyed
<1>5. SnapInv'
  <2>1. SnapOK(t)' /\ FreshOK(t)'
    BY <1>1 DEF SnapOK, FreshOK, NothingSeen, Stamped, Found, Keyed
  <2> QED BY <1>1, <2>1, SnapStep
<1>6. SiteInv' /\ BoundInv' /\ HistoryInv'
  BY DEF SiteInv, BoundInv, HistoryInv
<1>7. ASSUME ~repeated' PROVE ShownInv'
  <2>1. ShownInv /\ SiteTrue' /\ LaunchNew(t)'
    BY <1>1, <1>7 DEF ShownInv, SiteTrue, Shown, Now, View, LaunchNew
  <2> QED BY <1>1, <2>1, OutsideStep DEF SlotInv, Stamped, Found, Keyed
<1> QED BY <1>3, <1>4, <1>5, <1>6, <1>7

-----------------------------------------------------------------------------
(* compile_for_launch_site.                                                *)

\* A thread that has hashed the library has a proper key.
LEMMA KeyType ==
  ASSUME TypeOK, ThreadInv, NEW t \in Threads, pc[t] \in Keyed
  PROVE  Key(t) \in Keys
<1>1. want[t] \in Kernels /\ snap[t] \in Snapshots /\ snap[t].digest \in Contents
  BY DEF TypeOK, ThreadInv, Keyed
<1> QED BY <1>1 DEF Key, Keys, Snapshots

\* The slot of a thread is in the map under no other key than its own.
LEMMA SlotKey ==
  ASSUME TypeOK, SlotInv, NEW t \in Threads, slot[t] # None,
         NEW k \in Keys, cache[k] = slot[t]
  PROVE  k = Key(t)
<1>1. Key(t) \in Keys
  BY KeyType DEF SlotInv, ThreadInv, Holding, Keyed
<1>2. slot[t] \notin evicted
  BY DEF SlotInv, MapInv
<1>3. cache[Key(t)] = slot[t]
  BY <1>2 DEF SlotInv, HoldInv
<1> QED BY <1>1, <1>3 DEF SlotInv, MapInv

\* A step of a thread that keeps its slot: what it does to its cell disturbs
\* nobody else, and the slot stays where it is.
LEMMA InsideStep ==
  ASSUME TypeOK, SlotInv, NEW t \in Threads, OnlyThread(t),
         pc[t] \in Holding, pc'[t] \in Holding,
         UNCHANGED <<want, snap, slot, cache, created, evicted>>,
         left' = left \/ left' = left \ {slot[t]},
         pc'[t] = "linked" => fn'[t] \in Compiled,
         \A c \in Cells : c # slot[t] => cell'[c] = cell[c] /\ running'[c] = running[c]
  PROVE  ThreadInv' /\ MapInv' /\ HoldInv' /\ NoLeakedSlot'
<1> USE DEF SlotInv
<1>1. slot[t] # None /\ slot[t] \in 1 .. created /\ slot[t] \in Cells
  BY DEF ThreadInv, HoldInv, TypeOK
<1>2. \A u \in Threads : Key(u)' = Key(u)
  BY DEF Key
<1>3. ThreadInv'
  BY DEF ThreadInv, OnlyThread, Holding, Stamped, Found, Keyed
<1>4. MapInv'
  <2>1. \A c \in Cells : c > created => c # slot[t]
    BY <1>1 DEF TypeOK, Cells
  <2>2. \A c \in Cells : c > created => cell'[c] = None /\ running'[c] = None
    BY <2>1 DEF MapInv
  <2>3. slot[t] \in evicted \/ \E k \in Keys : cache[k] = slot[t]
    <3>1. Key(t) \in Keys
      BY KeyType DEF Holding, Keyed
    <3> QED BY <1>1, <3>1 DEF HoldInv
  <2>4. \A c \in Cells : cell'[c] # None => c \in evicted \/ \E k \in Keys : cache[k] = c
    BY <2>3 DEF MapInv
  <2> QED BY <2>2, <2>4 DEF MapInv
<1>5. HoldInv'
  BY <1>2 DEF HoldInv
<1>6. NoLeakedSlot'
  <2> SUFFICES ASSUME NEW k \in Keys, cache[k] # None, cell'[cache[k]] = None,
                      cache[k] \notin left'
               PROVE  \E u \in Threads : slot[u] = cache[k] \/ (pc'[u] = "remove" /\ Key(u)' = k)
    BY DEF NoLeakedSlot, Present
  <2>1. cache[k] \in Cells
    BY DEF TypeOK
  <2>2. CASE cache[k] = slot[t]
    BY <2>2
  <2>3. CASE cache[k] # slot[t]
    <3>1. PICK u \in Threads : slot[u] = cache[k] \/ (pc[u] = "remove" /\ Key(u) = k)
      BY <2>1, <2>3 DEF NoLeakedSlot, Present
    <3>2. u # t => pc'[u] = pc[u]
      BY DEF OnlyThread
    <3> QED BY <1>2, <3>1, <3>2 DEF Holding
  <2> QED BY <2>2, <2>3
<1> QED BY <1>3, <1>4, <1>5, <1>6

\* A thread gets the slot of its key, or makes it.
LEMMA GetSlotStep ==
  ASSUME IndInv, NEW t \in Threads, GetSlot(t)
  PROVE  IndInv'
<1> USE CacheAssumption DEF IndInv, LibInv, To, libVars, fileVars, sweepVars
<1>0. /\ pc[t] = "slot" /\ pc' = [pc EXCEPT ![t] = "init"]
      /\ UNCHANGED <<launches, want, seen, snap, fn, built, cell, running, left, sweepVars, libVars, site>>
  BY DEF GetSlot
<1>1. slot[t] = None /\ Key(t) \in Keys
  BY <1>0, KeyType DEF SlotInv, ThreadInv, Holding, Keyed
<1>2. \A u \in Threads : Key(u)' = Key(u)
  BY <1>0 DEF Key
<1>3. PICK c \in Cells :
        /\ slot' = [slot EXCEPT ![t] = c]
        /\ \/ cache[Key(t)] = c /\ UNCHANGED <<cache, created>>
           \/ /\ cache[Key(t)] = None /\ c = created + 1 /\ created' = created + 1
              /\ cache' = [cache EXCEPT ![Key(t)] = c]
  <2>1. CASE /\ cache[Key(t)] # None /\ slot' = [slot EXCEPT ![t] = cache[Key(t)]]
             /\ UNCHANGED <<cache, created>>
    <3>1. cache[Key(t)] \in Cells
      BY <1>1, <2>1 DEF TypeOK
    <3> QED BY <2>1, <3>1
  <2>2. CASE /\ cache[Key(t)] = None /\ created < MaxCells /\ created' = created + 1
             /\ cache' = [cache EXCEPT ![Key(t)] = created + 1]
             /\ slot' = [slot EXCEPT ![t] = created + 1]
    <3>1. created + 1 \in Cells
      BY <2>2 DEF TypeOK, Cells
    <3> QED BY <2>2, <3>1
  <2> QED BY <2>1, <2>2 DEF GetSlot
<1>4. c # None /\ OnlyThread(t) /\ slot'[t] = c /\ pc'[t] = "init"
  BY <1>0, <1>3 DEF OnlyThread, TypeOK, Cells
<1>5. /\ created \in Nat /\ created' \in Nat /\ created <= created'
      /\ c \in 1 .. created' /\ c \notin evicted /\ cache'[Key(t)] = c
  <2>1. CASE cache[Key(t)] = c /\ UNCHANGED <<cache, created>>
    BY <1>1, <1>4, <2>1 DEF SlotInv, MapInv, TypeOK
  <2>2. CASE /\ cache[Key(t)] = None /\ c = created + 1 /\ created' = created + 1
             /\ cache' = [cache EXCEPT ![Key(t)] = c]
    <3>1. evicted \subseteq 1 .. created /\ created \in Nat
      BY DEF TypeOK
    <3>2. c \notin evicted
      BY <2>2, <3>1
    <3> QED BY <1>1, <2>2, <3>1, <3>2 DEF TypeOK
  <2> QED BY <1>3, <2>1, <2>2
<1>6. \A k \in Keys : k # Key(t) => cache'[k] = cache[k]
  BY <1>3 DEF TypeOK
<1>7. \A k \in Keys : k # Key(t) => cache[k] # c
  <2>1. CASE cache[Key(t)] = c
    BY <1>1, <1>4, <2>1 DEF SlotInv, MapInv
  <2>2. CASE c = created + 1
    <3>1. \A k \in Keys : cache[k] # None => cache[k] \in 1 .. created
      BY DEF SlotInv, MapInv
    <3> QED BY <1>4, <1>5, <2>2, <3>1
  <2> QED BY <1>3, <2>1, <2>2
<1>8. TypeOK'
  <2>1. pc' \in [Threads -> Steps]
    BY <1>0 DEF TypeOK, Steps
  <2>2. slot' \in [Threads -> Cells \cup {None}] /\ cache' \in [Keys -> Cells \cup {None}]
    BY <1>3 DEF TypeOK
  <2>3. created' \in 0 .. MaxCells /\ evicted' \subseteq 1 .. created'
    BY <1>0, <1>3, <1>5 DEF TypeOK, Cells
  <2> QED BY <1>0, <2>1, <2>2, <2>3 DEF TypeOK
<1>9. ThreadInv'
  BY <1>0, <1>4 DEF SlotInv, ThreadInv, OnlyThread, Holding, Stamped, Found, Keyed
<1>10. MapInv'
  <2>1. \A k \in Keys : cache'[k] # None => cache'[k] \in (1 .. created') \ evicted
    <3>1. ASSUME NEW k \in Keys, k # Key(t), cache'[k] # None
          PROVE  cache'[k] \in (1 .. created') \ evicted
      <4>1. cache[k] \in (1 .. created) \ evicted
        BY <1>6, <3>1 DEF SlotInv, MapInv
      <4> QED BY <1>5, <1>6, <3>1, <4>1
    <3> QED BY <1>5, <3>1
  <2>2. \A k, j \in Keys : cache'[k] # None /\ cache'[k] = cache'[j] => k = j
    BY <1>5, <1>6, <1>7 DEF SlotInv, MapInv
  <2>3. \A d \in Cells : d > created' => cell'[d] = None /\ running'[d] = None
    BY <1>0, <1>5 DEF SlotInv, MapInv, Cells
  <2>4. \A d \in Cells : cell'[d] # None => d \in evicted \/ \E k \in Keys : cache'[k] = d
    <3>1. ASSUME NEW k \in Keys, cache[k] # None PROVE cache'[k] = cache[k]
      BY <1>1, <1>3, <3>1 DEF TypeOK
    <3>2. \A d \in Cells : d # None
      BY DEF Cells
    <3> QED BY <1>0, <3>1, <3>2 DEF SlotInv, MapInv
  <2> QED BY <1>0, <2>1, <2>2, <2>3, <2>4 DEF MapInv
<1>11. HoldInv'
  <2>1. ASSUME NEW u \in Threads, u # t, slot[u] # None
        PROVE  /\ slot[u] \in 1 .. created' /\ (slot[u] \in evicted \/ cache'[Key(u)] = slot[u])
               /\ slot[u] = c => Key(u) = Key(t)
    <3>1. Key(u) \in Keys /\ slot[u] \in 1 .. created
      BY <2>1, KeyType DEF SlotInv, ThreadInv, Holding, HoldInv, Keyed
    <3>2. slot[u] \in evicted \/ cache[Key(u)] = slot[u]
      BY <2>1 DEF SlotInv, HoldInv
    <3>3. cache[Key(u)] = slot[u] => cache'[Key(u)] = slot[u]
      BY <1>1, <1>3, <2>1, <3>1 DEF TypeOK
    <3>4. slot[u] = c => Key(u) = Key(t)
      BY <1>5, <1>7, <3>1, <3>2
    <3> QED BY <1>5, <3>1, <3>2, <3>3, <3>4
  <2>2. \A u \in Threads : u # t => slot'[u] = slot[u]
    BY <1>4 DEF OnlyThread
  <2>3. \A u \in Threads : slot'[u] # None =>
          slot'[u] \in 1 .. created' /\ (slot'[u] \in evicted \/ cache'[Key(u)] = slot'[u])
    BY <1>4, <1>5, <2>1, <2>2
  <2>4. \A u, v \in Threads : slot'[u] # None /\ slot'[u] = slot'[v] => Key(u) = Key(v)
    BY <1>4, <2>1, <2>2 DEF SlotInv, HoldInv
  <2> QED BY <1>0, <1>2, <2>3, <2>4 DEF HoldInv
<1>12. RunInv'
  <2>1. \A d \in Cells : running[d] # None => running[d] \in Threads \ {t}
    BY <1>0 DEF SlotInv, RunInv, TypeOK
  <2> QED BY <1>0, <1>4, <2>1 DEF SlotInv, RunInv, OnlyThread
<1>13. NoLeakedSlot'
  <2> SUFFICES ASSUME NEW k \in Keys, cache'[k] # None, cell[cache'[k]] = None,
                      cache'[k] \notin left
               PROVE  \E u \in Threads : slot'[u] = cache'[k] \/ (pc'[u] = "remove" /\ Key(u) = k)
    BY <1>0, <1>2 DEF NoLeakedSlot, Present
  <2>1. CASE k = Key(t)
    BY <1>4, <1>5, <2>1
  <2>2. CASE k # Key(t)
    <3>1. PICK u \in Threads : slot[u] = cache[k] \/ (pc[u] = "remove" /\ Key(u) = k)
      BY <1>6, <2>2 DEF SlotInv, NoLeakedSlot, Present
    <3>2. u # t
      BY <1>0, <1>1, <1>6, <2>2, <3>1
    <3> QED BY <1>4, <1>6, <2>2, <3>1, <3>2 DEF OnlyThread
  <2> QED BY <2>1, <2>2
<1>14. CellInv'
  <2>1. cell[c] # None => Describes(cell[c], Key(t))
    <3>1. CASE cache[Key(t)] = c
      BY <1>1, <1>4, <3>1 DEF CellInv, Describes
    <3>2. CASE c = created + 1
      BY <1>5, <3>2 DEF SlotInv, MapInv
    <3> QED BY <1>3, <3>1, <3>2
  <2>2. \A k \in Keys : cache'[k] # None /\ cell[cache'[k]] # None => Describes(cell[cache'[k]], k)
    BY <1>5, <1>6, <2>1 DEF CellInv, Describes
  <2>3. \A u \in Threads : slot'[u] # None /\ cell[slot'[u]] # None => Describes(cell[slot'[u]], Key(u))
    BY <1>4, <2>1 DEF CellInv, Describes, OnlyThread
  <2>4. \A u \in Threads : pc'[u] \in {"fill", "store"} => Describes(fn[u], Key(u))
    BY <1>4 DEF CellInv, Describes, OnlyThread
  <2> QED BY <1>0, <1>2, <2>2, <2>3, <2>4 DEF CellInv, Describes
<1>15. SnapInv'
  <2>1. SnapOK(t)' /\ FreshOK(t)'
    BY <1>0, <1>4 DEF SnapInv, SnapOK, FreshOK, Old, Stamped, Found, Keyed
  <2> QED BY <1>0, <1>4, <2>1, SnapStep
<1>16. SiteInv' /\ BoundInv' /\ HistoryInv'
  BY <1>0 DEF SiteInv, BoundInv, HistoryInv
<1>17. ASSUME ~repeated' PROVE ShownInv'
  BY <1>0, <1>4, <1>17, KeyedStep DEF SlotInv, Keyed
<1> QED BY <1>17, <1>8, <1>9, <1>10, <1>11, <1>12, <1>13, <1>14, <1>15, <1>16 DEF SlotInv

\* The thread that initializes a cell is the only one to compile for it.
LEMMA StartCompileStep ==
  ASSUME IndInv, NEW t \in Threads, StartCompile(t)
  PROVE  IndInv'
<1> USE CacheAssumption DEF IndInv, LibInv, StartCompile, To, libVars, fileVars, sweepVars, slotVars
<1>1. OnlyThread(t)
  BY DEF OnlyThread, TypeOK
<1>2. pc[t] = "init" /\ pc'[t] = "compile" /\ slot[t] \in Cells /\ running'[slot[t]] = t
  BY DEF TypeOK, SlotInv, ThreadInv, Holding
<1>3. TypeOK'
  BY <1>2 DEF TypeOK, Steps
<1>4. ThreadInv' /\ MapInv' /\ HoldInv' /\ NoLeakedSlot'
  <2>1. \A c \in Cells : c # slot[t] => cell'[c] = cell[c] /\ running'[c] = running[c]
    BY <1>2 DEF TypeOK
  <2> QED BY <1>1, <1>2, <2>1, InsideStep DEF Holding
<1>5. RunInv'
  <2>1. \A c \in Cells \ {slot[t]} : running'[c] = running[c]
    BY DEF TypeOK
  <2>2. \A c \in Cells : running[c] # None => running[c] \in Threads \ {t}
    BY <1>2 DEF TypeOK, SlotInv, RunInv
  <2>3. \A u \in Threads \ {t} : pc[u] \in {"compile", "linked"} =>
          slot[u] \in Cells \ {slot[t]} /\ running[slot[u]] = u
    BY DEF TypeOK, SlotInv, RunInv, ThreadInv, Holding
  <2> QED BY <1>1, <1>2, <2>1, <2>2, <2>3 DEF SlotInv, RunInv, OnlyThread
<1>6. CellInv'
  BY <1>1, <1>2 DEF CellInv, Describes, OnlyThread, Key
<1>7. SnapInv'
  <2>1. SnapOK(t)' /\ FreshOK(t)'
    BY <1>2 DEF SnapInv, SnapOK, FreshOK, Old, Stamped, Found, Keyed
  <2> QED BY <1>1, <2>1, SnapStep
<1>8. SiteInv' /\ BoundInv' /\ HistoryInv'
  BY DEF SiteInv, BoundInv, HistoryInv
<1>9. ASSUME ~repeated' PROVE ShownInv'
  BY <1>1, <1>2, <1>9, KeyedStep DEF SlotInv, Keyed
<1> QED BY <1>9, <1>3, <1>4, <1>5, <1>6, <1>7, <1>8 DEF SlotInv

\* The library file is linked as it is now.
LEMMA LinkStep ==
  ASSUME IndInv, NEW t \in Threads, Link(t)
  PROVE  IndInv'
<1> USE CacheAssumption DEF IndInv, LibInv, Link, To, libVars, fileVars, sweepVars, slotVars
<1>1. OnlyThread(t)
  BY DEF OnlyThread, TypeOK
<1>2. /\ pc[t] = "compile" /\ pc'[t] = "linked" /\ slot[t] \in Cells
      /\ fn'[t] = [kernel |-> want[t], defaults |-> snap[t].defaults,
                   linked |-> <<snap[t].file, disk[snap[t].file].build>>]
  BY DEF TypeOK, SlotInv, ThreadInv, Holding
<1>3. fn'[t] \in Compiled
  <2>1. want[t] \in Kernels /\ snap[t].defaults \in Versions /\ snap[t].file \in Files
    BY <1>2 DEF TypeOK, Snapshots, SlotInv, ThreadInv, Found, Keyed
  <2>2. disk[snap[t].file].build \in Versions
    BY <2>1 DEF TypeOK
  <2> QED BY <1>2, <2>1, <2>2 DEF Compiled, Contents
<1>4. TypeOK'
  BY <1>2, <1>3 DEF TypeOK, Steps
<1>5. ThreadInv' /\ MapInv' /\ HoldInv' /\ NoLeakedSlot'
  BY <1>1, <1>2, <1>3, InsideStep DEF Holding
<1>6. RunInv'
  BY <1>1, <1>2 DEF SlotInv, RunInv, OnlyThread, TypeOK
<1>7. CellInv'
  BY <1>1, <1>2 DEF CellInv, Describes, OnlyThread, Key
<1>8. SnapInv'
  <2>1. SnapOK(t)' /\ FreshOK(t)'
    BY <1>2 DEF SnapInv, SnapOK, FreshOK, Old, Stamped, Found, Keyed
  <2> QED BY <1>1, <2>1, SnapStep
<1>9. SiteInv' /\ BoundInv' /\ HistoryInv'
  BY DEF SiteInv, BoundInv, HistoryInv
<1>10. ASSUME ~repeated' PROVE ShownInv'
  <2>1. ShownInv
    BY <1>10
  <2>2. snap[t].stamp = Now.stamp => fn'[t].linked = Now.contents
    BY <1>2, <2>1 DEF ShownInv, TrueOK, Found, Keyed, Now, View
  <2> QED BY <1>1, <1>2, <2>1, <2>2, KeyedStep DEF SlotInv, Keyed
<1> QED BY <1>10, <1>4, <1>5, <1>6, <1>7, <1>8, <1>9 DEF SlotInv

\* A cell is filled only if the file did not change since it was hashed, so
\* with what the key names.
LEMMA CompileOkStep ==
  ASSUME IndInv, NEW t \in Threads, CompileOk(t)
  PROVE  IndInv'
<1> USE CacheAssumption DEF IndInv, LibInv, CompileOk, To, libVars, fileVars, sweepVars, slotVars
<1>1. OnlyThread(t)
  BY DEF OnlyThread, TypeOK
<1>2. /\ pc[t] = "linked" /\ pc'[t] = "init" /\ slot[t] \in Cells /\ slot[t] # None
      /\ fn[t] \in Compiled
  BY DEF TypeOK, SlotInv, ThreadInv, Holding
<1>3. TypeOK'
  <2>1. cell' \in [Cells -> Compiled \cup {None}]
    BY <1>2 DEF TypeOK
  <2>2. pc' \in [Threads -> Steps] /\ running' \in [Cells -> Threads \cup {None}]
    BY DEF TypeOK, Steps
  <2>3. fn' \in [Threads -> Compiled \cup {None}]
    BY DEF TypeOK
  <2> QED BY <2>1, <2>2, <2>3 DEF TypeOK
<1>4. Describes(fn[t], Key(t))
  <2>1. fn[t].kernel = want[t] /\ fn[t].defaults = snap[t].defaults
    BY <1>2 DEF SnapInv, SnapOK
  <2>2. want[t] \in Linking /\ ~repeated => fn[t].linked = snap[t].digest
    BY <1>2 DEF ShownInv, TrueOK, Usable, FilesUnchanged, Keyed
  <2> QED BY <2>1, <2>2 DEF Describes, Key
<1>5. /\ \A c \in Cells : c # slot[t] => cell'[c] = cell[c] /\ running'[c] = running[c]
      /\ cell'[slot[t]] = fn[t] /\ running'[slot[t]] = None
  BY <1>2 DEF TypeOK
<1>6. ThreadInv' /\ MapInv' /\ HoldInv' /\ NoLeakedSlot'
  BY <1>1, <1>2, <1>5, InsideStep DEF Holding
<1>7. RunInv'
  <2>1. \A c \in Cells : running'[c] # None => c # slot[t] /\ running[c] \in Threads \ {t}
    BY <1>5 DEF TypeOK, SlotInv, RunInv
  <2>2. \A u \in Threads \ {t} : pc[u] \in {"compile", "linked"} =>
          slot[u] \in Cells \ {slot[t]} /\ running[slot[u]] = u
    BY <1>2 DEF TypeOK, SlotInv, RunInv, ThreadInv, Holding
  <2> QED BY <1>1, <1>2, <1>5, <2>1, <2>2 DEF SlotInv, RunInv, OnlyThread
<1>8. CellInv'
  <2>1. \A u \in Threads : Key(u)' = Key(u)
    BY DEF Key
  <2>2. ASSUME NEW k \in Keys, cache[k] # None, cell'[cache[k]] # None
        PROVE  Describes(cell'[cache[k]], k)
    <3>1. cache[k] \in Cells
      BY <2>2 DEF TypeOK
    <3>2. CASE cache[k] = slot[t]
      BY <1>2, <1>4, <1>5, <3>2, SlotKey
    <3> QED BY <1>5, <2>2, <3>1, <3>2 DEF CellInv, Describes
  <2>3. ASSUME NEW u \in Threads, slot[u] # None, cell'[slot[u]] # None
        PROVE  Describes(cell'[slot[u]], Key(u))
    <3>1. slot[u] \in Cells
      BY <2>3 DEF TypeOK
    <3>2. CASE slot[u] = slot[t]
      BY <1>4, <1>5, <2>3, <3>2 DEF SlotInv, HoldInv
    <3> QED BY <1>5, <2>3, <3>1, <3>2 DEF CellInv, Describes
  <2>4. \A u \in Threads : pc'[u] \in {"fill", "store"} => Describes(fn'[u], Key(u))
    BY <1>1, <1>2 DEF CellInv, Describes, OnlyThread
  <2> QED BY <2>1, <2>2, <2>3, <2>4 DEF CellInv, Describes
<1>9. SnapInv'
  <2>1. SnapOK(t)' /\ FreshOK(t)'
    BY <1>2 DEF SnapInv, SnapOK, FreshOK, Old, Stamped, Found, Keyed
  <2> QED BY <1>1, <2>1, SnapStep
<1>10. SiteInv' /\ BoundInv' /\ HistoryInv'
  BY DEF SiteInv, BoundInv, HistoryInv
<1>11. ASSUME ~repeated' PROVE ShownInv'
  BY <1>1, <1>2, <1>11, KeyedStep DEF SlotInv, Keyed
<1> QED BY <1>11, <1>3, <1>6, <1>7, <1>8, <1>9, <1>10 DEF SlotInv

\* A failed compile leaves the cell empty and lets the next thread in.
LEMMA CompileFailsStep ==
  ASSUME IndInv, NEW t \in Threads, CompileFails(t)
  PROVE  IndInv'
<1> USE CacheAssumption DEF IndInv, LibInv, CompileFails, To, libVars, fileVars, sweepVars, slotVars
<1>1. OnlyThread(t)
  BY DEF OnlyThread, TypeOK
<1>2. /\ pc[t] \in {"compile", "linked"} /\ pc'[t] = "failed"
      /\ slot[t] \in Cells /\ slot[t] # None
  BY DEF TypeOK, SlotInv, ThreadInv, Holding
<1>3. TypeOK'
  <2>1. pc' \in [Threads -> Steps]
    BY DEF TypeOK, Steps
  <2>2. running' \in [Cells -> Threads \cup {None}] /\ fn' \in [Threads -> Compiled \cup {None}]
    BY DEF TypeOK
  <2> QED BY <2>1, <2>2 DEF TypeOK
<1>5. /\ \A c \in Cells : c # slot[t] => cell'[c] = cell[c] /\ running'[c] = running[c]
      /\ running'[slot[t]] = None
  BY <1>2 DEF TypeOK
<1>6. ThreadInv' /\ MapInv' /\ HoldInv' /\ NoLeakedSlot'
  BY <1>1, <1>2, <1>5, InsideStep DEF Holding
<1>7. RunInv'
  <2>1. \A c \in Cells : running'[c] # None => c # slot[t] /\ running[c] \in Threads \ {t}
    BY <1>5 DEF TypeOK, SlotInv, RunInv
  <2>2. \A u \in Threads \ {t} : pc[u] \in {"compile", "linked"} =>
          slot[u] \in Cells \ {slot[t]} /\ running[slot[u]] = u
    BY <1>2 DEF TypeOK, SlotInv, RunInv, ThreadInv, Holding
  <2> QED BY <1>1, <1>2, <1>5, <2>1, <2>2 DEF SlotInv, RunInv, OnlyThread
<1>8. CellInv'
  BY <1>1, <1>2 DEF CellInv, Describes, OnlyThread, Key
<1>9. SnapInv'
  <2>1. SnapOK(t)' /\ FreshOK(t)'
    BY <1>2 DEF SnapInv, SnapOK, FreshOK, Old, Stamped, Found, Keyed
  <2> QED BY <1>1, <2>1, SnapStep
<1>10. SiteInv' /\ BoundInv' /\ HistoryInv'
  BY DEF SiteInv, BoundInv, HistoryInv
<1>11. ASSUME ~repeated' PROVE ShownInv'
  BY <1>1, <1>2, <1>11, KeyedStep DEF SlotInv, Keyed
<1> QED BY <1>11, <1>3, <1>6, <1>7, <1>8, <1>9, <1>10 DEF SlotInv

\* A panic lets the next thread in as well, and leaves the slot in the map.
LEMMA CompilePanicsStep ==
  ASSUME IndInv, NEW t \in Threads, CompilePanics(t)
  PROVE  IndInv'
<1> USE CacheAssumption DEF IndInv, LibInv, CompilePanics, To, libVars, fileVars, sweepVars
<1>1. OnlyThread(t)
  BY DEF OnlyThread, TypeOK
<1>2. /\ pc[t] = "compile" /\ pc'[t] = "idle" /\ slot[t] \in Cells /\ slot[t] # None
      /\ slot'[t] = None /\ seen'[t] = NothingSeen
  BY DEF TypeOK, SlotInv, ThreadInv, Holding
<1>3. TypeOK'
  <2>1. /\ pc' \in [Threads -> Steps] /\ running' \in [Cells -> Threads \cup {None}]
        /\ left' \subseteq Cells
    BY <1>2 DEF TypeOK, Steps
  <2>2. want' \in [Threads -> Kernels \cup {None}] /\ slot' \in [Threads -> Cells \cup {None}]
    BY DEF TypeOK
  <2>3. snap' \in [Threads -> Snapshots] /\ seen' \in [Threads -> [defaults : Versions, old : SUBSET Contents]]
    BY DEF TypeOK, Snapshots, NoSnapshot, NothingSeen, Versions
  <2> QED BY <2>1, <2>2, <2>3 DEF TypeOK
<1>4. \A u \in Threads : slot'[u] # None => u # t /\ slot'[u] = slot[u] /\ Key(u)' = Key(u)
  BY <1>1, <1>2 DEF Key, OnlyThread
<1>5. /\ \A c \in Cells : c # slot[t] => running'[c] = running[c]
      /\ running'[slot[t]] = None
  BY <1>2 DEF TypeOK
<1>6. ThreadInv'
  BY <1>1, <1>2 DEF SlotInv, ThreadInv, OnlyThread, Holding, Stamped, Found, Keyed
<1>7. MapInv'
  BY <1>5 DEF SlotInv, MapInv
<1>8. HoldInv'
  BY <1>4 DEF SlotInv, HoldInv
<1>9. RunInv'
  <2>1. \A c \in Cells : running'[c] # None => c # slot[t] /\ running[c] \in Threads \ {t}
    BY <1>5 DEF TypeOK, SlotInv, RunInv
  <2>2. \A u \in Threads \ {t} : pc[u] \in {"compile", "linked"} =>
          slot[u] \in Cells \ {slot[t]} /\ running[slot[u]] = u
    BY <1>2 DEF TypeOK, SlotInv, RunInv, ThreadInv, Holding
  <2> QED BY <1>1, <1>2, <1>5, <2>1, <2>2 DEF SlotInv, RunInv, OnlyThread
<1>10. NoLeakedSlot'
  <2> SUFFICES ASSUME NEW k \in Keys, cache[k] # None, cell[cache[k]] = None,
                      cache[k] \notin left'
               PROVE  \E u \in Threads : slot'[u] = cache[k] \/ (pc'[u] = "remove" /\ Key(u)' = k)
    BY DEF NoLeakedSlot, Present
  <2>1. PICK u \in Threads : slot[u] = cache[k] \/ (pc[u] = "remove" /\ Key(u) = k)
    BY DEF SlotInv, NoLeakedSlot, Present
  <2>2. u # t
    BY <1>2, <2>1
  <2>3. pc'[u] = pc[u] /\ slot'[u] = slot[u] /\ Key(u)' = Key(u)
    BY <1>1, <2>2 DEF OnlyThread, Key
  <2> QED BY <2>1, <2>3
<1>11. CellInv'
  <2>1. \A u \in Threads : pc'[u] \in {"fill", "store"} => Describes(fn'[u], Key(u)')
    BY <1>1, <1>2 DEF CellInv, OnlyThread, Key
  <2> QED BY <1>4, <2>1 DEF CellInv, Describes
<1>12. SnapInv'
  <2>1. SnapOK(t)' /\ FreshOK(t)'
    BY <1>2 DEF SnapOK, FreshOK, NothingSeen, Stamped, Found, Keyed
  <2> QED BY <1>1, <2>1, SnapStep
<1>13. SiteInv' /\ BoundInv' /\ HistoryInv'
  BY DEF SiteInv, BoundInv, HistoryInv
<1>14. ASSUME ~repeated' PROVE ShownInv'
  <2>1. ShownInv /\ SiteTrue' /\ LaunchNew(t)'
    BY <1>2, <1>14 DEF ShownInv, SiteTrue, Shown, Now, View, LaunchNew
  <2> QED BY <1>1, <1>2, <2>1, OutsideStep DEF SlotInv, Stamped, Found, Keyed
<1> QED BY <1>3, <1>6, <1>7, <1>8, <1>9, <1>10, <1>11, <1>12, <1>13, <1>14 DEF SlotInv

\* A thread takes the kernel out of its cell and lets go of the slot.
LEMMA ResolveStep ==
  ASSUME IndInv, NEW t \in Threads, Resolve(t)
  PROVE  IndInv'
<1> USE CacheAssumption DEF IndInv, LibInv, Resolve, To, libVars, fileVars, sweepVars, slotVars
<1>1. OnlyThread(t)
  BY DEF OnlyThread, TypeOK
<1>2. /\ pc[t] = "init" /\ pc'[t] = "fill" /\ slot[t] \in Cells /\ slot[t] # None
      /\ slot'[t] = None /\ fn'[t] = cell[slot[t]] /\ cell[slot[t]] \in Compiled
  BY DEF TypeOK, SlotInv, ThreadInv, Holding
<1>3. TypeOK'
  BY <1>2 DEF TypeOK, Steps
<1>4. /\ \A u \in Threads : Key(u)' = Key(u)
      /\ \A u \in Threads : slot'[u] # None => u # t /\ slot'[u] = slot[u]
  BY <1>1, <1>2 DEF Key, OnlyThread
<1>5. ThreadInv'
  BY <1>1, <1>2 DEF SlotInv, ThreadInv, OnlyThread, Holding, Stamped, Found, Keyed
<1>6. MapInv'
  BY DEF SlotInv, MapInv
<1>7. HoldInv'
  BY <1>4 DEF SlotInv, HoldInv
<1>8. RunInv'
  <2>1. \A c \in Cells : running[c] # None => running[c] \in Threads \ {t}
    BY <1>2 DEF TypeOK, SlotInv, RunInv
  <2> QED BY <1>1, <1>2, <2>1 DEF SlotInv, RunInv, OnlyThread
<1>9. NoLeakedSlot'
  <2> SUFFICES ASSUME NEW k \in Keys, cache[k] # None, cell[cache[k]] = None,
                      cache[k] \notin left
               PROVE  \E u \in Threads : slot'[u] = cache[k] \/ (pc'[u] = "remove" /\ Key(u) = k)
    BY <1>4 DEF NoLeakedSlot, Present
  <2>1. PICK u \in Threads : slot[u] = cache[k] \/ (pc[u] = "remove" /\ Key(u) = k)
    BY DEF SlotInv, NoLeakedSlot, Present
  <2>2. u # t
    BY <1>2, <2>1
  <2> QED BY <1>1, <2>1, <2>2 DEF OnlyThread
<1>10. CellInv'
  <2>1. Describes(cell[slot[t]], Key(t))
    BY <1>2 DEF CellInv, Describes
  <2>2. \A u \in Threads : pc'[u] \in {"fill", "store"} => Describes(fn'[u], Key(u))
    BY <1>1, <1>2, <2>1 DEF CellInv, Describes, OnlyThread
  <2> QED BY <1>4, <2>2 DEF CellInv, Describes
<1>11. SnapInv'
  <2>1. SnapOK(t)' /\ FreshOK(t)'
    BY <1>2 DEF SnapInv, SnapOK, FreshOK, Old, Stamped, Found, Keyed
  <2> QED BY <1>1, <2>1, SnapStep
<1>12. SiteInv' /\ BoundInv' /\ HistoryInv'
  BY DEF SiteInv, BoundInv, HistoryInv
<1>13. ASSUME ~repeated' PROVE ShownInv'
  BY <1>1, <1>2, <1>13, KeyedStep DEF SlotInv, Keyed
<1> QED BY <1>13, <1>3, <1>5, <1>6, <1>7, <1>8, <1>9, <1>10, <1>11, <1>12 DEF SlotInv

\* A thread that failed lets go of its slot; it will look at the entry of its
\* key, which is where the slot is unless it was evicted.
LEMMA DropSlotStep ==
  ASSUME IndInv, NEW t \in Threads, DropSlot(t)
  PROVE  IndInv'
<1> USE CacheAssumption DEF IndInv, LibInv, DropSlot, To, libVars, fileVars, sweepVars, slotVars
<1>1. OnlyThread(t)
  BY DEF OnlyThread, TypeOK
<1>2. /\ pc[t] = "failed" /\ pc'[t] = "remove" /\ slot[t] \in Cells /\ slot[t] # None
      /\ slot'[t] = None
  BY DEF TypeOK, SlotInv, ThreadInv, Holding
<1>3. TypeOK'
  BY <1>2 DEF TypeOK, Steps
<1>4. /\ \A u \in Threads : Key(u)' = Key(u)
      /\ \A u \in Threads : slot'[u] # None => u # t /\ slot'[u] = slot[u]
  BY <1>1, <1>2 DEF Key, OnlyThread
<1>5. ThreadInv'
  BY <1>1, <1>2 DEF SlotInv, ThreadInv, OnlyThread, Holding, Stamped, Found, Keyed
<1>6. MapInv'
  BY DEF SlotInv, MapInv
<1>7. HoldInv'
  BY <1>4 DEF SlotInv, HoldInv
<1>8. RunInv'
  <2>1. \A c \in Cells : running[c] # None => running[c] \in Threads \ {t}
    BY <1>2 DEF TypeOK, SlotInv, RunInv
  <2> QED BY <1>1, <1>2, <2>1 DEF SlotInv, RunInv, OnlyThread
<1>9. NoLeakedSlot'
  <2> SUFFICES ASSUME NEW k \in Keys, cache[k] # None, cell[cache[k]] = None,
                      cache[k] \notin left
               PROVE  \E u \in Threads : slot'[u] = cache[k] \/ (pc'[u] = "remove" /\ Key(u) = k)
    BY <1>4 DEF NoLeakedSlot, Present
  <2>1. PICK u \in Threads : slot[u] = cache[k] \/ (pc[u] = "remove" /\ Key(u) = k)
    BY DEF SlotInv, NoLeakedSlot, Present
  <2>2. CASE u = t
    <3>1. slot[t] = cache[k]
      BY <1>2, <2>1, <2>2
    <3>2. Key(t) = k
      BY <1>2, <3>1, SlotKey
    <3> QED BY <1>2, <3>2
  <2>3. CASE u # t
    BY <1>1, <2>1, <2>3 DEF OnlyThread
  <2> QED BY <2>2, <2>3
<1>10. CellInv'
  BY <1>1, <1>2, <1>4 DEF CellInv, Describes, OnlyThread
<1>11. SnapInv'
  <2>1. SnapOK(t)' /\ FreshOK(t)'
    BY <1>2 DEF SnapInv, SnapOK, FreshOK, Old, Stamped, Found, Keyed
  <2> QED BY <1>1, <2>1, SnapStep
<1>12. SiteInv' /\ BoundInv' /\ HistoryInv'
  BY DEF SiteInv, BoundInv, HistoryInv
<1>13. ASSUME ~repeated' PROVE ShownInv'
  BY <1>1, <1>2, <1>13, KeyedStep DEF SlotInv, Keyed
<1> QED BY <1>13, <1>3, <1>5, <1>6, <1>7, <1>8, <1>9, <1>10, <1>11, <1>12 DEF SlotInv

\* A failed thread takes its entry out of the map only if nobody holds it and
\* it is empty; if it stays, whoever holds it answers for it.
LEMMA RemoveSlotStep ==
  ASSUME IndInv, NEW t \in Threads, RemoveSlot(t)
  PROVE  IndInv'
<1> USE CacheAssumption DEF IndInv, LibInv, RemoveSlot, To, libVars, fileVars, sweepVars
<1>1. OnlyThread(t)
  BY DEF OnlyThread, TypeOK
<1>2. pc[t] = "remove" /\ pc'[t] = "idle" /\ slot[t] = None /\ slot'[t] = None /\ Key(t) \in Keys
  BY KeyType DEF TypeOK, SlotInv, ThreadInv, Holding, Keyed
<1>3. \A u \in Threads \ {t} : Key(u)' = Key(u)
  BY <1>1 DEF Key, OnlyThread
<1>4. TypeOK'
  <2>1. pc' \in [Threads -> Steps] /\ cache' \in [Keys -> Cells \cup {None}]
    BY DEF TypeOK, Steps
  <2>2. want' \in [Threads -> Kernels \cup {None}] /\ slot' \in [Threads -> Cells \cup {None}]
    BY DEF TypeOK
  <2>3. snap' \in [Threads -> Snapshots] /\ seen' \in [Threads -> [defaults : Versions, old : SUBSET Contents]]
    BY DEF TypeOK, Snapshots, NoSnapshot, NothingSeen, Versions
  <2> QED BY <2>1, <2>2, <2>3 DEF TypeOK
<1>5. \A k \in Keys : \/ cache'[k] = cache[k]
                       \/ /\ k = Key(t) /\ cache'[k] = None /\ cell[cache[k]] = None
                          /\ \A u \in Threads : slot[u] # cache[k]
  <2>0. cache' = IF Abandoned(cache[Key(t)]) THEN [cache EXCEPT ![Key(t)] = None] ELSE cache
    OBVIOUS
  <2>1. CASE Abandoned(cache[Key(t)])
    <3>1. cache' = [cache EXCEPT ![Key(t)] = None]
      BY <2>0, <2>1, Zenon
    <3> QED BY <1>2, <2>1, <3>1 DEF TypeOK, Abandoned
  <2>2. CASE ~Abandoned(cache[Key(t)])
    <3>1. cache' = cache
      BY <2>0, <2>2, Zenon
    <3> QED BY <3>1
  <2> QED BY <2>1, <2>2
<1>6. ThreadInv'
  BY <1>1, <1>2 DEF SlotInv, ThreadInv, OnlyThread, Holding, Stamped, Found, Keyed
<1>7. MapInv'
  <2>1. \A c \in Cells : cell[c] # None => c \in evicted \/ \E k \in Keys : cache'[k] = c
    BY <1>5 DEF SlotInv, MapInv
  <2> QED BY <1>5, <2>1 DEF SlotInv, MapInv
<1>8. \A u \in Threads : slot'[u] # None =>
        u # t /\ slot'[u] = slot[u] /\ Key(u) \in Keys /\ Key(u)' = Key(u)
  BY <1>1, <1>2, <1>3, KeyType DEF OnlyThread, SlotInv, ThreadInv, Holding, Keyed
<1>9. HoldInv'
  <2>1. \A u \in Threads : slot'[u] # None =>
          slot'[u] \in 1 .. created /\ (slot'[u] \in evicted \/ cache'[Key(u)] = slot'[u])
    BY <1>5, <1>8 DEF SlotInv, HoldInv
  <2>2. \A u, v \in Threads : slot'[u] # None /\ slot'[u] = slot'[v] => Key(u) = Key(v)
    BY <1>8 DEF SlotInv, HoldInv
  <2> QED BY <1>8, <2>1, <2>2 DEF HoldInv
<1>10. RunInv'
  <2>1. \A c \in Cells : running[c] # None => running[c] \in Threads \ {t}
    BY <1>2 DEF TypeOK, SlotInv, RunInv
  <2> QED BY <1>1, <1>2, <2>1 DEF SlotInv, RunInv, OnlyThread
<1>11. NoLeakedSlot'
  <2> SUFFICES ASSUME NEW k \in Keys, cache'[k] # None, cell[cache'[k]] = None,
                      cache'[k] \notin left
               PROVE  \E u \in Threads : slot'[u] = cache'[k] \/ (pc'[u] = "remove" /\ Key(u)' = k)
    BY DEF NoLeakedSlot, Present
  <2>1. cache'[k] = cache[k]
    BY <1>5
  <2>2. PICK u \in Threads : slot[u] = cache[k] \/ (pc[u] = "remove" /\ Key(u) = k)
    BY <2>1 DEF SlotInv, NoLeakedSlot, Present
  <2>3. CASE u = t
    <3>1. k = Key(t)
      BY <1>2, <2>1, <2>2, <2>3
    <3>2. ~Abandoned(cache[k])
      BY <1>2, <2>1, <3>1 DEF TypeOK
    <3>3. PICK v \in Threads : slot[v] = cache[k]
      BY <2>1, <3>2 DEF Abandoned
    <3>4. v # t
      BY <1>2, <2>1, <3>3
    <3> QED BY <1>1, <2>1, <3>3, <3>4 DEF OnlyThread
  <2>4. CASE u # t
    BY <1>1, <1>3, <2>1, <2>2, <2>4 DEF OnlyThread
  <2> QED BY <2>3, <2>4
<1>12. CellInv'
  <2>1. \A k \in Keys : cache'[k] # None /\ cell[cache'[k]] # None => Describes(cell[cache'[k]], k)
    BY <1>5 DEF CellInv, Describes
  <2>2. \A u \in Threads : slot'[u] # None /\ cell[slot'[u]] # None =>
          Describes(cell[slot'[u]], Key(u)')
    BY <1>8 DEF CellInv, Describes
  <2>3. \A u \in Threads : pc'[u] \in {"fill", "store"} => Describes(fn'[u], Key(u)')
    BY <1>1, <1>2, <1>3 DEF CellInv, Describes, OnlyThread
  <2> QED BY <2>1, <2>2, <2>3 DEF CellInv, Describes
<1>13. SnapInv'
  <2>1. SnapOK(t)' /\ FreshOK(t)'
    BY <1>2 DEF SnapOK, FreshOK, NothingSeen, TypeOK, Stamped, Found, Keyed
  <2> QED BY <1>1, <2>1, SnapStep
<1>14. SiteInv' /\ BoundInv' /\ HistoryInv'
  BY DEF SiteInv, BoundInv, HistoryInv
<1>15. ASSUME ~repeated' PROVE ShownInv'
  <2>1. ShownInv /\ SiteTrue' /\ LaunchNew(t)'
    BY <1>2, <1>15 DEF ShownInv, SiteTrue, Shown, Now, View, LaunchNew
  <2> QED BY <1>1, <1>2, <2>1, OutsideStep DEF SlotInv, Stamped, Found, Keyed
<1> QED BY <1>15, <1>4, <1>6, <1>7, <1>9, <1>10, <1>11, <1>12, <1>13, <1>14 DEF SlotInv

-----------------------------------------------------------------------------
(* Eviction and the libraries.                                             *)

\* An evicted slot is in the map no more, and those who hold it know it as
\* evicted.
LEMMA Evict ==
  ASSUME TypeOK, SlotInv, CellInv, NEW k \in Keys, cache[k] # None,
         cache' = [cache EXCEPT ![k] = None], evicted' = evicted \cup {cache[k]},
         UNCHANGED <<threadVars, cell, running, left, created, repeated>>
  PROVE  /\ cache' \in [Keys -> Cells \cup {None}] /\ evicted' \subseteq 1 .. created
         /\ SlotInv' /\ CellInv'
<1> USE DEF threadVars, SlotInv
<1>1. \A j \in Keys : cache'[j] # None => j # k /\ cache'[j] = cache[j] /\ cache[j] # cache[k]
  BY DEF TypeOK, MapInv
<1>2. \A u \in Threads : Key(u)' = Key(u)
  BY DEF Key
<1>3. cache' \in [Keys -> Cells \cup {None}] /\ evicted' \subseteq 1 .. created
  BY DEF TypeOK, MapInv
<1>4. ThreadInv' /\ RunInv'
  BY DEF ThreadInv, RunInv
<1>5. MapInv'
  <2>1. \A c \in Cells : (\E j \in Keys : cache[j] = c) =>
          c \in evicted' \/ \E j \in Keys : cache'[j] = c
    BY DEF TypeOK
  <2> QED BY <1>1, <2>1 DEF MapInv
<1>6. HoldInv'
  <2>1. ASSUME NEW u \in Threads, slot[u] # None
        PROVE  slot[u] \in evicted' \/ cache'[Key(u)] = slot[u]
    <3>1. Key(u) \in Keys
      BY <2>1, KeyType DEF ThreadInv, Holding, Keyed
    <3> QED BY <2>1, <3>1 DEF HoldInv, TypeOK
  <2> QED BY <1>2, <2>1 DEF HoldInv
<1>7. NoLeakedSlot'
  BY <1>1, <1>2 DEF NoLeakedSlot, Present
<1>8. CellInv'
  BY <1>1, <1>2 DEF CellInv, Describes
<1> QED BY <1>3, <1>4, <1>5, <1>6, <1>7, <1>8

\* A step that leaves the threads and the library alone.
LEMMA LibRest ==
  ASSUME SnapInv, SiteInv, HistoryInv, ~repeated => ShownInv,
         UNCHANGED <<threadVars, fileVars, memo, site>>, defaults' = defaults
  PROVE  SnapInv' /\ SiteInv' /\ HistoryInv' /\ (~repeated' => ShownInv')
<1> USE DEF threadVars, fileVars
<1>1. SnapInv' /\ SiteInv' /\ HistoryInv'
  BY DEF SnapInv, SnapOK, FreshOK, Old, SiteInv, HistoryInv
<1>2. Now' = Now
  BY DEF Now, View
<1>3. \A u \in Threads : Got(u)' = Got(u)
  BY DEF Got
<1>4. ASSUME ShownInv PROVE ShownInv'
  <2>1. MemoTrue' /\ SiteTrue'
    BY <1>2, <1>4 DEF ShownInv, MemoTrue, SiteTrue, Shown
  <2>2. \A u \in Threads : TrueOK(u)' /\ MemoNew(u)' /\ LaunchNew(u)'
    BY <1>2, <1>4 DEF ShownInv, TrueOK, MemoNew, LaunchNew, Shown
  <2>3. \A u, w \in Threads : NewOK(u, w)'
    BY <1>3, <1>4 DEF ShownInv, NewOK
  <2> QED BY <1>2, <1>4, <2>1, <2>2, <2>3 DEF ShownInv
<1> QED BY <1>1, <1>4

\* A step that leaves the threads, the slots and the libraries alone.
LEMMA RestStep ==
  ASSUME SlotInv, LibInv, UNCHANGED <<threadVars, slotVars, evicted, libVars, site>>
  PROVE  SlotInv' /\ LibInv'
<1> USE DEF threadVars, slotVars, libVars
<1>1. \A u \in Threads : Key(u)' = Key(u)
  BY DEF Key
<1>2. ThreadInv' /\ MapInv' /\ RunInv'
  BY DEF SlotInv, ThreadInv, MapInv, RunInv
<1>3. HoldInv' /\ NoLeakedSlot'
  BY <1>1 DEF SlotInv, HoldInv, NoLeakedSlot, Present
<1>4. CellInv'
  BY <1>1 DEF LibInv, CellInv, Describes, fileVars
<1>5. SnapInv' /\ SiteInv' /\ HistoryInv' /\ (~repeated' => ShownInv')
  BY LibRest DEF LibInv
<1> QED BY <1>2, <1>3, <1>4, <1>5 DEF SlotInv, LibInv

\* The eviction calls, up to the bump of the epoch.
LEMMA SweepStep ==
  ASSUME IndInv, \/ \E k \in Keys : EvictKernel(k) \/ RetainKey(k)
                 \/ StartRetain \/ BumpEpoch
  PROVE  IndInv'
<1> USE CacheAssumption DEF IndInv, sweepVars
<1>0. UNCHANGED <<threadVars, cell, running, left, created, libVars, site>>
  BY DEF EvictKernel, RetainKey, StartRetain, BumpEpoch, slotVars
<1>1. ASSUME SlotInv', CellInv' PROVE LibInv' /\ SlotInv'
  <2>1. SnapInv' /\ SiteInv' /\ HistoryInv' /\ (~repeated' => ShownInv')
    BY <1>0, LibRest DEF LibInv, libVars
  <2> QED BY <1>1, <2>1 DEF LibInv
<1>2. /\ epoch \in Nat /\ evictions \in 0 .. MaxEvictions /\ epoch <= evictions
      /\ sweep \in [on : BOOLEAN, todo : SUBSET Keys, removed : BOOLEAN]
  BY DEF TypeOK
<1>7. defaults' <= changes' /\ \A f \in Files : disk'[f].build <= changes'
  BY <1>0 DEF BoundInv, libVars, fileVars
<1>3. ASSUME NEW k \in Keys, EvictKernel(k) PROVE IndInv'
  <2>1. cache[k] # None
    BY <1>3 DEF EvictKernel, Present
  <2>2. /\ cache' \in [Keys -> Cells \cup {None}] /\ evicted' \subseteq 1 .. created
        /\ SlotInv' /\ CellInv'
    BY <1>0, <1>3, <2>1, Evict DEF EvictKernel, LibInv, libVars, fileVars
  <2>3. /\ epoch' \in 0 .. evictions' /\ evictions' \in 0 .. MaxEvictions /\ epoch' < evictions'
        /\ sweep' \in [on : BOOLEAN, todo : SUBSET Keys, removed : BOOLEAN]
    BY <1>2, <1>3 DEF EvictKernel
  <2>4. TypeOK'
    BY <1>0, <2>2, <2>3 DEF TypeOK, threadVars, libVars, fileVars
  <2> QED BY <1>7, <1>1, <2>2, <2>3, <2>4 DEF BoundInv
<1>4. ASSUME NEW k \in Keys, RetainKey(k) PROVE IndInv'
  <2>1. /\ epoch' = epoch /\ evictions' = evictions /\ sweep'.on = sweep.on
        /\ sweep' \in [on : BOOLEAN, todo : SUBSET Keys, removed : BOOLEAN]
    BY <1>2, <1>4 DEF RetainKey
  <2>2. CASE UNCHANGED <<cache, evicted>>
    <3>1. SlotInv' /\ LibInv'
      BY <1>0, <2>2, RestStep DEF slotVars
    <3>2. TypeOK'
      BY <1>0, <2>1, <2>2 DEF TypeOK, threadVars, libVars, fileVars
    <3> QED BY <1>7, <2>1, <3>1, <3>2 DEF BoundInv
  <2>3. CASE /\ cache[k] # None /\ cache' = [cache EXCEPT ![k] = None]
             /\ evicted' = evicted \cup {cache[k]}
    <3>1. /\ cache' \in [Keys -> Cells \cup {None}] /\ evicted' \subseteq 1 .. created
          /\ SlotInv' /\ CellInv'
      BY <1>0, <2>3, Evict DEF LibInv, libVars, fileVars
    <3>2. TypeOK'
      BY <1>0, <2>1, <3>1 DEF TypeOK, threadVars, libVars, fileVars
    <3> QED BY <1>7, <1>1, <2>1, <3>1, <3>2 DEF BoundInv
  <2> QED BY <1>4, <2>2, <2>3 DEF RetainKey
<1>5. ASSUME StartRetain PROVE IndInv'
  <2>1. SlotInv' /\ LibInv'
    BY <1>5, RestStep DEF StartRetain
  <2>2. /\ epoch' \in 0 .. evictions' /\ evictions' \in 0 .. MaxEvictions /\ epoch' < evictions'
        /\ sweep' \in [on : BOOLEAN, todo : SUBSET Keys, removed : BOOLEAN]
    BY <1>2, <1>5 DEF StartRetain, Present
  <2>3. TypeOK'
    BY <1>5, <2>2 DEF StartRetain, TypeOK, threadVars, slotVars, libVars, fileVars
  <2> QED BY <1>7, <2>1, <2>2, <2>3 DEF BoundInv
<1>6. ASSUME BumpEpoch PROVE IndInv'
  <2>1. SlotInv' /\ LibInv'
    BY <1>6, RestStep DEF BumpEpoch
  <2>2. /\ epoch' \in 0 .. evictions' /\ evictions' \in 0 .. MaxEvictions /\ ~sweep'.on
        /\ sweep' \in [on : BOOLEAN, todo : SUBSET Keys, removed : BOOLEAN]
    BY <1>2, <1>6 DEF BumpEpoch, NoSweep, BoundInv
  <2>3. TypeOK'
    BY <1>6, <2>2 DEF BumpEpoch, TypeOK, threadVars, slotVars, libVars, fileVars
  <2> QED BY <1>7, <2>1, <2>2, <2>3 DEF BoundInv
<1> QED BY <1>3, <1>4, <1>5, <1>6

\* A step of the libraries leaves the slots alone.
LEMMA SlotRest ==
  ASSUME SlotInv, CellInv, UNCHANGED <<threadVars, slotVars, evicted>>, repeated => repeated'
  PROVE  SlotInv' /\ CellInv'
<1> USE DEF threadVars, slotVars
<1>1. \A u \in Threads : Key(u)' = Key(u)
  BY DEF Key
<1>2. ThreadInv' /\ MapInv' /\ RunInv'
  BY DEF SlotInv, ThreadInv, MapInv, RunInv
<1>3. HoldInv' /\ NoLeakedSlot'
  BY <1>1 DEF SlotInv, HoldInv, NoLeakedSlot, Present
<1>4. CellInv'
  <2>1. ASSUME NEW f, NEW k, Describes(f, k) PROVE Describes(f, k)'
    BY <2>1 DEF Describes
  <2> QED BY <1>1, <2>1 DEF CellInv
<1> QED BY <1>2, <1>3, <1>4 DEF SlotInv

\* The defaults only move on, so what was as new as they were when a launch
\* began still is.
LEMMA SetDefaultsStep ==
  ASSUME IndInv, SetDefaults
  PROVE  IndInv'
<1> USE CacheAssumption DEF IndInv, LibInv
<1>1. /\ defaults \in Nat /\ defaults' \in Versions /\ changes' \in Versions
      /\ defaults <= defaults' /\ BoundInv'
      /\ UNCHANGED <<threadVars, slotVars, sweepVars, fileVars, memo, site>>
  <2>1. /\ defaults \in Nat /\ changes \in Nat /\ defaults' = defaults + 1
        /\ changes' = changes + 1 /\ changes < MaxChanges /\ defaults <= changes
        /\ UNCHANGED <<threadVars, slotVars, sweepVars, fileVars, memo, site>>
    BY DEF SetDefaults, Change, TypeOK, BoundInv, Versions
  <2>2. \A g \in Files : disk[g].build \in Nat
    BY DEF TypeOK, Versions
  <2>3. BoundInv'
    BY <2>1, <2>2 DEF BoundInv, sweepVars, fileVars
  <2> QED BY <2>1, <2>3 DEF Versions
<1>2. TypeOK'
  BY <1>1 DEF TypeOK, threadVars, slotVars, sweepVars, fileVars
<1>3. SlotInv' /\ CellInv'
  BY <1>1, SlotRest DEF sweepVars, fileVars
<1>4. SnapInv'
  <2> SUFFICES ASSUME NEW u \in Threads PROVE SnapOK(u)' /\ FreshOK(u)'
    BY DEF SnapInv
  <2>1. {seen[u].defaults, snap[u].generation, snap[u].defaults} \subseteq Nat /\ defaults' \in Nat
    BY <1>1 DEF TypeOK, Snapshots, Versions
  <2> QED BY <1>1, <2>1 DEF SnapInv, SnapOK, FreshOK, Old, threadVars, fileVars
<1>5. SiteInv' /\ HistoryInv'
  BY <1>1 DEF SiteInv, HistoryInv, fileVars
<1>6. ASSUME ~repeated' PROVE ShownInv'
  <2>1. ShownInv /\ Now' = Now
    BY <1>1, <1>6 DEF fileVars, Now, View
  <2>2. MemoTrue' /\ SiteTrue'
    BY <1>1, <2>1 DEF ShownInv, MemoTrue, SiteTrue, Shown, fileVars
  <2>3. \A u \in Threads : TrueOK(u)' /\ MemoNew(u)' /\ LaunchNew(u)' /\ Got(u)' = Got(u)
    BY <1>1, <2>1 DEF ShownInv, TrueOK, MemoNew, LaunchNew, Shown, Got, threadVars, fileVars
  <2>4. \A u, w \in Threads : NewOK(u, w)'
    BY <1>1, <2>1, <2>3 DEF ShownInv, NewOK, threadVars
  <2> QED BY <1>1, <2>1, <2>2, <2>3, <2>4 DEF ShownInv, fileVars
<1> QED BY <1>1, <1>2, <1>3, <1>4, <1>5, <1>6

\* A file has a new build, or is as it was, and its path leads anywhere: what
\* was recorded keeps a stamp that the library does not have any more, or it
\* is still so.
LEMMA ShowsStep ==
  ASSUME IndInv, NEW f \in Files, NEW d, Shows(f, d),
         d \in [Files -> [build : Versions, tick : Versions, open : BOOLEAN]],
         \A g \in Files : \/ d[g].build = disk[g].build /\ d[g].tick = disk[g].tick
                          \/ d[g].build > disk[g].build,
         \A g \in Files : d[g].build <= disk[g].build + 1
  PROVE  IndInv'
<1> USE CacheAssumption DEF IndInv, LibInv
<1>1. /\ UNCHANGED <<threadVars, slotVars, sweepVars, defaults, memo, site>>
      /\ link' = f /\ disk' = d /\ Now' = View(f, d) /\ changes' \in Versions
  BY DEF Shows, Change, Now, View, TypeOK, Versions
<1>2. \/ Now' = Now /\ UNCHANGED <<replaced, repeated>>
      \/ /\ Now' # Now /\ replaced' = replaced \cup {Now}
         /\ repeated' = (repeated \/ \E v \in replaced' : v.stamp = Now.stamp')
  BY <1>1 DEF Shows
<1>3. Now \in Views
  BY DEF TypeOK, Now, View, Views, Stamps, Contents
<1>4. repeated => repeated'
  BY <1>2
<1>5. TypeOK' /\ BoundInv'
  <2>1. repeated' \in BOOLEAN
    BY <1>2, Zenon DEF TypeOK
  <2>2. replaced' \subseteq Views
    BY <1>2, <1>3 DEF TypeOK
  <2>3. TypeOK'
    BY <1>1, <2>1, <2>2 DEF TypeOK, threadVars, slotVars, sweepVars
  <2>4. defaults \in Nat /\ changes \in Nat /\ changes' = changes + 1
    BY DEF Shows, Change, TypeOK, Versions
  <2>5. \A g \in Files : disk[g].build \in Nat /\ d[g].build \in Nat
    BY DEF TypeOK, Versions
  <2>6. BoundInv'
    BY <1>1, <2>4, <2>5 DEF BoundInv, sweepVars
  <2> QED BY <2>3, <2>6
<1>6. SlotInv' /\ CellInv'
  BY <1>1, <1>4, SlotRest DEF sweepVars
<1>7. replaced \subseteq replaced' /\ Old \subseteq Old'
  BY <1>2 DEF Old
<1>8. SnapInv' /\ SiteInv'
  BY <1>1, <1>7 DEF SnapInv, SnapOK, FreshOK, SiteInv, threadVars
<1>9. HistoryInv'
  <2>1. \A g \in Files : /\ {disk[g].build, d[g].build} \subseteq Nat
                         /\ disk[g].build \in Versions /\ disk[g].tick \in Versions
    BY DEF TypeOK, Versions
  <2>2. ASSUME NEW v \in replaced
        PROVE  \E g \in Files, b, n \in Versions :
                 /\ v.contents = <<g, b>> /\ v.stamp = <<g, n>>
                 /\ b <= d[g].build /\ (b = d[g].build => n = d[g].tick)
    <3>1. PICK g \in Files, b \in Versions, n \in Versions :
            /\ v.contents = <<g, b>> /\ v.stamp = <<g, n>>
            /\ b <= disk[g].build /\ (b = disk[g].build => n = disk[g].tick)
      BY DEF HistoryInv
    <3>2. b \in Nat /\ b <= d[g].build /\ (b = d[g].build => n = d[g].tick)
      BY <2>1, <3>1 DEF Versions
    <3> QED BY <3>1, <3>2
  <2>3. \E g \in Files, b, n \in Versions :
          /\ Now.contents = <<g, b>> /\ Now.stamp = <<g, n>>
          /\ b <= d[g].build /\ (b = d[g].build => n = d[g].tick)
    <3>1. Now.contents = <<link, disk[link].build>> /\ Now.stamp = <<link, disk[link].tick>>
      BY DEF Now, View
    <3>2. /\ link \in Files /\ disk[link].build <= d[link].build
          /\ disk[link].build = d[link].build => disk[link].tick = d[link].tick
      BY <2>1 DEF TypeOK
    <3> QED BY <2>1, <3>1, <3>2
  <2> QED BY <1>1, <1>2, <2>2, <2>3 DEF HistoryInv
<1>10. ASSUME ~repeated' PROVE ShownInv'
  <2>1. ShownInv
    BY <1>4, <1>10
  <2>2. \A v \in replaced' : v.stamp # Now.stamp'
    BY <1>2, <1>10, <2>1 DEF ShownInv
  <2>3. ASSUME NEW x, Shown(x) PROVE Shown(x)'
    BY <1>2, <2>3 DEF Shown
  <2>4. ASSUME NEW x, Shown(x), x = Now.stamp'
        PROVE  x = Now.stamp /\ Now' = Now /\ link' = link
    <3>1. Now' = Now
      BY <1>2, <2>2, <2>4 DEF Shown
    <3>2. link' = link
      BY <3>1 DEF Now, View
    <3> QED BY <2>4, <3>1, <3>2
  <2>5. MemoTrue' /\ SiteTrue'
    BY <1>1, <2>1, <2>3, <2>4 DEF ShownInv, MemoTrue, SiteTrue
  <2>6. \A u \in Threads : TrueOK(u)'
    <3> SUFFICES ASSUME NEW u \in Threads PROVE TrueOK(u)'
      OBVIOUS
    <3>1. TrueOK(u) /\ UNCHANGED <<pc[u], snap[u], fn[u]>>
      BY <1>1, <2>1 DEF ShownInv, threadVars
    <3>2. pc[u] \in Stamped => Shown(snap[u].stamp)
      BY <3>1 DEF TrueOK
    <3>3. CASE pc[u] \in Stamped /\ snap[u].stamp = Now.stamp'
      BY <2>3, <2>4, <3>1, <3>2, <3>3 DEF TrueOK
    <3>4. CASE ~(pc[u] \in Stamped /\ snap[u].stamp = Now.stamp')
      BY <2>3, <3>1, <3>2, <3>4 DEF TrueOK, Stamped, Found, Keyed
    <3> QED BY <3>3, <3>4
  <2>7. \A u \in Threads : MemoNew(u)' /\ LaunchNew(u)'
    BY <1>1, <2>1 DEF ShownInv, MemoNew, LaunchNew, threadVars
  <2>8. ASSUME NEW u \in Threads, NEW g \in Files, <<g, d[g].build>> \in seen[u].old
        PROVE  <<g, disk[g].build>> \in seen[u].old
    <3>1. PICK v \in replaced : v.contents = <<g, d[g].build>>
      BY <2>8 DEF SnapInv, SnapOK, Old
    <3>2. d[g].build <= disk[g].build
      BY <3>1 DEF HistoryInv
    <3>3. d[g].build = disk[g].build
      BY <3>2 DEF TypeOK, Versions
    <3> QED BY <2>8, <3>3
  <2>9. \A u, w \in Threads : NewOK(u, w)'
    <3> SUFFICES ASSUME NEW u \in Threads, NEW w \in Threads, pc[u] \in Stamped, pc[w] \in Found,
                        snap[w].stamp = snap[u].stamp, Got(w)' \in seen[u].old
                 PROVE  FALSE
      BY <1>1 DEF NewOK, threadVars
    <3>1. Got(w) \notin seen[u].old
      BY <2>1 DEF ShownInv, NewOK
    <3>2. CASE pc[w] = "read"
      <4>1. /\ Got(w)' = <<snap[w].file, d[snap[w].file].build>> /\ snap[w].file \in Files
            /\ Got(w) = <<snap[w].file, disk[snap[w].file].build>>
        BY <1>1, <3>2 DEF Got, threadVars, SlotInv, ThreadInv, Found
      <4> QED BY <2>8, <3>1, <4>1
    <3>3. CASE pc[w] # "read"
      BY <1>1, <3>1, <3>3 DEF Got, threadVars
    <3> QED BY <3>2, <3>3
  <2> QED BY <2>2, <2>5, <2>6, <2>7, <2>9 DEF ShownInv
<1> QED BY <1>5, <1>6, <1>8, <1>9, <1>10

\* What happens to the library keeps the files as ShowsStep wants them.
LEMMA LibraryStep ==
  ASSUME IndInv, NEW f \in Files, Rebuild(f) \/ Rewrite(f) \/ Relink(f)
  PROVE  IndInv'
<1> USE CacheAssumption
<1> DEFINE State == [build : Versions, tick : Versions, open : BOOLEAN]
<1>1. /\ disk \in [Files -> State] /\ disk[f] \in State /\ link \in Files
      /\ \A g \in Files : disk[g].build \in Nat
  BY DEF IndInv, TypeOK, Versions
<1>2. CASE Relink(f)
  <2>1. Shows(f, disk)
    BY <1>2 DEF Relink
  <2>2. \A g \in Files : disk[g].build <= disk[g].build + 1
    BY <1>1
  <2> QED BY <1>1, <2>1, <2>2, ShowsStep
<1>3. ASSUME NEW x \in State, Shows(link, [disk EXCEPT ![f] = x]), x.build = disk[f].build + 1
      PROVE  IndInv'
  <2> DEFINE d == [disk EXCEPT ![f] = x]
  <2>1. /\ d \in [Files -> State] /\ d[f] = x
        /\ \A g \in Files : g # f => d[g] = disk[g]
    BY <1>1
  <2> HIDE DEF d
  <2>2. Shows(link, d)
    BY <1>3 DEF d
  <2>3. \A g \in Files : \/ d[g].build = disk[g].build /\ d[g].tick = disk[g].tick
                         \/ d[g].build > disk[g].build
    BY <1>1, <1>3, <2>1
  <2>4. \A g \in Files : d[g].build <= disk[g].build + 1
    BY <1>1, <1>3, <2>1
  <2> QED BY <1>1, <2>1, <2>2, <2>3, <2>4, ShowsStep
<1>4. ASSUME Change PROVE disk[f].build + 1 \in Versions
  <2>1. disk[f].build <= changes /\ changes \in Nat /\ changes < MaxChanges
    BY <1>4 DEF IndInv, BoundInv, TypeOK, Change, Versions
  <2> QED BY <1>1, <2>1 DEF Versions
<1>5. CASE Rebuild(f)
  <2> DEFINE n == disk[f].build + 1
             x == [build |-> n, tick |-> n, open |-> TRUE]
  <2>1. Shows(link, [disk EXCEPT ![f] = x])
    BY <1>5 DEF Rebuild
  <2>2. x \in State /\ x.build = disk[f].build + 1
    BY <1>4, <2>1 DEF Shows
  <2> QED BY <1>3, <2>1, <2>2
<1>6. CASE Rewrite(f)
  <2> DEFINE x == [disk[f] EXCEPT !.build = @ + 1]
  <2>1. Shows(link, [disk EXCEPT ![f] = x])
    BY <1>6 DEF Rewrite
  <2>2. disk[f].build + 1 \in Versions
    BY <1>4, <2>1 DEF Shows
  <2>3. x \in State /\ x.build = disk[f].build + 1
    BY <1>1, <2>2
  <2> QED BY <1>3, <2>1, <2>3
<1> QED BY <1>2, <1>5, <1>6

-----------------------------------------------------------------------------
(* The theorems.                                                           *)

\* Nothing is cached, held or launched at the start.
LEMMA InitInv == Init => IndInv
<1> SUFFICES ASSUME Init PROVE IndInv
  OBVIOUS
<1> USE CacheAssumption DEF Init
<1>1. NoSnapshot \in Snapshots /\ 0 \in Versions
  BY DEF NoSnapshot, Snapshots, Versions
<1>2. sweep \in [on : BOOLEAN, todo : SUBSET Keys, removed : BOOLEAN] /\ ~sweep.on
  BY DEF NoSweep
<1>3. /\ NothingSeen \in [defaults : Versions, old : SUBSET Contents]
      /\ disk \in [Files -> [build : Versions, tick : Versions, open : BOOLEAN]]
      /\ \A f \in Files : disk[f].build = 0
  BY <1>1 DEF NothingSeen
<1>4. TypeOK /\ BoundInv
  <2>3. /\ pc \in [Threads -> Steps] /\ want \in [Threads -> Kernels \cup {None}]
        /\ seen \in [Threads -> [defaults : Versions, old : SUBSET Contents]]
        /\ snap \in [Threads -> Snapshots]
    BY <1>1, <1>3 DEF Steps
  <2>4. /\ slot \in [Threads -> Cells \cup {None}] /\ fn \in [Threads -> Compiled \cup {None}]
        /\ cache \in [Keys -> Cells \cup {None}] /\ cell \in [Cells -> Compiled \cup {None}]
        /\ running \in [Cells -> Threads \cup {None}]
    OBVIOUS
  <2>5. repeated \in BOOLEAN
    BY Zenon
  <2>1. TypeOK
    BY <1>1, <1>2, <1>3, <2>3, <2>4, <2>5 DEF TypeOK
  <2>2. BoundInv
    BY <1>2, <1>3 DEF BoundInv
  <2> QED BY <2>1, <2>2
<1>5. SlotInv
  BY DEF SlotInv, ThreadInv, MapInv, HoldInv, RunInv, NoLeakedSlot, Present, Holding,
         Stamped, Found, Keyed
<1>6. CellInv /\ SnapInv /\ SiteInv /\ HistoryInv
  BY DEF CellInv, SnapInv, SnapOK, FreshOK, SiteInv, HistoryInv, NothingSeen, Stamped, Found, Keyed
<1>7. ShownInv
  BY DEF ShownInv, TrueOK, MemoNew, LaunchNew, NewOK, MemoTrue, SiteTrue, Stamped, Found, Keyed
<1> QED BY <1>4, <1>5, <1>6, <1>7 DEF IndInv, LibInv

\* Every step preserves the invariant.
LEMMA NextInv == IndInv /\ [Next]_vars => IndInv'
<1> SUFFICES ASSUME IndInv, [Next]_vars PROVE IndInv'
  OBVIOUS
<1>1. ASSUME NEW t \in Threads, LaunchStep(t) PROVE IndInv'
  BY <1>1, ProbeHitStep, ProbeMissStep, ReadDefaultsStep, LookUpStep, CanonicalizeStep,
     HashFileStep, HashFailsStep, MemoizeStep, GetSlotStep, StartCompileStep, LinkStep, CompileOkStep,
     CompileFailsStep, CompilePanicsStep, ResolveStep, DropSlotStep,
     RemoveSlotStep, NewResolutionStep, StoreSiteStep, LaunchedStep DEF LaunchStep
<1>2. ASSUME NEW t \in Threads, NEW k \in Kernels, Begin(t, k) PROVE IndInv'
  BY <1>2, BeginStep
<1>3. CASE \/ \E k \in Keys : EvictKernel(k) \/ RetainKey(k)
           \/ StartRetain \/ BumpEpoch
  BY <1>3, SweepStep
<1>4. CASE SetDefaults \/ \E f \in Files : Rebuild(f) \/ Rewrite(f) \/ Relink(f)
  BY <1>4, SetDefaultsStep, LibraryStep
<1>5. CASE UNCHANGED vars
  <2>1. SlotInv' /\ LibInv'
    BY <1>5, RestStep DEF IndInv, vars, sweepVars
  <2>2. TypeOK' /\ BoundInv'
    BY <1>5 DEF IndInv, vars, sweepVars, threadVars, slotVars, libVars, fileVars, TypeOK, BoundInv
  <2> QED BY <2>1, <2>2 DEF IndInv
<1> QED BY <1>1, <1>2, <1>3, <1>4, <1>5 DEF Next

\* The invariant holds in every reachable state, whatever the threads, the
\* specializations, the files and the bounds.
THEOREM Invariance == Spec => []IndInv
BY InitInv, NextInv, PTL DEF Spec

\* compile_for_launch_site, its error path: a failed compile never takes a
\* slot away from a thread that compiles, or has compiled, in it.
THEOREM FailureKeepsCompiles == Spec => []NoOrphanedCompile
<1>1. IndInv => NoOrphanedCompile
  <2> SUFFICES ASSUME IndInv, NEW c \in 1 .. created, running[c] # None \/ cell[c] # None
               PROVE  c \in evicted \/ \E k \in Keys : cache[k] = c
    BY DEF NoOrphanedCompile
  <2> USE CacheAssumption DEF IndInv
  <2>1. c \in Cells
    BY DEF TypeOK, Cells
  <2>2. CASE cell[c] # None
    BY <2>1, <2>2 DEF SlotInv, MapInv
  <2>3. CASE running[c] # None
    <3>1. PICK t \in Threads : slot[t] = c /\ pc[t] \in {"compile", "linked"}
      BY <2>1, <2>3 DEF TypeOK, SlotInv, RunInv
    <3>2. Key(t) \in Keys
      BY <3>1, KeyType DEF SlotInv, Keyed
    <3>3. c # None
      BY <3>1 DEF SlotInv, ThreadInv, Holding
    <3> QED BY <3>1, <3>2, <3>3 DEF SlotInv, HoldInv
  <2> QED BY <2>2, <2>3
<1> QED BY <1>1, Invariance, PTL

\* get_or_try_init: two threads never compile in one slot at the same time.
THEOREM SingleFlight ==
  Spec => [](\A t, u \in Threads :
               {pc[t], pc[u]} \subseteq {"compile", "linked"} /\ slot[t] = slot[u] => t = u)
<1>1. IndInv => \A t, u \in Threads :
                  {pc[t], pc[u]} \subseteq {"compile", "linked"} /\ slot[t] = slot[u] => t = u
  BY DEF IndInv, SlotInv, RunInv
<1> QED BY <1>1, Invariance, PTL

\* compile_for_launch_site, its error path: a slot left empty in the map has a
\* thread that will fill or remove it, unless the last compile in it panicked
\* and unwound past remove_if.
THEOREM FailuresLeaveNothing == Spec => []NoLeakedSlot
<1>1. IndInv => NoLeakedSlot
  BY DEF IndInv, SlotInv
<1> QED BY <1>1, Invariance, PTL

\* compile_for_launch_site: a cached kernel was linked against the contents of
\* the library file that its key names, while no stamp has come back.
THEOREM CachedUnderItsKey == Spec => []KeyDescribesKernel
<1>1. IndInv => KeyDescribesKernel
  BY DEF IndInv, LibInv, CellInv, KeyDescribesKernel, Present, Describes
<1> QED BY <1>1, Invariance, PTL

\* LaunchSite::get and hash_file: no launch runs a kernel compiled with default
\* libraries that had been replaced when it began, or, while no stamp has come
\* back, linked against contents of the library that had been; the memo of
\* hashes and moves of the path between its steps do not change that.
THEOREM LaunchesAreFresh == Spec => []FreshLibraries
<1>1. IndInv => FreshLibraries
  BY DEF IndInv, LibInv, SnapInv, FreshOK, FreshLibraries, ShownInv, LaunchNew
<1> QED BY <1>1, Invariance, PTL

-----------------------------------------------------------------------------
(* The OnceCell of a slot.                                                 *)

\* A thread compiles only in an empty slot.
RunsInEmpty == \A c \in Cells : running[c] # None => cell[c] = None

\* What a slot holds is never replaced, so all launches that share a slot get
\* one kernel.
CellKept == \A c \in Cells : cell[c] # None => cell'[c] = cell[c]

\* Only the thread that has claimed a slot writes or releases it.
LEMMA CellStep ==
  ASSUME IndInv, RunsInEmpty, [Next]_vars
  PROVE  RunsInEmpty' /\ CellKept
<1> USE CacheAssumption
<1>0. /\ cell \in [Cells -> Compiled \cup {None}] /\ slot \in [Threads -> Cells \cup {None}]
      /\ running \in [Cells -> Threads \cup {None}]
  BY DEF IndInv, TypeOK
<1>1. ASSUME UNCHANGED <<cell, running>> PROVE RunsInEmpty' /\ CellKept
  BY <1>1 DEF RunsInEmpty, CellKept
<1>2. ASSUME NEW t \in Threads, LaunchStep(t) PROVE RunsInEmpty' /\ CellKept
  <2>1. CASE StartCompile(t)
    <3>1. slot[t] \in Cells
      BY <1>0, <2>1 DEF StartCompile, To, IndInv, SlotInv, ThreadInv, Holding
    <3> QED BY <1>0, <2>1, <3>1 DEF StartCompile, RunsInEmpty, CellKept
  <2>2. CASE CompileOk(t)
    <3>1. slot[t] \in Cells /\ running[slot[t]] = t
      BY <1>0, <2>2 DEF CompileOk, To, IndInv, SlotInv, ThreadInv, RunInv, Holding
    <3>2. cell[slot[t]] = None
      BY <3>1 DEF RunsInEmpty
    <3> QED BY <1>0, <2>2, <3>1, <3>2 DEF CompileOk, RunsInEmpty, CellKept
  <2>3. CASE CompileFails(t)
    <3>1. slot[t] \in Cells
      BY <1>0, <2>3 DEF CompileFails, To, IndInv, SlotInv, ThreadInv, Holding
    <3> QED BY <1>0, <2>3, <3>1 DEF CompileFails, RunsInEmpty, CellKept
  <2>5. CASE CompilePanics(t)
    <3>1. slot[t] \in Cells
      BY <1>0, <2>5 DEF CompilePanics, To, IndInv, SlotInv, ThreadInv, Holding
    <3> QED BY <1>0, <2>5, <3>1 DEF CompilePanics, RunsInEmpty, CellKept
  <2>4. CASE \/ ProbeHit(t) \/ ProbeMiss(t) \/ ReadDefaults(t) \/ LookUp(t)
             \/ Canonicalize(t) \/ HashFile(t) \/ HashFails(t) \/ Memoize(t)
             \/ GetSlot(t) \/ Link(t) \/ Resolve(t) \/ DropSlot(t) \/ RemoveSlot(t) \/ NewResolution(t)
             \/ StoreSite(t) \/ Launched(t)
    BY <1>1, <2>4 DEF ProbeHit, ProbeMiss, ReadDefaults, LookUp, Canonicalize, HashFile,
                      HashFails, Memoize, GetSlot, Link, Resolve,
                      DropSlot, RemoveSlot, NewResolution, StoreSite, Launched, slotVars
  <2> QED BY <1>2, <2>1, <2>2, <2>3, <2>4, <2>5 DEF LaunchStep
<1>3. CASE \/ \E t \in Threads, k \in Kernels : Begin(t, k)
           \/ \E k \in Keys : EvictKernel(k) \/ RetainKey(k)
           \/ StartRetain \/ BumpEpoch \/ SetDefaults \/ UNCHANGED vars
           \/ \E f \in Files : Rebuild(f) \/ Rewrite(f) \/ Relink(f)
  BY <1>1, <1>3 DEF Begin, EvictKernel, RetainKey, StartRetain, BumpEpoch, SetDefaults,
                    Rebuild, Rewrite, Relink, Shows, vars, slotVars
<1> QED BY <1>2, <1>3 DEF Next

\* get_or_try_init: a compiled kernel is never overwritten, whatever fails,
\* waits, retries or is evicted meanwhile.
THEOREM WrittenOnce == Spec => [][CellKept]_vars
<1>1. Init => RunsInEmpty
  BY DEF Init, RunsInEmpty
<1>2. IndInv /\ RunsInEmpty /\ [Next]_vars => RunsInEmpty' /\ CellKept
  BY CellStep
<1> QED BY <1>1, <1>2, Invariance, PTL DEF Spec

\* A thread that waits in get_or_try_init waits for another one, which is
\* compiling in the same slot.
CompileOwed ==
  \A t \in Threads : pc[t] = "init" /\ running[slot[t]] # None =>
    LET u == running[slot[t]]
    IN u # t /\ slot[u] = slot[t] /\ pc[u] \in {"compile", "linked"}

\* Failing, panicking and evicting leave no thread waiting for a compilation
\* that nobody runs.
THEOREM WaitersHaveCompiler == Spec => []CompileOwed
<1>1. ASSUME IndInv, NEW t \in Threads, pc[t] = "init", running[slot[t]] # None
      PROVE  /\ running[slot[t]] # t /\ slot[running[slot[t]]] = slot[t]
             /\ pc[running[slot[t]]] \in {"compile", "linked"}
  <2>1. slot[t] \in Cells
    BY <1>1 DEF IndInv, TypeOK, SlotInv, ThreadInv, Holding
  <2> QED BY <1>1, <2>1 DEF IndInv, SlotInv, RunInv
<1>2. IndInv => CompileOwed
  BY <1>1 DEF CompileOwed
<1> QED BY <1>2, Invariance, PTL
=============================================================================
