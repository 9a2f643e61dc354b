-------------------------- MODULE JitStore_proofs --------------------------
(***************************************************************************)
(* Proofs about JitStore for every set of processes, kernels and compiler  *)
(* builds and every number of faults: what is published is complete, temp  *)
(* files are accounted for, and every step is one that a process without a *)
(* store could take.                                                       *)
(***************************************************************************)
EXTENDS JitStore, FiniteSetTheorems, SequenceTheorems, TLAPS

USE DEF history, Putting

\* A request has its seven fields; what an eviction scan holds does not matter.
With(r, s, g, d, c) ==
  [pc |-> s, want |-> r.want, fp |-> r.fp, name |-> r.name, got |-> g, disk |-> d, scan |-> c]
Whole(r) == r = With(r, r.pc, r.got, r.disk, r.scan)
Shape(p) == Whole(proc[p])

\* The cubin that process p would build for its request.
Own(p) == [kernel |-> proc[p].want, by |-> bin[p]]

ProcType ==
  /\ proc = [p \in Procs |-> proc[p]] /\ \A p \in Procs : Shape(p)
  /\ answer = [p \in Procs |-> answer[p]]
  /\ bin \in [Procs -> Bins] /\ fast \in [Procs -> Bins \cup {None}]
  /\ requests \in 0 .. MaxRequests /\ powerLosses \in Nat

DiskType ==
  /\ entries \in [Keys -> Files \cup {None}]
  /\ temps \in [Names -> [key : Keys, file : Files] \cup {None}]

\* A request is for a kernel and for the compiler its process has, under a
\* temp name of its own.
RequestOK(p) ==
  /\ proc[p].pc \in Steps /\ fast[p] \in {None, bin[p]}
  /\ proc[p].pc = "idle" <=> proc[p].want = None
  /\ proc[p].pc # "idle" =>
       /\ proc[p].want \in Kernels /\ proc[p].fp = bin[p] /\ proc[p].name \in 1 .. requests

\* What a process has read, or has compiled, is the cubin it asked for; what
\* it puts is complete.
GotOK(p) ==
  /\ proc[p].pc \notin {"idle", "get", "delete", "compile", "reject", "recompile"} =>
       proc[p].got \in Files /\ proc[p].got.cubin = Own(p)
  /\ proc[p].pc \in {"put", "writing", "rename"} => proc[p].got.whole

\* Its temp file, while it is there, is written by nobody else.
TempOK(p) ==
  /\ proc[p].pc = "writing" =>
       temps[proc[p].name] = None \/ temps[proc[p].name].key = Key(p)
  /\ proc[p].pc = "rename" =>
       temps[proc[p].name] = None \/ temps[proc[p].name].file = proc[p].got

ProcInv == \A p \in Procs : RequestOK(p) /\ GotOK(p) /\ TempOK(p)

\* No two requests have the same temp name.
NameInv ==
  \A p, q \in Procs :
    p # q /\ proc[p].pc # "idle" /\ proc[q].pc # "idle" => proc[p].name # proc[q].name

\* An entry is for its key, complete or torn.
EntryInv ==
  \A k \in Keys : entries[k] # None => entries[k].cubin = [kernel |-> k[1], by |-> k[2]]

IndInv ==
  /\ ProcType /\ DiskType /\ ProcInv /\ NameInv
  /\ EntryInv /\ PublishedComplete /\ NoStrayTemp

-----------------------------------------------------------------------------
(* Steps of one process.                                                   *)

\* What DirectJit makes of a step.
DirectStep == [Direct!Next]_(Direct!vars)

\* Process p goes to step s with g in hand, for the same request.
Moves(p, s, g) ==
  /\ proc' = [q \in Procs |-> proc'[q]] /\ \A q \in Procs \ {p} : proc'[q] = proc[q]
  /\ Shape(p)' /\ proc'[p].pc = s /\ proc'[p].got = g
  /\ proc'[p].want = proc[p].want /\ proc'[p].fp = proc[p].fp /\ proc'[p].name = proc[p].name

\* Setting one field of a request keeps the others.
LEMMA SetField ==
  ASSUME NEW r, Whole(r), NEW x
  PROVE  /\ [r EXCEPT !.pc = x] = With(r, x, r.got, r.disk, r.scan)
         /\ [r EXCEPT !.got = x] = With(r, r.pc, x, r.disk, r.scan)
         /\ [r EXCEPT !.disk = x] = With(r, r.pc, r.got, x, r.scan)
         /\ [r EXCEPT !.scan = x] = With(r, r.pc, r.got, r.disk, x)
<1>1. [r EXCEPT !.pc = x] = With(r, x, r.got, r.disk, r.scan)
  BY DEF Whole, With
<1>2. [r EXCEPT !.got = x] = With(r, r.pc, x, r.disk, r.scan)
  BY DEF Whole, With
<1>3. [r EXCEPT !.disk = x] = With(r, r.pc, r.got, x, r.scan)
  BY DEF Whole, With
<1>4. [r EXCEPT !.scan = x] = With(r, r.pc, r.got, r.disk, x)
  BY DEF Whole, With
<1> QED BY <1>1, <1>2, <1>3, <1>4

\* The result has the seven fields again.
LEMMA WithWhole ==
  ASSUME NEW r, NEW s, NEW g, NEW d, NEW c, NEW a, a = With(r, s, g, d, c)
  PROVE  /\ Whole(a) /\ a.pc = s /\ a.got = g /\ a.disk = d /\ a.scan = c
         /\ a.want = r.want /\ a.fp = r.fp /\ a.name = r.name
BY DEF With, Whole

\* So the step and what is in hand can be set ...
LEMMA SetGot ==
  ASSUME NEW r, Whole(r), NEW s, NEW x
  PROVE  [[r EXCEPT !.pc = s] EXCEPT !.got = x] = With(r, s, x, r.disk, r.scan)
<1> DEFINE a == [r EXCEPT !.pc = s]
<1>0. a = With(r, s, r.got, r.disk, r.scan)
  BY SetField
<1> HIDE DEF a
<1>1. /\ Whole(a) /\ a.pc = s /\ a.got = r.got /\ a.disk = r.disk /\ a.scan = r.scan
      /\ a.want = r.want /\ a.fp = r.fp /\ a.name = r.name
  BY <1>0, WithWhole
<1>2. [a EXCEPT !.got = x] = With(a, a.pc, x, a.disk, a.scan)
  BY <1>1, SetField
<1>3. [a EXCEPT !.got = x] = With(r, s, x, r.disk, r.scan)
  BY <1>1, <1>2 DEF With
<1> QED BY <1>3 DEF a

\* ... or where it came from ...
LEMMA SetDisk ==
  ASSUME NEW r, Whole(r), NEW s, NEW x
  PROVE  [[r EXCEPT !.pc = s] EXCEPT !.disk = x] = With(r, s, r.got, x, r.scan)
<1> DEFINE a == [r EXCEPT !.pc = s]
<1>0. a = With(r, s, r.got, r.disk, r.scan)
  BY SetField
<1> HIDE DEF a
<1>1. /\ Whole(a) /\ a.pc = s /\ a.got = r.got /\ a.disk = r.disk /\ a.scan = r.scan
      /\ a.want = r.want /\ a.fp = r.fp /\ a.name = r.name
  BY <1>0, WithWhole
<1>2. [a EXCEPT !.disk = x] = With(a, a.pc, a.got, x, a.scan)
  BY <1>1, SetField
<1>3. [a EXCEPT !.disk = x] = With(r, s, r.got, x, r.scan)
  BY <1>1, <1>2 DEF With
<1> QED BY <1>3 DEF a

\* ... or the eviction scan ...
LEMMA SetScan ==
  ASSUME NEW r, Whole(r), NEW s, NEW x
  PROVE  [[r EXCEPT !.pc = s] EXCEPT !.scan = x] = With(r, s, r.got, r.disk, x)
<1> DEFINE a == [r EXCEPT !.pc = s]
<1>0. a = With(r, s, r.got, r.disk, r.scan)
  BY SetField
<1> HIDE DEF a
<1>1. /\ Whole(a) /\ a.pc = s /\ a.got = r.got /\ a.disk = r.disk /\ a.scan = r.scan
      /\ a.want = r.want /\ a.fp = r.fp /\ a.name = r.name
  BY <1>0, WithWhole
<1>2. [a EXCEPT !.scan = x] = With(a, a.pc, a.got, a.disk, x)
  BY <1>1, SetField
<1>3. [a EXCEPT !.scan = x] = With(r, s, r.got, r.disk, x)
  BY <1>1, <1>2 DEF With
<1> QED BY <1>3 DEF a

\* ... or three fields.
LEMMA SetThree ==
  ASSUME NEW r, Whole(r), NEW s, NEW d, NEW g
  PROVE  [[[r EXCEPT !.pc = s] EXCEPT !.disk = d] EXCEPT !.got = g] = With(r, s, g, d, r.scan)
<1> DEFINE a == [[r EXCEPT !.pc = s] EXCEPT !.disk = d]
<1>1. a = With(r, s, r.got, d, r.scan)
  BY SetDisk
<1> HIDE DEF a
<1>2. /\ Whole(a) /\ a.pc = s /\ a.got = r.got /\ a.disk = d /\ a.scan = r.scan
      /\ a.want = r.want /\ a.fp = r.fp /\ a.name = r.name
  BY <1>1, WithWhole
<1>3. [a EXCEPT !.got = g] = With(a, a.pc, g, a.disk, a.scan)
  BY <1>2, SetField
<1>4. [a EXCEPT !.got = g] = With(r, s, g, d, r.scan)
  BY <1>2, <1>3 DEF With
<1> QED BY <1>4 DEF a

\* What most steps do: the process goes on.
LEMMA RecordMoves ==
  ASSUME ProcType, NEW p \in Procs, NEW s, NEW g, NEW d, NEW c,
         proc' = [proc EXCEPT ![p] = With(proc[p], s, g, d, c)]
  PROVE  Moves(p, s, g)
<1>1. DOMAIN proc = Procs
  BY DEF ProcType
<1>2. proc'[p] = With(proc[p], s, g, d, c)
  BY <1>1
<1>3. (\A q \in Procs \ {p} : proc'[q] = proc[q]) /\ proc' = [q \in Procs |-> proc'[q]]
  BY <1>1
<1> QED BY <1>2, <1>3, WithWhole DEF Moves, Shape

\* The same for a step that changes nothing else.
LEMMA GotoMoves ==
  ASSUME ProcType, NEW p \in Procs, NEW s, Goto(p, s)
  PROVE  Moves(p, s, proc[p].got)
<1>1. proc' = [proc EXCEPT ![p] = [proc[p] EXCEPT !.pc = s]]
  BY DEF Goto
<1>2. proc' = [proc EXCEPT ![p] = With(proc[p], s, proc[p].got, proc[p].disk, proc[p].scan)]
  BY <1>1, SetField DEF ProcType, Shape
<1> QED BY <1>2, RecordMoves

\* The other processes do not notice, as long as their temp files are left to
\* them or removed.
LEMMA OthersStep ==
  ASSUME ProcType, ProcInv, NEW p \in Procs, NEW q \in Procs \ {p},
         proc'[q] = proc[q], fast'[q] = fast[q], UNCHANGED bin,
         requests' \in Nat, requests <= requests',
         proc[q].pc # "idle" => temps'[proc[q].name] \in {temps[proc[q].name], None}
  PROVE  RequestOK(q)' /\ GotOK(q)' /\ TempOK(q)'
<1>1. RequestOK(q)'
  <2>1. requests \in Nat /\ RequestOK(q)
    BY DEF ProcType, ProcInv
  <2> QED BY <2>1 DEF RequestOK
<1>2. GotOK(q)'
  BY DEF ProcInv, GotOK, Own
<1>3. TempOK(q)'
  BY DEF ProcInv, TempOK, Key
<1> QED BY <1>1, <1>2, <1>3

\* A process goes on and touches no temp file but its own, except to reap it.
LEMMA MoveCore ==
  ASSUME IndInv, NEW p \in Procs, NEW s \in Steps \ {"idle"}, NEW g,
         proc[p].pc # "idle", Moves(p, s, g),
         UNCHANGED <<answer, bin, fast, requests, powerLosses, toolFaults>>,
         \A n \in Names \ {proc[p].name} : temps'[n] \in {temps[n], None}
  PROVE  /\ ProcType' /\ NameInv' /\ RequestOK(p)' /\ DirectStep
         /\ \A q \in Procs \ {p} : RequestOK(q)' /\ GotOK(q)' /\ TempOK(q)'
<1> USE DEF IndInv, Moves
<1>1. ProcType'
  <2>1. \A q \in Procs : Shape(q)'
    BY DEF ProcType, Shape, Whole, With
  <2> QED BY <2>1 DEF ProcType
<1>2. NameInv'
  BY DEF NameInv
<1>3. RequestOK(p)'
  BY DEF ProcInv, RequestOK
<1>4. ASSUME NEW q \in Procs \ {p} PROVE RequestOK(q)' /\ GotOK(q)' /\ TempOK(q)'
  <2>1. requests \in 0 .. MaxRequests /\ MaxRequests \in Nat
    BY StoreAssumption DEF ProcType
  <2>2. 1 .. requests \subseteq Names
    BY <2>1 DEF Names
  <2>3. proc[q].pc # "idle" => proc[q].name \in Names \ {proc[p].name}
    BY <2>2 DEF ProcInv, RequestOK, NameInv
  <2> QED BY <2>1, <2>3, OthersStep
<1>5. DirectStep
  <2>1. [q \in Procs |-> proc'[q].want] = [q \in Procs |-> proc[q].want]
    OBVIOUS
  <2> QED BY <2>1 DEF DirectStep, Direct!vars
<1> QED BY <1>1, <1>2, <1>3, <1>4, <1>5

\* A process goes on, and the disk loses files at most: its own temp file, if
\* it was writing one.
LEMMA MoveStep ==
  ASSUME IndInv, NEW p \in Procs, NEW s \in Steps \ {"idle", "writing", "rename"}, NEW g,
         proc[p].pc # "idle", Moves(p, s, g),
         UNCHANGED <<answer, bin, fast, requests, powerLosses, toolFaults>>,
         DiskType', orphans \subseteq orphans',
         \A k \in Keys : entries'[k] \in {entries[k], None},
         \A n \in Names : temps'[n] \in {temps[n], None},
         proc[p].pc \in {"writing", "rename"} =>
           temps'[proc[p].name] = None \/ proc[p].name \in orphans',
         s \notin {"get", "delete", "compile", "reject", "recompile"} =>
           g \in Files /\ g.cubin = Own(p),
         s = "put" => g.whole
  PROVE  IndInv' /\ DirectStep
<1>1. /\ ProcType' /\ NameInv' /\ RequestOK(p)' /\ DirectStep
      /\ \A q \in Procs \ {p} : RequestOK(q)' /\ GotOK(q)' /\ TempOK(q)'
  BY MoveCore
<1> USE DEF IndInv, Moves
<1>2. ProcInv'
  <2>1. GotOK(p)'
    BY DEF GotOK, Own
  <2>2. TempOK(p)'
    BY DEF TempOK
  <2> QED BY <1>1, <2>1, <2>2 DEF ProcInv
<1>3. EntryInv' /\ PublishedComplete'
  BY DEF EntryInv, PublishedComplete
<1>4. NoStrayTemp'
  <2> SUFFICES ASSUME NEW n \in Names, temps'[n] # None, n \notin orphans'
               PROVE  \E q \in Procs : proc'[q].name = n /\ proc'[q].pc \in {"writing", "rename"}
    BY DEF NoStrayTemp, TempName
  <2>1. PICK q \in Procs : proc[q].name = n /\ proc[q].pc \in {"writing", "rename"}
    BY DEF NoStrayTemp, TempName
  <2>2. q # p
    BY <2>1
  <2> QED BY <2>1, <2>2
<1> QED BY <1>1, <1>2, <1>3, <1>4

-----------------------------------------------------------------------------
(* The lookup.                                                             *)

\* Get reads an entry of its own key.
LEMMA GetStep ==
  ASSUME IndInv, NEW p \in Procs, Get(p)
  PROVE  IndInv' /\ DirectStep
<1> USE DEF Get, At, IoOk, diskVars
<1>1. /\ proc[p].pc = "get" /\ ProcType /\ DiskType' /\ RequestOK(p)
      /\ UNCHANGED <<answer, bin, fast, requests, powerLosses, orphans, toolFaults, entries, temps>>
  BY DEF IndInv, DiskType, ProcInv
<1>2. CASE entries[Key(p)] = None
  <2>1. Moves(p, "compile", proc[p].got)
    BY <1>1, <1>2, GotoMoves
  <2> QED BY <1>1, <2>1, MoveStep DEF Steps
<1>3. CASE entries[Key(p)] # None
  <2>1. Key(p) \in Keys
    BY <1>1 DEF RequestOK, Key, Keys, ProcType
  <2>2. entries[Key(p)] \in Files /\ entries[Key(p)].cubin = Own(p)
    BY <1>1, <1>3, <2>1 DEF IndInv, DiskType, EntryInv, Own, Key, RequestOK
  <2>3. Moves(p, "touch", entries[Key(p)])
    <3>1. proc' = [proc EXCEPT ![p] = [[proc[p] EXCEPT !.pc = "touch"] EXCEPT !.got = entries[Key(p)]]]
      BY <1>3
    <3>2. [[proc[p] EXCEPT !.pc = "touch"] EXCEPT !.got = entries[Key(p)]] =
          With(proc[p], "touch", entries[Key(p)], proc[p].disk, proc[p].scan)
      BY <1>1, SetGot DEF ProcType, Shape
    <3> QED BY <1>1, <3>1, <3>2, RecordMoves
  <2> QED BY <1>1, <2>2, <2>3, MoveStep DEF Steps
<1> QED BY <1>2, <1>3

\* A failed read is a miss.
LEMMA GetFailsStep ==
  ASSUME IndInv, NEW p \in Procs, GetFails(p)
  PROVE  IndInv' /\ DirectStep
<1> USE DEF GetFails, At, diskVars
<1>1. /\ proc[p].pc = "get" /\ ProcType /\ DiskType'
      /\ UNCHANGED <<answer, bin, fast, requests, powerLosses, orphans, toolFaults, entries, temps>>
  BY DEF IndInv, DiskType
<1>2. Moves(p, "compile", proc[p].got)
  BY <1>1, GotoMoves
<1> QED BY <1>1, <1>2, MoveStep DEF Steps

\* What was read is kept, whatever has the name by now.
LEMMA TouchStep ==
  ASSUME IndInv, NEW p \in Procs, Touch(p)
  PROVE  IndInv' /\ DirectStep
<1> USE DEF Touch, At
<1>1. /\ proc[p].pc = "touch" /\ ProcType /\ DiskType' /\ GotOK(p)
      /\ UNCHANGED <<answer, bin, fast, requests, powerLosses, orphans, toolFaults, entries, temps>>
  BY DEF IndInv, DiskType, ProcInv
<1>2. proc[p].got \in Files /\ proc[p].got.cubin = Own(p)
  BY <1>1 DEF GotOK
<1>3. CASE proc' = [proc EXCEPT ![p].pc = "load", ![p].disk = TRUE]
  <2>1. Moves(p, "load", proc[p].got)
    <3>1. proc' = [proc EXCEPT ![p] = [[proc[p] EXCEPT !.pc = "load"] EXCEPT !.disk = TRUE]]
      BY <1>3
    <3>2. [[proc[p] EXCEPT !.pc = "load"] EXCEPT !.disk = TRUE] =
          With(proc[p], "load", proc[p].got, TRUE, proc[p].scan)
      BY <1>1, SetDisk DEF ProcType, Shape
    <3> QED BY <1>1, <3>1, <3>2, RecordMoves
  <2> QED BY <1>1, <1>2, <2>1, MoveStep DEF Steps
<1>4. CASE Goto(p, "delete")
  <2>1. Moves(p, "delete", proc[p].got)
    BY <1>1, <1>4, GotoMoves
  <2> QED BY <1>1, <2>1, MoveStep DEF Steps
<1> QED BY <1>3, <1>4

\* An entry is deleted by name, or is not.
LEMMA DeleteStep ==
  ASSUME IndInv, NEW p \in Procs, NEW from \in {"delete", "reject"},
         NEW to \in {"compile", "recompile"}, Delete(p, from, to)
  PROVE  IndInv' /\ DirectStep
<1> USE DEF Delete, At
<1>1. /\ proc[p].pc = from /\ ProcType
      /\ UNCHANGED <<answer, bin, fast, requests, powerLosses, orphans, toolFaults, temps>>
  BY DEF IndInv, RemoveEntry, diskVars
<1>2. Moves(p, to, proc[p].got)
  BY <1>1, GotoMoves
<1>3. DiskType' /\ \A k \in Keys : entries'[k] \in {entries[k], None}
  BY <1>1 DEF IndInv, DiskType, RemoveEntry, diskVars
<1> QED BY <1>1, <1>2, <1>3, MoveStep DEF Steps

\* The compiler builds the cubin that was asked for.
LEMMA CompileStep ==
  ASSUME IndInv, NEW p \in Procs, NEW from \in {"compile", "recompile"},
         NEW to \in {"put", "load"}, Compile(p, from, to)
  PROVE  IndInv' /\ DirectStep
<1> DEFINE g == [cubin |-> [kernel |-> proc[p].want, by |-> bin[p]], whole |-> TRUE]
<1> USE DEF Compile, At, diskVars, counters
<1>1. /\ proc[p].pc = from /\ ProcType /\ DiskType' /\ RequestOK(p)
      /\ UNCHANGED <<answer, bin, fast, requests, powerLosses, orphans, toolFaults, entries, temps>>
  BY DEF IndInv, DiskType, ProcInv
<1>2. Moves(p, to, g)
  <2>1. proc' = [proc EXCEPT ![p] = [[[proc[p] EXCEPT !.pc = to] EXCEPT !.disk = FALSE] EXCEPT !.got = g]]
    OBVIOUS
  <2> HIDE DEF g
  <2>2. [[[proc[p] EXCEPT !.pc = to] EXCEPT !.disk = FALSE] EXCEPT !.got = g] =
        With(proc[p], to, g, FALSE, proc[p].scan)
    BY <1>1, SetThree DEF ProcType, Shape
  <2>3. proc' = [proc EXCEPT ![p] = With(proc[p], to, g, FALSE, proc[p].scan)]
    BY <2>1, <2>2
  <2> HIDE DEF Compile
  <2> QED BY <1>1, <2>3, RecordMoves
<1>3. g \in Files /\ g.cubin = Own(p) /\ g.whole
  BY <1>1 DEF RequestOK, ProcType, Files, Cubins, Own
<1> HIDE DEF g
<1> QED BY <1>1, <1>2, <1>3, MoveStep DEF Steps

\* The cubin in hand goes on as it is, stored or not.
LEMMA NotStoredStep ==
  ASSUME IndInv, NEW p \in Procs, NotStored(p) \/ Declined(p) \/ RejectDisk(p)
  PROVE  IndInv' /\ DirectStep
<1> USE DEF NotStored, Declined, RejectDisk, At, diskVars, counters
<1>1. /\ proc[p].pc \in {"put", "load"} /\ ProcType /\ DiskType' /\ GotOK(p)
      /\ UNCHANGED <<answer, bin, fast, requests, powerLosses, orphans, toolFaults, entries, temps>>
  BY DEF IndInv, DiskType, ProcInv
<1>2. proc[p].got \in Files /\ proc[p].got.cubin = Own(p)
  BY <1>1 DEF GotOK
<1>3. PICK s \in {"load", "reject"} : Moves(p, s, proc[p].got)
  BY <1>1, GotoMoves
<1> QED BY <1>1, <1>2, <1>3, MoveStep DEF Steps

-----------------------------------------------------------------------------
(* put.                                                                    *)

\* A request has a proper key and temp name.
LEMMA NameType ==
  ASSUME IndInv, NEW p \in Procs, proc[p].pc # "idle"
  PROVE  Key(p) \in Keys /\ proc[p].name \in Names /\ Key(p) = <<proc[p].want, bin[p]>>
<1>1. RequestOK(p) /\ bin[p] \in Bins
  BY DEF IndInv, ProcInv, ProcType
<1>2. requests \in 0 .. MaxRequests /\ MaxRequests \in Nat
  BY StoreAssumption DEF IndInv, ProcType
<1>3. 1 .. requests \subseteq Names
  BY <1>2 DEF Names
<1> QED BY <1>1, <1>3 DEF RequestOK, Key, Keys

\* The temp file that is begun is this request's own.
LEMMA WriteStartsStep ==
  ASSUME IndInv, NEW p \in Procs, WriteStarts(p)
  PROVE  IndInv' /\ DirectStep
<1>1. /\ proc[p].pc = "put" /\ ProcType /\ DiskType /\ GotOK(p)
      /\ UNCHANGED <<answer, bin, fast, requests, powerLosses, orphans, toolFaults, entries>>
  BY DEF IndInv, ProcInv, WriteStarts, At
<1>2. proc[p].got \in Files /\ proc[p].got.cubin = Own(p) /\ proc[p].got.whole
  BY <1>1 DEF GotOK
<1>3. Key(p) \in Keys /\ proc[p].name \in Names
  BY <1>1, NameType
<1>4. CASE Goto(p, "load") /\ UNCHANGED temps
  <2>1. Moves(p, "load", proc[p].got)
    BY <1>1, <1>4, GotoMoves
  <2>2. DiskType'
    BY <1>1, <1>4 DEF DiskType
  <2> QED BY <1>1, <1>2, <1>4, <2>1, <2>2, MoveStep DEF Steps
<1>5. CASE /\ Goto(p, "writing")
           /\ temps' = [temps EXCEPT ![proc[p].name] =
                          [key |-> Key(p), file |-> [proc[p].got EXCEPT !.whole = FALSE]]]
  <2>1. Moves(p, "writing", proc[p].got)
    BY <1>1, <1>5, GotoMoves
  <2>2. [proc[p].got EXCEPT !.whole = FALSE] \in Files
    BY <1>2 DEF Files
  <2>3. [key |-> Key(p), file |-> [proc[p].got EXCEPT !.whole = FALSE]] \in [key : Keys, file : Files]
    BY <1>3, <2>2
  <2>4. /\ \A n \in Names \ {proc[p].name} : temps'[n] = temps[n]
        /\ temps'[proc[p].name].key = Key(p) /\ DiskType'
    BY <1>1, <1>3, <1>5, <2>3 DEF DiskType
  <2>5. /\ ProcType' /\ NameInv' /\ RequestOK(p)' /\ DirectStep
        /\ \A q \in Procs \ {p} : RequestOK(q)' /\ GotOK(q)' /\ TempOK(q)'
    BY <1>1, <2>1, <2>4, MoveCore DEF Steps
  <2>6. GotOK(p)' /\ TempOK(p)'
    BY <1>1, <1>2, <2>1, <2>4 DEF Moves, GotOK, TempOK, Own, Key
  <2>7. ProcInv'
    BY <2>5, <2>6 DEF ProcInv
  <2>8. EntryInv' /\ PublishedComplete'
    BY <1>1 DEF IndInv, EntryInv, PublishedComplete
  <2>9. NoStrayTemp'
    <3> SUFFICES ASSUME NEW n \in Names, temps'[n] # None, n \notin orphans'
                 PROVE  \E q \in Procs : proc'[q].name = n /\ proc'[q].pc \in {"writing", "rename"}
      BY <1>1 DEF NoStrayTemp, TempName
    <3>1. CASE n = proc[p].name
      BY <2>1, <3>1 DEF Moves
    <3>2. CASE n # proc[p].name
      <4>1. PICK q \in Procs : proc[q].name = n /\ proc[q].pc \in {"writing", "rename"}
        BY <1>1, <2>4, <3>2 DEF IndInv, NoStrayTemp, TempName
      <4> QED BY <1>1, <2>1, <4>1 DEF Moves
    <3> QED BY <3>1, <3>2
  <2> QED BY <2>4, <2>5, <2>7, <2>8, <2>9 DEF IndInv
<1> QED BY <1>4, <1>5 DEF WriteStarts, TempName

\* It is filled with what the process has in hand, if it is still there.
LEMMA WriteEndsStep ==
  ASSUME IndInv, NEW p \in Procs, WriteEnds(p)
  PROVE  IndInv' /\ DirectStep
<1>1. /\ proc[p].pc = "writing" /\ ProcType /\ DiskType /\ GotOK(p)
      /\ UNCHANGED <<answer, bin, fast, requests, powerLosses, orphans, toolFaults, entries>>
      /\ temps' = IF temps[proc[p].name] = None THEN temps
                  ELSE [temps EXCEPT ![proc[p].name].file = proc[p].got]
      /\ Goto(p, "rename")
  BY DEF IndInv, ProcInv, WriteEnds, At, counters, TempName
<1>2. proc[p].got \in Files /\ proc[p].got.cubin = Own(p) /\ proc[p].got.whole
  BY <1>1 DEF GotOK
<1>3. proc[p].name \in Names
  BY <1>1, NameType
<1>4. Moves(p, "rename", proc[p].got)
  BY <1>1, GotoMoves
<1>5. /\ \A n \in Names \ {proc[p].name} : temps'[n] = temps[n]
      /\ temps'[proc[p].name] = None \/ temps'[proc[p].name].file = proc[p].got
      /\ DiskType'
  <2>1. CASE temps[proc[p].name] = None
    BY <1>1, <2>1 DEF DiskType
  <2>2. CASE temps[proc[p].name] # None
    <3>1. temps[proc[p].name] \in [key : Keys, file : Files]
      BY <1>1, <1>3, <2>2 DEF DiskType
    <3>2. /\ [temps[proc[p].name] EXCEPT !.file = proc[p].got] \in [key : Keys, file : Files]
          /\ [temps[proc[p].name] EXCEPT !.file = proc[p].got].file = proc[p].got
      BY <1>2, <3>1
    <3>3. temps' = [temps EXCEPT ![proc[p].name] = [temps[proc[p].name] EXCEPT !.file = proc[p].got]]
      BY <1>1, <2>2
    <3> QED BY <1>1, <1>3, <3>2, <3>3 DEF DiskType
  <2> QED BY <2>1, <2>2
<1>6. /\ ProcType' /\ NameInv' /\ RequestOK(p)' /\ DirectStep
      /\ \A q \in Procs \ {p} : RequestOK(q)' /\ GotOK(q)' /\ TempOK(q)'
  BY <1>1, <1>4, <1>5, MoveCore DEF Steps
<1>7. GotOK(p)' /\ TempOK(p)'
  BY <1>1, <1>2, <1>4, <1>5 DEF Moves, GotOK, TempOK, Own
<1>8. ProcInv'
  BY <1>6, <1>7 DEF ProcInv
<1>9. EntryInv' /\ PublishedComplete'
  BY <1>1 DEF IndInv, EntryInv, PublishedComplete
<1>10. NoStrayTemp'
  <2> SUFFICES ASSUME NEW n \in Names, temps'[n] # None, n \notin orphans'
               PROVE  \E q \in Procs : proc'[q].name = n /\ proc'[q].pc \in {"writing", "rename"}
    BY <1>1 DEF NoStrayTemp, TempName
  <2>1. CASE n = proc[p].name
    BY <1>4, <2>1 DEF Moves
  <2>2. CASE n # proc[p].name
    <3>1. PICK q \in Procs : proc[q].name = n /\ proc[q].pc \in {"writing", "rename"}
      BY <1>1, <1>5, <2>2 DEF IndInv, NoStrayTemp, TempName
    <3> QED BY <1>4, <2>2, <3>1 DEF Moves
  <2> QED BY <2>1, <2>2
<1> QED BY <1>5, <1>6, <1>8, <1>9, <1>10 DEF IndInv

\* A put that fails takes its temp file away, or is known not to.
LEMMA PutFailsStep ==
  ASSUME IndInv, NEW p \in Procs, PutFails(p)
  PROVE  IndInv' /\ DirectStep
<1>1. /\ proc[p].pc \in {"writing", "rename"} /\ ProcType /\ DiskType /\ GotOK(p)
      /\ UNCHANGED <<answer, bin, fast, requests, powerLosses, toolFaults, entries>>
      /\ Goto(p, "load")
      /\ \/ temps' = [temps EXCEPT ![proc[p].name] = None] /\ UNCHANGED orphans
         \/ UNCHANGED temps /\ orphans' = orphans \cup {proc[p].name}
  BY DEF IndInv, ProcInv, PutFails, TempName
<1>2. proc[p].got \in Files /\ proc[p].got.cubin = Own(p)
  BY <1>1 DEF GotOK
<1>3. proc[p].name \in Names
  BY <1>1, NameType
<1>4. Moves(p, "load", proc[p].got)
  BY <1>1, GotoMoves
<1>5. /\ \A n \in Names : temps'[n] \in {temps[n], None}
      /\ temps'[proc[p].name] = None \/ proc[p].name \in orphans'
      /\ orphans \subseteq orphans' /\ DiskType'
  BY <1>1, <1>3 DEF DiskType
<1> QED BY <1>1, <1>2, <1>4, <1>5, MoveStep DEF Steps

\* What is published is the complete cubin this process compiled, or nothing.
LEMMA RenameStep ==
  ASSUME IndInv, NEW p \in Procs, Rename(p)
  PROVE  IndInv' /\ DirectStep
<1>1. /\ proc[p].pc = "rename" /\ ProcType /\ DiskType /\ GotOK(p) /\ TempOK(p)
      /\ UNCHANGED <<answer, bin, fast, requests, powerLosses, orphans, toolFaults>>
  BY DEF IndInv, ProcInv, Rename, At, counters
<1>2. proc[p].got \in Files /\ proc[p].got.cubin = Own(p) /\ proc[p].got.whole
  BY <1>1 DEF GotOK
<1>3. Key(p) \in Keys /\ proc[p].name \in Names /\ Key(p) = <<proc[p].want, bin[p]>>
  BY <1>1, NameType
<1>4. CASE temps[proc[p].name] = None /\ Goto(p, "load") /\ UNCHANGED <<entries, temps>>
  <2>1. Moves(p, "load", proc[p].got)
    BY <1>1, <1>4, GotoMoves
  <2>2. DiskType'
    BY <1>1, <1>4 DEF DiskType
  <2> QED BY <1>1, <1>2, <1>4, <2>1, <2>2, MoveStep DEF Steps
<1>5. CASE /\ temps[proc[p].name] # None /\ Goto(p, "trigger")
           /\ entries' = [entries EXCEPT ![Key(p)] = temps[proc[p].name].file]
           /\ temps' = [temps EXCEPT ![proc[p].name] = None]
  <2>1. Moves(p, "trigger", proc[p].got)
    BY <1>1, <1>5, GotoMoves
  <2>2. entries' = [entries EXCEPT ![Key(p)] = proc[p].got]
    BY <1>1, <1>5 DEF TempOK
  <2>3. /\ \A k \in Keys \ {Key(p)} : entries'[k] = entries[k]
        /\ entries'[Key(p)] = proc[p].got
        /\ \A n \in Names : temps'[n] \in {temps[n], None}
        /\ temps'[proc[p].name] = None /\ DiskType'
    BY <1>1, <1>2, <1>3, <1>5, <2>2 DEF DiskType
  <2>4. /\ ProcType' /\ NameInv' /\ RequestOK(p)' /\ DirectStep
        /\ \A q \in Procs \ {p} : RequestOK(q)' /\ GotOK(q)' /\ TempOK(q)'
    BY <1>1, <2>1, <2>3, MoveCore DEF Steps
  <2>5. GotOK(p)' /\ TempOK(p)'
    BY <1>1, <1>2, <2>1 DEF Moves, GotOK, TempOK, Own
  <2>6. ProcInv'
    BY <2>4, <2>5 DEF ProcInv
  <2>7. EntryInv'
    BY <1>2, <1>3, <2>3 DEF IndInv, EntryInv, Own
  <2>8. PublishedComplete'
    BY <1>1, <1>2, <2>3 DEF IndInv, PublishedComplete
  <2>9. NoStrayTemp'
    <3> SUFFICES ASSUME NEW n \in Names, temps'[n] # None, n \notin orphans'
                 PROVE  \E q \in Procs : proc'[q].name = n /\ proc'[q].pc \in {"writing", "rename"}
      BY <1>1 DEF NoStrayTemp, TempName
    <3>1. PICK q \in Procs : proc[q].name = n /\ proc[q].pc \in {"writing", "rename"}
      BY <1>1, <2>3 DEF IndInv, NoStrayTemp, TempName
    <3>2. q # p
      BY <2>3, <3>1
    <3> QED BY <2>1, <3>1, <3>2 DEF Moves
  <2> QED BY <2>3, <2>4, <2>6, <2>7, <2>8, <2>9 DEF IndInv
<1> QED BY <1>4, <1>5 DEF Rename, TempName

-----------------------------------------------------------------------------
(* Eviction.                                                               *)

\* The scan reaps temp files, which their writers find gone.
LEMMA TriggerStep ==
  ASSUME IndInv, NEW p \in Procs, Trigger(p)
  PROVE  IndInv' /\ DirectStep
<1>1. /\ proc[p].pc = "trigger" /\ ProcType /\ DiskType /\ GotOK(p)
      /\ UNCHANGED <<answer, bin, fast, requests, powerLosses, orphans, toolFaults, entries>>
  BY DEF IndInv, ProcInv, Trigger, At, counters
<1>2. proc[p].got \in Files /\ proc[p].got.cubin = Own(p)
  BY <1>1 DEF GotOK
<1>3. DiskType' /\ \A n \in Names : temps'[n] \in {temps[n], None}
  <2>1. CASE UNCHANGED temps
    BY <1>1, <2>1 DEF DiskType
  <2>2. ASSUME NEW old \in SUBSET Names,
               temps' = [n \in Names |-> IF n \in old THEN None ELSE temps[n]]
        PROVE  DiskType' /\ \A n \in Names : temps'[n] \in {temps[n], None}
    BY <1>1, <2>2 DEF DiskType
  <2> QED BY <2>1, <2>2 DEF Trigger
<1>4. PICK s \in {"load", "evict"} : Moves(p, s, proc[p].got)
  <2>1. CASE Goto(p, "load")
    BY <1>1, <2>1, GotoMoves
  <2>2. ASSUME NEW c, proc' = [proc EXCEPT ![p].pc = "evict", ![p].scan = c]
        PROVE  Moves(p, "evict", proc[p].got)
    <3>1. proc' = [proc EXCEPT ![p] = [[proc[p] EXCEPT !.pc = "evict"] EXCEPT !.scan = c]]
      BY <2>2
    <3>2. Whole(proc[p])
      BY <1>1 DEF ProcType, Shape
    <3>3. [[proc[p] EXCEPT !.pc = "evict"] EXCEPT !.scan = c] =
          With(proc[p], "evict", proc[p].got, proc[p].disk, c)
      BY <3>2, SetScan
    <3> QED BY <1>1, <3>1, <3>3, RecordMoves
  <2> DEFINE c == [keys |-> lru, total |-> Total, failed |-> FALSE]
  <2>3. Goto(p, "load") \/ proc' = [proc EXCEPT ![p].pc = "evict", ![p].scan = c]
    BY DEF Trigger
  <2> HIDE DEF c
  <2> QED BY <2>1, <2>2, <2>3
<1> QED BY <1>1, <1>2, <1>3, <1>4, MoveStep DEF Steps

\* An eviction removes entries, and then the request goes on.
LEMMA EvictStep ==
  ASSUME IndInv, NEW p \in Procs, EvictEnds(p) \/ EvictNext(p)
  PROVE  IndInv' /\ DirectStep
<1>1. /\ proc[p].pc = "evict" /\ ProcType /\ DiskType /\ GotOK(p)
      /\ UNCHANGED <<answer, bin, fast, requests, powerLosses, orphans, toolFaults, temps>>
  BY DEF IndInv, ProcInv, EvictEnds, EvictNext, At, counters, diskVars, RemoveEntry
<1>2. proc[p].got \in Files /\ proc[p].got.cubin = Own(p)
  BY <1>1 DEF GotOK
<1>3. DiskType' /\ \A k \in Keys : entries'[k] \in {entries[k], None}
  <2>1. CASE UNCHANGED entries
    BY <1>1, <2>1 DEF DiskType
  <2>2. ASSUME NEW k, RemoveEntry(k)
        PROVE  DiskType' /\ \A j \in Keys : entries'[j] \in {entries[j], None}
    BY <1>1, <2>2 DEF DiskType, RemoveEntry
  <2>3. UNCHANGED entries \/ RemoveEntry(Head(proc[p].scan.keys))
    BY DEF EvictEnds, EvictNext, diskVars
  <2> QED BY <2>1, <2>2, <2>3
<1>4. PICK s \in {"load", "evict"} : Moves(p, s, proc[p].got)
  <2>1. ASSUME NEW c, proc' = [proc EXCEPT ![p].pc = "load", ![p].scan = c]
        PROVE  Moves(p, "load", proc[p].got)
    <3>1. proc' = [proc EXCEPT ![p] = [[proc[p] EXCEPT !.pc = "load"] EXCEPT !.scan = c]]
      BY <2>1
    <3>2. Whole(proc[p])
      BY <1>1 DEF ProcType, Shape
    <3>3. [[proc[p] EXCEPT !.pc = "load"] EXCEPT !.scan = c] =
          With(proc[p], "load", proc[p].got, proc[p].disk, c)
      BY <3>2, SetScan
    <3> QED BY <1>1, <3>1, <3>3, RecordMoves
  <2>2. ASSUME NEW c, proc' = [proc EXCEPT ![p].scan = c]
        PROVE  Moves(p, "evict", proc[p].got)
    <3>1. proc' = [proc EXCEPT ![p] = [proc[p] EXCEPT !.scan = c]]
      BY <2>2
    <3>2. Whole(proc[p])
      BY <1>1 DEF ProcType, Shape
    <3>3. [proc[p] EXCEPT !.scan = c] = With(proc[p], proc[p].pc, proc[p].got, proc[p].disk, c)
      BY <3>2, SetField
    <3>4. Moves(p, proc[p].pc, proc[p].got)
      BY <1>1, <3>1, <3>3, RecordMoves
    <3> QED BY <1>1, <3>4
  <2> DEFINE take == [proc[p].scan EXCEPT !.keys = Tail(@), !.total = @ - SizeOf(Head(proc[p].scan.keys))]
             skip == [proc[p].scan EXCEPT !.keys = Tail(@), !.failed = TRUE]
  <2>3. \/ proc' = [proc EXCEPT ![p].pc = "load", ![p].scan = NoScan]
        \/ proc' = [proc EXCEPT ![p].scan = take]
        \/ proc' = [proc EXCEPT ![p].scan = skip]
    BY Zenon DEF EvictEnds, EvictNext
  <2> HIDE DEF take, skip
  <2> QED BY <2>1, <2>2, <2>3
<1> QED BY <1>1, <1>2, <1>3, <1>4, MoveStep DEF Steps

-----------------------------------------------------------------------------
(* Requests begin and end.                                                 *)

\* A request ends: its process has nothing in hand, and left no temp file
\* unless a put was cut short.
LEMMA EndsStep ==
  ASSUME IndInv, NEW p \in Procs, NEW how, Ends(p, how),
         UNCHANGED <<bin, requests, entries, temps>>,
         fast' \in [Procs -> Bins \cup {None}], \A q \in Procs : fast'[q] \in {fast[q], None},
         UNCHANGED powerLosses, orphans \subseteq orphans',
         proc[p].pc \in {"writing", "rename"} => proc[p].name \in orphans'
  PROVE  IndInv'
<1> USE DEF IndInv
<1>1. /\ proc' = [q \in Procs |-> proc'[q]] /\ answer' = [q \in Procs |-> answer'[q]]
      /\ \A q \in Procs \ {p} : proc'[q] = proc[q]
      /\ proc'[p] = Idle
  <2>1. DOMAIN proc = Procs /\ DOMAIN answer = Procs
    BY DEF ProcType
  <2>2. proc' = [proc EXCEPT ![p] = Idle] /\ answer' = [answer EXCEPT ![p] = how]
    BY DEF Ends
  <2> QED BY <2>1, <2>2
<1>2. Shape(p)' /\ proc'[p].pc = "idle" /\ proc'[p].want = None
  BY <1>1 DEF Idle, Shape, Whole, With
<1>3. ProcType'
  <2>1. \A q \in Procs : Shape(q)'
    BY <1>1, <1>2 DEF ProcType, Shape, Whole, With
  <2> QED BY <1>1, <2>1 DEF ProcType
<1>4. DiskType'
  BY DEF DiskType
<1>5. ProcInv'
  <2>1. RequestOK(p)' /\ GotOK(p)' /\ TempOK(p)'
    BY <1>2 DEF ProcInv, RequestOK, GotOK, TempOK, Steps
  <2>2. ASSUME NEW q \in Procs \ {p} PROVE RequestOK(q)' /\ GotOK(q)' /\ TempOK(q)'
    <3>1. proc'[q] = proc[q] /\ RequestOK(q) /\ GotOK(q) /\ TempOK(q)
      BY <1>1 DEF ProcInv
    <3>2. fast'[q] \in {None, bin[q]}
      BY <3>1 DEF RequestOK
    <3>3. RequestOK(q)'
      BY <3>1, <3>2 DEF RequestOK
    <3>4. GotOK(q)' /\ TempOK(q)'
      BY <3>1 DEF GotOK, TempOK, Own, Key
    <3> QED BY <3>3, <3>4
  <2> QED BY <2>1, <2>2 DEF ProcInv
<1>6. NameInv'
  BY <1>1, <1>2 DEF NameInv
<1>8. EntryInv' /\ PublishedComplete'
  BY DEF EntryInv, PublishedComplete
<1>9. NoStrayTemp'
  <2> SUFFICES ASSUME NEW n \in Names, temps[n] # None, n \notin orphans'
               PROVE  \E q \in Procs : proc'[q].name = n /\ proc'[q].pc \in {"writing", "rename"}
    BY DEF NoStrayTemp, TempName
  <2>1. PICK q \in Procs : proc[q].name = n /\ proc[q].pc \in {"writing", "rename"}
    BY DEF NoStrayTemp, TempName
  <2>2. q # p
    BY <2>1
  <2> QED BY <1>1, <2>1, <2>2
<1> QED BY <1>3, <1>4, <1>5, <1>6, <1>8, <1>9

\* In DirectJit a request that ends is one that is waited for no more.
LEMMA EndsRequest ==
  ASSUME ProcType, NEW p \in Procs, NEW how, Ends(p, how)
  PROVE  /\ [q \in Procs |-> proc'[q].want] =
              [[q \in Procs |-> proc[q].want] EXCEPT ![p] = None]
         /\ answer' = [answer EXCEPT ![p] = how]
<1>1. DOMAIN proc = Procs /\ proc' = [proc EXCEPT ![p] = Idle] /\ answer' = [answer EXCEPT ![p] = how]
  BY DEF Ends, ProcType
<1>2. \A q \in Procs : proc'[q].want = IF q = p THEN None ELSE proc[q].want
  BY <1>1 DEF Idle
<1> QED BY <1>1, <1>2

\* A load answers with what the process itself would have compiled.
LEMMA LoadOkStep ==
  ASSUME IndInv, NEW p \in Procs, LoadOk(p)
  PROVE  IndInv' /\ DirectStep
<1>1. /\ proc[p].pc = "load" /\ Ends(p, proc[p].got.cubin) /\ ProcType /\ GotOK(p) /\ RequestOK(p)
      /\ UNCHANGED <<fast, bin, entries, temps, requests, powerLosses, orphans, toolFaults>>
  BY DEF IndInv, ProcInv, LoadOk, At, diskVars, counters
<1>2. IndInv'
  BY <1>1, EndsStep DEF ProcType
<1>3. proc[p].got.cubin = [kernel |-> proc[p].want, by |-> bin[p]] /\ proc[p].want # None
  BY <1>1 DEF GotOK, RequestOK, Own
<1>4. Direct!Answer(p)
  BY <1>1, <1>3, EndsRequest DEF Direct!Answer
<1> QED BY <1>2, <1>4 DEF DirectStep, Direct!Next

\* A request fails with a fault of the compiler, or of the driver on what was
\* just compiled.
LEMMA FailStep ==
  ASSUME IndInv, NEW p \in Procs, CompileFails(p) \/ RejectFresh(p)
  PROVE  IndInv' /\ DirectStep
<1>1. /\ proc[p].pc \in {"compile", "recompile", "load"} /\ Ends(p, Failure) /\ ProcType /\ RequestOK(p)
      /\ UNCHANGED <<fast, bin, entries, temps, requests, powerLosses, orphans>>
      /\ toolFaults < MaxToolFaults /\ toolFaults' = toolFaults + 1
  BY DEF IndInv, ProcInv, CompileFails, RejectFresh, At, diskVars
<1>2. IndInv'
  BY <1>1, EndsStep DEF ProcType
<1>3. proc[p].want # None
  BY <1>1 DEF RequestOK
<1>4. Direct!Fail(p)
  BY <1>1, <1>3, EndsRequest DEF Direct!Fail
<1> QED BY <1>2, <1>4 DEF DirectStep, Direct!Next

\* A crash ends the request and may leave a temp file.
LEMMA CrashStep ==
  ASSUME IndInv, NEW p \in Procs, Crash(p)
  PROVE  IndInv' /\ DirectStep
<1>1. /\ Ends(p, None) /\ ProcType
      /\ orphans' = IF Putting(p) THEN orphans \cup {proc[p].name} ELSE orphans
      /\ fast' = [fast EXCEPT ![p] = None]
      /\ UNCHANGED <<bin, entries, temps, requests, powerLosses, toolFaults>>
  BY DEF IndInv, Crash, TempName
<1>2. /\ orphans \subseteq orphans'
      /\ proc[p].pc \in {"writing", "rename"} => proc[p].name \in orphans'
      /\ fast' \in [Procs -> Bins \cup {None}] /\ \A q \in Procs : fast'[q] \in {fast[q], None}
  BY <1>1 DEF ProcType
<1>3. IndInv'
  BY <1>1, <1>2, EndsStep
<1>4. Direct!Die(p)
  BY <1>1, EndsRequest DEF Direct!Die
<1> QED BY <1>3, <1>4 DEF DirectStep, Direct!Next

\* A request begins, with the compiler its process has and a fresh temp name.
LEMMA RequestStep ==
  ASSUME IndInv, NEW p \in Procs, NEW k \in Kernels, Request(p, k)
  PROVE  IndInv' /\ DirectStep
<1> USE DEF IndInv
<1> DEFINE r == [Idle EXCEPT !.pc = "get", !.want = k, !.fp = Fingerprint(p), !.name = requests + 1]
<1>1. /\ proc[p].pc = "idle" /\ requests < MaxRequests /\ requests' = requests + 1
      /\ proc' = [proc EXCEPT ![p] = r] /\ fast' = [fast EXCEPT ![p] = Fingerprint(p)]
      /\ answer' = [answer EXCEPT ![p] = None] /\ RequestOK(p)
      /\ UNCHANGED <<bin, entries, temps, powerLosses, orphans, toolFaults>>
  BY DEF Request, At, diskVars, ProcInv
<1>2. Fingerprint(p) = bin[p]
  BY <1>1 DEF Fingerprint, RequestOK
<1>3. Whole(Idle)
  BY DEF Idle, Whole, With
<1>4. /\ Whole(r) /\ r.pc = "get" /\ r.want = k /\ r.fp = bin[p] /\ r.name = requests + 1
  <2> DEFINE a == [Idle EXCEPT !.pc = "get"]
             b == [a EXCEPT !.want = k]
             c == [b EXCEPT !.fp = bin[p]]
             d == [c EXCEPT !.name = requests + 1]
  <2>1. r = d
    BY <1>2
  <2>2. Whole(a) /\ a.pc = "get"
    BY <1>3 DEF Whole, With
  <2> HIDE DEF a
  <2>3. Whole(b) /\ b.pc = "get" /\ b.want = k
    BY <2>2 DEF Whole, With
  <2> HIDE DEF b
  <2>4. Whole(c) /\ c.pc = "get" /\ c.want = k /\ c.fp = bin[p]
    BY <2>3 DEF Whole, With
  <2> HIDE DEF c
  <2>5. Whole(d) /\ d.pc = "get" /\ d.want = k /\ d.fp = bin[p] /\ d.name = requests + 1
    BY <2>4 DEF Whole, With
  <2> HIDE DEF d, r
  <2> QED BY <2>1, <2>5
<1> HIDE DEF r
<1>5. /\ DOMAIN proc = Procs /\ DOMAIN answer = Procs /\ requests \in Nat /\ MaxRequests \in Nat
  BY StoreAssumption DEF ProcType
<1>6. /\ proc' = [q \in Procs |-> proc'[q]] /\ answer' = [q \in Procs |-> answer'[q]]
      /\ (\A q \in Procs \ {p} : proc'[q] = proc[q]) /\ proc'[p] = r
  BY <1>1, <1>5
<1>7. /\ fast' \in [Procs -> Bins \cup {None}] /\ fast'[p] = bin[p]
      /\ \A q \in Procs \ {p} : fast'[q] = fast[q]
  BY <1>1, <1>2 DEF ProcType
<1>8. ProcType'
  <2>1. \A q \in Procs : Shape(q)'
    BY <1>4, <1>6 DEF ProcType, Shape, Whole, With
  <2>2. requests' \in 0 .. MaxRequests
    BY <1>1, <1>5
  <2> QED BY <1>1, <1>6, <1>7, <2>1, <2>2 DEF ProcType
<1>9. DiskType' /\ EntryInv' /\ PublishedComplete'
  BY <1>1 DEF DiskType, EntryInv, PublishedComplete
<1>10. ProcInv'
  <2>1. k # None /\ requests + 1 \in 1 .. requests'
    BY StoreAssumption, <1>1, <1>5
  <2>2. RequestOK(p)' /\ GotOK(p)' /\ TempOK(p)'
    BY <1>1, <1>4, <1>6, <1>7, <2>1 DEF RequestOK, GotOK, TempOK, Steps
  <2>3. requests' \in Nat /\ requests <= requests'
    BY <1>1, <1>5
  <2>4. \A q \in Procs \ {p} : RequestOK(q)' /\ GotOK(q)' /\ TempOK(q)'
    BY <1>1, <1>6, <1>7, <2>3, OthersStep
  <2> QED BY <2>2, <2>4 DEF ProcInv
<1>11. NameInv'
  <2>1. \A q \in Procs : proc[q].pc # "idle" => proc[q].name # requests + 1
    BY <1>5 DEF ProcInv, RequestOK
  <2> QED BY <1>4, <1>6, <2>1 DEF NameInv
<1>12. NoStrayTemp'
  <2> SUFFICES ASSUME NEW n \in Names, temps[n] # None, n \notin orphans'
               PROVE  \E q \in Procs : proc'[q].name = n /\ proc'[q].pc \in {"writing", "rename"}
    BY <1>1 DEF NoStrayTemp, TempName
  <2>1. PICK q \in Procs : proc[q].name = n /\ proc[q].pc \in {"writing", "rename"}
    BY <1>1 DEF NoStrayTemp, TempName
  <2> QED BY <1>1, <1>6, <2>1
<1>13. Direct!Ask(p, k)
  <2>1. proc[p].want = None
    BY <1>1 DEF RequestOK
  <2>2. [q \in Procs |-> proc'[q].want] = [[q \in Procs |-> proc[q].want] EXCEPT ![p] = k]
    BY <1>4, <1>6
  <2> QED BY <1>1, <2>1, <2>2 DEF Direct!Ask
<1> QED BY <1>8, <1>9, <1>10, <1>11, <1>12, <1>13 DEF DirectStep, Direct!Next

-----------------------------------------------------------------------------
(* Everything else that happens to the store.                              *)

\* A shard is cleared under the feet of readers and writers.
LEMMA ClearShardStep ==
  ASSUME IndInv, NEW k \in Keys, ClearShard(k)
  PROVE  IndInv' /\ DirectStep
<1> USE DEF IndInv
<1>1. /\ entries' = [entries EXCEPT ![k] = None]
      /\ temps' = [n \in Names |-> IF temps[n] # None /\ temps[n].key = k THEN None ELSE temps[n]]
      /\ UNCHANGED <<proc, answer, fast, bin, requests, powerLosses, orphans, toolFaults>>
  BY DEF ClearShard, counters
<1>2. /\ DiskType' /\ \A j \in Keys : entries'[j] \in {entries[j], None}
      /\ \A n \in Names : temps'[n] \in {temps[n], None}
  BY <1>1 DEF DiskType
<1>3. ProcType' /\ NameInv' /\ EntryInv' /\ PublishedComplete'
  BY <1>1, <1>2 DEF ProcType, NameInv, EntryInv, PublishedComplete, Shape
<1>4. ProcInv'
  <2> SUFFICES ASSUME NEW p \in Procs PROVE RequestOK(p)' /\ GotOK(p)' /\ TempOK(p)'
    BY DEF ProcInv
  <2>1. RequestOK(p)' /\ GotOK(p)'
    BY <1>1 DEF ProcInv, RequestOK, GotOK, Own
  <2>2. proc[p].pc # "idle" => proc[p].name \in Names
    BY NameType
  <2>3. TempOK(p)'
    BY <1>1, <1>2, <2>2 DEF ProcInv, TempOK, Key
  <2> QED BY <2>1, <2>3
<1>5. NoStrayTemp'
  BY <1>1, <1>2 DEF NoStrayTemp, TempName
<1>6. DirectStep
  BY <1>1 DEF DirectStep, Direct!vars
<1> QED BY <1>2, <1>3, <1>4, <1>5, <1>6

\* A power loss ends every request and may tear what was published.
LEMMA PowerLossStep ==
  ASSUME IndInv, PowerLoss
  PROVE  IndInv' /\ DirectStep
<1> USE DEF IndInv
<1>1. /\ proc' = [p \in Procs |-> Idle] /\ answer' = [p \in Procs |-> None]
      /\ fast' = [p \in Procs |-> None] /\ powerLosses' = powerLosses + 1
      /\ orphans' = orphans \cup {proc[p].name : p \in {q \in Procs : Putting(q)}}
      /\ UNCHANGED <<bin, temps, requests, toolFaults>>
  BY DEF PowerLoss, TempName
<1>2. PICK torn \in SUBSET Keys :
        entries' = [k \in Keys |-> IF entries[k] # None /\ k \in torn
                                  THEN [entries[k] EXCEPT !.whole = FALSE] ELSE entries[k]]
  BY DEF PowerLoss
<1>3. powerLosses' \in Nat /\ powerLosses' > 0
  BY <1>1 DEF ProcType
<1> DEFINE e(k) == IF entries[k] # None /\ k \in torn
                   THEN [entries[k] EXCEPT !.whole = FALSE] ELSE entries[k]
<1>4. ASSUME NEW k \in Keys
      PROVE  /\ e(k) \in Files \cup {None}
             /\ e(k) = entries[k] \/ (entries[k] # None /\ e(k).cubin = entries[k].cubin)
  <2>1. CASE entries[k] # None /\ k \in torn
    <3>1. entries[k] \in Files /\ e(k) = [entries[k] EXCEPT !.whole = FALSE]
      BY <2>1 DEF DiskType
    <3> HIDE DEF e
    <3> QED BY <2>1, <3>1 DEF Files
  <2>2. CASE ~(entries[k] # None /\ k \in torn)
    BY <2>2 DEF DiskType
  <2> QED BY <2>1, <2>2
<1>5. entries' = [k \in Keys |-> e(k)]
  BY <1>2
<1> HIDE DEF e
<1>6. entries' \in [Keys -> Files \cup {None}]
  <2>1. \A k \in Keys : e(k) \in Files \cup {None}
    BY <1>4
  <2> QED BY <1>5, <2>1
<1>7. DiskType'
  BY <1>1, <1>6 DEF DiskType
<1>8. EntryInv' /\ PublishedComplete' /\ NoStrayTemp'
  <2>1. EntryInv' /\ PublishedComplete'
    BY <1>3, <1>4, <1>5 DEF EntryInv, PublishedComplete
  <2>2. \A n \in Names : temps'[n] # None => n \in orphans'
    BY <1>1 DEF NoStrayTemp, TempName
  <2> QED BY <2>1, <2>2 DEF NoStrayTemp
<1>9. \A p \in Procs : Shape(p)' /\ proc'[p].pc = "idle" /\ proc'[p].want = None
  BY <1>1 DEF Shape, Whole, With, Idle
<1>10. ProcType' /\ NameInv'
  BY <1>1, <1>3, <1>9 DEF ProcType, NameInv
<1>11. ProcInv'
  BY <1>1, <1>9 DEF ProcInv, RequestOK, GotOK, TempOK, Steps
<1>12. Direct!DieAll
  BY <1>1, <1>9 DEF Direct!DieAll
<1> QED BY <1>7, <1>8, <1>10, <1>11, <1>12 DEF DirectStep, Direct!Next

-----------------------------------------------------------------------------
(* What the eviction rests on.                                             *)

\* What MapThenSumSet adds up: the element it takes out of a set first, and
\* the function it recurses with.
First(s) == CHOOSE x \in s : TRUE
Sums(S, f) ==
  f = [s \in SUBSET S |-> IF s = {} THEN 0 ELSE SizeOf(First(s)) + f[s \ {First(s)}]]
Summing(S) == CHOOSE f : Sums(S, f)
SumOf(S) == MapThenSumSet(SizeOf, S)

\* The listing of the directory has every entry once.
LruInv ==
  /\ lru \in Seq(Keys) /\ IsInjective(lru)
  /\ ToSet(lru) = {k \in Keys : entries[k] # None}

\* What is in the directory, or on its way there, fits under the low watermark.
FitInv ==
  /\ \A k \in Keys : entries[k] # None => Storable(k)
  /\ \A p \in Procs : proc[p].pc \in {"writing", "rename"} => Storable(Key(p))

\* A scan in progress accounts for what it has still to visit: exactly, unless
\* it had to skip an entry, and then there is something left.
ScanGood(c) ==
  /\ c \in Scans /\ IsInjective(c.keys) /\ \A k \in ToSet(c.keys) : Storable(k)
  /\ SumOf(ToSet(c.keys)) <= c.total
  /\ ~c.failed => c.keys # <<>> /\ c.total = SumOf(ToSet(c.keys))

ScanInv == \A p \in Procs : proc[p].pc = "evict" => ScanGood(proc[p].scan)

EvictInv == TypeOK /\ LruInv /\ FitInv /\ ScanInv

-----------------------------------------------------------------------------
(* Sums of sizes, and listings: what the eviction computes with.           *)

\* A set of subsets of a finite set has a smallest member: induction over the
\* subsets, as the absence of a smallest counterexample.
LEMMA Smallest ==
  ASSUME NEW S, IsFiniteSet(S), NEW T, T \subseteq SUBSET S, T # {}
  PROVE  \E x \in T : \A y \in T : ~(y \subseteq x /\ y # x)
<1>1. FiniteSubsetsOf(S) = SUBSET S
  BY FS_FiniteSubsetsOfFinite
<1>2. IsWellFoundedOn(StrictSubsetOrdering(S), SUBSET S)
  BY <1>1, FS_StrictSubsetOrderingWellFounded
<1>3. \E x \in T : \A y \in T : ~ (<<y, x>> \in StrictSubsetOrdering(S))
  BY <1>2, WFMin
<1> QED BY <1>3 DEF StrictSubsetOrdering

\* The sum is the value of that function.
LEMMA SumOfDef == ASSUME NEW S PROVE SumOf(S) = Summing(S)[S]
BY DEF SumOf, MapThenSumSet, MapThenFoldSet, Summing, Sums, First

\* The first element is one of the set.
LEMMA FirstIn == ASSUME NEW s, s # {} PROVE First(s) \in s
BY DEF First

\* Two such functions agree where both are defined.
LEMMA SumsAgree ==
  ASSUME NEW S, IsFiniteSet(S), NEW U \in SUBSET S, NEW V \in SUBSET S,
         NEW f, NEW g, Sums(U, f), Sums(V, g)
  PROVE  \A s \in SUBSET (U \cap V) : f[s] = g[s]
<1> DEFINE Bad == {s \in SUBSET (U \cap V) : f[s] # g[s]}
<1> SUFFICES ASSUME Bad # {} PROVE FALSE
  OBVIOUS
<1>1. PICK s \in Bad : \A y \in Bad : ~(y \subseteq s /\ y # s)
  <2>1. Bad \subseteq SUBSET S
    OBVIOUS
  <2> HIDE DEF Bad
  <2> QED BY <2>1, Smallest
<1>2. s \in SUBSET U /\ s \in SUBSET V
  OBVIOUS
<1>3. s # {} => First(s) \in s
  BY FirstIn
<1>4. s # {} => f[s \ {First(s)}] = g[s \ {First(s)}]
  BY <1>1, <1>3
<1>5. f[s] = IF s = {} THEN 0 ELSE SizeOf(First(s)) + f[s \ {First(s)}]
  BY <1>2 DEF Sums
<1>6. g[s] = IF s = {} THEN 0 ELSE SizeOf(First(s)) + g[s \ {First(s)}]
  BY <1>2 DEF Sums
<1> QED BY <1>4, <1>5, <1>6

\* There is one for every finite set.
LEMMA SumsExist ==
  ASSUME NEW S, IsFiniteSet(S)
  PROVE  \A U \in SUBSET S : Sums(U, Summing(U))
<1> DEFINE Bad == {U \in SUBSET S : ~Sums(U, Summing(U))}
<1> SUFFICES ASSUME Bad # {} PROVE FALSE
  OBVIOUS
<1>1. PICK T \in Bad : \A y \in Bad : ~(y \subseteq T /\ y # T)
  <2>1. Bad \subseteq SUBSET S
    OBVIOUS
  <2> HIDE DEF Bad
  <2> QED BY <2>1, Smallest
<1>2. \A U \in SUBSET T : U # T => Sums(U, Summing(U))
  BY <1>1
<1> DEFINE rest(s) == s \ {First(s)}
           step(s) == IF s = {} THEN 0 ELSE SizeOf(First(s)) + Summing(rest(s))[rest(s)]
           h == [s \in SUBSET T |-> step(s)]
<1>3. ASSUME NEW s \in SUBSET T, s # {}
      PROVE  rest(s) \in SUBSET T /\ rest(s) # T /\ h[rest(s)] = Summing(rest(s))[rest(s)]
  <2>1. rest(s) \in SUBSET T /\ rest(s) # T /\ rest(s) \subseteq s
    BY <1>3, FirstIn
  <2> DEFINE r == rest(s)
  <2>2. Sums(r, Summing(r))
    BY <1>2, <2>1
  <2>3. Summing(r)[r] = IF r = {} THEN 0 ELSE SizeOf(First(r)) + Summing(r)[r \ {First(r)}]
    <3> HIDE DEF r
    <3> QED BY <2>2 DEF Sums
  <2>4. r # {} => Summing(r)[rest(r)] = Summing(rest(r))[rest(r)]
    <3> SUFFICES ASSUME r # {} PROVE Summing(r)[rest(r)] = Summing(rest(r))[rest(r)]
      OBVIOUS
    <3>1. First(r) \in r
      BY FirstIn
    <3>2. rest(r) \in SUBSET T /\ rest(r) # T /\ rest(r) \in SUBSET S /\ r \in SUBSET S
          /\ rest(r) \in SUBSET (r \cap rest(r))
      BY <2>1, <3>1, <1>1
    <3>3. Sums(rest(r), Summing(rest(r)))
      BY <1>2, <3>2
    <3> DEFINE q == rest(r)
    <3>4. q \in SUBSET S /\ q \in SUBSET (r \cap q) /\ Sums(q, Summing(q)) /\ r \in SUBSET S
      BY <3>2, <3>3
    <3> HIDE DEF q, r
    <3>5. Summing(r)[q] = Summing(q)[q]
      BY <2>2, <3>4, SumsAgree
    <3> QED BY <3>5 DEF q
  <2>5. h[r] = step(r)
    <3> HIDE DEF step, r
    <3>1. r \in SUBSET T
      BY <2>1 DEF r
    <3> QED BY <3>1
  <2> QED BY <2>1, <2>3, <2>4, <2>5
<1>4. \A s \in SUBSET T : step(s) = IF s = {} THEN 0 ELSE SizeOf(First(s)) + h[rest(s)]
  <2> SUFFICES ASSUME NEW s \in SUBSET T, s # {} PROVE h[rest(s)] = Summing(rest(s))[rest(s)]
    BY DEF step
  <2> HIDE DEF h, rest, step
  <2> QED BY <1>3
<1>5. Sums(T, h)
  <2>1. h = [s \in SUBSET T |-> step(s)]
    OBVIOUS
  <2> HIDE DEF h, step
  <2> QED BY <1>4, <2>1 DEF Sums
<1>6. Sums(T, Summing(T))
  <2> HIDE DEF h
  <2> QED BY <1>5 DEF Summing
<1> QED BY <1>1, <1>6

\* The sum takes out its first element ...
LEMMA SumFirst ==
  ASSUME NEW S, IsFiniteSet(S)
  PROVE  SumOf(S) = IF S = {} THEN 0 ELSE SizeOf(First(S)) + SumOf(S \ {First(S)})
<1> DEFINE r == S \ {First(S)}
<1>1. r \in SUBSET S /\ S \in SUBSET S /\ r \in SUBSET (S \cap r)
  OBVIOUS
<1>2. Sums(S, Summing(S)) /\ Sums(r, Summing(r))
  <2> HIDE DEF r
  <2> QED BY <1>1, SumsExist
<1>3. Summing(S)[r] = Summing(r)[r]
  <2> HIDE DEF r
  <2> QED BY <1>1, <1>2, SumsAgree
<1>4. Summing(S)[S] = IF S = {} THEN 0 ELSE SizeOf(First(S)) + Summing(S)[r]
  <2> DEFINE f == Summing(S)
  <2>1. f = [s \in SUBSET S |-> IF s = {} THEN 0 ELSE SizeOf(First(s)) + f[s \ {First(s)}]]
    BY <1>2 DEF Sums
  <2> HIDE DEF f
  <2>2. f[S] = IF S = {} THEN 0 ELSE SizeOf(First(S)) + f[S \ {First(S)}]
    BY <2>1
  <2> QED BY <2>2 DEF f
<1>5. SumOf(S) = Summing(S)[S] /\ SumOf(r) = Summing(r)[r]
  <2> HIDE DEF r
  <2> QED BY SumOfDef
<1> QED BY <1>3, <1>4, <1>5

\* ... is a natural number ...
LEMMA SumNat ==
  ASSUME NEW S, IsFiniteSet(S), \A k \in S : SizeOf(k) \in Nat
  PROVE  SumOf(S) \in Nat
<1> DEFINE Bad == {s \in SUBSET S : SumOf(s) \notin Nat}
<1> SUFFICES ASSUME Bad # {} PROVE FALSE
  OBVIOUS
<1>1. PICK T \in Bad : \A y \in Bad : ~(y \subseteq T /\ y # T)
  <2>1. Bad \subseteq SUBSET S
    OBVIOUS
  <2> HIDE DEF Bad
  <2> QED BY <2>1, Smallest
<1>2. IsFiniteSet(T)
  BY FS_Subset
<1>3. SumOf(T) = IF T = {} THEN 0 ELSE SizeOf(First(T)) + SumOf(T \ {First(T)})
  BY <1>2, SumFirst
<1>4. CASE T # {}
  <2>1. First(T) \in T
    BY <1>4, FirstIn
  <2>2. SumOf(T \ {First(T)}) \in Nat /\ SizeOf(First(T)) \in Nat
    BY <1>1, <2>1
  <2> QED BY <1>3, <1>4, <2>2
<1> QED BY <1>3, <1>4

\* ... and may take out any other.
LEMMA SumTake ==
  ASSUME NEW S, IsFiniteSet(S), \A k \in S : SizeOf(k) \in Nat, NEW x \in S
  PROVE  SumOf(S) = SizeOf(x) + SumOf(S \ {x})
<1> DEFINE Fits(s, y) == SumOf(s) = SizeOf(y) + SumOf(s \ {y})
           Bad == {s \in SUBSET S : \E y \in s : ~Fits(s, y)}
<1> SUFFICES ASSUME Bad # {} PROVE FALSE
  OBVIOUS
<1>1. PICK T \in Bad : \A y \in Bad : ~(y \subseteq T /\ y # T)
  <2>1. Bad \subseteq SUBSET S
    OBVIOUS
  <2> HIDE DEF Bad
  <2> QED BY <2>1, Smallest
<1>2. PICK y \in T : ~Fits(T, y)
  OBVIOUS
<1> DEFINE c == First(T)
<1>3. IsFiniteSet(T) /\ T # {} /\ c \in T
  BY FS_Subset, FirstIn
<1>4. SumOf(T) = SizeOf(c) + SumOf(T \ {c})
  BY <1>3, SumFirst
<1>5. y # c
  BY <1>2, <1>4
<1>6. Fits(T \ {c}, y) /\ Fits(T \ {y}, c)
  <2>1. /\ T \ {c} \in SUBSET S /\ T \ {c} \subseteq T /\ T \ {c} # T /\ y \in T \ {c}
        /\ T \ {y} \in SUBSET S /\ T \ {y} \subseteq T /\ T \ {y} # T /\ c \in T \ {y}
    BY <1>3, <1>5
  <2> HIDE DEF Fits, c
  <2> QED BY <1>1, <2>1
<1>7. (T \ {c}) \ {y} = (T \ {y}) \ {c}
  OBVIOUS
<1>8. SumOf((T \ {y}) \ {c}) \in Nat /\ SizeOf(c) \in Nat /\ SizeOf(y) \in Nat
  <2>1. IsFiniteSet((T \ {y}) \ {c}) /\ \A k \in (T \ {y}) \ {c} : SizeOf(k) \in Nat
    BY <1>3, FS_Subset
  <2> HIDE DEF c
  <2> QED BY <1>3, <2>1, SumNat
<1>9. SumOf(T) = SizeOf(y) + SumOf(T \ {y})
  <2>1. SumOf(T \ {c}) = SizeOf(y) + SumOf((T \ {y}) \ {c})
    BY <1>6, <1>7
  <2>2. SumOf(T \ {y}) = SizeOf(c) + SumOf((T \ {y}) \ {c})
    BY <1>6
  <2> HIDE DEF c
  <2> QED BY <1>4, <1>8, <2>1, <2>2
<1> QED BY <1>2, <1>9
\* A non-empty set of positions has a first one.
LEMMA MinIn ==
  ASSUME NEW n \in Nat, NEW I, I \subseteq 1 .. n, I # {}
  PROVE  Min(I) \in I
<1> DEFINE N == 1 .. n
           below(i) == 1 .. i
           T == {t \in SUBSET N : \E i \in I : t = below(i)}
<1>1. T \subseteq SUBSET N /\ T # {}
  <2>1. \A i \in I : below(i) \in SUBSET N
    OBVIOUS
  <2> HIDE DEF below, N
  <2> QED BY <2>1
<1>2. PICK x \in T : \A y \in T : ~(y \subseteq x /\ y # x)
  <2>1. IsFiniteSet(N)
    BY FS_Interval
  <2> HIDE DEF T, N
  <2> QED BY <1>1, <2>1, Smallest
<1>3. PICK i \in I : \A j \in I : ~(1 .. j \subseteq 1 .. i /\ 1 .. j # 1 .. i)
  <2>1. PICK i \in I : x = below(i)
    OBVIOUS
  <2>2. \A j \in I : below(j) \in T
    <3>1. \A j \in I : below(j) \in SUBSET N
      OBVIOUS
    <3> HIDE DEF below, N
    <3> QED BY <3>1
  <2>3. \A j \in I : ~(below(j) \subseteq below(i) /\ below(j) # below(i))
    <3> HIDE DEF T, below
    <3> QED BY <1>2, <2>1, <2>2
  <2> QED BY <2>3
<1>4. ASSUME NEW j \in I PROVE i <= j
  <2> SUFFICES ASSUME j < i PROVE FALSE
    OBVIOUS
  <2>1. 1 .. j \subseteq 1 .. i /\ i \in 1 .. i /\ i \notin 1 .. j
    OBVIOUS
  <2> QED BY <1>3, <2>1
<1> QED BY <1>4 DEF Min


\* Taking out one element leaves the others, in order.
LEMMA RemoveAtIs ==
  ASSUME NEW S, NEW s \in Seq(S), NEW i \in 1 .. Len(s)
  PROVE  /\ RemoveAt(s, i) \in Seq(S) /\ Len(RemoveAt(s, i)) = Len(s) - 1
         /\ \A j \in 1 .. Len(s) - 1 : RemoveAt(s, i)[j] = IF j < i THEN s[j] ELSE s[j + 1]
<1> DEFINE a == SubSeq(s, 1, i - 1)
           b == SubSeq(s, i + 1, Len(s))
<1>1. a \in Seq(S) /\ Len(a) = i - 1 /\ \A j \in 1 .. i - 1 : a[j] = s[j]
  OBVIOUS
<1>2. b \in Seq(S) /\ Len(b) = Len(s) - i /\ \A j \in 1 .. Len(s) - i : b[j] = s[i + j]
  OBVIOUS
<1> HIDE DEF a, b
<1>3. a \o b \in Seq(S) /\ Len(a \o b) = Len(s) - 1
  <2>1. a \o b \in Seq(S) /\ Len(a \o b) = Len(a) + Len(b)
    BY <1>1, <1>2, ConcatProperties
  <2> QED BY <1>1, <1>2, <2>1
<1>4. ASSUME NEW j \in 1 .. Len(s) - 1 PROVE (a \o b)[j] = IF j < i THEN s[j] ELSE s[j + 1]
  <2>1. CASE j < i
    BY <1>1, <1>2, <2>1
  <2>2. CASE ~(j < i)
    <3>1. (a \o b)[j] = b[j - (i - 1)]
      BY <1>1, <1>2, <2>2
    <3>2. j - (i - 1) \in 1 .. Len(s) - i /\ i + (j - (i - 1)) = j + 1
      BY <2>2
    <3> QED BY <1>2, <2>2, <3>1, <3>2
  <2> QED BY <2>1, <2>2
<1> QED BY <1>3, <1>4 DEF RemoveAt, a, b

\* Without(k): k is gone, the others are still there once.
LEMMA RemoveFirstIs ==
  ASSUME NEW S, NEW s \in Seq(S), IsInjective(s), NEW k
  PROVE  /\ RemoveFirst(s, k) \in Seq(S) /\ IsInjective(RemoveFirst(s, k))
         /\ ToSet(RemoveFirst(s, k)) = ToSet(s) \ {k}
<1> DEFINE I == {i \in 1 .. Len(s) : s[i] = k}
<1>1. CASE I = {}
  <2>1. RemoveFirst(s, k) = s
    BY <1>1 DEF RemoveFirst
  <2> QED BY <1>1, <2>1 DEF ToSet
<1>2. CASE I # {}
  <2>1. PICK m \in I : m = Min(I)
    <3>1. I \subseteq 1 .. Len(s) /\ Len(s) \in Nat
      OBVIOUS
    <3> HIDE DEF I
    <3> QED BY <1>2, <3>1, MinIn
  <2>2. RemoveFirst(s, k) = RemoveAt(s, m)
    BY <1>2, <2>1 DEF RemoveFirst, SelectInSeq
  <2> DEFINE t == RemoveAt(s, m)
  <2>3. /\ t \in Seq(S) /\ Len(t) = Len(s) - 1 /\ m \in 1 .. Len(s) /\ s[m] = k
        /\ \A j \in 1 .. Len(s) - 1 : t[j] = IF j < m THEN s[j] ELSE s[j + 1]
    BY RemoveAtIs
  <2> HIDE DEF t
  <2>4. IsInjective(t)
    <3> SUFFICES ASSUME NEW i \in 1 .. Len(t), NEW j \in 1 .. Len(t), t[i] = t[j] PROVE i = j
      BY DEF IsInjective
    <3> DEFINE u(x) == IF x < m THEN x ELSE x + 1
    <3>1. u(i) \in 1 .. Len(s) /\ u(j) \in 1 .. Len(s) /\ t[i] = s[u(i)] /\ t[j] = s[u(j)]
      BY <2>3
    <3>2. u(i) = u(j)
      <4>1. DOMAIN s = 1 .. Len(s)
        OBVIOUS
      <4> HIDE DEF u
      <4> QED BY <3>1, <4>1 DEF IsInjective
    <3> QED BY <2>3, <3>2
  <2>5. ToSet(t) \subseteq ToSet(s) \ {k}
    <3> SUFFICES ASSUME NEW i \in 1 .. Len(t) PROVE t[i] \in ToSet(s) /\ t[i] # k
      BY DEF ToSet
    <3> DEFINE u == IF i < m THEN i ELSE i + 1
    <3>1. u \in 1 .. Len(s) /\ t[i] = s[u] /\ u # m
      BY <2>3
    <3> HIDE DEF u
    <3> QED BY <2>3, <3>1 DEF ToSet, IsInjective
  <2>6. ToSet(s) \ {k} \subseteq ToSet(t)
    <3> SUFFICES ASSUME NEW i \in 1 .. Len(s), s[i] # k PROVE s[i] \in ToSet(t)
      BY DEF ToSet
    <3> DEFINE u == IF i < m THEN i ELSE i - 1
    <3>0. i # m
      BY <2>3
    <3>1. u \in 1 .. Len(t) /\ t[u] = s[i]
      BY <2>3, <3>0
    <3> HIDE DEF u
    <3> QED BY <3>1 DEF ToSet
  <2> QED BY <2>2, <2>3, <2>4, <2>5, <2>6 DEF t
<1> QED BY <1>1, <1>2

\* Append of a new element.
LEMMA AppendIs ==
  ASSUME NEW S, NEW s \in Seq(S), IsInjective(s), NEW k \in S, k \notin ToSet(s)
  PROVE  /\ Append(s, k) \in Seq(S) /\ IsInjective(Append(s, k))
         /\ ToSet(Append(s, k)) = ToSet(s) \cup {k}
<1> DEFINE t == Append(s, k)
<1>1. /\ t \in Seq(S) /\ Len(t) = Len(s) + 1 /\ t[Len(s) + 1] = k
      /\ \A i \in 1 .. Len(s) : t[i] = s[i]
  OBVIOUS
<1> HIDE DEF t
<1>2. IsInjective(t)
  BY <1>1 DEF IsInjective, ToSet
<1>3. ToSet(t) = ToSet(s) \cup {k}
  <2>1. ToSet(t) \subseteq ToSet(s) \cup {k}
    BY <1>1 DEF ToSet
  <2>2. ToSet(s) \cup {k} \subseteq ToSet(t)
    BY <1>1 DEF ToSet
  <2> QED BY <2>1, <2>2
<1> QED BY <1>1, <1>2, <1>3 DEF t

\* InsertAt of a new element.
LEMMA InsertIs ==
  ASSUME NEW S, NEW s \in Seq(S), IsInjective(s), NEW k \in S, k \notin ToSet(s),
         NEW i \in 1 .. Len(s) + 1
  PROVE  /\ InsertAt(s, i, k) \in Seq(S) /\ IsInjective(InsertAt(s, i, k))
         /\ ToSet(InsertAt(s, i, k)) = ToSet(s) \cup {k}
<1> DEFINE a == SubSeq(s, 1, i - 1)
           b == SubSeq(s, i, Len(s))
           c == a \o <<k>>
           t == c \o b
<1>0. Len(s) \in Nat
  OBVIOUS
<1>1. /\ a \in Seq(S) /\ Len(a) = i - 1 /\ \A j \in 1 .. i - 1 : a[j] = s[j]
  <2>1. 1 \in Int /\ i - 1 \in Int /\ \A j \in 1 .. i - 1 : s[j] \in S
    BY <1>0
  <2> QED BY <1>0, <2>1, SubSeqProperties
<1>2. /\ b \in Seq(S) /\ Len(b) = Len(s) + 1 - i
      /\ \A j \in 1 .. Len(s) + 1 - i : b[j] = s[i + j - 1]
  <2>1. \A j \in i .. Len(s) : s[j] \in S
    BY <1>0
  <2> QED BY <1>0, <2>1, SubSeqProperties
<1> HIDE DEF a, b
<1>c. /\ c \in Seq(S) /\ Len(c) = i /\ c[i] = k /\ \A j \in 1 .. i - 1 : c[j] = s[j]
  <2>1. <<k>> \in Seq(S) /\ Len(<<k>>) = 1 /\ <<k>>[1] = k
    OBVIOUS
  <2>2. /\ c \in Seq(S) /\ Len(c) = Len(a) + 1
        /\ \A j \in 1 .. Len(a) + 1 : c[j] = IF j <= Len(a) THEN a[j] ELSE <<k>>[j - Len(a)]
    BY <1>1, <2>1, ConcatProperties
  <2> HIDE DEF c
  <2>3. i \in Int /\ Len(a) + 1 = i /\ i \in 1 .. Len(a) + 1 /\ i - Len(a) = 1 /\ ~(i <= Len(a))
    BY <1>0, <1>1
  <2>4. c[i] = k
    BY <2>1, <2>2, <2>3
  <2>5. ASSUME NEW j \in 1 .. i - 1 PROVE c[j] = s[j]
    <3>1. j \in 1 .. Len(a) + 1 /\ j <= Len(a)
      BY <1>0, <1>1
    <3> QED BY <1>1, <2>2, <3>1
  <2> QED BY <2>2, <2>3, <2>4, <2>5
<1>4. InsertAt(s, i, k) = t
  BY DEF InsertAt, a, b, c
<1>t. /\ t \in Seq(S) /\ Len(t) = Len(c) + Len(b)
      /\ \A j \in 1 .. Len(c) + Len(b) : t[j] = IF j <= Len(c) THEN c[j] ELSE b[j - Len(c)]
  <2> HIDE DEF c
  <2> QED BY <1>2, <1>c, ConcatProperties
<1> HIDE DEF c, t
<1>3. /\ t \in Seq(S) /\ Len(t) = Len(s) + 1 /\ t[i] = k
      /\ \A j \in 1 .. i - 1 : t[j] = s[j]
      /\ \A j \in i + 1 .. Len(s) + 1 : t[j] = s[j - 1]
  <2>0. Len(c) + Len(b) = Len(s) + 1 /\ i \in Int /\ i <= Len(s) + 1 /\ i >= 1
    BY <1>0, <1>2, <1>c
  <2>1. t[i] = k /\ \A j \in 1 .. i - 1 : t[j] = s[j]
    <3>1. ASSUME NEW j \in 1 .. i PROVE t[j] = c[j]
      <4>1. j \in 1 .. Len(c) + Len(b) /\ j <= Len(c)
        BY <1>0, <1>c, <2>0
      <4> QED BY <1>t, <4>1
    <3>2. i \in 1 .. i /\ \A j \in 1 .. i - 1 : j \in 1 .. i
      BY <2>0
    <3> QED BY <1>c, <3>1, <3>2
  <2>2. ASSUME NEW j \in i + 1 .. Len(s) + 1 PROVE t[j] = s[j - 1]
    <3>1. /\ j \in 1 .. Len(c) + Len(b) /\ ~(j <= Len(c)) /\ j - Len(c) = j - i
          /\ j - i \in 1 .. Len(s) + 1 - i /\ i + (j - i) - 1 = j - 1
      BY <1>0, <1>c, <2>0
    <3>2. t[j] = b[j - i]
      BY <1>t, <3>1
    <3> QED BY <1>2, <3>1, <3>2
  <2> QED BY <1>t, <2>0, <2>1, <2>2
<1>5. ASSUME NEW j \in 1 .. Len(s) + 1, j # i
      PROVE  \E m \in 1 .. Len(s) : t[j] = s[m] /\ m = IF j < i THEN j ELSE j - 1
  <2>1. CASE j < i
    <3>1. j \in 1 .. i - 1 /\ j \in 1 .. Len(s)
      BY <1>0, <2>1
    <3> QED BY <1>3, <2>1, <3>1
  <2>2. CASE ~(j < i)
    <3>1. j \in i + 1 .. Len(s) + 1 /\ j - 1 \in 1 .. Len(s)
      BY <1>0, <1>5, <2>2
    <3> QED BY <1>3, <2>2, <3>1
  <2> QED BY <2>1, <2>2
<1>6. IsInjective(t)
  <2> SUFFICES ASSUME NEW x \in 1 .. Len(s) + 1, NEW y \in 1 .. Len(s) + 1, t[x] = t[y] PROVE x = y
    BY <1>3 DEF IsInjective
  <2>1. \A m \in 1 .. Len(s) : s[m] # k
    BY DEF ToSet
  <2>2. \A m, n \in 1 .. Len(s) : s[m] = s[n] => m = n
    BY DEF IsInjective
  <2>3. CASE x = i \/ y = i
    BY <1>3, <1>5, <2>1, <2>3
  <2>4. CASE x # i /\ y # i
    <3>1. PICK m \in 1 .. Len(s) : t[x] = s[m] /\ m = IF x < i THEN x ELSE x - 1
      BY <1>5, <2>4
    <3>2. PICK n \in 1 .. Len(s) : t[y] = s[n] /\ n = IF y < i THEN y ELSE y - 1
      BY <1>5, <2>4
    <3>3. m = n
      BY <2>2, <3>1, <3>2
    <3> QED BY <1>0, <2>4, <3>1, <3>2, <3>3
  <2> QED BY <2>3, <2>4
<1>7. ToSet(t) = ToSet(s) \cup {k}
  <2>1. ToSet(t) \subseteq ToSet(s) \cup {k}
    BY <1>3, <1>5 DEF ToSet
  <2>2. ASSUME NEW m \in 1 .. Len(s) PROVE s[m] \in ToSet(t)
    <3>0. ToSet(t) = {t[j] : j \in 1 .. Len(s) + 1} /\ m \in 1 .. Len(s) + 1 /\ m + 1 \in 1 .. Len(s) + 1
      BY <1>0, <1>3 DEF ToSet
    <3>1. CASE m < i
      <4>1. m \in 1 .. i - 1
        BY <1>0, <3>1
      <4>2. t[m] = s[m]
        BY <1>3, <4>1
      <4> QED BY <3>0, <4>2
    <3>2. CASE m >= i
      <4>1. m + 1 \in i + 1 .. Len(s) + 1 /\ m + 1 - 1 = m
        BY <1>0, <3>2
      <4>2. t[m + 1] = s[m]
        BY <1>3, <4>1
      <4> QED BY <3>0, <4>2
    <3> QED BY <1>0, <3>1, <3>2
  <2>3. k \in ToSet(t)
    BY <1>0, <1>3 DEF ToSet
  <2> QED BY <2>1, <2>2, <2>3 DEF ToSet
<1> QED BY <1>3, <1>4, <1>6, <1>7

\* The rest of a sequence without repetitions.
LEMMA TailIs ==
  ASSUME NEW S, NEW s \in Seq(S), IsInjective(s), s # <<>>
  PROVE  /\ Tail(s) \in Seq(S) /\ IsInjective(Tail(s)) /\ Head(s) \in ToSet(s)
         /\ ToSet(Tail(s)) = ToSet(s) \ {Head(s)}
<1> DEFINE t == Tail(s)
<1>1. /\ t \in Seq(S) /\ Len(t) = Len(s) - 1 /\ Len(s) \in Nat /\ Len(s) > 0 /\ Head(s) = s[1]
      /\ \A i \in 1 .. Len(s) - 1 : t[i] = s[i + 1]
  OBVIOUS
<1> HIDE DEF t
<1>2. IsInjective(t)
  BY <1>1 DEF IsInjective
<1>3. Head(s) \in ToSet(s)
  BY <1>1 DEF ToSet
<1>4. ToSet(t) \subseteq ToSet(s) \ {Head(s)}
  BY <1>1 DEF ToSet, IsInjective
<1>5. ToSet(s) \ {Head(s)} \subseteq ToSet(t)
  <2> SUFFICES ASSUME NEW i \in 1 .. Len(s), s[i] # Head(s) PROVE s[i] \in ToSet(t)
    BY DEF ToSet
  <2>1. i - 1 \in 1 .. Len(t) /\ t[i - 1] = s[i]
    BY <1>1
  <2> QED BY <1>1, <2>1 DEF ToSet
<1> QED BY <1>1, <1>2, <1>3, <1>4, <1>5 DEF t

\* A sequence has finitely many elements.
LEMMA ToSetFinite ==
  ASSUME NEW S, NEW s \in Seq(S)
  PROVE  IsFiniteSet(ToSet(s))
<1>1. IsFiniteSet(1 .. Len(s))
  BY FS_Interval
<1>2. s \in Surjection(1 .. Len(s), ToSet(s))
  BY DEF ToSet, Surjection
<1> QED BY <1>1, <1>2, FS_Surjection
-----------------------------------------------------------------------------
(* Steps preserve what the eviction rests on.                              *)

\* The requests of TypeOK.
Recs == [pc : Steps, want : Kernels \cup {None}, fp : Bins \cup {None},
         name : Names \cup {None}, got : Files \cup {None}, disk : BOOLEAN, scan : Scans]

\* The directory holds what fits, and is listed as it is.
DirInv == LruInv /\ \A k \in Keys : entries[k] # None => Storable(k)

\* Every request is as a scan or a put needs it.
ProcFit ==
  /\ proc \in [Procs -> Recs] /\ ScanInv
  /\ \A p \in Procs : proc[p].pc \in {"writing", "rename"} => Storable(Key(p))

\* Everything else has its type.
RestType ==
  /\ answer \in [Procs -> Cubins \cup {None, Failure}]
  /\ fast \in [Procs -> Bins \cup {None}] /\ bin \in [Procs -> Bins]
  /\ DiskType /\ locker \in Procs \cup {None}
  /\ requests \in 0 .. MaxRequests /\ ioErrors \in 0 .. MaxIoErrors
  /\ toolFaults \in 0 .. MaxToolFaults
  /\ crashes \in 0 .. MaxCrashes /\ powerLosses \in 0 .. MaxCrashes
  /\ orphans \subseteq Names /\ swapped \subseteq Procs

\* These are the parts of the invariant.
LEMMA EvictParts == EvictInv <=> DirInv /\ ProcFit /\ RestType
BY DEF EvictInv, DirInv, ProcFit, RestType, TypeOK, LruInv, FitInv, DiskType, Recs

\* The step of one process, whatever it does to the disk.
LEMMA ProcFitStep ==
  ASSUME ProcFit, ProcType, NEW p \in Procs, NEW s \in Steps, NEW g \in Files \cup {None},
         NEW d \in BOOLEAN, NEW c \in Scans,
         proc' = [proc EXCEPT ![p] = With(proc[p], s, g, d, c)],
         s = "evict" => ScanGood(c),
         s \in {"writing", "rename"} => Storable(Key(p))
  PROVE  ProcFit'
<1> DEFINE r == With(proc[p], s, g, d, c)
<1>1. /\ r.pc = s /\ r.scan = c /\ r.want = proc[p].want /\ r.fp = proc[p].fp
  BY DEF With
<1>2. r \in Recs
  <2>1. proc[p] \in Recs
    BY DEF ProcFit
  <2> QED BY <2>1 DEF Recs, With
<1>3. proc' = [proc EXCEPT ![p] = r]
  OBVIOUS
<1> HIDE DEF r
<1>4. proc' \in [Procs -> Recs] /\ proc'[p] = r /\ \A q \in Procs \ {p} : proc'[q] = proc[q]
  BY <1>2, <1>3 DEF ProcFit
<1>5. ScanInv'
  BY <1>1, <1>4 DEF ProcFit, ScanInv
<1>6. ASSUME NEW q \in Procs, proc'[q].pc \in {"writing", "rename"} PROVE Storable(Key(q)')
  <2>1. CASE q = p
    BY <1>1, <1>4, <1>6, <2>1 DEF Key
  <2>2. CASE q # p
    BY <1>4, <1>6, <2>2 DEF Key, ProcFit
  <2> QED BY <2>1, <2>2
<1>7. \A q \in Procs : proc'[q].pc \in {"writing", "rename"} => Storable(Key(q)')
  BY <1>6
<1> QED BY <1>4, <1>5, <1>7 DEF ProcFit, Storable, SizeOf

\* A request that ends, or begins.
LEMMA ProcFitSet ==
  ASSUME ProcFit, NEW p \in Procs, NEW r \in Recs, proc' = [proc EXCEPT ![p] = r],
         r.pc \notin {"evict", "writing", "rename"}
  PROVE  ProcFit'
<1>1. proc' \in [Procs -> Recs] /\ proc'[p] = r /\ \A q \in Procs \ {p} : proc'[q] = proc[q]
  BY DEF ProcFit
<1>2. ScanInv'
  BY <1>1 DEF ProcFit, ScanInv
<1>3. ASSUME NEW q \in Procs, proc'[q].pc \in {"writing", "rename"} PROVE Storable(Key(q)')
  <2>1. q # p
    BY <1>1, <1>3
  <2> QED BY <1>1, <1>3, <2>1 DEF Key, ProcFit
<1> QED BY <1>1, <1>2, <1>3 DEF ProcFit, Storable, SizeOf

\* A process between requests has the type of a request.
LEMMA IdleRec == Idle \in Recs /\ NoScan \in Scans
<1>1. NoScan \in Scans
  BY DEF NoScan, Scans
<1> QED BY <1>1 DEF Idle, Recs, Steps

\* The same step for one that only moves on.
LEMMA GotoFit ==
  ASSUME ProcFit, ProcType, NEW p \in Procs, NEW s \in Steps \ {"evict"}, Goto(p, s),
         s \in {"writing", "rename"} => Storable(Key(p))
  PROVE  ProcFit'
<1>1. proc' = [proc EXCEPT ![p] = [proc[p] EXCEPT !.pc = s]]
  BY DEF Goto
<1>2. proc' = [proc EXCEPT ![p] = With(proc[p], s, proc[p].got, proc[p].disk, proc[p].scan)]
  BY <1>1, SetField DEF ProcType, Shape
<1>3. proc[p] \in Recs
  BY DEF ProcFit
<1>4. proc[p].got \in Files \cup {None} /\ proc[p].disk \in BOOLEAN /\ proc[p].scan \in Scans
  BY <1>3 DEF Recs
<1> QED BY <1>2, <1>4, ProcFitStep

\* An entry goes, and the listing with it.
LEMMA RemoveDir ==
  ASSUME DirInv, DiskType, NEW k \in Keys,
         entries' = [entries EXCEPT ![k] = None], lru' = Without(k)
  PROVE  DirInv'
<1>1. /\ lru' \in Seq(Keys) /\ IsInjective(lru') /\ ToSet(lru') = ToSet(lru) \ {k}
  BY RemoveFirstIs DEF DirInv, LruInv, Without
<1>2. \A j \in Keys : entries'[j] = IF j = k THEN None ELSE entries[j]
  BY DEF DiskType
<1>3. ToSet(lru) = {j \in Keys : entries[j] # None}
  BY DEF DirInv, LruInv
<1>4. ToSet(lru') = {j \in Keys : entries'[j] # None}
  BY <1>1, <1>2, <1>3
<1> QED BY <1>1, <1>2, <1>4 DEF DirInv, LruInv, Storable, SizeOf

\* An entry becomes the newest.
LEMMA RenewDir ==
  ASSUME DirInv, NEW k \in Keys, Storable(k), entries'[k] # None,
         \A j \in Keys \ {k} : entries'[j] = entries[j], lru' = Append(Without(k), k)
  PROVE  DirInv'
<1> DEFINE w == Without(k)
<1>1. /\ w \in Seq(Keys) /\ IsInjective(w) /\ ToSet(w) = ToSet(lru) \ {k}
  BY RemoveFirstIs DEF DirInv, LruInv, Without
<1> HIDE DEF w
<1>2. lru' = Append(w, k)
  BY DEF w
<1>3. /\ lru' \in Seq(Keys) /\ IsInjective(lru') /\ ToSet(lru') = ToSet(w) \cup {k}
  BY <1>1, <1>2, AppendIs
<1>4. ToSet(lru) = {j \in Keys : entries[j] # None}
  BY DEF DirInv, LruInv
<1>5. ToSet(lru') = {j \in Keys : entries'[j] # None}
  BY <1>1, <1>3, <1>4
<1> QED BY <1>3, <1>5 DEF DirInv, LruInv, Storable, SizeOf

\* An entry takes its place among the others.
LEMMA EnterDir ==
  ASSUME DirInv, NEW k \in Keys, Storable(k), entries'[k] # None,
         \A j \in Keys \ {k} : entries'[j] = entries[j],
         NEW i \in 1 .. Len(Without(k)) + 1, lru' = InsertAt(Without(k), i, k)
  PROVE  DirInv'
<1> DEFINE w == Without(k)
<1>1. /\ w \in Seq(Keys) /\ IsInjective(w) /\ ToSet(w) = ToSet(lru) \ {k}
  BY RemoveFirstIs DEF DirInv, LruInv, Without
<1>2. i \in 1 .. Len(w) + 1 /\ lru' = InsertAt(w, i, k)
  OBVIOUS
<1> HIDE DEF w
<1>3. /\ lru' \in Seq(Keys) /\ IsInjective(lru') /\ ToSet(lru') = ToSet(w) \cup {k}
  BY <1>1, <1>2, InsertIs
<1>4. ToSet(lru) = {j \in Keys : entries[j] # None}
  BY DEF DirInv, LruInv
<1>5. ToSet(lru') = {j \in Keys : entries'[j] # None}
  BY <1>1, <1>3, <1>4
<1> QED BY <1>3, <1>5 DEF DirInv, LruInv, Storable, SizeOf

\* Sizes are natural numbers.
LEMMA SizeNat == \A k \in Keys : SizeOf(k) \in Nat
BY StoreAssumption DEF SizeOf, Keys

\* The sum over a listing.
LEMMA SumListing ==
  ASSUME NEW s \in Seq(Keys)
  PROVE  /\ SumOf(ToSet(s)) \in Nat /\ SumOf({}) = 0
         /\ \A k \in ToSet(s) : SumOf(ToSet(s)) = SizeOf(k) + SumOf(ToSet(s) \ {k})
<1>1. IsFiniteSet(ToSet(s)) /\ IsFiniteSet({})
  BY ToSetFinite, FS_EmptySet
<1>2. ToSet(s) \subseteq Keys
  BY DEF ToSet
<1>3. \A k \in ToSet(s) : SizeOf(k) \in Nat
  BY <1>2, SizeNat
<1>4. SumOf(ToSet(s)) \in Nat
  BY <1>1, <1>3, SumNat
<1>5. SumOf({}) = 0
  BY <1>1, SumFirst
<1>6. \A k \in ToSet(s) : SumOf(ToSet(s)) = SizeOf(k) + SumOf(ToSet(s) \ {k})
  BY <1>1, <1>3, SumTake
<1> QED BY <1>4, <1>5, <1>6

\* A scan begins above the high watermark, so with something to visit.
LEMMA ScanBegins ==
  ASSUME DirInv, ~(Total <= High)
  PROVE  ScanGood([keys |-> lru, total |-> Total, failed |-> FALSE])
<1> DEFINE c == [keys |-> lru, total |-> Total, failed |-> FALSE]
<1>1. lru \in Seq(Keys) /\ IsInjective(lru) /\ ToSet(lru) = {k \in Keys : entries[k] # None}
  BY DEF DirInv, LruInv
<1>2. Total = SumOf(ToSet(lru))
  BY <1>1 DEF Total, SumOf
<1>3. SumOf(ToSet(lru)) \in Nat /\ SumOf({}) = 0
  BY <1>1, SumListing
<1>4. c \in Scans /\ c.keys = lru /\ c.total = SumOf(ToSet(lru)) /\ c.failed = FALSE
  BY <1>1, <1>2, <1>3 DEF Scans
<1>5. lru # <<>>
  <2> SUFFICES ASSUME lru = <<>> PROVE FALSE
    OBVIOUS
  <2>1. ToSet(lru) = {}
    BY DEF ToSet
  <2>2. Total = 0
    BY <1>2, <1>3, <2>1
  <2>3. High \in Nat
    BY StoreAssumption
  <2> QED BY <2>2, <2>3
<1>6. \A k \in ToSet(lru) : Storable(k)
  BY <1>1 DEF DirInv
<1> HIDE DEF c
<1>7. ScanGood(c)
  <2>1. SumOf(ToSet(lru)) <= SumOf(ToSet(lru))
    BY <1>3
  <2> QED BY <1>1, <1>4, <1>5, <1>6, <2>1 DEF ScanGood
<1> QED BY <1>7 DEF c

\* Taking the oldest entry leaves the sum of the others, and an entry that is
\* the last one fits under the low watermark: the scan would have ended.
LEMMA ScanGoesOn ==
  ASSUME NEW c, ScanGood(c), ~Enough(c), NEW k, k = Head(c.keys)
  PROVE  /\ k \in Keys
         /\ ScanGood([c EXCEPT !.keys = Tail(@), !.total = @ - SizeOf(k)])
         /\ ScanGood([c EXCEPT !.keys = Tail(@), !.failed = TRUE])
<1> DEFINE t == Tail(c.keys)
           take == [c EXCEPT !.keys = Tail(@), !.total = @ - SizeOf(k)]
           skip == [c EXCEPT !.keys = Tail(@), !.failed = TRUE]
<1>1. /\ c.keys \in Seq(Keys) /\ c.total \in Nat /\ c.failed \in BOOLEAN
      /\ c.keys # <<>> /\ ~(c.total <= Low) /\ IsInjective(c.keys)
  BY DEF ScanGood, Scans, Enough
<1>2. /\ t \in Seq(Keys) /\ IsInjective(t) /\ k \in ToSet(c.keys) /\ ToSet(t) = ToSet(c.keys) \ {k}
  BY <1>1, TailIs
<1>3. k \in Keys
  BY <1>1, <1>2 DEF ToSet
<1>4. /\ SumOf(ToSet(c.keys)) = SizeOf(k) + SumOf(ToSet(t))
      /\ SumOf(ToSet(t)) \in Nat /\ SizeOf(k) \in Nat /\ SumOf(ToSet(c.keys)) <= c.total
      /\ SumOf({}) = 0
  BY <1>1, <1>2, <1>3, SumListing, SizeNat DEF ScanGood
<1>5. \A j \in ToSet(t) : Storable(j)
  BY <1>2 DEF ScanGood
<1>6. SizeOf(k) <= Low /\ Low \in Nat
  BY <1>2, StoreAssumption DEF ScanGood, Storable
<1>7. /\ take = [keys |-> t, total |-> c.total - SizeOf(k), failed |-> c.failed]
      /\ skip = [keys |-> t, total |-> c.total, failed |-> TRUE]
  <2> DEFINE a == [c EXCEPT !.keys = t]
  <2>1. c = [keys |-> c.keys, total |-> c.total, failed |-> c.failed]
    BY DEF ScanGood, Scans
  <2>2. take = [a EXCEPT !.total = a.total - SizeOf(k)] /\ skip = [a EXCEPT !.failed = TRUE]
    OBVIOUS
  <2> HIDE DEF take, skip, t
  <2>3. a = [keys |-> t, total |-> c.total, failed |-> c.failed]
    BY <2>1
  <2> HIDE DEF a
  <2>4. take = [keys |-> t, total |-> c.total - SizeOf(k), failed |-> c.failed]
    BY <2>2, <2>3
  <2>5. skip = [keys |-> t, total |-> c.total, failed |-> TRUE]
    BY <2>2, <2>3
  <2> QED BY <2>4, <2>5
<1> HIDE DEF t, take, skip
<1>9. c.total - SizeOf(k) \in Nat /\ SumOf(ToSet(t)) <= c.total - SizeOf(k) /\ SumOf(ToSet(t)) <= c.total
  BY <1>1, <1>4
<1>10. ~c.failed => t # <<>> /\ c.total - SizeOf(k) = SumOf(ToSet(t))
  <2> SUFFICES ASSUME ~c.failed PROVE t # <<>> /\ c.total - SizeOf(k) = SumOf(ToSet(t))
    OBVIOUS
  <2>1. c.total = SizeOf(k) + SumOf(ToSet(t))
    BY <1>4 DEF ScanGood
  <2>2. c.total - SizeOf(k) = SumOf(ToSet(t))
    BY <1>1, <1>4, <2>1
  <2>3. ASSUME t = <<>> PROVE FALSE
    <3>1. ToSet(t) = {}
      BY <2>3 DEF ToSet
    <3>2. c.total = SizeOf(k)
      BY <1>1, <1>4, <2>1, <3>1
    <3> QED BY <1>1, <1>6, <3>2
  <2> QED BY <2>2, <2>3
<1>11. take \in Scans /\ take.keys = t /\ take.total = c.total - SizeOf(k) /\ take.failed = c.failed
  BY <1>1, <1>2, <1>7, <1>9 DEF Scans
<1>12. skip \in Scans /\ skip.keys = t /\ skip.total = c.total /\ skip.failed
  BY <1>1, <1>2, <1>7 DEF Scans
<1>13. ScanGood(take)
  BY <1>2, <1>5, <1>9, <1>10, <1>11 DEF ScanGood
<1>14. ScanGood(skip)
  BY <1>2, <1>5, <1>9, <1>12 DEF ScanGood
<1> QED BY <1>3, <1>13, <1>14 DEF take, skip

\* A step that leaves entries and listing alone.
LEMMA SameDir == ASSUME DirInv, UNCHANGED <<entries, lru>> PROVE DirInv'
BY DEF DirInv, LruInv, Storable, SizeOf

\* A process has something of the right type in every field.
LEMMA RecFields ==
  ASSUME ProcFit, NEW p \in Procs
  PROVE  proc[p].got \in Files \cup {None} /\ proc[p].disk \in BOOLEAN /\ proc[p].scan \in Scans
<1>1. proc[p] \in Recs
  BY DEF ProcFit
<1> QED BY <1>1 DEF Recs

\* get, and the touch that makes an entry the newest.
LEMMA LookupFit ==
  ASSUME IndInv, DirInv, ProcFit, NEW p \in Procs, Get(p) \/ GetFails(p) \/ Touch(p)
  PROVE  DirInv' /\ ProcFit'
<1>0. ProcType /\ DiskType /\ Whole(proc[p])
  BY DEF IndInv, ProcType, Shape
<1>1. proc[p].got \in Files \cup {None} /\ proc[p].disk \in BOOLEAN /\ proc[p].scan \in Scans
  BY RecFields
<1>2. proc[p].pc \in {"get", "touch"}
  BY DEF Get, GetFails, Touch, At
<1>3. Key(p) \in Keys
  BY <1>2, NameType
<1>4. ProcFit'
  <2>1. ASSUME NEW s \in {"compile", "delete"}, Goto(p, s) PROVE ProcFit'
    BY <1>0, <2>1, GotoFit DEF Steps
  <2>2. CASE proc' = [proc EXCEPT ![p].pc = "touch", ![p].got = entries[Key(p)]]
    <3> DEFINE g == entries[Key(p)]
    <3>1. proc' = [proc EXCEPT ![p] = [[proc[p] EXCEPT !.pc = "touch"] EXCEPT !.got = g]]
      BY <2>2
    <3>2. g \in Files \cup {None}
      BY <1>0, <1>3 DEF DiskType
    <3> HIDE DEF g
    <3>3. proc' = [proc EXCEPT ![p] = With(proc[p], "touch", g, proc[p].disk, proc[p].scan)]
      BY <1>0, <3>1, SetGot
    <3> QED BY <1>0, <1>1, <3>2, <3>3, ProcFitStep DEF Steps
  <2>3. CASE proc' = [proc EXCEPT ![p].pc = "load", ![p].disk = TRUE]
    <3>1. proc' = [proc EXCEPT ![p] = [[proc[p] EXCEPT !.pc = "load"] EXCEPT !.disk = TRUE]]
      BY <2>3
    <3>2. proc' = [proc EXCEPT ![p] = With(proc[p], "load", proc[p].got, TRUE, proc[p].scan)]
      BY <1>0, <3>1, SetDisk
    <3> QED BY <1>0, <1>1, <3>2, ProcFitStep DEF Steps
  <2> QED BY <2>1, <2>2, <2>3 DEF Get, GetFails, Touch
<1>5. DirInv'
  <2>1. CASE UNCHANGED <<entries, lru>>
    BY <2>1, SameDir
  <2>2. CASE /\ entries[Key(p)] # None /\ UNCHANGED entries
             /\ lru' = Append(Without(Key(p)), Key(p))
    <3>1. Storable(Key(p))
      BY <1>3, <2>2 DEF DirInv
    <3> QED BY <1>3, <2>2, <3>1, RenewDir
  <2> QED BY <2>1, <2>2 DEF Get, GetFails, Touch, diskVars
<1> QED BY <1>4, <1>5

\* An entry is deleted by name, or is not.
LEMMA DeleteFit ==
  ASSUME IndInv, DirInv, ProcFit, NEW p \in Procs, NEW from \in {"delete", "reject"},
         NEW to \in {"compile", "recompile"}, Delete(p, from, to)
  PROVE  DirInv' /\ ProcFit'
<1>0. ProcType /\ DiskType /\ proc[p].pc = from
  BY DEF IndInv, Delete, At
<1>1. Key(p) \in Keys
  BY <1>0, NameType
<1>2. ProcFit'
  BY <1>0, GotoFit DEF Delete, Steps
<1>3. CASE UNCHANGED <<entries, lru>>
  BY <1>2, <1>3, SameDir
<1>4. CASE RemoveEntry(Key(p))
  BY <1>0, <1>1, <1>2, <1>4, RemoveDir DEF RemoveEntry
<1> QED BY <1>3, <1>4 DEF Delete, diskVars

\* What is compiled is a file, and what is not stored goes on.
LEMMA CompileFit ==
  ASSUME IndInv, DirInv, ProcFit, NEW p \in Procs,
         \/ Compile(p, "compile", "put") \/ Compile(p, "recompile", "load")
         \/ NotStored(p) \/ Declined(p) \/ RejectDisk(p)
  PROVE  DirInv' /\ ProcFit'
<1>0. ProcType /\ DiskType /\ Whole(proc[p]) /\ RequestOK(p)
  BY DEF IndInv, ProcType, Shape, ProcInv
<1>1. DirInv'
  BY SameDir DEF Compile, NotStored, Declined, RejectDisk, diskVars
<1>2. ASSUME NEW s \in {"load", "reject"}, Goto(p, s) PROVE ProcFit'
  BY <1>0, <1>2, GotoFit DEF Steps
<1>3. ASSUME NEW from \in {"compile", "recompile"}, NEW to \in {"put", "load"}, Compile(p, from, to)
      PROVE  ProcFit'
  <2> DEFINE g == [cubin |-> [kernel |-> proc[p].want, by |-> bin[p]], whole |-> TRUE]
  <2>1. proc' = [proc EXCEPT ![p] = [[[proc[p] EXCEPT !.pc = to] EXCEPT !.disk = FALSE] EXCEPT !.got = g]]
    BY <1>3 DEF Compile
  <2>2. g \in Files \cup {None}
    BY <1>0, <1>3 DEF RequestOK, ProcType, Files, Cubins, Compile, At
  <2> HIDE DEF g
  <2>3. proc' = [proc EXCEPT ![p] = With(proc[p], to, g, FALSE, proc[p].scan)]
    <3>1. [[[proc[p] EXCEPT !.pc = to] EXCEPT !.disk = FALSE] EXCEPT !.got = g] =
          With(proc[p], to, g, FALSE, proc[p].scan)
      BY <1>0, SetThree
    <3> QED BY <2>1, <3>1
  <2>4. proc[p].scan \in Scans
    BY RecFields
  <2> QED BY <1>0, <2>2, <2>3, <2>4, ProcFitStep DEF Steps
<1> QED BY <1>1, <1>2, <1>3 DEF NotStored, Declined, RejectDisk

\* put: only what fits is written, and so only what fits is published.
LEMMA PutFit ==
  ASSUME IndInv, DirInv, ProcFit, NEW p \in Procs,
         WriteStarts(p) \/ WriteEnds(p) \/ PutFails(p) \/ Rename(p)
  PROVE  DirInv' /\ ProcFit'
<1>0. ProcType /\ DiskType /\ proc[p].pc \in {"put", "writing", "rename"}
  BY DEF IndInv, WriteStarts, WriteEnds, PutFails, Rename, At
<1>1. Key(p) \in Keys /\ proc[p].name \in Names
  BY <1>0, NameType
<1>2. proc[p].pc # "put" => Storable(Key(p))
  BY <1>0 DEF ProcFit
<1>3. ASSUME NEW s \in {"load", "trigger"}, Goto(p, s) PROVE ProcFit'
  BY <1>0, <1>3, GotoFit DEF Steps
<1>4. ASSUME NEW s \in {"writing", "rename"}, Goto(p, s), Storable(Key(p)) PROVE ProcFit'
  BY <1>0, <1>4, GotoFit DEF Steps
<1>5. ProcFit'
  BY <1>2, <1>3, <1>4 DEF WriteStarts, WriteEnds, PutFails, Rename, At
<1>6. CASE UNCHANGED <<entries, lru>>
  BY <1>5, <1>6, SameDir
<1>7. CASE /\ Rename(p) /\ temps[TempName(p)] # None
           /\ entries' = [entries EXCEPT ![Key(p)] = temps[TempName(p)].file]
           /\ \E i \in 1 .. Len(Without(Key(p))) + 1 :
                lru' = InsertAt(Without(Key(p)), i, Key(p))
  <2>1. temps[TempName(p)].file \in Files /\ temps[TempName(p)].file # None
    <3>1. temps[TempName(p)] \in [key : Keys, file : Files]
      BY <1>0, <1>1, <1>7 DEF DiskType, TempName
    <3> QED BY <3>1, FilesAssumption
  <2>2. entries'[Key(p)] # None /\ \A j \in Keys \ {Key(p)} : entries'[j] = entries[j]
    BY <1>0, <1>1, <1>7, <2>1 DEF DiskType
  <2>3. Storable(Key(p))
    BY <1>2, <1>7 DEF Rename, At
  <2> QED BY <1>1, <1>5, <1>7, <2>2, <2>3, EnterDir
<1> QED BY <1>6, <1>7 DEF WriteStarts, WriteEnds, PutFails, Rename

\* The scan, and what it takes.
LEMMA TriggerFit ==
  ASSUME IndInv, DirInv, ProcFit, NEW p \in Procs, Trigger(p)
  PROVE  DirInv' /\ ProcFit'
<1>0. ProcType /\ Whole(proc[p])
  BY DEF IndInv, ProcType, Shape
<1>1. DirInv'
  BY SameDir DEF Trigger
<1>2. CASE Goto(p, "load")
  BY <1>0, <1>1, <1>2, GotoFit DEF Steps
<1> DEFINE c == [keys |-> lru, total |-> Total, failed |-> FALSE]
<1>3. CASE ~(Total <= High) /\ proc' = [proc EXCEPT ![p].pc = "evict", ![p].scan = c]
  <2>1. ScanGood(c)
    BY <1>3, ScanBegins
  <2>2. proc' = [proc EXCEPT ![p] = [[proc[p] EXCEPT !.pc = "evict"] EXCEPT !.scan = c]]
    BY <1>3
  <2> HIDE DEF c
  <2>3. proc' = [proc EXCEPT ![p] = With(proc[p], "evict", proc[p].got, proc[p].disk, c)]
    <3>1. [[proc[p] EXCEPT !.pc = "evict"] EXCEPT !.scan = c] =
          With(proc[p], "evict", proc[p].got, proc[p].disk, c)
      BY <1>0, SetScan
    <3> QED BY <2>2, <3>1
  <2>4. c \in Scans
    BY <2>1 DEF ScanGood
  <2>5. proc[p].got \in Files \cup {None} /\ proc[p].disk \in BOOLEAN
    BY RecFields
  <2> QED BY <1>0, <1>1, <2>1, <2>3, <2>4, <2>5, ProcFitStep DEF Steps
<1>4. Goto(p, "load") \/ (~(Total <= High) /\ proc' = [proc EXCEPT ![p].pc = "evict", ![p].scan = c])
  BY DEF Trigger
<1> QED BY <1>2, <1>3, <1>4

LEMMA EvictFit ==
  ASSUME IndInv, DirInv, ProcFit, NEW p \in Procs, EvictEnds(p) \/ EvictNext(p)
  PROVE  DirInv' /\ ProcFit'
<1>0. /\ ProcType /\ DiskType /\ Whole(proc[p]) /\ proc[p].pc = "evict"
      /\ proc[p].got \in Files \cup {None} /\ proc[p].disk \in BOOLEAN
  BY RecFields DEF IndInv, ProcType, Shape, EvictEnds, EvictNext, At
<1> DEFINE c == proc[p].scan
           k == Head(c.keys)
           take == [c EXCEPT !.keys = Tail(@), !.total = @ - SizeOf(k)]
           skip == [c EXCEPT !.keys = Tail(@), !.failed = TRUE]
<1>1. ScanGood(c)
  BY <1>0 DEF ProcFit, ScanInv
<1>2. CASE EvictEnds(p)
  <2>1. proc' = [proc EXCEPT ![p] = [[proc[p] EXCEPT !.pc = "load"] EXCEPT !.scan = NoScan]]
    BY <1>2 DEF EvictEnds
  <2>2. proc' = [proc EXCEPT ![p] = With(proc[p], "load", proc[p].got, proc[p].disk, NoScan)]
    <3>1. [[proc[p] EXCEPT !.pc = "load"] EXCEPT !.scan = NoScan] =
          With(proc[p], "load", proc[p].got, proc[p].disk, NoScan)
      BY <1>0, SetScan
    <3> QED BY <2>1, <3>1
  <2>3. ProcFit'
    BY <1>0, <2>2, IdleRec, ProcFitStep DEF Steps
  <2> QED BY <1>2, <2>3, SameDir DEF EvictEnds
<1>3. CASE EvictNext(p)
  <2>1. ~Enough(c) /\ \E d \in {take, skip} : proc' = [proc EXCEPT ![p].scan = d]
    BY <1>3, Zenon DEF EvictNext
  <2>2. k \in Keys /\ ScanGood(take) /\ ScanGood(skip)
    <3> HIDE DEF c
    <3> QED BY <1>1, <2>1, ScanGoesOn
  <2>3. ProcFit'
    <3> HIDE DEF take, skip
    <3>1. PICK d \in {take, skip} : proc' = [proc EXCEPT ![p].scan = d]
      BY <2>1
    <3>2. ScanGood(d) /\ d \in Scans
      BY <2>2 DEF ScanGood
    <3>3. proc' = [proc EXCEPT ![p] = [proc[p] EXCEPT !.scan = d]]
      BY <3>1
    <3>4. proc' = [proc EXCEPT ![p] = With(proc[p], "evict", proc[p].got, proc[p].disk, d)]
      <4>1. [proc[p] EXCEPT !.scan = d] = With(proc[p], proc[p].pc, proc[p].got, proc[p].disk, d)
        BY <1>0, SetField
      <4> QED BY <1>0, <3>3, <4>1
    <3> QED BY <1>0, <3>2, <3>4, ProcFitStep DEF Steps
  <2>4. RemoveEntry(k) \/ UNCHANGED <<entries, lru>>
    BY <1>3, Zenon DEF EvictNext, diskVars
  <2>5. CASE RemoveEntry(k)
    <3> HIDE DEF k
    <3> QED BY <1>0, <2>2, <2>3, <2>5, RemoveDir DEF RemoveEntry
  <2>6. CASE UNCHANGED <<entries, lru>>
    BY <2>3, <2>6, SameDir
  <2> QED BY <2>4, <2>5, <2>6
<1> QED BY <1>2, <1>3

\* Requests end and begin, and shards are cleared.
LEMMA OtherFit ==
  ASSUME IndInv, DirInv, ProcFit,
         \/ \E p \in Procs : CompileFails(p) \/ RejectFresh(p) \/ LoadOk(p) \/ Crash(p)
         \/ \E p \in Procs, k \in Kernels : Request(p, k)
         \/ \E k \in Keys : ClearShard(k)
  PROVE  DirInv' /\ ProcFit'
<1>0. ProcType /\ DiskType
  BY DEF IndInv
<1>1. ASSUME NEW p \in Procs, CompileFails(p) \/ RejectFresh(p) \/ LoadOk(p) \/ Crash(p)
      PROVE  DirInv' /\ ProcFit'
  <2>1. proc' = [proc EXCEPT ![p] = Idle] /\ UNCHANGED <<entries, lru>>
    BY <1>1 DEF CompileFails, RejectFresh, LoadOk, Crash, Ends, diskVars
  <2>2. Idle.pc \notin {"evict", "writing", "rename"}
    BY DEF Idle
  <2> QED BY <2>1, <2>2, IdleRec, ProcFitSet, SameDir
<1>2. ASSUME NEW p \in Procs, NEW k \in Kernels, Request(p, k)
      PROVE  DirInv' /\ ProcFit'
  <2> DEFINE f == Fingerprint(p)
             r == [Idle EXCEPT !.pc = "get", !.want = k, !.fp = f, !.name = requests + 1]
  <2>1. /\ proc' = [proc EXCEPT ![p] = r] /\ UNCHANGED <<entries, lru>> /\ requests < MaxRequests
    BY <1>2 DEF Request, diskVars
  <2>2. f \in Bins
    BY <1>0 DEF Fingerprint, ProcType
  <2>3. requests + 1 \in Names
    BY <1>0, <2>1, StoreAssumption DEF Names, ProcType
  <2> HIDE DEF f
  <2>4. r \in Recs /\ r.pc = "get"
    <3> DEFINE a == [Idle EXCEPT !.pc = "get"]
               b == [a EXCEPT !.want = k]
               c == [b EXCEPT !.fp = f]
               d == [c EXCEPT !.name = requests + 1]
    <3>1. r = d
      OBVIOUS
    <3>2. a \in Recs /\ a.pc = "get"
      BY IdleRec DEF Recs, Steps
    <3> HIDE DEF a
    <3>3. b \in Recs /\ b.pc = "get"
      BY <3>2 DEF Recs
    <3> HIDE DEF b
    <3>4. c \in Recs /\ c.pc = "get"
      BY <2>2, <3>3 DEF Recs
    <3> HIDE DEF c
    <3>5. d \in Recs /\ d.pc = "get"
      BY <2>3, <3>4 DEF Recs
    <3> HIDE DEF d, r
    <3> QED BY <3>1, <3>5
  <2> HIDE DEF r
  <2> QED BY <2>1, <2>4, ProcFitSet, SameDir
<1>3. ASSUME NEW k \in Keys, ClearShard(k)
      PROVE  DirInv' /\ ProcFit'
  <2>1. ProcFit'
    BY <1>3 DEF ClearShard, ProcFit, ScanInv, Key, Storable, SizeOf
  <2> QED BY <1>0, <1>3, <2>1, RemoveDir DEF ClearShard
<1> QED BY <1>1, <1>2, <1>3

\* A power loss tears entries, but takes none away.
LEMMA PowerLossFit ==
  ASSUME IndInv, DirInv, ProcFit, PowerLoss
  PROVE  DirInv' /\ ProcFit'
<1>1. proc' = [p \in Procs |-> Idle] /\ UNCHANGED lru
  BY DEF PowerLoss
<1>2. ProcFit'
  <2>1. proc' \in [Procs -> Recs] /\ \A p \in Procs : proc'[p].pc = "idle"
    BY <1>1, IdleRec DEF Idle
  <2> QED BY <2>1 DEF ProcFit, ScanInv
<1>3. \A k \in Keys : entries'[k] # None <=> entries[k] # None
  <2>1. PICK torn \in SUBSET Keys :
          entries' = [k \in Keys |-> IF entries[k] # None /\ k \in torn
                                    THEN [entries[k] EXCEPT !.whole = FALSE] ELSE entries[k]]
    BY DEF PowerLoss
  <2>2. ASSUME NEW k \in Keys, entries[k] # None PROVE [entries[k] EXCEPT !.whole = FALSE] # None
    <3>1. entries[k] \in Files
      BY <2>2 DEF IndInv, DiskType
    <3>2. [entries[k] EXCEPT !.whole = FALSE] \in Files
      BY <3>1 DEF Files
    <3> QED BY <3>2, FilesAssumption
  <2> QED BY <2>1, <2>2
<1>4. DirInv'
  <2>1. {k \in Keys : entries'[k] # None} = {k \in Keys : entries[k] # None}
    BY <1>3
  <2> QED BY <1>1, <1>3, <2>1 DEF DirInv, LruInv, Storable, SizeOf
<1> QED BY <1>2, <1>4

\* Every step keeps the types of the rest.
LEMMA RestStep ==
  ASSUME IndInv, IndInv', RestType, Next
  PROVE  RestType'
<1>1. /\ fast' \in [Procs -> Bins \cup {None}] /\ bin' \in [Procs -> Bins]
      /\ DiskType' /\ requests' \in 0 .. MaxRequests
  BY DEF IndInv, ProcType
<1>2. ASSUME NEW p \in Procs, NEW how \in Cubins \cup {None, Failure}, Ends(p, how)
      PROVE  answer' \in [Procs -> Cubins \cup {None, Failure}]
  BY <1>2 DEF Ends, RestType
<1>3. ASSUME NEW p \in Procs, LoadOk(p) PROVE proc[p].got.cubin \in Cubins
  <2>1. proc[p].got \in Files
    BY <1>3 DEF LoadOk, At, IndInv, ProcInv, GotOK
  <2> QED BY <2>1 DEF Files
<1>4. /\ answer' \in [Procs -> Cubins \cup {None, Failure}]
  <2>1. ASSUME NEW p \in Procs, LoadOk(p) PROVE answer' \in [Procs -> Cubins \cup {None, Failure}]
    BY <1>2, <1>3, <2>1 DEF LoadOk
  <2>2. ASSUME NEW p \in Procs, CompileFails(p) \/ RejectFresh(p) \/ Crash(p)
        PROVE  answer' \in [Procs -> Cubins \cup {None, Failure}]
    BY <1>2, <2>2 DEF CompileFails, RejectFresh, Crash
  <2>3. ASSUME NEW p \in Procs, NEW k \in Kernels, Request(p, k)
        PROVE  answer' \in [Procs -> Cubins \cup {None, Failure}]
    BY <2>3 DEF Request, RestType
  <2>4. ASSUME PowerLoss PROVE answer' \in [Procs -> Cubins \cup {None, Failure}]
    BY <2>4 DEF PowerLoss
  <2>5. ASSUME UNCHANGED answer PROVE answer' \in [Procs -> Cubins \cup {None, Failure}]
    BY <2>5 DEF RestType
  <2> QED BY <2>1, <2>2, <2>3, <2>4, <2>5
          DEF Next, ProcStep, Get, GetFails, Touch, Delete, Compile, NotStored, Declined,
              WriteStarts, WriteEnds, PutFails, Rename, Trigger, EvictEnds, EvictNext,
              RejectDisk, ClearShard
<1>5. locker' \in Procs \cup {None} /\ swapped' \subseteq Procs
  BY DEF RestType, Next, ProcStep, Get, GetFails, Touch, Delete, Compile, CompileFails, NotStored,
         Declined, WriteStarts, WriteEnds, PutFails, Rename, Trigger, EvictEnds, EvictNext, LoadOk,
         RejectDisk, RejectFresh, ClearShard, Crash, Request, PowerLoss, RemoveEntry, diskVars, counters
<1>6. ioErrors' \in 0 .. MaxIoErrors
  <2>1. ASSUME NEW p \in Procs, EvictNext(p) PROVE IoOk \/ IoFails
    BY <2>1, Zenon DEF EvictNext
  <2>2. ASSUME NEW p \in Procs, Touch(p) PROVE IoOk \/ IoFails
    BY <2>2 DEF Touch
  <2>3. ASSUME NEW p \in Procs, ProcStep(p), ~EvictNext(p), ~Touch(p), ~PutFails(p) PROVE IoOk \/ IoFails
    BY <2>3 DEF ProcStep, Get, GetFails, Delete, Compile, CompileFails, NotStored, Declined,
         WriteStarts, WriteEnds, Rename, Trigger, EvictEnds, LoadOk,
         RejectDisk, RejectFresh, IoOk, counters
  <2>5. ASSUME NEW p \in Procs, PutFails(p)
        PROVE  IoFails \/ (ioErrors + 2 <= MaxIoErrors /\ ioErrors' = ioErrors + 2)
    BY <2>5 DEF PutFails
  <2>4. IoOk \/ IoFails \/ (ioErrors + 2 <= MaxIoErrors /\ ioErrors' = ioErrors + 2)
    BY <2>1, <2>2, <2>3, <2>5 DEF Next, ClearShard, Crash, Request, PowerLoss, IoOk, counters
  <2> QED BY <2>4, StoreAssumption DEF RestType, IoOk, IoFails
<1>7. toolFaults' \in 0 .. MaxToolFaults
  <2>0. ASSUME NEW p \in Procs, CompileFails(p) \/ RejectFresh(p)
        PROVE  toolFaults < MaxToolFaults /\ toolFaults' = toolFaults + 1
    BY <2>0 DEF CompileFails, RejectFresh
  <2>1. toolFaults' = toolFaults \/ (toolFaults < MaxToolFaults /\ toolFaults' = toolFaults + 1)
    BY <2>0 DEF Next, ProcStep, Get, GetFails, Touch, Delete, Compile, NotStored,
         Declined, WriteStarts, WriteEnds, PutFails, Rename, Trigger, EvictEnds, EvictNext, LoadOk,
         RejectDisk, ClearShard, Crash, Request, PowerLoss, counters
  <2> QED BY <2>1, StoreAssumption DEF RestType
<1>8. crashes' \in 0 .. MaxCrashes /\ powerLosses' \in 0 .. MaxCrashes
  <2>0. ASSUME NEW p \in Procs, Crash(p)
        PROVE  crashes + powerLosses < MaxCrashes /\ crashes' = crashes + 1 /\ UNCHANGED powerLosses
    BY <2>0 DEF Crash
  <2>4. ASSUME PowerLoss
        PROVE  crashes + powerLosses < MaxCrashes /\ powerLosses' = powerLosses + 1 /\ UNCHANGED crashes
    BY <2>4 DEF PowerLoss
  <2>5. ASSUME NEW p \in Procs, ProcStep(p) PROVE UNCHANGED <<crashes, powerLosses>>
    BY <2>5, Zenon
       DEF ProcStep, Get, GetFails, Touch, Delete, Compile, CompileFails, NotStored,
           Declined, WriteStarts, WriteEnds, PutFails, Rename, Trigger, EvictEnds, EvictNext, LoadOk,
           RejectDisk, RejectFresh, counters
  <2>6. ASSUME \/ \E p \in Procs, k \in Kernels : Request(p, k)
               \/ \E k \in Keys : ClearShard(k)
        PROVE  UNCHANGED <<crashes, powerLosses>>
    BY <2>6 DEF Request, ClearShard, counters
  <2>1. \/ UNCHANGED <<crashes, powerLosses>>
        \/ /\ crashes + powerLosses < MaxCrashes
           /\ \/ crashes' = crashes + 1 /\ UNCHANGED powerLosses
              \/ powerLosses' = powerLosses + 1 /\ UNCHANGED crashes
    BY <2>0, <2>4, <2>5, <2>6 DEF Next
  <2> QED BY <2>1, StoreAssumption DEF RestType
<1>9. orphans' \subseteq Names
  <2>1. \A p \in Procs : proc[p].pc # "idle" => proc[p].name \in Names
    BY NameType
  <2>2. ASSUME NEW p \in Procs, PutFails(p) \/ Crash(p) PROVE orphans' \subseteq Names
    BY <2>1, <2>2 DEF RestType, PutFails, Crash, TempName
  <2>3. ASSUME PowerLoss PROVE orphans' \subseteq Names
    BY <2>1, <2>3 DEF RestType, PowerLoss, TempName
  <2>4. ASSUME UNCHANGED orphans PROVE orphans' \subseteq Names
    BY <2>4 DEF RestType
  <2> QED BY <2>2, <2>3, <2>4
          DEF Next, ProcStep, Get, GetFails, Touch, Delete, Compile, CompileFails, NotStored,
              Declined, WriteStarts, WriteEnds, Rename, Trigger, EvictEnds, EvictNext, LoadOk,
              RejectDisk, RejectFresh, ClearShard, Request, counters
<1> QED BY <1>1, <1>4, <1>5, <1>6, <1>7, <1>8, <1>9 DEF RestType

\* Every step preserves what the eviction rests on.
LEMMA EvictNextInv ==
  ASSUME IndInv, IndInv', EvictInv, [Next]_vars
  PROVE  EvictInv'
<1>0. DirInv /\ ProcFit /\ RestType
  BY EvictParts
<1>1. ASSUME NEW p \in Procs, ProcStep(p) PROVE DirInv' /\ ProcFit'
  <2>1. CASE Get(p) \/ GetFails(p) \/ Touch(p)
    BY <1>0, <2>1, LookupFit
  <2>2. CASE Delete(p, "delete", "compile") \/ Delete(p, "reject", "recompile")
    BY <1>0, <2>2, DeleteFit
  <2>3. CASE \/ Compile(p, "compile", "put") \/ Compile(p, "recompile", "load")
             \/ NotStored(p) \/ Declined(p) \/ RejectDisk(p)
    BY <1>0, <2>3, CompileFit
  <2>4. CASE WriteStarts(p) \/ WriteEnds(p) \/ PutFails(p) \/ Rename(p)
    BY <1>0, <2>4, PutFit
  <2>5. CASE Trigger(p) \/ EvictEnds(p) \/ EvictNext(p)
    BY <1>0, <2>5, TriggerFit, EvictFit
  <2>6. CASE CompileFails(p) \/ RejectFresh(p) \/ LoadOk(p)
    BY <1>0, <2>6, OtherFit
  <2> QED BY <1>1, <2>1, <2>2, <2>3, <2>4, <2>5, <2>6 DEF ProcStep
<1>2. CASE Next
  <2>1. ASSUME NEW p \in Procs, Crash(p) PROVE DirInv' /\ ProcFit'
    BY <1>0, <2>1, OtherFit
  <2>2. ASSUME NEW p \in Procs, NEW k \in Kernels, Request(p, k) PROVE DirInv' /\ ProcFit'
    BY <1>0, <2>2, OtherFit
  <2>3. ASSUME NEW k \in Keys, ClearShard(k) PROVE DirInv' /\ ProcFit'
    BY <1>0, <2>3, OtherFit
  <2>4. ASSUME PowerLoss PROVE DirInv' /\ ProcFit'
    BY <1>0, <2>4, PowerLossFit
  <2>5. DirInv' /\ ProcFit'
    BY <1>1, <1>2, <2>1, <2>2, <2>3, <2>4 DEF Next
  <2>6. RestType'
    BY <1>0, <1>2, RestStep
  <2> QED BY <2>5, <2>6
          DEF EvictInv, DirInv, ProcFit, RestType, TypeOK, LruInv, FitInv, DiskType, Recs
<1>3. CASE UNCHANGED vars
  BY <1>3 DEF EvictInv, TypeOK, LruInv, FitInv, ScanInv, Key, Storable, SizeOf, vars, diskVars, counters
<1> QED BY <1>2, <1>3

\* An empty directory.
LEMMA EvictInit == Init => EvictInv
<1> SUFFICES ASSUME Init PROVE EvictInv
  OBVIOUS
<1>1. \A p \in Procs : proc[p] \in Recs /\ proc[p].pc = "idle"
  BY IdleRec DEF Init, Idle
<1>2. ProcFit
  BY <1>1 DEF Init, ProcFit, ScanInv
<1>3. DirInv
  <2>1. lru = <<>> /\ lru \in Seq(Keys) /\ IsInjective(lru) /\ ToSet(lru) = {}
    BY DEF Init, IsInjective, ToSet
  <2>2. \A k \in Keys : entries[k] = None
    BY DEF Init
  <2> QED BY <2>1, <2>2 DEF DirInv, LruInv
<1>4. RestType
  BY StoreAssumption DEF Init, RestType, DiskType
<1> QED BY <1>2, <1>3, <1>4, EvictParts

-----------------------------------------------------------------------------
(* The theorems.                                                           *)

\* Processes begin without a request, over an empty directory.
LEMMA InitInv == Init => IndInv /\ Direct!Init
<1> SUFFICES ASSUME Init PROVE IndInv /\ Direct!Init
  OBVIOUS
<1> USE StoreAssumption DEF Init
<1>1. \A p \in Procs : Shape(p) /\ proc[p].pc = "idle" /\ proc[p].want = None
  BY DEF Shape, Whole, With, Idle
<1>2. ProcType /\ NameInv
  BY <1>1 DEF ProcType, NameInv
<1>3. DiskType /\ EntryInv /\ PublishedComplete /\ NoStrayTemp
  BY DEF DiskType, EntryInv, PublishedComplete, NoStrayTemp
<1>4. ProcInv
  BY <1>1 DEF ProcInv, RequestOK, GotOK, TempOK, Steps
<1>5. Direct!Init
  BY <1>1 DEF Direct!Init
<1> QED BY <1>2, <1>3, <1>4, <1>5 DEF IndInv

\* Every step preserves the invariant and is a step of DirectJit.
LEMMA NextInv == IndInv /\ [Next]_vars => IndInv' /\ DirectStep
<1> SUFFICES ASSUME IndInv, [Next]_vars PROVE IndInv' /\ DirectStep
  OBVIOUS
<1>1. ASSUME NEW p \in Procs, ProcStep(p) PROVE IndInv' /\ DirectStep
  <2>1. CASE Get(p) \/ GetFails(p) \/ Touch(p)
    BY <2>1, GetStep, GetFailsStep, TouchStep
  <2>2. CASE Delete(p, "delete", "compile") \/ Delete(p, "reject", "recompile")
    BY <2>2, DeleteStep
  <2>3. CASE Compile(p, "compile", "put") \/ Compile(p, "recompile", "load")
    BY <2>3, CompileStep
  <2>4. CASE NotStored(p) \/ Declined(p) \/ RejectDisk(p)
    BY <2>4, NotStoredStep
  <2>5. CASE WriteStarts(p) \/ WriteEnds(p) \/ PutFails(p) \/ Rename(p)
    BY <2>5, WriteStartsStep, WriteEndsStep, PutFailsStep, RenameStep
  <2>6. CASE Trigger(p) \/ EvictEnds(p) \/ EvictNext(p)
    BY <2>6, TriggerStep, EvictStep
  <2>7. CASE CompileFails(p) \/ RejectFresh(p) \/ LoadOk(p)
    BY <2>7, FailStep, LoadOkStep
  <2> QED BY <1>1, <2>1, <2>2, <2>3, <2>4, <2>5, <2>6, <2>7 DEF ProcStep
<1>2. ASSUME NEW p \in Procs, Crash(p) PROVE IndInv' /\ DirectStep
  BY <1>2, CrashStep
<1>3. ASSUME NEW p \in Procs, NEW k \in Kernels, Request(p, k) PROVE IndInv' /\ DirectStep
  BY <1>3, RequestStep
<1>4. ASSUME NEW k \in Keys, ClearShard(k) PROVE IndInv' /\ DirectStep
  BY <1>4, ClearShardStep
<1>5. CASE PowerLoss
  BY <1>5, PowerLossStep
<1>6. CASE UNCHANGED vars
  <2>1. DirectStep
    BY <1>6 DEF DirectStep, Direct!vars, vars, counters
  <2>2. IndInv'
    BY <1>6 DEF IndInv, ProcType, DiskType, ProcInv, NameInv, EntryInv, PublishedComplete,
                NoStrayTemp, TempName, Shape, RequestOK, GotOK, TempOK, Own, Key,
                vars, diskVars, counters
  <2> QED BY <2>1, <2>2
<1> QED BY <1>1, <1>2, <1>3, <1>4, <1>5, <1>6 DEF Next

\* The invariant holds in every reachable state, whatever the processes, the
\* kernels and the bounds.
THEOREM Invariance == Spec => []IndInv
BY InitInv, NextInv, PTL DEF Spec

\* put: the rename publishes complete entries only; one that is torn was torn
\* by a power loss.
THEOREM NeverTorn == Spec => []PublishedComplete
<1>1. IndInv => PublishedComplete
  BY DEF IndInv
<1> QED BY <1>1, Invariance, PTL

\* put: every temp file belongs to a put in progress, to one that a crash or a
\* power loss cut short, or to one that failed and could not remove it.
THEOREM TempsAccounted == Spec => []NoStrayTemp
<1>1. IndInv => NoStrayTemp
  BY DEF IndInv
<1> QED BY <1>1, Invariance, PTL

\* The same for what the eviction rests on.
THEOREM EvictInvariance == Spec => []EvictInv
<1>1. Init => IndInv /\ EvictInv
  BY InitInv, EvictInit
<1>2. IndInv /\ EvictInv /\ [Next]_vars => IndInv' /\ EvictInv'
  <2>1. IndInv /\ [Next]_vars => IndInv'
    BY NextInv
  <2> QED BY <2>1, EvictNextInv
<1> QED BY <1>1, <1>2, PTL DEF Spec

\* Every variable keeps its type, the sizes that a scan subtracts included: they
\* never go below zero.
THEOREM TypeCorrect == Spec => []TypeOK
<1>1. EvictInv => TypeOK
  BY DEF EvictInv
<1> QED BY <1>1, EvictInvariance, PTL

\* evict: the walk from the oldest entry stops before the one that was newest
\* when the directory was listed, unless it had to skip entries.  It is why put
\* declines what does not fit under the low watermark.
THEOREM NewestKept == Spec => []NewestSurvives
<1>1. EvictInv => NewestSurvives
  BY DEF EvictInv, ScanInv, ScanGood, NewestSurvives, At
<1> QED BY <1>1, EvictInvariance, PTL

\* compile_bytecode_cached and compile_and_load_kernel: the store is
\* transparent.  Every behaviour is one of processes without a store, in which
\* a request is answered by the process's own compiler, or fails because the
\* compiler failed or the driver rejected a fresh cubin (the safety part of
\* ImplementsDirect).
THEOREM Transparent == Spec => Direct!Init /\ [][Direct!Next]_(Direct!vars)
BY InitInv, NextInv, Invariance, PTL DEF Spec, DirectStep
=============================================================================
