--------------------------- MODULE Leases_proofs ---------------------------
(***************************************************************************)
(* Proofs about Leases for every set of clients, allocations and streams:  *)
(* the access tracker excludes conflicting work on different streams, and  *)
(* no memory is freed under queued work.                                   *)
(***************************************************************************)
EXTENDS Leases, SequenceTheorems, TLAPS

\* A client has a stream from its beginning to its end.
StreamInv == \A c \in Clients : stage[c] \notin {"new", "gone"} => stream[c] \in Streams

\* Queued work belongs to a client of that stream, which still holds a lease
\* for everything the work uses.
WorkInv ==
  \A s \in Streams : \A i \in DOMAIN queue[s] :
    /\ stream[queue[s][i].client] = s
    /\ stage[queue[s][i].client] \notin {"new", "copying"}
    /\ queue[s][i].uses \subseteq leases[queue[s][i].client]

\* A client whose completion event is recorded launches no more, and its work
\* is ahead of the event.
EventInv ==
  /\ \A c \in settled : stage[c] \in {"retiring", "leaked", "gone"}
  /\ \A s \in Streams : \A i \in DOMAIN queue[s] :
       stage[queue[s][i].client] = "retiring" \/ queue[s][i].client \in settled
         => i <= event[queue[s][i].client]

\* Entries belong to clients that have chosen their stream, and entries of
\* different streams are compatible.
EntryInv ==
  \A a \in Allocs :
    /\ \A e \in active[a] : stage[e[1]] # "new"
    /\ \A e, f \in active[a] : stream[e[1]] # stream[f[1]] => "write" \notin {e[2], f[2]}

\* Until its event is recorded, no entry of a client is pruned.
LeaseInv ==
  \A c \in Clients \ settled : \A use \in leases[c] : <<c, use[2]>> \in active[use[1]]

\* Drop ran only after the last view and the last lease were gone.
MemInv ==
  \A a \in Allocs : mem[a] # "live" => a \notin views /\ Holders(a, leases) = {}

IndInv ==
  /\ TypeOK /\ StreamInv /\ WorkInv /\ EventInv /\ CoveredInFlight
  /\ EntryInv /\ LeaseInv /\ MemInv

-----------------------------------------------------------------------------
(* Facts about the queues and the tracker.                                 *)

\* What an item of a queue is.
LEMMA ItemType ==
  ASSUME TypeOK, NEW s \in Streams, NEW i \in DOMAIN queue[s]
  PROVE  /\ queue[s] \in Seq([client : Clients, uses : SUBSET (Allocs \X Modes)])
         /\ queue[s][i].client \in Clients
         /\ queue[s][i].uses \subseteq Allocs \X Modes
<1>1. queue[s] \in Seq([client : Clients, uses : SUBSET (Allocs \X Modes)])
  BY DEF TypeOK
<1> DEFINE Work == [client : Clients, uses : SUBSET (Allocs \X Modes)]
<1>2. \A q \in Seq(Work) : \A j \in DOMAIN q : q[j] \in Work
  <2> HIDE DEF Work
  <2> QED OBVIOUS
<1>3. queue[s][i] \in Work
  BY <1>1, <1>2
<1> QED BY <1>1, <1>3

\* A client whose event has passed has no work left.
LEMMA PassedIsDone ==
  ASSUME IndInv, NEW c \in Clients, event[c] = 0,
         stage[c] = "retiring" \/ c \in settled,
         NEW s \in Streams, NEW i \in DOMAIN queue[s]
  PROVE  queue[s][i].client # c
<1>1. i \in Nat /\ i >= 1
  BY ItemType DEF IndInv
<1> QED BY <1>1 DEF IndInv, EventInv

\* Pruning removes only entries whose event has passed.
LEMMA PrunedKeeps ==
  ASSUME NEW a \in Allocs, NEW kept \in Pruned(a)
  PROVE  kept \subseteq active[a] /\ \A e \in active[a] \ kept : Passed(e[1])
BY DEF Pruned

-----------------------------------------------------------------------------
(* The effects that actions share.                                         *)

\* A client moves on while its leases stay: no stage that the invariant asks
\* about is entered without its event.
LEMMA StageStep ==
  ASSUME IndInv, NEW c \in Clients, NEW to \in Stages \ {"new", "open", "copying", "retiring"},
         stage[c] \notin {"new", "gone"}, c \notin settled \/ to \in {"leaked", "gone"},
         stage' = [stage EXCEPT ![c] = to], KeepLeases,
         UNCHANGED <<stream, launches, settled, event, deviceVars>>,
         errState' \in BOOLEAN, deferred' \in 0 .. MaxDeferred
  PROVE  IndInv'
<1> USE DEF IndInv, KeepLeases, deviceVars
<1>1. TypeOK'
  BY DEF TypeOK
<1>2. WorkInv'
  BY ItemType DEF WorkInv, TypeOK
<1>3. EventInv'
  BY ItemType DEF EventInv, TypeOK
<1>4. CoveredInFlight'
  BY DEF CoveredInFlight
<1>5. EntryInv'
  BY DEF EntryInv, TypeOK
<1>6. MemInv'
  BY DEF MemInv, Holders
<1>7. StreamInv'
  BY DEF StreamInv, TypeOK
<1>8. LeaseInv'
  BY DEF LeaseInv
<1> QED BY <1>1, <1>2, <1>3, <1>4, <1>5, <1>6, <1>7, <1>8

\* All leases of a client without queued work are dropped.
LEMMA ReleaseStep ==
  ASSUME IndInv, NEW c \in Clients, stage[c] # "new",
         stage' = [stage EXCEPT ![c] = "gone"], DropLeases(c),
         UNCHANGED <<stream, launches, settled, event, deviceVars>>,
         errState' \in BOOLEAN, deferred' \in 0 .. MaxDeferred,
         \A s \in Streams : \A i \in DOMAIN queue[s] : queue[s][i].client # c
  PROVE  IndInv'
<1> USE DEF IndInv, DropLeases, deviceVars
<1>1. TypeOK'
  BY DEF TypeOK, Collect, Stages
<1>2. WorkInv'
  <2> SUFFICES ASSUME NEW s \in Streams, NEW i \in DOMAIN queue[s]
               PROVE  /\ stream[queue[s][i].client] = s
                      /\ stage'[queue[s][i].client] \notin {"new", "copying"}
                      /\ queue[s][i].uses \subseteq leases'[queue[s][i].client]
    BY DEF WorkInv
  <2>1. queue[s][i].client \in Clients /\ queue[s][i].client # c
    BY ItemType
  <2> QED BY <2>1 DEF WorkInv, TypeOK
<1>3. EventInv'
  BY ItemType DEF EventInv, TypeOK
<1>4. CoveredInFlight'
  <2> SUFFICES ASSUME NEW s \in Streams, NEW i \in DOMAIN queue[s],
                      NEW use \in queue[s][i].uses
               PROVE  <<queue[s][i].client, use[2]>> \in active'[use[1]]
    BY DEF CoveredInFlight
  <2>1. use[1] \in Allocs /\ <<queue[s][i].client, use[2]>> \in active[use[1]]
    BY ItemType DEF CoveredInFlight
  <2> QED BY <2>1
<1>5. EntryInv'
  BY DEF EntryInv, TypeOK
<1>6. MemInv'
  <2>1. \A a \in Allocs : Holders(a, leases') \subseteq Holders(a, leases)
    BY DEF Holders, TypeOK
  <2> QED BY <2>1 DEF MemInv, Collect, TypeOK
<1>7. StreamInv'
  BY DEF StreamInv, TypeOK
<1>8. LeaseInv'
  <2> SUFFICES ASSUME NEW d \in Clients \ settled, NEW use \in leases'[d]
               PROVE  <<d, use[2]>> \in active'[use[1]]
    BY DEF LeaseInv
  <2>1. d # c /\ use \in leases[d] /\ use[1] \in Allocs
    BY DEF TypeOK
  <2> QED BY <2>1 DEF LeaseInv
<1> QED BY <1>1, <1>2, <1>3, <1>4, <1>5, <1>6, <1>7, <1>8

\* An access is registered on stream s by a client that has chosen it, or
\* chooses it now.
LEMMA AcquireStep ==
  ASSUME IndInv, NEW c \in Clients, NEW s \in Streams, NEW a \in Allocs, NEW mode \in Modes,
         Acquire(c, s, a, mode),
         \/ /\ stage[c] = "open" /\ stream[c] = s
            /\ UNCHANGED <<stage, stream>>
         \/ /\ stage[c] = "new"
            /\ stage' = [stage EXCEPT ![c] = "copying"] /\ stream' = [stream EXCEPT ![c] = s],
         UNCHANGED <<launches, settled, event, deviceVars>>
  PROVE  IndInv'
<1> USE DEF IndInv, deviceVars
<1>1. PICK kept \in Pruned(a) :
        /\ a \in views /\ ~Conflicts(kept, s, mode)
        /\ active' = [active EXCEPT ![a] = kept \cup {<<c, mode>>}]
        /\ leases' = [leases EXCEPT ![c] = @ \cup {<<a, mode>>}]
        /\ UNCHANGED <<views, mem>>
  BY DEF Acquire
<1>2. kept \subseteq active[a] /\ \A e \in active[a] \ kept : Passed(e[1])
  BY <1>1, PrunedKeeps
<1>3. /\ stream'[c] = s /\ stage'[c] # "new"
      /\ \A d \in Clients \ {c} : stage'[d] = stage[d] /\ stream'[d] = stream[d]
  BY DEF TypeOK
<1>4. \A d \in Clients : stage[d] # "new" => stream'[d] = stream[d] /\ stage'[d] = stage[d]
  BY DEF TypeOK
<1>5. TypeOK'
  <2>1. stage' \in [Clients -> Stages] /\ stream' \in [Clients -> Streams \cup {None}]
    BY DEF TypeOK, Stages
  <2>4. leases' \in [Clients -> SUBSET (Allocs \X Modes)]
    BY <1>1 DEF TypeOK
  <2>2. active' \in [Allocs -> SUBSET (Clients \X Modes)]
    BY <1>1, <1>2 DEF TypeOK
  <2>3. errState' \in BOOLEAN /\ deferred' = deferred
    BY DEF Acquire, QueriesErr
  <2> QED BY <1>1, <2>1, <2>2, <2>3, <2>4 DEF TypeOK
<1>6. StreamInv'
  BY <1>3 DEF StreamInv, TypeOK
<1>7. WorkInv'
  <2> SUFFICES ASSUME NEW r \in Streams, NEW i \in DOMAIN queue[r]
               PROVE  /\ stream'[queue[r][i].client] = r
                      /\ stage'[queue[r][i].client] \notin {"new", "copying"}
                      /\ queue[r][i].uses \subseteq leases'[queue[r][i].client]
    BY DEF WorkInv
  <2>1. queue[r][i].client \in Clients
    BY ItemType
  <2> QED BY <1>1, <1>4, <2>1 DEF WorkInv, TypeOK
<1>8. EventInv'
  <2>1. \A d \in settled : stage'[d] \in {"retiring", "leaked", "gone"}
    BY <1>4 DEF EventInv, TypeOK
  <2>2. ASSUME NEW r \in Streams, NEW i \in DOMAIN queue[r]
        PROVE  stage'[queue[r][i].client] = stage[queue[r][i].client]
    BY <1>4, ItemType DEF WorkInv
  <2> QED BY <2>1, <2>2 DEF EventInv
<1>9. CoveredInFlight'
  <2> SUFFICES ASSUME NEW r \in Streams, NEW i \in DOMAIN queue[r],
                      NEW use \in queue[r][i].uses
               PROVE  <<queue[r][i].client, use[2]>> \in active'[use[1]]
    BY DEF CoveredInFlight
  <2>1. use[1] \in Allocs /\ queue[r][i].client \in Clients
    BY ItemType
  <2>2. <<queue[r][i].client, use[2]>> \in active[use[1]]
    BY DEF CoveredInFlight
  <2>3. ~Passed(queue[r][i].client)
    BY <2>1, PassedIsDone DEF Passed
  <2> QED BY <1>1, <1>2, <2>1, <2>2, <2>3 DEF TypeOK
<1>10. EntryInv'
  <2> SUFFICES ASSUME NEW b \in Allocs
               PROVE  /\ \A e \in active'[b] : stage'[e[1]] # "new"
                      /\ \A e, f \in active'[b] :
                           stream'[e[1]] # stream'[f[1]] => "write" \notin {e[2], f[2]}
    BY DEF EntryInv
  <2>1. /\ \A e \in active[b] : e[1] \in Clients /\ stage[e[1]] # "new"
        /\ \A e, f \in active[b] : stream[e[1]] # stream[f[1]] => "write" \notin {e[2], f[2]}
    BY DEF EntryInv, TypeOK
  <2>2. \A e \in active[b] : stage'[e[1]] # "new" /\ stream'[e[1]] = stream[e[1]]
    BY <1>4, <2>1
  <2>3. CASE b # a
    BY <1>1, <2>1, <2>2, <2>3 DEF TypeOK
  <2>4. CASE b = a
    <3>1. active'[b] = kept \cup {<<c, mode>>} /\ kept \subseteq active[b]
      BY <1>1, <1>2, <2>4 DEF TypeOK
    <3>2. \A e \in kept : stream'[e[1]] # s => "write" \notin {mode, e[2]}
      BY <1>1, <2>2, <3>1 DEF Conflicts
    <3> QED BY <1>3, <2>1, <2>2, <3>1, <3>2
  <2> QED BY <2>3, <2>4
<1>11. MemInv'
  BY <1>1 DEF MemInv, Holders, TypeOK
<1>12. LeaseInv'
  <2> SUFFICES ASSUME NEW d \in Clients \ settled, NEW use \in leases'[d]
               PROVE  <<d, use[2]>> \in active'[use[1]]
    BY DEF LeaseInv
  <2>1. use[1] \in Allocs
    BY <1>5 DEF TypeOK
  <2>2. CASE d = c /\ use = <<a, mode>>
    BY <1>1, <2>2 DEF TypeOK
  <2>3. CASE use \in leases[d]
    <3>1. <<d, use[2]>> \in active[use[1]] /\ ~Passed(d)
      BY <2>3 DEF LeaseInv, Passed
    <3> QED BY <1>1, <1>2, <2>1, <3>1 DEF TypeOK
  <2> QED BY <1>1, <2>2, <2>3 DEF TypeOK
<1> QED BY <1>5, <1>6, <1>7, <1>8, <1>9, <1>10, <1>11, <1>12

\* A refused access leaves the pruned entries, and a client that has not
\* begun or stops.
LEMMA RefuseStep ==
  ASSUME IndInv, NEW c \in Clients, NEW s \in Streams, NEW a \in Allocs, NEW mode \in Modes,
         NotReady(s, a, mode), stage[c] \in {"new", "open"}, NEW to \in {"gone", "dropping"},
         stage[c] = "new" => to = "gone",
         stage' = [stage EXCEPT ![c] = to],
         UNCHANGED <<stream, launches, settled, event, deviceVars>>
  PROVE  IndInv'
<1> USE DEF IndInv, deviceVars
<1>1. PICK kept \in Pruned(a) :
        /\ active' = [active EXCEPT ![a] = kept]
        /\ UNCHANGED <<leases, views, mem>>
  BY DEF NotReady
<1>2. kept \subseteq active[a] /\ \A e \in active[a] \ kept : Passed(e[1])
  BY <1>1, PrunedKeeps
<1>3. TypeOK'
  <2>1. errState' \in BOOLEAN /\ deferred' = deferred
    BY DEF NotReady, QueriesErr
  <2> QED BY <1>1, <1>2, <2>1 DEF TypeOK, Stages
<1>4. StreamInv'
  BY DEF StreamInv, TypeOK
<1>5. WorkInv'
  BY <1>1, ItemType DEF WorkInv, TypeOK
<1>6. EventInv'
  BY ItemType DEF EventInv, TypeOK
<1>7. CoveredInFlight'
  <2> SUFFICES ASSUME NEW r \in Streams, NEW i \in DOMAIN queue[r],
                      NEW use \in queue[r][i].uses
               PROVE  <<queue[r][i].client, use[2]>> \in active'[use[1]]
    BY DEF CoveredInFlight
  <2>1. use[1] \in Allocs /\ queue[r][i].client \in Clients
    BY ItemType
  <2>2. <<queue[r][i].client, use[2]>> \in active[use[1]]
    BY DEF CoveredInFlight
  <2>3. ~Passed(queue[r][i].client)
    BY <2>1, PassedIsDone DEF Passed
  <2> QED BY <1>1, <1>2, <2>1, <2>2, <2>3 DEF TypeOK
<1>8. EntryInv'
  BY <1>1, <1>2 DEF EntryInv, TypeOK
<1>9. MemInv'
  BY <1>1 DEF MemInv, Holders
<1>10. LeaseInv'
  <2> SUFFICES ASSUME NEW d \in Clients \ settled, NEW use \in leases'[d]
               PROVE  <<d, use[2]>> \in active'[use[1]]
    BY DEF LeaseInv
  <2>1. use[1] \in Allocs /\ use \in leases[d]
    BY <1>1 DEF TypeOK
  <2>2. <<d, use[2]>> \in active[use[1]] /\ ~Passed(d)
    BY <2>1 DEF LeaseInv, Passed
  <2> QED BY <1>1, <1>2, <2>1, <2>2 DEF TypeOK
<1> QED BY <1>3, <1>4, <1>5, <1>6, <1>7, <1>8, <1>9, <1>10

\* Work is queued behind the work of the stream; its client holds its leases
\* and has entries for them.
LEMMA EnqueueStep ==
  ASSUME IndInv, NEW c \in Clients, stage[c] \in {"open", "copying"},
         Enqueue(c), KeepLeases, UNCHANGED <<stream, settled, event, errVars>>,
         NEW to \in {"open", "copied"}, stage' = [stage EXCEPT ![c] = to]
  PROVE  IndInv'
<1> USE DEF IndInv, KeepLeases, errVars
<1> DEFINE Work == [client : Clients, uses : SUBSET (Allocs \X Modes)]
           new == [client |-> c, uses |-> leases[c]]
<1>1. stream[c] \in Streams /\ c \notin settled
  BY DEF StreamInv, EventInv
<1>2. queue' = [queue EXCEPT ![stream[c]] = Append(@, new)] /\ new \in Work
  BY DEF Enqueue, TypeOK
<1>3. ASSUME NEW s \in Streams
      PROVE  /\ queue'[s] \in Seq(Work)
             /\ \A i \in DOMAIN queue'[s] :
                  \/ i \in DOMAIN queue[s] /\ queue'[s][i] = queue[s][i]
                  \/ s = stream[c] /\ queue'[s][i] = new
  <2> HIDE DEF Work, new
  <2>1. queue[s] \in Seq(Work)
    BY DEF TypeOK, Work
  <2>2. queue'[s] = IF s = stream[c] THEN Append(queue[s], new) ELSE queue[s]
    BY <1>2 DEF TypeOK
  <2> QED BY <1>2, <2>1, <2>2
<1>4. TypeOK'
  <2>1. queue' \in [Streams -> Seq(Work)]
    <3> HIDE DEF Work
    <3>1. queue' = [s \in Streams |-> queue'[s]]
      BY <1>2 DEF TypeOK
    <3> QED BY <1>3, <3>1
  <2>2. launches' \in [Clients -> 0 .. MaxLaunches]
    BY LeasesAssumption DEF Enqueue, TypeOK
  <2>3. stage' \in [Clients -> Stages]
    BY DEF TypeOK, Stages
  <2>4. down' = down
    BY DEF Enqueue
  <2> QED BY <2>1, <2>2, <2>3, <2>4 DEF TypeOK
<1>5. StreamInv'
  BY <1>1 DEF StreamInv, TypeOK
<1>6. WorkInv'
  <2> SUFFICES ASSUME NEW s \in Streams, NEW i \in DOMAIN queue'[s]
               PROVE  /\ stream[queue'[s][i].client] = s
                      /\ stage'[queue'[s][i].client] \notin {"new", "copying"}
                      /\ queue'[s][i].uses \subseteq leases[queue'[s][i].client]
    BY DEF WorkInv
  <2>1. CASE i \in DOMAIN queue[s] /\ queue'[s][i] = queue[s][i]
    BY <2>1, ItemType DEF WorkInv, TypeOK
  <2>2. CASE s = stream[c] /\ queue'[s][i] = new
    BY <2>2 DEF TypeOK
  <2> QED BY <1>3, <2>1, <2>2
<1>7. EventInv'
  <2>1. \A d \in settled : stage'[d] \in {"retiring", "leaked", "gone"}
    BY <1>1 DEF EventInv, TypeOK
  <2>2. ASSUME NEW s \in Streams, NEW i \in DOMAIN queue'[s],
               stage'[queue'[s][i].client] = "retiring" \/ queue'[s][i].client \in settled
        PROVE  i <= event[queue'[s][i].client]
    <3>1. ~(s = stream[c] /\ queue'[s][i] = new)
      BY <1>1, <2>2 DEF TypeOK
    <3>2. i \in DOMAIN queue[s] /\ queue'[s][i] = queue[s][i]
      BY <1>3, <3>1
    <3>3. stage[queue[s][i].client] = "retiring" \/ queue[s][i].client \in settled
      BY <2>2, <3>2, ItemType DEF TypeOK
    <3> QED BY <3>2, <3>3 DEF EventInv
  <2> QED BY <2>1, <2>2 DEF EventInv
<1>8. CoveredInFlight'
  <2> SUFFICES ASSUME NEW s \in Streams, NEW i \in DOMAIN queue'[s],
                      NEW use \in queue'[s][i].uses
               PROVE  <<queue'[s][i].client, use[2]>> \in active[use[1]]
    BY DEF CoveredInFlight
  <2>1. CASE i \in DOMAIN queue[s] /\ queue'[s][i] = queue[s][i]
    BY <2>1 DEF CoveredInFlight
  <2>2. CASE s = stream[c] /\ queue'[s][i] = new
    BY <1>1, <2>2 DEF LeaseInv
  <2> QED BY <1>3, <2>1, <2>2
<1>9. EntryInv'
  BY DEF EntryInv, TypeOK
<1>10. MemInv'
  BY DEF MemInv, Holders
<1>11. LeaseInv'
  BY DEF LeaseInv
<1> QED BY <1>4, <1>5, <1>6, <1>7, <1>8, <1>9, <1>10, <1>11

\* The event of a client is recorded behind everything its stream has queued.
LEMMA EventStep ==
  ASSUME IndInv, NEW c \in Clients, c \notin settled, stage[c] \in {"busy", "copied"},
         stage' = [stage EXCEPT ![c] = "retiring"],
         event' = [event EXCEPT ![c] = Len(queue[stream[c]])],
         settled' \in {settled, settled \cup {c}},
         KeepLeases, UNCHANGED <<stream, launches, deviceVars, errVars>>
  PROVE  IndInv'
<1> USE DEF IndInv, KeepLeases, deviceVars, errVars
<1>1. TypeOK'
  <2>1. Len(queue[stream[c]]) \in Nat
    BY DEF TypeOK, StreamInv
  <2>2. stage' \in [Clients -> Stages] /\ event' \in [Clients -> Nat]
    BY <2>1 DEF TypeOK, Stages
  <2> QED BY <2>2 DEF TypeOK
<1>2. StreamInv'
  BY DEF StreamInv, TypeOK
<1>3. WorkInv'
  BY ItemType DEF WorkInv, TypeOK
<1>4. EventInv'
  <2>1. \A d \in settled' : stage'[d] \in {"retiring", "leaked", "gone"}
    BY DEF EventInv, TypeOK
  <2>2. ASSUME NEW s \in Streams, NEW i \in DOMAIN queue[s],
               stage'[queue[s][i].client] = "retiring" \/ queue[s][i].client \in settled'
        PROVE  i <= event'[queue[s][i].client]
    <3>1. queue[s][i].client \in Clients /\ i \in 1 .. Len(queue[s])
      BY ItemType
    <3>2. CASE queue[s][i].client = c
      BY <3>1, <3>2 DEF WorkInv, TypeOK
    <3>3. CASE queue[s][i].client # c
      BY <2>2, <3>1, <3>3 DEF EventInv, TypeOK
    <3> QED BY <3>2, <3>3
  <2> QED BY <2>1, <2>2 DEF EventInv
<1>5. CoveredInFlight'
  BY DEF CoveredInFlight
<1>6. EntryInv'
  BY DEF EntryInv, TypeOK
<1>7. LeaseInv'
  BY DEF LeaseInv
<1>8. MemInv'
  BY DEF MemInv, Holders
<1> QED BY <1>1, <1>2, <1>3, <1>4, <1>5, <1>6, <1>7, <1>8

-----------------------------------------------------------------------------
(* The actions that are their own.                                         *)

\* A submission chooses its stream.
LEMMA OpenStep ==
  ASSUME IndInv, NEW c \in Clients, NEW s \in Streams, Open(c, s)
  PROVE  IndInv'
<1> USE DEF IndInv, Open, To, deviceVars, errVars
<1>1. TypeOK'
  BY DEF TypeOK, Stages
<1>2. \A d \in Clients : stage[d] # "new" => stream'[d] = stream[d] /\ stage'[d] = stage[d]
  BY DEF TypeOK
<1>3. StreamInv'
  BY DEF StreamInv, TypeOK
<1>4. WorkInv'
  <2>1. ASSUME NEW r \in Streams, NEW i \in DOMAIN queue[r]
        PROVE  /\ stream'[queue[r][i].client] = r
               /\ stage'[queue[r][i].client] \notin {"new", "copying"}
               /\ queue[r][i].uses \subseteq leases[queue[r][i].client]
    BY <1>2, ItemType DEF WorkInv
  <2> QED BY <2>1 DEF WorkInv
<1>5. EventInv'
  <2>1. ASSUME NEW r \in Streams, NEW i \in DOMAIN queue[r]
        PROVE  stage'[queue[r][i].client] = stage[queue[r][i].client]
    BY <1>2, ItemType DEF WorkInv
  <2>2. \A d \in settled : stage'[d] \in {"retiring", "leaked", "gone"}
    BY <1>2 DEF EventInv, TypeOK
  <2> QED BY <2>1, <2>2 DEF EventInv
<1>6. CoveredInFlight'
  BY DEF CoveredInFlight
<1>7. EntryInv'
  <2>1. \A a \in Allocs : \A e \in active[a] : e[1] \in Clients
    BY DEF TypeOK
  <2> QED BY <1>2, <2>1 DEF EntryInv
<1>8. LeaseInv' /\ MemInv'
  BY DEF LeaseInv, MemInv, Holders
<1> QED BY <1>1, <1>3, <1>4, <1>5, <1>6, <1>7, <1>8

\* The head of a stream finishes: every other item and every event of the
\* stream moves up by one.
LEMMA FinishStep ==
  ASSUME IndInv, NEW s \in Streams, Finish(s)
  PROVE  IndInv'
<1> USE DEF IndInv, Finish, errVars
<1> DEFINE Work == [client : Clients, uses : SUBSET (Allocs \X Modes)]
<1>1. ASSUME NEW r \in Streams
      PROVE  /\ queue'[r] \in Seq(Work)
             /\ \A i \in DOMAIN queue'[r] :
                  /\ i \in Nat /\ i >= 1
                  /\ r = s => i + 1 \in DOMAIN queue[r] /\ queue'[r][i] = queue[r][i + 1]
                  /\ r # s => i \in DOMAIN queue[r] /\ queue'[r][i] = queue[r][i]
  <2> HIDE DEF Work
  <2>1. queue[r] \in Seq(Work)
    BY DEF TypeOK, Work
  <2>2. queue'[r] = IF r = s THEN Tail(queue[r]) ELSE queue[r]
    BY DEF TypeOK
  <2>3. CASE r = s
    <3>1. queue[r] # <<>> /\ queue'[r] = Tail(queue[r])
      BY <2>2, <2>3
    <3>2. \A i \in DOMAIN queue'[r] :
            i \in Nat /\ i >= 1 /\ i + 1 \in DOMAIN queue[r] /\ queue'[r][i] = queue[r][i + 1]
      <4>1. /\ Len(queue'[r]) = Len(queue[r]) - 1 /\ Len(queue[r]) \in Nat
            /\ DOMAIN queue[r] = 1 .. Len(queue[r]) /\ DOMAIN queue'[r] = 1 .. Len(queue'[r])
            /\ \A i \in 1 .. Len(queue'[r]) : queue'[r][i] = queue[r][i + 1]
        BY <2>1, <3>1, HeadTailProperties, LenProperties, Zenon
      <4> QED BY <4>1
    <3>3. queue'[r] \in Seq(Work)
      BY <2>1, <3>1
    <3> QED BY <2>3, <3>2, <3>3
  <2>4. CASE r # s
    <3>1. \A i \in DOMAIN queue[r] : i \in Nat /\ i >= 1
      BY <2>1
    <3> QED BY <2>1, <2>2, <2>4, <3>1
  <2> QED BY <2>3, <2>4
<1>2. ASSUME NEW r \in Streams, NEW i \in DOMAIN queue'[r]
      PROVE  \E j \in DOMAIN queue[r] : queue'[r][i] = queue[r][j]
  BY <1>1
<1>3. TypeOK'
  <2>1. queue' \in [Streams -> Seq(Work)]
    <3> HIDE DEF Work
    <3>1. queue' = [r \in Streams |-> queue'[r]]
      BY DEF TypeOK
    <3> QED BY <1>1, <3>1
  <2>2. event' \in [Clients -> Nat]
    BY DEF TypeOK
  <2> QED BY <2>1, <2>2 DEF TypeOK
<1>4. StreamInv'
  BY DEF StreamInv
<1>5. WorkInv'
  BY <1>2 DEF WorkInv
<1>6. EventInv'
  <2>1. \A c \in settled : stage[c] \in {"retiring", "leaked", "gone"}
    BY DEF EventInv
  <2>2. ASSUME NEW r \in Streams, NEW i \in DOMAIN queue'[r],
               stage[queue'[r][i].client] = "retiring" \/ queue'[r][i].client \in settled
        PROVE  i <= event'[queue'[r][i].client]
    <3> DEFINE c == queue'[r][i].client
    <3>1. c \in Clients /\ stream[c] = r /\ event[c] \in Nat
      <4>1. PICK j \in DOMAIN queue[r] : queue'[r][i] = queue[r][j]
        BY <1>2
      <4>2. c \in Clients /\ stream[c] = r
        BY <4>1, ItemType DEF WorkInv
      <4> QED BY <4>2 DEF TypeOK
    <3>2. CASE r = s
      <4>1. i + 1 <= event[c]
        BY <1>1, <2>2, <3>2 DEF EventInv
      <4>2. event'[c] = event[c] - 1
        BY <1>1, <3>1, <3>2, <4>1
      <4> QED BY <1>1, <3>1, <4>1, <4>2
    <3>3. CASE r # s
      <4>1. i <= event[c] /\ event'[c] = event[c]
        BY <1>1, <2>2, <3>1, <3>3 DEF EventInv
      <4> QED BY <4>1
    <3> QED BY <3>2, <3>3
  <2> QED BY <2>1, <2>2 DEF EventInv
<1>7. CoveredInFlight'
  <2> SUFFICES ASSUME NEW r \in Streams, NEW i \in DOMAIN queue'[r],
                      NEW use \in queue'[r][i].uses
               PROVE  <<queue'[r][i].client, use[2]>> \in active[use[1]]
    BY DEF CoveredInFlight
  <2>1. PICK j \in DOMAIN queue[r] : queue'[r][i] = queue[r][j]
    BY <1>2
  <2> QED BY <2>1 DEF CoveredInFlight
<1>8. EntryInv' /\ LeaseInv' /\ MemInv'
  BY DEF EntryInv, LeaseInv, MemInv, Holders
<1> QED BY <1>3, <1>4, <1>5, <1>6, <1>7, <1>8

\* A fault empties the queues.
LEMMA FaultStep == ASSUME IndInv, Fault PROVE IndInv'
<1> USE DEF IndInv, Fault, clientVars, errVars
<1>1. \A s \in Streams : queue'[s] = <<>>
  OBVIOUS
<1>2. TypeOK'
  BY DEF TypeOK
<1>3. WorkInv' /\ CoveredInFlight'
  BY <1>1 DEF WorkInv, CoveredInFlight
<1>4. EventInv'
  BY <1>1 DEF EventInv
<1>5. StreamInv' /\ EntryInv' /\ LeaseInv' /\ MemInv'
  BY DEF StreamInv, EntryInv, LeaseInv, MemInv, Holders
<1> QED BY <1>2, <1>3, <1>4, <1>5

\* Views, memory and deferred errors: the clients and the queues stay.
LEMMA OtherStep ==
  ASSUME IndInv,
         \/ \E a \in Allocs : WorkerFrees(a) \/ DropView(a)
         \/ RecordErr \/ OtherBind \/ UNCHANGED vars
  PROVE  IndInv'
<1> USE DEF IndInv, clientVars, deviceVars, errVars
<1>1. ASSUME UNCHANGED <<clientVars, active, deviceVars>>, views' \subseteq views,
             errState' \in BOOLEAN, deferred' \in 0 .. MaxDeferred,
             mem' \in [Allocs -> {"live", "dying", "freed", "leaked"}],
             \A a \in Allocs : \/ mem'[a] = mem[a] \/ mem[a] # "live"
                               \/ a \notin views' /\ Holders(a, leases) = {}
      PROVE  IndInv'
  <2>1. TypeOK'
    BY <1>1 DEF TypeOK
  <2>2. MemInv'
    BY <1>1 DEF MemInv, Holders
  <2>3. StreamInv' /\ WorkInv' /\ EventInv'
    BY <1>1 DEF StreamInv, WorkInv, EventInv
  <2>4. CoveredInFlight' /\ EntryInv' /\ LeaseInv'
    BY <1>1 DEF CoveredInFlight, EntryInv, LeaseInv
  <2> QED BY <2>1, <2>2, <2>3, <2>4
<1>2. ASSUME NEW a \in Allocs, WorkerFrees(a) PROVE IndInv'
  BY <1>1, <1>2 DEF WorkerFrees, TypeOK
<1>3. ASSUME NEW a \in Allocs, DropView(a) PROVE IndInv'
  BY <1>1, <1>3 DEF DropView, Collect, TypeOK
<1>4. CASE RecordErr
  <2>1. deferred' \in 0 .. MaxDeferred
    BY <1>4, LeasesAssumption DEF RecordErr, TypeOK
  <2> QED BY <1>1, <1>4, <2>1 DEF RecordErr, TypeOK
<1>5. CASE OtherBind
  BY <1>1, <1>5 DEF OtherBind, BindFails, TypeOK
<1>6. CASE UNCHANGED vars
  BY <1>1, <1>6 DEF vars, TypeOK
<1> QED BY <1>2, <1>3, <1>4, <1>5, <1>6

-----------------------------------------------------------------------------
(* The invariant.                                                          *)

\* A context without clients.
LEMMA InitInv == Init => IndInv
<1> SUFFICES ASSUME Init PROVE IndInv
  OBVIOUS
<1>1. TypeOK
  <2>1. event \in [Clients -> Nat] /\ launches \in [Clients -> 0 .. MaxLaunches]
    BY LeasesAssumption DEF Init
  <2>2. deferred \in 0 .. MaxDeferred /\ stage \in [Clients -> Stages]
    BY LeasesAssumption DEF Init, Stages
  <2>3. queue \in [Streams -> Seq([client : Clients, uses : SUBSET (Allocs \X Modes)])]
    BY DEF Init
  <2> QED BY <2>1, <2>2, <2>3 DEF Init, TypeOK
<1>2. StreamInv /\ WorkInv /\ EventInv /\ CoveredInFlight
  BY DEF Init, StreamInv, WorkInv, EventInv, CoveredInFlight
<1>3. EntryInv /\ LeaseInv /\ MemInv
  BY DEF Init, EntryInv, LeaseInv, MemInv
<1> QED BY <1>1, <1>2, <1>3 DEF IndInv

\* What a client does on its own behalf.
LEMMA ClientInv ==
  ASSUME IndInv, NEW c \in Clients, ClientStep(c)
  PROVE  IndInv'
<1> USE DEF IndInv
<1>1. ASSUME NEW s \in Streams, Open(c, s) PROVE IndInv'
  BY <1>1, OpenStep
<1>2. ASSUME NEW a \in Allocs, NEW mode \in Modes, Retain(c, a, mode) PROVE IndInv'
  <2>1. stream[c] \in Streams
    BY <1>2 DEF Retain, StreamInv
  <2> QED BY <1>2, <2>1, AcquireStep DEF Retain
<1>3. ASSUME NEW a \in Allocs, NEW mode \in Modes, RetainRefused(c, a, mode) PROVE IndInv'
  <2>1. stream[c] \in Streams
    BY <1>3 DEF RetainRefused, To, StreamInv
  <2> QED BY <1>3, <2>1, RefuseStep DEF RetainRefused, To
<1>4. CASE Launch(c)
  <2>1. stage' = [stage EXCEPT ![c] = "open"]
    BY <1>4 DEF Launch, TypeOK
  <2> QED BY <1>4, <2>1, EnqueueStep DEF Launch
<1>5. CASE ForgetFuture(c)
  BY <1>5, StageStep DEF ForgetFuture, To, Stages, EventInv, errVars, TypeOK
<1>6. ASSUME NEW s \in Streams, NEW a \in Allocs, NEW mode \in Modes,
             CopyAcquire(c, s, a, mode)
      PROVE  IndInv'
  BY <1>6, AcquireStep DEF CopyAcquire, To
<1>7. ASSUME NEW s \in Streams, NEW a \in Allocs, NEW mode \in Modes,
             CopyRefused(c, s, a, mode)
      PROVE  IndInv'
  BY <1>7, RefuseStep DEF CopyRefused, To
<1> QED BY <1>1, <1>2, <1>3, <1>4, <1>5, <1>6, <1>7 DEF ClientStep

\* How a submission and a copy end.
LEMMA EndInv ==
  ASSUME IndInv, NEW c \in Clients, EndStep(c)
  PROVE  IndInv'
<1> USE DEF IndInv, To
<1>1. CASE Complete(c)
  BY <1>1, ReleaseStep DEF Complete, InFlight, errVars, TypeOK
<1>2. CASE DropFuture(c)
  BY <1>2, StageStep DEF DropFuture, Stages, EventInv, errVars, TypeOK
<1>3. CASE DropEmpty(c)
  BY <1>3, StageStep DEF DropEmpty, Stages, EventInv, errVars, TypeOK
<1>4. CASE DropBinds(c)
  BY <1>4, StageStep
  DEF DropBinds, BindFails, BindWorks, Stages, EventInv, errVars, TypeOK
<1>5. CASE DropFaulted(c)
  BY <1>5, StageStep DEF DropFaulted, BindFails, Stages, EventInv, errVars, TypeOK
<1>6. CASE DropIdle(c)
  <2>1. \A s \in Streams : \A i \in DOMAIN queue[s] : queue[s][i].client # c
    BY <1>6 DEF DropIdle, WorkInv
  <2> QED BY <1>6, <2>1, ReleaseStep DEF DropIdle, BindWorks, errVars, TypeOK
<1>7. CASE DropBusy(c)
  BY <1>7, StageStep DEF DropBusy, BindWorks, Stages, EventInv, errVars, TypeOK
<1>8. CASE DropRetains(c)
  <2>1. CASE stage' = [stage EXCEPT ![c] = "leaked"]
    BY <1>8, <2>1, StageStep
    DEF DropRetains, RecordEvent, BindFails, BindWorks, Stages, EventInv, errVars, TypeOK
  <2>2. CASE stage' = [stage EXCEPT ![c] = "retiring"]
    BY <1>8, <2>2, EventStep
    DEF DropRetains, RecordEvent, BindWorks, EventInv, TypeOK
  <2> QED BY <1>8, <2>1, <2>2 DEF DropRetains, RecordEvent
<1>9. CASE CopyUnbound(c)
  <2>1. \A s \in Streams : \A i \in DOMAIN queue[s] : queue[s][i].client # c
    BY <1>9 DEF CopyUnbound, WorkInv
  <2> QED BY <1>9, <2>1, ReleaseStep DEF CopyUnbound, BindFails, TypeOK
<1>10. CASE CopyEnqueue(c)
  <2>1. CASE Enqueue(c)
    BY <1>10, <2>1, EnqueueStep DEF CopyEnqueue, BindWorks
  <2>2. CASE UNCHANGED <<launches, deviceVars>>
    BY <1>10, <2>2, StageStep DEF CopyEnqueue, BindWorks, Stages, EventInv, errVars, TypeOK
  <2> QED BY <1>10, <2>1, <2>2 DEF CopyEnqueue
<1>11. CASE CopyRetains(c)
  <2>1. CASE stage' = [stage EXCEPT ![c] = "leaked"]
    BY <1>11, <2>1, StageStep
    DEF CopyRetains, RecordEvent, BindFails, BindWorks, Stages, EventInv, errVars, TypeOK
  <2>2. CASE stage' = [stage EXCEPT ![c] = "retiring"]
    BY <1>11, <2>2, EventStep
    DEF CopyRetains, RecordEvent, BindWorks, EventInv, TypeOK
  <2> QED BY <1>11, <2>1, <2>2 DEF CopyRetains, RecordEvent
<1> QED BY <1>1, <1>2, <1>3, <1>4, <1>5, <1>6, <1>7, <1>8, <1>9, <1>10, <1>11 DEF EndStep

\* The retirement worker.
LEMMA WorkerInv ==
  ASSUME IndInv, WorkerStep
  PROVE  IndInv'
<1> USE DEF IndInv, To
<1>1. ASSUME NEW c \in Clients, WorkerRetires(c) PROVE IndInv'
  <2>1. \A s \in Streams : \A i \in DOMAIN queue[s] : queue[s][i].client # c
    BY <1>1, PassedIsDone DEF WorkerRetires
  <2> QED BY <1>1, <2>1, ReleaseStep DEF WorkerRetires, BindWorks, errVars, TypeOK
<1>2. ASSUME NEW c \in Clients, WorkerForgets(c) PROVE IndInv'
  BY <1>2, StageStep DEF WorkerForgets, BindFails, BindWorks, Stages, errVars, TypeOK
<1>3. ASSUME NEW a \in Allocs, WorkerFrees(a) PROVE IndInv'
  BY <1>3, OtherStep
<1> QED BY <1>1, <1>2, <1>3 DEF WorkerStep

\* Every step of the clients, the worker, the device and the users preserves
\* the invariant.
LEMMA NextInv == IndInv /\ [Next]_vars => IndInv'
<1> SUFFICES ASSUME IndInv, [Next]_vars PROVE IndInv'
  OBVIOUS
<1> QED BY ClientInv, EndInv, WorkerInv, FinishStep, FaultStep, OtherStep DEF Next

\* The invariant of the tracker, its clients and the memory they use.
THEOREM Invariance == Spec => []IndInv
BY InitInv, NextInv, PTL DEF Spec

\* Accesses::register: work on two streams never holds one allocation at the
\* same time if either writes it, with any number of clients, streams and
\* allocations, whatever is dropped, leaked, pruned or killed by a fault.
THEOREM CrossStreamExclusion == Spec => []NoCrossStreamRace
<1>1. ASSUME IndInv, NEW a \in Allocs, NEW s \in Streams, NEW r \in Streams, NEW m \in Modes,
             s # r, Using(s, a, "write"), Using(r, a, m)
      PROVE  FALSE
  <2>1. PICK i \in DOMAIN queue[s] : <<a, "write">> \in queue[s][i].uses
    BY <1>1 DEF Using
  <2>2. PICK j \in DOMAIN queue[r] : <<a, m>> \in queue[r][j].uses
    BY <1>1 DEF Using
  <2>3. /\ <<queue[s][i].client, "write">> \in active[a]
        /\ <<queue[r][j].client, m>> \in active[a]
    BY <1>1, <2>1, <2>2 DEF IndInv, CoveredInFlight
  <2>4. stream[queue[s][i].client] = s /\ stream[queue[r][j].client] = r
    BY <1>1 DEF IndInv, WorkInv
  <2> QED BY <1>1, <2>3, <2>4 DEF IndInv, EntryInv
<1>2. IndInv => NoCrossStreamRace
  BY <1>1 DEF NoCrossStreamRace
<1> QED BY <1>2, Invariance, PTL

\* Allocation::drop and its deferred free: no memory is dying or freed while
\* queued work uses it.
THEOREM MemoryOutlivesWork == Spec => []NoFreeInFlight
<1>1. ASSUME IndInv, NEW a \in Allocs, mem[a] \in {"dying", "freed"},
             NEW s \in Streams, NEW m \in Modes, Using(s, a, m)
      PROVE  FALSE
  <2>1. PICK i \in DOMAIN queue[s] : <<a, m>> \in queue[s][i].uses
    BY <1>1 DEF Using
  <2>2. queue[s][i].client \in Clients /\ <<a, m>> \in leases[queue[s][i].client]
    BY <1>1, <2>1, ItemType DEF IndInv, WorkInv
  <2>3. queue[s][i].client \in Holders(a, leases)
    BY <2>2 DEF Holders
  <2> QED BY <1>1, <2>3 DEF IndInv, MemInv
<1>2. IndInv => NoFreeInFlight
  BY <1>1 DEF NoFreeInFlight
<1> QED BY <1>2, Invariance, PTL

\* The access tracker never loses the entry of queued work, although it
\* prunes settled entries whenever an access is registered.
THEOREM TrackerCovers == Spec => []CoveredInFlight
<1>1. IndInv => CoveredInFlight
  BY DEF IndInv
<1> QED BY <1>1, Invariance, PTL

-----------------------------------------------------------------------------
(* Nothing is forgotten: what DroppedIsFreed rests on.                     *)

\* Who holds a lease is still in progress, leaked or forgotten.
HeldInv == \A c \in Clients : leases[c] # {} => stage[c] \notin {"new", "gone"}

\* Drop runs when the last view or lease goes, whichever goes last.
LiveInv ==
  \A a \in Allocs : mem[a] = "live" /\ a \notin views => Holders(a, leases) # {}

\* Memory and owners are leaked only after a fault or a deferred error.
LeakInv ==
  (\/ errState
   \/ \E a \in Allocs : mem[a] = "leaked"
   \/ \E c \in Clients : stage[c] = "leaked") => down \/ deferred > 0

\* The event a client is retired on passes when its stream drains.
DrainInv ==
  \A c \in Clients : stage[c] = "retiring" /\ ~down => event[c] <= Len(queue[stream[c]])

OwedInv == HeldInv /\ LiveInv /\ LeakInv /\ DrainInv

\* A client that is on its way to give its leases up: one that waits for its
\* completion event waits for queued work.
Ending(c) ==
  /\ stage[c] \notin {"new", "gone", "leaked", "forgotten"}
  /\ stage[c] = "retiring" => down \/ event[c] = 0 \/ queue[stream[c]] # <<>>

\* Memory without a view is freed or queued for it; or it, or an owner of it,
\* was leaked, and then there was a fault or a deferred error; or its owner is
\* a future the user forgot, or a client on its way to give it up.
FreeOwed ==
  \A a \in Allocs \ views :
    \/ mem[a] \in {"dying", "freed"}
    \/ mem[a] = "leaked" /\ (down \/ deferred > 0)
    \/ \E c \in Holders(a, leases) :
         \/ stage[c] = "leaked" /\ (down \/ deferred > 0)
         \/ stage[c] = "forgotten"
         \/ Ending(c)

\* Leases are taken by clients in progress and given up before they end.
LEMMA HeldStep == TypeOK /\ HeldInv /\ [Next]_vars => HeldInv'
<1> SUFFICES ASSUME TypeOK, HeldInv, [Next]_vars PROVE HeldInv'
  OBVIOUS
<1>0. stage \in [Clients -> Stages] /\ leases \in [Clients -> SUBSET (Allocs \X Modes)]
  BY DEF TypeOK
<1>1. ASSUME NEW c \in Clients, NEW to \in Stages \ {"new", "gone"},
             stage' = [stage EXCEPT ![c] = to],
             \A d \in Clients : d # c => leases'[d] = leases[d]
      PROVE  HeldInv'
  BY <1>0, <1>1 DEF HeldInv
<1>2. ASSUME NEW c \in Clients, stage' = [stage EXCEPT ![c] = "gone"], leases'[c] = {},
             \A d \in Clients : d # c => leases'[d] = leases[d]
      PROVE  HeldInv'
  BY <1>0, <1>2 DEF HeldInv
<1>3. ASSUME UNCHANGED <<stage, leases>> PROVE HeldInv'
  BY <1>3 DEF HeldInv
<1>4. ASSUME NEW c \in Clients, ClientStep(c) PROVE HeldInv'
  <2>1. ASSUME NEW s \in Streams, Open(c, s) PROVE HeldInv'
    BY <1>1, <2>1 DEF Open, To, Stages
  <2>2. ASSUME NEW a \in Allocs, NEW mode \in Modes, Retain(c, a, mode) PROVE HeldInv'
    <3>1. stage' = [stage EXCEPT ![c] = "open"]
      BY <1>0, <2>2 DEF Retain
    <3>2. \A d \in Clients : d # c => leases'[d] = leases[d]
      BY <1>0, <2>2 DEF Retain, Acquire
    <3> QED BY <1>1, <3>1, <3>2 DEF Stages
  <2>3. ASSUME NEW a \in Allocs, NEW mode \in Modes, RetainRefused(c, a, mode) PROVE HeldInv'
    BY <1>1, <2>3 DEF RetainRefused, NotReady, To, Stages
  <2>4. CASE Launch(c)
    BY <1>3, <2>4 DEF Launch, KeepLeases
  <2>5. CASE ForgetFuture(c)
    BY <1>1, <2>5 DEF ForgetFuture, KeepLeases, To, Stages
  <2>6. ASSUME NEW s \in Streams, NEW a \in Allocs, NEW mode \in Modes,
               CopyAcquire(c, s, a, mode)
        PROVE  HeldInv'
    <3>1. \A d \in Clients : d # c => leases'[d] = leases[d]
      BY <1>0, <2>6 DEF CopyAcquire, Acquire
    <3> QED BY <1>1, <2>6, <3>1 DEF CopyAcquire, To, Stages
  <2>7. ASSUME NEW s \in Streams, NEW a \in Allocs, NEW mode \in Modes,
               CopyRefused(c, s, a, mode)
        PROVE  HeldInv'
    <3>1. stage[c] = "new" /\ stage' = [stage EXCEPT ![c] = "gone"] /\ leases' = leases
      BY <2>7 DEF CopyRefused, NotReady, To
    <3>2. leases[c] = {}
      BY <3>1 DEF HeldInv
    <3> QED BY <1>2, <3>1, <3>2
  <2> QED BY <1>4, <2>1, <2>2, <2>3, <2>4, <2>5, <2>6, <2>7 DEF ClientStep
<1>5. ASSUME NEW c \in Clients, stage' = [stage EXCEPT ![c] = "gone"], DropLeases(c)
      PROVE  HeldInv'
  BY <1>0, <1>2, <1>5 DEF DropLeases
<1>6. ASSUME NEW c \in Clients, EndStep(c) PROVE HeldInv'
  <2>1. CASE Complete(c) \/ DropIdle(c) \/ CopyUnbound(c)
    BY <1>5, <2>1 DEF Complete, DropIdle, CopyUnbound, To
  <2>2. CASE DropEmpty(c)
    BY <1>2, <2>2 DEF DropEmpty, KeepLeases, To
  <2>3. CASE DropFuture(c) \/ DropBinds(c) \/ DropFaulted(c) \/ DropBusy(c) \/ DropRetains(c)
             \/ CopyEnqueue(c) \/ CopyRetains(c)
    <3>1. leases' = leases
      BY <2>3 DEF DropFuture, DropBinds, DropFaulted, DropBusy, DropRetains, CopyEnqueue,
                  CopyRetains, KeepLeases
    <3>2. \E to \in Stages \ {"new", "gone"} : stage' = [stage EXCEPT ![c] = to]
      BY <2>3 DEF DropFuture, DropBinds, DropFaulted, DropBusy, DropRetains, CopyEnqueue,
                  CopyRetains, RecordEvent, To, Stages
    <3> QED BY <1>1, <3>1, <3>2
  <2> QED BY <1>6, <2>1, <2>2, <2>3 DEF EndStep
<1>7. ASSUME WorkerStep PROVE HeldInv'
  <2>1. ASSUME NEW c \in Clients, WorkerRetires(c) PROVE HeldInv'
    BY <1>5, <2>1 DEF WorkerRetires, To
  <2>2. ASSUME NEW c \in Clients, WorkerForgets(c) PROVE HeldInv'
    BY <1>1, <2>2 DEF WorkerForgets, KeepLeases, To, Stages
  <2>3. ASSUME NEW a \in Allocs, WorkerFrees(a) PROVE HeldInv'
    BY <1>3, <2>3 DEF WorkerFrees, clientVars
  <2> QED BY <1>7, <2>1, <2>2, <2>3 DEF WorkerStep
<1>8. CASE (\E a \in Allocs : DropView(a)) \/ (\E s \in Streams : Finish(s))
           \/ Fault \/ RecordErr \/ OtherBind \/ UNCHANGED vars
  BY <1>3, <1>8 DEF DropView, Finish, Fault, RecordErr, OtherBind, vars, clientVars
<1> QED BY <1>4, <1>6, <1>7, <1>8 DEF Next

\* Whoever gives up the last view or lease runs Drop.
LEMMA LiveStep == TypeOK /\ LiveInv /\ [Next]_vars => LiveInv'
<1> SUFFICES ASSUME TypeOK, LiveInv, [Next]_vars PROVE LiveInv'
  OBVIOUS
<1>1. ASSUME UNCHANGED <<views, mem>>, \A c \in Clients : leases[c] \subseteq leases'[c]
      PROVE  LiveInv'
  BY <1>1 DEF LiveInv, Holders
<1>2. ASSUME Collect(views', leases') PROVE LiveInv'
  BY <1>2 DEF LiveInv, Collect
<1>3. ASSUME NEW a \in Allocs, WorkerFrees(a) PROVE LiveInv'
  BY <1>3 DEF WorkerFrees, LiveInv, TypeOK, clientVars
<1>4. ASSUME NEW c \in Clients, NEW s, NEW a \in Allocs, NEW mode \in Modes,
             Acquire(c, s, a, mode)
      PROVE  LiveInv'
  BY <1>1, <1>4 DEF Acquire, TypeOK
<1>5. ASSUME NEW c \in Clients, ClientStep(c) PROVE LiveInv'
  <2>1. CASE \E a \in Allocs, mode \in Modes : Retain(c, a, mode)
    BY <1>4, <2>1 DEF Retain
  <2>2. CASE \E s \in Streams, a \in Allocs, mode \in Modes : CopyAcquire(c, s, a, mode)
    BY <1>4, <2>2 DEF CopyAcquire
  <2>3. CASE \/ \E s \in Streams : Open(c, s)
             \/ \E a \in Allocs, mode \in Modes : RetainRefused(c, a, mode)
             \/ Launch(c) \/ ForgetFuture(c)
             \/ \E s \in Streams, a \in Allocs, mode \in Modes : CopyRefused(c, s, a, mode)
    BY <1>1, <2>3 DEF Open, RetainRefused, Launch, ForgetFuture, CopyRefused, NotReady,
                      KeepLeases
  <2> QED BY <1>5, <2>1, <2>2, <2>3 DEF ClientStep
<1>6. ASSUME NEW c \in Clients, DropLeases(c) PROVE LiveInv'
  BY <1>2, <1>6 DEF DropLeases
<1>7. ASSUME NEW c \in Clients, EndStep(c) \/ WorkerRetires(c) \/ WorkerForgets(c)
      PROVE  LiveInv'
  <2>1. CASE Complete(c) \/ DropIdle(c) \/ CopyUnbound(c) \/ WorkerRetires(c)
    BY <1>6, <2>1 DEF Complete, DropIdle, CopyUnbound, WorkerRetires
  <2>2. CASE \/ DropFuture(c) \/ DropEmpty(c) \/ DropBinds(c) \/ DropFaulted(c)
             \/ DropBusy(c) \/ DropRetains(c) \/ CopyEnqueue(c) \/ CopyRetains(c)
             \/ WorkerForgets(c)
    BY <1>1, <2>2 DEF DropFuture, DropEmpty, DropBinds, DropFaulted, DropBusy, DropRetains,
                      CopyEnqueue, CopyRetains, WorkerForgets, KeepLeases
  <2> QED BY <1>7, <2>1, <2>2 DEF EndStep
<1>8. ASSUME NEW a \in Allocs, DropView(a) PROVE LiveInv'
  BY <1>2, <1>8 DEF DropView, clientVars
<1>9. CASE (\E s \in Streams : Finish(s)) \/ Fault \/ RecordErr \/ OtherBind \/ UNCHANGED vars
  BY <1>1, <1>9 DEF Finish, Fault, RecordErr, OtherBind, vars, clientVars
<1> QED BY <1>3, <1>5, <1>7, <1>8, <1>9 DEF Next, WorkerStep

\* An error state comes from record_err or from a context that is down.
LEMMA LeakStep == TypeOK /\ LeakInv /\ [Next]_vars => LeakInv'
<1> SUFFICES ASSUME TypeOK, LeakInv, [Next]_vars PROVE LeakInv'
  OBVIOUS
<1>0. /\ deferred \in Nat /\ mem \in [Allocs -> {"live", "dying", "freed", "leaked"}]
      /\ stage \in [Clients -> Stages]
  BY LeasesAssumption DEF TypeOK
<1>1. ASSUME errState' => errState, down => down', deferred' = deferred,
             \A a \in Allocs : mem'[a] = "leaked" => mem[a] = "leaked",
             \A c \in Clients : stage'[c] = "leaked" => stage[c] = "leaked" \/ errState \/ down
      PROVE  LeakInv'
  BY <1>1 DEF LeakInv
<1>2. ASSUME Collect(views', leases')
      PROVE  \A a \in Allocs : mem'[a] = "leaked" => mem[a] = "leaked"
  BY <1>2 DEF Collect
<1>3. ASSUME NEW a \in Allocs, QueriesErr(a)
      PROVE  (errState' => errState) /\ deferred' = deferred
  BY <1>3 DEF QueriesErr
<1>4. ASSUME BindFails \/ BindWorks PROVE (errState' => errState) /\ deferred' = deferred
  BY <1>4 DEF BindFails, BindWorks, errVars
<1>5. ASSUME NEW c \in Clients, ClientStep(c) PROVE LeakInv'
  <2>1. UNCHANGED <<mem, down>>
    BY <1>5 DEF ClientStep, Open, Retain, RetainRefused, Launch, ForgetFuture, CopyAcquire,
                CopyRefused, Acquire, NotReady, Enqueue, KeepLeases, deviceVars
  <2>2. UNCHANGED errVars \/ \E a \in Allocs : QueriesErr(a)
    BY <1>5 DEF ClientStep, Open, Retain, RetainRefused, Launch, ForgetFuture, CopyAcquire,
                CopyRefused, Acquire, NotReady
  <2>3. \A d \in Clients : stage'[d] = "leaked" => stage[d] = "leaked"
    BY <1>0, <1>5 DEF ClientStep, Open, Retain, RetainRefused, Launch, ForgetFuture, CopyAcquire,
                CopyRefused, To
  <2> QED BY <1>1, <1>3, <2>1, <2>2, <2>3 DEF errVars
<1>6. ASSUME NEW c \in Clients, EndStep(c) \/ WorkerRetires(c) \/ WorkerForgets(c)
      PROVE  LeakInv'
  <2>1. down' = down
    BY <1>6 DEF EndStep, Complete, DropFuture, DropEmpty, DropBinds, DropFaulted, DropIdle,
                DropBusy, DropRetains, CopyUnbound, CopyEnqueue, CopyRetains, WorkerRetires,
                WorkerForgets, Enqueue, deviceVars
  <2>2. UNCHANGED errVars \/ BindFails \/ BindWorks
    BY <1>6 DEF EndStep, Complete, DropFuture, DropEmpty, DropBinds, DropFaulted, DropIdle,
                DropBusy, DropRetains, CopyUnbound, CopyEnqueue, CopyRetains, WorkerRetires,
                WorkerForgets, RecordEvent
  <2>3. mem' = mem \/ Collect(views', leases')
    BY <1>6 DEF EndStep, Complete, DropFuture, DropEmpty, DropBinds, DropFaulted, DropIdle,
                DropBusy, DropRetains, CopyUnbound, CopyEnqueue, CopyRetains, WorkerRetires,
                WorkerForgets, KeepLeases, DropLeases
  <2>4. \A a \in Allocs : mem'[a] = "leaked" => mem[a] = "leaked"
    BY <1>2, <2>3
  <2>5. \A d \in Clients : stage'[d] = "leaked" => stage[d] = "leaked" \/ errState \/ down
    BY <1>0, <1>6 DEF EndStep, Complete, DropFuture, DropEmpty, DropBinds, DropFaulted, DropIdle,
                DropBusy, DropRetains, CopyUnbound, CopyEnqueue, CopyRetains, WorkerRetires,
                WorkerForgets, RecordEvent, BindFails, To
  <2> QED BY <1>1, <1>4, <2>1, <2>2, <2>4, <2>5 DEF errVars
<1>7. ASSUME NEW a \in Allocs, WorkerFrees(a) PROVE LeakInv'
  <2>1. UNCHANGED <<down, deferred, stage>> /\ (errState' <=> errState \/ down)
    BY <1>7 DEF WorkerFrees, deviceVars, clientVars
  <2>2. \A b \in Allocs : mem'[b] = "leaked" => mem[b] = "leaked" \/ errState \/ down
    BY <1>0, <1>7 DEF WorkerFrees
  <2> QED BY <2>1, <2>2 DEF LeakInv
<1>8. ASSUME NEW a \in Allocs, DropView(a) PROVE LeakInv'
  <2>1. UNCHANGED <<errState, deferred, down, stage>> /\ Collect(views', leases')
    BY <1>8 DEF DropView, clientVars, errVars, deviceVars
  <2> QED BY <1>1, <1>2, <2>1
<1>9. CASE RecordErr
  <2>1. deferred' > 0
    BY <1>0, <1>9 DEF RecordErr
  <2> QED BY <2>1 DEF LeakInv
<1>10. CASE (\E s \in Streams : Finish(s)) \/ Fault \/ OtherBind \/ UNCHANGED vars
  <2>1. mem' = mem /\ (down => down') /\ stage' = stage
    BY <1>10 DEF Finish, Fault, OtherBind, vars, deviceVars, clientVars
  <2>2. UNCHANGED errVars \/ BindFails
    BY <1>10 DEF Finish, Fault, OtherBind, vars
  <2> QED BY <1>1, <1>4, <2>1, <2>2 DEF errVars
<1> QED BY <1>5, <1>6, <1>7, <1>8, <1>9, <1>10 DEF Next, WorkerStep

\* Events are recorded behind the queued work, and pass with it.
LEMMA DrainStep == TypeOK /\ StreamInv /\ DrainInv /\ [Next]_vars => DrainInv'
<1> SUFFICES ASSUME TypeOK, StreamInv, DrainInv, [Next]_vars PROVE DrainInv'
  OBVIOUS
<1>0. /\ stage \in [Clients -> Stages] /\ event \in [Clients -> Nat]
      /\ queue \in [Streams -> Seq([client : Clients, uses : SUBSET (Allocs \X Modes)])]
      /\ stream \in [Clients -> Streams \cup {None}]
      /\ \A s \in Streams : Len(queue[s]) \in Nat
  <2> DEFINE Work == [client : Clients, uses : SUBSET (Allocs \X Modes)]
  <2>1. queue \in [Streams -> Seq(Work)]
    BY DEF TypeOK
  <2> HIDE DEF Work
  <2>2. \A s \in Streams : Len(queue[s]) \in Nat
    BY <2>1
  <2> QED BY <2>1, <2>2 DEF TypeOK, Work
<1>a. \A c \in Clients : stage[c] = "retiring" => stream[c] \in Streams
  BY DEF StreamInv
<1>1. ASSUME down => down',
             \A s \in Streams : Len(queue'[s]) \in Nat /\ Len(queue[s]) <= Len(queue'[s]),
             \A c \in Clients : stage'[c] = "retiring" /\ ~down' =>
               \/ stage[c] = "retiring" /\ event'[c] = event[c] /\ stream'[c] = stream[c]
               \/ event'[c] <= Len(queue'[stream'[c]])
      PROVE  DrainInv'
  <2> SUFFICES ASSUME NEW c \in Clients, stage'[c] = "retiring", ~down'
               PROVE  event'[c] <= Len(queue'[stream'[c]])
    BY DEF DrainInv
  <2>1. CASE stage[c] = "retiring" /\ event'[c] = event[c] /\ stream'[c] = stream[c]
    <3>1. stream[c] \in Streams /\ event[c] <= Len(queue[stream[c]]) /\ event[c] \in Nat
      BY <1>0, <1>a, <1>1, <2>1 DEF DrainInv
    <3> QED BY <1>0, <1>1, <2>1, <3>1
  <2> QED BY <1>1, <2>1
<1>2. ASSUME UNCHANGED <<queue, down, event>>,
             \A c \in Clients : stage'[c] = "retiring" =>
               stage[c] = "retiring" /\ stream'[c] = stream[c]
      PROVE  DrainInv'
  BY <1>0, <1>1, <1>2
<1>3. ASSUME NEW c \in Clients, NEW to \in {"open", "copied"}, Enqueue(c),
             stage[c] \in {"open", "copying"}, StreamInv,
             stage' = [stage EXCEPT ![c] = to], UNCHANGED <<stream, event>>
      PROVE  DrainInv'
  <2>1. stream[c] \in Streams
    BY <1>3 DEF StreamInv
  <2>2. \A s \in Streams : Len(queue'[s]) \in Nat /\ Len(queue[s]) <= Len(queue'[s])
    <3> DEFINE item == [client |-> c, uses |-> leases[c]]
               Work == [client : Clients, uses : SUBSET (Allocs \X Modes)]
    <3>1. queue' = [queue EXCEPT ![stream[c]] = Append(queue[stream[c]], item)]
      BY <1>3 DEF Enqueue
    <3>2. queue[stream[c]] \in Seq(Work) /\ item \in Work
      BY <1>0, <2>1 DEF TypeOK
    <3> HIDE DEF item, Work
    <3>3. Len(Append(queue[stream[c]], item)) = Len(queue[stream[c]]) + 1
      BY <3>2
    <3> QED BY <1>0, <2>1, <3>1, <3>3
  <2> QED BY <1>0, <1>1, <1>3, <2>2 DEF Enqueue
<1>4. ASSUME NEW c \in Clients, ClientStep(c) PROVE DrainInv'
  <2>1. CASE Launch(c)
    <3>1. stage' = [stage EXCEPT ![c] = "open"] /\ stage[c] = "open"
      BY <1>0, <2>1 DEF Launch
    <3> QED BY <1>3, <2>1, <3>1 DEF Launch
  <2>2. CASE \/ \E s \in Streams : Open(c, s)
             \/ \E a \in Allocs, mode \in Modes : Retain(c, a, mode)
             \/ \E a \in Allocs, mode \in Modes : RetainRefused(c, a, mode)
             \/ ForgetFuture(c)
             \/ \E s \in Streams, a \in Allocs, mode \in Modes : CopyAcquire(c, s, a, mode)
             \/ \E s \in Streams, a \in Allocs, mode \in Modes : CopyRefused(c, s, a, mode)
    <3>1. UNCHANGED <<queue, down, event>>
      BY <2>2 DEF Open, Retain, RetainRefused, ForgetFuture, CopyAcquire, CopyRefused, deviceVars
    <3>2. \A d \in Clients : d # c => stream'[d] = stream[d]
      BY <1>0, <2>2 DEF Open, Retain, RetainRefused, ForgetFuture, CopyAcquire, CopyRefused
    <3>3. \A d \in Clients : stage'[d] = "retiring" => stage[d] = "retiring" /\ d # c
      BY <1>0, <2>2 DEF Open, Retain, RetainRefused, ForgetFuture, CopyAcquire, CopyRefused, To
    <3> QED BY <1>2, <3>1, <3>2, <3>3
  <2> QED BY <1>4, <2>1, <2>2 DEF ClientStep
<1>5. ASSUME NEW c \in Clients, NEW from \in {"busy", "copied"}, RecordEvent(c, from),
             UNCHANGED <<stream, queue, down>>
      PROVE  DrainInv'
  <2>1. CASE To(c, from, "leaked") /\ UNCHANGED event
    BY <1>0, <1>2, <1>5, <2>1 DEF To
  <2>2. CASE To(c, from, "retiring") /\ event' = [event EXCEPT ![c] = Len(queue[stream[c]])]
    <3>1. stream[c] \in Streams
      BY <2>2 DEF To, StreamInv
    <3>2. Len(queue[stream[c]]) \in Nat
      BY <1>0, <3>1
    <3>3. event'[c] <= Len(queue'[stream'[c]])
      BY <1>0, <1>5, <2>2, <3>2
    <3>4. \A d \in Clients : d # c => stage'[d] = stage[d] /\ event'[d] = event[d]
      BY <1>0, <2>2 DEF To
    <3> QED BY <1>0, <1>1, <1>5, <3>3, <3>4
  <2> QED BY <1>5, <2>1, <2>2 DEF RecordEvent
<1>6. ASSUME NEW c \in Clients, EndStep(c) \/ WorkerRetires(c) \/ WorkerForgets(c)
      PROVE  DrainInv'
  <2>1. CASE DropRetains(c)
    BY <1>5, <2>1 DEF DropRetains, deviceVars
  <2>2. CASE CopyRetains(c)
    BY <1>5, <2>2 DEF CopyRetains, deviceVars
  <2>3. CASE CopyEnqueue(c)
    <3>1. CASE Enqueue(c)
      BY <1>3, <2>3, <3>1 DEF CopyEnqueue, To
    <3>2. CASE UNCHANGED <<launches, deviceVars>>
      BY <1>0, <1>2, <2>3, <3>2 DEF CopyEnqueue, To, deviceVars
    <3> QED BY <2>3, <3>1, <3>2 DEF CopyEnqueue
  <2>4. CASE \/ Complete(c) \/ DropFuture(c) \/ DropEmpty(c) \/ DropBinds(c)
             \/ DropFaulted(c) \/ DropIdle(c) \/ DropBusy(c) \/ CopyUnbound(c)
             \/ WorkerRetires(c) \/ WorkerForgets(c)
    <3>1. UNCHANGED <<queue, down, event, stream>>
      BY <2>4 DEF Complete, DropFuture, DropEmpty, DropBinds, DropFaulted, DropIdle, DropBusy,
                  CopyUnbound, WorkerRetires, WorkerForgets, deviceVars
    <3>2. \E from \in Stages, to \in Stages \ {"retiring"} : To(c, from, to)
      BY <2>4 DEF Complete, DropFuture, DropEmpty, DropBinds, DropFaulted, DropIdle, DropBusy,
                  CopyUnbound, WorkerRetires, WorkerForgets, Stages
    <3>3. \A d \in Clients : stage'[d] = "retiring" => stage[d] = "retiring"
      BY <1>0, <3>2 DEF To
    <3> QED BY <1>2, <3>1, <3>3
  <2> QED BY <1>6, <2>1, <2>2, <2>3, <2>4 DEF EndStep
<1>7. ASSUME NEW s \in Streams, Finish(s) PROVE DrainInv'
  <2> SUFFICES ASSUME NEW c \in Clients, stage[c] = "retiring", ~down
               PROVE  event'[c] <= Len(queue'[stream[c]])
    BY <1>7 DEF Finish, DrainInv
  <2>1. /\ stream[c] \in Streams /\ event[c] <= Len(queue[stream[c]])
        /\ event[c] \in Nat /\ Len(queue[stream[c]]) \in Nat
    BY <1>0, <1>a DEF DrainInv
  <2>2. /\ queue[s] # <<>> /\ queue' = [queue EXCEPT ![s] = Tail(queue[s])]
        /\ event'[c] = IF stream[c] = s /\ event[c] > 0 THEN event[c] - 1 ELSE event[c]
    BY <1>7 DEF Finish
  <2>3. CASE stream[c] # s
    BY <1>0, <2>1, <2>2, <2>3
  <2>4. CASE stream[c] = s
    <3>1. Len(queue'[s]) = Len(queue[s]) - 1 /\ Len(queue[s]) > 0
      <4> DEFINE Work == [client : Clients, uses : SUBSET (Allocs \X Modes)]
      <4>1. queue[s] \in Seq(Work) /\ queue[s] # <<>> /\ queue'[s] = Tail(queue[s])
        BY <1>0, <2>2
      <4> HIDE DEF Work
      <4> QED BY <4>1
    <3> QED BY <2>1, <2>2, <2>4, <3>1
  <2> QED BY <2>3, <2>4
<1>8. CASE Fault
  BY <1>8 DEF Fault, DrainInv
<1>9. CASE (\E a \in Allocs : WorkerFrees(a) \/ DropView(a))
           \/ RecordErr \/ OtherBind \/ UNCHANGED vars
  BY <1>2, <1>9 DEF WorkerFrees, DropView, RecordErr, OtherBind, vars, clientVars, deviceVars
<1> QED BY <1>4, <1>6, <1>7, <1>8, <1>9 DEF Next, WorkerStep

\* Allocation::drop, Submission::drop and retain_until_complete: memory without
\* a view is on its way to be freed, or held by a client on its way to end; it is
\* held for good only by a forgotten future, or after a fault or a deferred error.
THEOREM DropIsNeverLost == Spec => []FreeOwed
<1>1. Init => OwedInv
  BY DEF Init, OwedInv, HeldInv, LiveInv, LeakInv, DrainInv
<1>2. IndInv /\ OwedInv /\ [Next]_vars => OwedInv'
  BY HeldStep, LiveStep, LeakStep, DrainStep DEF IndInv, OwedInv
<1>3. ASSUME IndInv, OwedInv, NEW a \in Allocs \ views
      PROVE  \/ mem[a] \in {"dying", "freed"}
             \/ mem[a] = "leaked" /\ (down \/ deferred > 0)
             \/ \E c \in Holders(a, leases) :
                  \/ stage[c] = "leaked" /\ (down \/ deferred > 0)
                  \/ stage[c] = "forgotten"
                  \/ Ending(c)
  <2>1. CASE mem[a] = "leaked"
    BY <1>3, <2>1 DEF OwedInv, LeakInv
  <2>2. CASE mem[a] = "live"
    <3>1. PICK c \in Holders(a, leases) : TRUE
      BY <1>3, <2>2 DEF OwedInv, LiveInv
    <3>2. c \in Clients /\ leases[c] # {}
      BY <3>1 DEF Holders
    <3>3. stage[c] \notin {"new", "gone"}
      BY <1>3, <3>2 DEF OwedInv, HeldInv
    <3>4. ASSUME stage[c] = "retiring", ~down, queue[stream[c]] = <<>> PROVE event[c] = 0
      <4>1. event[c] <= Len(queue[stream[c]]) /\ event[c] \in Nat
        BY <1>3, <3>2, <3>4 DEF IndInv, TypeOK, OwedInv, DrainInv
      <4>2. Len(queue[stream[c]]) = 0
        BY <3>4
      <4> QED BY <4>1, <4>2
    <3>5. stage[c] = "leaked" => down \/ deferred > 0
      BY <1>3, <3>2 DEF OwedInv, LeakInv
    <3> QED BY <3>1, <3>3, <3>4, <3>5 DEF Ending
  <2> QED BY <1>3, <2>1, <2>2 DEF IndInv, TypeOK
<1>4. IndInv /\ OwedInv => FreeOwed
  BY <1>3 DEF FreeOwed
<1> QED BY <1>1, <1>2, <1>4, Invariance, PTL DEF Spec
=============================================================================
