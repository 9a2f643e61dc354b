------------------------------ MODULE SlotTable ------------------------------
(***************************************************************************)
(* The completion-slot protocol of cuda-async/src/slot_table.rs, with its  *)
(* producer (reactor::register, one process per registration), the device  *)
(* that writes the completion flags, and its single consumer (the scanner, *)
(* scan_inner).  Every atomic access of the code is an action of its own.  *)
(* The free list is kept as the number of copies of each index in the Vec: *)
(* its LIFO order is abstracted, a duplicated index is not.                *)
(***************************************************************************)
EXTENDS Integers, FiniteSets

CONSTANTS
  Tokens,      \* registrations; a token is the payload it publishes
  NumSlots,    \* SlotTable::num_slots (NUM_SLOTS = 1024 in the reactor)
  WordBits,    \* slots per word of the active bitmap (64 in the code)
  None         \* Option::None of a payload cell, of a slot not claimed yet

ASSUME SlotAssumption == NumSlots \in Nat \ {0} /\ WordBits \in Nat \ {0}
ASSUME NoneAssumption == None \notin Tokens /\ None \notin Int
ASSUME TokensAssumption == IsFiniteSet(Tokens)

Slots == 0 .. NumSlots - 1
NumWords == (NumSlots + WordBits - 1) \div WordBits
WordSlots(w) == {s \in Slots : s \div WordBits = w}

VARIABLES
  flag,      \* FlagArray: pinned completion flags
  active,    \* the bitmap, as the set of slots whose bit is set
  payload,   \* SlotCell contents
  free,      \* free list: copies of each index in the Vec
  nArmed,    \* n_armed
  reg,       \* where each register() call is
  slot,      \* the slot a register() call claimed
  wasIdle,   \* what publish() returned to a register() call
  write,     \* the device flag write of a registration
  scan,      \* where the scan pass is
  probing,   \* the pass is scan_probing, not scan_once
  word,      \* scan_inner: word
  bits,      \* scan_inner: bits still to visit in the loaded word
  cur,       \* scan_inner: slot
  landed,    \* scan_inner: landed
  retired,   \* scan_inner: retired
  woken,     \* how often a token was pushed to `woken`
  dead       \* how often a token was pushed to `dead`

tableVars == <<flag, active, payload, free, nArmed>>
regVars == <<reg, slot, wasIdle>>
scanVars == <<scan, probing, word, bits, cur, landed, retired>>
vars == <<tableVars, regVars, write, scanVars, woken, dead>>

RegStates == {"start", "claimed", "reset", "releasing", "armed", "paid",
              "counted", "published", "failed"}
ScanStates == {"idle", "words", "bits", "probe", "clear", "take",
               "recycle", "count"}

\* A register() call that owns its slot, up to the moment the scanner takes
\* the payload.
Holds(t) == /\ reg[t] \in RegStates \ {"start", "failed"}
            /\ woken[t] + dead[t] = 0

TypeOK ==
  /\ flag \in [Slots -> {0, 1}]
  /\ active \in SUBSET Slots
  /\ payload \in [Slots -> Tokens \cup {None}]
  /\ free \in [Slots -> Nat]
  /\ nArmed \in Int
  /\ reg \in [Tokens -> RegStates]
  /\ slot \in [Tokens -> Slots \cup {None}]
  /\ wasIdle \in [Tokens -> BOOLEAN]
  /\ write \in [Tokens -> {"none", "queued", "landed", "lost"}]
  /\ scan \in ScanStates
  /\ probing \in BOOLEAN
  /\ word \in 0 .. NumWords
  /\ bits \in SUBSET Slots
  /\ cur \in Slots
  /\ landed \in BOOLEAN
  /\ retired \in SUBSET Slots
  /\ woken \in [Tokens -> Nat]
  /\ dead \in [Tokens -> Nat]

Init ==
  /\ flag = [s \in Slots |-> 0]
  /\ active = {}
  /\ payload = [s \in Slots |-> None]
  /\ free = [s \in Slots |-> 1]
  /\ nArmed = 0
  /\ reg = [t \in Tokens |-> "start"]
  /\ slot = [t \in Tokens |-> None]
  /\ wasIdle = [t \in Tokens |-> FALSE]
  /\ write = [t \in Tokens |-> "none"]
  /\ scan = "idle" /\ probing = FALSE /\ word = 0 /\ bits = {} /\ cur = 0
  /\ landed = FALSE /\ retired = {}
  /\ woken = [t \in Tokens |-> 0]
  /\ dead = [t \in Tokens |-> 0]

-----------------------------------------------------------------------------
(* register(): claim, reset_flag, the device write, publish.               *)

RegStep(t, from, to) == reg[t] = from /\ reg' = [reg EXCEPT ![t] = to]

\* claim(): pop an index.
Claim(t, s) ==
  /\ RegStep(t, "start", "claimed")
  /\ free[s] > 0
  /\ free' = [free EXCEPT ![s] = @ - 1]
  /\ slot' = [slot EXCEPT ![t] = s]
  /\ UNCHANGED <<flag, active, payload, nArmed, wasIdle, write, scanVars,
                 woken, dead>>

\* claim() on an empty free list: register() returns Err.
ClaimExhausted(t) ==
  /\ RegStep(t, "start", "failed")
  /\ \A s \in Slots : free[s] = 0
  /\ UNCHANGED <<tableVars, slot, wasIdle, write, scanVars, woken, dead>>

\* Mutant: the flag of the previous owner is left as it is.
ResetFlagSkipped(t) ==
  /\ RegStep(t, "claimed", "reset")
  /\ UNCHANGED <<tableVars, slot, wasIdle, write, scanVars, woken, dead>>

\* reset_flag(slot).
ResetFlag(t) ==
  /\ RegStep(t, "claimed", "reset")
  /\ flag' = [flag EXCEPT ![slot[t]] = 0]
  /\ UNCHANGED <<active, payload, free, nArmed, slot, wasIdle, write,
                 scanVars, woken, dead>>

\* Mutant: the bit is shown before the payload is written.
ArmShows(t) ==
  /\ RegStep(t, "reset", "armed")
  /\ write' = [write EXCEPT ![t] = "queued"]
  /\ active' = active \cup {slot[t]}
  /\ UNCHANGED <<flag, payload, free, nArmed, slot, wasIdle, scanVars, woken,
                 dead>>

\* cuStreamWriteValue32 accepted: the device write is queued.
Arm(t) ==
  /\ RegStep(t, "reset", "armed")
  /\ write' = [write EXCEPT ![t] = "queued"]
  /\ UNCHANGED <<tableVars, slot, wasIdle, scanVars, woken, dead>>

\* cuStreamWriteValue32 refused.
ArmRefused(t) ==
  /\ RegStep(t, "reset", "releasing")
  /\ UNCHANGED <<tableVars, slot, wasIdle, write, scanVars, woken, dead>>

\* Mutant: a refused registration keeps its index.
ReleaseLeaks(t) ==
  /\ RegStep(t, "releasing", "failed")
  /\ UNCHANGED <<tableVars, slot, wasIdle, write, scanVars, woken, dead>>

\* release(slot): push the index back; register() returns Err.
Release(t) ==
  /\ RegStep(t, "releasing", "failed")
  /\ free' = [free EXCEPT ![slot[t]] = @ + 1]
  /\ UNCHANGED <<flag, active, payload, nArmed, slot, wasIdle, write,
                 scanVars, woken, dead>>

\* Mutant: the bit is shown before the slot is counted.
WritePayloadShows(t) ==
  /\ RegStep(t, "armed", "paid")
  /\ payload' = [payload EXCEPT ![slot[t]] = t]
  /\ active' = active \cup {slot[t]}
  /\ UNCHANGED <<flag, free, nArmed, slot, wasIdle, write, scanVars, woken,
                 dead>>

\* publish(): *p = Some(waker).
WritePayload(t) ==
  /\ RegStep(t, "armed", "paid")
  /\ payload' = [payload EXCEPT ![slot[t]] = t]
  /\ UNCHANGED <<flag, active, free, nArmed, slot, wasIdle, write, scanVars,
                 woken, dead>>

\* publish(): n_armed.fetch_add(1) == 0.
CountArmed(t) ==
  /\ RegStep(t, "paid", "counted")
  /\ nArmed' = nArmed + 1
  /\ wasIdle' = [wasIdle EXCEPT ![t] = (nArmed = 0)]
  /\ UNCHANGED <<flag, active, payload, free, slot, write, scanVars, woken,
                 dead>>

\* publish(): active.fetch_or(bit).
SetBit(t) ==
  /\ RegStep(t, "counted", "published")
  /\ active' = active \cup {slot[t]}
  /\ UNCHANGED <<flag, payload, free, nArmed, slot, wasIdle, write, scanVars,
                 woken, dead>>

RegisterStep(t) ==
  \/ \E s \in Slots : Claim(t, s)
  \/ ClaimExhausted(t)
  \/ ResetFlag(t)
  \/ Arm(t)
  \/ ArmRefused(t)
  \/ Release(t)
  \/ WritePayload(t)
  \/ CountArmed(t)
  \/ SetBit(t)

-----------------------------------------------------------------------------
(* The device.                                                             *)

\* The queued write executes.
FlagWrite(t) ==
  /\ write[t] = "queued"
  /\ write' = [write EXCEPT ![t] = "landed"]
  /\ flag' = [flag EXCEPT ![slot[t]] = 1]
  /\ UNCHANGED <<active, payload, free, nArmed, regVars, scanVars, woken,
                 dead>>

\* A fault discards queued writes for good.
FlagWritesLost(lost) ==
  /\ \A t \in lost : write[t] = "queued"
  /\ write' = [t \in Tokens |-> IF t \in lost THEN "lost" ELSE write[t]]
  /\ UNCHANGED <<tableVars, regVars, scanVars, woken, dead>>

-----------------------------------------------------------------------------
(* scan_inner.                                                             *)

\* scan_once (p = FALSE) or scan_probing (p = TRUE) is called.
StartPass(p) ==
  /\ scan = "idle"
  /\ scan' = "words" /\ probing' = p /\ word' = 0 /\ retired' = {}
  /\ UNCHANGED <<bits, cur, landed, tableVars, regVars, write, woken, dead>>

\* Mutant: one word too many.
LoadWordPast ==
  /\ scan = "words" /\ word <= NumWords
  /\ bits' = active \cap WordSlots(word)
  /\ scan' = "bits"
  /\ UNCHANGED <<probing, word, cur, landed, retired, tableVars, regVars,
                 write, woken, dead>>

\* Load one word of the bitmap.
LoadWord ==
  /\ scan = "words" /\ word < NumWords
  /\ bits' = active \cap WordSlots(word)
  /\ scan' = "bits"
  /\ UNCHANGED <<probing, word, cur, landed, retired, tableVars, regVars,
                 write, woken, dead>>

WordDone ==
  /\ scan = "bits" /\ bits = {}
  /\ scan' = "words" /\ word' = word + 1
  /\ UNCHANGED <<probing, bits, cur, landed, retired, tableVars, regVars,
                 write, woken, dead>>

\* Lowest remaining bit: load its flag.
LoadFlag(s) ==
  /\ scan = "bits" /\ s \in bits /\ \A x \in bits : s <= x
  /\ cur' = s
  /\ bits' = bits \ {s}
  /\ landed' = (flag[s] = 1)
  /\ scan' = CASE flag[s] = 1             -> "clear"
               [] flag[s] = 0 /\ probing  -> "probe"
               [] flag[s] = 0 /\ ~probing -> "bits"
  /\ UNCHANGED <<probing, word, retired, tableVars, regVars, write, woken,
                 dead>>

\* The is_dead predicate answers for the payload of the current slot.
ProbeSlot(isDead) ==
  /\ scan = "probe"
  /\ scan' = IF isDead /\ payload[cur] # None THEN "clear" ELSE "bits"
  /\ UNCHANGED <<probing, word, bits, cur, landed, retired, tableVars,
                 regVars, write, woken, dead>>

\* active.fetch_and(!bit).
ClearBit ==
  /\ scan = "clear"
  /\ active' = active \ {cur}
  /\ scan' = "take"
  /\ UNCHANGED <<flag, payload, free, nArmed, probing, word, bits, cur,
                 landed, retired, regVars, write, woken, dead>>

\* Mutant: a landed payload of a probing pass goes on both lists.
TakePayloadTwice ==
  /\ scan = "take"
  /\ LET t == payload[cur] IN
       IF t = None THEN UNCHANGED <<woken, dead>>
       ELSE /\ woken' = [woken EXCEPT ![t] = IF landed THEN @ + 1 ELSE @]
            /\ dead' = [dead EXCEPT ![t] = IF probing THEN @ + 1 ELSE @]
  /\ payload' = [payload EXCEPT ![cur] = None]
  /\ retired' = retired \cup {cur}
  /\ scan' = "bits"
  /\ UNCHANGED <<flag, active, free, nArmed, probing, word, bits, cur,
                 landed, regVars, write>>

\* Mutant: the index goes to the free list now and again after the pass.
TakePayloadFrees ==
  /\ scan = "take"
  /\ LET t == payload[cur] IN
       IF t = None THEN UNCHANGED <<woken, dead>>
       ELSE IF landed
         THEN woken' = [woken EXCEPT ![t] = @ + 1] /\ UNCHANGED dead
         ELSE dead' = [dead EXCEPT ![t] = @ + 1] /\ UNCHANGED woken
  /\ payload' = [payload EXCEPT ![cur] = None]
  /\ free' = [free EXCEPT ![cur] = @ + 1]
  /\ retired' = retired \cup {cur}
  /\ scan' = "bits"
  /\ UNCHANGED <<flag, active, nArmed, probing, word, bits, cur, landed,
                 regVars, write>>

\* Take the payload and push it to `woken` or `dead`.
TakePayload ==
  /\ scan = "take"
  /\ LET t == payload[cur] IN
       IF t = None THEN UNCHANGED <<woken, dead>>
       ELSE IF landed
         THEN woken' = [woken EXCEPT ![t] = @ + 1] /\ UNCHANGED dead
         ELSE dead' = [dead EXCEPT ![t] = @ + 1] /\ UNCHANGED woken
  /\ payload' = [payload EXCEPT ![cur] = None]
  /\ retired' = retired \cup {cur}
  /\ scan' = "bits"
  /\ UNCHANGED <<flag, active, free, nArmed, probing, word, bits, cur,
                 landed, regVars, write>>

WordsDone ==
  /\ scan = "words" /\ word = NumWords
  /\ scan' = IF retired = {} THEN "idle" ELSE "recycle"
  /\ UNCHANGED <<probing, word, bits, cur, landed, retired, tableVars,
                 regVars, write, woken, dead>>

\* lock_free().append(retired).
Recycle ==
  /\ scan = "recycle"
  /\ free' = [s \in Slots |-> IF s \in retired THEN free[s] + 1 ELSE free[s]]
  /\ scan' = "count"
  /\ UNCHANGED <<flag, active, payload, nArmed, probing, word, bits, cur,
                 landed, retired, regVars, write, woken, dead>>

\* n_armed.fetch_sub(n).
CountRetired ==
  /\ scan = "count"
  /\ nArmed' = nArmed - Cardinality(retired)
  /\ scan' = "idle"
  /\ retired' = {}
  /\ UNCHANGED <<flag, active, payload, free, probing, word, bits, cur,
                 landed, regVars, write, woken, dead>>

\* The steps of a pass other than its start and the probe's answer.
PassStep ==
  \/ LoadWord
  \/ WordDone
  \/ \E s \in Slots : LoadFlag(s)
  \/ ClearBit
  \/ TakePayload
  \/ WordsDone
  \/ Recycle
  \/ CountRetired

\* The contract of is_dead: only a payload whose write can no longer land is
\* dead.  It may have landed since the flag was loaded.
ProbeDead ==
  /\ payload[cur] # None
  /\ write[payload[cur]] \in {"landed", "lost"}
  /\ ProbeSlot(TRUE)

ProbeAlive == ProbeSlot(FALSE)

ScannerStep ==
  (\E p \in BOOLEAN : StartPass(p)) \/ PassStep \/ ProbeDead \/ ProbeAlive

Next ==
  \/ \E t \in Tokens : RegisterStep(t) \/ FlagWrite(t)
  \/ \E lost \in SUBSET Tokens : FlagWritesLost(lost)
  \/ ScannerStep

Spec == Init /\ [][Next]_vars

-----------------------------------------------------------------------------
(* Safety.                                                                 *)

\* Slots whose payload was taken and whose index is not on the free list yet.
Awaiting == IF scan = "count" THEN {} ELSE retired

\* An index is in exactly one place: once on the free list, or with one
\* registration, or on the scanner's retired list (claim / release /
\* scan_inner's append).  A duplicate would hand one cell to two producers.
SlotOwnedOnce ==
  /\ \A s \in Slots : free[s] \in {0, 1}
  /\ \A s \in Slots : free[s] = 1 =>
       s \notin Awaiting /\ \A t \in Tokens : ~(Holds(t) /\ slot[t] = s)
  /\ \A s \in Slots : free[s] = 0 =>
       s \in Awaiting \/ \E t \in Tokens : Holds(t) /\ slot[t] = s
  /\ \A t \in Tokens : Holds(t) => slot[t] \notin Awaiting
  /\ \A t, u \in Tokens : Holds(t) /\ Holds(u) /\ slot[t] = slot[u] => t = u

\* A registration is signalled complete only if its own device write landed:
\* neither the flag left by the slot's previous owner nor a late write for it
\* is taken for this one's (reset_flag before the device write).
SignalOnlyIfLanded == \A t \in Tokens : woken[t] > 0 => write[t] = "landed"

\* A payload leaves the table at most once, as woken or as dead, never both.
DeliveredOnce == \A t \in Tokens : woken[t] + dead[t] <= 1

\* The UnsafeCell discipline in the header of slot_table.rs: while the scanner
\* looks at or takes a payload, no producer is about to write that cell.
PayloadExclusive ==
  scan \in {"probe", "take"} =>
    \A t \in Tokens : ~(reg[t] = "armed" /\ slot[t] = cur)

\* debug_assert!(prev >= n) of scan_inner: publish counts before it shows the
\* bit, so the subtraction never underflows.
NoUnderflow == scan = "count" => nArmed >= Cardinality(retired)

\* is_idle(), the scanner's park gate: when n_armed reads 0 no slot is visible
\* in the bitmap and no payload is waiting for the scanner.
IdleGate ==
  nArmed = 0 => active = {} /\ \A t \in Tokens : ~(Holds(t) /\ reg[t] = "published")

\* No armed slot is forgotten: until its payload is taken, the bit of a
\* published registration is set for the scanner to find.
PublishedVisible ==
  \A t \in Tokens : Holds(t) /\ reg[t] = "published" =>
    slot[t] \in active \/ (scan = "take" /\ cur = slot[t])

-----------------------------------------------------------------------------
(* The inductive invariant behind the safety properties.                   *)

\* How far a registration, its device write and its delivery have come.
StageInv ==
  \A t \in Tokens :
    /\ reg[t] \notin {"start", "failed"} => slot[t] \in Slots
    /\ write[t] = "none" <=>
         reg[t] \notin {"armed", "paid", "counted", "published"}
    /\ woken[t] > 0 \/ dead[t] > 0 => reg[t] = "published"
    /\ woken[t] + dead[t] <= 1

\* A cell holds exactly the payload of the registration that owns its slot.
PayloadInv ==
  /\ \A s \in Slots : payload[s] # None =>
       /\ Holds(payload[s])
       /\ slot[payload[s]] = s
       /\ reg[payload[s]] \in {"paid", "counted", "published"}
  /\ \A t \in Tokens :
       Holds(t) /\ reg[t] \in {"paid", "counted", "published"} =>
         payload[slot[t]] = t

\* The bitmap shows only published payloads, and what the pass still has to
\* visit is in the bitmap.
ScanInv ==
  /\ \A s \in active : payload[s] # None /\ reg[payload[s]] = "published"
  /\ bits \subseteq active
  /\ scan \in {"probe", "clear"} => cur \in active
  /\ scan = "take" =>
       cur \notin active /\ payload[cur] # None /\ reg[payload[cur]] = "published"
  /\ scan \in {"probe", "clear", "take"} => cur \notin bits
  /\ scan = "probe" => ~landed
  /\ scan = "idle" => retired = {}
  /\ scan \in {"bits", "probe", "clear", "take"} => word < NumWords

Counted == {t \in Tokens : Holds(t) /\ reg[t] \in {"counted", "published"}}

CountInv == nArmed = Cardinality(Counted) + Cardinality(retired)

\* The table's own discipline, which every step of register(), of the device
\* and of scan_inner preserves, whatever is_dead answers.
CoreInv ==
  /\ TypeOK /\ StageInv /\ SlotOwnedOnce /\ PayloadInv /\ ScanInv
  /\ PublishedVisible

TableInv == CoreInv /\ CountInv

\* From reset_flag on, a raised flag is the owner's own write.
FlagInv ==
  \A t \in Tokens :
    Holds(t) /\ reg[t] # "claimed" /\ flag[slot[t]] = 1 => write[t] = "landed"

\* What is being retired, and what was, is settled on the device: here is_dead
\* has to keep its contract.
SettledInv ==
  /\ scan \in {"clear", "take"} =>
       write[payload[cur]] \in IF landed THEN {"landed"} ELSE {"landed", "lost"}
  /\ \A t \in Tokens : dead[t] > 0 => write[t] \in {"landed", "lost"}
  /\ SignalOnlyIfLanded

TruthInv == FlagInv /\ SettledInv

IndInv == TableInv /\ TruthInv

-----------------------------------------------------------------------------
(* Liveness, under the fairness of the reactor that drives the table.      *)

\* Whatever was registered, refused or faulted, the pool ends up full again.
PoolRefills == <>[](\A s \in Slots : free[s] = 1)
=============================================================================
