-------------------------- MODULE SlotTable_proofs --------------------------
(***************************************************************************)
(* Proofs about SlotTable for every number of slots, word width and finite *)
(* set of registrations.  One lemma per action shows that it preserves     *)
(* CoreInv, whatever is_dead answers; the armed counter is treated after   *)
(* that, because it needs the theorems about cardinality, and then what    *)
(* the flags and the notices say of the device.                            *)
(***************************************************************************)
EXTENDS SlotTable, FiniteSetTheorems, TLAPS

\* A step of the protocol, or a probe that breaks the contract of is_dead.
TableNext == Next \/ ProbeSlot(TRUE)

\* The bitmap has a natural number of words.
LEMMA NumWordsNat == NumWords \in Nat
BY SlotAssumption, SMTT(30) DEF NumWords

\* Whoever owns a slot has claimed one.
LEMMA HolderHasSlot ==
  ASSUME TypeOK, StageInv, NEW t \in Tokens, Holds(t)
  PROVE  reg[t] \notin {"start", "failed"} /\ slot[t] \in Slots
BY DEF TypeOK, StageInv, Holds, RegStates

\* Up to its publication a registration owns its slot.
LEMMA UnpublishedHolds ==
  ASSUME TypeOK, StageInv, NEW t \in Tokens,
         reg[t] \in {"claimed", "reset", "releasing", "armed", "paid", "counted"}
  PROVE  Holds(t) /\ slot[t] \in Slots
<1>1. ~(woken[t] > 0) /\ ~(dead[t] > 0)
  BY DEF StageInv
<1>2. woken[t] = 0 /\ dead[t] = 0
  BY <1>1 DEF TypeOK
<1> QED BY <1>2 DEF StageInv, Holds, RegStates

\* claim() hands a slot to the registration.
LEMMA ClaimStep ==
  ASSUME CoreInv, NEW t \in Tokens, NEW s \in Slots, Claim(t, s)
  PROVE  CoreInv'
<1> USE SlotAssumption, NoneAssumption DEF CoreInv, Slots, Claim, RegStep,
         tableVars, regVars, scanVars
<1>1. \A u \in Tokens : Holds(u)' <=> u = t \/ Holds(u)
  BY DEF Holds, StageInv, TypeOK, RegStates, PayloadInv, ScanInv
<1>2. \A u \in Tokens : Holds(u) => slot[u] \in Slots /\ reg[u] \notin {"start", "failed"}
  BY HolderHasSlot
<1>3. TypeOK'
  <2>1. free' \in [Slots -> Nat]
    BY DEF TypeOK
  <2>2. reg' \in [Tokens -> RegStates] /\ slot' \in [Tokens -> Slots \cup {None}]
    BY DEF TypeOK, RegStates
  <2> QED BY <2>1, <2>2 DEF TypeOK
<1>4. StageInv'
  <2>1. TypeOK /\ StageInv /\ reg[t] = "start"
    OBVIOUS
  <2>2. \A u \in Tokens \ {t} : reg'[u] = reg[u] /\ slot'[u] = slot[u]
    BY DEF TypeOK
  <2>3. reg'[t] = "claimed" /\ slot'[t] = s
    BY DEF TypeOK
  <2> QED BY <2>1, <2>2, <2>3 DEF StageInv
<1>5. SlotOwnedOnce'
  BY <1>1, <1>2 DEF SlotOwnedOnce, Awaiting, TypeOK, ScanInv, PayloadInv
<1>6. PayloadInv'
  BY <1>1, <1>2 DEF PayloadInv, TypeOK, SlotOwnedOnce, ScanInv
<1>7. ScanInv'
  BY <1>1, <1>2, NumWordsNat DEF ScanInv, PayloadInv, TypeOK, WordSlots
<1>8. PublishedVisible'
  BY <1>1, <1>2 DEF PublishedVisible, PayloadInv, ScanInv, TypeOK
<1> QED BY <1>3, <1>4, <1>5, <1>6, <1>7, <1>8

\* An exhausted pool changes no owner.
LEMMA ClaimExhaustedStep ==
  ASSUME CoreInv, NEW t \in Tokens, ClaimExhausted(t)
  PROVE  CoreInv'
<1> USE SlotAssumption, NoneAssumption DEF CoreInv, Slots, ClaimExhausted, RegStep,
         tableVars, regVars, scanVars
<1>1. \A u \in Tokens : Holds(u)' <=> Holds(u)
  BY DEF Holds, StageInv, TypeOK, RegStates, PayloadInv, ScanInv
<1>2. \A u \in Tokens : Holds(u) => slot[u] \in Slots /\ reg[u] \notin {"start", "failed"}
  BY HolderHasSlot
<1>3. TypeOK'
  BY NumWordsNat DEF TypeOK, RegStates, ScanStates, ScanInv
<1>4. StageInv'
  BY DEF StageInv, TypeOK, RegStates, ScanInv, PayloadInv
<1>5. SlotOwnedOnce'
  BY <1>1, <1>2 DEF SlotOwnedOnce, Awaiting, TypeOK, ScanInv, PayloadInv
<1>6. PayloadInv'
  BY <1>1, <1>2 DEF PayloadInv, TypeOK, SlotOwnedOnce, ScanInv
<1>7. ScanInv'
  BY <1>1, <1>2, NumWordsNat DEF ScanInv, PayloadInv, TypeOK, WordSlots
<1>8. PublishedVisible'
  BY <1>1, <1>2 DEF PublishedVisible, PayloadInv, ScanInv, TypeOK
<1> QED BY <1>3, <1>4, <1>5, <1>6, <1>7, <1>8

\* reset_flag() touches only the owner's flag.
LEMMA ResetFlagStep ==
  ASSUME CoreInv, NEW t \in Tokens, ResetFlag(t)
  PROVE  CoreInv'
<1> USE SlotAssumption, NoneAssumption DEF CoreInv, Slots, ResetFlag, RegStep,
         tableVars, regVars, scanVars
<1>1. \A u \in Tokens : Holds(u)' <=> Holds(u)
  BY DEF Holds, StageInv, TypeOK, RegStates, PayloadInv, ScanInv
<1>2. \A u \in Tokens : Holds(u) => slot[u] \in Slots /\ reg[u] \notin {"start", "failed"}
  BY HolderHasSlot
<1>3. TypeOK'
  BY NumWordsNat DEF TypeOK, RegStates, ScanStates, ScanInv
<1>4. StageInv'
  BY DEF StageInv, TypeOK, RegStates, ScanInv, PayloadInv
<1>5. SlotOwnedOnce'
  BY <1>1, <1>2 DEF SlotOwnedOnce, Awaiting, TypeOK, ScanInv, PayloadInv
<1>6. PayloadInv'
  BY <1>1, <1>2 DEF PayloadInv, TypeOK, SlotOwnedOnce, ScanInv
<1>7. ScanInv'
  BY <1>1, <1>2, NumWordsNat DEF ScanInv, PayloadInv, TypeOK, WordSlots
<1>8. PublishedVisible'
  BY <1>1, <1>2 DEF PublishedVisible, PayloadInv, ScanInv, TypeOK
<1> QED BY <1>3, <1>4, <1>5, <1>6, <1>7, <1>8

\* The queued device write belongs to the owner.
LEMMA ArmStep ==
  ASSUME CoreInv, NEW t \in Tokens, Arm(t)
  PROVE  CoreInv'
<1> USE SlotAssumption, NoneAssumption DEF CoreInv, Slots, Arm, RegStep,
         tableVars, regVars, scanVars
<1>1. \A u \in Tokens : Holds(u)' <=> Holds(u)
  BY DEF Holds, StageInv, TypeOK, RegStates, PayloadInv, ScanInv
<1>2. \A u \in Tokens : Holds(u) => slot[u] \in Slots /\ reg[u] \notin {"start", "failed"}
  BY HolderHasSlot
<1>3. TypeOK'
  BY NumWordsNat DEF TypeOK, RegStates, ScanStates, ScanInv
<1>4. StageInv'
  BY DEF StageInv, TypeOK, RegStates, ScanInv, PayloadInv
<1>5. SlotOwnedOnce'
  BY <1>1, <1>2 DEF SlotOwnedOnce, Awaiting, TypeOK, ScanInv, PayloadInv
<1>6. PayloadInv'
  BY <1>1, <1>2 DEF PayloadInv, TypeOK, SlotOwnedOnce, ScanInv
<1>7. ScanInv'
  BY <1>1, <1>2, NumWordsNat DEF ScanInv, PayloadInv, TypeOK, WordSlots
<1>8. PublishedVisible'
  BY <1>1, <1>2 DEF PublishedVisible, PayloadInv, ScanInv, TypeOK
<1> QED BY <1>3, <1>4, <1>5, <1>6, <1>7, <1>8

\* A refused device write leaves the slot with its owner.
LEMMA ArmRefusedStep ==
  ASSUME CoreInv, NEW t \in Tokens, ArmRefused(t)
  PROVE  CoreInv'
<1> USE SlotAssumption, NoneAssumption DEF CoreInv, Slots, ArmRefused, RegStep,
         tableVars, regVars, scanVars
<1>1. \A u \in Tokens : Holds(u)' <=> Holds(u)
  BY DEF Holds, StageInv, TypeOK, RegStates, PayloadInv, ScanInv
<1>2. \A u \in Tokens : Holds(u) => slot[u] \in Slots /\ reg[u] \notin {"start", "failed"}
  BY HolderHasSlot
<1>3. TypeOK'
  BY NumWordsNat DEF TypeOK, RegStates, ScanStates, ScanInv
<1>4. StageInv'
  BY DEF StageInv, TypeOK, RegStates, ScanInv, PayloadInv
<1>5. SlotOwnedOnce'
  BY <1>1, <1>2 DEF SlotOwnedOnce, Awaiting, TypeOK, ScanInv, PayloadInv
<1>6. PayloadInv'
  BY <1>1, <1>2 DEF PayloadInv, TypeOK, SlotOwnedOnce, ScanInv
<1>7. ScanInv'
  BY <1>1, <1>2, NumWordsNat DEF ScanInv, PayloadInv, TypeOK, WordSlots
<1>8. PublishedVisible'
  BY <1>1, <1>2 DEF PublishedVisible, PayloadInv, ScanInv, TypeOK
<1> QED BY <1>3, <1>4, <1>5, <1>6, <1>7, <1>8

\* release() returns the owner's index.
LEMMA ReleaseStep ==
  ASSUME CoreInv, NEW t \in Tokens, Release(t)
  PROVE  CoreInv'
<1> USE SlotAssumption, NoneAssumption DEF CoreInv, Slots, Release, RegStep,
         tableVars, regVars, scanVars
<1>1. \A u \in Tokens : Holds(u)' <=> u # t /\ Holds(u)
  BY DEF Holds, StageInv, TypeOK, RegStates, PayloadInv, ScanInv
<1>2. \A u \in Tokens : Holds(u) => slot[u] \in Slots /\ reg[u] \notin {"start", "failed"}
  BY HolderHasSlot
<1>3. TypeOK'
  <2>1. slot[t] \in Slots
    BY DEF StageInv
  <2>2. free' \in [Slots -> Nat]
    BY <2>1 DEF TypeOK
  <2>3. reg' \in [Tokens -> RegStates]
    BY DEF TypeOK, RegStates
  <2> QED BY <2>2, <2>3 DEF TypeOK
<1>4. StageInv'
  BY DEF StageInv, TypeOK, RegStates, ScanInv, PayloadInv
<1>5. SlotOwnedOnce'
  <2>1. Holds(t) /\ slot[t] \in Slots
    BY UnpublishedHolds
  <2>2. free[slot[t]] = 0
    BY <2>1 DEF SlotOwnedOnce
  <2>3. free' = [free EXCEPT ![slot[t]] = 1]
    BY <2>1, <2>2 DEF TypeOK
  <2>4. \A s \in Slots : free'[s] = IF s = slot[t] THEN 1 ELSE free[s]
    BY <2>1, <2>3 DEF TypeOK
  <2>5. Awaiting' = Awaiting /\ slot' = slot
    BY DEF Awaiting
  <2> QED BY <1>1, <2>1, <2>4, <2>5 DEF SlotOwnedOnce
<1>6. PayloadInv'
  BY <1>1, <1>2 DEF PayloadInv, TypeOK, SlotOwnedOnce, ScanInv
<1>7. ScanInv'
  BY <1>1, <1>2, NumWordsNat DEF ScanInv, PayloadInv, TypeOK, WordSlots
<1>8. PublishedVisible'
  BY <1>1, <1>2 DEF PublishedVisible, PayloadInv, ScanInv, TypeOK
<1> QED BY <1>3, <1>4, <1>5, <1>6, <1>7, <1>8

\* The owner fills its own, empty cell.
LEMMA WritePayloadStep ==
  ASSUME CoreInv, NEW t \in Tokens, WritePayload(t)
  PROVE  CoreInv'
<1> USE SlotAssumption, NoneAssumption DEF CoreInv, Slots, WritePayload, RegStep,
         tableVars, regVars, scanVars
<1>1. \A u \in Tokens : Holds(u)' <=> Holds(u)
  BY DEF Holds, StageInv, TypeOK, RegStates, PayloadInv, ScanInv
<1>2. \A u \in Tokens : Holds(u) => slot[u] \in Slots /\ reg[u] \notin {"start", "failed"}
  BY HolderHasSlot
<1>3. TypeOK'
  BY NumWordsNat DEF TypeOK, RegStates, ScanStates, ScanInv
<1>4. StageInv'
  BY DEF StageInv, TypeOK, RegStates, ScanInv, PayloadInv
<1>5. SlotOwnedOnce'
  BY <1>1, <1>2 DEF SlotOwnedOnce, Awaiting, TypeOK, ScanInv, PayloadInv
<1>6. PayloadInv'
  <2>1. Holds(t) /\ slot[t] \in Slots
    BY UnpublishedHolds
  <2>2. \A s \in Slots : payload'[s] = IF s = slot[t] THEN t ELSE payload[s]
    BY <2>1 DEF TypeOK
  <2>3. \A u \in Tokens : reg'[u] = IF u = t THEN "paid" ELSE reg[u]
    BY DEF TypeOK
  <2>4. \A u \in Tokens : Holds(u) /\ u # t => slot[u] # slot[t]
    BY <2>1 DEF SlotOwnedOnce
  <2>5. \A s \in Slots : payload[s] # None => payload[s] \in Tokens
    BY DEF TypeOK
  <2> QED BY <1>1, <1>2, <2>1, <2>2, <2>3, <2>4, <2>5 DEF PayloadInv
<1>7. ScanInv'
  <2>1. Holds(t) /\ slot[t] \in Slots
    BY UnpublishedHolds
  <2>2. \A s \in Slots : payload[s] # None => s # slot[t]
    <3> SUFFICES ASSUME payload[slot[t]] # None PROVE FALSE
      BY <2>1
    <3>1. payload[slot[t]] \in Tokens
      BY <2>1 DEF TypeOK
    <3>2. payload[slot[t]] = t
      BY <2>1, <3>1 DEF PayloadInv, SlotOwnedOnce
    <3> QED BY <2>1, <3>2 DEF PayloadInv
  <2>3. \A s \in Slots : payload[s] # None =>
          payload'[s] = payload[s] /\ reg'[payload[s]] = reg[payload[s]]
    BY <2>1, <2>2 DEF TypeOK, PayloadInv
  <2>4. active \subseteq Slots /\ cur \in Slots
    BY DEF TypeOK
  <2> QED BY <2>3, <2>4 DEF ScanInv
<1>8. PublishedVisible'
  BY <1>1, <1>2 DEF PublishedVisible, PayloadInv, ScanInv, TypeOK
<1> QED BY <1>3, <1>4, <1>5, <1>6, <1>7, <1>8

\* Counting is visible to no cell.
LEMMA CountArmedStep ==
  ASSUME CoreInv, NEW t \in Tokens, CountArmed(t)
  PROVE  CoreInv'
<1> USE SlotAssumption, NoneAssumption DEF CoreInv, Slots, CountArmed, RegStep,
         tableVars, regVars, scanVars
<1>1. \A u \in Tokens : Holds(u)' <=> Holds(u)
  BY DEF Holds, StageInv, TypeOK, RegStates, PayloadInv, ScanInv
<1>2. \A u \in Tokens : Holds(u) => slot[u] \in Slots /\ reg[u] \notin {"start", "failed"}
  BY HolderHasSlot
<1>3. TypeOK'
  BY NumWordsNat DEF TypeOK, RegStates, ScanStates, ScanInv
<1>4. StageInv'
  BY DEF StageInv, TypeOK, RegStates, ScanInv, PayloadInv
<1>5. SlotOwnedOnce'
  BY <1>1, <1>2 DEF SlotOwnedOnce, Awaiting, TypeOK, ScanInv, PayloadInv
<1>6. PayloadInv'
  BY <1>1, <1>2 DEF PayloadInv, TypeOK, SlotOwnedOnce, ScanInv
<1>7. ScanInv'
  BY <1>1, <1>2, NumWordsNat DEF ScanInv, PayloadInv, TypeOK, WordSlots
<1>8. PublishedVisible'
  BY <1>1, <1>2 DEF PublishedVisible, PayloadInv, ScanInv, TypeOK
<1> QED BY <1>3, <1>4, <1>5, <1>6, <1>7, <1>8

\* The bit shows a payload that is in place.
LEMMA SetBitStep ==
  ASSUME CoreInv, NEW t \in Tokens, SetBit(t)
  PROVE  CoreInv'
<1> USE SlotAssumption, NoneAssumption DEF CoreInv, Slots, SetBit, RegStep,
         tableVars, regVars, scanVars
<1>1. \A u \in Tokens : Holds(u)' <=> Holds(u)
  BY DEF Holds, StageInv, TypeOK, RegStates, PayloadInv, ScanInv
<1>2. \A u \in Tokens : Holds(u) => slot[u] \in Slots /\ reg[u] \notin {"start", "failed"}
  BY HolderHasSlot
<1>3. TypeOK'
  <2>1. slot[t] \in Slots
    BY DEF StageInv
  <2> QED BY <2>1 DEF TypeOK, RegStates
<1>4. StageInv'
  <2>1. \A u \in Tokens : reg'[u] = IF u = t THEN "published" ELSE reg[u]
    BY DEF TypeOK
  <2> QED BY <2>1 DEF StageInv
<1>5. SlotOwnedOnce'
  BY <1>1, <1>2 DEF SlotOwnedOnce, Awaiting, TypeOK, ScanInv, PayloadInv
<1>6. PayloadInv'
  BY <1>1, <1>2 DEF PayloadInv, TypeOK, SlotOwnedOnce, ScanInv
<1>7. ScanInv'
  <2>1. Holds(t) /\ slot[t] \in Slots /\ payload[slot[t]] = t
    BY UnpublishedHolds DEF PayloadInv
  <2>2. \A u \in Tokens : reg'[u] = IF u = t THEN "published" ELSE reg[u]
    BY DEF TypeOK
  <2>3. \A s \in active : payload[s] \in Tokens /\ s \in Slots
    BY DEF TypeOK, ScanInv
  <2>4. cur \in Slots /\ (payload[cur] # None => payload[cur] \in Tokens)
    BY DEF TypeOK
  <2>5. scan = "take" => cur # slot[t]
    BY <2>1 DEF ScanInv
  <2> QED BY <2>1, <2>2, <2>3, <2>4, <2>5 DEF ScanInv
<1>8. PublishedVisible'
  BY <1>1, <1>2 DEF PublishedVisible, PayloadInv, ScanInv, TypeOK
<1> QED BY <1>3, <1>4, <1>5, <1>6, <1>7, <1>8

\* A landed write moves no slot.
LEMMA FlagWriteStep ==
  ASSUME CoreInv, NEW t \in Tokens, FlagWrite(t)
  PROVE  CoreInv'
<1> USE SlotAssumption, NoneAssumption DEF CoreInv, Slots, FlagWrite,
         tableVars, regVars, scanVars
<1>1. \A u \in Tokens : Holds(u)' <=> Holds(u)
  BY DEF Holds, StageInv, TypeOK, RegStates, PayloadInv, ScanInv
<1>2. \A u \in Tokens : Holds(u) => slot[u] \in Slots /\ reg[u] \notin {"start", "failed"}
  BY HolderHasSlot
<1>3. TypeOK'
  BY NumWordsNat DEF TypeOK, RegStates, ScanStates, ScanInv
<1>4. StageInv'
  BY DEF StageInv, TypeOK, RegStates, ScanInv, PayloadInv
<1>5. SlotOwnedOnce'
  BY <1>1, <1>2 DEF SlotOwnedOnce, Awaiting, TypeOK, ScanInv, PayloadInv
<1>6. PayloadInv'
  BY <1>1, <1>2 DEF PayloadInv, TypeOK, SlotOwnedOnce, ScanInv
<1>7. ScanInv'
  BY <1>1, <1>2, NumWordsNat DEF ScanInv, PayloadInv, TypeOK, WordSlots
<1>8. PublishedVisible'
  BY <1>1, <1>2 DEF PublishedVisible, PayloadInv, ScanInv, TypeOK
<1> QED BY <1>3, <1>4, <1>5, <1>6, <1>7, <1>8

\* A lost write changes no flag.
LEMMA FlagWritesLostStep ==
  ASSUME CoreInv, NEW lost \in SUBSET Tokens, FlagWritesLost(lost)
  PROVE  CoreInv'
<1> USE SlotAssumption, NoneAssumption DEF CoreInv, Slots, FlagWritesLost,
         tableVars, regVars, scanVars
<1>1. \A u \in Tokens : Holds(u)' <=> Holds(u)
  BY DEF Holds, StageInv, TypeOK, RegStates, PayloadInv, ScanInv
<1>2. \A u \in Tokens : Holds(u) => slot[u] \in Slots /\ reg[u] \notin {"start", "failed"}
  BY HolderHasSlot
<1>3. TypeOK'
  BY NumWordsNat DEF TypeOK, RegStates, ScanStates, ScanInv
<1>4. StageInv'
  BY DEF StageInv, TypeOK, RegStates, ScanInv, PayloadInv
<1>5. SlotOwnedOnce'
  BY <1>1, <1>2 DEF SlotOwnedOnce, Awaiting, TypeOK, ScanInv, PayloadInv
<1>6. PayloadInv'
  BY <1>1, <1>2 DEF PayloadInv, TypeOK, SlotOwnedOnce, ScanInv
<1>7. ScanInv'
  BY <1>1, <1>2, NumWordsNat DEF ScanInv, PayloadInv, TypeOK, WordSlots
<1>8. PublishedVisible'
  BY <1>1, <1>2 DEF PublishedVisible, PayloadInv, ScanInv, TypeOK
<1> QED BY <1>3, <1>4, <1>5, <1>6, <1>7, <1>8

\* A pass starts with nothing retired.
LEMMA StartPassStep ==
  ASSUME CoreInv, NEW p \in BOOLEAN, StartPass(p)
  PROVE  CoreInv'
<1> USE SlotAssumption, NoneAssumption DEF CoreInv, Slots, StartPass,
         tableVars, regVars, scanVars
<1>1. \A u \in Tokens : Holds(u)' <=> Holds(u)
  BY DEF Holds, StageInv, TypeOK, RegStates, PayloadInv, ScanInv
<1>2. \A u \in Tokens : Holds(u) => slot[u] \in Slots /\ reg[u] \notin {"start", "failed"}
  BY HolderHasSlot
<1>3. TypeOK'
  BY NumWordsNat DEF TypeOK, RegStates, ScanStates, ScanInv
<1>4. StageInv'
  BY <1>1 DEF StageInv
<1>5. SlotOwnedOnce'
  BY <1>1 DEF SlotOwnedOnce, Awaiting, ScanInv
<1>6. (PayloadInv /\ PublishedVisible)'
  BY <1>1, <1>2 DEF PayloadInv, PublishedVisible, ScanInv, TypeOK
<1>7. ScanInv'
  BY <1>1, <1>2, NumWordsNat DEF ScanInv, PayloadInv, TypeOK, WordSlots
<1> QED BY <1>3, <1>4, <1>5, <1>6, <1>7

\* The loaded bits are bits of the bitmap.
LEMMA LoadWordStep ==
  ASSUME CoreInv, LoadWord
  PROVE  CoreInv'
<1> USE SlotAssumption, NoneAssumption DEF CoreInv, Slots, LoadWord,
         tableVars, regVars, scanVars
<1>1. \A u \in Tokens : Holds(u)' <=> Holds(u)
  BY DEF Holds, StageInv, TypeOK, RegStates, PayloadInv, ScanInv
<1>2. \A u \in Tokens : Holds(u) => slot[u] \in Slots /\ reg[u] \notin {"start", "failed"}
  BY HolderHasSlot
<1>3. TypeOK'
  BY NumWordsNat DEF TypeOK, RegStates, ScanStates, ScanInv
<1>4. StageInv'
  BY <1>1 DEF StageInv
<1>5. SlotOwnedOnce'
  BY <1>1 DEF SlotOwnedOnce, Awaiting, ScanInv
<1>6. (PayloadInv /\ PublishedVisible)'
  BY <1>1, <1>2 DEF PayloadInv, PublishedVisible, ScanInv, TypeOK
<1>7. ScanInv'
  BY <1>1, <1>2, NumWordsNat DEF ScanInv, PayloadInv, TypeOK, WordSlots
<1> QED BY <1>3, <1>4, <1>5, <1>6, <1>7

\* Next word.
LEMMA WordDoneStep ==
  ASSUME CoreInv, WordDone
  PROVE  CoreInv'
<1> USE SlotAssumption, NoneAssumption DEF CoreInv, Slots, WordDone,
         tableVars, regVars, scanVars
<1>1. \A u \in Tokens : Holds(u)' <=> Holds(u)
  BY DEF Holds, StageInv, TypeOK, RegStates, PayloadInv, ScanInv
<1>2. \A u \in Tokens : Holds(u) => slot[u] \in Slots /\ reg[u] \notin {"start", "failed"}
  BY HolderHasSlot
<1>3. TypeOK'
  BY NumWordsNat DEF TypeOK, RegStates, ScanStates, ScanInv
<1>4. StageInv'
  BY <1>1 DEF StageInv
<1>5. SlotOwnedOnce'
  BY <1>1 DEF SlotOwnedOnce, Awaiting, ScanInv
<1>6. (PayloadInv /\ PublishedVisible)'
  BY <1>1, <1>2 DEF PayloadInv, PublishedVisible, ScanInv, TypeOK
<1>7. ScanInv'
  BY <1>1, <1>2, NumWordsNat DEF ScanInv, PayloadInv, TypeOK, WordSlots
<1> QED BY <1>3, <1>4, <1>5, <1>6, <1>7

\* The slot whose flag is loaded is an active one.
LEMMA LoadFlagStep ==
  ASSUME CoreInv, NEW s \in Slots, LoadFlag(s)
  PROVE  CoreInv'
<1> USE SlotAssumption, NoneAssumption DEF CoreInv, Slots, LoadFlag,
         tableVars, regVars, scanVars
<1>0. scan' \in {"clear", "probe", "bits"} /\ (flag[s] = 1 \/ flag[s] = 0)
  BY DEF TypeOK
<1>1. \A u \in Tokens : Holds(u)' <=> Holds(u)
  BY DEF Holds, StageInv, TypeOK, RegStates, PayloadInv, ScanInv
<1>2. \A u \in Tokens : Holds(u) => slot[u] \in Slots /\ reg[u] \notin {"start", "failed"}
  BY HolderHasSlot
<1>3. TypeOK'
  BY NumWordsNat DEF TypeOK, RegStates, ScanStates, ScanInv
<1>4. StageInv'
  BY <1>1 DEF StageInv
<1>5. SlotOwnedOnce'
  BY <1>0, <1>1 DEF SlotOwnedOnce, Awaiting, ScanInv
<1>6. (PayloadInv /\ PublishedVisible)'
  BY <1>1, <1>2 DEF PayloadInv, PublishedVisible, ScanInv, TypeOK
<1>7. ScanInv'
  <2>1. s \in active /\ payload[s] \in Tokens /\ reg[payload[s]] = "published"
    BY DEF ScanInv, TypeOK
  <2>2. scan' = "probe" => ~landed'
    <3>1. CASE flag[s] = 1
      BY <3>1
    <3>2. CASE flag[s] # 1
      <4>1. landed' = FALSE
        BY <3>2, Zenon
      <4> QED BY <4>1
    <3> QED BY <3>1, <3>2
  <2> QED BY <1>0, <2>1, <2>2 DEF ScanInv
<1> QED BY <1>3, <1>4, <1>5, <1>6, <1>7

\* Only the slot being retired disappears from the bitmap.
LEMMA ClearBitStep ==
  ASSUME CoreInv, ClearBit
  PROVE  CoreInv'
<1> USE SlotAssumption, NoneAssumption DEF CoreInv, Slots, ClearBit,
         tableVars, regVars, scanVars
<1>1. \A u \in Tokens : Holds(u)' <=> Holds(u)
  BY DEF Holds, StageInv, TypeOK, RegStates, PayloadInv, ScanInv
<1>2. \A u \in Tokens : Holds(u) => slot[u] \in Slots /\ reg[u] \notin {"start", "failed"}
  BY HolderHasSlot
<1>3. TypeOK'
  BY NumWordsNat DEF TypeOK, RegStates, ScanStates, ScanInv
<1>4. StageInv'
  BY DEF StageInv, TypeOK, RegStates, ScanInv, PayloadInv
<1>5. SlotOwnedOnce'
  BY <1>1, <1>2 DEF SlotOwnedOnce, Awaiting, TypeOK, ScanInv, PayloadInv
<1>6. PayloadInv'
  BY <1>1, <1>2 DEF PayloadInv, TypeOK, SlotOwnedOnce, ScanInv
<1>7. ScanInv'
  BY <1>1, <1>2, NumWordsNat DEF ScanInv, PayloadInv, TypeOK, WordSlots
<1>8. PublishedVisible'
  BY <1>1, <1>2 DEF PublishedVisible, PayloadInv, ScanInv, TypeOK
<1> QED BY <1>3, <1>4, <1>5, <1>6, <1>7, <1>8

\* Taking the payload ends the registration's ownership.
LEMMA TakePayloadStep ==
  ASSUME CoreInv, TakePayload
  PROVE  CoreInv'
<1> USE SlotAssumption, NoneAssumption DEF CoreInv, Slots, TakePayload,
         tableVars, regVars, scanVars
<1>1. \A u \in Tokens : Holds(u)' <=> u # payload[cur] /\ Holds(u)
  BY DEF Holds, StageInv, TypeOK, RegStates, PayloadInv, ScanInv
<1>2. \A u \in Tokens : Holds(u) => slot[u] \in Slots /\ reg[u] \notin {"start", "failed"}
  BY HolderHasSlot
<1>3. TypeOK'
  <2>1. payload[cur] \in Tokens
    BY DEF TypeOK, ScanInv
  <2>2. woken' \in [Tokens -> Nat] /\ dead' \in [Tokens -> Nat]
    <3>1. woken' = [woken EXCEPT ![payload[cur]] = @ + 1] \/ woken' = woken
      BY <2>1
    <3>2. dead' = [dead EXCEPT ![payload[cur]] = @ + 1] \/ dead' = dead
      BY <2>1
    <3>3. woken \in [Tokens -> Nat] /\ dead \in [Tokens -> Nat]
      BY DEF TypeOK
    <3> QED BY <2>1, <3>1, <3>2, <3>3
  <2> QED BY <2>2 DEF TypeOK, ScanStates
<1>4. StageInv'
  <2>1. payload[cur] \in Tokens /\ Holds(payload[cur])
    BY DEF TypeOK, ScanInv, PayloadInv
  <2>2. woken[payload[cur]] = 0 /\ dead[payload[cur]] = 0
    BY <2>1 DEF TypeOK, Holds
  <2>3. reg[payload[cur]] = "published"
    BY DEF ScanInv
  <2>4. \A u \in Tokens \ {payload[cur]} : woken'[u] = woken[u] /\ dead'[u] = dead[u]
    BY <2>1 DEF TypeOK
  <2>5. /\ woken'[payload[cur]] = IF landed THEN 1 ELSE 0
        /\ dead'[payload[cur]] = IF landed THEN 0 ELSE 1
    BY <2>1, <2>2 DEF TypeOK, ScanInv
  <2> QED BY <2>1, <2>3, <2>4, <2>5 DEF StageInv
<1>5. SlotOwnedOnce'
  BY <1>1, <1>2 DEF SlotOwnedOnce, Awaiting, TypeOK, ScanInv, PayloadInv
<1>6. PayloadInv'
  BY <1>1, <1>2 DEF PayloadInv, TypeOK, SlotOwnedOnce, ScanInv
<1>7. ScanInv'
  BY <1>1, <1>2, NumWordsNat DEF ScanInv, PayloadInv, TypeOK, WordSlots
<1>8. PublishedVisible'
  BY <1>1, <1>2 DEF PublishedVisible, PayloadInv, ScanInv, TypeOK
<1> QED BY <1>3, <1>4, <1>5, <1>6, <1>7, <1>8

\* The pass ends or goes on to recycle.
LEMMA WordsDoneStep ==
  ASSUME CoreInv, WordsDone
  PROVE  CoreInv'
<1> USE SlotAssumption, NoneAssumption DEF CoreInv, Slots, WordsDone,
         tableVars, regVars, scanVars
<1>1. \A u \in Tokens : Holds(u)' <=> Holds(u)
  BY DEF Holds, StageInv, TypeOK, RegStates, PayloadInv, ScanInv
<1>2. \A u \in Tokens : Holds(u) => slot[u] \in Slots /\ reg[u] \notin {"start", "failed"}
  BY HolderHasSlot
<1>3. TypeOK'
  BY NumWordsNat DEF TypeOK, RegStates, ScanStates, ScanInv
<1>4. StageInv'
  BY <1>1 DEF StageInv
<1>5. SlotOwnedOnce'
  BY <1>1 DEF SlotOwnedOnce, Awaiting, ScanInv
<1>6. (PayloadInv /\ PublishedVisible)'
  BY <1>1, <1>2 DEF PayloadInv, PublishedVisible, ScanInv, TypeOK
<1>7. ScanInv'
  BY <1>1, <1>2, NumWordsNat DEF ScanInv, PayloadInv, TypeOK, WordSlots
<1> QED BY <1>3, <1>4, <1>5, <1>6, <1>7

\* The retired indices return to the free list.
LEMMA RecycleStep ==
  ASSUME CoreInv, Recycle
  PROVE  CoreInv'
<1> USE SlotAssumption, NoneAssumption DEF CoreInv, Slots, Recycle,
         tableVars, regVars, scanVars
<1>1. \A u \in Tokens : Holds(u)' <=> Holds(u)
  BY DEF Holds, StageInv, TypeOK, RegStates, PayloadInv, ScanInv
<1>2. \A u \in Tokens : Holds(u) => slot[u] \in Slots /\ reg[u] \notin {"start", "failed"}
  BY HolderHasSlot
<1>3. TypeOK'
  BY NumWordsNat DEF TypeOK, RegStates, ScanStates, ScanInv
<1>4. StageInv'
  BY DEF StageInv, TypeOK, RegStates, ScanInv, PayloadInv
<1>5. SlotOwnedOnce'
  BY <1>1, <1>2 DEF SlotOwnedOnce, Awaiting, TypeOK, ScanInv, PayloadInv
<1>6. PayloadInv'
  BY <1>1, <1>2 DEF PayloadInv, TypeOK, SlotOwnedOnce, ScanInv
<1>7. ScanInv'
  BY <1>1, <1>2, NumWordsNat DEF ScanInv, PayloadInv, TypeOK, WordSlots
<1>8. PublishedVisible'
  BY <1>1, <1>2 DEF PublishedVisible, PayloadInv, ScanInv, TypeOK
<1> QED BY <1>3, <1>4, <1>5, <1>6, <1>7, <1>8

\* The subtraction ends the pass.
LEMMA CountRetiredStep ==
  ASSUME CoreInv, CountRetired
  PROVE  CoreInv'
<1> USE SlotAssumption, NoneAssumption DEF CoreInv, Slots, CountRetired,
         tableVars, regVars, scanVars
<1>1. \A u \in Tokens : Holds(u)' <=> Holds(u)
  BY DEF Holds, StageInv, TypeOK, RegStates, PayloadInv, ScanInv
<1>2. \A u \in Tokens : Holds(u) => slot[u] \in Slots /\ reg[u] \notin {"start", "failed"}
  BY HolderHasSlot
<1>3. TypeOK'
  BY NumWordsNat DEF TypeOK, RegStates, ScanStates, ScanInv
<1>4. StageInv'
  BY <1>1 DEF StageInv
<1>5. SlotOwnedOnce'
  BY <1>1 DEF SlotOwnedOnce, Awaiting, ScanInv
<1>6. (PayloadInv /\ PublishedVisible)'
  BY <1>1, <1>2 DEF PayloadInv, PublishedVisible, ScanInv, TypeOK
<1>7. ScanInv'
  BY <1>1, <1>2, NumWordsNat DEF ScanInv, PayloadInv, TypeOK, WordSlots
<1> QED BY <1>3, <1>4, <1>5, <1>6, <1>7

\* Whatever the probe answers, the slot is still the one in the bitmap.
LEMMA ProbeSlotStep ==
  ASSUME CoreInv, NEW isDead \in BOOLEAN, ProbeSlot(isDead)
  PROVE  CoreInv'
<1> USE SlotAssumption, NoneAssumption DEF CoreInv, Slots, ProbeSlot,
         tableVars, regVars, scanVars
<1>1. \A u \in Tokens : Holds(u)' <=> Holds(u)
  BY DEF Holds, StageInv, TypeOK, RegStates, PayloadInv, ScanInv
<1>2. \A u \in Tokens : Holds(u) => slot[u] \in Slots /\ reg[u] \notin {"start", "failed"}
  BY HolderHasSlot
<1>3. TypeOK'
  BY NumWordsNat DEF TypeOK, RegStates, ScanStates, ScanInv
<1>4. StageInv'
  BY <1>1 DEF StageInv
<1>5. SlotOwnedOnce'
  BY <1>1 DEF SlotOwnedOnce, Awaiting, ScanInv
<1>6. (PayloadInv /\ PublishedVisible)'
  BY <1>1, <1>2 DEF PayloadInv, PublishedVisible, ScanInv, TypeOK
<1>7. ScanInv'
  BY <1>1, <1>2, NumWordsNat DEF ScanInv, PayloadInv, TypeOK, WordSlots
<1> QED BY <1>3, <1>4, <1>5, <1>6, <1>7

-----------------------------------------------------------------------------
(* The armed counter.                                                      *)

\* The scanner retires finitely many slots.
LEMMA FiniteSlots == \A S \in SUBSET Slots : IsFiniteSet(S) /\ Cardinality(S) \in Nat
<1>1. IsFiniteSet(Slots)
  BY SlotAssumption, FS_Interval DEF Slots
<1> QED BY <1>1, FS_Subset, FS_CardinalityType

\* Finitely many registrations are counted in n_armed.
LEMMA FiniteCounted == IsFiniteSet(Counted) /\ Cardinality(Counted) \in Nat
BY TokensAssumption, FS_Subset, FS_CardinalityType DEF Counted

\* A step that leaves the counter, the retired list and every counted
\* registration alone preserves CountInv.
LEMMA CountStutter ==
  ASSUME CountInv, nArmed' = nArmed, retired' = retired,
         \A u \in Tokens : (u \in Counted)' <=> u \in Counted
  PROVE  CountInv'
<1>1. Counted' = Counted
  BY DEF Counted
<1> QED BY <1>1 DEF CountInv

\* fetch_add counts one more registration, TakePayload moves one from the
\* armed to the retired ones, fetch_sub removes the retired ones.
LEMMA CountStep ==
  ASSUME TableInv, TableNext
  PROVE  CountInv'
<1> USE DEF TableInv, CoreInv
<1>1. ASSUME NEW t \in Tokens, CountArmed(t)
      PROVE  CountInv'
  <2>1. Holds(t)
    BY <1>1, UnpublishedHolds DEF CountArmed, RegStep
  <2>2. t \notin Counted /\ Counted' = Counted \cup {t}
    BY <1>1, <2>1 DEF CountArmed, RegStep, Counted, Holds, TypeOK, RegStates
  <2>3. Cardinality(Counted') = Cardinality(Counted) + 1
    BY <2>2, FiniteCounted, FS_AddElement
  <2>4. Cardinality(retired) \in Nat /\ retired' = retired
    BY <1>1, FiniteSlots DEF TypeOK, CountArmed, scanVars
  <2> QED BY <1>1, <2>3, <2>4, FiniteCounted DEF CountInv, CountArmed
<1>2. ASSUME TakePayload
      PROVE  CountInv'
  <2>1. PICK t \in Tokens :
          payload[cur] = t /\ Holds(t) /\ slot[t] = cur /\ reg[t] = "published"
    BY <1>2 DEF TakePayload, ScanInv, PayloadInv, TypeOK
  <2>2. woken[t] = 0 /\ dead[t] = 0
    BY <2>1 DEF Holds, TypeOK
  <2>3. \A u \in Tokens : Holds(u)' <=> u # t /\ Holds(u)
    <3>1. /\ woken'[t] = IF landed THEN 1 ELSE 0
          /\ dead'[t] = IF landed THEN 0 ELSE 1
      BY <1>2, <2>1, <2>2, NoneAssumption DEF TakePayload, TypeOK, ScanInv
    <3>2. \A u \in Tokens \ {t} : woken'[u] = woken[u] /\ dead'[u] = dead[u]
      BY <1>2, <2>1, NoneAssumption DEF TakePayload, TypeOK
    <3>3. reg' = reg
      BY <1>2 DEF TakePayload, regVars
    <3>4. ~Holds(t)'
      BY <3>1 DEF Holds
    <3>5. \A u \in Tokens \ {t} : Holds(u)' <=> Holds(u)
      BY <3>2, <3>3 DEF Holds
    <3> QED BY <3>4, <3>5
  <2>4. t \in Counted /\ Counted' = Counted \ {t}
    BY <1>2, <2>1, <2>3 DEF Counted, TakePayload, regVars
  <2>5. Cardinality(Counted') = Cardinality(Counted) - 1
    BY <2>4, FiniteCounted, FS_RemoveElement
  <2>6. cur \notin retired
    BY <1>2, <2>1 DEF TakePayload, SlotOwnedOnce, Awaiting
  <2>7. Cardinality(retired') = Cardinality(retired) + 1
    <3>1. IsFiniteSet(retired)
      BY FiniteSlots DEF TypeOK
    <3> QED BY <1>2, <2>6, <3>1, FS_AddElement DEF TakePayload
  <2>8. Cardinality(retired) \in Nat /\ nArmed' = nArmed
    BY <1>2, FiniteSlots DEF TypeOK, TakePayload
  <2> QED BY <2>5, <2>7, <2>8, FiniteCounted DEF CountInv
<1>3. ASSUME CountRetired
      PROVE  CountInv'
  <2>1. Counted' = Counted /\ Cardinality(retired') = 0
    BY <1>3, FS_EmptySet DEF CountRetired, Counted, Holds, regVars
  <2>2. Cardinality(retired) \in Nat
    BY FiniteSlots DEF TypeOK
  <2> QED BY <1>3, <2>1, <2>2, FiniteCounted DEF CountInv, CountRetired
<1>4. ASSUME NEW p \in BOOLEAN, StartPass(p)
      PROVE  CountInv'
  <2>1. retired' = retired
    BY <1>4 DEF StartPass, ScanInv
  <2> QED BY <1>4, <2>1, CountStutter
       DEF StartPass, Counted, Holds, tableVars, regVars
<1>5. ASSUME NEW t \in Tokens,
             \/ \E s \in Slots : Claim(t, s)
             \/ ClaimExhausted(t) \/ ResetFlag(t) \/ Arm(t) \/ ArmRefused(t)
             \/ Release(t) \/ WritePayload(t) \/ SetBit(t)
      PROVE  CountInv'
  <2>1. nArmed' = nArmed /\ retired' = retired
    BY <1>5 DEF Claim, ClaimExhausted, ResetFlag, Arm, ArmRefused, Release,
                WritePayload, SetBit, tableVars, scanVars
  <2>2. woken' = woken /\ dead' = dead
    BY <1>5 DEF Claim, ClaimExhausted, ResetFlag, Arm, ArmRefused, Release,
                WritePayload, SetBit
  <2>3. \A u \in Tokens : reg'[u] = reg[u] \/ u = t
    BY <1>5 DEF Claim, ClaimExhausted, ResetFlag, Arm, ArmRefused, Release,
                WritePayload, SetBit, RegStep, TypeOK
  <2>4. reg'[t] \in {"counted", "published"} <=> reg[t] \in {"counted", "published"}
    BY <1>5 DEF Claim, ClaimExhausted, ResetFlag, Arm, ArmRefused, Release,
                WritePayload, SetBit, RegStep, TypeOK
  <2>5. \A u \in Tokens : (u \in Counted)' <=> u \in Counted
    BY <2>2, <2>3, <2>4 DEF Counted, Holds, RegStates
  <2> QED BY <2>1, <2>5, CountStutter
<1>6. ASSUME \/ \E t \in Tokens : FlagWrite(t)
             \/ \E lost \in SUBSET Tokens : FlagWritesLost(lost)
      PROVE  CountInv'
  BY <1>6, CountStutter
  DEF FlagWrite, FlagWritesLost, Counted, Holds, tableVars, regVars, scanVars
<1>7. ASSUME \/ LoadWord \/ WordDone \/ (\E s \in Slots : LoadFlag(s))
             \/ ClearBit \/ WordsDone \/ Recycle
             \/ (\E isDead \in BOOLEAN : ProbeSlot(isDead))
      PROVE  CountInv'
  BY <1>7, CountStutter
  DEF LoadWord, WordDone, LoadFlag, ClearBit, WordsDone, Recycle, ProbeSlot,
      Counted, Holds, tableVars, regVars
<1> QED BY <1>1, <1>2, <1>3, <1>4, <1>5, <1>6, <1>7
     DEF TableNext, Next, RegisterStep, ScannerStep, PassStep, ProbeDead, ProbeAlive

-----------------------------------------------------------------------------
(* Flags and notices.                                                      *)

\* The slot that the scanner is dealing with belongs to a published
\* registration, and no other registration has it.
LEMMA CurrentOwner ==
  ASSUME CoreInv, scan \in {"probe", "clear", "take"}
  PROVE  /\ cur \in Slots /\ payload[cur] \in Tokens /\ reg[payload[cur]] = "published"
         /\ write[payload[cur]] # "none"
         /\ \A t \in Tokens : reg[t] = "armed" => slot[t] # cur
<1>1. cur \in Slots /\ payload[cur] \in Tokens /\ reg[payload[cur]] = "published"
  BY DEF CoreInv, ScanInv, TypeOK
<1>2. Holds(payload[cur]) /\ slot[payload[cur]] = cur
  BY <1>1, NoneAssumption DEF CoreInv, PayloadInv
<1>3. \A t \in Tokens : reg[t] = "armed" => Holds(t)
  BY UnpublishedHolds DEF CoreInv
<1> QED BY <1>1, <1>2, <1>3 DEF CoreInv, StageInv, SlotOwnedOnce

\* From the reset on, the flag of a slot is raised by its owner's write alone.
LEMMA FlagStep ==
  ASSUME CoreInv, FlagInv, SettledInv, Next
  PROVE  FlagInv'
<1> USE SlotAssumption, NoneAssumption DEF tableVars, regVars, scanVars
<1>0. \A u \in Tokens : Holds(u) => slot[u] \in Slots /\ reg[u] \notin {"start", "failed"}
  BY HolderHasSlot DEF CoreInv
<1>1. ASSUME NEW t \in Tokens, NEW s \in Slots, Claim(t, s) PROVE FlagInv'
  <2>1. /\ UNCHANGED <<flag, write, woken, dead>>
        /\ reg'[t] = "claimed"
        /\ \A u \in Tokens \ {t} : reg'[u] = reg[u] /\ slot'[u] = slot[u]
    BY <1>1 DEF Claim, RegStep, CoreInv, TypeOK
  <2> QED BY <2>1 DEF FlagInv, Holds
<1>2. ASSUME NEW t \in Tokens,
             ClaimExhausted(t) \/ ArmRefused(t) \/ Release(t)
             \/ WritePayload(t) \/ CountArmed(t) \/ SetBit(t)
      PROVE  FlagInv'
  <2>1. /\ UNCHANGED <<flag, write, slot, woken, dead>>
        /\ \A u \in Tokens \ {t} : reg'[u] = reg[u]
        /\ reg'[t] \in {"failed", "releasing", "paid", "counted", "published"}
        /\ reg'[t] # "failed" => reg[t] \in {"reset", "armed", "paid", "counted"}
    BY <1>2 DEF ClaimExhausted, ArmRefused, Release, WritePayload, CountArmed, SetBit,
       RegStep, CoreInv, TypeOK
  <2>2. \A u \in Tokens : Holds(u)' => Holds(u) /\ (reg'[u] # "claimed" => reg[u] # "claimed")
    BY <2>1, UnpublishedHolds DEF Holds, CoreInv
  <2> QED BY <2>1, <2>2 DEF FlagInv
<1>3. ASSUME NEW t \in Tokens, ResetFlag(t) PROVE FlagInv'
  <2>1. Holds(t) /\ slot[t] \in Slots
    BY <1>3, UnpublishedHolds DEF ResetFlag, RegStep, CoreInv
  <2>2. /\ UNCHANGED <<write, slot, woken, dead>>
        /\ \A u \in Tokens \ {t} : reg'[u] = reg[u]
        /\ \A s \in Slots : flag'[s] = IF s = slot[t] THEN 0 ELSE flag[s]
    BY <1>3, <2>1 DEF ResetFlag, RegStep, CoreInv, TypeOK
  <2>3. \A u \in Tokens \ {t} : Holds(u)' <=> Holds(u)
    BY <2>2 DEF Holds
  <2>4. slot'[t] = slot[t] /\ flag'[slot[t]] = 0
    BY <2>1, <2>2
  <2> QED BY <1>0, <2>2, <2>3, <2>4 DEF FlagInv
<1>4. ASSUME NEW t \in Tokens, Arm(t) PROVE FlagInv'
  <2>1. Holds(t) /\ reg[t] = "reset" /\ write[t] = "none"
    BY <1>4, UnpublishedHolds DEF Arm, RegStep, CoreInv, StageInv
  <2>2. /\ UNCHANGED <<flag, slot, woken, dead>>
        /\ \A u \in Tokens \ {t} : reg'[u] = reg[u] /\ write'[u] = write[u]
    BY <1>4 DEF Arm, RegStep, CoreInv, TypeOK
  <2>3. flag[slot[t]] # 1
    BY <2>1 DEF FlagInv
  <2> QED BY <2>2, <2>3 DEF FlagInv, Holds
<1>5. ASSUME NEW t \in Tokens, FlagWrite(t) PROVE FlagInv'
  <2>1. /\ UNCHANGED <<reg, slot, woken, dead>> /\ write'[t] = "landed"
        /\ \A u \in Tokens \ {t} : write'[u] = write[u]
    BY <1>5 DEF FlagWrite, CoreInv, TypeOK
  <2>2. write[t] = "queued" /\ ~(woken[t] > 0) /\ ~(dead[t] > 0)
    BY <1>5 DEF FlagWrite, SettledInv, SignalOnlyIfLanded
  <2>3. Holds(t) /\ slot[t] \in Slots
    BY <2>2 DEF Holds, CoreInv, StageInv, TypeOK, RegStates
  <2>4. \A s \in Slots : s # slot[t] => flag'[s] = flag[s]
    BY <1>5, <2>3 DEF FlagWrite, CoreInv, TypeOK
  <2>5. \A u \in Tokens : Holds(u) /\ u # t => slot[u] # slot[t]
    BY <2>3 DEF CoreInv, SlotOwnedOnce
  <2> QED BY <1>0, <2>1, <2>4, <2>5 DEF FlagInv, Holds
<1>6. ASSUME NEW lost \in SUBSET Tokens, FlagWritesLost(lost) PROVE FlagInv'
  <2>1. /\ UNCHANGED <<flag, reg, slot, woken, dead>>
        /\ \A u \in Tokens : write[u] = "landed" => write'[u] = "landed"
    BY <1>6 DEF FlagWritesLost, CoreInv, TypeOK
  <2> QED BY <2>1 DEF FlagInv, Holds
<1>7. CASE TakePayload
  <2>1. UNCHANGED <<flag, write, reg, slot>>
    BY <1>7 DEF TakePayload
  <2>2. \A u \in Tokens \ {payload[cur]} : woken'[u] = woken[u] /\ dead'[u] = dead[u]
    BY <1>7 DEF TakePayload, CoreInv, TypeOK
  <2>3. \A u \in Tokens : u = payload[cur] => ~Holds(u)'
    <3>1. payload[cur] \in Tokens /\ woken[payload[cur]] \in Nat /\ dead[payload[cur]] \in Nat
      BY <1>7, CurrentOwner DEF TakePayload, CoreInv, TypeOK
    <3>2. /\ woken'[payload[cur]] = woken[payload[cur]] + (IF landed THEN 1 ELSE 0)
          /\ dead'[payload[cur]] = dead[payload[cur]] + (IF landed THEN 0 ELSE 1)
      BY <1>7, <3>1 DEF TakePayload, CoreInv, TypeOK
    <3>3. woken'[payload[cur]] + dead'[payload[cur]] # 0
      BY <3>1, <3>2
    <3> QED BY <3>3 DEF Holds
  <2>4. \A u \in Tokens : Holds(u)' => Holds(u)
    <3> SUFFICES ASSUME NEW u \in Tokens, Holds(u)' PROVE Holds(u)
      OBVIOUS
    <3>1. u # payload[cur]
      BY <2>3
    <3> QED BY <2>1, <2>2, <3>1 DEF Holds
  <2> QED BY <2>1, <2>4 DEF FlagInv
<1>8. CASE \/ (\E p \in BOOLEAN : StartPass(p)) \/ LoadWord \/ WordDone
           \/ (\E s \in Slots : LoadFlag(s)) \/ ClearBit \/ WordsDone \/ Recycle
           \/ CountRetired \/ ProbeDead \/ ProbeAlive
  <2>1. UNCHANGED <<flag, write, reg, slot, woken, dead>>
    BY <1>8 DEF StartPass, LoadWord, WordDone, LoadFlag, ClearBit, WordsDone, Recycle,
       CountRetired, ProbeDead, ProbeAlive, ProbeSlot
  <2> QED BY <2>1 DEF FlagInv, Holds
<1> QED BY <1>1, <1>2, <1>3, <1>4, <1>5, <1>6, <1>7, <1>8
     DEF Next, RegisterStep, ScannerStep, PassStep

\* What is settled stays settled, and is retired with the right notice.
LEMMA SettledStep ==
  ASSUME CoreInv, FlagInv, SettledInv, Next
  PROVE  SettledInv'
<1> USE SlotAssumption, NoneAssumption DEF tableVars, regVars, scanVars
<1>a. ASSUME UNCHANGED <<scan, cur, landed, woken, dead>>,
             \A u \in Tokens : write[u] \in {"landed", "lost"} => write'[u] = write[u],
             scan \in {"clear", "take"} => payload'[cur] = payload[cur]
      PROVE  SettledInv'
  BY <1>a, CurrentOwner DEF SettledInv, SignalOnlyIfLanded
<1>1. ASSUME NEW t \in Tokens, RegisterStep(t) PROVE SettledInv'
  <2>1. CASE Arm(t)
    <3>1. /\ UNCHANGED <<scan, cur, landed, woken, dead, payload>>
          /\ write[t] = "none" /\ \A u \in Tokens \ {t} : write'[u] = write[u]
      BY <2>1 DEF Arm, RegStep, CoreInv, StageInv, TypeOK
    <3> QED BY <1>a, <3>1
  <2>2. CASE WritePayload(t)
    <3>1. /\ UNCHANGED <<scan, cur, landed, woken, dead, write>>
          /\ payload' = [payload EXCEPT ![slot[t]] = t] /\ reg[t] = "armed"
      BY <2>2 DEF WritePayload, RegStep
    <3>2. scan \in {"clear", "take"} => payload'[cur] = payload[cur]
      BY <3>1, CurrentOwner DEF CoreInv, TypeOK
    <3> QED BY <1>a, <3>1, <3>2
  <2>3. CASE ~Arm(t) /\ ~WritePayload(t)
    <3>1. UNCHANGED <<scan, cur, landed, woken, dead, write, payload>>
      BY <1>1, <2>3 DEF RegisterStep, Claim, ClaimExhausted, ResetFlag, ArmRefused,
         Release, CountArmed, SetBit
    <3> QED BY <1>a, <3>1
  <2> QED BY <2>1, <2>2, <2>3
<1>2. ASSUME NEW t \in Tokens, FlagWrite(t) PROVE SettledInv'
  <2>1. /\ UNCHANGED <<scan, cur, landed, woken, dead, payload>>
        /\ write[t] = "queued" /\ \A u \in Tokens \ {t} : write'[u] = write[u]
    BY <1>2 DEF FlagWrite, CoreInv, TypeOK
  <2> QED BY <1>a, <2>1
<1>3. ASSUME NEW lost \in SUBSET Tokens, FlagWritesLost(lost) PROVE SettledInv'
  <2>1. /\ UNCHANGED <<scan, cur, landed, woken, dead, payload>>
        /\ \A u \in Tokens : write[u] \in {"landed", "lost"} => write'[u] = write[u]
    BY <1>3 DEF FlagWritesLost, CoreInv, TypeOK
  <2> QED BY <1>a, <2>1
<1>4. ASSUME NEW s \in Slots, LoadFlag(s) PROVE SettledInv'
  <2>1. payload[s] \in Tokens /\ reg[payload[s]] = "published"
    BY <1>4 DEF LoadFlag, CoreInv, ScanInv, TypeOK
  <2>2. Holds(payload[s]) /\ slot[payload[s]] = s
    BY <2>1 DEF CoreInv, PayloadInv
  <2>3. flag[s] = 1 => write[payload[s]] = "landed"
    BY <2>1, <2>2 DEF FlagInv
  <2>4. UNCHANGED <<write, payload, woken, dead>> /\ cur' = s
    BY <1>4 DEF LoadFlag
  <2>5. scan' \in {"clear", "take"} => flag[s] = 1
    <3>1. flag[s] \in {0, 1}
      BY DEF CoreInv, TypeOK
    <3> QED BY <1>4, <3>1 DEF LoadFlag
  <2>6. write[payload[s]] = "landed" =>
          write[payload[s]] \in IF landed' THEN {"landed"} ELSE {"landed", "lost"}
    OBVIOUS
  <2> QED BY <2>3, <2>4, <2>5, <2>6 DEF SettledInv, SignalOnlyIfLanded
<1>5. CASE ProbeDead \/ ProbeAlive
  <2>1. UNCHANGED <<write, payload, woken, dead, cur, landed>> /\ scan = "probe"
    BY <1>5 DEF ProbeDead, ProbeAlive, ProbeSlot
  <2>2. ~landed
    BY <2>1 DEF CoreInv, ScanInv
  <2>3. scan' \in {"clear", "take"} => write[payload[cur]] \in {"landed", "lost"}
    BY <1>5 DEF ProbeDead, ProbeAlive, ProbeSlot
  <2> QED BY <2>1, <2>2, <2>3 DEF SettledInv, SignalOnlyIfLanded
<1>6. CASE TakePayload
  <2>1. payload[cur] \in Tokens /\ scan = "take"
    BY <1>6, CurrentOwner DEF TakePayload
  <2>2. write[payload[cur]] \in IF landed THEN {"landed"} ELSE {"landed", "lost"}
    BY <2>1 DEF SettledInv
  <2>3. write' = write /\ scan' = "bits"
    BY <1>6 DEF TakePayload
  <2>4. \A u \in Tokens \ {payload[cur]} : woken'[u] = woken[u] /\ dead'[u] = dead[u]
    BY <1>6 DEF TakePayload, CoreInv, TypeOK
  <2>5. CASE landed
    <3>1. dead' = dead
      BY <1>6, <2>5 DEF TakePayload
    <3> QED BY <2>2, <2>3, <2>4, <2>5, <3>1 DEF SettledInv, SignalOnlyIfLanded
  <2>6. CASE ~landed
    <3>1. woken' = woken
      BY <1>6, <2>6 DEF TakePayload
    <3> QED BY <2>2, <2>3, <2>4, <2>6, <3>1 DEF SettledInv, SignalOnlyIfLanded
  <2> QED BY <2>5, <2>6
<1>7. CASE ClearBit
  <2>1. UNCHANGED <<write, payload, woken, dead, cur, landed>> /\ scan = "clear"
    BY <1>7 DEF ClearBit
  <2> QED BY <2>1 DEF SettledInv, SignalOnlyIfLanded
<1>8. CASE \/ (\E p \in BOOLEAN : StartPass(p)) \/ LoadWord \/ WordDone \/ WordsDone
           \/ Recycle \/ CountRetired
  <2>1. UNCHANGED <<write, woken, dead>> /\ scan' \notin {"clear", "take"}
    BY <1>8 DEF StartPass, LoadWord, WordDone, WordsDone, Recycle, CountRetired
  <2> QED BY <2>1 DEF SettledInv, SignalOnlyIfLanded
<1> QED BY <1>1, <1>2, <1>3, <1>4, <1>5, <1>6, <1>7, <1>8
     DEF Next, ScannerStep, PassStep

-----------------------------------------------------------------------------

\* A new table, with every index free and nothing registered, satisfies it.
LEMMA InitInv == Init => IndInv
<1> SUFFICES ASSUME Init PROVE IndInv
  OBVIOUS
<1> USE SlotAssumption, NoneAssumption DEF Init, Slots
<1>1. TypeOK
  <2>1. word \in 0 .. NumWords /\ cur \in Slots
    BY NumWordsNat
  <2>2. free \in [Slots -> Nat] /\ flag \in [Slots -> {0, 1}] /\ nArmed \in Int
    OBVIOUS
  <2>3. woken \in [Tokens -> Nat] /\ dead \in [Tokens -> Nat]
    OBVIOUS
  <2>4. /\ reg \in [Tokens -> RegStates] /\ slot \in [Tokens -> Slots \cup {None}]
        /\ wasIdle \in [Tokens -> BOOLEAN]
    BY DEF RegStates
  <2> QED BY <2>1, <2>2, <2>3, <2>4 DEF TypeOK, ScanStates
<1>2. \A t \in Tokens : ~Holds(t)
  BY DEF Holds
<1>3. StageInv /\ SlotOwnedOnce /\ PayloadInv
  BY <1>2 DEF StageInv, SlotOwnedOnce, Awaiting, PayloadInv
<1>4. ScanInv /\ PublishedVisible /\ TruthInv
  BY <1>2 DEF ScanInv, PublishedVisible, TruthInv, FlagInv, SettledInv, SignalOnlyIfLanded
<1>5. Counted = {} /\ retired = {}
  BY <1>2 DEF Counted
<1>6. CountInv
  BY <1>5, FS_EmptySet DEF CountInv
<1> QED BY <1>1, <1>3, <1>4, <1>6 DEF IndInv, TableInv, CoreInv

\* The table's discipline survives every step, whatever is_dead answers.
LEMMA TableStep == TableInv /\ [TableNext]_vars => TableInv'
<1> SUFFICES ASSUME TableInv, [TableNext]_vars PROVE TableInv'
  OBVIOUS
<1>1. CASE TableNext
  <2>1. CoreInv
    BY DEF TableInv
  <2>2. ASSUME NEW t \in Tokens, RegisterStep(t)
        PROVE  CoreInv'
    BY <2>1, <2>2, ClaimStep, ClaimExhaustedStep, ResetFlagStep, ArmStep,
       ArmRefusedStep, ReleaseStep, WritePayloadStep, CountArmedStep, SetBitStep
    DEF RegisterStep
  <2>3. ASSUME \/ \E t \in Tokens : FlagWrite(t)
               \/ \E lost \in SUBSET Tokens : FlagWritesLost(lost)
        PROVE  CoreInv'
    BY <2>1, <2>3, FlagWriteStep, FlagWritesLostStep
  <2>4. ASSUME ScannerStep \/ ProbeSlot(TRUE)
        PROVE  CoreInv'
    BY <2>1, <2>4, StartPassStep, LoadWordStep, WordDoneStep, LoadFlagStep,
       ClearBitStep, TakePayloadStep, WordsDoneStep, RecycleStep,
       CountRetiredStep, ProbeSlotStep
    DEF ScannerStep, PassStep, ProbeDead, ProbeAlive
  <2>5. CoreInv'
    BY <1>1, <2>2, <2>3, <2>4 DEF TableNext, Next
  <2> QED BY <1>1, <2>5, CountStep DEF TableInv
<1>2. CASE UNCHANGED vars
  BY <1>2
  DEF vars, tableVars, regVars, scanVars, TableInv, CoreInv, TypeOK, StageInv,
      SlotOwnedOnce, Awaiting, PayloadInv, ScanInv, PublishedVisible, CountInv,
      Counted, Holds
<1> QED BY <1>1, <1>2

\* Every step of register(), of the device and of scan_inner preserves the
\* whole invariant, as long as is_dead keeps its contract.
LEMMA NextInv == IndInv /\ [Next]_vars => IndInv'
<1> SUFFICES ASSUME IndInv, [Next]_vars PROVE IndInv'
  OBVIOUS
<1>1. TableInv'
  BY TableStep DEF IndInv, TableNext
<1>2. CASE Next
  <2>1. TruthInv'
    BY <1>2, FlagStep, SettledStep DEF IndInv, TableInv, TruthInv
  <2> QED BY <1>1, <2>1 DEF IndInv
<1>3. CASE UNCHANGED vars
  <2>1. TruthInv'
    BY <1>3 DEF vars, tableVars, regVars, scanVars, IndInv, TruthInv, FlagInv, SettledInv,
       SignalOnlyIfLanded, Holds
  <2> QED BY <1>1, <2>1 DEF IndInv
<1> QED BY <1>2, <1>3

\* The invariant of the completion-slot protocol holds in every reachable state.
THEOREM Invariance == Spec => []IndInv
BY InitInv, NextInv, PTL DEF Spec

\* Type correctness of the slot table, its registrants and its scanner.
THEOREM TypeCorrect == Spec => []TypeOK
<1>1. IndInv => TypeOK
  BY DEF IndInv, TableInv, CoreInv
<1> QED BY <1>1, Invariance, PTL

\* No index is ever on the free list twice, or there and in use.
THEOREM OwnedOnce == Spec => []SlotOwnedOnce
<1>1. IndInv => SlotOwnedOnce
  BY DEF IndInv, TableInv, CoreInv
<1> QED BY <1>1, Invariance, PTL

\* A registration is signalled only by its own device write.
THEOREM SignalSound == Spec => []SignalOnlyIfLanded
<1>1. IndInv => SignalOnlyIfLanded
  BY DEF IndInv, TruthInv, SettledInv
<1> QED BY <1>1, Invariance, PTL

\* No registration's payload is taken out of the table twice.
THEOREM DeliveredAtMostOnce == Spec => []DeliveredOnce
<1>1. IndInv => DeliveredOnce
  BY DEF IndInv, TableInv, CoreInv, StageInv, DeliveredOnce
<1> QED BY <1>1, Invariance, PTL

\* The owner of a cell that the scanner reads has published it.
LEMMA ExclusiveCell == TableInv => PayloadExclusive
BY CurrentOwner DEF TableInv, PayloadExclusive

\* The payload cell is never accessed by a producer and the scanner at once.
THEOREM CellExclusive == Spec => []PayloadExclusive
<1>1. IndInv => PayloadExclusive
  BY ExclusiveCell DEF IndInv
<1> QED BY <1>1, Invariance, PTL

\* The counter counts the retired slots as well, and whatever is published.
LEMMA SoundCounter == TableInv => NoUnderflow /\ IdleGate
<1>1. ASSUME TableInv PROVE NoUnderflow
  <2>1. Cardinality(retired) \in Nat
    BY <1>1, FiniteSlots DEF TableInv, CoreInv, TypeOK
  <2> QED BY <1>1, <2>1, FiniteCounted DEF TableInv, CountInv, NoUnderflow
<1>2. ASSUME TableInv, nArmed = 0
      PROVE  active = {} /\ \A t \in Tokens : ~(Holds(t) /\ reg[t] = "published")
  <2> USE <1>2 DEF TableInv, CoreInv
  <2>1. Cardinality(retired) \in Nat
    BY FiniteSlots DEF TypeOK
  <2>2. Cardinality(Counted) = 0
    BY <2>1, FiniteCounted DEF CountInv
  <2>3. Counted = {}
    BY <2>2, FiniteCounted, FS_EmptySet
  <2>4. \A t \in Tokens : ~(Holds(t) /\ reg[t] = "published")
    BY <2>3 DEF Counted
  <2>5. \A s \in active : FALSE
    BY <2>4 DEF ScanInv, PayloadInv, TypeOK
  <2> QED BY <2>4, <2>5
<1> QED BY <1>1, <1>2 DEF IdleGate

\* The armed counter never underflows, and reads 0 only if the scanner may
\* park: no slot is visible in the bitmap and none waits for the scanner.
THEOREM CounterSound == Spec => [](NoUnderflow /\ IdleGate)
<1>1. IndInv => NoUnderflow /\ IdleGate
  BY SoundCounter DEF IndInv
<1> QED BY <1>1, Invariance, PTL
=============================================================================
