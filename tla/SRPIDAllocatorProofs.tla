------------------------- MODULE SRPIDAllocatorProofs -------------------------
(***************************************************************************)
(* SRP-ID allocation is sound for every number of goroutines and every     *)
(* width of the SRP-ID: types, the scan's invariant, and that the scan     *)
(* implements the atomic pool.                                             *)
(***************************************************************************)
EXTENDS SRPIDAllocator, TLAPS

(* Wrapping keeps a head within the IDs that are not reserved.             *)
LEMMA WrappedIsID ==
    ASSUME NEW h \in 1 .. MaxSRPID
    PROVE  Wrapped(h) \in IDs
  BY AllocatorAssumption DEF Wrapped, IDs, capacity

(* A scan that has passed over capacity candidates has passed over every   *)
(* ID: the candidates go once around the circle of IDs.                    *)
LEMMA CandidatesCover ==
    ASSUME srpIDHead \in 1 .. MaxSRPID, NEW id \in IDs
    PROVE  \E k \in 0 .. (capacity - 1) : Candidate(k) = id
<1> DEFINE start == Wrapped(srpIDHead)
<1>1. start \in IDs
  BY WrappedIsID
<1>2. CASE id >= start
  <2>1. id - start \in 0 .. (capacity - 1) /\ Candidate(id - start) = id
    BY <1>1, <1>2, AllocatorAssumption DEF Candidate, IDs, capacity
  <2> QED
    BY <2>1
<1>3. CASE id < start
  <2>1. id - start + capacity \in 0 .. (capacity - 1)
    BY <1>1, <1>3, AllocatorAssumption DEF IDs, capacity
  <2>2. Candidate(id - start + capacity) = id
    BY <1>1, <1>3, AllocatorAssumption DEF Candidate, IDs, capacity
  <2> QED
    BY <2>1, <2>2
<1> QED
  BY <1>1, <1>2, <1>3, AllocatorAssumption DEF IDs, capacity

(* The inductive invariant: types cannot be kept without the scan's part,  *)
(* because the ID a caller remembers is in range only when it was found.   *)
IInv == TypeOK /\ ScanSound

LEMMA InitInductive == Init => IInv
  BY AllocatorAssumption
     DEF Init, IInv, TypeOK, ScanSound, capacity, IDs

(* Every step keeps the types.                                             *)
LEMMA TypeStep == IInv /\ [Next]_vars => TypeOK'
<1> SUFFICES ASSUME IInv, [Next]_vars
             PROVE  TypeOK'
  OBVIOUS
<1> USE AllocatorAssumption DEF IInv, TypeOK, IDs, capacity
<1>1. ASSUME NEW c \in Callers, Call(c) PROVE TypeOK'
  BY <1>1 DEF Call
<1>2. ASSUME NEW c \in Callers, Lock(c) PROVE TypeOK'
  BY <1>2 DEF Lock, EnterScan
<1>3. ASSUME NEW c \in Callers, ProbeUsed(c) PROVE TypeOK'
  BY <1>3 DEF ProbeUsed, Wrapped
<1>4. ASSUME NEW c \in Callers, ProbeUnused(c) PROVE TypeOK'
  BY <1>4 DEF ProbeUnused, Wrapped
<1>5. ASSUME NEW c \in Callers, Exhaust(c) PROVE TypeOK'
  BY <1>5 DEF Exhaust, LeaveScan
<1>6. ASSUME NEW c \in Callers, Remember(c) PROVE TypeOK'
  <2>1. srpID[c] \in IDs
    BY <1>6 DEF Remember, ScanSound
  <2>2. srPolicyIntents' \in SUBSET IDs
    BY <1>6, <2>1 DEF Remember
  <2>3. pc' \in [Callers -> {"idle", "lock", "scan", "remember", "send", "refused"}]
    BY <1>6 DEF Remember
  <2> QED
    BY <1>6, <2>2, <2>3 DEF Remember, LeaveScan
<1>7. ASSUME NEW c \in Callers, Sent(c) PROVE TypeOK'
  <2>1. srpID' \in [Callers -> 0 .. capacity]
    BY <1>7 DEF Sent
  <2> QED
    BY <1>7, <2>1 DEF Sent
<1>8. ASSUME NEW c \in Callers, SendFails(c) PROVE TypeOK'
  <2>1. srpID' \in [Callers -> 0 .. capacity]
    BY <1>8 DEF SendFails
  <2> QED
    BY <1>8, <2>1 DEF SendFails
<1>9. ASSUME NEW c \in Callers, ReturnError(c) PROVE TypeOK'
  BY <1>9 DEF ReturnError
<1>10. ASSUME NEW S \in SUBSET IDs, Drop(S) PROVE TypeOK'
  BY <1>10 DEF Drop
<1>11. CASE UNCHANGED vars
  BY <1>11 DEF vars
<1> QED
  BY <1>1, <1>2, <1>3, <1>4, <1>5, <1>6, <1>7, <1>8, <1>9, <1>10, <1>11
     DEF Next, CallerStep

(* Every step keeps the scan sound.                                        *)
LEMMA ScanStep == IInv /\ [Next]_vars => ScanSound'
<1> SUFFICES ASSUME IInv, [Next]_vars
             PROVE  ScanSound'
  OBVIOUS
<1> USE AllocatorAssumption DEF IInv, TypeOK, ScanSound
<1>1. ASSUME NEW c \in Callers, Call(c) PROVE ScanSound'
  BY <1>1 DEF Call, Candidate
<1>2. ASSUME NEW c \in Callers, Lock(c) PROVE ScanSound'
  BY <1>2, WrappedIsID DEF Lock, EnterScan, Candidate, IDs, capacity
<1>3. ASSUME NEW c \in Callers, ProbeUsed(c) PROVE ScanSound'
  BY <1>3, WrappedIsID DEF ProbeUsed, Candidate, IDs, capacity, Wrapped
<1>4. ASSUME NEW c \in Callers, ProbeUnused(c) PROVE ScanSound'
  BY <1>4, WrappedIsID DEF ProbeUnused, Candidate, IDs, capacity
<1>5. ASSUME NEW c \in Callers, Exhaust(c) PROVE ScanSound'
  BY <1>5 DEF Exhaust, LeaveScan
<1>6. ASSUME NEW c \in Callers, Remember(c) PROVE ScanSound'
  BY <1>6 DEF Remember, LeaveScan
<1>7. ASSUME NEW c \in Callers, Sent(c) PROVE ScanSound'
  BY <1>7 DEF Sent, Candidate
<1>8. ASSUME NEW c \in Callers, SendFails(c) PROVE ScanSound'
  BY <1>8 DEF SendFails, Candidate
<1>9. ASSUME NEW c \in Callers, ReturnError(c) PROVE ScanSound'
  BY <1>9 DEF ReturnError, Candidate
<1>10. ASSUME NEW S \in SUBSET IDs, Drop(S) PROVE ScanSound'
  BY <1>10 DEF Drop, Candidate
<1>11. CASE UNCHANGED vars
  BY <1>11 DEF vars, Candidate
<1> QED
  BY <1>1, <1>2, <1>3, <1>4, <1>5, <1>6, <1>7, <1>8, <1>9, <1>10, <1>11
     DEF Next, CallerStep

LEMMA Inductive == Spec => []IInv
<1>1. IInv /\ [Next]_vars => IInv'
  BY TypeStep, ScanStep DEF IInv
<1> QED
  BY <1>1, InitInductive, PTL DEF Spec

(* The types of the variables hold in every state, for any MaxSRPID: in    *)
(* particular no reserved SRP-ID is ever remembered.                       *)
THEOREM TypeCorrect == Spec => []TypeOK
  BY Inductive, PTL DEF IInv

(* The scan of allocateSRPID is sound under any interleaving with the      *)
(* goroutines that delete intents.                                         *)
THEOREM ScanIsSound == Spec => []ScanSound
  BY Inductive, PTL DEF IInv

(* The scan implements the atomic pool: it starts as the pool does, and    *)
(* each of its steps is a step of the pool or invisible to it.             *)
LEMMA PoolStart == Init => Pool!PoolInit
  BY DEF Init, Pool!PoolInit, Phase

LEMMA PoolStep == IInv /\ [Next]_vars => [Pool!PoolNext]_(Pool!poolVars)
<1> DEFINE phase == [c \in Callers |-> Phase(c)]
           held == [c \in Callers |-> IF pc[c] = "send" THEN srpID[c] ELSE 0]
<1> SUFFICES ASSUME IInv, [Next]_vars
             PROVE  Pool!PoolNext \/ UNCHANGED <<srPolicyIntents, phase, held>>
  BY DEF Pool!poolVars
<1> USE DEF IInv, TypeOK
<1>1. ASSUME NEW c \in Callers, Call(c) PROVE UNCHANGED <<srPolicyIntents, phase, held>>
  BY <1>1 DEF Call, Phase
<1>2. ASSUME NEW c \in Callers, Lock(c) PROVE Pool!Request(c)
  <2>1. \A d \in Callers : pc[d] \notin {"scan", "remember"}
    BY <1>2, AllocatorAssumption DEF Lock, ScanSound
  <2> QED
    BY <1>2, <2>1 DEF Lock, EnterScan, Phase, Pool!Request
<1>3. ASSUME NEW c \in Callers, ProbeUsed(c) PROVE UNCHANGED <<srPolicyIntents, phase, held>>
  BY <1>3 DEF ProbeUsed, Phase
<1>4. ASSUME NEW c \in Callers, ProbeUnused(c) PROVE UNCHANGED <<srPolicyIntents, phase, held>>
  BY <1>4 DEF ProbeUnused, Phase
<1>5. ASSUME NEW c \in Callers, Exhaust(c) PROVE Pool!Refuse(c)
  <2>1. usedAtLock = IDs
    BY <1>5, CandidatesCover, AllocatorAssumption DEF Exhaust, ScanSound, capacity
  <2>2. \A d \in Callers : d # c => pc[d] \notin {"scan", "remember"}
    BY <1>5 DEF Exhaust, ScanSound
  <2> QED
    BY <1>5, <2>1, <2>2 DEF Exhaust, LeaveScan, Phase, Pool!Refuse
<1>6. ASSUME NEW c \in Callers, Remember(c)
      PROVE  \E id \in IDs : Pool!Grant(c, id)
  <2>1. srpID[c] \in IDs
    BY <1>6, AllocatorAssumption DEF Remember, ScanSound, IDs
  <2>2. PICK id \in IDs : id = srpID[c]
    BY <2>1
  <2>3. Pool!Grant(c, id)
    BY <1>6, <2>2 DEF Remember, LeaveScan, Phase, Pool!Grant, ScanSound
  <2> QED
    BY <2>3
<1>7. ASSUME NEW c \in Callers, Sent(c) PROVE Pool!Return(c)
  BY <1>7 DEF Sent, Phase, Pool!Return
<1>8. ASSUME NEW c \in Callers, SendFails(c) PROVE Pool!GiveBack(c)
  BY <1>8 DEF SendFails, Phase, Pool!GiveBack
<1>9. ASSUME NEW c \in Callers, ReturnError(c) PROVE Pool!Return(c)
  BY <1>9 DEF ReturnError, Phase, Pool!Return
<1>10. ASSUME NEW S \in SUBSET IDs, Drop(S) PROVE Pool!Release(S)
  BY <1>10 DEF Drop, Phase, Pool!Release
<1>11. CASE UNCHANGED vars
  BY <1>11 DEF vars, Phase
<1> HIDE DEF phase, held
<1>12. ASSUME NEW c \in Callers, CallerStep(c)
       PROVE  Pool!PoolNext \/ UNCHANGED <<srPolicyIntents, phase, held>>
  <2>1. CASE Lock(c)
    BY <2>1, <1>2 DEF Pool!PoolNext
  <2>2. CASE ProbeUsed(c) \/ ProbeUnused(c)
    BY <2>2, <1>3, <1>4
  <2>3. CASE Exhaust(c)
    BY <2>3, <1>5 DEF Pool!PoolNext
  <2>4. CASE Remember(c)
    BY <2>4, <1>6 DEF Pool!PoolNext
  <2>5. CASE Sent(c)
    BY <2>5, <1>7 DEF Pool!PoolNext
  <2>6. CASE SendFails(c)
    BY <2>6, <1>8 DEF Pool!PoolNext
  <2>7. CASE ReturnError(c)
    BY <2>7, <1>9 DEF Pool!PoolNext
  <2> QED
    BY <1>12, <2>1, <2>2, <2>3, <2>4, <2>5, <2>6, <2>7 DEF CallerStep
<1>13. ASSUME NEW S \in SUBSET IDs, Drop(S) PROVE Pool!PoolNext
  BY <1>13, <1>10 DEF Pool!PoolNext
<1> QED
  BY <1>1, <1>11, <1>12, <1>13 DEF Next

(* allocateSRPID keeps the promise of the abstract pool for every number   *)
(* of goroutines and every MaxSRPID: an ID is granted only while no intent *)
(* uses it, and a call fails only if no ID was free when its scan began.   *)
THEOREM AllocatorImplementsPool == Spec => ImplementsPool
  BY Inductive, PoolStart, PoolStep, PTL DEF Spec, ImplementsPool, Pool!PoolSpec
===============================================================================
