---------------------------- MODULE SRPIDAllocator ----------------------------
(***************************************************************************)
(* SRP-ID allocation as pkg/server/session.go does it, one lock operation  *)
(* at a time.  allocateSRPID holds srpIDMu while nextUnusedSRPID probes    *)
(* candidate after candidate; every probe takes and drops                  *)
(* srPolicyIntentsMu, so the receiver goroutine, the sweeper, a failed     *)
(* sender and closeSession delete intents between two probes.  Only a      *)
(* holder of srpIDMu adds one.                                             *)
(***************************************************************************)
EXTENDS Integers

CONSTANTS Callers,    \* goroutines that send PCInitiate or PCUpd
          MaxSRPID,   \* math.MaxUint32 in the code: 0 and MaxSRPID are reserved
          NoCaller    \* srpIDMu is free

ASSUME AllocatorAssumption ==
    /\ MaxSRPID \in Nat
    /\ MaxSRPID >= 2
    /\ NoCaller \notin Callers

VARIABLES srpIDMu,          \* holder of Session.srpIDMu
          srpIDHead,        \* Session.srpIDHead
          srPolicyIntents,  \* keys of Session.srPolicyIntents
          pc,               \* where each caller stands
          head,             \* the scan's local head
          attempts,         \* candidates the scan has tried
          srpID,            \* the ID a caller was given
          usedAtLock        \* history: the keys when srpIDMu was taken

vars == <<srpIDMu, srpIDHead, srPolicyIntents, pc, head, attempts, srpID,
          usedAtLock>>

capacity == MaxSRPID - 1
IDs == 1 .. capacity

(* The scan's reset of a head that has run into a reserved value.          *)
WrappedLate(h) == IF h = 0 \/ h > MaxSRPID THEN 1 ELSE h  \* mutant: >= read as >
Wrapped(h) == IF h = 0 \/ h >= MaxSRPID THEN 1 ELSE h

Init ==
    /\ srpIDMu = NoCaller
    /\ srpIDHead = 1
    /\ srPolicyIntents = {}
    /\ pc = [c \in Callers |-> "idle"]
    /\ head = 1
    /\ attempts = 0
    /\ srpID = [c \in Callers |-> 0]
    /\ usedAtLock = {}

(* SendPCInitiate or SendPCUpdate is called.                               *)
Call(c) ==
    /\ pc[c] = "idle"
    /\ pc' = [pc EXCEPT ![c] = "lock"]
    /\ UNCHANGED <<srpIDMu, srpIDHead, srPolicyIntents, head, attempts, srpID,
                   usedAtLock>>

EnterScan(c) ==
    /\ srpIDMu' = c
    /\ pc' = [pc EXCEPT ![c] = "scan"]
    /\ head' = srpIDHead
    /\ attempts' = 0
    /\ usedAtLock' = srPolicyIntents
    /\ UNCHANGED <<srpIDHead, srPolicyIntents, srpID>>

LockIgnored(c) == pc[c] = "lock" /\ EnterScan(c)  \* mutant: no mutual exclusion
Lock(c) ==
    /\ pc[c] = "lock"
    /\ srpIDMu = NoCaller
    /\ EnterScan(c)

(* One turn of the loop whose candidate has an intent.                     *)
ProbeUsed(c) ==
    /\ pc[c] = "scan"
    /\ attempts < capacity
    /\ Wrapped(head) \in srPolicyIntents
    /\ head' = Wrapped(head) + 1
    /\ attempts' = attempts + 1
    /\ UNCHANGED <<srpIDMu, srpIDHead, srPolicyIntents, pc, srpID, usedAtLock>>

(* The turn that finds an unused candidate: the loop returns it.           *)
ProbeUnused(c) ==
    /\ pc[c] = "scan"
    /\ attempts < capacity
    /\ Wrapped(head) \notin srPolicyIntents
    /\ srpID' = [srpID EXCEPT ![c] = Wrapped(head)]
    /\ head' = Wrapped(head) + 1
    /\ pc' = [pc EXCEPT ![c] = "remember"]
    /\ UNCHANGED <<srpIDMu, srpIDHead, srPolicyIntents, attempts, usedAtLock>>

(* srpIDMu is released and the scan's locals go out of scope.              *)
LeaveScan ==
    /\ srpIDMu' = NoCaller
    /\ head' = 1
    /\ attempts' = 0
    /\ usedAtLock' = {}

(* The scan has tried every candidate: the error path stores no head.      *)
ExhaustEarly(c) ==                         \* mutant: the last candidate untried
    /\ pc[c] = "scan"
    /\ attempts >= capacity - 1
    /\ pc' = [pc EXCEPT ![c] = "refused"]
    /\ LeaveScan
    /\ UNCHANGED <<srpIDHead, srPolicyIntents, srpID>>
ExhaustLocked(c) ==                        \* mutant: the error path keeps srpIDMu
    /\ pc[c] = "scan"
    /\ attempts >= capacity
    /\ pc' = [pc EXCEPT ![c] = "refused"]
    /\ UNCHANGED <<srpIDMu, srpIDHead, srPolicyIntents, head, attempts, srpID,
                   usedAtLock>>
Exhaust(c) ==
    /\ pc[c] = "scan"
    /\ attempts >= capacity
    /\ pc' = [pc EXCEPT ![c] = "refused"]
    /\ LeaveScan
    /\ UNCHANGED <<srpIDHead, srPolicyIntents, srpID>>

Remember(c) ==
    /\ pc[c] = "remember"
    /\ srpIDHead' = head
    /\ srPolicyIntents' = srPolicyIntents \cup {srpID[c]}
    /\ pc' = [pc EXCEPT ![c] = "send"]
    /\ LeaveScan
    /\ UNCHANGED srpID

(* The message is written: its intent now waits for an answer.             *)
Sent(c) ==
    /\ pc[c] = "send"
    /\ pc' = [pc EXCEPT ![c] = "idle"]
    /\ srpID' = [srpID EXCEPT ![c] = 0]
    /\ UNCHANGED <<srpIDMu, srpIDHead, srPolicyIntents, head, attempts, usedAtLock>>

(* Building or writing the message failed: forgetSRPolicyIntent.           *)
SendFails(c) ==
    /\ pc[c] = "send"
    /\ srPolicyIntents' = srPolicyIntents \ {srpID[c]}
    /\ pc' = [pc EXCEPT ![c] = "idle"]
    /\ srpID' = [srpID EXCEPT ![c] = 0]
    /\ UNCHANGED <<srpIDMu, srpIDHead, head, attempts, usedAtLock>>

(* The error goes back to the caller.                                      *)
ReturnError(c) ==
    /\ pc[c] = "refused"
    /\ pc' = [pc EXCEPT ![c] = "idle"]
    /\ UNCHANGED <<srpIDMu, srpIDHead, srPolicyIntents, head, attempts, srpID,
                   usedAtLock>>

(* A PCRpt takes an intent, a PCErr or an R-flag PCRpt forgets one, the    *)
(* sweeper removes the expired ones, closeSession clears them all.         *)
Drop(S) ==
    /\ srPolicyIntents \cap S # {}
    /\ srPolicyIntents' = srPolicyIntents \ S
    /\ UNCHANGED <<srpIDMu, srpIDHead, pc, head, attempts, srpID, usedAtLock>>

CallerStep(c) ==
    \/ Lock(c) \/ ProbeUsed(c) \/ ProbeUnused(c) \/ Exhaust(c) \/ Remember(c)
    \/ Sent(c) \/ SendFails(c) \/ ReturnError(c)

Next ==
    \/ \E c \in Callers : Call(c) \/ CallerStep(c)
    \/ \E S \in SUBSET IDs : Drop(S)

(* A goroutine keeps running, and sync.Mutex hands itself to a waiter that *)
(* has starved, so a lock wanted for ever is obtained.                     *)
Fairness ==
    \A c \in Callers : WF_vars(CallerStep(c)) /\ SF_vars(Lock(c))

Spec == Init /\ [][Next]_vars
FairSpec == Spec /\ Fairness

------------------------------------------------------------------------------
(* Properties *)

TypeOK ==
    /\ srpIDMu \in Callers \cup {NoCaller}
    /\ srpIDHead \in 1 .. MaxSRPID
    /\ srPolicyIntents \in SUBSET IDs
    /\ pc \in [Callers -> {"idle", "lock", "scan", "remember", "send", "refused"}]
    /\ head \in 1 .. MaxSRPID
    /\ attempts \in 0 .. capacity
    /\ srpID \in [Callers -> 0 .. capacity]
    /\ usedAtLock \in SUBSET IDs

(* The k-th candidate of a scan that starts from the stored head.          *)
Candidate(k) ==
    LET s == Wrapped(srpIDHead) + k
    IN  IF s <= capacity THEN s ELSE s - capacity

(* The mutex makes a scan sound: while a caller holds srpIDMu nobody adds  *)
(* an intent, so whatever the scan has passed over was in use when it      *)
(* began, and the ID it is about to remember is still unused.              *)
ScanSound ==
    \A c \in Callers :
       /\ pc[c] \in {"scan", "remember"} <=> srpIDMu = c
       /\ pc[c] \in {"scan", "remember"} => srPolicyIntents \subseteq usedAtLock
       /\ pc[c] = "scan" =>
             /\ attempts < capacity => Wrapped(head) = Candidate(attempts)
             /\ \A k \in 0 .. (attempts - 1) : Candidate(k) \in usedAtLock
       /\ pc[c] = "remember" => srpID[c] \notin srPolicyIntents
       /\ pc[c] \in {"remember", "send"} <=> srpID[c] # 0

(* Every call that waits for srpIDMu comes to an end: an ID or an error.   *)
AllocationEnds == \A c \in Callers : pc[c] = "lock" ~> pc[c] = "idle"

(* The allocator implements the pool: an ID is granted only while no       *)
(* intent uses it, and refused only after a scan that began with none free.*)
Phase(c) ==
    CASE pc[c] \in {"idle", "lock"} -> "idle"
      [] pc[c] \in {"scan", "remember"} ->
             IF usedAtLock = IDs THEN "sawFull" ELSE "pending"
      [] pc[c] = "send" -> "granted"
      [] pc[c] = "refused" -> "refused"

Pool == INSTANCE SRPIDPool WITH
    used <- srPolicyIntents,
    phase <- [c \in Callers |-> Phase(c)],
    held <- [c \in Callers |-> IF pc[c] = "send" THEN srpID[c] ELSE 0]

ImplementsPool == Pool!PoolSpec
===============================================================================
