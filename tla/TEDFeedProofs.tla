---------------------------- MODULE TEDFeedProofs ----------------------------
(***************************************************************************)
(* Proofs about TEDFeed, for any set of debounce goroutines and any number *)
(* of table changes: type correctness, that one debounce goroutine runs at *)
(* a time, and that the feed implements TEDSnapshot.                       *)
(***************************************************************************)
EXTENDS TEDFeed, TLAPS

(* Until the first watch stream is asked for, initialSync alone hands the  *)
(* builder anything.                                                       *)
QuietUntilWatch ==
    monitor \in {"sync", "offer"} =>
       /\ builder = "receive"
       /\ ted = 0
       /\ \A w \in Workers : worker[w] = "none"

(* Nothing is newer than the table.                                        *)
TableIsNewest ==
    /\ ted <= rib /\ building <= rib /\ synced <= rib
    /\ \A w \in Workers : fetched[w] <= rib

(* What is further from the readers is not older: the published TED, the   *)
(* one being built, the elements a debounce goroutine has yet to deliver.  *)
VersionsOrdered ==
    /\ builder = "build" => ted <= building
    /\ \A w \in Workers : worker[w] \in {"check", "deliver"} =>
          /\ ted <= fetched[w]
          /\ builder = "build" => building <= fetched[w]

IInv == TypeOK /\ OneWorker /\ QuietUntilWatch /\ TableIsNewest /\ VersionsOrdered

(* Every initial state satisfies the invariant.                            *)
LEMMA InitInductive == Init => IInv
<1> SUFFICES ASSUME Init PROVE IInv
  OBVIOUS
<1>1. TypeOK
  <2>1. active \in BOOLEAN /\ recent \in BOOLEAN
    BY Zenon DEF Init
  <2>2. rib \in Nat /\ stream \in 0 .. rib /\ received \in Nat /\ heard \in Nat
        /\ synced \in Nat /\ building \in Nat /\ ted \in Nat
    BY DEF Init
  <2>3. fetched \in [Workers -> Nat]
    BY DEF Init
  <2> QED
    BY <2>1, <2>2, <2>3 DEF Init, TypeOK
<1>2. OneWorker /\ QuietUntilWatch
  BY DEF Init, OneWorker, QuietUntilWatch
<1>3. TableIsNewest /\ VersionsOrdered
  BY DEF Init, TableIsNewest, VersionsOrdered
<1> QED
  BY <1>1, <1>2, <1>3 DEF IInv

(* Every step keeps the types.                                             *)
LEMMA TypeStep == IInv /\ [Next]_vars => TypeOK'
<1> SUFFICES ASSUME IInv, [Next]_vars
             PROVE  TypeOK'
  OBVIOUS
<1> USE DEF IInv, TypeOK, OneWorker, monitorVars, debouncer, builderVars, history
<1>1. CASE TableChanges
  BY <1>1 DEF TableChanges
<1>2. CASE InitialFetch
  BY <1>2 DEF InitialFetch
<1>3. CASE InitialFetchFails
  BY <1>3 DEF InitialFetchFails
<1>4. CASE InitialOffer
  BY <1>4 DEF InitialOffer, Take
<1>5. CASE Watch
  BY <1>5 DEF Watch
<1>6. CASE Trigger
  BY <1>6 DEF Trigger, Recv, StartUnlessActive, Start
<1>7. CASE StreamError
  BY <1>7 DEF StreamError
<1>8. CASE StreamEOF
  BY <1>8 DEF StreamEOF
<1>9. CASE CoolDown
  BY <1>9 DEF CoolDown
<1>10. CASE SetTED
  BY <1>10 DEF SetTED
<1>11. ASSUME NEW w \in Workers, StopWaiting(w) PROVE TypeOK'
  BY <1>11 DEF StopWaiting
<1>12. ASSUME NEW w \in Workers, Fetch(w) PROVE TypeOK'
  BY <1>12 DEF Fetch
<1>13. ASSUME NEW w \in Workers, FetchError(w) PROVE TypeOK'
  BY <1>13 DEF FetchError
<1>14. ASSUME NEW w \in Workers, StillWanted(w) PROVE TypeOK'
  BY <1>14 DEF StillWanted
<1>15. ASSUME NEW w \in Workers, Deliver(w) PROVE TypeOK'
  BY <1>15 DEF Deliver, Take
<1>16. ASSUME NEW w \in Workers, Cancelled(w) PROVE TypeOK'
  BY <1>16 DEF Cancelled
<1>17. ASSUME NEW w \in Workers, Leave(w) PROVE TypeOK'
  BY <1>17 DEF Leave
<1>18. CASE UNCHANGED vars
  BY <1>18 DEF vars
<1> QED
  BY <1>1, <1>2, <1>3, <1>4, <1>5, <1>6, <1>7, <1>8, <1>9, <1>10, <1>11,
     <1>12, <1>13, <1>14, <1>15, <1>16, <1>17, <1>18
     DEF Next, MonitorStep, WorkerStep

(* Every step keeps the debounce goroutines to one.                        *)
LEMMA OneWorkerStep == IInv /\ [Next]_vars => OneWorker'
<1> SUFFICES ASSUME IInv, [Next]_vars
             PROVE  OneWorker'
  OBVIOUS
<1> USE DEF IInv, TypeOK, OneWorker, monitorVars, debouncer, builderVars, history
<1>1. CASE TableChanges
  BY <1>1 DEF TableChanges
<1>2. CASE InitialFetch
  BY <1>2 DEF InitialFetch
<1>3. CASE InitialFetchFails
  BY <1>3 DEF InitialFetchFails
<1>4. CASE InitialOffer
  BY <1>4 DEF InitialOffer, Take
<1>5. CASE Watch
  BY <1>5 DEF Watch
<1>6. CASE Trigger
  BY <1>6 DEF Trigger, Recv, StartUnlessActive, Start
<1>7. CASE StreamError
  BY <1>7 DEF StreamError
<1>8. CASE StreamEOF
  BY <1>8 DEF StreamEOF
<1>9. CASE CoolDown
  BY <1>9 DEF CoolDown
<1>10. CASE SetTED
  BY <1>10 DEF SetTED
<1>11. ASSUME NEW w \in Workers, StopWaiting(w) PROVE OneWorker'
  BY <1>11 DEF StopWaiting
<1>12. ASSUME NEW w \in Workers, Fetch(w) PROVE OneWorker'
  BY <1>12 DEF Fetch
<1>13. ASSUME NEW w \in Workers, FetchError(w) PROVE OneWorker'
  BY <1>13 DEF FetchError
<1>14. ASSUME NEW w \in Workers, StillWanted(w) PROVE OneWorker'
  BY <1>14 DEF StillWanted
<1>15. ASSUME NEW w \in Workers, Deliver(w) PROVE OneWorker'
  BY <1>15 DEF Deliver, Take
<1>16. ASSUME NEW w \in Workers, Cancelled(w) PROVE OneWorker'
  BY <1>16 DEF Cancelled
<1>17. ASSUME NEW w \in Workers, Leave(w) PROVE OneWorker'
  BY <1>17 DEF Leave
<1>18. CASE UNCHANGED vars
  BY <1>18 DEF vars
<1> QED
  BY <1>1, <1>2, <1>3, <1>4, <1>5, <1>6, <1>7, <1>8, <1>9, <1>10, <1>11,
     <1>12, <1>13, <1>14, <1>15, <1>16, <1>17, <1>18
     DEF Next, MonitorStep, WorkerStep

(* Nothing but initialSync moves before the watch.                         *)
LEMMA QuietStep == IInv /\ [Next]_vars => QuietUntilWatch'
<1> SUFFICES ASSUME IInv, [Next]_vars
             PROVE  QuietUntilWatch'
  OBVIOUS
<1> USE DEF IInv, TypeOK, QuietUntilWatch, monitorVars, debouncer, builderVars, history
<1>1. CASE TableChanges
  BY <1>1 DEF TableChanges
<1>2. CASE InitialFetch
  BY <1>2 DEF InitialFetch
<1>3. CASE InitialFetchFails
  BY <1>3 DEF InitialFetchFails
<1>4. CASE InitialOffer
  BY <1>4 DEF InitialOffer, Take
<1>5. CASE Watch
  BY <1>5 DEF Watch
<1>6. CASE Trigger
  BY <1>6 DEF Trigger, Recv, StartUnlessActive, Start
<1>7. CASE StreamError
  BY <1>7 DEF StreamError
<1>8. CASE StreamEOF
  BY <1>8 DEF StreamEOF
<1>9. CASE CoolDown
  BY <1>9 DEF CoolDown
<1>10. CASE SetTED
  BY <1>10 DEF SetTED
<1>11. ASSUME NEW w \in Workers, StopWaiting(w) PROVE QuietUntilWatch'
  BY <1>11 DEF StopWaiting
<1>12. ASSUME NEW w \in Workers, Fetch(w) PROVE QuietUntilWatch'
  BY <1>12 DEF Fetch
<1>13. ASSUME NEW w \in Workers, FetchError(w) PROVE QuietUntilWatch'
  BY <1>13 DEF FetchError
<1>14. ASSUME NEW w \in Workers, StillWanted(w) PROVE QuietUntilWatch'
  BY <1>14 DEF StillWanted
<1>15. ASSUME NEW w \in Workers, Deliver(w) PROVE QuietUntilWatch'
  BY <1>15 DEF Deliver, Take
<1>16. ASSUME NEW w \in Workers, Cancelled(w) PROVE QuietUntilWatch'
  BY <1>16 DEF Cancelled
<1>17. ASSUME NEW w \in Workers, Leave(w) PROVE QuietUntilWatch'
  BY <1>17 DEF Leave
<1>18. CASE UNCHANGED vars
  BY <1>18 DEF vars
<1> QED
  BY <1>1, <1>2, <1>3, <1>4, <1>5, <1>6, <1>7, <1>8, <1>9, <1>10, <1>11,
     <1>12, <1>13, <1>14, <1>15, <1>16, <1>17, <1>18
     DEF Next, MonitorStep, WorkerStep

(* No step makes a version newer than the table's.                         *)
LEMMA NewestStep == IInv /\ [Next]_vars => TableIsNewest'
<1> SUFFICES ASSUME IInv, [Next]_vars
             PROVE  TableIsNewest'
  OBVIOUS
<1> USE DEF IInv, TypeOK, TableIsNewest, monitorVars, debouncer, builderVars, history
<1>1. CASE TableChanges
  BY <1>1 DEF TableChanges
<1>2. CASE InitialFetch
  BY <1>2 DEF InitialFetch
<1>3. CASE InitialFetchFails
  BY <1>3 DEF InitialFetchFails
<1>4. CASE InitialOffer
  BY <1>4 DEF InitialOffer, Take
<1>5. CASE Watch
  BY <1>5 DEF Watch
<1>6. CASE Trigger
  BY <1>6 DEF Trigger, Recv, StartUnlessActive, Start
<1>7. CASE StreamError
  BY <1>7 DEF StreamError
<1>8. CASE StreamEOF
  BY <1>8 DEF StreamEOF
<1>9. CASE CoolDown
  BY <1>9 DEF CoolDown
<1>10. CASE SetTED
  BY <1>10 DEF SetTED
<1>11. ASSUME NEW w \in Workers, StopWaiting(w) PROVE TableIsNewest'
  BY <1>11 DEF StopWaiting
<1>12. ASSUME NEW w \in Workers, Fetch(w) PROVE TableIsNewest'
  BY <1>12 DEF Fetch
<1>13. ASSUME NEW w \in Workers, FetchError(w) PROVE TableIsNewest'
  BY <1>13 DEF FetchError
<1>14. ASSUME NEW w \in Workers, StillWanted(w) PROVE TableIsNewest'
  BY <1>14 DEF StillWanted
<1>15. ASSUME NEW w \in Workers, Deliver(w) PROVE TableIsNewest'
  BY <1>15 DEF Deliver, Take
<1>16. ASSUME NEW w \in Workers, Cancelled(w) PROVE TableIsNewest'
  BY <1>16 DEF Cancelled
<1>17. ASSUME NEW w \in Workers, Leave(w) PROVE TableIsNewest'
  BY <1>17 DEF Leave
<1>18. CASE UNCHANGED vars
  BY <1>18 DEF vars
<1> QED
  BY <1>1, <1>2, <1>3, <1>4, <1>5, <1>6, <1>7, <1>8, <1>9, <1>10, <1>11,
     <1>12, <1>13, <1>14, <1>15, <1>16, <1>17, <1>18
     DEF Next, MonitorStep, WorkerStep

(* No step makes what is further from the readers older.                   *)
LEMMA OrderStep == IInv /\ [Next]_vars => VersionsOrdered'
<1> SUFFICES ASSUME IInv, [Next]_vars
             PROVE  VersionsOrdered'
  OBVIOUS
<1> USE DEF IInv, TypeOK, OneWorker, QuietUntilWatch, TableIsNewest, VersionsOrdered, monitorVars, debouncer, builderVars, history
<1>1. CASE TableChanges
  BY <1>1 DEF TableChanges
<1>2. CASE InitialFetch
  BY <1>2 DEF InitialFetch
<1>3. CASE InitialFetchFails
  BY <1>3 DEF InitialFetchFails
<1>4. CASE InitialOffer
  BY <1>4 DEF InitialOffer, Take
<1>5. CASE Watch
  BY <1>5 DEF Watch
<1>6. CASE Trigger
  BY <1>6 DEF Trigger, Recv, StartUnlessActive, Start
<1>7. CASE StreamError
  BY <1>7 DEF StreamError
<1>8. CASE StreamEOF
  BY <1>8 DEF StreamEOF
<1>9. CASE CoolDown
  BY <1>9 DEF CoolDown
<1>10. CASE SetTED
  BY <1>10 DEF SetTED
<1>11. ASSUME NEW w \in Workers, StopWaiting(w) PROVE VersionsOrdered'
  BY <1>11 DEF StopWaiting
<1>12. ASSUME NEW w \in Workers, Fetch(w) PROVE VersionsOrdered'
  BY <1>12 DEF Fetch
<1>13. ASSUME NEW w \in Workers, FetchError(w) PROVE VersionsOrdered'
  BY <1>13 DEF FetchError
<1>14. ASSUME NEW w \in Workers, StillWanted(w) PROVE VersionsOrdered'
  BY <1>14 DEF StillWanted
<1>15. ASSUME NEW w \in Workers, Deliver(w) PROVE VersionsOrdered'
  BY <1>15 DEF Deliver, Take
<1>16. ASSUME NEW w \in Workers, Cancelled(w) PROVE VersionsOrdered'
  BY <1>16 DEF Cancelled
<1>17. ASSUME NEW w \in Workers, Leave(w) PROVE VersionsOrdered'
  BY <1>17 DEF Leave
<1>18. CASE UNCHANGED vars
  BY <1>18 DEF vars
<1> QED
  BY <1>1, <1>2, <1>3, <1>4, <1>5, <1>6, <1>7, <1>8, <1>9, <1>10, <1>11,
     <1>12, <1>13, <1>14, <1>15, <1>16, <1>17, <1>18
     DEF Next, MonitorStep, WorkerStep

(* The conjunction is inductive.                                           *)
LEMMA Inductive == Spec => []IInv
<1>1. IInv /\ [Next]_vars => IInv'
  BY TypeStep, OneWorkerStep, QuietStep, NewestStep, OrderStep DEF IInv
<1> QED
  BY InitInductive, <1>1, PTL DEF Spec

(* All variables of the feed keep their types.                             *)
THEOREM TypeCorrect == Spec => []TypeOK
<1>1. IInv => TypeOK
  BY DEF IInv
<1> QED
  BY Inductive, <1>1, PTL

(* At most one debounce goroutine lives at any time (Debouncer.active),    *)
(* however triggers and goroutines interleave.                             *)
THEOREM OneDebounceGoroutine == Spec => []OneWorker
<1>1. IInv => OneWorker
  BY DEF IInv
<1> QED
  BY Inductive, <1>1, PTL

(* Server.ted starts at the version of the empty table.                    *)
LEMMA SnapshotStart == Init => Snapshot!Init
  BY DEF Init, Snapshot!Init

(* Publishing is the one step that moves Server.ted, and never backwards.  *)
LEMMA SnapshotStep == IInv /\ [Next]_vars => [Snapshot!Next]_<<rib, ted>>
<1> SUFFICES ASSUME IInv, [Next]_vars
             PROVE  [Snapshot!Next]_<<rib, ted>>
  OBVIOUS
<1>1. CASE TableChanges
  BY <1>1 DEF TableChanges, Snapshot!Next, Snapshot!TableChanges
<1>2. CASE SetTED
  <2>1. ted' = building /\ rib' = rib
    BY <1>2 DEF SetTED
  <2>2. building \in ted .. rib
    BY <1>2 DEF SetTED, IInv, TypeOK, VersionsOrdered, TableIsNewest
  <2> QED
    BY <2>1, <2>2 DEF Snapshot!Next, Snapshot!Refresh
<1>3. CASE MonitorStep \/ CoolDown \/ \E w \in Workers : WorkerStep(w)
  BY <1>3 DEF MonitorStep, InitialFetch, InitialFetchFails, InitialOffer, Watch,
              Trigger, StreamError, StreamEOF, CoolDown, WorkerStep, StopWaiting,
              Fetch, FetchError, StillWanted, Deliver, Cancelled, Leave
<1>4. CASE UNCHANGED vars
  BY <1>4 DEF vars
<1> QED
  BY <1>1, <1>2, <1>3, <1>4 DEF Next

(* What the readers of Server.TED() see is a history of table states that  *)
(* never goes back: the feed implements TEDSnapshot.                       *)
THEOREM FeedImplementsSnapshot == Spec => TEDNeverGoesBack
  BY SnapshotStart, SnapshotStep, Inductive, PTL
     DEF Spec, TEDNeverGoesBack, Snapshot!Spec, Init, Snapshot!Init
==============================================================================
