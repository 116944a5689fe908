--------------------------- MODULE PCEServerProofs ---------------------------
(***************************************************************************)
(* Proofs about the session list of PCEServer, for any number of peers, of *)
(* DeleteSession handlers and of connections up to the number of session   *)
(* IDs: as long as the uint8 has not gone around, closing a session, once  *)
(* or twice, removes that session from the list and no other.              *)
(***************************************************************************)
EXTENDS PCEServer, FiniteSetsExt, WellFoundedInduction, SequenceTheorems, TLAPS

(* A set of naturals that has a member has a least one.                    *)
LEMMA MinIsLeast ==
    ASSUME NEW S \in SUBSET Nat, S # {}
    PROVE  Min(S) \in S /\ \A n \in S : Min(S) <= n
<1> DEFINE R == OpToRel(<, Nat)
<1>1. IsWellFoundedOn(R, Nat)
  BY NatLessThanWellFounded
<1>2. \A x, y \in Nat : y < x => <<y, x>> \in R
  BY DEF OpToRel
<1> HIDE DEF R
<1>3. PICK x \in S : \A y \in S : ~(<<y, x>> \in R)
  BY <1>1, WFMin
<1>4. \A y \in S : x <= y
  <2> SUFFICES ASSUME NEW y \in S PROVE x <= y
    OBVIOUS
  <2>1. x \in Nat /\ y \in Nat /\ ~(y < x)
    BY <1>2, <1>3
  <2> QED
    BY <2>1
<1> QED
  BY <1>4 DEF Min

IDOf(c) == IF c < IDSpace THEN c ELSE c - IDSpace

(* Serve numbers the sessions in the order of their connections.           *)
NumberedInOrder ==
    /\ nextID = IDOf(accepted + 1)
    /\ \A c \in 1 .. accepted : sessionID[c] = IDOf(c)

ListedOnce ==
    \A i, j \in 1 .. Len(sessionList) : sessionList[i] = sessionList[j] => i = j

(* What a goroutine has done to its session's connection when it stands    *)
(* where it does, and that a handler's target is a session.                *)
ClosedBeforeRemoval ==
    /\ \A c \in Conns :
          /\ conn[c] = "none" <=> c > accepted
          /\ est[c] = "none" <=> c > accepted
          /\ est[c] \in {"remove", "ended"} => conn[c] = "closed"
    /\ \A d \in Deleters :
          /\ deleter[d] # "idle" => target[d] \in 1 .. accepted
          /\ deleter[d] = "remove" => conn[target[d]] = "closed"

IInv ==
    /\ TypeOK
    /\ NumberedInOrder
    /\ ListedOnce
    /\ ClosedBeforeRemoval
    /\ OpenSessionsAreListed
    /\ EndedSessionsAreUnlisted

(* closeSession's removal shortens the list by one and moves its last      *)
(* session only.                                                           *)
LEMMA SwapRemove ==
    ASSUME NEW S, NEW s \in Seq(S), NEW i \in 1 .. Len(s)
    PROVE  LET t == Front([s EXCEPT ![i] = Last(s)])
           IN  /\ t \in Seq(S)
               /\ Len(t) = Len(s) - 1
               /\ \A j \in 1 .. (Len(s) - 1) :
                     t[j] = IF j = i THEN s[Len(s)] ELSE s[j]
<1> DEFINE q == [s EXCEPT ![i] = Last(s)]
           n == Len(s) - 1
<1>1. /\ Len(s) \in Nat /\ n \in Int /\ n >= 0
      /\ Last(s) = s[Len(s)] /\ s[Len(s)] \in S
  BY DEF Last
<1>2. /\ q \in Seq(S) /\ Len(q) = Len(s)
      /\ \A j \in 1 .. Len(s) : q[j] = IF j = i THEN s[Len(s)] ELSE s[j]
  BY <1>1, ExceptSeq
<1>3. Front(q) = SubSeq(q, 1, n)
  BY <1>2 DEF Front
<1>4. \A j \in 1 .. n : q[j] \in S /\ q[j] = IF j = i THEN s[Len(s)] ELSE s[j]
  BY <1>1, <1>2
<1> HIDE DEF q, n
<1>5. /\ SubSeq(q, 1, n) \in Seq(S)
      /\ Len(SubSeq(q, 1, n)) = IF 1 <= n THEN n - 1 + 1 ELSE 0
      /\ \A j \in 1 .. (n - 1 + 1) : SubSeq(q, 1, n)[j] = q[1 + j - 1]
  BY <1>1, <1>4, SubSeqProperties
<1>6. /\ Len(SubSeq(q, 1, n)) = n
      /\ \A j \in 1 .. n : SubSeq(q, 1, n)[j] = q[j]
  BY <1>1, <1>5
<1> QED
  BY <1>3, <1>4, <1>5, <1>6 DEF q, n

(* While the IDs have not gone around, they tell the sessions apart.       *)
LEMMA IDsDiffer ==
    ASSUME MaxConns <= IDSpace, TypeOK, NumberedInOrder,
           NEW c \in 1 .. accepted, NEW d \in 1 .. accepted,
           sessionID[c] = sessionID[d]
    PROVE  c = d
<1>1. IDOf(c) = IDOf(d)
  BY DEF NumberedInOrder
<1>2. /\ IDSpace \in Nat
      /\ c \in Nat /\ 1 <= c /\ c <= IDSpace
      /\ d \in Nat /\ 1 <= d /\ d <= IDSpace
  BY ServerAssumption DEF TypeOK
<1> QED
  BY <1>1, <1>2 DEF IDOf

(* ListWithout takes a session out and leaves the others in, once each.    *)
LEMMA ListWithoutOne ==
    ASSUME MaxConns <= IDSpace, TypeOK, NumberedInOrder, ListedOnce,
           NEW c \in 1 .. accepted
    PROVE  LET t == ListWithout(c)
           IN  /\ t \in Seq(1 .. accepted)
               /\ \A i, j \in 1 .. Len(t) : t[i] = t[j] => i = j
               /\ \A e : (\E i \in 1 .. Len(t) : t[i] = e) <=> Listed(e) /\ e # c
<1> DEFINE n == Len(sessionList)
<1>1. sessionList \in Seq(1 .. accepted) /\ n \in Nat
  BY DEF TypeOK
<1>2. \A i \in 1 .. n : sessionList[i] \in 1 .. accepted
  BY <1>1, ElementOfSeq
<1>3. SameID(c) = {i \in 1 .. n : sessionList[i] = c}
  BY <1>2, IDsDiffer DEF SameID
<1>4. CASE SameID(c) = {}
  <2>1. ListWithout(c) = sessionList
    BY <1>4 DEF ListWithout
  <2>2. ~Listed(c)
    BY <1>3, <1>4 DEF Listed
  <2> QED
    BY <2>1, <2>2, <1>1 DEF ListedOnce, Listed
<1>5. CASE SameID(c) # {}
  <2> DEFINE k == Min(SameID(c))
             t == ListWithout(c)
  <2>1. k \in 1 .. n /\ sessionList[k] = c
    <3>1. SameID(c) \in SUBSET Nat
      BY <1>3
    <3> QED
      BY <3>1, <1>3, <1>5, MinIsLeast
  <2>2. t = Front([sessionList EXCEPT ![k] = Last(sessionList)])
    BY <1>5 DEF ListWithout
  <2> HIDE DEF k, t
  <2>3. /\ t \in Seq(1 .. accepted) /\ Len(t) = n - 1
        /\ \A j \in 1 .. (n - 1) :
              t[j] = IF j = k THEN sessionList[n] ELSE sessionList[j]
    BY <2>1, <2>2, <1>1, SwapRemove
  <2> HIDE DEF n
  <2>4. \A i, j \in 1 .. n : sessionList[i] = sessionList[j] => i = j
    BY DEF ListedOnce, n
  <2>5. \A i, j \in 1 .. Len(t) : t[i] = t[j] => i = j
    BY <1>1, <2>1, <2>3, <2>4
  <2>6. ASSUME NEW e, NEW i \in 1 .. Len(t), t[i] = e
        PROVE  e # c /\ \E j \in 1 .. n : sessionList[j] = e
    BY <2>6, <1>1, <2>1, <2>3, <2>4
  <2>7. ASSUME NEW e, e # c, NEW j \in 1 .. n, sessionList[j] = e
        PROVE  \E i \in 1 .. Len(t) : t[i] = e
    <3>1. CASE j = n
      <4>1. k \in 1 .. Len(t) /\ t[k] = e
        BY <3>1, <2>7, <1>1, <2>1, <2>3
      <4> QED
        BY <4>1
    <3>2. CASE j # n
      <4>1. j \in 1 .. Len(t) /\ t[j] = e
        BY <3>2, <2>7, <1>1, <2>1, <2>3
      <4> QED
        BY <4>1
    <3> QED
      BY <3>1, <3>2
  <2> QED
    BY <2>3, <2>5, <2>6, <2>7 DEF Listed, t, n
<1> QED
  BY <1>4, <1>5

(* Every initial state satisfies the invariant.                            *)
LEMMA InitInductive == Init => IInv
<1> SUFFICES ASSUME Init PROVE IInv
  OBVIOUS
<1> USE ServerAssumption DEF Init
<1>1. TypeOK
  <2>1. sessionList \in Seq(1 .. accepted)
    OBVIOUS
  <2>2. crashed \in BOOLEAN
    BY Zenon
  <2>3. target \in [Deleters -> Conns \cup {NoConn}]
    OBVIOUS
  <2> QED
    BY <2>1, <2>2, <2>3 DEF TypeOK
<1>2. NumberedInOrder
  BY DEF NumberedInOrder, IDOf
<1>3. ListedOnce /\ EndedSessionsAreUnlisted /\ OpenSessionsAreListed
  BY DEF ListedOnce, EndedSessionsAreUnlisted, OpenSessionsAreListed, Listed
<1>4. ClosedBeforeRemoval
  BY DEF ClosedBeforeRemoval, Conns
<1> QED
  BY <1>1, <1>2, <1>3, <1>4 DEF IInv

(* The steps that leave the list, the IDs and the accepting alone.         *)
ListUntouched == UNCHANGED <<acceptVars, sessionVars, sessionList>>

Quiet(c) ==
    \/ OpenFails(c) \/ OpenSucceeds(c) \/ OpenWithoutKeepalive(c)
    \/ ReceiverEnds(c) \/ ReceiverSignals(c) \/ SelectDone(c)
    \/ KeepaliveFails(c) \/ StopSweep(c) \/ SweeperEnds(c) \/ SweeperAwaited(c)
    \/ CloseConn(c) \/ PeerLeaves(c)

(* Every step is one of these.                                             *)
LEMMA Steps ==
    ASSUME [Next]_vars
    PROVE  \/ Accept
           \/ \E c \in Conns : Quiet(c)
           \/ \E c \in Conns : RemoveFromList(c)
           \/ \E d \in Deleters, peer \in Peers : DeleteSession(d, peer)
           \/ \E d \in Deleters :
                 SendClose(d) \/ SendCloseFails(d) \/ DeleterCloses(d)
           \/ \E d \in Deleters : DeleterRemoves(d)
           \/ UNCHANGED vars
  BY Zenon DEF Next, SessionStep, EstablishedStep, DeleterStep, Quiet

(* Accepting a connection keeps the invariant: the new session is listed.  *)
LEMMA AcceptStep ==
    ASSUME MaxConns <= IDSpace, IInv, Accept
    PROVE  IInv'
<1> DEFINE c == accepted + 1
<1>1. /\ accepted \in Nat /\ MaxConns \in Nat /\ accepted < MaxConns
      /\ accepted' = accepted + 1 /\ c \in Conns /\ c \notin 1 .. accepted
  BY ServerAssumption DEF Accept, IInv, TypeOK, Conns
<1>2. /\ sessionList \in Seq(1 .. accepted) /\ Len(sessionList) \in Nat
      /\ sessionList' = Append(sessionList, c)
  BY DEF Accept, IInv, TypeOK
<1>3. \A i \in 1 .. Len(sessionList) : sessionList[i] \in 1 .. accepted
  BY <1>2, ElementOfSeq
<1>4. /\ sessionList' \in Seq(1 .. accepted')
      /\ Len(sessionList') = Len(sessionList) + 1
      /\ sessionList'[Len(sessionList) + 1] = c
      /\ \A i \in 1 .. Len(sessionList) : sessionList'[i] = sessionList[i]
  <2>1. sessionList \in Seq(1 .. (accepted + 1))
    BY <1>1, <1>2, SeqMonotonic
  <2>2. c \in 1 .. (accepted + 1)
    BY <1>1
  <2> HIDE DEF c
  <2> QED
    BY <1>1, <1>2, <2>1, <2>2, AppendProperties
<1>5. nextID \in Nat /\ nextID < IDSpace /\ IDSpace \in Nat /\ IDSpace >= 2
  BY ServerAssumption DEF IInv, TypeOK
<1>6. TypeOK'
  <2>1. NextID(nextID) \in 0 .. (IDSpace - 1)
    BY <1>5 DEF NextID
  <2>2. accepted' \in 0 .. MaxConns
    BY <1>1
  <2>3. nextID' \in 0 .. (IDSpace - 1) /\ sessionID' \in [Conns -> 0 .. (IDSpace - 1)]
    BY <2>1, <1>5 DEF Accept, IInv, TypeOK
  <2>4. crashed' \in BOOLEAN
    BY Zenon DEF Accept, IInv, TypeOK
  <2>5. conn' \in [Conns -> {"none", "up", "reset", "closed"}]
    BY <1>1 DEF Accept, IInv, TypeOK
  <2>6. est' \in [Conns -> {"none", "opening", "select", "stopSweep",
                           "awaitSweeper", "close", "remove", "ended"}]
    BY <1>1 DEF Accept, IInv, TypeOK
  <2>7. UNCHANGED <<peerAddr, recv, done, sweeper, deleter, target>>
    BY DEF Accept, delVars
  <2> QED
    BY <1>4, <2>2, <2>3, <2>4, <2>5, <2>6, <2>7 DEF IInv, TypeOK
<1>7. NumberedInOrder'
  <2>1. nextID = IDOf(c) /\ nextID' = NextID(nextID)
    BY DEF Accept, IInv, NumberedInOrder
  <2>2. sessionID' = [sessionID EXCEPT ![c] = nextID]
    BY DEF Accept
  <2>3. sessionID'[c] = IDOf(c)
    BY <1>1, <2>1, <2>2 DEF IInv, TypeOK
  <2>4. \A e \in 1 .. accepted : sessionID'[e] = IDOf(e)
    BY <1>1, <2>2 DEF IInv, TypeOK, NumberedInOrder, Conns
  <2>5. NextID(nextID) = IDOf(c + 1)
    BY MaxConns <= IDSpace, <1>1, <1>5, <2>1 DEF NextID, IDOf
  <2>6. \A e \in 1 .. accepted' : e = c \/ e \in 1 .. accepted
    BY <1>1
  <2> QED
    BY <1>1, <2>1, <2>3, <2>4, <2>5, <2>6 DEF NumberedInOrder
<1>8. ListedOnce'
  <2>1. \A i \in 1 .. Len(sessionList) : sessionList'[i] # c
    BY <1>1, <1>3, <1>4
  <2> HIDE DEF c
  <2> QED
    BY <1>2, <1>4, <2>1 DEF IInv, ListedOnce
<1>9. ClosedBeforeRemoval'
  <2>1. /\ conn' = [conn EXCEPT ![c] = "up"] /\ est' = [est EXCEPT ![c] = "opening"]
        /\ deleter' = deleter /\ target' = target
    BY DEF Accept, delVars
  <2>2. conn \in [Conns -> {"none", "up", "reset", "closed"}] /\ DOMAIN est = Conns
    BY DEF IInv, TypeOK
  <2>3. /\ \A e \in Conns :
              /\ conn'[e] = "none" <=> e > accepted'
              /\ est'[e] = "none" <=> e > accepted'
              /\ est'[e] \in {"remove", "ended"} => conn'[e] = "closed"
    BY <1>1, <2>1, <2>2 DEF IInv, ClosedBeforeRemoval, Conns
  <2>4. ASSUME NEW d \in Deleters
        PROVE  /\ deleter'[d] # "idle" => target'[d] \in 1 .. accepted'
               /\ deleter'[d] = "remove" => conn'[target'[d]] = "closed"
    BY <1>1, <2>1, <2>2 DEF IInv, ClosedBeforeRemoval, Conns
  <2> QED
    BY <2>3, <2>4 DEF ClosedBeforeRemoval
<1>10. \A e : Listed(e)' <=> Listed(e) \/ e = c
  <2> HIDE DEF c
  <2>1. \A e : Listed(e)' <=> \E i \in 1 .. (Len(sessionList) + 1) : sessionList'[i] = e
    BY <1>4 DEF Listed
  <2> QED
    BY <2>1, <1>2, <1>4 DEF Listed
<1>11. OpenSessionsAreListed' /\ EndedSessionsAreUnlisted'
  <2>1. /\ conn' = [conn EXCEPT ![c] = "up"] /\ est' = [est EXCEPT ![c] = "opening"]
    BY DEF Accept
  <2>2. DOMAIN conn = Conns /\ DOMAIN est = Conns
    BY DEF IInv, TypeOK
  <2> QED
    BY <1>1, <1>10, <2>1, <2>2 DEF IInv, OpenSessionsAreListed, EndedSessionsAreUnlisted
<1> QED
  BY <1>6, <1>7, <1>8, <1>9, <1>11 DEF IInv

(* Taking out of the list a session whose connection is closed keeps what  *)
(* the list is to the sessions.                                            *)
LEMMA RemovalStep ==
    ASSUME MaxConns <= IDSpace, IInv, NEW c \in 1 .. accepted, conn[c] = "closed",
           sessionList' = ListWithout(c),
           UNCHANGED <<acceptVars, sessionVars, conn>>,
           \A e \in Conns : est'[e] = "ended" => est[e] = "ended" \/ e = c
    PROVE  /\ sessionList' \in Seq(1 .. accepted')
           /\ NumberedInOrder' /\ ListedOnce'
           /\ OpenSessionsAreListed' /\ EndedSessionsAreUnlisted'
<1>1. /\ sessionList' \in Seq(1 .. accepted)
      /\ \A i, j \in 1 .. Len(sessionList') : sessionList'[i] = sessionList'[j] => i = j
      /\ \A e : (\E i \in 1 .. Len(sessionList') : sessionList'[i] = e)
                 <=> Listed(e) /\ e # c
  BY ListWithoutOne DEF IInv
<1>2. \A e : Listed(e)' <=> Listed(e) /\ e # c
  BY <1>1 DEF Listed
<1>3. NumberedInOrder'
  BY DEF acceptVars, sessionVars, IInv, NumberedInOrder
<1> QED
  BY <1>1, <1>2, <1>3 DEF acceptVars, IInv, ListedOnce, OpenSessionsAreListed,
                          EndedSessionsAreUnlisted

(* Steps that touch neither the list nor the IDs, reopen no connection and *)
(* let no goroutine end keep the parts of the invariant about the list.    *)
LEMMA UntouchedStep ==
    ASSUME IInv, ListUntouched,
           \A e \in Conns :
              /\ conn'[e] \in {"up", "reset"} => conn[e] \in {"up", "reset"}
              /\ est'[e] = "ended" => est[e] = "ended"
    PROVE  /\ sessionList' \in Seq(1 .. accepted')
           /\ NumberedInOrder' /\ ListedOnce'
           /\ OpenSessionsAreListed' /\ EndedSessionsAreUnlisted'
<1> USE DEF ListUntouched, acceptVars, sessionVars
<1>1. sessionList' \in Seq(1 .. accepted')
  BY DEF IInv, TypeOK
<1>2. NumberedInOrder' /\ ListedOnce'
  BY DEF IInv, NumberedInOrder, ListedOnce
<1>3. OpenSessionsAreListed'
  BY DEF IInv, OpenSessionsAreListed, Listed
<1>4. EndedSessionsAreUnlisted'
  BY DEF IInv, EndedSessionsAreUnlisted, Listed
<1> QED
  BY <1>1, <1>2, <1>3, <1>4

(* What the type invariant says of everything but the list.                *)
RestTyped ==
    /\ accepted \in 0 .. MaxConns
    /\ nextID \in 0 .. (IDSpace - 1)
    /\ sessionID \in [Conns -> 0 .. (IDSpace - 1)]
    /\ peerAddr \in [Conns -> Peers]
    /\ conn \in [Conns -> {"none", "up", "reset", "closed"}]
    /\ est \in [Conns -> {"none", "opening", "select", "stopSweep", "awaitSweeper",
                          "close", "remove", "ended"}]
    /\ recv \in [Conns -> {"none", "reading", "signal", "ended"}]
    /\ done \in [Conns -> {0, 1}]
    /\ sweeper \in [Conns -> {"none", "running", "stopping", "ended"}]
    /\ deleter \in [Deleters -> {"idle", "sendClose", "close", "remove"}]
    /\ target \in [Deleters -> Conns \cup {NoConn}]

LEMMA TypeParts ==
    TypeOK <=> RestTyped /\ sessionList \in Seq(1 .. accepted) /\ crashed \in BOOLEAN
  BY DEF TypeOK, RestTyped

(* Only the panic changes crashed.                                         *)
LEMMA CrashedTyped == TypeOK /\ [Next]_vars => crashed' \in BOOLEAN
<1> SUFFICES ASSUME TypeOK, [Next]_vars PROVE crashed' \in BOOLEAN
  OBVIOUS
<1>1. crashed' = crashed \/ crashed' = TRUE
  <2>1. ASSUME NEW c \in Conns, Quiet(c) PROVE crashed' = crashed \/ crashed' = TRUE
    BY <2>1 DEF Quiet, OpenFails, OpenSucceeds, OpenWithoutKeepalive, ReceiverEnds,
                ReceiverSignals, SelectDone, KeepaliveFails, StopSweep, SweeperEnds,
                SweeperAwaited, CloseConn, PeerLeaves
  <2> QED
    BY <2>1, Steps DEF Accept, RemoveFromList, DeleteSession, SendClose,
       SendCloseFails, DeleterCloses, DeleterRemoves, vars
<1> QED
  BY Zenon, <1>1 DEF TypeOK

(* The steps of a session's own goroutines, but for the removal.           *)
LEMMA QuietStep ==
    ASSUME IInv, NEW c \in Conns, Quiet(c)
    PROVE  /\ RestTyped' /\ ClosedBeforeRemoval' /\ ListUntouched
           /\ \A e \in Conns :
                 /\ conn'[e] \in {"up", "reset"} => conn[e] \in {"up", "reset"}
                 /\ est'[e] = "ended" => est[e] = "ended"
<1>1. RestTyped /\ ClosedBeforeRemoval
  BY TypeParts DEF IInv
<1> USE DEF RestTyped, ClosedBeforeRemoval, ListUntouched, acceptVars, sessionVars,
            goVars, delVars
<1>2. CASE OpenFails(c)
  BY <1>1, <1>2 DEF OpenFails
<1>3. CASE OpenSucceeds(c)
  BY <1>1, <1>3 DEF OpenSucceeds
<1>4. CASE OpenWithoutKeepalive(c)
  BY <1>1, <1>4 DEF OpenWithoutKeepalive
<1>5. CASE ReceiverEnds(c)
  BY <1>1, <1>5 DEF ReceiverEnds
<1>6. CASE ReceiverSignals(c)
  BY <1>1, <1>6 DEF ReceiverSignals
<1>7. CASE SelectDone(c)
  BY <1>1, <1>7 DEF SelectDone
<1>8. CASE KeepaliveFails(c)
  BY <1>1, <1>8 DEF KeepaliveFails
<1>9. CASE StopSweep(c)
  BY <1>1, <1>9 DEF StopSweep
<1>10. CASE SweeperEnds(c)
  BY <1>1, <1>10 DEF SweeperEnds
<1>11. CASE SweeperAwaited(c)
  BY <1>1, <1>11 DEF SweeperAwaited
<1>12. CASE CloseConn(c)
  BY <1>1, <1>12 DEF CloseConn
<1>13. CASE PeerLeaves(c)
  BY <1>1, <1>13 DEF PeerLeaves
<1> QED
  BY <1>2, <1>3, <1>4, <1>5, <1>6, <1>7, <1>8, <1>9, <1>10, <1>11, <1>12, <1>13
     DEF Quiet

(* The steps of a DeleteSession handler, but for the removal.              *)
LEMMA DeleterQuietStep ==
    ASSUME IInv, NEW d \in Deleters,
           \/ \E peer \in Peers : DeleteSession(d, peer)
           \/ SendClose(d) \/ SendCloseFails(d) \/ DeleterCloses(d)
    PROVE  /\ RestTyped' /\ ClosedBeforeRemoval' /\ ListUntouched
           /\ \A e \in Conns :
                 /\ conn'[e] \in {"up", "reset"} => conn[e] \in {"up", "reset"}
                 /\ est'[e] = "ended" => est[e] = "ended"
<1>1. RestTyped /\ ClosedBeforeRemoval /\ sessionList \in Seq(1 .. accepted)
  BY TypeParts DEF IInv
<1> USE DEF RestTyped, ClosedBeforeRemoval, ListUntouched, acceptVars, sessionVars,
            goVars
<1>2. ASSUME NEW peer \in Peers, DeleteSession(d, peer)
      PROVE  sessionList[Min(OfPeer(peer))] \in 1 .. accepted
  <2>1. OfPeer(peer) \in SUBSET Nat /\ OfPeer(peer) # {}
    BY <1>1, <1>2 DEF DeleteSession, OfPeer
  <2>2. Min(OfPeer(peer)) \in 1 .. Len(sessionList)
    BY <2>1, MinIsLeast DEF OfPeer
  <2> QED
    BY <1>1, <2>2, ElementOfSeq
<1>3. ASSUME NEW peer \in Peers, DeleteSession(d, peer)
      PROVE  /\ target' \in [Deleters -> Conns \cup {NoConn}]
             /\ \A e \in Deleters : deleter'[e] # "idle" => target'[e] \in 1 .. accepted
             /\ \A e \in Deleters : deleter'[e] = "remove" =>
                    deleter[e] = "remove" /\ target'[e] = target[e]
  <2>1. sessionList[Min(OfPeer(peer))] \in Conns
    BY <1>1, <1>2, <1>3, ServerAssumption DEF Conns
  <2> HIDE DEF ListUntouched
  <2> QED
    BY <1>1, <1>2, <1>3, <2>1, ZenonT(60) DEF DeleteSession
<1>4. CASE \E peer \in Peers : DeleteSession(d, peer)
  <2>1. PICK peer \in Peers : DeleteSession(d, peer)
    BY <1>4
  <2>2. /\ UNCHANGED <<acceptVars, sessionVars, sessionList, conn, goVars>>
        /\ deleter' = [deleter EXCEPT ![d] = "sendClose"]
    BY <2>1 DEF DeleteSession
  <2>3. /\ target' \in [Deleters -> Conns \cup {NoConn}]
        /\ \A e \in Deleters : deleter'[e] # "idle" => target'[e] \in 1 .. accepted
        /\ \A e \in Deleters : deleter'[e] = "remove" =>
              deleter[e] = "remove" /\ target'[e] = target[e]
    BY <1>3, <2>1
  <2> QED
    BY <1>1, <2>2, <2>3, ZenonT(60)
<1>5. CASE SendClose(d)
  BY <1>1, <1>5 DEF SendClose
<1>6. CASE SendCloseFails(d)
  BY <1>1, <1>6 DEF SendCloseFails
<1>7. CASE DeleterCloses(d)
  <2>1. target[d] \in 1 .. accepted /\ target[d] \in Conns
    BY <1>1, <1>7, ServerAssumption DEF DeleterCloses, Conns
  <2>2. /\ UNCHANGED <<acceptVars, sessionVars, sessionList, goVars, target>>
        /\ deleter' = [deleter EXCEPT ![d] = "remove"]
        /\ conn' = [conn EXCEPT ![target[d]] = "closed"]
    BY <1>7 DEF DeleterCloses
  <2>3. /\ conn' \in [Conns -> {"none", "up", "reset", "closed"}]
        /\ deleter' \in [Deleters -> {"idle", "sendClose", "close", "remove"}]
    BY <1>1, <2>2
  <2>4. \A e \in Conns : conn'[e] = IF e = target[d] THEN "closed" ELSE conn[e]
    BY <1>1, <2>2
  <2>5. RestTyped' /\ ListUntouched
    BY <1>1, <2>2, <2>3
  <2>6. ASSUME NEW e \in Conns
        PROVE  /\ conn'[e] = "none" <=> e > accepted'
               /\ est'[e] = "none" <=> e > accepted'
               /\ est'[e] \in {"remove", "ended"} => conn'[e] = "closed"
    <3>1. accepted' = accepted /\ est' = est /\ accepted \in Nat /\ e \in Nat
      BY <1>1, <2>2, ServerAssumption DEF Conns
    <3>2. ~(target[d] > accepted)
      BY <2>1, <3>1
    <3> QED
      BY <1>1, <2>4, <3>1, <3>2
  <2>7. ASSUME NEW e \in Deleters
        PROVE  /\ deleter'[e] # "idle" => target'[e] \in 1 .. accepted'
               /\ deleter'[e] = "remove" => conn'[target'[e]] = "closed"
    <3>1. deleter'[e] = IF e = d THEN "remove" ELSE deleter[e]
      BY <1>1, <2>2
    <3>2. accepted' = accepted /\ target' = target
      BY <2>2
    <3>3. conn'[target[d]] = "closed"
      BY <1>1, <2>1, <2>2
    <3>4. deleter[e] # "idle" => target[e] \in 1 .. accepted /\ target[e] \in Conns
      BY <1>1, ServerAssumption DEF Conns
    <3> QED
      BY <1>1, <2>1, <2>4, <3>1, <3>2, <3>3, <3>4
  <2> QED
    BY <2>2, <2>4, <2>5, <2>6, <2>7
<1> QED
  BY <1>4, <1>5, <1>6, <1>7

(* A step that leaves the list alone keeps the invariant.                  *)
LEMMA KeptByQuietSteps ==
    ASSUME IInv, [Next]_vars,
           RestTyped', ClosedBeforeRemoval', ListUntouched,
           \A e \in Conns :
              /\ conn'[e] \in {"up", "reset"} => conn[e] \in {"up", "reset"}
              /\ est'[e] = "ended" => est[e] = "ended"
    PROVE  IInv'
<1>1. /\ sessionList' \in Seq(1 .. accepted')
      /\ NumberedInOrder' /\ ListedOnce'
      /\ OpenSessionsAreListed' /\ EndedSessionsAreUnlisted'
  BY UntouchedStep
<1>2. crashed' \in BOOLEAN
  BY CrashedTyped DEF IInv
<1>3. TypeOK'
  BY Zenon, <1>1, <1>2 DEF TypeOK, RestTyped
<1> QED
  BY <1>1, <1>3 DEF IInv

(* The removal by the session's own goroutine.                             *)
LEMMA RemoveFromListStep ==
    ASSUME MaxConns <= IDSpace, IInv, [Next]_vars, NEW c \in Conns, RemoveFromList(c)
    PROVE  IInv'
<1>1. RestTyped /\ ClosedBeforeRemoval
  BY TypeParts DEF IInv
<1>2. /\ est[c] = "remove"
      /\ est' = [est EXCEPT ![c] = "ended"]
      /\ sessionList' = ListWithout(c)
      /\ UNCHANGED <<acceptVars, sessionVars, conn, recv, done, sweeper, delVars>>
  BY DEF RemoveFromList
<1>3. conn[c] = "closed" /\ c \in 1 .. accepted
  <2>1. conn[c] = "closed" /\ ~(c > accepted)
    BY <1>1, <1>2 DEF ClosedBeforeRemoval
  <2> QED
    BY <1>1, <2>1, ServerAssumption DEF RestTyped, Conns
<1>4. \A e \in Conns : est'[e] = IF e = c THEN "ended" ELSE est[e]
  BY <1>1, <1>2 DEF RestTyped
<1>5. /\ sessionList' \in Seq(1 .. accepted')
      /\ NumberedInOrder' /\ ListedOnce'
      /\ OpenSessionsAreListed' /\ EndedSessionsAreUnlisted'
  BY <1>2, <1>3, <1>4, RemovalStep
<1>6. RestTyped'
  BY <1>1, <1>2 DEF RestTyped, acceptVars, sessionVars, delVars
<1>7. ClosedBeforeRemoval'
  BY <1>1, <1>2, <1>3, <1>4 DEF ClosedBeforeRemoval, acceptVars, delVars
<1>8. crashed' \in BOOLEAN
  BY CrashedTyped DEF IInv
<1>9. TypeOK'
  BY Zenon, <1>5, <1>6, <1>8 DEF TypeOK, RestTyped
<1> QED
  BY <1>5, <1>7, <1>9 DEF IInv

(* The removal by a DeleteSession handler.                                 *)
LEMMA DeleterRemovesStep ==
    ASSUME MaxConns <= IDSpace, IInv, [Next]_vars, NEW d \in Deleters, DeleterRemoves(d)
    PROVE  IInv'
<1>1. RestTyped /\ ClosedBeforeRemoval
  BY TypeParts DEF IInv
<1>2. /\ deleter[d] = "remove"
      /\ deleter' = [deleter EXCEPT ![d] = "idle"]
      /\ target' = [target EXCEPT ![d] = NoConn]
      /\ sessionList' = ListWithout(target[d])
      /\ UNCHANGED <<acceptVars, sessionVars, conn, goVars>>
  BY DEF DeleterRemoves
<1>3. target[d] \in 1 .. accepted /\ conn[target[d]] = "closed"
  BY <1>1, <1>2 DEF ClosedBeforeRemoval
<1>4. est' = est
  BY <1>2 DEF goVars
<1>5. /\ sessionList' \in Seq(1 .. accepted')
      /\ NumberedInOrder' /\ ListedOnce'
      /\ OpenSessionsAreListed' /\ EndedSessionsAreUnlisted'
  BY <1>2, <1>3, <1>4, RemovalStep
<1>6. RestTyped'
  BY <1>1, <1>2 DEF RestTyped, acceptVars, sessionVars, goVars
<1>7. ClosedBeforeRemoval'
  <2>1. \A e \in Deleters :
           /\ deleter'[e] = IF e = d THEN "idle" ELSE deleter[e]
           /\ e # d => target'[e] = target[e]
    BY <1>1, <1>2 DEF RestTyped
  <2>2. accepted' = accepted /\ conn' = conn /\ est' = est
    BY <1>2, <1>4 DEF acceptVars
  <2> QED
    BY <1>1, <2>1, <2>2 DEF ClosedBeforeRemoval
<1>8. crashed' \in BOOLEAN
  BY CrashedTyped DEF IInv
<1>9. TypeOK'
  BY Zenon, <1>5, <1>6, <1>8 DEF TypeOK, RestTyped
<1> QED
  BY <1>5, <1>7, <1>9 DEF IInv

(* Every step keeps the invariant, while there are no more connections     *)
(* than session IDs.                                                       *)
LEMMA StepInductive ==
    ASSUME MaxConns <= IDSpace
    PROVE  IInv /\ [Next]_vars => IInv'
<1> SUFFICES ASSUME IInv, [Next]_vars PROVE IInv'
  OBVIOUS
<1>1. CASE Accept
  BY <1>1, AcceptStep
<1>2. ASSUME NEW c \in Conns, Quiet(c) PROVE IInv'
  BY <1>2, QuietStep, KeptByQuietSteps
<1>3. ASSUME NEW c \in Conns, RemoveFromList(c) PROVE IInv'
  BY <1>3, RemoveFromListStep
<1>4. ASSUME NEW d \in Deleters, NEW peer \in Peers, DeleteSession(d, peer) PROVE IInv'
  BY <1>4, DeleterQuietStep, KeptByQuietSteps
<1>5. ASSUME NEW d \in Deleters, SendClose(d) \/ SendCloseFails(d) \/ DeleterCloses(d)
      PROVE  IInv'
  BY <1>5, DeleterQuietStep, KeptByQuietSteps
<1>6. ASSUME NEW d \in Deleters, DeleterRemoves(d) PROVE IInv'
  BY <1>6, DeleterRemovesStep
<1>7. CASE UNCHANGED vars
  <2>1. RestTyped' /\ ClosedBeforeRemoval'
    BY <1>7, TypeParts
       DEF vars, acceptVars, sessionVars, goVars, delVars, IInv, RestTyped,
           ClosedBeforeRemoval
  <2>2. ListUntouched /\ conn' = conn /\ est' = est
    BY <1>7 DEF vars, ListUntouched, acceptVars, sessionVars, goVars
  <2> QED
    BY <2>1, <2>2, KeptByQuietSteps
<1> QED
  BY <1>1, <1>2, <1>3, <1>4, <1>5, <1>6, <1>7, Steps

LEMMA Inductive ==
    ASSUME MaxConns <= IDSpace
    PROVE  Spec => []IInv
  BY InitInductive, StepInductive, PTL DEF Spec

(* Every variable keeps its type; in particular the list only ever holds   *)
(* sessions of accepted connections (Serve, closeSession).                 *)
THEOREM TypeCorrect ==
    ASSUME MaxConns <= IDSpace
    PROVE  Spec => []TypeOK
<1>1. IInv => TypeOK
  BY DEF IInv
<1> QED
  BY <1>1, Inductive, PTL

(* While the session IDs have not gone around, whoever closes sessions, in *)
(* whatever order and however often, a session whose connection is not     *)
(* closed is never taken out of sessionList (closeSession).                *)
THEOREM OpenSessionsStayListed ==
    ASSUME MaxConns <= IDSpace
    PROVE  Spec => []OpenSessionsAreListed
<1>1. IInv => OpenSessionsAreListed
  BY DEF IInv
<1> QED
  BY <1>1, Inductive, PTL

(* And a session whose goroutine has run closeSession has left the list    *)
(* for good: no other close puts it back (closeSession).                   *)
THEOREM EndedSessionsStayUnlisted ==
    ASSUME MaxConns <= IDSpace
    PROVE  Spec => []EndedSessionsAreUnlisted
<1>1. IInv => EndedSessionsAreUnlisted
  BY DEF IInv
<1> QED
  BY <1>1, Inductive, PTL

==============================================================================
