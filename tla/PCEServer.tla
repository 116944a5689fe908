------------------------------ MODULE PCEServer ------------------------------
(***************************************************************************)
(* The sessions of one polad process: pkg/server/server.go (Serve,         *)
(* closeSession, SearchSession), Session.Established with the goroutines   *)
(* it starts (pkg/server/session.go), and the DeleteSession handler of     *)
(* pkg/server/grpc_server.go.  A session is named by the number of its     *)
(* connection; what is exchanged on it is PCEPSession's.                   *)
(***************************************************************************)
EXTENDS Integers, Sequences, SequencesExt

CONSTANTS MaxConns,       \* bound: connections accepted
          IDSpace,        \* values of Session.sessionID: 2^8, a uint8
          Peers,          \* peer addresses
          Deleters,       \* gRPC handlers running DeleteSession
          ZeroKeepalive   \* a peer may announce Keepalive 0 in its Open

ASSUME ServerAssumption ==
    /\ MaxConns \in Nat
    /\ IDSpace \in Nat /\ IDSpace >= 2
    /\ ZeroKeepalive \in BOOLEAN

Conns == 1 .. MaxConns
NoConn == 0

VARIABLES
    accepted,     \* connections accepted so far
    nextID,       \* the local sessionID of Serve
    sessionID, peerAddr,   \* Session fields, per session
    sessionList,  \* Server.sessionList
    conn,         \* the TCP connection of a session
    est,          \* the goroutine of Serve that runs Established and closeSession
    recv,         \* the goroutine that runs ReceivePCEPMessage
    done,         \* messages in the channel between the two: its buffer is 1
    sweeper,      \* the goroutine that runs runIntentSweep
    deleter,      \* per handler: where it stands
    target,       \* per handler: the session SearchSession returned
    crashed       \* a goroutine has panicked

sessionVars == <<sessionID, peerAddr>>
goVars == <<est, recv, done, sweeper>>
delVars == <<deleter, target>>
acceptVars == <<accepted, nextID>>
vars == <<acceptVars, sessionVars, sessionList, conn, goVars, delVars, crashed>>

Init ==
    /\ accepted = 0 /\ nextID = 1
    /\ sessionID = [c \in Conns |-> 0]
    /\ peerAddr \in [Conns -> Peers]
    /\ sessionList = <<>>
    /\ conn = [c \in Conns |-> "none"]
    /\ est = [c \in Conns |-> "none"]
    /\ recv = [c \in Conns |-> "none"]
    /\ done = [c \in Conns |-> 0]
    /\ sweeper = [c \in Conns |-> "none"]
    /\ deleter = [d \in Deleters |-> "idle"]
    /\ target = [d \in Deleters |-> NoConn]
    /\ crashed = FALSE

------------------------------------------------------------------------------
(* Serve *)

(* AcceptTCP, NewSession, the append to the list, the start of the         *)
(* session's goroutine, sessionID++.                                       *)
UnwrappedID(id) == id + 1   \* mutant: an ID as wide as the counter
NextID(id) == IF id + 1 = IDSpace THEN 0 ELSE id + 1
Accept ==
    /\ accepted < MaxConns
    /\ LET c == accepted + 1
       IN  /\ accepted' = c
           /\ sessionID' = [sessionID EXCEPT ![c] = nextID]
           /\ sessionList' = Append(sessionList, c)
           /\ conn' = [conn EXCEPT ![c] = "up"]
           /\ est' = [est EXCEPT ![c] = "opening"]
    /\ nextID' = NextID(nextID)
    /\ UNCHANGED <<peerAddr, recv, done, sweeper, delVars, crashed>>

(* The list without the first session that has this ID: the last one takes *)
(* its place.                                                              *)
SameID(c) == {i \in 1 .. Len(sessionList) : sessionID[sessionList[i]] = sessionID[c]}
TruncatedList(c) ==   \* mutant: the last session is lost instead
    IF SameID(c) = {} THEN sessionList ELSE Front(sessionList)
KeptWhenSingle(c) ==  \* mutant: a list of one is left alone
    IF SameID(c) = {} \/ Len(sessionList) = 1 THEN sessionList
    ELSE Front([sessionList EXCEPT ![Min(SameID(c))] = Last(sessionList)])
ListWithout(c) ==
    IF SameID(c) = {} THEN sessionList
    ELSE Front([sessionList EXCEPT ![Min(SameID(c))] = Last(sessionList)])

------------------------------------------------------------------------------
(* Established *)

(* Open or the first Keepalive fails, whatever the reason.                 *)
OpenFails(c) ==
    /\ est[c] = "opening"
    /\ est' = [est EXCEPT ![c] = "close"]
    /\ UNCHANGED <<acceptVars, sessionVars, sessionList, conn, recv, done, sweeper,
                   delVars, crashed>>

(* Open and the first Keepalive succeed: the sweeper and the receiver are  *)
(* started, then the ticker.                                               *)
OpenSucceeds(c) ==
    /\ est[c] = "opening"
    /\ conn[c] # "closed"
    /\ est' = [est EXCEPT ![c] = "select"]
    /\ sweeper' = [sweeper EXCEPT ![c] = "running"]
    /\ recv' = [recv EXCEPT ![c] = "reading"]
    /\ UNCHANGED <<acceptVars, sessionVars, sessionList, conn, done, delVars, crashed>>

(* time.NewTicker panics on an interval of zero, which ends the process.   *)
OpenWithoutKeepalive(c) ==
    /\ ZeroKeepalive
    /\ est[c] = "opening"
    /\ conn[c] # "closed"
    /\ crashed' = TRUE
    /\ UNCHANGED <<acceptVars, sessionVars, sessionList, conn, goVars, delVars>>

(* A Close message or one that does not decode comes in, or Read fails.    *)
ReceiverEnds(c) ==
    /\ recv[c] = "reading"
    /\ recv' = [recv EXCEPT ![c] = "signal"]
    /\ UNCHANGED <<acceptVars, sessionVars, sessionList, conn, est, done, sweeper,
                   delVars, crashed>>

(* done has room for one message, so the receiver never waits here.        *)
ReceiverHandsOver(c) ==   \* mutant: an unbuffered channel needs a receiver
    /\ recv[c] = "signal"
    /\ est[c] = "select"
    /\ recv' = [recv EXCEPT ![c] = "ended"]
    /\ est' = [est EXCEPT ![c] = "stopSweep"]
    /\ UNCHANGED <<acceptVars, sessionVars, sessionList, conn, done, sweeper,
                   delVars, crashed>>
ReceiverSignals(c) ==
    /\ recv[c] = "signal"
    /\ done[c] < 1
    /\ done' = [done EXCEPT ![c] = 1]
    /\ recv' = [recv EXCEPT ![c] = "ended"]
    /\ UNCHANGED <<acceptVars, sessionVars, sessionList, conn, est, sweeper,
                   delVars, crashed>>

SelectDone(c) ==
    /\ est[c] = "select"
    /\ done[c] = 1
    /\ done' = [done EXCEPT ![c] = 0]
    /\ est' = [est EXCEPT ![c] = "stopSweep"]
    /\ UNCHANGED <<acceptVars, sessionVars, sessionList, conn, recv, sweeper,
                   delVars, crashed>>

(* The ticker fires and the Keepalive cannot be written.                   *)
KeepaliveFails(c) ==
    /\ est[c] = "select"
    /\ conn[c] # "up"
    /\ est' = [est EXCEPT ![c] = "stopSweep"]
    /\ UNCHANGED <<acceptVars, sessionVars, sessionList, conn, recv, done, sweeper,
                   delVars, crashed>>

(* stopIntentSweep: close(stop), then wait for done.                       *)
StopSweep(c) ==
    /\ est[c] = "stopSweep"
    /\ est' = [est EXCEPT ![c] = "awaitSweeper"]
    /\ sweeper' = [sweeper EXCEPT ![c] = "stopping"]
    /\ UNCHANGED <<acceptVars, sessionVars, sessionList, conn, recv, done, delVars,
                   crashed>>

SweeperEnds(c) ==
    /\ sweeper[c] = "stopping"
    /\ sweeper' = [sweeper EXCEPT ![c] = "ended"]
    /\ UNCHANGED <<acceptVars, sessionVars, sessionList, conn, est, recv, done,
                   delVars, crashed>>

SweeperAwaited(c) ==
    /\ est[c] = "awaitSweeper"
    /\ sweeper[c] = "ended"
    /\ est' = [est EXCEPT ![c] = "close"]
    /\ UNCHANGED <<acceptVars, sessionVars, sessionList, conn, recv, done, sweeper,
                   delVars, crashed>>

(* closeSession on the goroutine of Serve.                                 *)
CloseConn(c) ==
    /\ est[c] = "close"
    /\ est' = [est EXCEPT ![c] = "remove"]
    /\ conn' = [conn EXCEPT ![c] = "closed"]
    /\ UNCHANGED <<acceptVars, sessionVars, sessionList, recv, done, sweeper,
                   delVars, crashed>>

RemoveFromList(c) ==
    /\ est[c] = "remove"
    /\ est' = [est EXCEPT ![c] = "ended"]
    /\ sessionList' = ListWithout(c)
    /\ UNCHANGED <<acceptVars, sessionVars, conn, recv, done, sweeper, delVars,
                   crashed>>

------------------------------------------------------------------------------
(* The DeleteSession handler *)

OfPeer(peer) == {i \in 1 .. Len(sessionList) : peerAddr[sessionList[i]] = peer}

DeleteSession(d, peer) ==
    /\ deleter[d] = "idle"
    /\ OfPeer(peer) # {}
    /\ deleter' = [deleter EXCEPT ![d] = "sendClose"]
    /\ target' = [target EXCEPT ![d] = sessionList[Min(OfPeer(peer))]]
    /\ UNCHANGED <<acceptVars, sessionVars, sessionList, conn, goVars, crashed>>

SendClose(d) ==
    /\ deleter[d] = "sendClose"
    /\ conn[target[d]] # "closed"
    /\ deleter' = [deleter EXCEPT ![d] = "close"]
    /\ UNCHANGED <<acceptVars, sessionVars, sessionList, conn, goVars, target, crashed>>

SendCloseFails(d) ==
    /\ deleter[d] = "sendClose"
    /\ conn[target[d]] # "up"
    /\ deleter' = [deleter EXCEPT ![d] = "idle"]
    /\ target' = [target EXCEPT ![d] = NoConn]
    /\ UNCHANGED <<acceptVars, sessionVars, sessionList, conn, goVars, crashed>>

(* closeSession on the handler's goroutine; Established's will run it too. *)
DeleterCloses(d) ==
    /\ deleter[d] = "close"
    /\ deleter' = [deleter EXCEPT ![d] = "remove"]
    /\ conn' = [conn EXCEPT ![target[d]] = "closed"]
    /\ UNCHANGED <<acceptVars, sessionVars, sessionList, goVars, target, crashed>>

DeleterRemoves(d) ==
    /\ deleter[d] = "remove"
    /\ deleter' = [deleter EXCEPT ![d] = "idle"]
    /\ target' = [target EXCEPT ![d] = NoConn]
    /\ sessionList' = ListWithout(target[d])
    /\ UNCHANGED <<acceptVars, sessionVars, conn, goVars, crashed>>

------------------------------------------------------------------------------

(* External: the peer goes away.                                           *)
PeerLeaves(c) ==
    /\ conn[c] = "up"
    /\ conn' = [conn EXCEPT ![c] = "reset"]
    /\ UNCHANGED <<acceptVars, sessionVars, sessionList, goVars, delVars, crashed>>

EstablishedStep(c) ==
    \/ OpenFails(c) \/ SelectDone(c) \/ KeepaliveFails(c) \/ StopSweep(c)
    \/ SweeperAwaited(c) \/ CloseConn(c) \/ RemoveFromList(c)

DeleterStep(d) ==
    \/ SendClose(d) \/ SendCloseFails(d) \/ DeleterCloses(d) \/ DeleterRemoves(d)

SessionStep(c) ==
    \/ EstablishedStep(c) \/ OpenSucceeds(c) \/ OpenWithoutKeepalive(c)
    \/ ReceiverEnds(c) \/ ReceiverSignals(c) \/ SweeperEnds(c) \/ PeerLeaves(c)

Next ==
    /\ ~crashed
    /\ \/ Accept
       \/ \E c \in Conns : SessionStep(c)
       \/ \E d \in Deleters :
             DeleterStep(d) \/ \E peer \in Peers : DeleteSession(d, peer)

Spec == Init /\ [][Next]_vars

(* Goroutines run.  A Read on a connection that is gone fails, so does an  *)
(* Open that is still awaited; while the connection is up nothing obliges  *)
(* the peer to send, and no timer of polad ends the wait.                  *)
Fairness ==
    /\ \A c \in Conns :
          /\ WF_vars(conn[c] # "up" /\ OpenFails(c))
          /\ WF_vars(conn[c] # "up" /\ ReceiverEnds(c))
          /\ WF_vars(ReceiverSignals(c))
          /\ WF_vars(SweeperEnds(c))
          /\ WF_vars(est[c] # "opening" /\ EstablishedStep(c))
    /\ \A d \in Deleters : WF_vars(DeleterStep(d))

FairSpec == Spec /\ Fairness

------------------------------------------------------------------------------
(* Properties *)

TypeOK ==
    /\ accepted \in 0 .. MaxConns
    /\ nextID \in 0 .. (IDSpace - 1)
    /\ sessionID \in [Conns -> 0 .. (IDSpace - 1)]
    /\ peerAddr \in [Conns -> Peers]
    /\ sessionList \in Seq(1 .. accepted)
    /\ conn \in [Conns -> {"none", "up", "reset", "closed"}]
    /\ est \in [Conns -> {"none", "opening", "select", "stopSweep", "awaitSweeper",
                          "close", "remove", "ended"}]
    /\ recv \in [Conns -> {"none", "reading", "signal", "ended"}]
    /\ done \in [Conns -> {0, 1}]
    /\ sweeper \in [Conns -> {"none", "running", "stopping", "ended"}]
    /\ deleter \in [Deleters -> {"idle", "sendClose", "close", "remove"}]
    /\ target \in [Deleters -> Conns \cup {NoConn}]
    /\ crashed \in BOOLEAN

Listed(c) == \E i \in 1 .. Len(sessionList) : sessionList[i] = c

(* A session whose connection nobody on this side has closed is in the     *)
(* list: closing one session, however many goroutines do it and however    *)
(* often, never takes another one out.                                     *)
OpenSessionsAreListed ==
    \A c \in Conns : conn[c] \in {"up", "reset"} => Listed(c)

(* A session whose goroutine is done is in the list no more.               *)
EndedSessionsAreUnlisted ==
    \A c \in Conns : est[c] = "ended" => ~Listed(c)

(* Once the connection is gone the session winds down completely: its      *)
(* three goroutines end, none waits on another for ever, and it is out of  *)
(* the list.                                                               *)
SessionsWindDown ==
    \A c \in Conns :
       conn[c] \in {"reset", "closed"} ~>
          \/ crashed
          \/ /\ est[c] = "ended" /\ ~Listed(c)
             /\ recv[c] \in {"none", "ended"}
             /\ sweeper[c] \in {"none", "ended"}

==============================================================================
