----------------------------- MODULE PCEPSession -----------------------------
(***************************************************************************)
(* One established PCEP session of polad: pkg/server/session.go, the gRPC  *)
(* handlers of pkg/server/grpc_server.go that send on it, and the two      *)
(* paths that close it (Established and the DeleteSession handler).        *)
(*                                                                         *)
(* The SR Policies a PCC reports and the intents the PCE remembers meet by *)
(* SRP-ID.  gRPC handlers and the receiver goroutine allocate IDs and send *)
(* requests; the receiver applies reports; the sweeper drops intents whose *)
(* time is over; a closer clears them.  Segment lists, names and labels    *)
(* are left out: what is kept of an ERO is whether it is empty.            *)
(***************************************************************************)
EXTENDS Integers, Sequences, SequencesExt

CONSTANTS
    Handlers,     \* gRPC handler goroutines
    Receiver,     \* the goroutine that runs ReceivePCEPMessage
    Plsp,         \* the PLSP-IDs the PCC hands out
    Key,          \* (color, endpoint) pairs
    Setting,      \* (type, metric) pairs a request may ask for
    NoSetting,    \* the zero Type and Metric
    MaxSRPID,     \* math.MaxUint32: 0 and MaxSRPID are reserved
    MaxLSPID,     \* the largest LSP-ID, 2^16 - 1 in the code
    TEDEnabled,   \* Session.ted # nil
    TTLElapses,   \* an intent may outlive its 60 seconds
    EmptyERO,     \* the PCC may report an LSP that is down without a path
    Endings,      \* the ways the session may end: a subset of AllEndings
    MaxRequests,  \* bound: requests of the gRPC handlers
    MaxEvents     \* bound: changes the PCC makes of its own accord

AllEndings == {"connectionBreaks", "pccCloses", "deleteSession"}

ASSUME SessionAssumption ==
    /\ MaxSRPID \in Nat /\ MaxSRPID >= 2
    /\ MaxLSPID \in Nat
    /\ Plsp \subseteq Nat \ {0} /\ IsFiniteSet(Plsp)
    /\ Receiver \notin Handlers
    /\ NoSetting \notin Setting
    /\ MaxRequests \in Nat /\ MaxEvents \in Nat
    /\ {TEDEnabled, TTLElapses, EmptyERO} \subseteq BOOLEAN
    /\ Endings \subseteq AllEndings

Senders == Handlers \cup {Receiver}
SRPID == 1 .. (MaxSRPID - 1)

VARIABLES
    conn,       \* the TCP connection: "up", "reset" by the peer, "closed" by polad
    listed,     \* the session is in Server.sessionList
    isSynced,   \* Session.isSynced
    srpIDHead,  \* Session.srpIDHead
    intents,    \* Session.srPolicyIntents: SRP-ID -> intent
    policies,   \* Session.srPolicies
    sweeping,   \* the sweeper goroutine runs
    pc, task,   \* per sender: where it stands, the request it is sending
    closer,     \* per closing path: where it stands
    toPCC, toPCE,   \* the two directions of the TCP connection
    lsps,       \* external: the PCC's LSP database, PLSP-ID -> LSP
    requests, events,  \* counters for MaxRequests and MaxEvents
    orphans,    \* history: requests whose intent was swept
    tainted,    \* history: the SRP-ID of an orphan in flight was handed out again
    missed      \* history: PLSP-IDs whose latest report changed nothing

sessionVars == <<conn, listed, isSynced, sweeping, closer>>
intentVars  == <<srpIDHead, intents, orphans, tainted>>
senderVars  == <<intentVars, pc, task, requests>>
pccVars     == <<lsps, events>>
policyVars  == <<policies, missed>>
vars == <<sessionVars, senderVars, pccVars, policyVars, toPCC, toPCE>>

------------------------------------------------------------------------------
(* Messages *)

NoTask == [kind |-> "none"]

(* PCInitiate (create, delete) and PCUpd (update); req is history.         *)
Request(kind, plsp, key, setting) ==
    [kind |-> kind, plsp |-> plsp, key |-> key, setting |-> setting,
     srpID |-> 0, req |-> 0]

(* A state report of a PCRpt; sync is the S flag, remove the R flag.       *)
Report(srpID, plsp, lsp, remove, sync, req) ==
    [kind |-> "report", srpID |-> srpID, plsp |-> plsp, key |-> lsp.key,
     lspID |-> lsp.lspID, state |-> lsp.state, ero |-> lsp.ero,
     remove |-> remove, sync |-> sync, req |-> req]

EndOfSync == [kind |-> "endOfSync"]
PCErr(srpID, req) == [kind |-> "pcErr", srpID |-> srpID, req |-> req]
Close == [kind |-> "close"]

(* The requests on their way, and the answers to them.                     *)
InFlight ==
    Range(toPCC)
    \cup {m \in Range(toPCE) : m.kind \in {"report", "pcErr"} /\ m.srpID # 0}
    \cup {task[p] : p \in {q \in Senders : pc[q] \in {"send", "forget"}}}

------------------------------------------------------------------------------
(* The SRP-ID and intent bookkeeping *)

WithoutIntents(S) == Restrict(intents, DOMAIN intents \ S)

(* nextUnusedSRPID: the first candidate without an intent, counting from   *)
(* the head and around.  The scan is atomic here: SRPIDAllocator has its   *)
(* steps.                                                                  *)
CandidateReserved(k) ==   \* mutant: the wrap forgets that MaxSRPID is reserved
    LET s == srpIDHead + k
    IN  IF s <= MaxSRPID THEN s ELSE s - MaxSRPID
Candidate(k) ==
    LET start == IF srpIDHead >= MaxSRPID THEN 1 ELSE srpIDHead
        s     == start + k
    IN  IF s < MaxSRPID THEN s ELSE s - (MaxSRPID - 1)
NextSRPID == Candidate(0)  \* mutant: the wrapped head is taken without a probe
NextUnusedSRPID ==
    Candidate(Min({k \in 0 .. (MaxSRPID - 2) : Candidate(k) \notin DOMAIN intents}))

------------------------------------------------------------------------------
(* gRPC handlers: CreateSRPolicy and DeleteSRPolicy *)

(* Indices of the policies with a PLSP-ID, or with a color and endpoint:   *)
(* every search of the list returns the first.                             *)
WithPlspUp(plsp) ==        \* mutant: the search skips policies that are down
    {i \in 1 .. Len(policies) : policies[i].plsp = plsp /\ policies[i].state = "up"}
WithPlsp(plsp) == {i \in 1 .. Len(policies) : policies[i].plsp = plsp}
WithKey(key) == {i \in 1 .. Len(policies) : policies[i].key = key}

SearchPlspID(key) == policies[Min(WithKey(key))].plsp

(* A sender takes up a request, which gets its history number.             *)
StartRequest(p, request) ==
    /\ requests' = requests + 1
    /\ pc' = [pc EXCEPT ![p] = "allocate"]
    /\ task' = [task EXCEPT ![p] = [request EXCEPT !.req = requests + 1]]

FinishRequest(p) ==
    /\ pc' = [pc EXCEPT ![p] = "idle"]
    /\ task' = [task EXCEPT ![p] = NoTask]

(* getSyncedPCEPSession, then SearchPlspID decides whether to ask for an   *)
(* update or for a new policy; the request is allocated and sent later.    *)
CreateSRPolicy(h, key, setting) ==
    /\ pc[h] = "idle"
    /\ listed /\ isSynced
    /\ requests < MaxRequests
    /\ StartRequest(h,
          IF WithKey(key) = {} THEN Request("create", 0, key, setting)
          ELSE Request("update", SearchPlspID(key), key, setting))
    /\ UNCHANGED <<intentVars, sessionVars, pccVars, policyVars, toPCC, toPCE>>

DeleteSRPolicy(h, key) ==
    /\ pc[h] = "idle"
    /\ listed /\ isSynced
    /\ requests < MaxRequests
    /\ WithKey(key) # {}
    /\ StartRequest(h, Request("delete", SearchPlspID(key), key, NoSetting))
    /\ UNCHANGED <<intentVars, sessionVars, pccVars, policyVars, toPCC, toPCE>>

------------------------------------------------------------------------------
(* SendPCInitiate and SendPCUpdate, on any goroutine *)

Allocate(p) ==
    /\ pc[p] = "allocate"
    /\ DOMAIN intents # SRPID
    /\ LET id == NextUnusedSRPID
       IN  /\ srpIDHead' = id + 1
           /\ intents' = [i \in DOMAIN intents \cup {id} |->
                 IF i = id THEN [setting |-> task[p].setting, req |-> task[p].req,
                                 overdue |-> FALSE]
                 ELSE intents[i]]
           /\ task' = [task EXCEPT ![p].srpID = id]
           /\ tainted' = (tainted \/ \E m \in InFlight :
                             m.srpID = id /\ m.req \in orphans)
    /\ pc' = [pc EXCEPT ![p] = "send"]
    /\ UNCHANGED <<orphans, requests, sessionVars, pccVars, policyVars, toPCC, toPCE>>

(* Every SRP-ID has an intent: the request fails.                          *)
AllocateFails(p) ==
    /\ pc[p] = "allocate"
    /\ DOMAIN intents = SRPID
    /\ FinishRequest(p)
    /\ UNCHANGED <<intentVars, requests, sessionVars, pccVars, policyVars, toPCC, toPCE>>

(* The write succeeds; once the peer has reset, what it writes is lost.    *)
Send(p) ==
    /\ pc[p] = "send"
    /\ conn # "closed"
    /\ toPCC' = IF conn = "up" THEN Append(toPCC, task[p]) ELSE toPCC
    /\ FinishRequest(p)
    /\ UNCHANGED <<intentVars, requests, sessionVars, pccVars, policyVars, toPCE>>

(* The message cannot be built, or the write fails.                        *)
SendFails(p) ==
    /\ pc[p] = "send"
    /\ pc' = [pc EXCEPT ![p] = "forget"]
    /\ UNCHANGED <<intentVars, task, requests, sessionVars, pccVars, policyVars,
                   toPCC, toPCE>>

KeepIntent(p) ==           \* mutant: a failed send leaves its intent
    /\ pc[p] = "forget"
    /\ FinishRequest(p)
    /\ UNCHANGED <<intentVars, requests, sessionVars, pccVars, policyVars, toPCC, toPCE>>
Forget(p) ==
    /\ pc[p] = "forget"
    /\ intents' = WithoutIntents({task[p].srpID})
    /\ FinishRequest(p)
    /\ UNCHANGED <<srpIDHead, orphans, tainted, requests, sessionVars, pccVars,
                   policyVars, toPCC, toPCE>>

------------------------------------------------------------------------------
(* The receiver goroutine: ReceivePCEPMessage *)

(* A report older than the policy is not the latest update.                *)
AnyReport(i, r) == TRUE    \* mutant: the LSP-ID is not compared
UpToDate(i, r) == policies[i].lspID <= r.lspID

(* updateOrCreatePolicy on a report with a path: a known PLSP-ID is        *)
(* updated unless its LSP-ID is newer than the report's, and only a report *)
(* that is applied takes the intent of its SRP-ID.                         *)
RegisterSRPolicy(r) ==
    LET settingFor(old) ==
            IF r.srpID \in DOMAIN intents THEN intents[r.srpID].setting ELSE old
        policy(old) ==
            [plsp |-> r.plsp, key |-> r.key, lspID |-> r.lspID, state |-> r.state,
             setting |-> settingFor(old)]
        at == Min(WithPlsp(r.plsp))
    IN  IF WithPlsp(r.plsp) = {}
        THEN /\ policies' = Append(policies, policy(NoSetting))
             /\ intents' = WithoutIntents({r.srpID})
             /\ missed' = missed \ {r.plsp}
        ELSE IF UpToDate(at, r)
        THEN /\ policies' = [policies EXCEPT ![at] = policy(policies[at].setting)]
             /\ intents' = WithoutIntents({r.srpID})
             /\ missed' = missed \ {r.plsp}
        ELSE /\ missed' = missed \cup {r.plsp}
             /\ UNCHANGED <<policies, intents>>

(* validateSegmentList refuses a report without a path.                    *)
RefuseReport(r) ==
    /\ missed' = missed \cup {r.plsp}
    /\ UNCHANGED <<policies, intents>>

RegisterReported(r) == IF r.ero THEN RegisterSRPolicy(r) ELSE RefuseReport(r)

(* The last policy takes the place of the one that is removed.             *)
TruncatePolicies(i) == Front(policies)   \* mutant: the last one is lost instead
RemovePolicy(i) == Front([policies EXCEPT ![i] = Last(policies)])

DeleteReported(r) ==
    LET old == {i \in WithPlsp(r.plsp) : UpToDate(i, r)}
    IN  IF old # {}
        THEN /\ policies' = RemovePolicy(Min(old))
             /\ intents' = WithoutIntents({r.srpID})
             /\ missed' = missed \ {r.plsp}
        ELSE /\ missed' = IF WithPlsp(r.plsp) = {} THEN missed \ {r.plsp}
                          ELSE missed \cup {r.plsp}
             /\ UNCHANGED <<policies, intents>>

(* The next message is read; its handling is one step except that a        *)
(* recomputed path is sent afterwards.                                     *)
Reading(kind) ==
    /\ pc[Receiver] = "idle"
    /\ conn # "closed"
    /\ toPCE # <<>>
    /\ Head(toPCE).kind = kind
    /\ toPCE' = Tail(toPCE)

(* handleStateReport for a report with the S flag, with an SRP-ID, or, if  *)
(* the session has no TED, with neither.                                   *)
ReceiveReport ==
    LET r == Head(toPCE)
    IN  /\ Reading("report")
        /\ r.sync \/ r.srpID # 0 \/ r.remove \/ ~TEDEnabled
        /\ IF r.remove /\ ~r.sync THEN DeleteReported(r) ELSE RegisterReported(r)
        /\ UNCHANGED <<srpIDHead, orphans, tainted, requests, pc, task,
                       sessionVars, pccVars, toPCC>>

(* An unsolicited report: the PCE computes the path itself, registers the  *)
(* policy with it and tells the PCC, with the policy's Type and Metric.    *)
ReceiveUnsolicited ==
    LET r == Head(toPCE)
    IN  /\ Reading("report")
        /\ ~r.sync /\ r.srpID = 0 /\ ~r.remove /\ TEDEnabled
        /\ RegisterSRPolicy(r)
        /\ StartRequest(Receiver,
              LET p == policies'[CHOOSE i \in 1 .. Len(policies') :
                                    policies'[i].plsp = r.plsp]
              IN  Request("update", p.plsp, p.key, p.setting))
        /\ UNCHANGED <<srpIDHead, orphans, tainted, sessionVars, pccVars, toPCC>>

(* No path is found, or it is empty: the report is not registered.         *)
ReceiveUncomputable ==
    LET r == Head(toPCE)
    IN  /\ Reading("report")
        /\ ~r.sync /\ r.srpID = 0 /\ ~r.remove /\ TEDEnabled
        /\ RefuseReport(r)
        /\ UNCHANGED <<srpIDHead, orphans, tainted, requests, pc, task,
                       sessionVars, pccVars, toPCC>>

ReceiveEndOfSync ==
    /\ Reading("endOfSync")
    /\ isSynced' = TRUE
    /\ UNCHANGED <<conn, listed, sweeping, closer, senderVars, pccVars, policyVars,
                   toPCC>>

(* handlePCErr forgets the intents of the SRP-IDs the error names.         *)
ReceivePCErr ==
    /\ Reading("pcErr")
    /\ intents' = WithoutIntents({Head(toPCE).srpID})
    /\ UNCHANGED <<srpIDHead, orphans, tainted, requests, pc, task, sessionVars,
                   pccVars, policyVars, toPCC>>

(* A Close message, or one that does not decode, ends the loop.            *)
ReceiveClose ==
    /\ Reading("close")
    /\ pc' = [pc EXCEPT ![Receiver] = "ended"]
    /\ UNCHANGED <<intentVars, requests, task, sessionVars, pccVars, policyVars, toPCC>>

(* Read fails: the socket was closed here, or the peer is gone.            *)
ReceiveFails ==
    /\ pc[Receiver] = "idle"
    /\ conn = "closed" \/ (conn = "reset" /\ toPCE = <<>>)
    /\ pc' = [pc EXCEPT ![Receiver] = "ended"]
    /\ UNCHANGED <<intentVars, requests, task, sessionVars, pccVars, policyVars,
                   toPCC, toPCE>>

------------------------------------------------------------------------------
(* The sweeper *)

(* Sixty seconds pass after an intent was remembered.                      *)
Elapse(id) ==
    /\ TTLElapses /\ sweeping
    /\ id \in DOMAIN intents
    /\ ~intents[id].overdue
    /\ intents' = [intents EXCEPT ![id].overdue = TRUE]
    /\ UNCHANGED <<srpIDHead, orphans, tainted, requests, pc, task, sessionVars,
                   pccVars, policyVars, toPCC, toPCE>>

(* sweepExpiredSRPolicyIntents removes every overdue intent.               *)
OverdueWhenFull ==         \* mutant: it sweeps only when no SRP-ID is free
    {id \in DOMAIN intents : intents[id].overdue /\ DOMAIN intents = SRPID}
Overdue == {id \in DOMAIN intents : intents[id].overdue}

Sweep ==
    /\ sweeping
    /\ Overdue # {}
    /\ intents' = WithoutIntents(Overdue)
    /\ orphans' = orphans \cup {intents[id].req : id \in Overdue}
    /\ UNCHANGED <<srpIDHead, tainted, requests, pc, task, sessionVars,
                   pccVars, policyVars, toPCC, toPCE>>

------------------------------------------------------------------------------
(* Closing *)

(* Established returns when the receiver is done or a Keepalive cannot be  *)
(* written; stopIntentSweep waits for the sweeper before closeSession.     *)
EstablishedReturns ==
    /\ closer["established"] = "running"
    /\ pc[Receiver] = "ended" \/ conn # "up"
    /\ closer' = [closer EXCEPT !["established"] = "closeConn"]
    /\ sweeping' = FALSE
    /\ UNCHANGED <<conn, listed, isSynced, senderVars, pccVars, policyVars,
                   toPCC, toPCE>>

(* The DeleteSession handler: SearchSession, SendClose, closeSession.      *)
DeleteSession ==
    /\ "deleteSession" \in Endings
    /\ closer["deleteSession"] = "running"
    /\ listed /\ conn # "closed"
    /\ closer' = [closer EXCEPT !["deleteSession"] = "closeConn"]
    /\ UNCHANGED <<conn, listed, isSynced, sweeping, senderVars, pccVars,
                   policyVars, toPCC, toPCE>>

(* closeSession, which both paths may run at the same time.  Nothing is    *)
(* read from either end of the connection after this.                      *)
CloseConn(x) ==
    /\ closer[x] = "closeConn"
    /\ closer' = [closer EXCEPT ![x] = "clear"]
    /\ conn' = "closed"
    /\ toPCC' = <<>> /\ toPCE' = <<>>
    /\ UNCHANGED <<listed, isSynced, sweeping, senderVars, pccVars, policyVars>>

ClearIntents(x) ==
    /\ closer[x] = "clear"
    /\ closer' = [closer EXCEPT ![x] = "unlist"]
    /\ intents' = <<>>
    /\ UNCHANGED <<conn, listed, isSynced, sweeping, srpIDHead, orphans, tainted,
                   requests, pc, task, pccVars, policyVars, toPCC, toPCE>>

Unlist(x) ==
    /\ closer[x] = "unlist"
    /\ closer' = [closer EXCEPT ![x] = "done"]
    /\ listed' = FALSE
    /\ UNCHANGED <<conn, isSynced, sweeping, senderVars, pccVars, policyVars,
                   toPCC, toPCE>>

------------------------------------------------------------------------------
(* External: the PCC *)

NextLSPID(l) == (l + 1) % (MaxLSPID + 1)   \* the field is 16 bits wide

(* The forms in which an LSP can be reported.                              *)
Forms ==
    {form \in [state : {"up", "down"}, ero : BOOLEAN] :
        ~form.ero => EmptyERO /\ form.state = "down"}
Reportable(key, lspID) ==
    {[key |-> key, lspID |-> lspID, state |-> form.state, ero |-> form.ero] : form \in Forms}

Answering == conn = "up" /\ toPCC # <<>>

Answer(m) ==
    /\ toPCC' = Tail(toPCC)
    /\ toPCE' = Append(toPCE, m)
    /\ UNCHANGED <<events, senderVars, sessionVars, policyVars>>

(* A PCInitiate is carried out: a PLSP-ID is chosen for the new LSP.       *)
PCCCreates ==
    /\ Answering /\ Head(toPCC).kind = "create"
    /\ \E plsp \in Plsp \ DOMAIN lsps,
          lsp \in Reportable(Head(toPCC).key, 0) :
          /\ lsps' = [q \in DOMAIN lsps \cup {plsp} |->
                          IF q = plsp THEN lsp ELSE lsps[q]]
          /\ Answer(Report(Head(toPCC).srpID, plsp, lsp, FALSE, FALSE,
                           Head(toPCC).req))

(* A PCUpd is carried out, with or without a new LSP-ID.                   *)
PCCUpdates ==
    /\ Answering /\ Head(toPCC).kind = "update"
    /\ Head(toPCC).plsp \in DOMAIN lsps
    /\ LET old == lsps[Head(toPCC).plsp]
       IN  \E lspID \in {old.lspID, NextLSPID(old.lspID)} :
             \E lsp \in Reportable(old.key, lspID) :
                /\ lsps' = [lsps EXCEPT ![Head(toPCC).plsp] = lsp]
                /\ Answer(Report(Head(toPCC).srpID, Head(toPCC).plsp, lsp,
                                 FALSE, FALSE, Head(toPCC).req))

(* A PCInitiate with the R flag is carried out.                            *)
PCCDeletes ==
    /\ Answering /\ Head(toPCC).kind = "delete"
    /\ LET plsp == Head(toPCC).plsp
       IN  /\ plsp \in DOMAIN lsps
           /\ lsps' = Restrict(lsps, DOMAIN lsps \ {plsp})
           /\ Answer(Report(Head(toPCC).srpID, plsp, lsps[plsp], TRUE, FALSE,
                            Head(toPCC).req))

PCCRejects ==
    /\ Answering
    /\ Answer(PCErr(Head(toPCC).srpID, Head(toPCC).req))
    /\ UNCHANGED lsps

(* The PCC changes or removes an LSP on its own and reports it.            *)
Unasked ==
    /\ conn = "up"
    /\ events < MaxEvents
    /\ events' = events + 1
    /\ UNCHANGED <<toPCC, senderVars, sessionVars, policyVars>>

PCCChanges(plsp) ==
    /\ Unasked
    /\ plsp \in DOMAIN lsps
    /\ \E lspID \in {lsps[plsp].lspID, NextLSPID(lsps[plsp].lspID)} :
          \E lsp \in Reportable(lsps[plsp].key, lspID) :
             /\ lsps' = [lsps EXCEPT ![plsp] = lsp]
             /\ toPCE' = Append(toPCE, Report(0, plsp, lsp, FALSE, FALSE, 0))

PCCRemoves(plsp) ==
    /\ Unasked
    /\ plsp \in DOMAIN lsps
    /\ lsps' = Restrict(lsps, DOMAIN lsps \ {plsp})
    /\ toPCE' = Append(toPCE, Report(0, plsp, lsps[plsp], TRUE, FALSE, 0))

PCCCloses ==
    /\ "pccCloses" \in Endings
    /\ Unasked
    /\ toPCE' = Append(toPCE, Close)
    /\ UNCHANGED lsps

(* The connection breaks: what was not read yet may still be read.         *)
ConnectionBreaks ==
    /\ "connectionBreaks" \in Endings
    /\ conn = "up"
    /\ conn' = "reset"
    /\ toPCC' = <<>>
    /\ UNCHANGED <<listed, isSynced, sweeping, closer, senderVars, pccVars,
                   policyVars, toPCE>>

------------------------------------------------------------------------------

SyncReports(db, order) ==
    [i \in DOMAIN order |-> Report(0, order[i], db[order[i]], FALSE, TRUE, 0)]

(* The session is established; the PCC has sent its LSP database in some   *)
(* order.                                                                  *)
Init ==
    /\ conn = "up"
    /\ listed = TRUE
    /\ isSynced = FALSE
    /\ srpIDHead = 1
    /\ intents = <<>>
    /\ policies = <<>>
    /\ sweeping = TRUE
    /\ pc = [p \in Senders |-> "idle"]
    /\ task = [p \in Senders |-> NoTask]
    /\ closer = [x \in {"established", "deleteSession"} |-> "running"]
    /\ toPCC = <<>>
    /\ \E S \in SUBSET Plsp :
          \E f \in [S -> UNION {Reportable(k, 0) : k \in Key}] :
             /\ \A q \in S : f[q].state = "up"
             /\ lsps = f
             /\ \E order \in SetToSeqs(S) :
                   toPCE = Append(SyncReports(f, order), EndOfSync)
    /\ requests = 0
    /\ events = 0
    /\ orphans = {}
    /\ tainted = FALSE
    /\ missed = {}

SenderStep(p) ==
    \/ Allocate(p) \/ AllocateFails(p) \/ Send(p) \/ SendFails(p) \/ Forget(p)

ReceiverStep ==
    \/ ReceiveReport \/ ReceiveUnsolicited \/ ReceiveUncomputable
    \/ ReceiveEndOfSync \/ ReceivePCErr \/ ReceiveClose \/ ReceiveFails

CloserStep(x) == CloseConn(x) \/ ClearIntents(x) \/ Unlist(x)

PCCStep ==
    \/ PCCCreates \/ PCCUpdates \/ PCCDeletes \/ PCCRejects
    \/ \E plsp \in Plsp : PCCChanges(plsp) \/ PCCRemoves(plsp)
    \/ PCCCloses \/ ConnectionBreaks

Next ==
    \/ \E h \in Handlers, key \in Key :
          \/ DeleteSRPolicy(h, key)
          \/ \E setting \in Setting : CreateSRPolicy(h, key, setting)
    \/ \E p \in Senders : SenderStep(p)
    \/ ReceiverStep
    \/ Sweep \/ \E id \in SRPID : Elapse(id)
    \/ EstablishedReturns \/ DeleteSession
    \/ \E x \in DOMAIN closer : CloserStep(x)
    \/ PCCStep

Spec == Init /\ [][Next]_vars

------------------------------------------------------------------------------
(* Properties *)

Requests ==
    [kind : {"create", "update", "delete"}, plsp : Plsp \cup {0}, key : Key,
     setting : Setting \cup {NoSetting}, srpID : SRPID \cup {0}, req : Nat]
Policies ==
    [plsp : Plsp, key : Key, lspID : 0 .. MaxLSPID, state : {"up", "down"},
     setting : Setting \cup {NoSetting}]
Reports ==
    [kind : {"report"}, srpID : SRPID \cup {0}, plsp : Plsp, key : Key,
     lspID : 0 .. MaxLSPID, state : {"up", "down"}, ero : BOOLEAN,
     remove : BOOLEAN, sync : BOOLEAN, req : Nat]
PCErrs == [kind : {"pcErr"}, srpID : SRPID \cup {0}, req : Nat]
LSPs ==
    [key : Key, lspID : 0 .. MaxLSPID, state : {"up", "down"}, ero : BOOLEAN]
Intents == [setting : Setting \cup {NoSetting}, req : Nat, overdue : BOOLEAN]

TypeOK ==
    /\ conn \in {"up", "reset", "closed"}
    /\ listed \in BOOLEAN /\ isSynced \in BOOLEAN
    /\ sweeping \in BOOLEAN /\ tainted \in BOOLEAN
    /\ srpIDHead \in 1 .. MaxSRPID
    /\ DOMAIN intents \subseteq SRPID
    /\ \A id \in DOMAIN intents : intents[id] \in Intents
    /\ policies \in Seq(Policies)
    /\ pc \in [Senders -> {"idle", "allocate", "send", "forget", "ended"}]
    /\ task \in [Senders -> Requests \cup {NoTask}]
    /\ closer \in [{"established", "deleteSession"} ->
                      {"running", "closeConn", "clear", "unlist", "done"}]
    /\ toPCC \in Seq(Requests)
    /\ toPCE \in Seq(Reports \cup PCErrs \cup {EndOfSync, Close})
    /\ DOMAIN lsps \subseteq Plsp
    /\ \A plsp \in DOMAIN lsps : lsps[plsp] \in LSPs
    /\ requests \in Nat /\ events \in 0 .. MaxEvents
    /\ orphans \subseteq Nat
    /\ missed \subseteq Plsp

(* The policy list has one entry per PLSP-ID whatever the order in which   *)
(* reports create, update and remove entries.                              *)
UniquePlspIDs ==
    \A i, j \in 1 .. Len(policies) : policies[i].plsp = policies[j].plsp => i = j

Cleared == \E x \in DOMAIN closer : closer[x] \in {"unlist", "done"}

(* From the moment a request has its SRP-ID until the PCC's answer to it   *)
(* is read, the intent filed under that SRP-ID is the request's own, so an *)
(* answer never lends a policy the Type and Metric of another request.     *)
(* The sweeper alone may take the intent away early; only if it did, and   *)
(* the IDs have gone around meanwhile, can the SRP-ID be anybody else's.   *)
InFlightKeepsIntent ==
    tainted \/ Cleared \/
    \A m \in InFlight :
       \/ m.req \in orphans
       \/ m.srpID \in DOMAIN intents /\ intents[m.srpID].req = m.req

(* Once closeSession has cleared the intents, no sender that still had a   *)
(* session pointer leaves one behind: whatever it allocates after that is  *)
(* forgotten again when its write to the closed connection fails.          *)
NoIntentOutlivesSession ==
    Cleared /\ (\A p \in Senders : pc[p] \notin {"send", "forget"})
        => DOMAIN intents = {}

(* When polad has read everything the PCC has sent, its list and the PCC's *)
(* database agree on every LSP whose latest report was not refused.        *)
QuiescentAgreement ==
    isSynced /\ conn = "up" /\ toPCE = <<>> =>
        \A plsp \in Plsp \ missed :
           /\ plsp \in DOMAIN lsps <=> WithPlsp(plsp) # {}
           /\ \A i \in WithPlsp(plsp) :
                 /\ policies[i].lspID = lsps[plsp].lspID
                 /\ policies[i].state = lsps[plsp].state

(* While a policy stays in the list its LSP-ID never goes back.            *)
LSPIDsAdvance ==
    \A i \in 1 .. Len(policies), j \in 1 .. Len(policies') :
       policies[i].plsp = policies'[j].plsp =>
          policies[i].lspID <= policies'[j].lspID
LSPIDNeverGoesBack == [][LSPIDsAdvance]_vars

(* Every intent is taken, forgotten, swept or cleared in the end.          *)
IntentsEnd ==
    \A id \in SRPID, req \in 1 .. (MaxRequests + MaxEvents) :
       (id \in DOMAIN intents /\ intents[id].req = req) ~>
          ~(id \in DOMAIN intents /\ intents[id].req = req)

(* Time passes, goroutines run, and a ticker keeps firing.                 *)
Fairness ==
    /\ \A id \in SRPID : WF_vars(Elapse(id))
    /\ WF_vars(Sweep)
    /\ \A p \in Senders : WF_vars(SenderStep(p))
    /\ WF_vars(EstablishedReturns)
    /\ \A x \in {"established", "deleteSession"} : WF_vars(CloserStep(x))

FairSpec == Spec /\ Fairness

(* cmd/pola/README.md: the state of a listed policy reflects the latest    *)
(* PCRpt received.                                                         *)
StateReflectsLatestReport ==
    conn = "up" /\ toPCE = <<>> =>
        \A i \in 1 .. Len(policies) :
           policies[i].plsp \in DOMAIN lsps
           => policies[i].state = lsps[policies[i].plsp].state
==============================================================================
