---------------------------- MODULE PCEPExchange ----------------------------
(***************************************************************************)
(* The bytes of one PCEP session: pkg/server/session.go from the Open      *)
(* exchange to the registry, over the messages of PCEPMessages, and an     *)
(* external PCC that keeps LSPs, obeys or refuses requests and reports.    *)
(*                                                                         *)
(* PCEPSession has the goroutines of a session and abstract reports; here  *)
(* a handler is one step and what matters is what the two sides make of    *)
(* each other's words.  toPCE is the TCP stream, without message           *)
(* boundaries.                                                             *)
(***************************************************************************)
EXTENDS PCEPMessages, Functions

CONSTANTS
    Pccs,          \* the PCCs: see PccAssumption
    Paths,         \* per metric: the path CSPF finds
    Keepalive, ASN,
    Segmented,     \* a Read may return less than a whole message
    MaxRequests,   \* bound: requests of clients
    MaxSRPID,      \* the largest SRP-ID those and the recomputations take
    MaxEvents,     \* bound: what the PCC does of its own accord
    MaxInFlight    \* bound: messages on their way to the PCC when one is sent

(* caps: what its Open offers; carries: where its reports carry color and  *)
(* preference; ids, srp: its reports have LSP identifiers, an SRP object   *)
(* of ID 0; obeys: it refuses no request; lsps: those it has at first;     *)
(* ted: the PCE that serves it computes paths; asks: the SR Policies a     *)
(* client asks for.                                                        *)
ASSUME PccAssumption ==
    \A p \in Pccs :
        /\ p.carries \in {"association", "juniper", "vendor", "color"}
        /\ {p.ids, p.srp, p.obeys, p.ted} \subseteq BOOLEAN
        /\ p.carries \in {"vendor", "color"} => p.ids

(* A request for an SR Policy whose segments are what validateSIDs lets    *)
(* pass, the addresses of an SRv6 segment of IPv6.                         *)
IsAsk(policy) ==
    /\ policy = [plspID |-> policy.plspID, name |-> policy.name, segs |-> policy.segs,
                 src |-> policy.src, dst |-> policy.dst, color |-> policy.color,
                 preference |-> policy.preference]
    /\ policy.name \in DOMAIN Octets
    /\ policy.segs \in Seq(Range(policy.segs))
    /\ \A i \in 1 .. Len(policy.segs) : IsSegment(policy.segs[i])

VARIABLES
    reader,     \* the receiver goroutine: where it stands, or how it ended
    header,     \* the common header it has read
    pccType, received,     \* Session.pccType, receivedPccCapabilities
    isSynced,   \* Session.isSynced
    policies,   \* Session.srPolicies: PLSP-ID -> policy
    intents,    \* the SRP-IDs of Session.srPolicyIntents
    srpIDHead,  \* Session.srpIDHead
    toPCE,      \* words from the PCC
    toPCC,      \* messages to the PCC: the words and, as history, the meaning
    pcc,        \* external: the PCC
    lsps,       \* external: its LSPs, PLSP-ID -> LSP
    pccState,   \* external: "opening", "up", "closed"
    refused,    \* history: PLSP-IDs an update of which was refused
    events      \* counter for MaxEvents

pceVars == <<reader, header, pccType, received, isSynced, policies, intents, srpIDHead>>
pccVars == <<pcc, lsps, pccState, refused, events>>
vars == <<pceVars, pccVars, toPCE, toPCC>>

NoHeader == <<>>
Listening == {"open", "header", "body"}

Send(words, meaning) == toPCC' = Append(toPCC, [words |-> words, meaning |-> meaning])

------------------------------------------------------------------------------
(* Open *)

OpenMeaning(caps) ==
    [type |-> "Open", keepalive |-> Keepalive, deadtime |-> 4 * Keepalive, caps |-> caps]

(* Read the PCC's Open and answer it; anything else ends the session.      *)
Open ==
    /\ reader = "open" /\ toPCE # <<>>
    /\ LET n == toPCE[1][3] \div 4
           body == SubSeq(toPCE, 2, n)
           caps == PolaCapability(OpenMessageOf(body).caps)
       IN  /\ toPCE' = SubSeq(toPCE, n + 1, Len(toPCE))
           /\ IF toPCE[1][2] = "Open" /\ OpenMessageDecodes(body)
              THEN /\ received' = OpenMessageOf(body).caps
                   /\ pccType' = DeterminePccType(received')
                   /\ Send(OpenMessage(OpenMessageOf(body).keepalive, 1, caps), OpenMeaning(caps))
                   /\ reader' = "header"
              ELSE /\ reader' = "ended"
                   /\ UNCHANGED <<received, pccType, toPCC>>
    /\ UNCHANGED <<header, isSynced, policies, intents, srpIDHead, pccVars>>

------------------------------------------------------------------------------
(* What the PCE sends *)

CanSend == reader \in {"header", "body"} /\ Len(toPCC) < MaxInFlight

Absent == {}
PCInitiateMeaning(srpID, policy) ==
    [type |-> "LSPInitReq", srpID |-> srpID, remove |-> FALSE, plspID |-> 0,
     name |-> policy.name, lspColor |-> policy.color, segs |-> policy.segs,
     ends |-> {<<policy.src, policy.dst>>},
     association |->
        IF pccType = "CiscoLegacy" THEN Absent
        ELSE {<<policy.color, policy.dst, policy.preference, ASN,
                IF pccType = "JuniperLegacy" THEN Unspecified ELSE policy.dst>>},
     vendor |-> IF pccType = "JuniperLegacy" THEN Absent
                ELSE {<<policy.color, policy.preference>>}]
DeletionMeaning(srpID, policy) ==
    [type |-> "LSPInitReq", srpID |-> srpID, remove |-> TRUE, plspID |-> policy.plspID,
     name |-> policy.name, lspColor |-> policy.color, segs |-> <<>>, ends |-> Absent,
     association |-> Absent, vendor |-> Absent]
PCUpdMeaning(srpID, policy) ==
    [type |-> "Update", srpID |-> srpID, remove |-> FALSE, plspID |-> policy.plspID,
     name |-> policy.name, lspColor |-> 0, segs |-> policy.segs, ends |-> Absent,
     association |-> Absent, vendor |-> Absent]

(* An SRP-ID and its intent; a request that cannot be encoded forgets it.  *)
SendPCInitiate(policy, isDelete, known) ==
    LET srpID == srpIDHead
    IN  /\ srpIDHead' = srpID + 1
        /\ IF PCInitiateEncodable(policy, isDelete, pccType)
           THEN /\ intents' = known \cup {srpID}
                /\ Send(PCInitiateMessage(srpID, policy, isDelete, pccType, ASN),
                        IF isDelete THEN DeletionMeaning(srpID, policy)
                        ELSE PCInitiateMeaning(srpID, policy))
           ELSE intents' = known /\ UNCHANGED toPCC
SendPCUpdate(policy, known) ==
    LET srpID == srpIDHead
    IN  /\ srpIDHead' = srpID + 1
        /\ IF PCUpdEncodable(policy)
           THEN /\ intents' = known \cup {srpID}
                /\ Send(PCUpdMessage(srpID, policy), PCUpdMeaning(srpID, policy))
           ELSE intents' = known /\ UNCHANGED toPCC

Found(policy) ==
    {p \in DOMAIN policies : policies[p].color = policy.color /\ policies[p].dst = policy.dst}

(* sendSRPolicyRequest: an update when a policy has the color and endpoint. *)
CreateSRPolicy(policy) ==
    /\ CanSend /\ isSynced /\ srpIDHead <= MaxRequests
    /\ \/ /\ Found(policy) = {}
          /\ SendPCInitiate([policy EXCEPT !.plspID = 0], FALSE, intents)
       \/ \E p \in Found(policy) : SendPCUpdate([policy EXCEPT !.plspID = p], intents)
    /\ UNCHANGED <<reader, header, pccType, received, isSynced, policies, toPCE, pccVars>>

DeleteSRPolicy(policy) ==
    /\ CanSend /\ isSynced /\ srpIDHead <= MaxRequests
    /\ \E p \in Found(policy) : SendPCInitiate([policy EXCEPT !.plspID = p], TRUE, intents)
    /\ UNCHANGED <<reader, header, pccType, received, isSynced, policies, toPCE, pccVars>>

SendKeepalive ==
    /\ CanSend /\ toPCC = <<>> /\ toPCE = <<>>
    /\ Send(KeepaliveMessage, [type |-> "Keepalive"])
    /\ UNCHANGED <<pceVars, pccVars, toPCE>>

------------------------------------------------------------------------------
(* Reports *)

(* resolveColorPreference *)
HasColorCapability ==
    \E i \in 1 .. Len(received) :
        received[i].type = "StatefulPCECapability" /\ "Color" \in received[i].flags
ResolveColor(sr) ==
    IF pccType = "CiscoLegacy" THEN SubTLVUint32(sr.vendor, "ColorCisco")
    ELSE IF AssociationColor(sr.assoc) # 0 THEN AssociationColor(sr.assoc)
    ELSE IF HasColorCapability THEN LSPColor(sr.lsp) ELSE 0
ResolvePreference(sr) ==
    IF pccType = "CiscoLegacy" THEN SubTLVUint32(sr.vendor, "PreferenceCisco")
    ELSE AssociationPreference(sr.assoc)

ResolvePolicyState(oFlag) ==
    IF oFlag \in 0 .. 2 THEN <<"down", "up", "active">>[oFlag + 1] ELSE "unknown"

(* What handling the reports of a message changes: the registry, the       *)
(* intents, isSynced and the recomputed policies to send an update for.    *)
Source(sr) == IF IsAddr(sr.lsp.src) THEN sr.lsp.src ELSE sr.assoc.src
Destination(sr) == IF IsAddr(sr.lsp.dst) THEN sr.lsp.dst ELSE AssociationEndpoint(sr.assoc)

(* Against the policy of its PLSP-ID, or with what a new one needs.        *)
UpToDate(book, sr) ==
    IF sr.lsp.plspID \in DOMAIN book.policies
    THEN book.policies[sr.lsp.plspID].lspID <= sr.lsp.lspID
    ELSE IsAddr(Source(sr)) /\ IsAddr(Destination(sr))
RegistrablePathless(book, sr) == UpToDate(book, sr)  \* mutant: an LSP without SR path
Registrable(book, sr) == sr.segs # <<>> /\ UpToDate(book, sr)

(* Addresses are set when the policy is created.                           *)
Registered(book, sr) ==
    LET plsp == sr.lsp.plspID
        ends == IF plsp \in DOMAIN book.policies
                THEN <<book.policies[plsp].src, book.policies[plsp].dst>>
                ELSE <<Source(sr), Destination(sr)>>
        new == [plspID |-> plsp, name |-> sr.lsp.name, segs |-> sr.segs,
                src |-> ends[1], dst |-> ends[2],
                color |-> ResolveColor(sr), preference |-> ResolvePreference(sr),
                lspID |-> sr.lsp.lspID, state |-> ResolvePolicyState(sr.lsp.oFlag)]
    IN  IF ~Registrable(book, sr) THEN book
        ELSE [book EXCEPT !.policies = (plsp :> new) @@ @, !.intents = @ \ {sr.srpID}]

DeletedKeepingIntent(book, sr) ==    \* mutant: the deletion's intent stays
    LET plsp == sr.lsp.plspID
    IN  IF plsp \in DOMAIN book.policies /\ UpToDate(book, sr)
        THEN [book EXCEPT !.policies = Restrict(@, DOMAIN @ \ {plsp})]
        ELSE book
Deleted(book, sr) ==
    LET plsp == sr.lsp.plspID
    IN  IF plsp \in DOMAIN book.policies /\ UpToDate(book, sr)
        THEN [book EXCEPT !.policies = Restrict(@, DOMAIN @ \ {plsp}),
                          !.intents = @ \ {sr.srpID}]
        ELSE book

RegisteredOrDeleted(book, sr) ==
    IF "R" \in sr.lsp.flags THEN Deleted(book, sr) ELSE Registered(book, sr)

SelectMetricType(sr) ==
    IF sr.metrics # <<>>
    THEN CASE sr.metrics[1] = 1 -> "igp"
           [] sr.metrics[1] = 3 -> "delay"
           [] sr.metrics[1] = 4 -> "hopcount"
           [] OTHER -> "te"
    ELSE IF pccType = "JuniperLegacy" THEN "igp" ELSE "te"

(* createEroFromSegmentList leaves out what cannot be encoded.             *)
Recomputed(sr) == [sr EXCEPT !.segs = Keep(Paths[SelectMetricType(sr)], Encodable)]
HandleSRPolicyWithPLSPID(book, sr) ==
    IF "R" \in sr.lsp.flags \/ ~pcc.ted THEN RegisteredOrDeleted(book, sr)
    ELSE IF ~IsAddr(sr.lsp.src) \/ ~IsAddr(sr.lsp.dst) THEN book
    ELSE IF Recomputed(sr).segs = <<>> THEN book
    ELSE LET after == Registered(book, Recomputed(sr))
         IN  IF sr.lsp.plspID \in DOMAIN after.policies
             THEN [after EXCEPT !.updates = Append(@, after.policies[sr.lsp.plspID])]
             ELSE after

HandleStateReport(book, sr) ==
    IF "S" \in sr.lsp.flags THEN Registered(book, sr)
    ELSE IF sr.lsp.plspID = 0 THEN [book EXCEPT !.synced = TRUE]
    ELSE IF sr.srpID # 0 THEN RegisteredOrDeleted(book, sr)
    ELSE HandleSRPolicyWithPLSPID(book, sr)

(* The updates that recomputations ask for, each with an SRP-ID.           *)
SendPCUpdates(updates, known) ==
    LET srpID(i) == srpIDHead + i - 1
    IN  /\ srpIDHead' = srpIDHead + Len(updates)
        /\ intents' = known \cup {srpID(i) : i \in 1 .. Len(updates)}
        /\ toPCC' = toPCC \o
              [i \in 1 .. Len(updates) |->
                  [words |-> PCUpdMessage(srpID(i), updates[i]),
                   meaning |-> PCUpdMeaning(srpID(i), updates[i])]]

HandlePCRpt(body) ==
    /\ reader' = PCRptOutcome(body)
    /\ IF reader' # "header"
       THEN UNCHANGED <<policies, isSynced, intents, srpIDHead, toPCC>>
       ELSE \E book \in {FoldLeft(HandleStateReport,
                                  [policies |-> policies, intents |-> intents,
                                   synced |-> isSynced, updates |-> <<>>],
                                  StateReports(body))} :
                /\ policies' = book.policies
                /\ isSynced' = book.synced
                /\ SendPCUpdates(book.updates, book.intents)

------------------------------------------------------------------------------
(* ReceivePCEPMessage: a Read of the header, a Read of the body.           *)

NoErrorBody == {"Report", "Close"}     \* mutant: the body of a PCErr is not read
HasBody == {"Report", "Error", "Close"}

(* Only the types with a handler have their body read.                     *)
ReadHeader ==
    /\ reader = "header" /\ toPCE # <<>>
    /\ toPCE' = Tail(toPCE)
    /\ header' = toPCE[1]
    /\ reader' = IF header' = <<>> \/ header'[1] # "msg" THEN "lost"
                 ELSE IF header'[2] \in HasBody THEN "body" ELSE "header"
    /\ UNCHANGED <<pccType, received, isSynced, policies, intents, srpIDHead, pccVars, toPCC>>

(* A Read returns what has arrived; what has not is left zero.             *)
BodyLen == header[3] \div 4 - 1
Arrived == IF Segmented THEN 1 .. BodyLen ELSE {BodyLen}
Body(n) == SubSeq(toPCE, 1, n) \o [i \in 1 .. BodyLen - n |-> <<>>]
Reading(type) == reader = "body" /\ header[2] = type
Read(n) ==
    /\ toPCE' = SubSeq(toPCE, n + 1, Len(toPCE))
    /\ UNCHANGED <<header, pccType, received, pccVars>>

ReadPCRpt ==
    /\ Reading("Report")
    /\ \E n \in Arrived : Read(n) /\ HandlePCRpt(Body(n))

ReadPCErr ==
    /\ Reading("Error")
    /\ \E n \in Arrived :
          /\ Read(n)
          /\ IF PCErrDecodes(Body(n))
             THEN reader' = "header" /\ intents' = intents \ Range(SRPIDs(Body(n)))
             ELSE reader' = "ended" /\ UNCHANGED intents
    /\ UNCHANGED <<isSynced, policies, srpIDHead, toPCC>>

(* A Close ends the session whatever its reason.                           *)
ReadClose ==
    /\ Reading("Close")
    /\ \E n \in Arrived : Read(n)
    /\ reader' = "ended"
    /\ UNCHANGED <<isSynced, policies, intents, srpIDHead, toPCC>>

(* The DeleteSession handler.                                              *)
DeleteSession ==
    /\ CanSend /\ isSynced
    /\ Send(CloseMessage("NoExplanation"), [type |-> "Close", reason |-> "NoExplanation"])
    /\ reader' = "ended"
    /\ UNCHANGED <<header, pccType, received, isSynced, policies, intents, srpIDHead,
                   toPCE, pccVars>>

------------------------------------------------------------------------------
(* External: the PCC.  Its words are those of the same formats.            *)

(* What it finds in the first object of a class, if there is one.          *)
FirstOf(objs, class) == IF OfClass(objs, class) = <<>> THEN {} ELSE {OfClass(objs, class)[1]}
PathsIn(objs) == {ToSegmentList(o.body) : o \in FirstOf(objs, "ERO")}
EndsOf(o) ==
    LET n == Len(o.body) \div 2
    IN  <<DataAt(Slice(o.body, 1, n)), DataAt(Slice(o.body, n + 1, n))>>
AssociatedBy(o) ==
    LET a == AssociationOf(o.otype, o.body)
        id == FirstTLV(a.tlvs, CPathIDs)
    IN  <<AssociationColor(a), AssociationEndpoint(a), AssociationPreference(a), id.asn, id.addr>>
VendorSays(o) ==
    LET v == VendorInformationObjectOf(o.body)
    IN  <<SubTLVUint32(v, "ColorCisco"), SubTLVUint32(v, "PreferenceCisco")>>

RequestMeaning(type, srp, lsp, objs) ==
    [type |-> type, srpID |-> srp.srpID, remove |-> srp.rFlag,
     plspID |-> lsp.plspID, name |-> lsp.name, lspColor |-> LSPColor(lsp),
     segs |-> CHOOSE p \in PathsIn(objs) \cup {<<>>} : PathsIn(objs) \subseteq {p},
     ends |-> {EndsOf(o) : o \in FirstOf(objs, "Endpoints")},
     association |-> {AssociatedBy(o) : o \in FirstOf(objs, "Association")},
     vendor |-> {VendorSays(o) : o \in FirstOf(objs, "VendorInformation")}]
ObjectsMeaning(type, objs) ==
    CASE type = "Open" ->
            LET o == OpenOf(objs[1].body)
            IN  [type |-> type, keepalive |-> o.keepalive, deadtime |-> o.deadtime, caps |-> o.caps]
      [] type = "Keepalive" -> [type |-> type]
      [] type = "Close" -> [type |-> type, reason |-> CloseOf(objs[1].body).reason]
      [] OTHER -> RequestMeaning(type, SrpOf(OfClass(objs, "SRP")[1].body),
                                 LSPOf(OfClass(objs, "LSP")[1].body), objs)
Meaning(words) == ObjectsMeaning(words[1][2], ObjectsOf(Tail(words)))

(* A state report on one LSP.                                              *)
ReportObjects(plsp, lsp, srpID, flags) ==
    LET object(class, body) == [class |-> class, otype |-> 1, body |-> body]
        type == IF lsp.src \in IPv4 THEN "IPv4LSPIdentifiers" ELSE "IPv6LSPIdentifiers"
        ids == IF pcc.ids THEN <<LSPIdentifiers(type, lsp.src, lsp.dst, lsp.lspID)>> ELSE <<>>
        color == IF pcc.carries = "color" THEN <<Color(lsp.color)>> ELSE <<>>
        carrier ==
            CASE pcc.carries = "association" ->
                    <<AssociationObject("RFCCompliant", lsp.src, lsp.dst, lsp.color, lsp.preference, ASN)>>
              [] pcc.carries = "juniper" ->
                    <<AssociationObject("JuniperLegacy", lsp.src, lsp.dst, lsp.color, lsp.preference, ASN)>>
              [] pcc.carries = "vendor" -> <<VendorInformationObject(lsp.color, lsp.preference)>>
              [] pcc.carries = "color" -> <<>>
    IN  (IF pcc.srp \/ srpID # 0
         THEN <<[SrpObject(lsp.segs, srpID, FALSE) EXCEPT !.tlvs = <<PathSetupType("SRTE")>>]>>
         ELSE <<>>)
        \o <<[LSPObject(lsp.name, <<>>, plsp) EXCEPT
                 !.flags = flags, !.oFlag = lsp.oFlag,
                 !.tlvs = <<SymbolicPathName(lsp.name)>> \o ids \o color]>>
        \o carrier \o <<EroObject(lsp.segs)>>
        \o (IF lsp.metric = 0 THEN <<>> ELSE <<object("Metric", MetricBody(lsp.metric, 10))>>)
        \o <<object("RRO", EroBody(EroObject(lsp.segs)))>>
PCRptMessage(objects) == MessageWords("Report", objects)
PCRpt(plsps, known, srpID, flags) ==
    LET order == SetToSeq(plsps)
    IN  PCRptMessage(FlattenSeq([i \in 1 .. Len(order) |->
                        ReportObjects(order[i], known[order[i]], srpID, flags)]))
EndOfSync ==
    PCRptMessage((IF pcc.srp THEN <<SrpObject(<<>>, 0, FALSE)>> ELSE <<>>)
                 \o <<[LSPObject("", <<>>, 0) EXCEPT !.flags = {}], EroObject(<<>>)>>)

Answer(words) == toPCE' = toPCE \o words /\ toPCC' = Tail(toPCC)

(* m is what the PCC reads from the next message.                          *)

(* The answer to Pola's Open: a Keepalive and the LSP database.            *)
PCCSynchronizes(m) ==
    /\ m.type = "Open"
    /\ Answer(KeepaliveMessage
               \o (IF DOMAIN lsps = {} THEN <<>> ELSE PCRpt(DOMAIN lsps, lsps, 0, {"S"}))
               \o EndOfSync)
    /\ pccState' = "up"
    /\ UNCHANGED <<lsps, refused>>

PCCHearsKeepalive(m) ==
    /\ m.type = "Keepalive"
    /\ Answer(<<>>)
    /\ UNCHANGED <<lsps, pccState, refused>>

PCCHearsClose(m) ==
    /\ m.type = "Close"
    /\ Answer(<<>>)
    /\ pccState' = "closed"
    /\ UNCHANGED <<lsps, refused>>

(* Creates, updates and removes an LSP as its reading of the words says.   *)
PCCCreates(m) ==
    /\ m.type = "LSPInitReq" /\ ~m.remove
    /\ LET plsp == CHOOSE p \in 1 .. Cardinality(DOMAIN lsps) + 1 : p \notin DOMAIN lsps
           ends == CHOOSE e \in m.ends : TRUE
           carried == CASE pcc.carries \in {"association", "juniper"} ->
                             CHOOSE c \in {<<a[1], a[3]>> : a \in m.association} : TRUE
                        [] pcc.carries = "vendor" -> CHOOSE c \in m.vendor : TRUE
                        [] pcc.carries = "color" -> <<m.lspColor, 0>>
           lsp == [name |-> m.name, segs |-> m.segs, src |-> ends[1], dst |-> ends[2],
                   color |-> carried[1], preference |-> carried[2], lspID |-> 1, oFlag |-> 1,
                   metric |-> 0]
       IN  /\ lsps' = (plsp :> lsp) @@ lsps
           /\ Answer(PCRpt({plsp}, lsps', m.srpID, {"D", "A"}))
           /\ refused' = refused \ {plsp}
    /\ UNCHANGED pccState

PCCUpdates(m) ==
    /\ m.type = "Update" /\ m.plspID \in DOMAIN lsps
    /\ lsps' = [lsps EXCEPT ![m.plspID].segs = m.segs, ![m.plspID].lspID = @ + 1]
    /\ Answer(PCRpt({m.plspID}, lsps', m.srpID, {"D", "A"}))
    /\ refused' = refused \ {m.plspID}
    /\ UNCHANGED pccState

PCCRemoves(m) ==
    /\ m.type = "LSPInitReq" /\ m.remove /\ m.plspID \in DOMAIN lsps
    /\ lsps' = Restrict(lsps, DOMAIN lsps \ {m.plspID})
    /\ Answer(PCRpt({m.plspID}, lsps, m.srpID, {"D", "R"}))
    /\ UNCHANGED <<pccState, refused>>

(* Refuses the next request, and the one after it with the same PCErr.     *)
PCCRefuses(first) ==
    LET n == Len(first)
        known(m) == m.plspID = 0 \/ m.plspID \in DOMAIN lsps
    IN  /\ \A i \in 1 .. n : first[i].type \in {"LSPInitReq", "Update"}
        /\ pccState = "up"
        /\ pcc.obeys => n = 1 /\ ~known(first[1])
        /\ toPCE' = toPCE \o PCErrMessage([i \in 1 .. n |-> SrpObject(<<>>, first[i].srpID, FALSE)],
                                          <<PCEPErrorObject(19, 3)>>)
        /\ toPCC' = SubSeq(toPCC, n + 1, Len(toPCC))
        /\ refused' = refused \cup {m.plspID : m \in {m \in ToSet(first) : m.type = "Update"}}
        /\ UNCHANGED <<lsps, pccState>>

(* What a PCC does after the session has ended is left out.                *)
Active ==
    /\ pccState = "up" /\ reader \in Listening
    /\ events < MaxEvents /\ events' = events + 1

(* LSPs that go up or down, reported in one message.                       *)
PCCChanges(plsps) ==
    /\ Active /\ plsps # {}
    /\ lsps' = [p \in DOMAIN lsps |->
                  IF p \in plsps
                  THEN [lsps[p] EXCEPT !.lspID = @ + 1, !.oFlag = (@ + 1) % 3]
                  ELSE lsps[p]]
    /\ toPCE' = toPCE \o PCRpt(plsps, lsps', 0, {"D", "A"})
    /\ UNCHANGED <<pcc, pccState, refused, toPCC, pceVars>>

PCCDrops(plsp) ==
    /\ Active
    /\ lsps' = Restrict(lsps, DOMAIN lsps \ {plsp})
    /\ toPCE' = toPCE \o PCRpt({plsp}, lsps, 0, {"R"})
    /\ UNCHANGED <<pcc, pccState, refused, toPCC, pceVars>>

PCCCloses ==
    /\ Active
    /\ toPCE' = toPCE \o CloseMessage("DeadTimer")
    /\ pccState' = "closed"
    /\ UNCHANGED <<pcc, lsps, refused, toPCC, pceVars>>

------------------------------------------------------------------------------
Init ==
    /\ pcc \in Pccs
    /\ toPCE = OpenMessage(Keepalive, 1, pcc.caps)
    /\ lsps = pcc.lsps
    /\ reader = "open" /\ header = NoHeader
    /\ pccType = "CiscoLegacy" /\ received = <<>>
    /\ isSynced = FALSE /\ policies = <<>> /\ intents = {} /\ srpIDHead = 1
    /\ toPCC = <<>> /\ pccState = "opening" /\ refused = {} /\ events = 0

ReaderStep == Open \/ ReadHeader \/ ReadPCRpt \/ ReadPCErr \/ ReadClose
HandlerStep ==
    \/ \E policy \in pcc.asks : CreateSRPolicy(policy) \/ DeleteSRPolicy(policy)
    \/ SendKeepalive \/ DeleteSession
PCCHears ==
    /\ pccState # "closed" /\ toPCC # <<>>
    /\ \E heard \in {[i \in 1 .. (IF Len(toPCC) > 1 THEN 2 ELSE 1) |-> Meaning(toPCC[i].words)]} :
          \/ PCCSynchronizes(heard[1]) \/ PCCHearsKeepalive(heard[1])
          \/ PCCHearsClose(heard[1]) \/ PCCCreates(heard[1]) \/ PCCUpdates(heard[1])
          \/ PCCRemoves(heard[1]) \/ PCCRefuses(<<heard[1]>>)
          \/ Len(heard) = 2 /\ PCCRefuses(heard)
    /\ UNCHANGED <<pcc, events, pceVars>>
PCCActs ==
    \/ \E plsps \in SUBSET DOMAIN lsps : PCCChanges(plsps)
    \/ \E plsp \in DOMAIN lsps : PCCDrops(plsp)
    \/ PCCCloses

Next == ReaderStep \/ HandlerStep \/ PCCHears \/ PCCActs

(* The receiver goroutine reads what has arrived; a PCC answers.  This is  *)
(* weak fairness with its ENABLED written out: the state in which a step   *)
(* is possible, since every message can be read, obeyed or refused.        *)
Readable == reader \in Listening /\ toPCE # <<>>
Audible == pccState # "closed" /\ toPCC # <<>>
Fairness ==
    /\ []<>~Readable \/ []<><<ReaderStep>>_vars
    /\ []<>~Audible \/ []<><<PCCHears>>_vars

Spec == Init /\ [][Next]_vars /\ Fairness

------------------------------------------------------------------------------
(* Properties *)

(* The registry holds what its fields say, of PLSP-IDs the PCC has used.   *)
TypeOK ==
    /\ reader \in Listening \cup {"ended", "lost", "stuck", "crashed"}
    /\ pccType \in PccTypes
    /\ intents \subseteq 1 .. MaxSRPID
    /\ isSynced \in BOOLEAN
    /\ \A p \in DOMAIN policies :
          policies[p].plspID = p /\ p # 0 /\ policies[p].segs # <<>>
          /\ IsAddr(policies[p].src) /\ IsAddr(policies[p].dst)

(* What a PCC reads from a message's words, following its lengths to the   *)
(* end, is what Pola meant to say: the Len methods that fill the headers   *)
(* agree with what Serialize writes, whatever segments, addresses, vendor  *)
(* and capabilities go into it.                                            *)
ReadsAs(words, meaning) ==
    LET objs == ObjectsOf(Tail(words))
    IN  /\ words[1][3] = 4 * Len(words)
        /\ \A j \in 1 .. Len(objs) : objs[j].framed
        /\ Meaning(words) = meaning
PCCReadsMessages == \A i \in 1 .. Len(toPCC) : ReadsAs(toPCC[i].words, toPCC[i].meaning)

(* The reader takes each message from its first word and never ends up in  *)
(* the middle of one, in an endless loop or in a panic.                    *)
ReaderInFrame ==
    /\ reader \notin {"lost", "stuck", "crashed"}
    /\ reader = "header" /\ toPCE # <<>> => toPCE[1] # <<>> /\ toPCE[1][1] = "msg"

Quiet == reader = "header" /\ isSynced /\ toPCE = <<>> /\ toPCC = <<>>

HasPath(lsp) == \E i \in 1 .. Len(lsp.segs) : lsp.segs[i].family # "RSVP"
SameLSP(policy, lsp) ==
    /\ policy.name = lsp.name /\ policy.color = lsp.color
    /\ policy.src = lsp.src /\ policy.dst = lsp.dst
    /\ policy.state = ResolvePolicyState(lsp.oFlag)
    /\ pcc.carries # "color" => policy.preference = lsp.preference
    /\ pcc.ids => policy.lspID = lsp.lspID

(* When nothing is on its way, the registry holds the PCC's LSPs that have *)
(* SR segments, each with its name, color, preference, ends, state and     *)
(* path, through whichever TLVs and objects this kind of PCC uses, however *)
(* many reports one PCRpt carries.  A path the PCC refused to install is   *)
(* the exception: a recomputation registers it before the answer is known. *)
RegistryAgrees ==
    Quiet =>
        /\ DOMAIN policies = {p \in DOMAIN lsps : HasPath(lsps[p])}
        /\ \A p \in DOMAIN policies :
              SameLSP(policies[p], lsps[p])
              /\ (policies[p].segs = lsps[p].segs \/ (pcc.ted /\ p \in refused))

(* When nothing is on its way no intent waits: every report and error that *)
(* answers a request, alone or among others in one message, ends its own.  *)
NoIntentLeft == Quiet => intents = {}

(* A request's intent is taken or forgotten, unless the session ends.      *)
RequestsEnd ==
    \A id \in 1 .. MaxRequests : id \in intents ~> id \notin intents \/ reader = "ended"
=============================================================================
