------------------------------- MODULE PolaAPI -------------------------------
(***************************************************************************)
(* The gRPC handlers of pkg/server/grpc_server.go among the parts they     *)
(* join: the TED, which a newer one may replace between any two looks at   *)
(* it (BGPLSTable), the SR Policies of the PCEP sessions, which change     *)
(* with every report, and the PCCs.  CreateSRPolicy and DeleteSRPolicy run *)
(* step by step, several at a time; GetSRPolicyList and its client are     *)
(* functions of the state.                                                 *)
(*                                                                         *)
(* SRP-IDs, intents and the ends of sessions are in PCEPSession, the       *)
(* encoding of messages in PCEPExchange, the choice among paths and the    *)
(* waypoints in CSPF: here a computed list is one of those along simple    *)
(* paths.  An address of a router is the name of its host prefix.          *)
(***************************************************************************)
EXTENDS BGPLSTable, PolaCommands

CONSTANTS
    Calls,          \* goroutines of gRPC calls; each serves one
    CreateRequests, DeleteRequests,     \* what is asked
    Configurations, \* <<TED enabled, usidMode>> pairs of configurations
    SessionLists,   \* PCEP sessions there may be: sequences of [peer, synced, held]
    Locators,       \* SRv6 SID -> [prefix, bits]: its locator as advertised
    Under,          \* the <<SID, locator prefix>> pairs of a SID in a locator
    MaxRemovals     \* bound: LSPs a PCC gives up of its own accord

(* The segments of a request; declared is the length of the locator in the *)
(* SID structure it gives, 0 without one.                                  *)
GivenMPLS(sid) == [family |-> "mpls", sid |-> sid]
GivenSRv6(sid, declared) == [family |-> "srv6", sid |-> sid, declared |-> declared]
NotASID == [family |-> "none"]

ASSUME RequestsAssumption ==
    /\ Segments \subseteq [family : {"mpls"}, sid : Nat] \cup {NotASID}
                          \cup [family : {"srv6"}, sid : STRING, declared : Nat]
    /\ \A r \in CreateRequests \cup DeleteRequests :
          r.segments \in Seq(Segments) /\ r.color \in Nat
    /\ \A sid \in DOMAIN Locators : Locators[sid].bits \in Nat
    /\ Configurations \subseteq BOOLEAN \X BOOLEAN
    /\ MaxRemovals \in Nat

(* Segments that were read, with the length of a locator, or computed.     *)
IsSegment(s) ==
    s \in [family : {"mpls"}, sid : Nat] \cup [family : {"srv6"}, sid : STRING, declared : Nat]
         \cup [family : {"srv6"}, sid : STRING, local : STRING]
IsList(list) == list \in Seq(Range(list)) /\ \A k \in 1 .. Len(list) : IsSegment(list[k])

(* What LSPs, policies and requests say: the color and the endpoint, the   *)
(* segments, what was asked for.                                           *)
PolicyStates == {"down", "up", "active", "unknown"}
IsIntent(intent) ==
    /\ intent.type \in {"", "explicit", "dynamic"}
    /\ intent.metric \in {"", "igp", "te", "delay", "hopcount"}
IsKey(key) == key = <<key[1], key[2]>> /\ key[1] \in Nat
Describes(x) == IsKey(x.key) /\ IsList(x.list) /\ IsIntent(x.intent)
IsPolicy(x) == Describes(x) /\ x.state \in PolicyStates

(* LSPs a PCC holds at first are not the answers of calls.                 *)
LSPFields == {"key", "list", "intent", "state", "beside"}
IsLSP(lsp) == DOMAIN lsp = LSPFields /\ IsPolicy(lsp)
ASSUME SessionListsAssumption ==
    \A all \in SessionLists :
        /\ all \in Seq(Range(all))
        /\ \A i \in 1 .. Len(all) :
              /\ all[i].synced \in BOOLEAN
              /\ all[i].held \in Seq(Range(all[i].held))
              /\ \A p \in 1 .. Len(all[i].held) :
                    IsLSP(all[i].held[p]) /\ all[i].held[p].beside = {}

VARIABLES
    tedEnabled, usidMode,   \* the configuration
    sessions,       \* Server.sessionList: [peer, synced, policies, toPCC, toPCE]
    lsps,           \* external: per session the LSPs of the PCC, by PLSP-ID
    removals,       \* counter for MaxRemovals
    calls           \* per call: where it stands, what it found

configVars == <<tedEnabled, usidMode>>
sessionVars == <<sessions, lsps, removals>>
vars == <<tedVars, tableVars, configVars, sessionVars, calls>>

------------------------------------------------------------------------------
(* LSPs and policies: key is the color and the endpoint, beside is history *)

LSP(key, list, intent, beside) ==
    [key |-> key, list |-> list, intent |-> intent, state |-> "up", beside |-> beside]
Policy(plsp, lsp) ==
    [plsp |-> plsp, key |-> lsp.key, list |-> lsp.list, intent |-> lsp.intent,
     state |-> lsp.state]

(* A session that was synchronized knows the LSPs its PCC holds; one that  *)
(* was just opened is about to be told.                                    *)
EndOfSync == [kind |-> "endOfSync"]
Report(plsp, lsp, remove) ==
    [kind |-> IF remove THEN "remove" ELSE "report", plsp |-> plsp, policy |-> Policy(plsp, lsp)]
Session(peer, synced, held) ==
    [peer |-> peer, synced |-> synced, toPCC |-> <<>>,
     policies |-> IF synced THEN [p \in 1 .. Len(held) |-> Policy(p, held[p])] ELSE <<>>,
     toPCE |-> IF synced THEN <<>>
               ELSE Append([p \in 1 .. Len(held) |-> Report(p, held[p], FALSE)], EndOfSync)]

Idle == [pc |-> "idle"]
Ended == [pc |-> "ended"]               \* answered, with an error or without

Init ==
    /\ TableInit
    /\ \E config \in Configurations : tedEnabled = config[1] /\ usidMode = config[2]
    /\ \E list \in SessionLists :
          /\ sessions = [i \in 1 .. Len(list) |->
                            Session(list[i].peer, list[i].synced, list[i].held)]
          /\ lsps = [i \in 1 .. Len(list) |-> list[i].held]
    /\ removals = 0
    /\ calls = [c \in Calls |-> Idle]

(* A call that reads the TED twice may see two of them: seen is history.   *)
Publish ==
    /\ tedEnabled
    /\ FetchAndPublish
    /\ calls' = [c \in Calls |-> IF calls[c].pc \in {"build", "validate"}
                                 THEN [calls[c] EXCEPT !.seen = @ \cup {source'}] ELSE calls[c]]
    /\ UNCHANGED <<configVars, sessionVars>>

------------------------------------------------------------------------------
(* Segments: newEnrichedSegment and what validateSIDs asks of a list *)

Parse(segments) == \A i \in 1 .. Len(segments) : segments[i] # NotASID

OutOfRangeSRMPLSLabels(list) ==
    {i \in 1 .. Len(list) : list[i].family = "mpls" /\ list[i].sid > MPLSLabelMax}
HasMixedSegmentTypes(list) ==
    Cardinality({list[i].family : i \in 1 .. Len(list)}) > 1

(* hasSRv6: with usidMode every SRv6 segment of a request is a uSID, which *)
(* may be found by a locator no longer than the one it declares.           *)
SRv6Locators ==
    {Locators[sid] :
        sid \in (UNION {SRv6SIDs(Node(r)) : r \in Routers}) \cap DOMAIN Locators}
HasLocator(s) ==
    \E l \in SRv6Locators :
        <<s.sid, l.prefix>> \in Under /\ (s.declared > 0 => l.bits <= s.declared)
HasSegment(s) == Has(s) \/ (s.family = "srv6" /\ usidMode /\ HasLocator(s))
MissingFromTED(list) == {i \in 1 .. Len(list) : ~HasSegment(list[i])}

------------------------------------------------------------------------------
(* CreateSRPolicy *)

Refuse(c) == calls' = [calls EXCEPT ![c] = Ended]

(* validateCreateSRPolicy                                                  *)
StartCreate(c, r) ==
    /\ calls[c].pc = "idle"
    /\ calls' = [calls EXCEPT ![c] =
          IF validateCreateSRPolicy(r)
          THEN [pc |-> "build", kind |-> "create", req |-> r, seen |-> {source}]
          ELSE Ended]

(* buildSegmentList without path computation                               *)
Req(c) == calls[c].req
Built(c, key, list) ==
    calls' = [calls EXCEPT ![c] = [pc |-> "validate", kind |-> "create", req |-> Req(c),
                                   seen |-> calls[c].seen, key |-> key, list |-> list]]
UseGivenList(c) ==
    /\ calls[c].pc = "build" /\ Req(c).disablePathCompute
    /\ IF IsAddress(Req(c).srcAddr) /\ IsAddress(Req(c).dstAddr) /\ Parse(Req(c).segments)
       THEN Built(c, <<Req(c).color, Req(c).dstAddr>>, Req(c).segments)
       ELSE Refuse(c)

(* LoopbackAddr: the first host prefix.                                    *)
HostPrefixes(r) == {i \in 1 .. Len(Node(r).prefixes) : Node(r).prefixes[i].host}
LoopbackAddr(r) == Node(r).prefixes[Min(HostPrefixes(r))].prefix
HasEndpoints(r) ==
    /\ tedEnabled /\ Routers # {}
    /\ r.asn = ASN                  \* every node of the TED is of this AS
    /\ \A end \in {r.srcRouter, r.dstRouter} : end \in Routers /\ HostPrefixes(end) # {}

(* cspf.CSPF returns the segments of the routers along a path but the      *)
(* first, and an error for some requests for which there is one.           *)
Linked(r, q, metric) ==
    \E l \in Range(Node(r).links) :
        RemoteOf(l) = q /\ (metric = "hopcount" \/ metric \in DOMAIN l.metrics)
PathsFor(r) ==
    {p \in UNION {[1 .. n -> Routers] : n \in 1 .. Cardinality(Routers)} :
        /\ Cardinality(Range(p)) = Len(p)
        /\ p[1] = r.srcRouter /\ Last(p) = r.dstRouter
        /\ \A i \in 1 .. (Len(p) - 1) : Linked(p[i], p[i + 1], r.metric)
        /\ \A i \in 1 .. Len(p) : NodeSegment(Node(p[i])) # NoSegment}
SegmentsAlong(p) == [i \in 1 .. (Len(p) - 1) |-> NodeSegment(Node(p[i + 1]))]

(* getSegmentList                                                          *)
Explicit(r) == r.type = "explicit" /\ r.segments # <<>> /\ Parse(r.segments)
Dynamic(r) == r.type = "dynamic" /\ getMetricType(r.metric)
BuildSegmentList(c) ==
    /\ calls[c].pc = "build" /\ ~Req(c).disablePathCompute
    /\ LET key == <<Req(c).color, LoopbackAddr(Req(c).dstRouter)>>
       IN  \/ /\ HasEndpoints(Req(c)) /\ Explicit(Req(c))
              /\ Built(c, key, Req(c).segments)
           \/ /\ HasEndpoints(Req(c)) /\ Dynamic(Req(c))
              /\ \E p \in PathsFor(Req(c)) : Built(c, key, SegmentsAlong(p))
           \/ /\ ~(HasEndpoints(Req(c)) /\ Explicit(Req(c)))
              /\ Refuse(c)

(* validateSIDs looks at the TED once more.                                *)
SkipsDynamic(r) == r.type = "dynamic"  \* mutant: a given list of that type as well
SkipsTED(r) == (r.type = "dynamic" /\ ~r.disablePathCompute) \/ r.noSIDValidate
ValidateSIDs(c) ==
    /\ calls[c].pc = "validate"
    /\ LET list == calls[c].list
       IN  IF /\ OutOfRangeSRMPLSLabels(list) = {}
              /\ ~HasMixedSegmentTypes(list)
              /\ SkipsTED(Req(c)) \/ (tedEnabled /\ Routers # {} /\ MissingFromTED(list) = {})
           THEN calls' = [calls EXCEPT ![c].pc = "search"]
           ELSE Refuse(c)

------------------------------------------------------------------------------
(* The session and the policy a request is for *)

(* SearchSession: the first synchronized one with the address.             *)
With(peer) ==              \* mutant: the end of the synchronization is not awaited
    {i \in 1 .. Len(sessions) : sessions[i].peer = peer}
SyncedWith(peer) == {i \in 1 .. Len(sessions) : sessions[i].peer = peer /\ sessions[i].synced}
SearchSession(peer) == Min(SyncedWith(peer))

WithColor(i, key) ==       \* mutant: the endpoint is not compared
    {j \in 1 .. Len(sessions[i].policies) : sessions[i].policies[j].key[1] = key[1]}
WithKeyUp(i, key) ==       \* mutant: only policies that are up are found
    {j \in 1 .. Len(sessions[i].policies) :
        sessions[i].policies[j].key = key /\ sessions[i].policies[j].state = "up"}
WithKey(i, key) == {j \in 1 .. Len(sessions[i].policies) : sessions[i].policies[j].key = key}
SearchPlspID(i, key) == sessions[i].policies[Min(WithKey(i, key))].plsp
Known(i) == {sessions[i].policies[j].plsp : j \in 1 .. Len(sessions[i].policies)}

Message(c, kind, plsp, i) ==
    [kind |-> kind, plsp |-> plsp, key |-> calls[c].key, list |-> calls[c].list,
     intent |-> IF kind = "delete" THEN [type |-> "", metric |-> ""]
                ELSE resolveSRPolicyIntent(Req(c)),
     beside |-> IF kind = "create" THEN Known(i) ELSE {}]

(* The session and its PLSP-ID are looked up one after the other, here in  *)
(* one step; the request is sent later, when either may be out of date.    *)
Sending(c, i, message) ==
    calls' = [calls EXCEPT ![c] = [pc |-> "send", req |-> Req(c), seen |-> calls[c].seen,
                                   session |-> i, message |-> message]]
SearchForCreate(c) ==
    /\ calls[c].pc = "search" /\ calls[c].kind = "create"
    /\ LET peer == Req(c).session
           i    == SearchSession(peer)
       IN  IF SyncedWith(peer) = {} THEN Refuse(c)
           ELSE IF WithKey(i, calls[c].key) = {} THEN Sending(c, i, Message(c, "create", 0, i))
           ELSE Sending(c, i, Message(c, "update", SearchPlspID(i, calls[c].key), i))

(* DeleteSRPolicy: validate, the addresses and segments, then the search.  *)
StartDelete(c, r) ==
    /\ calls[c].pc = "idle"
    /\ calls' = [calls EXCEPT ![c] =
          IF DeleteIsWellFormed(r) /\ Parse(r.segments)
          THEN [pc |-> "search", kind |-> "delete", req |-> r, seen |-> {},
                key |-> <<r.color, r.dstAddr>>, list |-> r.segments]
          ELSE Ended]

SearchForDelete(c) ==
    /\ calls[c].pc = "search" /\ calls[c].kind = "delete"
    /\ LET peer == Req(c).session
           i    == SearchSession(peer)
       IN  IF SyncedWith(peer) = {} \/ WithKey(i, calls[c].key) = {} THEN Refuse(c)
           ELSE Sending(c, i, Message(c, "delete", SearchPlspID(i, calls[c].key), i))

------------------------------------------------------------------------------
(* Sending, the PCC and its reports *)

(* SendPCInitiate or SendPCUpdate: written, or the write fails.            *)
Send(c) ==
    /\ calls[c].pc = "send"
    /\ sessions' = [sessions EXCEPT ![calls[c].session].toPCC = Append(@, calls[c].message)]
    /\ calls' = [calls EXCEPT ![c] = Ended]
    /\ UNCHANGED <<lsps, removals>>

SendFails(c) ==
    /\ calls[c].pc = "send"
    /\ Refuse(c)
    /\ UNCHANGED sessionVars

(* External.  A new LSP gets a PLSP-ID that no other had before; an LSP    *)
(* that is gone is NoLSP.  A request for one is answered with a PCErr,     *)
(* which changes no policy.                                                *)
NoLSP == [key |-> <<>>]
PCCHolds(i, plsp) == plsp \in 1 .. Len(lsps[i]) /\ lsps[i][plsp] # NoLSP

Answers(i, plsp, lsp, remove, held) ==
    /\ sessions' = [sessions EXCEPT ![i].toPCC = Tail(@),
                                    ![i].toPCE = Append(@, Report(plsp, lsp, remove))]
    /\ lsps' = [lsps EXCEPT ![i] = held]
    /\ UNCHANGED removals

PCCAnswers(i) ==
    /\ sessions[i].toPCC # <<>>
    /\ LET m == Head(sessions[i].toPCC)
           lsp == LSP(m.key, m.list, m.intent, m.beside)
           old == lsps[i][m.plsp]
           new == [old EXCEPT !.list = m.list, !.intent = m.intent]
       IN  \/ /\ m.kind = "create"
              /\ Answers(i, Len(lsps[i]) + 1, lsp, FALSE, Append(lsps[i], lsp))
           \/ /\ m.kind = "update" /\ PCCHolds(i, m.plsp)
              /\ Answers(i, m.plsp, new, FALSE, [lsps[i] EXCEPT ![m.plsp] = new])
           \/ /\ m.kind = "delete" /\ PCCHolds(i, m.plsp)
              /\ Answers(i, m.plsp, old, TRUE, [lsps[i] EXCEPT ![m.plsp] = NoLSP])
           \/ /\ m.kind # "create" /\ ~PCCHolds(i, m.plsp)
              /\ sessions' = [sessions EXCEPT ![i].toPCC = Tail(@)]
              /\ UNCHANGED <<lsps, removals>>

PCCRemoves(i, plsp) ==
    /\ removals < MaxRemovals
    /\ PCCHolds(i, plsp)
    /\ removals' = removals + 1
    /\ lsps' = [lsps EXCEPT ![i][plsp] = NoLSP]
    /\ sessions' = [sessions EXCEPT ![i].toPCE = Append(@, Report(plsp, lsps[i][plsp], TRUE))]

(* handlePCRpt: a report creates, updates or removes the policy with its   *)
(* PLSP-ID; the last policy takes the place of one that is removed.        *)
WithPlsp(i, plsp) ==
    {j \in 1 .. Len(sessions[i].policies) : sessions[i].policies[j].plsp = plsp}
RegisterSRPolicy(i, p) ==
    LET old == WithPlsp(i, p.plsp)
    IN  IF old = {} THEN Append(sessions[i].policies, p)
        ELSE [sessions[i].policies EXCEPT ![Min(old)] = p]
RemoveSRPolicy(i, plsp) ==
    LET all == sessions[i].policies
        old == WithPlsp(i, plsp)
    IN  IF old = {} THEN all ELSE Front([all EXCEPT ![Min(old)] = Last(all)])

HandleStateReport(i, m) ==
    CASE m.kind = "report"    -> RegisterSRPolicy(i, m.policy)
      [] m.kind = "remove"    -> RemoveSRPolicy(i, m.plsp)
      [] m.kind = "endOfSync" -> sessions[i].policies
ReadReport(i) ==
    /\ sessions[i].toPCE # <<>>
    /\ LET m == Head(sessions[i].toPCE)
       IN  sessions' = [sessions EXCEPT ![i].toPCE = Tail(@),
              ![i].synced = IF m.kind = "endOfSync" THEN TRUE ELSE @,
              ![i].policies = HandleStateReport(i, m)]
    /\ UNCHANGED <<lsps, removals>>

------------------------------------------------------------------------------
(* GetSRPolicyList and its client *)

(* SRPolicies is a map by address: of synchronized sessions with the same  *)
(* one, the last in the list is shown.                                     *)
Peers == {sessions[i].peer : i \in {j \in 1 .. Len(sessions) : sessions[j].synced}}
SRPolicies(peer) == sessions[Max(SyncedWith(peer))].policies

(* buildRouterIDIndex: the routers an address may be attributed to; the    *)
(* index keeps any one of them.                                            *)
RouterIDsOf(address) ==
    {r \in Routers : \E j \in HostPrefixes(r) : Node(r).prefixes[j].prefix = address}

toPBPolicyType(type) ==
    CASE type = "explicit" -> "SR_POLICY_TYPE_EXPLICIT"
      [] type = "dynamic"  -> "SR_POLICY_TYPE_DYNAMIC"
      [] OTHER             -> "SR_POLICY_TYPE_UNSPECIFIED"
policyTypeFromPB(type) ==
    CASE type = "SR_POLICY_TYPE_EXPLICIT" -> "explicit"
      [] type = "SR_POLICY_TYPE_DYNAMIC"  -> "dynamic"
      [] OTHER                            -> ""
toPBMetricType(metric) ==
    CASE metric = "igp"      -> "METRIC_TYPE_IGP"
      [] metric = "te"       -> "METRIC_TYPE_TE"
      [] metric = "delay"    -> "METRIC_TYPE_DELAY"
      [] metric = "hopcount" -> "METRIC_TYPE_HOPCOUNT"
      [] OTHER               -> "METRIC_TYPE_UNSPECIFIED"
metricTypeFromPB(metric) ==
    CASE metric = "METRIC_TYPE_IGP"      -> "igp"
      [] metric = "METRIC_TYPE_TE"       -> "te"
      [] metric = "METRIC_TYPE_DELAY"    -> "delay"
      [] metric = "METRIC_TYPE_HOPCOUNT" -> "hopcount"
      [] OTHER                           -> ""
toPBPolicyState(state) ==
    [down   |-> "SR_POLICY_STATE_DOWN",   up      |-> "SR_POLICY_STATE_UP",
     active |-> "SR_POLICY_STATE_ACTIVE", unknown |-> "SR_POLICY_STATE_UNKNOWN"][state]
policyStateFromPB(state) ==
    [SR_POLICY_STATE_DOWN   |-> "down",   SR_POLICY_STATE_UP      |-> "up",
     SR_POLICY_STATE_ACTIVE |-> "active", SR_POLICY_STATE_UNKNOWN |-> "unknown"][state]

(* A SID becomes a text, and its family what the text parses as; the NAI   *)
(* and the SID structure are texts of their own.                           *)
SidString(s) == <<IF s.family = "mpls" THEN "number" ELSE "address", s.sid>>
convertSegment(s) ==
    [sid |-> SidString(s), rest |-> [f \in DOMAIN s \ {"family", "sid"} |-> s[f]]]
segmentFromPB(pb) ==
    [f \in {"family", "sid"} \cup DOMAIN pb.rest |->
        CASE f = "family" -> IF pb.sid[1] = "number" THEN "mpls" ELSE "srv6"
          [] f = "sid"    -> pb.sid[2]
          [] OTHER        -> pb.rest[f]]

buildPBSRPolicy(p) ==
    [plsp |-> p.plsp, color |-> p.key[1], dstAddr |-> p.key[2],
     segments |-> [k \in 1 .. Len(p.list) |-> convertSegment(p.list[k])],
     dstRouters |-> RouterIDsOf(p.key[2]), state |-> toPBPolicyState(p.state),
     type |-> toPBPolicyType(p.intent.type), metric |-> toPBMetricType(p.intent.metric)]
ByPlsp(p, q) == p.plsp <= q.plsp      \* mutant: colors are not compared
ByColorAndPlsp(p, q) == p.color < q.color \/ (p.color = q.color /\ p.plsp <= q.plsp)
(* SortFunc: the same elements in an order that the comparison allows.     *)
Sorts(order, all) ==
    \A j, k \in DOMAIN all : j <= k => ByColorAndPlsp(all[order[j]], all[order[k]])
SortFunc(all) ==
    LET order == CHOOSE f \in Bijection(DOMAIN all, DOMAIN all) : Sorts(f, all)
    IN  [j \in DOMAIN all |-> all[order[j]]]
GetSRPolicyList(peer) ==
    LET all == SRPolicies(peer)
    IN  SortFunc([j \in 1 .. Len(all) |-> buildPBSRPolicy(all[j])])

convertSRPolicy(p) ==
    [p EXCEPT !.state = policyStateFromPB(@), !.type = policyTypeFromPB(@),
              !.metric = metricTypeFromPB(@),
              !.segments = [k \in 1 .. Len(@) |-> segmentFromPB(@[k])]]
ClientPolicies(peer) ==
    LET all == GetSRPolicyList(peer)
    IN  [j \in 1 .. Len(all) |-> convertSRPolicy(all[j])]

------------------------------------------------------------------------------
(* The specification *)

CallStep(c) ==
    \/ \E r \in CreateRequests : StartCreate(c, r)
    \/ \E r \in DeleteRequests : StartDelete(c, r)
    \/ UseGivenList(c) \/ BuildSegmentList(c) \/ ValidateSIDs(c)
    \/ SearchForCreate(c) \/ SearchForDelete(c)

Next ==
    \/ tedEnabled /\ TableChanges /\ UNCHANGED <<configVars, sessionVars, calls>>
    \/ Publish
    \/ \E c \in Calls :
          \/ CallStep(c) /\ UNCHANGED <<tedVars, tableVars, configVars, sessionVars>>
          \/ Send(c) /\ UNCHANGED <<tedVars, tableVars, configVars>>
          \/ SendFails(c) /\ UNCHANGED <<tedVars, tableVars, configVars>>
    \/ \E i \in 1 .. Len(sessions) :
          /\ \/ PCCAnswers(i)
             \/ ReadReport(i)
             \/ \E plsp \in 1 .. Len(lsps[i]) : PCCRemoves(i, plsp)
          /\ UNCHANGED <<tedVars, tableVars, configVars, calls>>

Spec == Init /\ [][Next]_vars

------------------------------------------------------------------------------
(* Properties *)

PCs == {"idle", "build", "validate", "search", "send", "ended"}

(* The types of the variables; a call that sends has a session of the list *)
(* and, unless it creates, a PLSP-ID; a policy registered or a list sent   *)
(* holds nothing but segments.                                             *)
TypeOK ==
    /\ TEDTypeOK
    /\ table \in Tables /\ source \in Tables \cup {<<>>} /\ changes \in 0 .. MaxChanges
    /\ <<tedEnabled, usidMode>> \in Configurations
    /\ ~tedEnabled => source = <<>>
    /\ removals \in 0 .. MaxRemovals
    /\ \A c \in Calls :
          /\ calls[c].pc \in PCs
          /\ calls[c].pc = "validate" => IsList(calls[c].list)
          /\ calls[c].pc = "send" =>
                /\ calls[c].session \in 1 .. Len(sessions)
                /\ sessions[calls[c].session].synced
                /\ calls[c].message.kind # "create" <=> calls[c].message.plsp # 0
    /\ \A i \in 1 .. Len(sessions) :
          /\ sessions[i].synced \in BOOLEAN
          /\ \A j \in 1 .. Len(sessions[i].policies) :
                /\ sessions[i].policies[j].plsp \in 1 .. Len(lsps[i])
                /\ IsPolicy(sessions[i].policies[j])

(* What some router of a table announces: labels of prefixes inside its    *)
(* SRGB, adjacency SIDs, SRv6 SIDs of routers and links; a locator stands  *)
(* for the SIDs in it when uSIDs are in use.                               *)
SRGBs(t, r) ==
    {b.ranges[1] : b \in {x \in AnnouncedNodes(t) : x.router = r /\ x.hasSR}}
AnnouncesLabel(t, label) ==
    \/ \E i \in AnnouncedLinks(t) : label # 0 /\ t[i].body.adjSID = label
    \/ \E x \in Reached(t, "prefix") : \E g \in SRGBs(t, x.nlri.router) :
          /\ g.begin # 0 /\ label >= g.begin /\ label <= MPLSLabelMax
          /\ g.end > g.begin => label < g.end
          /\ AnnouncesIndex(x, label - g.begin)
AnnouncedSRv6(t) ==
    (UNION {Range(x.nlri.sids) : x \in Reached(t, "srv6SID")})
    \cup (UNION {t[i].body.endX : i \in AnnouncedLinks(t)})
Announces(t, s) ==
    \/ s.family = "mpls" /\ AnnouncesLabel(t, s.sid)
    \/ s.family = "srv6" /\ s.sid \in AnnouncedSRv6(t)
    \/ /\ s.family = "srv6" /\ usidMode
       /\ \E sid \in AnnouncedSRv6(t) \cap DOMAIN Locators :
             /\ <<s.sid, Locators[sid].prefix>> \in Under
             /\ s.declared = 0 \/ s.declared >= Locators[sid].bits

AnnouncesHost(t, r, address) ==
    \E x \in Reached(t, "prefix") :
        /\ x.nlri.router = r
        /\ x.nlri.prefixes[1].prefix = address /\ x.nlri.prefixes[1].host

(* A request on its way to a PCC has its endpoint from, and its list       *)
(* checked against, tables that were published while the call ran, though  *)
(* the call looks at the TED twice and a newer one may come between:       *)
(* every SID given was announced by one of them, unless the caller waived  *)
(* that; the endpoint is a host prefix of the router asked for.  And no    *)
(* list mixes families or has a label that is none, whoever made it.       *)
ListsWereOnTED ==
    \A c \in Calls : calls[c].pc = "send" /\ calls[c].message.kind # "delete" =>
        LET list == calls[c].message.list
            computed == Req(c).type = "dynamic" /\ ~Req(c).disablePathCompute
        IN  /\ Cardinality({list[k].family : k \in 1 .. Len(list)}) <= 1
            /\ \A k \in 1 .. Len(list) : list[k].family = "mpls" => list[k].sid <= MPLSLabelMax
            /\ Req(c).disablePathCompute \/ \E t \in calls[c].seen :
                  AnnouncesHost(t, Req(c).dstRouter, calls[c].message.key[2])
            /\ computed \/ Req(c).noSIDValidate \/ \E t \in calls[c].seen :
                  \A k \in 1 .. Len(list) : Announces(t, list[k])

(* A request that changes or deletes a policy reaches an LSP of the color  *)
(* and endpoint it was made for, or none: the PLSP-ID found under the lock *)
(* may be gone when the request arrives, and a registry whose entries move *)
(* or a search of the wrong session's would hit another one.               *)
RequestsHitTheirPolicy ==
    \A i \in 1 .. Len(sessions) : \A k \in 1 .. Len(sessions[i].toPCC) :
        LET m == sessions[i].toPCC[k]
        IN  m.kind # "create" /\ PCCHolds(i, m.plsp) => lsps[i][m.plsp].key = m.key

(* A PCC holds two LSPs of one color and endpoint only if the call that    *)
(* created the second looked before the first one was registered: nothing  *)
(* that was there to be seen is created again.                             *)
DuplicatesNeedOverlap ==
    \A i \in 1 .. Len(lsps) : \A p, q \in 1 .. Len(lsps[i]) :
        p < q /\ PCCHolds(i, p) /\ PCCHolds(i, q) /\ lsps[i][p].key = lsps[i][q].key
            => p \notin lsps[i][q].beside

ShowsPolicy(v, p) ==
    /\ v.plsp = p.plsp /\ <<v.color, v.dstAddr>> = p.key /\ v.segments = p.list
    /\ v.state = p.state /\ v.type = p.intent.type /\ v.metric = p.intent.metric

(* What `pola sr-policy list` shows of a peer, after two conversions, is   *)
(* the registry of one of its synchronized sessions, each policy once and  *)
(* in the order of color and PLSP-ID, whatever the order reports left; a   *)
(* router it names announced the endpoint in the published table.          *)
ListShowsPolicies ==
    \A peer \in Peers : \E view \in {ClientPolicies(peer)} :
        /\ \E i \in SyncedWith(peer) :
              /\ Len(view) = Len(sessions[i].policies)
              /\ \A j \in 1 .. Len(view) : \E k \in 1 .. Len(view) :
                    ShowsPolicy(view[k], sessions[i].policies[j])
        /\ \A j \in 1 .. (Len(view) - 1) :
              \/ view[j].color < view[j + 1].color
              \/ view[j].color = view[j + 1].color /\ view[j].plsp < view[j + 1].plsp
        /\ \A j \in 1 .. Len(view) :
              view[j].dstRouters = {r \in AnnouncedRouters(source) :
                                       AnnouncesHost(source, r, view[j].dstAddr)}
=============================================================================
