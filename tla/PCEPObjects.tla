----------------------------- MODULE PCEPObjects -----------------------------
(***************************************************************************)
(* The PCEP objects of pkg/packet/pcep/object.go over the words and TLVs   *)
(* of PCEPTLVs.  An object is a record whose class names its kind; Body is *)
(* what Serialize writes after the header, Len what the header says.       *)
(***************************************************************************)
EXTENDS PCEPTLVs

ObjHdr(class, otype, length) == <<"obj", class, otype, length>>
ClassAt(w) == Field(w, 2, "none")
ObjectTypeAt(w) == Field(w, 3, 0)
ObjectLengthAt(w) == IF Field(w, 1, "zero") = "obj" THEN w[4] ELSE 0

------------------------------------------------------------------------------
(* OPEN                                                                    *)

CONSTANT OctetSpace     \* 2^8: Keepalive and Deadtime are octets

OpenObject(keepalive, sessionID, caps) ==
    [class |-> "Open", otype |-> 1, keepalive |-> keepalive,
     deadtime |-> (4 * keepalive) % OctetSpace, sid |-> sessionID, caps |-> caps]
OpenBody(o) == <<<<"open", o.keepalive, o.deadtime, o.sid>>>> \o TLVsWords(o.caps)
OpenLen(o) == 8 + TLVsLen(o.caps)

(* Only capabilities are kept of the TLVs.                                 *)
CapabilityTypes ==
    {"VendorInformation", "StatefulPCECapability", "LSPDBVersion", "SRPCECapability",
     "SRv6PCECapability", "MultipathCapability", "PathSetupTypeCapability",
     "AssocTypeList", "UnknownTLV"}
OpenOf(ws) ==
    [keepalive |-> Field(ws[1], 2, 0), deadtime |-> Field(ws[1], 3, 0),
     caps |-> Keep(DecodeTLVs(Tail(ws)), LAMBDA t : t.type \in CapabilityTypes)]
OpenDecodes(ws) == IsOK(DecodeTLVs(Tail(ws)))

(* What Pola advertises of the capabilities it is offered.                 *)
PolaCapability(caps) ==
    LET answer(t) == IF t.type = "StatefulPCECapability"
                     THEN StatefulPCECapability({"LSPUpdate", "LSPInstantiation", "Color"})
                     ELSE t
        kept == Keep(caps, LAMBDA t : t.type # "LSPDBVersion")
    IN  [i \in 1 .. Len(kept) |-> answer(kept[i])]

(* The association types a PCC lists tell its kind; each list is read up   *)
(* to Juniper's type, and the last telling list decides.                   *)
SRPolicyAssociation == "SRPolicy"
SRPolicyAssociationCisco == "SRPolicyCisco"
SRPolicyAssociationJuniper == "SRPolicyJuniper"
DeterminePccType(caps) ==
    LET tells(t) == t.type = "AssocTypeList" /\
            \E i \in 1 .. Len(t.types) :
                t.types[i] \in {SRPolicyAssociationCisco, SRPolicyAssociationJuniper}
        i == SelectLastInSeq(caps, tells)
    IN  IF i = 0 THEN "RFCCompliant"
        ELSE IF SRPolicyAssociationJuniper \in ToSet(caps[i].types) THEN "JuniperLegacy"
        ELSE "CiscoLegacy"

------------------------------------------------------------------------------
(* PCEP-ERROR, CLOSE                                                       *)

PCEPErrorObject(errorType, errorValue) ==
    [class |-> "PCEPError", otype |-> 1, errorType |-> errorType, errorValue |-> errorValue]
PCEPErrorBody(o) == <<<<"error", o.errorType, o.errorValue>>>>
PCEPErrorLen == 8
PCEPErrorOf(ws) == PCEPErrorObject(Field(ws[1], 2, 0), Field(ws[1], 3, 0))
PCEPErrorDecodes(ws) == ws # <<>> /\ IsOK(DecodeTLVs(Tail(ws)))

CloseObject(reason) == [class |-> "Close", otype |-> 1, reason |-> reason]
CloseBody(o) == <<<<"close", o.reason>>>>
CloseLen == 8
CloseOf(ws) == CloseObject(Field(ws[1], 2, 0))

------------------------------------------------------------------------------
(* SRP, LSP                                                                *)

(* Segments: of the two families, see ERO.                                 *)
PathSetupTypeOfSegment(seg) ==
    IF seg.family = "SRMPLS" THEN PathSetupType("SRTE") ELSE PathSetupType("SRv6TE")

SrpObject(segs, srpID, isRemove) ==
    [class |-> "SRP", otype |-> 1, rFlag |-> isRemove, srpID |-> srpID,
     tlvs |-> IF segs = <<>> THEN <<>> ELSE <<PathSetupTypeOfSegment(segs[1])>>]
SrpBody(o) ==
    <<Flags(IF o.rFlag THEN {"R"} ELSE {}), Uint(o.srpID)>> \o TLVsWords(o.tlvs)
SrpLen(o) == 12 + TLVsLen(o.tlvs)
SrpOf(ws) == [rFlag |-> "R" \in FlagsAt(ws[1]), srpID |-> UintAt(ws[2]),
              tlvs |-> DecodeTLVs(SubSeq(ws, 3, Len(ws)))]
SrpDecodes(ws) == Len(ws) >= 2 /\ IsOK(DecodeTLVs(SubSeq(ws, 3, Len(ws))))

(* The object the PCE sends: color is empty or holds one.  oFlag is the    *)
(* operational state.                                                      *)
LSPObject(name, color, plspID) ==
    [class |-> "LSP", otype |-> 1, plspID |-> plspID, flags |-> {"C", "A", "D"}, oFlag |-> 1,
     tlvs |-> <<SymbolicPathName(name)>>
                \o (IF color = <<>> THEN <<>> ELSE <<Color(color[1])>>)]
LSPBody(o) == <<<<"lsp", o.plspID, o.flags, o.oFlag>>>> \o TLVsWords(o.tlvs)
LSPLen(o) == 8 + TLVsLen(o.tlvs)

LSPIdentifierTypes == {"IPv4LSPIdentifiers", "IPv6LSPIdentifiers"}
LSPWith(hdr, tlvs) ==
    LET Latest(types, zero, Get(_)) ==
            IF HasTLV(tlvs, types) THEN Get(LastTLV(tlvs, types)) ELSE zero
    IN  [plspID |-> Field(hdr, 2, 0), flags |-> Field(hdr, 3, {}),
         oFlag |-> Field(hdr, 4, 0), tlvs |-> tlvs,
         name |-> Latest({"SymbolicPathName"}, "", LAMBDA t : t.name),
         src |-> Latest(LSPIdentifierTypes, NoAddr, LAMBDA t : t.src),
         dst |-> Latest(LSPIdentifierTypes, NoAddr, LAMBDA t : t.dst),
         lspID |-> Latest(LSPIdentifierTypes, 0, LAMBDA t : t.lspID)]
LSPOf(ws) == LSPWith(ws[1], DecodeTLVs(Tail(ws)))
LSPDecodes(ws) == IsOK(DecodeTLVs(Tail(ws)))
LSPColor(lsp) == IF HasTLV(lsp.tlvs, {"Color"}) THEN FirstTLV(lsp.tlvs, {"Color"}).color ELSE 0

------------------------------------------------------------------------------
(* ERO.  Segments are records of family "SRMPLS" (a label, the attributes  *)
(* of the label stack entry, "" for none) or "SRv6" (an address, the SID   *)
(* structure, "" for none, uSID or not), both with the NAI's addresses.    *)

SegmentSRMPLS(sid, attrs, local, remote) ==
    [family |-> "SRMPLS", sid |-> sid, attrs |-> attrs, local |-> local, remote |-> remote]
SegmentSRv6(sid, structure, uSID, local, remote) ==
    [family |-> "SRv6", sid |-> sid, structure |-> structure, uSID |-> uSID,
     local |-> local, remote |-> remote]

(* What an API request can ask for: labels of 20 bits, SRv6 SIDs of IPv6.  *)
(* That an SRv6 segment's addresses are of IPv6 is checked nowhere.        *)
IsSRMPLS(seg) ==
    /\ seg = SegmentSRMPLS(seg.sid, seg.attrs, seg.local, seg.remote)
    /\ seg.sid \in 0 .. LabelSpace - 1 /\ seg.attrs \in STRING
    /\ {seg.local, seg.remote} \subseteq IPv4 \cup IPv6 \cup {NoAddr}
IsSRv6(seg) ==
    /\ seg = SegmentSRv6(seg.sid, seg.structure, seg.uSID, seg.local, seg.remote)
    /\ seg.structure \in STRING /\ seg.uSID \in BOOLEAN
    /\ seg.sid \in IPv6 /\ {seg.local, seg.remote} \subseteq IPv6 \cup {NoAddr}
IsSegment(seg) ==
    \/ seg.family = "SRMPLS" /\ IsSRMPLS(seg)
    \/ seg.family = "SRv6" /\ IsSRv6(seg)

SubHdr(type, length, nai, flags) == <<"sub", type, length, nai, flags>>

(* naiTypeSRFor; "error" for a NAI SR-ERO cannot express.                  *)
NAITypeSRFor(seg) ==
    LET local == seg.local
        remote == seg.remote
    IN  CASE ~IsAddr(local) -> IF IsAddr(remote) THEN "error" ELSE "Absent"
          [] IsAddr(local) /\ ~IsAddr(remote) -> IF local \in IPv4 THEN "IPv4Node" ELSE "IPv6Node"
          [] IsAddr(local) /\ IsAddr(remote) ->
                IF (local \in IPv4) # (remote \in IPv4) THEN "error"
                ELSE IF local \in IPv4 THEN "IPv4Adjacency"
                ELSE IF {local, remote} \cap LinkLocal # {} THEN "error"
                ELSE "IPv6AdjacencyGlobal"

NAILengthSR ==
    [Absent |-> 0, IPv4Node |-> 4, IPv6Node |-> 16, IPv4Adjacency |-> 8,
     IPv6AdjacencyGlobal |-> 32]

SREroFlags(seg) ==
    {"M"} \cup (IF NAITypeSRFor(seg) = "Absent" THEN {"F"} ELSE {})
          \cup (IF seg.attrs # "" THEN {"C"} ELSE {})
SREroLen(nai, flags) == IF "F" \in flags THEN 8 ELSE 8 + NAILengthSR[nai]
SREroWords(seg) ==
    LET nai == NAITypeSRFor(seg)
        flags == SREroFlags(seg)
    IN  <<SubHdr("SR", SREroLen(nai, flags), nai, flags),
          <<"label", seg.sid % LabelSpace, seg.attrs>>>>
        \o (IF nai = "Absent" THEN <<>> ELSE AsSlice(seg.local) \o AsSlice(seg.remote))

(* From the subobject's first word to the end of the ERO: the NAI is found *)
(* by its type.                                                            *)
SREroSegment(ws) ==
    LET nai == ws[1][4]
        flags == ws[1][5]
        words == NAILengthSR[nai] \div 4
        half == words \div 2
        adjacency == nai \in {"IPv4Adjacency", "IPv6AdjacencyGlobal"}
        local == IF adjacency THEN Slice(ws, 3, half) ELSE Slice(ws, 3, words)
        absent == "F" \in flags \/ nai = "Absent"
    IN  SegmentSRMPLS(Field(ws[2], 2, 0),
                      IF "C" \in flags THEN Field(ws[2], 3, "") ELSE "",
                      IF absent THEN NoAddr ELSE DataAt(local),
                      IF absent \/ ~adjacency THEN NoAddr ELSE DataAt(Slice(ws, 3 + half, half)))

(* SRv6: no local address, no behaviour, and Serialize fails.              *)
NAITypeSRv6For(seg) ==
    IF ~IsAddr(seg.local) THEN "Absent"
    ELSE IF IsAddr(seg.remote) THEN "IPv6AdjacencyGlobal" ELSE "IPv6Node"
NAILengthSRv6 ==
    [IPv6Node |-> 16, IPv6AdjacencyGlobal |-> 32, IPv6AdjacencyLinkLocal |-> 40]
Behavior(seg) ==
    IF seg.uSID THEN IF IsAddr(seg.remote) THEN "UA" ELSE "UN"
    ELSE IF IsAddr(seg.remote) THEN "ENDX" ELSE "END"

SRv6EroFlags(seg) ==
    (IF ~IsAddr(seg.local) THEN {"F"} ELSE {}) \cup (IF seg.structure # "" THEN {"T"} ELSE {})
SRv6EroLen(nai, flags) ==
    8 + (IF "S" \in flags THEN 0 ELSE 16) + (IF "F" \in flags THEN 0 ELSE NAILengthSRv6[nai])
      + (IF "T" \in flags THEN 8 ELSE 0)
SRv6EroWords(seg) ==
    LET nai == NAITypeSRv6For(seg)
        flags == SRv6EroFlags(seg)
    IN  <<SubHdr("SRv6", SRv6EroLen(nai, flags), nai, flags), <<"behavior", Behavior(seg)>>>>
        \o AsSlice(seg.sid) \o AsSlice(seg.local) \o AsSlice(seg.remote)
        \o (IF seg.structure = "" THEN <<>> ELSE Data(seg.structure, 1) \o <<<<>>>>)

SRv6EroSegment(ws) ==
    LET nai == ws[1][4]
        flags == ws[1][5]
        afterSID == IF "S" \in flags THEN 3 ELSE 7
        afterNAI == afterSID + (IF "F" \in flags THEN 0 ELSE NAILengthSRv6[nai] \div 4)
        remoteAt == IF nai = "IPv6AdjacencyLinkLocal" THEN afterSID + 5 ELSE afterSID + 4
    IN  SegmentSRv6(IF "S" \in flags THEN NoAddr ELSE DataAt(Slice(ws, 3, 4)),
                    IF "T" \in flags THEN DataAt(Slice(ws, afterNAI, 1)) ELSE "",
                    Field(ws[2], 2, "RESERVED") \in {"UN", "UA"},
                    IF "F" \in flags THEN NoAddr ELSE DataAt(Slice(ws, afterSID, 4)),
                    IF "F" \in flags \/ nai = "IPv6Node" THEN NoAddr
                    ELSE DataAt(Slice(ws, remoteAt, 4)))

(* An RSVP hop stands in an ERO and is no segment.                         *)
RSVPIPv4Prefix(prefix) == [family |-> "RSVP", prefix |-> prefix]
RSVPIPv4PrefixLen == 8
RSVPIPv4PrefixWords(hop) ==
    <<SubHdr("IPv4Prefix", RSVPIPv4PrefixLen, "none", {})>> \o Data(hop.prefix, 1)

Encodable(seg) ==
    IF seg.family = "SRMPLS" THEN NAITypeSRFor(seg) # "error" ELSE IsAddr(seg.local)
EroSubobjectWords(seg) ==
    CASE seg.family = "SRMPLS" -> SREroWords(seg)
      [] seg.family = "SRv6" -> SRv6EroWords(seg)
      [] seg.family = "RSVP" -> RSVPIPv4PrefixWords(seg)
EroSubobjectLen(seg) ==
    CASE seg.family = "SRMPLS" -> SREroLen(NAITypeSRFor(seg), SREroFlags(seg))
      [] seg.family = "SRv6" -> SRv6EroLen(NAITypeSRv6For(seg), SRv6EroFlags(seg))
      [] seg.family = "RSVP" -> RSVPIPv4PrefixLen

EroObject(segs) == [class |-> "ERO", otype |-> 1, segs |-> segs]
EroBody(o) == FlattenSeq([i \in 1 .. Len(o.segs) |-> EroSubobjectWords(o.segs[i])])
EroLen(o) == 4 + TotalLen(o.segs, EroSubobjectLen)

(* What a subobject's Len is once decoded: computed from its flags and not *)
(* the length on the wire; 0 where decoding fails.                         *)
SubobjectLen(w) ==
    LET type == Field(w, 2, "none")
        nai == Field(w, 4, "none")
        flags == Field(w, 5, {})
    IN  CASE type = "SR" /\ ("F" \in flags \/ nai \in DOMAIN NAILengthSR) -> SREroLen(nai, flags)
          [] type = "SRv6" /\ ("F" \in flags \/ nai \in DOMAIN NAILengthSRv6) -> SRv6EroLen(nai, flags)
          [] type = "IPv4Prefix" /\ Field(w, 3, 0) = RSVPIPv4PrefixLen -> RSVPIPv4PrefixLen
          [] OTHER -> 0
SubobjectSegment(ws) ==
    CASE ws[1][2] = "SR" -> SREroSegment(ws)
      [] ws[1][2] = "SRv6" -> SRv6EroSegment(ws)
      [] ws[1][2] = "IPv4Prefix" -> RSVPIPv4Prefix(DataAt(Tail(ws)))

(* Decoding an ERO body; ToSegmentList leaves out the RSVP hops.           *)
ErrorSegment == [family |-> "error"]
EroSegments(ws) ==
    LET next(i) == i + SubobjectLen(ws[i]) \div 4
        fails(i) == SubobjectLen(ws[i]) = 0 \/ next(i) > Len(ws) + 1
        error(i) == ErrorSegment
        segment(i) == SubobjectSegment(SubSeq(ws, i, next(i) - 1))
    IN  Walk(Len(ws), fails, error, segment, next)
EroDecodes(ws) == ErrorSegment \notin ToSet(EroSegments(ws))
ToSegmentList(ws) == Keep(EroSegments(ws), LAMBDA seg : seg.family # "RSVP")

------------------------------------------------------------------------------
(* END-POINTS                                                              *)

SameFamily(a, b) == {a, b} \subseteq IPv4 \/ {a, b} \subseteq IPv6

EndpointsObject(src, dst) ==
    [class |-> "Endpoints", otype |-> IF src \in IPv4 THEN 1 ELSE 2, src |-> src, dst |-> dst]
EndpointsBody(o) == AsSlice(o.src) \o AsSlice(o.dst)
EndpointsLenIPv4(o) == 12       \* mutant: the length of IPv4 for IPv6 too
EndpointsLen(o) == IF {o.src, o.dst} \subseteq IPv4 THEN 12 ELSE 36

------------------------------------------------------------------------------
(* ASSOCIATION                                                             *)

PccTypes == {"CiscoLegacy", "JuniperLegacy", "RFCCompliant"}

AssociationEncodable(pccType, src, dst) ==
    SameFamily(src, dst) /\ (pccType = "JuniperLegacy" => dst \in IPv4)
AssociationObject(pccType, src, dst, color, preference, asn) ==
    LET juniper == pccType = "JuniperLegacy"
        tlvs == IF juniper
                THEN <<ExtendedAssociationID("ExtendedAssociationIDIPv4Juniper", color, dst),
                       CandidatePathIdentifier("SRPolicyCPathIDJuniper", asn, Unspecified),
                       CandidatePathPreference("SRPolicyCPathPreferenceJuniper", preference)>>
                ELSE <<ExtendedAssociationID("ExtendedAssociationID", color, dst),
                       CandidatePathIdentifier("SRPolicyCPathID", asn, dst),
                       CandidatePathPreference("SRPolicyCPathPreference", preference)>>
    IN  [class |-> "Association", otype |-> IF src \in IPv4 THEN 1 ELSE 2,
         assocType |-> IF juniper THEN SRPolicyAssociationJuniper ELSE SRPolicyAssociation,
         assocID |-> IF juniper THEN 0 ELSE 1, src |-> src, tlvs |-> tlvs]
AssociationBody(o) ==
    <<<<>>, <<"assoc", o.assocType, o.assocID>>>> \o AsSlice(o.src) \o TLVsWords(o.tlvs)
AssociationLen(o) == 4 + (IF o.src \in IPv4 THEN 12 ELSE 24) + TLVsLen(o.tlvs)

AssociationSrcWords(otype) == IF otype = 1 THEN 1 ELSE 4
AssociationOf(otype, ws) ==
    LET first == 3 + AssociationSrcWords(otype)
    IN  [assocType |-> Field(ws[2], 2, "none"), assocID |-> Field(ws[2], 3, 0),
         src |-> DataAt(SubSeq(ws, 3, first - 1)), tlvs |-> DecodeTLVs(SubSeq(ws, first, Len(ws)))]
AssociationDecodes(otype, ws) ==
    /\ otype \in {1, 2} /\ Len(ws) >= 2 + AssociationSrcWords(otype)
    /\ IsOK(AssociationOf(otype, ws).tlvs)

AssociationColor(o) ==
    IF HasTLV(o.tlvs, ExtendedAssociationIDs)
    THEN FirstTLV(o.tlvs, ExtendedAssociationIDs).color ELSE 0
AssociationPreference(o) ==
    IF HasTLV(o.tlvs, CPathPreferences) THEN FirstTLV(o.tlvs, CPathPreferences).preference ELSE 0
AssociationEndpoint(o) ==
    IF HasTLV(o.tlvs, ExtendedAssociationIDs)
    THEN FirstTLV(o.tlvs, ExtendedAssociationIDs).endpoint ELSE NoAddr

------------------------------------------------------------------------------
(* VENDOR-INFORMATION: Cisco's color and preference sub-TLVs, kept raw.    *)

VendorInformationObject(color, preference) ==
    [class |-> "VendorInformation", otype |-> 1, enterprise |-> "Cisco",
     tlvs |-> <<UnknownTLV("ColorCisco", 4, <<Uint(color)>>),
                UnknownTLV("PreferenceCisco", 4, <<Uint(preference)>>)>>]
VendorInformationBody(o) == Data(o.enterprise, 1) \o TLVsWords(o.tlvs)
VendorInformationLen(o) == 8 + TLVsLen(o.tlvs)
VendorInformationObjectOf(ws) ==
    [enterprise |-> DataAt(Slice(ws, 1, 1)), tlvs |-> DecodeVendorTLVs(Tail(ws))]
VendorInformationDecodes(ws) == ws # <<>> /\ IsOK(DecodeVendorTLVs(Tail(ws)))

SubTLVUint32(o, typ) ==
    LET i == SelectInSeq(o.tlvs, LAMBDA t : t.typ = typ)
    IN  IF i = 0 \/ o.tlvs[i].octets < 4 THEN 0 ELSE UintAt(o.tlvs[i].value[1])

------------------------------------------------------------------------------
(* METRIC, which only a PCC sends: its type decides a recomputation.       *)

MetricBody(metricType, value) == <<<<"metric", metricType>>, Uint(value)>>
MetricOf(ws) == [metricType |-> Field(ws[1], 2, 0), value |-> UintAt(ws[2])]
=============================================================================
