---------------------------- MODULE PCEPMessages ----------------------------
(***************************************************************************)
(* The PCEP messages of pkg/packet/pcep/message.go: sequences of the       *)
(* objects of PCEPObjects behind a common header, and how a message body   *)
(* is taken apart again.                                                   *)
(***************************************************************************)
EXTENDS PCEPObjects

------------------------------------------------------------------------------
(* Serialize: every object is a header and a body, and the message length  *)
(* is the sum of what the objects' Len say.                                *)

ObjectBody(o) ==
    CASE o.class = "Open" -> OpenBody(o)
      [] o.class = "PCEPError" -> PCEPErrorBody(o)
      [] o.class = "Close" -> CloseBody(o)
      [] o.class = "SRP" -> SrpBody(o)
      [] o.class = "LSP" -> LSPBody(o)
      [] o.class = "ERO" -> EroBody(o)
      [] o.class = "Endpoints" -> EndpointsBody(o)
      [] o.class = "Association" -> AssociationBody(o)
      [] o.class = "VendorInformation" -> VendorInformationBody(o)
      [] OTHER -> o.body        \* objects only a PCC sends
ObjectLen(o) ==
    CASE o.class = "Open" -> OpenLen(o)
      [] o.class = "PCEPError" -> PCEPErrorLen
      [] o.class = "Close" -> CloseLen
      [] o.class = "SRP" -> SrpLen(o)
      [] o.class = "LSP" -> LSPLen(o)
      [] o.class = "ERO" -> EroLen(o)
      [] o.class = "Endpoints" -> EndpointsLen(o)
      [] o.class = "Association" -> AssociationLen(o)
      [] o.class = "VendorInformation" -> VendorInformationLen(o)
      [] OTHER -> 4 + 4 * Len(o.body)
ObjectWords(o) == <<ObjHdr(o.class, o.otype, ObjectLen(o))>> \o ObjectBody(o)

MsgHdr(type, length) == <<"msg", type, length>>
MessageWords(type, objects) ==
    <<MsgHdr(type, 4 + TotalLen(objects, ObjectLen))>>
        \o FlattenSeq([i \in 1 .. Len(objects) |-> ObjectWords(objects[i])])

OpenMessage(keepalive, sessionID, caps) ==
    MessageWords("Open", <<OpenObject(keepalive, sessionID, caps)>>)
KeepaliveMessage == MessageWords("Keepalive", <<>>)
CloseMessage(reason) == MessageWords("Close", <<CloseObject(reason)>>)
PCErrMessage(srps, errors) == MessageWords("Error", srps \o errors)

(* An SR Policy to ask for: name, segs, src, dst, color, preference and,   *)
(* for a delete or an update, plspID.                                      *)
PCInitiateEncodable(policy, isDelete, pccType) ==
    isDelete \/ /\ AssociationEncodable(pccType, policy.src, policy.dst)
                /\ \A i \in 1 .. Len(policy.segs) : Encodable(policy.segs[i])
PCInitiateMessage(srpID, policy, isDelete, pccType, asn) ==
    LET srp == SrpObject(policy.segs, srpID, isDelete)
        association ==
            AssociationObject(pccType, policy.src, policy.dst, policy.color, policy.preference, asn)
        vendor == VendorInformationObject(policy.color, policy.preference)
    IN  MessageWords("LSPInitReq",
            IF isDelete THEN <<srp, LSPObject(policy.name, <<policy.color>>, policy.plspID)>>
            ELSE <<srp, LSPObject(policy.name, <<policy.color>>, 0),
                   EndpointsObject(policy.src, policy.dst), EroObject(policy.segs)>>
                 \o (CASE pccType = "JuniperLegacy" -> <<association>>
                       [] pccType = "CiscoLegacy" -> <<vendor>>
                       [] pccType = "RFCCompliant" -> <<association, vendor>>))

PCUpdEncodable(policy) == \A i \in 1 .. Len(policy.segs) : Encodable(policy.segs[i])
PCUpdMessage(srpID, policy) ==
    MessageWords("Update", <<SrpObject(policy.segs, srpID, FALSE),
                             LSPObject(policy.name, <<>>, policy.plspID),
                             EroObject(policy.segs)>>)

------------------------------------------------------------------------------
(* DecodeFromBytes *)

(* The objects of a body, each found by the length of the one before it.   *)
(* A word that frames no object stands for itself, and ends the list.      *)
ObjectsOf(ws) ==
    LET length(i) == ObjectLengthAt(ws[i])
        next(i) == i + length(i) \div 4
        framed(i) == length(i) >= 4 /\ length(i) % 4 = 0 /\ next(i) <= Len(ws) + 1
        unframed(i) == ~framed(i)
        object(i) == [class |-> ClassAt(ws[i]), otype |-> ObjectTypeAt(ws[i]),
                      framed |-> framed(i), length |-> length(i),
                      body |-> IF framed(i) THEN SubSeq(ws, i + 1, next(i) - 1) ELSE <<>>]
    IN  Walk(Len(ws), unframed, object, object, next)
OfClass(objs, class) == Keep(objs, LAMBDA o : o.class = class)

OpenMessageDecodes(ws) ==
    LET objs == ObjectsOf(ws)
    IN  /\ objs # <<>> /\ objs[1].framed
        /\ objs[1].class = "Open" /\ objs[1].otype = 1 /\ OpenDecodes(objs[1].body)
OpenMessageOf(ws) == OpenOf(ObjectsOf(ws)[1].body)

PCErrDecodes(ws) ==
    LET objs == ObjectsOf(ws)
    IN  /\ \A i \in 1 .. Len(objs) :
              /\ objs[i].framed
              /\ objs[i].class = "PCEPError" => PCEPErrorDecodes(objs[i].body)
              /\ objs[i].class = "SRP" => SrpDecodes(objs[i].body)
        /\ OfClass(objs, "PCEPError") # <<>>
FirstSRPID(ws) ==      \* mutant: the first SRP object only
    LET srps == OfClass(ObjectsOf(ws), "SRP")
    IN  IF srps = <<>> THEN <<>> ELSE <<SrpOf(srps[1].body).srpID>>
SRPIDs(ws) ==
    LET srps == OfClass(ObjectsOf(ws), "SRP")
    IN  [i \in 1 .. Len(srps) |-> SrpOf(srps[i].body).srpID]

(* The objects of a PCRpt that decodeFuncs knows; the others are skipped.  *)
ReportClasses ==
    {"Bandwidth", "Metric", "ERO", "LSPA", "LSP", "SRP", "Association", "VendorInformation"}
Known(objs) == Keep(objs, LAMBDA o : o.framed /\ o.class \in ReportClasses)

ObjectDecodes(o) ==
    CASE o.class = "SRP" -> SrpDecodes(o.body)
      [] o.class = "LSP" -> LSPDecodes(o.body)
      [] o.class = "ERO" -> EroDecodes(o.body)
      [] o.class = "Association" -> AssociationDecodes(o.otype, o.body)
      [] o.class = "VendorInformation" -> VendorInformationDecodes(o.body)
      [] OTHER -> TRUE

(* An SRP object starts a report, and so does an LSP object that does not  *)
(* follow one.                                                             *)
StartsAtSRP(objs, i) == objs[i].class = "SRP" \/ i = 1    \* mutant: an LSP object starts none
StartsReport(objs, i) ==
    \/ objs[i].class = "SRP"
    \/ objs[i].class = "LSP" /\ (i = 1 \/ objs[i - 1].class # "SRP")

(* What becomes of decoding a PCRpt body: an object of length 0 of no      *)
(* known class is skipped for ever; any other bad length, and an object    *)
(* before the first report, panics.                                        *)
OutcomeOf(objs, known) ==
    LET last == objs[Len(objs)]
    IN  CASE known # <<>> /\ ~StartsReport(known, 1) -> "crashed"
          [] \E i \in 1 .. Len(known) : ~ObjectDecodes(known[i]) -> "ended"
          [] objs # <<>> /\ ~last.framed ->
                IF last.length = 0 /\ last.class \notin ReportClasses THEN "stuck" ELSE "crashed"
          [] OTHER -> "header"
PCRptOutcome(ws) == OutcomeOf(ObjectsOf(ws), Known(ObjectsOf(ws)))

(* A report: the objects from one start to the next, each zero where the   *)
(* PCC sent none.  Subobjects of further EROs are appended to the first's. *)
StateReport(objs) ==
    LET latest(class, zero, Of(_)) ==
            LET found == OfClass(objs, class)
            IN  IF found = <<>> THEN zero ELSE Of(found[Len(found)])
        eros == OfClass(objs, "ERO")
        metrics == OfClass(objs, "Metric")
    IN  [srpID |-> latest("SRP", 0, LAMBDA o : SrpOf(o.body).srpID),
         lsp |-> latest("LSP", LSPOf(<<<<>>>>), LAMBDA o : LSPOf(o.body)),
         segs |-> FlattenSeq([i \in 1 .. Len(eros) |-> ToSegmentList(eros[i].body)]),
         metrics |-> [i \in 1 .. Len(metrics) |-> MetricOf(metrics[i].body).metricType],
         assoc |-> latest("Association", [src |-> NoAddr, tlvs |-> <<>>],
                          LAMBDA o : AssociationOf(o.otype, o.body)),
         vendor |-> latest("VendorInformation", [tlvs |-> <<>>],
                           LAMBDA o : VendorInformationObjectOf(o.body))]

ReportsOf(known) ==
    LET later(i) == {j \in i + 1 .. Len(known) : StartsReport(known, j)} \cup {Len(known) + 1}
        end(i) == Min(later(i))
        report(i) == StateReport(SubSeq(known, i, end(i) - 1))
        never(i) == FALSE
    IN  Walk(Len(known), never, report, report, end)
StateReports(ws) == ReportsOf(Known(ObjectsOf(ws)))
=============================================================================
