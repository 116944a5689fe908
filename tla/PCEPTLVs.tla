------------------------------ MODULE PCEPTLVs ------------------------------
(***************************************************************************)
(* The PCEP TLVs of pkg/packet/pcep/tlv.go: what Serialize writes, what    *)
(* Len says it writes, and what DecodeFromBytes makes of it.               *)
(*                                                                         *)
(* Bytes come in words of four.  A word is a tuple whose first component   *)
(* says which fields lie in it; the bits of flags, reserved fields and the *)
(* values of type codes are left out.  Every word read by a decoder is     *)
(* taken from the place where the code reads it, so a length that is off   *)
(* gives words of another kind.  A word of zeros is <<>>: a field read     *)
(* from it is zero.                                                        *)
(***************************************************************************)
EXTENDS Integers, Sequences, FiniteSets, SequencesExt

CONSTANTS
    IPv4, IPv6,    \* the addresses of the two families
    LinkLocal,     \* those of IPv6 that are link-local
    Octets,        \* per name: its length in UTF-8
    LabelSpace     \* 2^20

NoAddr == "invalid"     \* the zero netip.Addr
Unspecified == "unspecified"    \* the address 0.0.0.0

ASSUME CodecAssumption ==
    /\ IPv4 \subseteq STRING /\ IPv6 \subseteq STRING /\ IPv4 \cap IPv6 = {}
    /\ {NoAddr, Unspecified} \cap (IPv4 \cup IPv6) = {} /\ LinkLocal \subseteq IPv6
    /\ LabelSpace \in Nat \ {0}
    /\ DOMAIN Octets \subseteq STRING /\ \A n \in DOMAIN Octets : Octets[n] \in Nat
ASSUME NameAssumption == \A n \in DOMAIN Octets : Octets[n] = 0 => n = ""

IsAddr(a) == a # NoAddr

------------------------------------------------------------------------------
(* Words *)

Field(w, i, zero) == IF i \in DOMAIN w THEN w[i] ELSE zero

Uint(n) == IF n = 0 THEN <<>> ELSE <<"uint", n>>
UintAt(w) == Field(w, 2, 0)
Flags(F) == IF F = {} THEN <<>> ELSE <<"flags", F>>
FlagsAt(w) == Field(w, 2, {})

(* Entries packed k to a word.                                             *)
Packed(s, k) ==
    [i \in 1 .. (Len(s) + k - 1) \div k |->
        <<"packed", SubSeq(s, k * (i - 1) + 1, IF k * i < Len(s) THEN k * i ELSE Len(s))>>]
Unpacked(ws) == FlattenSeq([i \in 1 .. Len(ws) |-> Field(ws[i], 2, <<>>)])

(* The words of an n-word datum, and the datum that words are the whole of. *)
Data(d, n) == [i \in 1 .. n |-> <<"data", d, i>>]
DataAt(ws) ==
    IF ws = <<>> THEN ""
    ELSE IF \A i \in 1 .. Len(ws) : ws[i] = <<>> THEN Unspecified
    ELSE LET d == Field(ws[1], 2, Unspecified)
         IN  IF ws = Data(d, Len(ws)) THEN d ELSE "garbled"

(* netip.Addr.AsSlice.                                                     *)
AddrLen(a) == IF a \in IPv4 THEN 1 ELSE IF a \in IPv6 THEN 4 ELSE 0
AsSlice(a) == Data(a, AddrLen(a))

PaddedWords(octets) == (octets + 3) \div 4

(* Words i .. i + n - 1; a slice past the end panics.                      *)
Slice(ws, i, n) == SubSeq(ws, i, i + n - 1)

(* The elements of a sequence with a property.                             *)
Keep(seq, Test(_)) ==
    FlattenSeq([i \in 1 .. Len(seq) |-> IF Test(seq[i]) THEN <<seq[i]>> ELSE <<>>])

(* A reader's way over n words: what it makes of the words at i, and to    *)
(* where it goes on from there, until it stops at words it cannot use.     *)
Walk(n, Stops(_), Bad(_), Good(_), Goes(_)) ==
    LET from[i \in 1 .. n + 1] ==
            IF i = n + 1 THEN <<>>
            ELSE IF Stops(i) THEN <<Bad(i)>>
            ELSE <<Good(i)>> \o from[Goes(i)]
    IN  from[1]

(* The sum of what Len says of the elements of a sequence.                 *)
TotalLen(seq, Length(_)) ==
    LET upTo[i \in 0 .. Len(seq)] == IF i = 0 THEN 0 ELSE upTo[i - 1] + Length(seq[i])
    IN  upTo[Len(seq)]

------------------------------------------------------------------------------
(* TLVs: records whose type names the kind.  Of each kind: the words of    *)
(* the value Serialize writes, and the record DecodeFromBytes makes of     *)
(* them.                                                                   *)

(* Flags of a Stateful PCE capability that survive: the others are neither *)
(* extracted nor written.                                                  *)
DefinedStatefulPCEFlags ==
    {"LSPUpdate", "IncludeDBVersion", "LSPInstantiation", "TriggeredResync",
     "DeltaLSPSync", "TriggeredInitialSync", "Color"}
StatefulPCECapability(flags) ==
    [type |-> "StatefulPCECapability", flags |-> flags \cap DefinedStatefulPCEFlags]
StatefulPCECapabilityValue(t) == <<Flags(t.flags)>>
StatefulPCECapabilityOf(ws) == StatefulPCECapability(FlagsAt(ws[1]))

LSPDBVersion(version) == [type |-> "LSPDBVersion", version |-> version]
LSPDBVersionValue(t) == Data(t.version, 2)
LSPDBVersionOf(ws) == LSPDBVersion(DataAt(ws))

SRPCECapability(flags, msd) ==
    [type |-> "SRPCECapability", flags |-> flags, msd |-> msd]
SRPCECapabilityValue(t) == <<<<"flags", t.flags, t.msd>>>>
SRPCECapabilityOf(ws) == SRPCECapability(FlagsAt(ws[1]), Field(ws[1], 3, 0))

SRv6PCECapability(flags) == [type |-> "SRv6PCECapability", flags |-> flags]
SRv6PCECapabilityValue(t) == <<Flags(t.flags)>>
SRv6PCECapabilityOf(ws) == SRv6PCECapability(FlagsAt(ws[1]))

MultipathCapability(flags, max) ==
    [type |-> "MultipathCapability", flags |-> flags, max |-> max]
MultipathCapabilityValue(t) == <<<<"flags", t.flags, t.max>>>>
MultipathCapabilityOf(ws) == MultipathCapability(FlagsAt(ws[1]), Field(ws[1], 3, 0))

PathSetupType(pst) == [type |-> "PathSetupType", pst |-> pst]
PathSetupTypeValue(t) == Data(t.pst, 1)
PathSetupTypeOf(ws) == PathSetupType(DataAt(ws))

SymbolicPathName(name) == [type |-> "SymbolicPathName", name |-> name]
SymbolicPathNameValue(t) == Data(t.name, PaddedWords(Octets[t.name]))
SymbolicPathNameOf(ws) == SymbolicPathName(DataAt(ws))

(* Tunnel IDs are left out: nothing reads them.                            *)
LSPIdentifiers(type, src, dst, lspID) ==
    [type |-> type, src |-> src, dst |-> dst, lspID |-> lspID]
IPv4LSPIdentifiersValue(t) == AsSlice(t.src) \o <<Uint(t.lspID), <<>>>> \o AsSlice(t.dst)
IPv4LSPIdentifiersOf(ws) ==
    LSPIdentifiers("IPv4LSPIdentifiers", DataAt(Slice(ws, 1, 1)), DataAt(Slice(ws, 4, 1)),
                   UintAt(ws[2]))
IPv6LSPIdentifiersValue(t) ==
    AsSlice(t.src) \o <<Uint(t.lspID), <<>>, <<>>, <<>>, <<>>>> \o AsSlice(t.dst)
IPv6LSPIdentifiersOf(ws) ==
    LSPIdentifiers("IPv6LSPIdentifiers", DataAt(Slice(ws, 1, 4)), DataAt(Slice(ws, 10, 4)),
                   UintAt(ws[5]))

ExtendedAssociationID(type, color, endpoint) ==
    [type |-> type, color |-> color, endpoint |-> endpoint]
ExtendedAssociationIDValue(t) == <<Uint(t.color)>> \o AsSlice(t.endpoint)
ExtendedAssociationIDOf(type, ws) ==
    ExtendedAssociationID(type, UintAt(ws[1]), DataAt(Slice(ws, 2, Len(ws) - 1)))

(* An IPv4 originator fills the last word of the address field (0.0.0.0    *)
(* adds nothing to its zeros); a field whose upper words are zero is read  *)
(* as IPv4.                                                                *)
CandidatePathIdentifier(type, asn, addr) ==
    [type |-> type, asn |-> asn, addr |-> addr, discriminator |-> 1]
CandidatePathIdentifierValue(t) ==
    <<<<"origin">>, Uint(t.asn)>>
        \o [i \in 1 .. 4 - AddrLen(t.addr) |-> <<>>] \o AsSlice(t.addr)
        \o <<Uint(t.discriminator)>>
CandidatePathIdentifierOf(type, ws) ==
    LET isIPv4 == \A i \in 3 .. 5 : ws[i] = <<>>
        first == IF isIPv4 THEN 6 ELSE 3
    IN  [CandidatePathIdentifier(type, UintAt(ws[2]), DataAt(SubSeq(ws, first, 6)))
            EXCEPT !.discriminator = UintAt(ws[7])]

CandidatePathPreference(type, preference) == [type |-> type, preference |-> preference]
CandidatePathPreferenceValue(t) == <<Uint(t.preference)>>
CandidatePathPreferenceOf(type, ws) == CandidatePathPreference(type, UintAt(ws[1]))

Color(color) == [type |-> "Color", color |-> color]
ColorValue(t) == <<Uint(t.color)>>
ColorOf(ws) == Color(UintAt(ws[1]))

AssocTypeList(types) == [type |-> "AssocTypeList", types |-> types]
AssocTypeListValue(t) == Packed(t.types, 2)
AssocTypeListOf(ws) == AssocTypeList(Unpacked(ws))

(* info is octets long.                                                    *)
VendorInformation(enterprise, info, octets) ==
    [type |-> "VendorInformation", enterprise |-> enterprise, info |-> info, octets |-> octets]
VendorInformationValue(t) ==
    Data(t.enterprise, 1) \o Data(t.info, PaddedWords(t.octets))
VendorInformationOf(ws, octets) ==
    VendorInformation(DataAt(Slice(ws, 1, 1)), DataAt(Tail(ws)), octets - 4)

(* A TLV kept as raw bytes.                                                *)
UnknownTLV(typ, octets, value) ==
    [type |-> "UnknownTLV", typ |-> typ, octets |-> octets, value |-> value]

(* The value lengths the code fixes.                                       *)
ValueLength ==
    [StatefulPCECapability |-> 4, LSPDBVersion |-> 8, SRPCECapability |-> 4,
     SRv6PCECapability |-> 4, MultipathCapability |-> 4, PathSetupType |-> 4,
     IPv4LSPIdentifiers |-> 16, IPv6LSPIdentifiers |-> 52,
     ExtendedAssociationIDIPv4Juniper |-> 8, SRPolicyCPathID |-> 28,
     SRPolicyCPathIDJuniper |-> 28, SRPolicyCPathPreference |-> 4,
     SRPolicyCPathPreferenceJuniper |-> 4, Color |-> 4]

CPathIDs == {"SRPolicyCPathID", "SRPolicyCPathIDJuniper"}
CPathPreferences == {"SRPolicyCPathPreference", "SRPolicyCPathPreferenceJuniper"}
ExtendedAssociationIDs == {"ExtendedAssociationID", "ExtendedAssociationIDIPv4Juniper"}

(* The Length field Serialize writes, and the words after the header, of   *)
(* every kind but one that holds TLVs itself.                              *)
PlainLength(t) ==
    CASE t.type = "SymbolicPathName" -> Octets[t.name]
      [] t.type = "ExtendedAssociationID" -> 4 + 4 * AddrLen(t.endpoint)
      [] t.type = "AssocTypeList" -> 2 * Len(t.types)
      [] t.type = "VendorInformation" -> 4 + t.octets
      [] t.type = "UnknownTLV" -> t.octets
      [] OTHER -> ValueLength[t.type]

PlainValue(t) ==
    CASE t.type = "StatefulPCECapability" -> StatefulPCECapabilityValue(t)
      [] t.type = "LSPDBVersion" -> LSPDBVersionValue(t)
      [] t.type = "SRPCECapability" -> SRPCECapabilityValue(t)
      [] t.type = "SRv6PCECapability" -> SRv6PCECapabilityValue(t)
      [] t.type = "MultipathCapability" -> MultipathCapabilityValue(t)
      [] t.type = "PathSetupType" -> PathSetupTypeValue(t)
      [] t.type = "SymbolicPathName" -> SymbolicPathNameValue(t)
      [] t.type = "IPv4LSPIdentifiers" -> IPv4LSPIdentifiersValue(t)
      [] t.type = "IPv6LSPIdentifiers" -> IPv6LSPIdentifiersValue(t)
      [] t.type \in ExtendedAssociationIDs -> ExtendedAssociationIDValue(t)
      [] t.type \in CPathIDs -> CandidatePathIdentifierValue(t)
      [] t.type \in CPathPreferences -> CandidatePathPreferenceValue(t)
      [] t.type = "Color" -> ColorValue(t)
      [] t.type = "AssocTypeList" -> AssocTypeListValue(t)
      [] t.type = "VendorInformation" -> VendorInformationValue(t)
      [] t.type = "UnknownTLV" -> t.value

(* What Len says, the header included.                                     *)
PlainLen(t) == 4 + 4 * PaddedWords(PlainLength(t))

TLVHdr(type, length) == <<"tlv", type, length>>
WireType(t) == IF t.type = "UnknownTLV" THEN t.typ ELSE t.type
PlainWords(t) == <<TLVHdr(WireType(t), PlainLength(t))>> \o PlainValue(t)

(* PathSetupTypeCapability: a count, the path setup types one to an octet, *)
(* sub-TLVs.  The length is summed from their Len.                         *)
PathSetupTypeCapability(psts, subTLVs) ==
    [type |-> "PathSetupTypeCapability", psts |-> psts, subTLVs |-> subTLVs]
PathSetupTypeCapabilityLength(t) ==
    4 + 4 * PaddedWords(Len(t.psts)) + TotalLen(t.subTLVs, PlainLen)
PathSetupTypeCapabilityValue(t) ==
    <<Uint(Len(t.psts))>> \o Packed(t.psts, 4)
        \o FlattenSeq([i \in 1 .. Len(t.subTLVs) |-> PlainWords(t.subTLVs[i])])

HoldsTLVs(t) == t.type = "PathSetupTypeCapability"
TLVLen(t) == IF HoldsTLVs(t) THEN 4 + PathSetupTypeCapabilityLength(t) ELSE PlainLen(t)
TLVWords(t) ==
    IF HoldsTLVs(t)
    THEN <<TLVHdr(t.type, PathSetupTypeCapabilityLength(t))>> \o PathSetupTypeCapabilityValue(t)
    ELSE PlainWords(t)
TLVsWords(tlvs) == FlattenSeq([i \in 1 .. Len(tlvs) |-> TLVWords(tlvs[i])])
TLVsLen(tlvs) == TotalLen(tlvs, TLVLen)

(* Decoding: an error ends it, and is the last TLV of the result.          *)
ErrorTLV == [type |-> "error"]
IsOK(tlvs) == ErrorTLV \notin ToSet(tlvs)

LengthAccepted(type, length) ==
    CASE type = "ExtendedAssociationID" -> length \in {8, 20}
      [] type = "SRv6PCECapability" -> length >= ValueLength[type]
      [] type = "VendorInformation" -> length >= 4
      [] type = "AssocTypeList" -> length % 2 = 0
      [] type \in DOMAIN ValueLength -> length = ValueLength[type]
      [] OTHER -> TRUE

DecodeUnknown(type, length, ws) == UnknownTLV(type, length, ws)

DecodePlain(type, length, ws) ==
    IF ~LengthAccepted(type, length) THEN ErrorTLV ELSE
    CASE type = "StatefulPCECapability" -> StatefulPCECapabilityOf(ws)
      [] type = "LSPDBVersion" -> LSPDBVersionOf(ws)
      [] type = "SRPCECapability" -> SRPCECapabilityOf(ws)
      [] type = "SRv6PCECapability" -> SRv6PCECapabilityOf(ws)
      [] type = "MultipathCapability" -> MultipathCapabilityOf(ws)
      [] type = "PathSetupType" -> PathSetupTypeOf(ws)
      [] type = "SymbolicPathName" -> SymbolicPathNameOf(ws)
      [] type = "IPv4LSPIdentifiers" -> IPv4LSPIdentifiersOf(ws)
      [] type = "IPv6LSPIdentifiers" -> IPv6LSPIdentifiersOf(ws)
      [] type \in ExtendedAssociationIDs -> ExtendedAssociationIDOf(type, ws)
      [] type \in CPathIDs -> CandidatePathIdentifierOf(type, ws)
      [] type \in CPathPreferences -> CandidatePathPreferenceOf(type, ws)
      [] type = "Color" -> ColorOf(ws)
      [] type = "AssocTypeList" -> AssocTypeListOf(ws)
      [] type = "VendorInformation" -> VendorInformationOf(ws, length)
      [] OTHER -> DecodeUnknown(type, length, ws)

(* decodeTLVSequence: each header says how far to go on.                   *)
DecodeTLVSequence(ws, Decode(_, _, _)) ==
    LET length(i) == Field(ws[i], 3, 0)
        next(i) == i + 1 + PaddedWords(length(i))
        tlv(i) == Decode(Field(ws[i], 2, "none"), length(i), SubSeq(ws, i + 1, next(i) - 1))
        fails(i) == \/ ws[i] # <<>> /\ ws[i][1] # "tlv"
                    \/ next(i) > Len(ws) + 1 \/ tlv(i) = ErrorTLV
        error(i) == ErrorTLV
    IN  Walk(Len(ws), fails, error, tlv, next)

DecodeSubTLVs(ws) == DecodeTLVSequence(ws, DecodePlain)

PathSetupTypeCapabilityOf(ws) ==
    LET n == UintAt(ws[1])
        first == 2 + PaddedWords(n)
        subTLVs == DecodeSubTLVs(SubSeq(ws, first, Len(ws)))
    IN  IF ws = <<>> \/ first > Len(ws) + 1 \/ ~IsOK(subTLVs) THEN ErrorTLV
        ELSE PathSetupTypeCapability(SubSeq(Unpacked(SubSeq(ws, 2, first - 1)), 1, n), subTLVs)

DecodeTLV(type, length, ws) ==
    IF type = "PathSetupTypeCapability" THEN PathSetupTypeCapabilityOf(ws)
    ELSE DecodePlain(type, length, ws)

DecodeTLVs(ws) == DecodeTLVSequence(ws, DecodeTLV)
DecodeVendorTLVs(ws) == DecodeTLVSequence(ws, DecodeUnknown)

(* The first TLV of one of the types.                                      *)
HasTLV(tlvs, types) == \E i \in 1 .. Len(tlvs) : tlvs[i].type \in types
FirstTLV(tlvs, types) == tlvs[SelectInSeq(tlvs, LAMBDA t : t.type \in types)]
LastTLV(tlvs, types) == tlvs[SelectLastInSeq(tlvs, LAMBDA t : t.type \in types)]
=============================================================================
