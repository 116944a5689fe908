--------------------------- MODULE MCPCEPExchange ---------------------------
(***************************************************************************)
(* Instances of PCEPExchange: one PCC of each kind, IPv4 and IPv6, SR-MPLS *)
(* and SRv6 paths with and without a NAI, an LSP signalled by RSVP.        *)
(***************************************************************************)
EXTENDS PCEPExchange

MCIPv4 == {"10.0.0.1", "10.0.0.2"}
MCIPv6 == {"2001:db8::1", "2001:db8::2", "fe80::1"}
MCLinkLocal == {"fe80::1"}
MCOctets == "" :> 0 @@ "pol" :> 3 @@ "policy-one" :> 10 @@ "lsp4" :> 4
MCLabelSpace == 1048576
MCOctetSpace == 256

Node == SegmentSRMPLS(16001, "", "10.0.0.1", NoAddr)
Label == SegmentSRMPLS(16002, "", NoAddr, NoAddr)
LSE == SegmentSRMPLS(16003, "tc5", "10.0.0.1", "10.0.0.2")
Adjacency6 == SegmentSRMPLS(24001, "", "2001:db8::1", "2001:db8::2")
End == SegmentSRv6("2001:db8::1", "", FALSE, "2001:db8::1", NoAddr)
UA == SegmentSRv6("2001:db8::2", "32,16,0,80", TRUE, "2001:db8::1", "2001:db8::2")
LinkLocalAdjacency == SegmentSRMPLS(24002, "", "fe80::1", "2001:db8::2")
Hop == RSVPIPv4Prefix("10.0.0.2")

Policy(name, segs, src, dst, color) ==
    [plspID |-> 0, name |-> name, segs |-> segs, src |-> src, dst |-> dst,
     color |-> color, preference |-> 100]
Asks4 == {Policy("policy-one", <<Node, Label>>, "10.0.0.1", "10.0.0.2", 7),
          Policy("policy-one", <<LSE>>, "10.0.0.1", "10.0.0.2", 7)}
Asks6 == {Policy("pol", <<End, UA>>, "2001:db8::1", "2001:db8::2", 8),
          Policy("pol", <<Adjacency6, LinkLocalAdjacency>>, "2001:db8::1", "2001:db8::2", 8)}
MCPaths == [igp |-> <<Node>>, te |-> <<Node, LSE>>, delay |-> <<Label>>, hopcount |-> <<Label>>]

LSP(name, segs, src, dst, color, preference, metric) ==
    [name |-> name, segs |-> segs, src |-> src, dst |-> dst, color |-> color,
     preference |-> preference, lspID |-> 1, oFlag |-> 1, metric |-> metric]
SRLSP == LSP("lsp4", <<Label>>, "10.0.0.1", "10.0.0.2", 3, 50, 1)
RSVPLSP == LSP("pol", <<Hop>>, "10.0.0.2", "10.0.0.1", 4, 60, 0)
SRv6LSP == LSP("pol", <<UA>>, "2001:db8::1", "2001:db8::2", 5, 70, 0)

Offer(colorFlag) ==
    <<[type |-> "StatefulPCECapability", flags |-> {"LSPUpdate", "LSPInstantiation", "P2mp"}
                            \cup (IF colorFlag THEN {"Color"} ELSE {})],
      LSPDBVersion("version9")>>
PathSetup == PathSetupTypeCapability(<<"SRTE", "SRv6TE">>,
                <<SRPCECapability({"L"}, 10), SRv6PCECapability({"N"})>>)

Pcc(caps, carries, ids, srp, obeys, ted, known, asks) ==
    [caps |-> caps, carries |-> carries, ids |-> ids, srp |-> srp, obeys |-> obeys,
     ted |-> ted, lsps |-> known, asks |-> asks]
Cisco == Pcc(Offer(FALSE) \o <<AssocTypeList(<<"SRPolicy", "SRPolicyCisco">>), PathSetup>>,
             "vendor", TRUE, FALSE, FALSE, FALSE, <<SRLSP>>, Asks4)
Juniper == Pcc(Offer(FALSE) \o <<AssocTypeList(<<"SRPolicyJuniper">>), PathSetup>>,
               "juniper", FALSE, TRUE, FALSE, FALSE, <<SRLSP, RSVPLSP>>, Asks4 \cup Asks6)
Standard == Pcc(Offer(FALSE) \o <<PathSetup, AssocTypeList(<<"SRPolicy">>)>>,
                "association", FALSE, TRUE, FALSE, FALSE, <<SRv6LSP, SRLSP>>, Asks6)
FRR == Pcc(Offer(TRUE) \o <<PathSetup, MultipathCapability({"O"}, 2), UnknownTLV("F0", 2, <<<<"f0">>>>),
                            VendorInformation("9", "info", 6)>>,
           "color", TRUE, FALSE, FALSE, FALSE, <<>>, Asks4)
Computed == Pcc(Offer(FALSE) \o <<PathSetup>>, "association", TRUE, FALSE, FALSE, TRUE, <<SRLSP>>, Asks4)

MCPccs == {Cisco, Juniper, Standard, FRR, Computed}
ASSUME MCAskAssumption == \A p \in MCPccs : \A policy \in p.asks : IsAsk(policy)
OnePcc == {Standard}
=============================================================================
