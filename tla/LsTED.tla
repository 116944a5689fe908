-------------------------------- MODULE LsTED --------------------------------
(***************************************************************************)
(* The traffic engineering database of pkg/table/ted.go and how it is      *)
(* built: the goroutine of NewPCE starts from an empty LsTED and applies   *)
(* the elements GoBGP listed, one UpdateTED method after the other.  The   *)
(* list may name routers before their own element comes, repeat elements   *)
(* (a prefix list is converted once per destination) and hold elements of  *)
(* other autonomous systems.                                               *)
(*                                                                         *)
(* Nodes are objects that links point to: heap holds the objects, nodes is *)
(* the map from router IDs to them.  Addresses, names and areas are left   *)
(* out.                                                                    *)
(***************************************************************************)
EXTENDS Integers, Sequences, FiniteSets, SequencesExt

CONSTANTS
    ASN,            \* the configured AS number
    Listings,       \* the lists of elements GoBGP may hand over
    UintSpace,      \* 2^32
    MPLSLabelMax,   \* 2^20 - 1
    MetricTypes     \* the metrics a link may carry

VARIABLES
    listing,    \* the elements of this update, in GoBGP's order
    applied,    \* how many of them UpdateTED was called for
    ted         \* the LsTED under construction, then published

tedVars == <<listing, applied, ted>>

Uint == 0 .. (UintSpace - 1)

------------------------------------------------------------------------------
(* Elements, nodes and links *)

NodeElem(router, asn, begin, end) ==
    [kind |-> "node", router |-> router, asn |-> asn, begin |-> begin, end |-> end]
LinkElem(local, remote, localASN, remoteASN, link) ==
    [kind |-> "link", router |-> local, remote |-> remote, asn |-> localASN,
     remoteASN |-> remoteASN, link |-> link]
PrefixElem(router, asn, prefix) ==
    [kind |-> "prefix", router |-> router, asn |-> asn, prefix |-> prefix]
SRv6Elem(router, asn, sids) ==
    [kind |-> "srv6SID", router |-> router, asn |-> asn, sids |-> sids]

(* metrics maps some of MetricTypes to values; adjSID 0 stands for none.   *)
Link(metrics, adjSID, endX) == [metrics |-> metrics, adjSID |-> adjSID, endX |-> endX]

(* host says that the prefix is an address: /32 or /128.                   *)
LsPrefix(prefix, host, hasSID, index) ==
    [prefix |-> prefix, host |-> host, hasSID |-> hasSID, index |-> index]

Metrics == UNION {[S -> Uint] : S \in SUBSET MetricTypes}
LinkAttrs == [metrics : Metrics, adjSID : Nat, endX : SUBSET STRING]
LsPrefixes == [prefix : STRING, host : BOOLEAN, hasSID : BOOLEAN, index : Uint]

IsElem(e) ==
    /\ e.router \in STRING
    /\ \/ e.kind = "node" /\ e.begin \in Uint /\ e.end \in Uint
       \/ e.kind = "link" /\ e.remote \in STRING /\ e.link \in LinkAttrs
       \/ e.kind = "prefix" /\ e.prefix \in LsPrefixes
       \/ e.kind = "srv6SID" /\ e.sids \in Seq(STRING)

ASSUME TEDAssumption ==
    /\ UintSpace \in Nat \ {0}
    /\ MPLSLabelMax \in Uint
    /\ \A s \in Listings : Len(s) \in Nat /\ \A i \in 1 .. Len(s) : IsElem(s[i])

LsLinks == [remote : Nat, metrics : Metrics, adjSID : Nat, endX : SUBSET STRING]
LsNodes ==
    [router : STRING, begin : Uint, end : Uint, links : Seq(LsLinks),
     prefixes : Seq(LsPrefixes), srv6 : Seq(Seq(STRING))]

NewLsNode(router) ==
    [router |-> router, begin |-> 0, end |-> 0, links |-> <<>>, prefixes |-> <<>>,
     srv6 |-> <<>>]

EmptyTED == [heap |-> <<>>, nodes |-> <<>>]

Routers == DOMAIN ted.nodes
Node(r) == ted.heap[ted.nodes[r]]
RemoteOf(link) == ted.heap[link.remote].router

------------------------------------------------------------------------------
(* The UpdateTED methods *)

AddNode(t, node) ==
    [heap  |-> Append(t.heap, node),
     nodes |-> [r \in DOMAIN t.nodes \cup {node.router} |->
                   IF r = node.router THEN Len(t.heap) + 1 ELSE t.nodes[r]]]

WithNode(t, r) == IF r \in DOMAIN t.nodes THEN t ELSE AddNode(t, NewLsNode(r))

(* The elements of another AS are passed over.                             *)
Foreign(e) == e.asn # ASN \/ (e.kind = "link" /\ e.remoteASN # ASN)

Applying(kind) ==
    /\ applied < Len(listing)
    /\ listing[applied + 1].kind = kind
    /\ ~Foreign(listing[applied + 1])
    /\ applied' = applied + 1
    /\ UNCHANGED listing

(* A node that is there already, because a link or a prefix named it, is   *)
(* changed in place.                                                       *)
ReplaceNode(t, e) ==       \* mutant: the element's object takes its place
    AddNode(t, [NewLsNode(e.router) EXCEPT !.begin = e.begin, !.end = e.end])
MergeNode(t, e) ==
    LET u == WithNode(t, e.router)
    IN  [u EXCEPT !.heap[u.nodes[e.router]] =
            [@ EXCEPT !.begin = e.begin, !.end = e.end]]

UpdateNode ==
    /\ Applying("node")
    /\ ted' = MergeNode(ted, listing[applied + 1])

(* Both ends are created if need be, and the link joins the local one.     *)
AddLink(t, e) ==
    LET u == WithNode(WithNode(t, e.router), e.remote)
        l == [remote |-> u.nodes[e.remote], metrics |-> e.link.metrics,
              adjSID |-> e.link.adjSID, endX |-> e.link.endX]
    IN  [u EXCEPT !.heap[u.nodes[e.router]].links = Append(@, l)]

UpdateLink ==
    /\ Applying("link")
    /\ ted' = AddLink(ted, listing[applied + 1])

(* The first element of a prefix stays.                                    *)
AppendPrefix(t, e) ==      \* mutant: a prefix that is there is added again
    LET u == WithNode(t, e.router)
    IN  [u EXCEPT !.heap[u.nodes[e.router]].prefixes = Append(@, e.prefix)]
AddPrefix(t, e) ==
    LET u     == WithNode(t, e.router)
        known == u.heap[u.nodes[e.router]].prefixes
    IN  IF \E i \in 1 .. Len(known) : known[i].prefix = e.prefix.prefix THEN u
        ELSE [u EXCEPT !.heap[u.nodes[e.router]].prefixes = Append(@, e.prefix)]

UpdatePrefix ==
    /\ Applying("prefix")
    /\ ted' = AddPrefix(ted, listing[applied + 1])

AddSRv6SID(t, e) ==
    LET u == WithNode(t, e.router)
    IN  [u EXCEPT !.heap[u.nodes[e.router]].srv6 = Append(@, e.sids)]

UpdateSRv6SID ==
    /\ Applying("srv6SID")
    /\ ted' = AddSRv6SID(ted, listing[applied + 1])

IgnoreForeign ==
    /\ applied < Len(listing)
    /\ Foreign(listing[applied + 1])
    /\ applied' = applied + 1
    /\ UNCHANGED <<listing, ted>>

UpdateTED == UpdateNode \/ UpdateLink \/ UpdatePrefix \/ UpdateSRv6SID \/ IgnoreForeign

TEDInit ==
    /\ listing \in Listings
    /\ applied = 0
    /\ ted = EmptyTED

(* setTED: readers see the TED once every element was applied.             *)
Published == applied = Len(listing)

------------------------------------------------------------------------------
(* Segments and the SID index *)

MPLS(sid) == [family |-> "mpls", sid |-> sid]
SRv6(sid, local) == [family |-> "srv6", sid |-> sid, local |-> local]
NoSegment == [family |-> "none"]

(* Where NodeSegment finds a SID: it takes the first.                      *)
WithSID(node) == {i \in 1 .. Len(node.prefixes) : node.prefixes[i].hasSID}
WithSRv6(node) == {i \in 1 .. Len(node.srv6) : node.srv6[i] # <<>>}

PrefixIndex(node) == node.prefixes[Min(WithSID(node))].index
SRv6Address(node) == node.srv6[Min(WithSRv6(node))][1]

(* NodeSegment: a Prefix-SID goes before an SRv6 SID; the label is the sum *)
(* in 32 bits, whatever the SRGB.                                          *)
NodeSegment(node) ==
    IF WithSID(node) # {} THEN MPLS((node.begin + PrefixIndex(node)) % UintSpace)
    ELSE IF WithSRv6(node) # {} THEN SRv6(SRv6Address(node), SRv6Address(node))
    ELSE NoSegment

(* srgbLabel: the label of an index must be inside the SRGB.               *)
HasLabel(node, index) ==
    /\ node.begin # 0
    /\ node.begin + index <= MPLSLabelMax
    /\ node.end > node.begin => node.begin + index < node.end

MPLSIndexes(node) ==       \* mutant: the index is taken for the label
    {p.index : p \in {q \in Range(node.prefixes) : q.hasSID /\ HasLabel(node, q.index)}}
    \cup ({l.adjSID : l \in Range(node.links)} \ {0})
MPLSSIDs(node) ==
    {node.begin + p.index : p \in {q \in Range(node.prefixes) :
                                       q.hasSID /\ HasLabel(node, q.index)}}
    \cup ({l.adjSID : l \in Range(node.links)} \ {0})
SRv6SIDs(node) ==
    (UNION {Range(sids) : sids \in Range(node.srv6)})
    \cup (UNION {l.endX : l \in Range(node.links)})

(* SIDIndex.Has: some node of the TED advertises the segment.              *)
Has(segment) ==
    \E r \in Routers :
        \/ segment.family = "mpls" /\ segment.sid \in MPLSSIDs(Node(r))
        \/ segment.family = "srv6" /\ segment.sid \in SRv6SIDs(Node(r))

MissingSegments(list) == {i \in 1 .. Len(list) : ~Has(list[i])}

------------------------------------------------------------------------------
(* Properties *)

(* The types of the TED.                                                   *)
TEDTypeOK ==
    /\ applied \in 0 .. Len(listing)
    /\ ted = [heap |-> ted.heap, nodes |-> ted.nodes]
    /\ ted.heap \in Seq(LsNodes)
    /\ Routers \subseteq STRING
    /\ ted.nodes = [r \in Routers |-> ted.nodes[r]]

(* Pointers and map agree: every node object is the one its router ID maps *)
(* to, so that what a link points to is the node that later elements       *)
(* update, and path computation over pointers is over the map.  (cspf.go   *)
(* 168-180 follows pointers and looks router IDs up in turn.)              *)
LinksPointIntoTED ==
    /\ \A r \in Routers : ted.nodes[r] \in 1 .. Len(ted.heap) /\ Node(r).router = r
    /\ \A i \in 1 .. Len(ted.heap) :
          /\ ted.heap[i].router \in Routers
          /\ ted.nodes[ted.heap[i].router] = i
          /\ \A k \in 1 .. Len(ted.heap[i].links) :
                ted.heap[i].links[k].remote \in 1 .. Len(ted.heap)

Own(kind) ==
    {i \in 1 .. applied : listing[i].kind = kind /\ ~Foreign(listing[i])}

(* Whatever the order of the elements: a router is there when an element   *)
(* of the AS names it, its SRGB is that of its node element if there is    *)
(* one, no link is lost or doubled, every prefix is there once.            *)
TEDIsMerge ==
    /\ Routers = {listing[i].router : i \in {j \in 1 .. applied : ~Foreign(listing[j])}}
                 \cup {listing[i].remote : i \in Own("link")}
    /\ \A r \in Routers :
        LET of(kind) == {i \in Own(kind) : listing[i].router = r}
            n == Node(r)
        IN  /\ IF of("node") = {} THEN <<n.begin, n.end>> = <<0, 0>>
               ELSE \E i \in of("node") : <<n.begin, n.end>> = <<listing[i].begin, listing[i].end>>
            /\ Len(n.links) = Cardinality(of("link"))
            /\ {<<RemoteOf(l), l.metrics, l.adjSID, l.endX>> : l \in Range(n.links)} =
                  {<<listing[i].remote, listing[i].link.metrics, listing[i].link.adjSID,
                     listing[i].link.endX>> : i \in of("link")}
            /\ Range(n.prefixes) \subseteq {listing[i].prefix : i \in of("prefix")}
            /\ Len(n.prefixes) = Cardinality({listing[i].prefix.prefix : i \in of("prefix")})
            /\ Range(n.srv6) = {listing[i].sids : i \in of("srv6SID")}
=============================================================================
