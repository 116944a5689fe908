----------------------------- MODULE BGPLSTable ------------------------------
(***************************************************************************)
(* From GoBGP's BGP-LS table to what `pola ted` shows: the conversion of   *)
(* destinations into TED elements (internal/gobgp/interface.go), the TED   *)
(* NewPCE publishes, the GetTED handler (pkg/server/grpc_server.go) and    *)
(* the TED its client rebuilds (cmd/pola/grpc/grpc_client.go).             *)
(*                                                                         *)
(* Readers never see a TED under construction, so that a fetch, the        *)
(* conversion of its destinations and the publication are one step here;   *)
(* LsTED has the steps of the merge and TEDFeed the goroutines.  As in     *)
(* LsTED, addresses of interfaces, names, areas and the topologies and     *)
(* behaviours of SRv6 SIDs are left out: of an address only matters here   *)
(* whether it parses.                                                      *)
(***************************************************************************)
EXTENDS LsTED

CONSTANTS
    Tables,         \* the tables GoBGP may hold: sequences of destinations
    MaxChanges      \* bound: changes of the table

VARIABLES
    table,          \* external: GoBGP's table
    source,         \* history: the table the TED was built from
    changes         \* counter for MaxChanges

tableVars == <<table, source, changes>>

------------------------------------------------------------------------------
(* Destinations, as the GoBGP API hands them over.  nlri and attr name the *)
(* kind of the NLRI and of the BGP-LS attribute, or say "none".            *)

Destination(kind, paths, attr, body) ==
    [nlri |-> kind, paths |-> paths, attr |-> attr, body |-> body]

(* ranges: the ranges of the SR capability; there may be no such TLV.      *)
NodeBody(router, asn, ranges) ==
    [router |-> router, asn |-> asn, hasSR |-> TRUE, ranges |-> ranges]
PlainBody(router, asn) == [router |-> router, asn |-> asn, hasSR |-> FALSE, ranges |-> <<>>]

(* parses: every address there is parses.  0 stands for no metric or SID.  *)
LinkBody(local, remote, asn, remoteASN, igp, te, delay, adjSID, endX, parses) ==
    [router |-> local, remote |-> remote, asn |-> asn, remoteASN |-> remoteASN,
     igp |-> igp, te |-> te, delay |-> delay, adjSID |-> adjSID, endX |-> endX,
     parses |-> parses]

(* An update announces several NLRIs at once: each destination made of it  *)
(* carries them all in MP-REACH; NoReach if that attribute is missing.     *)
NoReach == <<>>
PrefixBody(reach, sids, sid) == [reach |-> reach, sids |-> sids, sid |-> sid]
PrefixNLRI(router, asn, prefixes) ==
    [isPrefix |-> TRUE, router |-> router, asn |-> asn, prefixes |-> prefixes]
OtherNLRI == [isPrefix |-> FALSE, asn |-> 0]
SRv6Body(reach) == [reach |-> reach]
SRv6NLRI(router, asn, sids) == [router |-> router, asn |-> asn, sids |-> sids]

(* What the fields of the API hold when NLRI and attribute are of one kind.*)
IPPrefixes == [prefix : STRING, host : BOOLEAN, parses : BOOLEAN]
PrefixNLRIs ==
    [isPrefix : {TRUE}, router : STRING, asn : Nat, prefixes : Seq(IPPrefixes)]
    \cup [isPrefix : {FALSE}, asn : Nat]
Bodies ==
    [node    |-> [router : STRING, asn : Nat, hasSR : BOOLEAN,
                  ranges : Seq([begin : Uint, end : Uint])],
     link    |-> [router : STRING, remote : STRING, asn : Nat, remoteASN : Nat,
                  igp : Uint, te : Uint, delay : Uint, adjSID : Uint,
                  endX : SUBSET STRING, parses : BOOLEAN],
     prefix  |-> [reach : Seq(PrefixNLRIs), sids : Seq([algorithm : Nat, sid : Uint]),
                  sid : Uint],
     srv6SID |-> [reach : Seq([router : STRING, asn : Nat, sids : Seq(STRING)])]]
IsDestination(d) ==
    d.nlri = d.attr /\ d.nlri \in DOMAIN Bodies => d.body \in Bodies[d.nlri]

(* host is a matter of the prefix: its length is that of an address.       *)
PrefixesIn(t) ==
    UNION {UNION {Range(n.prefixes) : n \in {x \in Range(d.body.reach) : x.isPrefix}} :
           d \in {x \in Range(t) : x.nlri = "prefix" /\ x.attr = "prefix"}}
HostsAgree(t) == \A p, q \in PrefixesIn(t) : p.prefix = q.prefix => p.host = q.host

ASSUME TablesAssumption ==
    /\ MaxChanges \in Nat
    /\ {"igp", "te", "delay"} \subseteq MetricTypes
    /\ \A t \in Tables :
          /\ t \in Seq(Range(t))
          /\ \A i \in 1 .. Len(t) : IsDestination(t[i])
          /\ HostsAgree(t)

------------------------------------------------------------------------------
(* ConvertToTEDElem: which destinations it refuses, and what it makes of   *)
(* the others.  One without a BGP-LS attribute gives no element.           *)

getLsNode(b) ==
    IF ~b.hasSR THEN NodeElem(b.router, b.asn, 0, 0)
    ELSE NodeElem(b.router, b.asn, b.ranges[1].begin, b.ranges[1].end)

(* The IGP metric is always there, a TE metric or a delay unless it is 0.  *)
getLsLink(b) ==
    LET types == {"igp"} \cup (IF b.te = 0 THEN {} ELSE {"te"})
                         \cup (IF b.delay = 0 THEN {} ELSE {"delay"})
        value == [igp |-> b.igp, te |-> b.te, delay |-> b.delay]
    IN  LinkElem(b.router, b.remote, b.asn, b.remoteASN,
                 Link([m \in types |-> value[m]], b.adjSID, b.endX))

(* algo0PrefixSID: once there are repeated SIDs, the single one is not     *)
(* looked at; among them the first of algorithm 0 counts, be it index 0.   *)
Algorithm0(b) == {i \in 1 .. Len(b.sids) : b.sids[i].algorithm = 0}
algo0PrefixSID(b) ==
    IF b.sids = <<>> THEN {b.sid} \ {0}
    ELSE IF Algorithm0(b) = {} THEN {}
    ELSE {b.sids[Min(Algorithm0(b))].sid}

getLsPrefix(n, b) ==
    LET p == n.prefixes[1]
    IN  IF algo0PrefixSID(b) = {}
        THEN PrefixElem(n.router, n.asn, LsPrefix(p.prefix, p.host, FALSE, 0))
        ELSE PrefixElem(n.router, n.asn,
                        LsPrefix(p.prefix, p.host, TRUE, CHOOSE i \in algo0PrefixSID(b) : TRUE))
getLsPrefixList(b) == [i \in 1 .. Len(b.reach) |-> getLsPrefix(b.reach[i], b)]

getLsSrv6SID(n) == SRv6Elem(n.router, n.asn, n.sids)
getLsSrv6SIDList(b) == [i \in 1 .. Len(b.reach) |-> getLsSrv6SID(b.reach[i])]

convertByNlriType(d) ==
    CASE d.nlri = "node"    -> <<getLsNode(d.body)>>
      [] d.nlri = "link"    -> <<getLsLink(d.body)>>
      [] d.nlri = "prefix"  -> getLsPrefixList(d.body)
      [] d.nlri = "srv6SID" -> getLsSrv6SIDList(d.body)

RefusesNode(b) == b.hasSR /\ Len(b.ranges) # 1
RefusesPrefix(n) == ~n.isPrefix \/ Len(n.prefixes) # 1 \/ ~n.prefixes[1].parses
RefusesByType(d) ==
    \/ d.nlri \notin {"node", "link", "prefix", "srv6SID"}
    \/ d.attr # d.nlri
    \/ d.nlri = "node" /\ RefusesNode(d.body)
    \/ d.nlri = "link" /\ ~d.body.parses
    \/ d.nlri \in {"prefix", "srv6SID"} /\ d.body.reach = NoReach
    \/ d.nlri = "prefix" /\ \E i \in 1 .. Len(d.body.reach) : RefusesPrefix(d.body.reach[i])

Refuses(d) ==
    \/ d.paths # 1
    \/ d.nlri = "none"
    \/ d.attr # "none" /\ RefusesByType(d)

ConvertToTEDElem(d) == IF d.attr = "none" THEN <<>> ELSE convertByNlriType(d)

(* GetBGPLsNLRIs: one destination that is refused fails the whole fetch.   *)
Fetches(t) == \A i \in 1 .. Len(t) : ~Refuses(t[i])
GetBGPlsNLRIs(t) ==
    FlattenSeq([i \in 1 .. Len(t) |-> IF Refuses(t[i]) THEN <<>> ELSE ConvertToTEDElem(t[i])])

------------------------------------------------------------------------------
(* Publication *)

Apply(t, e) ==
    IF Foreign(e) THEN t
    ELSE CASE e.kind = "node"    -> MergeNode(t, e)
           [] e.kind = "link"    -> AddLink(t, e)
           [] e.kind = "prefix"  -> AddPrefix(t, e)
           [] e.kind = "srv6SID" -> AddSRv6SID(t, e)

(* NewPCE applies the elements to a TED of their own.                      *)
UpdateInPlace(elems) == FoldLeft(Apply, ted, elems)  \* mutant: on top of the old TED
BuildTED(elems) == FoldLeft(Apply, EmptyTED, elems)

TableInit ==
    /\ table \in Tables /\ source = <<>> /\ changes = 0
    /\ listing = <<>> /\ applied = 0 /\ ted = EmptyTED

TableChanges ==
    /\ changes < MaxChanges
    /\ changes' = changes + 1
    /\ table' \in Tables \ {table}
    /\ UNCHANGED <<source, tedVars>>

(* A fetch that fails leaves the TED as it is.                             *)
FetchAndPublish ==
    /\ Fetches(table) /\ source # table
    /\ source' = table
    /\ listing' = GetBGPlsNLRIs(table)
    /\ applied' = Len(listing')
    /\ ted' = BuildTED(listing')
    /\ UNCHANGED <<table, changes>>

------------------------------------------------------------------------------
(* GetTED and its client *)

(* Presence of a Prefix-SID survives as the presence of the field.         *)
buildLsLink(l) ==
    [remote |-> RemoteOf(l), metrics |-> l.metrics, adjSID |-> l.adjSID, endX |-> l.endX \ {""}]
convertLsPrefixes(prefixes) ==
    [i \in 1 .. Len(prefixes) |->
        [prefix |-> prefixes[i].prefix,
         sidIndex |-> IF prefixes[i].hasSID THEN {prefixes[i].index} ELSE {}]]
buildLsSrv6SID(sids) == Range(sids) \ {""}

convertLsNode(n) ==
    [router |-> n.router, begin |-> n.begin, end |-> n.end,
     links    |-> [i \in 1 .. Len(n.links) |-> buildLsLink(n.links[i])],
     prefixes |-> convertLsPrefixes(n.prefixes),
     srv6     |-> [i \in 1 .. Len(n.srv6) |-> buildLsSrv6SID(n.srv6[i])]]

GetTED == {convertLsNode(Node(r)) : r \in Routers}

(* The client makes all nodes first and looks the ends of links up among   *)
(* them; a router it does not find is a nil pointer, "" here.              *)
createLsLink(nodes, l) ==
    [l EXCEPT !.remote = IF \E n \in nodes : n.router = l.remote THEN @ ELSE ""]
createLsPrefix(p) ==
    [prefix |-> p.prefix, hasSID |-> p.sidIndex # {},
     index |-> IF p.sidIndex = {} THEN 0 ELSE CHOOSE i \in p.sidIndex : TRUE]

addLsNode(nodes, n) ==
    [begin |-> n.begin, end |-> n.end,
     links    |-> [i \in 1 .. Len(n.links) |-> createLsLink(nodes, n.links[i])],
     prefixes |-> [i \in 1 .. Len(n.prefixes) |-> createLsPrefix(n.prefixes[i])],
     srv6     |-> n.srv6]

ClientTED(nodes) ==
    [r \in {n.router : n \in nodes} |-> addLsNode(nodes, CHOOSE n \in nodes : n.router = r)]

------------------------------------------------------------------------------
(* What a table announces of the configured AS, in its own terms.  MP-REACH *)
(* is taken apart: <<destination, NLRI>> pairs.                             *)

Announcing(t, kind) == {t[i] : i \in {j \in 1 .. Len(t) : t[j].nlri = kind /\ t[j].attr = kind}}
AnnouncedNodes(t) == {d.body : d \in {x \in Announcing(t, "node") : x.body.asn = ASN}}
AnnouncedLinks(t) ==
    {i \in 1 .. Len(t) : /\ t[i].nlri = "link" /\ t[i].attr = "link"
                         /\ t[i].body.asn = ASN /\ t[i].body.remoteASN = ASN}
Reached(t, kind) ==
    UNION {{[body |-> d.body, nlri |-> d.body.reach[i]] :
                i \in {j \in 1 .. Len(d.body.reach) : d.body.reach[j].asn = ASN}} :
           d \in Announcing(t, kind)}

AnnouncedRouters(t) ==
    {b.router : b \in AnnouncedNodes(t)}
    \cup (UNION {{t[i].body.router, t[i].body.remote} : i \in AnnouncedLinks(t)})
    \cup {x.nlri.router : x \in Reached(t, "prefix") \cup Reached(t, "srv6SID")}

(* x announces its prefix with an index, or without one.                   *)
AnnouncesIndex(x, index) ==
    \/ x.body.sids = <<>> /\ index # 0 /\ x.body.sid = index
    \/ \E i \in 1 .. Len(x.body.sids) :
          /\ x.body.sids[i] = [algorithm |-> 0, sid |-> index]
          /\ \A j \in 1 .. (i - 1) : x.body.sids[j].algorithm # 0
AnnouncesNoIndex(x) ==
    IF x.body.sids = <<>> THEN x.body.sid = 0
    ELSE \A i \in 1 .. Len(x.body.sids) : x.body.sids[i].algorithm # 0

ShowsNode(n, t, r) ==
    LET own == {b \in AnnouncedNodes(t) : b.router = r}
    IN  IF own = {} THEN n.begin = 0 /\ n.end = 0
        ELSE \E b \in own :
                IF b.hasSR THEN b.ranges = <<[begin |-> n.begin, end |-> n.end]>>
                ELSE n.begin = 0 /\ n.end = 0

ShowsLink(l, b) ==
    /\ l.remote = b.remote /\ l.adjSID = b.adjSID /\ l.endX = b.endX \ {""}
    /\ l.metrics["igp"] = b.igp
    /\ \A m \in {"te", "delay"} :
          IF b[m] = 0 THEN m \notin DOMAIN l.metrics
          ELSE m \in DOMAIN l.metrics /\ l.metrics[m] = b[m]
ShowsLinks(n, t, r) ==
    LET own == {i \in AnnouncedLinks(t) : t[i].body.router = r}
    IN  /\ Len(n.links) = Cardinality(own)
        /\ \A i \in own : \E k \in 1 .. Len(n.links) : ShowsLink(n.links[k], t[i].body)
        /\ \A k \in 1 .. Len(n.links) : \E i \in own : ShowsLink(n.links[k], t[i].body)

ShowsPrefixes(n, t, r) ==
    LET own == {x \in Reached(t, "prefix") : x.nlri.router = r}
        name(x) == x.nlri.prefixes[1].prefix
    IN  /\ Len(n.prefixes) = Cardinality({name(x) : x \in own})
        /\ {n.prefixes[k].prefix : k \in 1 .. Len(n.prefixes)} = {name(x) : x \in own}
        /\ \A k \in 1 .. Len(n.prefixes) : \E x \in own :
              /\ name(x) = n.prefixes[k].prefix
              /\ IF n.prefixes[k].hasSID THEN AnnouncesIndex(x, n.prefixes[k].index)
                 ELSE AnnouncesNoIndex(x)

ShowsSIDs(n, t, r) ==
    (UNION {n.srv6[k] : k \in 1 .. Len(n.srv6)}) =
        (UNION {Range(x.nlri.sids) : x \in {y \in Reached(t, "srv6SID") : y.nlri.router = r}})
            \ {""}

(* What `pola ted` shows is what one whole table of GoBGP announced,       *)
(* through two conversions, a merge in the order of the table and the      *)
(* rebuilding by router ID: no router, link, prefix or SID is lost, comes  *)
(* from an earlier table or from another AS, or shows up twice because     *)
(* every destination carries all NLRIs of its update; no link ends at a    *)
(* router the client does not know (ted.go of the command follows the      *)
(* pointer), and a Prefix-SID of index 0 is one.  A table with a           *)
(* destination that cannot be converted is never seen in part.             *)
ClientShowsTable ==
    \E view \in {ClientTED(GetTED)} :
        /\ \A i \in 1 .. Len(source) : ~Refuses(source[i])
        /\ DOMAIN view = AnnouncedRouters(source)
        /\ \A r \in DOMAIN view :
              /\ ShowsNode(view[r], source, r) /\ ShowsLinks(view[r], source, r)
              /\ ShowsPrefixes(view[r], source, r) /\ ShowsSIDs(view[r], source, r)
=============================================================================
